CONSTANTS
    TrustedBrands <- MCBrands
    Lookalike <- MCLookalike
    Adjacent <- MCAdjacent
    SuspiciousTLDs = {"xyz", "info"}
    DecodedLabel <- MCDecoded
    DefaultAnalysisConfig <- MCDefaults
    HighEntropy = {"qweasdzxc1234lkjh"}
    ConfigFiles <- MCFiles
    Channels = {"webhook", "telegram"}
    VietnamBrands <- MCVietnam
    Subjects <- MCSubjects
    MinEvents = 2
    Limit = 2
    Failing = {"store", "channels", "restart"}
    MaxSecond = 2
    MaxEvents = 3
SPECIFICATION FairSpec
INVARIANTS NoEventLost RepeatsAreRecent DistancesLeast  SignsSuffice
PROPERTY EventsAreSent
