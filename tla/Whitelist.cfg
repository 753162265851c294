CONSTANTS
    Processes = {"core-api", "dns-resolver"}
    Updater = "core-api"
    WithFile = {"core-api", "dns-resolver"}
    FileList = {"shop.vn", "m.shop.vn"}
    Readers = {"inApi", "inResolver"}
    Home <- MCHome
    Domains = {"shop.vn", "m.shop.vn", "nhac.vn"}
    Suffixes <- MCSuffixes
    Size <- MCSize
    Hashes <- MCHashes
    H1 <- MCH1
    H2 <- MCH2
    Failing = {"query", "load", "write"}
    MaxRuns = 3
SPECIFICATION FairSpec
INVARIANTS AllowedWasListed KeptIsAllowed CompletedIsLoaded
PROPERTIES NoStandstill
CHECK_DEADLOCK FALSE
