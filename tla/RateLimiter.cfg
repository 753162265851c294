CONSTANTS
    ip1 = ip1
    ip2 = ip2
    Keys <- MCKey
    Cost = 3
    Full = 6
    Second = 2
    Idle = 7
    MaxNow = 10
    MaxRefused = 2
SPECIFICATION Spec
INVARIANTS WithinRate HintSuffices
PROPERTY IdealSpec
