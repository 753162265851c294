CONSTANTS
    site = site
    host = host
    subhost = subhost
    Domains <- MCDomains
    Above <- MCAbove
    MinOccurrences = 1
    MaxPerCycle = 2
    PerSecond = 2
    Failing = {"store", "deadline"}
    MaxNow = 2
    MaxSightings = 2
SPECIFICATION Spec
PROPERTY AdminsAreRespected
