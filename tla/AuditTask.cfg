CONSTANTS
    site = site
    host = host
    subhost = subhost
    Domains <- MCThree
    Above <- MCAboveThree
    MinOccurrences = 1
    MaxPerCycle = 2
    PerSecond = 2
    Failing = {"store", "deadline", "eventLog"}
    MaxNow = 1
    MaxSightings = 2
SPECIFICATION Spec
 
PROPERTY EarlierDecisionsStand
