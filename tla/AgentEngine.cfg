CONSTANTS
    audit = audit
    feedsync = feedsync
    alert = alert
    TaskOrder <- MCTaskOrder
    Enabled <- MCEnabled
    Capacity = 2
SPECIFICATION FairSpec
INVARIANTS StoppedIsQuiet StatusIsTrue NobodyIsStuck
PROPERTIES StopEnds QueuedRuns DueRuns
