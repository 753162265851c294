SPECIFICATION FairSyncSpec
CONSTANTS
    n1 = n1
    n2 = n2
    feedSyncd = feedSyncd
    Names = {n1, n2}
    Syncers = {feedSyncd}
    Replacing = {feedSyncd}
    CsvSources = {feedSyncd}
    BatchSize = 1
    MinWrites = 0
    MaxRevision = 2
    Faults = {"timeout"}
PROPERTY RunsEnd
CHECK_DEADLOCK FALSE
