SPECIFICATION FairSyncSpec
CONSTANTS
    n1 = n1
    n2 = n2
    n3 = n3
    feedSyncd = feedSyncd
    Names = {n1, n2, n3}
    Syncers = {feedSyncd}
    Replacing = {feedSyncd}
    CsvSources = {}
    BatchSize = 2
    MinWrites = 0
    MaxRevision = 2
    Faults <- RunFaults
 
PROPERTIES  RunsEnd
