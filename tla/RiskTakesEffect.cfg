SPECIFICATION FairSpec
CONSTANTS
    shop = shop
    wwwShop = wwwShop
    feedSyncd = feedSyncd
    agentTask = agentTask
    q1 = q1
    q2 = q2
    Names = {shop}
    Syncers = {feedSyncd, agentTask}
    Replacing = {feedSyncd}
    CsvSources = {agentTask}
    BatchSize = 1
    MinWrites = 0
    MaxRevision = 1
    Faults = {"source", "readFeed", "evictRevision"}
    Domains = {shop}
    Requests = {q1}
    Candidates <- Suffixes
    Assessments <- Unsuspected
    Warned = {}
    Nothing = Nothing
INVARIANTS QuietMeansAnnounced StatusTellsOutcome NoOrphanStaging
PROPERTY ListedTakesEffect
