SPECIFICATION Spec
CONSTANTS
    shop = shop
    wwwShop = wwwShop
    feedSyncd = feedSyncd
    q1 = q1
    q2 = q2
    Names <- BothNames
    Syncers = {feedSyncd}
    Replacing = {feedSyncd}
    CsvSources = {}
    BatchSize = 2
    MinWrites = 0
    MaxRevision = 2
    Faults = {"readRevision", "readCache", "writeCache", "evictFeed"}
    Domains = {wwwShop}
    Requests = {q1, q2}
    Candidates <- Suffixes
    Assessments <- Unsuspected
    Warned = {wwwShop}
    Nothing = Nothing
SYMMETRY RequestSymmetry
INVARIANTS CacheSound ServedSound
