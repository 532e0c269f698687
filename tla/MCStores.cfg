SPECIFICATION StoresSpec
CONSTANTS
    Things = {1, 2, 3}
    SortValues = {1, 2}
    Gone = Gone
    Queries = {"liked"}
    ModelOf <- OneModel
    ModelOrder <- Models
    Writers = {p1, p2}
    MaxCachedItems = 1
    PruneSize = 1
    MaxOps = 4
    MaxBatch = 1
    Requests = {p1, p2}
    RLLimit = 2
    RLSeconds = 2
    RLDay = 2
    Protocols = {"check", "count"}
    MaxTime = 5
    MaxUses = 4
    MaxEvicts = 1
    CRThings = {1, 2, 3}
    CRValues = {1, 2}
    CRProcs = {p1, p2}
    PrecomputeLimits = {2, 3}
    Missing = Missing
    MaxMutations = 3
    MaxReads = 1
    MaxCRFaults = 1
    Callers = {p1, p2}
    NoResult = NoResult
    MaxVersion = 2
    MaxBegins = 4
    MaxMemoFaults = 1
    Paragraphs = {1, 2}
    WikiRequests = {p1, p2}
    MaxRevisions = 2
    MaxDeletions = 1
    MaxWikiCrashes = 1
    camp2 = camp2
    Campaigns = {camp1, camp2}
    Nobody = Nobody
    Web = {p1, p2}
    MaxDay = 1
    MaxRun = 1
    MaxHolds = 2
    MaxPromoRequests = 3
    MaxPromoFaults = 1
CHECK_DEADLOCK FALSE
INVARIANTS StoresTypeOK QueryShowsChanges RateLimitExact ListingStored ListingBest NotOlderThanUpdate EditsKept LiveIsApproved ChargedIsCurrent JobSettles
PROPERTY PruneShrinks
SYMMETRY Alike
