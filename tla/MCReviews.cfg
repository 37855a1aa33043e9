CONSTANTS
    TrustpilotReviews = {r1, r2}
    FirstReviews <- EmptySite
    ScrapeWorkers = {w1, w2}
    MaxPages = 2
    PageSize = 1
    NoId = NoId
    LookupMayFail = TRUE
    DbMayFail = TRUE
SPECIFICATION Spec
INVARIANTS TypeOK EveryRowCounted SeenIsStored
PROPERTY CalmScrapeReadsAll
SYMMETRY Symmetry
CHECK_DEADLOCK FALSE
