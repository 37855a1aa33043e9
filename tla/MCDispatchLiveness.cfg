CONSTANTS
    Job = {s1, n1}
    ScrapeJobs = {s1}
    Priorities = {5}
    MaxRetries = 0
    ScrapeWorkers = {sw1}
    NotificationWorkers = {nw1}
    NoJob = NoJob
    DbMayFail = FALSE
SPECIFICATION FairSpec
INVARIANT RecordsTellTheTruth
PROPERTIES JobsSettle PoolsDrain
CHECK_DEADLOCK FALSE
