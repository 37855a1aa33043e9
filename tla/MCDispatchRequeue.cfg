CONSTANTS
    Job = {s1, n1}
    ScrapeJobs = {s1}
    Priorities = {5}
    MaxRetries = 2
    ScrapeWorkers = {sw1}
    NotificationWorkers = {nw1}
    NoJob = NoJob
    DbMayFail = FALSE
SPECIFICATION Spec
INVARIANT RequeuedForScrapeWorkers
CHECK_DEADLOCK FALSE
