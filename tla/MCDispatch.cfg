CONSTANTS
    Job = {s1, n1}
    ScrapeJobs = {s1}
    Priorities = {5}
    MaxRetries = 2
    ScrapeWorkers = {sw1, sw2}
    NotificationWorkers = {nw1}
    NoJob = NoJob
    DbMayFail = TRUE
SPECIFICATION Spec
INVARIANTS TypeOK HeldOnce ExecutionsBounded AttemptsAccounted OneLateJob DoneIsFinal
SYMMETRY Symmetry
CHECK_DEADLOCK FALSE
