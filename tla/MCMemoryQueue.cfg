CONSTANTS
    Job = {j1, j2, j3}
    Priorities = {5, 10}
    MaxRetries = 3
    Delays = {0, 1}
    FirstBackoff = 1
    BackoffFactor = 2
    DurationRange = 8
SPECIFICATION FairSpec
INVARIANTS TypeOK JobInOnePlace
PROPERTIES NoOvertaking ImplementsJobQueue EventuallyHandedOut
CHECK_DEADLOCK FALSE
