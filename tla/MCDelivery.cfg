CONSTANTS
    Channels = {c1, c2}
    Reviews = {1, 2}
    NotificationWorkers = {w1, w2}
    None = None
    CallMayFail = TRUE
    DbMayFail = TRUE
    MayRestart = TRUE
    Answering = {c1}
SPECIFICATION FairSpec
INVARIANTS TypeOK ListedHasArrived ArrivesTwiceForAReason
PROPERTY OnlyRefusedReviewsBlock
CHECK_DEADLOCK FALSE
