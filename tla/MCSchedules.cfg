CONSTANTS
    Sites = {s1}
    Channels = {c1}
    SiteOf <- WebsiteOf
    ValidSchedules = {hourly, daily}
    BadSchedules = {bad}
    Requested <- RequestedSchedules
    hourly = hourly
    daily = daily
    bad = bad
    Requests = {r1, r2}
    ScrapeWorkers = {w1}
    Never = Never
    Gone = Gone
    None = None
    DbMayFail = TRUE
SPECIFICATION Spec
INVARIANTS TypeOK ScheduledAsStored EnabledIsScheduled ScrapedSiteStays
PROPERTY DeletedStaysDeleted
SYMMETRY Symmetry
CHECK_DEADLOCK FALSE
