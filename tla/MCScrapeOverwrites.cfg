CONSTANTS
    Sites = {s1}
    Channels = {c1}
    SiteOf <- WebsiteOf
    ValidSchedules = {hourly, daily}
    BadSchedules = {bad}
    Requested <- RequestedSchedules
    hourly = hourly
    daily = daily
    bad = bad
    Requests = {r1, r2}
    ScrapeWorkers = {w1}
    Never = Never
    Gone = Gone
    None = None
    DbMayFail = FALSE
SPECIFICATION Spec
INVARIANT ScrapeKeepsSettings
CHECK_DEADLOCK FALSE
