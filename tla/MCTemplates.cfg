CONSTANTS
    Files = {discord, custom}
    Default = discord
    Shipped = {discord}
    Ids = {t1, t2}
    Channels = {c1}
    Requests = {r1}
    NotificationWorkers = {w1}
    None = None
SPECIFICATION Spec
INVARIANTS TypeOK RendersWhatWasNamed FallbackForAReason
SYMMETRY Symmetry
