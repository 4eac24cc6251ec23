SPECIFICATION Spec
CONSTANTS
    j1 = j1
    j2 = j2
    o1 = o1
    o2 = o2
    u1 = u1
    u2 = u2
    Jobs = {j1, j2}
    Urls = {u1}
    Origins = {o1, o2}
    Nobody = nobody
    Seed <- MCSeed
    Site <- MCSharedSite
    Textless = {}
    HistoryCap = 1
    Clients = {c1, c2}
    JoinTimesOut = FALSE
    MaxDeletes = 2
    MaxResets = 0
INVARIANTS
    DeleteLeavesNoTrace
    LiveIsRegistered
PROPERTY
    ArchivedRowIsKept
CHECK_DEADLOCK FALSE
