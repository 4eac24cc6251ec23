SPECIFICATION Spec
CONSTANTS
    j1 = j1
    j2 = j2
    o1 = o1
    o2 = o2
    u1 = u1
    u2 = u2
    Jobs = {j1, j2}
    Urls = {u1, u2}
    Origins = {o1, o2}
    Nobody = nobody
    Seed <- MCSeed
    Site <- MCOwnSite
    Textless = {}
    HistoryCap = 2
    Clients = {c1, c2}
    JoinTimesOut = FALSE
    MaxDeletes = 0
    MaxResets = 1
INVARIANT LiveIsRegistered
CHECK_DEADLOCK FALSE
