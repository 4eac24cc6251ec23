SPECIFICATION FairSpec
CONSTANTS
    a = a
    b = b
    c = c
    d = d
    e = e
    bad = bad
    Urls = {a, b, c, d, e, bad}
    ValidUrls = {a, b, c, d, e}
    Seeds = {a, c, bad}
    PushDepths <- MCDepths
    LinkMaps <- MCLinkMaps
    MaxCapacity = 2
    MaxDepth = 2
    MaxUrls = 4
    Clients = {c1, c2}
INVARIANTS
    BudgetRespected
    BreadthFirst
    HaltTakesAtMostOne
    ShortcutLosesNothing
PROPERTIES
    StopTerminates
    EndsUnlessPaused
