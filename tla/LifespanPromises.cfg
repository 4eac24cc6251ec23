SPECIFICATION LSpec
CONSTANTS
    w1 = w1
    w2 = w2
    w3 = w3
    a = a
    b = b
    p1 = p1
    p2 = p2
    Words = {w1, w2, w3}
    Shards = {a, b}
    Pages = {p1, p2}
    ShardOf <- MCShardOf
    PageOf <- MCPageOf
    NoPage = none
    Flushing = flushing
    Workers = {x1}
    Requests = {}
    Main = main
    JoinTimesOut = FALSE
    MaxInserts = 3
    MaxPurges = 1
    MaxFailures = 0
    MaxRestarts = 1
    Ttl = 1
    SweepBudget = 1
    MaxTime = 2
INVARIANT VisitedMeansIndexed
PROPERTY DeletedStaysGoneOverCrashes
CHECK_DEADLOCK FALSE
