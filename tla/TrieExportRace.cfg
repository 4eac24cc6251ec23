SPECIFICATION Spec
CONSTANTS
    w1 = w1
    w2 = w2
    w3 = w3
    a = a
    b = b
    Words = {w1, w2, w3}
    Shards = {a, b}
    ShardOf <- MCShardOf
    Workers = {x1, x2}
    Requests = {}
    Main = main
    JoinTimesOut = FALSE
    MaxInserts = 2
    MaxPurges = 0
    MaxFailures = 0
    MaxRestarts = 0
INVARIANT CleanMeansExported
CHECK_DEADLOCK FALSE
