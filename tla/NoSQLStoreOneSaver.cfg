SPECIFICATION FairSpec
CONSTANTS
    NumKeys = 2
    CopiedKeys = {2}
    Workers = {}
    Daemon = daemon
    Main = main
    Nobody = nobody
    NoFile = noFile
    SlowDisk = FALSE
    MaxWrites = 3
    MaxClears = 0
    MaxFailures = 1
    MaxJams = 1
    MaxRestarts = 1
INVARIANTS
    CleanMeansDurable
PROPERTIES
    DirtyIsFlushed
    ImplementsDurableStore
CHECK_DEADLOCK FALSE
