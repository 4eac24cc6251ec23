SPECIFICATION Spec
CONSTANTS
    NumKeys = 1
    CopiedKeys = {}
    Workers = {w1}
    Daemon = daemon
    Main = main
    Nobody = nobody
    NoFile = noFile
    SlowDisk = TRUE
    MaxWrites = 2
    MaxClears = 1
    MaxFailures = 1
    MaxJams = 1
    MaxRestarts = 0
INVARIANTS
    CleanMeansCovered
    NoStrayTmp
CHECK_DEADLOCK FALSE
