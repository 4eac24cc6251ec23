SPECIFICATION Spec
CONSTANTS
    NumKeys = 2
    CopiedKeys = {2}
    Workers = {w1}
    Daemon = daemon
    Main = main
    Nobody = nobody
    NoFile = noFile
    SlowDisk = FALSE
    MaxWrites = 2
    MaxClears = 0
    MaxFailures = 0
    MaxJams = 0
    MaxRestarts = 0
INVARIANT CleanMeansDurable
CHECK_DEADLOCK FALSE
