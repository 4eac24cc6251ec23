SPECIFICATION Spec
CONSTANTS
    NumKeys = 2
    CopiedKeys = {2}
    Workers = {}
    Daemon = daemon
    Main = main
    Nobody = nobody
    NoFile = noFile
    SlowDisk = FALSE
    MaxWrites = 2
    MaxClears = 1
    MaxFailures = 0
    MaxJams = 0
    MaxRestarts = 0
INVARIANT PurgedDataStaysGone
CHECK_DEADLOCK FALSE
