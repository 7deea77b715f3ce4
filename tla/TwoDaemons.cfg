SPECIFICATION Spec
CONSTANTS
    Tools = {t1, t2}
    Stoppers = {s1}
    Daemons = {d1, d2, d3}
    Inodes = {i1, i2}
    Fifos = {f1, f2}
    None = None
    MaxAttempts = 2
    QueueSize = 1
    Chunks = 2
    LogFiles = {t1, t2}
    LogOf <- OwnLogs
    ToolsMayDie = FALSE
    LogMayFail = FALSE
    JobControl = FALSE
CHECK_DEADLOCK FALSE
INVARIANTS
    SingleDaemon
