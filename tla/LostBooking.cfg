SPECIFICATION FairSpec
CONSTANTS
    Tools = {t1}
    Stoppers = {s1}
    Daemons = {d1, d2}
    Inodes = {i1, i2}
    Fifos = {f1, f2}
    None = None
    MaxAttempts = 2
    QueueSize = 1
    Chunks = 2
    LogFiles = {t1}
    LogOf <- OwnLogs
    ToolsMayDie = FALSE
    LogMayFail = FALSE
    JobControl = FALSE
CHECK_DEADLOCK FALSE
PROPERTIES
    WaitEnds
