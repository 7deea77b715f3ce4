SPECIFICATION FairSpec
CONSTANTS
    Tools = {t1, t2}
    Stoppers = {}
    Daemons = {d1, d2, d3}
    Inodes = {i1}
    Fifos = {f1}
    None = None
    MaxAttempts = 2
    QueueSize = 1
    Chunks = 2
    LogFiles = {t1, t2}
    LogOf <- OwnLogs
    ToolsMayDie = FALSE
    LogMayFail = FALSE
    JobControl = FALSE
CHECK_DEADLOCK FALSE
PROPERTIES
    EveryRunEnds
