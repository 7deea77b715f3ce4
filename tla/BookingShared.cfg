SPECIFICATION Spec
CONSTANTS
    Tools = {t1, t2, t3}
    Stoppers = {}
    Daemons = {d1, d2, d3}
    Inodes = {i1, i2}
    Fifos = {f1, f2}
    None = None
    MaxAttempts = 3
    QueueSize = 1
    Chunks = 2
    LogFiles = {t1, t2, t3}
    LogOf <- OwnLogs
    ToolsMayDie = TRUE
    LogMayFail = TRUE
    JobControl = FALSE
CHECK_DEADLOCK FALSE
SYMMETRY Symmetry
INVARIANTS
    TypeOK
    SingleDaemon
    OneToolAtATime
    WritersHaveReader
    ReportsLogged
    ReportsInOwnLog
PROPERTIES
    ServesOneByOne
