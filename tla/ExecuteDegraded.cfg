SPECIFICATION FairSpec
CONSTANTS
    Trees <- DegradedTrees
    Pids = {1, 2, 3}
    HeapValues = {0, 1}
    ExitStatuses = {0}
    ReusePids = TRUE
    ForkMayFail = TRUE
INVARIANTS
    DiesOnlyByStrayPid
PROPERTIES
    ExecuteReturns
