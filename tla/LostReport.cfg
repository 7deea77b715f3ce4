SPECIFICATION Spec
CONSTANTS
    Trees <- SmallTrees
    Pids = {1, 2, 3}
    HeapValues = {0}
    ExitStatuses = {0, 9}
    ReusePids = FALSE
    ForkMayFail = FALSE
INVARIANTS
    InvocationFailureReported
