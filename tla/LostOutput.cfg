SPECIFICATION Spec
CONSTANTS
    Trees <- WiredTrees
    MaxFd = 17
    PipeSize = 1
CHECK_DEADLOCK FALSE
INVARIANTS
    EveryOutputArrives
