SPECIFICATION FairSpec
CONSTANTS
    Trees <- WiredTrees
    MaxFd = 17
    PipeSize = 1
CHECK_DEADLOCK FALSE
INVARIANTS
    TypeOK
    ExecutablesHoldNoAppenderEnds
    ToolHoldsUnusedEnds
    CollectorFits
    OutputInOrder
    OutputArrives
PROPERTIES
    EndsOrLeaks
    SafeTreesEnd
