SPECIFICATION Spec
CONSTANTS
    Trees <- CoreTrees
    Pids = {p1, p2, p3, p4, p5}
    HeapValues = {0}
    ExitStatuses = {0, 9}
    ReusePids = FALSE
    ForkMayFail = FALSE
SYMMETRY Symmetry
INVARIANTS
    TypeOK
    ToWaitCounts
    QuietAtReturn
    ResultsGoToExecutedNode
    InvocationFailedIsTrue
    OperandsTakeTurns
PROPERTIES
    ResultsAreFinal
    Evaluates
