CONSTANTS
    Pids = {p1, p2, p3}
    SHELL = SHELL
    NULL = NULL
    Lines <- MCLines
    Programs <- MCPrograms
    Files = {"file"}
    PipeCap = 1
SPECIFICATION FairSpec
CHECK_DEADLOCK FALSE
INVARIANTS TypeOK ZombieNoticed PipeClosed
PROPERTIES ChildrenEnd PromptReturns IsJobControl
