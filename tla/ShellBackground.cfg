CONSTANTS
    Pids = {p1}
    SHELL = SHELL
    NULL = NULL
    Lines <- MCLines
    Programs <- MCPrograms
    Files = {"file"}
    PipeCap = 1
SPECIFICATION Spec
PROPERTY BackgroundSurvives
CHECK_DEADLOCK FALSE
