SPECIFICATION Spec
CONSTANTS
    c1 = c1
    c2 = c2
    c3 = c3
    Clients = {c1}
    Content <- ThreeFiles
    FileSize <- ThreeSizes
    UINT_MOD = 3
    NUM_PRINTABLE_CHARS = 2
    BUFFER_SIZE = 2
    BACKLOG = 1
    NULL = NULL
    Garbage = Garbage
    Events = {"sigint"}
INVARIANT ClientExitIsHonest
CHECK_DEADLOCK FALSE
