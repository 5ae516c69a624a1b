SPECIFICATION FairSpec
CONSTANTS
    c1 = c1
    c2 = c2
    c3 = c3
    Clients = {c1, c2, c3}
    Content <- ThreeFiles
    FileSize <- ThreeSizes
    UINT_MOD = 3
    NUM_PRINTABLE_CHARS = 2
    BUFFER_SIZE = 2
    BACKLOG = 1
    NULL = NULL
    Garbage = Garbage
    Events = {"sigint", "error", "killed", "reset", "epipe"}
INVARIANTS
    TypeOK
    TotalsExact
    
PROPERTIES
    AllClientsEnd
    ServerReturns
CHECK_DEADLOCK FALSE
