SPECIFICATION Spec
CONSTANTS
    PAGE = 2
    FANOUT = 2
    LEVELS = 3
    WORD = 32
    BASE = 3
    NPAGES = 6
    Vpns <- SomeVpns
    Ppns <- SomePpns
    NO_MAPPING = NO_MAPPING
    NULL = NULL
INVARIANTS
    TypeOK
    TreeSound
    OnPath
PROPERTIES
    IsAddressSpace
CHECK_DEADLOCK FALSE
