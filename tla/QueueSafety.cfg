SPECIFICATION Spec
CONSTANTS
    t1 = t1
    t2 = t2
    t3 = t3
    t4 = t4
    Threads = {t1, t2, t3}
    Nodes = {n1, n2, n3}
    NULL = NULL
    Script <- AnyTwo
    JoinFirst = FALSE
    Spurious = TRUE
SYMMETRY Symmetry
INVARIANTS
    TypeOK
    MutexSound
    ItemListSound
    WaitListSound
    NoLostWakeup
    
    NoLeak
PROPERTY Linearizable
CHECK_DEADLOCK FALSE
