SPECIFICATION TestSpec
CONSTANTS
    t1 = t1
    t2 = t2
    t3 = t3
    t4 = t4
    Threads = {t1, t2, t3}
    Nodes = {n1, n2}
    NULL = NULL
    Script <- OneProducer
    JoinFirst = TRUE
    Spurious = FALSE
INVARIANT FifoOrder
CHECK_DEADLOCK FALSE
