SPECIFICATION Spec
CONSTANTS
    a = a
    b = b
    f1 = f1
    f2 = f2
    MaxMinor = 0
    Files = {f1, f2}
    Ids = {0, 1}
    Bytes = {a, b}
    Inputs <- SomeInputs
    BUF_LEN = 2
    MSG_MAX_LENGTH = 2
    IntMod = 4
    NULL = NULL
    Junk = Junk
    Fresh = {"null", "wild"}
    Faults = {}
PROPERTY EmptyChannelWouldBlock
CHECK_DEADLOCK FALSE
