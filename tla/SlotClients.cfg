SPECIFICATION FairClientSpec
CONSTANTS
    a = a
    b = b
    s1 = s1
    s2 = s2
    r1 = r1
    r2 = r2
    MaxMinor = 1
    Files = {s1, s2, r1, r2}
    Ids = {0, 1}
    Arg <- FourProcesses
    Bytes = {a, b}
    Inputs <- SomeInputs
    BUF_LEN = 2
    MSG_MAX_LENGTH = 2
    IntMod = 4
    NULL = NULL
    Junk = Junk
    Fresh = {"null"}
    Faults = {"register", "open", "node", "copy", "calloc"}
PROPERTIES
    PrintsLastSent
    
    AllExit
