SPECIFICATION Spec
CONSTANTS
    Procs = {a, b}
    First = a
    Pipes = {p, q}
    NStd = 1
    MaxOpen = 4
    MaxLocal = 3
    Capacity = 1
    MaxTransfer = 2
    ForkRedirected = FALSE
    NULL = NULL
CHECK_DEADLOCK FALSE
INVARIANTS TypeOK  
PROPERTY EofReachesReader
