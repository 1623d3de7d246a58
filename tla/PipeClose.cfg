SPECIFICATION Spec
CONSTANTS
    Procs = {a, b}
    First = a
    Pipes = {p}
    NStd = 1
    MaxOpen = 3
    MaxLocal = 3
    Capacity = 1
    MaxTransfer = 2
    ForkRedirected = FALSE
    NULL = NULL
CHECK_DEADLOCK FALSE
PROPERTY CloseReturns
