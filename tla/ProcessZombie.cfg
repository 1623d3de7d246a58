SPECIFICATION Spec
CONSTANTS
    Procs = {i, p, q, r}
    InitProc = i
    MaxPid = 6
    KernelPids <- MCKernelPids
    Signals = {}
CHECK_DEADLOCK FALSE
PROPERTY OrphanReaped
