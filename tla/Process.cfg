SPECIFICATION Spec
CONSTANTS
    Procs = {i, p, q}
    InitProc = i
    MaxPid = 5
    KernelPids <- MCKernelPids
    Signals = {1}
CHECK_DEADLOCK FALSE
INVARIANTS TypeOK PidsUnique ParentIsFather WaitMissesNoExit
  
