SPECIFICATION IrqSpec
CONSTANTS
    Threads = {t1, t2}
    ConsoleLock = ConsoleLock
    Locks = {ConsoleLock}
    Cvs = {}
    CvLock <- NoCvLock
    MaxRepeat = 2
    NULL = NULL
INVARIANT OwnerNeverWaits
