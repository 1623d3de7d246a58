SPECIFICATION Spec
CONSTANTS
    Threads = {t1, t2}
    NoThread = NoThread
    Disks <- MCDisks
    NSectors = 3
    Values = {0, 1}
    UINT8 = 2
    TIME_LIMIT = 3
    MaxCount = 3
    MaxRequests = 2
INVARIANTS TypeOK  OnlyTimeoutPanics
PROPERTIES ImplementsDisk 
CHECK_DEADLOCK FALSE
