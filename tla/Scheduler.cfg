SPECIFICATION Spec
CONSTANTS
    Idle = Idle
    Main = Main
    InitProc = InitProc
    u1 = u1
    u2 = u2
    Threads <- MCThreads
    Priority <- MCPriority
INVARIANTS TypeOK ReadyListExact OneRunning IdleWakeable
PROPERTY StarvationFree
