CONSTANTS
    Procs = {init, sh, prog}
    InitProc = init
    Workers = {sh, prog}
    NKernel = 17
    NUser = 5
    KPages = 17
    UPages = 3
    TableSize = 2
    BitmapPages = 2
    MaxPages = 2
    None = None
SPECIFICATION Spec
SYMMETRY Symmetry
CHECK_DEADLOCK FALSE
INVARIANTS
    TypeOK
    
    BitsMatchMap
PROPERTIES
    ForkCopiesSpace
