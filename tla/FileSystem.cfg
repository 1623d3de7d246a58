SPECIFICATION Spec
CONSTANTS
    Names <- MCNames
    Paths <- MCPaths
    NInodes = 4
    NBlocks = 7
    BITS_PER_SECTOR = 16
    UINT8 = 256
    NDirect = 2
    NIndirect = 2
    BLOCK_SIZE = 4
    EntriesPerSec = 3
    MAX_FILE_OPEN = 2
    NFds = 1
    MaxDirs = 1
    Transfers <- MCTransfers
    MaxCalls = 6
    Careless = FALSE
    NULL = NULL
INVARIANTS TypeOK  MemoryMatchesDisk AnswersRight
 
CHECK_DEADLOCK FALSE
