SPECIFICATION Spec
CONSTANTS
    Devices <- MCDevices
    I2CADR <- MCI2CADR
    ChipAddr = 64
    MmapSize = 4
    Requests <- MCRequests
    Operations <- MCOperations
    BusErrors = 1
INVARIANTS
    CompletedWritesLand
    ReadsInOrder
    NeverDeaf
PROPERTIES
    WritesAreAtomic
    OperationsEnd
CHECK_DEADLOCK FALSE
