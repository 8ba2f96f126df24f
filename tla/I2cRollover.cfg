SPECIFICATION Spec
CONSTANTS
    Devices <- MCDevices
    I2CADR <- MCI2CADR
    ChipAddr = 64
    MmapSize = 4
    Requests <- RolloverRequests
    Operations <- MCOperations
    BusErrors = 0
INVARIANTS
    PointerRollsOver
CHECK_DEADLOCK FALSE
