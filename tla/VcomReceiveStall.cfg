SPECIFICATION Spec
CONSTANTS
    FifoSize = 4
    MaxPacket = 2
    RxBytes = 6
    RaiseOnClear = TRUE
PROPERTIES
    AcknowledgedBytesReturned
CHECK_DEADLOCK FALSE
