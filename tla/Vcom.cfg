SPECIFICATION PortSpec
CONSTANTS
    FifoSize = 4
    MaxPacket = 2
    TxBytes = 4
    RxBytes = 5
    RaiseOnClear = FALSE
INVARIANTS
    EndpointHasRoom
    NoOverflow
PROPERTIES
    HostGetsAll
    IsByteChannel
