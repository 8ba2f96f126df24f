SPECIFICATION Spec
CONSTANTS
    PacketSize = 3
    TxBytes = 7
    TornStores = FALSE
    CounterMod = 4
    WireBound = 7
INVARIANTS
    WireInOrder
    NoLostWakeup
PROPERTIES
    PutCharReturns
    IsByteChannel
CHECK_DEADLOCK FALSE
