SPECIFICATION Spec
CONSTANTS
    Uarts = {1}
    PacketSize = 3
    RxFifo = 2
    RxBytes = 6
    TornStores = TRUE
    UserHandlers = TRUE
INVARIANTS
    ReceivedInOrder
    NothingVanishes
PROPERTIES
    RefusesOnlyWhenFull
    GetCharReturns
CHECK_DEADLOCK FALSE
