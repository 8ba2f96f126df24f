SPECIFICATION AllSpec
CONSTANTS
    Size = 4
    Samples = 9
    StoresInOrder = TRUE
    Inputs = 2
    Edges = 5
INVARIANTS
    UnderrunSound
    PulsesMeasured
PROPERTIES
    AddReturns
    IsChannel
CHECK_DEADLOCK FALSE
