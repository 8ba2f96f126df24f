SPECIFICATION Spec
CONSTANTS
    BlockPackets = 2
    Blocks = 2
    Commands = 2
INVARIANTS
    TypeOK
    NoPhaseError
    ReadsTheCard
    StatusTellsTruth
    StatusMatches
    FailureLeavesSense
PROPERTIES
    CommandsEnd
CHECK_DEADLOCK FALSE
