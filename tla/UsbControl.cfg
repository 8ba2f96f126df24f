SPECIFICATION Spec
CONSTANTS
    MaxPacket = 2
    LineLen = 3
    DescLen = 4
    Asked = {1, 2, 4, 6}
    Requests = 3
    Resets = 1
    EarlySetup = FALSE
CHECK_DEADLOCK FALSE
INVARIANTS AnswerInOrder LineCodingWhole DoneMeansApplied
PROPERTIES TransferEnds
