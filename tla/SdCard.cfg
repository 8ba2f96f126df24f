SPECIFICATION Spec
CONSTANTS
    LastSector = 2
    Types = {"MMC", "SD1", "SD2", "SDHC"}
    Payloads <- MCPayloads
    Blank = "blank"
    Unit = 2
    InitPolls = 2
    MaxSwaps = 1
    None = None
INVARIANTS
    InitialisedIsTrue
    TransfersStopped
PROPERTIES
    IsBlockDevice
    CallsReturn
