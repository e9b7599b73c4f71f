SPECIFICATION Spec
CONSTANTS
    Bytes <- MCBytes
    FileIds = {f1, f2}
    None = None
    Files <- MCFiles
    BlockSize = 2
    BlockHeaderLen = 1
    MaxBlockCount = 2
    MaxTotalBlocks = 3
    DataLen = 2
    CodewordLen = 3
    HeaderLen = 1
    TargetBlocks = 2
    MaxK = 4
    MaxTotalSymbols = 3
    MaxCaptures = 4
INVARIANTS
    RoundTrip
    AnyOrder
    CapturesDecide
PROPERTIES
    Ends
CHECK_DEADLOCK FALSE
