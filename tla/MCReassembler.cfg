SPECIFICATION Spec
CONSTANTS
    f1 = f1
    f2 = f2
    None = None
    Bytes <- MCBytes
    FileIds <- MCFileIds
    Inputs <- MCInputs
    BlockSize = 2
    MaxBlockCount = 2
    MaxTotalBlocks = 4
    MaxTotalSymbols = 3
INVARIANTS
    PinnedByStoredSymbol
    RangesPartitionBlocks
    StoredBlocksDecode
    MissingReportExact
PROPERTIES
    AcceptedMeansStored
    FailureLeavesStore
    KeepsPromise
CHECK_DEADLOCK FALSE
