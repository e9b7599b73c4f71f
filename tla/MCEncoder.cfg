SPECIFICATION Spec
CONSTANTS
    MaxBlocks = 5
    MaxCost = 4
    OffsetTables <- MCOffsetTables
    DataLen = 2
    CodewordLen = 3
    HeaderLen = 1
    TargetBlocks = 2
    MaxK = 4
    MaxTotalSymbols = 4
INVARIANTS
    Tiling
    SymbolsFit
    GreedyIsOptimal
    SearchIsOptimal
    MinKIsTight
CHECK_DEADLOCK FALSE
