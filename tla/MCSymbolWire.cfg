SPECIFICATION WireSpec
CONSTANTS
    AllProfiles <- MCAllProfiles
    DataLen <- MCDataLen
    RS_N = 7
    HEADER_LEN_V1 = 2
    BLOCK_HEADER_LEN = 2
    BLOCK_SIZE_RAW = 2
    MAX_SYMBOL_BYTES = 14
    U32_MAX = 10
    PayloadLists <- MCPayloadLists
    Starts <- MCStarts
    Ks = {0, 1, 2, 3}
    MaxDamage = 1
    MaxBurst = 5
    MaxErased = 3
INVARIANTS
    RepairsItsBudget
    BurstsAreRepaired
    BlocksArePrefix
CHECK_DEADLOCK FALSE
