SPECIFICATION OpticalSpec
CONSTANTS
    OpticalFiles <- MCFiles
    Blocks <- MCBlocks
    MinK <- MCMinK
    Ks = {0, 1, 2, 3}
    Shapes <- MCShapes
    RS_N = 3
    MAX_K = 3
    OPTICAL_HEADER_LEN = 9
    MAX_PAYLOAD_BYTES_V1 = 18
    U16_MAX = 3
    U32_MAX = 15
    U64_MAX = 255
    ISIZE_MAX = 127
    Correctable = 1
    Headers <- MCHeaders
    MaxDamage = 2
INVARIANTS
    SmallestOfItsShape
    ExtractsWhatWasRendered
CHECK_DEADLOCK FALSE
