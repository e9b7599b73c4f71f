SPECIFICATION Spec
CONSTANTS
    Files <- MCFiles
    Blocks <- MCBlocks
    MinK <- MCMinK
    p = p
    q = q
    Passphrases = {p, q}
    Densities = {1, 2}
    DensityScale = 2
    Pngs <- MCPngs
    CropLengths = {4}
    PLAINTEXT_HEADER_CHANNELS = 5
    AEAD_TAG_LEN = 1
    CodewordLen = 2
    ZION_CODEC_MAX_K = 2
    Word <- MCWord
    MaxHosts = 2
    MaxSessions = 2
    MaxPicked = 2
    MaxDamage = 1
SYMMETRY PassphrasesSymmetry
INVARIANTS
    ReadsBack
    NeverPanics
    SealedOnce
CHECK_DEADLOCK FALSE
