SPECIFICATION Spec
CONSTANTS
    Covers <- MCCovers
    Items <- MCItems
    Contents <- MCContents
    Chars <- MCChars
    Keys <- MCKeys
    Patterns <- MCPatterns
    Boots <- MCBoots
    Word <- MCWord
    None = None
    Profiles <- MCProfiles
    DataLen <- MCDataLen
    RS_N = 6
    ByteBits = 2
    BOOTSTRAP_LEN = 1
    ENVELOPE_HEADER_LEN = 1
    AEAD_TAG_LEN = 1
    MAX_CODEWORDS = 2
    DENSITY_NUMERATOR = 2
    DENSITY_DENOMINATOR = 3
    MAX_DIMENSION = 8
    MAX_PIXELS = 14
    MAX_ORIGINAL_LEN = 4
    MAX_COMPRESSED_LEN = 4
    MAX_NAME_LEN = 2
    MAX_MEDIA_TYPE_LEN = 2
    MAX_ATTRIBUTION_LEN = 2
    NUL = "nul"
    MaxChannel = 3
    WordSize = 64
    MaxEdits = 2
INVARIANTS
    Survives
    SealFits
PROPERTIES
    FixtureAtBound
CHECK_DEADLOCK FALSE
