SPECIFICATION Spec
CONSTANTS
    Books <- MCBooks
    Tokens <- MCTokens
    Headers <- MCHeaders
    Usual <- MCHeader
    Entries <- MCEntries
    MAX_ZIP_ENTRIES = 3
    MAX_ENTRY_BYTES = 3
    MAX_AGGREGATE_BYTES = 3
    MAX_MARKERS_PER_BOOK = 12
    MAX_CHAPTERS = 2
    MAX_JNI_PNG_BYTES = 1
    MAX_JNI_PASSPHRASE_BYTES = 2
    MaxOdd = 2
INVARIANTS
    ImportIsTheGrammar
    ReaderShowsTheBook
CHECK_DEADLOCK FALSE
