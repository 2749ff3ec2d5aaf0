SPECIFICATION ScanSpec
CHECK_DEADLOCK FALSE
CONSTANTS
    Char <- MCChar
    Width = 2
    Files <- MCFiles
    Hashers <- MCHashers
    BloomSize = 5
    MaxEntries = 8
    MaxTable = 12
    AnchorSets <- MCAnchorSets
    Texts <- MCTexts
INVARIANTS
    ScanTypeOK
    WordsAreFound
    JumpsKeepTheScan
