SPECIFICATION ACSpec
CONSTANTS
    Char = {x, y}
    Strings <- ShortStrings
    MaxAnchors = 3
    MaxSlots = 8
    FreshCounts = {0}
INVARIANTS
    ACTypeOK
    FailureIsLongestSuffix
    HasFailIntoIsRight
    ReportsAreSuffixes
    LongestAnchorIsReported
