SPECIFICATION TMSpec
CONSTANTS
    Char = {x, y}
    Strings <- AnchorStrings
    MaxAnchors = 2
    MaxSlots = 8
    FreshCounts = {0}
    Texts <- LongTexts
INVARIANTS
    TMTypeOK
PROPERTIES
    MatcherSpec
