SPECIFICATION UCSpec
CONSTANTS
    a = a
    b = b
    Char = {a, b}
    Strings <- AnchorStrings
    MaxAnchors = 3
    MaxSlots = 20
    FreshCounts = {0}
    Texts <- SomeTexts
    AnchorSizes <- SomeAnchorSizes
    SymbolSizes <- SomeSymbolSizes
    FirstP <- Stack
PROPERTIES
    MinimizesLength
