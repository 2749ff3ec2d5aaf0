SPECIFICATION ACFairSpec
CONSTANTS
    Char = {x, y}
    Strings <- LooseStrings
    MaxAnchors = 2
    MaxSlots = 2
    FreshCounts <- Garbage
INVARIANTS
    OwnAnchorComesFirst
PROPERTIES
    BuildEnds
