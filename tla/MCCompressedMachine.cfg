SPECIFICATION CMSpec
CONSTANTS
    Char = {97, 98, 99}
    Strings <- MCStrings
    MaxAnchors = 3
    MaxSlots = 8
    FreshCounts = {0}
    GotoLimits <- MCGotoLimits
    Texts <- MCTexts
    Garbage = {255}
INVARIANTS
    CMTypeOK
    ConstructionSucceeds
    FollowsTheAutomaton
    MatchesLikeTheAutomaton
    PrintsWhatMatched
PROPERTIES
    ReadsOrClimbs
