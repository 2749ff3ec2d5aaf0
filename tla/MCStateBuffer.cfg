SPECIFICATION SBSpec
CONSTANTS
    ElementLists <- MCElementLists
    PathLists <- MCPathLists
    Ids = {0, 258, 65534}
    Garbage = {0, 255}
INVARIANTS
    SBTypeOK
    NeverWritesOutside
    BranchReadsBack
    PathReadsBack
    OtherReaders
