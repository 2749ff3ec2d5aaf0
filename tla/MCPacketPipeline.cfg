SPECIFICATION PPSpec
CONSTANTS
    Threads = 3
    MaxQueues = 8
    Sizes = {1, 2, 9}
    SizeLimit = 5
    HeaderSize = 0
    MaxLines = 4
INVARIANTS
    PPTypeOK
    NoListRace
    GivesUpOnlyWhenDone
    ScannedInOrder
    EveryPacketOnce
    NothingUsedAfterFree
PROPERTIES
    Terminates
