SPECIFICATION BPSpec
CONSTANTS
    Sizes = {0, 3, 8, 11}
    Codes <- SampleCodes
    MaxBytes = 3
INVARIANTS
    BPTypeOK
    RowHoldsStream
PROPERTIES
    AppendsCodes
