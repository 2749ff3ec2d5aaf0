SPECIFICATION LLSpec
CONSTANTS
    Cell = {c1, c2, c3}
    Null = Null
    Data = {d1, d2}
    NoData = NoData
    Indices = {0, 1}
PROPERTIES
    GetReturnsElement
