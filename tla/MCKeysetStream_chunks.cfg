SPECIFICATION FairSpec
CONSTANTS
    v1 = v1
    v2 = v2
    Rows = {1, 2, 3, 4}
    Times = {0, 1}
    Values = {v1, v2}
    NULL = NULL
    All = All
    Filters = {v1, All}
    ChunkSize = 2
    CellChunk = 3
    MaxRows = 3
INVARIANTS
    TypeOK
    ListedOnceInOrder
    StableRowsListed
    CountIsWritten
    CapExceededByArrivalsOnly
PROPERTIES
    StreamAdvances
    StreamEnds
    ImplementsSweep
CHECK_DEADLOCK FALSE
