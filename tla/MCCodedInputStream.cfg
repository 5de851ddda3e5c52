SPECIFICATION Spec
CONSTANTS
    Length = 6
    IntMax = 5
    MaxVarint = 3
    MaxChunk = 3
    Counts <- MCCounts
    TotalLimits = {2, 5}
    DefaultTotalBytesLimit = 4
    FlatSizes = {0, 3, 4}
    Continued <- MCContinued
    MaxPushed = 2
INVARIANTS
    PositionExact
    InputRepositioned
PROPERTIES
    ImplementsLimitedReader
\* A destroyed stream has no further calls.
CHECK_DEADLOCK FALSE
