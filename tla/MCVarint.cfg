SPECIFICATION Spec
CONSTANTS
    Bits = 2
    Width32 = 9
    Values <- MCValues
    Streams <- MCStreams
INVARIANTS
    EncodingExact
    ReadersExact
\* A value that was read is not written again.
CHECK_DEADLOCK FALSE
