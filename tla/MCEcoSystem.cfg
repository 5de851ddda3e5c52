SPECIFICATION SysSpec
CONSTANTS
    ByteBase = 3
    Uint16Range = 9
    Peers = {p1, p2}
    NoPeer = NoPeer
    Requests <- MCNone
    MaxRequests = 2
    Junk = {0}
    Inputs <- MCInputs
INVARIANTS
    OneWayAtATime
    StallsOnlyAtLimit
PROPERTIES
    NoChunkLost
    DialogueStalls
\* Client and server end up waiting for each other: see DialogueStalls.
CHECK_DEADLOCK FALSE
