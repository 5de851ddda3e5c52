SPECIFICATION Spec
CONSTANTS
    ByteBase = 4
    Uint16Range = 16
    Peers = {p1, p2}
    NoPeer = NoPeer
    Requests <- MCRequests
    MaxRequests = 2
    Junk = {0}
INVARIANTS
    RequestsInOrder
    RepliesInOrder
    RefusedPacketBlocks
PROPERTIES
    FullSendBufferMutes
    BacklogServed
    RequestsHandled
\* The server may have exited, and blocks for ever when no peer acts.
CHECK_DEADLOCK FALSE
