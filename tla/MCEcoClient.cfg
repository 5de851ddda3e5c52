SPECIFICATION Spec
CONSTANTS
    ByteBase = 3
    Uint16Range = 9
    Lines <- MCLines
    MaxLines = 2
    Replies <- MCReplies
    MaxReplies = 3
    Junk = {0}
INVARIANTS
    LinesIntact
    RepliesTakenInOrder
    PacketsSentInOrder
PROPERTIES
    ReturnsToPrompt
\* The client may have exited, and waits for ever for a user or a server that
\* does nothing.
CHECK_DEADLOCK FALSE
