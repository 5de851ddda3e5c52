SPECIFICATION BufferSpec
CONSTANTS
    ByteBase = 3
    Uint16Range = 9
    Chunks <- MCChunks
    Payloads <- MCPayloads
    PacketNos <- MCPacketNos
INVARIANTS
    PositionsOrdered
PROPERTIES
    OverrunsExactly
    ImplementsByteQueue
