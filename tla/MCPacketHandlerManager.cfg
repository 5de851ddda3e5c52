SPECIFICATION TableSpec
CONSTANTS
    ByteBase = 3
    Uint16Range = 9
    Protocols = {ProtoA, ProtoB}
    NoFunctor = NoFunctor
    Garbage = Garbage
    MaxRegisters = 4
    ProtocolNumbers <- MCNumbers
INVARIANTS
    DispatchFollowsRegistration
\* The destroyed or aborted object takes no further calls.
CHECK_DEADLOCK FALSE
