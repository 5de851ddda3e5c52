SPECIFICATION Spec
CONSTANTS
    BlockSize = 3
    MaxVarint = 2
    Sizes <- MCSizes
    MaxBytes = 7
INVARIANTS
    NoCheckFails
    FileIsPrefix
    LossReported
\* A destroyed file has no further calls.
CHECK_DEADLOCK FALSE
