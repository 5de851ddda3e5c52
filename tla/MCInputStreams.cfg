SPECIFICATION Spec
CONSTANTS
    Leaves <- MCLeaves
    MaxOffset = 3
    Counts <- MCCounts
INVARIANTS
    NoCheckFails
PROPERTIES
    ImplementsZeroCopyInput
    NothingTwice
