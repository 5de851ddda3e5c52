SPECIFICATION ParserSpec
CONSTANTS
    Sub = 1
    Grp = 2
    Scalar = 3
    Enum = 4
    Tokens <- MCTokens
    MaxTokens = 5
    RecursionLimit = 2
INVARIANTS
    AcceptsExactly
    SavedVerbatim
\* A parse that has returned does nothing more.
CHECK_DEADLOCK FALSE
