SPECIFICATION Spec
CONSTANTS
    Dot = 1
    Letters <- MCLetters
    ExtensionKeys = {1, 2}
    Protos <- MCProtos
    Queries <- MCQueries
    Databases = 2
    NoFile = NoFile
INVARIANTS
    LookupComplete
    DeclaredSymbolsFound
    MergedConsistent
PROPERTY
    ConflictsRefused
\* All files have been added.
CHECK_DEADLOCK FALSE
