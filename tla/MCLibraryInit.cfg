SPECIFICATION Spec
CONSTANTS
    Threads = {main, t1, t2}
    Main = main
    NoThread = NoThread
    MaxCalls = 1
INVARIANTS
    NothingUsedBeforeMade
    RaceFree
    DeletedOnce
    RegisteredOnce
PROPERTIES
    CallsReturn
