SPECIFICATION Spec
CONSTANT MaxFrames = 6
CHECK_DEADLOCK FALSE
INVARIANTS
    TypeOK
    StackAccounted
    NestedPops
    HandlerInstalled
    ParentOlder
    UncaughtEndsRun
    HandlesOnce
    HandlerChainsEnd
    ReturnsToWaiting
