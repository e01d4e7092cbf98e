SPECIFICATION Spec
CONSTANTS
    Size = 2
    MaxStreams = 3
    MaxHandles = 3
CHECK_DEADLOCK FALSE
INVARIANTS
    TypeOK
    DefinedUnlessClosed
    HeldIsOpen
    NothingLeaks
    EofAtEnd
VIEW SameNext
