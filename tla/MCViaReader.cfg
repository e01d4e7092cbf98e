SPECIFICATION FairSpec
CONSTANTS
    Inputs <- MCInputs
    BufferSize = 5
CHECK_DEADLOCK FALSE
INVARIANTS
    TypeOK
    NestingAgrees
    SourceIsRead
    ReadsFirstDatum
    ReadsNoFurther
PROPERTIES
    ReadEnds
    ReaderAdvances
