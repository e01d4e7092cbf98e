SPECIFICATION FairSpec
CONSTANTS
    InitialCap = 2
    MaxCells = 3
    Roots = {"acc"}
    InitialStack = 1
    MaxDepth = 3
    GenMod = 3
    MaxCollections = 2
CONSTRAINT FewPointers
INVARIANTS
    TypeOK
    NothingLost
    SlotsAccounted
    ScanStopsAtTop
PROPERTIES
    KeepsPromise
    CollectionEnds
    CollectionAdvances
