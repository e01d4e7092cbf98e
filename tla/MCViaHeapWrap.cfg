SPECIFICATION Spec
CONSTANTS
    InitialCap = 2
    MaxCells = 3
    Roots = {"acc"}
    InitialStack = 2
    MaxDepth = 1
    GenMod = 2
    MaxCollections = 2
INVARIANT NothingLost
