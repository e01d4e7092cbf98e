SPECIFICATION Spec
CONSTANTS
    Names <- MCNames
    NoRef = NoRef
    Sources <- MCSources
    InitialCap = 1
    MaxCursor = 9
INVARIANT AssembledIsThere
