SPECIFICATION Spec
CONSTANTS
    Programs <- OrLoops
    MaxFrames = 90
    MaxRuns = 1
CHECK_DEADLOCK FALSE
INVARIANT TailCallsFlat
