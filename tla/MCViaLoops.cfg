SPECIFICATION TwoRunsSpec
CONSTANTS
    Programs <- ControlRuns
    MaxFrames = 200
    MaxRuns = 2
CHECK_DEADLOCK FALSE
INVARIANTS
    TailCallsFlat
    StackIsOwned
PROPERTIES
    RunsEnd
    FollowsCallFrames
