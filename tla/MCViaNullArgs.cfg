SPECIFICATION Spec
CONSTANTS
    Programs <- NullPrograms
    MaxFrames = 40
    MaxRuns = 1
CHECK_DEADLOCK FALSE
INVARIANT AnswersAgree
