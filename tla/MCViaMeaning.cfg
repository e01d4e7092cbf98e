SPECIFICATION Spec
CONSTANTS
    Programs <- MCPrograms
    MaxFrames = 400
    MaxRuns = 1
CHECK_DEADLOCK FALSE
INVARIANTS
    TypeOK
    AnswersAgree
    StackBalanced
