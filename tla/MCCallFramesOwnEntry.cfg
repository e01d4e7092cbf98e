SPECIFICATION Spec
CONSTANT MaxFrames = 6
CHECK_DEADLOCK FALSE
INVARIANT OwnEntryOnTop
