SPECIFICATION Spec
CONSTANTS
    MAX_CALL_DEPTH = 4
    MaxNative = 6
    MaxBeyond = 1
    MaxJit = 2
    MaxRoots = 2
INVARIANTS
    JumpTargetLives
    InnermostCatches
    JitDepthCovers
    SavedStateReturns
    PanicNotForgotten
PROPERTIES
    CatchLeavesNoFrames
    ErrorEndsMain
CHECK_DEADLOCK FALSE
