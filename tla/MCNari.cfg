SPECIFICATION Spec
CONSTANTS
    MaxCallDepth = 6
    JitThreshold = 1
    TraceHotThreshold = 8
    Programs <- MCPrograms
INVARIANTS
    RunsAsWritten
    StackAsVerified
PROPERTIES
    Finishes
CHECK_DEADLOCK FALSE
