SPECIFICATION Spec
CONSTANTS
    MaxCallDepth = 6
    JitThreshold = 1
    TraceHotThreshold = 8
    Programs <- MCTracedPrograms
INVARIANTS
    RunsAsWritten
CHECK_DEADLOCK FALSE
