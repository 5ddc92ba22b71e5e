\* Two addresses for a cycle, a chain or an address that is used again, and a
\* third that only holds regular expressions, whatever hangs off the cycle.
SPECIFICATION Spec
CONSTANTS
    Object = {o1, o2, o3}
    Cell = {c1}
    RegexObject = {o3}
    GcEnableCalls = FALSE
    Compiled = FALSE
    OutOfMemory = FALSE
SYMMETRY Symmetry
INVARIANT
    NoDangling
PROPERTIES
    SweepIsExact
    ImplementsScriptHeap
