\* A compiled call of a closure that captured the only reference to an object.
SPECIFICATION Spec
CONSTANTS
    Object = {o1, o2, o3}
    Cell = {c1}
    RegexObject = {}
    GcEnableCalls = FALSE
    Compiled = TRUE
    OutOfMemory = FALSE
SYMMETRY Symmetry
INVARIANT
    NoDangling
