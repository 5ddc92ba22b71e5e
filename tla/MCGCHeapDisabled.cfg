\* Programs that switch the collector off and on, compiled calls, and a
\* registry that may fail to grow: objects escape the registry.  Two
\* addresses hold every shape of cycle the mark loop can meet.
SPECIFICATION FairSpec
CONSTANTS
    Object = {o1, o2}
    Cell = {c1}
    RegexObject = {}
    GcEnableCalls = TRUE
    Compiled = TRUE
    OutOfMemory = TRUE
INVARIANT
    RegisteredAreUnmarked
PROPERTIES
    CollectionEnds
