SPECIFICATION Spec
CONSTANTS
    MaxInt = 1
    Objects = {o1}
    Fids <- MCFids
    Names <- MCNames
    GetterOf <- MCGetterOf
    SetterOf <- MCSetterOf
    Proto = "__proto__"
    Literals <- MCLiterals
    Bit <- MCBit
    Threshold = 4
    LazyBits = 4
    PropIcOf <- MCPropIcOf
    StubSize = 1
    LiteralSize = 2
    Traps = {"a", "unwrap"}
    Handler = o1
    Used <- MCUsed
    Made <- MCMade
    NoShape = NoShape
INVARIANTS
    Coherent
    CachesTrue
PROPERTIES
    ImplementsPropertyStore
CHECK_DEADLOCK FALSE
