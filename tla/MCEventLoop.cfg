\* A timeout, two intervals that may be due in one batch, and a file; callbacks
\* that set, clear, await, poll and yield, four native calls deep.
SPECIFICATION Spec
CONSTANTS
    Timer = {t1}
    IO = {f1}
    Interval = {i1, i2}
    NoOp = none
    NoInterval = noid
    MaxDepth = 4
SYMMETRY Symmetry
INVARIANTS
    TimeoutsCounted
    CallbackRooted
    NothingOwed
    TicksNestByYield
PROPERTIES
    ClearedNeverTicks
\* A program that has ended, its pool idle, does stop.
CHECK_DEADLOCK FALSE
