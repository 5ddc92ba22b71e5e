\* Two workers, two threads that submit, and one operation of each kind: more
\* work than workers, and the two that wait for a peer can hold them both.
SPECIFICATION FairSpec
CONSTANTS
    Op = {o1, p1, b1}
    PollOp = {p1}
    BlockingOp = {b1}
    Thread = {main, acceptor}
    Worker = {w1, w2}
    Main = main
    NoOp = none
INVARIANTS
    NoLostWakeup
    NothingHidden
    DrainedAtShutdown
PROPERTIES
    ImplementsAsyncIO
    OperationsEnd
    ShutdownReturns
\* A pool that was shut down and has nothing left does stop.
CHECK_DEADLOCK FALSE
