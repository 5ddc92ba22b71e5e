\* A server that is told to stop, with a connection being read meanwhile: its
\* peer may keep one worker for ever.
SPECIFICATION FairServerSpec
CONSTANTS
    Op = {listen, read, a1, a2}
    PollOp = {a1, a2}
    BlockingOp = {read}
    Worker = {w1, w2}
    Thread = {main, acceptor}
    Main = main
    Acceptor = acceptor
    Listen = listen
    NoOp = none
INVARIANTS
    OneAcceptAtATime
PROPERTY
    SignalledExit
CHECK_DEADLOCK FALSE
