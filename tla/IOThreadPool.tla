---------------------------- MODULE IOThreadPool ----------------------------
(***************************************************************************)
(* The I/O thread pool (io.h IOThreadPool): workers that wait on a         *)
(* condition variable for operations, threads that submit them, and the    *)
(* thread that runs the script, which takes completed operations and shuts *)
(* the pool down.                                                          *)
(*                                                                         *)
(* A critical section, or one access to an atomic, is one step: work_queue *)
(* and the predicate of cv.wait are only touched under queue_mutex,        *)
(* completed_queue only under completed_mutex; pending_count and stop are  *)
(* atomics.  op->completed is a plain bool, set before the operation is    *)
(* queued and without a lock, and read by the accept thread of TcpServer.  *)
(* What an operation reads or writes is left out; when it can end is not:  *)
(*   PollOp      TcpAccept and UdpRecv without a timeout end when a peer   *)
(*               acts, or within 100 ms of stop;                           *)
(*   BlockingOp  TcpRead, TcpWrite and HttpRequest wait in recv(), send()  *)
(*               and curl_easy_perform() without a timeout: a peer ends    *)
(*               them, stop does not;                                      *)
(*   the others  (timers, files, listening, datagrams sent, connecting,    *)
(*               which the system gives up on in time) end by themselves.  *)
(***************************************************************************)
EXTENDS Integers, Sequences, FiniteSets, SequencesExt

CONSTANTS
    Op,             \* IOOperation objects, each submitted once
    PollOp,
    BlockingOp,
    Worker,
    Thread,         \* the threads that submit operations
    Main,           \* the one that runs the script
    NoOp            \* a null IOOperationPtr

ASSUME PoolAssumption ==
    /\ IsFiniteSet(Op)
    /\ PollOp \subseteq Op
    /\ BlockingOp \subseteq Op \ PollOp
    /\ IsFiniteSet(Worker) /\ Worker # {}
    /\ IsFiniteSet(Thread) /\ Main \in Thread
    /\ NoOp \notin Op

VARIABLES
    work_queue,
    completed_queue,
    pending_count,
    stop,
    worker,         \* where a worker is in its loop
    op,             \* the local op of a worker
    submitter,      \* where a thread is in submit()
    submitting,     \* the argument of its submit()
    completed,      \* the operations whose flag completed is set
    shutdown,       \* where Main is in shutdown()
    asking,         \* whether Main is between the two tests of has_pending()
    made,           \* history: operations ever handed to submit()
    late,           \* history: those pushed once stop was set
    asked_of,       \* history: what was made when has_pending() began
    callbacks       \* history: the operations Main has taken, in order

threadVars == <<submitter, submitting>>
askVars == <<asking, asked_of>>
historyVars == <<made, late, callbacks>>
vars == <<work_queue, completed_queue, pending_count, stop, worker, op, completed,
          threadVars, shutdown, askVars, historyVars>>

Busy == {w \in Worker : worker[w] \in {"run", "publish", "decrement"}}
Waiting == {w \in Worker : worker[w] = "waiting"}
Held == {op[w] : w \in Busy}
Pushing == {submitting[t] : t \in {u \in Thread : submitter[u] = "push"}}

TypeOK ==
    /\ work_queue \in Seq(Op)
    /\ completed_queue \in Seq(Op)
    /\ pending_count \in Nat
    /\ stop \in BOOLEAN
    /\ worker \in [Worker -> {"lock", "waiting", "run", "publish", "decrement",
                              "exited"}]
    /\ op \in [Worker -> Op \cup {NoOp}]
    /\ submitter \in [Thread -> {"out", "push", "notify"}]
    /\ submitting \in [Thread -> Op \cup {NoOp}]
    /\ completed \subseteq Op
    /\ shutdown \in {"out", "notify", "join"}
    /\ asking \in BOOLEAN
    /\ made \subseteq Op
    /\ asked_of \subseteq made
    /\ late \subseteq made
    /\ callbacks \in Seq(Op)

Init ==
    /\ work_queue = <<>>
    /\ completed_queue = <<>>
    /\ pending_count = 0
    /\ stop = FALSE
    /\ worker = [w \in Worker |-> "lock"]
    /\ op = [w \in Worker |-> NoOp]
    /\ submitter = [t \in Thread |-> "out"]
    /\ submitting = [t \in Thread |-> NoOp]
    /\ completed = {}
    /\ shutdown = "out"
    /\ asking = FALSE
    /\ asked_of = {}
    /\ made = {}
    /\ late = {}
    /\ callbacks = <<>>

-----------------------------------------------------------------------------
(* submit().  A thread is inside one call at a time: Main never inside     *)
(* submit(), has_pending() and shutdown() at once.                         *)

BeginSubmit(t, o) ==
    /\ submitter[t] = "out"
    /\ t = Main => shutdown = "out" /\ ~asking
    /\ o \notin made
    /\ made' = made \cup {o}
    /\ pending_count' = pending_count + 1
    /\ submitter' = [submitter EXCEPT ![t] = "push"]
    /\ submitting' = [submitting EXCEPT ![t] = o]
    /\ UNCHANGED <<work_queue, completed_queue, stop, worker, op, completed,
                   shutdown, askVars, late, callbacks>>

AfterPushNothing == "out"
AfterPush == "notify"

Push(t) ==
    /\ submitter[t] = "push"
    /\ work_queue' = Append(work_queue, submitting[t])
    /\ late' = IF stop THEN late \cup {submitting[t]} ELSE late
    /\ submitter' = [submitter EXCEPT ![t] = AfterPush]
    /\ UNCHANGED <<completed_queue, pending_count, stop, worker, op,
                   completed, submitting, shutdown, askVars, made, callbacks>>

(* notify_one wakes one waiting worker, any of them, or none if none waits. *)
WakeOne ==
    IF Waiting = {} THEN worker' = worker
    ELSE \E w \in Waiting : worker' = [worker EXCEPT ![w] = "lock"]

WakeAll == worker' = [w \in Worker |-> IF w \in Waiting THEN "lock" ELSE worker[w]]

NotifyOne(t) ==
    /\ submitter[t] = "notify"
    /\ WakeOne
    /\ submitter' = [submitter EXCEPT ![t] = "out"]
    /\ submitting' = [submitting EXCEPT ![t] = NoOp]
    /\ UNCHANGED <<work_queue, completed_queue, pending_count, stop, op,
                   completed, shutdown, askVars, historyVars>>

-----------------------------------------------------------------------------
(* A worker.                                                               *)

AnyStop == stop
Drained == stop /\ work_queue = <<>>

Exit(w) ==
    /\ worker[w] = "lock"
    /\ Drained
    /\ worker' = [worker EXCEPT ![w] = "exited"]
    /\ UNCHANGED <<work_queue, completed_queue, pending_count, stop, op,
                   completed, threadVars, shutdown, askVars, historyVars>>

Wait(w) ==
    /\ worker[w] = "lock"
    /\ ~stop /\ work_queue = <<>>
    /\ worker' = [worker EXCEPT ![w] = "waiting"]
    /\ UNCHANGED <<work_queue, completed_queue, pending_count, stop, op,
                   completed, threadVars, shutdown, askVars, historyVars>>

FrontKept == work_queue
FrontPopped == Tail(work_queue)

Take(w) ==
    /\ worker[w] = "lock"
    /\ ~Drained
    /\ work_queue # <<>>
    /\ op' = [op EXCEPT ![w] = Head(work_queue)]
    /\ work_queue' = FrontPopped
    /\ worker' = [worker EXCEPT ![w] = "run"]
    /\ UNCHANGED <<completed_queue, pending_count, stop, completed, threadVars,
                   shutdown, askVars, historyVars>>

(* cv.wait may return without a notification, and then checks again. *)
SpuriousWake(w) ==
    /\ worker[w] = "waiting"
    /\ worker' = [worker EXCEPT ![w] = "lock"]
    /\ UNCHANGED <<work_queue, completed_queue, pending_count, stop, op,
                   completed, threadVars, shutdown, askVars, historyVars>>

(* The operation has ended: its flag says so, whatever becomes of the rest. *)
RunDone(w) ==
    /\ worker[w] = "run"
    /\ completed' = completed \cup {op[w]}
    /\ worker' = [worker EXCEPT ![w] = "publish"]
    /\ UNCHANGED <<work_queue, completed_queue, pending_count, stop, op,
                   threadVars, shutdown, askVars, historyVars>>

EndsNever(o) == FALSE
EndsForStop(o) == stop /\ o \in PollOp
EndsByItself(w) ==
    /\ op[w] \notin PollOp \cup BlockingOp \/ EndsForStop(op[w])
    /\ RunDone(w)

EndsByPeer(w) ==
    /\ op[w] \in PollOp \cup BlockingOp
    /\ RunDone(w)

(* Queues the operation for Main ... *)
Publish(w) ==
    /\ worker[w] = "publish"
    /\ completed_queue' = Append(completed_queue, op[w])
    /\ worker' = [worker EXCEPT ![w] = "decrement"]
    /\ UNCHANGED <<work_queue, pending_count, stop, op, completed, threadVars,
                   shutdown, askVars, historyVars>>

(* ... and only then stops counting it. *)
Decrement(w) ==
    /\ worker[w] = "decrement"
    /\ pending_count' = pending_count - 1
    /\ worker' = [worker EXCEPT ![w] = "lock"]
    /\ op' = [op EXCEPT ![w] = NoOp]
    /\ UNCHANGED <<work_queue, completed_queue, stop, completed, threadVars,
                   shutdown, askVars, historyVars>>

-----------------------------------------------------------------------------
(* Main.                                                                   *)

FrontLeft == completed_queue
RestCompleted == Tail(completed_queue)

MainFree == submitter[Main] = "out" /\ shutdown = "out" /\ ~asking

PopCompleted ==
    /\ MainFree
    /\ completed_queue # <<>>
    /\ callbacks' = Append(callbacks, Head(completed_queue))
    /\ completed_queue' = RestCompleted
    /\ UNCHANGED <<work_queue, pending_count, stop, worker, op, completed,
                   threadVars, shutdown, askVars, made, late>>

(* has_pending() reads the count, and when that is zero takes the lock and *)
(* looks at the queue; the other threads run in between.                   *)
TestsSwapped == <<completed_queue # <<>>, pending_count > 0>>
Tests == <<pending_count > 0, completed_queue # <<>>>>

BeginHasPending ==
    /\ MainFree
    /\ ~Tests[1]
    /\ asking' = TRUE
    /\ asked_of' = made
    /\ UNCHANGED <<work_queue, completed_queue, pending_count, stop, worker, op,
                   completed, threadVars, shutdown, historyVars>>

EndHasPending ==
    /\ asking
    /\ asking' = FALSE
    /\ asked_of' = {}
    /\ UNCHANGED <<work_queue, completed_queue, pending_count, stop, worker, op,
                   completed, threadVars, shutdown, historyVars>>

(* A second call of shutdown() finds stop set and returns. *)
BeginShutdown ==
    /\ MainFree
    /\ ~stop
    /\ stop' = TRUE
    /\ shutdown' = "notify"
    /\ UNCHANGED <<work_queue, completed_queue, pending_count, worker, op,
                   completed, threadVars, askVars, historyVars>>

NotifyAll ==
    /\ shutdown = "notify"
    /\ WakeAll
    /\ shutdown' = "join"
    /\ UNCHANGED <<work_queue, completed_queue, pending_count, stop, op,
                   completed, threadVars, askVars, historyVars>>

Join ==
    /\ shutdown = "join"
    /\ \A w \in Worker : worker[w] = "exited"
    /\ shutdown' = "out"
    /\ UNCHANGED <<work_queue, completed_queue, pending_count, stop, worker, op,
                   completed, threadVars, askVars, historyVars>>

-----------------------------------------------------------------------------
WorkerStep(w) ==
    \/ Exit(w) \/ Wait(w) \/ Take(w)
    \/ EndsByItself(w) \/ Publish(w) \/ Decrement(w)

Submission(t) == Push(t) \/ NotifyOne(t)

Next ==
    \/ \E t \in Thread : Submission(t) \/ \E o \in Op : BeginSubmit(t, o)
    \/ \E w \in Worker : WorkerStep(w) \/ SpuriousWake(w) \/ EndsByPeer(w)
    \/ PopCompleted
    \/ BeginHasPending \/ EndHasPending
    \/ BeginShutdown \/ NotifyAll \/ Join

Spec == Init /\ [][Next]_vars

(* The operating system runs every thread that can run, so a worker, a     *)
(* call of submit() and the rest of shutdown() go on.  Nothing obliges a   *)
(* peer to act, nor the script to submit, to ask, to take or to shut down. *)
FairSpec ==
    /\ Spec
    /\ \A w \in Worker : WF_vars(WorkerStep(w))
    /\ \A t \in Thread : WF_vars(Submission(t))
    /\ WF_vars(NotifyAll) /\ WF_vars(Join)

-----------------------------------------------------------------------------
Published == ToSet(completed_queue) \cup ToSet(callbacks)
AtLock == {w \in Worker : worker[w] = "lock"}
AtNotify == {t \in Thread : submitter[t] = "notify"}

(* No wakeup is lost: while a worker sleeps, every queued operation has a  *)
(* worker about to look at the queue or a notify_one still to come, and    *)
(* once shutdown() has notified, nobody sleeps (io.h submit, shutdown and  *)
(* the predicate of cv.wait).                                              *)
NoLostWakeup ==
    Waiting # {} =>
        /\ Len(work_queue) <= Cardinality(AtNotify) + Cardinality(AtLock)
        /\ stop => shutdown = "notify"

(* pending_count counts the operations submitted and not yet given to      *)
(* completed_queue for good, whichever thread holds them (submit and the   *)
(* end of the worker's loop).                                              *)
PendingCounted ==
    pending_count = Cardinality(Pushing \cup ToSet(work_queue) \cup Held)

(* When has_pending() answers no, Main has taken every operation there was *)
(* when it was called: an operation is queued as completed before it is    *)
(* uncounted, and the count is read before the queue, so that none passes  *)
(* from one to the other behind its back (has_pending, the end of the      *)
(* worker's loop).  What another thread submits after the first test may   *)
(* be missed.                                                              *)
NothingHidden == asking /\ ~Tests[2] => asked_of \subseteq ToSet(callbacks)

(* shutdown() drains: when the workers are gone, whatever was queued       *)
(* before stop has completed, and what came later never runs (the exit     *)
(* test of the worker, shutdown).                                          *)
DrainedAtShutdown ==
    (\A w \in Worker : worker[w] = "exited") =>
        /\ made \ (late \cup Pushing) \subseteq Published
        /\ ToSet(work_queue) \subseteq late

(* The pool is the asynchronous I/O the runtime is written against:        *)
(* nothing completes or is called back twice, or in another order.         *)
AsyncSpec == INSTANCE AsyncIO WITH
    submitted <- made,
    completions <- callbacks \o completed_queue,
    delivered <- Len(callbacks)
ImplementsAsyncIO == AsyncSpec!Spec

OnPeer(w) == worker[w] = "run" /\ op[w] \in PollOp \cup BlockingOp
Blocked(w) == worker[w] = "run" /\ op[w] \in BlockingOp

(* An operation that ends by itself completes, unless shutdown() came      *)
(* before it was queued, or from some moment on every worker is held by a  *)
(* peer that does not connect, send, read or answer (submit and the        *)
(* worker's loop).                                                         *)
OperationsEnd ==
    []<>(\E w \in Worker : ~OnPeer(w)) =>
        \A o \in Op \ (PollOp \cup BlockingOp) :
            o \in made ~> o \in late \cup Published

(* shutdown() returns: every worker notices stop, also those that poll.    *)
(* Only a recv(), a send() or an HTTP transfer with a peer that stays      *)
(* silent keeps it joining (shutdown, the worker).                         *)
ShutdownReturns ==
    []<>(\A w \in Worker : ~Blocked(w)) =>
        (shutdown = "notify" ~> shutdown = "out")

=============================================================================
