------------------------------ MODULE TcpServer ------------------------------
(***************************************************************************)
(* net.create_server and the end of the program: the accept thread that    *)
(* builtin_net_createServer starts once the socket listens, the signal     *)
(* that asks for shutdown, and the destructor of ScriptRuntime, which      *)
(* shuts the pool down and joins the accept thread.                        *)
(*                                                                         *)
(* Composes IOThreadPool: the accept thread is one of its threads and      *)
(* submits the TcpAccept operations, the members of PollOp; Listen is the  *)
(* TcpListen operation whose callback starts the thread; the reads and     *)
(* writes of a connection are among BlockingOp.  That PollOp is finite     *)
(* bounds the connections.  Nothing asks has_pending() here.               *)
(***************************************************************************)
EXTENDS IOThreadPool

CONSTANTS Acceptor, Listen

ASSUME ServerAssumption ==
    /\ Acceptor \in Thread \ {Main}
    /\ Listen \in Op \ (PollOp \cup BlockingOp)

VARIABLES
    g_shutdown_requested,
    accept_loop,    \* where the accept thread is in its loop
    accept_op,      \* its local accept_op
    program         \* the script, then the steps of the destructor

serverVars == <<g_shutdown_requested, accept_loop, accept_op, program>>
allVars == <<vars, serverVars>>

ServerTypeOK ==
    /\ TypeOK
    /\ g_shutdown_requested \in BOOLEAN
    /\ accept_loop \in {"none", "top", "submit", "wait", "ended"}
    /\ accept_op \in PollOp \cup {NoOp}
    /\ program \in {"script", "pool", "join", "gone"}

ServerInit ==
    /\ Init
    /\ g_shutdown_requested = FALSE
    /\ accept_loop = "none"
    /\ accept_op = NoOp
    /\ program = "script"

-----------------------------------------------------------------------------
(* SIGINT and SIGTERM, at any moment. *)
Signal ==
    /\ g_shutdown_requested' = TRUE
    /\ UNCHANGED <<vars, accept_loop, accept_op, program>>

(* The script submits, the listen operation among the rest. *)
ScriptSubmits(o) ==
    /\ program = "script"
    /\ o \notin PollOp
    /\ BeginSubmit(Main, o)
    /\ UNCHANGED serverVars

(* process_completed_io() on the script's thread; the callback of the      *)
(* listen operation starts the accept thread.                              *)
ScriptTakes ==
    /\ program = "script"
    /\ PopCompleted
    /\ accept_loop' = IF Head(completed_queue) = Listen THEN "top"
                      ELSE accept_loop
    /\ UNCHANGED <<g_shutdown_requested, accept_op, program>>

(* yield() shuts the pool down when shutdown is requested. *)
YieldShutsDown ==
    /\ program = "script"
    /\ g_shutdown_requested
    /\ BeginShutdown
    /\ UNCHANGED serverVars

(* The script is over: it ran to its end, or it panicked. *)
ScriptEnds ==
    /\ program = "script"
    /\ MainFree
    /\ program' = "pool"
    /\ UNCHANGED <<vars, g_shutdown_requested, accept_loop, accept_op>>

DestroyPool ==
    /\ program = "pool"
    /\ BeginShutdown
    /\ UNCHANGED serverVars

PoolDestroyed ==
    /\ program = "pool"
    /\ MainFree
    /\ stop
    /\ program' = "join"
    /\ UNCHANGED <<vars, g_shutdown_requested, accept_loop, accept_op>>

JoinAccept ==
    /\ program = "join"
    /\ accept_loop \in {"none", "ended"}
    /\ program' = "gone"
    /\ UNCHANGED <<vars, g_shutdown_requested, accept_loop, accept_op>>

(* The steps of submit() and shutdown() that are under way. *)
PoolGoesOn ==
    /\ \/ \E w \in Worker : WorkerStep(w)
       \/ Submission(Main)
       \/ NotifyAll \/ Join
    /\ UNCHANGED serverVars

Outside ==
    /\ \E w \in Worker : SpuriousWake(w) \/ EndsByPeer(w)
    /\ UNCHANGED serverVars

-----------------------------------------------------------------------------
(* The accept thread. *)

AcceptTop ==
    /\ accept_loop = "top"
    /\ \/ /\ g_shutdown_requested
          /\ accept_loop' = "ended"
          /\ UNCHANGED <<vars, accept_op>>
       \/ /\ ~g_shutdown_requested
          /\ \E o \in PollOp : BeginSubmit(Acceptor, o) /\ accept_op' = o
          /\ accept_loop' = "submit"
    /\ UNCHANGED <<g_shutdown_requested, program>>

AcceptSubmit ==
    /\ accept_loop = "submit"
    /\ Submission(Acceptor)
    /\ accept_loop' = IF submitter'[Acceptor] = "out" THEN "wait" ELSE "submit"
    /\ UNCHANGED <<g_shutdown_requested, accept_op, program>>

WakesAnyway == TRUE
WakesWhenAccepted == accept_op \in completed
Wakes == accept_op \in completed \/ g_shutdown_requested

(* It sleeps 10 ms at a time until the flag of the operation says that it  *)
(* has ended, queued for the script or not, or shutdown is requested.      *)
AcceptWait ==
    /\ accept_loop = "wait"
    /\ Wakes
    /\ accept_loop' = IF g_shutdown_requested THEN "ended" ELSE "top"
    /\ accept_op' = NoOp
    /\ UNCHANGED <<vars, g_shutdown_requested, program>>

AcceptLoop == AcceptTop \/ AcceptSubmit \/ AcceptWait

Destructor == DestroyPool \/ PoolDestroyed \/ JoinAccept

ServerNext ==
    \/ Signal
    \/ \E o \in Op : ScriptSubmits(o)
    \/ ScriptTakes \/ YieldShutsDown \/ ScriptEnds
    \/ Destructor
    \/ PoolGoesOn \/ Outside
    \/ AcceptLoop

ServerSpec == ServerInit /\ [][ServerNext]_allVars

(* The threads run: the pool's, the accept thread's, and the script's once *)
(* it is in submit(), in shutdown() or in the destructor.                  *)
FairServerSpec ==
    /\ ServerSpec
    /\ \A w \in Worker : WF_allVars(WorkerStep(w) /\ UNCHANGED serverVars)
    /\ WF_allVars(Submission(Main) /\ UNCHANGED serverVars)
    /\ WF_allVars((NotifyAll \/ Join) /\ UNCHANGED serverVars)
    /\ WF_allVars(AcceptLoop)
    /\ WF_allVars(Destructor)

-----------------------------------------------------------------------------
(* A listening socket has at most one accept that has not ended: the       *)
(* accept thread waits for the flag of the last one before it submits the  *)
(* next, so that no two workers accept on one socket and one of them is    *)
(* left in an accept() that does not look at stop.  Earlier ones may still *)
(* be on their way to the queue (accept_loop, the end of the worker's      *)
(* loop).                                                                  *)
OneAcceptAtATime == Cardinality((made \cap PollOp) \ completed) <= 1

(* When shutdown is requested, the destructor comes to an end: the workers *)
(* and the accept thread both notice, unless a worker stays in a recv(), a *)
(* send() or a transfer that its peer never ends (~ScriptRuntime,          *)
(* accept_loop).                                                           *)
SignalledExit ==
    []<>(\A w \in Worker : ~Blocked(w)) =>
        (program # "script" /\ g_shutdown_requested ~> program = "gone")

=============================================================================
