------------------------------ MODULE EventLoop ------------------------------
(***************************************************************************)
(* The thread that runs the script: timers, intervals, handles, yield,     *)
(* await, and the loop at the end of the program (runtime.h                *)
(* process_completed_io; core.cpp builtin_setTimeout, fire_due_intervals,  *)
(* builtin_setInterval, builtin_clearInterval; collections.cpp             *)
(* builtin_yield; bytecode.cpp run_timer_loop and OP_GET_PROPERTY on a     *)
(* handle), in the interpreter.                                            *)
(*                                                                         *)
(* The pool is AsyncIO, which IOThreadPool implements.  Callbacks are      *)
(* script code that runs on top of the native call that fires it and may   *)
(* itself yield or await, so the state of the thread is a stack of native  *)
(* calls.  The script is free: it does any of the operations below in any  *)
(* order.  One handle belongs to each operation of IO.                     *)
(***************************************************************************)
EXTENDS Integers, Sequences, FiniteSets, SequencesExt

CONSTANTS
    Timer,              \* operations of set_timeout
    IO,                 \* operations that answer through a handle
    Interval,           \* ids, each given once by next_interval_id
    NoOp, NoInterval,
    MaxDepth            \* bound: native calls on top of each other

ASSUME LoopAssumption ==
    /\ IsFiniteSet(Timer) /\ IsFiniteSet(IO)
    /\ Timer \cap IO = {}
    /\ NoOp \notin Timer \cup IO
    /\ NoInterval \notin Interval
    /\ MaxDepth \in Nat

Op == Timer \cup IO

VARIABLES
    submitted, completions, delivered,  \* the pool, see AsyncIO
    stopped,            \* stop of the pool
    late,               \* operations submitted once it was set
    pending_timeouts,
    async_roots,        \* keys of gc_async_roots
    active_intervals,
    armed,              \* history: interval ids given so far
    past,               \* the intervals whose next_fire has passed
    handle,             \* state of the HandleData of an operation
    known,              \* the handles the script can still reach
    stack,              \* native calls of this thread, innermost last
    program,
    has_error,
    g_shutdown_requested

poolVars == <<submitted, completions, delivered>>
stopVars == <<stopped, late>>
timerVars == <<pending_timeouts, async_roots>>
intervalVars == <<active_intervals, armed, past>>
heapVars == <<handle, known>>
endVars == <<program, has_error, g_shutdown_requested>>
vars == <<poolVars, stopVars, timerVars, intervalVars, heapVars, stack, endVars>>

Pool == INSTANCE AsyncIO

Completed == ToSet(completions)
Delivered == {completions[n] : n \in 1..delivered}

-----------------------------------------------------------------------------
(* Native calls.  What is left of a call is its rest:                      *)
(*   steps     yield or one turn of the timer loop: the calls to come      *)
(*   process   process_completed_io, did once it called something          *)
(*   callback  the same, while the callback of op runs                     *)
(*   fire      fire_due_intervals with the ids due still holds             *)
(*   tick      the same, while the callback of the interval id runs        *)
(*   await     the loop of .await on the handle of op                      *)
(*   join      io_pool->shutdown()                                         *)
(* over: the script code of this callback has been stopped by an error.    *)

Call(at) == [at |-> at, steps |-> <<>>, op |-> NoOp, did |-> FALSE,
             due |-> {}, id |-> NoInterval, over |-> FALSE]

CallType ==
    [at : {"steps", "process", "callback", "fire", "tick", "await", "join"},
     steps : Seq({"stop", "process", "fire"}),
     op : Op \cup {NoOp}, did : BOOLEAN,
     due : SUBSET Interval, id : Interval \cup {NoInterval}, over : BOOLEAN]

Within(at) == stack # <<>> /\ Last(stack).at = at
Top == Last(stack)
Entered(c) == Append(stack, c)
Replaced(c) == Append(Front(stack), c)
Returned == Front(stack)

Due == active_intervals \cap past

CallTo(step) ==
    CASE step = "process" -> Call("process")
      [] step = "fire" -> [Call("fire") EXCEPT !.due = Due]
      [] step = "stop" -> Call("join")

TypeOK ==
    /\ submitted \subseteq Op
    /\ completions \in Seq(Op)
    /\ delivered \in 0..Len(completions)
    /\ stopped \in BOOLEAN
    /\ late \subseteq submitted
    /\ pending_timeouts \in Nat
    /\ async_roots \subseteq Timer
    /\ active_intervals \subseteq armed
    /\ armed \subseteq Interval
    /\ past \subseteq Interval
    /\ handle \in [IO -> {"none", "Running", "Completed", "freed"}]
    /\ known \subseteq {o \in IO : handle[o] \in {"Running", "Completed"}}
    /\ stack \in Seq(CallType)
    /\ program \in {"script", "loop", "ended"}
    /\ has_error \in BOOLEAN
    /\ g_shutdown_requested \in BOOLEAN

Init ==
    /\ Pool!Init
    /\ stopped = FALSE
    /\ late = {}
    /\ pending_timeouts = 0
    /\ async_roots = {}
    /\ active_intervals = {}
    /\ armed = {}
    /\ past = {}
    /\ handle = [o \in IO |-> "none"]
    /\ known = {}
    /\ stack = <<>>
    /\ program = "script"
    /\ has_error = FALSE
    /\ g_shutdown_requested = FALSE

-----------------------------------------------------------------------------
(* The script.  No instruction is executed once shutdown is requested.     *)

InScript ==
    /\ \/ program = "script" /\ stack = <<>>
       \/ (Within("callback") \/ Within("tick")) /\ ~Top.over
    /\ ~g_shutdown_requested

MayEnter == Len(stack) < MaxDepth

(* push_builtin_result: after an error, here or in a callback, the code    *)
(* that called a builtin is stopped, and the program if it is the main one.*)
BackFromBuiltin(s) ==
    IF ~has_error THEN stack' = s /\ UNCHANGED program
    ELSE IF s = <<>> THEN stack' = s /\ program' = "ended"
    ELSE stack' = [s EXCEPT ![Len(s)].over = TRUE] /\ UNCHANGED program

Handed(o) ==
    /\ Pool!Submit(o)
    /\ late' = IF stopped THEN late \cup {o} ELSE late

SetTimeout(o) ==
    /\ InScript
    /\ o \in Timer
    /\ Handed(o)
    /\ async_roots' = async_roots \cup {o}
    /\ pending_timeouts' = pending_timeouts + 1
    /\ BackFromBuiltin(stack)
    /\ UNCHANGED <<stopped, intervalVars, heapVars, has_error,
                   g_shutdown_requested>>

SetInterval(i) ==
    /\ InScript
    /\ i \in Interval \ armed
    /\ armed' = armed \cup {i}
    /\ active_intervals' = active_intervals \cup {i}
    /\ BackFromBuiltin(stack)
    /\ UNCHANGED <<poolVars, stopVars, timerVars, past, heapVars, has_error,
                   g_shutdown_requested>>

ClearInterval(i) ==
    /\ InScript
    /\ i \in active_intervals
    /\ active_intervals' = active_intervals \ {i}
    /\ BackFromBuiltin(stack)
    /\ UNCHANGED <<poolVars, stopVars, timerVars, armed, past, heapVars, has_error,
                   g_shutdown_requested>>

(* fs.read_file and its like: the handle is returned to the script. *)
StartIO(o) ==
    /\ InScript
    /\ o \in IO
    /\ Handed(o)
    /\ handle' = [handle EXCEPT ![o] = "Running"]
    /\ known' = known \cup {o}
    /\ BackFromBuiltin(stack)
    /\ UNCHANGED <<stopped, timerVars, intervalVars, has_error,
                   g_shutdown_requested>>

ForgetHandle(o) ==
    /\ InScript
    /\ o \in known
    /\ known' = known \ {o}
    /\ UNCHANGED <<poolVars, stopVars, timerVars, intervalVars, handle, stack,
                   endVars>>

(* .await pops the handle from the operand stack; it may be the last place *)
(* that held it.                                                           *)
Await(o) ==
    /\ InScript
    /\ o \in known
    /\ MayEnter
    /\ known' \in {known, known \ {o}}
    /\ stack' = Entered([Call("await") EXCEPT !.op = o])
    /\ UNCHANGED <<poolVars, stopVars, timerVars, intervalVars, handle, endVars>>

(* .ready polls for completed operations first. *)
ReadReady ==
    /\ InScript
    /\ known # {}
    /\ MayEnter
    /\ stack' = Entered(Call("process"))
    /\ UNCHANGED <<poolVars, stopVars, timerVars, intervalVars, heapVars, endVars>>

YieldSteps == <<"stop", "process", "fire", "process", "fire">>
LoopSteps == <<"process", "fire">>

Yield ==
    /\ InScript
    /\ MayEnter
    /\ stack' = Entered([Call("steps") EXCEPT !.steps = YieldSteps])
    /\ UNCHANGED <<poolVars, stopVars, timerVars, intervalVars, heapVars, endVars>>

CollectedAll == handle' = [o \in IO |->
    IF handle[o] = "Completed" THEN "freed" ELSE handle[o]]

(* A collection frees the handles the script cannot reach: no root stands  *)
(* for the handle of a pending operation or of an await.                   *)
Collected == handle' = [o \in IO |->
    IF handle[o] # "none" /\ o \notin known THEN "freed" ELSE handle[o]]

Safepoint ==
    /\ InScript
    /\ Collected
    /\ UNCHANGED <<poolVars, stopVars, timerVars, intervalVars, known, stack,
                   endVars>>

(* An uncaught error stops the code it occurs in.  In a callback, the      *)
(* native call that fired the callback goes on.                            *)
Panic ==
    /\ InScript
    /\ has_error' = TRUE
    /\ IF stack = <<>> THEN program' = "ended" /\ UNCHANGED stack
       ELSE stack' = Replaced([Top EXCEPT !.over = TRUE]) /\ UNCHANGED program
    /\ UNCHANGED <<poolVars, stopVars, timerVars, intervalVars, heapVars,
                   g_shutdown_requested>>

-----------------------------------------------------------------------------
(* process_completed_io.                                                   *)

RootsKept == async_roots
RootsCleared == async_roots \ {Top.op}

TakenTimerUncounted(o) ==
    /\ stack' = Replaced([Top EXCEPT !.at = "callback", !.op = o])
    /\ UNCHANGED <<pending_timeouts, handle>>

TakenTimer(o) ==
    /\ pending_timeouts' = pending_timeouts - 1
    /\ stack' = Replaced([Top EXCEPT !.at = "callback", !.op = o])
    /\ UNCHANGED handle

(* The callback of an IO operation is native: it settles the handle. *)
TakenIO(o) ==
    /\ handle' = [handle EXCEPT ![o] = IF @ = "Running" THEN "Completed" ELSE @]
    /\ stack' = Replaced([Top EXCEPT !.did = TRUE])
    /\ UNCHANGED pending_timeouts

TakeCompleted ==
    /\ Within("process")
    /\ Pool!Deliver
    /\ LET o == completions[delivered + 1] IN
           IF o \in Timer THEN TakenTimer(o) ELSE TakenIO(o)
    /\ UNCHANGED <<stopVars, async_roots, intervalVars, known, endVars>>

EndCallback ==
    /\ Within("callback")
    /\ async_roots' = RootsCleared
    /\ stack' = Replaced([Top EXCEPT !.at = "process", !.op = NoOp, !.did = TRUE,
                                   !.over = FALSE])
    /\ UNCHANGED <<poolVars, stopVars, pending_timeouts, intervalVars, heapVars,
                   endVars>>

ProcessReturns ==
    /\ Within("process")
    /\ delivered = Len(completions)
    /\ stack' = Returned
    /\ (Top.did /\ Collected) \/ UNCHANGED handle
    /\ UNCHANGED <<poolVars, stopVars, timerVars, intervalVars, known, endVars>>

-----------------------------------------------------------------------------
(* fire_due_intervals.                                                     *)

StillListed(i) == TRUE
StillActive(i) == i \in active_intervals

TickOrSkip ==
    /\ Within("fire")
    /\ \E i \in Top.due :
           stack' = Replaced(IF StillActive(i)
               THEN [Top EXCEPT !.at = "tick", !.id = i, !.due = @ \ {i}]
               ELSE [Top EXCEPT !.due = @ \ {i}])
    /\ UNCHANGED <<poolVars, stopVars, timerVars, intervalVars, heapVars, endVars>>

(* The interval is rescheduled from now on, unless the callback cleared it. *)
EndTick ==
    /\ Within("tick")
    /\ IF g_shutdown_requested
       THEN stack' = Returned /\ UNCHANGED past
       ELSE /\ past' = past \ {Top.id}
            /\ stack' = Replaced([Top EXCEPT !.at = "fire", !.id = NoInterval,
                                             !.over = FALSE])
    /\ UNCHANGED <<poolVars, stopVars, timerVars, active_intervals, armed,
                   heapVars, endVars>>

FireReturns ==
    /\ Within("fire")
    /\ Top.due = {}
    /\ stack' = Returned
    /\ UNCHANGED <<poolVars, stopVars, timerVars, intervalVars, heapVars, endVars>>

-----------------------------------------------------------------------------
(* yield, await, and the loop of the program.                              *)

(* A step of yield() or of the timer loop.  "stop" is for a requested      *)
(* shutdown only, and shutdown() returns at once if it was called before.  *)
NextStep ==
    /\ Within("steps")
    /\ Top.steps # <<>>
    /\ LET step == Head(Top.steps)
           rest == Replaced([Top EXCEPT !.steps = Tail(@)]) IN
       IF step = "stop"
       THEN LET stops == g_shutdown_requested /\ ~stopped IN
            /\ stopped' = (stopped \/ stops)
            /\ stack' = IF stops THEN Append(rest, CallTo(step)) ELSE rest
       ELSE stack' = Append(rest, CallTo(step)) /\ UNCHANGED stopped
    /\ UNCHANGED <<poolVars, late, timerVars, intervalVars, heapVars, endVars>>

StepsReturn ==
    /\ Within("steps")
    /\ Top.steps = <<>>
    /\ LET s == Returned IN
       IF \/ program = "loop" /\ s = <<>>
          \/ s # <<>> /\ Last(s).at = "await"
       THEN stack' = s /\ UNCHANGED program
       ELSE BackFromBuiltin(s)
    /\ UNCHANGED <<poolVars, stopVars, timerVars, intervalVars, heapVars,
                   has_error, g_shutdown_requested>>

(* The workers run what was queued before stop, and are joined. *)
PoolJoined ==
    /\ Within("join")
    /\ submitted \ late \subseteq Completed
    /\ stack' = Returned
    /\ UNCHANGED <<poolVars, stopVars, timerVars, intervalVars, heapVars, endVars>>

AwaitTurnFires == <<"process", "fire">>
AwaitTurn == <<"process">>

AwaitAgain ==
    /\ Within("await")
    /\ handle[Top.op] \in {"Running", "freed"}
    /\ stack' = Entered([Call("steps") EXCEPT !.steps = AwaitTurn])
    /\ UNCHANGED <<poolVars, stopVars, timerVars, intervalVars, heapVars, endVars>>

(* What a freed handle holds is anything, so the loop may end there too. *)
AwaitReturns ==
    /\ Within("await")
    /\ handle[Top.op] \in {"Completed", "freed"}
    /\ stack' = Returned
    /\ UNCHANGED <<poolVars, stopVars, timerVars, intervalVars, heapVars, endVars>>

ScriptEnds ==
    /\ program = "script" /\ stack = <<>>
    /\ program' = "loop"
    /\ UNCHANGED <<poolVars, stopVars, timerVars, intervalVars, heapVars, stack,
                   has_error, g_shutdown_requested>>

HasPendingTimeouts == pending_timeouts > 0
HasPendingTimers == pending_timeouts > 0 \/ active_intervals # {}

LoopTurn ==
    /\ program = "loop" /\ stack = <<>>
    /\ HasPendingTimers /\ ~has_error /\ ~g_shutdown_requested
    /\ stack' = Entered([Call("steps") EXCEPT !.steps = LoopSteps])
    /\ UNCHANGED <<poolVars, stopVars, timerVars, intervalVars, heapVars, endVars>>

LoopEnds ==
    /\ program = "loop" /\ stack = <<>>
    /\ ~HasPendingTimers \/ has_error \/ g_shutdown_requested
    /\ program' = "ended"
    /\ UNCHANGED <<poolVars, stopVars, timerVars, intervalVars, heapVars, stack,
                   has_error, g_shutdown_requested>>

-----------------------------------------------------------------------------
(* Outside this thread.                                                    *)

(* After stop nothing that comes late is run. *)
PoolCompletes(o) ==
    /\ o \notin late
    /\ Pool!Complete(o)
    /\ UNCHANGED <<stopVars, timerVars, intervalVars, heapVars, stack, endVars>>

Deadline(i) ==
    /\ i \in active_intervals \ past
    /\ past' = past \cup {i}
    /\ UNCHANGED <<poolVars, stopVars, timerVars, active_intervals, armed,
                   heapVars, stack, endVars>>

Signal ==
    /\ ~g_shutdown_requested
    /\ g_shutdown_requested' = TRUE
    /\ UNCHANGED <<poolVars, stopVars, timerVars, intervalVars, heapVars, stack,
                   program, has_error>>

-----------------------------------------------------------------------------
Script ==
    \/ \E o \in Op : SetTimeout(o) \/ StartIO(o)
    \/ \E i \in Interval : SetInterval(i) \/ ClearInterval(i)
    \/ \E o \in IO : ForgetHandle(o) \/ Await(o)
    \/ ReadReady \/ Yield \/ Safepoint \/ Panic

Native ==
    \/ TakeCompleted \/ ProcessReturns
    \/ TickOrSkip \/ FireReturns
    \/ NextStep \/ StepsReturn \/ PoolJoined
    \/ AwaitAgain \/ AwaitReturns
    \/ LoopTurn \/ LoopEnds

CallbackReturns == EndCallback \/ EndTick

Outside ==
    \/ \E o \in Op : PoolCompletes(o)
    \/ \E i \in Interval : Deadline(i)
    \/ Signal

Next ==
    \/ Script \/ Native \/ CallbackReturns \/ ScriptEnds
    \/ Outside

Spec == Init /\ [][Next]_vars

-----------------------------------------------------------------------------
Running == {n \in DOMAIN stack : stack[n].at \in {"callback", "tick"}}
TicksOf(i) == {n \in Running : stack[n].id = i}
CallsOf(o) == {n \in Running : stack[n].op = o}

(* pending_timeouts is the number of timeouts whose callback has not begun *)
(* (builtin_setTimeout, process_completed_io): the loop at the end of the  *)
(* program trusts it.                                                      *)
TimeoutsCounted ==
    pending_timeouts = Cardinality((submitted \cap Timer) \ Delivered)

(* The callback of a timeout is a root from set_timeout to the end of the  *)
(* call, through every collection in between, and no longer than that      *)
(* (async_root_set, async_root_clear).                                     *)
CallbackRooted ==
    async_roots = {o \in submitted \cap Timer :
                       o \notin Delivered \/ CallsOf(o) # {}}

(* The program does not end owing the script a timer, unless it was told   *)
(* to stop or failed (has_pending_timers, run_timer_loop).                 *)
NothingOwed ==
    program = "ended" /\ ~has_error /\ ~g_shutdown_requested =>
        submitted \cap Timer \subseteq Delivered /\ active_intervals = {}

(* No callback of an interval begins after the interval was cleared, also  *)
(* not when an earlier callback of the same batch cleared it               *)
(* (fire_due_intervals).                                                   *)
ClearedNeverTicks ==
    [][\A i \in Interval :
         Cardinality(TicksOf(i)') > Cardinality(TicksOf(i))
             => i \in active_intervals]_vars

(* An interval is "rescheduled from completion", so that its callback is   *)
(* not run while an earlier call of it has not completed -- except by a    *)
(* callback that yields, which fires it again: what an await or .ready     *)
(* polls for fires none (fire_due_intervals, .await).                      *)
YieldedWithin(m, n) ==
    \E k \in m + 1..n - 1 : stack[k].at = "steps" /\ k - 1 \in Running

TicksNestByYield ==
    \A i \in Interval : \A m, n \in TicksOf(i) : m < n => YieldedWithin(m, n)

=============================================================================
