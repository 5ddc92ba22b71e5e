--------------------------- MODULE DebugController ---------------------------
(***************************************************************************)
(* The debugger: the thread that runs the VM and asks the DebugController  *)
(* before every instruction whether to stop (bytecode.cpp, the hook in     *)
(* execute_instruction; debugger.cpp should_stop, publish_stop_and_wait),  *)
(* and the thread of the DAP server that obeys the client (dap_server.cpp  *)
(* dispatch and run_dap_server; debugger.cpp cmd_continue and its like).   *)
(*                                                                         *)
(* A place is a source line and the number of frames; line 0 stands for    *)
(* code without a source mapping, and files are folded into lines.  The    *)
(* program is any walk over places that calls and returns one frame at a   *)
(* time and ends.  Everything under mtx is one step; is_enabled is an      *)
(* atomic.  A client resumes and steps a program it was told is stopped    *)
(* and pauses one it thinks is running; it may set breakpoints, disconnect *)
(* or hang up at any moment.                                               *)
(***************************************************************************)
EXTENDS Integers

CONSTANTS
    Line,               \* source lines
    MaxDepth,           \* bound: call frames
    MaxInstructions     \* bound: instructions of the program

ASSUME DebuggerAssumption ==
    /\ Line \subseteq Nat \ {0}
    /\ MaxDepth \in Nat \ {0}
    /\ MaxInstructions \in Nat

VARIABLES
    is_enabled,
    stop_on_entry,
    entry_stop_done,
    stopped,
    exited,
    step_mode,
    step_anchor_depth,
    last,               \* last_line, last_file and last_depth
    breakpoints,
    vm,                 \* where the VM thread is
    at,                 \* the place of the next instruction
    left,               \* instructions the program still executes
    dap,                \* where the DAP thread is
    told                \* the client was told of a stop and has not resumed

stepVars == <<step_mode, step_anchor_depth>>
placeVars == <<at, left>>
entryVars == <<stop_on_entry, entry_stop_done>>
vars == <<is_enabled, entryVars, stopped, exited, stepVars, last, breakpoints,
          vm, placeVars, dap, told>>

StepMode == {"None", "Pause", "Over", "In", "Out"}
Place == [line : Line \cup {0}, depth : 1..MaxDepth]
Nowhere == [line |-> 0, depth |-> 0]

TypeOK ==
    /\ is_enabled \in BOOLEAN
    /\ stop_on_entry \in BOOLEAN
    /\ entry_stop_done \in BOOLEAN
    /\ stopped \in BOOLEAN
    /\ exited \in BOOLEAN
    /\ step_mode \in StepMode
    /\ step_anchor_depth \in 0..MaxDepth
    /\ last \in Place \cup {Nowhere}
    /\ breakpoints \subseteq Line
    /\ vm \in {"none", "hook", "ask", "publish", "announce", "wait", "execute",
               "exit", "ended"}
    /\ at \in Place
    /\ left \in 0..MaxInstructions
    /\ dap \in {"loop", "released", "closing", "disabled", "join", "gone"}
    /\ told \in BOOLEAN

(* After launch. *)
Init ==
    /\ is_enabled = TRUE
    /\ stop_on_entry \in BOOLEAN
    /\ entry_stop_done = FALSE
    /\ stopped = FALSE
    /\ exited = FALSE
    /\ step_mode = "None"
    /\ step_anchor_depth = 0
    /\ last = Nowhere
    /\ breakpoints = {}
    /\ vm = "none"
    /\ at \in {p \in Place : p.depth = 1}
    /\ left = MaxInstructions
    /\ dap = "loop"
    /\ told = FALSE

-----------------------------------------------------------------------------
(* The VM thread.                                                          *)

TestEnabled ==
    /\ vm = "hook"
    /\ vm' = IF is_enabled THEN "ask" ELSE "execute"
    /\ UNCHANGED <<is_enabled, entryVars, stopped, exited, stepVars, last,
                   breakpoints, placeVars, dap, told>>

HasLine == at.line # 0
PosNotCompared == FALSE
SamePos == at = last
EntryStop == stop_on_entry /\ ~entry_stop_done

OverStops ==
    /\ HasLine
    /\ at.depth <= step_anchor_depth
    /\ ~(SamePos /\ at.depth = step_anchor_depth)
OutStopsAtAnchor == HasLine /\ at.depth <= step_anchor_depth
OutStops == HasLine /\ at.depth < step_anchor_depth

(* Breakpoints count only while the program runs freely. *)
ModeStops ==
    CASE step_mode = "Pause" -> HasLine
      [] step_mode = "In" -> HasLine /\ ~SamePos
      [] step_mode = "Over" -> OverStops
      [] step_mode = "Out" -> OutStops
      [] step_mode = "None" -> HasLine /\ ~SamePos /\ at.line \in breakpoints

Stops == IF EntryStop THEN HasLine ELSE ModeStops

ShouldStop ==
    /\ vm = "ask"
    /\ vm' = IF Stops THEN "publish" ELSE "execute"
    /\ entry_stop_done' = (EntryStop => HasLine)
    /\ UNCHANGED <<is_enabled, stop_on_entry, stopped, exited, stepVars, last,
                   breakpoints, placeVars, dap, told>>

LastDeeper == [at EXCEPT !.depth = @ + 1]
LastHere == at

PublishStop ==
    /\ vm = "publish"
    /\ last' = LastHere
    /\ stopped' = TRUE
    /\ vm' = "announce"
    /\ UNCHANGED <<is_enabled, entryVars, exited, stepVars, breakpoints,
                   placeVars, dap, told>>

(* The listener sends the `stopped` event, without the lock. *)
Announce ==
    /\ vm = "announce"
    /\ told' = TRUE
    /\ vm' = "wait"
    /\ UNCHANGED <<is_enabled, entryVars, stopped, exited, stepVars, last,
                   breakpoints, placeVars, dap>>

WakesAnyway == TRUE
Wakes == ~stopped \/ exited

Resume ==
    /\ vm = "wait"
    /\ Wakes
    /\ vm' = "execute"
    /\ UNCHANGED <<is_enabled, entryVars, stopped, exited, stepVars, last,
                   breakpoints, placeVars, dap, told>>

Execute ==
    /\ vm = "execute"
    /\ left > 0
    /\ left' = left - 1
    /\ at' \in {p \in Place : p.depth \in (at.depth - 1)..(at.depth + 1)}
    /\ vm' = "hook"
    /\ UNCHANGED <<is_enabled, entryVars, stopped, exited, stepVars, last,
                   breakpoints, dap, told>>

(* The program ends at any instruction, and at the last one of the bound.  *)
EndProgram ==
    /\ vm = "execute"
    /\ vm' = "exit"
    /\ UNCHANGED <<is_enabled, entryVars, stopped, exited, stepVars, last,
                   breakpoints, placeVars, dap, told>>

NotifyExited ==
    /\ vm = "exit"
    /\ exited' = TRUE
    /\ vm' = "ended"
    /\ UNCHANGED <<is_enabled, entryVars, stopped, stepVars, last, breakpoints,
                   placeVars, dap, told>>

-----------------------------------------------------------------------------
(* The DAP thread.                                                         *)

ConfigurationDone ==
    /\ dap = "loop"
    /\ vm = "none"
    /\ vm' = "hook"
    /\ UNCHANGED <<is_enabled, entryVars, stopped, exited, stepVars, last,
                   breakpoints, placeVars, dap, told>>

SetBreakpoints(S) ==
    /\ dap = "loop"
    /\ breakpoints' = S
    /\ UNCHANGED <<is_enabled, entryVars, stopped, exited, stepVars, last, vm,
                   placeVars, dap, told>>

AnchorHere == last.depth
NotResumed == stopped
Resumed == FALSE

(* cmd_continue, also the one that lets go of the VM at the end. *)
Continue ==
    /\ step_mode' = "None"
    /\ stopped' = Resumed
    /\ told' = FALSE
    /\ UNCHANGED <<entryVars, exited, step_anchor_depth, last, breakpoints, vm,
                   placeVars>>

CmdContinue == dap = "loop" /\ told /\ Continue /\ UNCHANGED <<is_enabled, dap>>

(* cmd_next, cmd_step_in and cmd_step_out. *)
CmdStep(mode) ==
    /\ dap = "loop"
    /\ told
    /\ step_mode' = mode
    /\ step_anchor_depth' = AnchorHere
    /\ stopped' = Resumed
    /\ told' = FALSE
    /\ UNCHANGED <<is_enabled, entryVars, exited, last, breakpoints, vm, placeVars,
                   dap>>

CmdPause ==
    /\ dap = "loop"
    /\ ~told
    /\ step_mode' = "Pause"
    /\ UNCHANGED <<is_enabled, entryVars, stopped, exited, step_anchor_depth, last,
                   breakpoints, vm, placeVars, dap, told>>

(* disconnect or terminate: disable, let go of the VM, leave the loop; a   *)
(* client that hangs up only makes the loop end.  Then both once more.     *)
Disable(next) ==
    /\ is_enabled' = FALSE
    /\ dap' = next
    /\ UNCHANGED <<entryVars, stopped, exited, stepVars, last, breakpoints, vm,
                   placeVars, told>>

LetGo(next) == Continue /\ dap' = next /\ UNCHANGED is_enabled

Disconnect == dap = "loop" /\ Disable("released")

HangUp ==
    /\ dap = "loop"
    /\ dap' = "closing"
    /\ UNCHANGED <<is_enabled, entryVars, stopped, exited, stepVars, last,
                   breakpoints, vm, placeVars, told>>

WindDown ==
    \/ dap = "released" /\ LetGo("closing")
    \/ dap = "closing" /\ Disable("disabled")
    \/ dap = "disabled" /\ LetGo("join")

JoinVM ==
    /\ dap = "join"
    /\ vm \in {"none", "ended"}
    /\ dap' = "gone"
    /\ UNCHANGED <<is_enabled, entryVars, stopped, exited, stepVars, last,
                   breakpoints, vm, placeVars, told>>

-----------------------------------------------------------------------------
Hook == TestEnabled \/ ShouldStop \/ PublishStop \/ Announce \/ Resume
Running == Execute \/ EndProgram \/ NotifyExited

Client ==
    \/ ConfigurationDone
    \/ \E S \in SUBSET Line : SetBreakpoints(S)
    \/ CmdContinue \/ CmdPause
    \/ \E mode \in {"Over", "In", "Out"} : CmdStep(mode)
    \/ Disconnect \/ HangUp

Next == Hook \/ Running \/ Client \/ WindDown \/ JoinVM

Spec == Init /\ [][Next]_vars

(* Both threads run; the client need not do anything. *)
FairSpec ==
    /\ Spec
    /\ WF_vars(Hook \/ Running)
    /\ WF_vars(WindDown \/ JoinVM)

-----------------------------------------------------------------------------
(* What the client was shown holds: from the `stopped` event to its next   *)
(* command the program executes nothing, and the snapshot is of the place  *)
(* where the program is (publish_stop_and_wait).                           *)
AnnouncedStopHolds ==
    dap = "loop" /\ told => stopped /\ vm = "wait" /\ last = at

(* A step or a continue makes progress: the program is not stopped again   *)
(* at the place of the last stop, unless the client paused it              *)
(* (should_stop, publish_stop_and_wait).                                   *)
NoStopTwice ==
    [][vm = "ask" /\ vm' = "publish" /\ step_mode # "Pause" => at # last]_vars

(* A step over comes to a stop in the frame it began in or in a caller, a  *)
(* step out in a caller only, counted from the stop the client was shown   *)
(* when it asked (cmd_next, cmd_step_out, should_stop).                    *)
StepsLandOutside ==
    [][vm = "ask" /\ vm' = "publish" =>
         /\ step_mode = "Over" => at.depth <= last.depth
         /\ step_mode = "Out" => at.depth < last.depth]_vars

(* A resumed program goes on: no command of the client is lost between the *)
(* stopped event and the wait (cmd_continue, publish_stop_and_wait).       *)
ResumeIsHeard == vm = "wait" /\ ~told ~> vm # "wait"

=============================================================================
