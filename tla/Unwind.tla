------------------------------- MODULE Unwind -------------------------------
(***************************************************************************)
(* How a script stops in the middle of things: panic(), fatal errors and   *)
(* the depth limit, through script frames, interpreter loops, compiled     *)
(* code, builtins that call back, and __nari_catch (bytecode.cpp           *)
(* call_function_value_span, call_function_value_catching,                 *)
(* push_builtin_result, dispatch_throw, run; jit_helpers.cpp).             *)
(*                                                                         *)
(* native is the C++ stack, of which only the frames that save state are   *)
(* kept: run() itself, interpreter loops, activations of compiled code,    *)
(* builtins that call back under temporary roots, and catching calls.  A   *)
(* frame is known by its height.  A C++ exit takes several steps: the      *)
(* interpreter loop whose instruction failed breaks (ctl = "leave"), and a *)
(* longjmp unwinds to overflow_jmp ("jump1" for a fatal error, "jump4" for *)
(* a panic that a boundary has captured).                                  *)
(*                                                                         *)
(* The compiler emits no try handlers, so a throw that no boundary         *)
(* captures is uncaught.  Left out: the signal that makes every loop       *)
(* leave without an error (jump value 3).                                  *)
(***************************************************************************)
EXTENDS Integers, SequencesExt

CONSTANTS
    MAX_CALL_DEPTH,
    MaxNative,          \* bound: frames of the C++ stack
    MaxBeyond,          \* bound: calls that are too deep
    MaxJit,             \* bound: calls out of compiled code
    MaxRoots            \* bound: builtins with temporary roots

ASSUME UnwindAssumption ==
    /\ MAX_CALL_DEPTH \in Nat \ {0}
    /\ MaxNative \in Nat \ {0}
    /\ MaxBeyond \in Nat
    /\ MaxJit \in Nat
    /\ MaxRoots \in Nat

VARIABLES
    phase,              \* what run() is doing
    native,
    frames,             \* the number of call frames
    native_catch_stack, \* `caught` of each boundary
    overflow_jmp,       \* the height of the frame that called setjmp, 0 if null
    jit_call_depth,
    jit_captures_raw,   \* the height of the activation that set it
    temp_roots,         \* the heights of the builtins that pushed roots
    has_error,
    throw_flag,         \* a panic that no instruction has taken yet
    ctl,
    skipped             \* history: a longjmp skipped frames that save state

jitVars == <<jit_call_depth, jit_captures_raw>>
catchVars == <<native_catch_stack, overflow_jmp>>
errorVars == <<has_error, throw_flag, ctl>>
vars == <<phase, native, frames, catchVars, jitVars, temp_roots, errorVars, skipped>>

(* A C++ frame: height is the number of call frames when it began, saved   *)
(* what it will put back, jit says whether compiled code counted the call. *)
NativeFrame(kind, saved, jit) ==
    [kind |-> kind, height |-> frames, saved |-> saved, jit |-> jit]

Kind == {"run", "loop", "code", "builtin", "catch"}

TypeOK ==
    /\ phase \in {"main", "timers", "done"}
    /\ native \in Seq([kind : Kind, height : Nat, saved : Nat, jit : BOOLEAN])
    /\ native # <<>>
    /\ frames \in Nat
    /\ native_catch_stack \in Seq(BOOLEAN)
    /\ overflow_jmp \in 0..MaxNative
    /\ jit_call_depth \in Nat
    /\ jit_captures_raw \in 0..MaxNative
    /\ temp_roots \in Seq(1..MaxNative)
    /\ has_error \in BOOLEAN
    /\ throw_flag \in BOOLEAN
    /\ ctl \in {"go", "leave", "jump1", "jump4"}
    /\ skipped \in BOOLEAN

Init ==
    /\ phase = "main"
    /\ native = <<[kind |-> "run", height |-> 0, saved |-> 0, jit |-> FALSE]>>
    /\ frames = 1
    /\ native_catch_stack = <<>>
    /\ overflow_jmp = 1
    /\ jit_call_depth = 0
    /\ jit_captures_raw = 0
    /\ temp_roots = <<>>
    /\ has_error = FALSE
    /\ throw_flag = FALSE
    /\ ctl = "go"
    /\ skipped = FALSE

-----------------------------------------------------------------------------
Top == Last(native)
Below == native[Len(native) - 1]
Running == ctl = "go" /\ phase # "done"

Interpreting ==
    Running /\ (Top.kind = "loop" \/ (Top.kind = "run" /\ phase = "main"))
InCompiled == Running /\ Top.kind = "code"
InScript == Interpreting \/ InCompiled

NeverAborting(jmp) == "go"

(* What compiled code does with has_error (jit_abort_on_runtime_error): it *)
(* goes on when there is no place to jump to.                              *)
Aborting(jmp) == IF jmp # 0 THEN "jump1" ELSE "go"

(* An error nobody can catch (dispatch_throw, runtime_panic):              *)
(* the instruction fails, or compiled code jumps.                          *)
Report ==
    /\ has_error' = TRUE
    /\ ctl' = IF InCompiled THEN Aborting(overflow_jmp) ELSE "leave"
    /\ UNCHANGED throw_flag

OutermostBoundary(boundaries) == 1
InnermostBoundary(boundaries) == Len(boundaries)

(* A builtin returns to script code: an error ends the instruction, and    *)
(* otherwise a pending panic goes to the innermost boundary, or is fatal   *)
(* if there is none (push_builtin_result; jit_runtime_call,                *)
(* jit_dispatch_script_throw).                                             *)
AfterBuiltin(compiled, boundaries, jmp, error, throw) ==
    LET fails == error /\ (compiled => jmp # 0)
    IN  \/ /\ fails
           /\ ctl' = IF compiled THEN "jump1" ELSE "leave"
           /\ has_error' = TRUE /\ throw_flag' = throw
           /\ native_catch_stack' = boundaries
        \/ /\ ~fails /\ ~throw
           /\ ctl' = "go"
           /\ has_error' = error /\ throw_flag' = FALSE
           /\ native_catch_stack' = boundaries
        \/ /\ ~fails /\ throw /\ boundaries # <<>>
           /\ ctl' = IF jmp # 0 THEN "jump4" ELSE IF compiled THEN "go" ELSE "leave"
           /\ has_error' = FALSE /\ throw_flag' = FALSE
           /\ native_catch_stack' =
                  [boundaries EXCEPT ![InnermostBoundary(boundaries)] = TRUE]
        \/ /\ ~fails /\ throw /\ boundaries = <<>>
           /\ ctl' = IF compiled THEN Aborting(jmp) ELSE "leave"
           /\ has_error' = TRUE /\ throw_flag' = FALSE
           /\ native_catch_stack' = boundaries

(* The frames of a C++ call of a script function, on top of n.             *)
CalleeCode(n, jit) == Append(n, NativeFrame("code", jit_captures_raw, jit))
CalleeLoop(n, jit) == Append(n, NativeFrame("loop", 0, jit))

-----------------------------------------------------------------------------
(* Calls between script functions.  The captures of a compiled closure     *)
(* are set around its code only.                                           *)

(* Compiled code that has no place to jump to makes the call that is too   *)
(* deep, after it has reported it.                                         *)
DepthChecked ==
    \/ /\ frames < MAX_CALL_DEPTH
       /\ UNCHANGED errorVars
    \/ /\ frames >= MAX_CALL_DEPTH
       /\ InCompiled /\ overflow_jmp = 0
       /\ frames < MAX_CALL_DEPTH + MaxBeyond
       /\ Report

CallCompiled ==
    /\ InScript
    /\ Len(native) < MaxNative
    /\ InCompiled => jit_call_depth < MaxJit
    /\ DepthChecked
    /\ frames' = frames + 1
    /\ native' = CalleeCode(native, InCompiled)
    /\ jit_captures_raw' = Len(native) + 1
    /\ jit_call_depth' = jit_call_depth + (IF InCompiled THEN 1 ELSE 0)
    /\ UNCHANGED <<phase, catchVars, temp_roots, skipped>>

CallInterpreted ==
    /\ InScript
    /\ DepthChecked
    /\ frames' = frames + 1
    /\ IF InCompiled
       THEN /\ Len(native) < MaxNative /\ jit_call_depth < MaxJit
            /\ native' = CalleeLoop(native, TRUE)
            /\ jit_call_depth' = jit_call_depth + 1
       ELSE UNCHANGED <<native, jit_call_depth>>
    /\ UNCHANGED <<phase, catchVars, jit_captures_raw, temp_roots, skipped>>

(* OP_CALL and jit_call_depth_overflow.  No boundary captures this throw.  *)
CallTooDeep ==
    /\ InScript
    /\ frames >= MAX_CALL_DEPTH
    /\ InCompiled => overflow_jmp # 0
    /\ Report
    /\ UNCHANGED <<phase, native, frames, catchVars, jitVars, temp_roots, skipped>>

GoesOn(depth) == "go"
AfterReturn(depth) == IF depth = 0 THEN "leave" ELSE "go"

(* OP_RETURN.  A loop ends when the frames are back where it began; one    *)
(* that compiled code runs then looks at has_error.                        *)
ReturnInterpreted ==
    /\ Interpreting
    /\ frames' = frames - 1
    /\ IF Top.kind = "loop" /\ frames' <= Top.height
       THEN /\ native' = Front(native)
            /\ jit_call_depth' = jit_call_depth - (IF Top.jit THEN 1 ELSE 0)
            /\ ctl' = IF Top.jit /\ has_error THEN Aborting(overflow_jmp) ELSE "go"
       ELSE /\ ctl' = AfterReturn(frames')
            /\ UNCHANGED <<native, jit_call_depth>>
    /\ UNCHANGED <<phase, catchVars, jit_captures_raw, temp_roots, has_error, throw_flag,
                   skipped>>

CapturesKept == jit_captures_raw
CapturesBefore == Top.saved

ReturnCompiled ==
    /\ InCompiled
    /\ frames' = frames - 1
    /\ native' = Front(native)
    /\ jit_captures_raw' = CapturesBefore
    /\ jit_call_depth' = jit_call_depth - (IF Top.jit THEN 1 ELSE 0)
    /\ UNCHANGED <<phase, catchVars, temp_roots, errorVars, skipped>>

-----------------------------------------------------------------------------
(* Builtins that call back, and the callbacks of run()'s timer loop.       *)

CallBuiltin ==
    /\ InScript
    /\ Len(native) < MaxNative /\ Len(temp_roots) < MaxRoots
    /\ native' = Append(native, NativeFrame("builtin", Len(temp_roots), FALSE))
    /\ temp_roots' = Append(temp_roots, Len(native) + 1)
    /\ UNCHANGED <<phase, frames, catchVars, jitVars, errorVars, skipped>>

(* call_function_value_span; at the depth limit it jumps if it can, and    *)
(* calls nothing otherwise.                                                *)
CallBack ==
    /\ Running
    /\ Top.kind = "builtin" \/ (Top.kind = "run" /\ phase = "timers")
    /\ Len(native) < MaxNative
    /\ IF frames < MAX_CALL_DEPTH
       THEN /\ frames' = frames + 1
            /\ \/ native' = CalleeLoop(native, FALSE) /\ UNCHANGED jit_captures_raw
               \/ native' = CalleeCode(native, FALSE) /\ jit_captures_raw' = Len(native) + 1
            /\ UNCHANGED errorVars
       ELSE /\ has_error' = TRUE
            /\ ctl' = Aborting(overflow_jmp)
            /\ UNCHANGED <<native, frames, jit_captures_raw, throw_flag>>
    /\ UNCHANGED <<phase, catchVars, jit_call_depth, temp_roots, skipped>>

BuiltinReturns ==
    /\ Running
    /\ Top.kind = "builtin"
    /\ native' = Front(native)
    /\ temp_roots' = SubSeq(temp_roots, 1, Top.saved)
    /\ AfterBuiltin(Below.kind = "code", native_catch_stack, overflow_jmp, has_error, throw_flag)
    /\ UNCHANGED <<phase, frames, overflow_jmp, jitVars, skipped>>

-----------------------------------------------------------------------------
(* __nari_catch. *)

(* call_function_value_catching up to the call of the callback. *)
BeginCatch ==
    /\ InScript
    /\ Len(native) + 1 < MaxNative
    /\ native_catch_stack' = Append(native_catch_stack, FALSE)
    /\ overflow_jmp' = Len(native) + 1
    /\ LET n == Append(native, NativeFrame("catch", overflow_jmp, FALSE))
       IN  IF frames < MAX_CALL_DEPTH
           THEN /\ frames' = frames + 1
                /\ \/ native' = CalleeLoop(n, FALSE) /\ UNCHANGED jit_captures_raw
                   \/ native' = CalleeCode(n, FALSE) /\ jit_captures_raw' = Len(n) + 1
                /\ UNCHANGED errorVars
           ELSE /\ native' = n
                /\ has_error' = TRUE
                /\ ctl' = "jump1"
                /\ UNCHANGED <<frames, jit_captures_raw, throw_flag>>
    /\ UNCHANGED <<phase, jit_call_depth, temp_roots, skipped>>

BoundaryKept == native_catch_stack
BoundaryPopped == Front(native_catch_stack)
FramesKept == frames
FramesPopped == IF frames > Top.height THEN Top.height ELSE frames
JumpTargetKept == overflow_jmp
JumpTargetBefore == Top.saved
JitReset == 0
JitKept == jit_call_depth

(* What follows the callback in every case. *)
PutBack ==
    /\ overflow_jmp' = JumpTargetBefore
    /\ frames' = FramesPopped
    /\ native' = Front(native)
    /\ jit_call_depth' = JitKept

CatchReturnsUnchecked ==
    /\ Top.kind = "catch"
    /\ Running
    /\ PutBack
    /\ native_catch_stack' = BoundaryPopped
    /\ has_error' = FALSE
    /\ UNCHANGED <<phase, jit_captures_raw, temp_roots, ctl, throw_flag, skipped>>

(* The callback returned, or its loop gave up: Ok.  A panic that the       *)
(* boundary captured: Err.  Both forget the error.                         *)
CatchReturns ==
    /\ Top.kind = "catch"
    /\ Running
    /\ PutBack
    /\ AfterBuiltin(Below.kind = "code", BoundaryPopped, JumpTargetBefore, FALSE, throw_flag)
    /\ UNCHANGED <<phase, jit_captures_raw, temp_roots, skipped>>

(* longjmp(overflow_jmp): C++ frames above the target run no destructor.   *)
LongJump ==
    /\ native' = SubSeq(native, 1, overflow_jmp)
    /\ skipped' = (skipped \/ Len(native) > overflow_jmp)

CatchesPanic ==
    /\ ctl = "jump4"
    /\ LongJump
    /\ ctl' = "go"
    /\ UNCHANGED <<phase, frames, catchVars, jitVars, temp_roots, has_error, throw_flag>>

(* A fatal error unwinds to the next frame that called setjmp. *)
CatchUnwinds ==
    /\ ctl = "jump1"
    /\ native[overflow_jmp].kind = "catch"
    /\ Len(native) # overflow_jmp
    /\ LongJump
    /\ UNCHANGED <<phase, frames, catchVars, jitVars, temp_roots, errorVars>>

(* It goes on to the one after it; if there is none, the catching call     *)
(* returns with the error set.                                             *)
CatchPassesFatal ==
    /\ ctl = "jump1"
    /\ Top.kind = "catch"
    /\ Len(native) = overflow_jmp
    /\ PutBack
    /\ IF JumpTargetBefore # 0
       THEN /\ ctl' = "jump1"
            /\ native_catch_stack' = BoundaryPopped
            /\ UNCHANGED <<has_error, throw_flag>>
       ELSE AfterBuiltin(Below.kind = "code", BoundaryPopped, 0, TRUE, throw_flag)
    /\ UNCHANGED <<phase, jit_captures_raw, temp_roots, skipped>>

-----------------------------------------------------------------------------
(* Errors of the script.                                                   *)

(* panic(v): the builtin sets throw_flag and returns. *)
Panic ==
    /\ InScript
    /\ AfterBuiltin(InCompiled, native_catch_stack, overflow_jmp, has_error, TRUE)
    /\ UNCHANGED <<phase, native, frames, overflow_jmp, jitVars, temp_roots, skipped>>

(* OP_THROW, which the compiler emits for an assignment to a constant. *)
Throw ==
    /\ Interpreting
    /\ IF native_catch_stack # <<>>
       THEN /\ native_catch_stack' =
                   [native_catch_stack EXCEPT ![InnermostBoundary(native_catch_stack)] = TRUE]
            /\ ctl' = IF overflow_jmp # 0 THEN "jump4" ELSE "leave"
            /\ UNCHANGED has_error
       ELSE /\ has_error' = TRUE
            /\ ctl' = IF jit_call_depth > 0 /\ overflow_jmp # 0 THEN "jump1" ELSE "leave"
            /\ UNCHANGED native_catch_stack
    /\ UNCHANGED <<phase, native, frames, overflow_jmp, jitVars, temp_roots, throw_flag, skipped>>

(* A call of a value that is no function, and every RuntimeError.          *)
RuntimePanic ==
    /\ InScript
    /\ Report
    /\ UNCHANGED <<phase, native, frames, catchVars, jitVars, temp_roots, skipped>>

-----------------------------------------------------------------------------
(* Loops that break, and the end of the program.                           *)

(* execute_instruction() returned false: the loop ends and leaves the      *)
(* frames of the callee behind.                                            *)
LeaveLoop ==
    /\ ctl = "leave"
    /\ Top.kind = "loop"
    /\ native' = Front(native)
    /\ jit_call_depth' = jit_call_depth - (IF Top.jit THEN 1 ELSE 0)
    /\ ctl' = IF Top.jit /\ has_error THEN Aborting(overflow_jmp) ELSE "go"
    /\ UNCHANGED <<phase, frames, catchVars, jit_captures_raw, temp_roots, has_error,
                   throw_flag, skipped>>

(* The main loop of run(); the timers run only if there was no error. *)
EndMain ==
    /\ ctl = "leave"
    /\ Top.kind = "run"
    /\ overflow_jmp' = 0
    /\ phase' = IF has_error THEN "done" ELSE "timers"
    /\ ctl' = "go"
    /\ UNCHANGED <<native, frames, native_catch_stack, jitVars, temp_roots, has_error,
                   throw_flag, skipped>>

(* The longjmp to run() with value 1. *)
FatalExit ==
    /\ ctl = "jump1"
    /\ native[overflow_jmp].kind = "run"
    /\ LongJump
    /\ overflow_jmp' = 0
    /\ jit_call_depth' = 0
    /\ phase' = "done"
    /\ ctl' = "go"
    /\ UNCHANGED <<frames, native_catch_stack, jit_captures_raw, temp_roots, has_error,
                   throw_flag>>

EndTimers ==
    /\ Running
    /\ phase = "timers"
    /\ Top.kind = "run"
    /\ phase' = "done"
    /\ UNCHANGED <<native, frames, catchVars, jitVars, temp_roots, errorVars, skipped>>

Next ==
    \/ CallCompiled \/ CallInterpreted \/ CallTooDeep
    \/ ReturnInterpreted \/ ReturnCompiled
    \/ CallBuiltin \/ CallBack \/ BuiltinReturns
    \/ BeginCatch \/ CatchReturns \/ CatchesPanic \/ CatchUnwinds \/ CatchPassesFatal
    \/ Panic \/ Throw \/ RuntimePanic
    \/ LeaveLoop \/ EndMain \/ FatalExit \/ EndTimers

Spec == Init /\ [][Next]_vars

-----------------------------------------------------------------------------
Heights(kinds) == {i \in 1..Len(native) : native[i].kind \in kinds}

(* A longjmp never goes to a frame that is gone: overflow_jmp is the       *)
(* innermost frame that called setjmp, and null when there is none         *)
(* (call_function_value_catching, run).                                    *)
JumpTargetLives ==
    overflow_jmp =
        LET setjmps == Heights(IF phase = "main" THEN {"run", "catch"} ELSE {"catch"})
        IN  IF setjmps = {} THEN 0 ELSE CHOOSE i \in setjmps : \A j \in setjmps : j <= i

(* Each catching call has its boundary, and a panic is captured by the     *)
(* boundary of the call that the jump then goes to, and by no other        *)
(* (capture_native_throw).                                                 *)
InnermostCatches ==
    /\ Len(native_catch_stack) = Cardinality(Heights({"catch"}))
    /\ \A i \in 1..Len(native_catch_stack) :
           native_catch_stack[i] =>
               /\ i = Len(native_catch_stack)
               /\ ctl = "jump4" \/ (ctl = "go" /\ Top.kind = "catch")

(* Whatever happens in its callback, a catching call that returns leaves   *)
(* the call frames as it found them (call_function_value_catching).        *)
CatchLeavesNoFrames ==
    [][Len(native') < Len(native) /\ Top.kind = "catch" => frames' = Top.height]_vars

(* jit_call_depth is unsigned and may run ahead of the calls under way     *)
(* after a panic, but never behind: it does not wrap around                *)
(* (jit_call_value_impl).                                                  *)
JitDepthCovers ==
    jit_call_depth >= Cardinality({i \in 1..Len(native) : native[i].jit})

(* As long as no longjmp has skipped compiled code or a builtin, compiled  *)
(* code reads its own captures, and each temporary root is of a builtin    *)
(* that is still there (call_user_function_stack, GcTempRoot).             *)
SavedStateReturns ==
    ~skipped =>
        /\ Top.kind = "code" => jit_captures_raw = Len(native)
        /\ ToSet(temp_roots) = Heights({"builtin"})

(* A panic that was not taken waits only behind an error.  When script     *)
(* code goes on without one, the panic has been thrown and cannot come up  *)
(* in a builtin call that has nothing to do with it (push_builtin_result). *)
PanicNotForgotten == throw_flag => has_error

(* An error ends the main program, whatever compiled code and loops lie    *)
(* between, unless a builtin or a catching call is among them: nothing is  *)
(* called any more (run, jit_abort_on_runtime_error).                      *)
ErrorEndsMain ==
    [][has_error /\ phase = "main" /\ Heights({"builtin", "catch"}) = {}
           => frames' <= frames]_vars

=============================================================================
