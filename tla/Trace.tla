-------------------------------- MODULE Trace --------------------------------
(***************************************************************************)
(* The trace compiler.  A back edge of a loop that was taken often makes   *)
(* the machine record its next iteration as a trace: a list of steps in    *)
(* which every branch that the iteration did not take is a way out.  From  *)
(* then on the back edge enters the trace, which keeps the variables of    *)
(* the loop in registers and stores them in their slots where it leaves.   *)
(* What an instruction does is in VM; this module adds what the recorder   *)
(* makes of it, and the steps of a trace.                                  *)
(*                                                                         *)
(* Integers and arrays are all that the traces of the modelled language    *)
(* deal with: a recording that meets anything else is given up.            *)
(***************************************************************************)
EXTENDS VM

CONSTANT TraceHotThreshold      \* TRACE_HOT_THRESHOLD

ASSUME TraceAssumption == TraceHotThreshold \in Nat \ {0}

VARIABLES
    edgeHeat,           \* how often each back edge was taken
    recorder,           \* the iteration that is recorded
    traces,             \* the trace of each back edge that has one
    run                 \* the trace that runs, and how far it is

traceVars == <<edgeHeat, recorder, traces, run>>

\* The recording of the iteration that starts at target and ends with the jump at anchor.
Pending(anchor, target) ==
    [mode |-> "pending", aborted |-> FALSE, anchor |-> anchor, target |-> target,
     exit |-> 0,            \* where the loop is left, once that is known
     steps |-> <<>>,
     types |-> <<>>,        \* the types of the operands
     callee |-> 0,          \* the global function that was loaded, to be called
     closure |-> <<>>,      \* the closure that was loaded, to be called
     depth |-> 0]           \* the calls to be returned from until recording goes on

Idle == [Pending(0, 0) EXCEPT !.mode = "idle"]

NotRunning == [at |-> 0, operands |-> <<>>, passed |-> {}, regs |-> <<>>]

TraceInit ==
    /\ Init
    /\ edgeHeat = <<>>
    /\ recorder = Idle
    /\ traces = <<>>
    /\ run = NotRunning

----------------------------------------------------------------------------
\* Functions whose calls become steps of a trace

\* A function of a and b that returns a + b, a - b or a * b.
IsArithmetic(code) ==
    /\ IsPrefix(<<<<"LOAD_VAR", 0>>, <<"LOAD_VAR", 1>>>>, code)
    /\ Len(code) >= 4
    /\ code[3][1] \in Arithmetic
    /\ code[4] = <<"RETURN">>

\* A closure that adds a number to the first variable it captured, and returns the sum.
AddsToCapture(code) ==
    LET captured == <<"LOAD_CAPTURE", 1>>
    IN /\ Len(code) >= 7
       /\ code[2][1] = "LOAD_ONE" \/ (code[2][1] = "LOAD_CONST" /\ code[2][2][1] = "int")
       /\ IsPrefix(<<captured, code[2], <<"ADD">>, <<"STORE_CAPTURE", 1>>, <<"POP">>,
                     captured, <<"RETURN">>>>, code)

CodeOf(f) == Chunk[f[2]].code
IsAddingClosure(f) == f[1] = "fn" /\ AddsToCapture(CodeOf(f)) /\ f[3] # <<>>
NumberOf(load) == IF load[1] = "LOAD_ONE" THEN IntV(1) ELSE load[2]

----------------------------------------------------------------------------
\* Recording.  The recorder looks at an instruction when it is done: its operands have
\* left the stack, and its result is there.

Abort(r) == [r EXCEPT !.aborted = TRUE, !.callee = 0]
Result == Last(stack')

\* One more step, that takes the types wanted from the operands and leaves those given.
Record(r, step, wanted, given) ==
    LET kept == Len(r.types) - Len(wanted)
    IN IF kept >= 0 /\ SubSeq(r.types, kept + 1, Len(r.types)) = wanted
       THEN [r EXCEPT !.steps = Append(@, step), !.types = SubSeq(@, 1, kept) \o given]
       ELSE Abort(r)

RecordLoad(r, i) ==
    CASE Result[1] = "int" -> Record(r, <<"LoadInt", i>>, <<>>, <<"int">>)
      [] IsArray(Result) ->
           Record(r, <<"LoadArray", i, Result[2], Len(Elements(Result))>>, <<>>, <<"array">>)
      [] IsAddingClosure(Result) ->
           [r EXCEPT !.closure = <<i, CodeOf(Result)[2]>>, !.types = Append(@, "closure")]
      [] OTHER -> Abort(r)

\* A function that is loaded for a call is no operand of the trace.
RecordLoadGlobal(r, x) ==
    IF r.callee = 0 /\ x \in DOMAIN globals /\ globals[x][1] = "fn"
    THEN [r EXCEPT !.callee = globals[x][2]]
    ELSE Abort(r)

\* The instructions of a function that became a step are not recorded.
RecordCall(r, argc) ==
    LET closure == Record(r, <<"CallClosure", r.closure[1], r.closure[2]>>,
                          <<Last(r.types)>>, <<"int">>)
        code == Chunk[r.callee].code
        arithmetic == Record(r, <<"Operate", code[3][1]>>, <<"int", "int">>, <<"int">>)
    IN CASE r.closure # <<>> /\ argc = 0 /\ r.types # <<>> ->
              [closure EXCEPT !.closure = <<>>, !.depth = 1]
         [] r.closure = <<>> /\ r.callee # 0 /\ argc = 2 /\ IsArithmetic(code) ->
              [arithmetic EXCEPT !.callee = 0, !.depth = 1]
         [] OTHER -> [Abort(r) EXCEPT !.closure = <<>>]

\* Mutant: the two ways out of a branch are swapped.
BranchStepSwapped(r, next, target) ==
    CASE r.exit \in {0, target} -> <<"CondExit">>
      [] r.exit \notin {0, target} /\ Last(frames').pc = next -> <<"SideExitIfTrue", target>>
      [] OTHER -> <<"SideExitIfFalse", next>>

\* The first conditional jump of an iteration is taken for the one that leaves the loop,
\* whether it does or not.  At any other, the way that was not taken is a way out.
BranchStep(r, next, target) ==
    CASE r.exit \in {0, target} -> <<"CondExit">>
      [] r.exit \notin {0, target} /\ Last(frames').pc = next -> <<"SideExitIfFalse", target>>
      [] OTHER -> <<"SideExitIfTrue", next>>

RecordBranch(r, next, target) ==
    IF r.types = <<>> THEN Abort(r)
    ELSE [Record(r, BranchStep(r, next, target), <<Last(r.types)>>, <<>>) EXCEPT
            !.exit = IF @ = 0 THEN target ELSE @]

\* An element that is there: a number to be read, or the place of one to be written.
InBounds(v, i) == IsArray(v) /\ i[1] = "int" /\ i[2] \in 0..(Len(Elements(v)) - 1)

RecordInstruction(r) ==
    LET i == Instruction
        op == i[1]
        pc == Frame.pc
        top == Last(r.types)
    IN CASE op = "LOAD_VAR" -> RecordLoad(r, i[2])
         [] op = "STORE_VAR" -> Record(r, <<"StoreInt", i[2]>>, <<"int">>, <<"int">>)
         [] op = "POP" /\ r.types # <<>> -> Record(r, <<"Pop">>, <<top>>, <<>>)
         [] op = "DUP" /\ r.types # <<>> -> Record(r, <<"Dup">>, <<top>>, <<top, top>>)
         [] op \in {"LOAD_ZERO", "LOAD_ONE"} \/ (op = "LOAD_CONST" /\ i[2][1] = "int") ->
              Record(r, <<"Const", Result>>, <<>>, <<"int">>)
         [] op = "LOAD_GLOBAL" -> RecordLoadGlobal(r, i[2])
         [] op = "CALL" -> RecordCall(r, i[2])
         [] op \in Arithmetic -> Record(r, <<"Operate", op>>, <<"int", "int">>, <<"int">>)
         [] op \in Comparisons -> Record(r, <<"Operate", op>>, <<"int", "int">>, <<"bool">>)
         [] op = "NOT" /\ r.types # <<>> /\ top \in {"bool", "int"} ->
              Record(r, <<"Not">>, <<top>>, <<"bool">>)
         [] op = "JUMP_IF_FALSE" -> RecordBranch(r, pc + 1, pc + 1 + i[2])
         [] op = "GET_INDEX" /\ Result[1] = "int" ->
              Record(r, <<"GetIndex", pc>>, <<"array", "int">>, <<"int">>)
         [] op = "SET_INDEX" /\ InBounds(Peek(2), Peek(1)) ->
              Record(r, <<"SetIndex", pc>>, <<"array", "int", "int">>, <<"int">>)
         [] OTHER -> Abort(r)

\* The body of a function that became a step is skipped.
RecordStep(r) ==
    CASE r.mode # "recording" \/ r.aborted -> r
      [] r.mode = "recording" /\ ~r.aborted /\ r.depth > 0 ->
           [r EXCEPT !.depth = @ + (CASE Instruction[1] = "CALL" -> 1
                                      [] Instruction[1] = "RETURN" -> -1
                                      [] OTHER -> 0)]
      [] OTHER -> RecordInstruction(r)

\* The iteration to be recorded starts where the jump back has led.
Current ==
    IF recorder.mode = "pending" /\ Frame.pc = recorder.target
    THEN [recorder EXCEPT !.mode = "recording", !.steps = <<>>, !.types = <<>>]
    ELSE recorder

----------------------------------------------------------------------------
\* The interpreter

NotInTrace == run = NotRunning

Interpret ==
    /\ NotInTrace
    /\ Execute
    /\ recorder' = IF Frame.native THEN recorder ELSE RecordStep(Current)
    /\ UNCHANGED <<edgeHeat, traces, run>>

\* The instruction and the function it is in.
Edge == <<Frame.func, Frame.pc>>
Target == Frame.pc + 1 + Instruction[2]
AtBackEdge == NotInTrace /\ At({"JUMP"}) /\ Instruction[2] < 0

JumpForward ==
    /\ NotInTrace
    /\ Jump
    /\ Instruction[2] >= 0
    /\ recorder' = Current
    /\ UNCHANGED <<edgeHeat, traces, run>>

\* The variables that a trace names, each with the step that does so first.
Naming == {"LoadInt", "StoreInt", "LoadArray", "CallClosure"}
LiveVariables(steps) ==
    LET Names(i) == SelectSeq(steps, LAMBDA s : s[1] \in Naming /\ s[2] = i)
    IN [i \in {steps[k][2] : k \in {j \in DOMAIN steps : steps[j][1] \in Naming}} |->
          Head(Names(i))]
LivesAs(step) == IF step[1] \in {"LoadInt", "StoreInt"} THEN "int" ELSE step[1]

\* A variable has one type in a trace.
Compiles(r) ==
    LET live == LiveVariables(r.steps)
    IN /\ ~r.aborted /\ r.exit # 0
       /\ DOMAIN live # {}
       /\ \A k \in DOMAIN r.steps :
             LET s == r.steps[k]
             IN /\ s[1] \in {"LoadInt", "StoreInt"} => LivesAs(live[s[2]]) # "CallClosure"
                /\ s[1] = "LoadArray" => LivesAs(live[s[2]]) = "LoadArray"

\* The iteration is complete: its trace is there for the next time.
FinishRecording ==
    /\ AtBackEdge
    /\ Current.mode = "recording" /\ Current.anchor = Frame.pc
    /\ traces' = IF ~Compiles(Current) THEN traces
                 ELSE (Edge :> [steps |-> Append(Current.steps, <<"LoopBack">>),
                                exit |-> Current.exit]) @@ traces
    /\ recorder' = Idle
    /\ Jump
    /\ UNCHANGED <<edgeHeat, run>>

\* While an iteration is recorded, no other jump counts, and no trace is entered.
PassEdge ==
    /\ AtBackEdge
    /\ Current.mode # "idle"
    /\ ~(Current.mode = "recording" /\ Current.anchor = Frame.pc)
    /\ recorder' = Current
    /\ Jump
    /\ UNCHANGED <<edgeHeat, traces, run>>

HeatEdge ==
    LET heat == 1 + IF Edge \in DOMAIN edgeHeat THEN edgeHeat[Edge] ELSE 0
    IN /\ AtBackEdge
       /\ recorder.mode = "idle" /\ Edge \notin DOMAIN traces
       /\ edgeHeat' = (Edge :> heat) @@ edgeHeat
       /\ recorder' = IF heat = TraceHotThreshold THEN Pending(Frame.pc, Target) ELSE recorder
       /\ Jump
       /\ UNCHANGED <<traces, run>>

----------------------------------------------------------------------------
\* Running a trace

Trace == traces[Edge]
Live == LiveVariables(Trace.steps)

\* A variable is what it was when the trace was recorded: an integer, a function, or the
\* same array with as many elements.
Guarded(i) ==
    LET v == stack[Slot(i)]
        step == Live[i]
    IN CASE LivesAs(step) = "int" -> v[1] = "int"
         [] LivesAs(step) = "LoadArray" -> v = Ref(step[3]) /\ Len(Elements(v)) = step[4]
         [] LivesAs(step) = "CallClosure" -> v[1] \in {"fn", "builtin"}

MayEnter == AtBackEdge /\ recorder.mode = "idle" /\ Edge \in DOMAIN traces

EnterTrace ==
    /\ MayEnter
    /\ \A i \in DOMAIN Live : Guarded(i)
    /\ run' = [at |-> 1, operands |-> <<>>, passed |-> {},
               regs |-> [i \in {j \in DOMAIN Live : LivesAs(Live[j]) = "int"} |-> stack[Slot(i)]]]
    /\ UNCHANGED <<vmVars, edgeHeat, recorder, traces>>

RefuseTrace ==
    /\ MayEnter
    /\ \E i \in DOMAIN Live : ~Guarded(i)
    /\ Jump
    /\ UNCHANGED traceVars

----------------------------------------------------------------------------
\* The steps of a trace.  Its operands are not on the stack of the machine; one that was
\* loaded from a variable is the register of the variable.

AtStep(kinds) == run # NotRunning /\ Trace.steps[run.at][1] \in kinds
Step == Trace.steps[run.at]

ValueOf(operand) == IF operand[1] = "reg" THEN run.regs[operand[2]] ELSE operand
OperandAt(n) == run.operands[Len(run.operands) - n]
NumberAt(n) == ValueOf(OperandAt(n))

\* Goes on with the next step, with n operands less and one or none more.
Continue(n, pushed) ==
    run' = [run EXCEPT !.at = @ + 1, !.operands = Drop(@, n) \o pushed]

\* Goes back to the interpreter: the variables that have a register are stored in their
\* slots, and the operands of the instruction that is next are put on the stack.
Leave(pc, pushed) ==
    /\ stack' = [i \in DOMAIN stack |->
                   IF \E j \in DOMAIN run.regs : i = Slot(j)
                   THEN run.regs[i - Frame.base - 1] ELSE stack[i]] \o pushed
    /\ Goto(pc)
    /\ run' = NotRunning
    /\ UNCHANGED <<program, jitVars, cells, heap, globals, out, status>>

TraceLoad ==
    /\ AtStep({"LoadInt", "LoadArray", "Const"})
    /\ Continue(0, <<CASE Step[1] = "LoadInt" -> <<"reg", Step[2]>>
                       [] Step[1] = "LoadArray" -> <<"array", Step[2]>>
                       [] Step[1] = "Const" -> Step[2]>>)
    /\ UNCHANGED vmVars

TraceStore ==
    /\ AtStep({"StoreInt"})
    /\ run' = [run EXCEPT !.at = @ + 1, !.regs[Step[2]] = NumberAt(0)]
    /\ UNCHANGED vmVars

TracePop ==
    /\ AtStep({"Pop", "Dup"})
    /\ IF run.operands = <<>> THEN Continue(0, <<>>)
       ELSE IF Step[1] = "Pop" THEN Continue(1, <<>>) ELSE Continue(0, <<OperandAt(0)>>)
    /\ UNCHANGED vmVars

TraceOperate ==
    /\ AtStep({"Operate", "Not"})
    /\ IF Step[1] = "Not" THEN Continue(1, <<BoolV(~IsTruthy(NumberAt(0)))>>)
       ELSE Continue(2, <<Operated(Step[2], NumberAt(1), NumberAt(0))>>)
    /\ UNCHANGED vmVars

\* The operands that are left are lost when the trace is left here.
TraceBranch ==
    /\ AtStep({"CondExit", "SideExitIfFalse", "SideExitIfTrue"})
    /\ LET leaves == IsTruthy(NumberAt(0)) = (Step[1] = "SideExitIfTrue")
       IN \/ leaves /\ Leave(IF Step[1] = "CondExit" THEN Trace.exit ELSE Step[2], <<>>)
          \/ ~leaves /\ Continue(1, <<>>) /\ UNCHANGED vmVars

\* Outside of the array, the instruction is left to the interpreter, with its operands.  The
\* register that holds the array for this is set behind the check: in the first iteration of
\* a run it may hold anything, which is another value or the array.
TraceIndex ==
    LET argc == IF Step[1] = "GetIndex" THEN 2 ELSE 3
        operands == [i \in 1..argc |-> OperandAt(argc - i)]
        array == stack[Slot(operands[1][2])]
        numbers == [i \in 1..(argc - 1) |-> ValueOf(operands[i + 1])]
        index == numbers[1]
    IN /\ AtStep({"GetIndex", "SetIndex"})
       /\ \/ /\ ~InBounds(array, index)
             /\ \E v \in {array} \cup (IF run.at \in run.passed THEN {} ELSE {None}) :
                   Leave(Step[2], <<v>> \o numbers)
          \/ /\ InBounds(array, index)
             /\ run' = [run EXCEPT !.at = @ + 1, !.passed = @ \cup {run.at},
                                   !.operands = Append(Drop(@, argc),
                                       IF argc = 2 THEN IntV(ElementAt(array, index)[2])
                                                   ELSE operands[3])]
             /\ heap' = IF argc = 2 THEN heap
                        ELSE [heap EXCEPT ![array[2]].v[index[2] + 1] = numbers[2]]
             /\ UNCHANGED <<program, jitVars, frames, stack, cells, globals, out, status>>

\* Any closure that adds the same number will do.  One that does not ends the loop.
TraceCall ==
    LET f == stack[Slot(Step[2])]
        sum == Operated("ADD", cells[f[3][1]], NumberOf(Step[3]))
    IN /\ AtStep({"CallClosure"})
       /\ \/ /\ IsAddingClosure(f) /\ CodeOf(f)[2] = Step[3] /\ cells[f[3][1]][1] = "int"
             /\ Continue(0, <<sum>>)
             /\ cells' = [cells EXCEPT ![f[3][1]] = sum]
             /\ UNCHANGED <<program, jitVars, frames, stack, heap, globals, out, status>>
          \/ /\ ~(IsAddingClosure(f) /\ CodeOf(f)[2] = Step[3] /\ cells[f[3][1]][1] = "int")
             /\ Leave(Trace.exit, <<>>)

TraceLoop ==
    /\ AtStep({"LoopBack"})
    /\ run' = [run EXCEPT !.at = 1, !.operands = <<>>]
    /\ UNCHANGED vmVars

TraceStep ==
    /\ \/ TraceLoad \/ TraceStore \/ TracePop \/ TraceOperate \/ TraceBranch
       \/ TraceIndex \/ TraceCall \/ TraceLoop
    /\ UNCHANGED <<edgeHeat, recorder, traces>>

TraceNext ==
    \/ Interpret \/ JumpForward
    \/ FinishRecording \/ PassEdge \/ HeatEdge \/ EnterTrace \/ RefuseTrace
    \/ TraceStep

=============================================================================
