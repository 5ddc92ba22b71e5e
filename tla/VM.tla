--------------------------------- MODULE VM ----------------------------------
(***************************************************************************)
(* The virtual machine: VM::run and execute_instruction, one action per    *)
(* kind of instruction.  A frame's locals and operands are a stretch of    *)
(* one stack.  A local that a closure captured lives in a cell that the    *)
(* frame and the closure share; the frame keeps the cell open until        *)
(* CLOSE_UPVALUES, and stores to the local go to the slot and the cell.    *)
(*                                                                         *)
(* A value is a tuple, its type first.  Arrays and the strings that an     *)
(* append made are objects of the heap; the strings of the program text    *)
(* are shared constants that nothing may change, and stand for themselves. *)
(* The built-in print records its argument.                                *)
(***************************************************************************)
EXTENDS Verifier, SequencesExt

CONSTANTS
    Programs,           \* the compiled programs: the chunk of each, main its last function,
                        \* the native code of its functions, and the verdicts on both
    MaxCallDepth,       \* MAX_CALL_DEPTH
    JitThreshold        \* JIT_THRESHOLD

ASSUME VMAssumption == MaxCallDepth \in Nat \ {0} /\ JitThreshold \in Nat \ {0}

\* What the machine takes for granted and the verifier does not ask: the operands are of their
\* kind, no constant is a function or an object, the jump behind ITER_NEXT_KV is the one that
\* is taken at the end, and code that is reached does not run behind its end.
OperandsTyped(ins) ==
    CASE ins[1] \in {"CALL", "MAKE_ARRAY", "SELF_TAIL_CALL"} -> ins[2] \in Nat
      [] ins[1] \in ConditionalJumps \cup {"JUMP"} -> ins[2] \in Int
      [] ins[1] = "LOAD_CONST" -> ins[2][1] \notin {"fn", "ref"}
      [] ins[1] = "STORE_SLOT" -> ins[3][2][1] \notin {"fn", "ref"}
      [] ins[1] = "MAKE_CLOSURE" -> ins[3] \in Seq(Range(ins[3]))
      [] OTHER -> TRUE

WellFormed(f, heights) ==
    /\ {"code", "params", "locals", "hasRest"} \subseteq DOMAIN f
    /\ f.code \in Seq(Range(f.code)) /\ f.code # <<>>
    /\ f.params \in Nat /\ f.locals \in Nat /\ (f.hasRest => f.params > 0)
    /\ \A i \in DOMAIN f.code :
          /\ OperandsTyped(f.code[i])
          /\ f.code[i][1] = "ITER_NEXT_KV" => f.code[i + 1][1] = "JUMP_IF_FALSE"
    /\ \A pc \in DOMAIN heights : \A t \in Successors(f.code, pc, heights[pc]) : t[1] # Len(f.code)

MayRun(chunk, verdict) ==
    /\ chunk \in Seq(Range(chunk)) /\ chunk # <<>>
    /\ verdict = Verdict(chunk) /\ verdict.verified
    /\ \A i \in DOMAIN chunk : WellFormed(chunk[i], verdict.heights[i])

ASSUME ProgramsAssumption ==
    \A p \in DOMAIN Programs :
        /\ MayRun(Programs[p].chunk, Programs[p].verdict)
        /\ MayRun(NativeForm(Programs[p].chunk, Programs[p].native), Programs[p].nativeVerdict)

VARIABLES
    program,            \* the program that runs
    frames,             \* the call frames, the running one last
    stack,
    cells,              \* the value of each cell that was made
    heap,               \* the objects that were made
    globals,
    out,                \* what was printed
    status,             \* "running", "done" or "error"
    callCounts,         \* how often each function was called, up to JitThreshold
    compiled            \* the functions that run as native code

jitVars == <<callCounts, compiled>>
vmVars == <<program, jitVars, frames, stack, cells, heap, globals, out, status>>

----------------------------------------------------------------------------
\* Values

None == <<"none">>
IntV(n) == <<"int", n>>
BoolV(b) == <<"bool", b>>
Ref(id) == <<"ref", id>>
ArrayObj(vs) == [type |-> "array", v |-> vs]
StringObj(s) == [type |-> "string", s |-> s]

IsArray(v) == v[1] = "ref" /\ heap[v[2]].type = "array"
IsMutableString(v) == v[1] = "ref" /\ heap[v[2]].type = "string"
IsString(v) == v[1] = "str" \/ IsMutableString(v)
TextOf(v) == IF v[1] = "str" THEN v[2] ELSE heap[v[2]].s
Elements(v) == heap[v[2]].v

IsTruthy(v) ==
    CASE v[1] = "none" -> FALSE
      [] v[1] = "bool" -> v[2]
      [] v[1] = "int" -> v[2] # 0
      [] IsString(v) -> TextOf(v) # ""
      [] IsArray(v) -> Elements(v) # <<>>
      [] OTHER -> TRUE

ValuesEqual(a, b) ==
    IF IsString(a) /\ IsString(b) THEN TextOf(a) = TextOf(b) ELSE a = b

\* What a value looks like when it is printed.  An array holds none that was made later than
\* those in the heap, so there are at most as many inside one another.
Shown(value) ==
    LET ShownWith(inner, v) ==
            CASE IsArray(v) -> <<"array", inner[v[2]]>>
              [] IsString(v) -> <<"str", TextOf(v)>>
              [] v[1] = "fn" -> <<"fn">>
              [] OTHER -> v
        elements[depth \in 0..Len(heap)] ==
            [id \in DOMAIN heap |->
                IF depth = 0 THEN <<>>
                ELSE [i \in DOMAIN heap[id].v |->
                        ShownWith(elements[depth - 1], heap[id].v[i])]]
    IN ShownWith(elements[Len(heap)], value)

\* What @ makes of a value.
AsText(v) ==
    CASE IsString(v) -> TextOf(v) [] v[1] = "int" -> ToString(v[2])
      [] v[1] = "bool" -> IF v[2] THEN "true" ELSE "false"

----------------------------------------------------------------------------
\* Frames and the stack

Chunk == Programs[program].chunk
Frame == Last(frames)
ThisFunction == Chunk[Frame.func]
CodeAt(frame) == IF frame.native THEN Programs[program].native[frame.func]
                                 ELSE Chunk[frame.func].code
Instruction == CodeAt(Frame)[Frame.pc + 1]

\* The heights of the stack in that code, as the verifier works them out.
HeightsAt(frame) == (IF frame.native THEN Programs[program].nativeVerdict
                                     ELSE Programs[program].verdict).heights[frame.func]

NewFrame(func, base, captures) ==
    [func |-> func, pc |-> 0, base |-> base, inline |-> <<>>, open |-> <<>>,
     captures |-> captures, native |-> FALSE]

\* The open cells of a frame, by local: one that the frame holds itself, and a map.
OpenCells(frame) ==
    [i \in DOMAIN frame.inline \cup DOMAIN frame.open |->
        IF i \in DOMAIN frame.inline THEN frame.inline[i] ELSE frame.open[i]]

With(f, x, v) == [y \in DOMAIN f \cup {x} |-> IF y = x THEN v ELSE f[y]]
Nones(n) == [i \in 1..n |-> None]
Resize(s, n) == IF n <= Len(s) THEN SubSeq(s, 1, n) ELSE s \o Nones(n - Len(s))
Drop(s, n) == SubSeq(s, 1, Len(s) - n)
Peek(n) == stack[Len(stack) - n]
Slot(i) == Frame.base + i + 1

\* Where the value of a local is: its cell, when there is an open one.
IsOpen(i) == i \in DOMAIN OpenCells(Frame)
CellOf(i) == OpenCells(Frame)[i]
LocalValue(i) == IF IsOpen(i) THEN cells[CellOf(i)] ELSE stack[Slot(i)]

\* A function that is no closure captures nothing.
CaptureValue(i) == IF i \in DOMAIN Frame.captures THEN cells[Frame.captures[i]] ELSE None

\* The functions of a chunk are globals from the start.
FunctionGlobals(chunk) ==
    [x \in {chunk[i].name : i \in DOMAIN chunk} |->
        <<"fn", CHOOSE i \in DOMAIN chunk : chunk[i].name = x, <<>>>>]

GlobalValue(x) ==
    CASE x \in DOMAIN globals -> globals[x]
      [] x \notin DOMAIN globals /\ x = "print" -> <<"builtin">>
      [] OTHER -> None

Init ==
    /\ program \in DOMAIN Programs
    /\ frames = <<NewFrame(Len(Chunk), 0, <<>>)>>
    /\ stack = Nones(Chunk[Len(Chunk)].locals)
    /\ cells = <<>>
    /\ heap = <<>>
    /\ globals = FunctionGlobals(Chunk)
    /\ out = <<>>
    /\ status = "running"
    /\ callCounts = [i \in DOMAIN Chunk |-> 0]
    /\ compiled = {}

\* The machine is about to execute one of the operations ops.
At(ops) == status = "running" /\ Instruction[1] \in ops

Goto(pc) == frames' = [frames EXCEPT ![Len(frames)].pc = pc]
Advance == Goto(Frame.pc + 1)
ReplaceTop(n, v) == stack' = Append(Drop(stack, n), v)
Push(v) == ReplaceTop(0, v)

----------------------------------------------------------------------------
\* Constants, variables, operators

LoadConstant ==
    /\ At({"LOAD_CONST", "LOAD_NONE", "LOAD_TRUE", "LOAD_FALSE", "LOAD_ZERO", "LOAD_ONE"})
    /\ Push(CASE Instruction[1] = "LOAD_CONST" -> Instruction[2]
              [] Instruction[1] = "LOAD_NONE" -> None
              [] Instruction[1] \in {"LOAD_TRUE", "LOAD_FALSE"} ->
                   BoolV(Instruction[1] = "LOAD_TRUE")
              [] Instruction[1] \in {"LOAD_ZERO", "LOAD_ONE"} ->
                   IntV(IF Instruction[1] = "LOAD_ONE" THEN 1 ELSE 0))
    /\ Advance
    /\ UNCHANGED <<program, jitVars, cells, heap, globals, out, status>>

LoadVariable ==
    /\ At({"LOAD_VAR", "LOAD_CAPTURE", "LOAD_GLOBAL"})
    /\ Push(CASE Instruction[1] = "LOAD_VAR" -> LocalValue(Instruction[2])
              [] Instruction[1] = "LOAD_CAPTURE" -> CaptureValue(Instruction[2])
              [] Instruction[1] = "LOAD_GLOBAL" -> GlobalValue(Instruction[2]))
    /\ Advance
    /\ UNCHANGED <<program, jitVars, cells, heap, globals, out, status>>

\* The value stays on the stack.  A captured local is stored in its slot and in its cell.
StoreVar ==
    /\ At({"STORE_VAR"})
    /\ LET i == Instruction[2]
       IN /\ stack' = [stack EXCEPT ![Slot(i)] = Peek(0)]
          /\ cells' = IF IsOpen(i) THEN [cells EXCEPT ![CellOf(i)] = Peek(0)] ELSE cells
    /\ Advance
    /\ UNCHANGED <<program, jitVars, heap, globals, out, status>>

StoreCapture ==
    /\ At({"STORE_CAPTURE"})
    /\ cells' = IF Instruction[2] \in DOMAIN Frame.captures
                THEN [cells EXCEPT ![Frame.captures[Instruction[2]]] = Peek(0)] ELSE cells
    /\ Advance
    /\ UNCHANGED <<program, jitVars, stack, heap, globals, out, status>>

StoreGlobal ==
    /\ At({"STORE_GLOBAL"})
    /\ globals' = With(globals, Instruction[2], Peek(0))
    /\ Advance
    /\ UNCHANGED <<program, jitVars, stack, cells, heap, out, status>>

Pop ==
    /\ At({"POP"})
    /\ stack' = Drop(stack, 1)
    /\ Advance
    /\ UNCHANGED <<program, jitVars, cells, heap, globals, out, status>>

Dup ==
    /\ At({"DUP"})
    /\ Push(Peek(0))
    /\ Advance
    /\ UNCHANGED <<program, jitVars, cells, heap, globals, out, status>>

Operate1 ==
    /\ At({"NEG", "NOT"})
    /\ ReplaceTop(1, IF Instruction[1] = "NOT" THEN BoolV(~IsTruthy(Peek(0)))
                                               ELSE IntV(-Peek(0)[2]))
    /\ Advance
    /\ UNCHANGED <<program, jitVars, cells, heap, globals, out, status>>

\* The result of an operation with two operands.
Operated(op, a, b) ==
    CASE op = "ADD" -> IntV(a[2] + b[2])
      [] op = "SUB" -> IntV(a[2] - b[2])
      [] op = "MUL" -> IntV(a[2] * b[2])
      [] op = "EQ" -> BoolV(ValuesEqual(a, b))
      [] op = "NE" -> BoolV(~ValuesEqual(a, b))
      [] op = "LT" -> BoolV(a[2] < b[2])
      [] op = "LE" -> BoolV(a[2] <= b[2])
      [] op = "GT" -> BoolV(a[2] > b[2])
      [] op = "GE" -> BoolV(a[2] >= b[2])

Arithmetic == {"ADD", "SUB", "MUL"}
Comparisons == {"EQ", "NE", "LT", "LE", "GT", "GE"}

Operate2 ==
    /\ At(Arithmetic \cup Comparisons)
    /\ ReplaceTop(2, Operated(Instruction[1], Peek(1), Peek(0)))
    /\ Advance
    /\ UNCHANGED <<program, jitVars, cells, heap, globals, out, status>>

\* Native code extends the text on the left where it is, if it is an object.
InPlace == Instruction[1] = "STR_CONCAT_INPLACE" /\ IsMutableString(Peek(1))

Concatenate ==
    /\ At({"STR_CONCAT", "STR_CONCAT_INPLACE"})
    /\ ~InPlace
    /\ heap' = Append(heap, StringObj(AsText(Peek(1)) \o AsText(Peek(0))))
    /\ ReplaceTop(2, Ref(Len(heap) + 1))
    /\ Advance
    /\ UNCHANGED <<program, jitVars, cells, globals, out, status>>

\* x = x @ e: a string that is not a constant is extended where it is.
AppendToVar ==
    /\ At({"STR_APPEND_VAR"})
    /\ LET i == Instruction[2]
           old == LocalValue(i)
           text == AsText(old) \o AsText(Peek(0))
           inPlace == IsMutableString(old) /\ IsString(Peek(0))
           new == IF inPlace THEN old ELSE Ref(Len(heap) + 1)
       IN /\ heap' = IF inPlace THEN [heap EXCEPT ![old[2]].s = text]
                                ELSE Append(heap, StringObj(text))
          /\ cells' = IF IsOpen(i) THEN [cells EXCEPT ![CellOf(i)] = new] ELSE cells
          /\ stack' = Append([Drop(stack, 1) EXCEPT ![Slot(i)] = new], new)
    /\ Advance
    /\ UNCHANGED <<program, jitVars, globals, out, status>>

----------------------------------------------------------------------------
\* Jumps

Jump ==
    /\ At({"JUMP"})
    /\ Goto(Frame.pc + 1 + Instruction[2])
    /\ UNCHANGED <<program, jitVars, stack, cells, heap, globals, out, status>>

JumpTaken ==
    CASE Instruction[1] = "JUMP_IF_FALSE" -> ~IsTruthy(Peek(0))
      [] Instruction[1] = "JUMP_IF_TRUE" -> IsTruthy(Peek(0))
      [] Instruction[1] = "JUMP_IF_NONE" -> Peek(0) = None

ConditionalJump ==
    /\ At({"JUMP_IF_FALSE", "JUMP_IF_TRUE", "JUMP_IF_NONE"})
    /\ Goto(Frame.pc + 1 + (IF JumpTaken THEN Instruction[2] ELSE 0))
    /\ stack' = Drop(stack, 1)
    /\ UNCHANGED <<program, jitVars, cells, heap, globals, out, status>>

\* Native code jumps to a place in it.
NativeJump ==
    /\ At({"GOTO", "BRANCH"})
    /\ IF Instruction[1] = "GOTO" THEN Goto(Instruction[2]) /\ UNCHANGED stack
       ELSE /\ Goto(IF IsTruthy(Peek(0)) THEN Instruction[2] ELSE Instruction[3])
            /\ stack' = Drop(stack, 1)
    /\ UNCHANGED <<program, jitVars, cells, heap, globals, out, status>>

----------------------------------------------------------------------------
\* What only native code does

\* A slot is set without the stack, and without the cell of a local that was captured.
SetSlot ==
    /\ At({"STORE_SLOT", "COPY_SLOT"})
    /\ stack' = [stack EXCEPT ![Slot(Instruction[2])] =
                    IF Instruction[1] = "STORE_SLOT" THEN Instruction[3][2]
                    ELSE stack[Slot(Instruction[3])]]
    /\ Advance
    /\ UNCHANGED <<program, jitVars, cells, heap, globals, out, status>>

TestNone ==
    /\ At({"IS_NONE"})
    /\ ReplaceTop(1, BoolV(Peek(0) = None))
    /\ Advance
    /\ UNCHANGED <<program, jitVars, cells, heap, globals, out, status>>

ConcatenateInPlace ==
    /\ At({"STR_CONCAT_INPLACE"})
    /\ InPlace
    /\ heap' = [heap EXCEPT ![Peek(1)[2]].s = @ \o AsText(Peek(0))]
    /\ stack' = Drop(stack, 1)
    /\ Advance
    /\ UNCHANGED <<program, jitVars, cells, globals, out, status>>

----------------------------------------------------------------------------
\* Calls

Fail ==
    /\ status' = "error"
    /\ UNCHANGED <<program, jitVars, frames, stack, cells, heap, globals, out>>

\* call_user_function_stack: the arguments become the first locals of the new frame.
\* A missing one is null; those too many are dropped, or make the array of the rest
\* parameter.
RestArguments(f, args) == SubSeq(args, f.params, Len(args))

\* The calls of a function count until there are JitThreshold of them.  Then another thread
\* compiles it, if it can be, and from some call on its native code is there.
CountCall(func, native) ==
    LET counted == [callCounts EXCEPT ![func] = IF @ < JitThreshold THEN @ + 1 ELSE @]
    IN /\ native => counted[func] = JitThreshold /\ Programs[program].native[func] # <<>>
       /\ func \in compiled => native
       /\ callCounts' = counted
       /\ compiled' = IF native THEN compiled \cup {func} ELSE compiled

\* The local behind the arguments: a call from native code may leave in it what was there,
\* the last argument or the function.
FirstLocal(callee, args) ==
    LET f == Chunk[callee[2]]
    IN IF Frame.native /\ ~f.hasRest /\ Len(args) \in f.params..(f.locals - 1)
       THEN {None, Last(<<callee>> \o args)} ELSE {None}

Enter(callee, args, below) ==
    LET f == Chunk[callee[2]]
        rest == Ref(Len(heap) + 1)
    IN \E native \in BOOLEAN, first \in FirstLocal(callee, args) :
         /\ CountCall(callee[2], native)
         /\ stack' = below \o
              IF f.hasRest THEN Resize(Append(Resize(args, f.params - 1), rest), f.locals)
              ELSE Resize(IF Len(args) < f.locals THEN Append(args, first) ELSE args, f.locals)
         /\ heap' = IF f.hasRest THEN Append(heap, ArrayObj(RestArguments(f, args))) ELSE heap
         /\ frames' = Append([frames EXCEPT ![Len(frames)].pc = @ + 1],
                             [NewFrame(callee[2], Len(below), callee[3]) EXCEPT !.native = native])
         /\ UNCHANGED <<program, cells, globals, out, status>>

\* A built-in function makes no frame, but the depth is checked before it too.
Invoke(callee, args, below) ==
    CASE callee[1] = "builtin" /\ Len(frames) < MaxCallDepth ->
           /\ out' = Append(out, Shown(args[1]))
           /\ stack' = Append(below, None)
           /\ Advance
           /\ UNCHANGED <<program, jitVars, cells, heap, globals, status>>
      [] callee[1] = "fn" /\ Len(frames) < MaxCallDepth -> Enter(callee, args, below)
      [] OTHER -> Fail

CallFunction ==
    /\ At({"CALL"})
    /\ LET argc == Instruction[2]
       IN Invoke(Peek(argc), SubSeq(stack, Len(stack) - argc + 1, Len(stack)),
                 Drop(stack, argc + 1))

\* What is no array cannot be spread, which is an error.
CallSpread ==
    /\ At({"CALL_SPREAD"})
    /\ \/ IsArray(Peek(0)) /\ Invoke(Peek(1), Elements(Peek(0)), Drop(stack, 2))
       \/ ~IsArray(Peek(0)) /\ Fail

\* Mutant: the stack is not trimmed to the locals.
SelfTailCallUntrimmed ==
    /\ At({"SELF_TAIL_CALL"})
    /\ LET argc == Instruction[2]
           args == SubSeq(stack, Len(stack) - argc + 1, Len(stack))
       IN stack' = [i \in DOMAIN stack |->
                      IF i - Frame.base \in 1..ThisFunction.params
                      THEN IF i - Frame.base <= argc THEN args[i - Frame.base] ELSE None
                      ELSE stack[i]]
    /\ Goto(0)
    /\ UNCHANGED <<program, jitVars, cells, heap, globals, out, status>>

\* The frame is used again from the top of the function; its other locals and the open
\* cells stay.
SelfTailCall ==
    /\ At({"SELF_TAIL_CALL"})
    /\ LET argc == Instruction[2]
           args == SubSeq(stack, Len(stack) - argc + 1, Len(stack))
           kept == Resize(stack, Frame.base + ThisFunction.locals)
       IN stack' = [i \in DOMAIN kept |->
                      IF i - Frame.base \in 1..ThisFunction.params
                      THEN IF i - Frame.base <= argc THEN args[i - Frame.base] ELSE None
                      ELSE kept[i]]
    /\ Goto(0)
    /\ UNCHANGED <<program, jitVars, cells, heap, globals, out, status>>

ReturnToCaller ==
    /\ At({"RETURN"})
    /\ stack' = Append(SubSeq(stack, 1, Frame.base), Peek(0))
    /\ frames' = Front(frames)
    /\ status' = IF Len(frames) = 1 THEN "done" ELSE status
    /\ UNCHANGED <<program, jitVars, cells, heap, globals, out>>

\* An error that nothing catches: assigning a constant, here.
Throw ==
    /\ At({"THROW"})
    /\ Fail

----------------------------------------------------------------------------
\* Closures

\* The first local that is captured has its cell in the frame, the others in the map.  When
\* CLOSE_UPVALUES has emptied the place in the frame, the next local takes it, also one that
\* has a cell in the map.
GetOrCreateCell(m, i) ==
    LET made == [m EXCEPT !.cells = Append(@, m.stack[Slot(i)])]
    IN CASE i \in DOMAIN m.frame.inline -> m
         [] m.frame.inline = <<>> -> [made EXCEPT !.frame.inline = With(@, i, Len(made.cells))]
         [] m.frame.inline # <<>> /\ i \in DOMAIN m.frame.open -> m
         [] OTHER -> [made EXCEPT !.frame.open = With(@, i, Len(made.cells))]

\* One variable of a closure.  A captured local is stored in its slot again, as a closure
\* may have changed the cell.  The function may itself have captured the variable, or not,
\* when it was called by its name.
Captured(m, source) ==
    LET got == GetOrCreateCell(m, source[2])
        cell == OpenCells(got.frame)[source[2]]
    IN CASE source[1] = "local" ->
              [got EXCEPT !.captures = Append(@, cell),
                          !.stack[Slot(source[2])] = got.cells[cell]]
         [] source[1] # "local" /\ source[2] \in DOMAIN m.frame.captures ->
              [m EXCEPT !.captures = Append(@, m.frame.captures[source[2]])]
         [] OTHER -> [m EXCEPT !.captures = Append(@, Len(m.cells) + 1),
                               !.cells = Append(@, None)]

\* All of them, one after the other.
Closed(sources) ==
    LET made[n \in 0..Len(sources)] ==
            IF n = 0 THEN [frame |-> Frame, cells |-> cells, stack |-> stack, captures |-> <<>>]
            ELSE Captured(made[n - 1], sources[n])
    IN made[Len(sources)]

MakeClosure ==
    /\ At({"MAKE_CLOSURE"})
    /\ LET m == Closed(Instruction[3])
       IN /\ cells' = m.cells
          /\ frames' = [frames EXCEPT ![Len(frames)] = [m.frame EXCEPT !.pc = @ + 1]]
          /\ stack' = Append(m.stack, <<"fn", Instruction[2], m.captures>>)
    /\ UNCHANGED <<program, jitVars, heap, globals, out, status>>

Below(open, first) == [i \in {j \in DOMAIN open : j < first} |-> open[i]]

CloseUpvalues ==
    /\ At({"CLOSE_UPVALUES"})
    /\ frames' = [frames EXCEPT ![Len(frames)].inline = Below(@, Instruction[2]),
                                ![Len(frames)].open = Below(@, Instruction[2]),
                                ![Len(frames)].pc = @ + 1]
    /\ UNCHANGED <<program, jitVars, stack, cells, heap, globals, out, status>>

----------------------------------------------------------------------------
\* Arrays and iteration

MakeArray ==
    /\ At({"MAKE_ARRAY"})
    /\ heap' = Append(heap, ArrayObj(SubSeq(stack, Len(stack) - Instruction[2] + 1, Len(stack))))
    /\ ReplaceTop(Instruction[2], Ref(Len(heap) + 1))
    /\ Advance
    /\ UNCHANGED <<program, jitVars, cells, globals, out, status>>

\* What is not an array does not grow, and adds nothing; both are reported.
GrowArray ==
    /\ At({"ARRAY_PUSH", "ARRAY_SPREAD"})
    /\ LET added == CASE Instruction[1] = "ARRAY_PUSH" -> <<Peek(0)>>
                      [] Instruction[1] = "ARRAY_SPREAD" /\ IsArray(Peek(0)) -> Elements(Peek(0))
                      [] OTHER -> <<>>
       IN heap' = IF IsArray(Peek(1)) THEN [heap EXCEPT ![Peek(1)[2]].v = @ \o added] ELSE heap
    /\ stack' = Drop(stack, 1)
    /\ Advance
    /\ UNCHANGED <<program, jitVars, cells, globals, out, status>>

\* Arrays and texts are indexed from 0; the element of a text is a text.
ElementAt(v, i) ==
    CASE IsArray(v) /\ i[1] = "int" /\ i[2] \in 0..(Len(Elements(v)) - 1) -> Elements(v)[i[2] + 1]
      [] IsString(v) /\ i[1] = "int" /\ i[2] \in 0..(Len(TextOf(v)) - 1) ->
             <<"str", SubSeq(TextOf(v), i[2] + 1, i[2] + 1)>>
      [] OTHER -> None

GetIndex ==
    /\ At({"GET_INDEX"})
    /\ ReplaceTop(2, ElementAt(Peek(1), Peek(0)))
    /\ Advance
    /\ UNCHANGED <<program, jitVars, cells, heap, globals, out, status>>

\* An index behind the end makes the array longer, up to a limit; a negative one counts from
\* the end.
GrowLimit == 10000000

SetIndex ==
    /\ At({"SET_INDEX"})
    /\ LET old == Elements(Peek(2))
           i == IF Peek(1)[2] < 0 THEN Peek(1)[2] + Len(old) ELSE Peek(1)[2]
           inside == i \in 0..(Len(old) - 1)
           long == IF inside THEN old ELSE Resize(old, i + 1)
       IN heap' = IF /\ IsArray(Peek(2)) /\ Peek(1)[1] = "int"
                     /\ inside \/ i \in Len(old)..(GrowLimit - 1)
                  THEN [heap EXCEPT ![Peek(2)[2]].v = [long EXCEPT ![i + 1] = Peek(0)]]
                  ELSE heap
    /\ ReplaceTop(3, Peek(0))
    /\ Advance
    /\ UNCHANGED <<program, jitVars, cells, globals, out, status>>

\* The length of an array or a text; a function has no such property, anything else ends
\* the program.
LengthOf(v) ==
    CASE IsArray(v) -> IntV(Len(Elements(v)))
      [] IsString(v) -> IntV(Len(TextOf(v)))
      [] OTHER -> None

GetLength ==
    /\ At({"GET_PROPERTY"})
    /\ \/ /\ Peek(0)[1] \in {"str", "ref", "fn", "builtin"}
          /\ ReplaceTop(1, LengthOf(Peek(0)))
          /\ Advance
          /\ UNCHANGED <<program, jitVars, cells, heap, globals, out, status>>
       \/ /\ Peek(0)[1] \notin {"str", "ref", "fn", "builtin"}
          /\ Fail

\* What is not an array is reported, and iterated as an empty one.
IterArray ==
    /\ At({"ITER_ARRAY"})
    /\ heap' = IF IsArray(Peek(0)) THEN heap ELSE Append(heap, ArrayObj(<<>>))
    /\ ReplaceTop(1, IF IsArray(Peek(0)) THEN Peek(0) ELSE Ref(Len(heap) + 1))
    /\ Advance
    /\ UNCHANGED <<program, jitVars, cells, globals, out, status>>

\* The pairs are made once, before the first iteration.
MakePairs ==
    /\ At({"MAKE_ITERATOR_KV"})
    /\ LET vs == IF IsArray(Peek(0)) THEN Elements(Peek(0)) ELSE <<>>
           pairs == [i \in DOMAIN vs |-> ArrayObj(<<IntV(i - 1), vs[i]>>)]
           refs == [i \in DOMAIN vs |-> Ref(Len(heap) + i)]
       IN /\ heap' = heap \o pairs \o <<ArrayObj(refs)>>
          /\ stack' = Drop(stack, 1) \o <<Ref(Len(heap) + Len(vs) + 1), IntV(0)>>
    /\ Advance
    /\ UNCHANGED <<program, jitVars, cells, globals, out, status>>

NextPair ==
    /\ At({"ITER_NEXT_KV"})
    /\ LET i == Peek(0)[2]
           pair == ElementAt(Peek(1), Peek(0))
       IN stack' = IF i \in 0..(Len(Elements(Peek(1))) - 1)
                   THEN Drop(stack, 1) \o <<IntV(i + 1), ElementAt(pair, IntV(0)),
                                           ElementAt(pair, IntV(1)), BoolV(TRUE)>>
                   ELSE Append(stack, BoolV(FALSE))
    /\ Advance
    /\ UNCHANGED <<program, jitVars, cells, heap, globals, out, status>>

----------------------------------------------------------------------------

\* Every instruction but the unconditional jump.
Execute ==
    \/ LoadConstant \/ LoadVariable \/ StoreVar \/ StoreCapture \/ StoreGlobal
    \/ Pop \/ Dup \/ Operate1 \/ Operate2 \/ Concatenate \/ AppendToVar
    \/ ConditionalJump \/ NativeJump \/ SetSlot \/ TestNone \/ ConcatenateInPlace
    \/ CallFunction \/ CallSpread \/ SelfTailCall \/ ReturnToCaller \/ Throw
    \/ MakeClosure \/ CloseUpvalues
    \/ MakeArray \/ GrowArray \/ GetIndex \/ SetIndex \/ GetLength
    \/ IterArray \/ MakePairs \/ NextPair

\* The machine without the trace compiler: every jump back is only a jump.
Interpreted == Init /\ [][Execute \/ Jump]_vmVars

----------------------------------------------------------------------------
\* Properties

\* The operands of the frame at place k.
OperandsOf(k) ==
    (IF k = Len(frames) THEN Len(stack) ELSE frames[k + 1].base)
    - frames[k].base - Chunk[frames[k].func].locals

\* A frame has the operands the verifier expects; one that waits for a call has all but the
\* result.
AsExpected(k) ==
    LET heights == HeightsAt(frames[k])
    IN /\ frames[k].pc \in DOMAIN heights
       /\ OperandsOf(k) + (IF k = Len(frames) THEN 0 ELSE 1) = heights[frames[k].pc]

\* Behind ITER_NEXT_KV the height depends on the branch that follows, and the verifier skips
\* it: there is a boolean more than before, and below it the next pair, if it is true.
Branching(k) ==
    LET heights == HeightsAt(frames[k])
        before == frames[k].pc - 1
    IN /\ k = Len(frames)
       /\ before \in DOMAIN heights /\ CodeAt(frames[k])[before + 1][1] = "ITER_NEXT_KV"
       /\ \/ Peek(0) = BoolV(TRUE) /\ OperandsOf(k) = heights[before] + 3
          \/ Peek(0) = BoolV(FALSE) /\ OperandsOf(k) = heights[before] + 1

\* What the compilers emit passes the verifier, and the heights that the verifier worked out
\* are those of the running machine, in every frame: no instruction takes from the stack what
\* its frame has not put there.
StackAsVerified ==
    /\ Programs[program].verdict.verified /\ Programs[program].nativeVerdict.verified
    /\ status = "running" => \A k \in DOMAIN frames : AsExpected(k) \/ Branching(k)

=============================================================================
