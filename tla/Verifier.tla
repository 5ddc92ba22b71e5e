------------------------------ MODULE Verifier -------------------------------
(***************************************************************************)
(* The bytecode verifier: what a chunk must satisfy before it is run.  The *)
(* indices of its instructions are in range, its jumps stay inside their   *)
(* function, and every instruction is reached with one height of the stack *)
(* on all paths, never less than it pops.                                  *)
(*                                                                         *)
(* A program counter counts the instructions before it, so the instruction *)
(* at pc is code[pc + 1] and an offset is added to pc + 1.                 *)
(***************************************************************************)
EXTENDS Integers, Sequences, FiniteSets, TLC

Pushes == {"LOAD_CONST", "LOAD_VAR", "LOAD_GLOBAL", "LOAD_CAPTURE", "LOAD_NONE", "LOAD_TRUE",
           "LOAD_FALSE", "LOAD_ZERO", "LOAD_ONE", "MAKE_CLOSURE"}
Keeps == {"STORE_VAR", "STORE_GLOBAL", "STORE_CAPTURE", "STR_APPEND_VAR", "NEG", "NOT",
          "GET_PROPERTY", "ITER_ARRAY"}
Combines == {"ADD", "SUB", "MUL", "EQ", "NE", "LT", "LE", "GT", "GE", "STR_CONCAT", "GET_INDEX",
             "ARRAY_PUSH", "ARRAY_SPREAD", "CALL_SPREAD"}
ConditionalJumps == {"JUMP_IF_FALSE", "JUMP_IF_TRUE", "JUMP_IF_NONE"}

\* The last of these are only in the native code of functions, see NativeCode.
Opcodes ==
    Pushes \cup Keeps \cup Combines \cup ConditionalJumps
    \cup {"POP", "THROW", "RETURN", "DUP", "MAKE_ITERATOR_KV", "ITER_NEXT_KV", "SET_INDEX",
          "CLOSE_UPVALUES", "JUMP", "MAKE_ARRAY", "CALL", "SELF_TAIL_CALL"}
    \cup {"GOTO", "BRANCH", "STORE_SLOT", "COPY_SLOT", "IS_NONE", "STR_CONCAT_INPLACE"}

\* How many values an instruction pops, and how many it pushes.
StackEffect(ins) ==
    CASE ins[1] \in Pushes -> <<0, 1>>
      [] ins[1] \in Keeps -> <<1, 1>>
      [] ins[1] \in Combines -> <<2, 1>>
      [] ins[1] \in ConditionalJumps \cup {"POP", "THROW", "RETURN"} -> <<1, 0>>
      [] ins[1] = "DUP" -> <<1, 2>>
      [] ins[1] = "MAKE_ITERATOR_KV" -> <<1, 2>>
      [] ins[1] = "SET_INDEX" -> <<3, 1>>
      [] ins[1] \in {"CLOSE_UPVALUES", "JUMP"} -> <<0, 0>>
      [] ins[1] = "MAKE_ARRAY" -> <<ins[2], 1>>
      [] ins[1] = "CALL" -> <<ins[2] + 1, 1>>
      [] ins[1] = "SELF_TAIL_CALL" -> <<ins[2], 0>>
      [] ins[1] \in {"GOTO", "STORE_SLOT", "COPY_SLOT"} -> <<0, 0>>
      [] ins[1] = "BRANCH" -> <<1, 0>>
      [] ins[1] = "IS_NONE" -> <<1, 1>>
      [] ins[1] = "STR_CONCAT_INPLACE" -> <<2, 1>>

\* The instructions that run next, each with the height of the stack it is entered with.
Successors(code, pc, height) ==
    LET ins == code[pc + 1]
        effect == StackEffect(ins)
        after == height - effect[1] + effect[2]
        jump == code[pc + 2]
    IN CASE ins[1] \in {"RETURN", "THROW", "SELF_TAIL_CALL"} -> {}
         [] ins[1] = "ITER_NEXT_KV" -> {<<pc + 2 + jump[2], height>>, <<pc + 2, height + 2>>}
         [] ins[1] = "JUMP" -> {<<pc + 1 + ins[2], after>>}
         [] ins[1] = "GOTO" -> {<<ins[2], after>>}
         [] ins[1] = "BRANCH" -> {<<ins[2], after>>, <<ins[3], after>>}
         [] ins[1] \in ConditionalJumps -> {<<pc + 1 + ins[2], after>>, <<pc + 1, after>>}
         [] OTHER -> {<<pc + 1, after>>}

\* Iteration leaves two values more when there is a next pair, which the jump that must
\* follow tells apart.
Underflows(code, pc, height) ==
    IF code[pc + 1][1] = "ITER_NEXT_KV"
    THEN height < 2 \/ pc + 2 > Len(code) \/ code[pc + 2][1] \notin ConditionalJumps
    ELSE height < StackEffect(code[pc + 1])[1]

\* The work that is left: the instructions that are reached and whose successors are not.
FlowStart == [work |-> {0}, heights |-> [pc \in {0} |-> 0], ok |-> TRUE]

\* One of them.  Two paths must agree on the height.  A target right behind the code is
\* allowed, and has none.
FlowStep(code, flow) ==
    LET heights == flow.heights
        pc == CHOOSE q \in flow.work : TRUE
        next == {t \in Successors(code, pc, heights[pc]) : t[1] # Len(code)}
        targets == {t[1] : t \in next}
        HeightAt(q) == (CHOOSE t \in next : t[1] = q)[2]
    IN IF flow.work = {} \/ ~flow.ok THEN flow
       ELSE IF \/ Underflows(code, pc, heights[pc])
               \/ \E t \in next : t[1] \in DOMAIN heights /\ heights[t[1]] # t[2]
               \/ \E t, u \in next : t[1] = u[1] /\ t[2] # u[2]
            THEN [work |-> flow.work, heights |-> heights, ok |-> FALSE]
            ELSE [work |-> (flow.work \ {pc}) \cup (targets \ DOMAIN heights),
                  heights |-> [q \in DOMAIN heights \cup targets |->
                                 IF q \in DOMAIN heights THEN heights[q] ELSE HeightAt(q)],
                  ok |-> TRUE]

\* After a number of steps.  No instruction is reached twice.
FlowAfter(code, steps) ==
    LET flow[n \in 0..steps] == IF n = 0 THEN FlowStart ELSE FlowStep(code, flow[n - 1])
    IN flow[steps]

\* The heights of the stack where the code is reached, found from the entry; the empty
\* function if the code does not pass.
NoHeights == <<>>

StackFlow(code) ==
    LET flow == FlowAfter(code, Len(code))
    IN IF flow.ok THEN flow.heights ELSE NoHeights

\* The operations, the indices and the targets of one function.
OperandsInRange(chunk, f) ==
    \A i \in DOMAIN f.code :
        LET ins == f.code[i]
        IN ins[1] \in Opcodes /\
           CASE ins[1] \in {"LOAD_VAR", "STORE_VAR", "STR_APPEND_VAR"} -> ins[2] \in 0..(f.locals - 1)
             [] ins[1] = "STORE_SLOT" -> ins[2] \in 0..(f.locals - 1)
             [] ins[1] = "COPY_SLOT" -> {ins[2], ins[3]} \subseteq 0..(f.locals - 1)
             [] ins[1] = "GOTO" -> ins[2] \in 0..Len(f.code)
             [] ins[1] = "BRANCH" -> {ins[2], ins[3]} \subseteq 0..Len(f.code)
             [] ins[1] = "CLOSE_UPVALUES" -> ins[2] \in 0..f.locals
             [] ins[1] \in {"LOAD_CAPTURE", "STORE_CAPTURE"} -> ins[2] \in 1..f.captures
             [] ins[1] \in ConditionalJumps \cup {"JUMP"} -> i + ins[2] \in 0..Len(f.code)
             [] ins[1] = "MAKE_CLOSURE" ->
                  /\ ins[2] \in DOMAIN chunk
                  /\ \A j \in DOMAIN ins[3] :
                       \/ ins[3][j][1] = "local" /\ ins[3][j][2] \in 0..(f.locals - 1)
                       \/ ins[3][j][1] = "capture" /\ ins[3][j][2] \in 1..f.captures
             [] OTHER -> TRUE

\* The chunk with the native code of the functions that have some.
NativeForm(chunk, native) ==
    [i \in DOMAIN chunk |->
        IF native[i] = <<>> THEN chunk[i] ELSE [chunk[i] EXCEPT !.code = native[i]]]

\* Whether a chunk may run, and the heights of its functions.
Verdict(chunk) ==
    LET heights == [i \in DOMAIN chunk |-> StackFlow(chunk[i].code)] \o <<>>
    IN [verified |-> \A i \in DOMAIN chunk :
                        OperandsInRange(chunk, chunk[i]) /\ heights[i] # NoHeights,
        heights |-> heights]

=============================================================================
