---------------------------------- MODULE IR -----------------------------------
(***************************************************************************)
(* The intermediate representation of the method compiler, and how it is   *)
(* built from the code of a function: basic blocks of instructions in      *)
(* single-assignment form.  An instruction is known by its place in the    *)
(* list of all of them, which is also the name of its result, and holds    *)
(* the names of its operands.  It keeps the shape it has in the bytecode,  *)
(* except that every number, boolean and null is a CONST, and a jump names *)
(* blocks.                                                                 *)
(*                                                                         *)
(* The operands are what the passes reason about.  The native code takes   *)
(* them from the stack all the same, by their position.                    *)
(***************************************************************************)
EXTENDS Verifier, SequencesExt

\* The FoldLeft of SequencesExt goes through the subsets of the indices, and code is long.
\* This one halves the sequence.  A value that is taken from a set is computed, where TLC
\* would put off the first half and run out of stack.
Folded(Step(_, _), from, xs) ==
    LET RECURSIVE Between(_, _, _)
        Between(s, i, j) ==
            LET mid == (i + j) \div 2
            IN CASE i > j -> s
                 [] i = j -> Step(s, xs[i])
                 [] i < j -> CHOOSE r \in {Between(t, mid + 1, j) : t \in {Between(s, i, mid)}} : TRUE
    IN Between(from, 1, Len(xs))

Numbers(n) == [i \in 1..n |-> i]

----------------------------------------------------------------------------
\* Functions, blocks, instructions

Inst(ins, args) == [ins |-> ins, args |-> args, type |-> "bottom"]
Block(phis, insts, term, succs) ==
    [phis |-> phis, insts |-> insts, term |-> term, succs |-> succs]

Op(f, v) == f.insts[v].ins[1]
Immediate(f, v) == f.insts[v].ins[2]
Args(f, v) == f.insts[v].args

AddInst(f, inst) == [f EXCEPT !.insts = Append(@, inst)]
NextInst(f) == Len(f.insts) + 1

IsConst(f, v) == Op(f, v) = "CONST"
IsConstLoad(ins) == ins[1] \in {"LOAD_NONE", "LOAD_TRUE", "LOAD_FALSE", "LOAD_ZERO", "LOAD_ONE"}
                    \/ (ins[1] = "LOAD_CONST" /\ ins[2][1] = "int")

ConstOf(ins) ==
    CASE ins[1] = "LOAD_CONST" -> ins[2]
      [] ins[1] = "LOAD_NONE" -> <<"none">>
      [] ins[1] \in {"LOAD_TRUE", "LOAD_FALSE"} -> <<"bool", ins[1] = "LOAD_TRUE">>
      [] ins[1] \in {"LOAD_ZERO", "LOAD_ONE"} -> <<"int", IF ins[1] = "LOAD_ONE" THEN 1 ELSE 0>>

Lifted(ins) == IF IsConstLoad(ins) THEN <<"CONST", ConstOf(ins)>> ELSE ins

\* The blocks that a terminator leads to.
Targets(ins) ==
    CASE ins[1] = "JUMP" -> <<ins[2]>>
      [] ins[1] = "BRANCH" -> <<ins[2], ins[3]>>
      [] ins[1] = "SELF_TAIL_CALL" -> <<1>>
      [] OTHER -> <<>>

\* The predecessors of a block in their order, one of them twice when both its ways out
\* lead here.
PredsOf(succs, b) ==
    FlattenSeq([p \in DOMAIN succs |->
                  [i \in 1..Len(SelectSeq(succs[p], LAMBDA s : s = b)) |-> p]])
Preds(f, b) == PredsOf([p \in DOMAIN f.blocks |-> f.blocks[p].succs], b)

----------------------------------------------------------------------------
\* The blocks of a code

\* What the compiler does not take on, wherever it stands in the code.
Unsupported == {"THROW", "MAKE_ITERATOR_KV", "ITER_NEXT_KV"}

Jumps == ConditionalJumps \cup {"JUMP"}
Ends == Jumps \cup {"RETURN", "SELF_TAIL_CALL"}
Stores == {"STORE_VAR", "STORE_GLOBAL", "STORE_CAPTURE"}

Leaders(code) ==
    {0} \cup {i \in DOMAIN code : code[i][1] \in Ends}
        \cup {i + code[i][2] : i \in {j \in DOMAIN code : code[j][1] \in Jumps}}

Starts(code) ==
    LET leaders == Leaders(code)
    IN SelectSeq([i \in DOMAIN code |-> i - 1], LAMBDA pc : pc \in leaders)

\* The code as blocks: where each starts, and its instructions.
Blocks(code) ==
    LET starts == Starts(code)
        EndOf(b) == IF b < Len(starts) THEN starts[b + 1] ELSE Len(code)
    IN [b \in DOMAIN starts |-> [start |-> starts[b], end |-> EndOf(b),
                                 code |-> SubSeq(code, starts[b] + 1, EndOf(b))]] \o <<>>

BlockAt(blocks, pc) == CHOOSE b \in DOMAIN blocks : blocks[b].start = pc

\* The way on from a block: its own last instruction, with blocks for targets, or a jump to
\* the next block.
Terminator(blocks, b) ==
    LET last == Last(blocks[b].code)
        next == blocks[b].end
        To(pc) == BlockAt(blocks, pc)
    IN CASE last[1] = "JUMP" -> <<"JUMP", To(next + last[2])>>
         [] last[1] = "JUMP_IF_FALSE" -> <<"BRANCH", To(next), To(next + last[2])>>
         [] last[1] \in {"JUMP_IF_TRUE", "JUMP_IF_NONE"} ->
              <<"BRANCH", To(next + last[2]), To(next)>>
         [] last[1] \in {"RETURN", "SELF_TAIL_CALL"} -> last
         [] last[1] \notin Ends /\ b < Len(blocks) -> <<"JUMP", b + 1>>
         [] last[1] \notin Ends /\ b = Len(blocks) -> <<"RETURN">>

\* Every jump leads to a block, and so does the way past a conditional one.
Eligible(code) ==
    \A i \in DOMAIN code :
        /\ code[i][1] \notin Unsupported
        /\ code[i][1] \in Jumps => i + code[i][2] < Len(code)
        /\ code[i][1] \in ConditionalJumps => i < Len(code)

----------------------------------------------------------------------------
\* Building.  m is the function so far, with the block at work: body, and vstk, the names
\* of the values on the stack.

TopArgs(m, n) == SubSeq(m.vstk, Len(m.vstk) - n + 1, Len(m.vstk))

\* One instruction.  A store leaves the value where it is, and DUP the one it copies.
Emit(m, ins) ==
    LET effect == StackEffect(ins)
        pops == effect[1]
        v == NextInst(m)
        kept == IF ins[1] \in Stores \cup {"DUP"} THEN m.vstk
                ELSE SubSeq(m.vstk, 1, Len(m.vstk) - pops)
        pushed == IF effect[2] > 0 /\ ins[1] \notin Stores THEN <<v>> ELSE <<>>
    IN IF ~m.ok \/ Len(m.vstk) < pops THEN [m EXCEPT !.ok = FALSE]
       ELSE [AddInst(m, Inst(Lifted(ins), TopArgs(m, pops))) EXCEPT
               !.body = Append(@, v), !.vstk = kept \o pushed]

\* The terminator takes its operands from the stack; a test for null comes before it.
EmitTerminator(m, blocks, b) ==
    LET last == Last(blocks[b].code)
        m1 == IF last[1] = "JUMP_IF_NONE" THEN Emit(m, <<"IS_NONE">>) ELSE m
        pops == IF last[1] \in Ends THEN StackEffect(last)[1] ELSE 0
        term == Terminator(blocks, b)
        done == Block(m.phis, m1.body, NextInst(m1), Targets(term))
    IN IF ~m1.ok \/ Len(m1.vstk) < pops THEN [m1 EXCEPT !.ok = FALSE]
       ELSE [AddInst(m1, Inst(term, TopArgs(m1, pops))) EXCEPT
               !.blocks = Append(@, done),
               !.exits = Append(@, SubSeq(m1.vstk, 1, Len(m1.vstk) - pops))]

\* The stack that a block starts with is the one its only forward predecessor left, or a
\* phi for every value if there are more.  Nothing may be on the stack along a back edge.
EnterBlock(m, preds, b) ==
    LET forward == SelectSeq(preds, LAMBDA p : p < b)
        depths == {Len(m.exits[forward[i]]) : i \in DOMAIN forward}
        depth == IF depths = {} THEN 0 ELSE CHOOSE d \in depths : TRUE
        Phi(d) == Inst(<<"PHI">>, [i \in DOMAIN forward |-> m.exits[forward[i]][d]] \o <<>>)
        phis == [d \in 1..depth |-> Len(m.insts) + d] \o <<>>
        entered == [m EXCEPT !.body = <<>>, !.phis = <<>>]
    IN IF Cardinality(depths) > 1 \/ (depth > 0 /\ \E i \in DOMAIN preds : preds[i] >= b)
       THEN [m EXCEPT !.ok = FALSE]
       ELSE IF Len(forward) = 1 THEN [entered EXCEPT !.vstk = m.exits[forward[1]]]
       ELSE [entered EXCEPT !.vstk = phis, !.phis = phis,
                            !.insts = @ \o [d \in 1..depth |-> Phi(d)]]

BuildBlock(m, blocks, succs, b) ==
    LET code == blocks[b].code
        straight == IF Last(code)[1] \in Ends THEN Front(code) ELSE code
        done == EmitTerminator(Folded(Emit, EnterBlock(m, PredsOf(succs, b), b), straight),
                               blocks, b)
        goesBack == \E i \in DOMAIN succs[b] : succs[b][i] <= b
    IN IF ~m.ok THEN m
       ELSE [done EXCEPT !.ok = @ /\ (goesBack => Last(done.exits) = <<>>)]

\* The locals that closures of this function capture.
CapturedSlots(code) ==
    UNION {{code[i][3][j][2] : j \in {k \in DOMAIN code[i][3] : code[i][3][k][1] = "local"}} :
             i \in {j \in DOMAIN code : code[j][1] = "MAKE_CLOSURE"}}

\* The function as blocks; ok is FALSE if it cannot be built.
Build(fn) ==
    LET blocks == Blocks(fn.code)
        succs == [b \in DOMAIN blocks |-> Targets(Terminator(blocks, b))] \o <<>>
        start == [insts |-> <<>>, blocks |-> <<>>, exits |-> <<>>, body |-> <<>>, phis |-> <<>>,
                  vstk |-> <<>>, ok |-> TRUE, changed |-> FALSE, params |-> fn.params,
                  slots |-> fn.locals, captured |-> CapturedSlots(fn.code)]
    IN IF ~Eligible(fn.code) THEN [start EXCEPT !.ok = FALSE]
       ELSE Folded(LAMBDA m, b : BuildBlock(m, blocks, succs, b), start, Numbers(Len(blocks)))

=============================================================================
