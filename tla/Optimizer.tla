------------------------------- MODULE Optimizer --------------------------------
(***************************************************************************)
(* The passes of the optimizer that work on a whole function, and the      *)
(* order in which all of them are run.                                     *)
(***************************************************************************)
EXTENDS BlockPasses

\* As Folded, over the blocks by their number.
OverBlocks(Pass(_, _), f) == Folded(Pass, f, Numbers(Len(f.blocks)))

----------------------------------------------------------------------------
\* eliminate_dead_stores: a slot that nothing loads need not be stored, unless a closure
\* has it.

LoadedSlots(f) ==
    f.captured \cup {Immediate(f, v) : v \in {u \in DOMAIN f.insts : Op(f, u) = "LOAD_VAR"}}

EliminateDeadStores(f) ==
    LET loaded == LoadedSlots(f)
        Needed(v) == Op(f, v) = "STORE_VAR" => Immediate(f, v) \in loaded
    IN OverBlocks(LAMBDA g, b : SetBody(g, b, SelectSeq(Body(g, b), Needed)), f)

----------------------------------------------------------------------------
\* thread_jumps: a jump to a block that only jumps goes where that one goes.

Forwards(f, b) ==
    /\ f.blocks[b].phis = <<>> /\ Body(f, b) = <<>>
    /\ TermOp(f, b) = "JUMP" /\ Immediate(f, Term(f, b)) # b

\* After as many steps as there are blocks, it is a cycle.
ThreadTarget(f, target) ==
    LET Follow(b, n) == IF Forwards(f, b) THEN Immediate(f, Term(f, b)) ELSE b
        end == Folded(Follow, target, f.blocks)
    IN IF Forwards(f, end) THEN target ELSE end

ThreadBlock(f, b) ==
    LET ins == f.insts[Term(f, b)].ins
        threaded == CASE ins[1] = "JUMP" -> <<"JUMP", ThreadTarget(f, ins[2])>>
                      [] ins[1] = "BRANCH" ->
                           <<"BRANCH", ThreadTarget(f, ins[2]), ThreadTarget(f, ins[3])>>
    IN IF TermOp(f, b) \notin {"JUMP", "BRANCH"} \/ threaded = ins THEN f
       ELSE Redirect(f, b, threaded, Args(f, Term(f, b)))

ThreadJumps(f) == OverBlocks(ThreadBlock, f)

----------------------------------------------------------------------------
\* merge_blocks: a block that is only entered by the jump of another becomes the end of it.
\* The predecessors are those from before the pass.

MergeInto(s, a) ==
    LET f == s.f
        b == Immediate(f, Term(f, a))
        merged == [f.blocks[a] EXCEPT !.insts = @ \o Body(f, b), !.term = Term(f, b),
                                      !.succs = f.blocks[b].succs]
        empty == Block(f.blocks[b].phis, <<>>, NoTerm, <<>>)
    IN IF /\ a \notin s.removed /\ TermOp(f, a) = "JUMP"
          /\ b \notin {a, 1} \cup s.removed
          /\ s.preds[b] = <<a>> /\ f.blocks[b].phis = <<>>
       THEN [s EXCEPT !.f.blocks[a] = merged, !.f.blocks[b] = empty, !.f.changed = TRUE,
                      !.removed = @ \cup {b}]
       ELSE s

MergeBlocks(f) ==
    LET preds == [b \in DOMAIN f.blocks |-> Preds(f, b)]
    IN Folded(MergeInto, [f |-> f, preds |-> preds, removed |-> {}], Numbers(Len(f.blocks))).f

----------------------------------------------------------------------------
\* remove_unreachable_blocks: the others get new numbers, in their order.

Reachable(f) ==
    LET Next(bs) == bs \cup UNION {Range(f.blocks[b].succs) : b \in bs}
        within[k \in 0..Len(f.blocks)] == IF k = 0 THEN {1} ELSE Next(within[k - 1])
    IN within[Len(f.blocks)]

Renumbered(f, reached) ==
    LET kept == SelectSeq(Numbers(Len(f.blocks)), LAMBDA b : b \in reached)
        New(b) == CHOOSE i \in DOMAIN kept : kept[i] = b
        NewTerm(ins) == CASE ins[1] = "JUMP" -> <<"JUMP", New(ins[2])>>
                          [] ins[1] = "BRANCH" -> <<"BRANCH", New(ins[2]), New(ins[3])>>
                          [] OTHER -> ins
        terms == {Term(f, b) : b \in reached}
        NewSuccs(b) == [i \in DOMAIN f.blocks[b].succs |-> New(f.blocks[b].succs[i])] \o <<>>
    IN [f EXCEPT !.insts = [v \in DOMAIN @ |->
                              IF v \in terms THEN [@[v] EXCEPT !.ins = NewTerm(@)] ELSE @[v]] \o <<>>,
                 !.blocks = [i \in DOMAIN kept |->
                               [@[kept[i]] EXCEPT !.succs = NewSuccs(kept[i])]] \o <<>>,
                 !.changed = TRUE]

RemoveUnreachableBlocks(f) ==
    LET reached == Reachable(f)
    IN IF reached = DOMAIN f.blocks THEN f ELSE Renumbered(f, reached)

----------------------------------------------------------------------------
\* thread_phi_branches: a block that only branches on its phi is done without.  Each of its
\* predecessors branches on the operand that it has for the phi.

ThreadsPhi(f, b) ==
    LET preds == Preds(f, b)
        phi == f.blocks[b].phis[1]
        targets == Targets(f.insts[Term(f, b)].ins)
    IN /\ b # 1 /\ preds # <<>> /\ Body(f, b) = <<>> /\ Len(f.blocks[b].phis) = 1
       /\ TermOp(f, b) = "BRANCH" /\ Args(f, Term(f, b)) = <<phi>>
       /\ Len(Args(f, phi)) = Len(preds)
       /\ \A i \in DOMAIN targets : targets[i] # b /\ f.blocks[targets[i]].phis = <<>>
       /\ \A i \in DOMAIN preds : f.insts[Term(f, preds[i])].ins = <<"JUMP", b>>
       /\ Uses(f, phi) = 1

ThreadPhi(f, b) ==
    LET preds == Preds(f, b)
        branch == f.insts[Term(f, b)].ins
        phi == f.blocks[b].phis[1]
        Rewrite(g, i) == Redirect(g, preds[i], branch, <<Args(f, phi)[i]>>)
    IN [Folded(Rewrite, f, Numbers(Len(preds))) EXCEPT !.blocks[b].succs = <<>>]

\* The first such block, and again until there is none.
ThreadPhiBranches(f) ==
    LET Once(g, n) ==
            LET found == {b \in DOMAIN g.blocks : ThreadsPhi(g, b)}
            IN IF found = {} THEN g
               ELSE ThreadPhi(g, CHOOSE b \in found : \A c \in found : b <= c)
    IN Folded(Once, f, Numbers(Len(f.blocks) + 1))

----------------------------------------------------------------------------
\* optimize: the passes over each block, then those over the function, until nothing changes
\* any more, or for MaxRounds rounds.

MaxRounds == 16

OptimizeBlock(f, b) ==
    FuseSlotStores(
        EliminateSlotRoundTrips(
            SimplifyBlock(LocalValueNumbering(PropagateSlotConsts(f, b), b), b), b), b)

Round(f) ==
    LET bodies == EliminateDeadStores(OverBlocks(OptimizeBlock, f))
    IN RemoveUnreachableBlocks(MergeBlocks(ThreadJumps(OverBlocks(FoldBranch, bodies))))

Optimize(f) ==
    LET Again(g, n) == IF g.changed THEN Round([g EXCEPT !.changed = FALSE]) ELSE g
    IN Folded(Again, [ThreadPhiBranches(f) EXCEPT !.changed = TRUE], Numbers(MaxRounds))

=============================================================================
