------------------------------ MODULE BlockPasses -------------------------------
(***************************************************************************)
(* The passes of the optimizer that work on the body of one block.         *)
(* A pass takes a function f, the record that IR builds, and returns it    *)
(* with what it changed; f.changed tells whether it did.  An instruction   *)
(* that a pass drops from its block stays in the list of all of them, and  *)
(* an operand may go on naming it.                                         *)
(***************************************************************************)
EXTENDS IR

Body(f, b) == f.blocks[b].insts
Term(f, b) == f.blocks[b].term
Captured(f, slot) == slot \in f.captured

SetBody(f, b, body) ==
    IF body = Body(f, b) THEN f ELSE [f EXCEPT !.blocks[b].insts = body, !.changed = TRUE]

\* The blocks whose terminator was taken out have none.
NoTerm == 0
HasTerm(f, b) == Term(f, b) # NoTerm
TermOp(f, b) == IF HasTerm(f, b) THEN Op(f, Term(f, b)) ELSE "NONE"

\* A new terminator for a block.
Redirect(f, b, ins, args) ==
    [f EXCEPT !.insts[Term(f, b)].ins = ins, !.insts[Term(f, b)].args = args,
              !.blocks[b].succs = Targets(ins), !.changed = TRUE]

\* The operands of everything that is in some block.
Uses(f, v) ==
    LET live == FlattenSeq([b \in DOMAIN f.blocks |->
                   f.blocks[b].phis \o Body(f, b) \o (IF HasTerm(f, b) THEN <<Term(f, b)>> ELSE <<>>)])
        all == FlattenSeq([i \in DOMAIN live |-> Args(f, live[i])])
    IN Len(SelectSeq(all, LAMBDA u : u = v))

----------------------------------------------------------------------------
\* propagate_slot_consts: a load behind a store of a constant to the same slot becomes the
\* constant, in the same block.

\* Mutant: a local that closures capture is taken to be what this function last stored in it.
PropagateIntoCells(s, v) ==
    LET f == s.f
        slot == Immediate(f, v)
        stored == Args(f, v)[1]
    IN CASE Op(f, v) = "LOAD_VAR" /\ slot \in DOMAIN s.known ->
              [s EXCEPT !.f.insts[v] = Inst(f.insts[s.known[slot]].ins, <<>>),
                        !.f.changed = TRUE]
         [] Op(f, v) = "STORE_VAR" /\ IsConst(f, stored) ->
              [s EXCEPT !.known = (slot :> stored) @@ @]
         [] Op(f, v) = "STORE_VAR" /\ ~IsConst(f, stored) ->
              [s EXCEPT !.known = [i \in DOMAIN @ \ {slot} |-> @[i]]]
         [] OTHER -> s

\* A local that closures capture is left alone.
PropagateInst(s, v) ==
    LET f == s.f
        slot == Immediate(f, v)
        stored == Args(f, v)[1]
    IN CASE Op(f, v) = "LOAD_VAR" /\ ~Captured(f, slot) /\ slot \in DOMAIN s.known ->
              [s EXCEPT !.f.insts[v] = Inst(f.insts[s.known[slot]].ins, <<>>),
                        !.f.changed = TRUE]
         [] Op(f, v) = "STORE_VAR" /\ IsConst(f, stored) /\ ~Captured(f, slot) ->
              [s EXCEPT !.known = (slot :> stored) @@ @]
         [] Op(f, v) = "STORE_VAR" /\ ~(IsConst(f, stored) /\ ~Captured(f, slot)) ->
              [s EXCEPT !.known = [i \in DOMAIN @ \ {slot} |-> @[i]]]
         [] OTHER -> s

PropagateSlotConsts(f, b) ==
    Folded(PropagateInst, [f |-> f, known |-> <<>>], Body(f, b)).f

----------------------------------------------------------------------------
\* local_value_numbering: a value that was just computed from the same operands is copied.
\* An entry of the stack has a value number, the name of the value, and the place in the
\* new body where its computation begins.  A number from an earlier epoch equals none.

Foldable == {"ADD", "SUB", "MUL", "LT", "LE", "GT", "GE", "EQ", "NE"}
Commutative == {"ADD", "MUL"}
Leaves == {"CONST", "LOAD_CONST", "LOAD_VAR", "LOAD_GLOBAL", "LOAD_CAPTURE"}
Unaries == {"NOT", "IS_NONE", "NEG"}

\* How many values an instruction with a result of its own takes.
Taken(ins) ==
    CASE ins[1] = "CALL" -> ins[2] + 1
      [] ins[1] \in {"CALL_SPREAD", "GET_INDEX", "ARRAY_PUSH", "ARRAY_SPREAD"} -> 2
      [] ins[1] = "MAKE_ARRAY" -> ins[2]
      [] ins[1] \in {"ITER_ARRAY", "STR_APPEND_VAR"} -> 1
      [] ins[1] = "MAKE_CLOSURE" -> 0
Taking == {"CALL", "CALL_SPREAD", "GET_INDEX", "ARRAY_PUSH", "ARRAY_SPREAD", "MAKE_ARRAY",
           "ITER_ARRAY", "STR_APPEND_VAR", "MAKE_CLOSURE"}

SlotVersion(s, slot) == IF slot \in DOMAIN s.versions THEN s.versions[slot] ELSE 0
NextVersion(s, slot) ==
    [s EXCEPT !.versions = (slot :> SlotVersion(s, slot) + 1) @@ @]
NewEpoch(s) == [s EXCEPT !.epoch = @ + 1]
Below(s, n) == s.st[Len(s.st) - n]

Keep(s, v) == [s EXCEPT !.body = Append(@, v)]
PopEntries(s, n) == [s EXCEPT !.st = SubSeq(@, 1, Len(@) - n)]
PushEntry(s, vn, v, at) == [s EXCEPT !.st = Append(@, [vn |-> vn, v |-> v, at |-> at])]

\* The computation that began at place at is replaced by a copy of the top of the stack.
CopyTop(s, at) ==
    LET d == NextInst(s.f)
        top == Below(s, 0)
    IN PushEntry([s EXCEPT !.f = AddInst(@, Inst(<<"DUP">>, <<top.v>>)),
                           !.f.changed = TRUE, !.numbered = TRUE,
                           !.body = Append(SubSeq(@, 1, at - 1), d)], top.vn, d, at)

NumberLeaf(s, v) ==
    LET ins == s.f.insts[v].ins
        at == Len(s.body) + 1
        vn == <<s.epoch, ins[1],
                IF ins[1] = "LOAD_VAR" THEN <<ins[2], SlotVersion(s, ins[2])>> ELSE ins[2]>>
    IN IF s.st # <<>> /\ Below(s, 0).vn = vn THEN CopyTop(s, at)
       ELSE PushEntry(Keep(s, v), vn, v, at)

NumberUnary(s, v) ==
    LET top == Below(s, 0)
    IN IF s.st = <<>> THEN Keep(s, v)
       ELSE PushEntry(Keep([PopEntries(s, 1) EXCEPT !.f.insts[v].args = <<top.v>>], v),
                      <<s.epoch, Op(s.f, v), top.vn>>, v, top.at)

NumberBinary(s, v) ==
    LET op == Op(s.f, v)
        l == Below(s, 1)
        r == Below(s, 0)
        vn == <<s.epoch, op, IF op \in Commutative THEN {l.vn, r.vn} ELSE <<l.vn, r.vn>>>>
        s1 == Keep([PopEntries(s, 2) EXCEPT !.f.insts[v].args = <<l.v, r.v>>], v)
    IN IF Len(s.st) < 2 THEN [Keep(s, v) EXCEPT !.st = <<>>]
       ELSE IF op \in Foldable /\ s1.st # <<>> /\ Below(s1, 0).vn = vn THEN CopyTop(s1, l.at)
       ELSE PushEntry(s1, vn, v, l.at)

\* Calls, arrays and closures: a new value every time.  Some take the values that the
\* numbering put on the stack for their operands, and some make all numbers void.
NumberTaking(s, v) ==
    LET ins == s.f.insts[v].ins
        n == Taken(ins)
        names == [i \in 1..n |-> Below(s, n - i).v] \o <<>>
        s1 == Keep(PopEntries(s, n), v)
        s2 == IF ins[1] \in {"CALL_SPREAD", "ARRAY_PUSH", "ARRAY_SPREAD", "ITER_ARRAY",
                             "STR_APPEND_VAR"}
              THEN [s1 EXCEPT !.f.insts[v].args = names] ELSE s1
        s3 == IF ins[1] \in {"CALL_SPREAD", "ARRAY_PUSH", "ARRAY_SPREAD"} THEN NewEpoch(s2) ELSE s2
    IN IF Len(s.st) < n THEN [Keep(s, v) EXCEPT !.st = <<>>]
       ELSE PushEntry(s3, <<s.epoch, ins[1], v>>, v, Len(s3.body))

NumberInst(s, v) ==
    LET ins == s.f.insts[v].ins
        op == ins[1]
    IN CASE op \in Leaves -> NumberLeaf(s, v)
         [] op = "DUP" -> IF s.st = <<>> THEN Keep(s, v)
                          ELSE PushEntry(Keep(s, v), Below(s, 0).vn, v, Len(s.body) + 1)
         [] op = "STORE_VAR" -> Keep(NextVersion(s, ins[2]), v)
         [] op = "STR_APPEND_VAR" -> NumberTaking(NewEpoch(NextVersion(s, ins[2])), v)
         [] op \in {"STORE_GLOBAL", "STORE_CAPTURE"} -> Keep(NewEpoch(s), v)
         [] op \in Unaries -> NumberUnary(s, v)
         [] op = "POP" -> IF s.st = <<>> THEN Keep(s, v) ELSE PopEntries(Keep(s, v), 1)
         [] op \in Foldable \cup {"STR_CONCAT"} -> NumberBinary(s, v)
         [] op = "SET_INDEX" -> IF Len(s.st) < 3 THEN [Keep(s, v) EXCEPT !.st = <<>>]
                                ELSE NewEpoch(PopEntries(Keep(s, v), 2))
         [] op \in Taking \ {"STR_APPEND_VAR"} -> NumberTaking(s, v)
         [] OTHER -> [Keep(s, v) EXCEPT !.st = <<>>]

\* The names of operands that were brought up to date stay so when nothing was copied.
LocalValueNumbering(f, b) ==
    LET s == Folded(NumberInst, [f |-> f, body |-> <<>>, st |-> <<>>, versions |-> <<>>,
                                 epoch |-> 0, numbered |-> FALSE], Body(f, b))
    IN IF s.numbered THEN SetBody(s.f, b, s.body) ELSE s.f

----------------------------------------------------------------------------
\* simplify_block: operations on constants are carried out, and a value that is popped
\* right away is not pushed.  An entry of the stack says whether its value is the last
\* that was pushed and may be taken back.

Computed(op, a, b) ==
    CASE op = "ADD" -> <<"int", a[2] + b[2]>>
      [] op = "SUB" -> <<"int", a[2] - b[2]>>
      [] op = "MUL" -> <<"int", a[2] * b[2]>>
      [] op = "LT" -> <<"bool", a[2] < b[2]>>
      [] op = "LE" -> <<"bool", a[2] <= b[2]>>
      [] op = "GT" -> <<"bool", a[2] > b[2]>>
      [] op = "GE" -> <<"bool", a[2] >= b[2]>>
      [] op = "EQ" -> <<"bool", a = b>>
      [] op = "NE" -> <<"bool", a # b>>

\* Numbers, and values of the same type that are compared.
Folds(f, op, l, r) ==
    LET a == Immediate(f, l)
        b == Immediate(f, r)
    IN /\ IsConst(f, l) /\ IsConst(f, r)
       /\ a[1] = b[1]
       /\ a[1] = "int" \/ op \in {"EQ", "NE"}

Pinned(s) == [s EXCEPT !.st = [i \in DOMAIN @ |-> [@[i] EXCEPT !.removable = FALSE]] \o <<>>]
PushValue(s, v, removable) ==
    [Keep(s, v) EXCEPT !.st = Append(@, [v |-> v, removable |-> removable])]

SimplifyPop(s, v) ==
    LET top == Last(s.st)
    IN IF s.st = <<>> THEN Keep(s, v)
       ELSE IF top.removable /\ s.body # <<>> /\ Last(s.body) = top.v
            THEN [PopEntries(s, 1) EXCEPT !.body = Front(@)]
            ELSE Pinned(PopEntries(Keep(s, v), 1))

SimplifyBinary(s, v) ==
    LET l == Below(s, 1)
        r == Below(s, 0)
        op == Op(s.f, v)
        n == Len(s.body)
        trailing == n >= 2 /\ s.body[n - 1] = l.v /\ s.body[n] = r.v
        result == Inst(<<"CONST", Computed(op, Immediate(s.f, l.v), Immediate(s.f, r.v))>>, <<>>)
    IN IF Len(s.st) < 2 THEN Pinned(Keep(s, v))
       ELSE IF /\ op \in Foldable /\ l.removable /\ r.removable /\ trailing
               /\ Folds(s.f, op, l.v, r.v)
            THEN PushValue([PopEntries(s, 2) EXCEPT !.body = SubSeq(@, 1, n - 2),
                                                    !.f = AddInst(@, result)],
                           NextInst(s.f), TRUE)
            ELSE PushValue(PopEntries(s, 2), v, FALSE)

SimplifyTaking(s, v, n) ==
    IF Len(s.st) < n THEN [Keep(s, v) EXCEPT !.st = <<>>]
    ELSE PushValue(PopEntries(s, n), v, FALSE)

SimplifyInst(s, v) ==
    LET ins == s.f.insts[v].ins
        op == ins[1]
    IN CASE op \in {"CONST", "LOAD_CONST"} -> PushValue(s, v, TRUE)
         [] op \in Leaves \ {"CONST", "LOAD_CONST"} -> PushValue(s, v, FALSE)
         [] op = "DUP" -> PushValue(s, v, s.st # <<>>)
         [] op = "POP" -> SimplifyPop(s, v)
         [] op \in Unaries -> SimplifyTaking(s, v, 1)
         [] op \in Taking -> SimplifyTaking(s, v, Taken(ins))
         [] op = "SET_INDEX" -> IF Len(s.st) < 3 THEN [Keep(s, v) EXCEPT !.st = <<>>]
                                ELSE Pinned(Keep(PopEntries(s, 2), v))
         [] op \in Foldable \cup {"STR_CONCAT"} -> SimplifyBinary(s, v)
         [] OTHER -> Pinned(Keep(s, v))

SimplifyBlock(f, b) ==
    LET s == Folded(SimplifyInst, [f |-> f, body |-> <<>>, st |-> <<>>], Body(f, b))
    IN SetBody(s.f, b, s.body)

----------------------------------------------------------------------------
\* eliminate_slot_round_trips and fuse_slot_stores look at three instructions in a row.

\* The instruction and the two behind it; s.skip counts those that were dealt with.
Three(s, i) == <<s.f.insts[s.old[i]], s.f.insts[s.old[i + 1]], s.f.insts[s.old[i + 2]]>>
HasThree(s, i) == i + 2 <= Len(s.old)
Ops3(t) == <<t[1].ins[1], t[2].ins[1], t[3].ins[1]>>

\* STORE x, POP, LOAD x leaves the value on the stack; LOAD x, STORE x, POP does nothing.
RoundTripInst(s, i) ==
    LET t == Three(s, i)
        stored == [s EXCEPT !.body = Append(@, s.old[i]), !.skip = 2,
                            !.remap = (s.old[i + 2] :> t[1].args[1]) @@ @]
    IN IF s.skip > 0 THEN [s EXCEPT !.skip = @ - 1]
       ELSE IF ~HasThree(s, i) THEN Keep(s, s.old[i])
       ELSE CASE Ops3(t) = <<"STORE_VAR", "POP", "LOAD_VAR">> /\ t[1].ins[2] = t[3].ins[2] -> stored
              [] Ops3(t) = <<"LOAD_VAR", "STORE_VAR", "POP">> /\ t[1].ins[2] = t[2].ins[2] ->
                   [s EXCEPT !.skip = 2]
              [] OTHER -> Keep(s, s.old[i])

\* Every operand that names a value of remap names another one.
Renamed(f, remap) ==
    LET Other(v) == IF v \in DOMAIN remap THEN remap[v] ELSE v
    IN [f EXCEPT !.insts = [v \in DOMAIN @ |->
            [@[v] EXCEPT !.args = [i \in DOMAIN @ |-> Other(@[i])] \o <<>>]] \o <<>>]

EliminateSlotRoundTrips(f, b) ==
    LET s == Folded(RoundTripInst, [f |-> f, old |-> Body(f, b), body |-> <<>>, skip |-> 0,
                                    remap |-> <<>>], Numbers(Len(Body(f, b))))
    IN Renamed(SetBody(f, b, s.body), s.remap)

\* Nothing behind place i of the block names v, nor does a phi.
Unused(f, b, v, i) ==
    LET body == Body(f, b)
        phis == UNION {Range(f.blocks[c].phis) : c \in DOMAIN f.blocks}
        later == {body[j] : j \in {k \in DOMAIN body : k > i}} \cup phis
                   \cup (IF HasTerm(f, b) THEN {Term(f, b)} ELSE {})
    IN \A u \in later : v \notin Range(Args(f, u))

\* A constant or a local that is only stored is stored without the stack, in the slot alone:
\* not when a closure has the local.
FusedStore(from, to) ==
    IF from[1] = "LOAD_VAR" THEN <<"COPY_SLOT", to, from[2]>> ELSE <<"STORE_SLOT", to, from>>

Fusable(s, b, i) ==
    LET t == Three(s, i)
        v == s.old[i]
        slot == t[2].ins[2]
    IN /\ t[1].ins[1] \in {"CONST", "LOAD_CONST", "LOAD_VAR"}
       /\ t[2].ins[1] = "STORE_VAR" /\ t[3].ins[1] = "POP"
       /\ t[2].args = <<v>> /\ t[3].args = <<v>>
       /\ ~Captured(s.f, slot)
       /\ t[1].ins[1] = "LOAD_VAR" => t[1].ins[2] # slot /\ ~Captured(s.f, t[1].ins[2])
       /\ Unused(s.f, b, v, i + 2)

FuseInst(s, i) ==
    LET t == Three(s, i)
    IN IF s.skip > 0 THEN [s EXCEPT !.skip = @ - 1]
       ELSE IF HasThree(s, i) /\ Fusable(s, s.block, i)
            THEN [Keep(s, NextInst(s.f)) EXCEPT
                    !.f = AddInst(@, Inst(FusedStore(t[1].ins, t[2].ins[2]), <<>>)), !.skip = 2]
            ELSE Keep(s, s.old[i])

FuseSlotStores(f, b) ==
    LET s == Folded(FuseInst, [f |-> f, block |-> b, old |-> Body(f, b), body |-> <<>>,
                               skip |-> 0], Numbers(Len(Body(f, b))))
    IN SetBody(s.f, b, s.body)

----------------------------------------------------------------------------
\* fold_branch: a branch on a constant that was just pushed is a jump.

Truthy(v) == CASE v[1] = "int" -> v[2] # 0 [] v[1] = "bool" -> v[2] [] v[1] = "none" -> FALSE

FoldBranch(f, b) ==
    LET cond == Args(f, Term(f, b))[1]
        ins == f.insts[Term(f, b)].ins
        taken == IF Truthy(Immediate(f, cond)) THEN ins[2] ELSE ins[3]
    IN IF /\ TermOp(f, b) = "BRANCH" /\ Body(f, b) # <<>>
          /\ Last(Body(f, b)) = cond /\ IsConst(f, cond)
       THEN Redirect(SetBody(f, b, Front(Body(f, b))), b, <<"JUMP", taken>>, <<>>)
       ELSE f

=============================================================================
