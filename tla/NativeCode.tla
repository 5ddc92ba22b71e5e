------------------------------- MODULE NativeCode -------------------------------
(***************************************************************************)
(* From the optimized intermediate representation to native code: the      *)
(* types of values and slots, the rewritings that rest on them or come     *)
(* last, and the code that the lowering emits.                             *)
(*                                                                         *)
(* Integers are the only numbers here, so an operation that is specialized *)
(* to the types of its operands is the same operation.  The elements of an *)
(* array have no type: the analysis of arrays of integers is left out.     *)
(***************************************************************************)
EXTENDS Optimizer

----------------------------------------------------------------------------
\* The lattice of types: "bottom" is no information yet, "unknown" is anything.

Join(a, b) ==
    CASE a = "bottom" \/ a = b -> b
      [] b = "bottom" /\ a # b -> a
      [] OTHER -> "unknown"

ArithType(a, b) ==
    CASE "bottom" \in {a, b} -> "bottom"
      [] a = "int" /\ b = "int" -> "int"
      [] OTHER -> "unknown"

----------------------------------------------------------------------------
\* analyze_const_globals: a global that is stored once in the program, where the value on
\* top of the stack has a known type.

TopType(ins, locals) ==
    CASE IsConstLoad(ins) -> ConstOf(ins)[1]
      [] ins[1] = "LOAD_CONST" /\ ~IsConstLoad(ins) -> "heap"
      [] ins[1] = "LOAD_VAR" -> IF locals[ins[2]] = "bottom" THEN "unknown" ELSE locals[ins[2]]

Forgetting == ConditionalJumps \cup {"JUMP", "CALL", "SELF_TAIL_CALL", "RETURN", "THROW"}
OrUnknown(t) == IF t = "bottom" THEN "unknown" ELSE t

\* Behind a jump or a call nothing is known; a store looks at what is on top.
TrackInst(s, ins) ==
    LET top == OrUnknown(s.top)
    IN CASE IsConstLoad(ins) \/ ins[1] \in {"LOAD_CONST", "LOAD_VAR"} ->
              [s EXCEPT !.top = TopType(ins, s.locals)]
         [] ins[1] = "STORE_VAR" ->
              [s EXCEPT !.locals[ins[2]] = IF @ \in {"bottom", top} THEN top ELSE "unknown"]
         [] ins[1] = "STORE_GLOBAL" -> [s EXCEPT !.stored = Append(@, <<ins[2], top>>)]
         [] ins[1] = "DUP" -> s
         [] ins[1] \in Forgetting ->
              [s EXCEPT !.top = "bottom", !.locals = [i \in DOMAIN @ |-> "bottom"]]
         [] OTHER -> [s EXCEPT !.top = "bottom"]

\* Every store to a global in the code of a function, with its type.
StoresToGlobals(fn) ==
    Folded(TrackInst, [top |-> "bottom", stored |-> <<>>,
                       locals |-> [i \in 0..(fn.locals - 1) |-> "bottom"]], fn.code).stored

ConstGlobals(chunk) ==
    LET stored == FlattenSeq([i \in DOMAIN chunk |-> StoresToGlobals(chunk[i])])
        once == {i \in DOMAIN stored : \A j \in DOMAIN stored :
                                          stored[j][1] = stored[i][1] => i = j}
        typed == {i \in once : stored[i][2] # "unknown"}
    IN [x \in {stored[i][1] : i \in typed} |-> stored[CHOOSE i \in typed : stored[i][1] = x][2]]

----------------------------------------------------------------------------
\* infer_types.  A state s holds the function, the types of its slots, and those of the
\* globals.

Untyped == {"CALL", "CALL_SPREAD", "GET_PROPERTY", "LOAD_CAPTURE", "MAKE_ARRAY", "ARRAY_PUSH",
            "ARRAY_SPREAD", "STR_CONCAT", "STR_APPEND_VAR", "ITER_ARRAY", "GET_INDEX"}

ValueType(s, v) ==
    LET ins == s.f.insts[v].ins
        TypeOf(i) == s.f.insts[s.f.insts[v].args[i]].type
    IN CASE ins[1] = "CONST" -> ins[2][1]
         [] ins[1] = "LOAD_VAR" -> s.slots[ins[2]]
         [] ins[1] = "LOAD_GLOBAL" -> IF ins[2] \in DOMAIN s.globals THEN s.globals[ins[2]]
                                                                      ELSE "unknown"
         [] ins[1] \in Untyped -> "unknown"
         [] ins[1] = "SET_INDEX" -> TypeOf(3)
         [] ins[1] \in {"DUP", "NEG"} -> TypeOf(1)
         [] ins[1] \in {"NOT", "IS_NONE", "EQ", "NE", "LT", "LE", "GT", "GE"} -> "bool"
         [] ins[1] \in {"ADD", "SUB", "MUL"} -> ArithType(TypeOf(1), TypeOf(2))
         [] ins[1] = "PHI" -> Folded(LAMBDA t, i : Join(t, TypeOf(i)), "bottom",
                                     Numbers(Len(s.f.insts[v].args)))
         [] OTHER -> s.f.insts[v].type

TypeValue(s, v) == [s EXCEPT !.f.insts[v].type = ValueType(s, v)]

SeedSlots(f) == [i \in 0..(f.slots - 1) |-> IF i < f.params THEN "unknown" ELSE "bottom"]

\* What an instruction stores in a slot.
StoredType(s, v) ==
    LET ins == s.f.insts[v].ins
    IN CASE ins[1] = "STORE_VAR" -> s.f.insts[Args(s.f, v)[1]].type
         [] ins[1] = "COPY_SLOT" -> s.slots[ins[3]]
         [] ins[1] = "STORE_SLOT" -> IF ins[3][1] = "CONST" THEN ins[3][2][1] ELSE "unknown"

\* The stores in the blocks count, not those that were dropped.
SlotTypes(s) ==
    LET live == FlattenSeq([b \in DOMAIN s.f.blocks |-> Body(s.f, b)])
        Join1(types, v) ==
            IF Op(s.f, v) \notin {"STORE_VAR", "COPY_SLOT", "STORE_SLOT"} THEN types
            ELSE [types EXCEPT ![Immediate(s.f, v)] = Join(@, StoredType(s, v))]
    IN Folded(Join1, SeedSlots(s.f), live)

MaxTypeRounds == 128

TypeRound(s, n) ==
    LET s1 == Folded(TypeValue, s, Numbers(Len(s.f.insts)))
        s2 == [s1 EXCEPT !.slots = SlotTypes(s1)]
    IN IF s.settled THEN s ELSE [s2 EXCEPT !.settled = s2.f = s.f /\ s2.slots = s.slots]

InferTypes(f, globalTypes) ==
    LET s == Folded(TypeRound, [f |-> f, slots |-> SeedSlots(f), globals |-> globalTypes,
                                settled |-> FALSE], Numbers(MaxTypeRounds))
    IN [s.f EXCEPT !.insts = [v \in DOMAIN @ |-> [@[v] EXCEPT !.type = OrUnknown(@)]] \o <<>>]

----------------------------------------------------------------------------
\* fold_redundant_not: !!x is x when x is a boolean.

NotNot(f, body, i, below) ==
    /\ i < Len(body) /\ below # <<>>
    /\ Op(f, body[i]) = "NOT" /\ Op(f, body[i + 1]) = "NOT"
    /\ Args(f, body[i]) = <<Last(below)>> /\ Args(f, body[i + 1]) = <<body[i]>>
    /\ f.insts[Last(below)].type = "bool"

FoldNotInst(s, i) ==
    IF s.skip > 0 THEN [s EXCEPT !.skip = @ - 1]
    ELSE IF NotNot(s.f, s.old, i, s.body)
         THEN [s EXCEPT !.skip = 1,
                        !.remap = (s.old[i] :> Last(s.body)) @@ (s.old[i + 1] :> Last(s.body)) @@ @]
         ELSE Keep(s, s.old[i])

FoldNots(s, b) ==
    LET done == Folded(FoldNotInst, [f |-> s.f, old |-> Body(s.f, b), body |-> <<>>, skip |-> 0,
                                     remap |-> s.remap], Numbers(Len(Body(s.f, b))))
    IN [f |-> SetBody(s.f, b, done.body), remap |-> done.remap]

FoldRedundantNot(f) ==
    LET s == Folded(FoldNots, [f |-> f, remap |-> <<>>], Numbers(Len(f.blocks)))
    IN Renamed(s.f, s.remap)

----------------------------------------------------------------------------
\* fold_branch_not: a branch on !x is one on x with its ways out exchanged.

\* Mutant: the ways out are not exchanged.
FoldBranchNotKept(f, b) ==
    LET cond == Last(Body(f, b))
        ins == f.insts[Term(f, b)].ins
    IN IF /\ TermOp(f, b) = "BRANCH" /\ Body(f, b) # <<>>
          /\ Args(f, Term(f, b)) = <<cond>>
          /\ Op(f, cond) = "NOT" /\ Uses(f, cond) = 1
       THEN Redirect(SetBody(f, b, Front(Body(f, b))), b, ins, Args(f, cond))
       ELSE f

FoldBranchNot(f, b) ==
    LET cond == Last(Body(f, b))
        ins == f.insts[Term(f, b)].ins
    IN IF /\ TermOp(f, b) = "BRANCH" /\ Body(f, b) # <<>>
          /\ Args(f, Term(f, b)) = <<cond>>
          /\ Op(f, cond) = "NOT" /\ Uses(f, cond) = 1
       THEN Redirect(SetBody(f, b, Front(Body(f, b))), b, <<"BRANCH", ins[3], ins[2]>>,
                     Args(f, cond))
       ELSE f

----------------------------------------------------------------------------
\* mark_inplace_concat: what another concatenation made, and nothing else uses, is extended
\* where it is.

MarkInplaceConcat(f) ==
    LET InPlace(v) == /\ Op(f, v) = "STR_CONCAT"
                      /\ Op(f, Args(f, v)[1]) = "STR_CONCAT"
                      /\ Uses(f, Args(f, v)[1]) = 1
    IN [f EXCEPT !.insts = [v \in DOMAIN @ |->
          IF InPlace(v) THEN [@[v] EXCEPT !.ins = <<"STR_CONCAT_INPLACE">>] ELSE @[v]] \o <<>>]

----------------------------------------------------------------------------
\* Lowering: the blocks one behind the other, with jumps that name a place in the code.

Lowered(f) ==
    LET Length(b) == Len(Body(f, b)) + 1
        starts == [b \in DOMAIN f.blocks |->
                     Folded(LAMBDA n, c : n + Length(c), 0, Numbers(b - 1))]
        Native(ins) ==
            CASE ins[1] = "CONST" -> <<"LOAD_CONST", ins[2]>>
              [] ins[1] = "JUMP" -> <<"GOTO", starts[ins[2]]>>
              [] ins[1] = "BRANCH" -> <<"BRANCH", starts[ins[2]], starts[ins[3]]>>
              [] OTHER -> ins
        CodeOf(b) == [i \in 1..Length(b) |->
                        Native(f.insts[Append(Body(f, b), Term(f, b))[i]].ins)]
    IN FlattenSeq([b \in DOMAIN f.blocks |-> CodeOf(b)])

\* The native code of a function; none if it cannot be compiled.
NativeFunction(fn, globalTypes) ==
    LET built == Build(fn)
        typed == InferTypes(Optimize(built), globalTypes)
    IN IF built.ok THEN Lowered(MarkInplaceConcat(OverBlocks(FoldBranchNot, FoldRedundantNot(typed))))
       ELSE <<>>

\* The functions of a program in native code.
NativeChunk(chunk) ==
    LET globalTypes == ConstGlobals(chunk)
    IN [i \in DOMAIN chunk |-> NativeFunction(chunk[i], globalTypes)] \o <<>>

=============================================================================
