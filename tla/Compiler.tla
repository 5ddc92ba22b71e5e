------------------------------ MODULE Compiler -------------------------------
(***************************************************************************)
(* The bytecode compiler: one pass over the syntax trees of a program.     *)
(* A function is compiled in a context, the record c below, which the      *)
(* operators take and return: Expression(e, c) is c with the code of e     *)
(* appended.  An instruction is a tuple, its operation first.  Code is     *)
(* counted in instructions, not bytes, and an instruction holds its        *)
(* constants and names itself, where the compiler has tables of them.      *)
(***************************************************************************)
EXTENDS Syntax, FiniteSets, SequencesExt, TLC

LambdaName(i) == "<lambda_" \o ToString(i) \o ">"

----------------------------------------------------------------------------
\* CompilerContext

NewContext(name, functions, globalConsts) ==
    [name |-> name,
     code |-> <<>>,
     locals |-> <<>>,             \* the slot of each name in scope
     count |-> 0,                 \* how many slots there are
     constLocals |-> {},
     captures |-> <<>>,           \* the names that come with the closure
     constCaptures |-> {},
     captured |-> {},             \* the slots that a closure captures
     loops |-> <<>>,              \* the jumps out of each loop, to be patched
     isMain |-> FALSE,
     isLambda |-> FALSE,
     hasRest |-> FALSE,
     functions |-> functions,     \* chunk->functions so far
     globalConsts |-> globalConsts]

Emit(c, ins) == [c EXCEPT !.code = Append(@, ins)]
EmitAll(c, inss) == [c EXCEPT !.code = @ \o inss]

\* A jump is emitted with no target and patched when the target is reached.
EmitJump(c, op) == Emit(c, <<op, 0>>)
LastJump(c) == Len(c.code)
PatchJump(c, at) == [c EXCEPT !.code[at][2] = Len(c.code) - at]
PatchJumps(c, ats) == FoldLeft(PatchJump, c, ats)
JumpBack(c, start) == Emit(c, <<"JUMP", start - Len(c.code) - 1>>)

IsLocal(c, x) == x \in DOMAIN c.locals
IsCapture(c, x) == x \in Range(c.captures)
CaptureIndex(c, x) == CHOOSE i \in DOMAIN c.captures : c.captures[i] = x

\* Slots are never reused; only what a name means ends with its block.
DeclareLocal(c, x) ==
    [c EXCEPT !.locals = (x :> c.count) @@ @, !.count = @ + 1]
DeclareConst(c, x) ==
    [DeclareLocal(c, x) EXCEPT !.constLocals = @ \cup {x},
                               !.globalConsts = IF c.isMain THEN @ \cup {x} ELSE @]
PopScope(c, outer) ==
    [c EXCEPT !.locals = outer.locals, !.constLocals = outer.constLocals]

\* Mutant: does not look at the first of the variables.
CloseUpvaluesBehind(c, first) ==
    IF \E s \in c.captured : s > first THEN Emit(c, <<"CLOSE_UPVALUES", first>>) ELSE c

\* Ends an iteration: later closures over the variables of the loop get new cells.
CloseUpvalues(c, first) ==
    IF \E s \in c.captured : s >= first THEN Emit(c, <<"CLOSE_UPVALUES", first>>) ELSE c

IsConstBinding(c, x) ==
    CASE IsLocal(c, x) -> x \in c.constLocals
      [] ~IsLocal(c, x) /\ IsCapture(c, x) -> x \in c.constCaptures
      [] OTHER -> x \in c.globalConsts

ConstAssignmentError(c) == EmitAll(c, <<<<"LOAD_CONST", <<"str", "const">>>>, <<"THROW">>>>)

\* A local hides a captured variable, and both hide a global.
Load(c, x) ==
    CASE IsLocal(c, x) -> <<"LOAD_VAR", c.locals[x]>>
      [] ~IsLocal(c, x) /\ IsCapture(c, x) -> <<"LOAD_CAPTURE", CaptureIndex(c, x)>>
      [] OTHER -> <<"LOAD_GLOBAL", x>>
Store(c, x) ==
    CASE IsLocal(c, x) -> <<"STORE_VAR", c.locals[x]>>
      [] ~IsLocal(c, x) /\ IsCapture(c, x) -> <<"STORE_CAPTURE", CaptureIndex(c, x)>>
      [] OTHER -> <<"STORE_GLOBAL", x>>

\* What main stores in a variable of its own is stored in a global for the functions.
SyncGlobal(c, x) ==
    IF c.isMain /\ IsLocal(c, x)
    THEN EmitAll(c, <<Load(c, x), <<"STORE_GLOBAL", x>>, <<"POP">>>>)
    ELSE c

\* The names that a tree mentions.
RECURSIVE Idents(_)
Idents(n) ==
    LET below == Children(n)
    IN (CASE n.k = "id" -> {n.name}
          [] n.k = "assign" -> {n.target}
          [] OTHER -> {})
       \cup UNION {Idents(below[i]) : i \in DOMAIN below}

----------------------------------------------------------------------------
\* Expressions

RECURSIVE Expression(_, _), Statement(_, _)

Expressions(es, c) ==
    LET f[i \in 0..Len(es)] == IF i = 0 THEN c ELSE Expression(es[i], f[i - 1])
    IN f[Len(es)]

Number(e, c) ==
    Emit(c, CASE e.n = 0 -> <<"LOAD_ZERO">>
              [] e.n = 1 -> <<"LOAD_ONE">>
              [] OTHER -> <<"LOAD_CONST", <<"int", e.n>>>>)

\* && and || skip the right operand, or make a boolean of it.
ShortCircuit(e, c) ==
    LET isAnd == e.op = "&&"
        c1 == EmitJump(Expression(e.left, c), IF isAnd THEN "JUMP_IF_FALSE" ELSE "JUMP_IF_TRUE")
        c2 == EmitAll(Expression(e.right, c1), <<<<"NOT">>, <<"NOT">>>>)
        c3 == EmitJump(c2, "JUMP")
        c4 == Emit(PatchJump(c3, LastJump(c1)), IF isAnd THEN <<"LOAD_FALSE">> ELSE <<"LOAD_TRUE">>)
    IN PatchJump(c4, LastJump(c3))

\* l ?? r is r when l is null.
NullCoalesce(e, c) ==
    LET c1 == EmitJump(Emit(Expression(e.left, c), <<"DUP">>), "JUMP_IF_NONE")
        c2 == EmitJump(c1, "JUMP")
        c3 == Expression(e.right, Emit(PatchJump(c2, LastJump(c1)), <<"POP">>))
    IN PatchJump(c3, LastJump(c2))

Operation(op) ==
    CASE op = "+" -> "ADD" [] op = "-" -> "SUB" [] op = "*" -> "MUL"
      [] op = "==" -> "EQ" [] op = "!=" -> "NE"
      [] op = "<" -> "LT" [] op = "<=" -> "LE" [] op = ">" -> "GT" [] op = ">=" -> "GE"
      [] op = "@" -> "STR_CONCAT"

BinaryOperation(e, c) ==
    Emit(Expression(e.right, Expression(e.left, c)), <<Operation(e.op)>>)

\* ++ and --: the postfix forms leave the old value.
StepVariable(e, c) ==
    LET x == e.operand.name
        postfix == e.op \in {"post++", "post--"}
        add == IF e.op \in {"++", "post++"} THEN "ADD" ELSE "SUB"
    IN IF IsConstBinding(c, x) THEN ConstAssignmentError(c)
       ELSE EmitAll(c, <<Load(c, x)>> \o (IF postfix THEN <<<<"DUP">>>> ELSE <<>>)
                       \o <<<<"LOAD_CONST", <<"int", 1>>>>, <<add>>, Store(c, x)>>
                       \o (IF postfix THEN <<<<"POP">>>> ELSE <<>>))

HasSpread(es) == \E i \in DOMAIN es : es[i].k = "spread"

\* An array that is built one element, or one spread array, at a time.
Gather(es, c) ==
    LET f[i \in 0..Len(es)] ==
            IF i = 0 THEN Emit(c, <<"MAKE_ARRAY", 0>>)
            ELSE IF es[i].k = "spread"
                 THEN Emit(Expression(es[i].operand, f[i - 1]), <<"ARRAY_SPREAD">>)
                 ELSE Emit(Expression(es[i], f[i - 1]), <<"ARRAY_PUSH">>)
    IN f[Len(es)]

ArrayLiteral(e, c) ==
    IF HasSpread(e.elements) THEN Gather(e.elements, c)
    ELSE Emit(Expressions(e.elements, c), <<"MAKE_ARRAY", Len(e.elements)>>)

IndexOf(e, c) ==
    LET c1 == Expression(e.object, c)
        c2 == EmitJump(Emit(c1, <<"DUP">>), "JUMP_IF_NONE")
        c3 == EmitJump(Emit(Expression(e.index, c2), <<"GET_INDEX">>), "JUMP")
    IN IF e.optional THEN PatchJumps(c3, <<LastJump(c2), LastJump(c3)>>)
       ELSE Emit(Expression(e.index, c1), <<"GET_INDEX">>)

\* A call with a spread argument passes its arguments as one array.
SpreadCall(e, c) ==
    LET c1 == Expression(e.callee, c)
    IN Emit(IF Len(e.args) = 1 THEN Expression(e.args[1].operand, c1) ELSE Gather(e.args, c1),
            <<"CALL_SPREAD">>)

PlainCall(e, c) ==
    LET c1 == Expression(e.callee, c)
        c2 == EmitJump(Emit(c1, <<"DUP">>), "JUMP_IF_NONE")
        WithArgs(ctx) == Emit(Expressions(e.args, ctx), <<"CALL", Len(e.args)>>)
        c3 == EmitJump(WithArgs(c2), "JUMP")
    IN IF e.optional THEN PatchJumps(c3, <<LastJump(c2), LastJump(c3)>>) ELSE WithArgs(c1)

----------------------------------------------------------------------------
\* Functions

DeclareParams(params, c) ==
    FoldLeft(LAMBDA ctx, p : DeclareLocal(ctx, p.name), c, params)

\* A parameter that is null gets its default value, in the order of the list.
DefaultValues(params, c) ==
    LET Fill(ctx, p) ==
            LET slot == ctx.locals[p.name]
                c1 == EmitJump(Emit(ctx, <<"LOAD_VAR", slot>>), "JUMP_IF_NONE")
                c2 == EmitJump(c1, "JUMP")
                c3 == Expression(p.default[1], PatchJump(c2, LastJump(c1)))
            IN IF p.default = <<>> THEN ctx
               ELSE PatchJump(EmitAll(c3, <<<<"STORE_VAR", slot>>, <<"POP">>>>), LastJump(c2))
    IN FoldLeft(Fill, c, params)

\* Parameters, their default values, the body, and null for a body that ends.
FunctionBody(params, body, c) ==
    LET rest == \E i \in DOMAIN params : params[i].rest
        c1 == DefaultValues(params, DeclareParams(params, [c EXCEPT !.hasRest = rest]))
    IN EmitAll(Statement(body, c1), <<<<"LOAD_NONE">>, <<"RETURN">>>>)

\* FunctionMeta: what the machine needs to know of a compiled function.
Meta(name, params, c) ==
    [name |-> name, code |-> c.code, params |-> Len(params), locals |-> c.count,
     captures |-> Len(c.captures), hasRest |-> c.hasRest]

\* A set of names is gone through in their order.
InOrder(xs) ==
    LET Captured(x) == x \in xs
    IN SelectSeq(Names, Captured)

\* A lambda captures the variables of the enclosing function that it mentions.
Lambda(e, c) ==
    LET free == {x \in Idents(e) \ ParamNames(e.params) : IsLocal(c, x) \/ IsCapture(c, x)}
        captures == InOrder(free)
        inner == [NewContext("<lambda>", c.functions, c.globalConsts) EXCEPT
                    !.isLambda = TRUE,
                    !.captures = captures,
                    !.constCaptures = free \cap (c.constLocals \cup c.constCaptures)]
        done == FunctionBody(e.params, e.body, inner)
        index == Len(done.functions) + 1
        c1 == [c EXCEPT !.functions = Append(done.functions,
                                             Meta(LambdaName(index), e.params, done))]
        Source(x) == IF IsLocal(c, x) THEN <<"local", c.locals[x]>>
                                      ELSE <<"capture", CaptureIndex(c, x)>>
        sources == [i \in DOMAIN captures |-> Source(captures[i])] \o <<>>
    IN IF free = {} THEN Emit(c1, <<"LOAD_GLOBAL", LambdaName(index)>>)
       ELSE Emit([c1 EXCEPT !.captured = @ \cup {c.locals[x] : x \in free \cap DOMAIN c.locals}],
                 <<"MAKE_CLOSURE", index, sources>>)

Conditional(e, c) ==
    LET c1 == EmitJump(Expression(e.cond, c), "JUMP_IF_FALSE")
        c2 == EmitJump(Expression(e.yes, c1), "JUMP")
        c3 == Expression(e.no, PatchJump(c2, LastJump(c1)))
    IN PatchJump(c3, LastJump(c2))

\* The arms of a match are tried in order; the scrutinee stays below until one is taken.
MatchArms(e, c) ==
    LET Taken(s, body) ==
            LET c1 == EmitJump(Expression(body, Emit(s.ctx, <<"POP">>)), "JUMP")
            IN [ctx |-> c1, ends |-> Append(s.ends, LastJump(c1))]
        Try(s, arm) ==
            LET c1 == EmitJump(EmitAll(Expression(arm.literal, Emit(s.ctx, <<"DUP">>)),
                                       <<<<"EQ">>>>), "JUMP_IF_FALSE")
                taken == Taken([s EXCEPT !.ctx = c1], arm.body)
            IN IF arm.wild THEN Taken(s, arm.body)
               ELSE [taken EXCEPT !.ctx = PatchJump(@, LastJump(c1))]
        tried == FoldLeft(Try, [ctx |-> Expression(e.scrutinee, c), ends |-> <<>>], e.arms)
    IN PatchJumps(EmitAll(tried.ctx, <<<<"POP">>, <<"LOAD_NONE">>>>), tried.ends)

Expression(e, c) ==
    CASE e.k = "num" -> Number(e, c)
      [] e.k = "str" -> Emit(c, <<"LOAD_CONST", <<"str", e.s>>>>)
      [] e.k = "bool" -> Emit(c, IF e.b THEN <<"LOAD_TRUE">> ELSE <<"LOAD_FALSE">>)
      [] e.k = "null" -> Emit(c, <<"LOAD_NONE">>)
      [] e.k = "id" -> Emit(c, Load(c, e.name))
      [] e.k = "unary" -> Emit(Expression(e.operand, c), <<IF e.op = "-" THEN "NEG" ELSE "NOT">>)
      [] e.k = "step" -> StepVariable(e, c)
      [] e.k = "binary" -> CASE e.op \in {"&&", "||"} -> ShortCircuit(e, c)
                             [] e.op = "??" -> NullCoalesce(e, c)
                             [] OTHER -> BinaryOperation(e, c)
      [] e.k = "ternary" -> Conditional(e, c)
      [] e.k = "array" -> ArrayLiteral(e, c)
      [] e.k = "index" -> IndexOf(e, c)
      [] e.k = "length" -> Emit(Expression(e.object, c), <<"GET_PROPERTY", "length">>)
      [] e.k = "call" -> IF HasSpread(e.args) THEN SpreadCall(e, c) ELSE PlainCall(e, c)
      [] e.k = "func" -> Lambda(e, c)
      [] e.k = "match" -> MatchArms(e, c)

----------------------------------------------------------------------------
\* Statements

\* The variable is in scope in its own initial value.
Declare(s, c) ==
    LET c1 == IF s.const THEN DeclareConst(c, s.name) ELSE DeclareLocal(c, s.name)
        c2 == Emit(Expression(s.init, c1), <<"STORE_VAR", c1.locals[s.name]>>)
    IN Emit(SyncGlobal(c2, s.name), <<"POP">>)

\* x = x @ e appends to x in place.
IsAppend(s) ==
    /\ s.value.k = "binary" /\ s.value.op = "@"
    /\ s.value.left.k = "id" /\ s.value.left.name = s.target

Assignment(s, c) ==
    CASE IsConstBinding(c, s.target) -> ConstAssignmentError(c)
      [] ~IsConstBinding(c, s.target) /\ IsAppend(s) /\ IsLocal(c, s.target) ->
           EmitAll(Expression(s.value.right, c),
                   <<<<"STR_APPEND_VAR", c.locals[s.target]>>, <<"POP">>>>)
      [] OTHER ->
           LET c1 == Emit(Expression(s.value, c), Store(c, s.target))
           IN Emit(SyncGlobal(c1, s.target), <<"POP">>)

IndexAssignment(s, c) ==
    EmitAll(Expressions(<<s.object, s.index, s.value>>, c), <<<<"SET_INDEX">>, <<"POP">>>>)

Branch(s, c) ==
    LET c1 == EmitJump(Expression(s.cond, c), "JUMP_IF_FALSE")
        c2 == Statement(s.yes, c1)
        c3 == EmitJump(c2, "JUMP")
        c4 == Statement(s.no, PatchJump(c3, LastJump(c1)))
    IN IF s.no = Nothing THEN PatchJump(c2, LastJump(c1)) ELSE PatchJump(c4, LastJump(c3))

\* `return f(...)` in f itself reuses the frame.
IsSelfCall(e, c) ==
    /\ e.k = "call" /\ e.callee.k = "id"
    /\ e.callee.name = c.name
    /\ ~c.isLambda /\ ~c.hasRest

ReturnValue(s, c) ==
    IF IsSelfCall(s.value, c)
    THEN Emit(Expressions(s.value.args, c), <<"SELF_TAIL_CALL", Len(s.value.args)>>)
    ELSE Emit(Expression(s.value, c), <<"RETURN">>)

----------------------------------------------------------------------------
\* Loops.  The body of a loop is compiled between Enter and Leave; `continue` jumps to
\* the end of the iteration and `break` behind the loop.

Enter(c) == [c EXCEPT !.loops = Append(@, [breaks |-> <<>>, continues |-> <<>>])]
Loop(c) == Last(c.loops)
PatchContinues(c) == PatchJumps(c, Loop(c).continues)
Leave(c) == [PatchJumps(c, Loop(c).breaks) EXCEPT !.loops = Front(@)]

Jump(c, kind) ==
    LET c1 == EmitJump(c, "JUMP")
        n == Len(c.loops)
    IN IF n = 0 THEN c
       ELSE IF kind = "break" THEN [c1 EXCEPT !.loops[n].breaks = Append(@, LastJump(c1))]
            ELSE [c1 EXCEPT !.loops[n].continues = Append(@, LastJump(c1))]

WhileLoop(s, c) ==
    LET start == Len(c.code)
        c1 == EmitJump(Expression(s.cond, Enter(c)), "JUMP_IF_FALSE")
        c2 == PatchContinues(Statement(s.body, c1))
        c3 == JumpBack(CloseUpvalues(c2, c.count), start)
    IN Leave(PatchJump(c3, LastJump(c1)))

\* Mutant: `continue` skips the post clause.
ForLoopSkipsPost(s, c) ==
    LET c1 == Statement(s.init, c)
        c2 == EmitJump(Expression(s.cond, c1), "JUMP_IF_FALSE")
        c3 == CloseUpvalues(Statement(s.body, Enter(c2)), c.count)
        c4 == PatchContinues(Statement(s.post, c3))
    IN Leave(PatchJump(JumpBack(c4, Len(c1.code)), LastJump(c2)))

\* The cells are closed before the post clause, so it changes the next iteration's variable.
ForLoop(s, c) ==
    LET c1 == Statement(s.init, c)
        c2 == EmitJump(Expression(s.cond, c1), "JUMP_IF_FALSE")
        c3 == PatchContinues(Statement(s.body, Enter(c2)))
        c4 == Statement(s.post, CloseUpvalues(c3, c.count))
    IN Leave(PatchJump(JumpBack(c4, Len(c1.code)), LastJump(c2)))

\* for (x in e): an index over a hidden array, both in hidden variables.
ForInLoop(s, c) ==
    LET arr == c.count
        idx == c.count + 1
        x == c.count + 2
        c1 == DeclareLocal(DeclareLocal(DeclareLocal(c, "$arr" \o ToString(arr)),
                                        "$idx" \o ToString(arr)), s.var)
        c2 == EmitAll(Expression(s.iterable, c1),
                      <<<<"ITER_ARRAY">>, <<"STORE_VAR", arr>>, <<"POP">>,
                        <<"LOAD_ONE">>, <<"NEG">>, <<"STORE_VAR", idx>>, <<"POP">>>>)
        c3 == EmitJump(EmitAll(Enter(c2),
                      <<<<"LOAD_VAR", idx>>, <<"LOAD_ONE">>, <<"ADD">>,
                        <<"STORE_VAR", idx>>, <<"POP">>,
                        <<"LOAD_VAR", idx>>, <<"LOAD_VAR", arr>>, <<"GET_PROPERTY", "length">>,
                        <<"LT">>>>), "JUMP_IF_FALSE")
        c4 == EmitAll(c3, <<<<"LOAD_VAR", arr>>, <<"LOAD_VAR", idx>>, <<"GET_INDEX">>,
                            <<"STORE_VAR", x>>, <<"POP">>>>)
        c5 == JumpBack(CloseUpvalues(PatchContinues(Statement(s.body, c4)), x), Len(c2.code))
    IN Leave(PatchJump(c5, LastJump(c3)))

\* for (x, y in e): the pairs and an index stay on the stack during the loop.
ForPairsLoop(s, c) ==
    LET c1 == Emit(Expression(s.iterable, c), <<"MAKE_ITERATOR_KV">>)
        c2 == DeclareLocal(DeclareLocal(c1, s.var), s.valVar)
        c3 == EmitJump(Emit(Enter(c2), <<"ITER_NEXT_KV">>), "JUMP_IF_FALSE")
        c4 == EmitAll(c3, <<Store(c3, s.valVar), <<"POP">>, Store(c3, s.var), <<"POP">>>>)
        c5 == JumpBack(CloseUpvalues(PatchContinues(Statement(s.body, c4)), c1.count),
                       Len(c2.code))
    IN EmitAll(Leave(PatchJump(c5, LastJump(c3))), <<<<"POP">>, <<"POP">>>>)

SwitchCases(s, c) ==
    LET Try(st, case) ==
            LET c1 == EmitJump(Emit(Expression(case.match, Emit(st.ctx, <<"DUP">>)), <<"EQ">>),
                               "JUMP_IF_FALSE")
                c2 == EmitJump(Statement(case.body, Emit(c1, <<"POP">>)), "JUMP")
            IN [ctx |-> PatchJump(c2, LastJump(c1)), ends |-> Append(st.ends, LastJump(c2))]
        tried == FoldLeft(Try, [ctx |-> Expression(s.value, c), ends |-> <<>>], s.cases)
    IN PatchJumps(Statement(s.default, Emit(tried.ctx, <<"POP">>)), tried.ends)

StatementCode(s, c) ==
    CASE s.k = "nothing" -> c
      [] s.k = "eval" -> Emit(Expression(s.expr, c), <<"POP">>)
      [] s.k = "let" -> Declare(s, c)
      [] s.k = "assign" -> Assignment(s, c)
      [] s.k = "setindex" -> IndexAssignment(s, c)
      [] s.k = "block" -> PopScope(FoldLeft(LAMBDA ctx, t : Statement(t, ctx), c, s.stmts), c)
      [] s.k = "if" -> Branch(s, c)
      [] s.k = "while" -> WhileLoop(s, c)
      [] s.k = "for" -> ForLoop(s, c)
      [] s.k = "forin" -> ForInLoop(s, c)
      [] s.k = "forpairs" -> ForPairsLoop(s, c)
      [] s.k \in {"break", "continue"} -> Jump(c, s.k)
      [] s.k = "return" -> ReturnValue(s, c)
      [] s.k = "switch" -> SwitchCases(s, c)

\* The statement is compiled in a context that is computed first: TLC would put off the
\* statements before it until it needs their code, and run out of stack.
Statement(s, c) == CHOOSE r \in {StatementCode(s, d) : d \in {c}} : TRUE

----------------------------------------------------------------------------
\* A program: its functions, each after the lambdas in it, and main last.

TopLevelConsts(main) == {main.stmts[i].name : i \in {j \in DOMAIN main.stmts :
                            main.stmts[j].k = "let" /\ main.stmts[j].const}}

CompileFunction(c, f) ==
    LET done == FunctionBody(f.params, f.body, NewContext(f.name, c.functions, c.globalConsts))
    IN [c EXCEPT !.functions = Append(done.functions, Meta(f.name, f.params, done))]

CompileProgram(p) ==
    LET c1 == FoldLeft(CompileFunction, NewContext("<main>", <<>>, TopLevelConsts(p.main)),
                       p.functions)
        done == FunctionBody(<<>>, p.main, [c1 EXCEPT !.isMain = TRUE])
    IN Append(done.functions, Meta("<main>", <<>>, done))

=============================================================================
