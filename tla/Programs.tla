------------------------------ MODULE Programs -------------------------------
(***************************************************************************)
(* Programs to compile and run: families of small programs, one for each   *)
(* construct that the compiler treats with care, over the places where it  *)
(* may stand and the values that may flow into it.  A program prints what  *)
(* it computes.                                                            *)
(*                                                                         *)
(* Every program of Samples keeps to the part of the language in which the *)
(* program does what the documentation says; those of EndsWhenHot do not.  *)
(***************************************************************************)
EXTENDS Syntax, SequencesExt

Show(e) == Eval(Call(Id("print"), <<e>>))
Define(x, params, e) == Function(x, params, Block(<<Return(e)>>))
Lambda(e) == Func(<<>>, Block(<<Return(e)>>))
Add(l, r) == Binary(l, "+", r)
Equal(l, r) == Binary(l, "==", r)
Less(l, r) == Binary(l, "<", r)
Store(xs, e) == IndexAssign(Id(xs), Length(Id(xs)), e)
Run(f) == Eval(Call(Id(f), <<>>))

Main(ss) == Program(<<>>, ss)
InFunction(ss) == Program(<<Function("f", <<>>, Block(ss))>>, <<Run("f")>>)

\* The programs of a family: one for each choice of its parameters from sequences.
Family1(F(_), as) == [i \in DOMAIN as |-> F(as[i])]
Family2(F(_, _), as, bs) ==
    FlattenSeq([i \in DOMAIN as |-> Family1(LAMBDA b : F(as[i], b), bs)])
Family3(F(_, _, _), as, bs, cs) ==
    FlattenSeq([i \in DOMAIN as |-> Family2(LAMBDA b, c : F(as[i], b, c), bs, cs)])
Family4(F(_, _, _, _), as, bs, cs, ds) ==
    FlattenSeq([i \in DOMAIN as |-> Family3(LAMBDA b, c, d : F(as[i], b, c, d), bs, cs, ds)])

\* t(x) prints x and gives it back: the order of evaluation becomes visible.
Traced(e) == Call(Id("t"), <<e>>)
WithTrace(ss) ==
    Program(<<Function("t", <<Param("x")>>, Block(<<Show(Id("x")), Return(Id("x"))>>))>>, ss)

----------------------------------------------------------------------------
\* Closures made in a loop, and called when it is over

Kinds == <<"while", "for", "forin", "forpairs">>

\* Three iterations, whose number is k.
Iterations(kind, body) ==
    CASE kind = "while" ->
           <<Let("n", Num(0)),
             While(Less(Id("n"), Num(3)),
                   Block(<<Let("k", Id("n")), Assign("n", Add(Id("n"), Num(1)))>> \o body))>>
      [] kind = "for" ->
           <<For(Let("k", Num(0)), Less(Id("k"), Num(3)), Eval(Step("post++", "k")), Block(body))>>
      [] kind = "forin" ->
           <<ForIn("k", Array(<<Num(0), Num(1), Num(2)>>), Block(body))>>
      [] kind = "forpairs" ->
           <<ForPairs("k", "v", Array(<<Num(4), Num(5), Num(6)>>), Block(body))>>

\* Under an if in the middle iteration.
Leaving(jump) ==
    IF jump = Nothing THEN <<>> ELSE <<If(Equal(Id("k"), Num(1)), Block(<<jump>>), Nothing)>>

\* What a closure does with a variable: read it, step it, or hand it to another closure.
Closure(does, x) ==
    CASE does = "read" -> Lambda(Id(x))
      [] does = "step" -> Lambda(Step("++", x))
      [] does = "nest" -> Lambda(Call(Lambda(Step("post++", x)), <<>>))

ClosureLoop(kind, x, does, jumps) ==
    <<Let("fs", Array(<<>>)), Let("o", Num(0))>>
    \o Iterations(kind, <<Let("b", Add(Id("k"), Id("k")))>> \o Leaving(jumps[1])
                        \o <<Store("fs", Closure(does, x)), Assign("o", Add(Id("o"), Num(1)))>>
                        \o Leaving(jumps[2]))
    \o <<ForIn("g", Id("fs"), Block(<<Show(Call(Id("g"), <<>>)), Show(Call(Id("g"), <<>>))>>)),
         Show(Id("o"))>>

ClosureLoops ==
    Family4(LAMBDA kind, x, does, jumps : InFunction(ClosureLoop(kind, x, does, jumps)),
            Kinds, <<"k", "b", "o">>, <<"read", "step", "nest">>,
            <<<<Nothing, Nothing>>, <<Nothing, Break>>, <<Continue, Continue>>>>)
    \o Family3(LAMBDA kind, x, jump : Main(ClosureLoop(kind, x, "read", <<jump, Nothing>>)),
               Kinds, <<"k", "b", "o">>, <<Continue, Break>>)

\* A variable from outside the loop, stepped by a closure of its own: one that is made in
\* the later iterations, or behind the loop.
StepOutside(x, inside) ==
    LET later == If(Less(Num(0), Id("k")), Block(<<Store("fs", Closure("step", x))>>), Nothing)
    IN [body |-> IF inside THEN <<later>> ELSE <<>>,
        end |-> IF inside THEN Nothing ELSE Store("fs", Closure("step", x))]

SharedVariable(kind, x, inside) ==
    InFunction(<<Let("fs", Array(<<>>)), Let(x, Num(0))>>
               \o Iterations(kind, StepOutside(x, inside).body
                                   \o <<Store("fs", Lambda(Add(Id("k"), Id(x))))>>)
               \o <<StepOutside(x, inside).end,
                    ForIn("g", Id("fs"), Block(<<Show(Call(Id("g"), <<>>))>>)),
                    ForIn("g", Id("fs"), Block(<<Show(Call(Id("g"), <<>>))>>)), Show(Id(x))>>)

\* The variable of the loop comes first in the order of the names, or last.
SharedInOrder(x) == Family2(LAMBDA kind, inside : SharedVariable(kind, x, inside),
                            Kinds, <<TRUE, FALSE>>)

\* Loops in loops: a jump leaves the inner one, and a closure sees both variables.
NestedLoop(kind, inner, outer) ==
    InFunction(
        <<Let("fs", Array(<<>>)), Let("m", Num(0))>>
        \o Iterations(kind,
             <<For(Let("j", Num(0)), Less(Id("j"), Num(2)), Assign("j", Add(Id("j"), Num(1))),
                   Block(Leaving(inner)
                         \o <<Store("fs", Lambda(Add(Binary(Id("k"), "*", Num(10)), Id("j"))))>>)),
               Assign("m", Add(Id("m"), Num(1)))>> \o Leaving(outer))
        \o <<ForIn("g", Id("fs"), Block(<<Show(Call(Id("g"), <<>>))>>)), Show(Id("m"))>>)

NestedLoops == Family3(NestedLoop, Kinds, <<Nothing, Break, Continue, Return(Num(7))>>,
                       <<Nothing, Break, Continue>>)

----------------------------------------------------------------------------
\* Expressions that skip a part of themselves

Operands == <<Null, Num(0), Num(1)>>
Skipping == <<"&&", "||", "??">>

ShortCircuit(a, b, op1, op2) ==
    WithTrace(<<Show(Binary(Binary(Traced(a), op1, Traced(b)), op2, Traced(Num(2)))),
                Show(Binary(Traced(a), op1, Binary(Traced(b), op2, Traced(Num(2)))))>>)

Choice(a, b, wild, last) ==
    WithTrace(<<Show(Ternary(Traced(a), Traced(Num(2)), Ternary(Traced(b), Num(3), Traced(Num(4))))),
                Show(Match(Traced(a), <<Arm(Num(1), Traced(Num(5))), Arm(b, Num(6)),
                                         Arm(Num(0), Num(7))>> \o wild)),
                Switch(Traced(a), <<Case(Num(1), Block(<<Show(Num(8))>>)),
                                    Case(Traced(b), Block(<<Let("y", b), Show(Id("y"))>>))>>, last)>>)

\* A switch that leaves the loop around it, or the function.
SwitchJump(kind, jump) ==
    InFunction(Iterations(kind, <<Switch(Id("k"), <<Case(Num(1), Block(<<jump>>))>>, Nothing),
                                  Show(Id("k"))>>) \o <<Show(Num(9))>>)

\* What comes after ?. is not evaluated when the object is null.
Optional(object, f) ==
    WithTrace(<<Show(OptionalIndex(object, Traced(Num(1)))),
                Show(Binary(OptionalIndex(object, Num(5)), "??", Traced(Num(3)))),
                Show(OptionalCall(f, <<Traced(Num(2))>>))>>)

Conditionals ==
    Family4(ShortCircuit, Operands, Operands, Skipping, Skipping)
    \o Family4(Choice, Operands, <<Null, Num(0)>>, <<<<>>, <<Otherwise(Traced(Num(9)))>>>>,
               <<Nothing, Block(<<Show(Num(10))>>)>>)
    \o Family2(SwitchJump, Kinds, <<Break, Continue, Return(Null)>>)
    \o Family2(Optional, <<Null, Array(<<Num(4), Num(5)>>), Text("xy")>>, <<Null, Id("t"), Num(1)>>)

----------------------------------------------------------------------------
\* Scopes and constants

\* A block hides a variable and gives it back; a closure keeps the one it was made under.
Shadow(does, set) ==
    InFunction(<<Let("x", Num(1)), Let("g", Closure(does, "x")),
                 If(Bool(TRUE), Block(<<Let("x", Num(2)), Let("h", Closure(does, "x")),
                                        Show(Call(Id("g"), <<>>)), Show(Call(Id("h"), <<>>)),
                                        set, Show(Id("x"))>>), Nothing),
                 set, Show(Id("x")), Show(Call(Id("g"), <<>>))>>)

\* Assigning a constant is an error in the function it belongs to, in a closure of it,
\* and in another function; a parameter of the same name is no constant.
Constant(where, set) ==
    LET Set(place) == IF where = place THEN set ELSE Nothing
    IN Program(<<Function("g", <<>>, Block(<<Set("global")>>))>>,
               <<Const("x", Num(1)), Show(Id("x")),
                 Let("h", Func(IF where = "param" THEN <<Param("x")>> ELSE <<>>,
                               Block(<<Set("closure"), Set("param"), Show(Id("x"))>>))),
                 Set("main"), Run("g"), Show(Call(Id("h"), <<Num(4)>>)), Show(Id("x"))>>)

ConstantOfFunction ==
    InFunction(<<Const("x", Num(1)), Let("h", Lambda(Call(Lambda(Step("--", "x")), <<>>))),
                 Show(Id("x")), Show(Call(Id("h"), <<>>))>>)

\* Functions see what main has assigned to its variables.
Synced(n) ==
    Program(<<Define("g", <<>>, Id("x")),
              Function("s", <<>>, Block(<<Show(Call(Id("g"), <<>>))>>))>>,
            <<Let("x", Num(1)), Run("s"), Assign("x", Add(Id("x"), Num(1))), Run("s"),
              If(Equal(Id("x"), Num(n)), Block(<<Assign("x", Num(7))>>),
                 Block(<<Assign("x", Call(Id("g"), <<>>))>>)),
              Run("s"), Show(Id("x"))>>)

Scopes ==
    Family2(Shadow, <<"read", "step", "nest">>,
            <<Nothing, Assign("x", Num(5)), Eval(Step("--", "x"))>>)
    \o Family2(Constant, <<"nowhere", "main", "closure", "param", "global">>,
               <<Assign("x", Num(2)), Eval(Step("++", "x"))>>)
    \o <<ConstantOfFunction>> \o Family1(Synced, <<2, 3>>)

----------------------------------------------------------------------------
\* Functions

Passing(last, args) ==
    Program(<<Function("f", <<Param("a"), DefaultParam("b", Add(Id("a"), Num(1))), last>>,
                       Block(<<Show(Id("a")), Show(Id("b")), Show(Id("c"))>>))>>,
            <<Eval(Call(Id("f"), args)),
              Let("g", Func(<<Param("a"), DefaultParam("b", Id("a")), last>>,
                            Block(<<Return(Array(<<Id("b"), Id("c")>>))>>))),
              Show(Call(Id("g"), args))>>)

ArgumentLists ==
    <<<<Num(1)>>, <<Num(1), Null>>, <<Num(1), Num(5), Num(6)>>,
      <<Num(1), Num(5), Num(6), Num(7)>>, <<Num(1), Num(5), Null, Num(7)>>,
      <<Spread(Array(<<Num(1), Num(2)>>))>>,
      <<Num(1), Spread(Array(<<Num(2), Num(3), Num(4)>>))>>,
      <<Spread(Array(<<Num(1)>>)), Spread(Array(<<>>)), Num(8)>>>>

\* A function that calls itself last does so more often than calls may nest.
TailCall(last, more) ==
    Program(<<Function("f", <<Param("n"), Param("a"), last>>,
                       Block(<<Let("d", Add(Id("c"), Id("n"))),
                               If(Equal(Id("n"), Num(0)),
                                  Block(<<Return(Array(<<Id("a"), Id("d")>>))>>), Nothing),
                               Return(Call(Id("f"), <<Binary(Id("n"), "-", Num(1)),
                                                      Add(Id("a"), Id("n"))>> \o more))>>))>>,
            <<Show(Call(Id("f"), <<Num(8), Num(0), Num(1)>>))>>)

\* The arguments change places.
TailSwap(n) ==
    Program(<<Function("f", <<Param("a"), Param("b"), Param("n")>>,
                       Block(<<If(Equal(Id("n"), Num(0)), Return(Id("a")), Nothing),
                               Return(Call(Id("f"), <<Id("b"), Id("a"),
                                                      Binary(Id("n"), "-", Num(1))>>))>>))>>,
            <<Show(Call(Id("f"), <<Num(1), Num(2), Num(n)>>))>>)

\* Functions that call each other and themselves, closures that call themselves.
Recursion(n, last) ==
    LET Other(f, base) ==
            Ternary(Equal(Id("n"), Num(0)), Bool(base),
                    Call(Id(f), <<Binary(Id("n"), "-", Num(1))>>))
    IN Program(<<Define("even", <<Param("n")>>, Other("odd", TRUE)),
                 Define("odd", <<Param("n")>>, Other("even", FALSE))>>,
               <<Show(Call(Id("even"), <<Num(n)>>)),
                 Let("g", Func(<<Param("n")>>,
                     Block(<<Return(Ternary(Less(Id("n"), Num(1)), Num(0),
                         Add(Id("n"), Call(Id("g"), <<Binary(Id("n"), "-", Num(1))>>))))>>))),
                 Show(Call(Id("g"), <<Num(n)>>)), last>>)

\* Closures over one variable of a function that has returned, and others over its next.
Counter(i, j) ==
    LET Member(x, k) == Index(Id(x), Num(k))
    IN Program(<<Define("make", <<Param("n")>>,
                        Array(<<Lambda(Step("++", "n")), Lambda(Id("n")),
                                Func(<<Param("d")>>,
                                     Block(<<Assign("n", Add(Id("n"), Id("d")))>>))>>))>>,
               <<Let("p", Call(Id("make"), <<Num(1)>>)), Let("q", Call(Id("make"), <<Num(5)>>)),
                 Show(Call(Member("p", i), <<Num(2)>>)), Show(Call(Member("p", j), <<Num(3)>>)),
                 Show(Call(Member("p", 1), <<>>)), Show(Call(Member("q", 1), <<>>))>>)

Functions ==
    Family2(Passing, <<Param("c"), DefaultParam("c", Add(Id("a"), Id("b"))), RestParam("c")>>,
            ArgumentLists)
    \o Family2(TailCall, <<Param("c"), DefaultParam("c", Num(2))>>, <<<<Id("a")>>, <<Id("n"), Num(9)>>>>)
    \o <<TailCall(DefaultParam("c", Num(2)), <<>>), TailSwap(7), TailSwap(8)>>
    \o Family2(Recursion, <<0, 1, 2>>, <<Nothing, Run("none"), Show(Call(Num(1), <<>>))>>)
    \o Family2(Counter, <<0, 1, 2>>, <<0, 1, 2>>)

----------------------------------------------------------------------------
\* Arrays and strings

ArrayUse(i, j) ==
    InFunction(<<Let("a", Array(<<Num(1), Spread(Array(<<Num(2), Num(3)>>)), Num(4)>>)),
                 Let("b", Id("a")), IndexAssign(Id("a"), Num(i), Num(9)),
                 Show(Id("b")), Show(Length(Id("a"))), Show(Index(Id("b"), Num(j))),
                 ForIn("x", Id("a"), Block(<<If(Less(Length(Id("a")), Num(7)),
                                                Store("a", Id("x")), Nothing)>>)),
                 Show(Id("a")), ForIn("x", Num(5), Block(<<Show(Id("x"))>>)),
                 ForPairs("x", "y", Id("b"), Block(<<Store("b", Id("x")), Store("b", Id("y"))>>)),
                 Show(Length(Id("b")))>>)

\* A text that grows, in a variable of the function or of a closure.
TextUse(e, shared) ==
    InFunction(<<Let("s", Text("a")), Let("c", Id("s")),
                 Let("grow", Func(<<Param("e")>>,
                     Block(<<Assign("s", Binary(Id("s"), "@", Id("e")))>>))),
                 Assign("s", Binary(Id("s"), "@", e)),
                 IF shared THEN Eval(Call(Id("grow"), <<Num(1)>>)) ELSE Nothing,
                 Assign("s", Binary(Id("s"), "@", Binary(Id("c"), "@", Text("b")))),
                 Show(Id("s")), Show(Id("c")), Show(Equal(Id("s"), Text("axab")))>>)

\* The length of what may have none, and an element of a text that grew.
LengthUse(e) ==
    InFunction(<<Let("s", Text("ab")), Assign("s", Binary(Id("s"), "@", Text("c"))),
                 Show(Index(Id("s"), Num(2))), Show(Length(e)), Show(Length(Id("s")))>>)

Data == Family2(ArrayUse, <<0, 3, 4, 6>>, <<-1, 0, 6>>)
        \o Family2(TextUse, <<Text("x"), Num(7), Text("")>>, <<TRUE, FALSE>>)
        \o Family1(LengthUse, <<Text("ab"), Array(<<Null>>), Lambda(Null), Null, Num(0)>>)

----------------------------------------------------------------------------
\* What the parser computes: operators, and variables that are literals

\* Two operators, of variables or of literals.
Operators(op1, op2, same) ==
    LET a == IF same THEN Num(7) ELSE Id("a")
        b == IF same THEN Num(2) ELSE Id("b")
        c == IF same THEN Num(-3) ELSE Id("c")
    IN Program(<<Function("f", <<Param("a"), Param("b"), Param("c")>>,
                          Block(<<Show(Binary(Binary(a, op1, b), op2, c)),
                                  Show(Binary(a, op1, Unary("-", Binary(b, "+", c)))),
                                  Show(Unary("!", Binary(a, op2, Binary(b, op1, c)))),
                                  Show(Ternary(Binary(Binary(a, op1, b), "==", Binary(c, op1, b)), a,
                                               Ternary(Binary(a, "!=", b), Binary(b, op1, c), c)))>>))>>,
               <<Eval(Call(Id("f"), <<Num(7), Num(2), Num(-3)>>))>>)

Texts(l, r) ==
    InFunction(<<Let("s", Text("a")), Let("t", l), Show(Binary(Id("s"), "@", Id("t"))),
                 Show(Binary(Equal(Id("t"), r), "||", Equal(Id("s"), Text("a")))),
                 Show(Binary(Unary("!", Equal(Id("t"), r)), "&&", Bool(TRUE))),
                 Show(Ternary(Equal(l, r), Binary(Text("c"), "@", l), Id("s")))>>)

\* A variable that is a literal, unless another statement changes it or hides it.
Hiding ==
    <<Nothing,
      If(Bool(TRUE), Block(<<Let("x", Num(5)), Show(Id("x"))>>), Nothing),
      If(Bool(TRUE), Block(<<Assign("x", Num(5))>>), Nothing),
      Block(<<For(Let("x", Num(0)), Less(Id("x"), Num(2)), Eval(Step("post++", "x")), Block(<<Show(Id("x"))>>))>>),
      Block(<<ForIn("x", Array(<<Num(8), Num(9)>>), Block(<<Show(Id("x"))>>))>>),
      While(Less(Id("x"), Num(5)), Block(<<Eval(Step("++", "x"))>>)),
      Switch(Num(1), <<Case(Num(1), Block(<<Show(Id("x")), Let("x", Num(6)), Show(Id("x"))>>))>>, Nothing),
      Show(Call(Func(<<>>, Block(<<Let("x", Num(6)), Return(Id("x"))>>)), <<>>)),
      Show(Call(Lambda(Step("post--", "x")), <<>>)),
      Show(Call(Func(<<Param("d")>>, Block(<<If(Id("d"), Block(<<Assign("x", Id("d"))>>), Nothing)>>)),
                <<Num(6)>>))>>

UsesOf(x) ==
    <<Show(Add(x, Num(1))), Show(Ternary(Less(x, Num(4)), Text("l"), Binary(x, "@", Text("g")))),
      Show(Index(Array(<<x, Unary("-", x), Num(6), Num(7), Num(8), Num(9), Num(10)>>), x)),
      Show(Match(x, <<Arm(Num(3), Add(x, x)), Otherwise(x)>>))>>

ConstantFlow(Make(_, _), hiding) ==
    InFunction(<<Make("x", Num(3)), hiding>> \o UsesOf(Id("x"))
               \o <<If(Equal(Id("x"), Num(3)), Show(Call(Lambda(Id("x")), <<>>)), Show(Num(0)))>>)

\* What stands behind a return is not there.
Behind(kind, jump) ==
    InFunction(Iterations(kind, <<Show(Id("k")), jump, Let("j", Num(7)), Show(Id("j")),
                                  Return(Id("j")), Show(Num(8))>>) \o <<Return(Num(9)), Show(Num(9))>>)

\* A loop that only counts, from a to b.
Collapsing(bounds, op, post, body) ==
    LET from == bounds[1]
        s == Id("s")
    IN InFunction(<<Let("n", Num(bounds[2])), Show(Id("n")), Let("i", Num(from)), Let("s", Num(4)),
                    For(Let("i", Num(from)), Binary(Id("i"), op, Num(bounds[2])), post, Block(body)),
                    Show(s), Eval(Step("++", "s")), Assign("s", Num(6)),
                    For(Let("i", Num(from)), Binary(Id("i"), op, Id("n")), post, Block(body)),
                    Show(s), Show(Id("i"))>>)

\* The variable of an empty loop, when it is over.
Emptied(start, op) ==
    InFunction(<<Let("i", Num(9)),
                 For(Assign("i", Num(start)), Binary(Id("i"), op, Num(4)), Eval(Step("post++", "i")), Block(<<>>)),
                 Show(Id("i"))>>)

Simplifications ==
    Family3(Operators, <<"+", "-", "*">>, <<"<", "<=", ">", ">=", "==", "!=", "-", "*">>, <<TRUE, FALSE>>)
    \o Family2(Texts, <<Text("a"), Text("b"), Num(1), Bool(TRUE)>>, <<Text("a"), Num(1), Bool(FALSE)>>)
    \o Family1(LAMBDA h : ConstantFlow(Let, h), Hiding)
    \o Family1(LAMBDA h : ConstantFlow(Const, h), <<Hiding[1], Hiding[2], Hiding[9]>>)
    \o Family2(Behind, Kinds, <<Return(Num(5)), If(Equal(Id("k"), Num(1)), Return(Num(5)), Nothing),
                                 If(Bool(TRUE), Block(<<Return(Null), Show(Num(6))>>), Nothing)>>)
    \o Family4(Collapsing, <<<<0, 3>>, <<3, 3>>, <<4, 3>>>>, <<"<", "<=">>,
               <<Eval(Step("post++", "i")), Assign("i", Add(Id("i"), Num(1)))>>,
               <<<<Assign("s", Add(Id("s"), Num(2)))>>, <<Assign("s", Binary(Id("s"), "-", Num(3)))>>,
                 <<Eval(Step("post--", "s"))>>, <<Assign("s", Add(Id("s"), Id("n")))>>>>)
    \o Family2(Emptied, <<0, 4>>, <<"<", "<=">>)

----------------------------------------------------------------------------
\* Loops that run long enough to be traced, in a function that is called twice: the trace
\* of the first call is there in the second

Hot(functions, params, body, args1, args2) ==
    Program(functions \o <<Function("f", params, Block(body \o <<Return(Id("s"))>>))>>,
            <<Show(Call(Id("f"), args1)), Show(Call(Id("f"), args2))>>)

\* n iterations, whose number is k; or fewer, when s becomes large.
Counting(kind, body) ==
    <<Let("s", Num(0))>> \o
    CASE kind = "for" ->
           <<For(Let("k", Num(0)), Less(Id("k"), Id("n")), Eval(Step("post++", "k")), Block(body))>>
      [] kind = "while" ->
           <<Let("k", Num(0)), While(Less(Id("k"), Id("n")),
                                     Block(body \o <<Assign("k", Add(Id("k"), Num(1)))>>))>>
      [] kind = "both" ->
           <<Let("k", Num(0)), While(Binary(Less(Id("k"), Id("n")), "&&", Less(Id("s"), Num(60))),
                                     Block(<<Eval(Step("++", "k"))>> \o body))>>
AddUp(x) == Assign("s", Add(Id("s"), Id(x)))

\* In iteration i, or from it on.
At(i) == Equal(Id("k"), i)
From(i) == Unary("!", Less(Id("k"), i))

\* The body takes another way in one iteration, or from it on.
HotBranch(kind, cond, yes, no) ==
    Hot(<<>>, <<Param("n")>>,
        Counting(kind, <<If(cond, Block(<<yes>>), no), Let("b", Id("k")), AddUp("b")>>),
        <<Num(12)>>, <<Num(11)>>)

HotTernary(kind, i) ==
    Hot(<<>>, <<Param("n")>>,
        Counting(kind, <<Assign("s", Ternary(Less(Id("k"), Num(i)), Add(Id("s"), Id("k")),
                                             Binary(Id("s"), "*", Num(2))))>>),
        <<Num(13)>>, <<Num(12)>>)

\* The inner loop is traced first, and is a part of the outer trace later.
HotNest(kind, times, cond, jump) ==
    Hot(<<>>, <<Param("n")>>,
        Counting(kind, <<For(Let("j", Num(0)), Less(Id("j"), Num(times)), Eval(Step("++", "j")),
                             Block(<<If(cond, Block(<<jump>>), Nothing), AddUp("j")>>)), AddUp("k")>>),
        <<Num(10)>>, <<Num(10)>>)

\* An array in the loop: of the first call and of the second, which may be the same.
HotArray(kind, body, length, same) ==
    LET xs(x) == Array([i \in 1..length |-> Num(x + i)] \o <<>>)
    IN Program(<<Function("f", <<Param("a"), Param("n")>>,
                          Block(<<Let("x", Num(0))>> \o Counting(kind, body)
                                \o <<Return(Array(<<Id("a"), Id("s"), Id("x")>>))>>))>>,
               <<Let("p", xs(1)), Let("q", IF same THEN Id("p") ELSE xs(20)),
                 Show(Call(Id("f"), <<Id("p"), Num(14)>>)),
                 Show(Call(Id("f"), <<Id("q"), Num(14)>>))>>)

HotCall(kind, op) ==
    Hot(<<Define("g", <<Param("a"), Param("b")>>, Binary(Id("a"), op, Id("b")))>>, <<Param("n")>>,
        Counting(kind, <<Assign("s", Call(Id("g"), <<Id("s"), Id("k")>>))>>),
        <<Num(12)>>, <<Num(11)>>)

\* Another counter of the same kind in every call.
HotClosure(kind, by, shown) ==
    Hot(<<Define("make", <<Param("m")>>,
                 Func(<<>>, Block(<<Assign("m", Add(Id("m"), Num(by))), Return(Id("m"))>>)))>>,
        <<Param("n")>>,
        <<Let("c", Call(Id("make"), <<Num(0)>>))>>
        \o Counting(kind, <<Assign("s", Add(Id("s"), Call(Id("c"), <<>>)))>> \o shown)
        \o <<Show(Call(Id("c"), <<>>))>>,
        <<Num(12)>>, <<Num(11)>>)

\* In the second call, the loop ends behind a closure that adds another number.
HotOther(kind) ==
    LET Adds(n) == Func(<<>>, Block(<<Assign("m", Add(Id("m"), Num(n))), Return(Id("m"))>>))
    IN Program(<<Function("f", <<Param("c"), Param("j"), Param("n")>>,
                          Block(Counting(kind, <<Eval(Call(Id("c"), <<>>)),
                                                 If(At(Id("j")), Block(<<Break>>), Nothing), AddUp("k")>>)
                                \o <<Return(Id("s"))>>)),
                 Define("make", <<Param("m")>>, Array(<<Adds(1), Adds(3)>>))>>,
               <<Let("p", Call(Id("make"), <<Num(0)>>)),
                 Show(Call(Id("f"), <<Index(Id("p"), Num(0)), Num(20), Num(12)>>)),
                 Show(Call(Id("f"), <<Index(Id("p"), Num(1)), Num(1), Num(12)>>))>>)

HotKinds == <<"for", "while", "both">>
InArray == <<IndexAssign(Id("a"), Id("k"), Add(Index(Id("a"), Id("k")), Id("s"))),
             Assign("x", Index(Id("a"), Id("k"))), AddUp("x")>>
PastArray == <<IndexAssign(Id("a"), Id("k"), Id("k")), AddUp("k")>>

HotLoops ==
    Family4(HotBranch, HotKinds, <<At(Num(8)), At(Num(10)), From(Num(11))>>,
            <<Assign("s", Add(Id("s"), Num(5))), Break>>,
            <<Nothing, Block(<<Assign("s", Binary(Id("s"), "-", Num(1)))>>)>>)
    \o Family4(HotBranch, <<"for", "both">>, <<At(Num(3)), At(Num(10)), From(Num(11))>>,
               <<Continue, Return(Num(7))>>, <<Nothing>>)
    \o Family2(HotTernary, HotKinds, <<9, 11>>)
    \o Family4(HotNest, <<"for", "while">>, <<3, 5>>,
               <<Equal(Id("j"), Num(2)), Less(Num(8), Id("k"))>>, <<Break, Continue>>)
    \o Family4(HotArray, <<"for", "while">>, <<InArray>>, <<14>>, <<TRUE, FALSE>>)
    \o Family4(HotArray, <<"for", "while">>, <<PastArray>>, <<12>>, <<TRUE, FALSE>>)

\* Loops that call functions.
CallingLoops ==
    Family2(HotCall, <<"for", "both">>, <<"+", "-", "*">>)
    \o Family3(HotClosure, <<"for", "while">>, <<1, 3>>, <<<<>>, <<AddUp("k"), Eval(Id("c"))>>>>)
    \o Family1(HotOther, HotKinds)

\* The inner loop is over just when it is recorded.
EndsWhenHot == Family4(HotNest, <<"for", "while">>, <<2, 4, 8>>, <<Equal(Id("j"), Num(9))>>, <<Break>>)

----------------------------------------------------------------------------
\* What the method compiler rewrites, in a function that is called twice

Twice(body, args1, args2) ==
    Program(<<Function("f", <<Param("a"), Param("b")>>, Block(body))>>,
            <<Show(Call(Id("f"), args1)), Show(Call(Id("f"), args2))>>)

\* Values that are needed again, at once or behind something that may have changed them.
Repeated(op, between) ==
    LET e == Binary(Id("a"), op, Id("b"))
    IN Twice(<<Let("x", e), Let("c", Lambda(Step("++", "b"))), between,
               Show(Array(<<e, e, Binary(Id("b"), op, Id("a")), Id("x"), Id("x")>>)),
               Return(Array(<<Equal(e, e), Call(Id("c"), <<>>), Id("b"), Id("b")>>))>>,
             <<Num(2), Num(3)>>, <<Num(5), Num(5)>>)

\* Locals that hold constants or each other, across a branch.
Flowing(cond, captured) ==
    Twice(<<Let("x", Num(3)), Let("y", Id("x")), Let("v", Num(0)),
            Let("o", Index(Array(<<>>), Num(0))),
            If(cond, Block(<<Assign("x", Num(4)), Assign("v", Id("b"))>>), Nothing),
            Let("g", IF captured THEN Func(<<>>, Block(<<Assign("x", Num(6)), Return(Id("y"))>>))
                                 ELSE Lambda(Num(8))),
            Let("z", Id("y")), Assign("y", Id("x")), Assign("x", Id("z")),
            Show(Array(<<Call(Id("g"), <<>>), Id("x"), Id("y"), Id("v")>>)),
            Return(Ternary(Binary(Equal(Id("x"), Num(3)), "&&", cond), Id("x"), Null))>>,
          <<Num(1), Num(2)>>, <<Num(3), Num(2)>>)

IsSmall == Less(Id("a"), Id("b"))
Conditions ==
    <<IsSmall, Unary("!", IsSmall), Unary("!", Unary("!", IsSmall)), Unary("!", Unary("!", Id("a"))),
      Binary(IsSmall, "&&", Id("b")), Binary(Unary("!", IsSmall), "||", Equal(Id("b"), Num(0))),
      Unary("!", Binary(IsSmall, "||", Equal(Id("a"), Num(1)))),
      Binary(Id("o"), "??", IsSmall), Ternary(IsSmall, Bool(FALSE), Bool(TRUE)), Bool(TRUE), Num(0)>>

\* Texts that are put together, and used again or not.
Joining(e) ==
    LET ab == Binary(Id("a"), "@", Id("b"))
    IN Twice(<<Let("s", Binary(Binary(ab, "@", e), "@", Id("a"))),
               Let("x", ab), Let("y", Binary(Id("x"), "@", e)), Show(Id("x")),
               Return(Array(<<Id("s"), Id("x"), Id("y"), Binary(ab, "@", ab)>>))>>,
             <<Text("p"), Text("q")>>, <<Num(1), Text("")>>)

Methods ==
    Family2(Repeated, <<"+", "-", "*", "<">>,
            <<Nothing, Assign("a", Num(4)), Eval(Call(Id("c"), <<>>)), Eval(Step("++", "a"))>>)
    \o Family2(Flowing, Conditions, <<TRUE, FALSE>>)
    \o Family1(Joining, <<Text("r"), Id("b"), Num(7), Binary(Id("b"), "@", Text("t"))>>)

----------------------------------------------------------------------------

Samples ==
    ClosureLoops \o SharedInOrder("a") \o NestedLoops \o Conditionals \o Scopes \o Functions
    \o Data \o Simplifications \o HotLoops \o Methods

=============================================================================
