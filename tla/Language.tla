------------------------------ MODULE Language -------------------------------
(***************************************************************************)
(* What a program means, without a compiler: an evaluator of the syntax    *)
(* trees.  Scoping is lexical, as docs/02-syntax-basics.md says: a name    *)
(* is the innermost binding written before it, a binding is a location of  *)
(* the memory, and a function keeps the bindings it was written under.     *)
(* Every iteration of a loop has its own bindings.  Strings do not change. *)
(*                                                                         *)
(* The state m is a record; a statement or an expression that an error, a  *)
(* return, a break or a continue skips leaves it as it is.  A statement    *)
(* gives the bindings in force behind it and the state, an expression its  *)
(* value and the state.                                                    *)
(***************************************************************************)
EXTENDS Syntax, SequencesExt, TLC

None == <<"none">>
IntV(n) == <<"int", n>>
BoolV(b) == <<"bool", b>>
TextV(s) == <<"str", s>>

NoBindings == <<>>
Binding(loc, const) == [loc |-> loc, const |-> const]

Start(functions) ==
    [memory |-> <<>>,             \* the value of each location
     arrays |-> <<>>,
     globals |-> NoBindings,      \* the top-level bindings so far
     functions |-> functions,
     out |-> <<>>,
     signal |-> "go",             \* or "break", "continue", "return", "error"
     result |-> None]             \* of the return

Going(m) == m.signal = "go"
Signal(m, s) == [m EXCEPT !.signal = s]
Error(m) == Signal(m, "error")

\* A break or a continue is over when it has reached its loop, a return its call.
Landed(m, s) == IF m.signal = s THEN Signal(m, "go") ELSE m

Bind(x, v, const, env, m) ==
    <<(x :> Binding(Len(m.memory) + 1, const)) @@ env, [m EXCEPT !.memory = Append(@, v)]>>

\* A variable is searched in the function, then among those of the top level.
Bound(x, env, m) == x \in DOMAIN env \cup DOMAIN m.globals
BindingOf(x, env, m) == IF x \in DOMAIN env THEN env[x] ELSE m.globals[x]

IsFunctionName(x, m) == \E i \in DOMAIN m.functions : m.functions[i].name = x
FunctionNamed(x, m) ==
    LET f == m.functions[CHOOSE i \in DOMAIN m.functions : m.functions[i].name = x]
    IN <<"fn", f.params, f.body, NoBindings>>

Value(x, env, m) ==
    CASE Bound(x, env, m) -> m.memory[BindingOf(x, env, m).loc]
      [] ~Bound(x, env, m) /\ IsFunctionName(x, m) -> FunctionNamed(x, m)
      [] OTHER -> IF x = "print" THEN <<"print">> ELSE None

SetVariable(x, v, env, m) == [m EXCEPT !.memory[BindingOf(x, env, m).loc] = v]

NewArray(vs, m) == <<<<"arr", Len(m.arrays) + 1>>, [m EXCEPT !.arrays = Append(@, vs)]>>
Elements(v, m) == IF v[1] = "arr" THEN m.arrays[v[2]] ELSE <<>>

IsTruthy(v, m) ==
    CASE v[1] = "none" -> FALSE
      [] v[1] = "bool" -> v[2]
      [] v[1] = "int" -> v[2] # 0
      [] v[1] = "str" -> v[2] # ""
      [] v[1] = "arr" -> m.arrays[v[2]] # <<>>
      [] OTHER -> TRUE

RECURSIVE Shown(_, _)
Shown(v, m) ==
    CASE v[1] = "arr" -> <<"array", [i \in DOMAIN m.arrays[v[2]] |-> Shown(m.arrays[v[2]][i], m)]>>
      [] v[1] = "fn" -> <<"fn">>
      [] OTHER -> v

AsText(v) ==
    CASE v[1] = "str" -> v[2] [] v[1] = "int" -> ToString(v[2])
      [] v[1] = "bool" -> IF v[2] THEN "true" ELSE "false"

Arithmetic(op, a, b) ==
    CASE op = "+" -> IntV(a[2] + b[2]) [] op = "-" -> IntV(a[2] - b[2])
      [] op = "*" -> IntV(a[2] * b[2]) [] op = "@" -> TextV(AsText(a) \o AsText(b))
      [] op = "==" -> BoolV(a = b) [] op = "!=" -> BoolV(a # b)
      [] op = "<" -> BoolV(a[2] < b[2]) [] op = "<=" -> BoolV(a[2] <= b[2])
      [] op = ">" -> BoolV(a[2] > b[2]) [] op = ">=" -> BoolV(a[2] >= b[2])

----------------------------------------------------------------------------
\* Expressions

RECURSIVE ValueOf(_, _, _), Exec(_, _, _)

\* Expressions from left to right; a spread one stands for its elements.
ValuesOf(es, env, m) ==
    LET Next(acc, e) ==
            IF e.k = "spread"
            THEN LET r == ValueOf(e.operand, env, acc[2])
                 IN <<acc[1] \o Elements(r[1], r[2]), r[2]>>
            ELSE LET r == ValueOf(e, env, acc[2]) IN <<Append(acc[1], r[1]), r[2]>>
    IN FoldLeft(Next, <<<<>>, m>>, es)

\* && and || give a boolean.
Logical(e, env, m) ==
    LET l == ValueOf(e.left, env, m)
        r == ValueOf(e.right, env, l[2])
        decided == IsTruthy(l[1], l[2]) = (e.op = "||")
    IN IF decided THEN <<BoolV(e.op = "||"), l[2]>> ELSE <<BoolV(IsTruthy(r[1], r[2])), r[2]>>

BinaryValue(e, env, m) ==
    LET l == ValueOf(e.left, env, m)
        r == ValueOf(e.right, env, l[2])
    IN CASE e.op \in {"&&", "||"} -> Logical(e, env, m)
         [] e.op = "??" -> IF l[1] = None THEN r ELSE l
         [] OTHER -> <<IF Going(r[2]) THEN Arithmetic(e.op, l[1], r[1]) ELSE None, r[2]>>

StepValue(e, env, m) ==
    LET x == e.operand.name
        old == Value(x, env, m)
        new == IF e.op \in {"++", "post++"} THEN IntV(old[2] + 1) ELSE IntV(old[2] - 1)
    IN IF Bound(x, env, m) /\ BindingOf(x, env, m).const THEN <<None, Error(m)>>
       ELSE <<IF e.op \in {"post++", "post--"} THEN old ELSE new, SetVariable(x, new, env, m)>>

ElementAt(v, i, m) ==
    LET Has(n) == i[1] = "int" /\ i[2] >= 0 /\ i[2] < n
    IN CASE v[1] = "str" /\ Has(Len(v[2])) -> TextV(SubSeq(v[2], i[2] + 1, i[2] + 1))
         [] v[1] = "arr" /\ Has(Len(Elements(v, m))) -> Elements(v, m)[i[2] + 1]
         [] OTHER -> None

\* Null, numbers and booleans have no properties.
LengthOf(v, m) ==
    CASE v[1] = "arr" -> <<IntV(Len(Elements(v, m))), m>>
      [] v[1] = "str" -> <<IntV(Len(v[2])), m>>
      [] v[1] \in {"fn", "print"} -> <<None, m>>
      [] OTHER -> <<None, Error(m)>>

IndexValue(e, env, m) ==
    LET o == ValueOf(e.object, env, m)
        i == ValueOf(e.index, env, o[2])
    IN IF e.optional /\ o[1] = None THEN o ELSE <<ElementAt(o[1], i[1], i[2]), i[2]>>

\* A call: the parameters are new bindings, then the default values, then the body.
Apply(f, args, m) ==
    LET params == f[2]
        Argument(i, st) ==
            CASE params[i].rest -> NewArray(SubSeq(args, i, Len(args)), st)
              [] ~params[i].rest /\ i <= Len(args) -> <<args[i], st>>
              [] OTHER -> <<None, st>>
        BindParam(acc, i) ==
            LET a == Argument(i, acc[2]) IN Bind(params[i].name, a[1], FALSE, acc[1], a[2])
        bound == FoldLeft(BindParam, <<f[4], m>>, [i \in DOMAIN params |-> i])
        env == bound[1]
        Default(st, p) ==
            IF p.default = <<>> \/ Value(p.name, env, st) # None THEN st
            ELSE LET d == ValueOf(p.default[1], env, st)
                 IN SetVariable(p.name, d[1], env, d[2])
        body == Exec(f[3], env, FoldLeft(Default, bound[2], params))[2]
    IN <<IF body.signal = "return" THEN body.result ELSE None, Landed(body, "return")>>

CallValue(e, env, m) ==
    LET f == ValueOf(e.callee, env, m)
        args == ValuesOf(e.args, env, f[2])
    IN CASE e.optional /\ f[1] = None -> f
         [] ~(e.optional /\ f[1] = None) /\ Going(args[2]) ->
              CASE f[1][1] = "fn" -> Apply(f[1], args[1], args[2])
                [] f[1][1] = "print" ->
                     <<None, [args[2] EXCEPT !.out = Append(@, Shown(args[1][1], args[2]))]>>
                [] OTHER -> <<None, Error(args[2])>>
         [] OTHER -> <<None, args[2]>>

\* The first arm whose literal equals the scrutinee, or the wildcard.
MatchValue(e, env, m) ==
    LET s == ValueOf(e.scrutinee, env, m)
        Try(acc, arm) ==
            LET l == ValueOf(arm.literal, env, acc.m)
            IN IF acc.done THEN acc
               ELSE IF arm.wild \/ l[1] = s[1]
                    THEN LET r == ValueOf(arm.body, env, IF arm.wild THEN acc.m ELSE l[2])
                         IN [done |-> TRUE, v |-> r[1], m |-> r[2]]
                    ELSE [acc EXCEPT !.m = l[2]]
        tried == FoldLeft(Try, [done |-> FALSE, v |-> None, m |-> s[2]], e.arms)
    IN <<tried.v, tried.m>>

Evaluate(e, env, m) ==
    CASE e.k = "num" -> <<IntV(e.n), m>>
      [] e.k = "str" -> <<TextV(e.s), m>>
      [] e.k = "bool" -> <<BoolV(e.b), m>>
      [] e.k = "null" -> <<None, m>>
      [] e.k = "id" -> <<Value(e.name, env, m), m>>
      [] e.k = "unary" ->
           LET r == ValueOf(e.operand, env, m)
           IN <<IF e.op = "-" THEN IntV(-r[1][2]) ELSE BoolV(~IsTruthy(r[1], r[2])), r[2]>>
      [] e.k = "step" -> StepValue(e, env, m)
      [] e.k = "binary" -> BinaryValue(e, env, m)
      [] e.k = "ternary" ->
           LET c == ValueOf(e.cond, env, m)
           IN ValueOf(IF IsTruthy(c[1], c[2]) THEN e.yes ELSE e.no, env, c[2])
      [] e.k = "array" -> LET vs == ValuesOf(e.elements, env, m) IN NewArray(vs[1], vs[2])
      [] e.k = "index" -> IndexValue(e, env, m)
      [] e.k = "length" ->
           LET o == ValueOf(e.object, env, m)
           IN IF Going(o[2]) THEN LengthOf(o[1], o[2]) ELSE o
      [] e.k = "call" -> CallValue(e, env, m)
      [] e.k = "func" -> <<<<"fn", e.params, e.body, env>>, m>>
      [] e.k = "match" -> MatchValue(e, env, m)

ValueOf(e, env, m) == IF Going(m) THEN Evaluate(e, env, m) ELSE <<None, m>>

----------------------------------------------------------------------------
\* Statements

\* The variable is in scope in its own initial value.
Declare(s, env, m) ==
    LET b == Bind(s.name, None, s.const, env, m)
        r == ValueOf(s.init, b[1], b[2])
    IN <<b[1], SetVariable(s.name, r[1], b[1], r[2])>>

\* Assigning a constant is an error, before the value is computed.
AssignVariable(s, env, m) ==
    LET r == ValueOf(s.value, env, m)
    IN IF Bound(s.target, env, m) /\ BindingOf(s.target, env, m).const THEN Error(m)
       ELSE SetVariable(s.target, r[1], env, r[2])

AssignElement(s, env, m) ==
    LET vs == ValuesOf(<<s.object, s.index, s.value>>, env, m)
        id == vs[1][1][2]
        i == vs[1][2][2]
        old == vs[2].arrays[id]
        long == IF i < Len(old) THEN old ELSE old \o [j \in 1..(i + 1 - Len(old)) |-> None]
    IN IF Going(vs[2]) THEN [vs[2] EXCEPT !.arrays[id] = [long EXCEPT ![i + 1] = vs[1][3]]]
       ELSE vs[2]

RECURSIVE Repeat(_, _, _), RepeatFor(_, _, _), RepeatIn(_, _, _, _, _)

Repeat(s, env, m) ==
    LET c == ValueOf(s.cond, env, m)
        body == Landed(Exec(s.body, env, c[2])[2], "continue")
    IN IF ~(Going(c[2]) /\ IsTruthy(c[1], c[2])) THEN c[2]
       ELSE IF Going(body) THEN Repeat(s, env, body) ELSE Landed(body, "break")

\* An iteration hands the value of the loop variable on to the next one's variable.
RepeatFor(s, env, m) ==
    LET c == ValueOf(s.cond, env, m)
        body == Landed(Exec(s.body, env, c[2])[2], "continue")
        next == IF s.init.k = "let" THEN Bind(s.init.name, Value(s.init.name, env, body), FALSE, env, body)
                ELSE <<env, body>>
    IN IF ~(Going(c[2]) /\ IsTruthy(c[1], c[2])) THEN c[2]
       ELSE IF Going(body) THEN RepeatFor(s, next[1], Exec(s.post, next[1], next[2])[2])
            ELSE Landed(body, "break")

\* The elements are those the array has when their turn comes; the pairs are taken first.
RepeatIn(s, v, i, env, m) ==
    LET x == Bind(s.var, IF s.k = "forin" THEN Elements(v, m)[i] ELSE v[i][1], FALSE, env, m)
        both == IF s.k = "forin" THEN x ELSE Bind(s.valVar, v[i][2], FALSE, x[1], x[2])
        body == Landed(Exec(s.body, both[1], both[2])[2], "continue")
        more == i <= (IF s.k = "forin" THEN Len(Elements(v, m)) ELSE Len(v))
    IN IF ~(Going(m) /\ more) THEN m
       ELSE IF Going(body) THEN RepeatIn(s, v, i + 1, env, body) ELSE Landed(body, "break")

SwitchTo(s, env, m) ==
    LET v == ValueOf(s.value, env, m)
        Try(acc, case) ==
            LET c == ValueOf(case.match, env, acc.m)
            IN IF acc.done THEN acc
               ELSE [done |-> c[1] = v[1],
                     m |-> IF c[1] = v[1] THEN Exec(case.body, env, c[2])[2] ELSE c[2]]
        tried == FoldLeft(Try, [done |-> FALSE, m |-> v[2]], s.cases)
    IN IF tried.done THEN tried.m ELSE Exec(s.default, env, tried.m)[2]

Run(s, env, m) ==
    CASE s.k = "nothing" -> <<env, m>>
      [] s.k = "eval" -> <<env, ValueOf(s.expr, env, m)[2]>>
      [] s.k = "let" -> Declare(s, env, m)
      [] s.k = "assign" -> <<env, AssignVariable(s, env, m)>>
      [] s.k = "setindex" -> <<env, AssignElement(s, env, m)>>
      [] s.k = "block" ->
           <<env, FoldLeft(LAMBDA acc, t : Exec(t, acc[1], acc[2]), <<env, m>>, s.stmts)[2]>>
      [] s.k = "if" ->
           LET c == ValueOf(s.cond, env, m)
           IN <<env, Exec(IF IsTruthy(c[1], c[2]) THEN s.yes ELSE s.no, env, c[2])[2]>>
      [] s.k = "while" -> <<env, Repeat(s, env, m)>>
      [] s.k = "for" -> LET i == Exec(s.init, env, m) IN <<env, RepeatFor(s, i[1], i[2])>>
      [] s.k = "forin" ->
           LET v == ValueOf(s.iterable, env, m) IN <<env, RepeatIn(s, v[1], 1, env, v[2])>>
      [] s.k = "forpairs" ->
           LET v == ValueOf(s.iterable, env, m)
               pairs == [i \in DOMAIN Elements(v[1], v[2]) |->
                           <<IntV(i - 1), Elements(v[1], v[2])[i]>>]
           IN <<env, RepeatIn(s, pairs, 1, env, v[2])>>
      [] s.k \in {"break", "continue"} -> <<env, Signal(m, s.k)>>
      [] s.k = "return" ->
           LET r == ValueOf(s.value, env, m)
           IN <<env, IF Going(r[2]) THEN [Signal(r[2], "return") EXCEPT !.result = r[1]] ELSE r[2]>>
      [] s.k = "switch" -> <<env, SwitchTo(s, env, m)>>

Exec(s, env, m) == IF Going(m) THEN Run(s, env, m) ELSE <<env, m>>

----------------------------------------------------------------------------

\* What a program prints, and whether it ends well.
Meaning(p) ==
    LET TopLevel(acc, s) ==
            LET r == Exec(s, acc[1], acc[2])
            IN <<r[1], [r[2] EXCEPT !.globals = r[1]]>>
        m == FoldLeft(TopLevel, <<NoBindings, Start(p.functions)>>, p.main.stmts)[2]
    IN [out |-> m.out, status |-> IF m.signal = "error" THEN "error" ELSE "done"]

=============================================================================
