------------------------------- MODULE Syntax --------------------------------
(***************************************************************************)
(* The syntax trees of nari programs, as the parser hands them to the      *)
(* compiler: the expressions and statements of the core of the language.   *)
(* A node is a record whose field k says what it is.  Names and texts are  *)
(* strings.                                                                *)
(***************************************************************************)
EXTENDS Integers, Sequences

\* The names that a function may give to its variables, in their order as strings.
Names == <<"a", "b", "c", "d", "e", "f", "fs", "g", "grow", "h", "i", "j", "k", "m", "n", "o",
           "p", "q", "r", "s", "t", "v", "x", "y", "z">>

----------------------------------------------------------------------------
\* Expressions

Num(n) == [k |-> "num", n |-> n]
Text(s) == [k |-> "str", s |-> s]
Bool(b) == [k |-> "bool", b |-> b]
Null == [k |-> "null"]
Id(x) == [k |-> "id", name |-> x]
Unary(op, e) == [k |-> "unary", op |-> op, operand |-> e]
\* ++x, --x, x++ and x-- of a variable.
Step(op, x) == [k |-> "step", op |-> op, operand |-> Id(x)]
Binary(l, op, r) == [k |-> "binary", op |-> op, left |-> l, right |-> r]
Ternary(c, t, f) == [k |-> "ternary", cond |-> c, yes |-> t, no |-> f]
Array(es) == [k |-> "array", elements |-> es]
Spread(e) == [k |-> "spread", operand |-> e]
Index(o, i) == [k |-> "index", object |-> o, index |-> i, optional |-> FALSE]
OptionalIndex(o, i) == [k |-> "index", object |-> o, index |-> i, optional |-> TRUE]
Length(o) == [k |-> "length", object |-> o]
Call(f, args) == [k |-> "call", callee |-> f, args |-> args, optional |-> FALSE]
OptionalCall(f, args) == [k |-> "call", callee |-> f, args |-> args, optional |-> TRUE]
Func(params, body) == [k |-> "func", params |-> params, body |-> body]
Match(e, arms) == [k |-> "match", scrutinee |-> e, arms |-> arms]
\* An arm of a match: a literal, or the wildcard, and what it yields.
Arm(literal, body) == [wild |-> FALSE, literal |-> literal, body |-> body]
Otherwise(body) == [wild |-> TRUE, literal |-> Null, body |-> body]

\* A parameter; with no default value it is null when no argument is passed.
Param(x) == [name |-> x, default |-> <<>>, rest |-> FALSE]
DefaultParam(x, e) == [name |-> x, default |-> <<e>>, rest |-> FALSE]
RestParam(x) == [name |-> x, default |-> <<>>, rest |-> TRUE]

----------------------------------------------------------------------------
\* Statements

Eval(e) == [k |-> "eval", expr |-> e]
Let(x, e) == [k |-> "let", name |-> x, init |-> e, const |-> FALSE]
Const(x, e) == [k |-> "let", name |-> x, init |-> e, const |-> TRUE]
Assign(x, e) == [k |-> "assign", target |-> x, value |-> e]
IndexAssign(o, i, e) == [k |-> "setindex", object |-> o, index |-> i, value |-> e]
Block(ss) == [k |-> "block", stmts |-> ss]
\* A branch that is not there.
Nothing == [k |-> "nothing"]
If(c, yes, no) == [k |-> "if", cond |-> c, yes |-> yes, no |-> no]
While(c, body) == [k |-> "while", cond |-> c, body |-> body]
For(init, c, post, body) ==
    [k |-> "for", init |-> init, cond |-> c, post |-> post, body |-> body]
ForIn(x, e, body) == [k |-> "forin", var |-> x, iterable |-> e, body |-> body]
ForPairs(x, y, e, body) ==
    [k |-> "forpairs", var |-> x, valVar |-> y, iterable |-> e, body |-> body]
Break == [k |-> "break"]
Continue == [k |-> "continue"]
Return(e) == [k |-> "return", value |-> e]
Switch(e, cases, default) ==
    [k |-> "switch", value |-> e, cases |-> cases, default |-> default]
Case(e, body) == [match |-> e, body |-> body]

\* A program: its named functions and its top-level statements.
Function(x, params, body) == [name |-> x, params |-> params, body |-> body]
Program(functions, main) == [functions |-> functions, main |-> Block(main)]

----------------------------------------------------------------------------
\* Walking a tree

ParamNames(params) == {params[i].name : i \in DOMAIN params}

\* The default values of the parameters that have one.
Defaults(params) ==
    LET WithDefault(p) == p.default # <<>>
        chosen == SelectSeq(params, WithDefault)
    IN [i \in DOMAIN chosen |-> chosen[i].default[1]]

\* The nodes right below a node, in the order of the source.
Children(n) ==
    CASE n.k \in {"num", "str", "bool", "null", "id", "break", "continue", "nothing"} -> <<>>
      [] n.k \in {"unary", "step", "spread"} -> <<n.operand>>
      [] n.k = "binary" -> <<n.left, n.right>>
      [] n.k \in {"ternary", "if"} -> <<n.cond, n.yes, n.no>>
      [] n.k = "array" -> n.elements
      [] n.k = "index" -> <<n.object, n.index>>
      [] n.k = "length" -> <<n.object>>
      [] n.k = "call" -> <<n.callee>> \o n.args
      [] n.k = "func" -> Defaults(n.params) \o <<n.body>>
      [] n.k = "match" ->
           <<n.scrutinee>> \o [i \in DOMAIN n.arms |-> n.arms[i].literal]
                           \o [i \in DOMAIN n.arms |-> n.arms[i].body]
      [] n.k = "eval" -> <<n.expr>>
      [] n.k = "let" -> <<n.init>>
      [] n.k \in {"assign", "return"} -> <<n.value>>
      [] n.k = "setindex" -> <<n.object, n.index, n.value>>
      [] n.k = "block" -> n.stmts
      [] n.k = "while" -> <<n.cond, n.body>>
      [] n.k = "for" -> <<n.init, n.cond, n.post, n.body>>
      [] n.k \in {"forin", "forpairs"} -> <<n.iterable, n.body>>
      [] n.k = "switch" ->
           <<n.value>> \o [i \in DOMAIN n.cases |-> n.cases[i].match]
                       \o [i \in DOMAIN n.cases |-> n.cases[i].body] \o <<n.default>>

=============================================================================
