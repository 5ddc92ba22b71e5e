------------------------------ MODULE Simplify -------------------------------
(***************************************************************************)
(* What the parser does to the trees that it has built: operators on       *)
(* literals are computed, what stands behind a return is dropped, counting *)
(* loops become an assignment, and a variable that is only ever a literal  *)
(* is replaced by it.                                                      *)
(*                                                                         *)
(* Numbers stay in the range in which nothing overflows.                   *)
(***************************************************************************)
EXTENDS Syntax, SequencesExt, TLC

Literals == {"num", "str", "bool"}
IsLiteral(e) == e.k \in Literals
BothAre(kind, e) == e.left.k = kind /\ e.right.k = kind

----------------------------------------------------------------------------
\* Literals

LiteralText(e) ==
    CASE e.k = "str" -> e.s
      [] e.k = "num" -> ToString(e.n)
      [] e.k = "bool" -> IF e.b THEN "true" ELSE "false"

FoldUnary(e) ==
    CASE e.op = "-" /\ e.operand.k = "num" -> Num(-e.operand.n)
      [] e.op = "!" /\ e.operand.k = "bool" -> Bool(~e.operand.b)
      [] OTHER -> e

FoldNumbers(e) ==
    LET l == e.left.n
        r == e.right.n
    IN CASE e.op = "+" -> Num(l + r) [] e.op = "-" -> Num(l - r) [] e.op = "*" -> Num(l * r)
         [] e.op = "==" -> Bool(l = r) [] e.op = "!=" -> Bool(l # r)
         [] e.op = "<" -> Bool(l < r) [] e.op = "<=" -> Bool(l <= r)
         [] e.op = ">" -> Bool(l > r) [] e.op = ">=" -> Bool(l >= r)
         [] OTHER -> e

\* Literals of two kinds are left to the machine, unless they make a text.
FoldBinary(e) ==
    CASE BothAre("num", e) /\ e.op # "@" -> FoldNumbers(e)
      [] e.op = "@" /\ {e.left.k, e.right.k} \subseteq Literals /\ "str" \in {e.left.k, e.right.k} ->
           Text(LiteralText(e.left) \o LiteralText(e.right))
      [] e.op \in {"==", "!="} /\ (BothAre("bool", e) \/ BothAre("str", e)) ->
           Bool((e.left = e.right) = (e.op = "=="))
      [] e.op = "&&" /\ BothAre("bool", e) -> Bool(e.left.b /\ e.right.b)
      [] e.op = "||" /\ BothAre("bool", e) -> Bool(e.left.b \/ e.right.b)
      [] OTHER -> e

\* e with what f has for its operands; a match, a closure and what is spread are left alone.
WithOperands(e, f) ==
    LET Each(es) == [i \in DOMAIN es |-> f[es[i]]]
    IN CASE e.k \in {"unary", "step"} -> [e EXCEPT !.operand = f[@]]
         [] e.k = "binary" -> [e EXCEPT !.left = f[@], !.right = f[@]]
         [] e.k = "ternary" -> [e EXCEPT !.cond = f[@], !.yes = f[@], !.no = f[@]]
         [] e.k = "array" -> [e EXCEPT !.elements = Each(@)]
         [] e.k = "index" -> [e EXCEPT !.object = f[@], !.index = f[@]]
         [] e.k = "length" -> [e EXCEPT !.object = f[@]]
         [] e.k = "call" -> [e EXCEPT !.callee = f[@], !.args = Each(@)]
         [] OTHER -> e

\* The operands come first.
RECURSIVE Fold(_)
Fold(e) ==
    LET folded == WithOperands(e, [d \in ToSet(Children(e)) |-> Fold(d)])
    IN CASE e.k = "unary" -> FoldUnary(folded)
         [] e.k = "binary" -> FoldBinary(folded)
         [] e.k = "ternary" -> IF folded.cond.k # "bool" THEN folded
                               ELSE IF folded.cond.b THEN folded.yes ELSE folded.no
         [] OTHER -> folded

----------------------------------------------------------------------------
\* Counting loops

\* for (x = start; x < end; x++) with literals.
Steps(post, x) ==
    \/ post.k = "eval" /\ post.expr = Step("post++", x)
    \/ post.k = "assign" /\ post.target = x /\ post.value = Binary(Id(x), "+", Num(1))
    \/ post.k = "assign" /\ post.target = x /\ post.value = Binary(Id(x), "-", Num(-1))

LoopVariable(s) == IF s.init.k = "let" THEN s.init.name ELSE s.init.target
LoopStart(s) == IF s.init.k = "let" THEN s.init.init ELSE s.init.value

Counts(s) ==
    /\ s.k = "for"
    /\ s.init.k \in {"let", "assign"} /\ LoopStart(s).k = "num"
    /\ s.cond.k = "binary" /\ s.cond.op \in {"<", "<="}
    /\ s.cond.left = Id(LoopVariable(s)) /\ s.cond.right.k = "num"
    /\ Steps(s.post, LoopVariable(s))

\* The value of the variable when the loop is over, and the number of iterations.
LoopEnd(s) == s.cond.right.n + (IF s.cond.op = "<=" THEN 1 ELSE 0)
Iterated(s) == IF LoopEnd(s) > LoopStart(s).n THEN LoopEnd(s) - LoopStart(s).n ELSE 0

\* A body that adds a literal to a variable, and how much.
AddsLiteral(s) ==
    \/ /\ s.k = "assign" /\ s.value.k = "binary" /\ s.value.op \in {"+", "-"}
       /\ s.value.left = Id(s.target) /\ s.value.right.k = "num"
    \/ s.k = "eval" /\ s.expr.k = "step" /\ s.expr.op \in {"post++", "post--"}
AddedTo(s) == IF s.k = "assign" THEN s.target ELSE s.expr.operand.name
Added(s) ==
    IF s.k = "assign" THEN (IF s.value.op = "+" THEN s.value.right.n ELSE -s.value.right.n)
    ELSE IF s.expr.op = "post++" THEN 1 ELSE -1

\* The statement before the loop gives the variable a number.
IsNumberThere(before, x) ==
    \/ before.k = "let" /\ before.name = x /\ before.init.k = "num"
    \/ before.k = "assign" /\ before.target = x /\ before.value.k = "num"

CollapsesTo(s, before) ==
    LET ss == s.body.stmts
    IN CASE Counts(s) /\ ss = <<>> -> Assign(LoopVariable(s), Num(LoopEnd(s)))
         [] /\ Counts(s) /\ Len(ss) = 1 /\ AddsLiteral(ss[1])
            /\ AddedTo(ss[1]) # LoopVariable(s) /\ IsNumberThere(before, AddedTo(ss[1])) ->
              Assign(AddedTo(ss[1]), Binary(Id(AddedTo(ss[1])), "+", Num(Iterated(s) * Added(ss[1]))))
         [] OTHER -> s

LoopsCollapsed(ss) ==
    LET Next(done, s) ==
            Append(done, IF s.k = "for" THEN CollapsesTo(s, IF done = <<>> THEN Nothing ELSE Last(done))
                         ELSE s)
    IN FoldLeft(Next, <<>>, ss)

----------------------------------------------------------------------------
\* Variables that are literals

\* The variables that are assigned, stepped or declared anew below n: in closures, but not
\* in the arms of a match or in what is spread.
RECURSIVE Changed(_)
ChangedIn(ns) == UNION {Changed(ns[i]) : i \in DOMAIN ns}
DeclaredIn(ss) == {ss[i].name : i \in {j \in DOMAIN ss : ss[j].k = "let"}}

\* Mutant: what a closure changes is not seen.
ChangedHere(n) == IF n.k = "func" THEN {} ELSE
    IF n.k = "assign" THEN {n.target} \cup Changed(n.value)
    ELSE IF n.k = "step" THEN {n.operand.name}
    ELSE IF n.k = "block" THEN DeclaredIn(n.stmts) \cup ChangedIn(n.stmts)
    ELSE ChangedIn(Children(n))

Changed(n) ==
    CASE n.k = "assign" -> {n.target} \cup Changed(n.value)
      [] n.k = "step" -> {n.operand.name}
      [] n.k = "block" -> DeclaredIn(n.stmts) \cup ChangedIn(n.stmts)
      [] n.k = "for" ->
           (IF n.init.k = "let" THEN {n.init.name} ELSE Changed(n.init))
           \cup ChangedIn(<<n.cond, n.post, n.body>>)
      [] n.k \in {"forin", "forpairs"} -> {n.var} \cup ChangedIn(<<n.iterable, n.body>>)
      [] n.k = "switch" ->
           Changed(n.value)
           \cup UNION {Changed(n.cases[i].match) \cup ChangedIn(n.cases[i].body.stmts) : i \in DOMAIN n.cases}
           \cup (IF n.default = Nothing THEN {} ELSE ChangedIn(n.default.stmts))
      [] n.k = "func" -> ChangedIn(n.body.stmts)
      [] n.k \in {"match", "spread"} -> {}
      [] OTHER -> ChangedIn(Children(n))

\* The literal of each variable of the block that stays one; the last, if it is declared twice.
LiteralLets(ss) == {i \in DOMAIN ss : ss[i].k = "let" /\ IsLiteral(ss[i].init)}
Constants(ss) ==
    LET names == {ss[i].name : i \in LiteralLets(ss)} \ ChangedIn(ss)
        Place(x) == Max({i \in LiteralLets(ss) : ss[i].name = x})
    IN [x \in names |-> ss[Place(x)].init]

Without(c, names) == [x \in DOMAIN c \ names |-> c[x]]

\* The name of what is called stays, for the messages of the machine.
RECURSIVE SubstFold(_, _)
SubstFold(e, c) ==
    LET Under(d) == SubstFold(d, c)
    IN CASE e.k = "id" -> IF e.name \in DOMAIN c THEN c[e.name] ELSE e
         [] e.k = "call" /\ e.callee.k = "id" ->
              [e EXCEPT !.args = [i \in DOMAIN @ |-> Under(@[i])]]
         [] OTHER -> Fold(WithOperands(e, [d \in ToSet(Children(e)) |-> Under(d)]))

RECURSIVE SubstStmt(_, _)

\* A declaration hides the variable of the same name from then on.
SubstBlock(b, c) ==
    [b EXCEPT !.stmts = [i \in DOMAIN @ |-> SubstStmt(@[i], Without(c, DeclaredIn(SubSeq(@, 1, i - 1))))]]

SubstStmt(s, c) ==
    LET E(e) == SubstFold(e, c)
        S(t) == SubstStmt(t, c)
    IN CASE s.k = "eval" -> [s EXCEPT !.expr = E(@)]
         [] s.k = "let" -> IF s.name \in DOMAIN c THEN s ELSE [s EXCEPT !.init = E(@)]
         [] s.k \in {"assign", "return"} -> [s EXCEPT !.value = E(@)]
         [] s.k = "setindex" -> [s EXCEPT !.object = E(@), !.index = E(@), !.value = E(@)]
         [] s.k = "block" -> SubstBlock(s, c)
         [] s.k = "if" -> [s EXCEPT !.cond = E(@), !.yes = S(@), !.no = S(@)]
         [] s.k = "while" -> [s EXCEPT !.cond = E(@), !.body = S(@)]
         [] s.k = "for" -> [s EXCEPT !.init = S(@), !.cond = E(@), !.post = S(@), !.body = S(@)]
         [] s.k \in {"forin", "forpairs"} -> [s EXCEPT !.iterable = E(@), !.body = S(@)]
         [] s.k = "switch" ->
              [s EXCEPT !.value = E(@), !.default = S(@),
                        !.cases = [i \in DOMAIN @ |-> Case(E(@[i].match), SubstBlock(@[i].body, c))]]
         [] OTHER -> s

ConstsPropagated(ss) ==
    LET c == Constants(ss)
    IN IF DOMAIN c = {} THEN ss ELSE LoopsCollapsed([i \in DOMAIN ss |-> SubstStmt(ss[i], c)])

----------------------------------------------------------------------------
\* Blocks

\* Nothing is behind the first return.
DeadCodePruned(ss) ==
    LET returns == {i \in DOMAIN ss : ss[i].k = "return"}
    IN IF returns = {} THEN ss ELSE SubSeq(ss, 1, Min(returns))

Simplified(ss) == ConstsPropagated(LoopsCollapsed(DeadCodePruned(ss)))

=============================================================================
