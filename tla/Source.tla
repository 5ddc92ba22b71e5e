------------------------------- MODULE Source --------------------------------
(***************************************************************************)
(* How a program is written: the tokens of a syntax tree.  Parentheses     *)
(* stand only where the table of precedences in docs/04-operators.md needs *)
(* them, with one exception: a ternary in the last part of another is put  *)
(* in parentheses, since the parser does not read it the way that page     *)
(* says.  Two statements share a line, with a semicolon between them, and  *)
(* the next two follow on a new line, as docs/02-syntax-basics.md allows.  *)
(***************************************************************************)
EXTENDS Syntax, SequencesExt

Mark(kind) == <<[kind |-> kind, text |-> "", first |-> FALSE]>>
Word(x) == <<[kind |-> "ident", text |-> x, first |-> FALSE]>>
Marked(kind, text) == <<[kind |-> kind, text |-> text, first |-> FALSE]>>
OnNewLine(tokens) == [tokens EXCEPT ![1].first = TRUE]

\* Sequences of tokens with commas between them.
Commas(parts) ==
    FlattenSeq([i \in DOMAIN parts |-> IF i = 1 THEN parts[i] ELSE Mark(",") \o parts[i]])

\* The weaker the operator, the lower.
BinaryLevel == [op \in {"??", "||", "&&", "==", "!=", "<", ">", "<=", ">=", "+", "-", "@", "*"} |->
    CASE op = "??" -> 2 [] op = "||" -> 3 [] op = "&&" -> 4 [] op \in {"==", "!="} -> 5
      [] op \in {"<", ">", "<=", ">="} -> 6 [] op \in {"+", "-", "@"} -> 7 [] op = "*" -> 8]
UnaryLevel == 9
PostfixLevel == 10

\* A function that only returns a value is written () => e.
IsArrow(e) == Len(e.body.stmts) = 1 /\ e.body.stmts[1].k = "return"

Level(e) ==
    CASE e.k = "ternary" -> 1
      [] e.k = "func" -> IF IsArrow(e) THEN 0 ELSE PostfixLevel
      [] e.k = "binary" -> BinaryLevel[e.op]
      [] e.k = "unary" -> UnaryLevel
      [] e.k = "step" -> IF e.op \in {"++", "--"} THEN UnaryLevel ELSE PostfixLevel
      [] e.k = "num" -> IF e.n < 0 THEN UnaryLevel ELSE PostfixLevel
      [] OTHER -> PostfixLevel

RECURSIVE Expr(_), Stmt(_)

\* Where an operand of this level or a stronger one may stand.
AtLevel(e, level) == IF Level(e) < level THEN Mark("(") \o Expr(e) \o Mark(")") ELSE Expr(e)

Exprs(es) == Commas([i \in DOMAIN es |-> Expr(es[i])])

Parameter(p) ==
    (IF p.rest THEN Mark("...") ELSE <<>>) \o Word(p.name)
    \o (IF p.default = <<>> THEN <<>> ELSE Mark("=") \o Expr(p.default[1]))
Parameters(ps) == Mark("(") \o Commas([i \in DOMAIN ps |-> Parameter(ps[i])]) \o Mark(")")

ArmTokens(arm) ==
    (IF arm.wild THEN Word("_") ELSE Expr(arm.literal)) \o Mark("=>") \o Expr(arm.body)

Expr(e) ==
    CASE e.k = "num" ->
           IF e.n < 0 THEN Mark("-") \o Marked("number", -e.n) ELSE Marked("number", e.n)
      [] e.k = "str" -> Marked("string", e.s)
      [] e.k = "bool" -> Word(IF e.b THEN "true" ELSE "false")
      [] e.k = "null" -> Word("null")
      [] e.k = "id" -> Word(e.name)
      [] e.k = "unary" -> Mark(e.op) \o AtLevel(e.operand, UnaryLevel)
      [] e.k = "step" ->
           CASE e.op = "post++" -> Word(e.operand.name) \o Mark("++")
             [] e.op = "post--" -> Word(e.operand.name) \o Mark("--")
             [] OTHER -> Mark(e.op) \o Word(e.operand.name)
      [] e.k = "binary" ->
           AtLevel(e.left, Level(e)) \o Mark(e.op) \o AtLevel(e.right, Level(e) + 1)
      [] e.k = "ternary" ->
           AtLevel(e.cond, 2) \o Mark("?") \o Expr(e.yes) \o Mark(":") \o AtLevel(e.no, 2)
      [] e.k = "array" -> Mark("[") \o Exprs(e.elements) \o Mark("]")
      [] e.k = "spread" -> Mark("...") \o Expr(e.operand)
      [] e.k = "index" ->
           AtLevel(e.object, PostfixLevel) \o (IF e.optional THEN Mark("?.") ELSE <<>>)
           \o Mark("[") \o Expr(e.index) \o Mark("]")
      [] e.k = "length" -> AtLevel(e.object, PostfixLevel) \o Mark(".") \o Word("length")
      [] e.k = "call" ->
           AtLevel(e.callee, PostfixLevel) \o (IF e.optional THEN Mark("?.") ELSE <<>>)
           \o Mark("(") \o Exprs(e.args) \o Mark(")")
      [] e.k = "func" ->
           IF IsArrow(e) THEN Parameters(e.params) \o Mark("=>") \o Expr(e.body.stmts[1].value)
           ELSE Word("func") \o Parameters(e.params) \o Stmt(e.body)
      [] e.k = "match" ->
           Word("match") \o Expr(e.scrutinee) \o Mark("{")
           \o Commas([i \in DOMAIN e.arms |-> ArmTokens(e.arms[i])]) \o Mark("}")

\* A statement that is not there is a semicolon.
Statements(ss) ==
    FlattenSeq([i \in DOMAIN ss |->
        IF i % 2 = 1 THEN OnNewLine(Stmt(ss[i])) \o Mark(";") ELSE Stmt(ss[i])])

\* Adding to a variable is written x += e.
IsCompound(s) ==
    s.value.k = "binary" /\ s.value.op \in {"+", "-", "*"} /\ s.value.left = Id(s.target)

\* The beginning and the end of a round are not.
Clause(s) ==
    CASE s.k = "assign" -> Word(s.target) \o Mark("=") \o Expr(s.value)
      [] s.k = "nothing" -> <<>>
      [] OTHER -> Stmt(s)

InParentheses(tokens) == Mark("(") \o tokens \o Mark(")")

Stmt(s) ==
    CASE s.k = "nothing" -> Mark(";")
      [] s.k = "eval" -> Expr(s.expr)
      [] s.k = "let" ->
           Word(IF s.const THEN "const" ELSE "let") \o Word(s.name) \o Mark("=") \o Expr(s.init)
      [] s.k = "assign" ->
           IF IsCompound(s) THEN Word(s.target) \o Mark(s.value.op \o "=") \o Expr(s.value.right)
           ELSE Clause(s)
      [] s.k = "setindex" ->
           Expr(Index(s.object, s.index)) \o Mark("=") \o Expr(s.value)
      [] s.k = "block" -> Mark("{") \o Statements(s.stmts) \o OnNewLine(Mark("}"))
      [] s.k = "if" ->
           Word("if") \o InParentheses(Expr(s.cond)) \o Stmt(s.yes)
           \o (IF s.no = Nothing THEN <<>> ELSE Word("else") \o Stmt(s.no))
      [] s.k = "while" -> Word("while") \o InParentheses(Expr(s.cond)) \o Stmt(s.body)
      [] s.k = "for" ->
           Word("for") \o InParentheses(Clause(s.init) \o Mark(";") \o Expr(s.cond) \o Mark(";")
                                        \o Clause(s.post)) \o Stmt(s.body)
      [] s.k = "forin" ->
           Word("for") \o InParentheses(Word("let") \o Word(s.var) \o Word("of") \o Expr(s.iterable))
           \o Stmt(s.body)
      [] s.k = "forpairs" ->
           Word("for") \o InParentheses(Word(s.var) \o Mark(",") \o Word(s.valVar) \o Word("in")
                                        \o Expr(s.iterable)) \o Stmt(s.body)
      [] s.k \in {"break", "continue"} -> Word(s.k)
      [] s.k = "return" -> Word("return") \o Expr(s.value)
      [] s.k = "switch" ->
           Word("switch") \o InParentheses(Expr(s.value)) \o Mark("{")
           \o FlattenSeq([i \in DOMAIN s.cases |->
                Word("case") \o Expr(s.cases[i].match) \o Mark(":") \o Statements(s.cases[i].body.stmts)])
           \o (IF s.default = Nothing THEN <<>>
               ELSE Word("default") \o Mark(":") \o Statements(s.default.stmts))
           \o Mark("}")

\* The functions come first.
Tokens(tree) ==
    FlattenSeq([i \in DOMAIN tree.functions |->
        LET f == tree.functions[i]
        IN OnNewLine(Word("func") \o Word(f.name) \o Parameters(f.params) \o Stmt(f.body))])
    \o Statements(tree.main.stmts)

=============================================================================
