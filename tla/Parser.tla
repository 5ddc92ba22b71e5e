------------------------------- MODULE Parser --------------------------------
(***************************************************************************)
(* The parser: the tokens of a program become its syntax tree, by          *)
(* recursive descent, and every block is simplified when it is complete.   *)
(*                                                                         *)
(* A token is a record of its kind, its text and whether it is the first   *)
(* one of its line.  Identifiers and keywords are one kind, numbers and    *)
(* strings have kinds of their own, and every other token is its kind.     *)
(*                                                                         *)
(* An operator Parse... takes the state p of the parser in front of a      *)
(* construct, and gives its tree and the state behind it.  After an error  *)
(* the parser sees nothing but the end of the input.                       *)
(*                                                                         *)
(* Left out: types, classes, enums, imports and exports, objects, regular  *)
(* expressions and interpolated strings, spawn and await; a number is an   *)
(* integer, and expressions nest less deeply than the limit of 256.        *)
(***************************************************************************)
EXTENDS Simplify

EndOfInput == [kind |-> "eof", text |-> "", first |-> TRUE]

At(tokens) == [tokens |-> tokens, next |-> 1, ok |-> TRUE]
Refuse(p) == [p EXCEPT !.ok = FALSE]
Skip(p) == [p EXCEPT !.next = @ + 1]

\* The token k places behind the next one.
Peek(p, k) == IF p.ok /\ p.next + k <= Len(p.tokens) THEN p.tokens[p.next + k] ELSE EndOfInput
Kind(p) == Peek(p, 0).kind
IsWord(p, k, words) == Peek(p, k).kind = "ident" /\ Peek(p, k).text \in words

Expect(p, kind) == IF Kind(p) = kind THEN Skip(p) ELSE Refuse(p)
SkipIf(p, kind) == IF Kind(p) = kind THEN Skip(p) ELSE p

\* The place behind the bracket that closes the one opened before place i.
RECURSIVE Behind(_, _, _, _, _)
Behind(tokens, i, depth, open, close) ==
    IF depth = 0 \/ i > Len(tokens) THEN i
    ELSE Behind(tokens, i + 1,
                CASE tokens[i].kind = open -> depth + 1 [] tokens[i].kind = close -> depth - 1
                  [] OTHER -> depth,
                open, close)
KindAt(tokens, i) == IF i <= Len(tokens) THEN tokens[i].kind ELSE "eof"

\* ( ... ) =>
LooksLikeArrow(p) ==
    Kind(p) = "(" /\ KindAt(p.tokens, Behind(p.tokens, p.next + 1, 1, "(", ")")) = "=>"

\* func f ( ... ) {
LooksLikeFunction(p) ==
    /\ IsWord(p, 0, {"func"}) /\ Peek(p, 1).kind = "ident" /\ Peek(p, 2).kind = "("
    /\ KindAt(p.tokens, Behind(p.tokens, p.next + 3, 1, "(", ")")) = "{"

\* for ( [let] x in|of ...   or   for ( [let] x , y in|of ...
LooksLikeForEach(p) ==
    LET v == IF IsWord(p, 2, {"let"}) THEN 3 ELSE 2
        In(k) == IsWord(p, k, {"in", "of"})
    IN /\ IsWord(p, 0, {"for"}) /\ Peek(p, 1).kind = "(" /\ Peek(p, v).kind = "ident"
       /\ \/ In(v + 1)
          \/ Peek(p, v + 1).kind = "," /\ Peek(p, v + 2).kind = "ident" /\ In(v + 3)

\* x [ ... ] . y =
RECURSIVE AssignedAt(_, _)
AssignedAt(tokens, i) ==
    CASE KindAt(tokens, i) = "[" -> AssignedAt(tokens, Behind(tokens, i + 1, 1, "[", "]"))
      [] KindAt(tokens, i) = "." ->
           AssignedAt(tokens, IF KindAt(tokens, i + 1) = "ident" THEN i + 2 ELSE i + 1)
      [] OTHER -> KindAt(tokens, i) = "="

----------------------------------------------------------------------------
\* Expressions

Precedences == <<{"?"}, {"??"}, {"||"}, {"&&"}, {"|"}, {"^"}, {"&"}, {"==", "!=", "===", "!=="},
                 {"<", ">", "<=", ">="}, {"<<", ">>"}, {"+", "-", "@"}, {"*", "/", "%"}, {"**"}>>
\* 0 for a token that is no operator.
Precedence(kind) ==
    IF \E n \in DOMAIN Precedences : kind \in Precedences[n]
    THEN CHOOSE n \in DOMAIN Precedences : kind \in Precedences[n] ELSE 0

RECURSIVE ParseExpression(_), ParsePrecedence(_, _), ParseUnary(_), ParseBlock(_), ParseStmt(_)

\* The operators that follow lhs, from left to right.
RECURSIVE Climb(_, _, _)
\* Mutant: an operator is not taken before one that is as strong.
ClimbFromTheRight(lhs, min, p) ==
    LET op == Kind(p)
        yes == ParseExpression(Skip(p))
        rhs == ParsePrecedence(IF op = "?" THEN Expect(yes[2], ":") ELSE Skip(p), Precedence(op))
    IN IF Precedence(op) = 0 \/ Precedence(op) < min THEN <<lhs, p>>
       ELSE Climb(IF op = "?" THEN Ternary(lhs, yes[1], rhs[1]) ELSE Binary(lhs, op, rhs[1]), min, rhs[2])

Climb(lhs, min, p) ==
    LET op == Kind(p)
        prec == Precedence(op)
        yes == ParseExpression(Skip(p))
        rhs == ParsePrecedence(IF op = "?" THEN Expect(yes[2], ":") ELSE Skip(p), prec + 1)
    IN IF prec = 0 \/ prec < min THEN <<lhs, p>>
       ELSE Climb(IF op = "?" THEN Ternary(lhs, yes[1], rhs[1]) ELSE Binary(lhs, op, rhs[1]), min, rhs[2])

ParsePrecedence(p, min) == LET lhs == ParseUnary(p) IN Climb(lhs[1], min, lhs[2])

ParseExpression(p) == LET e == ParsePrecedence(p, 1) IN <<Fold(e[1]), e[2]>>

\* Items between commas up to the closing token, which may follow the last comma of an array.
RECURSIVE ParseItems(_, _, _)
ParseItems(p, close, items) ==
    LET spread == Kind(p) = "..."
        e == ParseExpression(IF spread THEN Skip(p) ELSE p)
        done == Append(items, IF spread THEN Spread(e[1]) ELSE e[1])
    IN IF Kind(p) = close /\ (items = <<>> \/ close = "]") THEN <<items, Skip(p)>>
       ELSE IF Kind(e[2]) = "," THEN ParseItems(Skip(e[2]), close, done)
            ELSE <<done, Expect(e[2], close)>>

\* Parameters up to the closing parenthesis; a rest parameter is the last.
RECURSIVE ParseParams(_, _)
ParseParams(p, params) ==
    LET rest == Kind(p) = "..."
        q == IF rest THEN Skip(p) ELSE p
        x == Peek(q, 0).text
        default == ParseExpression(Skip(Skip(q)))
        withDefault == Peek(q, 1).kind = "="
        behind == IF withDefault THEN default[2] ELSE Skip(q)
        param == IF rest THEN RestParam(x) ELSE IF withDefault THEN DefaultParam(x, default[1]) ELSE Param(x)
    IN CASE Kind(p) = ")" /\ params = <<>> -> <<params, Skip(p)>>
         [] Kind(q) # "ident" \/ (rest /\ withDefault) -> <<params, Refuse(p)>>
         [] OTHER -> IF Kind(behind) = "," /\ ~rest THEN ParseParams(Skip(behind), Append(params, param))
                     ELSE <<Append(params, param), Expect(behind, ")")>>

\* func ( params ) { ... }
ParseFunction(p) ==
    LET params == ParseParams(Expect(Skip(p), "("), <<>>)
        body == ParseBlock(params[2])
    IN <<Func(params[1], body[1]), body[2]>>

\* ( params ) => { ... }   or   ( params ) => e
ParseArrow(p) ==
    LET params == ParseParams(Skip(p), <<>>)
        q == Expect(params[2], "=>")
        block == ParseBlock(q)
        e == ParseExpression(q)
    IN IF Kind(q) = "{" THEN <<Func(params[1], block[1]), block[2]>>
       ELSE <<Func(params[1], Block(<<Return(e[1])>>)), e[2]>>

\* Literals, or nothing.
ParseLiteral(p) ==
    CASE Kind(p) = "number" -> <<Num(Peek(p, 0).text), Skip(p)>>
      [] Kind(p) = "string" -> <<Text(Peek(p, 0).text), Skip(p)>>
      [] IsWord(p, 0, {"true", "false"}) -> <<Bool(IsWord(p, 0, {"true"})), Skip(p)>>
      [] IsWord(p, 0, {"null"}) -> <<Null, Skip(p)>>
      [] OTHER -> <<Null, Refuse(p)>>

RECURSIVE ParseArms(_, _)
ParseArms(p, arms) ==
    LET wild == IsWord(p, 0, {"_"})
        literal == IF wild THEN <<Null, Skip(p)>> ELSE ParseLiteral(p)
        e == ParseExpression(Expect(literal[2], "=>"))
        arm == IF wild THEN Otherwise(e[1]) ELSE Arm(literal[1], e[1])
    IN IF Kind(p) = "}" THEN <<arms, IF arms = <<>> THEN Refuse(p) ELSE Skip(p)>>
       ELSE IF Kind(p) = "eof" THEN <<arms, Refuse(p)>>
       ELSE ParseArms(SkipIf(e[2], ","), Append(arms, arm))

ParseMatch(p) ==
    LET s == ParseExpression(Skip(p))
        arms == ParseArms(Expect(s[2], "{"), <<>>)
    IN <<Match(s[1], arms[1]), arms[2]>>

ParsePrimary(p) ==
    CASE IsWord(p, 0, {"func"}) -> ParseFunction(p)
      [] IsWord(p, 0, {"match"}) -> ParseMatch(p)
      [] Kind(p) = "ident" /\ ~IsWord(p, 0, {"func", "match", "true", "false", "null"}) ->
           <<Id(Peek(p, 0).text), Skip(p)>>
      [] Kind(p) = "(" /\ LooksLikeArrow(p) -> ParseArrow(p)
      [] Kind(p) = "(" /\ ~LooksLikeArrow(p) ->
           LET e == ParseExpression(Skip(p)) IN <<e[1], Expect(e[2], ")")>>
      [] Kind(p) = "[" -> LET es == ParseItems(Skip(p), "]", <<>>) IN <<Array(es[1]), es[2]>>
      [] OTHER -> ParseLiteral(p)

\* What follows a primary expression: calls, indices, members and steps.  A step belongs to
\* the expression only when it stands on the same line.
RECURSIVE Postfix(_, _)
Postfix(e, p) ==
    LET optional == Kind(p) = "?."
        q == IF optional THEN Skip(p) ELSE p
        args == ParseItems(Skip(q), ")", <<>>)
        i == ParseExpression(Skip(q))
    IN CASE Kind(p) \in {"++", "--"} /\ ~Peek(p, 0).first ->
              Postfix([k |-> "step", op |-> "post" \o Kind(p), operand |-> e], Skip(p))
         [] Kind(q) = "(" ->
              Postfix(IF optional THEN OptionalCall(e, args[1]) ELSE Call(e, args[1]), args[2])
         [] Kind(q) = "[" ->
              Postfix(IF optional THEN OptionalIndex(e, i[1]) ELSE Index(e, i[1]), Expect(i[2], "]"))
         [] Kind(p) = "." ->
              Postfix(Length(e), IF IsWord(p, 1, {"length"}) THEN Skip(Skip(p)) ELSE Refuse(p))
         [] OTHER -> <<e, IF optional /\ Kind(q) \notin {"(", "["} THEN Refuse(p) ELSE p>>

ParseUnary(p) ==
    LET e == ParseUnary(Skip(p))
        primary == ParsePrimary(p)
    IN CASE Kind(p) \in {"!", "-"} -> <<Unary(Kind(p), e[1]), e[2]>>
         [] Kind(p) \in {"++", "--"} -> <<[k |-> "step", op |-> Kind(p), operand |-> e[1]], e[2]>>
         [] OTHER -> Postfix(primary[1], primary[2])

----------------------------------------------------------------------------
\* Statements

\* A statement ends before the end of the line, or before a semicolon or a brace.
CheckBoundary(p) ==
    LET last == p.tokens[p.next - 1].kind
    IN IF \/ Kind(p) \in {"eof", "}", ";"} \/ last \in {";", "}"}
          \/ IsWord(p, 0, {"else", "case", "default"}) \/ Peek(p, 0).first
       THEN p ELSE Refuse(p)

\* Statements up to one of the tokens that may end them; semicolons are skipped.
RECURSIVE ParseStmts(_, _, _)
ParseStmts(p, words, ss) ==
    LET s == ParseStmt(p)
    IN IF Kind(p) \in {"}", "eof"} \/ IsWord(p, 0, words) THEN <<ss, p>>
       ELSE IF Kind(p) = ";" THEN ParseStmts(Skip(p), words, ss)
       ELSE ParseStmts(s[2], words, Append(ss, s[1]))

ParseBlock(p) ==
    LET ss == ParseStmts(Expect(p, "{"), {}, <<>>)
    IN <<Block(Simplified(ss[1])), Expect(ss[2], "}")>>

ParseIf(p) ==
    LET c == ParseExpression(Expect(Skip(p), "("))
        yes == ParseStmt(Expect(c[2], ")"))
        no == ParseStmt(Skip(yes[2]))
    IN IF IsWord(yes[2], 0, {"else"}) THEN <<If(c[1], yes[1], no[1]), no[2]>>
       ELSE <<If(c[1], yes[1], Nothing), yes[2]>>

ParseWhile(p) ==
    LET c == ParseExpression(Expect(Skip(p), "("))
        body == ParseBlock(Expect(c[2], ")"))
    IN <<While(c[1], body[1]), body[2]>>

ParseForEach(p) ==
    LET v == IF IsWord(p, 2, {"let"}) THEN 3 ELSE 2
        pairs == Peek(p, v + 1).kind = ","
        e == ParseExpression([p EXCEPT !.next = @ + v + (IF pairs THEN 4 ELSE 2)])
        body == ParseBlock(Expect(e[2], ")"))
        x == Peek(p, v).text
    IN <<IF pairs THEN ForPairs(x, Peek(p, v + 2).text, e[1], body[1]) ELSE ForIn(x, e[1], body[1]),
         body[2]>>

\* x = e, or an expression: the beginning and the end of a round of a loop.
ParseClause(p) ==
    LET e == ParseExpression(Skip(Skip(p)))
        alone == ParseExpression(p)
    IN IF Kind(p) = "ident" /\ Peek(p, 1).kind = "=" THEN <<Assign(Peek(p, 0).text, e[1]), e[2]>>
       ELSE <<Eval(alone[1]), alone[2]>>

ParseFor(p) ==
    LET q == Expect(Skip(p), "(")
        declared == ParseStmt(q)
        clause == ParseClause(q)
        init == CASE Kind(q) = ";" -> <<Nothing, Skip(q)>>
                  [] IsWord(q, 0, {"let", "const"}) -> declared
                  [] OTHER -> <<clause[1], SkipIf(clause[2], ";")>>
        c == ParseExpression(init[2])
        r == Expect(c[2], ";")
        post == IF Kind(r) = ")" THEN <<Nothing, r>> ELSE ParseClause(r)
        body == ParseBlock(Expect(post[2], ")"))
    IN <<For(init[1], c[1], post[1], body[1]), body[2]>>

\* The bodies of the cases are no blocks of their own for the simplification.
RECURSIVE ParseCases(_, _, _)
ParseCases(p, cases, default) ==
    LET e == ParseExpression(Skip(p))
        ss == ParseStmts(Expect(IF IsWord(p, 0, {"case"}) THEN e[2] ELSE Skip(p), ":"),
                         {"case", "default"}, <<>>)
    IN CASE IsWord(p, 0, {"case"}) ->
              ParseCases(ss[2], Append(cases, Case(e[1], Block(ss[1]))), default)
         [] IsWord(p, 0, {"default"}) /\ default = Nothing -> ParseCases(ss[2], cases, Block(ss[1]))
         [] OTHER -> <<cases, default, Expect(p, "}")>>

ParseSwitch(p) ==
    LET v == ParseExpression(Expect(Skip(p), "("))
        cases == ParseCases(Expect(Expect(v[2], ")"), "{"), <<>>, Nothing)
    IN <<Switch(v[1], cases[1], cases[2]), cases[3]>>

ParseReturn(p) ==
    LET q == Skip(p)
        e == ParseExpression(q)
    IN IF Kind(q) \in {";", "}", "eof"} THEN <<Return(Null), SkipIf(q, ";")>>
       ELSE <<Return(e[1]), SkipIf(e[2], ";")>>

\* let x = e   or   const x = e
ParseDeclaration(p) ==
    LET const == IsWord(p, 0, {"const"})
        x == Peek(p, 1).text
        e == ParseExpression(Skip(Skip(Skip(p))))
        init == IF Peek(p, 2).kind = "=" THEN e
                ELSE <<Null, IF const THEN Refuse(p) ELSE Skip(Skip(p))>>
    IN IF Peek(p, 1).kind # "ident" THEN <<Nothing, Refuse(p)>>
       ELSE <<IF const THEN Const(x, init[1]) ELSE Let(x, init[1]), SkipIf(init[2], ";")>>

\* x = e, and x op= e, which is x = x op e.
Compound == [op \in {"+=", "-=", "*="} |-> CASE op = "+=" -> "+" [] op = "-=" -> "-" [] op = "*=" -> "*"]
ParseAssign(p) ==
    LET x == Peek(p, 0).text
        op == Peek(p, 1).kind
        e == ParseExpression(Skip(Skip(p)))
    IN <<Assign(x, IF op = "=" THEN e[1] ELSE Binary(Id(x), Compound[op], e[1])), SkipIf(e[2], ";")>>

ParseElementAssign(p) ==
    LET target == ParseExpression(p)
        e == ParseExpression(Expect(target[2], "="))
    IN IF target[1].k # "index" THEN <<Nothing, Refuse(p)>>
       ELSE <<IndexAssign(target[1].object, target[1].index, e[1]), SkipIf(e[2], ";")>>

ParseEval(p) == LET e == ParseExpression(p) IN <<Eval(e[1]), SkipIf(e[2], ";")>>

ParseWord(p) ==
    LET word == Peek(p, 0).text
    IN CASE word = "if" -> ParseIf(p)
         [] word = "while" -> ParseWhile(p)
         [] word = "for" -> IF LooksLikeForEach(p) THEN ParseForEach(p) ELSE ParseFor(p)
         [] word = "switch" -> ParseSwitch(p)
         [] word = "break" -> <<Break, SkipIf(Skip(p), ";")>>
         [] word = "continue" -> <<Continue, SkipIf(Skip(p), ";")>>
         [] word = "return" -> ParseReturn(p)
         [] word \in {"let", "const"} -> ParseDeclaration(p)
         [] OTHER ->
              CASE Peek(p, 1).kind \in {"="} \cup DOMAIN Compound -> ParseAssign(p)
                [] Peek(p, 1).kind \in {"[", "."} /\ AssignedAt(p.tokens, p.next + 1) ->
                     ParseElementAssign(p)
                [] OTHER -> ParseEval(p)

ParseStmt(p) ==
    LET s == CASE Kind(p) = "ident" -> ParseWord(p)
               [] Kind(p) = "{" -> ParseBlock(p)
               [] Kind(p) \in {"++", "--", "string"} -> ParseEval(p)
               [] OTHER -> <<Nothing, Refuse(p)>>
    IN <<s[1], CheckBoundary(s[2])>>

----------------------------------------------------------------------------
\* Programs

\* func f ( params ) { ... }
ParseNamed(p) ==
    LET f == ParseFunction(Skip(p))
    IN <<Function(Peek(p, 1).text, f[1].params, f[1].body), f[2]>>

RECURSIVE ParseTopLevel(_, _, _)
ParseTopLevel(p, functions, main) ==
    LET f == ParseNamed(p)
        s == ParseStmt(p)
    IN CASE Kind(p) = "eof" -> <<functions, main, p.ok>>
         [] Kind(p) = ";" -> ParseTopLevel(Skip(p), functions, main)
         [] LooksLikeFunction(p) -> ParseTopLevel(f[2], Append(functions, f[1]), main)
         [] OTHER -> ParseTopLevel(s[2], functions, Append(main, s[1]))

\* The top level is a function too, and every function is simplified once more.  A program
\* with an error is not run.
ParseProgram(tokens) ==
    LET parsed == ParseTopLevel(At(tokens), <<>>, <<>>)
        Again(f) == [f EXCEPT !.body.stmts = Simplified(@)]
    IN IF parsed[3]
       THEN Program([i \in DOMAIN parsed[1] |-> Again(parsed[1][i])], Simplified(Simplified(parsed[2])))
       ELSE Program(<<>>, <<>>)

=============================================================================
