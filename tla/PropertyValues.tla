--------------------------- MODULE PropertyValues ---------------------------
(***************************************************************************)
(* The values that the properties of objects have in these specifications: *)
(* small integers, functions, and the parts of the objects that Ok and Err *)
(* return, whose methods close over the payload.                           *)
(***************************************************************************)
EXTENDS Naturals, Sequences

CONSTANT MaxInt         \* the largest integer

Value(kind, of, n) == [kind |-> kind, of |-> of, n |-> n]
None == Value("none", "", 0)
Absent == Value("absent", "", 0)
Helper == Value("helper", "", 0)    \* the answer is left to a function of the script
Fn == Value("function", "", 0)
Integer(n) == Value("int", "", n)
Variant(variant) == Value("string", variant, 0)

\* The method f of the result `variant` that closes over the payload p.
Method(variant, f, p) == Value(f, variant, p)

Values == {Fn} \cup {Integer(n) : n \in 0..MaxInt}

IsFunction(v) == v.kind \in {"function", "unwrap", "map"}

\* What a call of v answers: only unwrap of an Ok is looked into.
Call(v) == IF v.kind = "unwrap" /\ v.of = "Ok" THEN Integer(v.n) ELSE v

\* The text of v in JSON: what has no text of its own is null.
Text(v) == IF IsFunction(v) THEN None ELSE v

\* The object that the constructors of the prelude return.
ResultKeys == <<"__variant", "__data", "unwrap", "map">>
ResultFields(variant, p) ==
    <<Variant(variant), Integer(p), Method(variant, "unwrap", p), Method(variant, "map", p)>>

=============================================================================
