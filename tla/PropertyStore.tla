---------------------------- MODULE PropertyStore ----------------------------
(***************************************************************************)
(* What the runtime promises of the properties of an object: a map from    *)
(* names to values that remembers the order in which the names were added, *)
(* forgets nothing, and changes no more once it is frozen.  A read through *)
(* JavaScript's rules goes to a helper when an accessor is in the way or   *)
(* the name is missing; a write goes there at least when an accessor or a  *)
(* prototype is in the way.                                                *)
(***************************************************************************)
EXTENDS PropertyValues

CONSTANTS
    Objects,
    Fids,               \* the names a property may have
    Names,              \* those that programs name in their code
    GetterOf, SetterOf, \* per name: the property that holds its accessor
    Proto,              \* the property that holds the prototype
    Literals            \* the key sequences of object literals and JSON texts

VARIABLES
    store,      \* per object: its names in order, their values, frozen
    out         \* the answer of the last operation

vars == <<store, out>>

NoObject == [names |-> <<>>, value |-> <<>>, frozen |-> FALSE, live |-> FALSE]
Empty == [NoObject EXCEPT !.live = TRUE]

Has(s, f) == f \in DOMAIN s.value
At(s, f) == IF Has(s, f) THEN s.value[f] ELSE Absent

Put(s, f, v) ==
    CASE s.frozen -> s
      [] ~s.frozen /\ Has(s, f) -> [s EXCEPT !.value[f] = v]
      [] OTHER ->
            [s EXCEPT !.names = Append(@, f),
                      !.value = [g \in DOMAIN @ \cup {f} |->
                                    IF g = f THEN v ELSE s.value[g]]]

InUse(s) == {s[i] : i \in DOMAIN s}

\* s is the object that a literal with these keys and values describes: every key once, in
\* the order in which the keys come first, with the value that comes with it last.
IsLiteral(s, ks, vs) ==
    /\ s = [names |-> s.names, value |-> s.value, frozen |-> FALSE, live |-> TRUE]
    /\ s.names \in Seq(InUse(ks))
    /\ InUse(s.names) = InUse(ks) /\ DOMAIN s.value = InUse(ks)
    /\ \A i, j \in DOMAIN s.names : i < j =>
           \E a \in DOMAIN ks : /\ ks[a] = s.names[i]
                               /\ \A b \in DOMAIN ks : ks[b] = s.names[j] => a < b
    /\ \A a \in DOMAIN ks :
           (\A b \in DOMAIN ks : ks[b] = ks[a] => b <= a) => s.value[ks[a]] = vs[a]

-----------------------------------------------------------------------------
Init ==
    /\ store = [o \in Objects |-> NoObject]
    /\ out = <<"nothing">>

Answer(a) == out' = a /\ UNCHANGED store

Create(o, ks, vs) ==
    /\ out' = <<"made", o, ks, vs>>
    /\ ~store[o].live
    /\ IsLiteral(store'[o], ks, vs)
    /\ store' = [store EXCEPT ![o] = store'[o]]

CreateResult(o, variant, p) ==
    /\ out' = <<"result", o, variant, p>>
    /\ ~store[o].live
    /\ IsLiteral(store'[o], ResultKeys, ResultFields(variant, p))
    /\ store' = [store EXCEPT ![o] = store'[o]]

Forget(o) ==
    /\ store' = [store EXCEPT ![o] = NoObject]
    /\ out' = <<"nothing">>

Freeze(o) ==
    /\ store' = [store EXCEPT ![o].frozen = TRUE]
    /\ out' = <<"frozen", o>>

Read(o, f) ==
    Answer(<<"read", f, IF Has(store[o], f) THEN store[o].value[f] ELSE None>>)

Write(o, f, v) ==
    /\ store' = [store EXCEPT ![o] = Put(@, f, v)]
    /\ out' = <<"wrote", f, v>>

CallMethod(o, f) ==
    LET v == At(store[o], f)
    IN Answer(IF IsFunction(v) THEN <<"called", f, Call(v)>> ELSE <<"builtin", f>>)

\* A trap of a handler: a function, or none.
Trap(o, f) ==
    LET v == At(store[o], f)
    IN Answer(<<"trap", f, IF IsFunction(v) THEN v ELSE None>>)

ListKeys(o) == Answer(<<"keys", store[o].names>>)

WriteJson(o) ==
    LET s == store[o]
    IN Answer(<<"text", [i \in DOMAIN s.names |->
                            <<s.names[i], Text(s.value[s.names[i]])>>]>>)

AskHelper(op, n) == Answer(<<op, n, Helper>>)

JsRead(o, n) ==
    LET s == store[o]
    IN IF IsFunction(At(s, GetterOf[n])) \/ ~Has(s, n)
       THEN AskHelper("js read", n)
       ELSE Answer(<<"js read", n, s.value[n]>>)

Intercepted(s, n) == Has(s, SetterOf[n]) \/ Has(s, Proto)

JsWrite(o, n, v) ==
    \/ /\ out' = <<"js wrote", n, v>>
       /\ ~Intercepted(store[o], n) /\ ~store[o].frozen
       /\ store' = [store EXCEPT ![o] = Put(@, n, v)]
    \/ AskHelper("js wrote", n)

JsPostInc(o, n) ==
    LET s == store[o]
    IN \/ /\ ~Intercepted(s, n) /\ ~Has(s, GetterOf[n]) /\ ~s.frozen
          /\ At(s, n).kind = "int" /\ At(s, n).n < MaxInt
          /\ store' = [store EXCEPT ![o] = Put(s, n, Integer(s.value[n].n + 1))]
          /\ out' = <<"js inc", n, s.value[n]>>
       \/ AskHelper("js inc", n)

Next ==
    \E o \in Objects :
        \/ \E ks \in Literals : \E vs \in [DOMAIN ks -> Values] : Create(o, ks, vs)
        \/ \E variant \in {"Ok", "Err"}, p \in 0..MaxInt : CreateResult(o, variant, p)
        \/ Forget(o)
        \/ Freeze(o)
        \/ ListKeys(o)
        \/ WriteJson(o)
        \/ \E f \in Fids :
              \/ Read(o, f)
              \/ \E v \in Values : Write(o, f, v)
              \/ CallMethod(o, f)
              \/ Trap(o, f)
        \/ \E n \in Names :
              \/ JsRead(o, n)
              \/ \E v \in Values : JsWrite(o, n, v)
              \/ JsPostInc(o, n)

Spec == Init /\ [][Next]_vars

=============================================================================
