------------------------------ MODULE MCShapes ------------------------------
(***************************************************************************)
(* An instance of Shapes for TLC: one object at a time, whose successors   *)
(* meet the caches that it leaves behind.  The bits of __proto__ and b     *)
(* collide in field_mask, and so do the places of all names in prop_ic.    *)
(***************************************************************************)
EXTENDS Shapes

MCFids == {"a", "get unwrap", "set unwrap", "__proto__"} \cup InUse(ResultKeys)
MCNames == {"unwrap"}
MCGetterOf == [n \in MCNames |-> "get unwrap"]
MCSetterOf == [n \in MCNames |-> "set unwrap"]
MCLiterals == {<<>>, <<"a">>, <<"a", "unwrap">>, <<"unwrap", "a">>, <<"a", "a">>}
MCBit == [f \in MCFids |-> CASE f = "unwrap" -> 0 [] f = "get unwrap" -> 1
                             [] f = "set unwrap" -> 2 [] f \in {"map", "__proto__"} -> 3
                             [] OTHER -> 4]
MCPropIcOf == [f \in MCFids |-> 0]

Zero == Integer(0)
One == Integer(1)

MCUsed == [interpreter |-> {<<"a", Zero>>, <<"unwrap", Zero>>, <<"unwrap", One>>},
           javascript |-> {<<"unwrap", Zero>>, <<"set unwrap", Fn>>,
                           <<"get unwrap", Zero>>, <<"get unwrap", Fn>>},
           method |-> {<<"a", Fn>>, <<"unwrap", Zero>>, <<"unwrap", Fn>>},
           delegate |-> {<<"a", Zero>>, <<"a", Fn>>, <<"unwrap", Fn>>},
           json |-> {<<"a", Zero>>, <<"unwrap", One>>, <<"unwrap", Fn>>}]
MCMade == [interpreter |-> {<<"Ok", 0>>, <<"Ok", 1>>},
           javascript |-> {<<"Ok", 0>>},
           method |-> {<<"Ok", 1>>, <<"Err", 0>>},
           delegate |-> {<<"Ok", 0>>, <<"Ok", 1>>},
           json |-> {<<"Ok", 0>>}]

=============================================================================
