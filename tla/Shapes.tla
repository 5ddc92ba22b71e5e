------------------------------- MODULE Shapes -------------------------------
(***************************************************************************)
(* Objects and the caches of their properties.  An object has a shape, the *)
(* list of its property names, shared by all objects that got these names  *)
(* in this order, and one field per name.  An object that grows past       *)
(* kDictModeThreshold names gives up its shape for a hash map.  The        *)
(* objects that Ok and Err return are copied from a template, and their    *)
(* methods are built when they are first asked for (lazy fields).  Every   *)
(* way to a property has a cache of its own that maps a shape to a slot:   *)
(* the interpreter, the helpers for JavaScript and the code compiled in    *)
(* line, method calls, the traps of a delegate, object literals and the    *)
(* JSON parser.                                                            *)
(*                                                                         *)
(* A shape is reached from the empty one by extensions that the registry   *)
(* remembers, so there is one shape for each list of names: a pointer to a *)
(* shape is that list here, and two pointers are equal when the lists are. *)
(* Slots are numbered from 1.  An operation uses the caches of its family  *)
(* only, and all of them see objects alike, so a behaviour has one family  *)
(* of operations, chosen at the start, besides those that use no cache.    *)
(***************************************************************************)
EXTENDS PropertyValues, FiniteSets

CONSTANTS
    Objects, Fids, Names, GetterOf, SetterOf, Proto, Literals,
                        \* as in PropertyStore
    Bit,                \* the bit of a property in field_mask: its id modulo 64
    Threshold,          \* kDictModeThreshold
    LazyBits,           \* the width of lazy_field_mask
    PropIcOf,           \* the place of a name in prop_ic
    StubSize,           \* kPropStubN
    LiteralSize,        \* how many keys the site of an object literal has
    Traps,              \* the properties that are traps of a delegate
    Handler,            \* the handler of the one delegate
    Used,               \* per family: the <<property, value>> that its operations write
    Made,               \* and the <<variant, payload>> of the results they make
    NoShape             \* nullptr

Families == DOMAIN Used

VARIABLES
    obj,                \* per object: what ObjectObj holds
    building,           \* the object literal or JSON object that is being filled
    propIc,             \* VM::prop_ic
    propStub,           \* g_prop_stub
    jsIc,               \* VM::js_get_prop_static_ic: two entries per name
    methodIc,           \* VM::method_ic_shapes, method_ic_slots: two entries per name
    siteShape,          \* make_object_shape_cache at the site
    jsonShape,          \* json_last_shape
    trap,               \* DelegateData::trap_shape and trap_slots
    template,           \* ok_template and err_template
    family,             \* the operations that this behaviour is about
    out                 \* the answer of the last operation

vars == <<obj, building, propIc, propStub, jsIc, methodIc, siteShape, jsonShape, trap,
          template, family, out>>

NoSlot == 0
NoContext == "none"

InUse(s) == {s[i] : i \in DOMAIN s}
Mask(s) == {Bit[f] : f \in InUse(s)}

ASSUME ShapesAssumption ==
    /\ Threshold \in Nat /\ LazyBits \in Nat /\ Threshold <= LazyBits
    /\ Len(ResultKeys) <= Threshold
    /\ StubSize \in Nat \ {0} /\ MaxInt \in Nat
    /\ NoShape \notin Seq(Fids)
    /\ Bit \in [Fids -> Nat] /\ DOMAIN PropIcOf = Fids
    /\ Names \subseteq Fids /\ GetterOf \in [Names -> Fids] /\ SetterOf \in [Names -> Fids]
    /\ Proto \in Fids /\ Traps \subseteq Fids
    /\ \A k \in Families : /\ Used[k] \subseteq Fids \X Values
                            /\ Made[k] \subseteq {"Ok", "Err"} \X (0..MaxInt)
    /\ <<>> \in Literals /\ \A ks \in Literals : ks \in Seq(Fids)
    /\ InUse(ResultKeys) \subseteq Fids
    /\ Handler \in Objects

\* Where a shape has the property f.
SlotOf(s, f) ==
    IF Bit[f] \in Mask(s) /\ f \in InUse(s)
    THEN CHOOSE i \in DOMAIN s : s[i] = f
    ELSE NoSlot

\* prop_stub_hash; an entry repeats shape and property, so any function would do.
StubOf(s, f) == (Len(s) + Bit[f]) % StubSize

Extend(s, f) == IF SlotOf(s, f) # NoSlot THEN s ELSE Append(s, f)

Dead == [live |-> FALSE, shape |-> <<>>, fields |-> <<>>, lazy |-> {}, ctx |-> NoContext,
         payload |-> None, dictMode |-> FALSE, keys |-> <<>>, map |-> <<>>, frozen |-> FALSE]
NewObj == [Dead EXCEPT !.live = TRUE]

-----------------------------------------------------------------------------
(* The operations of ObjectObj, as functions of the object.                *)

\* The context goes with the last lazy field.
ContextReset(ob) ==
    IF ob.lazy = {} THEN [ob EXCEPT !.ctx = NoContext, !.payload = None] ELSE ob

\* make_result_method: the method that the template has at a slot.
MadeMethod(ob, s) ==
    IF s \in template[ob.ctx].methods
    THEN Method(ob.ctx, template[ob.ctx].shape[s], ob.payload.n)
    ELSE None

Materialized(ob, s) ==
    IF s \in ob.lazy
    THEN ContextReset([ob EXCEPT !.fields[s] = MadeMethod(ob, s), !.lazy = @ \ {s}])
    ELSE ob

LazyCleared(ob, s) == ContextReset([ob EXCEPT !.lazy = @ \ {s}])

Written(ob, s, v) == [LazyCleared(ob, s) EXCEPT !.fields[s] = v]

\* A mutant: the shape stays when the fields move to the map.
PromotedShaped(ob) ==
    [ContextReset([ob EXCEPT !.lazy = {}]) EXCEPT
        !.keys = ob.shape,
        !.map = [f \in InUse(ob.shape) |->
                    LET s == SlotOf(ob.shape, f)
                    IN IF s \in ob.lazy THEN MadeMethod(ob, s) ELSE ob.fields[s]],
        !.fields = <<>>, !.dictMode = TRUE]

Promoted(ob) ==
    [ContextReset([ob EXCEPT !.lazy = {}]) EXCEPT
        !.keys = ob.shape,
        !.map = [f \in InUse(ob.shape) |->
                    LET s == SlotOf(ob.shape, f)
                    IN IF s \in ob.lazy THEN MadeMethod(ob, s) ELSE ob.fields[s]],
        !.fields = <<>>, !.shape = <<>>, !.dictMode = TRUE]

DictPut(ob, f, v) ==
    IF f \in DOMAIN ob.map
    THEN [ob EXCEPT !.map[f] = v]
    ELSE [ob EXCEPT !.keys = Append(@, f),
                    !.map = [g \in DOMAIN @ \cup {f} |-> IF g = f THEN v ELSE @[g]]]

\* set_field and set_field_by_id
FieldSet(ob, f, v) ==
    LET s == SlotOf(ob.shape, f)
    IN CASE ob.frozen -> ob
         [] ~ob.frozen /\ ob.dictMode -> DictPut(ob, f, v)
         [] ~ob.frozen /\ ~ob.dictMode /\ s # NoSlot -> Written(ob, s, v)
         [] ~ob.frozen /\ ~ob.dictMode /\ s = NoSlot /\ Len(ob.shape) >= Threshold ->
                DictPut(Promoted(ob), f, v)
         [] OTHER -> [ob EXCEPT !.shape = Extend(@, f), !.fields = Append(@, v)]

\* get_field and get_field_by_id build the lazy field that they answer with.
FieldTouched(ob, f) ==
    IF ob.dictMode THEN ob ELSE Materialized(ob, SlotOf(ob.shape, f))

FieldGot(ob, f) ==
    LET s == SlotOf(ob.shape, f)
    IN CASE ob.dictMode -> IF f \in DOMAIN ob.map THEN ob.map[f] ELSE Absent
         [] ~ob.dictMode /\ s \in DOMAIN ob.fields -> Materialized(ob, s).fields[s]
         [] OTHER -> Absent

OrNone(v) == IF v = Absent THEN None ELSE v

-----------------------------------------------------------------------------
Entry(s, f, i) == [shape |-> s, name |-> f, slot |-> i]
TwoEntries(e, new) == <<new, e[1]>>
NoTemplate == [initialized |-> FALSE, usable |-> FALSE, shape |-> <<>>, fields |-> <<>>,
               methods |-> {}, dataSlot |-> NoSlot, unwraps |-> FALSE]
Idle == [for |-> "nothing", o |-> Handler, text |-> <<>>, ks |-> <<>>, vs |-> <<>>, at |-> 0]

Init ==
    /\ obj = [o \in Objects |-> Dead]
    /\ building = Idle
    /\ propIc = [i \in {PropIcOf[f] : f \in Fids} |-> Entry(NoShape, CHOOSE f \in Fids : TRUE, NoSlot)]
    /\ propStub = [i \in 0..StubSize - 1 |-> Entry(NoShape, CHOOSE f \in Fids : TRUE, NoSlot)]
    /\ jsIc = [n \in Names |-> <<Entry(NoShape, n, NoSlot), Entry(NoShape, n, NoSlot)>>]
    /\ methodIc = [n \in Names |-> <<Entry(NoShape, n, NoSlot), Entry(NoShape, n, NoSlot)>>]
    /\ siteShape = NoShape
    /\ jsonShape = NoShape
    /\ trap = [shape |-> NoShape, slots |-> [f \in Traps |-> NoSlot]]
    /\ template = [variant \in {"Ok", "Err"} |-> NoTemplate]
    /\ family \in Families
    /\ out = <<"nothing">>

\* The script runs: nothing is half built, and o is an object.
Running(o) == building = Idle /\ obj[o].live
Free(o) == building = Idle /\ ~obj[o].live

UnchangedCaches ==
    UNCHANGED <<building, propIc, propStub, jsIc, methodIc, siteShape, jsonShape, trap,
                template, family>>

-----------------------------------------------------------------------------
(* Operations that use no cache.                                           *)

NewObject(o) ==
    /\ Free(o)
    /\ obj' = [obj EXCEPT ![o] = NewObj]
    /\ out' = <<"made", o, <<>>, <<>>>>
    /\ UnchangedCaches

\* The collector frees an object that nothing refers to.
Drop(o) ==
    /\ Running(o)
    /\ family = "delegate" => o # Handler
    /\ obj' = [obj EXCEPT ![o] = Dead]
    /\ out' = <<"nothing">>
    /\ UnchangedCaches

Freeze(o) ==
    /\ Running(o)
    /\ obj' = [obj EXCEPT ![o].frozen = TRUE]
    /\ out' = <<"frozen", o>>
    /\ UnchangedCaches

GetField(o, f) ==
    /\ Running(o)
    /\ obj' = [obj EXCEPT ![o] = FieldTouched(@, f)]
    /\ out' = <<"read", f, OrNone(FieldGot(obj[o], f))>>
    /\ UnchangedCaches

SetField(o, f, v) ==
    /\ Running(o)
    /\ obj' = [obj EXCEPT ![o] = FieldSet(@, f, v)]
    /\ out' = <<"wrote", f, v>>
    /\ UnchangedCaches

GetKeys(o) ==
    /\ Running(o)
    /\ out' = <<"keys", IF obj[o].dictMode THEN obj[o].keys ELSE obj[o].shape>>
    /\ UNCHANGED obj
    /\ UnchangedCaches

-----------------------------------------------------------------------------
(* The interpreter and prop_ic.                                            *)

\* A mutant: the name is not compared, though names share places.
PropIcHitUnnamed(ob, f) ==
    LET e == propIc[PropIcOf[f]]
    IN ~ob.dictMode /\ e.shape = ob.shape /\ e.slot \in DOMAIN ob.fields

PropIcHit(ob, f) ==
    LET e == propIc[PropIcOf[f]]
    IN ~ob.dictMode /\ e.shape = ob.shape /\ e.name = f /\ e.slot \in DOMAIN ob.fields

\* The entry is written when the object, as the access left it, has a slot for f.
PropIcFilled(ob, f) ==
    IF ~ob.dictMode /\ SlotOf(ob.shape, f) # NoSlot
    THEN [propIc EXCEPT ![PropIcOf[f]] = Entry(ob.shape, f, SlotOf(ob.shape, f))]
    ELSE propIc

UnchangedButPropIc ==
    UNCHANGED <<building, propStub, jsIc, methodIc, siteShape, jsonShape, trap, template, family>>

GetProperty(o, f) ==
    LET ob == obj[o]
        slot == propIc[PropIcOf[f]].slot
    IN /\ Running(o)
       /\ family = "interpreter"
       /\ \/ /\ PropIcHit(ob, f)
             /\ obj' = [obj EXCEPT ![o] = Materialized(ob, slot)]
             /\ out' = <<"read", f, Materialized(ob, slot).fields[slot]>>
             /\ UNCHANGED propIc
          \/ /\ ~PropIcHit(ob, f)
             /\ obj' = [obj EXCEPT ![o] = FieldTouched(ob, f)]
             /\ out' = <<"read", f, OrNone(FieldGot(ob, f))>>
             /\ propIc' = PropIcFilled(ob, f)
       /\ UnchangedButPropIc

SetProperty(o, f, v) ==
    LET ob == obj[o]
        hit == PropIcHit(ob, f) /\ ~ob.frozen
    IN /\ Running(o)
       /\ family = "interpreter"
       /\ \/ /\ hit
             /\ obj' = [obj EXCEPT ![o] = Written(ob, propIc[PropIcOf[f]].slot, v)]
             /\ UNCHANGED propIc
          \/ /\ ~hit
             /\ obj' = [obj EXCEPT ![o] = FieldSet(ob, f, v)]
             /\ propIc' = PropIcFilled(FieldSet(ob, f, v), f)
       /\ out' = <<"wrote", f, v>>
       /\ UnchangedButPropIc

\* An object literal: the keys may be computed, their number is part of the site.
MakeObject(o, ks, vs) ==
    /\ Free(o)
    /\ family = "interpreter"
    /\ Len(ks) = LiteralSize
    /\ \/ /\ siteShape = ks
          /\ obj' = [obj EXCEPT ![o] = [NewObj EXCEPT !.shape = siteShape, !.fields = vs]]
          /\ out' = <<"made", o, ks, vs>>
          /\ UNCHANGED building
       \/ /\ siteShape # ks
          /\ building' = [for |-> "literal", o |-> o, text |-> ks, ks |-> ks, vs |-> vs, at |-> 0]
          /\ obj' = [obj EXCEPT ![o] = NewObj]
          /\ UNCHANGED out
    /\ UNCHANGED <<propIc, propStub, jsIc, methodIc, siteShape, jsonShape, trap, template, family>>

\* The slow path sets the fields one by one, duplicate keys included.
FillField ==
    LET b == building
    IN /\ b # Idle
       /\ b.at < Len(b.ks)
       /\ obj' = [obj EXCEPT ![b.o] = FieldSet(@, b.ks[b.at + 1], b.vs[b.at + 1])]
       /\ building' = [b EXCEPT !.at = @ + 1]
       /\ UNCHANGED <<propIc, propStub, jsIc, methodIc, siteShape, jsonShape, trap, template,
                      family, out>>

LiteralDone ==
    LET ob == obj[building.o]
    IN /\ building.for = "literal"
       /\ building.at = Len(building.ks)
       /\ siteShape' = IF ~ob.dictMode /\ Len(ob.shape) = LiteralSize THEN ob.shape ELSE siteShape
       /\ building' = Idle
       /\ out' = <<"made", building.o, building.text, building.vs>>
       /\ UNCHANGED <<obj, propIc, propStub, jsIc, methodIc, jsonShape, trap, template, family>>

-----------------------------------------------------------------------------
(* The results of Ok and Err.                                              *)

\* A result that the constructor itself made.
Constructed(variant, p) ==
    [NewObj EXCEPT !.shape = ResultKeys, !.fields = ResultFields(variant, p)]

TemplateOf(ob) ==
    LET methods == {i \in DOMAIN ob.fields : IsFunction(ob.fields[i])}
    IN [initialized |-> TRUE, usable |-> methods # {}, shape |-> ob.shape,
        fields |-> [i \in DOMAIN ob.fields |-> IF i \in methods THEN None ELSE ob.fields[i]],
        methods |-> methods, dataSlot |-> SlotOf(ob.shape, "__data"),
        unwraps |-> ob.fields[SlotOf(ob.shape, "__variant")] = Variant("Ok")]

Instantiated(variant, p) ==
    LET t == template[variant]
    IN [NewObj EXCEPT
            !.shape = t.shape,
            !.fields = [t.fields EXCEPT ![t.dataSlot] = Integer(p)],
            !.lazy = {i \in t.methods : i <= LazyBits},
            !.ctx = variant,
            !.payload = Integer(p)]

\* The first result is made by the constructor of the prelude, and is the template.
NewResult(o, variant, p) ==
    LET t == template[variant]
    IN /\ Free(o)
       /\ \/ /\ t.initialized /\ t.usable
             /\ obj' = [obj EXCEPT ![o] = Instantiated(variant, p)]
             /\ UNCHANGED template
          \/ /\ ~(t.initialized /\ t.usable)
             /\ obj' = [obj EXCEPT ![o] = Constructed(variant, p)]
             /\ template' = IF t.initialized THEN template
                            ELSE [template EXCEPT ![variant] = TemplateOf(Constructed(variant, p))]
       /\ out' = <<"result", o, variant, p>>
       /\ UNCHANGED <<building, propIc, propStub, jsIc, methodIc, siteShape, jsonShape, trap, family>>

\* unwrap() of an Ok is answered from the payload, without building the method.
InvokesLazily(ob, s, argc) ==
    /\ s \in ob.lazy
    /\ argc = 0
    /\ template[ob.ctx].unwraps
    /\ s \in DOMAIN template[ob.ctx].shape /\ template[ob.ctx].shape[s] = "unwrap"

CallOrBuiltin(n, v) == IF IsFunction(v) THEN <<"called", n, Call(v)>> ELSE <<"builtin", n>>

CallMethod(o, n, argc) ==
    LET ob == obj[o]
        lazily == ~ob.dictMode /\ InvokesLazily(ob, SlotOf(ob.shape, n), argc)
    IN /\ Running(o)
       /\ family = "method"
       /\ \/ /\ lazily
             /\ out' = <<"called", n, ob.payload>>
             /\ UNCHANGED obj
          \/ /\ ~lazily
             /\ obj' = [obj EXCEPT ![o] = FieldTouched(ob, n)]
             /\ out' = CallOrBuiltin(n, FieldGot(ob, n))
       /\ UnchangedCaches

MethodEntry(ob, n) ==
    CASE methodIc[n][1].shape = ob.shape -> methodIc[n][1]
      [] methodIc[n][1].shape # ob.shape /\ methodIc[n][2].shape = ob.shape -> methodIc[n][2]
      [] OTHER -> Entry(ob.shape, n, SlotOf(ob.shape, n))

\* jit_call_method: an absent method is remembered as well.
JitCallMethod(o, n, argc) ==
    LET ob == obj[o]
        e == MethodEntry(ob, n)
        lazily == InvokesLazily(ob, e.slot, argc)
        touched == IF e.slot = NoSlot THEN ob ELSE Materialized(ob, e.slot)
        got == IF e.slot \in DOMAIN ob.fields THEN touched.fields[e.slot] ELSE Absent
    IN /\ Running(o)
       /\ family = "method"
       /\ \/ /\ ob.dictMode
             /\ out' = CallOrBuiltin(n, FieldGot(ob, n))
             /\ UNCHANGED <<obj, methodIc>>
          \/ /\ ~ob.dictMode
             /\ methodIc' = IF \E i \in 1..2 : methodIc[n][i].shape = ob.shape THEN methodIc
                            ELSE [methodIc EXCEPT ![n] = TwoEntries(@, e)]
             /\ out' = IF lazily THEN <<"called", n, ob.payload>> ELSE CallOrBuiltin(n, got)
             /\ obj' = IF lazily THEN obj ELSE [obj EXCEPT ![o] = touched]
       /\ UNCHANGED <<building, propIc, propStub, jsIc, siteShape, jsonShape, trap, template, family>>

-----------------------------------------------------------------------------
(* Delegates.                                                              *)

\* delegate_trap: one shape for all the slots; a handler with lazy fields is not cached.
FindTrap(f) ==
    LET ob == obj[Handler]
        known == IF ob.shape = trap.shape THEN trap
                 ELSE [shape |-> ob.shape, slots |-> [g \in Traps |-> SlotOf(ob.shape, g)]]
        Of(v) == <<"trap", f, IF IsFunction(v) THEN v ELSE None>>
    IN /\ Running(Handler)
       /\ family = "delegate"
       /\ \/ /\ ~ob.dictMode /\ ob.lazy = {}
             /\ trap' = known
             /\ out' = IF known.slots[f] \in DOMAIN ob.fields THEN Of(ob.fields[known.slots[f]])
                       ELSE <<"trap", f, None>>
             /\ UNCHANGED obj
          \/ /\ ob.dictMode \/ ob.lazy # {}
             /\ obj' = [obj EXCEPT ![Handler] = FieldTouched(ob, f)]
             /\ out' = Of(FieldGot(ob, f))
             /\ UNCHANGED trap
       /\ UNCHANGED <<building, propIc, propStub, jsIc, methodIc, siteShape, jsonShape, template, family>>

-----------------------------------------------------------------------------
(* Code that came from JavaScript: accessors are properties of their own.  *)

\* The compiled code looks at both entries and leaves lazy fields to the helper.
InlineSlot(ob, n) ==
    CASE jsIc[n][1].shape = ob.shape -> jsIc[n][1].slot
      [] jsIc[n][1].shape # ob.shape /\ jsIc[n][2].shape = ob.shape -> jsIc[n][2].slot
      [] OTHER -> NoSlot

InlineHit(ob, n) == InlineSlot(ob, n) \in DOMAIN ob.fields \ ob.lazy

JsReadInline(o, n) ==
    /\ Running(o)
    /\ family = "javascript"
    /\ InlineHit(obj[o], n)
    /\ out' = <<"js read", n, obj[o].fields[InlineSlot(obj[o], n)]>>
    /\ UNCHANGED obj
    /\ UnchangedCaches

UnchangedButJs ==
    UNCHANGED <<building, propIc, methodIc, siteShape, jsonShape, trap, template, family>>

StubHit(ob, n) ==
    LET e == propStub[StubOf(ob.shape, n)]
    IN ~ob.dictMode /\ e.shape = ob.shape /\ e.name = n /\ e.slot \in DOMAIN ob.fields

\* jit_js_get_prop_static, when the stub has the slot: it feeds the entries of the name.
JsReadStub(o, n) ==
    LET ob == obj[o]
        slot == propStub[StubOf(ob.shape, n)].slot
    IN /\ Running(o)
       /\ family = "javascript"
       /\ StubHit(ob, n)
       /\ obj' = [obj EXCEPT ![o] = Materialized(ob, slot)]
       /\ out' = <<"js read", n, Materialized(ob, slot).fields[slot]>>
       /\ jsIc' = IF jsIc[n][1].shape = ob.shape THEN jsIc
                  ELSE [jsIc EXCEPT ![n] = TwoEntries(@, Entry(ob.shape, n, slot))]
       /\ UNCHANGED propStub
       /\ UnchangedButJs

MayHave(ob, f) == ob.dictMode \/ Bit[f] \in Mask(ob.shape)

HasGetter(ob, n) == MayHave(ob, GetterOf[n]) /\ IsFunction(FieldGot(ob, GetterOf[n]))

\* A mutant: a field is plain when its getter is not there yet to be called.
PlainFieldAnyway(ob, n) == ~ob.dictMode /\ SlotOf(ob.shape, n) # NoSlot

\* The slot of a property that no accessor guards, whatever the accessor holds.
PlainField(ob, n) ==
    ~ob.dictMode /\ SlotOf(ob.shape, GetterOf[n]) = NoSlot /\ SlotOf(ob.shape, n) # NoSlot

\* Past the stub: a getter or a missing name goes to the helper.
JsReadSlow(o, n) ==
    LET ob == obj[o]
        asked == IF MayHave(ob, GetterOf[n]) THEN FieldTouched(ob, GetterOf[n]) ELSE ob
        new == Entry(ob.shape, n, SlotOf(ob.shape, n))
        found == MayHave(ob, n) /\ FieldGot(ob, n) # Absent
    IN /\ Running(o)
       /\ family = "javascript"
       /\ ~StubHit(ob, n)
       /\ \/ /\ HasGetter(ob, n)
             /\ out' = <<"js read", n, Helper>>
             /\ obj' = [obj EXCEPT ![o] = asked]
             /\ UNCHANGED <<propStub, jsIc>>
          \/ /\ ~HasGetter(ob, n)
             /\ IF PlainField(ob, n)
                THEN /\ propStub' = [propStub EXCEPT ![StubOf(ob.shape, n)] = new]
                     /\ jsIc' = [jsIc EXCEPT ![n] = TwoEntries(@, new)]
                ELSE UNCHANGED <<propStub, jsIc>>
             /\ obj' = [obj EXCEPT ![o] = IF found THEN FieldTouched(asked, n) ELSE asked]
             /\ out' = IF found THEN <<"js read", n, FieldGot(asked, n)>> ELSE <<"js read", n, Helper>>
       /\ UnchangedButJs

\* Shapes that may hold an accessor or a prototype are left to the helper.
JsFastWrite(ob, fs) ==
    /\ ~ob.dictMode
    /\ ~ob.frozen
    /\ Mask(ob.shape) \cap {Bit[f] : f \in fs \cup {Proto}} = {}

\* What the helper does, it does with the operations above.
JsWrite(o, n, v) ==
    LET fast == JsFastWrite(obj[o], {SetterOf[n]})
    IN /\ Running(o)
       /\ family = "javascript"
       /\ obj' = IF fast THEN [obj EXCEPT ![o] = FieldSet(@, n, v)] ELSE obj
       /\ out' = IF fast THEN <<"js wrote", n, v>> ELSE <<"js wrote", n, Helper>>
       /\ UnchangedCaches

JsPostInc(o, n) ==
    LET ob == obj[o]
        slot == propStub[StubOf(ob.shape, n)].slot
        looked == JsFastWrite(ob, {GetterOf[n], SetterOf[n]}) /\ StubHit(ob, n)
        ready == Materialized(ob, slot)
        old == ready.fields[slot]
        fast == looked /\ old.kind = "int" /\ old.n < MaxInt
    IN /\ Running(o)
       /\ family = "javascript"
       /\ obj' = CASE fast -> [obj EXCEPT ![o] = [ready EXCEPT !.fields[slot] = Integer(old.n + 1)]]
                   [] looked /\ ~fast -> [obj EXCEPT ![o] = ready]
                   [] OTHER -> obj
       /\ out' = IF fast THEN <<"js inc", n, old>> ELSE <<"js inc", n, Helper>>
       /\ UnchangedCaches

-----------------------------------------------------------------------------
(* JSON.                                                                   *)

\* The keys of the text that agree with the shape of the object before it.
Agrees(s, ks, i) == s # NoShape /\ i <= Len(s) /\ \A j \in 1..i : s[j] = ks[j]

\* Keys that agreed are taken from the shape and never parsed: when a later key or
\* the end of the object disagrees, they are copied back.
ParsedKeys(s, ks) == [i \in DOMAIN ks |-> IF Agrees(s, ks, i) THEN s[i] ELSE ks[i]]

ParseJson(o, ks, vs) ==
    /\ Free(o)
    /\ family = "json"
    /\ \/ /\ ks = <<>> \/ (Agrees(jsonShape, ks, Len(ks)) /\ Len(jsonShape) = Len(ks))
          /\ obj' = [obj EXCEPT ![o] =
                        IF ks = <<>> THEN NewObj
                        ELSE [NewObj EXCEPT !.shape = jsonShape, !.fields = vs]]
          /\ out' = <<"made", o, ks, vs>>
          /\ UNCHANGED building
       \/ /\ ks # <<>>
          /\ ~(Agrees(jsonShape, ks, Len(ks)) /\ Len(jsonShape) = Len(ks))
          /\ obj' = [obj EXCEPT ![o] = NewObj]
          /\ building' = [for |-> "json", o |-> o, text |-> ks, ks |-> ParsedKeys(jsonShape, ks), vs |-> vs, at |-> 0]
          /\ UNCHANGED out
    /\ UNCHANGED <<propIc, propStub, jsIc, methodIc, siteShape, jsonShape, trap, template, family>>

JsonDone ==
    LET ob == obj[building.o]
    IN /\ building.for = "json"
       /\ building.at = Len(building.ks)
       /\ jsonShape' = IF ~ob.dictMode /\ ob.shape # <<>> THEN ob.shape ELSE jsonShape
       /\ building' = Idle
       /\ out' = <<"made", building.o, building.text, building.vs>>
       /\ UNCHANGED <<obj, propIc, propStub, jsIc, methodIc, siteShape, trap, template, family>>

\* Written by slot, lazy fields as they are; a hash map by its keys.
WriteJson(o) ==
    LET ob == obj[o]
        keys == IF ob.dictMode THEN ob.keys ELSE ob.shape
        At(i) == IF ob.dictMode THEN ob.map[ob.keys[i]] ELSE ob.fields[i]
    IN /\ Running(o)
       /\ family = "json"
       /\ out' = <<"text", [i \in DOMAIN keys |-> <<keys[i], Text(At(i))>>]>>
       /\ UNCHANGED obj
       /\ UnchangedCaches

-----------------------------------------------------------------------------
Next ==
    \/ \E o \in Objects :
          \/ NewObject(o)
          \/ Drop(o)
          \/ Freeze(o)
          \/ GetKeys(o)
          \/ WriteJson(o)
          \/ \E r \in Made[family] : NewResult(o, r[1], r[2])
          \/ \E ks \in Literals : \E vs \in [DOMAIN ks -> {w[2] : w \in Used[family]}] :
                 /\ \A i \in DOMAIN ks : <<ks[i], vs[i]>> \in Used[family]
                 /\ MakeObject(o, ks, vs) \/ ParseJson(o, ks, vs)
          \/ \E w \in Used[family] :
                 \/ GetField(o, w[1])
                 \/ GetProperty(o, w[1])
                 \/ SetField(o, w[1], w[2])
                 \/ SetProperty(o, w[1], w[2])
                 \/ w[1] \in Names /\ JsWrite(o, w[1], w[2])
          \/ \E n \in Names :
                 \/ \E argc \in 0..1 : CallMethod(o, n, argc) \/ JitCallMethod(o, n, argc)
                 \/ JsReadInline(o, n)
                 \/ JsReadStub(o, n)
                 \/ JsReadSlow(o, n)
                 \/ JsPostInc(o, n)
    \/ \E f \in Traps : FindTrap(f)
    \/ FillField
    \/ LiteralDone
    \/ JsonDone

Spec == Init /\ [][Next]_vars

-----------------------------------------------------------------------------
(* What must hold.                                                         *)

\* The value of a property, built or not.
ValueAt(ob, f) ==
    IF ob.dictMode THEN ob.map[f]
    ELSE LET s == SlotOf(ob.shape, f)
         IN IF s \in ob.lazy THEN MadeMethod(ob, s) ELSE ob.fields[s]

Seen(o) ==
    LET ob == obj[o]
        names == IF ob.dictMode THEN ob.keys ELSE ob.shape
        visible == ob.live /\ ~(building # Idle /\ building.o = o)
    IN [names |-> IF visible THEN names ELSE <<>>,
        value |-> IF visible THEN [f \in InUse(names) |-> ValueAt(ob, f)] ELSE <<>>,
        frozen |-> ob.frozen,
        live |-> visible]

Store == [o \in Objects |-> Seen(o)]

Promised == INSTANCE PropertyStore WITH store <- Store

\* Whatever the caches remember, the lazy fields put off and the representation
\* changes, a program sees an ordered map that freezing makes immutable.
ImplementsPropertyStore == Promised!Spec

\* An object is in one representation: as many fields as its shape has names, or
\* the empty shape and a map of its keys; lazy fields have a method in the template.
Coherent ==
    \A o \in Objects :
        LET ob == obj[o]
        IN /\ Len(ob.shape) = Len(ob.fields)
           /\ Len(ob.shape) <= Threshold
           /\ ob.dictMode => ob.shape = <<>> /\ ob.lazy = {} /\ InUse(ob.keys) = DOMAIN ob.map
           /\ \A i, j \in DOMAIN ob.shape : ob.shape[i] = ob.shape[j] => i = j
           /\ ob.lazy # {} => /\ ob.ctx # NoContext
                              /\ ob.lazy \subseteq template[ob.ctx].methods
                              /\ ob.lazy \subseteq DOMAIN ob.shape
                              /\ \A i \in ob.lazy : ob.shape[i] = template[ob.ctx].shape[i]

True(e) == e.shape # NoShape => e.slot = SlotOf(e.shape, e.name)
Direct(e) == e.shape # NoShape => e.slot # NoSlot /\ e.slot = SlotOf(e.shape, e.name)

\* Every cache tells the truth about every shape it names, and the caches that
\* JavaScript reads never name a shape with a getter for the property.
CachesTrue ==
    /\ \A i \in DOMAIN propIc : Direct(propIc[i])
    /\ \A i \in DOMAIN propStub : Direct(propStub[i])
    /\ \A i \in DOMAIN propStub : propStub[i].shape # NoShape =>
           SlotOf(propStub[i].shape, GetterOf[propStub[i].name]) = NoSlot
    /\ \A n \in Names, i \in 1..2 :
           /\ Direct(jsIc[n][i])
           /\ jsIc[n][i].shape # NoShape => SlotOf(jsIc[n][i].shape, GetterOf[n]) = NoSlot
    /\ \A n \in Names, i \in 1..2 : True(methodIc[n][i])
    /\ trap.shape # NoShape => \A f \in Traps : trap.slots[f] = SlotOf(trap.shape, f)

=============================================================================
