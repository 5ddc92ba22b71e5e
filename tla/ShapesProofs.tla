---------------------------- MODULE ShapesProofs ----------------------------
(***************************************************************************)
(* Proofs about Shapes, for any objects, properties, accessors, sizes of   *)
(* the caches and assignment of bits and places: objects stay coherent     *)
(* whatever changes their representation, every cache tells the truth      *)
(* about every shape that it names, and what a program sees is the ordered *)
(* map of PropertyStore.                                                   *)
(***************************************************************************)
EXTENDS Shapes, SequenceTheorems, TLAPS

(* The values that are kept in fields and maps. *)
Stored ==
    {None, Fn} \cup {Integer(n) : n \in 0..MaxInt}
    \cup {Variant(w) : w \in {"Ok", "Err"}}
    \cup {Method(w, f, n) : w \in {"Ok", "Err"}, f \in Fids, n \in 0..MaxInt}

Maps == UNION {[D -> Stored] : D \in SUBSET Fids}

ObjType ==
    [live : BOOLEAN, shape : Seq(Fids), fields : Seq(Stored), lazy : SUBSET Nat,
     ctx : {NoContext, "Ok", "Err"}, payload : Stored, dictMode : BOOLEAN,
     keys : Seq(Fids), map : Maps, frozen : BOOLEAN]

TemplateType ==
    [initialized : BOOLEAN, usable : BOOLEAN, shape : Seq(Fids), fields : Seq(Stored),
     methods : SUBSET Nat, dataSlot : Nat, unwraps : BOOLEAN]

AnyShape == Seq(Fids) \cup {NoShape}
EntryType == [shape : AnyShape, name : Fids, slot : Nat]
BuildType == [for : {"nothing", "literal", "json"}, o : Objects, text : Seq(Fids), ks : Seq(Fids),
              vs : Seq(Stored), at : Nat]

Distinct(s) == \A i, j \in 1..Len(s) : s[i] = s[j] => i = j

(* A shape is short and has no name twice. *)
ShapeOK(s) == Len(s) <= Threshold /\ Distinct(s)

(* A template is made from a result of the constructor of the prelude.     *)
IsResult(t, variant) ==
    /\ t.usable /\ t.shape = ResultKeys /\ t.methods = {3, 4} /\ t.dataSlot = 2
    /\ t.fields[1] = Variant(variant) /\ t.fields[3] = None /\ t.fields[4] = None
    /\ t.unwraps => variant = "Ok"

TemplateOK(t, variant) ==
    /\ ShapeOK(t.shape) /\ Len(t.shape) = Len(t.fields)
    /\ t.methods \subseteq 1..Len(t.shape)
    /\ IF t.initialized THEN IsResult(t, variant) ELSE t.methods = {}

ObjOK(ob) ==
    /\ ShapeOK(ob.shape) /\ Len(ob.shape) = Len(ob.fields)
    /\ ob.dictMode => ob.shape = <<>> /\ ob.lazy = {} /\ InUse(ob.keys) = DOMAIN ob.map
    /\ ob.frozen => ob.live
    /\ ob.lazy # {} => /\ ob.ctx # NoContext /\ ob.payload = Integer(ob.payload.n)
                       /\ ob.lazy \subseteq template[ob.ctx].methods
                       /\ ob.lazy \subseteq 1..Len(ob.shape)
                       /\ \A i \in ob.lazy : ob.shape[i] = template[ob.ctx].shape[i]
                       /\ \A i \in ob.lazy : ob.fields[i] = None

TemplatesOK == /\ template \in [{"Ok", "Err"} -> TemplateType]
               /\ \A variant \in {"Ok", "Err"} : TemplateOK(template[variant], variant)

ObjectsOK == /\ obj \in [Objects -> ObjType]
             /\ \A o \in Objects : ObjOK(obj[o])

(* What is being filled is a literal or a JSON object; its keys are left. *)
BuildingOK ==
    /\ building \in BuildType
    /\ Len(building.ks) = Len(building.vs)
    /\ building.at <= Len(building.ks)

(* The entries of one cache, each true of the shape that it names. *)
PropIcOK == /\ propIc \in [{PropIcOf[f] : f \in Fids} -> EntryType]
            /\ \A i \in {PropIcOf[f] : f \in Fids} : Direct(propIc[i])

(* What JavaScript may read from a slot: no getter guards it. *)
Plain(e) == /\ Direct(e)
            /\ e.shape # NoShape => SlotOf(e.shape, GetterOf[e.name]) = NoSlot

PropStubOK == /\ propStub \in [0..StubSize - 1 -> EntryType]
              /\ \A i \in 0..StubSize - 1 : Plain(propStub[i])

JsIcOK == /\ jsIc \in [Names -> EntryType \X EntryType]
          /\ \A n \in Names, i \in 1..2 : jsIc[n][i].name = n /\ Plain(jsIc[n][i])

MethodIcOK == /\ methodIc \in [Names -> EntryType \X EntryType]
              /\ \A n \in Names, i \in 1..2 : methodIc[n][i].name = n /\ True(methodIc[n][i])

(* A shape that a site or the JSON parser remembers is one that objects    *)
(* have.                                                                   *)
SitesOK ==
    /\ siteShape \in AnyShape /\ (siteShape # NoShape => ShapeOK(siteShape))
    /\ jsonShape \in AnyShape /\ (jsonShape # NoShape => ShapeOK(jsonShape))

TrapOK ==
    /\ trap \in [shape : AnyShape, slots : [Traps -> Nat]]
    /\ trap.shape # NoShape => \A f \in Traps : trap.slots[f] = SlotOf(trap.shape, f)

(* The types of the variables that no operation confuses. *)
TypeOK ==
    /\ obj \in [Objects -> ObjType]
    /\ building \in BuildType
    /\ propIc \in [{PropIcOf[f] : f \in Fids} -> EntryType]
    /\ propStub \in [0..StubSize - 1 -> EntryType]
    /\ jsIc \in [Names -> EntryType \X EntryType]
    /\ methodIc \in [Names -> EntryType \X EntryType]
    /\ siteShape \in AnyShape
    /\ jsonShape \in AnyShape
    /\ trap \in [shape : AnyShape, slots : [Traps -> Nat]]
    /\ template \in [{"Ok", "Err"} -> TemplateType]
    /\ family \in Families

IInv ==
    /\ ObjectsOK /\ TemplatesOK /\ BuildingOK
    /\ PropIcOK /\ PropStubOK /\ JsIcOK /\ MethodIcOK /\ SitesOK /\ TrapOK
    /\ family \in Families

-----------------------------------------------------------------------------
(* Shapes.                                                                 *)

LEMMA ShapeFacts ==
    ASSUME NEW s \in Seq(Fids)
    PROVE  /\ Len(s) \in Nat /\ DOMAIN s = 1..Len(s)
           /\ \A i \in 1..Len(s) : s[i] \in Fids /\ s[i] \in InUse(s)
           /\ InUse(s) \subseteq Fids
           /\ s # NoShape
<1>1. Len(s) \in Nat /\ DOMAIN s = 1..Len(s) /\ \A i \in 1..Len(s) : s[i] \in Fids
  BY LenProperties, ElementOfSeq
<1> QED BY <1>1, ShapesAssumption DEF InUse

LEMMA SlotFacts ==
    ASSUME NEW s \in Seq(Fids), NEW f \in Fids
    PROVE  /\ SlotOf(s, f) \in 0..Len(s)
           /\ SlotOf(s, f) # NoSlot => SlotOf(s, f) \in 1..Len(s) /\ s[SlotOf(s, f)] = f
           /\ SlotOf(s, f) # NoSlot <=> f \in InUse(s)
<1>1. Len(s) \in Nat /\ DOMAIN s = 1..Len(s)
  BY ShapeFacts
<1>2. CASE f \in InUse(s)
  <2>1. Bit[f] \in Mask(s)
    BY <1>2 DEF Mask
  <2>2. \E i \in DOMAIN s : s[i] = f
    BY <1>2 DEF InUse
  <2>3. SlotOf(s, f) = CHOOSE i \in DOMAIN s : s[i] = f
    BY <1>2, <2>1 DEF SlotOf
  <2>4. SlotOf(s, f) \in DOMAIN s /\ s[SlotOf(s, f)] = f
    BY <2>2, <2>3
  <2> QED BY <1>1, <1>2, <2>4 DEF NoSlot
<1>3. CASE f \notin InUse(s)
  BY <1>1, <1>3 DEF SlotOf, NoSlot
<1> QED BY <1>2, <1>3

LEMMA ShapeGrown ==
    ASSUME NEW s \in Seq(Fids), NEW f \in Fids, f \notin InUse(s), ShapeOK(s), Len(s) # Threshold
    PROVE  /\ Append(s, f) \in Seq(Fids) /\ Len(Append(s, f)) = Len(s) + 1
           /\ \A i \in 1..Len(s) : Append(s, f)[i] = s[i]
           /\ ShapeOK(Append(s, f))
<1>1. Len(s) \in Nat /\ DOMAIN s = 1..Len(s) /\ \A i \in 1..Len(s) : s[i] \in InUse(s)
  BY ShapeFacts
<1>2. /\ Append(s, f) \in Seq(Fids) /\ Len(Append(s, f)) = Len(s) + 1
      /\ \A i \in 1..Len(s) : Append(s, f)[i] = s[i]
      /\ Append(s, f)[Len(s) + 1] = f
  BY AppendProperties
<1>3. \A i \in 1..Len(s) + 1 : i \in 1..Len(s) \/ i = Len(s) + 1
  BY <1>1
<1>4. \A i, j \in 1..Len(s) + 1 : Append(s, f)[i] = Append(s, f)[j] => i = j
  BY <1>1, <1>2, <1>3 DEF ShapeOK, Distinct
<1>5. Len(s) + 1 <= Threshold
  <2>1. \A a, b \in Nat : a <= b /\ a # b => a + 1 <= b
    OBVIOUS
  <2> QED BY <1>1, <2>1, ShapesAssumption DEF ShapeOK
<1> QED BY <1>2, <1>4, <1>5 DEF ShapeOK, Distinct

LEMMA EmptyShape == <<>> \in Seq(Fids) /\ Len(<<>>) = 0 /\ ShapeOK(<<>>) /\ InUse(<<>>) = {}
<1>1. <<>> \in Seq(Fids) /\ Len(<<>>) = 0
  OBVIOUS
<1> QED BY <1>1, ShapesAssumption DEF ShapeOK, Distinct, InUse

-----------------------------------------------------------------------------
(* Values.                                                                 *)

LEMMA StoredValues ==
    /\ None \in Stored /\ Values \subseteq Stored
    /\ \A n \in 0..MaxInt : Integer(n) \in Stored
    /\ \A variant \in {"Ok", "Err"} : Variant(variant) \in Stored
    /\ \A variant \in {"Ok", "Err"}, f \in Fids, n \in 0..MaxInt : Method(variant, f, n) \in Stored
    /\ \A v \in Stored : v.n \in 0..MaxInt
<1>1. 0 \in 0..MaxInt
  BY ShapesAssumption
<1>2. /\ None \in Stored /\ Values \subseteq Stored
      /\ \A n \in 0..MaxInt : Integer(n) \in Stored
      /\ \A variant \in {"Ok", "Err"} : Variant(variant) \in Stored
      /\ \A variant \in {"Ok", "Err"}, f \in Fids, n \in 0..MaxInt : Method(variant, f, n) \in Stored
  BY DEF Stored, Values
<1>3. /\ None.n = 0 /\ Fn.n = 0 /\ \A n : Integer(n).n = n
      /\ \A w : Variant(w).n = 0
      /\ \A w, f, n : Method(w, f, n).n = n
  BY DEF None, Fn, Integer, Variant, Method, Value
<1>4. ASSUME NEW v \in Stored PROVE v.n \in 0..MaxInt
  BY <1>1, <1>3 DEF Stored
<1> QED BY <1>2, <1>4

LEMMA MapFacts ==
    ASSUME NEW m \in Maps
    PROVE  DOMAIN m \subseteq Fids /\ m \in [DOMAIN m -> Stored] /\ \A f \in DOMAIN m : m[f] \in Stored
<1>1. PICK D \in SUBSET Fids : m \in [D -> Stored]
  BY DEF Maps
<1> QED BY <1>1

LEMMA FieldFacts ==
    ASSUME NEW fs \in Seq(Stored)
    PROVE  /\ Len(fs) \in Nat /\ DOMAIN fs = 1..Len(fs)
           /\ \A i \in 1..Len(fs) : fs[i] \in Stored
           /\ \A i \in 1..Len(fs), v \in Stored :
                  /\ [fs EXCEPT ![i] = v] \in Seq(Stored)
                  /\ Len([fs EXCEPT ![i] = v]) = Len(fs)
                  /\ \A j \in 1..Len(fs) : [fs EXCEPT ![i] = v][j] = IF j = i THEN v ELSE fs[j]
BY LenProperties, ElementOfSeq, ExceptSeq

ObjGood(ob) == ob \in ObjType /\ ObjOK(ob)

LEMMA ObjFields ==
    ASSUME NEW ob \in ObjType
    PROVE  /\ ob.live \in BOOLEAN /\ ob.shape \in Seq(Fids) /\ ob.fields \in Seq(Stored)
           /\ ob.lazy \in SUBSET Nat /\ ob.ctx \in {NoContext, "Ok", "Err"} /\ ob.payload \in Stored
           /\ ob.dictMode \in BOOLEAN /\ ob.keys \in Seq(Fids) /\ ob.map \in Maps
           /\ ob.frozen \in BOOLEAN
BY DEF ObjType

LEMMA MadeStored ==
    ASSUME TemplatesOK, NEW ob, ObjGood(ob), NEW s, s \in ob.lazy
    PROVE  MadeMethod(ob, s) \in Stored
<1>1. /\ ob.ctx \in {"Ok", "Err"} /\ s \in template[ob.ctx].methods /\ ob.payload \in Stored
  BY ObjFields DEF ObjGood, ObjOK
<1>2. template[ob.ctx] \in TemplateType /\ TemplateOK(template[ob.ctx], ob.ctx)
  BY <1>1 DEF TemplatesOK
<1>3. template[ob.ctx].shape \in Seq(Fids) /\ s \in 1..Len(template[ob.ctx].shape)
  BY <1>1, <1>2 DEF TemplateType, TemplateOK
<1>4. template[ob.ctx].shape[s] \in Fids
  BY <1>3, ShapeFacts
<1>5. ob.payload.n \in 0..MaxInt
  BY <1>1, StoredValues
<1> QED BY <1>1, <1>4, <1>5, StoredValues DEF MadeMethod

(* An object keeps in order when lazy fields go and values change. *)
LEMMA Lazier ==
    ASSUME NEW ob, ObjGood(ob), NEW r \in ObjType,
           r.shape = ob.shape, Len(r.fields) = Len(ob.fields), r.dictMode = ob.dictMode,
           r.keys = ob.keys, r.map = ob.map, r.lazy \subseteq ob.lazy, r.frozen => r.live,
           r.lazy # {} => r.ctx = ob.ctx /\ r.payload = ob.payload,
           \A i \in r.lazy : r.fields[i] = ob.fields[i]
    PROVE  ObjGood(r)
BY DEF ObjGood, ObjOK

LEMMA ResetGood ==
    ASSUME NEW ob \in ObjType
    PROVE  /\ ContextReset(ob) \in ObjType
           /\ ContextReset(ob).lazy = ob.lazy /\ ContextReset(ob).shape = ob.shape
           /\ ContextReset(ob).fields = ob.fields /\ ContextReset(ob).dictMode = ob.dictMode
           /\ ContextReset(ob).keys = ob.keys /\ ContextReset(ob).map = ob.map
           /\ ContextReset(ob).live = ob.live /\ ContextReset(ob).frozen = ob.frozen
           /\ ob.lazy # {} => ContextReset(ob) = ob
BY StoredValues DEF ContextReset, ObjType

(* r is ob with other fields, some of its lazy fields, and its context as  *)
(* long as there are any.                                                  *)
Changed(ob, r, fs, lazy) ==
    /\ r \in ObjType /\ r.fields = fs /\ r.lazy = lazy /\ r.shape = ob.shape
    /\ r.dictMode = ob.dictMode /\ r.keys = ob.keys /\ r.map = ob.map
    /\ r.live = ob.live /\ r.frozen = ob.frozen
    /\ lazy # {} => r.ctx = ob.ctx /\ r.payload = ob.payload

LEMMA ChangedGood ==
    ASSUME NEW ob, ObjGood(ob), NEW r, NEW fs, NEW lazy, Changed(ob, r, fs, lazy),
           Len(fs) = Len(ob.fields), lazy \subseteq ob.lazy, \A i \in lazy : fs[i] = ob.fields[i]
    PROVE  ObjGood(r)
<1>1. ob.frozen => ob.live
  BY DEF ObjGood, ObjOK
<1> QED BY <1>1, Lazier DEF Changed

(* One field is written, and is not lazy any more. *)
LEMMA SlotWritten ==
    ASSUME NEW ob, ObjGood(ob), NEW s \in 1..Len(ob.fields), NEW v \in Stored
    PROVE  LET fs == [ob.fields EXCEPT ![s] = v]
           IN /\ fs \in Seq(Stored) /\ Len(fs) = Len(ob.fields)
              /\ \A i \in ob.lazy \ {s} : fs[i] = ob.fields[i]
              /\ \A i \in 1..Len(ob.fields) : fs[i] = IF i = s THEN v ELSE ob.fields[i]
<1> DEFINE fs == [ob.fields EXCEPT ![s] = v]
<1>1. ob.fields \in Seq(Stored)
  BY ObjFields DEF ObjGood
<1>2. ob.lazy \subseteq 1..Len(ob.fields)
  BY DEF ObjGood, ObjOK
<1>3. \A i \in 1..Len(ob.fields) : fs[i] = IF i = s THEN v ELSE ob.fields[i]
  BY <1>1, FieldFacts
<1>4. fs \in Seq(Stored) /\ Len(fs) = Len(ob.fields)
  BY <1>1, FieldFacts
<1> HIDE DEF fs
<1> QED BY <1>2, <1>3, <1>4 DEF fs

LEMMA MaterializedIs ==
    ASSUME TemplatesOK, NEW ob, ObjGood(ob), NEW s \in ob.lazy
    PROVE  /\ s \in 1..Len(ob.fields) /\ MadeMethod(ob, s) \in Stored
           /\ Changed(ob, Materialized(ob, s), [ob.fields EXCEPT ![s] = MadeMethod(ob, s)], ob.lazy \ {s})
<1> DEFINE v == MadeMethod(ob, s)
           fs == [ob.fields EXCEPT ![s] = v]
           r == [ob EXCEPT !.fields[s] = v, !.lazy = @ \ {s}]
<1>1. v \in Stored
  BY MadeStored
<1> HIDE DEF v
<1>2. ob \in ObjType /\ ob.fields \in Seq(Stored) /\ s \in 1..Len(ob.fields)
  BY ObjFields DEF ObjGood, ObjOK
<1>3. fs \in Seq(Stored)
  BY <1>1, <1>2, SlotWritten
<1>4. r = [ob EXCEPT !.fields = fs, !.lazy = @ \ {s}]
  BY <1>2 DEF ObjType
<1> HIDE DEF fs
<1>5. /\ r \in ObjType /\ r.fields = fs /\ r.lazy = ob.lazy \ {s} /\ r.shape = ob.shape
      /\ r.dictMode = ob.dictMode /\ r.keys = ob.keys /\ r.map = ob.map /\ r.ctx = ob.ctx
      /\ r.live = ob.live /\ r.frozen = ob.frozen /\ r.payload = ob.payload
  BY <1>2, <1>3, <1>4 DEF ObjType
<1> HIDE DEF r
<1>6. Materialized(ob, s) = ContextReset(r)
  BY DEF Materialized, r, v
<1> DEFINE c == ContextReset(r)
<1>7. /\ c \in ObjType /\ c.lazy = r.lazy /\ c.shape = r.shape /\ c.fields = r.fields
      /\ c.dictMode = r.dictMode /\ c.keys = r.keys /\ c.map = r.map /\ c.live = r.live
      /\ c.frozen = r.frozen /\ (r.lazy # {} => c = r)
  BY <1>5, ResetGood
<1> HIDE DEF c
<1>8. Changed(ob, c, fs, ob.lazy \ {s})
  BY <1>5, <1>7 DEF Changed
<1> QED BY <1>1, <1>2, <1>6, <1>8 DEF c, fs, v

LEMMA MaterializedGood ==
    ASSUME TemplatesOK, NEW ob, ObjGood(ob), NEW s
    PROVE  /\ ObjGood(Materialized(ob, s))
           /\ Materialized(ob, s).shape = ob.shape /\ Materialized(ob, s).live = ob.live
           /\ Materialized(ob, s).frozen = ob.frozen /\ Materialized(ob, s).dictMode = ob.dictMode
           /\ Len(Materialized(ob, s).fields) = Len(ob.fields)
           /\ s \notin Materialized(ob, s).lazy
<1>1. CASE s \notin ob.lazy
  BY <1>1 DEF Materialized
<1>2. CASE s \in ob.lazy
  <2> DEFINE r == Materialized(ob, s)
             fs == [ob.fields EXCEPT ![s] = MadeMethod(ob, s)]
  <2>1. /\ s \in 1..Len(ob.fields) /\ MadeMethod(ob, s) \in Stored
        /\ Changed(ob, r, fs, ob.lazy \ {s})
    BY <1>2, MaterializedIs
  <2>2. Len(fs) = Len(ob.fields) /\ \A i \in ob.lazy \ {s} : fs[i] = ob.fields[i]
    BY <2>1, SlotWritten
  <2> HIDE DEF fs, r
  <2>3. ObjGood(r)
    BY <2>1, <2>2, ChangedGood
  <2>4. /\ r.shape = ob.shape /\ r.live = ob.live /\ r.frozen = ob.frozen
        /\ r.dictMode = ob.dictMode /\ r.fields = fs /\ s \notin r.lazy
    BY <2>1 DEF Changed
  <2> QED BY <2>2, <2>3, <2>4 DEF r
<1> QED BY <1>1, <1>2

LEMMA WrittenIs ==
    ASSUME NEW ob, ObjGood(ob), NEW s \in 1..Len(ob.fields), NEW v \in Stored
    PROVE  Changed(ob, Written(ob, s, v), [ob.fields EXCEPT ![s] = v], ob.lazy \ {s})
<1> DEFINE b == [ob EXCEPT !.lazy = @ \ {s}]
           c == ContextReset(b)
           r == [c EXCEPT !.fields[s] = v]
           fs == [ob.fields EXCEPT ![s] = v]
<1>1. ob \in ObjType
  BY DEF ObjGood
<1>2. /\ b \in ObjType /\ b.lazy = ob.lazy \ {s} /\ b.fields = ob.fields /\ b.shape = ob.shape
      /\ b.dictMode = ob.dictMode /\ b.keys = ob.keys /\ b.map = ob.map /\ b.ctx = ob.ctx
      /\ b.live = ob.live /\ b.frozen = ob.frozen /\ b.payload = ob.payload
  BY <1>1 DEF ObjType
<1> HIDE DEF b
<1>3. /\ c \in ObjType /\ c.lazy = b.lazy /\ c.shape = b.shape /\ c.fields = b.fields
      /\ c.dictMode = b.dictMode /\ c.keys = b.keys /\ c.map = b.map /\ c.live = b.live
      /\ c.frozen = b.frozen /\ (b.lazy # {} => c = b)
  BY <1>2, ResetGood
<1>4. Written(ob, s, v) = r
  BY DEF Written, LazyCleared, b
<1> HIDE DEF c
<1>5. fs \in Seq(Stored)
  BY SlotWritten
<1>6. r = [c EXCEPT !.fields = fs]
  BY <1>2, <1>3 DEF ObjType
<1> HIDE DEF fs
<1>7. /\ r \in ObjType /\ r.fields = fs /\ r.lazy = c.lazy /\ r.shape = c.shape
      /\ r.dictMode = c.dictMode /\ r.keys = c.keys /\ r.map = c.map /\ r.ctx = c.ctx
      /\ r.live = c.live /\ r.frozen = c.frozen /\ r.payload = c.payload
  BY <1>3, <1>5, <1>6 DEF ObjType
<1> HIDE DEF r
<1>8. Changed(ob, r, fs, ob.lazy \ {s})
  BY <1>2, <1>3, <1>7 DEF Changed
<1> QED BY <1>4, <1>8 DEF fs

LEMMA WrittenGood ==
    ASSUME NEW ob, ObjGood(ob), NEW s \in 1..Len(ob.fields), NEW v \in Stored
    PROVE  /\ ObjGood(Written(ob, s, v))
           /\ Written(ob, s, v).shape = ob.shape /\ Written(ob, s, v).live = ob.live
           /\ Written(ob, s, v).frozen = ob.frozen /\ Written(ob, s, v).dictMode = ob.dictMode
<1> DEFINE r == Written(ob, s, v)
           fs == [ob.fields EXCEPT ![s] = v]
<1>1. Changed(ob, r, fs, ob.lazy \ {s})
  BY WrittenIs
<1>2. Len(fs) = Len(ob.fields) /\ \A i \in ob.lazy \ {s} : fs[i] = ob.fields[i]
  BY SlotWritten
<1> HIDE DEF fs, r
<1>3. ObjGood(r)
  BY <1>1, <1>2, ChangedGood
<1> QED BY <1>1, <1>3 DEF Changed, r

(* The map of an object that gives up its shape. *)
LEMMA PromotedGood ==
    ASSUME TemplatesOK, NEW ob, ObjGood(ob), ~ob.dictMode
    PROVE  /\ ObjGood(Promoted(ob)) /\ Promoted(ob).dictMode
           /\ Promoted(ob).live = ob.live /\ Promoted(ob).frozen = ob.frozen
           /\ Promoted(ob).keys = ob.shape
<1> DEFINE b == [ob EXCEPT !.lazy = {}]
           c == ContextReset(b)
           At(f) == LET s == SlotOf(ob.shape, f)
                    IN IF s \in ob.lazy THEN MadeMethod(ob, s) ELSE ob.fields[s]
           m == [f \in InUse(ob.shape) |-> At(f)]
           r == [c EXCEPT !.keys = ob.shape, !.map = m, !.fields = <<>>, !.shape = <<>>, !.dictMode = TRUE]
<1>1. ob \in ObjType /\ ob.fields \in Seq(Stored) /\ ob.shape \in Seq(Fids) /\ Len(ob.shape) = Len(ob.fields)
  BY ObjFields DEF ObjGood, ObjOK
<1>2. ASSUME NEW f \in InUse(ob.shape) PROVE At(f) \in Stored
  <2>1. f \in Fids /\ SlotOf(ob.shape, f) \in 1..Len(ob.fields)
    BY <1>1, ShapeFacts, SlotFacts
  <2>2. ob.fields[SlotOf(ob.shape, f)] \in Stored
    BY <1>1, <2>1, FieldFacts
  <2>3. SlotOf(ob.shape, f) \in ob.lazy => MadeMethod(ob, SlotOf(ob.shape, f)) \in Stored
    BY MadeStored
  <2> QED BY <2>2, <2>3
<1> HIDE DEF At
<1>3. m \in Maps /\ DOMAIN m = InUse(ob.shape)
  <2>1. InUse(ob.shape) \in SUBSET Fids
    BY <1>1, ShapeFacts
  <2> QED BY <1>2, <2>1 DEF Maps
<1>4. /\ b \in ObjType /\ b.lazy = {} /\ b.live = ob.live /\ b.frozen = ob.frozen
  BY <1>1 DEF ObjType
<1> HIDE DEF b
<1>5. c \in ObjType /\ c.lazy = {} /\ c.live = ob.live /\ c.frozen = ob.frozen
  BY <1>4, ResetGood
<1>6. Promoted(ob) = r
  BY DEF Promoted, b, At
<1> HIDE DEF c, m
<1>7. <<>> \in Seq(Stored) /\ Len(<<>>) = 0
  OBVIOUS
<1>8. /\ r \in ObjType /\ r.keys = ob.shape /\ r.map = m /\ r.fields = <<>> /\ r.shape = <<>>
      /\ r.dictMode = TRUE /\ r.lazy = {} /\ r.live = ob.live /\ r.frozen = ob.frozen
  BY <1>1, <1>3, <1>5, <1>7, EmptyShape DEF ObjType
<1> HIDE DEF r
<1>9. ObjOK(r)
  <2>1. ob.frozen => ob.live
    BY DEF ObjGood, ObjOK
  <2> QED BY <1>3, <1>7, <1>8, <2>1, EmptyShape DEF ObjOK
<1> QED BY <1>6, <1>8, <1>9 DEF ObjGood

LEMMA DictPutGood ==
    ASSUME NEW ob, ObjGood(ob), ob.dictMode, NEW f \in Fids, NEW v \in Stored
    PROVE  /\ ObjGood(DictPut(ob, f, v)) /\ DictPut(ob, f, v).dictMode
           /\ DictPut(ob, f, v).live = ob.live /\ DictPut(ob, f, v).frozen = ob.frozen
<1> DEFINE r == DictPut(ob, f, v)
<1>1. /\ ob \in ObjType /\ ob.keys \in Seq(Fids) /\ ob.map \in Maps
      /\ InUse(ob.keys) = DOMAIN ob.map
  BY ObjFields DEF ObjGood, ObjOK
<1>2. DOMAIN ob.map \subseteq Fids /\ ob.map \in [DOMAIN ob.map -> Stored]
  BY <1>1, MapFacts
<1>3. CASE f \in DOMAIN ob.map
  <2> DEFINE m == [ob.map EXCEPT ![f] = v]
  <2>1. m \in [DOMAIN ob.map -> Stored] /\ DOMAIN m = DOMAIN ob.map
    BY <1>2
  <2>2. m \in Maps
    BY <1>2, <2>1 DEF Maps
  <2>3. r = [ob EXCEPT !.map = m]
    BY <1>1, <1>3 DEF DictPut, ObjType
  <2> HIDE DEF m, r
  <2>4. /\ r \in ObjType /\ r.map = m /\ r.keys = ob.keys /\ r.shape = ob.shape /\ r.fields = ob.fields
        /\ r.lazy = ob.lazy /\ r.dictMode = ob.dictMode /\ r.live = ob.live /\ r.frozen = ob.frozen
        /\ r.ctx = ob.ctx
    BY <1>1, <2>2, <2>3 DEF ObjType
  <2>5. ObjOK(r)
    BY <1>1, <2>1, <2>4 DEF ObjOK, ObjGood
  <2> QED BY <2>4, <2>5 DEF ObjGood, r
<1>4. CASE f \notin DOMAIN ob.map
  <2> DEFINE m == [g \in DOMAIN ob.map \cup {f} |-> IF g = f THEN v ELSE ob.map[g]]
             ks == Append(ob.keys, f)
  <2>1. m \in [DOMAIN ob.map \cup {f} -> Stored] /\ DOMAIN m = DOMAIN ob.map \cup {f}
    BY <1>2
  <2>2. m \in Maps
    <3>1. DOMAIN ob.map \cup {f} \in SUBSET Fids
      BY <1>2
    <3> QED BY <2>1, <3>1 DEF Maps
  <2>3. ks \in Seq(Fids) /\ InUse(ks) = InUse(ob.keys) \cup {f}
    <3>1. Len(ob.keys) \in Nat /\ DOMAIN ob.keys = 1..Len(ob.keys)
      BY <1>1, ShapeFacts
    <3>2. /\ ks \in Seq(Fids) /\ Len(ks) = Len(ob.keys) + 1
          /\ \A i \in 1..Len(ob.keys) : ks[i] = ob.keys[i]
          /\ ks[Len(ob.keys) + 1] = f
      BY <1>1, AppendProperties
    <3>3. DOMAIN ks = 1..Len(ob.keys) + 1
      BY <3>2, LenProperties
    <3> HIDE DEF ks
    <3>4. \A i \in 1..Len(ob.keys) + 1 : i \in 1..Len(ob.keys) \/ i = Len(ob.keys) + 1
      BY <3>1
    <3>5. 1..Len(ob.keys) \subseteq 1..Len(ob.keys) + 1 /\ Len(ob.keys) + 1 \in 1..Len(ob.keys) + 1
      BY <3>1
    <3> QED BY <3>1, <3>2, <3>3, <3>4, <3>5 DEF InUse
  <2>4. r = [ob EXCEPT !.keys = ks, !.map = m]
    BY <1>1, <1>4 DEF DictPut, ObjType
  <2> HIDE DEF m, ks, r
  <2>5. /\ r \in ObjType /\ r.map = m /\ r.keys = ks /\ r.shape = ob.shape /\ r.fields = ob.fields
        /\ r.lazy = ob.lazy /\ r.dictMode = ob.dictMode /\ r.live = ob.live /\ r.frozen = ob.frozen
        /\ r.ctx = ob.ctx
    BY <1>1, <2>2, <2>3, <2>4 DEF ObjType
  <2>6. ObjOK(r)
    BY <1>1, <2>1, <2>3, <2>5 DEF ObjOK, ObjGood
  <2> QED BY <2>5, <2>6 DEF ObjGood, r
<1> QED BY <1>3, <1>4

(* set_field keeps an object in order, whatever it does to its             *)
(* representation.                                                         *)
LEMMA FieldSetGood ==
    ASSUME TemplatesOK, NEW ob, ObjGood(ob), NEW f \in Fids, NEW v \in Stored
    PROVE  ObjGood(FieldSet(ob, f, v)) /\ FieldSet(ob, f, v).live = ob.live
           /\ FieldSet(ob, f, v).frozen = ob.frozen
<1> DEFINE at == SlotOf(ob.shape, f)
<1>1. /\ ob \in ObjType /\ ob.shape \in Seq(Fids) /\ ob.fields \in Seq(Stored)
      /\ Len(ob.shape) = Len(ob.fields) /\ ShapeOK(ob.shape) /\ Len(ob.shape) \in Nat
      /\ ob.frozen \in BOOLEAN /\ ob.dictMode \in BOOLEAN
  BY ObjFields, ShapeFacts DEF ObjGood, ObjOK
<1>2. /\ at # NoSlot => at \in 1..Len(ob.fields)
      /\ at # NoSlot <=> f \in InUse(ob.shape)
  BY <1>1, SlotFacts
<1> HIDE DEF at
<1>3. CASE ob.frozen
  BY <1>3 DEF FieldSet
<1>4. CASE ~ob.frozen /\ ob.dictMode
  <2>1. FieldSet(ob, f, v) = DictPut(ob, f, v)
    BY <1>4 DEF FieldSet
  <2> QED BY <1>4, <2>1, DictPutGood
<1>5. CASE ~ob.frozen /\ ~ob.dictMode /\ at # NoSlot
  <2>1. FieldSet(ob, f, v) = Written(ob, at, v)
    BY <1>5 DEF FieldSet, at
  <2>2. at \in 1..Len(ob.fields)
    BY <1>2, <1>5
  <2>3. ASSUME NEW k \in 1..Len(ob.fields)
        PROVE  /\ ObjGood(Written(ob, k, v))
               /\ Written(ob, k, v).live = ob.live /\ Written(ob, k, v).frozen = ob.frozen
    BY WrittenGood
  <2> QED BY <2>1, <2>2, <2>3
<1>6. CASE ~ob.frozen /\ ~ob.dictMode /\ at = NoSlot /\ Len(ob.shape) >= Threshold
  <2>1. FieldSet(ob, f, v) = DictPut(Promoted(ob), f, v)
    BY <1>6 DEF FieldSet, at
  <2>2. /\ ObjGood(Promoted(ob)) /\ Promoted(ob).dictMode
        /\ Promoted(ob).live = ob.live /\ Promoted(ob).frozen = ob.frozen
    BY <1>6, PromotedGood
  <2> QED BY <2>1, <2>2, DictPutGood
<1>7. CASE ~ob.frozen /\ ~ob.dictMode /\ at = NoSlot /\ ~(Len(ob.shape) >= Threshold)
  <2> DEFINE sh == Append(ob.shape, f)
             fs == Append(ob.fields, v)
             r == [ob EXCEPT !.shape = sh, !.fields = fs]
  <2>1. FieldSet(ob, f, v) = r
    <3>1. FieldSet(ob, f, v) = [ob EXCEPT !.shape = Extend(@, f), !.fields = Append(@, v)]
      BY <1>7 DEF FieldSet, at
    <3>2. Extend(ob.shape, f) = sh
      BY <1>7 DEF Extend, at
    <3> QED BY <1>1, <3>1, <3>2 DEF ObjType
  <2>2. Len(ob.shape) # Threshold
    BY <1>1, <1>7, ShapesAssumption
  <2>3. /\ sh \in Seq(Fids) /\ Len(sh) = Len(ob.shape) + 1
        /\ \A i \in 1..Len(ob.shape) : sh[i] = ob.shape[i]
        /\ ShapeOK(sh)
    BY <1>1, <1>2, <1>7, <2>2, ShapeGrown
  <2>4. /\ fs \in Seq(Stored) /\ Len(fs) = Len(ob.fields) + 1
        /\ \A i \in 1..Len(ob.fields) : fs[i] = ob.fields[i]
    BY <1>1, AppendProperties
  <2> HIDE DEF sh, fs
  <2>5. /\ r \in ObjType /\ r.shape = sh /\ r.fields = fs /\ r.lazy = ob.lazy /\ r.ctx = ob.ctx
        /\ r.dictMode = ob.dictMode /\ r.live = ob.live /\ r.frozen = ob.frozen
        /\ r.payload = ob.payload
    BY <1>1, <2>3, <2>4 DEF ObjType
  <2> HIDE DEF r
  <2>6. ob.lazy \subseteq 1..Len(ob.shape) => ob.lazy \subseteq 1..Len(sh)
    BY <1>1, <2>3
  <2>7. Len(r.shape) = Len(r.fields)
    BY <1>1, <2>3, <2>4, <2>5
  <2>8. ASSUME r.lazy # {}
        PROVE  /\ r.ctx # NoContext /\ r.payload = Integer(r.payload.n)
               /\ r.lazy \subseteq template[r.ctx].methods
               /\ r.lazy \subseteq 1..Len(r.shape)
               /\ \A i \in r.lazy : r.shape[i] = template[r.ctx].shape[i]
               /\ \A i \in r.lazy : r.fields[i] = None
    <3>1. /\ ob.ctx # NoContext /\ ob.payload = Integer(ob.payload.n)
          /\ ob.lazy \subseteq template[ob.ctx].methods
          /\ ob.lazy \subseteq 1..Len(ob.shape)
          /\ \A i \in ob.lazy : ob.shape[i] = template[ob.ctx].shape[i]
          /\ \A i \in ob.lazy : ob.fields[i] = None
      BY <2>5, <2>8 DEF ObjGood, ObjOK
    <3> QED BY <1>1, <2>3, <2>4, <2>5, <2>6, <3>1
  <2>9. ObjOK(r)
    <3>1. ob.frozen => ob.live
      BY DEF ObjGood, ObjOK
    <3> QED BY <1>7, <2>3, <2>5, <2>7, <2>8, <3>1 DEF ObjOK
  <2> QED BY <2>1, <2>5, <2>9 DEF ObjGood
<1> QED BY <1>1, <1>3, <1>4, <1>5, <1>6, <1>7

LEMMA FieldTouchedGood ==
    ASSUME TemplatesOK, NEW ob, ObjGood(ob), NEW f
    PROVE  /\ ObjGood(FieldTouched(ob, f)) /\ FieldTouched(ob, f).live = ob.live
           /\ FieldTouched(ob, f).frozen = ob.frozen /\ FieldTouched(ob, f).shape = ob.shape
           /\ FieldTouched(ob, f).dictMode = ob.dictMode
BY MaterializedGood DEF FieldTouched

LEMMA EmptyObjects ==
    /\ ObjGood(Dead) /\ ObjGood(NewObj)
    /\ NewObj.shape = <<>> /\ NewObj.fields = <<>> /\ NewObj.lazy = {} /\ NewObj.dictMode = FALSE
    /\ NewObj.live = TRUE /\ NewObj.frozen = FALSE
<1>1. <<>> \in Seq(Fids) /\ <<>> \in Seq(Stored) /\ Len(<<>>) = 0 /\ ShapeOK(<<>>)
  BY EmptyShape
<1>2. <<>> \in Maps
  <2>1. <<>> \in [{} -> Stored]
    OBVIOUS
  <2> QED BY <2>1 DEF Maps
<1>3. Dead \in ObjType
  BY <1>1, <1>2, StoredValues DEF Dead, ObjType, NoContext
<1>4. /\ NewObj \in ObjType
      /\ NewObj.shape = <<>> /\ NewObj.fields = <<>> /\ NewObj.lazy = {} /\ NewObj.dictMode = FALSE
      /\ NewObj.live = TRUE /\ NewObj.frozen = FALSE
  BY <1>3 DEF Dead, NewObj, ObjType
<1>5. /\ Dead.shape = <<>> /\ Dead.fields = <<>> /\ Dead.lazy = {} /\ Dead.dictMode = FALSE
      /\ Dead.frozen = FALSE
  BY DEF Dead
<1>6. ObjOK(Dead)
  BY <1>1, <1>5 DEF ObjOK
<1>7. ObjOK(NewObj)
  BY <1>1, <1>4 DEF ObjOK
<1> QED BY <1>3, <1>4, <1>6, <1>7 DEF ObjGood

(* An object that is given all its fields at once. *)
Filled(s, fs) == [NewObj EXCEPT !.shape = s, !.fields = fs]

LEMMA FilledGood ==
    ASSUME NEW s \in Seq(Fids), ShapeOK(s), NEW fs \in Seq(Stored), Len(fs) = Len(s)
    PROVE  ObjGood(Filled(s, fs))
<1> DEFINE r == Filled(s, fs)
<1>1. NewObj \in ObjType
  BY EmptyObjects DEF ObjGood
<1>2. r \in ObjType
  BY <1>1 DEF ObjType, Filled
<1>3. r.shape = s /\ r.fields = fs /\ r.lazy = {} /\ r.dictMode = FALSE /\ r.frozen = FALSE
  BY DEF Filled, NewObj, Dead
<1> HIDE DEF r
<1>4. ObjOK(r)
  BY <1>3 DEF ObjOK
<1> QED BY <1>2, <1>4 DEF ObjGood, r

-----------------------------------------------------------------------------
(* The parts of the invariant that one object, or one cache, changes.      *)

LEMMA OneObject ==
    ASSUME ObjectsOK, NEW o \in Objects
    PROVE  ObjGood(obj[o]) /\ obj[o] \in ObjType /\ obj[o].shape \in Seq(Fids)
BY ObjFields DEF ObjectsOK, ObjGood

LEMMA ObjectChanged ==
    ASSUME ObjectsOK, NEW o \in Objects, NEW r, ObjGood(r), obj' = [obj EXCEPT ![o] = r],
           UNCHANGED template
    PROVE  ObjectsOK'
<1>1. r \in ObjType /\ ObjOK(r)
  BY DEF ObjGood
<1>2. obj' \in [Objects -> ObjType]
  BY <1>1 DEF ObjectsOK
<1>3. ASSUME NEW p \in Objects PROVE ObjOK(obj[p])'
  <2>1. obj'[p] = IF p = o THEN r ELSE obj[p]
    BY DEF ObjectsOK
  <2>2. ObjOK(obj[p])
    BY DEF ObjectsOK
  <2>3. CASE p = o
    BY <1>1, <2>1, <2>3 DEF ObjOK
  <2>4. CASE p # o
    BY <2>1, <2>2, <2>4 DEF ObjOK
  <2> QED BY <2>3, <2>4
<1> QED BY <1>2, <1>3 DEF ObjectsOK

LEMMA ObjectsUnchanged ==
    ASSUME ObjectsOK, UNCHANGED <<obj, template>>
    PROVE  ObjectsOK'
BY DEF ObjectsOK, ObjOK

LEMMA CachesUnchanged ==
    ASSUME IInv, UnchangedCaches
    PROVE  /\ TemplatesOK' /\ BuildingOK' /\ PropIcOK' /\ PropStubOK' /\ JsIcOK'
           /\ MethodIcOK' /\ SitesOK' /\ TrapOK' /\ family' \in Families
<1>1. TemplatesOK' /\ BuildingOK' /\ family' \in Families
  BY DEF IInv, UnchangedCaches, TemplatesOK, BuildingOK
<1>2. PropIcOK' /\ PropStubOK'
  BY DEF IInv, UnchangedCaches, PropIcOK, PropStubOK
<1>3. JsIcOK' /\ MethodIcOK'
  BY DEF IInv, UnchangedCaches, JsIcOK, MethodIcOK
<1>4. SitesOK' /\ TrapOK'
  BY DEF IInv, UnchangedCaches, SitesOK, TrapOK
<1> QED BY <1>1, <1>2, <1>3, <1>4

LEMMA UsedFacts ==
    ASSUME family \in Families, NEW w \in Used[family]
    PROVE  w[1] \in Fids /\ w[2] \in Stored
<1>1. Used[family] \subseteq Fids \X Values
  BY ShapesAssumption
<1> QED BY <1>1, StoredValues

LEMMA MadeFacts ==
    ASSUME family \in Families, NEW r \in Made[family]
    PROVE  r[1] \in {"Ok", "Err"} /\ r[2] \in 0..MaxInt
<1>1. Made[family] \subseteq {"Ok", "Err"} \X (0..MaxInt)
  BY ShapesAssumption
<1> QED BY <1>1

(* The values of a literal, one for each key. *)
LEMMA LiteralFacts ==
    ASSUME family \in Families, NEW ks \in Literals,
           NEW vs \in [DOMAIN ks -> {w[2] : w \in Used[family]}]
    PROVE  ks \in Seq(Fids) /\ vs \in Seq(Stored) /\ Len(vs) = Len(ks)
<1>1. ks \in Seq(Fids) /\ Len(ks) \in Nat /\ DOMAIN ks = 1..Len(ks)
  BY ShapeFacts, ShapesAssumption
<1>2. \A i \in 1..Len(ks) : vs[i] \in Stored
  BY <1>1, UsedFacts
<1>3. vs \in [1..Len(ks) -> Stored]
  BY <1>1, <1>2
<1>4. vs \in Seq(Stored)
  BY <1>1, <1>3, SeqDef
<1>5. DOMAIN vs = 1..Len(vs) /\ Len(vs) \in Nat
  BY <1>4, LenProperties
<1>6. 1..Len(vs) = 1..Len(ks)
  BY <1>3, <1>5
<1>7. Len(vs) = Len(ks)
  <2>1. \A a, b \in Nat : 1..a = 1..b => a = b
    OBVIOUS
  <2> QED BY <1>1, <1>5, <1>6, <2>1
<1> QED BY <1>1, <1>4, <1>7

-----------------------------------------------------------------------------
(* Operations without a cache.                                             *)

LEMMA IInvParts ==
    ASSUME IInv
    PROVE  /\ ObjectsOK /\ TemplatesOK /\ BuildingOK /\ PropIcOK /\ PropStubOK /\ JsIcOK
           /\ MethodIcOK /\ SitesOK /\ TrapOK /\ family \in Families
BY DEF IInv

(* An operation that changes one object and no cache. *)
LEMMA ObjectOnly ==
    ASSUME IInv, UnchangedCaches, NEW o \in Objects, NEW r, ObjGood(r),
           obj' = [obj EXCEPT ![o] = r]
    PROVE  IInv'
<1>1. ObjectsOK'
  BY IInvParts, ObjectChanged DEF UnchangedCaches
<1> QED BY <1>1, CachesUnchanged DEF IInv

LEMMA NewObjectKeeps ==
    ASSUME IInv, NEW o \in Objects, NewObject(o)
    PROVE  IInv'
<1>1. obj' = [obj EXCEPT ![o] = NewObj] /\ UnchangedCaches
  BY DEF NewObject
<1> QED BY <1>1, EmptyObjects, ObjectOnly

LEMMA DropKeeps ==
    ASSUME IInv, NEW o \in Objects, Drop(o)
    PROVE  IInv'
<1>1. obj' = [obj EXCEPT ![o] = Dead] /\ UnchangedCaches
  BY DEF Drop
<1> QED BY <1>1, EmptyObjects, ObjectOnly

LEMMA FreezeKeeps ==
    ASSUME IInv, NEW o \in Objects, Freeze(o)
    PROVE  IInv'
<1> DEFINE r == [obj[o] EXCEPT !.frozen = TRUE]
<1>1. ObjGood(obj[o]) /\ obj[o] \in ObjType
  BY IInvParts, OneObject
<1>2. obj' = [obj EXCEPT ![o] = r] /\ UnchangedCaches
  BY DEF Freeze
<1>3. /\ r \in ObjType /\ r.shape = obj[o].shape /\ r.fields = obj[o].fields
      /\ r.dictMode = obj[o].dictMode /\ r.keys = obj[o].keys /\ r.map = obj[o].map
      /\ r.lazy = obj[o].lazy /\ r.ctx = obj[o].ctx /\ r.payload = obj[o].payload
      /\ r.live = obj[o].live
  BY <1>1 DEF ObjType
<1>4. obj[o].live
  BY DEF Freeze, Running
<1> HIDE DEF r
<1>5. ObjGood(r)
  BY <1>1, <1>3, <1>4, Lazier
<1> QED BY <1>2, <1>5, ObjectOnly

LEMMA GetFieldKeeps ==
    ASSUME IInv, NEW o \in Objects, NEW f, GetField(o, f)
    PROVE  IInv'
<1>1. ObjGood(FieldTouched(obj[o], f))
  BY IInvParts, OneObject, FieldTouchedGood
<1>2. obj' = [obj EXCEPT ![o] = FieldTouched(obj[o], f)] /\ UnchangedCaches
  BY IInvParts DEF GetField, ObjectsOK
<1> QED BY <1>1, <1>2, ObjectOnly

LEMMA SetFieldKeeps ==
    ASSUME IInv, NEW o \in Objects, NEW f \in Fids, NEW v \in Stored, SetField(o, f, v)
    PROVE  IInv'
<1>1. ObjGood(FieldSet(obj[o], f, v))
  BY IInvParts, OneObject, FieldSetGood
<1>2. obj' = [obj EXCEPT ![o] = FieldSet(obj[o], f, v)] /\ UnchangedCaches
  BY IInvParts DEF SetField, ObjectsOK
<1> QED BY <1>1, <1>2, ObjectOnly

LEMMA NothingChanged ==
    ASSUME IInv, UNCHANGED obj, UnchangedCaches
    PROVE  IInv'
<1>1. ObjectsOK'
  BY IInvParts, ObjectsUnchanged DEF UnchangedCaches
<1> QED BY <1>1, CachesUnchanged DEF IInv

-----------------------------------------------------------------------------
(* The interpreter.                                                        *)

LEMMA PropIcFilledGood ==
    ASSUME PropIcOK, NEW ob, ObjGood(ob), NEW f \in Fids, propIc' = PropIcFilled(ob, f)
    PROVE  PropIcOK'
<1> DEFINE e == Entry(ob.shape, f, SlotOf(ob.shape, f))
           P == {PropIcOf[g] : g \in Fids}
<1>1. CASE ~ob.dictMode /\ SlotOf(ob.shape, f) # NoSlot
  <2>1. ob.shape \in Seq(Fids)
    BY ObjFields DEF ObjGood
  <2>2. SlotOf(ob.shape, f) \in Nat
    BY <2>1, SlotFacts, ShapeFacts
  <2>3. e \in EntryType /\ e.shape = ob.shape /\ e.slot = SlotOf(ob.shape, f) /\ e.name = f
    BY <2>1, <2>2 DEF Entry, EntryType, AnyShape
  <2>4. Direct(e)
    BY <1>1, <2>3 DEF Direct
  <2>5. propIc' = [propIc EXCEPT ![PropIcOf[f]] = e]
    BY <1>1 DEF PropIcFilled
  <2> HIDE DEF e
  <2>6. PropIcOf[f] \in P
    OBVIOUS
  <2>7. propIc' \in [P -> EntryType]
    BY <2>3, <2>5 DEF PropIcOK
  <2>8. \A i \in P : Direct(propIc'[i])
    BY <2>4, <2>5, <2>6 DEF PropIcOK
  <2> QED BY <2>7, <2>8 DEF PropIcOK, Direct
<1>2. CASE ~(~ob.dictMode /\ SlotOf(ob.shape, f) # NoSlot)
  <2>1. propIc' = propIc
    BY <1>2 DEF PropIcFilled
  <2> QED BY <2>1 DEF PropIcOK
<1> QED BY <1>1, <1>2

LEMMA ButPropIcUnchanged ==
    ASSUME IInv, UnchangedButPropIc
    PROVE  /\ TemplatesOK' /\ BuildingOK' /\ PropStubOK' /\ JsIcOK'
           /\ MethodIcOK' /\ SitesOK' /\ TrapOK' /\ family' \in Families
           /\ UNCHANGED template
<1>1. TemplatesOK' /\ BuildingOK' /\ family' \in Families /\ UNCHANGED template
  BY DEF IInv, UnchangedButPropIc, TemplatesOK, BuildingOK
<1>2. PropStubOK'
  BY DEF IInv, UnchangedButPropIc, PropStubOK
<1>3. JsIcOK' /\ MethodIcOK'
  BY DEF IInv, UnchangedButPropIc, JsIcOK, MethodIcOK
<1>4. SitesOK' /\ TrapOK'
  BY DEF IInv, UnchangedButPropIc, SitesOK, TrapOK
<1> QED BY <1>1, <1>2, <1>3, <1>4

LEMMA GetPropertyKeeps ==
    ASSUME IInv, NEW o \in Objects, NEW f \in Fids, GetProperty(o, f)
    PROVE  IInv'
<1> DEFINE ob == obj[o]
           slot == propIc[PropIcOf[f]].slot
<1>1. ObjGood(ob) /\ ob \in ObjType
  BY IInvParts, OneObject
<1>2. UnchangedButPropIc
  BY DEF GetProperty
<1>3. \/ obj' = [obj EXCEPT ![o] = Materialized(ob, slot)] /\ UNCHANGED propIc
      \/ obj' = [obj EXCEPT ![o] = FieldTouched(ob, f)] /\ propIc' = PropIcFilled(ob, f)
  BY DEF GetProperty
<1>4. ObjGood(Materialized(ob, slot)) /\ ObjGood(FieldTouched(ob, f))
  BY <1>1, IInvParts, MaterializedGood, FieldTouchedGood
<1> HIDE DEF ob, slot
<1>5. ObjectsOK'
  BY <1>2, <1>3, <1>4, IInvParts, ButPropIcUnchanged, ObjectChanged
<1>6. PropIcOK'
  <2>1. CASE UNCHANGED propIc
    BY <2>1, IInvParts DEF PropIcOK
  <2>2. CASE propIc' = PropIcFilled(ob, f)
    BY <1>1, <2>2, IInvParts, PropIcFilledGood
  <2> QED BY <1>3, <2>1, <2>2
<1> QED BY <1>2, <1>5, <1>6, ButPropIcUnchanged DEF IInv

LEMMA SetPropertyKeeps ==
    ASSUME IInv, NEW o \in Objects, NEW f \in Fids, NEW v \in Stored, SetProperty(o, f, v)
    PROVE  IInv'
<1> DEFINE ob == obj[o]
           slot == propIc[PropIcOf[f]].slot
<1>1. ObjGood(ob) /\ ob \in ObjType /\ ob.fields \in Seq(Stored)
  BY IInvParts, OneObject, ObjFields
<1>2. UnchangedButPropIc
  BY DEF SetProperty
<1>3. \/ /\ slot \in DOMAIN ob.fields
         /\ obj' = [obj EXCEPT ![o] = Written(ob, slot, v)] /\ UNCHANGED propIc
      \/ /\ obj' = [obj EXCEPT ![o] = FieldSet(ob, f, v)]
         /\ propIc' = PropIcFilled(FieldSet(ob, f, v), f)
  BY DEF SetProperty, PropIcHit
<1> HIDE DEF ob, slot
<1>4. slot \in DOMAIN ob.fields => ObjGood(Written(ob, slot, v))
  <2>1. DOMAIN ob.fields = 1..Len(ob.fields)
    BY <1>1, FieldFacts
  <2> QED BY <1>1, <2>1, WrittenGood
<1>5. ObjGood(FieldSet(ob, f, v))
  BY <1>1, IInvParts, FieldSetGood
<1>6. ObjectsOK'
  BY <1>2, <1>3, <1>4, <1>5, IInvParts, ButPropIcUnchanged, ObjectChanged
<1>7. PropIcOK'
  <2>1. CASE UNCHANGED propIc
    BY <2>1, IInvParts DEF PropIcOK
  <2>2. CASE propIc' = PropIcFilled(FieldSet(ob, f, v), f)
    BY <1>5, <2>2, IInvParts, PropIcFilledGood
  <2> QED BY <1>3, <2>1, <2>2
<1> QED BY <1>2, <1>6, <1>7, ButPropIcUnchanged DEF IInv

(* What most operations leave alone: every cache, and the templates. *)
CachesKept == UNCHANGED <<propIc, propStub, jsIc, methodIc, siteShape, jsonShape, trap, template, family>>

LEMMA KeptCaches ==
    ASSUME IInv, CachesKept
    PROVE  /\ TemplatesOK' /\ PropIcOK' /\ PropStubOK' /\ JsIcOK'
           /\ MethodIcOK' /\ SitesOK' /\ TrapOK' /\ family' \in Families
<1>1. TemplatesOK' /\ family' \in Families
  BY DEF IInv, CachesKept, TemplatesOK
<1>2. PropIcOK' /\ PropStubOK'
  BY DEF IInv, CachesKept, PropIcOK, PropStubOK
<1>3. JsIcOK' /\ MethodIcOK'
  BY DEF IInv, CachesKept, JsIcOK, MethodIcOK
<1>4. SitesOK' /\ TrapOK'
  BY DEF IInv, CachesKept, SitesOK, TrapOK
<1> QED BY <1>1, <1>2, <1>3, <1>4

LEMMA MakeObjectKeeps ==
    ASSUME IInv, NEW o \in Objects, NEW ks \in Seq(Fids), NEW vs \in Seq(Stored),
           Len(vs) = Len(ks), MakeObject(o, ks, vs)
    PROVE  IInv'
<1>1. UNCHANGED <<propIc, propStub, jsIc, methodIc, siteShape, jsonShape, trap, template, family>>
  BY DEF MakeObject
<1>2. CachesKept
  BY <1>1 DEF CachesKept
<1>3. CASE /\ siteShape = ks
           /\ obj' = [obj EXCEPT ![o] = [NewObj EXCEPT !.shape = siteShape, !.fields = vs]]
           /\ UNCHANGED building
  <2>1. ShapeOK(ks)
    BY <1>3, IInvParts, ShapeFacts DEF SitesOK
  <2>2. ObjGood(Filled(ks, vs))
    BY <2>1, FilledGood
  <2>3. obj' = [obj EXCEPT ![o] = Filled(ks, vs)]
    BY <1>3 DEF Filled
  <2>4. ObjectsOK'
    BY <1>1, <2>2, <2>3, IInvParts, ObjectChanged
  <2>5. BuildingOK'
    BY <1>3, IInvParts DEF BuildingOK
  <2> QED BY <1>2, <2>4, <2>5, KeptCaches DEF IInv
<1>4. CASE /\ building' = [for |-> "literal", o |-> o, text |-> ks, ks |-> ks, vs |-> vs, at |-> 0]
           /\ obj' = [obj EXCEPT ![o] = NewObj]
  <2>1. ObjectsOK'
    BY <1>1, <1>4, EmptyObjects, IInvParts, ObjectChanged
  <2>2. BuildingOK'
    <3>1. Len(ks) \in Nat
      BY ShapeFacts
    <3> QED BY <1>4, <3>1 DEF BuildingOK, BuildType
  <2> QED BY <1>2, <2>1, <2>2, KeptCaches DEF IInv
<1> QED BY <1>3, <1>4 DEF MakeObject

(* A field of the literal or of the JSON object that is being filled. *)
LEMMA FillFieldKeeps ==
    ASSUME IInv, FillField
    PROVE  IInv'
<1> DEFINE b == building
           f == b.ks[b.at + 1]
           v == b.vs[b.at + 1]
<1>1. /\ b.at < Len(b.ks)
      /\ obj' = [obj EXCEPT ![b.o] = FieldSet(@, f, v)]
      /\ building' = [b EXCEPT !.at = @ + 1]
  BY DEF FillField
<1>2. CachesKept /\ UNCHANGED template
  BY DEF FillField, CachesKept
<1>3. /\ b \in BuildType /\ b.o \in Objects /\ b.ks \in Seq(Fids) /\ b.vs \in Seq(Stored) /\ b.at \in Nat
      /\ Len(b.ks) = Len(b.vs) /\ b.at <= Len(b.ks)
  BY IInvParts DEF BuildingOK, BuildType
<1>4. b.at + 1 \in 1..Len(b.ks)
  <2>1. Len(b.ks) \in Nat
    BY <1>3, ShapeFacts
  <2>2. \A i, n \in Nat : i < n => i + 1 \in 1..n
    OBVIOUS
  <2> QED BY <1>1, <1>3, <2>1, <2>2
<1>5. f \in Fids /\ v \in Stored
  <2>1. f \in Fids
    BY <1>3, <1>4, ShapeFacts
  <2>2. v \in Stored
    BY <1>3, <1>4, FieldFacts
  <2> QED BY <2>1, <2>2
<1>6. BuildingOK'
  <2>1. b.at + 1 <= Len(b.ks) /\ b.at + 1 \in Nat
    BY <1>4
  <2>2. /\ building' \in BuildType /\ building'.ks = b.ks /\ building'.vs = b.vs
        /\ building'.at = b.at + 1
    BY <1>1, <1>3, <2>1 DEF BuildType
  <2> HIDE DEF b
  <2> QED BY <1>3, <2>1, <2>2 DEF BuildingOK
<1>7. obj' = [obj EXCEPT ![b.o] = FieldSet(obj[b.o], f, v)]
  BY <1>1, <1>3, IInvParts DEF ObjectsOK
<1> HIDE DEF b, f, v
<1>8. ObjGood(FieldSet(obj[b.o], f, v))
  BY <1>3, <1>5, IInvParts, OneObject, FieldSetGood
<1>9. ObjectsOK'
  BY <1>2, <1>3, <1>7, <1>8, IInvParts, ObjectChanged
<1> QED BY <1>2, <1>6, <1>9, KeptCaches DEF IInv

LEMMA IdleGood == Idle \in BuildType /\ Len(Idle.ks) = Len(Idle.vs) /\ Idle.at <= Len(Idle.ks)
<1>1. <<>> \in Seq(Fids) /\ <<>> \in Seq(Stored) /\ Len(<<>>) = 0
  OBVIOUS
<1> QED BY <1>1, ShapesAssumption DEF Idle, BuildType

LEMMA LiteralDoneKeeps ==
    ASSUME IInv, LiteralDone
    PROVE  IInv'
<1> DEFINE ob == obj[building.o]
<1>1. /\ siteShape' = IF ~ob.dictMode /\ Len(ob.shape) = LiteralSize THEN ob.shape ELSE siteShape
      /\ building' = Idle
      /\ UNCHANGED <<obj, propIc, propStub, jsIc, methodIc, jsonShape, trap, template, family>>
  BY DEF LiteralDone
<1>2. building.o \in Objects
  BY IInvParts DEF BuildingOK, BuildType
<1>3. ob.shape \in Seq(Fids) /\ ShapeOK(ob.shape)
  BY <1>2, IInvParts, OneObject DEF ObjGood, ObjOK
<1> HIDE DEF ob
<1>4. SitesOK'
  BY <1>1, <1>3, IInvParts DEF SitesOK, AnyShape, ShapeOK, Distinct
<1>5. BuildingOK'
  BY <1>1, IdleGood DEF BuildingOK
<1>6. ObjectsOK' /\ TemplatesOK' /\ family' \in Families
  BY <1>1, IInvParts, ObjectsUnchanged DEF TemplatesOK
<1>7. PropIcOK' /\ PropStubOK'
  BY <1>1, IInvParts DEF PropIcOK, PropStubOK
<1>8. JsIcOK' /\ MethodIcOK' /\ TrapOK'
  BY <1>1, IInvParts DEF JsIcOK, MethodIcOK, TrapOK
<1> QED BY <1>4, <1>5, <1>6, <1>7, <1>8 DEF IInv

-----------------------------------------------------------------------------
(* The results of Ok and Err.                                              *)

LEMMA ResultFacts ==
    ASSUME NEW variant \in {"Ok", "Err"}, NEW p \in 0..MaxInt
    PROVE  /\ ResultKeys \in Seq(Fids) /\ ShapeOK(ResultKeys) /\ Len(ResultKeys) = 4
           /\ ResultFields(variant, p) \in Seq(Stored) /\ Len(ResultFields(variant, p)) = 4
           /\ {"__variant", "__data", "unwrap", "map"} \subseteq Fids
<1>1. Len(ResultKeys) = 4 /\ DOMAIN ResultKeys = 1..4
  BY DEF ResultKeys
<1>2. /\ ResultKeys[1] = "__variant" /\ ResultKeys[2] = "__data"
      /\ ResultKeys[3] = "unwrap" /\ ResultKeys[4] = "map"
  BY DEF ResultKeys
<1>3. \A i \in 1..4 : i = 1 \/ i = 2 \/ i = 3 \/ i = 4
  OBVIOUS
<1>4. \A i \in 1..4 : ResultKeys[i] \in Fids
  BY <1>1, ShapesAssumption DEF InUse
<1>5. {"__variant", "__data", "unwrap", "map"} \subseteq Fids
  <2>1. 1 \in 1..4 /\ 2 \in 1..4 /\ 3 \in 1..4 /\ 4 \in 1..4
    OBVIOUS
  <2> QED BY <1>2, <1>4, <2>1
<1>6. ResultKeys \in Seq(Fids)
  BY <1>5 DEF ResultKeys
<1>7. Distinct(ResultKeys)
  BY <1>1, <1>2, <1>3 DEF Distinct
<1>8. /\ Variant(variant) \in Stored /\ Integer(p) \in Stored
      /\ Method(variant, "unwrap", p) \in Stored /\ Method(variant, "map", p) \in Stored
  BY <1>5, StoredValues
<1>9. ResultFields(variant, p) \in Seq(Stored) /\ Len(ResultFields(variant, p)) = 4
  BY <1>8 DEF ResultFields
<1> QED BY <1>1, <1>5, <1>6, <1>7, <1>9, ShapesAssumption DEF ShapeOK

(* The slots of a result. *)
LEMMA ResultSlots ==
    ASSUME NEW variant \in {"Ok", "Err"}, NEW p \in 0..MaxInt
    PROVE  /\ ResultKeys[1] = "__variant" /\ ResultKeys[2] = "__data"
           /\ ResultKeys[3] = "unwrap" /\ ResultKeys[4] = "map"
           /\ SlotOf(ResultKeys, "__variant") = 1 /\ SlotOf(ResultKeys, "__data") = 2
           /\ ResultFields(variant, p)[1] = Variant(variant)
           /\ ResultFields(variant, p)[2] = Integer(p)
           /\ ResultFields(variant, p)[3] = Method(variant, "unwrap", p)
           /\ ResultFields(variant, p)[4] = Method(variant, "map", p)
           /\ {i \in 1..4 : IsFunction(ResultFields(variant, p)[i])} = {3, 4}
<1>1. /\ ResultKeys[1] = "__variant" /\ ResultKeys[2] = "__data"
      /\ ResultKeys[3] = "unwrap" /\ ResultKeys[4] = "map"
  BY DEF ResultKeys
<1>2. /\ ResultFields(variant, p)[1] = Variant(variant)
      /\ ResultFields(variant, p)[2] = Integer(p)
      /\ ResultFields(variant, p)[3] = Method(variant, "unwrap", p)
      /\ ResultFields(variant, p)[4] = Method(variant, "map", p)
  BY DEF ResultFields
<1>3. /\ ResultKeys \in Seq(Fids) /\ Len(ResultKeys) = 4 /\ Distinct(ResultKeys)
      /\ {"__variant", "__data"} \subseteq Fids
  BY ResultFacts DEF ShapeOK
<1>4. ASSUME NEW k \in 1..4, ResultKeys[k] \in Fids PROVE SlotOf(ResultKeys, ResultKeys[k]) = k
  <2> DEFINE q == SlotOf(ResultKeys, ResultKeys[k])
  <2>1. ResultKeys[k] \in InUse(ResultKeys)
    BY <1>3, ShapeFacts
  <2>2. q \in 1..4 /\ ResultKeys[q] = ResultKeys[k]
    BY <1>3, <1>4, <2>1, SlotFacts
  <2> HIDE DEF q
  <2>3. q = k
    BY <1>3, <2>2 DEF Distinct
  <2> QED BY <2>3 DEF q
<1>5. 1 \in 1..4 /\ 2 \in 1..4
  OBVIOUS
<1>6. SlotOf(ResultKeys, "__variant") = 1 /\ SlotOf(ResultKeys, "__data") = 2
  BY <1>1, <1>3, <1>4, <1>5
<1>7. {i \in 1..4 : IsFunction(ResultFields(variant, p)[i])} = {3, 4}
  <2>1. \A i \in 1..4 : i = 1 \/ i = 2 \/ i = 3 \/ i = 4
    OBVIOUS
  <2>2. 3 \in 1..4 /\ 4 \in 1..4
    OBVIOUS
  <2>3. /\ IsFunction(Method(variant, "unwrap", p)) /\ IsFunction(Method(variant, "map", p))
        /\ ~IsFunction(Variant(variant)) /\ ~IsFunction(Integer(p))
    BY DEF IsFunction, Method, Variant, Integer, Value
  <2> QED BY <1>2, <2>1, <2>2, <2>3
<1> QED BY <1>1, <1>2, <1>6, <1>7

LEMMA TemplateOfGood ==
    ASSUME NEW variant \in {"Ok", "Err"}, NEW p \in 0..MaxInt, NEW ob \in ObjType,
           ob.shape = ResultKeys, ob.fields = ResultFields(variant, p)
    PROVE  TemplateOf(ob) \in TemplateType /\ TemplateOK(TemplateOf(ob), variant)
<1> DEFINE methods == {i \in DOMAIN ob.fields : IsFunction(ob.fields[i])}
           fs == [i \in DOMAIN ob.fields |-> IF i \in methods THEN None ELSE ob.fields[i]]
           unwraps == (ob.fields[SlotOf(ob.shape, "__variant")] = Variant("Ok"))
           t == TemplateOf(ob)
<1>1. /\ ob.shape \in Seq(Fids) /\ ob.fields \in Seq(Stored) /\ DOMAIN ob.fields = 1..Len(ob.fields)
      /\ Len(ob.fields) \in Nat /\ Len(ob.fields) = 4 /\ Len(ob.shape) = 4 /\ ShapeOK(ob.shape)
      /\ "__data" \in Fids
  BY ObjFields, FieldFacts, ResultFacts
<1>2. methods \subseteq 1..Len(ob.fields) /\ methods \subseteq Nat
  BY <1>1
<1>3. fs \in Seq(Stored) /\ Len(fs) = Len(ob.fields)
  <2>1. \A i \in 1..Len(ob.fields) : (IF i \in methods THEN None ELSE ob.fields[i]) \in Stored
    BY <1>1, FieldFacts, StoredValues
  <2>2. fs = [i \in 1..Len(ob.fields) |-> IF i \in methods THEN None ELSE ob.fields[i]]
    BY <1>1
  <2> HIDE DEF methods
  <2>3. fs \in [1..Len(ob.fields) -> Stored]
    BY <2>1, <2>2
  <2>4. fs \in Seq(Stored)
    BY <1>1, <2>3, SeqDef
  <2>5. DOMAIN fs = 1..Len(fs) /\ Len(fs) \in Nat
    BY <2>4, LenProperties
  <2>6. DOMAIN fs = 1..Len(ob.fields)
    BY <2>3
  <2>7. \A a, b \in Nat : 1..a = 1..b => a = b
    OBVIOUS
  <2> HIDE DEF fs
  <2> QED BY <1>1, <2>4, <2>5, <2>6, <2>7
<1>4. SlotOf(ob.shape, "__data") \in Nat
  BY <1>1, SlotFacts, ShapeFacts
<1>5. unwraps \in BOOLEAN /\ (methods # {}) \in BOOLEAN
  BY Zenon
<1>6. t = [initialized |-> TRUE, usable |-> methods # {}, shape |-> ob.shape, fields |-> fs,
           methods |-> methods, dataSlot |-> SlotOf(ob.shape, "__data"), unwraps |-> unwraps]
  BY DEF TemplateOf
<1> HIDE DEF methods, fs, unwraps, t
<1>7. t \in TemplateType
  BY <1>1, <1>2, <1>3, <1>4, <1>5, <1>6 DEF TemplateType
<1>8. /\ t.shape = ob.shape /\ t.fields = fs /\ t.methods = methods /\ t.initialized = TRUE
      /\ t.usable = (methods # {}) /\ t.unwraps = unwraps
      /\ t.dataSlot = SlotOf(ob.shape, "__data")
  BY <1>6
<1>9. methods = {3, 4}
  BY <1>1, ResultSlots DEF methods
<1>10. fs[1] = Variant(variant) /\ fs[3] = None /\ fs[4] = None
  <2>1. 1 \in 1..4 /\ 3 \in 1..4 /\ 4 \in 1..4 /\ 1 \notin {3, 4}
    OBVIOUS
  <2> QED BY <1>1, <1>9, <2>1, ResultSlots DEF fs
<1>11. unwraps => variant = "Ok"
  <2>1. ob.fields[SlotOf(ob.shape, "__variant")] = Variant(variant)
    BY ResultSlots
  <2>2. Variant(variant) = Variant("Ok") => variant = "Ok"
    BY DEF Variant, Value
  <2> QED BY <2>1, <2>2 DEF unwraps
<1>12. IsResult(t, variant)
  BY <1>8, <1>9, <1>10, <1>11, ResultSlots DEF IsResult
<1>13. TemplateOK(t, variant)
  BY <1>1, <1>2, <1>3, <1>8, <1>12 DEF TemplateOK
<1> QED BY <1>7, <1>13 DEF t

(* The fields of a copy of the template t with the payload p. *)
CopiedFields(t, p) == [t.fields EXCEPT ![t.dataSlot] = Integer(p)]

LEMMA CopiedFacts ==
    ASSUME NEW t, t.fields \in Seq(Stored), NEW p \in 0..MaxInt
    PROVE  /\ CopiedFields(t, p) \in Seq(Stored) /\ Len(CopiedFields(t, p)) = Len(t.fields)
           /\ \A i \in 1..Len(t.fields) : i # t.dataSlot => CopiedFields(t, p)[i] = t.fields[i]
           /\ t.dataSlot \in 1..Len(t.fields) => CopiedFields(t, p)[t.dataSlot] = Integer(p)
<1> DEFINE fs == CopiedFields(t, p)
<1>1. DOMAIN t.fields = 1..Len(t.fields) /\ Integer(p) \in Stored
  BY FieldFacts, StoredValues
<1>2. CASE t.dataSlot \in 1..Len(t.fields)
  BY <1>1, <1>2, FieldFacts DEF CopiedFields
<1>3. CASE t.dataSlot \notin 1..Len(t.fields)
  <2>1. t.fields \in [1..Len(t.fields) -> Stored]
    BY <1>1, FieldFacts
  <2>2. fs = t.fields
    BY <1>3, <2>1 DEF CopiedFields
  <2> QED BY <1>3, <2>2
<1> QED BY <1>2, <1>3

LEMMA InstantiatedIs ==
    ASSUME TemplatesOK, NEW variant \in {"Ok", "Err"}, NEW p \in 0..MaxInt
    PROVE  LET t == template[variant]
               r == Instantiated(variant, p)
               fs == CopiedFields(t, p)
           IN /\ fs \in Seq(Stored) /\ Len(fs) = Len(t.fields)
              /\ \A i \in 1..Len(t.fields) : i # t.dataSlot => fs[i] = t.fields[i]
              /\ t.dataSlot \in 1..Len(t.fields) => fs[t.dataSlot] = Integer(p)
              /\ r \in ObjType /\ r.shape = t.shape /\ r.fields = fs
              /\ r.lazy = {i \in t.methods : i <= LazyBits} /\ r.ctx = variant
              /\ r.dictMode = FALSE /\ r.live = TRUE /\ r.frozen = FALSE /\ r.payload = Integer(p)
<1> DEFINE t == template[variant]
           fs == CopiedFields(t, p)
           lazy == {i \in t.methods : i <= LazyBits}
           r == Instantiated(variant, p)
<1>1. t \in TemplateType
  BY DEF TemplatesOK
<1>2. t.shape \in Seq(Fids) /\ t.fields \in Seq(Stored) /\ t.methods \in SUBSET Nat
  BY <1>1 DEF TemplateType
<1> HIDE DEF t
<1>3. /\ fs \in Seq(Stored) /\ Len(fs) = Len(t.fields)
      /\ \A i \in 1..Len(t.fields) : i # t.dataSlot => fs[i] = t.fields[i]
      /\ t.dataSlot \in 1..Len(t.fields) => fs[t.dataSlot] = Integer(p)
  BY <1>2, CopiedFacts DEF fs
<1>4. lazy \in SUBSET Nat
  BY <1>2
<1>5. r = [NewObj EXCEPT !.shape = t.shape, !.fields = fs, !.lazy = lazy, !.ctx = variant,
                         !.payload = Integer(p)]
  BY DEF Instantiated, CopiedFields, t
<1>6. NewObj \in ObjType /\ NewObj.dictMode = FALSE /\ NewObj.live = TRUE /\ NewObj.frozen = FALSE
  BY EmptyObjects DEF ObjGood
<1>7. Integer(p) \in Stored
  BY StoredValues
<1> HIDE DEF fs, lazy, r
<1>8. /\ r \in ObjType /\ r.shape = t.shape /\ r.fields = fs /\ r.lazy = lazy /\ r.ctx = variant
      /\ r.dictMode = FALSE /\ r.live = TRUE /\ r.frozen = FALSE /\ r.payload = Integer(p)
  BY <1>2, <1>3, <1>4, <1>5, <1>6, <1>7 DEF ObjType
<1> QED BY <1>3, <1>8 DEF fs, lazy, r, t

LEMMA InstantiatedGood ==
    ASSUME TemplatesOK, NEW variant \in {"Ok", "Err"}, NEW p \in 0..MaxInt
    PROVE  ObjGood(Instantiated(variant, p))
<1> DEFINE t == template[variant]
           fs == CopiedFields(t, p)
           r == Instantiated(variant, p)
<1>1. TemplateOK(t, variant)
  BY DEF TemplatesOK
<1>2. /\ t.methods \subseteq 1..Len(t.shape) /\ ShapeOK(t.shape) /\ Len(t.shape) = Len(t.fields)
      /\ \A i \in t.methods : i # t.dataSlot /\ t.fields[i] = None
  BY <1>1 DEF TemplateOK, IsResult
<1>3. /\ Len(fs) = Len(t.fields)
      /\ \A i \in 1..Len(t.fields) : i # t.dataSlot => fs[i] = t.fields[i]
  <2>1. t.fields \in Seq(Stored)
    BY DEF TemplatesOK, TemplateType
  <2> HIDE DEF t
  <2> QED BY <2>1, CopiedFacts
<1>4. /\ r \in ObjType /\ r.shape = t.shape /\ r.fields = fs
      /\ r.lazy = {i \in t.methods : i <= LazyBits} /\ r.ctx = variant
      /\ r.dictMode = FALSE /\ r.live = TRUE /\ r.payload = Integer(p)
  BY InstantiatedIs
<1>5. template[variant].methods = t.methods /\ template[variant].shape = t.shape
  OBVIOUS
<1> HIDE DEF fs, t, r
<1>6. r.lazy \subseteq t.methods
  BY <1>4
<1>7. r.payload = Integer(r.payload.n)
  <2>1. Integer(p).n = p
    BY DEF Integer, Value
  <2> QED BY <1>4, <2>1
<1>8. \A i \in r.lazy : r.fields[i] = None
  BY <1>2, <1>3, <1>4, <1>6
<1>9. r.ctx # NoContext
  BY <1>4 DEF NoContext
<1>10. ObjOK(r)
  BY <1>2, <1>3, <1>4, <1>5, <1>6, <1>7, <1>8, <1>9 DEF ObjOK
<1> QED BY <1>4, <1>10 DEF ObjGood, r

LEMMA NewResultKeeps ==
    ASSUME IInv, NEW o \in Objects, NEW variant \in {"Ok", "Err"}, NEW p \in 0..MaxInt,
           NewResult(o, variant, p)
    PROVE  IInv'
<1> DEFINE t == template[variant]
           c == Constructed(variant, p)
<1>1. /\ ResultKeys \in Seq(Fids) /\ ShapeOK(ResultKeys) /\ Len(ResultKeys) = 4
      /\ ResultFields(variant, p) \in Seq(Stored) /\ Len(ResultFields(variant, p)) = 4
  BY ResultFacts
<1>2. ObjGood(c) /\ c.shape = ResultKeys /\ c.fields = ResultFields(variant, p)
  <2>1. c = Filled(ResultKeys, ResultFields(variant, p))
    BY DEF Constructed, Filled
  <2> DEFINE fs == ResultFields(variant, p)
  <2> HIDE DEF c, fs
  <2>2. fs \in Seq(Stored) /\ Len(fs) = 4 /\ c = Filled(ResultKeys, fs)
    BY <1>1, <2>1 DEF fs
  <2>3. ObjGood(c) /\ c.shape = ResultKeys /\ c.fields = fs
    <3>1. ResultKeys \in Seq(Fids) /\ ShapeOK(ResultKeys) /\ Len(fs) = Len(ResultKeys)
      BY <1>1, <2>2
    <3>2. ObjGood(Filled(ResultKeys, fs))
      BY <2>2, <3>1, FilledGood
    <3>3. Filled(ResultKeys, fs).shape = ResultKeys
      BY DEF Filled, NewObj, Dead
    <3>4. Filled(ResultKeys, fs).fields = fs
      BY DEF Filled, NewObj, Dead
    <3> QED BY <2>2, <3>2, <3>3, <3>4
  <2> QED BY <2>3 DEF fs
<1>3. UNCHANGED <<building, propIc, propStub, jsIc, methodIc, siteShape, jsonShape, trap, family>>
  BY DEF NewResult
<1>4. CASE UNCHANGED template
  <2>1. \/ obj' = [obj EXCEPT ![o] = Instantiated(variant, p)]
        \/ obj' = [obj EXCEPT ![o] = c]
    BY DEF NewResult
  <2>2. ObjGood(Instantiated(variant, p))
    BY IInvParts, InstantiatedGood
  <2> HIDE DEF c
  <2>3. ObjectsOK'
    BY <1>2, <1>4, <2>1, <2>2, IInvParts, ObjectChanged
  <2>4. CachesKept
    BY <1>3, <1>4 DEF CachesKept
  <2>5. BuildingOK'
    BY <1>3, IInvParts DEF BuildingOK
  <2> QED BY <2>3, <2>4, <2>5, KeptCaches DEF IInv
<1>5. CASE /\ ~t.initialized
           /\ obj' = [obj EXCEPT ![o] = c]
           /\ template' = [template EXCEPT ![variant] = TemplateOf(c)]
  <2> DEFINE n == TemplateOf(c)
  <2>1. n \in TemplateType /\ TemplateOK(n, variant)
    BY <1>2, TemplateOfGood DEF ObjGood
  <2> HIDE DEF n, c
  <2>2. template \in [{"Ok", "Err"} -> TemplateType] /\ \A w \in {"Ok", "Err"} : TemplateOK(template[w], w)
    BY IInvParts DEF TemplatesOK
  <2>3. template' = [template EXCEPT ![variant] = n]
    BY <1>5 DEF n
  <2>4. TemplatesOK'
    <3>1. template' \in [{"Ok", "Err"} -> TemplateType]
      BY <2>1, <2>2, <2>3
    <3>2. ASSUME NEW w \in {"Ok", "Err"} PROVE TemplateOK(template'[w], w)
      BY <2>1, <2>2, <2>3
    <3> QED BY <3>1, <3>2 DEF TemplatesOK, TemplateOK, IsResult, ShapeOK, Distinct
  \* An object with lazy fields is made from the other template.
  <2>5. ASSUME NEW ob, ObjGood(ob) PROVE ob \in ObjType /\ ObjOK(ob)'
    <3>1. ob \in ObjType /\ ObjOK(ob) /\ ob.ctx \in {NoContext, "Ok", "Err"}
      BY <2>5, ObjFields DEF ObjGood
    <3>2. t.methods = {}
      BY <1>5, <2>2 DEF TemplateOK
    <3>3. ob.lazy # {} => ob.ctx # variant
      BY <3>1, <3>2 DEF ObjOK
    <3>4. ob.lazy # {} => template'[ob.ctx] = template[ob.ctx]
      BY <2>2, <2>3, <3>1, <3>3 DEF ObjOK
    <3> QED BY <3>1, <3>4 DEF ObjOK, ShapeOK, Distinct
  <2>6. \A q \in Objects : obj'[q] = IF q = o THEN c ELSE obj[q]
    BY <1>5, IInvParts DEF ObjectsOK
  <2>7. ASSUME NEW q \in Objects PROVE obj'[q] \in ObjType /\ ObjOK(obj[q])'
    <3>1. ObjGood(obj[q])
      BY IInvParts, OneObject
    <3>2. CASE q = o
      BY <1>2, <2>5, <2>6, <3>2 DEF ObjOK
    <3>3. CASE q # o
      BY <2>5, <2>6, <3>1, <3>3 DEF ObjOK
    <3> QED BY <3>2, <3>3
  <2>8. obj' \in [Objects -> ObjType]
    <3>1. c \in ObjType
      BY <1>2 DEF ObjGood
    <3> QED BY <1>5, <3>1, IInvParts DEF ObjectsOK
  <2>9. ObjectsOK'
    BY <2>7, <2>8 DEF ObjectsOK
  <2>10. BuildingOK' /\ family' \in Families
    BY <1>3, IInvParts DEF BuildingOK
  <2>11. PropIcOK' /\ PropStubOK'
    BY <1>3, IInvParts DEF PropIcOK, PropStubOK
  <2>12. JsIcOK' /\ MethodIcOK'
    BY <1>3, IInvParts DEF JsIcOK, MethodIcOK
  <2>13. SitesOK' /\ TrapOK'
    BY <1>3, IInvParts DEF SitesOK, TrapOK
  <2> QED BY <2>4, <2>9, <2>10, <2>11, <2>12, <2>13 DEF IInv
<1> QED BY <1>4, <1>5 DEF NewResult

LEMMA CallMethodKeeps ==
    ASSUME IInv, NEW o \in Objects, NEW n, NEW argc, CallMethod(o, n, argc)
    PROVE  IInv'
<1>1. UnchangedCaches
  BY DEF CallMethod
<1>2. UNCHANGED obj \/ obj' = [obj EXCEPT ![o] = FieldTouched(obj[o], n)]
  BY DEF CallMethod
<1>3. ObjGood(FieldTouched(obj[o], n))
  BY IInvParts, OneObject, FieldTouchedGood
<1> QED BY <1>1, <1>2, <1>3, NothingChanged, ObjectOnly

(* The slot that the caches or the lookup find is the slot of the method. *)
LEMMA MethodEntryTrue ==
    ASSUME MethodIcOK, NEW ob \in ObjType, NEW n \in Names
    PROVE  /\ MethodEntry(ob, n) \in EntryType /\ True(MethodEntry(ob, n))
           /\ MethodEntry(ob, n).name = n /\ MethodEntry(ob, n).shape = ob.shape
<1>1. ob.shape \in Seq(Fids) /\ n \in Fids
  BY ObjFields, ShapesAssumption
<1>2. methodIc[n][1] \in EntryType /\ methodIc[n][2] \in EntryType
  BY DEF MethodIcOK
<1>3. /\ True(methodIc[n][1]) /\ methodIc[n][1].name = n
      /\ True(methodIc[n][2]) /\ methodIc[n][2].name = n
  BY DEF MethodIcOK
<1>4. /\ Entry(ob.shape, n, SlotOf(ob.shape, n)) \in EntryType
      /\ True(Entry(ob.shape, n, SlotOf(ob.shape, n)))
      /\ Entry(ob.shape, n, SlotOf(ob.shape, n)).name = n
      /\ Entry(ob.shape, n, SlotOf(ob.shape, n)).shape = ob.shape
  <2>1. SlotOf(ob.shape, n) \in Nat
    BY <1>1, SlotFacts, ShapeFacts
  <2> QED BY <1>1, <2>1 DEF Entry, EntryType, AnyShape, True
<1> QED BY <1>2, <1>3, <1>4 DEF MethodEntry

LEMMA TwoEntriesFacts ==
    ASSUME NEW e \in EntryType \X EntryType, NEW new \in EntryType
    PROVE  /\ TwoEntries(e, new) \in EntryType \X EntryType
           /\ TwoEntries(e, new)[1] = new /\ TwoEntries(e, new)[2] = e[1]
BY DEF TwoEntries

LEMMA JitCallMethodKeeps ==
    ASSUME IInv, NEW o \in Objects, NEW n \in Names, NEW argc, JitCallMethod(o, n, argc)
    PROVE  IInv'
<1> DEFINE ob == obj[o]
           e == MethodEntry(ob, n)
           touched == IF e.slot = NoSlot THEN ob ELSE Materialized(ob, e.slot)
<1>1. ObjGood(ob) /\ ob \in ObjType
  BY IInvParts, OneObject
<1>2. e \in EntryType /\ True(e) /\ e.name = n
  BY <1>1, IInvParts, MethodEntryTrue
<1>3. ObjGood(touched)
  BY <1>1, IInvParts, MaterializedGood
<1>4. /\ UNCHANGED obj \/ obj' = [obj EXCEPT ![o] = touched]
      /\ methodIc' = methodIc \/ methodIc' = [methodIc EXCEPT ![n] = TwoEntries(@, e)]
      /\ UNCHANGED <<building, propIc, propStub, jsIc, siteShape, jsonShape, trap, template, family>>
  BY DEF JitCallMethod
<1> HIDE DEF ob, e, touched
<1>5. ObjectsOK'
  BY <1>3, <1>4, IInvParts, ObjectChanged, ObjectsUnchanged
<1>6. MethodIcOK'
  <2>1. CASE methodIc' = methodIc
    BY <2>1, IInvParts DEF MethodIcOK
  <2>2. CASE methodIc' = [methodIc EXCEPT ![n] = TwoEntries(@, e)]
    <3> DEFINE two == TwoEntries(methodIc[n], e)
    <3>1. methodIc \in [Names -> EntryType \X EntryType] /\ \A m \in Names, i \in 1..2 : methodIc[m][i].name = m /\ True(methodIc[m][i])
      BY IInvParts DEF MethodIcOK
    <3>2. two \in EntryType \X EntryType /\ two[1] = e /\ two[2] = methodIc[n][1]
      BY <1>2, <3>1, TwoEntriesFacts
    <3>3. methodIc' = [methodIc EXCEPT ![n] = two]
      BY <2>2, <3>1
    <3> HIDE DEF two
    <3>4. methodIc' \in [Names -> EntryType \X EntryType]
      BY <3>1, <3>2, <3>3
    <3>5. ASSUME NEW m \in Names, NEW i \in 1..2 PROVE methodIc'[m][i].name = m /\ True(methodIc'[m][i])
      <4>1. i = 1 \/ i = 2
        OBVIOUS
      <4>2. 1 \in 1..2
        OBVIOUS
      <4> QED BY <1>2, <3>1, <3>2, <3>3, <4>1, <4>2
    <3> QED BY <3>4, <3>5 DEF MethodIcOK, True
  <2> QED BY <1>4, <2>1, <2>2
<1>7. TemplatesOK' /\ BuildingOK' /\ family' \in Families
  BY <1>4, IInvParts DEF TemplatesOK, BuildingOK
<1>8. PropIcOK' /\ PropStubOK'
  BY <1>4, IInvParts DEF PropIcOK, PropStubOK
<1>9. JsIcOK' /\ SitesOK' /\ TrapOK'
  BY <1>4, IInvParts DEF JsIcOK, SitesOK, TrapOK
<1> QED BY <1>5, <1>6, <1>7, <1>8, <1>9 DEF IInv

LEMMA FindTrapKeeps ==
    ASSUME IInv, NEW f, FindTrap(f)
    PROVE  IInv'
<1> DEFINE ob == obj[Handler]
           slots == [g \in Traps |-> SlotOf(ob.shape, g)]
           known == IF ob.shape = trap.shape THEN trap ELSE [shape |-> ob.shape, slots |-> slots]
<1>1. Handler \in Objects /\ Traps \subseteq Fids
  BY ShapesAssumption
<1>2. ObjGood(ob) /\ ob \in ObjType /\ ob.shape \in Seq(Fids)
  BY <1>1, IInvParts, OneObject
<1>3. /\ UNCHANGED obj \/ obj' = [obj EXCEPT ![Handler] = FieldTouched(ob, f)]
      /\ trap' = trap \/ trap' = known
      /\ UNCHANGED <<building, propIc, propStub, jsIc, methodIc, siteShape, jsonShape, template, family>>
  BY DEF FindTrap
<1>4. ObjGood(FieldTouched(ob, f))
  BY <1>2, IInvParts, FieldTouchedGood
<1>5. \A g \in Traps : SlotOf(ob.shape, g) \in Nat
  BY <1>1, <1>2, SlotFacts, ShapeFacts
<1>6. /\ known \in [shape : AnyShape, slots : [Traps -> Nat]]
      /\ known.shape # NoShape => \A g \in Traps : known.slots[g] = SlotOf(known.shape, g)
  <2>1. slots \in [Traps -> Nat]
    BY <1>5
  <2>2. \A g \in Traps : slots[g] = SlotOf(ob.shape, g)
    OBVIOUS
  <2> HIDE DEF slots, ob
  <2> QED BY <1>2, <2>1, <2>2, IInvParts DEF TrapOK, AnyShape
<1> HIDE DEF ob, known
<1>7. ObjectsOK'
  BY <1>1, <1>3, <1>4, IInvParts, ObjectChanged, ObjectsUnchanged
<1>8. TrapOK'
  BY <1>3, <1>6, IInvParts DEF TrapOK
<1>9. TemplatesOK' /\ BuildingOK' /\ family' \in Families
  BY <1>3, IInvParts DEF TemplatesOK, BuildingOK
<1>10. PropIcOK' /\ PropStubOK'
  BY <1>3, IInvParts DEF PropIcOK, PropStubOK
<1>11. JsIcOK' /\ SitesOK' /\ MethodIcOK'
  BY <1>3, IInvParts DEF JsIcOK, SitesOK, MethodIcOK
<1> QED BY <1>7, <1>8, <1>9, <1>10, <1>11 DEF IInv

-----------------------------------------------------------------------------
(* Code that came from JavaScript.                                         *)

LEMMA JsReadInlineKeeps ==
    ASSUME IInv, NEW o, NEW n, JsReadInline(o, n)
    PROVE  IInv'
<1>1. UNCHANGED obj /\ UnchangedCaches
  BY DEF JsReadInline
<1> QED BY <1>1, NothingChanged

LEMMA ButJsUnchanged ==
    ASSUME IInv, UnchangedButJs
    PROVE  /\ TemplatesOK' /\ BuildingOK' /\ PropIcOK' /\ MethodIcOK' /\ SitesOK' /\ TrapOK'
           /\ family' \in Families /\ UNCHANGED template
<1>1. TemplatesOK' /\ BuildingOK' /\ family' \in Families /\ UNCHANGED template
  BY DEF IInv, UnchangedButJs, TemplatesOK, BuildingOK
<1>2. PropIcOK' /\ MethodIcOK'
  BY DEF IInv, UnchangedButJs, PropIcOK, MethodIcOK
<1>3. SitesOK' /\ TrapOK'
  BY DEF IInv, UnchangedButJs, SitesOK, TrapOK
<1> QED BY <1>1, <1>2, <1>3

(* The entries of a name take a slot that no getter guards. *)
LEMMA JsIcFed ==
    ASSUME JsIcOK, NEW n \in Names, NEW e \in EntryType, e.name = n, Plain(e),
           jsIc' = [jsIc EXCEPT ![n] = TwoEntries(@, e)]
    PROVE  JsIcOK'
<1> DEFINE two == TwoEntries(jsIc[n], e)
           Good(m, x) == x.name = m /\ Plain(x)
<1>1. jsIc \in [Names -> EntryType \X EntryType] /\ \A m \in Names, i \in 1..2 : Good(m, jsIc[m][i])
  BY DEF JsIcOK
<1>2. two \in EntryType \X EntryType /\ two[1] = e /\ two[2] = jsIc[n][1]
  BY <1>1, TwoEntriesFacts
<1>3. jsIc' = [jsIc EXCEPT ![n] = two]
  BY <1>1
<1>4. Good(n, e)
  OBVIOUS
<1> HIDE DEF two, Good
<1>5. jsIc' \in [Names -> EntryType \X EntryType]
  BY <1>1, <1>2, <1>3
<1>6. ASSUME NEW m \in Names, NEW i \in 1..2 PROVE Good(m, jsIc'[m][i])
  <2>1. i = 1 \/ i = 2
    OBVIOUS
  <2>2. 1 \in 1..2
    OBVIOUS
  <2> QED BY <1>1, <1>2, <1>3, <1>4, <2>1, <2>2
<1> QED BY <1>5, <1>6 DEF JsIcOK, Good, Plain, Direct

LEMMA StubFacts ==
    ASSUME NEW s \in Seq(Fids), NEW n \in Fids
    PROVE  StubOf(s, n) \in 0..StubSize - 1
<1>1. Len(s) \in Nat /\ Bit[n] \in Nat
  BY ShapeFacts, ShapesAssumption
<1>2. \A a \in Nat, b \in Nat \ {0} : a % b \in 0..b - 1
  OBVIOUS
<1>3. Len(s) + Bit[n] \in Nat
  BY <1>1
<1> QED BY <1>2, <1>3, ShapesAssumption DEF StubOf

LEMMA JsReadStubKeeps ==
    ASSUME IInv, NEW o \in Objects, NEW n \in Names, JsReadStub(o, n)
    PROVE  IInv'
<1> DEFINE ob == obj[o]
           i == StubOf(ob.shape, n)
           slot == propStub[i].slot
           e == Entry(ob.shape, n, slot)
<1>1. ObjGood(ob) /\ ob \in ObjType /\ ob.shape \in Seq(Fids) /\ n \in Fids
  BY IInvParts, OneObject, ShapesAssumption
<1>2. /\ propStub[i].shape = ob.shape /\ propStub[i].name = n
      /\ obj' = [obj EXCEPT ![o] = Materialized(ob, slot)]
      /\ jsIc' = jsIc \/ jsIc' = [jsIc EXCEPT ![n] = TwoEntries(@, e)]
      /\ UNCHANGED propStub /\ UnchangedButJs
  BY DEF JsReadStub, StubHit
<1>3. i \in 0..StubSize - 1
  BY <1>1, StubFacts
<1>4. propStub[i] \in EntryType /\ Plain(propStub[i])
  BY <1>3, IInvParts DEF PropStubOK
<1>5. ob.shape # NoShape
  BY <1>1, ShapeFacts
<1>6. e \in EntryType /\ e.name = n /\ Plain(e)
  <2>1. slot \in Nat /\ slot # NoSlot /\ slot = SlotOf(ob.shape, n)
        /\ SlotOf(ob.shape, GetterOf[n]) = NoSlot
    BY <1>2, <1>4, <1>5 DEF Plain, Direct, EntryType
  <2> QED BY <1>1, <2>1 DEF Entry, EntryType, AnyShape, Direct, Plain
<1>7. ObjGood(Materialized(ob, slot))
  BY <1>1, IInvParts, MaterializedGood
<1> HIDE DEF ob, slot, e
<1>8. ObjectsOK'
  BY <1>2, <1>7, IInvParts, ButJsUnchanged, ObjectChanged
<1>9. JsIcOK'
  <2>1. CASE jsIc' = jsIc
    BY <2>1, IInvParts DEF JsIcOK
  <2>2. CASE jsIc' = [jsIc EXCEPT ![n] = TwoEntries(@, e)]
    BY <1>6, <2>2, IInvParts, JsIcFed
  <2> QED BY <1>2, <2>1, <2>2
<1>10. PropStubOK'
  BY <1>2, IInvParts DEF PropStubOK
<1> QED BY <1>2, <1>8, <1>9, <1>10, ButJsUnchanged DEF IInv

LEMMA JsReadSlowKeeps ==
    ASSUME IInv, NEW o \in Objects, NEW n \in Names, JsReadSlow(o, n)
    PROVE  IInv'
<1> DEFINE ob == obj[o]
           asked == IF MayHave(ob, GetterOf[n]) THEN FieldTouched(ob, GetterOf[n]) ELSE ob
           e == Entry(ob.shape, n, SlotOf(ob.shape, n))
           i == StubOf(ob.shape, n)
<1>1. ObjGood(ob) /\ ob \in ObjType /\ ob.shape \in Seq(Fids) /\ n \in Fids
  BY IInvParts, OneObject, ShapesAssumption
<1>2. /\ \/ obj' = [obj EXCEPT ![o] = asked]
         \/ obj' = [obj EXCEPT ![o] = FieldTouched(asked, n)]
      /\ \/ UNCHANGED <<propStub, jsIc>>
         \/ /\ PlainField(ob, n)
            /\ propStub' = [propStub EXCEPT ![i] = e]
            /\ jsIc' = [jsIc EXCEPT ![n] = TwoEntries(@, e)]
      /\ UnchangedButJs
  BY DEF JsReadSlow
<1>3. ObjGood(asked)
  BY <1>1, IInvParts, FieldTouchedGood
<1> HIDE DEF asked
<1>4. ObjGood(FieldTouched(asked, n))
  BY <1>3, IInvParts, FieldTouchedGood
<1>5. ObjectsOK'
  BY <1>2, <1>3, <1>4, IInvParts, ButJsUnchanged, ObjectChanged
<1>6. PropStubOK' /\ JsIcOK'
  <2>1. CASE UNCHANGED <<propStub, jsIc>>
    BY <2>1, IInvParts DEF PropStubOK, JsIcOK
  <2>2. CASE /\ PlainField(ob, n)
             /\ propStub' = [propStub EXCEPT ![i] = e]
             /\ jsIc' = [jsIc EXCEPT ![n] = TwoEntries(@, e)]
    <3>1. SlotOf(ob.shape, GetterOf[n]) = NoSlot /\ SlotOf(ob.shape, n) # NoSlot
      BY <2>2 DEF PlainField
    <3>2. i \in 0..StubSize - 1
      BY <1>1, StubFacts
    <3>3. SlotOf(ob.shape, n) \in Nat
      BY <1>1, SlotFacts, ShapeFacts
    <3>4. e \in EntryType /\ e.shape = ob.shape /\ e.name = n /\ e.slot = SlotOf(ob.shape, n)
      BY <1>1, <3>3 DEF Entry, EntryType, AnyShape
    <3>5. ob.shape # NoShape
      BY <1>1, ShapeFacts
    <3> HIDE DEF e, i
    <3>6. Direct(e) /\ Plain(e)
      BY <3>1, <3>4 DEF Direct, Plain
    <3>7. JsIcOK'
      BY <2>2, <3>4, <3>6, IInvParts, JsIcFed
    <3>8. PropStubOK'
      <4>1. propStub' \in [0..StubSize - 1 -> EntryType]
        BY <2>2, <3>4, IInvParts DEF PropStubOK
      <4>2. \A j \in 0..StubSize - 1 : Plain(propStub'[j])
        BY <2>2, <3>2, <3>6, IInvParts DEF PropStubOK
      <4> QED BY <4>1, <4>2 DEF PropStubOK, Plain, Direct
    <3> QED BY <3>7, <3>8
  <2> QED BY <1>2, <2>1, <2>2
<1> QED BY <1>2, <1>5, <1>6, ButJsUnchanged DEF IInv

LEMMA JsWriteKeeps ==
    ASSUME IInv, NEW o \in Objects, NEW n \in Names, NEW v \in Stored, JsWrite(o, n, v)
    PROVE  IInv'
<1>1. UNCHANGED obj \/ obj' = [obj EXCEPT ![o] = FieldSet(obj[o], n, v)]
  BY IInvParts DEF JsWrite, ObjectsOK
<1>2. ObjGood(FieldSet(obj[o], n, v))
  BY IInvParts, OneObject, FieldSetGood, ShapesAssumption
<1>3. UnchangedCaches
  BY DEF JsWrite
<1> QED BY <1>1, <1>2, <1>3, NothingChanged, ObjectOnly

LEMMA JsPostIncKeeps ==
    ASSUME IInv, NEW o \in Objects, NEW n \in Names, JsPostInc(o, n)
    PROVE  IInv'
<1> DEFINE ob == obj[o]
           slot == propStub[StubOf(ob.shape, n)].slot
           ready == Materialized(ob, slot)
           old == ready.fields[slot]
           r == [ready EXCEPT !.fields[slot] = Integer(old.n + 1)]
<1>1. ObjGood(ob) /\ ob \in ObjType /\ ob.fields \in Seq(Stored)
  BY IInvParts, OneObject, ObjFields
<1>2. /\ \/ UNCHANGED obj
         \/ obj' = [obj EXCEPT ![o] = ready]
         \/ /\ slot \in DOMAIN ob.fields /\ old.n < MaxInt
            /\ obj' = [obj EXCEPT ![o] = r]
      /\ UnchangedCaches
  BY DEF JsPostInc, StubHit
<1>3. /\ ObjGood(ready) /\ ready \in ObjType /\ ready.fields \in Seq(Stored)
      /\ Len(ready.fields) = Len(ob.fields) /\ slot \notin ready.lazy
  <2>1. ObjGood(ready) /\ Len(ready.fields) = Len(ob.fields) /\ slot \notin ready.lazy
    BY <1>1, IInvParts, MaterializedGood
  <2> HIDE DEF ready
  <2> QED BY <2>1, ObjFields DEF ObjGood
<1> HIDE DEF ob, slot, ready
<1>4. ASSUME slot \in DOMAIN ob.fields, old.n < MaxInt PROVE ObjGood(r)
  <2> DEFINE v == Integer(old.n + 1)
             fs == [ready.fields EXCEPT ![slot] = v]
  <2>1. slot \in 1..Len(ready.fields)
    BY <1>1, <1>3, <1>4, FieldFacts
  <2>2. old \in Stored
    BY <1>3, <2>1, FieldFacts
  <2> HIDE DEF old
  <2>3. v \in Stored
    <3>1. old.n \in 0..MaxInt
      BY <2>2, StoredValues
    <3>2. old.n + 1 \in 0..MaxInt
      BY <1>4, <3>1, ShapesAssumption
    <3> QED BY <3>2, StoredValues
  <2> HIDE DEF v
  <2>4. fs \in Seq(Stored) /\ Len(fs) = Len(ready.fields)
    BY <1>3, <2>1, <2>3, FieldFacts
  <2>5. r = [ready EXCEPT !.fields = fs]
    BY <1>3 DEF ObjType, v
  <2> HIDE DEF fs, r
  <2>6. /\ r \in ObjType /\ r.fields = fs /\ r.shape = ready.shape /\ r.lazy = ready.lazy
        /\ r.ctx = ready.ctx /\ r.dictMode = ready.dictMode /\ r.keys = ready.keys
        /\ r.map = ready.map /\ r.live = ready.live /\ r.frozen = ready.frozen
        /\ r.payload = ready.payload
    BY <1>3, <2>4, <2>5 DEF ObjType
  <2>7. \A i \in r.lazy : r.fields[i] = ready.fields[i]
    <3>1. ready.lazy \subseteq 1..Len(ready.fields) /\ slot \notin ready.lazy
      BY <1>3 DEF ObjGood, ObjOK
    <3>2. \A j \in 1..Len(ready.fields) : j # slot => fs[j] = ready.fields[j]
      BY <1>3, <2>1, <2>3, FieldFacts DEF fs
    <3> QED BY <2>6, <3>1, <3>2
  <2>8. ready.frozen => ready.live
    BY <1>3 DEF ObjGood, ObjOK
  <2> QED BY <1>3, <2>4, <2>6, <2>7, <2>8, Lazier
<1> HIDE DEF r, old
<1> QED BY <1>2, <1>3, <1>4, NothingChanged, ObjectOnly

-----------------------------------------------------------------------------
(* JSON.                                                                   *)

LEMMA ParsedKeysFacts ==
    ASSUME NEW s \in AnyShape, NEW ks \in Seq(Fids)
    PROVE  ParsedKeys(s, ks) \in Seq(Fids) /\ Len(ParsedKeys(s, ks)) = Len(ks)
<1> DEFINE K == [i \in 1..Len(ks) |-> IF Agrees(s, ks, i) THEN s[i] ELSE ks[i]]
<1>1. Len(ks) \in Nat /\ DOMAIN ks = 1..Len(ks) /\ \A i \in 1..Len(ks) : ks[i] \in Fids
  BY ShapeFacts
<1>2. ParsedKeys(s, ks) = K
  BY <1>1 DEF ParsedKeys
<1>3. ASSUME NEW i \in 1..Len(ks), Agrees(s, ks, i) PROVE s[i] \in Fids
  <2>1. s \in Seq(Fids) /\ i <= Len(s) /\ Len(s) \in Nat
    BY <1>3, ShapeFacts DEF Agrees, AnyShape
  <2>2. i \in 1..Len(s)
    BY <1>1, <2>1
  <2> QED BY <2>1, <2>2, ShapeFacts
<1>4. K \in [1..Len(ks) -> Fids] /\ DOMAIN K = 1..Len(ks)
  BY <1>1, <1>3
<1> HIDE DEF K
<1>5. K \in Seq(Fids)
  BY <1>1, <1>4, SeqDef
<1>6. Len(K) = Len(ks)
  <2>1. \A a, b \in Nat : 1..a = 1..b => a = b
    OBVIOUS
  <2> QED BY <1>1, <1>4, <1>5, <2>1, LenProperties
<1> QED BY <1>2, <1>5, <1>6

LEMMA ParseJsonKeeps ==
    ASSUME IInv, NEW o \in Objects, NEW ks \in Seq(Fids), NEW vs \in Seq(Stored),
           Len(vs) = Len(ks), ParseJson(o, ks, vs)
    PROVE  IInv'
<1> DEFINE parsed == ParsedKeys(jsonShape, ks)
<1>1. CachesKept /\ UNCHANGED template
  BY DEF ParseJson, CachesKept
<1>2. jsonShape \in AnyShape /\ (jsonShape # NoShape => ShapeOK(jsonShape))
  BY IInvParts DEF SitesOK
<1>3. CASE UNCHANGED building /\ obj' = [obj EXCEPT ![o] = NewObj]
  <2>1. ObjectsOK'
    BY <1>1, <1>3, EmptyObjects, IInvParts, ObjectChanged
  <2>2. BuildingOK'
    BY <1>3, IInvParts DEF BuildingOK
  <2> QED BY <1>1, <2>1, <2>2, KeptCaches DEF IInv
<1>4. CASE /\ Agrees(jsonShape, ks, Len(ks)) /\ Len(jsonShape) = Len(ks)
           /\ UNCHANGED building
           /\ obj' = [obj EXCEPT ![o] = [NewObj EXCEPT !.shape = jsonShape, !.fields = vs]]
  <2>1. jsonShape \in Seq(Fids) /\ ShapeOK(jsonShape)
    BY <1>2, <1>4 DEF Agrees, AnyShape
  <2>2. ObjGood(Filled(jsonShape, vs))
    BY <1>4, <2>1, FilledGood
  <2>3. obj' = [obj EXCEPT ![o] = Filled(jsonShape, vs)]
    BY <1>4 DEF Filled
  <2>5. ObjectsOK'
    BY <1>1, <2>2, <2>3, IInvParts, ObjectChanged
  <2>4. BuildingOK'
    BY <1>4, IInvParts DEF BuildingOK
  <2> QED BY <1>1, <2>4, <2>5, KeptCaches DEF IInv
<1>5. CASE /\ obj' = [obj EXCEPT ![o] = NewObj]
           /\ building' = [for |-> "json", o |-> o, text |-> ks, ks |-> parsed, vs |-> vs, at |-> 0]
  <2>1. parsed \in Seq(Fids) /\ Len(parsed) = Len(ks) /\ Len(ks) \in Nat
    BY <1>2, ParsedKeysFacts, ShapeFacts
  <2> HIDE DEF parsed
  <2>2. ObjectsOK'
    BY <1>1, <1>5, EmptyObjects, IInvParts, ObjectChanged
  <2>3. BuildingOK'
    BY <1>5, <2>1 DEF BuildingOK, BuildType
  <2> QED BY <1>1, <2>2, <2>3, KeptCaches DEF IInv
<1> QED BY <1>3, <1>4, <1>5 DEF ParseJson

LEMMA JsonDoneKeeps ==
    ASSUME IInv, JsonDone
    PROVE  IInv'
<1> DEFINE ob == obj[building.o]
<1>1. /\ jsonShape' = ob.shape \/ jsonShape' = jsonShape
      /\ building' = Idle
      /\ UNCHANGED <<obj, propIc, propStub, jsIc, methodIc, siteShape, trap, template, family>>
  BY DEF JsonDone
<1>2. building.o \in Objects
  BY IInvParts DEF BuildingOK, BuildType
<1>3. ob.shape \in Seq(Fids) /\ ShapeOK(ob.shape)
  BY <1>2, IInvParts, OneObject DEF ObjGood, ObjOK
<1> HIDE DEF ob
<1>4. SitesOK'
  BY <1>1, <1>3, IInvParts DEF SitesOK, AnyShape, ShapeOK, Distinct
<1>5. BuildingOK'
  BY <1>1, IdleGood DEF BuildingOK
<1>6. ObjectsOK' /\ TemplatesOK' /\ family' \in Families
  BY <1>1, IInvParts, ObjectsUnchanged DEF TemplatesOK
<1>7. PropIcOK' /\ PropStubOK'
  BY <1>1, IInvParts DEF PropIcOK, PropStubOK
<1>8. JsIcOK' /\ MethodIcOK' /\ TrapOK'
  BY <1>1, IInvParts DEF JsIcOK, MethodIcOK, TrapOK
<1> QED BY <1>4, <1>5, <1>6, <1>7, <1>8 DEF IInv

-----------------------------------------------------------------------------
(* The invariant.                                                          *)

LEMMA InitHolds == Init => IInv
<1> SUFFICES ASSUME Init PROVE IInv
  OBVIOUS
<1> DEFINE any == CHOOSE f \in Fids : TRUE
<1>1. any \in Fids
  BY ShapesAssumption
<1> HIDE DEF any
<1>2. \A f \in Fids : /\ Entry(NoShape, f, NoSlot) \in EntryType
                      /\ Entry(NoShape, f, NoSlot).shape = NoShape
                      /\ Entry(NoShape, f, NoSlot).name = f
  BY DEF Entry, EntryType, AnyShape, NoSlot
<1>3. ObjectsOK
  BY EmptyObjects DEF Init, ObjectsOK, ObjGood
<1>4. BuildingOK
  BY IdleGood DEF Init, BuildingOK
<1>5. TemplatesOK
  <2>1. <<>> \in Seq(Fids) /\ <<>> \in Seq(Stored) /\ Len(<<>>) = 0 /\ ShapeOK(<<>>)
    BY EmptyShape
  <2>2. NoTemplate \in TemplateType /\ \A w \in {"Ok", "Err"} : TemplateOK(NoTemplate, w)
    BY <2>1 DEF NoTemplate, TemplateType, TemplateOK, NoSlot
  <2> QED BY <2>2 DEF Init, TemplatesOK
<1>6. PropIcOK /\ PropStubOK
  <2>1. propIc = [i \in {PropIcOf[f] : f \in Fids} |-> Entry(NoShape, any, NoSlot)]
    BY DEF Init, any
  <2>2. propStub = [i \in 0..StubSize - 1 |-> Entry(NoShape, any, NoSlot)]
    BY DEF Init, any
  <2>3. PropIcOK
    BY <1>1, <1>2, <2>1 DEF PropIcOK, Direct
  <2>4. PropStubOK
    BY <1>1, <1>2, <2>2 DEF PropStubOK, Plain, Direct
  <2> QED BY <2>3, <2>4
<1>7. JsIcOK /\ MethodIcOK
  <2>1. Names \subseteq Fids
    BY ShapesAssumption
  <2>2. \A i \in 1..2 : i = 1 \/ i = 2
    OBVIOUS
  <2>3. JsIcOK
    BY <1>2, <2>1, <2>2 DEF Init, JsIcOK, Direct, Plain
  <2>4. MethodIcOK
    BY <1>2, <2>1, <2>2 DEF Init, MethodIcOK, True
  <2> QED BY <2>3, <2>4
<1>8. SitesOK /\ TrapOK
  BY DEF Init, SitesOK, TrapOK, AnyShape, NoSlot
<1>9. family \in Families
  BY DEF Init
<1> QED BY <1>3, <1>4, <1>5, <1>6, <1>7, <1>8, <1>9 DEF IInv

LEMMA NextKeeps == IInv /\ [Next]_vars => IInv'
<1> SUFFICES ASSUME IInv, [Next]_vars PROVE IInv'
  OBVIOUS
<1>1. family \in Families
  BY IInvParts
<1>2. ASSUME NEW o \in Objects, NewObject(o) PROVE IInv'
  BY <1>2, NewObjectKeeps
<1>3. ASSUME NEW o \in Objects, Drop(o) PROVE IInv'
  BY <1>3, DropKeeps
<1>4. ASSUME NEW o \in Objects, Freeze(o) PROVE IInv'
  BY <1>4, FreezeKeeps
<1>5. ASSUME NEW o \in Objects, GetKeys(o) PROVE IInv'
  BY <1>5, NothingChanged DEF GetKeys
<1>6. ASSUME NEW o \in Objects, WriteJson(o) PROVE IInv'
  BY <1>6, NothingChanged DEF WriteJson
<1>7. ASSUME NEW o \in Objects, NEW r \in Made[family], NewResult(o, r[1], r[2]) PROVE IInv'
  BY <1>1, <1>7, MadeFacts, NewResultKeeps
<1>8. ASSUME NEW o \in Objects, NEW ks \in Literals,
             NEW vs \in [DOMAIN ks -> {w[2] : w \in Used[family]}],
             MakeObject(o, ks, vs) \/ ParseJson(o, ks, vs)
      PROVE IInv'
  <2>1. ks \in Seq(Fids) /\ vs \in Seq(Stored) /\ Len(vs) = Len(ks)
    BY <1>1, LiteralFacts
  <2> QED BY <1>8, <2>1, MakeObjectKeeps, ParseJsonKeeps
<1>9. ASSUME NEW o \in Objects, NEW w \in Used[family],
             \/ GetField(o, w[1])
             \/ GetProperty(o, w[1])
             \/ SetField(o, w[1], w[2])
             \/ SetProperty(o, w[1], w[2])
             \/ w[1] \in Names /\ JsWrite(o, w[1], w[2])
      PROVE IInv'
  <2>1. w[1] \in Fids /\ w[2] \in Stored
    BY <1>1, UsedFacts
  <2> QED BY <1>9, <2>1, GetFieldKeeps, GetPropertyKeeps, SetFieldKeeps, SetPropertyKeeps, JsWriteKeeps
<1>10. ASSUME NEW o \in Objects, NEW n \in Names,
              \/ \E argc \in 0..1 : CallMethod(o, n, argc) \/ JitCallMethod(o, n, argc)
              \/ JsReadInline(o, n)
              \/ JsReadStub(o, n)
              \/ JsReadSlow(o, n)
              \/ JsPostInc(o, n)
       PROVE IInv'
  BY <1>10, CallMethodKeeps, JitCallMethodKeeps, JsReadInlineKeeps, JsReadStubKeeps,
     JsReadSlowKeeps, JsPostIncKeeps
<1>11. ASSUME NEW f \in Traps, FindTrap(f) PROVE IInv'
  BY <1>11, FindTrapKeeps
<1>12. CASE UNCHANGED vars
  BY <1>12, NothingChanged DEF vars, UnchangedCaches
<1> QED BY <1>2, <1>3, <1>4, <1>5, <1>6, <1>7, <1>8, <1>9, <1>10, <1>11, <1>12,
           FillFieldKeeps, LiteralDoneKeeps, JsonDoneKeeps DEF Next

(* The inductive invariant: every object is in one representation, its     *)
(* lazy fields have a method in the template that it came from, and every  *)
(* entry of every cache is true of the shape that it names.                *)
THEOREM ShapesInvariant == Spec => []IInv
<1>1. Init => IInv
  BY InitHolds
<1>2. IInv /\ [Next]_vars => IInv'
  BY NextKeeps
<1> QED BY <1>1, <1>2, PTL DEF Spec

(* Objects, the object that is being filled, the caches and the templates  *)
(* keep their types.                                                       *)
THEOREM TypeCorrect == Spec => []TypeOK
<1>1. IInv => TypeOK
  BY DEF IInv, TypeOK, ObjectsOK, BuildingOK, PropIcOK, PropStubOK, JsIcOK, MethodIcOK,
         SitesOK, TrapOK, TemplatesOK
<1> QED BY <1>1, ShapesInvariant, PTL

(* set_field, promotion to a hash map, materialization of lazy methods,    *)
(* the literals' and the JSON parser's copies of a shape all leave an      *)
(* object with one field per name of its shape, or with a map of its keys. *)
THEOREM ObjectsStayCoherent == Spec => []Coherent
<1>1. IInv => Coherent
  <2> SUFFICES ASSUME IInv, NEW o \in Objects
               PROVE  LET ob == obj[o]
                      IN /\ Len(ob.shape) = Len(ob.fields)
                         /\ Len(ob.shape) <= Threshold
                         /\ ob.dictMode => ob.shape = <<>> /\ ob.lazy = {} /\ InUse(ob.keys) = DOMAIN ob.map
                         /\ \A i, j \in DOMAIN ob.shape : ob.shape[i] = ob.shape[j] => i = j
                         /\ ob.lazy # {} => /\ ob.ctx # NoContext
                                            /\ ob.lazy \subseteq template[ob.ctx].methods
                                            /\ ob.lazy \subseteq DOMAIN ob.shape
                                            /\ \A i \in ob.lazy : ob.shape[i] = template[ob.ctx].shape[i]
    BY DEF Coherent
  <2>1. ObjOK(obj[o])
    BY IInvParts DEF ObjectsOK
  <2>2. DOMAIN obj[o].shape = 1..Len(obj[o].shape)
    BY IInvParts, OneObject, ShapeFacts
  <2> QED BY <2>1, <2>2 DEF ObjOK, ShapeOK, Distinct
<1> QED BY <1>1, ShapesInvariant, PTL

(* Whichever shapes the caches have met and whichever places they share,   *)
(* an entry maps a shape to the slot of the property, and JavaScript never *)
(* reads a slot that a getter guards.                                      *)
THEOREM CachesTellTheTruth == Spec => []CachesTrue
<1>1. IInv => CachesTrue
  <2> SUFFICES ASSUME IInv PROVE CachesTrue
    OBVIOUS
  <2>1. \A i \in DOMAIN propIc : Direct(propIc[i])
    BY IInvParts DEF PropIcOK
  <2>2. /\ \A i \in DOMAIN propStub : Direct(propStub[i])
        /\ \A i \in DOMAIN propStub : propStub[i].shape # NoShape =>
               SlotOf(propStub[i].shape, GetterOf[propStub[i].name]) = NoSlot
    BY IInvParts DEF PropStubOK, Plain
  <2>3. /\ \A n \in Names, i \in 1..2 :
               /\ Direct(jsIc[n][i])
               /\ jsIc[n][i].shape # NoShape => SlotOf(jsIc[n][i].shape, GetterOf[n]) = NoSlot
        /\ \A n \in Names, i \in 1..2 : True(methodIc[n][i])
        /\ trap.shape # NoShape => \A f \in Traps : trap.slots[f] = SlotOf(trap.shape, f)
    BY IInvParts DEF JsIcOK, MethodIcOK, TrapOK, Plain
  <2> QED BY <2>1, <2>2, <2>3 DEF CachesTrue
<1> QED BY <1>1, ShapesInvariant, PTL


-----------------------------------------------------------------------------
(* What a program sees of an object.                                       *)

NamesIn(ob) == IF ob.dictMode THEN ob.keys ELSE ob.shape

ValuesIn(ob) == [f \in InUse(NamesIn(ob)) |-> ValueAt(ob, f)]

View(ob) == [names |-> NamesIn(ob), value |-> ValuesIn(ob), frozen |-> ob.frozen, live |-> TRUE]

(* As IsLiteral of PropertyStore, for the first n keys and values. *)
FilledUpTo(s, ks, vs, n) ==
    /\ s.live /\ ~s.frozen
    /\ InUse(s.names) = {ks[a] : a \in 1..n} /\ DOMAIN s.value = {ks[a] : a \in 1..n}
    /\ \A i, j \in DOMAIN s.names : i < j =>
           \E a \in 1..n : /\ ks[a] = s.names[i]
                           /\ \A b \in 1..n : ks[b] = s.names[j] => a < b
    /\ \A a \in 1..n : (\A b \in 1..n : ks[b] = ks[a] => b <= a) => s.value[ks[a]] = vs[a]

(* What is being filled is a literal so far, and nothing can freeze it. *)
FillingOK == building # Idle =>
    /\ obj[building.o].live
    /\ building.text = building.ks /\ building.text \in Literals
    /\ building.vs \in [DOMAIN building.text -> Values]
    /\ FilledUpTo(View(obj[building.o]), building.ks, building.vs, building.at)

-----------------------------------------------------------------------------
(* Properties of an object, whatever represents them.                      *)

(* The value of a slot, built or not. *)
SlotValue(ob, i) == IF i \in ob.lazy THEN MadeMethod(ob, i) ELSE ob.fields[i]

LEMMA SlotValueStored ==
    ASSUME TemplatesOK, NEW ob, ObjGood(ob), NEW i \in 1..Len(ob.fields)
    PROVE  SlotValue(ob, i) \in Stored
<1>1. ob.fields[i] \in Stored
  BY ObjFields, FieldFacts DEF ObjGood
<1>2. i \in ob.lazy => MadeMethod(ob, i) \in Stored
  BY MadeStored
<1> QED BY <1>1, <1>2 DEF SlotValue

LEMMA MaterializedSlots ==
    ASSUME TemplatesOK, NEW ob, ObjGood(ob), NEW s
    PROVE  /\ \A i \in 1..Len(ob.fields) : SlotValue(Materialized(ob, s), i) = SlotValue(ob, i)
           /\ s \in 1..Len(ob.fields) => Materialized(ob, s).fields[s] = SlotValue(ob, s)
           /\ Materialized(ob, s).keys = ob.keys /\ Materialized(ob, s).map = ob.map
<1>1. CASE s \notin ob.lazy
  BY <1>1 DEF Materialized, SlotValue
<1>2. CASE s \in ob.lazy
  <2> DEFINE r == Materialized(ob, s)
             v == MadeMethod(ob, s)
             fs == [ob.fields EXCEPT ![s] = v]
  <2>1. s \in 1..Len(ob.fields) /\ v \in Stored /\ Changed(ob, r, fs, ob.lazy \ {s})
    BY <1>2, MaterializedIs
  <2>2. \A i \in 1..Len(ob.fields) : fs[i] = IF i = s THEN v ELSE ob.fields[i]
    BY <2>1, SlotWritten
  <2> HIDE DEF r, fs
  <2>3. /\ r.fields = fs /\ r.lazy = ob.lazy \ {s} /\ r.keys = ob.keys /\ r.map = ob.map
        /\ r.lazy # {} => r.ctx = ob.ctx /\ r.payload = ob.payload
    BY <2>1 DEF Changed
  <2>4. ASSUME NEW i \in 1..Len(ob.fields) PROVE SlotValue(r, i) = SlotValue(ob, i)
    <3>1. CASE i = s
      BY <1>2, <2>2, <2>3, <3>1 DEF SlotValue
    <3>2. CASE i # s /\ i \in ob.lazy
      BY <2>3, <3>2 DEF SlotValue, MadeMethod
    <3>3. CASE i # s /\ i \notin ob.lazy
      BY <2>2, <2>3, <3>3 DEF SlotValue
    <3> QED BY <3>1, <3>2, <3>3
  <2>5. r.fields[s] = SlotValue(ob, s)
    BY <1>2, <2>1, <2>2, <2>3 DEF SlotValue
  <2> QED BY <2>3, <2>4, <2>5 DEF r
<1> QED BY <1>1, <1>2

LEMMA WrittenSlots ==
    ASSUME NEW ob, ObjGood(ob), NEW s \in 1..Len(ob.fields), NEW v \in Stored
    PROVE  \A i \in 1..Len(ob.fields) :
               SlotValue(Written(ob, s, v), i) = IF i = s THEN v ELSE SlotValue(ob, i)
<1> DEFINE r == Written(ob, s, v)
           fs == [ob.fields EXCEPT ![s] = v]
<1>1. Changed(ob, r, fs, ob.lazy \ {s})
  BY WrittenIs
<1>2. \A i \in 1..Len(ob.fields) : fs[i] = IF i = s THEN v ELSE ob.fields[i]
  BY SlotWritten
<1> HIDE DEF r, fs
<1>3. /\ r.fields = fs /\ r.lazy = ob.lazy \ {s}
      /\ r.lazy # {} => r.ctx = ob.ctx /\ r.payload = ob.payload
  BY <1>1 DEF Changed
<1>4. ASSUME NEW i \in 1..Len(ob.fields) PROVE SlotValue(r, i) = IF i = s THEN v ELSE SlotValue(ob, i)
  <2>1. CASE i = s
    BY <1>2, <1>3, <2>1 DEF SlotValue
  <2>2. CASE i # s /\ i \in ob.lazy
    BY <1>3, <2>2 DEF SlotValue, MadeMethod
  <2>3. CASE i # s /\ i \notin ob.lazy
    BY <1>2, <1>3, <2>3 DEF SlotValue
  <2> QED BY <2>1, <2>2, <2>3
<1> QED BY <1>4 DEF r

(* The names of an object, and the value of each. *)
LEMMA NameFacts ==
    ASSUME NEW ob, ObjGood(ob), NEW f \in Fids
    PROVE  /\ NamesIn(ob) \in Seq(Fids)
           /\ ob.dictMode => /\ f \in InUse(NamesIn(ob)) <=> f \in DOMAIN ob.map
                             /\ ValueAt(ob, f) = ob.map[f]
           /\ ~ob.dictMode => /\ f \in InUse(NamesIn(ob)) <=> SlotOf(ob.shape, f) # NoSlot
                              /\ SlotOf(ob.shape, f) # NoSlot =>
                                     SlotOf(ob.shape, f) \in 1..Len(ob.fields)
                              /\ ValueAt(ob, f) = SlotValue(ob, SlotOf(ob.shape, f))
<1>1. /\ ob.shape \in Seq(Fids) /\ ob.keys \in Seq(Fids) /\ Len(ob.shape) = Len(ob.fields)
      /\ ob.dictMode => InUse(ob.keys) = DOMAIN ob.map
  BY ObjFields DEF ObjGood, ObjOK
<1>2. CASE ob.dictMode
  BY <1>1, <1>2 DEF NamesIn, ValueAt
<1>3. CASE ~ob.dictMode
  <2>1. NamesIn(ob) = ob.shape /\ ValueAt(ob, f) = SlotValue(ob, SlotOf(ob.shape, f))
    BY <1>3 DEF NamesIn, ValueAt, SlotValue
  <2> QED BY <1>1, <1>3, <2>1, SlotFacts
<1> QED BY <1>2, <1>3

LEMMA ValueStored ==
    ASSUME TemplatesOK, NEW ob, ObjGood(ob), NEW f \in InUse(NamesIn(ob))
    PROVE  f \in Fids /\ ValueAt(ob, f) \in Stored
<1>1. NamesIn(ob) \in Seq(Fids)
  BY ObjFields DEF ObjGood, NamesIn
<1>2. f \in Fids
  BY <1>1, ShapeFacts
<1>3. CASE ob.dictMode
  <2>1. f \in DOMAIN ob.map /\ ValueAt(ob, f) = ob.map[f] /\ ob.map \in Maps
    BY <1>2, <1>3, NameFacts, ObjFields DEF ObjGood
  <2> QED BY <1>2, <2>1, MapFacts
<1>4. CASE ~ob.dictMode
  BY <1>2, <1>4, NameFacts, SlotValueStored
<1> QED BY <1>3, <1>4

LEMMA NotStored ==
    /\ Absent \notin Stored /\ Helper \notin Stored /\ ~IsFunction(Absent) /\ ~IsFunction(None)
    /\ IsFunction(Fn)
<1>1. /\ None.kind = "none" /\ Fn.kind = "function" /\ \A n : Integer(n).kind = "int"
      /\ \A w : Variant(w).kind = "string"
      /\ \A w, f, n : Method(w, f, n).of = w
  BY DEF None, Fn, Integer, Variant, Method, Value
<1>3. ASSUME NEW v \in Stored
      PROVE  v.kind \in {"none", "function", "int", "string"} \/ v.of \in {"Ok", "Err"}
  BY <1>1 DEF Stored
<1>4. /\ Absent.kind = "absent" /\ Absent.of = "" /\ Helper.kind = "helper" /\ Helper.of = ""
  BY DEF Absent, Helper, Value
<1>2. ~IsFunction(Absent) /\ ~IsFunction(None) /\ IsFunction(Fn)
  BY DEF Absent, None, Fn, Value, IsFunction
<1> QED BY <1>2, <1>3, <1>4

(* get_field answers what the object has. *)
LEMMA FieldGotIs ==
    ASSUME TemplatesOK, NEW ob, ObjGood(ob), NEW f \in Fids
    PROVE  /\ FieldGot(ob, f) = IF f \in InUse(NamesIn(ob)) THEN ValueAt(ob, f) ELSE Absent
           /\ FieldGot(ob, f) = Absent <=> f \notin InUse(NamesIn(ob))
<1> DEFINE s == SlotOf(ob.shape, f)
<1>1. ob.fields \in Seq(Stored) /\ DOMAIN ob.fields = 1..Len(ob.fields) /\ NoSlot \notin 1..Len(ob.fields)
  BY ObjFields, FieldFacts DEF ObjGood, NoSlot
<1>2. FieldGot(ob, f) = IF f \in InUse(NamesIn(ob)) THEN ValueAt(ob, f) ELSE Absent
  <2>1. CASE ob.dictMode
    BY <2>1, NameFacts DEF FieldGot
  <2>2. CASE ~ob.dictMode
    <3>1. s \in DOMAIN ob.fields <=> f \in InUse(NamesIn(ob))
      BY <1>1, <2>2, NameFacts
    <3>2. s \in DOMAIN ob.fields => Materialized(ob, s).fields[s] = ValueAt(ob, f)
      BY <1>1, <2>2, NameFacts, MaterializedSlots
    <3> QED BY <2>2, <3>1, <3>2 DEF FieldGot
  <2> QED BY <2>1, <2>2
<1> QED BY <1>2, ValueStored, NotStored

(* Two objects are seen alike when their names and values are. *)
LEMMA SeenAlike ==
    ASSUME NEW ob, NEW r, NamesIn(r) = NamesIn(ob), r.frozen = ob.frozen,
           \A g \in InUse(NamesIn(ob)) : ValueAt(r, g) = ValueAt(ob, g)
    PROVE  View(r) = View(ob)
<1>1. ValuesIn(r) = ValuesIn(ob)
  BY DEF ValuesIn
<1> QED BY <1>1 DEF View

LEMMA InUseAppend ==
    ASSUME NEW s \in Seq(Fids), NEW f \in Fids
    PROVE  InUse(Append(s, f)) = InUse(s) \cup {f}
<1> DEFINE ks == Append(s, f)
<1>1. Len(s) \in Nat /\ DOMAIN s = 1..Len(s)
  BY ShapeFacts
<1>2. /\ ks \in Seq(Fids) /\ Len(ks) = Len(s) + 1
      /\ \A i \in 1..Len(s) : ks[i] = s[i]
      /\ ks[Len(s) + 1] = f
  BY AppendProperties
<1>3. DOMAIN ks = 1..Len(s) + 1
  BY <1>2, LenProperties
<1> HIDE DEF ks
<1>4. \A i \in 1..Len(s) + 1 : i \in 1..Len(s) \/ i = Len(s) + 1
  BY <1>1
<1>5. 1..Len(s) \subseteq 1..Len(s) + 1 /\ Len(s) + 1 \in 1..Len(s) + 1
  BY <1>1
<1> QED BY <1>1, <1>2, <1>3, <1>4, <1>5 DEF InUse, ks

(* Put of PropertyStore, and what it does to what is seen of an object. *)
Put(s, f, v) ==
    CASE s.frozen -> s
      [] ~s.frozen /\ f \in DOMAIN s.value -> [s EXCEPT !.value[f] = v]
      [] OTHER ->
            [s EXCEPT !.names = Append(@, f),
                      !.value = [g \in DOMAIN @ \cup {f} |-> IF g = f THEN v ELSE s.value[g]]]

LEMMA PutFrozen ==
    ASSUME NEW ob, ob.frozen, NEW f, NEW v
    PROVE  Put(View(ob), f, v) = View(ob)
BY DEF Put, View

LEMMA ViewIs ==
    ASSUME NEW ob
    PROVE  /\ View(ob).names = NamesIn(ob) /\ DOMAIN View(ob).value = InUse(NamesIn(ob))
           /\ \A g \in InUse(NamesIn(ob)) : View(ob).value[g] = ValueAt(ob, g)
           /\ View(ob).frozen = ob.frozen /\ View(ob).live = TRUE
BY DEF View, ValuesIn

LEMMA PutOver ==
    ASSUME NEW ob, NEW r, NEW f, NEW v, ~ob.frozen, r.frozen = ob.frozen,
           f \in InUse(NamesIn(ob)), NamesIn(r) = NamesIn(ob),
           \A g \in InUse(NamesIn(ob)) : ValueAt(r, g) = IF g = f THEN v ELSE ValueAt(ob, g)
    PROVE  View(r) = Put(View(ob), f, v)
<1> DEFINE old == ValuesIn(ob)
           new == ValuesIn(r)
<1>1. new = [old EXCEPT ![f] = v] /\ f \in DOMAIN old
  BY DEF ValuesIn
<1> HIDE DEF old, new
<1>2. Put(View(ob), f, v) = [names |-> NamesIn(ob), value |-> new, frozen |-> ob.frozen, live |-> TRUE]
  BY <1>1 DEF Put, View, old
<1>3. View(r) = [names |-> NamesIn(ob), value |-> new, frozen |-> ob.frozen, live |-> TRUE]
  BY Zenon DEF View, new
<1> QED BY <1>2, <1>3

LEMMA PutNew ==
    ASSUME NEW ob, NEW r, NEW f \in Fids, NEW v, ~ob.frozen, r.frozen = ob.frozen,
           NamesIn(ob) \in Seq(Fids), f \notin InUse(NamesIn(ob)),
           NamesIn(r) = Append(NamesIn(ob), f), ValueAt(r, f) = v,
           \A g \in InUse(NamesIn(ob)) : ValueAt(r, g) = ValueAt(ob, g)
    PROVE  View(r) = Put(View(ob), f, v)
<1> DEFINE old == ValuesIn(ob)
           new == ValuesIn(r)
           names == Append(NamesIn(ob), f)
<1>1. InUse(NamesIn(r)) = InUse(NamesIn(ob)) \cup {f}
  BY InUseAppend
<1>2. new = [g \in DOMAIN old \cup {f} |-> IF g = f THEN v ELSE old[g]] /\ f \notin DOMAIN old
  BY <1>1 DEF ValuesIn
<1> HIDE DEF old, new
<1>3. Put(View(ob), f, v) = [names |-> names, value |-> new, frozen |-> ob.frozen, live |-> TRUE]
  BY <1>2 DEF Put, View, old
<1>4. View(r) = [names |-> names, value |-> new, frozen |-> ob.frozen, live |-> TRUE]
  BY Zenon DEF View, new
<1> QED BY <1>3, <1>4

(* Reading builds lazy fields, which no program sees. *)
LEMMA MaterializedView ==
    ASSUME TemplatesOK, NEW ob, ObjGood(ob), NEW s
    PROVE  View(Materialized(ob, s)) = View(ob)
<1> DEFINE r == Materialized(ob, s)
<1>1. /\ r.shape = ob.shape /\ r.frozen = ob.frozen /\ r.dictMode = ob.dictMode
      /\ r.keys = ob.keys /\ r.map = ob.map
      /\ \A i \in 1..Len(ob.fields) : SlotValue(r, i) = SlotValue(ob, i)
  BY MaterializedGood, MaterializedSlots
<1> HIDE DEF r
<1>2. NamesIn(r) = NamesIn(ob) /\ NamesIn(ob) \in Seq(Fids)
  BY <1>1, ObjFields DEF NamesIn, ObjGood
<1>3. ASSUME NEW g \in InUse(NamesIn(ob)) PROVE ValueAt(r, g) = ValueAt(ob, g)
  <2>1. g \in Fids
    BY <1>2, ShapeFacts
  <2>2. CASE ob.dictMode
    BY <1>1, <2>2 DEF ValueAt
  <2>3. CASE ~ob.dictMode
    <3>1. SlotOf(ob.shape, g) \in 1..Len(ob.fields)
      BY <2>1, <2>3, NameFacts
    <3> QED BY <1>1, <2>3, <3>1 DEF ValueAt, SlotValue
  <2> QED BY <2>2, <2>3
<1> QED BY <1>1, <1>2, <1>3, SeenAlike DEF r

LEMMA TouchedView ==
    ASSUME TemplatesOK, NEW ob, ObjGood(ob), NEW f
    PROVE  View(FieldTouched(ob, f)) = View(ob)
BY MaterializedView DEF FieldTouched

LEMMA DictPutView ==
    ASSUME NEW ob, ObjGood(ob), ob.dictMode, ~ob.frozen, NEW f \in Fids, NEW v \in Stored
    PROVE  View(DictPut(ob, f, v)) = Put(View(ob), f, v)
<1> DEFINE r == DictPut(ob, f, v)
<1>1. /\ ob \in ObjType /\ ob.keys \in Seq(Fids) /\ ob.map \in Maps /\ InUse(ob.keys) = DOMAIN ob.map
  BY ObjFields DEF ObjGood, ObjOK
<1>2. ob.map \in [DOMAIN ob.map -> Stored] /\ NamesIn(ob) = ob.keys
  BY <1>1, MapFacts DEF NamesIn
<1>3. r.dictMode /\ r.frozen = ob.frozen
  BY <1>1, DictPutGood
<1>4. CASE f \in DOMAIN ob.map
  <2>1. r = [ob EXCEPT !.map = [ob.map EXCEPT ![f] = v]]
    BY <1>1, <1>4 DEF DictPut, ObjType
  <2>2. r.keys = ob.keys /\ r.map = [ob.map EXCEPT ![f] = v]
    BY <1>1, <2>1 DEF ObjType
  <2> HIDE DEF r
  <2>3. \A g \in InUse(NamesIn(ob)) : ValueAt(r, g) = IF g = f THEN v ELSE ValueAt(ob, g)
    BY <1>1, <1>2, <1>3, <2>2 DEF ValueAt
  <2>4. NamesIn(r) = NamesIn(ob)
    BY <1>2, <1>3, <2>2 DEF NamesIn
  <2>5. View(r) = Put(View(ob), f, v)
    <3>1. f \in InUse(NamesIn(ob))
      BY <1>1, <1>2, <1>4
    <3> QED BY <1>1, <1>3, <2>3, <2>4, <3>1, PutOver
  <2> QED BY <2>5 DEF r
<1>5. CASE f \notin DOMAIN ob.map
  <2> DEFINE m == [g \in DOMAIN ob.map \cup {f} |-> IF g = f THEN v ELSE ob.map[g]]
             ks == Append(ob.keys, f)
  <2>1. r = [ob EXCEPT !.keys = ks, !.map = m]
    BY <1>1, <1>5 DEF DictPut, ObjType
  <2>2. m[f] = v /\ \A g \in DOMAIN ob.map : m[g] = ob.map[g]
    BY <1>5
  <2> HIDE DEF m, ks
  <2>3. r.keys = ks /\ r.map = m
    BY <1>1, <2>1 DEF ObjType
  <2> HIDE DEF r
  <2>4. ValueAt(r, f) = v /\ \A g \in InUse(NamesIn(ob)) : ValueAt(r, g) = ValueAt(ob, g)
    BY <1>1, <1>2, <1>3, <2>2, <2>3 DEF ValueAt
  <2>5. NamesIn(r) = Append(NamesIn(ob), f)
    BY <1>2, <1>3, <2>3 DEF NamesIn, ks
  <2>6. View(r) = Put(View(ob), f, v)
    <3>1. f \notin InUse(NamesIn(ob)) /\ NamesIn(ob) \in Seq(Fids)
      BY <1>1, <1>2, <1>5
    <3> QED BY <1>1, <1>3, <2>4, <2>5, <3>1, PutNew
  <2> QED BY <2>6 DEF r
<1> QED BY <1>4, <1>5

(* One slot gets a value: that is one name. *)
LEMMA SlotPutView ==
    ASSUME NEW ob, ObjGood(ob), ~ob.frozen, ~ob.dictMode, NEW f \in Fids, NEW v,
           SlotOf(ob.shape, f) # NoSlot,
           NEW r, r.shape = ob.shape, r.frozen = ob.frozen, r.dictMode = ob.dictMode,
           \A i \in 1..Len(ob.fields) :
               SlotValue(r, i) = IF i = SlotOf(ob.shape, f) THEN v ELSE SlotValue(ob, i)
    PROVE  View(r) = Put(View(ob), f, v)
<1> DEFINE s == SlotOf(ob.shape, f)
<1>1. ob.shape \in Seq(Fids) /\ s \in 1..Len(ob.fields) /\ f \in InUse(NamesIn(ob))
  BY NameFacts, ObjFields DEF ObjGood
<1>2. \A i \in 1..Len(ob.fields) : SlotValue(r, i) = IF i = s THEN v ELSE SlotValue(ob, i)
  OBVIOUS
<1>3. NamesIn(r) = NamesIn(ob) /\ NamesIn(ob) = ob.shape
  BY DEF NamesIn
<1>4. ASSUME NEW g \in InUse(NamesIn(ob)) PROVE ValueAt(r, g) = IF g = f THEN v ELSE ValueAt(ob, g)
  <2> DEFINE i == SlotOf(ob.shape, g)
  <2>1. g \in Fids
    BY <1>1, <1>3, ShapeFacts
  <2>2. i \in 1..Len(ob.fields) /\ ob.shape[i] = g
    <3>1. i # NoSlot /\ i \in 1..Len(ob.fields)
      BY <2>1, NameFacts
    <3> QED BY <1>1, <2>1, <3>1, SlotFacts
  <2>3. ob.shape[s] = f
    BY <1>1, SlotFacts
  <2>4. ValueAt(r, g) = SlotValue(r, i) /\ ValueAt(ob, g) = SlotValue(ob, i)
    BY DEF ValueAt, SlotValue
  <2>5. g = f <=> i = s
    BY <2>2, <2>3
  <2> HIDE DEF i, s
  <2> QED BY <1>2, <2>2, <2>4, <2>5
<1> QED BY <1>1, <1>3, <1>4, PutOver

LEMMA WrittenView ==
    ASSUME NEW ob, ObjGood(ob), ~ob.frozen, ~ob.dictMode, NEW f \in Fids, NEW v \in Stored,
           SlotOf(ob.shape, f) # NoSlot
    PROVE  View(Written(ob, SlotOf(ob.shape, f), v)) = Put(View(ob), f, v)
<1> DEFINE s == SlotOf(ob.shape, f)
           r == Written(ob, s, v)
<1>1. s \in 1..Len(ob.fields)
  BY NameFacts
<1>2. /\ r.shape = ob.shape /\ r.frozen = ob.frozen /\ r.dictMode = ob.dictMode
      /\ \A i \in 1..Len(ob.fields) : SlotValue(r, i) = IF i = s THEN v ELSE SlotValue(ob, i)
  <2> HIDE DEF s
  <2> QED BY <1>1, WrittenGood, WrittenSlots
<1> HIDE DEF r
<1>3. View(r) = Put(View(ob), f, v)
  BY <1>2, SlotPutView
<1> QED BY <1>3 DEF r

LEMMA PromotedMap ==
    ASSUME NEW ob, ob \in ObjType, ~ob.dictMode
    PROVE  Promoted(ob).map = ValuesIn(ob)
<1> DEFINE m == [f \in InUse(ob.shape) |->
                    LET s == SlotOf(ob.shape, f)
                    IN IF s \in ob.lazy THEN MadeMethod(ob, s) ELSE ob.fields[s]]
           b == [ob EXCEPT !.lazy = {}]
           c == ContextReset(b)
           r == [c EXCEPT !.keys = ob.shape, !.map = m, !.fields = <<>>, !.shape = <<>>, !.dictMode = TRUE]
<1>1. m = ValuesIn(ob)
  BY DEF ValuesIn, NamesIn, ValueAt
<1>2. b \in ObjType
  BY DEF ObjType
<1>3. Promoted(ob) = r
  BY DEF Promoted
<1> HIDE DEF m, b
<1>4. c \in ObjType
  BY <1>2, ResetGood
<1> HIDE DEF c
<1>5. r.map = m
  BY <1>4 DEF ObjType
<1> QED BY <1>1, <1>3, <1>5

LEMMA PromotedView ==
    ASSUME TemplatesOK, NEW ob, ObjGood(ob), ~ob.dictMode
    PROVE  View(Promoted(ob)) = View(ob)
<1> DEFINE r == Promoted(ob)
<1>1. ob \in ObjType
  BY DEF ObjGood
<1>2. /\ r.dictMode /\ r.frozen = ob.frozen /\ r.keys = ob.shape
      /\ r.map = ValuesIn(ob)
  BY <1>1, PromotedGood, PromotedMap
<1> HIDE DEF r
<1>3. NamesIn(r) = NamesIn(ob)
  BY <1>2 DEF NamesIn
<1>4. \A g \in InUse(NamesIn(ob)) : ValueAt(r, g) = ValueAt(ob, g)
  <2>1. \A g \in InUse(NamesIn(ob)) : ValuesIn(ob)[g] = ValueAt(ob, g)
    BY DEF ValuesIn
  <2>2. \A g : ValueAt(r, g) = r.map[g]
    BY <1>2 DEF ValueAt
  <2> QED BY <1>2, <2>1, <2>2
<1> QED BY <1>2, <1>3, <1>4, SeenAlike DEF r

LEMMA AppendedView ==
    ASSUME NEW ob, ObjGood(ob), ~ob.frozen, ~ob.dictMode, NEW f \in Fids, NEW v \in Stored,
           f \notin InUse(NamesIn(ob)), ShapeOK(Append(ob.shape, f))
    PROVE  View([ob EXCEPT !.shape = Append(@, f), !.fields = Append(@, v)]) = Put(View(ob), f, v)
<1> DEFINE sh == Append(ob.shape, f)
           fs == Append(ob.fields, v)
           r == [ob EXCEPT !.shape = Append(@, f), !.fields = Append(@, v)]
           n == Len(ob.shape)
<1>1. /\ ob \in ObjType /\ ob.shape \in Seq(Fids) /\ ob.fields \in Seq(Stored)
      /\ n = Len(ob.fields) /\ n \in Nat /\ NamesIn(ob) = ob.shape
      /\ ob.lazy # {} => ob.lazy \subseteq 1..n
  BY ObjFields, ShapeFacts DEF ObjGood, ObjOK, NamesIn
<1>2. /\ sh \in Seq(Fids) /\ Len(sh) = n + 1 /\ sh[n + 1] = f
      /\ \A i \in 1..n : sh[i] = ob.shape[i]
  BY <1>1, AppendProperties
<1>3. /\ fs \in Seq(Stored) /\ fs[n + 1] = v
      /\ \A i \in 1..n : fs[i] = ob.fields[i]
  BY <1>1, AppendProperties
<1>4. /\ r.shape = sh /\ r.fields = fs /\ r.lazy = ob.lazy /\ r.ctx = ob.ctx /\ r.payload = ob.payload
      /\ r.dictMode = ob.dictMode /\ r.frozen = ob.frozen
  BY <1>1 DEF ObjType
<1>5. NamesIn(r) = Append(NamesIn(ob), f)
  BY <1>1, <1>4 DEF NamesIn
<1>6. n + 1 \in 1..n + 1 /\ n + 1 \notin 1..n /\ 1..n \subseteq 1..n + 1
  BY <1>1
<1> HIDE DEF sh, fs, r, n
<1>7. \A i, j \in 1..n + 1 : sh[i] = sh[j] => i = j
  BY <1>2 DEF ShapeOK, Distinct, sh
<1>8. ASSUME NEW k \in 1..n + 1 PROVE ValueAt(r, sh[k]) = SlotValue(r, k)
  <2> DEFINE q == SlotOf(sh, sh[k])
  <2>1. sh[k] \in Fids /\ sh[k] \in InUse(sh)
    BY <1>2, ShapeFacts
  <2>2. q \in 1..n + 1 /\ sh[q] = sh[k]
    BY <1>2, <2>1, SlotFacts
  <2>3. ValueAt(r, sh[k]) = SlotValue(r, q)
    BY <1>4 DEF ValueAt, SlotValue
  <2> HIDE DEF q
  <2> QED BY <1>7, <2>2, <2>3
<1>9. ValueAt(r, f) = v
  <2>1. SlotValue(r, n + 1) = v
    BY <1>1, <1>3, <1>4, <1>6 DEF SlotValue
  <2> QED BY <1>2, <1>6, <1>8, <2>1
<1>10. ASSUME NEW g \in InUse(NamesIn(ob)) PROVE ValueAt(r, g) = ValueAt(ob, g)
  <2> DEFINE k == SlotOf(ob.shape, g)
  <2>1. g \in Fids
    BY <1>1, ShapeFacts
  <2>2. k \in 1..n /\ ob.shape[k] = g /\ ValueAt(ob, g) = SlotValue(ob, k)
    BY <1>1, <2>1, NameFacts, SlotFacts
  <2> HIDE DEF k
  <2>3. ValueAt(r, g) = SlotValue(r, k)
    BY <1>2, <1>6, <1>8, <2>2
  <2>4. SlotValue(r, k) = SlotValue(ob, k)
    BY <1>3, <1>4, <2>2 DEF SlotValue, MadeMethod
  <2> QED BY <2>2, <2>3, <2>4
<1>11. View(r) = Put(View(ob), f, v)
  BY <1>1, <1>4, <1>5, <1>9, <1>10, PutNew
<1> QED BY <1>11 DEF r

(* set_field puts the value, whatever becomes of the representation. *)
LEMMA FieldSetView ==
    ASSUME TemplatesOK, NEW ob, ObjGood(ob), NEW f \in Fids, NEW v \in Stored
    PROVE  View(FieldSet(ob, f, v)) = Put(View(ob), f, v)
<1> DEFINE at == SlotOf(ob.shape, f)
<1>1. /\ ob \in ObjType /\ ob.shape \in Seq(Fids) /\ ShapeOK(ob.shape) /\ Len(ob.shape) \in Nat
      /\ ob.frozen \in BOOLEAN /\ ob.dictMode \in BOOLEAN
  BY ObjFields, ShapeFacts DEF ObjGood, ObjOK
<1>2. CASE ob.frozen
  <2>1. FieldSet(ob, f, v) = ob
    BY <1>2 DEF FieldSet
  <2> QED BY <1>2, <2>1, PutFrozen
<1>3. CASE ~ob.frozen /\ ob.dictMode
  <2>1. FieldSet(ob, f, v) = DictPut(ob, f, v)
    BY <1>3 DEF FieldSet
  <2> QED BY <1>3, <2>1, DictPutView
<1>4. CASE ~ob.frozen /\ ~ob.dictMode /\ at # NoSlot
  <2>1. FieldSet(ob, f, v) = Written(ob, at, v)
    BY <1>4 DEF FieldSet
  <2> QED BY <1>4, <2>1, WrittenView
<1>5. CASE ~ob.frozen /\ ~ob.dictMode /\ at = NoSlot /\ Len(ob.shape) >= Threshold
  <2>1. FieldSet(ob, f, v) = DictPut(Promoted(ob), f, v)
    BY <1>5 DEF FieldSet
  <2> DEFINE r == Promoted(ob)
  <2>2. ObjGood(r) /\ r.dictMode /\ r.frozen = ob.frozen
    BY <1>5, PromotedGood
  <2>3. View(r) = View(ob)
    BY <1>5, PromotedView
  <2> HIDE DEF r
  <2>4. View(DictPut(r, f, v)) = Put(View(r), f, v)
    BY <1>5, <2>2, DictPutView
  <2> QED BY <2>1, <2>3, <2>4 DEF r
<1>6. CASE ~ob.frozen /\ ~ob.dictMode /\ at = NoSlot /\ ~(Len(ob.shape) >= Threshold)
  <2>1. FieldSet(ob, f, v) = [ob EXCEPT !.shape = Extend(@, f), !.fields = Append(@, v)]
    BY <1>6 DEF FieldSet
  <2>2. Extend(ob.shape, f) = Append(ob.shape, f)
    BY <1>6 DEF Extend
  <2>3. FieldSet(ob, f, v) = [ob EXCEPT !.shape = Append(@, f), !.fields = Append(@, v)]
    BY <1>1, <2>1, <2>2 DEF ObjType
  <2>4. Len(ob.shape) # Threshold
    BY <1>1, <1>6, ShapesAssumption
  <2>5. f \notin InUse(ob.shape) /\ f \notin InUse(NamesIn(ob))
    BY <1>1, <1>6, SlotFacts, NameFacts
  <2>6. ShapeOK(Append(ob.shape, f))
    BY <1>1, <2>4, <2>5, ShapeGrown
  <2> QED BY <1>6, <2>3, <2>5, <2>6, AppendedView
<1> QED BY <1>1, <1>2, <1>3, <1>4, <1>5, <1>6

-----------------------------------------------------------------------------
(* Literals.                                                               *)

LEMMA FilledIsLiteral ==
    ASSUME NEW ks \in Seq(Fids), NEW vs, NEW r, NamesIn(r) \in Seq(Fids),
           FilledUpTo(View(r), ks, vs, Len(ks)), NEW s, s = View(r)
    PROVE  Promised!IsLiteral(s, ks, vs)
<1>1. DOMAIN ks = 1..Len(ks)
  BY ShapeFacts
<1>2. Promised!InUse(ks) = {ks[a] : a \in 1..Len(ks)}
  BY <1>1 DEF Promised!InUse
<1>3. Promised!InUse(s.names) = InUse(s.names) /\ s.names = NamesIn(r)
  BY ViewIs DEF Promised!InUse, InUse
<1>4. s = [names |-> s.names, value |-> s.value, frozen |-> FALSE, live |-> TRUE]
  <2>1. r.frozen = FALSE
    <3>1. ~View(r).frozen
      BY DEF FilledUpTo
    <3> QED BY <3>1 DEF View
  <2>2. s = [names |-> NamesIn(r), value |-> ValuesIn(r), frozen |-> FALSE, live |-> TRUE]
    BY <2>1, Zenon DEF View
  <2> QED BY <2>2
<1>5. s.names \in Seq(Promised!InUse(ks))
  <2>1. InUse(s.names) = Promised!InUse(ks)
    BY <1>2 DEF FilledUpTo
  <2>2. s.names \in Seq(Fids) /\ Len(s.names) \in Nat
    BY <1>3, ShapeFacts
  <2>3. s.names \in [1..Len(s.names) -> InUse(s.names)]
    <3>1. s.names \in [1..Len(s.names) -> Fids]
      BY <2>2, LenProperties
    <3>2. \A i \in 1..Len(s.names) : s.names[i] \in InUse(s.names)
      BY <2>2, ShapeFacts
    <3> QED BY <3>1, <3>2
  <2> DEFINE names == s.names
             X == Promised!InUse(ks)
  <2>4. names \in [1..Len(names) -> X] /\ Len(names) \in Nat
    BY <2>1, <2>2, <2>3
  <2> HIDE DEF names, X
  <2>5. names \in Seq(X)
    BY <2>4, SeqDef
  <2> QED BY <2>5 DEF names, X
<1> QED BY <1>1, <1>2, <1>3, <1>4, <1>5 DEF Promised!IsLiteral, FilledUpTo

LEMMA NothingFilled ==
    ASSUME NEW ks, NEW vs
    PROVE  FilledUpTo(View(NewObj), ks, vs, 0)
<1>1. View(NewObj).live = TRUE /\ View(NewObj).frozen = FALSE /\ View(NewObj).names = <<>>
      /\ DOMAIN View(NewObj).value = InUse(<<>>)
  BY EmptyObjects, ViewIs DEF NamesIn
<1>2. {ks[a] : a \in 1..0} = {} /\ 1..0 = {}
  OBVIOUS
<1>3. DOMAIN <<>> = {} /\ InUse(<<>>) = {}
  BY EmptyShape
<1> QED BY <1>1, <1>2, <1>3 DEF FilledUpTo

(* Distinct keys may all be given at once. *)
LEMMA DistinctFilled ==
    ASSUME NEW ob, ObjGood(ob), ~ob.dictMode, ~ob.frozen, NEW vs,
           \A a \in 1..Len(ob.shape) : SlotValue(ob, a) = vs[a]
    PROVE  FilledUpTo(View(ob), ob.shape, vs, Len(ob.shape))
<1> DEFINE ks == ob.shape
           n == Len(ks)
<1>1. ks \in Seq(Fids) /\ n \in Nat /\ DOMAIN ks = 1..n /\ \A i, j \in 1..n : ks[i] = ks[j] => i = j
  BY ObjFields, ShapeFacts DEF ObjGood, ObjOK, ShapeOK, Distinct
<1>2. NamesIn(ob) = ks
  BY DEF NamesIn
<1>3. /\ View(ob).live = TRUE /\ ~View(ob).frozen /\ View(ob).names = ks
      /\ DOMAIN View(ob).value = InUse(ks)
      /\ \A g \in InUse(ks) : View(ob).value[g] = ValueAt(ob, g)
  BY <1>2, ViewIs
<1>4. InUse(ks) = {ks[a] : a \in 1..n}
  BY <1>1 DEF InUse
<1>5. ASSUME NEW i \in 1..n, NEW j \in 1..n, i < j
      PROVE  \E a \in 1..n : ks[a] = ks[i] /\ \A b \in 1..n : ks[b] = ks[j] => a < b
  <2>1. \A b \in 1..n : ks[b] = ks[j] => i < b
    BY <1>1, <1>5
  <2> QED BY <2>1
<1>6. ASSUME NEW a \in 1..n PROVE View(ob).value[ks[a]] = vs[a]
  <2> DEFINE q == SlotOf(ks, ks[a])
  <2>1. ks[a] \in Fids /\ ks[a] \in InUse(ks)
    BY <1>1, ShapeFacts
  <2>2. q \in 1..n /\ ks[q] = ks[a]
    BY <1>1, <2>1, SlotFacts
  <2>3. ValueAt(ob, ks[a]) = SlotValue(ob, q)
    BY DEF ValueAt, SlotValue
  <2> HIDE DEF q
  <2>4. q = a
    BY <1>1, <2>2
  <2> QED BY <1>3, <2>1, <2>3, <2>4
<1> HIDE DEF ks, n
<1>7. FilledUpTo(View(ob), ks, vs, n)
  BY <1>1, <1>3, <1>4, <1>5, <1>6 DEF FilledUpTo
<1> QED BY <1>7 DEF ks, n

(* One key more, new or not. *)
LEMMA PutFills ==
    ASSUME NEW ks \in Seq(Fids), NEW vs, NEW n \in Nat, n + 1 <= Len(ks), NEW ob, ObjGood(ob),
           FilledUpTo(View(ob), ks, vs, n)
    PROVE  FilledUpTo(Put(View(ob), ks[n + 1], vs[n + 1]), ks, vs, n + 1)
<1> DEFINE f == ks[n + 1]
           v == vs[n + 1]
           B == {ks[a] : a \in 1..n}
           N == NamesIn(ob)
           V == ValuesIn(ob)
           r == Put(View(ob), f, v)
<1>1. Len(ks) \in Nat /\ n + 1 \in 1..Len(ks) /\ f \in Fids
  <2>1. Len(ks) \in Nat
    BY ShapeFacts
  <2>2. n + 1 \in 1..Len(ks)
    BY <2>1
  <2> QED BY <2>1, <2>2, ShapeFacts
<1>2. /\ ~ob.frozen /\ InUse(N) = B /\ DOMAIN V = B
      /\ \A i, j \in DOMAIN N : i < j =>
             \E a \in 1..n : ks[a] = N[i] /\ \A b \in 1..n : ks[b] = N[j] => a < b
      /\ \A a \in 1..n : (\A b \in 1..n : ks[b] = ks[a] => b <= a) => V[ks[a]] = vs[a]
  BY DEF FilledUpTo, View
<1>3. \A b \in 1..n + 1 : b \in 1..n \/ b = n + 1
  OBVIOUS
<1>4. 1..n \subseteq 1..n + 1 /\ n + 1 \in 1..n + 1 /\ \A a \in 1..n : a < n + 1 /\ ~(n + 1 <= a)
  OBVIOUS
<1>5. {ks[a] : a \in 1..n + 1} = B \cup {f}
  BY <1>3, <1>4
<1>6. N \in Seq(Fids) /\ DOMAIN N = 1..Len(N) /\ Len(N) \in Nat
  <2>1. N \in Seq(Fids)
    BY ObjFields DEF ObjGood, NamesIn
  <2> QED BY <2>1, ShapeFacts
<1>7. ASSUME NEW i \in DOMAIN N, NEW j \in DOMAIN N, i < j
      PROVE  \E a \in 1..n + 1 : ks[a] = N[i] /\ \A b \in 1..n + 1 : ks[b] = N[j] => a < b
  <2>1. PICK a \in 1..n : ks[a] = N[i] /\ \A b \in 1..n : ks[b] = N[j] => a < b
    BY <1>2, <1>7
  <2>2. \A b \in 1..n + 1 : ks[b] = N[j] => a < b
    BY <1>3, <1>4, <2>1
  <2> QED BY <1>4, <2>1, <2>2
<1> HIDE DEF B, f, v, N, V
<1>8. r = Put(View(ob), f, v) /\ ks[n + 1] = f /\ vs[n + 1] = v
  BY DEF f, v
<1>9. CASE f \in DOMAIN V
  <2> DEFINE W == [V EXCEPT ![f] = v]
  <2>1. r = [names |-> N, value |-> W, frozen |-> ob.frozen, live |-> TRUE]
    BY <1>2, <1>9 DEF Put, View, N, V
  <2>2. DOMAIN W = B /\ W[f] = v /\ \A g \in B : g # f => W[g] = V[g]
    BY <1>2, <1>9
  <2> HIDE DEF W, r
  <2>3. r.live = TRUE /\ r.frozen = ob.frozen /\ r.names = N /\ r.value = W
    BY <2>1
  <2>4. B \cup {f} = B
    BY <1>2, <1>9
  <2>5. ASSUME NEW a \in 1..n + 1, \A b \in 1..n + 1 : ks[b] = ks[a] => b <= a
        PROVE  W[ks[a]] = vs[a]
    <3>1. CASE a = n + 1
      BY <1>8, <2>2, <3>1
    <3>2. CASE a \in 1..n
      <4>1. ks[a] # f
        BY <1>4, <1>8, <2>5, <3>2
      <4>2. ks[a] \in B
        BY <3>2 DEF B
      <4> QED BY <1>2, <1>4, <2>2, <2>5, <3>2, <4>1, <4>2
    <3> QED BY <1>3, <3>1, <3>2
  <2>6. FilledUpTo(r, ks, vs, n + 1)
    BY <1>2, <1>5, <1>7, <2>2, <2>3, <2>4, <2>5 DEF FilledUpTo
  <2> QED BY <2>6 DEF r, f, v
<1>10. CASE f \notin DOMAIN V
  <2> DEFINE W == [g \in DOMAIN V \cup {f} |-> IF g = f THEN v ELSE V[g]]
             M == Append(N, f)
  <2>1. r = [names |-> M, value |-> W, frozen |-> ob.frozen, live |-> TRUE]
    BY <1>2, <1>10 DEF Put, View, N, V
  <2>2. DOMAIN W = B \cup {f} /\ W[f] = v /\ \A g \in B : g # f => W[g] = V[g]
    BY <1>2, <1>10
  <2>3. InUse(M) = B \cup {f}
    BY <1>1, <1>2, <1>6, InUseAppend
  <2>4. /\ Len(M) = Len(N) + 1 /\ M[Len(N) + 1] = f
        /\ \A i \in 1..Len(N) : M[i] = N[i]
        /\ DOMAIN M = 1..Len(N) + 1
    <3>1. M \in Seq(Fids) /\ Len(M) = Len(N) + 1 /\ M[Len(N) + 1] = f /\ \A i \in 1..Len(N) : M[i] = N[i]
      BY <1>1, <1>6, AppendProperties
    <3> QED BY <3>1, LenProperties
  <2> HIDE DEF W, M, r
  <2>5. r.live = TRUE /\ r.frozen = ob.frozen /\ r.names = M /\ r.value = W
    BY <2>1
  <2>6. ASSUME NEW a \in 1..n + 1, \A b \in 1..n + 1 : ks[b] = ks[a] => b <= a
        PROVE  W[ks[a]] = vs[a]
    <3>1. CASE a = n + 1
      BY <1>8, <2>2, <3>1
    <3>2. CASE a \in 1..n
      <4>1. ks[a] # f
        BY <1>4, <1>8, <2>6, <3>2
      <4>2. ks[a] \in B
        BY <3>2 DEF B
      <4> QED BY <1>2, <1>4, <2>2, <2>6, <3>2, <4>1, <4>2
    <3> QED BY <1>3, <3>1, <3>2
  <2>7. ASSUME NEW i \in DOMAIN M, NEW j \in DOMAIN M, i < j
        PROVE  \E a \in 1..n + 1 : ks[a] = M[i] /\ \A b \in 1..n + 1 : ks[b] = M[j] => a < b
    <3>1. i \in 1..Len(N) /\ (j \in 1..Len(N) \/ j = Len(N) + 1)
      <4>1. \A m \in Nat : \A x, y \in 1..m + 1 : x < y => x \in 1..m /\ (y \in 1..m \/ y = m + 1)
        OBVIOUS
      <4> QED BY <1>6, <2>4, <2>7, <4>1
    <3>2. CASE j \in 1..Len(N)
      BY <1>6, <1>7, <2>4, <2>7, <3>1, <3>2
    <3>3. CASE j = Len(N) + 1
      <4>1. M[j] = f /\ M[i] = N[i] /\ N[i] \in InUse(N)
        BY <1>6, <2>4, <3>1, <3>3 DEF InUse
      <4>2. PICK a \in 1..n : ks[a] = N[i]
        BY <1>2, <4>1 DEF B
      <4>3. \A b \in 1..n + 1 : ks[b] = f => a < b
        <5>1. \A b \in 1..n : ks[b] # f
          BY <1>2, <1>10 DEF B
        <5> QED BY <1>3, <1>4, <5>1
      <4> QED BY <1>4, <4>1, <4>2, <4>3
    <3> QED BY <3>1, <3>2, <3>3
  <2>8. FilledUpTo(r, ks, vs, n + 1)
    BY <1>2, <1>5, <2>2, <2>3, <2>5, <2>6, <2>7 DEF FilledUpTo
  <2> QED BY <2>8 DEF r, f, v
<1> QED BY <1>9, <1>10

LEMMA AllFilled ==
    ASSUME NEW s \in Seq(Fids), ShapeOK(s), NEW fs \in Seq(Stored), Len(fs) = Len(s)
    PROVE  FilledUpTo(View(Filled(s, fs)), s, fs, Len(s))
<1> DEFINE r == Filled(s, fs)
<1>1. ObjGood(r) /\ r.shape = s /\ r.fields = fs /\ r.lazy = {} /\ r.dictMode = FALSE /\ r.frozen = FALSE
  <2>1. ObjGood(r)
    BY FilledGood
  <2>2. r.shape = s /\ r.fields = fs
    BY DEF Filled, NewObj, Dead
  <2>3. r.lazy = {} /\ r.dictMode = FALSE /\ r.frozen = FALSE
    BY DEF Filled, NewObj, Dead
  <2> QED BY <2>1, <2>2, <2>3
<1> HIDE DEF r
<1>2. \A a \in 1..Len(r.shape) : SlotValue(r, a) = fs[a]
  BY <1>1 DEF SlotValue
<1>3. FilledUpTo(View(r), r.shape, fs, Len(r.shape))
  BY <1>1, <1>2, DistinctFilled
<1> QED BY <1>1, <1>3 DEF r

(* A copy of the template, with its methods put off, is a result. *)
LEMMA InstantiatedFilled ==
    ASSUME TemplatesOK, NEW variant \in {"Ok", "Err"}, NEW p \in 0..MaxInt,
           template[variant].initialized
    PROVE  FilledUpTo(View(Instantiated(variant, p)), ResultKeys, ResultFields(variant, p), 4)
<1> DEFINE t == template[variant]
           fs == CopiedFields(t, p)
           r == Instantiated(variant, p)
           vs == ResultFields(variant, p)
<1>1. IsResult(t, variant) /\ Len(t.shape) = Len(t.fields)
  BY DEF TemplatesOK, TemplateOK
<1>2. /\ t.shape = ResultKeys /\ t.methods = {3, 4} /\ t.dataSlot = 2
      /\ t.fields[1] = Variant(variant) /\ t.fields[3] = None /\ t.fields[4] = None
      /\ Len(t.fields) = 4 /\ Len(ResultKeys) = 4
  BY <1>1, ResultFacts DEF IsResult
<1>3. /\ \A i \in 1..Len(t.fields) : i # t.dataSlot => fs[i] = t.fields[i]
      /\ t.dataSlot \in 1..Len(t.fields) => fs[t.dataSlot] = Integer(p)
  <2>1. t.fields \in Seq(Stored)
    BY DEF TemplatesOK, TemplateType
  <2> HIDE DEF t
  <2> QED BY <2>1, CopiedFacts
<1>4. /\ r.shape = t.shape /\ r.fields = fs
      /\ r.lazy = {i \in t.methods : i <= LazyBits} /\ r.ctx = variant
      /\ r.dictMode = FALSE /\ r.frozen = FALSE /\ r.payload = Integer(p)
  <2>1. r.shape = t.shape /\ r.lazy = {i \in t.methods : i <= LazyBits}
    BY DEF Instantiated, NewObj, Dead
  <2>2. r.fields = fs
    BY DEF Instantiated, NewObj, Dead, CopiedFields
  <2>3. r.ctx = variant /\ r.payload = Integer(p)
    BY DEF Instantiated, NewObj, Dead
  <2>4. r.dictMode = FALSE /\ r.frozen = FALSE
    BY DEF Instantiated, NewObj, Dead
  <2> QED BY <2>1, <2>2, <2>3, <2>4
<1>5. ObjGood(r)
  BY InstantiatedGood
<1>6. template[variant].methods = t.methods /\ template[variant].shape = t.shape
  OBVIOUS
<1> HIDE DEF fs, t, r, vs
<1>7. r.lazy = {3, 4}
  <2>1. 4 <= LazyBits
    <3>1. \A a, b \in Nat : 4 <= a /\ a <= b => 4 <= b
      OBVIOUS
    <3> QED BY <1>2, <3>1, ShapesAssumption
  <2>2. LazyBits \in Nat
    BY ShapesAssumption
  <2>3. 3 <= LazyBits /\ 4 <= LazyBits
    BY <2>1, <2>2
  <2> QED BY <1>2, <1>4, <2>3
<1>8. /\ vs[1] = Variant(variant) /\ vs[2] = Integer(p)
      /\ vs[3] = Method(variant, "unwrap", p) /\ vs[4] = Method(variant, "map", p)
      /\ ResultKeys[3] = "unwrap" /\ ResultKeys[4] = "map"
  BY ResultSlots DEF vs
<1>9. 1 \in 1..4 /\ 2 \in 1..4 /\ 1 \notin {3, 4} /\ 2 \notin {3, 4} /\ 1 # 2
  OBVIOUS
<1>10. SlotValue(r, 1) = vs[1] /\ SlotValue(r, 2) = vs[2]
  BY <1>2, <1>3, <1>4, <1>7, <1>8, <1>9 DEF SlotValue
<1>11. SlotValue(r, 3) = vs[3] /\ SlotValue(r, 4) = vs[4]
  <2>1. Integer(p).n = p
    BY DEF Integer, Value
  <2> QED BY <1>2, <1>4, <1>6, <1>7, <1>8, <2>1 DEF SlotValue, MadeMethod
<1>12. \A a \in 1..4 : a = 1 \/ a = 2 \/ a = 3 \/ a = 4
  OBVIOUS
<1>13. \A a \in 1..Len(r.shape) : SlotValue(r, a) = vs[a]
  BY <1>2, <1>4, <1>10, <1>11, <1>12
<1>14. FilledUpTo(View(r), r.shape, vs, Len(r.shape))
  BY <1>4, <1>5, <1>13, DistinctFilled
<1> QED BY <1>2, <1>4, <1>14 DEF r, vs

-----------------------------------------------------------------------------
(* The store that a program sees.                                          *)

Nothing == [names |-> <<>>, value |-> <<>>, frozen |-> FALSE, live |-> FALSE]

Hidden(p) == ~obj[p].live \/ (building # Idle /\ building.o = p)

LEMMA SeenIs ==
    IInv /\ FillingOK => \A p \in Objects : Seen(p) = IF Hidden(p) THEN Nothing ELSE View(obj[p])
<1> SUFFICES ASSUME IInv, FillingOK, NEW p \in Objects
             PROVE  Seen(p) = IF Hidden(p) THEN Nothing ELSE View(obj[p])
  OBVIOUS
<1>1. ObjGood(obj[p]) /\ obj[p].live \in BOOLEAN /\ obj[p].frozen \in BOOLEAN
  BY IInvParts, OneObject, ObjFields
<1>2. CASE Hidden(p)
  <2>1. obj[p].frozen = FALSE
    <3>1. CASE ~obj[p].live
      BY <1>1, <3>1 DEF ObjGood, ObjOK
    <3>2. CASE building # Idle /\ building.o = p
      <4>1. ~View(obj[p]).frozen
        BY <3>2 DEF FillingOK, FilledUpTo
      <4> QED BY <1>1, <4>1 DEF View
    <3> QED BY <1>2, <3>1, <3>2 DEF Hidden
  <2> QED BY <1>2, <2>1 DEF Seen, Hidden, Nothing
<1>3. CASE ~Hidden(p)
  <2>1. obj[p].live = TRUE /\ ~(building # Idle /\ building.o = p)
    BY <1>1, <1>3 DEF Hidden
  <2>2. Seen(p) = [names |-> NamesIn(obj[p]),
                   value |-> [f \in InUse(NamesIn(obj[p])) |-> ValueAt(obj[p], f)],
                   frozen |-> obj[p].frozen, live |-> TRUE]
    BY <2>1 DEF Seen, NamesIn
  <2> QED BY <1>3, <2>2 DEF View, ValuesIn
<1> QED BY <1>2, <1>3

LEMMA SeenNext ==
    (IInv /\ FillingOK => \A p \in Objects : Seen(p) = IF Hidden(p) THEN Nothing ELSE View(obj[p]))'
BY SeenIs, PTL

(* The view of an object depends on the template that its lazy methods are *)
(* built from.                                                             *)
LEMMA ViewNext ==
    ASSUME NEW p, NEW r, obj'[p] = r, r.lazy # {} => template'[r.ctx] = template[r.ctx]
    PROVE  View(obj[p])' = View(r)
<1>1. NamesIn(obj[p])' = NamesIn(r)
  BY DEF NamesIn
<1>2. ASSUME NEW f PROVE ValueAt(obj[p], f)' = ValueAt(r, f)
  BY DEF ValueAt, MadeMethod
<1>3. ValuesIn(obj[p])' = ValuesIn(r)
  BY <1>1, <1>2 DEF ValuesIn
<1> QED BY <1>1, <1>3 DEF View

TemplateKept ==
    \A p \in Objects : obj'[p].lazy # {} => template'[obj'[p].ctx] = template[obj'[p].ctx]

(* An operation makes of one object what r is. *)
LEMMA StoreChanged ==
    ASSUME IInv, FillingOK, IInv', FillingOK', NEW o \in Objects, NEW r,
           obj' = [obj EXCEPT ![o] = r], building = Idle, building' = Idle, TemplateKept
    PROVE  Store' = [Store EXCEPT ![o] = IF r.live THEN View(r) ELSE Nothing]
<1>1. \A p \in Objects : obj'[p] = IF p = o THEN r ELSE obj[p]
  BY IInvParts DEF ObjectsOK
<1>2. ASSUME NEW p \in Objects PROVE Seen(p)' = IF obj'[p].live THEN View(obj'[p]) ELSE Nothing
  <2>1. Seen(p)' = IF Hidden(p)' THEN Nothing ELSE View(obj[p])'
    BY SeenNext
  <2>2. View(obj[p])' = View(obj'[p])
    BY ViewNext DEF TemplateKept
  <2>3. Hidden(p)' <=> ~obj'[p].live
    BY DEF Hidden
  <2> QED BY <2>1, <2>2, <2>3
<1>3. \A p \in Objects : Seen(p) = IF obj[p].live THEN View(obj[p]) ELSE Nothing
  BY SeenIs DEF Hidden
<1>4. \A p \in Objects : Store'[p] = [Store EXCEPT ![o] = IF r.live THEN View(r) ELSE Nothing][p]
  BY <1>1, <1>2, <1>3 DEF Store
<1> QED BY <1>4 DEF Store

LEMMA StoreOf ==
    ASSUME IInv, FillingOK, NEW o \in Objects, building = Idle
    PROVE  Store[o] = IF obj[o].live THEN View(obj[o]) ELSE Nothing
BY SeenIs DEF Hidden, Store

LEMMA StoreSame ==
    ASSUME UNCHANGED <<obj, building, template>>
    PROVE  Store' = Store
<1>1. ASSUME NEW p \in Objects PROVE Seen(p)' = Seen(p)
  BY DEF Seen, ValueAt, MadeMethod
<1> QED BY <1>1 DEF Store

-----------------------------------------------------------------------------
(* What is being filled is always part of a literal.                       *)

(* From now on the object o has been given the first n values. *)
NowFilled(o, ks, vs, n) ==
    /\ building'.o = o /\ building'.text = ks /\ building'.ks = ks /\ building'.vs = vs
    /\ building'.at = n /\ obj'[o].live

LEMMA FillingNext ==
    ASSUME IInv, NEW o \in Objects, NEW r, obj' = [obj EXCEPT ![o] = r], r.live, UNCHANGED template,
           NEW ks \in Literals, NEW vs \in [DOMAIN ks -> Values], NEW n,
           NowFilled(o, ks, vs, n), FilledUpTo(View(r), ks, vs, n)
    PROVE  FillingOK'
<1>1. obj'[o] = r
  BY IInvParts DEF ObjectsOK
<1>2. View(obj[o])' = View(r)
  BY <1>1, ViewNext
<1>3. /\ building'.o = o /\ building'.text = ks /\ building'.ks = ks /\ building'.vs = vs
      /\ building'.at = n
  BY DEF NowFilled
<1>4. View(obj[building.o])' = View(r)
  BY <1>2, <1>3
<1> QED BY <1>1, <1>3, <1>4 DEF FillingOK

LEMMA NotFilling == building' = Idle => FillingOK'
BY DEF FillingOK

LEMMA ParsedAsWritten ==
    ASSUME NEW s, NEW ks \in Seq(Fids)
    PROVE  ParsedKeys(s, ks) = ks
<1>1. Len(ks) \in Nat /\ DOMAIN ks = 1..Len(ks)
  BY ShapeFacts
<1>2. \A i \in 1..Len(ks) : Agrees(s, ks, i) => s[i] = ks[i]
  BY <1>1 DEF Agrees
<1>3. ks = [i \in 1..Len(ks) |-> ks[i]]
  BY <1>1
<1> QED BY <1>1, <1>2, <1>3 DEF ParsedKeys

LEMMA LiteralStarts ==
    ASSUME IInv, NEW o \in Objects, obj' = [obj EXCEPT ![o] = NewObj], UNCHANGED template,
           NEW ks \in Literals, NEW vs \in [DOMAIN ks -> Values], NowFilled(o, ks, vs, 0)
    PROVE  FillingOK'
BY EmptyObjects, NothingFilled, FillingNext

LEMMA MakeObjectFills ==
    ASSUME IInv, NEW o \in Objects, NEW ks \in Literals, NEW vs \in [DOMAIN ks -> Values],
           MakeObject(o, ks, vs)
    PROVE  FillingOK'
<1>1. CASE UNCHANGED building
  BY <1>1, NotFilling DEF MakeObject, Free
<1>2. CASE /\ building' = [for |-> "literal", o |-> o, text |-> ks, ks |-> ks, vs |-> vs, at |-> 0]
           /\ obj' = [obj EXCEPT ![o] = NewObj]
  <2>1. obj'[o].live
    BY <1>2, IInvParts, EmptyObjects DEF ObjectsOK
  <2>2. NowFilled(o, ks, vs, 0)
    BY <1>2, <2>1 DEF NowFilled
  <2>3. UNCHANGED template
    BY DEF MakeObject
  <2> QED BY <1>2, <2>2, <2>3, LiteralStarts
<1> QED BY <1>1, <1>2 DEF MakeObject

LEMMA ParseJsonFills ==
    ASSUME IInv, NEW o \in Objects, NEW ks \in Literals, NEW vs \in [DOMAIN ks -> Values],
           ParseJson(o, ks, vs)
    PROVE  FillingOK'
<1>1. CASE UNCHANGED building
  BY <1>1, NotFilling DEF ParseJson, Free
<1>2. CASE /\ building' = [for |-> "json", o |-> o, text |-> ks, ks |-> ParsedKeys(jsonShape, ks),
                           vs |-> vs, at |-> 0]
           /\ obj' = [obj EXCEPT ![o] = NewObj]
  <2>1. obj'[o].live
    BY <1>2, IInvParts, EmptyObjects DEF ObjectsOK
  <2>2. ParsedKeys(jsonShape, ks) = ks
    BY ParsedAsWritten, ShapesAssumption
  <2>3. NowFilled(o, ks, vs, 0)
    BY <1>2, <2>1, <2>2 DEF NowFilled
  <2>4. UNCHANGED template
    BY DEF ParseJson
  <2> QED BY <1>2, <2>3, <2>4, LiteralStarts
<1> QED BY <1>1, <1>2 DEF ParseJson

(* The steps of FillField, in terms of the literal that is being filled. *)
LEMMA FillFieldIs ==
    ASSUME IInv, FillingOK, FillField
    PROVE  LET b == building
               f == b.ks[b.at + 1]
               v == b.vs[b.at + 1]
               r == FieldSet(obj[b.o], f, v)
           IN /\ b.o \in Objects /\ b.ks \in Literals /\ b.vs \in [DOMAIN b.ks -> Values]
              /\ obj[b.o].live /\ r.live
              /\ obj' = [obj EXCEPT ![b.o] = r]
              /\ FilledUpTo(View(r), b.ks, b.vs, b.at + 1)
              /\ NowFilled(b.o, b.ks, b.vs, b.at + 1)
<1> DEFINE b == building
           f == b.ks[b.at + 1]
           v == b.vs[b.at + 1]
           ob == obj[b.o]
           r == FieldSet(ob, f, v)
<1>1. /\ b # Idle /\ b.at < Len(b.ks)
      /\ obj' = [obj EXCEPT ![b.o] = FieldSet(@, f, v)]
      /\ building' = [b EXCEPT !.at = @ + 1]
  BY DEF FillField
<1>2. /\ b.text = b.ks /\ b.ks \in Literals /\ b.vs \in [DOMAIN b.ks -> Values]
      /\ ob.live /\ FilledUpTo(View(ob), b.ks, b.vs, b.at)
  BY <1>1 DEF FillingOK
<1>3. /\ b \in BuildType /\ b.o \in Objects /\ b.ks \in Seq(Fids) /\ b.vs \in Seq(Stored) /\ b.at \in Nat
      /\ Len(b.ks) = Len(b.vs)
  BY IInvParts DEF BuildingOK, BuildType
<1>4. b.at + 1 \in 1..Len(b.ks) /\ b.at + 1 <= Len(b.ks)
  <2>1. Len(b.ks) \in Nat
    BY <1>3, ShapeFacts
  <2>2. \A i, n \in Nat : i < n => i + 1 \in 1..n /\ i + 1 <= n
    OBVIOUS
  <2> QED BY <1>1, <1>3, <2>1, <2>2
<1>5. f \in Fids /\ v \in Stored
  <2>1. f \in Fids
    BY <1>3, <1>4, ShapeFacts
  <2>2. v \in Stored
    BY <1>3, <1>4, FieldFacts
  <2> QED BY <2>1, <2>2
<1>6. obj' = [obj EXCEPT ![b.o] = r]
  BY <1>1, <1>3, IInvParts DEF ObjectsOK
<1>7. ObjGood(ob)
  BY <1>3, IInvParts, OneObject
<1>8. FilledUpTo(Put(View(ob), f, v), b.ks, b.vs, b.at + 1)
  BY <1>2, <1>3, <1>4, <1>7, PutFills
<1>9. /\ building'.o = b.o /\ building'.text = b.text /\ building'.ks = b.ks /\ building'.vs = b.vs
      /\ building'.at = b.at + 1
  BY <1>1, <1>3 DEF BuildType
<1> HIDE DEF ob, f, v, b
<1>10. ObjGood(r) /\ r.live = ob.live
  BY <1>5, <1>7, IInvParts, FieldSetGood
<1>11. View(r) = Put(View(ob), f, v)
  BY <1>5, <1>7, IInvParts, FieldSetView
<1>12. obj'[b.o].live
  <2>1. obj'[b.o] = r
    BY <1>3, <1>6, IInvParts DEF ObjectsOK
  <2> QED BY <1>2, <1>10, <2>1
<1>13. NowFilled(b.o, b.ks, b.vs, b.at + 1)
  BY <1>2, <1>9, <1>12 DEF NowFilled
<1> QED BY <1>2, <1>3, <1>6, <1>8, <1>10, <1>11, <1>13 DEF ob, f, v, b

LEMMA FillFieldFills ==
    ASSUME IInv, FillingOK, FillField
    PROVE  FillingOK'
<1>1. UNCHANGED template
  BY DEF FillField
<1> QED BY <1>1, FillFieldIs, FillingNext

LEMMA FillingUnchanged ==
    ASSUME IInv, FillingOK, UNCHANGED <<obj, building, template>>
    PROVE  FillingOK'
<1>1. View(obj[building.o])' = View(obj[building.o])
  BY DEF View, NamesIn, ValuesIn, ValueAt, MadeMethod
<1> QED BY <1>1 DEF FillingOK

-----------------------------------------------------------------------------
(* Every operation is one of PropertyStore, or is not seen.                *)

RInv == IInv /\ FillingOK

(* An operation on a visible object. *)
LEMMA Acts ==
    ASSUME RInv, RInv', NEW o \in Objects, Running(o), NEW r, r.live,
           obj' = [obj EXCEPT ![o] = r], UNCHANGED <<building, template>>
    PROVE  Store[o] = View(obj[o]) /\ Store' = [Store EXCEPT ![o] = View(r)]
<1>1. building = Idle /\ building' = Idle /\ obj[o].live
  BY DEF Running
<1>2. Store[o] = View(obj[o])
  BY <1>1, StoreOf DEF RInv
<1>3. Store' = [Store EXCEPT ![o] = View(r)]
  BY <1>1, StoreChanged DEF RInv, TemplateKept
<1> QED BY <1>2, <1>3

(* An operation that a program does not see on the object. *)
LEMMA Asks ==
    ASSUME RInv, RInv', NEW o \in Objects, Running(o), NEW r, r.live, View(r) = View(obj[o]),
           obj' = [obj EXCEPT ![o] = r], UNCHANGED <<building, template>>
    PROVE  Store[o] = View(obj[o]) /\ Store' = Store
<1>1. Store[o] = View(obj[o]) /\ Store' = [Store EXCEPT ![o] = View(r)]
  BY Acts
<1>2. Store = [p \in Objects |-> Store[p]]
  BY DEF Store
<1>3. Store' = Store
  BY <1>1, <1>2
<1> QED BY <1>1, <1>3

LEMMA Looks ==
    ASSUME RInv, NEW o \in Objects, Running(o), UNCHANGED <<obj, building, template>>
    PROVE  Store[o] = View(obj[o]) /\ Store' = Store
BY StoreOf, StoreSame DEF RInv, Running

(* A literal is made at once. *)
LEMMA MakesLiteral ==
    ASSUME RInv, RInv', NEW o \in Objects, Free(o), NEW r, r.live,
           obj' = [obj EXCEPT ![o] = r], UNCHANGED building, TemplateKept,
           NEW ks \in Seq(Fids), NEW vs, FilledUpTo(View(r), ks, vs, Len(ks))
    PROVE  /\ ~Store[o].live
           /\ Promised!IsLiteral(Store'[o], ks, vs)
           /\ Store' = [Store EXCEPT ![o] = Store'[o]]
<1>1. building = Idle /\ building' = Idle /\ ~obj[o].live
  BY DEF Free
<1>2. Store[o] = Nothing
  BY <1>1, StoreOf DEF RInv
<1>3. Store' = [Store EXCEPT ![o] = View(r)]
  BY <1>1, StoreChanged DEF RInv
<1>4. Store'[o] = View(r)
  BY <1>3 DEF Store
<1>5. Promised!IsLiteral(Store'[o], ks, vs)
  <2>1. obj' \in [Objects -> ObjType] /\ obj'[o] = r
    BY IInvParts DEF RInv, IInv, ObjectsOK
  <2>2. NamesIn(r) \in Seq(Fids)
    BY <2>1, ObjFields DEF NamesIn
  <2> HIDE DEF Store
  <2> QED BY <1>4, <2>2, FilledIsLiteral
<1>6. Store' = [Store EXCEPT ![o] = Store'[o]]
  BY <1>3, <1>4
<1>7. ~Store[o].live
  BY <1>2 DEF Nothing
<1> QED BY <1>5, <1>6, <1>7

LEMMA KeptTemplate ==
    ASSUME UNCHANGED template
    PROVE  TemplateKept
BY DEF TemplateKept

LEMMA NewObjectRefines ==
    ASSUME RInv, RInv', NEW o \in Objects, NewObject(o)
    PROVE  Promised!Create(o, <<>>, <<>>)
<1>1. /\ Free(o) /\ obj' = [obj EXCEPT ![o] = NewObj] /\ out' = <<"made", o, <<>>, <<>>>>
      /\ UNCHANGED <<building, template>>
  BY DEF NewObject, UnchangedCaches
<1>2. <<>> \in Seq(Fids) /\ Len(<<>>) = 0
  BY EmptyShape
<1>3. NewObj.live /\ FilledUpTo(View(NewObj), <<>>, <<>>, Len(<<>>))
  BY <1>2, EmptyObjects, NothingFilled
<1>4. /\ ~Store[o].live
      /\ Promised!IsLiteral(Store'[o], <<>>, <<>>)
      /\ Store' = [Store EXCEPT ![o] = Store'[o]]
  BY <1>1, <1>2, <1>3, MakesLiteral, KeptTemplate
<1> QED BY <1>1, <1>4 DEF Promised!Create

(* The last field of a literal makes it visible. *)
LEMMA LiteralEnds ==
    ASSUME RInv, RInv', building # Idle, building' = Idle, building.at = Len(building.ks),
           out' = <<"made", building.o, building.text, building.vs>>, UNCHANGED <<obj, template>>
    PROVE  /\ building.o \in Objects /\ building.text \in Literals
           /\ building.vs \in [DOMAIN building.text -> Values]
           /\ Promised!Create(building.o, building.text, building.vs)
<1> DEFINE o == building.o
           ks == building.text
           vs == building.vs
<1>1. /\ o \in Objects /\ ks \in Literals /\ vs \in [DOMAIN ks -> Values] /\ ks \in Seq(Fids)
      /\ obj[o].live /\ FilledUpTo(View(obj[o]), ks, vs, Len(ks))
  BY IInvParts, ShapesAssumption DEF RInv, BuildingOK, BuildType, FillingOK
<1>2. \A p \in Objects : Seen(p) = IF Hidden(p) THEN Nothing ELSE View(obj[p])
  BY SeenIs DEF RInv
<1>3. ASSUME NEW p \in Objects PROVE Seen(p)' = IF obj[p].live THEN View(obj[p]) ELSE Nothing
  <2>1. Seen(p)' = IF Hidden(p)' THEN Nothing ELSE View(obj[p])'
    BY SeenNext DEF RInv
  <2>2. View(obj[p])' = View(obj[p])
    BY ViewNext
  <2>3. Hidden(p)' <=> ~obj[p].live
    BY DEF Hidden
  <2> QED BY <2>1, <2>2, <2>3
<1>4. Hidden(o) /\ \A p \in Objects : p # o => (Hidden(p) <=> ~obj[p].live)
  BY DEF Hidden
<1> HIDE DEF o, ks, vs
<1>5. Store[o] = Nothing /\ Store'[o] = View(obj[o])
  BY <1>1, <1>2, <1>3, <1>4 DEF Store
<1>6. \A p \in Objects : p # o => Seen(p)' = Seen(p)
  BY <1>2, <1>3, <1>4
<1>7. Store' = [Store EXCEPT ![o] = Store'[o]]
  BY <1>1, <1>6 DEF Store
<1>8. Promised!IsLiteral(Store'[o], ks, vs)
  <2>1. NamesIn(obj[o]) \in Seq(Fids)
    BY <1>1, IInvParts, OneObject, ObjFields DEF NamesIn, RInv
  <2> HIDE DEF Store
  <2> QED BY <1>1, <1>5, <2>1, FilledIsLiteral
<1>9. ~Store[o].live
  BY <1>5 DEF Nothing
<1>10. out' = <<"made", o, ks, vs>>
  BY DEF o, ks, vs
<1>11. Promised!Create(o, ks, vs)
  BY <1>5, <1>7, <1>8, <1>9, <1>10 DEF Promised!Create
<1> QED BY <1>1, <1>11 DEF o, ks, vs

LEMMA DropRefines ==
    ASSUME RInv, RInv', NEW o \in Objects, Drop(o)
    PROVE  Promised!Forget(o)
<1>1. /\ building = Idle /\ building' = Idle /\ UNCHANGED template
      /\ obj' = [obj EXCEPT ![o] = Dead] /\ out' = <<"nothing">>
  BY DEF Drop, Running, UnchangedCaches
<1>2. Dead.live = FALSE
  BY DEF Dead
<1>3. Store' = [Store EXCEPT ![o] = IF Dead.live THEN View(Dead) ELSE Nothing]
  BY <1>1, StoreChanged, KeptTemplate DEF RInv
<1>4. Store' = [Store EXCEPT ![o] = Nothing]
  BY <1>2, <1>3
<1> QED BY <1>1, <1>4 DEF Promised!Forget, Promised!NoObject, Nothing

Whole(names, value, frozen) == [names |-> names, value |-> value, frozen |-> frozen, live |-> TRUE]
Frozen(s) == [s EXCEPT !.frozen = TRUE]

LEMMA FrozenWhole ==
    ASSUME NEW names, NEW value, NEW frozen
    PROVE  Frozen(Whole(names, value, frozen)) = Whole(names, value, TRUE)
<1> DEFINE t == TRUE
<1> HIDE DEF t
<1>1. ASSUME NEW was, NEW live, NEW is
      PROVE  [[names |-> names, value |-> value, frozen |-> was, live |-> live] EXCEPT !.frozen = is]
                 = [names |-> names, value |-> value, frozen |-> is, live |-> live]
  OBVIOUS
<1>2. [[names |-> names, value |-> value, frozen |-> frozen, live |-> TRUE] EXCEPT !.frozen = t]
          = [names |-> names, value |-> value, frozen |-> t, live |-> TRUE]
  BY <1>1, Zenon
<1> QED BY <1>2, Zenon DEF Frozen, Whole, t

LEMMA FreezeRefines ==
    ASSUME RInv, RInv', NEW o \in Objects, Freeze(o)
    PROVE  Promised!Freeze(o)
<1> DEFINE ob == obj[o]
           r == [ob EXCEPT !.frozen = TRUE]
<1>1. /\ Running(o) /\ UNCHANGED <<building, template>> /\ out' = <<"frozen", o>>
      /\ obj' = [obj EXCEPT ![o].frozen = TRUE]
  BY DEF Freeze, UnchangedCaches
<1>2. ob \in ObjType /\ ob.live
  BY <1>1, IInvParts, OneObject DEF RInv, Running
<1>3. obj' = [obj EXCEPT ![o] = r]
  BY <1>1, IInvParts DEF RInv, ObjectsOK
<1>4. /\ r.dictMode = ob.dictMode /\ r.keys = ob.keys /\ r.shape = ob.shape /\ r.map = ob.map
      /\ r.lazy = ob.lazy /\ r.fields = ob.fields /\ r.ctx = ob.ctx /\ r.payload = ob.payload
      /\ r.frozen = TRUE /\ r.live
  BY <1>2 DEF ObjType
<1> HIDE DEF ob, r
<1>5. NamesIn(r) = NamesIn(ob)
  BY <1>4 DEF NamesIn
<1>6. ValuesIn(r) = ValuesIn(ob)
  <2>1. ASSUME NEW f PROVE ValueAt(r, f) = ValueAt(ob, f)
    BY <1>4 DEF ValueAt, MadeMethod
  <2> QED BY <1>5, <2>1 DEF ValuesIn
<1>7. View(r) = [View(ob) EXCEPT !.frozen = TRUE]
  <2>1. View(ob) = Whole(NamesIn(ob), ValuesIn(ob), ob.frozen)
    BY Zenon DEF View, Whole
  <2>2. View(r) = Whole(NamesIn(ob), ValuesIn(ob), TRUE)
    BY <1>4, <1>5, <1>6, Zenon DEF View, Whole
  <2>3. Frozen(View(ob)) = View(r)
    BY <2>1, <2>2, FrozenWhole, Zenon
  <2> QED BY <2>3, Zenon DEF Frozen
<1>8. Store[o] = View(ob) /\ Store' = [Store EXCEPT ![o] = View(r)]
  BY <1>1, <1>3, <1>4, Acts DEF ob
<1>9. Store = [p \in Objects |-> Store[p]]
  BY DEF Store
<1> HIDE DEF Store
<1>10. Store' = [Store EXCEPT ![o].frozen = TRUE]
  BY <1>7, <1>8, <1>9
<1> QED BY <1>1, <1>10 DEF Promised!Freeze

LEMMA GetKeysRefines ==
    ASSUME RInv, NEW o \in Objects, GetKeys(o)
    PROVE  Promised!ListKeys(o)
<1>1. Running(o) /\ UNCHANGED <<obj, building, template>> /\ out' = <<"keys", NamesIn(obj[o])>>
  BY DEF GetKeys, UnchangedCaches, NamesIn
<1>2. Store[o] = View(obj[o]) /\ Store' = Store
  BY <1>1, Looks
<1> QED BY <1>1, <1>2, ViewIs DEF Promised!ListKeys, Promised!Answer

(* What get_field answers is what a program reads of the object. *)
LEMMA ReadsField ==
    ASSUME TemplatesOK, NEW ob, ObjGood(ob), NEW f \in Fids
    PROVE  /\ Promised!At(View(ob), f) = FieldGot(ob, f)
           /\ Promised!Has(View(ob), f) <=> FieldGot(ob, f) # Absent
           /\ Promised!Has(View(ob), f) => View(ob).value[f] = FieldGot(ob, f)
<1>1. Promised!Has(View(ob), f) <=> f \in InUse(NamesIn(ob))
  BY ViewIs DEF Promised!Has
<1>2. Promised!Absent = Absent
  BY DEF Promised!Absent, Absent, Promised!Value, Value
<1> QED BY <1>1, <1>2, FieldGotIs, ViewIs DEF Promised!At

LEMMA GetFieldRefines ==
    ASSUME RInv, RInv', NEW o \in Objects, NEW f \in Fids, GetField(o, f)
    PROVE  Promised!Read(o, f)
<1> DEFINE ob == obj[o]
           r == FieldTouched(ob, f)
<1>1. ObjGood(ob) /\ TemplatesOK /\ ob.live
  BY IInvParts, OneObject DEF RInv, GetField, Running
<1>2. /\ Running(o) /\ UNCHANGED <<building, template>>
      /\ obj' = [obj EXCEPT ![o] = FieldTouched(@, f)]
      /\ out' = <<"read", f, OrNone(FieldGot(ob, f))>>
  BY DEF GetField, UnchangedCaches
<1>3. obj' = [obj EXCEPT ![o] = r]
  BY <1>2, IInvParts DEF RInv, ObjectsOK
<1>4. r.live /\ View(r) = View(ob)
  BY <1>1, TouchedView, FieldTouchedGood
<1> HIDE DEF ob, r
<1>5. Store[o] = View(ob) /\ Store' = Store
  BY <1>2, <1>3, <1>4, Asks DEF ob
<1>6. None = Promised!None
  BY DEF Promised!None, None, Promised!Value, Value
<1> QED BY <1>1, <1>2, <1>5, <1>6, ReadsField DEF Promised!Read, Promised!Answer, OrNone

LEMMA PutAlike ==
    ASSUME NEW s, NEW f, NEW v
    PROVE  Promised!Put(s, f, v) = Put(s, f, v)
BY DEF Put, Promised!Put, Promised!Has

(* An operation that puts a value where the program asked for it. *)
LEMMA Puts ==
    ASSUME RInv, RInv', NEW o \in Objects, Running(o), NEW r, r.live,
           obj' = [obj EXCEPT ![o] = r], UNCHANGED <<building, template>>,
           NEW f, NEW v, View(r) = Put(View(obj[o]), f, v)
    PROVE  Store' = [Store EXCEPT ![o] = Promised!Put(@, f, v)]
<1>1. Store[o] = View(obj[o]) /\ Store' = [Store EXCEPT ![o] = View(r)]
  BY Acts
<1>2. View(r) = Promised!Put(Store[o], f, v)
  BY <1>1, PutAlike
<1>3. Store = [p \in Objects |-> Store[p]]
  BY DEF Store
<1> HIDE DEF Store
<1> QED BY <1>1, <1>2, <1>3

LEMMA SetFieldRefines ==
    ASSUME RInv, RInv', NEW o \in Objects, NEW f \in Fids, NEW v \in Stored, SetField(o, f, v)
    PROVE  Promised!Write(o, f, v)
<1> DEFINE ob == obj[o]
           r == FieldSet(ob, f, v)
<1>1. ObjGood(ob) /\ TemplatesOK /\ ob.live
  BY IInvParts, OneObject DEF RInv, SetField, Running
<1>2. /\ Running(o) /\ UNCHANGED <<building, template>> /\ out' = <<"wrote", f, v>>
      /\ obj' = [obj EXCEPT ![o] = r]
  BY IInvParts DEF SetField, UnchangedCaches, RInv, ObjectsOK
<1>3. r.live /\ View(r) = Put(View(ob), f, v)
  BY <1>1, FieldSetView, FieldSetGood
<1> HIDE DEF r
<1>4. Store' = [Store EXCEPT ![o] = Promised!Put(@, f, v)]
  BY <1>2, <1>3, Puts
<1> QED BY <1>2, <1>4 DEF Promised!Write

(* A hit of prop_ic is where the object has the property. *)
LEMMA PropIcTrue ==
    ASSUME IInv, NEW ob, ObjGood(ob), NEW f \in Fids, PropIcHit(ob, f)
    PROVE  /\ ~ob.dictMode
           /\ propIc[PropIcOf[f]].slot = SlotOf(ob.shape, f)
           /\ SlotOf(ob.shape, f) # NoSlot
           /\ SlotOf(ob.shape, f) \in 1..Len(ob.fields)
<1> DEFINE e == propIc[PropIcOf[f]]
<1>1. Direct(e)
  BY IInvParts DEF PropIcOK
<1>2. ~ob.dictMode /\ e.shape = ob.shape /\ e.name = f
  BY DEF PropIcHit
<1>3. ob.shape \in Seq(Fids)
  BY ObjFields DEF ObjGood
<1>4. e.slot = SlotOf(ob.shape, f) /\ SlotOf(ob.shape, f) # NoSlot
  BY <1>1, <1>2, <1>3, ShapeFacts DEF Direct
<1>5. SlotOf(ob.shape, f) \in 1..Len(ob.fields)
  BY <1>2, <1>4, NameFacts
<1> QED BY <1>2, <1>4, <1>5

LEMMA GetPropertyRefines ==
    ASSUME RInv, RInv', NEW o \in Objects, NEW f \in Fids, GetProperty(o, f)
    PROVE  Promised!Read(o, f)
<1> DEFINE ob == obj[o]
           slot == propIc[PropIcOf[f]].slot
<1>1. ObjGood(ob) /\ TemplatesOK /\ ob.live /\ IInv
  BY IInvParts, OneObject DEF RInv, GetProperty, Running
<1>2. /\ Running(o) /\ UNCHANGED <<building, template>>
  BY DEF GetProperty, UnchangedButPropIc
<1>3. None = Promised!None
  BY DEF Promised!None, None, Promised!Value, Value
<1>4. CASE /\ PropIcHit(ob, f)
           /\ obj' = [obj EXCEPT ![o] = Materialized(ob, slot)]
           /\ out' = <<"read", f, Materialized(ob, slot).fields[slot]>>
  <2> DEFINE r == Materialized(ob, slot)
  <2>1. slot = SlotOf(ob.shape, f) /\ slot # NoSlot /\ slot \in 1..Len(ob.fields) /\ ~ob.dictMode
    BY <1>1, <1>4, PropIcTrue
  <2>2. r.live /\ View(r) = View(ob) /\ r.fields[slot] = SlotValue(ob, slot)
    BY <1>1, <2>1, MaterializedView, MaterializedGood, MaterializedSlots
  <2>3. f \in InUse(NamesIn(ob)) /\ SlotValue(ob, slot) = ValueAt(ob, f)
    BY <1>1, <2>1, NameFacts
  <2> HIDE DEF ob, r, slot
  <2>4. Store[o] = View(ob) /\ Store' = Store
    BY <1>2, <1>4, <2>2, Asks DEF ob, r
  <2>5. out' = <<"read", f, ValueAt(ob, f)>>
    BY <1>4, <2>2, <2>3 DEF r
  <2> QED BY <1>3, <2>3, <2>4, <2>5, ViewIs DEF Promised!Read, Promised!Answer, Promised!Has
<1>5. CASE /\ obj' = [obj EXCEPT ![o] = FieldTouched(ob, f)]
           /\ out' = <<"read", f, OrNone(FieldGot(ob, f))>>
  <2> DEFINE r == FieldTouched(ob, f)
  <2>1. r.live /\ View(r) = View(ob)
    BY <1>1, TouchedView, FieldTouchedGood
  <2> HIDE DEF ob, r
  <2>2. Store[o] = View(ob) /\ Store' = Store
    BY <1>2, <1>5, <2>1, Asks DEF ob, r
  <2> QED BY <1>1, <1>3, <1>5, <2>2, ReadsField DEF Promised!Read, Promised!Answer, OrNone
<1> QED BY <1>4, <1>5 DEF GetProperty

LEMMA SetPropertyRefines ==
    ASSUME RInv, RInv', NEW o \in Objects, NEW f \in Fids, NEW v \in Stored, SetProperty(o, f, v)
    PROVE  Promised!Write(o, f, v)
<1> DEFINE ob == obj[o]
           slot == propIc[PropIcOf[f]].slot
<1>1. ObjGood(ob) /\ TemplatesOK /\ ob.live /\ IInv
  BY IInvParts, OneObject DEF RInv, SetProperty, Running
<1>2. /\ Running(o) /\ UNCHANGED <<building, template>> /\ out' = <<"wrote", f, v>>
  BY DEF SetProperty, UnchangedButPropIc
<1>3. CASE /\ PropIcHit(ob, f) /\ ~ob.frozen
           /\ obj' = [obj EXCEPT ![o] = Written(ob, slot, v)]
  <2> DEFINE r == Written(ob, slot, v)
  <2>1. slot = SlotOf(ob.shape, f) /\ slot # NoSlot /\ slot \in 1..Len(ob.fields) /\ ~ob.dictMode
    BY <1>1, <1>3, PropIcTrue
  <2>2. r.live = ob.live
    BY <1>1, <2>1, WrittenGood
  <2>3. View(r) = Put(View(ob), f, v)
    BY <1>1, <1>3, <2>1, WrittenView
  <2>4. obj' = [obj EXCEPT ![o] = r]
    BY <1>3
  <2> HIDE DEF r, slot
  <2>5. r.live
    BY <1>1, <2>2
  <2>6. Store' = [Store EXCEPT ![o] = Promised!Put(@, f, v)]
    BY <1>2, <2>3, <2>4, <2>5, Puts
  <2> QED BY <1>2, <2>6 DEF Promised!Write
<1>4. CASE obj' = [obj EXCEPT ![o] = FieldSet(ob, f, v)]
  <2> DEFINE r == FieldSet(ob, f, v)
  <2>1. r.live /\ View(r) = Put(View(ob), f, v)
    BY <1>1, FieldSetView, FieldSetGood
  <2> HIDE DEF r
  <2>2. Store' = [Store EXCEPT ![o] = Promised!Put(@, f, v)]
    BY <1>2, <1>4, <2>1, Puts DEF r
  <2> QED BY <1>2, <2>2 DEF Promised!Write
<1> QED BY <1>3, <1>4 DEF SetProperty

(* A program does not see what is being filled. *)
LEMMA StillHidden ==
    ASSUME RInv, RInv', NEW o \in Objects, Hidden(o), Hidden(o)', building = Idle \/ building.o = o,
           building' = Idle \/ building'.o = o, NEW r, obj' = [obj EXCEPT ![o] = r], UNCHANGED template
    PROVE  Store' = Store
<1>1. \A p \in Objects : p # o => obj'[p] = obj[p]
  BY IInvParts DEF RInv, ObjectsOK
<1>2. ASSUME NEW p \in Objects PROVE Seen(p)' = Seen(p)
  <2>1. Seen(p) = IF Hidden(p) THEN Nothing ELSE View(obj[p])
    BY SeenIs DEF RInv
  <2>2. Seen(p)' = IF Hidden(p)' THEN Nothing ELSE View(obj[p])'
    BY SeenNext DEF RInv
  <2>3. CASE p = o
    BY <2>1, <2>2, <2>3
  <2>4. CASE p # o
    <3>1. View(obj[p])' = View(obj[p])
      BY <1>1, <2>4, ViewNext
    <3>2. Hidden(p)' <=> Hidden(p)
      BY <1>1, <2>4 DEF Hidden
    <3> QED BY <2>1, <2>2, <3>1, <3>2
  <2> QED BY <2>3, <2>4
<1> QED BY <1>2 DEF Store

LEMMA StartsHidden ==
    ASSUME RInv, RInv', NEW o \in Objects, Free(o), building' # Idle, building'.o = o,
           obj' = [obj EXCEPT ![o] = NewObj], UNCHANGED template
    PROVE  Store' = Store
BY StillHidden DEF Free, Hidden

LEMMA MakeObjectRefines ==
    ASSUME RInv, RInv', NEW o \in Objects, NEW ks \in Seq(Fids), NEW vs \in Seq(Stored),
           Len(vs) = Len(ks), MakeObject(o, ks, vs)
    PROVE  Promised!Create(o, ks, vs) \/ UNCHANGED <<Store, out>>
<1>1. Free(o) /\ UNCHANGED template
  BY DEF MakeObject
<1>2. CASE /\ siteShape = ks
           /\ obj' = [obj EXCEPT ![o] = [NewObj EXCEPT !.shape = siteShape, !.fields = vs]]
           /\ out' = <<"made", o, ks, vs>>
           /\ UNCHANGED building
  <2> DEFINE r == Filled(ks, vs)
  <2>1. ShapeOK(ks)
    BY <1>2, IInvParts, ShapeFacts DEF SitesOK, RInv
  <2>2. obj' = [obj EXCEPT ![o] = r]
    BY <1>2 DEF Filled
  <2>3. r.live
    BY DEF Filled, NewObj, Dead
  <2>4. FilledUpTo(View(r), ks, vs, Len(ks))
    BY <2>1, AllFilled
  <2> HIDE DEF r
  <2>5. /\ ~Store[o].live
        /\ Promised!IsLiteral(Store'[o], ks, vs)
        /\ Store' = [Store EXCEPT ![o] = Store'[o]]
    BY <1>1, <1>2, <2>2, <2>3, <2>4, MakesLiteral, KeptTemplate
  <2> QED BY <1>2, <2>5 DEF Promised!Create
<1>3. CASE /\ building' = [for |-> "literal", o |-> o, text |-> ks, ks |-> ks, vs |-> vs, at |-> 0]
           /\ obj' = [obj EXCEPT ![o] = NewObj] /\ UNCHANGED out
  <2>1. building' # Idle /\ building'.o = o
    BY <1>3 DEF Idle
  <2> QED BY <1>1, <1>3, <2>1, StartsHidden
<1> QED BY <1>2, <1>3 DEF MakeObject

LEMMA ParseJsonRefines ==
    ASSUME RInv, RInv', NEW o \in Objects, NEW ks \in Seq(Fids), NEW vs \in Seq(Stored),
           Len(vs) = Len(ks), ParseJson(o, ks, vs)
    PROVE  Promised!Create(o, ks, vs) \/ UNCHANGED <<Store, out>>
<1>1. Free(o) /\ UNCHANGED template
  BY DEF ParseJson
<1>2. CASE /\ ks = <<>> /\ obj' = [obj EXCEPT ![o] = NewObj] /\ out' = <<"made", o, ks, vs>>
           /\ UNCHANGED building
  <2>1. Len(ks) = 0
    BY <1>2, EmptyShape
  <2>2. NewObj.live /\ FilledUpTo(View(NewObj), ks, vs, Len(ks))
    BY <2>1, EmptyObjects, NothingFilled
  <2>3. /\ ~Store[o].live
        /\ Promised!IsLiteral(Store'[o], ks, vs)
        /\ Store' = [Store EXCEPT ![o] = Store'[o]]
    BY <1>1, <1>2, <2>2, MakesLiteral, KeptTemplate
  <2> QED BY <1>2, <2>3 DEF Promised!Create
<1>3. CASE /\ Agrees(jsonShape, ks, Len(ks)) /\ Len(jsonShape) = Len(ks)
           /\ obj' = [obj EXCEPT ![o] = [NewObj EXCEPT !.shape = jsonShape, !.fields = vs]]
           /\ out' = <<"made", o, ks, vs>>
           /\ UNCHANGED building
  <2> DEFINE r == Filled(ks, vs)
  <2>1. jsonShape \in Seq(Fids) /\ ShapeOK(jsonShape)
    BY <1>3, IInvParts DEF Agrees, AnyShape, SitesOK, RInv
  <2>2. jsonShape = ks
    <3>1. \A i \in 1..Len(ks) : jsonShape[i] = ks[i]
      BY <1>3 DEF Agrees
    <3> QED BY <1>3, <2>1, <3>1, SeqEqual
  <2>3. obj' = [obj EXCEPT ![o] = r] /\ ShapeOK(ks)
    BY <1>3, <2>1, <2>2 DEF Filled
  <2>4. r.live
    BY DEF Filled, NewObj, Dead
  <2>5. FilledUpTo(View(r), ks, vs, Len(ks))
    BY <2>3, AllFilled
  <2> HIDE DEF r
  <2>6. /\ ~Store[o].live
        /\ Promised!IsLiteral(Store'[o], ks, vs)
        /\ Store' = [Store EXCEPT ![o] = Store'[o]]
    BY <1>1, <1>3, <2>3, <2>4, <2>5, MakesLiteral, KeptTemplate
  <2> QED BY <1>3, <2>6 DEF Promised!Create
<1>4. CASE /\ obj' = [obj EXCEPT ![o] = NewObj] /\ UNCHANGED out
           /\ building' = [for |-> "json", o |-> o, text |-> ks, ks |-> ParsedKeys(jsonShape, ks), vs |-> vs, at |-> 0]
  <2>1. building' # Idle /\ building'.o = o
    BY <1>4 DEF Idle
  <2> QED BY <1>1, <1>4, <2>1, StartsHidden
<1> QED BY <1>2, <1>3, <1>4 DEF ParseJson

LEMMA FillFieldRefines ==
    ASSUME RInv, RInv', FillField
    PROVE  UNCHANGED <<Store, out>>
<1> DEFINE b == building
           r == FieldSet(obj[b.o], b.ks[b.at + 1], b.vs[b.at + 1])
<1>1. building # Idle /\ UNCHANGED <<template, out>>
  BY DEF FillField
<1>2. /\ b.o \in Objects /\ obj' = [obj EXCEPT ![b.o] = r]
      /\ NowFilled(b.o, b.ks, b.vs, b.at + 1)
  BY FillFieldIs DEF RInv
<1>3. building'.o = b.o /\ building'.at = b.at + 1 /\ b.at \in Nat
  BY <1>2, IInvParts DEF NowFilled, RInv, BuildingOK, BuildType
<1>4. building' # Idle
  BY <1>3 DEF Idle
<1> HIDE DEF r
<1>5. Store' = Store
  BY <1>1, <1>2, <1>3, <1>4, StillHidden DEF Hidden
<1> QED BY <1>1, <1>5

LEMMA LiteralDoneRefines ==
    ASSUME RInv, RInv', LiteralDone \/ JsonDone
    PROVE  /\ building.o \in Objects /\ building.text \in Literals
           /\ building.vs \in [DOMAIN building.text -> Values]
           /\ Promised!Create(building.o, building.text, building.vs)
<1>1. /\ building.for # "nothing" /\ building' = Idle /\ building.at = Len(building.ks)
      /\ out' = <<"made", building.o, building.text, building.vs>>
      /\ UNCHANGED <<obj, template>>
  BY DEF LiteralDone, JsonDone
<1>2. building # Idle
  BY <1>1 DEF Idle
<1> QED BY <1>1, <1>2, LiteralEnds

LEMMA NewResultRefines ==
    ASSUME RInv, RInv', NEW o \in Objects, NEW variant \in {"Ok", "Err"}, NEW p \in 0..MaxInt,
           NewResult(o, variant, p)
    PROVE  Promised!CreateResult(o, variant, p)
<1> DEFINE t == template[variant]
           c == Constructed(variant, p)
           d == Instantiated(variant, p)
           vs == ResultFields(variant, p)
           Ends == /\ ~Store[o].live
                   /\ Promised!IsLiteral(Store'[o], ResultKeys, vs)
                   /\ Store' = [Store EXCEPT ![o] = Store'[o]]
<1>1. Free(o) /\ UNCHANGED building /\ out' = <<"result", o, variant, p>>
  BY DEF NewResult
<1>2. IInv /\ TemplatesOK
  BY IInvParts DEF RInv
<1>3. /\ ResultKeys \in Seq(Fids) /\ ShapeOK(ResultKeys) /\ Len(ResultKeys) = 4
      /\ vs \in Seq(Stored) /\ Len(vs) = 4
  BY ResultFacts
<1>4. t.initialized => t.usable
  BY <1>2 DEF TemplatesOK, TemplateOK, IsResult
<1>5. ASSUME t.initialized, obj' = [obj EXCEPT ![o] = d], UNCHANGED template
      PROVE  Ends
  <2>1. FilledUpTo(View(d), ResultKeys, vs, 4)
    BY <1>2, <1>5, InstantiatedFilled
  <2>2. d.live
    BY EmptyObjects DEF Instantiated
  <2> HIDE DEF d, vs
  <2>3. FilledUpTo(View(d), ResultKeys, vs, Len(ResultKeys))
    BY <1>3, <2>1
  <2>4. Ends
    BY <1>1, <1>3, <1>5, <2>2, <2>3, MakesLiteral, KeptTemplate
  <2> QED BY <2>4
<1>6. ASSUME ~t.initialized, obj' = [obj EXCEPT ![o] = c],
             template' = [template EXCEPT ![variant] = TemplateOf(c)]
      PROVE  Ends
  <2>1. c = Filled(ResultKeys, vs)
    BY DEF Constructed, Filled
  <2>2. t.methods = {}
    BY <1>2, <1>6 DEF TemplatesOK, TemplateOK
  <2>3. \A q \in Objects : obj'[q] = IF q = o THEN c ELSE obj[q]
    BY <1>2, <1>6, IInvParts DEF ObjectsOK
  <2> HIDE DEF c, vs
  <2>4. c.live /\ c.lazy = {}
    <3>1. Filled(ResultKeys, vs).live = TRUE
      BY DEF Filled, NewObj, Dead
    <3>2. Filled(ResultKeys, vs).lazy = {}
      BY DEF Filled, NewObj, Dead
    <3> QED BY <2>1, <3>1, <3>2
  <2>5. FilledUpTo(View(c), ResultKeys, vs, Len(ResultKeys))
    BY <1>3, <2>1, AllFilled
  <2>6. ASSUME NEW q \in Objects, obj'[q].lazy # {}
        PROVE  template'[obj'[q].ctx] = template[obj'[q].ctx]
    <3>1. q # o /\ obj'[q] = obj[q]
      BY <2>3, <2>4, <2>6
    <3>2. ObjOK(obj[q])
      BY <1>2, IInvParts DEF ObjectsOK
    <3>3. obj[q].ctx # variant
      BY <2>2, <2>6, <3>1, <3>2 DEF ObjOK
    <3> QED BY <1>2, <1>6, <3>1, <3>3 DEF TemplatesOK
  <2>7. TemplateKept
    BY <2>6 DEF TemplateKept
  <2>8. Ends
    BY <1>1, <1>3, <1>6, <2>4, <2>5, <2>7, MakesLiteral
  <2> QED BY <2>8
<1>7. Ends
  BY <1>4, <1>5, <1>6 DEF NewResult
<1>8. Promised!ResultKeys = ResultKeys
  BY DEF Promised!ResultKeys, ResultKeys
<1>9. Promised!ResultFields(variant, p) = vs
  BY DEF Promised!ResultFields, ResultFields, Promised!Variant, Variant, Promised!Integer, Integer,
         Promised!Method, Method, Promised!Value, Value
<1> HIDE DEF vs
<1> QED BY <1>1, <1>7, <1>8, <1>9 DEF Promised!CreateResult

-----------------------------------------------------------------------------
(* Calls.                                                                  *)

(* PropertyStore speaks of the same values. *)
LEMMA ValuesAlike ==
    /\ Promised!None = None /\ Promised!Absent = Absent /\ Promised!Helper = Helper
    /\ \A n : Promised!Integer(n) = Integer(n)
    /\ \A v : (Promised!IsFunction(v) <=> IsFunction(v)) /\ Promised!Call(v) = Call(v)
              /\ Promised!Text(v) = Text(v)
<1>1. Promised!None = None /\ Promised!Absent = Absent /\ Promised!Helper = Helper
  BY DEF Promised!None, None, Promised!Absent, Absent, Promised!Helper, Helper, Promised!Value, Value
<1>2. ASSUME NEW n PROVE Promised!Integer(n) = Integer(n)
  BY DEF Promised!Integer, Integer, Promised!Value, Value
<1>3. ASSUME NEW v PROVE Promised!IsFunction(v) <=> IsFunction(v)
  BY DEF Promised!IsFunction, IsFunction
<1>4. ASSUME NEW v PROVE Promised!Call(v) = Call(v) /\ Promised!Text(v) = Text(v)
  BY <1>1, <1>2, <1>3 DEF Promised!Call, Call, Promised!Text, Text
<1> QED BY <1>1, <1>2, <1>3, <1>4

(* A method that is put off is one of the methods of a result. *)
LEMMA LazyMethods ==
    ASSUME TemplatesOK, NEW ob, ObjGood(ob), NEW s \in ob.lazy
    PROVE  /\ ob.ctx \in {"Ok", "Err"}
           /\ template[ob.ctx].unwraps => ob.ctx = "Ok"
           /\ template[ob.ctx].shape[s] \in {"unwrap", "map"}
           /\ MadeMethod(ob, s) = Method(ob.ctx, template[ob.ctx].shape[s], ob.payload.n)
           /\ ob.payload = Integer(ob.payload.n)
<1> DEFINE t == template[ob.ctx]
<1>1. /\ ob.ctx \in {"Ok", "Err"} /\ s \in t.methods /\ ob.payload = Integer(ob.payload.n)
  BY ObjFields DEF ObjGood, ObjOK
<1>2. IsResult(t, ob.ctx)
  BY <1>1 DEF TemplatesOK, TemplateOK
<1>3. t.unwraps => ob.ctx = "Ok"
  BY <1>2 DEF IsResult
<1>4. t.shape[s] \in {"unwrap", "map"}
  BY <1>1, <1>2 DEF IsResult, ResultKeys
<1>5. MadeMethod(ob, s) = Method(ob.ctx, t.shape[s], ob.payload.n)
  BY <1>1 DEF MadeMethod
<1> QED BY <1>1, <1>3, <1>4, <1>5

(* What unwrap answers from the payload is what the method would answer. *)
LEMMA LazyCall ==
    ASSUME TemplatesOK, NEW ob, ObjGood(ob), ~ob.dictMode, NEW n \in Fids,
           NEW argc, InvokesLazily(ob, SlotOf(ob.shape, n), argc)
    PROVE  /\ n \in InUse(NamesIn(ob))
           /\ IsFunction(ValueAt(ob, n)) /\ Call(ValueAt(ob, n)) = ob.payload
<1> DEFINE s == SlotOf(ob.shape, n)
           v == MadeMethod(ob, s)
<1>1. s \in ob.lazy /\ template[ob.ctx].unwraps /\ template[ob.ctx].shape[s] = "unwrap"
  BY DEF InvokesLazily
<1>2. s # NoSlot
  BY <1>1, ObjFields DEF ObjGood, ObjOK, NoSlot
<1>3. n \in InUse(NamesIn(ob)) /\ ValueAt(ob, n) = v
  BY <1>1, <1>2, NameFacts DEF SlotValue
<1> HIDE DEF s
<1>4. v = Method("Ok", "unwrap", ob.payload.n) /\ ob.payload = Integer(ob.payload.n)
  <2>1. ob.ctx = "Ok" /\ ob.payload = Integer(ob.payload.n)
    BY <1>1, LazyMethods
  <2>2. v = Method(ob.ctx, template[ob.ctx].shape[s], ob.payload.n)
    BY <1>1, LazyMethods
  <2> QED BY <1>1, <2>1, <2>2
<1> HIDE DEF v
<1>5. v.kind = "unwrap" /\ v.of = "Ok" /\ v.n = ob.payload.n
  BY <1>4 DEF Method, Value
<1> QED BY <1>3, <1>4, <1>5 DEF IsFunction, Call

(* A call of what get_field answers. *)
LEMMA Calls ==
    ASSUME RInv, NEW o \in Objects, NEW n \in Fids, Store[o] = View(obj[o]), Store' = Store,
           out' = CallOrBuiltin(n, FieldGot(obj[o], n))
    PROVE  Promised!CallMethod(o, n)
<1>1. ObjGood(obj[o]) /\ TemplatesOK
  BY IInvParts, OneObject DEF RInv
<1>2. Promised!At(Store[o], n) = FieldGot(obj[o], n)
  BY <1>1, ReadsField
<1> HIDE DEF Store
<1> QED BY <1>2, ValuesAlike DEF Promised!CallMethod, Promised!Answer, CallOrBuiltin

LEMMA CallsLazily ==
    ASSUME RInv, NEW o \in Objects, NEW n \in Fids, Store[o] = View(obj[o]), Store' = Store,
           ~obj[o].dictMode, NEW argc, InvokesLazily(obj[o], SlotOf(obj[o].shape, n), argc),
           out' = <<"called", n, obj[o].payload>>
    PROVE  Promised!CallMethod(o, n)
<1>1. ObjGood(obj[o]) /\ TemplatesOK
  BY IInvParts, OneObject DEF RInv
<1>2. /\ n \in InUse(NamesIn(obj[o]))
      /\ IsFunction(ValueAt(obj[o], n)) /\ Call(ValueAt(obj[o], n)) = obj[o].payload
  BY <1>1, LazyCall
<1>3. Promised!At(Store[o], n) = ValueAt(obj[o], n)
  BY <1>2, ViewIs DEF Promised!At, Promised!Has
<1> HIDE DEF Store
<1> QED BY <1>2, <1>3, ValuesAlike DEF Promised!CallMethod, Promised!Answer

LEMMA CallMethodRefines ==
    ASSUME RInv, RInv', NEW o \in Objects, NEW n \in Fids, NEW argc, CallMethod(o, n, argc)
    PROVE  Promised!CallMethod(o, n)
<1> DEFINE ob == obj[o]
           r == FieldTouched(ob, n)
<1>1. ObjGood(ob) /\ TemplatesOK /\ ob.live
  BY IInvParts, OneObject DEF RInv, CallMethod, Running
<1>2. Running(o) /\ UNCHANGED <<building, template>>
  BY DEF CallMethod, UnchangedCaches
<1>3. CASE /\ ~ob.dictMode /\ InvokesLazily(ob, SlotOf(ob.shape, n), argc)
           /\ out' = <<"called", n, ob.payload>> /\ UNCHANGED obj
  BY <1>2, <1>3, Looks, CallsLazily
<1>4. CASE /\ obj' = [obj EXCEPT ![o] = r] /\ out' = CallOrBuiltin(n, FieldGot(ob, n))
  <2>1. r.live /\ View(r) = View(ob)
    BY <1>1, TouchedView, FieldTouchedGood
  <2> HIDE DEF r
  <2> QED BY <1>2, <1>4, <2>1, Asks, Calls
<1> QED BY <1>3, <1>4 DEF CallMethod

LEMMA JitCallMethodRefines ==
    ASSUME RInv, RInv', NEW o \in Objects, NEW n \in Names, NEW argc, JitCallMethod(o, n, argc)
    PROVE  Promised!CallMethod(o, n)
<1> DEFINE ob == obj[o]
           slot == MethodEntry(ob, n).slot
           touched == IF slot = NoSlot THEN ob ELSE Materialized(ob, slot)
           got == IF slot \in DOMAIN ob.fields THEN touched.fields[slot] ELSE Absent
<1>1. ObjGood(ob) /\ ob \in ObjType /\ ob.shape \in Seq(Fids) /\ TemplatesOK /\ MethodIcOK /\ ob.live
  BY IInvParts, OneObject DEF RInv, JitCallMethod, Running
<1>2. Running(o) /\ UNCHANGED <<building, template>> /\ n \in Fids
  BY ShapesAssumption DEF JitCallMethod
<1>3. slot = SlotOf(ob.shape, n)
  BY <1>1, MethodEntryTrue, ShapeFacts DEF True
<1>4. CASE /\ ob.dictMode /\ out' = CallOrBuiltin(n, FieldGot(ob, n)) /\ UNCHANGED obj
  BY <1>2, <1>4, Looks, Calls
<1>5. CASE /\ ~ob.dictMode /\ InvokesLazily(ob, slot, argc)
           /\ out' = <<"called", n, ob.payload>> /\ UNCHANGED obj
  BY <1>2, <1>3, <1>5, Looks, CallsLazily
<1>6. CASE /\ ~ob.dictMode /\ obj' = [obj EXCEPT ![o] = touched] /\ out' = CallOrBuiltin(n, got)
  <2>1. DOMAIN ob.fields = 1..Len(ob.fields) /\ NoSlot \notin 1..Len(ob.fields)
    BY <1>1, ObjFields, FieldFacts DEF NoSlot
  <2>2. got = FieldGot(ob, n)
    BY <1>3, <1>6, <2>1 DEF FieldGot
  <2>3. touched.live /\ View(touched) = View(ob)
    BY <1>1, MaterializedView, MaterializedGood
  <2> HIDE DEF touched, got
  <2> QED BY <1>2, <1>6, <2>2, <2>3, Asks, Calls
<1> QED BY <1>4, <1>5, <1>6 DEF JitCallMethod

-----------------------------------------------------------------------------
(* Delegates.                                                              *)

LEMMA FindTrapRefines ==
    ASSUME RInv, RInv', NEW f \in Traps, FindTrap(f)
    PROVE  Promised!Trap(Handler, f)
<1> DEFINE ob == obj[Handler]
           r == FieldTouched(ob, f)
           slot == SlotOf(ob.shape, f)
           Of(v) == <<"trap", f, IF IsFunction(v) THEN v ELSE None>>
           known == IF ob.shape = trap.shape THEN trap
                    ELSE [shape |-> ob.shape, slots |-> [g \in Traps |-> SlotOf(ob.shape, g)]]
<1>1. Handler \in Objects /\ f \in Fids
  BY ShapesAssumption
<1>2. ObjGood(ob) /\ ob \in ObjType /\ ob.shape \in Seq(Fids) /\ TemplatesOK /\ ob.live /\ TrapOK
  BY <1>1, IInvParts, OneObject DEF RInv, FindTrap, Running
<1>3. Running(Handler) /\ UNCHANGED <<building, template>>
  BY DEF FindTrap
<1>4. ASSUME Store[Handler] = View(ob), Store' = Store, out' = Of(FieldGot(ob, f))
      PROVE  Promised!Trap(Handler, f)
  <2>1. Promised!At(Store[Handler], f) = FieldGot(ob, f)
    BY <1>1, <1>2, <1>4, ReadsField
  <2> HIDE DEF Store, ob
  <2> QED BY <1>4, <2>1, ValuesAlike DEF Promised!Trap, Promised!Answer
<1>5. CASE /\ ~ob.dictMode /\ ob.lazy = {} /\ UNCHANGED obj
           /\ out' = IF known.slots[f] \in DOMAIN ob.fields THEN Of(ob.fields[known.slots[f]])
                     ELSE <<"trap", f, None>>
  <2>1. known.slots[f] = slot
    BY <1>2, ShapeFacts DEF TrapOK
  <2>2. DOMAIN ob.fields = 1..Len(ob.fields) /\ NoSlot \notin 1..Len(ob.fields)
    BY <1>2, ObjFields, FieldFacts DEF NoSlot
  <2>3. FieldGot(ob, f) = IF slot \in DOMAIN ob.fields THEN ob.fields[slot] ELSE Absent
    BY <1>5, <2>2 DEF FieldGot, Materialized
  <2>4. out' = Of(FieldGot(ob, f))
    BY <1>5, <2>1, <2>3, NotStored
  <2>5. Store[Handler] = View(ob) /\ Store' = Store
    BY <1>1, <1>3, <1>5, Looks
  <2> QED BY <1>4, <2>4, <2>5
<1>6. CASE obj' = [obj EXCEPT ![Handler] = r] /\ out' = Of(FieldGot(ob, f))
  <2>1. r.live /\ View(r) = View(ob)
    BY <1>2, TouchedView, FieldTouchedGood
  <2> HIDE DEF r
  <2>2. Store[Handler] = View(ob) /\ Store' = Store
    BY <1>1, <1>3, <1>6, <2>1, Asks
  <2> QED BY <1>4, <1>6, <2>2
<1> QED BY <1>5, <1>6 DEF FindTrap

-----------------------------------------------------------------------------
(* Code that came from JavaScript.                                         *)

(* A read of a slot that no getter guards. *)
LEMMA JsReads ==
    ASSUME RInv, NEW o \in Objects, NEW n \in Names, Store[o] = View(obj[o]), Store' = Store,
           ~obj[o].dictMode, SlotOf(obj[o].shape, n) # NoSlot,
           SlotOf(obj[o].shape, GetterOf[n]) = NoSlot,
           out' = <<"js read", n, SlotValue(obj[o], SlotOf(obj[o].shape, n))>>
    PROVE  Promised!JsRead(o, n)
<1> DEFINE ob == obj[o]
           g == GetterOf[n]
<1>1. ObjGood(ob) /\ n \in Fids /\ g \in Fids
  BY IInvParts, OneObject, ShapesAssumption DEF RInv
<1>2. n \in InUse(NamesIn(ob)) /\ ValueAt(ob, n) = SlotValue(ob, SlotOf(ob.shape, n))
  BY <1>1, NameFacts
<1>3. g \notin InUse(NamesIn(ob))
  BY <1>1, NameFacts
<1> HIDE DEF ob, g
<1>4. Promised!At(Store[o], g) = Absent /\ Promised!Has(Store[o], n) /\ Store[o].value[n] = ValueAt(ob, n)
  BY <1>2, <1>3, ViewIs, ValuesAlike DEF Promised!At, Promised!Has, ob
<1>5. out' = <<"js read", n, ValueAt(ob, n)>>
  BY <1>2 DEF ob
<1>6. ~Promised!IsFunction(Absent)
  BY NotStored, ValuesAlike
<1> HIDE DEF Store
<1> QED BY <1>4, <1>5, <1>6 DEF Promised!JsRead, Promised!Answer, g

LEMMA JsReadInlineRefines ==
    ASSUME RInv, RInv', NEW o \in Objects, NEW n \in Names, JsReadInline(o, n)
    PROVE  Promised!JsRead(o, n)
<1> DEFINE ob == obj[o]
           slot == InlineSlot(ob, n)
<1>1. ObjGood(ob) /\ ob.shape \in Seq(Fids) /\ ob.fields \in Seq(Stored) /\ JsIcOK
  BY IInvParts, OneObject, ObjFields DEF RInv
<1>2. /\ Running(o) /\ UNCHANGED <<obj, building, template>>
      /\ slot \in DOMAIN ob.fields \ ob.lazy /\ out' = <<"js read", n, ob.fields[slot]>>
  BY DEF JsReadInline, UnchangedCaches, InlineHit
<1>3. slot \in 1..Len(ob.fields) /\ slot # NoSlot /\ slot \notin ob.lazy
  <2>1. DOMAIN ob.fields = 1..Len(ob.fields) /\ NoSlot \notin 1..Len(ob.fields)
    BY <1>1, FieldFacts DEF NoSlot
  <2> HIDE DEF slot
  <2> QED BY <1>2, <2>1
<1>4. /\ Plain(jsIc[n][1]) /\ jsIc[n][1].name = n
      /\ Plain(jsIc[n][2]) /\ jsIc[n][2].name = n
  BY <1>1 DEF JsIcOK
<1>5. slot = SlotOf(ob.shape, n) /\ SlotOf(ob.shape, GetterOf[n]) = NoSlot
  BY <1>1, <1>3, <1>4, ShapeFacts DEF InlineSlot, Plain, Direct
<1>6. ~ob.dictMode
  <2>1. Len(ob.shape) = Len(ob.fields) /\ (ob.dictMode => ob.shape = <<>>)
    BY <1>1 DEF ObjGood, ObjOK
  <2> QED BY <1>3, <2>1, EmptyShape
<1>7. out' = <<"js read", n, SlotValue(ob, slot)>>
  BY <1>2, <1>3 DEF SlotValue
<1>8. Store[o] = View(ob) /\ Store' = Store
  BY <1>2, Looks
<1> HIDE DEF slot
<1> QED BY <1>3, <1>5, <1>6, <1>7, <1>8, JsReads

LEMMA StubTrue ==
    ASSUME IInv, NEW ob, ObjGood(ob), NEW n \in Names, StubHit(ob, n)
    PROVE  /\ ~ob.dictMode
           /\ propStub[StubOf(ob.shape, n)].slot = SlotOf(ob.shape, n)
           /\ SlotOf(ob.shape, n) # NoSlot
           /\ SlotOf(ob.shape, n) \in 1..Len(ob.fields)
           /\ SlotOf(ob.shape, GetterOf[n]) = NoSlot
<1> DEFINE e == propStub[StubOf(ob.shape, n)]
<1>1. ob.shape \in Seq(Fids) /\ n \in Fids
  BY ObjFields, ShapesAssumption DEF ObjGood
<1>2. Plain(e)
  BY <1>1, IInvParts, StubFacts DEF PropStubOK
<1>3. ~ob.dictMode /\ e.shape = ob.shape /\ e.name = n
  BY DEF StubHit
<1>4. /\ e.slot = SlotOf(ob.shape, n) /\ SlotOf(ob.shape, n) # NoSlot
      /\ SlotOf(ob.shape, GetterOf[n]) = NoSlot
  BY <1>1, <1>2, <1>3, ShapeFacts DEF Plain, Direct
<1>5. SlotOf(ob.shape, n) \in 1..Len(ob.fields)
  BY <1>1, <1>3, <1>4, NameFacts
<1> QED BY <1>3, <1>4, <1>5

LEMMA JsReadStubRefines ==
    ASSUME RInv, RInv', NEW o \in Objects, NEW n \in Names, JsReadStub(o, n)
    PROVE  Promised!JsRead(o, n)
<1> DEFINE ob == obj[o]
           slot == propStub[StubOf(ob.shape, n)].slot
           r == Materialized(ob, slot)
<1>1. ObjGood(ob) /\ TemplatesOK /\ ob.live /\ IInv
  BY IInvParts, OneObject DEF RInv, JsReadStub, Running
<1>2. /\ Running(o) /\ StubHit(ob, n) /\ UNCHANGED <<building, template>>
      /\ obj' = [obj EXCEPT ![o] = r] /\ out' = <<"js read", n, r.fields[slot]>>
  BY DEF JsReadStub, UnchangedButJs
<1>3. /\ ~ob.dictMode /\ slot = SlotOf(ob.shape, n) /\ slot # NoSlot /\ slot \in 1..Len(ob.fields)
      /\ SlotOf(ob.shape, GetterOf[n]) = NoSlot
  <2>1. slot = SlotOf(ob.shape, n) /\ SlotOf(ob.shape, n) # NoSlot
    BY <1>1, <1>2, StubTrue
  <2>2. SlotOf(ob.shape, n) \in 1..Len(ob.fields) /\ ~ob.dictMode
    BY <1>1, <1>2, StubTrue
  <2>3. SlotOf(ob.shape, GetterOf[n]) = NoSlot
    BY <1>1, <1>2, StubTrue
  <2> HIDE DEF slot
  <2> QED BY <2>1, <2>2, <2>3
<1>4. r.live /\ View(r) = View(ob) /\ r.fields[slot] = SlotValue(ob, slot)
  BY <1>1, <1>3, MaterializedView, MaterializedGood, MaterializedSlots
<1> HIDE DEF r, slot
<1>5. Store[o] = View(ob) /\ Store' = Store
  BY <1>2, <1>4, Asks
<1> QED BY <1>2, <1>3, <1>4, <1>5, JsReads

(* The bits of a shape never hide a property. *)
LEMMA MaskTells ==
    ASSUME TemplatesOK, NEW ob, ObjGood(ob), NEW f \in Fids, ~MayHave(ob, f)
    PROVE  FieldGot(ob, f) = Absent
<1>1. ~ob.dictMode /\ Bit[f] \notin Mask(ob.shape)
  BY DEF MayHave
<1>2. SlotOf(ob.shape, f) = NoSlot
  BY <1>1 DEF SlotOf
<1>3. f \notin InUse(NamesIn(ob))
  BY <1>1, <1>2, NameFacts
<1> QED BY <1>3, FieldGotIs

LEMMA JsReadSlowRefines ==
    ASSUME RInv, RInv', NEW o \in Objects, NEW n \in Names, JsReadSlow(o, n)
    PROVE  Promised!JsRead(o, n)
<1> DEFINE ob == obj[o]
           g == GetterOf[n]
           asked == IF MayHave(ob, g) THEN FieldTouched(ob, g) ELSE ob
           found == MayHave(ob, n) /\ FieldGot(ob, n) # Absent
           r == FieldTouched(asked, n)
<1>1. ObjGood(ob) /\ TemplatesOK /\ ob.live
  BY IInvParts, OneObject DEF RInv, JsReadSlow, Running
<1>2. Running(o) /\ UNCHANGED <<building, template>> /\ n \in Fids /\ g \in Fids
  BY ShapesAssumption DEF JsReadSlow, UnchangedButJs
<1>3. ObjGood(asked) /\ asked.live /\ View(asked) = View(ob)
  BY <1>1, TouchedView, FieldTouchedGood
<1>4. /\ Promised!At(View(ob), g) = FieldGot(ob, g)
      /\ Promised!Has(View(ob), n) <=> FieldGot(ob, n) # Absent
      /\ Promised!Has(View(ob), n) => View(ob).value[n] = FieldGot(ob, n)
  BY <1>1, <1>2, ReadsField
<1>5. IsFunction(Promised!At(View(ob), g)) <=> HasGetter(ob, n)
  BY <1>1, <1>2, <1>4, MaskTells, NotStored DEF HasGetter
<1>6. Promised!Has(View(ob), n) <=> found
  BY <1>1, <1>2, <1>4, MaskTells
<1> HIDE DEF asked
<1>7. FieldGot(asked, n) = FieldGot(ob, n)
  <2>1. Promised!At(View(asked), n) = FieldGot(asked, n) /\ Promised!At(View(ob), n) = FieldGot(ob, n)
    BY <1>1, <1>2, <1>3, ReadsField
  <2> QED BY <1>3, <2>1
<1>8. r.live /\ View(r) = View(ob)
  BY <1>1, <1>3, TouchedView, FieldTouchedGood
<1> HIDE DEF r, g
<1>9. ASSUME Store[o] = View(ob), Store' = Store,
             out' = IF HasGetter(ob, n) \/ ~found THEN <<"js read", n, Helper>>
                    ELSE <<"js read", n, FieldGot(ob, n)>>
      PROVE  Promised!JsRead(o, n)
  <2> HIDE DEF Store, ob, found
  <2> QED BY <1>4, <1>5, <1>6, <1>9, ValuesAlike
          DEF Promised!JsRead, Promised!AskHelper, Promised!Answer, g
<1>10. CASE /\ HasGetter(ob, n) /\ obj' = [obj EXCEPT ![o] = asked]
            /\ out' = <<"js read", n, Helper>>
  <2>1. Store[o] = View(ob) /\ Store' = Store
    BY <1>2, <1>3, <1>10, Asks
  <2> QED BY <1>9, <1>10, <2>1
<1>11. CASE /\ ~HasGetter(ob, n)
            /\ obj' = [obj EXCEPT ![o] = IF found THEN r ELSE asked]
            /\ out' = IF found THEN <<"js read", n, FieldGot(asked, n)>> ELSE <<"js read", n, Helper>>
  <2>1. Store[o] = View(ob) /\ Store' = Store
    <3>1. CASE found
      <4>1. obj' = [obj EXCEPT ![o] = r]
        BY <1>11, <3>1
      <4> QED BY <1>2, <1>8, <4>1, Asks
    <3>2. CASE ~found
      <4>1. obj' = [obj EXCEPT ![o] = asked]
        BY <1>11, <3>2
      <4> QED BY <1>2, <1>3, <4>1, Asks
    <3> QED BY <3>1, <3>2
  <2>2. out' = IF HasGetter(ob, n) \/ ~found THEN <<"js read", n, Helper>>
               ELSE <<"js read", n, FieldGot(ob, n)>>
    BY <1>7, <1>11
  <2> QED BY <1>9, <2>1, <2>2
<1>12. \/ /\ HasGetter(ob, n) /\ obj' = [obj EXCEPT ![o] = asked]
          /\ out' = <<"js read", n, Helper>>
       \/ /\ ~HasGetter(ob, n)
          /\ obj' = [obj EXCEPT ![o] = IF found THEN r ELSE asked]
          /\ out' = IF found THEN <<"js read", n, FieldGot(asked, n)>> ELSE <<"js read", n, Helper>>
  BY DEF JsReadSlow, asked, r, g
<1> QED BY <1>10, <1>11, <1>12

(* A shape without the bits of the accessors and of the prototype has none of them. *)
LEMMA FastFacts ==
    ASSUME NEW ob, ObjGood(ob), NEW fs \in SUBSET Fids, JsFastWrite(ob, fs)
    PROVE  /\ ~ob.dictMode /\ ~ob.frozen
           /\ \A f \in fs \cup {Proto} : f \in Fids /\ f \notin InUse(NamesIn(ob))
<1>1. /\ ~ob.dictMode /\ ~ob.frozen
      /\ Mask(ob.shape) \cap {Bit[f] : f \in fs \cup {Proto}} = {}
  BY DEF JsFastWrite
<1>2. ASSUME NEW f \in fs \cup {Proto} PROVE f \in Fids /\ f \notin InUse(NamesIn(ob))
  <2>1. f \in Fids
    BY ShapesAssumption
  <2>2. Bit[f] \notin Mask(ob.shape) /\ NamesIn(ob) = ob.shape
    BY <1>1 DEF NamesIn
  <2>3. f \notin InUse(ob.shape)
    BY <2>2 DEF Mask
  <2> QED BY <2>1, <2>2, <2>3
<1> QED BY <1>1, <1>2

LEMMA JsWriteRefines ==
    ASSUME RInv, RInv', NEW o \in Objects, NEW n \in Names, NEW v \in Stored, JsWrite(o, n, v)
    PROVE  Promised!JsWrite(o, n, v)
<1> DEFINE ob == obj[o]
           fast == JsFastWrite(ob, {SetterOf[n]})
           r == FieldSet(ob, n, v)
<1>1. ObjGood(ob) /\ TemplatesOK /\ ob.live
  BY IInvParts, OneObject DEF RInv, JsWrite, Running
<1>2. Running(o) /\ UNCHANGED <<building, template>> /\ n \in Fids /\ SetterOf[n] \in Fids
  BY ShapesAssumption DEF JsWrite, UnchangedCaches
<1>3. CASE fast
  <2>1. obj' = [obj EXCEPT ![o] = r] /\ out' = <<"js wrote", n, v>>
    BY <1>3, IInvParts DEF JsWrite, RInv, ObjectsOK
  <2>2. ~ob.frozen /\ SetterOf[n] \notin InUse(NamesIn(ob)) /\ Proto \notin InUse(NamesIn(ob))
    BY <1>1, <1>2, <1>3, FastFacts
  <2>3. r.live /\ View(r) = Put(View(ob), n, v)
    BY <1>1, <1>2, FieldSetView, FieldSetGood
  <2> HIDE DEF r
  <2>4. Store' = [Store EXCEPT ![o] = Promised!Put(@, n, v)]
    BY <1>2, <2>1, <2>3, Puts
  <2>5. Store[o] = View(ob)
    BY <1>2, StoreOf DEF RInv, Running
  <2>6. ~Promised!Intercepted(Store[o], n) /\ ~Store[o].frozen
    BY <2>2, <2>5, ViewIs DEF Promised!Intercepted, Promised!Has
  <2> QED BY <2>1, <2>4, <2>6 DEF Promised!JsWrite
<1>4. CASE ~fast
  <2>1. UNCHANGED obj /\ out' = <<"js wrote", n, Helper>>
    BY <1>4 DEF JsWrite
  <2>2. Store' = Store
    BY <1>2, <2>1, Looks
  <2> QED BY <2>1, <2>2, ValuesAlike DEF Promised!JsWrite, Promised!AskHelper, Promised!Answer
<1> QED BY <1>3, <1>4

(* The integer of a slot that is built is counted up where it is. *)
LEMMA CountedUp ==
    ASSUME NEW ob, ObjGood(ob), ~ob.frozen, ~ob.dictMode, NEW n \in Fids, NEW s, NEW v,
           s = SlotOf(ob.shape, n), s # NoSlot, s \notin ob.lazy,
           NEW r, r = [ob EXCEPT !.fields[s] = v]
    PROVE  View(r) = Put(View(ob), n, v) /\ r.live = ob.live
<1> DEFINE fs == [ob.fields EXCEPT ![s] = v]
<1>1. ob \in ObjType /\ ob.fields \in Seq(Stored) /\ s \in 1..Len(ob.fields)
  BY NameFacts, ObjFields DEF ObjGood
<1>2. DOMAIN ob.fields = 1..Len(ob.fields)
  BY <1>1, FieldFacts
<1>3. \A i \in 1..Len(ob.fields) : fs[i] = IF i = s THEN v ELSE ob.fields[i]
  BY <1>2
<1>4. r = [ob EXCEPT !.fields = fs]
  BY <1>1 DEF ObjType
<1> HIDE DEF fs
<1>5. /\ r.fields = fs /\ r.shape = ob.shape /\ r.lazy = ob.lazy /\ r.ctx = ob.ctx
      /\ r.payload = ob.payload /\ r.live = ob.live
  BY <1>1, <1>4 DEF ObjType
<1>6. r.frozen = ob.frozen /\ r.dictMode = ob.dictMode
  BY <1>1, <1>4 DEF ObjType
<1>7. \A i \in 1..Len(ob.fields) : SlotValue(r, i) = IF i = s THEN v ELSE SlotValue(ob, i)
  BY <1>3, <1>5 DEF SlotValue, MadeMethod
<1> QED BY <1>5, <1>6, <1>7, SlotPutView

LEMMA JsPostIncRefines ==
    ASSUME RInv, RInv', NEW o \in Objects, NEW n \in Names, JsPostInc(o, n)
    PROVE  Promised!JsPostInc(o, n)
<1> DEFINE ob == obj[o]
           slot == propStub[StubOf(ob.shape, n)].slot
           ready == Materialized(ob, slot)
           old == ready.fields[slot]
           r == [ready EXCEPT !.fields[slot] = Integer(old.n + 1)]
           looked == JsFastWrite(ob, {GetterOf[n], SetterOf[n]}) /\ StubHit(ob, n)
           fast == looked /\ old.kind = "int" /\ old.n < MaxInt
<1>1. ObjGood(ob) /\ TemplatesOK /\ ob.live /\ IInv
  BY IInvParts, OneObject DEF RInv, JsPostInc, Running
<1>2. /\ Running(o) /\ UNCHANGED <<building, template>> /\ n \in Fids
      /\ SetterOf[n] \in Fids /\ GetterOf[n] \in Fids
  BY ShapesAssumption DEF JsPostInc, UnchangedCaches
<1>3. /\ ObjGood(ready) /\ View(ready) = View(ob) /\ ready.live /\ slot \notin ready.lazy
      /\ ready.frozen = ob.frozen /\ ready.dictMode = ob.dictMode /\ ready.shape = ob.shape
  BY <1>1, MaterializedGood, MaterializedView
<1>4. /\ obj' = CASE fast -> [obj EXCEPT ![o] = r]
                  [] looked /\ ~fast -> [obj EXCEPT ![o] = ready]
                  [] OTHER -> obj
      /\ out' = IF fast THEN <<"js inc", n, old>> ELSE <<"js inc", n, Helper>>
  BY DEF JsPostInc
<1>5. CASE fast
  <2>1. ~ob.frozen /\ \A f \in {GetterOf[n], SetterOf[n], Proto} : f \notin InUse(NamesIn(ob))
    BY <1>1, <1>2, <1>5, FastFacts
  <2>2. ~ob.dictMode /\ slot = SlotOf(ob.shape, n) /\ slot # NoSlot /\ slot \in 1..Len(ob.fields)
    BY <1>1, <1>5, StubTrue
  <2>3. old = SlotValue(ob, slot)
    BY <1>1, <2>2, MaterializedSlots
  <2>4. n \in InUse(NamesIn(ob)) /\ ValueAt(ob, n) = SlotValue(ob, slot)
    BY <1>1, <1>2, <2>2, NameFacts
  <2>5. old.kind = "int" /\ old.n < MaxInt /\ obj' = [obj EXCEPT ![o] = r] /\ out' = <<"js inc", n, old>>
    BY <1>4, <1>5
  <2> DEFINE v == Integer(old.n + 1)
  <2>6. r = [ready EXCEPT !.fields[slot] = v]
    OBVIOUS
  <2> HIDE DEF v, r, old, ready, slot
  <2>7. View(r) = Put(View(ob), n, v) /\ r.live
    BY <1>2, <1>3, <2>1, <2>2, <2>6, CountedUp
  <2>8. Store' = [Store EXCEPT ![o] = Promised!Put(@, n, v)]
    <3>1. Running(o) /\ UNCHANGED <<building, template>> /\ obj' = [obj EXCEPT ![o] = r]
      BY <1>2, <2>5
    <3>2. View(r) = Put(View(obj[o]), n, v) /\ r.live
      BY <2>7
    <3> HIDE DEF ob
    <3> QED BY <3>1, <3>2, Puts
  <2>9. Store[o] = View(ob)
    BY <1>2, StoreOf DEF RInv, Running
  <2>10. /\ ~Promised!Intercepted(Store[o], n) /\ ~Promised!Has(Store[o], GetterOf[n])
         /\ ~Store[o].frozen
    BY <2>1, <2>9, ViewIs DEF Promised!Intercepted, Promised!Has
  <2>11. Promised!At(Store[o], n) = old /\ Store[o].value[n] = old
    BY <2>3, <2>4, <2>9, ViewIs DEF Promised!At, Promised!Has
  <2>12. v = Promised!Integer(Store[o].value[n].n + 1)
    BY <2>11, ValuesAlike DEF v
  <2>13. Store' = [Store EXCEPT ![o] = Promised!Put(Store[o], n, v)]
    <3>1. Store = [p \in Objects |-> Store[p]]
      BY DEF Store
    <3> HIDE DEF Store
    <3> QED BY <2>8, <3>1
  <2> HIDE DEF Store
  <2> QED BY <2>5, <2>10, <2>11, <2>12, <2>13 DEF Promised!JsPostInc
<1>6. CASE ~fast
  <2>1. out' = <<"js inc", n, Helper>> /\ (obj' = [obj EXCEPT ![o] = ready] \/ UNCHANGED obj)
    BY <1>4, <1>6
  <2> HIDE DEF ready
  <2>2. Store' = Store
    BY <1>2, <1>3, <2>1, Looks, Asks
  <2> QED BY <2>1, <2>2, ValuesAlike DEF Promised!JsPostInc, Promised!AskHelper, Promised!Answer
<1> HIDE DEF fast
<1> QED BY <1>5, <1>6

-----------------------------------------------------------------------------
(* JSON.                                                                   *)

(* A method that is put off has no text, nor has the empty slot it will go to. *)
LEMMA SlotText ==
    ASSUME TemplatesOK, NEW ob, ObjGood(ob), NEW i
    PROVE  Text(SlotValue(ob, i)) = Text(ob.fields[i])
<1>1. CASE i \in ob.lazy
  <2> DEFINE v == MadeMethod(ob, i)
  <2>1. ob.fields[i] = None
    BY <1>1 DEF ObjGood, ObjOK
  <2>2. v = Method(ob.ctx, template[ob.ctx].shape[i], ob.payload.n)
        /\ template[ob.ctx].shape[i] \in {"unwrap", "map"}
    BY <1>1, LazyMethods
  <2> HIDE DEF v
  <2>3. v.kind \in {"unwrap", "map"}
    BY <2>2 DEF Method, Value
  <2>4. Text(v) = None /\ Text(None) = None
    BY <2>3 DEF Text, IsFunction
  <2> QED BY <1>1, <2>1, <2>4 DEF SlotValue, v
<1>2. CASE i \notin ob.lazy
  BY <1>2 DEF SlotValue
<1> QED BY <1>1, <1>2

LEMMA WriteJsonRefines ==
    ASSUME RInv, RInv', NEW o \in Objects, WriteJson(o)
    PROVE  Promised!WriteJson(o)
<1> DEFINE ob == obj[o]
           keys == NamesIn(ob)
           At(i) == IF ob.dictMode THEN ob.map[ob.keys[i]] ELSE ob.fields[i]
<1>1. ObjGood(ob) /\ TemplatesOK /\ keys \in Seq(Fids)
  BY IInvParts, OneObject, ObjFields DEF RInv, ObjGood, NamesIn
<1>2. /\ Running(o) /\ UNCHANGED <<obj, building, template>>
      /\ out' = <<"text", [i \in DOMAIN keys |-> <<keys[i], Text(At(i))>>]>>
  BY DEF WriteJson, UnchangedCaches, NamesIn
<1>3. Store[o] = View(ob) /\ Store' = Store
  BY <1>2, Looks
<1>4. ASSUME NEW i \in DOMAIN keys
      PROVE  keys[i] \in InUse(keys) /\ Text(At(i)) = Text(ValueAt(ob, keys[i]))
  <2>1. i \in 1..Len(keys) /\ keys[i] \in Fids /\ keys[i] \in InUse(keys)
    BY <1>1, ShapeFacts
  <2>2. CASE ob.dictMode
    BY <2>1, <2>2 DEF ValueAt, NamesIn
  <2>3. CASE ~ob.dictMode
    <3> DEFINE s == SlotOf(ob.shape, keys[i])
    <3>1. keys = ob.shape /\ Distinct(ob.shape) /\ ob.shape \in Seq(Fids)
      BY <1>1, <2>3, ObjFields DEF NamesIn, ObjGood, ObjOK, ShapeOK
    <3>2. s = i
      BY <2>1, <3>1, SlotFacts DEF Distinct
    <3>3. ValueAt(ob, keys[i]) = SlotValue(ob, s)
      BY <1>1, <2>1, <2>3, NameFacts
    <3> HIDE DEF s
    <3> QED BY <1>1, <2>1, <2>3, <3>2, <3>3, SlotText
  <2> QED BY <2>1, <2>2, <2>3
<1>5. View(ob).names = keys /\ \A f \in InUse(keys) : View(ob).value[f] = ValueAt(ob, f)
  BY ViewIs
<1> DEFINE s == Store[o]
           text == [i \in DOMAIN s.names |-> <<s.names[i], Promised!Text(s.value[s.names[i]])>>]
<1> HIDE DEF At, keys, ob, Store
<1>6. s.names = keys /\ \A i \in DOMAIN keys : Promised!Text(s.value[keys[i]]) = Text(At(i))
  BY <1>3, <1>4, <1>5, ValuesAlike
<1>7. text = [i \in DOMAIN keys |-> <<keys[i], Text(At(i))>>]
  BY <1>6
<1> QED BY <1>2, <1>3, <1>7 DEF Promised!WriteJson, Promised!Answer

-----------------------------------------------------------------------------
(* All together.                                                           *)

LEMMA NothingYet == Init => Promised!Init /\ FillingOK
<1> SUFFICES ASSUME Init PROVE Promised!Init /\ FillingOK
  OBVIOUS
<1>1. FillingOK
  BY DEF Init, FillingOK
<1>2. ASSUME NEW o \in Objects PROVE Seen(o) = Nothing
  <2>1. obj[o].live = FALSE /\ obj[o].frozen = FALSE
    BY DEF Init, Dead
  <2> QED BY <2>1 DEF Seen, Nothing
<1>3. Store = [o \in Objects |-> Promised!NoObject]
  BY <1>2 DEF Store, Nothing, Promised!NoObject
<1>4. out = <<"nothing">>
  BY DEF Init
<1> QED BY <1>1, <1>3, <1>4 DEF Promised!Init

LEMMA LiteralValues ==
    ASSUME family \in Families, NEW ks \in Literals,
           NEW vs \in [DOMAIN ks -> {w[2] : w \in Used[family]}]
    PROVE  vs \in [DOMAIN ks -> Values]
<1>1. Used[family] \subseteq Fids \X Values
  BY ShapesAssumption
<1>2. {w[2] : w \in Used[family]} \subseteq Values
  BY <1>1
<1> QED BY <1>2

LEMMA NextFills ==
    ASSUME RInv, [Next]_vars
    PROVE  FillingOK'
<1>1. IInv /\ FillingOK /\ family \in Families
  BY IInvParts DEF RInv
<1>2. ASSUME NEW o \in Objects,
             \/ NewObject(o) \/ Drop(o) \/ Freeze(o) \/ GetKeys(o) \/ WriteJson(o)
             \/ \E r \in Made[family] : NewResult(o, r[1], r[2])
      PROVE FillingOK'
  BY <1>2, NotFilling
     DEF NewObject, Drop, Freeze, GetKeys, WriteJson, NewResult, Running, Free, UnchangedCaches
<1>3. ASSUME NEW o \in Objects, NEW ks \in Literals,
             NEW vs \in [DOMAIN ks -> {w[2] : w \in Used[family]}],
             MakeObject(o, ks, vs) \/ ParseJson(o, ks, vs)
      PROVE FillingOK'
  <2>1. vs \in [DOMAIN ks -> Values]
    BY <1>1, LiteralValues
  <2> QED BY <1>1, <1>3, <2>1, MakeObjectFills, ParseJsonFills
<1>4. ASSUME NEW o \in Objects, NEW f, NEW v,
             GetField(o, f) \/ GetProperty(o, f) \/ SetField(o, f, v) \/ SetProperty(o, f, v) \/ JsWrite(o, f, v)
      PROVE FillingOK'
  BY <1>4, NotFilling
     DEF GetField, GetProperty, SetField, SetProperty, JsWrite, Running, UnchangedCaches, UnchangedButPropIc
<1>5. ASSUME NEW o \in Objects, NEW n,
             \/ \E argc \in 0..1 : CallMethod(o, n, argc) \/ JitCallMethod(o, n, argc)
             \/ JsReadInline(o, n) \/ JsReadStub(o, n) \/ JsReadSlow(o, n) \/ JsPostInc(o, n)
      PROVE FillingOK'
  BY <1>5, NotFilling
     DEF CallMethod, JitCallMethod, JsReadInline, JsReadStub, JsReadSlow, JsPostInc, Running,
         UnchangedCaches, UnchangedButJs
<1>6. ASSUME NEW f \in Traps, FindTrap(f) PROVE FillingOK'
  BY <1>6, NotFilling DEF FindTrap, Running
<1>7. ASSUME LiteralDone \/ JsonDone PROVE FillingOK'
  BY <1>7, NotFilling DEF LiteralDone, JsonDone
<1>8. ASSUME UNCHANGED vars PROVE FillingOK'
  BY <1>1, <1>8, FillingUnchanged DEF vars
<1> QED BY <1>1, <1>2, <1>3, <1>4, <1>5, <1>6, <1>7, <1>8, FillFieldFills DEF Next

LEMMA PromisedSteps ==
    /\ \A o \in Objects, ks \in Literals : \A vs \in [DOMAIN ks -> Values] :
           Promised!Create(o, ks, vs) => Promised!Next
    /\ \A o \in Objects, f \in Fids, v \in Values :
           Promised!Read(o, f) \/ Promised!Write(o, f, v) => Promised!Next
    /\ \A o \in Objects, n \in Names, v \in Values : Promised!JsWrite(o, n, v) => Promised!Next
<1>1. Promised!Values = Values
  BY DEF Promised!Values, Values, Promised!Fn, Fn, Promised!Integer, Integer, Promised!Value, Value
<1> QED BY <1>1 DEF Promised!Next

LEMMA NextRefines ==
    ASSUME RInv, RInv', [Next]_vars
    PROVE  [Promised!Next]_(Promised!vars)
<1>1. family \in Families
  BY IInvParts DEF RInv
<1>2. ASSUME NEW o \in Objects, NewObject(o) PROVE Promised!Next
  <2>1. <<>> \in Literals /\ <<>> \in [DOMAIN <<>> -> Values]
    BY ShapesAssumption
  <2> QED BY <1>2, <2>1, NewObjectRefines, PromisedSteps
<1>3. ASSUME NEW o \in Objects, Drop(o) \/ Freeze(o) \/ GetKeys(o) \/ WriteJson(o) PROVE Promised!Next
  BY <1>3, DropRefines, FreezeRefines, GetKeysRefines, WriteJsonRefines DEF Promised!Next
<1>4. ASSUME NEW o \in Objects, NEW r \in Made[family], NewResult(o, r[1], r[2]) PROVE Promised!Next
  <2>1. r[1] \in {"Ok", "Err"} /\ r[2] \in 0..MaxInt
    BY <1>1, MadeFacts
  <2> QED BY <1>4, <2>1, NewResultRefines DEF Promised!Next
<1>5. ASSUME NEW o \in Objects, NEW ks \in Literals,
             NEW vs \in [DOMAIN ks -> {w[2] : w \in Used[family]}],
             MakeObject(o, ks, vs) \/ ParseJson(o, ks, vs)
      PROVE  Promised!Next \/ UNCHANGED <<Store, out>>
  <2>1. ks \in Seq(Fids) /\ vs \in Seq(Stored) /\ Len(vs) = Len(ks) /\ vs \in [DOMAIN ks -> Values]
    BY <1>1, LiteralFacts, LiteralValues
  <2>2. Promised!Create(o, ks, vs) \/ UNCHANGED <<Store, out>>
    BY <1>5, <2>1, MakeObjectRefines, ParseJsonRefines
  <2> QED BY <2>1, <2>2, PromisedSteps
<1>6. ASSUME NEW o \in Objects, NEW w \in Used[family],
             \/ GetField(o, w[1])
             \/ GetProperty(o, w[1])
             \/ SetField(o, w[1], w[2])
             \/ SetProperty(o, w[1], w[2])
             \/ w[1] \in Names /\ JsWrite(o, w[1], w[2])
      PROVE  Promised!Next
  <2>1. w[1] \in Fids /\ w[2] \in Stored /\ w[2] \in Values
    <3>1. Used[family] \subseteq Fids \X Values
      BY <1>1, ShapesAssumption
    <3> QED BY <1>1, <3>1, UsedFacts
  <2>2. \/ Promised!Read(o, w[1])
        \/ Promised!Write(o, w[1], w[2])
        \/ w[1] \in Names /\ Promised!JsWrite(o, w[1], w[2])
    BY <1>6, <2>1, GetFieldRefines, GetPropertyRefines, SetFieldRefines, SetPropertyRefines, JsWriteRefines
  <2> QED BY <2>1, <2>2, PromisedSteps
<1>7. ASSUME NEW o \in Objects, NEW n \in Names,
             \/ \E argc \in 0..1 : CallMethod(o, n, argc) \/ JitCallMethod(o, n, argc)
             \/ JsReadInline(o, n)
             \/ JsReadStub(o, n)
             \/ JsReadSlow(o, n)
             \/ JsPostInc(o, n)
      PROVE  Promised!Next
  <2>1. n \in Fids
    BY ShapesAssumption
  <2>2. Promised!CallMethod(o, n) \/ Promised!JsRead(o, n) \/ Promised!JsPostInc(o, n)
    BY <1>7, <2>1, CallMethodRefines, JitCallMethodRefines, JsReadInlineRefines, JsReadStubRefines,
       JsReadSlowRefines, JsPostIncRefines
  <2> QED BY <2>1, <2>2 DEF Promised!Next
<1>8. ASSUME NEW f \in Traps, FindTrap(f) PROVE Promised!Next
  <2>1. Handler \in Objects /\ f \in Fids
    BY ShapesAssumption
  <2> QED BY <1>8, <2>1, FindTrapRefines DEF Promised!Next
<1>9. ASSUME LiteralDone \/ JsonDone PROVE Promised!Next
  BY <1>9, LiteralDoneRefines, PromisedSteps
<1>10. ASSUME FillField PROVE UNCHANGED <<Store, out>>
  BY <1>10, FillFieldRefines
<1>11. ASSUME UNCHANGED vars PROVE UNCHANGED <<Store, out>>
  BY <1>11, StoreSame DEF vars
<1> QED BY <1>2, <1>3, <1>4, <1>5, <1>6, <1>7, <1>8, <1>9, <1>10, <1>11 DEF Next, Promised!vars

(* Whatever the caches remember, the lazy fields put off and the           *)
(* representation of an object changes to, every operation is one of an    *)
(* ordered map from names to values, or is not seen.                       *)
THEOREM RefinesPropertyStore == Spec => ImplementsPropertyStore
<1>1. Init => RInv /\ Promised!Init
  BY InitHolds, NothingYet DEF RInv
<1>2. RInv /\ [Next]_vars => RInv'
  BY NextKeeps, NextFills DEF RInv
<1>3. RInv /\ RInv' /\ [Next]_vars => [Promised!Next]_(Promised!vars)
  BY NextRefines
<1> QED BY <1>1, <1>2, <1>3, PTL DEF Spec, ImplementsPropertyStore, Promised!Spec

=============================================================================
