---------------------------- MODULE UnwindProofs ----------------------------
(***************************************************************************)
(* Proofs about Unwind, for C++ stacks and call depths of any size.         *)
(*                                                                         *)
(* The argument: the C++ stack is a chain of frames each of which keeps    *)
(* what was current when it began -- the target of jumps for a catching    *)
(* call, the captures for compiled code, the number of temporary roots for *)
(* a builtin.  What is current is therefore always that of the innermost   *)
(* frame, whether the frames above it returned, gave up or were cut off by *)
(* a longjmp; and the call frames of the script never fall below what a    *)
(* C++ frame found when it began.  The lemmas first say what pushing and   *)
(* cutting do to one such fact about a stack, then what each action does   *)
(* to all of them.                                                         *)
(***************************************************************************)
EXTENDS Unwind, FiniteSetTheorems, SequenceTheorems, TLAPS

CFrame == [kind : Kind, height : Nat, saved : Nat, jit : BOOLEAN]

(* The C++ stack begins with run(), and holds it once. *)
RunAtBottom(n) ==
    /\ n \in Seq(CFrame) /\ Len(n) > 0
    /\ n[1].kind = "run" /\ n[1].jit = FALSE /\ n[1].height = 0
    /\ \A i \in 2..Len(n) : n[i].kind # "run"

(* Each C++ frame began with at least the call frames of those below it,   *)
(* and script code with one more.                                          *)
Rises(n, depth) ==
    \A i \in 1..Len(n) :
        /\ \A j \in (i + 1)..Len(n) :
               /\ n[i].height <= n[j].height
               /\ n[i].kind \in {"loop", "code"} => n[i].height < n[j].height
        /\ n[i].height <= depth
        /\ n[i].kind \in {"loop", "code"} => n[i].height < depth

(* k is the innermost of the frames 1..m whose kind is in K, 0 if none is. *)
Innermost(n, K, k, m) ==
    /\ k \in 0..m
    /\ k # 0 => n[k].kind \in K
    /\ \A i \in (k + 1)..m : n[i].kind \notin K

(* value is the innermost frame of K, and each frame of the kind owner has *)
(* saved the one below it.                                                 *)
Chain(n, K, owner, value) ==
    /\ Innermost(n, K, value, Len(n))
    /\ \A i \in 1..Len(n) : n[i].kind = owner => Innermost(n, K, n[i].saved, i - 1)

OfKind(n, kind) == {i \in 1..Len(n) : n[i].kind = kind}
OfJit(n) == {i \in 1..Len(n) : n[i].jit}

(* A builtin saved the number of temporary roots below its own. *)
RootsSaved(n, roots) ==
    \A i \in 1..Len(n) : n[i].kind = "builtin" =>
        /\ n[i].saved < Len(roots)
        /\ \A j \in (i + 1)..Len(n) : n[j].kind = "builtin" => n[i].saved < n[j].saved

(* As long as nothing was skipped the roots are the builtins, in order. *)
RootsInOrder(n, roots) ==
    /\ \A k \in 1..Len(roots) :
           roots[k] \in 1..Len(n) /\ n[roots[k]].kind = "builtin" /\ n[roots[k]].saved = k - 1
    /\ \A i \in 1..Len(n) : n[i].kind = "builtin" => roots[n[i].saved + 1] = i

(* What is kept of the stack n, whatever happens to it: with depth call    *)
(* frames, jmp the target of jumps, as many boundaries as catches, calls   *)
(* the depth counted by compiled code, and the temporary roots.            *)
Stack(n, K, depth, jmp, catches, calls, roots) ==
    /\ RunAtBottom(n) /\ Len(n) <= MaxNative
    /\ Rises(n, depth)
    /\ Chain(n, K, "catch", jmp)
    /\ Cardinality(OfKind(n, "catch")) = catches
    /\ calls \in Nat /\ calls >= Cardinality(OfJit(n))
    /\ RootsSaved(n, roots)
    /\ \A i \in 1..Len(n) :
           /\ n[i].kind = "code" => n[i].saved <= MaxNative
           /\ n[i].jit => n[i].kind \in {"loop", "code"}

(* What is kept as long as no longjmp has skipped a frame that saves state. *)
Intact(n, raw, roots) ==
    /\ Chain(n, {"code"}, "code", raw)
    /\ RootsInOrder(n, roots)

-----------------------------------------------------------------------------
(* A frame is pushed, or all frames above the k-th are cut off. *)

Cut(n, k) == SubSeq(n, 1, k)

LEMMA CutFacts ==
    ASSUME NEW S, NEW n \in Seq(S), NEW k \in 0..Len(n)
    PROVE  /\ Cut(n, k) \in Seq(S) /\ Len(Cut(n, k)) = k
           /\ \A i \in 1..k : Cut(n, k)[i] = n[i]
BY SubSeqProperties DEF Cut

LEMMA PushFacts ==
    ASSUME NEW S, NEW n \in Seq(S), NEW f \in S
    PROVE  /\ Append(n, f) \in Seq(S) /\ Len(Append(n, f)) = Len(n) + 1 /\ Len(n) \in Nat
           /\ \A i \in 1..Len(n) : Append(n, f)[i] = n[i]
           /\ Append(n, f)[Len(n) + 1] = f
BY AppendProperties, LenProperties

LEMMA FrameType ==
    ASSUME NEW n \in Seq(CFrame)
    PROVE  \A i \in 1..Len(n) : n[i].kind \in Kind /\ n[i].height \in Nat
                               /\ n[i].saved \in Nat /\ n[i].jit \in BOOLEAN
<1>1. \A i \in 1..Len(n) : n[i] \in CFrame
  BY ElementOfSeq
<1> QED BY <1>1 DEF CFrame

LEMMA FrontIsCut ==
    ASSUME NEW S, NEW n \in Seq(S), Len(n) > 0
    PROVE  /\ Front(n) = Cut(n, Len(n) - 1) /\ Last(n) = n[Len(n)]
           /\ Len(n) \in Nat /\ Len(n) - 1 \in 0..Len(n)
BY LenProperties DEF Front, Last, Cut

LEMMA PushRises ==
    ASSUME NEW n \in Seq(CFrame), NEW depth \in Nat, NEW f \in CFrame, NEW more \in Nat,
           Rises(n, depth), f.height = depth, more >= depth,
           f.kind \in {"loop", "code"} => more > depth
    PROVE  Rises(Append(n, f), more)
<1> DEFINE m == Append(n, f)
<1>1. /\ Len(m) = Len(n) + 1 /\ Len(n) \in Nat
      /\ \A i \in 1..Len(n) : m[i] = n[i] /\ n[i].height \in Nat
      /\ m[Len(n) + 1] = f
  BY PushFacts, FrameType
<1> HIDE DEF m
<1>2. ASSUME NEW i \in 1..Len(n)
      PROVE  /\ \A j \in (i + 1)..Len(m) :
                    /\ m[i].height <= m[j].height
                    /\ m[i].kind \in {"loop", "code"} => m[i].height < m[j].height
             /\ m[i].height <= more
             /\ m[i].kind \in {"loop", "code"} => m[i].height < more
  <2>1. /\ m[i] = n[i] /\ n[i].height <= depth
        /\ n[i].kind \in {"loop", "code"} => n[i].height < depth
    BY <1>1 DEF Rises
  <2>2. ASSUME NEW j \in (i + 1)..Len(m)
        PROVE  /\ m[i].height <= m[j].height
               /\ m[i].kind \in {"loop", "code"} => m[i].height < m[j].height
    <3>1. CASE j = Len(n) + 1
      BY <1>1, <2>1, <3>1
    <3>2. CASE j \in (i + 1)..Len(n)
      BY <1>1, <2>1, <3>2 DEF Rises
    <3> QED BY <1>1, <3>1, <3>2
  <2>3. n[i].height \in Nat
    BY <1>1
  <2> QED BY <2>1, <2>2, <2>3
<1>3. /\ m[Len(n) + 1].height <= more
      /\ m[Len(n) + 1].kind \in {"loop", "code"} => m[Len(n) + 1].height < more
      /\ (Len(n) + 2)..Len(m) = {}
  BY <1>1
<1>4. Rises(m, more)
  BY <1>1, <1>2, <1>3 DEF Rises
<1> QED BY <1>4 DEF m

LEMMA CutRises ==
    ASSUME NEW n \in Seq(CFrame), NEW depth \in Nat, NEW k \in 1..Len(n), NEW less \in Nat,
           Rises(n, depth), n[k].height <= less, n[k].kind \in {"loop", "code"} => n[k].height < less
    PROVE  Rises(Cut(n, k), less)
<1> DEFINE m == Cut(n, k)
<1>0. Len(m) = k /\ k <= Len(n) /\ Len(n) \in Nat /\ \A i \in 1..k : m[i] = n[i]
  <2>1. k \in 0..Len(n) /\ Len(n) \in Nat /\ k <= Len(n)
    BY LenProperties
  <2> QED BY <2>1, CutFacts
<1> HIDE DEF m
<1>1. Len(m) = k /\ k <= Len(n) /\ Len(n) \in Nat
      /\ \A i \in 1..k : m[i] = n[i] /\ n[i].height \in Nat
  BY <1>0, FrameType
<1>2. ASSUME NEW i \in 1..k
      PROVE  m[i].height <= less /\ (m[i].kind \in {"loop", "code"} => m[i].height < less)
  <2>1. CASE i = k
    BY <1>1, <2>1
  <2>2. CASE i # k
    <3>1. k \in (i + 1)..Len(n) /\ i \in 1..Len(n)
      BY <1>1, <2>2
    <3>2. n[i].height <= n[k].height /\ (n[i].kind \in {"loop", "code"} => n[i].height < n[k].height)
      BY <3>1 DEF Rises
    <3>3. m[i] = n[i] /\ n[i].height \in Nat /\ n[k].height \in Nat
      BY <1>1
    <3> QED BY <3>2, <3>3
  <2> QED BY <2>1, <2>2
<1>3. ASSUME NEW i \in 1..k, NEW j \in (i + 1)..k
      PROVE  /\ m[i].height <= m[j].height
             /\ m[i].kind \in {"loop", "code"} => m[i].height < m[j].height
  <2>1. i \in 1..Len(n) /\ j \in (i + 1)..Len(n) /\ m[i] = n[i] /\ m[j] = n[j]
    BY <1>1
  <2> QED BY <2>1 DEF Rises
<1>4. Rises(m, less)
  BY <1>1, <1>2, <1>3 DEF Rises
<1> QED BY <1>4 DEF m

(* The chains. *)
LEMMA InnermostSame ==
    ASSUME NEW n, NEW o, NEW K, NEW k, NEW m \in Nat, \A i \in 1..m : n[i] = o[i],
           Innermost(n, K, k, m)
    PROVE  Innermost(o, K, k, m)
<1>1. k # 0 => k \in 1..m
  BY DEF Innermost
<1>2. \A i \in (k + 1)..m : i \in 1..m
  BY DEF Innermost
<1> QED BY <1>1, <1>2 DEF Innermost

LEMMA PushChain ==
    ASSUME NEW n \in Seq(CFrame), NEW f \in CFrame, NEW K, NEW owner \in K, NEW value, NEW new,
           Chain(n, K, owner, value),
           f.kind = owner => f.saved = value,
           new = IF f.kind \in K THEN Len(n) + 1 ELSE value
    PROVE  Chain(Append(n, f), K, owner, new)
<1> DEFINE m == Append(n, f)
<1>1. /\ Len(m) = Len(n) + 1 /\ Len(n) \in Nat
      /\ \A i \in 1..Len(n) : m[i] = n[i]
      /\ m[Len(n) + 1] = f
  BY PushFacts
<1> HIDE DEF m
<1>2. value \in 0..Len(n) /\ (value # 0 => n[value].kind \in K)
      /\ \A i \in (value + 1)..Len(n) : n[i].kind \notin K
  BY DEF Chain, Innermost
<1>3. Innermost(m, K, new, Len(m))
  <2>1. CASE f.kind \in K
    BY <1>1, <2>1 DEF Innermost
  <2>2. CASE f.kind \notin K
    <3>1. \A i \in (value + 1)..(Len(n) + 1) : m[i].kind \notin K
      BY <1>1, <1>2, <2>2
    <3> QED BY <1>1, <1>2, <2>2, <3>1 DEF Innermost
  <2> QED BY <2>1, <2>2
<1>4. ASSUME NEW i \in 1..Len(m), m[i].kind = owner PROVE Innermost(m, K, m[i].saved, i - 1)
  <2>1. CASE i = Len(n) + 1
    <3>1. Innermost(n, K, value, Len(n))
      BY DEF Chain
    <3>2. Innermost(m, K, value, Len(n))
      BY <1>1, <3>1, InnermostSame
    <3> QED BY <1>1, <1>4, <2>1, <3>2
  <2>2. CASE i # Len(n) + 1
    <3>1. i \in 1..Len(n) /\ m[i] = n[i] /\ i - 1 \in Nat
      BY <1>1, <2>2
    <3>2. Innermost(n, K, n[i].saved, i - 1)
      BY <1>4, <3>1 DEF Chain
    <3>3. \A j \in 1..(i - 1) : n[j] = m[j]
      BY <1>1, <3>1
    <3>4. Innermost(m, K, n[i].saved, i - 1)
      BY <3>1, <3>2, <3>3, InnermostSame
    <3> QED BY <3>1, <3>4
  <2> QED BY <2>1, <2>2
<1>5. Chain(m, K, owner, new)
  BY <1>3, <1>4 DEF Chain
<1> QED BY <1>5 DEF m

LEMMA CutChain ==
    ASSUME NEW n \in Seq(CFrame), NEW K, NEW owner, NEW value, NEW k \in 0..Len(n), NEW new,
           Chain(n, K, owner, value), Innermost(n, K, new, k)
    PROVE  Chain(Cut(n, k), K, owner, new)
<1> DEFINE m == Cut(n, k)
<1>1. Len(m) = k /\ k <= Len(n) /\ k \in Nat /\ Len(n) \in Nat /\ \A i \in 1..k : m[i] = n[i]
  BY CutFacts
<1> HIDE DEF m
<1>2. Innermost(m, K, new, Len(m))
  BY <1>1, InnermostSame
<1>3. ASSUME NEW i \in 1..Len(m), m[i].kind = owner PROVE Innermost(m, K, m[i].saved, i - 1)
  <2>1. i \in 1..Len(n) /\ m[i] = n[i] /\ i - 1 \in Nat /\ \A j \in 1..(i - 1) : n[j] = m[j]
    BY <1>1
  <2>2. Innermost(n, K, n[i].saved, i - 1)
    BY <1>3, <2>1 DEF Chain
  <2>3. Innermost(m, K, n[i].saved, i - 1)
    BY <2>1, <2>2, InnermostSame
  <2> QED BY <2>1, <2>3
<1>4. Chain(m, K, owner, new)
  BY <1>2, <1>3 DEF Chain
<1> QED BY <1>4 DEF m

(* A frame of another kind may go without the chain noticing. *)
LEMMA InnermostBelow ==
    ASSUME NEW n \in Seq(CFrame), NEW K, NEW value, NEW k \in 0..Len(n),
           Innermost(n, K, value, Len(n)), value <= k
    PROVE  Innermost(n, K, value, k)
<1>1. Len(n) \in Nat
  BY LenProperties
<1> QED BY <1>1 DEF Innermost

-----------------------------------------------------------------------------
(* The frames that are counted. *)

LEMMA CountedFrames ==
    ASSUME NEW n \in Seq(CFrame), NEW kind
    PROVE  /\ IsFiniteSet(OfKind(n, kind)) /\ Cardinality(OfKind(n, kind)) \in Nat
           /\ IsFiniteSet(OfJit(n)) /\ Cardinality(OfJit(n)) \in Nat
<1>1. IsFiniteSet(1..Len(n))
  BY FS_Interval, LenProperties
<1>2. OfKind(n, kind) \subseteq 1..Len(n) /\ OfJit(n) \subseteq 1..Len(n)
  BY DEF OfKind, OfJit
<1> QED BY <1>1, <1>2, FS_Subset, FS_CardinalityType

LEMMA PushCounts ==
    ASSUME NEW n \in Seq(CFrame), NEW f \in CFrame, NEW kind
    PROVE  /\ Cardinality(OfKind(Append(n, f), kind)) =
                  IF f.kind = kind THEN Cardinality(OfKind(n, kind)) + 1 ELSE Cardinality(OfKind(n, kind))
           /\ Cardinality(OfJit(Append(n, f))) =
                  IF f.jit THEN Cardinality(OfJit(n)) + 1 ELSE Cardinality(OfJit(n))
<1> DEFINE m == Append(n, f)
<1>1. /\ Len(m) = Len(n) + 1 /\ Len(n) \in Nat
      /\ \A i \in 1..Len(n) : m[i] = n[i]
      /\ m[Len(n) + 1] = f
  BY PushFacts
<1> HIDE DEF m
<1>2. 1..Len(m) = (1..Len(n)) \cup {Len(n) + 1} /\ Len(n) + 1 \notin 1..Len(n)
  BY <1>1
<1>3. OfKind(m, kind) = IF f.kind = kind THEN OfKind(n, kind) \cup {Len(n) + 1} ELSE OfKind(n, kind)
  BY <1>1, <1>2 DEF OfKind
<1>4. OfJit(m) = IF f.jit THEN OfJit(n) \cup {Len(n) + 1} ELSE OfJit(n)
  BY <1>1, <1>2 DEF OfJit
<1>5. Len(n) + 1 \notin OfKind(n, kind) /\ Len(n) + 1 \notin OfJit(n)
  BY <1>2 DEF OfKind, OfJit
<1>6. Cardinality(OfKind(m, kind)) =
          IF f.kind = kind THEN Cardinality(OfKind(n, kind)) + 1 ELSE Cardinality(OfKind(n, kind))
  BY <1>3, <1>5, CountedFrames, FS_AddElement
<1>7. Cardinality(OfJit(m)) = IF f.jit THEN Cardinality(OfJit(n)) + 1 ELSE Cardinality(OfJit(n))
  BY <1>4, <1>5, CountedFrames, FS_AddElement
<1> QED BY <1>6, <1>7 DEF m

(* Cutting frames off never adds to a count; it takes from it what it cuts. *)
LEMMA CutCounts ==
    ASSUME NEW n \in Seq(CFrame), NEW kind, NEW k \in 0..Len(n)
    PROVE  /\ Cardinality(OfJit(Cut(n, k))) <= Cardinality(OfJit(n))
           /\ (\A i \in (k + 1)..Len(n) : n[i].kind # kind) =>
                  Cardinality(OfKind(Cut(n, k), kind)) = Cardinality(OfKind(n, kind))
           /\ k = Len(n) - 1 /\ n[Len(n)].kind = kind =>
                  Cardinality(OfKind(Cut(n, k), kind)) = Cardinality(OfKind(n, kind)) - 1
           /\ k = Len(n) - 1 /\ n[Len(n)].jit =>
                  Cardinality(OfJit(Cut(n, k))) = Cardinality(OfJit(n)) - 1
<1> DEFINE m == Cut(n, k)
<1>1. Len(m) = k /\ k <= Len(n) /\ Len(n) \in Nat /\ k \in Nat /\ \A i \in 1..k : m[i] = n[i]
  BY CutFacts, LenProperties
<1> HIDE DEF m
<1>2. OfJit(m) = OfJit(n) \cap (1..k) /\ OfKind(m, kind) = OfKind(n, kind) \cap (1..k)
  BY <1>1 DEF OfJit, OfKind
<1>3. Cardinality(OfJit(m)) <= Cardinality(OfJit(n))
  BY <1>2, CountedFrames, FS_Subset
<1>4. ASSUME \A i \in (k + 1)..Len(n) : n[i].kind # kind
      PROVE  OfKind(m, kind) = OfKind(n, kind)
  BY <1>1, <1>2, <1>4 DEF OfKind
<1>5. ASSUME k = Len(n) - 1 PROVE 1..Len(n) = (1..k) \cup {Len(n)} /\ Len(n) \notin 1..k
  BY <1>1, <1>5
<1>6. ASSUME k = Len(n) - 1, n[Len(n)].kind = kind
      PROVE  Cardinality(OfKind(m, kind)) = Cardinality(OfKind(n, kind)) - 1
  <2>1. OfKind(m, kind) = OfKind(n, kind) \ {Len(n)} /\ Len(n) \in OfKind(n, kind)
    BY <1>1, <1>2, <1>5, <1>6 DEF OfKind
  <2> QED BY <2>1, CountedFrames, FS_RemoveElement
<1>7. ASSUME k = Len(n) - 1, n[Len(n)].jit
      PROVE  Cardinality(OfJit(m)) = Cardinality(OfJit(n)) - 1
  <2>1. OfJit(m) = OfJit(n) \ {Len(n)} /\ Len(n) \in OfJit(n)
    BY <1>1, <1>2, <1>5, <1>7 DEF OfJit
  <2> QED BY <2>1, CountedFrames, FS_RemoveElement
<1> QED BY <1>3, <1>4, <1>6, <1>7 DEF m

(* The temporary roots. *)
LEMMA PushRoots ==
    ASSUME NEW n \in Seq(CFrame), NEW f \in CFrame, NEW roots, NEW more,
           Len(roots) \in Nat, Len(more) \in Nat, RootsSaved(n, roots), Len(more) >= Len(roots),
           f.kind = "builtin" => f.saved = Len(roots) /\ Len(more) = Len(roots) + 1
    PROVE  RootsSaved(Append(n, f), more)
<1> DEFINE m == Append(n, f)
<1>1. /\ Len(m) = Len(n) + 1 /\ Len(n) \in Nat
      /\ \A i \in 1..Len(n) : m[i] = n[i] /\ n[i].saved \in Nat
      /\ m[Len(n) + 1] = f
  BY PushFacts, FrameType
<1> HIDE DEF m
<1>2. ASSUME NEW i \in 1..Len(n), n[i].kind = "builtin"
      PROVE  /\ m[i].saved < Len(more)
             /\ \A j \in (i + 1)..Len(m) : m[j].kind = "builtin" => m[i].saved < m[j].saved
  <2>1. n[i].saved < Len(roots) /\ m[i] = n[i] /\ n[i].saved \in Nat
    BY <1>1, <1>2 DEF RootsSaved
  <2>2. ASSUME NEW j \in (i + 1)..Len(m), m[j].kind = "builtin" PROVE m[i].saved < m[j].saved
    <3>1. CASE j = Len(n) + 1
      BY <1>1, <2>1, <2>2, <3>1
    <3>2. CASE j \in (i + 1)..Len(n)
      <4>1. m[j] = n[j]
        BY <1>1, <3>2
      <4> QED BY <1>2, <2>1, <2>2, <3>2, <4>1 DEF RootsSaved
    <3> QED BY <1>1, <3>1, <3>2
  <2> QED BY <2>1, <2>2
<1>3. f.kind = "builtin" => f.saved < Len(more)
  OBVIOUS
<1>4. (Len(n) + 2)..Len(m) = {} /\ 1..Len(m) = (1..Len(n)) \cup {Len(n) + 1}
  BY <1>1
<1>5. RootsSaved(m, more)
  BY <1>1, <1>2, <1>3, <1>4 DEF RootsSaved
<1> QED BY <1>5 DEF m

LEMMA CutRoots ==
    ASSUME NEW n \in Seq(CFrame), NEW k \in 0..Len(n), NEW roots, NEW less,
           RootsSaved(n, roots), Len(roots) \in Nat, Len(less) \in Nat,
           \/ Len(less) >= Len(roots)
           \/ k < Len(n) /\ n[k + 1].kind = "builtin" /\ Len(less) = n[k + 1].saved
    PROVE  RootsSaved(Cut(n, k), less)
<1> DEFINE m == Cut(n, k)
<1>0. Len(m) = k /\ k <= Len(n) /\ Len(n) \in Nat /\ k \in Nat
      /\ \A i \in 1..k : m[i] = n[i]
  BY CutFacts, LenProperties
<1> HIDE DEF m
<1>1. Len(m) = k /\ k <= Len(n) /\ Len(n) \in Nat /\ k \in Nat
      /\ \A i \in 1..k : m[i] = n[i] /\ n[i].saved \in Nat
  BY <1>0, FrameType
<1>2. ASSUME NEW i \in 1..k, n[i].kind = "builtin"
      PROVE  n[i].saved < Len(less)
  <2>1. i \in 1..Len(n) /\ n[i].saved < Len(roots) /\ n[i].saved \in Nat
    BY <1>1, <1>2 DEF RootsSaved
  <2>2. CASE k < Len(n) /\ n[k + 1].kind = "builtin" /\ Len(less) = n[k + 1].saved
    <3>1. k + 1 \in (i + 1)..Len(n)
      BY <1>1, <2>2
    <3> QED BY <1>2, <2>1, <2>2, <3>1 DEF RootsSaved
  <2> QED BY <2>1, <2>2
<1>3. ASSUME NEW i \in 1..k, n[i].kind = "builtin", NEW j \in (i + 1)..k, n[j].kind = "builtin"
      PROVE  n[i].saved < n[j].saved
  <2>1. i \in 1..Len(n) /\ j \in (i + 1)..Len(n)
    BY <1>1
  <2> QED BY <1>3, <2>1 DEF RootsSaved
<1>4. \A i \in 1..k : \A j \in (i + 1)..k : m[i] = n[i] /\ m[j] = n[j]
  BY <1>1
<1>5. RootsSaved(m, less)
  BY <1>1, <1>2, <1>3, <1>4 DEF RootsSaved
<1> QED BY <1>5 DEF m

LEMMA PushOrder ==
    ASSUME NEW n \in Seq(CFrame), NEW f \in CFrame, NEW roots \in Seq(Nat), NEW more \in Seq(Nat),
           RootsInOrder(n, roots), RootsSaved(n, roots),
           f.kind = "builtin" => f.saved = Len(roots),
           more = IF f.kind = "builtin" THEN Append(roots, Len(n) + 1) ELSE roots
    PROVE  RootsInOrder(Append(n, f), more)
<1> DEFINE m == Append(n, f)
<1>1. /\ Len(m) = Len(n) + 1 /\ Len(n) \in Nat
      /\ \A i \in 1..Len(n) : m[i] = n[i]
      /\ m[Len(n) + 1] = f
  BY PushFacts
<1>0. \A i \in 1..Len(n) : n[i].saved \in Nat
  BY FrameType
<1> HIDE DEF m
<1>2. /\ Len(roots) \in Nat
      /\ \A k \in 1..Len(roots) : more[k] = roots[k]
      /\ f.kind = "builtin" => Len(more) = Len(roots) + 1 /\ more[Len(roots) + 1] = Len(n) + 1
      /\ f.kind # "builtin" => Len(more) = Len(roots)
  <2>1. Len(roots) \in Nat
    BY LenProperties
  <2>2. CASE f.kind = "builtin"
    <3>1. more = Append(roots, Len(n) + 1) /\ Len(n) + 1 \in Nat
      BY <1>1, <2>2
    <3> QED BY <2>1, <2>2, <3>1, AppendProperties
  <2>3. CASE f.kind # "builtin"
    BY <2>1, <2>3
  <2> QED BY <2>2, <2>3
<1>3. ASSUME NEW k \in 1..Len(more)
      PROVE  more[k] \in 1..Len(m) /\ m[more[k]].kind = "builtin" /\ m[more[k]].saved = k - 1
  <2>1. CASE k \in 1..Len(roots)
    <3>1. roots[k] \in 1..Len(n) /\ n[roots[k]].kind = "builtin" /\ n[roots[k]].saved = k - 1
      BY <2>1 DEF RootsInOrder
    <3> QED BY <1>1, <1>2, <2>1, <3>1
  <2>2. CASE k \notin 1..Len(roots)
    <3>1. f.kind = "builtin" /\ k = Len(roots) + 1
      BY <1>2, <2>2
    <3> QED BY <1>1, <1>2, <3>1
  <2> QED BY <2>1, <2>2
<1>4. ASSUME NEW i \in 1..Len(m), m[i].kind = "builtin" PROVE more[m[i].saved + 1] = i
  <2>1. CASE i \in 1..Len(n)
    <3>1. m[i] = n[i] /\ n[i].kind = "builtin" /\ n[i].saved \in Nat
      BY <1>0, <1>1, <1>4, <2>1
    <3>2. n[i].saved < Len(roots) /\ roots[n[i].saved + 1] = i
      BY <2>1, <3>1 DEF RootsSaved, RootsInOrder
    <3>3. n[i].saved + 1 \in 1..Len(roots)
      BY <1>2, <3>1, <3>2
    <3> QED BY <1>2, <3>1, <3>2, <3>3
  <2>2. CASE i \notin 1..Len(n)
    <3>1. i = Len(n) + 1 /\ f.kind = "builtin" /\ m[i] = f
      BY <1>1, <1>4, <2>2
    <3> QED BY <1>2, <3>1
  <2> QED BY <2>1, <2>2
<1>5. RootsInOrder(m, more)
  BY <1>3, <1>4 DEF RootsInOrder
<1> QED BY <1>5 DEF m

(* The roots that a builtin pushed are the last ones when it returns. *)
LEMMA PopOrder ==
    ASSUME NEW n \in Seq(CFrame), Len(n) > 0, NEW roots \in Seq(Nat), NEW less \in Seq(Nat),
           RootsInOrder(n, roots), RootsSaved(n, roots),
           less = IF n[Len(n)].kind = "builtin" THEN SubSeq(roots, 1, n[Len(n)].saved) ELSE roots
    PROVE  RootsInOrder(Cut(n, Len(n) - 1), less)
<1> DEFINE m == Cut(n, Len(n) - 1)
<1>1. /\ Len(m) = Len(n) - 1 /\ Len(n) \in Nat \ {0}
      /\ \A i \in 1..(Len(n) - 1) : m[i] = n[i]
  <2>1. Len(n) \in Nat /\ Len(n) - 1 \in 0..Len(n)
    BY LenProperties
  <2>2. Len(m) = Len(n) - 1 /\ \A i \in 1..(Len(n) - 1) : m[i] = n[i]
    <3> DEFINE k == Len(n) - 1
    <3>1. k \in 0..Len(n)
      BY <2>1
    <3> HIDE DEF k
    <3>2. Len(Cut(n, k)) = k /\ \A i \in 1..k : Cut(n, k)[i] = n[i]
      BY <3>1, CutFacts
    <3> QED BY <3>2 DEF k
  <2> QED BY <2>1, <2>2
<1>0. \A i \in 1..Len(n) : n[i].saved \in Nat
  BY FrameType
<1> HIDE DEF m
<1>2. Len(roots) \in Nat
  BY LenProperties
<1>3. CASE n[Len(n)].kind = "builtin"
  <2>1. n[Len(n)].saved + 1 = Len(roots)
    <3>0. Len(n) \in 1..Len(n)
      BY <1>1
    <3>1. n[Len(n)].saved < Len(roots) /\ n[Len(n)].saved \in Nat
      BY <1>0, <1>3, <3>0 DEF RootsSaved
    <3> DEFINE b == roots[Len(roots)]
    <3>2. b \in 1..Len(n) /\ n[b].kind = "builtin" /\ n[b].saved = Len(roots) - 1
      <4>1. Len(roots) \in 1..Len(roots)
        BY <1>2, <3>1
      <4> QED BY <4>1 DEF RootsInOrder
    <3> HIDE DEF b
    <3>3. CASE b = Len(n)
      BY <1>2, <3>1, <3>2, <3>3
    <3>4. CASE b # Len(n)
      <4>1. Len(n) \in (b + 1)..Len(n)
        BY <1>1, <3>2, <3>4
      <4>2. n[b].saved < n[Len(n)].saved
        BY <1>3, <3>2, <4>1 DEF RootsSaved
      <4> QED BY <1>2, <3>1, <3>2, <4>2
    <3> QED BY <3>3, <3>4
  <2>2. n[Len(n)].saved \in 0..Len(roots) /\ less = SubSeq(roots, 1, n[Len(n)].saved)
    BY <1>0, <1>1, <1>2, <1>3, <2>1
  <2>3. Len(less) = Len(roots) - 1 /\ \A k \in 1..(Len(roots) - 1) : less[k] = roots[k]
    <3> DEFINE k == n[Len(n)].saved
    <3>1. k \in 0..Len(roots) /\ less = Cut(roots, k)
      BY <2>2 DEF Cut
    <3>2. k = Len(roots) - 1
      BY <1>2, <2>1, <2>2
    <3> HIDE DEF k
    <3>3. Len(less) = k /\ \A j \in 1..k : less[j] = roots[j]
      BY <3>1, CutFacts
    <3> QED BY <3>2, <3>3
  <2>4. ASSUME NEW k \in 1..Len(less)
        PROVE  less[k] \in 1..Len(m) /\ m[less[k]].kind = "builtin" /\ m[less[k]].saved = k - 1
    <3>1. k \in 1..Len(roots) /\ less[k] = roots[k] /\ k < Len(roots)
      BY <1>2, <2>3
    <3>2. roots[k] \in 1..Len(n) /\ n[roots[k]].kind = "builtin" /\ n[roots[k]].saved = k - 1
      BY <3>1 DEF RootsInOrder
    <3>3. ASSUME roots[k] = Len(n) PROVE FALSE
      <4>1. n[Len(n)].saved = k - 1
        BY <3>2, <3>3
      <4> QED BY <1>2, <2>1, <3>1, <4>1
    <3>4. roots[k] \in 1..(Len(n) - 1)
      BY <1>1, <3>2, <3>3
    <3> QED BY <1>1, <3>1, <3>2, <3>4
  <2>5. ASSUME NEW i \in 1..Len(m), m[i].kind = "builtin" PROVE less[m[i].saved + 1] = i
    <3>1. i \in 1..Len(n) /\ m[i] = n[i] /\ n[i].saved \in Nat /\ Len(n) \in (i + 1)..Len(n)
      BY <1>0, <1>1
    <3>2. n[i].saved < n[Len(n)].saved /\ roots[n[i].saved + 1] = i
      BY <1>3, <2>5, <3>1 DEF RootsSaved, RootsInOrder
    <3>3. n[i].saved + 1 \in 1..(Len(roots) - 1)
      <4>1. n[Len(n)].saved \in Nat /\ n[Len(n)].saved = Len(roots) - 1
        BY <1>0, <1>1, <1>2, <2>1
      <4> DEFINE b == n[Len(n)].saved
                 a == n[i].saved
      <4>2. b \in Nat /\ b = Len(roots) - 1 /\ a \in Nat /\ a < b
        BY <3>1, <3>2, <4>1
      <4> HIDE DEF a, b
      <4>3. a + 1 \in 1..(Len(roots) - 1)
        BY <1>2, <4>2
      <4> QED BY <4>3 DEF a
    <3> QED BY <2>3, <3>1, <3>2, <3>3
  <2>6. RootsInOrder(m, less)
    BY <2>4, <2>5 DEF RootsInOrder
  <2> QED BY <2>6 DEF m
<1>4. CASE n[Len(n)].kind # "builtin"
  <2>1. less = roots
    BY <1>4
  <2>2. ASSUME NEW k \in 1..Len(roots)
        PROVE  roots[k] \in 1..Len(m) /\ m[roots[k]].kind = "builtin" /\ m[roots[k]].saved = k - 1
    <3>1. roots[k] \in 1..Len(n) /\ n[roots[k]].kind = "builtin" /\ n[roots[k]].saved = k - 1
      BY DEF RootsInOrder
    <3>2. roots[k] \in 1..(Len(n) - 1)
      BY <1>1, <1>4, <3>1
    <3> QED BY <1>1, <3>1, <3>2
  <2>3. ASSUME NEW i \in 1..Len(m), m[i].kind = "builtin" PROVE roots[m[i].saved + 1] = i
    <3>1. i \in 1..Len(n) /\ m[i] = n[i] /\ n[i].kind = "builtin"
      BY <1>1, <2>3
    <3> QED BY <3>1 DEF RootsInOrder
  <2>4. RootsInOrder(m, less)
    BY <2>1, <2>2, <2>3 DEF RootsInOrder
  <2> QED BY <2>4 DEF m
<1> QED BY <1>3, <1>4

-----------------------------------------------------------------------------
(* What pushing and popping a frame does to the stack as a whole.  A frame *)
(* that is pushed keeps what was current, one that is popped puts it back. *)

Keeps(f, raw, jmp, roots) ==
    /\ f.kind = "code" => f.saved = raw
    /\ f.kind = "catch" => f.saved = jmp
    /\ f.kind = "builtin" => f.saved = Len(roots)
    /\ f.jit => f.kind \in {"loop", "code"}

IsJit(f) == IF f.jit THEN 1 ELSE 0

LEMMA PushStack ==
    ASSUME NEW n, NEW K \in SUBSET {"run", "catch"}, "catch" \in K,
           NEW depth \in Nat, NEW jmp, NEW catches \in Nat, NEW calls, NEW roots,
           Len(roots) \in Nat, MaxNative \in Nat,
           Stack(n, K, depth, jmp, catches, calls, roots),
           NEW f \in CFrame, NEW raw \in 0..MaxNative, Keeps(f, raw, jmp, roots),
           Len(n) < MaxNative, f.kind # "run", f.height = depth,
           NEW depth2 \in Nat, depth2 >= depth, f.kind \in {"loop", "code"} => depth2 > depth,
           NEW jmp2, jmp2 = IF f.kind = "catch" THEN Len(n) + 1 ELSE jmp,
           NEW catches2, catches2 = IF f.kind = "catch" THEN catches + 1 ELSE catches,
           NEW calls2, calls2 = calls + IsJit(f),
           NEW roots2, Len(roots2) = IF f.kind = "builtin" THEN Len(roots) + 1 ELSE Len(roots)
    PROVE  Stack(Append(n, f), K, depth2, jmp2, catches2, calls2, roots2)
<1> DEFINE m == Append(n, f)
<1>1. n \in Seq(CFrame)
  BY DEF Stack, RunAtBottom
<1>2. /\ m \in Seq(CFrame) /\ Len(m) = Len(n) + 1 /\ Len(n) \in Nat
      /\ \A i \in 1..Len(n) : m[i] = n[i]
      /\ m[Len(n) + 1] = f
  BY <1>1, PushFacts
<1>3. Rises(m, depth2)
  BY <1>1, PushRises DEF Stack
<1>4. Chain(m, K, "catch", jmp2)
  <2>1. /\ Chain(n, K, "catch", jmp)
        /\ f.kind = "catch" => f.saved = jmp
        /\ jmp2 = IF f.kind \in K THEN Len(n) + 1 ELSE jmp
    BY DEF Stack, Keeps
  <2> QED BY <1>1, <2>1, PushChain
<1>5. Cardinality(OfKind(m, "catch")) = catches2
  BY <1>1, PushCounts DEF Stack
<1>6. calls2 \in Nat /\ calls2 >= Cardinality(OfJit(m))
  <2>1. calls \in Nat /\ calls >= Cardinality(OfJit(n)) /\ Cardinality(OfJit(n)) \in Nat
    BY <1>1, CountedFrames DEF Stack
  <2> QED BY <1>1, <2>1, PushCounts DEF IsJit
<1>7. RootsSaved(m, roots2)
  BY <1>1, PushRoots DEF Stack, Keeps
<1> HIDE DEF m
<1>8. RunAtBottom(m) /\ Len(m) <= MaxNative
  <2>1. Len(n) > 0 /\ n[1].kind = "run" /\ n[1].jit = FALSE /\ n[1].height = 0
        /\ \A i \in 2..Len(n) : n[i].kind # "run"
    BY DEF Stack, RunAtBottom
  <2>2. \A i \in 2..Len(m) : i = Len(n) + 1 \/ i \in 2..Len(n)
    BY <1>2
  <2>3. 1 \in 1..Len(n) /\ \A i \in 2..Len(n) : i \in 1..Len(n)
    BY <1>2, <2>1
  <2>4. m[1] = n[1] /\ \A i \in 2..Len(n) : m[i] = n[i]
    BY <1>2, <2>3
  <2>5. \A i \in 2..Len(m) : m[i].kind # "run"
    BY <1>2, <2>1, <2>2, <2>4
  <2>6. Len(m) > 0 /\ Len(m) <= MaxNative
    BY <1>2
  <2> QED BY <1>2, <2>1, <2>4, <2>5, <2>6 DEF RunAtBottom
<1>9. ASSUME NEW i \in 1..Len(m)
      PROVE  /\ m[i].kind = "code" => m[i].saved <= MaxNative
             /\ m[i].jit => m[i].kind \in {"loop", "code"}
  <2>1. CASE i \in 1..Len(n)
    <3>1. m[i] = n[i]
      BY <1>2, <2>1
    <3> QED BY <2>1, <3>1 DEF Stack
  <2>2. CASE i \notin 1..Len(n)
    <3>1. m[i] = f
      BY <1>2, <2>2
    <3> QED BY <3>1 DEF Keeps
  <2> QED BY <2>1, <2>2
<1>10. Stack(m, K, depth2, jmp2, catches2, calls2, roots2)
  BY <1>3, <1>4, <1>5, <1>6, <1>7, <1>8, <1>9 DEF Stack
<1> QED BY <1>10 DEF m

LEMMA PushIntact ==
    ASSUME NEW n \in Seq(CFrame), NEW f \in CFrame, NEW raw, NEW jmp, NEW roots \in Seq(Nat),
           Intact(n, raw, roots), RootsSaved(n, roots), Keeps(f, raw, jmp, roots),
           NEW raw2, raw2 = IF f.kind = "code" THEN Len(n) + 1 ELSE raw,
           NEW roots2 \in Seq(Nat),
           roots2 = IF f.kind = "builtin" THEN Append(roots, Len(n) + 1) ELSE roots
    PROVE  Intact(Append(n, f), raw2, roots2)
<1>1. Chain(Append(n, f), {"code"}, "code", raw2)
  <2>1. /\ f.kind = "code" => f.saved = raw
        /\ raw2 = IF f.kind \in {"code"} THEN Len(n) + 1 ELSE raw
        /\ Chain(n, {"code"}, "code", raw)
    BY DEF Keeps, Intact
  <2> QED BY <2>1, PushChain
<1>2. RootsInOrder(Append(n, f), roots2)
  BY PushOrder DEF Keeps, Intact
<1> QED BY <1>1, <1>2 DEF Intact

(* All frames above the k-th go. *)
LEMMA CutStack ==
    ASSUME NEW n, NEW K, NEW depth \in Nat, NEW jmp, NEW catches, NEW calls, NEW roots,
           Len(roots) \in Nat, MaxNative \in Nat,
           Stack(n, K, depth, jmp, catches, calls, roots),
           NEW k \in 1..Len(n),
           NEW depth2 \in Nat, depth2 >= n[k].height,
           n[k].kind \in {"loop", "code"} => depth2 > n[k].height,
           NEW jmp2, Innermost(n, K, jmp2, k),
           NEW catches2, Cardinality(OfKind(Cut(n, k), "catch")) = catches2,
           NEW calls2 \in Nat, calls2 >= Cardinality(OfJit(Cut(n, k))),
           NEW roots2, Len(roots2) \in Nat,
           \/ Len(roots2) >= Len(roots)
           \/ k < Len(n) /\ n[k + 1].kind = "builtin" /\ Len(roots2) = n[k + 1].saved
    PROVE  Stack(Cut(n, k), K, depth2, jmp2, catches2, calls2, roots2)
<1> DEFINE m == Cut(n, k)
<1>1. n \in Seq(CFrame) /\ Len(n) \in Nat
  BY LenProperties DEF Stack, RunAtBottom
<1>2. k \in 0..Len(n)
  BY <1>1
<1>3. m \in Seq(CFrame) /\ Len(m) = k /\ \A i \in 1..k : m[i] = n[i]
  BY <1>1, <1>2, CutFacts
<1>4. Rises(m, depth2)
  <2>1. n[k].height \in Nat
    BY <1>1, FrameType
  <2> QED BY <1>1, <2>1, CutRises DEF Stack
<1>5. Chain(m, K, "catch", jmp2)
  BY <1>1, <1>2, CutChain DEF Stack
<1>6. RootsSaved(m, roots2)
  BY <1>1, <1>2, CutRoots DEF Stack
<1> HIDE DEF m
<1>7. RunAtBottom(m) /\ Len(m) <= MaxNative
  <2>1. Len(n) > 0 /\ n[1].kind = "run" /\ n[1].jit = FALSE /\ n[1].height = 0
        /\ \A i \in 2..Len(n) : n[i].kind # "run"
    BY DEF Stack, RunAtBottom
  <2>2. 1 \in 1..k /\ \A i \in 2..k : i \in 1..k /\ i \in 2..Len(n)
    BY <1>1
  <2>3. k <= MaxNative
    BY <1>1 DEF Stack
  <2> QED BY <1>3, <2>1, <2>2, <2>3 DEF RunAtBottom
<1>8. ASSUME NEW i \in 1..Len(m)
      PROVE  /\ m[i].kind = "code" => m[i].saved <= MaxNative
             /\ m[i].jit => m[i].kind \in {"loop", "code"}
  <2>1. i \in 1..Len(n) /\ m[i] = n[i]
    BY <1>1, <1>3
  <2> QED BY <2>1 DEF Stack
<1>9. Stack(m, K, depth2, jmp2, catches2, calls2, roots2)
  BY <1>4, <1>5, <1>6, <1>7, <1>8 DEF Stack, m
<1> QED BY <1>9 DEF m

(* The top frame goes. *)
LEMMA PopStack ==
    ASSUME NEW n, NEW K \in SUBSET {"run", "catch"}, "catch" \in K,
           NEW depth \in Nat, NEW jmp, NEW catches, NEW calls, NEW roots,
           Len(roots) \in Nat, MaxNative \in Nat,
           Stack(n, K, depth, jmp, catches, calls, roots),
           n[Len(n)].kind # "run",
           NEW depth2 \in Nat, depth2 >= n[Len(n)].height,
           NEW jmp2, jmp2 = IF n[Len(n)].kind = "catch" THEN n[Len(n)].saved ELSE jmp,
           NEW catches2, catches2 = IF n[Len(n)].kind = "catch" THEN catches - 1 ELSE catches,
           NEW calls2, calls2 = calls - IsJit(n[Len(n)]),
           NEW roots2, Len(roots2) = IF n[Len(n)].kind = "builtin" THEN n[Len(n)].saved ELSE Len(roots)
    PROVE  Len(n) > 1 /\ Stack(Front(n), K, depth2, jmp2, catches2, calls2, roots2)
<1> DEFINE f == n[Len(n)]
<1>1. n \in Seq(CFrame) /\ Len(n) \in Nat /\ Len(n) > 0 /\ n[1].kind = "run"
  BY LenProperties DEF Stack, RunAtBottom
<1>2. Len(n) > 1
  BY <1>1
<1> DEFINE k == Len(n) - 1
<1>3. k \in 1..Len(n) /\ k \in 0..Len(n) /\ k + 1 = Len(n) /\ k < Len(n)
  BY <1>1, <1>2
<1>4. /\ f.kind \in Kind /\ f.height \in Nat /\ f.saved \in Nat /\ f.jit \in BOOLEAN
      /\ n[k].height \in Nat
  <2>1. k \in 1..Len(n) /\ Len(n) \in 1..Len(n)
    BY <1>1, <1>3
  <2> HIDE DEF k
  <2>2. f.kind \in Kind /\ f.height \in Nat /\ f.saved \in Nat /\ f.jit \in BOOLEAN
    BY <1>1, <2>1, FrameType
  <2>3. n[k].height \in Nat
    BY <1>1, <2>1, FrameType
  <2> QED BY <2>2, <2>3
<1>5. Front(n) = Cut(n, k)
  BY <1>1, FrontIsCut
<1>6. (k + 1)..Len(n) = {Len(n)}
  BY <1>1
<1>7. n[k].height <= f.height /\ (n[k].kind \in {"loop", "code"} => n[k].height < f.height)
  <2>1. Len(n) \in (k + 1)..Len(n)
    BY <1>6
  <2> QED BY <1>3, <2>1 DEF Stack, Rises
<1>8. Innermost(n, K, jmp2, k)
  <2>1. Innermost(n, K, jmp, Len(n))
    BY DEF Stack, Chain
  <2>2. CASE f.kind = "catch"
    BY <1>1, <2>2 DEF Stack, Chain
  <2>3. CASE f.kind # "catch"
    <3>1. f.kind \notin K
      BY <2>3
    <3>2. jmp \in 0..Len(n) /\ (jmp # 0 => n[jmp].kind \in K) /\ jmp # Len(n)
      BY <1>1, <2>1, <3>1 DEF Innermost
    <3>3. jmp <= k
      BY <1>1, <3>2
    <3> QED BY <1>1, <1>3, <2>1, <2>3, <3>3, InnermostBelow
  <2> QED BY <2>2, <2>3
<1>9. Cardinality(OfKind(Cut(n, k), "catch")) = catches2
  <2>1. CASE f.kind = "catch"
    BY <1>1, <1>3, <2>1, CutCounts DEF Stack
  <2>2. CASE f.kind # "catch"
    <3>1. \A i \in (k + 1)..Len(n) : n[i].kind # "catch"
      BY <1>6, <2>2
    <3> QED BY <1>1, <1>3, <2>2, <3>1, CutCounts DEF Stack
  <2> QED BY <2>1, <2>2
<1>10. calls2 \in Nat /\ calls2 >= Cardinality(OfJit(Cut(n, k)))
  <2>1. /\ calls \in Nat /\ calls >= Cardinality(OfJit(n))
        /\ Cardinality(OfJit(n)) \in Nat
    BY <1>1, CountedFrames DEF Stack
  <2>2. Cardinality(OfJit(Cut(n, k))) \in Nat
    BY <1>1, <1>3, CutFacts, CountedFrames
  <2>3. /\ Cardinality(OfJit(Cut(n, k))) <= Cardinality(OfJit(n))
        /\ f.jit => Cardinality(OfJit(Cut(n, k))) = Cardinality(OfJit(n)) - 1
    BY <1>1, <1>3, CutCounts
  <2> HIDE DEF k
  <2> QED BY <1>4, <2>1, <2>2, <2>3 DEF IsJit
<1>11. Len(roots2) \in Nat
  BY <1>4
<1>12. \/ Len(roots2) >= Len(roots)
       \/ n[k + 1].kind = "builtin" /\ Len(roots2) = n[k + 1].saved
  BY <1>3
<1>13. depth2 >= n[k].height /\ (n[k].kind \in {"loop", "code"} => depth2 > n[k].height)
  BY <1>4, <1>7
<1> HIDE DEF k
<1>14. Stack(Cut(n, k), K, depth2, jmp2, catches2, calls2, roots2)
  BY <1>3, <1>8, <1>9, <1>10, <1>11, <1>12, <1>13, CutStack
<1> QED BY <1>2, <1>5, <1>14

LEMMA PopIntact ==
    ASSUME NEW n \in Seq(CFrame), Len(n) > 0, NEW raw, NEW roots \in Seq(Nat),
           Intact(n, raw, roots), RootsSaved(n, roots), NEW f, f = n[Len(n)],
           NEW raw2, raw2 = IF f.kind = "code" THEN f.saved ELSE raw,
           NEW roots2 \in Seq(Nat),
           roots2 = IF f.kind = "builtin" THEN SubSeq(roots, 1, f.saved) ELSE roots
    PROVE  Intact(Front(n), raw2, roots2)
<1> DEFINE k == Len(n) - 1
<1>1. k \in 0..Len(n) /\ k + 1 = Len(n) /\ Len(n) \in Nat /\ (k + 1)..Len(n) = {Len(n)}
  BY LenProperties
<1>2. Front(n) = Cut(n, k)
  BY FrontIsCut
<1>3. Innermost(n, {"code"}, raw2, k)
  <2>1. Innermost(n, {"code"}, raw, Len(n))
    BY DEF Intact, Chain
  <2>2. CASE f.kind = "code"
    BY <1>1, <2>2 DEF Intact, Chain
  <2>3. CASE f.kind # "code"
    <3>1. raw \in 0..Len(n)
      BY <2>1 DEF Innermost
    <3>4. raw # Len(n)
      BY <1>1, <2>1, <2>3 DEF Innermost
    <3>2. raw <= Len(n) - 1
      <4>1. \A x \in Nat : \A y \in 0..x : y # x => y <= x - 1
        OBVIOUS
      <4> QED BY <1>1, <3>1, <3>4, <4>1
    <3> QED BY <1>1, <2>1, <2>3, <3>2, InnermostBelow
  <2> QED BY <2>2, <2>3
<1>4. Chain(Cut(n, k), {"code"}, "code", raw2)
  BY <1>1, <1>3, CutChain DEF Intact
<1>5. RootsInOrder(Cut(n, k), roots2)
  BY PopOrder DEF Intact
<1> QED BY <1>2, <1>4, <1>5 DEF Intact

(* Where there is a boundary, the jump goes to a catching call. *)
LEMMA BoundaryTarget ==
    ASSUME NEW n, NEW K \in SUBSET {"run", "catch"}, "catch" \in K,
           NEW depth, NEW jmp, NEW catches, NEW calls, NEW roots,
           Stack(n, K, depth, jmp, catches, calls, roots), catches # 0
    PROVE  jmp \in 2..Len(n) /\ n[jmp].kind = "catch"
<1>1. n \in Seq(CFrame) /\ Len(n) \in Nat /\ n[1].kind = "run" /\ \A i \in 2..Len(n) : n[i].kind # "run"
  BY LenProperties DEF Stack, RunAtBottom
<1>2. PICK i \in 1..Len(n) : n[i].kind = "catch"
  <2>1. OfKind(n, "catch") # {}
    BY FS_EmptySet DEF Stack
  <2> QED BY <2>1 DEF OfKind
<1>3. jmp \in 0..Len(n) /\ (jmp # 0 => n[jmp].kind \in K) /\ i \notin (jmp + 1)..Len(n)
  BY <1>2 DEF Stack, Chain, Innermost
<1>4. jmp >= i /\ i # 1
  BY <1>1, <1>2, <1>3
<1>5. jmp \in 2..Len(n)
  BY <1>1, <1>2, <1>3, <1>4
<1>6. n[jmp].kind \in K /\ n[jmp].kind # "run"
  BY <1>1, <1>3, <1>5
<1> QED BY <1>5, <1>6

(* As long as run() can be jumped to, there is a place to jump to. *)
LEMMA RunTarget ==
    ASSUME NEW n, NEW K, "run" \in K, NEW m \in 1..Len(n), NEW jmp,
           RunAtBottom(n), Innermost(n, K, jmp, m)
    PROVE  jmp \in 1..m
<1>1. n[1].kind = "run" /\ Len(n) \in Nat /\ 1 \in 1..m
  BY LenProperties DEF RunAtBottom
<1> QED BY <1>1 DEF Innermost

-----------------------------------------------------------------------------
(* The inductive invariant. *)

JmpKinds == IF phase = "main" THEN {"run", "catch"} ELSE {"catch"}

StackInv ==
    Stack(native, JmpKinds, frames, overflow_jmp, Len(native_catch_stack), jit_call_depth,
          temp_roots)

IntactInv == ~skipped => Intact(native, jit_captures_raw, temp_roots)

(* A panic that was captured is on its way to the innermost boundary. *)
CapturedOnItsWay ==
    \A i \in 1..Len(native_catch_stack) :
        native_catch_stack[i] =>
            /\ i = Len(native_catch_stack)
            /\ ctl = "jump4" \/ (ctl = "go" /\ Top.kind = "catch")

(* Where a jump is under way there is a place to jump to. *)
JumpsSomewhere ==
    /\ ctl \in {"jump1", "jump4"} => overflow_jmp # 0
    /\ ctl = "jump4" => Len(native_catch_stack) # 0

(* While the main program runs there is always its own call frame, and     *)
(* only builtins and catching calls start loops that compiled code did not *)
(* ask for: an error stops script code at once if there are none.          *)
Guards == {"builtin", "catch"}
Guarded(n) == \E i \in 1..Len(n) : n[i].kind \in Guards
MainStack(n) ==
    \A i \in 2..Len(n) :
        /\ n[i].height >= 1
        /\ n[i].kind = "loop" /\ ~n[i].jit => n[i - 1].kind \in Guards

MainInv ==
    phase = "main" =>
        /\ MainStack(native)
        /\ Len(native) > 1 \/ ctl = "go" => frames >= 1
        /\ has_error /\ ~Guarded(native) => ctl # "go"

UInv ==
    /\ TypeOK
    /\ StackInv /\ IntactInv
    /\ MainInv
    /\ CapturedOnItsWay /\ JumpsSomewhere
    /\ PanicNotForgotten

LEMMA Basics ==
    ASSUME UInv
    PROVE  /\ native \in Seq(CFrame) /\ Len(native) \in Nat /\ Len(native) > 0
           /\ Top = native[Len(native)]
           /\ Top.kind \in Kind /\ Top.height \in Nat /\ Top.saved \in Nat /\ Top.jit \in BOOLEAN
           /\ frames \in Nat /\ frames >= Top.height
           /\ Top.kind \in {"loop", "code"} => frames > Top.height
           /\ Top.kind = "code" => Top.saved <= MaxNative
           /\ Top.jit => Top.kind \in {"loop", "code"}
           /\ JmpKinds \in SUBSET {"run", "catch"} /\ "catch" \in JmpKinds
           /\ temp_roots \in Seq(Nat) /\ Len(temp_roots) \in Nat
           /\ Len(native_catch_stack) \in Nat
           /\ MaxNative \in Nat /\ jit_captures_raw \in 0..MaxNative
           /\ jit_call_depth \in Nat /\ overflow_jmp \in 0..MaxNative
<1>1. native \in Seq(CFrame) /\ Len(native) > 0
  BY DEF UInv, StackInv, Stack, RunAtBottom
<1>2. Len(native) \in Nat /\ Top = native[Len(native)] /\ Len(native) \in 1..Len(native)
  BY <1>1, FrontIsCut DEF Top
<1>3. Top.kind \in Kind /\ Top.height \in Nat /\ Top.saved \in Nat /\ Top.jit \in BOOLEAN
  BY <1>1, <1>2, FrameType
<1>4. /\ frames >= Top.height
      /\ Top.kind \in {"loop", "code"} => frames > Top.height
  <2>1. /\ Top.height <= frames
        /\ Top.kind \in {"loop", "code"} => Top.height < frames
    BY <1>2 DEF UInv, StackInv, Stack, Rises
  <2>2. frames \in Nat
    BY DEF UInv, TypeOK
  <2> QED BY <1>3, <2>1, <2>2
<1>5. JmpKinds \in SUBSET {"run", "catch"} /\ "catch" \in JmpKinds
  BY DEF JmpKinds
<1>6. MaxNative \in Nat
  BY UnwindAssumption
<1>7. temp_roots \in Seq(Nat) /\ Len(temp_roots) \in Nat
  <2>1. temp_roots \in Seq(1..MaxNative)
    BY DEF UInv, TypeOK
  <2>2. 1..MaxNative \subseteq Nat
    BY <1>6
  <2> QED BY <2>1, <2>2, SeqMonotonic, LenProperties
<1>8. Len(native_catch_stack) \in Nat
  BY LenProperties DEF UInv, TypeOK
<1>9. /\ jit_captures_raw \in 0..MaxNative /\ frames \in Nat
      /\ jit_call_depth \in Nat /\ overflow_jmp \in 0..MaxNative
  BY DEF UInv, TypeOK
<1>10. /\ Top.kind = "code" => Top.saved <= MaxNative
       /\ Top.jit => Top.kind \in {"loop", "code"}
  BY <1>2 DEF UInv, StackInv, Stack
<1> QED BY <1>1, <1>2, <1>3, <1>4, <1>5, <1>6, <1>7, <1>8, <1>9, <1>10

(* The ways a step changes the stack. *)
Unmoved ==
    /\ UNCHANGED <<native, overflow_jmp, jitVars, temp_roots, skipped>>
    /\ JmpKinds' = JmpKinds
    /\ Len(native_catch_stack') = Len(native_catch_stack)
    /\ frames' \in Nat /\ frames' >= Top.height
    /\ Top.kind \in {"loop", "code"} => frames' > Top.height

Pushed(f) ==
    /\ native' = Append(native, f)
    /\ JmpKinds' = JmpKinds
    /\ f \in CFrame /\ f.kind # "run" /\ f.height = frames
    /\ Keeps(f, jit_captures_raw, overflow_jmp, temp_roots)
    /\ Len(native) < MaxNative
    /\ frames' \in Nat /\ frames' >= frames
    /\ f.kind \in {"loop", "code"} => frames' > frames
    /\ overflow_jmp' = IF f.kind = "catch" THEN Len(native) + 1 ELSE overflow_jmp
    /\ Len(native_catch_stack') =
           IF f.kind = "catch" THEN Len(native_catch_stack) + 1 ELSE Len(native_catch_stack)
    /\ jit_call_depth' = jit_call_depth + IsJit(f)
    /\ jit_captures_raw' = IF f.kind = "code" THEN Len(native) + 1 ELSE jit_captures_raw
    /\ temp_roots' = IF f.kind = "builtin" THEN Append(temp_roots, Len(native) + 1) ELSE temp_roots
    /\ skipped' = skipped

Popped ==
    /\ native' = Front(native)
    /\ JmpKinds' = JmpKinds
    /\ Top.kind # "run"
    /\ frames' \in Nat /\ frames' >= Top.height
    /\ overflow_jmp' = IF Top.kind = "catch" THEN Top.saved ELSE overflow_jmp
    /\ Len(native_catch_stack') =
           IF Top.kind = "catch" THEN Len(native_catch_stack) - 1 ELSE Len(native_catch_stack)
    /\ jit_call_depth' = jit_call_depth - IsJit(Top)
    /\ jit_captures_raw' = IF Top.kind = "code" THEN Top.saved ELSE jit_captures_raw
    /\ temp_roots' = IF Top.kind = "builtin" THEN SubSeq(temp_roots, 1, Top.saved) ELSE temp_roots
    /\ skipped' = skipped

LEMMA UnmovedStep ==
    ASSUME UInv, Unmoved
    PROVE  StackInv' /\ IntactInv'
<1>1. /\ native' = native /\ overflow_jmp' = overflow_jmp /\ JmpKinds' = JmpKinds
      /\ Len(native_catch_stack') = Len(native_catch_stack) /\ temp_roots' = temp_roots
      /\ jit_call_depth' = jit_call_depth /\ jit_captures_raw' = jit_captures_raw /\ skipped' = skipped
  BY DEF Unmoved, jitVars
<1>2. IntactInv'
  BY <1>1 DEF IntactInv, UInv
<1> DEFINE k == Len(native)
<1>3. /\ k \in 1..Len(native) /\ k \in 0..Len(native) /\ native \in Seq(CFrame)
      /\ Cut(native, k) = native /\ Top = native[k]
  BY Basics DEF Cut
<1>4. Innermost(native, JmpKinds, overflow_jmp, k)
  BY DEF UInv, StackInv, Stack, Chain
<1>5. /\ Cardinality(OfKind(native, "catch")) = Len(native_catch_stack)
      /\ jit_call_depth >= Cardinality(OfJit(native))
      /\ Stack(native, JmpKinds, frames, overflow_jmp, Len(native_catch_stack), jit_call_depth,
               temp_roots)
  BY DEF UInv, StackInv, Stack
<1>6. frames' \in Nat /\ frames' >= Top.height /\ (Top.kind \in {"loop", "code"} => frames' > Top.height)
  BY DEF Unmoved
<1>7. /\ Len(temp_roots) \in Nat /\ MaxNative \in Nat /\ frames \in Nat /\ jit_call_depth \in Nat
      /\ Len(temp_roots) >= Len(temp_roots)
  BY Basics
<1> HIDE DEF k
<1>8. Stack(Cut(native, k), JmpKinds, frames', overflow_jmp, Len(native_catch_stack), jit_call_depth,
            temp_roots)
  BY <1>3, <1>4, <1>5, <1>6, <1>7, CutStack
<1> QED BY <1>1, <1>2, <1>3, <1>8 DEF StackInv

LEMMA PushedStep ==
    ASSUME UInv, NEW f, Pushed(f)
    PROVE  StackInv' /\ IntactInv'
<1>1. StackInv'
  <2>1. Stack(native, JmpKinds, frames, overflow_jmp, Len(native_catch_stack), jit_call_depth,
              temp_roots)
    BY DEF UInv, StackInv
  <2>2. Len(temp_roots') = IF f.kind = "builtin" THEN Len(temp_roots) + 1 ELSE Len(temp_roots)
    <3>1. temp_roots \in Seq(Nat) /\ Len(native) + 1 \in Nat
      BY Basics
    <3> QED BY <3>1, AppendProperties DEF Pushed
  <2>3. Stack(Append(native, f), JmpKinds, frames', overflow_jmp', Len(native_catch_stack'),
              jit_call_depth', temp_roots')
    BY <2>1, <2>2, Basics, PushStack DEF Pushed
  <2> QED BY <2>3 DEF StackInv, Pushed
<1>2. ASSUME ~skipped PROVE Intact(native', jit_captures_raw', temp_roots')
  <2>1. Intact(native, jit_captures_raw, temp_roots) /\ RootsSaved(native, temp_roots)
    BY <1>2 DEF UInv, IntactInv, StackInv, Stack
  <2>2. temp_roots' \in Seq(Nat)
    <3>1. temp_roots \in Seq(Nat) /\ Len(native) + 1 \in Nat
      BY Basics
    <3> QED BY <3>1, AppendProperties DEF Pushed
  <2>3. /\ native \in Seq(CFrame) /\ temp_roots \in Seq(Nat) /\ f \in CFrame
        /\ native' = Append(native, f) /\ Keeps(f, jit_captures_raw, overflow_jmp, temp_roots)
        /\ jit_captures_raw' = (IF f.kind = "code" THEN Len(native) + 1 ELSE jit_captures_raw)
        /\ temp_roots' = IF f.kind = "builtin" THEN Append(temp_roots, Len(native) + 1) ELSE temp_roots
    BY Basics DEF Pushed
  <2> QED BY <2>1, <2>2, <2>3, PushIntact
<1>3. IntactInv'
  BY <1>2 DEF IntactInv, Pushed
<1> QED BY <1>1, <1>3

LEMMA PoppedStep ==
    ASSUME UInv, Popped
    PROVE  Len(native) > 1 /\ StackInv' /\ IntactInv'
<1>0. Len(temp_roots') = (IF Top.kind = "builtin" THEN Top.saved ELSE Len(temp_roots))
      /\ temp_roots' \in Seq(Nat)
  <2>1. CASE Top.kind = "builtin"
    <3>1. Top = native[Len(native)] /\ Len(native) \in 1..Len(native) /\ Top.saved \in Nat
      BY Basics
    <3>2. Top.saved < Len(temp_roots)
      BY <2>1, <3>1 DEF UInv, StackInv, Stack, RootsSaved
    <3>3. Top.saved \in 0..Len(temp_roots) /\ temp_roots \in Seq(Nat)
      BY <3>1, <3>2, Basics
    <3> QED BY <2>1, <3>3, CutFacts DEF Popped, Cut
  <2>2. CASE Top.kind # "builtin"
    BY <2>2, Basics DEF Popped
  <2> QED BY <2>1, <2>2
<1>1. Len(native) > 1 /\ StackInv'
  <2>1. Stack(native, JmpKinds, frames, overflow_jmp, Len(native_catch_stack), jit_call_depth,
              temp_roots)
    BY DEF UInv, StackInv
  <2>2. Len(native) > 1 /\ Stack(Front(native), JmpKinds, frames', overflow_jmp', Len(native_catch_stack'),
              jit_call_depth', temp_roots')
    <3>1. /\ JmpKinds \in SUBSET {"run", "catch"} /\ "catch" \in JmpKinds /\ frames \in Nat
          /\ Len(temp_roots) \in Nat /\ MaxNative \in Nat /\ Top = native[Len(native)]
      BY Basics
    <3>2. /\ Top.kind # "run"
          /\ frames' \in Nat /\ frames' >= Top.height
          /\ overflow_jmp' = (IF Top.kind = "catch" THEN Top.saved ELSE overflow_jmp)
          /\ Len(native_catch_stack') =
                 (IF Top.kind = "catch" THEN Len(native_catch_stack) - 1 ELSE Len(native_catch_stack))
          /\ jit_call_depth' = jit_call_depth - IsJit(Top)
      BY DEF Popped
    <3> DEFINE t == native[Len(native)]
    <3>3. /\ t.kind # "run"
          /\ frames' >= t.height
          /\ overflow_jmp' = (IF t.kind = "catch" THEN t.saved ELSE overflow_jmp)
          /\ Len(native_catch_stack') =
                 (IF t.kind = "catch" THEN Len(native_catch_stack) - 1 ELSE Len(native_catch_stack))
          /\ jit_call_depth' = jit_call_depth - IsJit(t)
          /\ Len(temp_roots') = (IF t.kind = "builtin" THEN t.saved ELSE Len(temp_roots))
      BY <1>0, <3>1, <3>2
    <3> QED BY <2>1, <3>1, <3>2, <3>3, PopStack
  <2> QED BY <2>2 DEF StackInv, Popped
<1>2. ASSUME ~skipped PROVE Intact(native', jit_captures_raw', temp_roots')
  <2>1. Intact(native, jit_captures_raw, temp_roots) /\ RootsSaved(native, temp_roots)
    BY <1>2 DEF UInv, IntactInv, StackInv, Stack
  <2>2. /\ native \in Seq(CFrame) /\ temp_roots \in Seq(Nat) /\ Len(native) > 0
        /\ native' = Front(native) /\ Top = native[Len(native)]
        /\ jit_captures_raw' = (IF Top.kind = "code" THEN Top.saved ELSE jit_captures_raw)
        /\ temp_roots' = IF Top.kind = "builtin" THEN SubSeq(temp_roots, 1, Top.saved) ELSE temp_roots
    BY Basics DEF Popped
  <2> QED BY <1>0, <2>1, <2>2, PopIntact
<1>3. IntactInv'
  BY <1>2 DEF IntactInv, Popped
<1> QED BY <1>1, <1>3

(* A longjmp cuts the stack at the target. *)
LEMMA CutToTarget ==
    ASSUME UInv, overflow_jmp # 0
    PROVE  /\ overflow_jmp \in 1..Len(native) /\ native[overflow_jmp].kind \in JmpKinds
           /\ Stack(Cut(native, overflow_jmp), JmpKinds, frames, overflow_jmp,
                    Len(native_catch_stack), jit_call_depth, temp_roots)
<1> DEFINE k == overflow_jmp
<1>1. Stack(native, JmpKinds, frames, k, Len(native_catch_stack), jit_call_depth, temp_roots)
  BY DEF UInv, StackInv
<1>2. Innermost(native, JmpKinds, k, Len(native))
  BY <1>1 DEF Stack, Chain
<1>3. k \in 1..Len(native) /\ k \in 0..Len(native) /\ native[k].kind \in JmpKinds
      /\ \A i \in (k + 1)..Len(native) : native[i].kind \notin JmpKinds
  BY <1>2, Basics DEF Innermost
<1>4. native \in Seq(CFrame) /\ Len(native) \in Nat /\ "catch" \in JmpKinds
      /\ JmpKinds \in SUBSET {"run", "catch"}
      /\ frames \in Nat /\ Len(temp_roots) \in Nat /\ MaxNative \in Nat /\ jit_call_depth \in Nat
  BY Basics
<1>5. frames >= native[k].height /\ native[k].kind \notin {"loop", "code"}
  <2>1. native[k].height <= frames /\ native[k].height \in Nat
    BY <1>1, <1>3, <1>4, FrameType DEF Stack, Rises
  <2> QED BY <1>3, <1>4, <2>1
<1>6. Innermost(native, JmpKinds, k, k)
  BY <1>3, <1>4 DEF Innermost
<1>7. Cardinality(OfKind(Cut(native, k), "catch")) = Len(native_catch_stack)
  BY <1>1, <1>3, <1>4, CutCounts DEF Stack
<1>8. jit_call_depth >= Cardinality(OfJit(Cut(native, k)))
  <2>1. Cardinality(OfJit(native)) \in Nat /\ jit_call_depth >= Cardinality(OfJit(native))
    BY <1>1, <1>4, CountedFrames DEF Stack
  <2>2. Cardinality(OfJit(Cut(native, k))) \in Nat
    BY <1>3, <1>4, CutFacts, CountedFrames
  <2>3. Cardinality(OfJit(Cut(native, k))) <= Cardinality(OfJit(native))
    BY <1>3, <1>4, CutCounts
  <2> QED BY <1>4, <2>1, <2>2, <2>3
<1>9. Len(temp_roots) >= Len(temp_roots)
  BY <1>4
<1> HIDE DEF k
<1>10. Stack(Cut(native, k), JmpKinds, frames, k, Len(native_catch_stack), jit_call_depth, temp_roots)
  BY <1>1, <1>3, <1>4, <1>5, <1>6, <1>7, <1>8, <1>9, CutStack
<1> QED BY <1>3, <1>10 DEF k

(* When only run() is left, run() may forget the target and the depth. *)
LEMMA OnlyRun ==
    ASSUME NEW n, NEW K \in SUBSET {"run", "catch"}, "catch" \in K,
           NEW depth, NEW jmp, NEW catches, NEW calls, NEW roots,
           Stack(n, K, depth, jmp, catches, calls, roots), Len(n) = 1,
           NEW calls2 \in Nat
    PROVE  Stack(n, {"catch"}, depth, 0, catches, calls2, roots)
<1>1. n \in Seq(CFrame) /\ n[1].kind = "run" /\ n[1].jit = FALSE
  BY DEF Stack, RunAtBottom
<1>2. \A i \in 1..Len(n) : i = 1
  OBVIOUS
<1>3. Chain(n, {"catch"}, "catch", 0)
  BY <1>1, <1>2 DEF Chain, Innermost
<1>4. calls2 >= Cardinality(OfJit(n))
  <2>1. OfJit(n) = {}
    BY <1>1, <1>2 DEF OfJit
  <2> QED BY <2>1, FS_EmptySet
<1> QED BY <1>3, <1>4 DEF Stack

LEMMA CaptureKeeps ==
    ASSUME NEW boundaries \in Seq(BOOLEAN), boundaries # <<>>,
           NEW new, new = [boundaries EXCEPT ![InnermostBoundary(boundaries)] = TRUE]
    PROVE  /\ new \in Seq(BOOLEAN) /\ Len(new) = Len(boundaries)
           /\ \A i \in 1..Len(boundaries) : i # Len(boundaries) => new[i] = boundaries[i]
<1> DEFINE l == Len(boundaries)
           b == [boundaries EXCEPT ![l] = TRUE]
<1>1. l \in 1..Len(boundaries) /\ TRUE \in BOOLEAN
  BY LenProperties, EmptySeq
<1> HIDE DEF l
<1>2. b \in Seq(BOOLEAN) /\ Len(b) = Len(boundaries)
  BY <1>1, ExceptSeq
<1>3. DOMAIN boundaries = 1..Len(boundaries)
  BY LenProperties
<1>4. new = b
  BY DEF l, InnermostBoundary
<1>5. \A i \in 1..Len(boundaries) : i # l => b[i] = boundaries[i]
  BY <1>3, Zenon
<1> HIDE DEF b
<1> QED BY <1>2, <1>4, <1>5 DEF l

LEMMA AfterKeeps ==
    ASSUME NEW compiled, NEW boundaries \in Seq(BOOLEAN), NEW jmp, NEW error \in BOOLEAN,
           NEW throw \in BOOLEAN,
           AfterBuiltin(compiled, boundaries, jmp, error, throw)
    PROVE  /\ native_catch_stack' \in Seq(BOOLEAN) /\ Len(native_catch_stack') = Len(boundaries)
           /\ \A i \in 1..Len(boundaries) :
                  i # Len(boundaries) => native_catch_stack'[i] = boundaries[i]
           /\ has_error' \in BOOLEAN /\ throw_flag' \in BOOLEAN
           /\ ctl' \in {"go", "leave", "jump1", "jump4"}
<1>1. ctl' \in {"go", "leave", "jump1", "jump4"}
  BY DEF AfterBuiltin, Aborting
<1>2. has_error' \in BOOLEAN
  BY DEF AfterBuiltin
<1>3. throw_flag' \in BOOLEAN
  BY DEF AfterBuiltin
<1>4. CASE native_catch_stack' = boundaries
  BY <1>1, <1>2, <1>3, <1>4
<1>5. CASE /\ boundaries # <<>>
           /\ native_catch_stack' = [boundaries EXCEPT ![InnermostBoundary(boundaries)] = TRUE]
  <2>1. /\ native_catch_stack' \in Seq(BOOLEAN) /\ Len(native_catch_stack') = Len(boundaries)
        /\ \A i \in 1..Len(boundaries) :
               i # Len(boundaries) => native_catch_stack'[i] = boundaries[i]
    BY <1>5, CaptureKeeps
  <2> QED BY <1>1, <1>2, <1>3, <2>1
<1> QED BY <1>4, <1>5 DEF AfterBuiltin

(* A catching call has a boundary of its own. *)
LEMMA BoundaryThere ==
    ASSUME UInv, Top.kind = "catch"
    PROVE  /\ Len(native_catch_stack) > 0 /\ native_catch_stack \in Seq(BOOLEAN)
           /\ BoundaryPopped \in Seq(BOOLEAN)
           /\ Len(BoundaryPopped) = Len(native_catch_stack) - 1
           /\ \A i \in 1..(Len(native_catch_stack) - 1) : BoundaryPopped[i] = native_catch_stack[i]
           /\ FramesPopped = Top.height
           /\ overflow_jmp = Len(native)
<1>1. Top = native[Len(native)] /\ Len(native) \in 1..Len(native) /\ native \in Seq(CFrame)
  BY Basics
<1>2. Len(native_catch_stack) = Cardinality(OfKind(native, "catch"))
  BY DEF UInv, StackInv, Stack
<1>3. Len(native) \in OfKind(native, "catch")
  BY <1>1 DEF OfKind
<1>4. Len(native_catch_stack) # 0
  BY <1>1, <1>2, <1>3, CountedFrames, FS_EmptySet
<1>5. native_catch_stack \in Seq(BOOLEAN)
  BY DEF UInv, TypeOK
<1>6. Len(native_catch_stack) > 0
  BY <1>4, <1>5, LenProperties
<1>7. /\ BoundaryPopped \in Seq(BOOLEAN)
      /\ Len(BoundaryPopped) = Len(native_catch_stack) - 1
      /\ \A i \in 1..(Len(native_catch_stack) - 1) : BoundaryPopped[i] = native_catch_stack[i]
  <2> DEFINE k == Len(native_catch_stack) - 1
  <2>1. BoundaryPopped = Cut(native_catch_stack, k) /\ k \in 0..Len(native_catch_stack)
    BY <1>5, <1>6, FrontIsCut DEF BoundaryPopped
  <2> HIDE DEF k
  <2>2. /\ Cut(native_catch_stack, k) \in Seq(BOOLEAN) /\ Len(Cut(native_catch_stack, k)) = k
        /\ \A i \in 1..k : Cut(native_catch_stack, k)[i] = native_catch_stack[i]
    BY <1>5, <2>1, CutFacts
  <2> QED BY <2>1, <2>2 DEF k
<1>8. FramesPopped = Top.height
  BY Basics DEF FramesPopped
<1>9. overflow_jmp = Len(native)
  <2>1. overflow_jmp \in 0..Len(native)
        /\ \A i \in (overflow_jmp + 1)..Len(native) : native[i].kind \notin JmpKinds
    BY DEF UInv, StackInv, Stack, Chain, Innermost
  <2>2. Len(native) \notin (overflow_jmp + 1)..Len(native)
    BY <1>1, <2>1, Basics
  <2> QED BY <2>1, <2>2, Basics
<1> QED BY <1>5, <1>6, <1>7, <1>8, <1>9

LEMMA RunFacts ==
    ASSUME UInv, Top.kind = "run"
    PROVE  Len(native) = 1 /\ Top.height = 0 /\ Top.jit = FALSE
<1>1. Top = native[Len(native)] /\ Len(native) \in Nat /\ Len(native) > 0
  BY Basics
<1>2. RunAtBottom(native)
  BY DEF UInv, StackInv, Stack
<1>3. Len(native) = 1
  <2>1. Len(native) \notin 2..Len(native)
    BY <1>1, <1>2 DEF RunAtBottom
  <2>2. \A x \in Nat : x > 0 /\ x \notin 2..x => x = 1
    OBVIOUS
  <2> QED BY <1>1, <2>1, <2>2
<1> QED BY <1>1, <1>2, <1>3 DEF RunAtBottom

-----------------------------------------------------------------------------
(* Every step keeps the stack. *)

LEMMA StackStep ==
    ASSUME UInv, Next
    PROVE  StackInv' /\ IntactInv'
<1> USE DEF InScript, Interpreting, InCompiled, Running, catchVars, jitVars, errorVars
<1>1. CASE CallCompiled
  <2> DEFINE f == NativeFrame("code", jit_captures_raw, InCompiled)
  <2>1. f \in CFrame
    BY Basics DEF CFrame, NativeFrame, Kind
  <2>2. f.jit = InCompiled /\ IsJit(f) = IF InCompiled THEN 1 ELSE 0
    BY DEF NativeFrame, IsJit
  <2>3. jit_call_depth' = jit_call_depth + IsJit(f)
    BY <1>1, <2>2 DEF CallCompiled
  <2>4. /\ f.kind = "code" /\ f.height = frames /\ f.saved = jit_captures_raw
        /\ Keeps(f, jit_captures_raw, overflow_jmp, temp_roots)
    BY DEF NativeFrame, Keeps
  <2>5. native' = Append(native, f) /\ frames' = frames + 1 /\ jit_captures_raw' = Len(native) + 1
        /\ Len(native) < MaxNative
        /\ UNCHANGED <<phase, overflow_jmp, native_catch_stack, temp_roots, skipped>>
    BY <1>1 DEF CallCompiled, CalleeCode
  <2> HIDE DEF f
  <2>6. Pushed(f)
    BY <2>1, <2>3, <2>4, <2>5, Basics DEF Pushed, JmpKinds
  <2> QED BY <2>6, PushedStep
<1>2. CASE CallInterpreted
  <2>1. CASE InCompiled
    <3> DEFINE f == NativeFrame("loop", 0, TRUE)
    <3>1. f \in CFrame
      BY Basics DEF CFrame, NativeFrame, Kind
    <3>2. Pushed(f)
      BY <1>2, <2>1, <3>1, Basics
      DEF CallInterpreted, CalleeLoop, Pushed, NativeFrame, Keeps, IsJit, JmpKinds
    <3> QED BY <3>2, PushedStep
  <2>2. CASE ~InCompiled
    <3>1. Unmoved
      <4>1. native' = native /\ jit_call_depth' = jit_call_depth /\ frames' = frames + 1
        BY <1>2, <2>2 DEF CallInterpreted
      <4>2. UNCHANGED <<phase, overflow_jmp, native_catch_stack, jit_captures_raw, temp_roots, skipped>>
        BY <1>2 DEF CallInterpreted
      <4> QED BY <4>1, <4>2, Basics DEF Unmoved, JmpKinds
    <3> QED BY <3>1, UnmovedStep
  <2> QED BY <2>1, <2>2
<1>3. CASE CallTooDeep
  <2>1. Unmoved
    BY <1>3, Basics DEF CallTooDeep, Unmoved, JmpKinds
  <2> QED BY <2>1, UnmovedStep
<1>4. CASE ReturnInterpreted
  <2>1. CASE Top.kind = "loop" /\ frames' <= Top.height
    <3>1. Popped
      BY <1>4, <2>1, Basics DEF ReturnInterpreted, Popped, IsJit, JmpKinds
    <3> QED BY <3>1, PoppedStep
  <2>2. CASE ~(Top.kind = "loop" /\ frames' <= Top.height)
    <3>1. frames' = frames - 1 /\ native' = native /\ jit_call_depth' = jit_call_depth
      BY <1>4, <2>2 DEF ReturnInterpreted
    <3>2. UNCHANGED <<phase, overflow_jmp, native_catch_stack, jit_captures_raw, temp_roots, skipped>>
      BY <1>4 DEF ReturnInterpreted
    <3>3. CASE Top.kind = "loop"
      <4>1. frames' > Top.height /\ frames' \in Nat
        BY <2>2, <3>1, <3>3, Basics
      <4>2. Unmoved
        BY <3>1, <3>2, <4>1, Basics DEF Unmoved, JmpKinds
      <4> QED BY <4>2, UnmovedStep
    <3>4. CASE Top.kind = "run"
      <4>1. phase = "main" /\ ctl = "go"
        BY <1>4, <3>4 DEF ReturnInterpreted
      <4>2. frames >= 1
        BY <4>1 DEF UInv, MainInv
      <4>3. frames' \in Nat /\ frames' >= Top.height
        BY <3>1, <3>4, <4>2, Basics, RunFacts
      <4>4. Unmoved
        BY <3>1, <3>2, <3>4, <4>3, Basics DEF Unmoved, JmpKinds
      <4> QED BY <4>4, UnmovedStep
    <3> QED BY <1>4, <3>3, <3>4 DEF ReturnInterpreted
  <2> QED BY <2>1, <2>2
<1>5. CASE ReturnCompiled
  <2>1. Popped
    BY <1>5, Basics DEF ReturnCompiled, Popped, IsJit, JmpKinds, CapturesBefore
  <2> QED BY <2>1, PoppedStep
<1>6. CASE CallBuiltin
  <2> DEFINE f == NativeFrame("builtin", Len(temp_roots), FALSE)
  <2>1. f \in CFrame
    BY Basics DEF CFrame, NativeFrame, Kind
  <2>2. Pushed(f)
    BY <1>6, <2>1, Basics DEF CallBuiltin, Pushed, NativeFrame, Keeps, IsJit, JmpKinds
  <2> QED BY <2>2, PushedStep
<1>7. CASE CallBack
  <2>1. CASE frames < MAX_CALL_DEPTH
    <3> DEFINE f == NativeFrame("loop", 0, FALSE)
               g == NativeFrame("code", jit_captures_raw, FALSE)
    <3>1. f \in CFrame /\ g \in CFrame
      BY Basics DEF CFrame, NativeFrame, Kind
    <3>2. Pushed(f) \/ Pushed(g)
      BY <1>7, <2>1, <3>1, Basics
      DEF CallBack, CalleeLoop, CalleeCode, Pushed, NativeFrame, Keeps, IsJit, JmpKinds
    <3> QED BY <3>2, PushedStep
  <2>2. CASE ~(frames < MAX_CALL_DEPTH)
    <3>1. Unmoved
      BY <1>7, <2>2, Basics DEF CallBack, Unmoved, JmpKinds
    <3> QED BY <3>1, UnmovedStep
  <2> QED BY <2>1, <2>2
<1>8. CASE BuiltinReturns
  <2>1. AfterBuiltin(Below.kind = "code", native_catch_stack, overflow_jmp, has_error, throw_flag)
    BY <1>8 DEF BuiltinReturns
  <2>2. native_catch_stack \in Seq(BOOLEAN) /\ has_error \in BOOLEAN /\ throw_flag \in BOOLEAN
    BY DEF UInv, TypeOK
  <2>3. Len(native_catch_stack') = Len(native_catch_stack)
    <3> DEFINE compiled == Below.kind = "code"
    <3>1. AfterBuiltin(compiled, native_catch_stack, overflow_jmp, has_error, throw_flag)
      BY <2>1
    <3> HIDE DEF compiled
    <3> QED BY <2>2, <3>1, AfterKeeps
  <2>4. Popped
    BY <1>8, <2>3, Basics DEF BuiltinReturns, Popped, IsJit, JmpKinds
  <2> QED BY <2>4, PoppedStep
<1>9. CASE CatchReturns
  <2>1. Top.kind = "catch" /\ PutBack
        /\ AfterBuiltin(Below.kind = "code", BoundaryPopped, JumpTargetBefore, FALSE, throw_flag)
    BY <1>9 DEF CatchReturns
  <2>2. BoundaryPopped \in Seq(BOOLEAN) /\ throw_flag \in BOOLEAN /\ FALSE \in BOOLEAN
    BY <2>1, BoundaryThere DEF UInv, TypeOK
  <2>3. Len(native_catch_stack') = Len(native_catch_stack) - 1
    <3> DEFINE compiled == Below.kind = "code"
               before == JumpTargetBefore
    <3>1. AfterBuiltin(compiled, BoundaryPopped, before, FALSE, throw_flag)
      BY <2>1
    <3> HIDE DEF compiled, before
    <3>2. Len(native_catch_stack') = Len(BoundaryPopped)
      BY <2>2, <3>1, AfterKeeps
    <3> QED BY <2>1, <3>2, BoundaryThere
  <2>4. Popped
    BY <1>9, <2>1, <2>3, Basics, BoundaryThere
    DEF CatchReturns, PutBack, Popped, IsJit, JmpKinds, JumpTargetBefore, JitKept
  <2> QED BY <2>4, PoppedStep
<1>10. CASE BeginCatch
  <2> DEFINE f == NativeFrame("catch", overflow_jmp, FALSE)
             n == Append(native, f)
  <2>1. f \in CFrame /\ f.kind = "catch" /\ f.height = frames /\ f.saved = overflow_jmp
        /\ Keeps(f, jit_captures_raw, overflow_jmp, temp_roots) /\ IsJit(f) = 0
    BY Basics DEF CFrame, NativeFrame, Kind, Keeps, IsJit
  <2>2. /\ Len(native) + 1 < MaxNative /\ overflow_jmp' = Len(native) + 1
        /\ native_catch_stack' = Append(native_catch_stack, FALSE)
        /\ UNCHANGED <<phase, jit_call_depth, temp_roots, skipped>>
    BY <1>10 DEF BeginCatch
  <2>3. \/ /\ frames' = frames + 1
           /\ \/ native' = CalleeLoop(n, FALSE) /\ UNCHANGED jit_captures_raw
              \/ native' = CalleeCode(n, FALSE) /\ jit_captures_raw' = Len(n) + 1
        \/ native' = n /\ UNCHANGED <<frames, jit_captures_raw>>
    <3>1. CASE frames < MAX_CALL_DEPTH
      BY <1>10, <3>1 DEF BeginCatch
    <3>2. CASE ~(frames < MAX_CALL_DEPTH)
      BY <1>10, <3>2 DEF BeginCatch
    <3> QED BY <3>1, <3>2
  <2>4. Len(native_catch_stack') = Len(native_catch_stack) + 1
    <3>1. native_catch_stack \in Seq(BOOLEAN) /\ FALSE \in BOOLEAN
      BY DEF UInv, TypeOK
    <3> QED BY <2>2, <3>1, AppendProperties
  <2> HIDE DEF f
  <2>5. n \in Seq(CFrame) /\ Len(n) = Len(native) + 1
    BY <2>1, Basics, PushFacts
  <2>6. Stack(n, JmpKinds, frames, overflow_jmp', Len(native_catch_stack'), jit_call_depth, temp_roots)
    <3>1. Stack(native, JmpKinds, frames, overflow_jmp, Len(native_catch_stack), jit_call_depth,
                temp_roots)
      BY DEF UInv, StackInv
    <3>2. Len(native) < MaxNative
      BY <2>2, Basics
    <3>3. jit_call_depth = jit_call_depth + IsJit(f)
      BY <2>1, Basics
    <3>4. frames >= frames
      BY Basics
    <3>5. /\ overflow_jmp' = (IF f.kind = "catch" THEN Len(native) + 1 ELSE overflow_jmp)
          /\ Len(native_catch_stack') =
                (IF f.kind = "catch" THEN Len(native_catch_stack) + 1 ELSE Len(native_catch_stack))
          /\ Len(temp_roots) = (IF f.kind = "builtin" THEN Len(temp_roots) + 1 ELSE Len(temp_roots))
          /\ f.kind # "run" /\ f.kind \notin {"loop", "code"}
      BY <2>1, <2>2, <2>4
    <3>6. /\ JmpKinds \in SUBSET {"run", "catch"} /\ "catch" \in JmpKinds /\ frames \in Nat
          /\ Len(native_catch_stack) \in Nat /\ Len(temp_roots) \in Nat /\ MaxNative \in Nat
          /\ jit_captures_raw \in 0..MaxNative
      BY Basics
    <3> QED BY <2>1, <3>1, <3>2, <3>3, <3>4, <3>5, <3>6, PushStack
  <2>7. ~skipped => Intact(n, jit_captures_raw, temp_roots)
    <3>1. RootsSaved(native, temp_roots)
          /\ (~skipped => Intact(native, jit_captures_raw, temp_roots))
      BY DEF UInv, StackInv, Stack, IntactInv
    <3>2. native \in Seq(CFrame) /\ temp_roots \in Seq(Nat)
      BY Basics
    <3> QED BY <2>1, <3>1, <3>2, PushIntact
  <2> HIDE DEF n
  <2>8. JmpKinds' = JmpKinds
    BY <2>2 DEF JmpKinds
  <2>9. CASE native' = n /\ UNCHANGED <<frames, jit_captures_raw>>
    BY <2>2, <2>6, <2>7, <2>8, <2>9 DEF StackInv, IntactInv
  <2>10. ASSUME NEW kind \in {"loop", "code"}, NEW saved \in 0..MaxNative,
                native' = Append(n, NativeFrame(kind, saved, FALSE)), frames' = frames + 1,
                kind = "code" => saved = jit_captures_raw,
                jit_captures_raw' = IF kind = "code" THEN Len(n) + 1 ELSE jit_captures_raw
         PROVE  StackInv' /\ IntactInv'
    <3> DEFINE g == NativeFrame(kind, saved, FALSE)
    <3>0. /\ g.kind = kind /\ g.height = frames /\ g.saved = saved /\ g.jit = FALSE
          /\ g = [kind |-> kind, height |-> frames, saved |-> saved, jit |-> FALSE]
      BY DEF NativeFrame
    <3> HIDE DEF g
    <3>a. g \in CFrame
      <4>1. kind \in Kind /\ frames \in Nat /\ saved \in Nat
        BY Basics DEF Kind
      <4> QED BY <3>0, <4>1 DEF CFrame
    <3>b. IsJit(g) = 0 /\ Keeps(g, jit_captures_raw, overflow_jmp', temp_roots)
      BY <2>10, <3>0 DEF Keeps, IsJit
    <3>1. g \in CFrame /\ g.kind = kind /\ g.height = frames /\ IsJit(g) = 0
          /\ Keeps(g, jit_captures_raw, overflow_jmp', temp_roots)
      BY <3>0, <3>a, <3>b
    <3> HIDE DEF g
    <3>2. Stack(Append(n, g), JmpKinds, frames', overflow_jmp', Len(native_catch_stack'),
                jit_call_depth, temp_roots)
      <4>1. /\ jit_call_depth = jit_call_depth + IsJit(g)
            /\ frames' \in Nat /\ frames' > frames /\ frames' >= frames
        <5>1. frames \in Nat /\ jit_call_depth \in Nat
          BY Basics
        <5> QED BY <2>10, <3>b, <5>1
      <4>3. Len(native_catch_stack') \in Nat /\ Len(n) < MaxNative
        BY <2>2, <2>4, <2>5, Basics
      <4>2. g.kind # "catch" /\ g.kind # "builtin" /\ g.kind # "run"
        BY <3>1
      <4> QED BY <2>6, <3>1, <4>1, <4>2, <4>3, Basics, PushStack
    <3>3. ~skipped => Intact(Append(n, g), jit_captures_raw', temp_roots)
      <4>1. RootsSaved(n, temp_roots) /\ temp_roots \in Seq(Nat)
        BY <2>6, Basics DEF Stack
      <4> QED BY <2>5, <2>7, <2>10, <3>1, <4>1, PushIntact
    <3>4. native' = Append(n, g)
      BY <2>10 DEF g
    <3> QED BY <2>2, <2>8, <3>2, <3>3, <3>4 DEF StackInv, IntactInv
  <2>11. CASE frames' = frames + 1 /\ native' = CalleeLoop(n, FALSE) /\ UNCHANGED jit_captures_raw
    <3>1. 0 \in 0..MaxNative
      BY Basics
    <3> QED BY <2>10, <2>11, <3>1 DEF CalleeLoop
  <2>12. CASE frames' = frames + 1 /\ native' = CalleeCode(n, FALSE) /\ jit_captures_raw' = Len(n) + 1
    BY <2>10, <2>12, Basics DEF CalleeCode
  <2> QED BY <2>3, <2>9, <2>11, <2>12
<1>11. CASE CatchesPanic
  <2>1. overflow_jmp # 0 /\ native' = Cut(native, overflow_jmp)
        /\ UNCHANGED <<phase, frames, native_catch_stack, overflow_jmp, jit_call_depth,
                       jit_captures_raw, temp_roots>>
    BY <1>11 DEF CatchesPanic, LongJump, Cut, UInv, JumpsSomewhere
  <2>2. StackInv'
    BY <2>1, CutToTarget DEF StackInv, JmpKinds
  <2>3. IntactInv'
    <3>1. skipped' = (skipped \/ Len(native) > overflow_jmp)
      BY <1>11 DEF CatchesPanic, LongJump
    <3>2. ASSUME ~skipped' PROVE ~skipped /\ native' = native
      <4>1. ~skipped /\ ~(Len(native) > overflow_jmp)
        BY <3>1, <3>2, Zenon
      <4>2. overflow_jmp = Len(native)
        BY <2>1, <4>1, CutToTarget, Basics
      <4>3. Cut(native, Len(native)) = native
        BY Basics DEF Cut
      <4> QED BY <2>1, <4>1, <4>2, <4>3
    <3> QED BY <2>1, <3>2 DEF UInv, IntactInv
  <2> QED BY <2>2, <2>3
<1>12. CASE CatchUnwinds
  <2>1. overflow_jmp # 0 /\ native' = Cut(native, overflow_jmp)
        /\ UNCHANGED <<phase, frames, native_catch_stack, overflow_jmp, jit_call_depth,
                       jit_captures_raw, temp_roots>>
    BY <1>12 DEF CatchUnwinds, LongJump, Cut, UInv, JumpsSomewhere
  <2>2. StackInv'
    BY <2>1, CutToTarget DEF StackInv, JmpKinds
  <2>3. skipped'
    <3>1. Len(native) > overflow_jmp
      BY <1>12, <2>1, CutToTarget, Basics DEF CatchUnwinds
    <3> QED BY <1>12, <3>1 DEF CatchUnwinds, LongJump
  <2> QED BY <2>2, <2>3 DEF IntactInv
<1>13. CASE CatchPassesFatal
  <2>1. Top.kind = "catch" /\ PutBack
    BY <1>13 DEF CatchPassesFatal
  <2>2. Len(native_catch_stack') = Len(native_catch_stack) - 1
    <3>1. CASE native_catch_stack' = BoundaryPopped
      BY <2>1, <3>1, BoundaryThere
    <3>2. CASE AfterBuiltin(Below.kind = "code", BoundaryPopped, 0, TRUE, throw_flag)
      <4>1. BoundaryPopped \in Seq(BOOLEAN) /\ throw_flag \in BOOLEAN /\ TRUE \in BOOLEAN
        BY <2>1, BoundaryThere DEF UInv, TypeOK
      <4> DEFINE compiled == Below.kind = "code"
      <4>2. AfterBuiltin(compiled, BoundaryPopped, 0, TRUE, throw_flag)
        BY <3>2
      <4> HIDE DEF compiled
      <4>3. Len(native_catch_stack') = Len(BoundaryPopped)
        BY <4>1, <4>2, AfterKeeps
      <4> QED BY <2>1, <4>3, BoundaryThere
    <3> QED BY <1>13, <3>1, <3>2 DEF CatchPassesFatal
  <2>3. Popped
    BY <1>13, <2>1, <2>2, Basics, BoundaryThere
    DEF CatchPassesFatal, PutBack, Popped, IsJit, JmpKinds, JumpTargetBefore, JitKept
  <2> QED BY <2>3, PoppedStep
<1>14. CASE Panic
  <2>1. native_catch_stack \in Seq(BOOLEAN) /\ has_error \in BOOLEAN /\ TRUE \in BOOLEAN
    BY DEF UInv, TypeOK
  <2>2. Len(native_catch_stack') = Len(native_catch_stack)
    <3>1. AfterBuiltin(InCompiled, native_catch_stack, overflow_jmp, has_error, TRUE)
      BY <1>14 DEF Panic
    <3> HIDE DEF InCompiled
    <3> QED BY <2>1, <3>1, AfterKeeps
  <2>3. Unmoved
    BY <1>14, <2>2, Basics DEF Panic, Unmoved, JmpKinds
  <2> QED BY <2>3, UnmovedStep
<1>15. CASE Throw
  <2>1. Len(native_catch_stack') = Len(native_catch_stack)
    <3>1. native_catch_stack \in Seq(BOOLEAN)
      BY DEF UInv, TypeOK
    <3> QED BY <1>15, <3>1, CaptureKeeps DEF Throw
  <2>2. Unmoved
    BY <1>15, <2>1, Basics DEF Throw, Unmoved, JmpKinds
  <2> QED BY <2>2, UnmovedStep
<1>16. CASE RuntimePanic
  <2>1. Unmoved
    BY <1>16, Basics DEF RuntimePanic, Unmoved, JmpKinds
  <2> QED BY <2>1, UnmovedStep
<1>17. CASE LeaveLoop
  <2>1. Popped
    BY <1>17, Basics DEF LeaveLoop, Popped, IsJit, JmpKinds
  <2> QED BY <2>1, PoppedStep
<1>18. CASE EndMain
  <2>1. Len(native) = 1
    BY <1>18, RunFacts DEF EndMain
  <2>2. JmpKinds' = {"catch"} /\ overflow_jmp' = 0
        /\ UNCHANGED <<native, frames, native_catch_stack, jit_call_depth, jit_captures_raw,
                       temp_roots, skipped>>
    BY <1>18 DEF EndMain, JmpKinds
  <2>3. Stack(native, {"catch"}, frames, 0, Len(native_catch_stack), jit_call_depth, temp_roots)
    BY <2>1, Basics, OnlyRun DEF UInv, StackInv
  <2>4. IntactInv'
    BY <2>2 DEF UInv, IntactInv
  <2> QED BY <2>2, <2>3, <2>4 DEF StackInv
<1>19. CASE FatalExit
  <2>1. /\ overflow_jmp # 0 /\ native[overflow_jmp].kind = "run"
        /\ native' = Cut(native, overflow_jmp)
        /\ skipped' = (skipped \/ Len(native) > overflow_jmp)
        /\ UNCHANGED <<frames, native_catch_stack, jit_captures_raw, temp_roots>>
        /\ overflow_jmp' = 0 /\ jit_call_depth' = 0
    BY <1>19 DEF FatalExit, LongJump, Cut, UInv, JumpsSomewhere
  <2>2. JmpKinds' = {"catch"}
    BY <1>19 DEF FatalExit, JmpKinds
  <2>3. overflow_jmp = 1
    <3>1. overflow_jmp \in 1..Len(native) /\ RunAtBottom(native)
      BY <2>1, CutToTarget DEF UInv, StackInv, Stack
    <3>2. overflow_jmp \notin 2..Len(native)
      BY <2>1, <3>1 DEF RunAtBottom
    <3> QED BY <3>1, <3>2, Basics
  <2>4. Stack(native', JmpKinds, frames, overflow_jmp, Len(native_catch_stack), jit_call_depth,
              temp_roots)
    BY <2>1, CutToTarget
  <2>5. Len(native') = 1
    <3>1. 1 \in 0..Len(native) /\ native \in Seq(CFrame)
      BY Basics
    <3>2. native' = Cut(native, 1)
      BY <2>1, <2>3
    <3> QED BY <3>1, <3>2, CutFacts
  <2>6. Stack(native', {"catch"}, frames, 0, Len(native_catch_stack), 0, temp_roots)
    BY <2>4, <2>5, Basics, OnlyRun
  <2>7. IntactInv'
    <3>1. ASSUME ~skipped' PROVE ~skipped /\ native' = native
      <4>1. ~skipped /\ ~(Len(native) > overflow_jmp)
        BY <2>1, <3>1, Zenon
      <4>2. Len(native) = 1
        <5>1. \A x \in Nat : x > 0 /\ ~(x > 1) => x = 1
          OBVIOUS
        <5> QED BY <2>3, <4>1, <5>1, Basics
      <4>3. Cut(native, Len(native)) = native
        BY Basics DEF Cut
      <4> QED BY <2>1, <2>3, <4>1, <4>2, <4>3
    <3> QED BY <2>1, <3>1 DEF UInv, IntactInv
  <2> QED BY <2>1, <2>2, <2>6, <2>7 DEF StackInv
<1>20. CASE EndTimers
  <2>1. Unmoved
    BY <1>20, Basics DEF EndTimers, Unmoved, JmpKinds
  <2> QED BY <2>1, UnmovedStep
<1> QED
  BY <1>1, <1>2, <1>3, <1>4, <1>5, <1>6, <1>7, <1>8, <1>9, <1>10, <1>11, <1>12, <1>13, <1>14,
     <1>15, <1>16, <1>17, <1>18, <1>19, <1>20 DEF Next

-----------------------------------------------------------------------------
(* Every step keeps the types. *)

LEMMA TypeStep ==
    ASSUME UInv, Next, StackInv'
    PROVE  TypeOK'
<1> USE DEF InScript, Interpreting, InCompiled, Running, catchVars, jitVars, errorVars
<1>0. TypeOK
  BY DEF UInv
<1>1. phase' \in {"main", "timers", "done"}
  BY <1>0 DEF TypeOK, Next, CallCompiled, CallInterpreted, CallTooDeep, ReturnInterpreted,
     ReturnCompiled, CallBuiltin, CallBack, BuiltinReturns, BeginCatch, CatchReturns,
     CatchesPanic, CatchUnwinds, CatchPassesFatal, Panic, Throw, RuntimePanic, LeaveLoop,
     EndMain, FatalExit, EndTimers
<1>2. /\ native' \in Seq([kind : Kind, height : Nat, saved : Nat, jit : BOOLEAN])
      /\ native' # <<>>
  <2>1. native' \in Seq(CFrame) /\ Len(native') > 0
    BY DEF StackInv, Stack, RunAtBottom
  <2> QED BY <2>1, EmptySeq DEF CFrame
<1>3. frames' \in Nat
  <2>1. CASE ReturnInterpreted \/ ReturnCompiled
    <3>1. frames >= 1
      <4>1. CASE Top.kind \in {"loop", "code"}
        BY <4>1, Basics
      <4>2. CASE Top.kind = "run"
        BY <2>1, <4>2 DEF ReturnInterpreted, ReturnCompiled, UInv, MainInv
      <4> QED BY <2>1, <4>1, <4>2 DEF ReturnInterpreted, ReturnCompiled
    <3>2. frames' = frames - 1
      BY <2>1 DEF ReturnInterpreted, ReturnCompiled
    <3> QED BY <3>1, <3>2, Basics
  <2>2. CASE CatchReturns \/ CatchPassesFatal
    BY <2>2, Basics DEF CatchReturns, CatchPassesFatal, PutBack, FramesPopped
  <2>3. CASE frames' = frames
    BY <2>3, Basics
  <2>4. CASE frames' = frames + 1
    BY <2>4, Basics
  <2>5. CASE BeginCatch
    <3>1. frames' = frames \/ frames' = frames + 1
      <4>1. CASE frames < MAX_CALL_DEPTH
        BY <2>5, <4>1 DEF BeginCatch
      <4>2. CASE ~(frames < MAX_CALL_DEPTH)
        BY <2>5, <4>2 DEF BeginCatch
      <4> QED BY <4>1, <4>2
    <3> QED BY <3>1, <2>3, <2>4
  <2> QED
    BY <2>1, <2>2, <2>3, <2>4, <2>5
    DEF Next, CallCompiled, CallInterpreted, CallTooDeep, CallBuiltin, CallBack, BuiltinReturns,
     CatchesPanic, CatchUnwinds, Panic, Throw, RuntimePanic, LeaveLoop, EndMain, FatalExit, EndTimers
<1>4. overflow_jmp' \in 0..MaxNative /\ jit_call_depth' \in Nat
  <2>1. /\ overflow_jmp' \in 0..Len(native') /\ Len(native') <= MaxNative
        /\ native' \in Seq(CFrame) /\ jit_call_depth' \in Nat
    BY DEF StackInv, Stack, Chain, Innermost, RunAtBottom
  <2>2. Len(native') \in Nat
    BY <2>1, LenProperties
  <2> QED BY <2>1, <2>2, Basics
<1>5. jit_captures_raw' \in 0..MaxNative
  <2>1. CASE jit_captures_raw' = jit_captures_raw
    BY <2>1, Basics
  <2>2. CASE jit_captures_raw' = Len(native) + 1 /\ Len(native) < MaxNative
    BY <2>2, Basics
  <2>3. CASE ReturnCompiled
    BY <2>3, Basics DEF ReturnCompiled, CapturesBefore
  <2>4. CASE BeginCatch
    <3>1. \/ jit_captures_raw' = jit_captures_raw
          \/ jit_captures_raw' = Len(Append(native, NativeFrame("catch", overflow_jmp, FALSE))) + 1
             /\ Len(native) + 1 < MaxNative
      <4>1. CASE frames < MAX_CALL_DEPTH
        BY <2>4, <4>1 DEF BeginCatch
      <4>2. CASE ~(frames < MAX_CALL_DEPTH)
        BY <2>4, <4>2 DEF BeginCatch
      <4> QED BY <4>1, <4>2
    <3>2. Len(Append(native, NativeFrame("catch", overflow_jmp, FALSE))) = Len(native) + 1
      <4>1. NativeFrame("catch", overflow_jmp, FALSE) \in CFrame
        BY Basics DEF CFrame, NativeFrame, Kind
      <4> QED BY <4>1, Basics, PushFacts
    <3> QED BY <3>1, <3>2, Basics
  <2> QED
    BY <2>1, <2>2, <2>3, <2>4
    DEF Next, CallCompiled, CallInterpreted, CallTooDeep, ReturnInterpreted, CallBuiltin, CallBack,
     BuiltinReturns, CatchReturns, CatchesPanic, CatchUnwinds, CatchPassesFatal, Panic, Throw,
     RuntimePanic, LeaveLoop, EndMain, FatalExit, EndTimers
<1>6. temp_roots' \in Seq(1..MaxNative)
  <2>0. temp_roots \in Seq(1..MaxNative)
    BY <1>0 DEF TypeOK
  <2>1. CASE temp_roots' = temp_roots
    BY <2>0, <2>1
  <2>2. CASE CallBuiltin
    <3>1. Len(native) + 1 \in 1..MaxNative
      BY <2>2, Basics DEF CallBuiltin
    <3> QED BY <2>0, <2>2, <3>1, AppendProperties DEF CallBuiltin
  <2>3. CASE BuiltinReturns
    <3>1. Top = native[Len(native)] /\ Len(native) \in 1..Len(native) /\ Top.saved \in Nat
      BY Basics
    <3>2. Top.saved < Len(temp_roots)
      BY <2>3, <3>1 DEF BuiltinReturns, UInv, StackInv, Stack, RootsSaved
    <3>3. Top.saved \in 0..Len(temp_roots)
      BY <3>1, <3>2, Basics
    <3>4. temp_roots' = Cut(temp_roots, Top.saved)
      BY <2>3 DEF BuiltinReturns, Cut
    <3> QED BY <2>0, <3>3, <3>4, CutFacts
  <2> QED
    BY <2>1, <2>2, <2>3
    DEF Next, CallCompiled, CallInterpreted, CallTooDeep, ReturnInterpreted, ReturnCompiled,
     CallBack, BeginCatch, CatchReturns, CatchesPanic, CatchUnwinds, CatchPassesFatal, Panic,
     Throw, RuntimePanic, LeaveLoop, EndMain, FatalExit, EndTimers
<1>7. /\ native_catch_stack' \in Seq(BOOLEAN) /\ has_error' \in BOOLEAN /\ throw_flag' \in BOOLEAN
      /\ ctl' \in {"go", "leave", "jump1", "jump4"}
  <2>0. /\ native_catch_stack \in Seq(BOOLEAN) /\ has_error \in BOOLEAN /\ throw_flag \in BOOLEAN
        /\ ctl \in {"go", "leave", "jump1", "jump4"}
    BY <1>0 DEF TypeOK
  <2>1. CASE BuiltinReturns
    <3> DEFINE compiled == Below.kind = "code"
    <3>1. AfterBuiltin(compiled, native_catch_stack, overflow_jmp, has_error, throw_flag)
      BY <2>1 DEF BuiltinReturns
    <3> HIDE DEF compiled
    <3> QED BY <2>0, <3>1, AfterKeeps
  <2>2. CASE CatchReturns
    <3> DEFINE compiled == Below.kind = "code"
    <3>1. AfterBuiltin(compiled, BoundaryPopped, JumpTargetBefore, FALSE, throw_flag)
          /\ Top.kind = "catch"
      BY <2>2 DEF CatchReturns
    <3>2. BoundaryPopped \in Seq(BOOLEAN) /\ FALSE \in BOOLEAN
      BY <3>1, BoundaryThere
    <3> HIDE DEF compiled
    <3> QED BY <2>0, <3>1, <3>2, AfterKeeps
  <2>3. CASE CatchPassesFatal
    <3>1. Top.kind = "catch" /\ BoundaryPopped \in Seq(BOOLEAN) /\ TRUE \in BOOLEAN
      BY <2>3, BoundaryThere DEF CatchPassesFatal
    <3>2. CASE AfterBuiltin(Below.kind = "code", BoundaryPopped, 0, TRUE, throw_flag)
      <4> DEFINE compiled == Below.kind = "code"
      <4>1. AfterBuiltin(compiled, BoundaryPopped, 0, TRUE, throw_flag)
        BY <3>2
      <4> HIDE DEF compiled
      <4> QED BY <2>0, <3>1, <4>1, AfterKeeps
    <3>3. CASE ctl' = "jump1" /\ native_catch_stack' = BoundaryPopped /\ UNCHANGED <<has_error, throw_flag>>
      BY <2>0, <3>1, <3>3
    <3> QED BY <2>3, <3>2, <3>3 DEF CatchPassesFatal
  <2>4. CASE Panic
    <3>1. AfterBuiltin(InCompiled, native_catch_stack, overflow_jmp, has_error, TRUE) /\ TRUE \in BOOLEAN
      BY <2>4 DEF Panic
    <3> HIDE DEF InCompiled
    <3> QED BY <2>0, <3>1, AfterKeeps
  <2>5. CASE Throw
    <3>1. native_catch_stack' \in Seq(BOOLEAN)
      BY <2>0, <2>5, CaptureKeeps DEF Throw
    <3>2. ctl' \in {"go", "leave", "jump1", "jump4"}
      BY <2>5 DEF Throw
    <3>3. has_error' \in BOOLEAN
      BY <2>0, <2>5 DEF Throw
    <3>4. throw_flag' \in BOOLEAN
      BY <2>0, <2>5 DEF Throw
    <3> QED BY <3>1, <3>2, <3>3, <3>4
  <2>6. CASE BeginCatch
    <3>1. native_catch_stack' \in Seq(BOOLEAN)
      <4>1. FALSE \in BOOLEAN /\ native_catch_stack' = Append(native_catch_stack, FALSE)
        BY <2>6 DEF BeginCatch
      <4> QED BY <2>0, <4>1, AppendProperties
    <3>2. \/ UNCHANGED <<has_error, throw_flag, ctl>>
          \/ has_error' = TRUE /\ ctl' = "jump1" /\ UNCHANGED throw_flag
      <4>1. CASE frames < MAX_CALL_DEPTH
        BY <2>6, <4>1 DEF BeginCatch
      <4>2. CASE ~(frames < MAX_CALL_DEPTH)
        BY <2>6, <4>2 DEF BeginCatch
      <4> QED BY <4>1, <4>2
    <3> QED BY <2>0, <3>1, <3>2
  <2>7. CASE \/ CallCompiled \/ CallInterpreted \/ CallTooDeep \/ ReturnInterpreted \/ ReturnCompiled
             \/ CallBuiltin \/ CallBack \/ CatchesPanic \/ CatchUnwinds \/ RuntimePanic
             \/ LeaveLoop \/ EndMain \/ FatalExit \/ EndTimers
    <3> USE <2>7 DEF CallCompiled, CallInterpreted, CallTooDeep, ReturnInterpreted, ReturnCompiled,
             CallBuiltin, CallBack, CatchesPanic, CatchUnwinds, RuntimePanic, LeaveLoop, EndMain,
             FatalExit, EndTimers, DepthChecked, Report
    <3>1. ctl' \in {"go", "leave", "jump1", "jump4"}
      BY <2>0 DEF Aborting, AfterReturn
    <3>2. has_error' \in BOOLEAN
      BY <2>0
    <3>3. throw_flag' = throw_flag /\ native_catch_stack' = native_catch_stack
      OBVIOUS
    <3> QED BY <2>0, <3>1, <3>2, <3>3
  <2> QED BY <2>1, <2>2, <2>3, <2>4, <2>5, <2>6, <2>7 DEF Next
<1>8. skipped' \in BOOLEAN
  <2>1. skipped \in BOOLEAN
    BY <1>0 DEF TypeOK
  <2>2. skipped' = skipped \/ LongJump
    BY DEF Next, CallCompiled, CallInterpreted, CallTooDeep, ReturnInterpreted, ReturnCompiled,
       CallBuiltin, CallBack, BuiltinReturns, BeginCatch, CatchReturns, CatchesPanic,
       CatchUnwinds, CatchPassesFatal, Panic, Throw, RuntimePanic, LeaveLoop, EndMain,
       FatalExit, EndTimers
  <2> QED BY <2>1, <2>2 DEF LongJump
<1> QED
  BY <1>1, <1>2, <1>3, <1>4, <1>5, <1>6, <1>7, <1>8 DEF TypeOK

-----------------------------------------------------------------------------
(* What a builtin leaves behind it. *)

(* A panic that stays behind stays behind an error. *)
LEMMA AfterPanic ==
    ASSUME NEW compiled, NEW boundaries, NEW jmp, NEW error, NEW throw,
           AfterBuiltin(compiled, boundaries, jmp, error, throw)
    PROVE  throw_flag' => has_error'
BY DEF AfterBuiltin

(* With a place to jump to, script code does not go on with an error. *)
LEMMA AfterStops ==
    ASSUME NEW compiled \in BOOLEAN, NEW boundaries, NEW jmp, jmp # 0, NEW error \in BOOLEAN,
           NEW throw \in BOOLEAN,
           AfterBuiltin(compiled, boundaries, jmp, error, throw)
    PROVE  ~(has_error' /\ ctl' = "go")
BY DEF AfterBuiltin, Aborting

(* Jumps go somewhere, and those of a panic to a boundary. *)
LEMMA AfterJumps ==
    ASSUME NEW compiled \in BOOLEAN, NEW boundaries \in Seq(BOOLEAN), NEW jmp,
           NEW error \in BOOLEAN, NEW throw \in BOOLEAN,
           AfterBuiltin(compiled, boundaries, jmp, error, throw)
    PROVE  /\ ctl' \in {"jump1", "jump4"} => jmp # 0
           /\ ctl' = "jump4" => Len(native_catch_stack') # 0
<1>1. ctl' \in {"jump1", "jump4"} => jmp # 0
  BY DEF AfterBuiltin, Aborting
<1>2. ctl' = "jump4" => boundaries # <<>>
  BY DEF AfterBuiltin, Aborting
<1>3. Len(native_catch_stack') = Len(boundaries)
  BY AfterKeeps
<1> QED BY <1>1, <1>2, <1>3, EmptySeq

NoneCaptured(boundaries) == \A i \in 1..Len(boundaries) : ~boundaries[i]

(* A panic is captured by the innermost boundary only. *)
LEMMA AfterCaptures ==
    ASSUME StackInv', NEW compiled \in BOOLEAN, NEW boundaries \in Seq(BOOLEAN),
           NEW error \in BOOLEAN, NEW throw \in BOOLEAN,
           AfterBuiltin(compiled, boundaries, overflow_jmp', error, throw),
           NoneCaptured(boundaries)
    PROVE  CapturedOnItsWay'
<1>1. /\ Len(native_catch_stack') = Len(boundaries)
      /\ \A i \in 1..Len(boundaries) :
             i # Len(boundaries) => native_catch_stack'[i] = boundaries[i]
  BY AfterKeeps
<1>2. CASE native_catch_stack' = boundaries
  BY <1>1, <1>2 DEF CapturedOnItsWay, NoneCaptured
<1>3. CASE boundaries # <<>> /\ ctl' = (IF overflow_jmp' # 0 THEN "jump4" ELSE IF compiled THEN "go" ELSE "leave")
  <2>1. Len(native_catch_stack') # 0
    BY <1>1, <1>3, EmptySeq
  <2>2. JmpKinds' \in SUBSET {"run", "catch"} /\ "catch" \in JmpKinds'
    BY DEF JmpKinds
  <2>3. overflow_jmp' \in 2..Len(native')
    BY <2>1, <2>2, BoundaryTarget DEF StackInv
  <2>4. ctl' = "jump4"
    BY <1>3, <2>3
  <2> QED BY <1>1, <2>4 DEF CapturedOnItsWay, NoneCaptured
<1> QED BY <1>2, <1>3 DEF AfterBuiltin

LEMMA NothingCaptured ==
    ASSUME UInv, ctl # "jump4", ctl = "go" => Top.kind # "catch"
    PROVE  NoneCaptured(native_catch_stack)
BY DEF UInv, CapturedOnItsWay, NoneCaptured

LEMMA BelowTopBoundary ==
    ASSUME UInv, Top.kind = "catch"
    PROVE  NoneCaptured(BoundaryPopped)
<1>1. /\ Len(native_catch_stack) \in Nat /\ Len(BoundaryPopped) = Len(native_catch_stack) - 1
      /\ \A i \in 1..(Len(native_catch_stack) - 1) : BoundaryPopped[i] = native_catch_stack[i]
  BY BoundaryThere, Basics
<1>2. ASSUME NEW i \in 1..Len(BoundaryPopped) PROVE ~BoundaryPopped[i]
  <2>1. i \in 1..Len(native_catch_stack) /\ i # Len(native_catch_stack)
        /\ BoundaryPopped[i] = native_catch_stack[i]
    BY <1>1
  <2>2. ~native_catch_stack[i]
    BY <2>1 DEF UInv, CapturedOnItsWay
  <2> QED BY <2>1, <2>2
<1> QED BY <1>2 DEF NoneCaptured

LEMMA PanicStep ==
    ASSUME PanicNotForgotten, Next
    PROVE  PanicNotForgotten'
<1> USE DEF InScript, Interpreting, InCompiled, Running, catchVars, jitVars, errorVars
<1>1. CASE BuiltinReturns \/ CatchReturns \/ CatchPassesFatal \/ Panic
  <2>1. \/ throw_flag' => has_error'
        \/ UNCHANGED <<has_error, throw_flag>>
    BY <1>1, AfterPanic DEF BuiltinReturns, CatchReturns, CatchPassesFatal, Panic
  <2> QED BY <2>1 DEF PanicNotForgotten
<1>2. CASE BeginCatch
  <2>1. CASE frames < MAX_CALL_DEPTH
    BY <1>2, <2>1 DEF BeginCatch, PanicNotForgotten
  <2>2. CASE ~(frames < MAX_CALL_DEPTH)
    BY <1>2, <2>2 DEF BeginCatch, PanicNotForgotten
  <2> QED BY <2>1, <2>2
<1>3. CASE \/ CallCompiled \/ CallInterpreted \/ CallTooDeep \/ ReturnInterpreted \/ ReturnCompiled
           \/ CallBuiltin \/ CallBack \/ CatchesPanic \/ CatchUnwinds \/ Throw \/ RuntimePanic
           \/ LeaveLoop \/ EndMain \/ FatalExit \/ EndTimers
  <2>1. throw_flag' = throw_flag /\ (has_error' = has_error \/ has_error' = TRUE)
    BY <1>3 DEF CallCompiled, CallInterpreted, CallTooDeep, ReturnInterpreted, ReturnCompiled,
       CallBuiltin, CallBack, CatchesPanic, CatchUnwinds, Throw, RuntimePanic, LeaveLoop,
       EndMain, FatalExit, EndTimers, DepthChecked, Report
  <2> QED BY <2>1 DEF PanicNotForgotten
<1> QED BY <1>1, <1>2, <1>3 DEF Next

LEMMA JumpsStep ==
    ASSUME UInv, Next
    PROVE  JumpsSomewhere'
<1> USE DEF InScript, Interpreting, InCompiled, Running, catchVars, jitVars, errorVars
<1>0. /\ native_catch_stack \in Seq(BOOLEAN) /\ has_error \in BOOLEAN /\ throw_flag \in BOOLEAN
      /\ JumpsSomewhere
  BY DEF UInv, TypeOK
<1>1. CASE BuiltinReturns
  <2> DEFINE compiled == Below.kind = "code"
  <2>1. AfterBuiltin(compiled, native_catch_stack, overflow_jmp, has_error, throw_flag)
        /\ compiled \in BOOLEAN /\ overflow_jmp' = overflow_jmp
    BY <1>1 DEF BuiltinReturns
  <2> HIDE DEF compiled
  <2> QED BY <1>0, <2>1, AfterJumps DEF JumpsSomewhere
<1>2. CASE CatchReturns
  <2> DEFINE compiled == Below.kind = "code"
  <2>1. AfterBuiltin(compiled, BoundaryPopped, JumpTargetBefore, FALSE, throw_flag)
        /\ compiled \in BOOLEAN /\ FALSE \in BOOLEAN /\ overflow_jmp' = JumpTargetBefore
        /\ Top.kind = "catch"
    BY <1>2 DEF CatchReturns, PutBack
  <2> HIDE DEF compiled
  <2> QED BY <1>0, <2>1, BoundaryThere, AfterJumps DEF JumpsSomewhere
<1>3. CASE CatchPassesFatal
  <2> DEFINE compiled == Below.kind = "code"
  <2>1. Top.kind = "catch" /\ overflow_jmp' = JumpTargetBefore
        /\ compiled \in BOOLEAN /\ TRUE \in BOOLEAN
    BY <1>3 DEF CatchPassesFatal, PutBack
  <2>2. CASE JumpTargetBefore # 0
    BY <1>3, <2>1, <2>2 DEF CatchPassesFatal, JumpsSomewhere
  <2>3. CASE JumpTargetBefore = 0
    <3>1. AfterBuiltin(compiled, BoundaryPopped, 0, TRUE, throw_flag)
      BY <1>3, <2>3 DEF CatchPassesFatal
    <3> HIDE DEF compiled
    <3> QED BY <1>0, <2>1, <3>1, BoundaryThere, AfterJumps DEF JumpsSomewhere
  <2> QED BY <2>2, <2>3
<1>4. CASE Panic
  <2>1. AfterBuiltin(InCompiled, native_catch_stack, overflow_jmp, has_error, TRUE)
        /\ InCompiled \in BOOLEAN /\ TRUE \in BOOLEAN /\ overflow_jmp' = overflow_jmp
    BY <1>4 DEF Panic
  <2> HIDE DEF InCompiled
  <2> QED BY <1>0, <2>1, AfterJumps DEF JumpsSomewhere
<1>5. CASE Throw
  <2>1. CASE native_catch_stack # <<>>
    <3>1. Len(native_catch_stack') # 0
      BY <1>0, <1>5, <2>1, CaptureKeeps, EmptySeq DEF Throw
    <3> QED BY <1>5, <2>1, <3>1 DEF Throw, JumpsSomewhere
  <2>2. CASE native_catch_stack = <<>>
    BY <1>5, <2>2 DEF Throw, JumpsSomewhere
  <2> QED BY <2>1, <2>2
<1>6. CASE BeginCatch
  <2>1. overflow_jmp' # 0
    BY <1>6, Basics DEF BeginCatch
  <2>2. ctl' # "jump4"
    <3>1. CASE frames < MAX_CALL_DEPTH
      BY <1>6, <3>1 DEF BeginCatch
    <3>2. CASE ~(frames < MAX_CALL_DEPTH)
      BY <1>6, <3>2 DEF BeginCatch
    <3> QED BY <3>1, <3>2
  <2> QED BY <2>1, <2>2 DEF JumpsSomewhere
<1>7. CASE EndMain \/ FatalExit \/ CatchesPanic
  BY <1>7 DEF EndMain, FatalExit, CatchesPanic, JumpsSomewhere
<1>8. CASE \/ CallCompiled \/ CallInterpreted \/ CallTooDeep \/ ReturnInterpreted \/ ReturnCompiled
           \/ CallBuiltin \/ CallBack \/ CatchUnwinds \/ RuntimePanic \/ LeaveLoop \/ EndTimers
  <2>1. /\ overflow_jmp' = overflow_jmp
        /\ ctl' \in {"go", "leave", Aborting(overflow_jmp)} \/ (ctl' = ctl /\ ctl # "jump4")
    BY <1>8 DEF CallCompiled, CallInterpreted, CallTooDeep, ReturnInterpreted, ReturnCompiled,
       CallBuiltin, CallBack, CatchUnwinds, RuntimePanic, LeaveLoop, EndTimers, DepthChecked,
       Report, AfterReturn
  <2> QED BY <1>0, <2>1 DEF JumpsSomewhere, Aborting
<1> QED BY <1>1, <1>2, <1>3, <1>4, <1>5, <1>6, <1>7, <1>8 DEF Next

LEMMA CapturedStep ==
    ASSUME UInv, Next, StackInv'
    PROVE  CapturedOnItsWay'
<1> USE DEF InScript, Interpreting, InCompiled, Running, catchVars, jitVars, errorVars
<1>0. /\ native_catch_stack \in Seq(BOOLEAN) /\ has_error \in BOOLEAN /\ throw_flag \in BOOLEAN
  BY DEF UInv, TypeOK
<1>1. CASE BuiltinReturns
  <2> DEFINE compiled == Below.kind = "code"
  <2>1. AfterBuiltin(compiled, native_catch_stack, overflow_jmp', has_error, throw_flag)
        /\ compiled \in BOOLEAN
    BY <1>1 DEF BuiltinReturns
  <2>2. NoneCaptured(native_catch_stack)
    BY <1>1, NothingCaptured DEF BuiltinReturns
  <2> HIDE DEF compiled
  <2> QED BY <1>0, <2>1, <2>2, AfterCaptures
<1>2. CASE CatchReturns
  <2> DEFINE compiled == Below.kind = "code"
  <2>1. AfterBuiltin(compiled, BoundaryPopped, overflow_jmp', FALSE, throw_flag)
        /\ compiled \in BOOLEAN /\ FALSE \in BOOLEAN /\ Top.kind = "catch"
    BY <1>2 DEF CatchReturns, PutBack
  <2> HIDE DEF compiled
  <2> QED BY <1>0, <2>1, BoundaryThere, BelowTopBoundary, AfterCaptures
<1>3. CASE CatchPassesFatal
  <2> DEFINE compiled == Below.kind = "code"
  <2>1. Top.kind = "catch" /\ overflow_jmp' = JumpTargetBefore
        /\ compiled \in BOOLEAN /\ TRUE \in BOOLEAN
    BY <1>3 DEF CatchPassesFatal, PutBack
  <2>2. CASE JumpTargetBefore # 0
    <3>1. native_catch_stack' = BoundaryPopped
      BY <1>3, <2>2 DEF CatchPassesFatal
    <3> QED BY <2>1, <3>1, BelowTopBoundary DEF CapturedOnItsWay, NoneCaptured
  <2>3. CASE JumpTargetBefore = 0
    <3>1. AfterBuiltin(compiled, BoundaryPopped, overflow_jmp', TRUE, throw_flag)
      BY <1>3, <2>1, <2>3 DEF CatchPassesFatal
    <3> HIDE DEF compiled
    <3> QED BY <1>0, <2>1, <3>1, BoundaryThere, BelowTopBoundary, AfterCaptures
  <2> QED BY <2>2, <2>3
<1>4. CASE Panic
  <2>1. AfterBuiltin(InCompiled, native_catch_stack, overflow_jmp', has_error, TRUE)
        /\ InCompiled \in BOOLEAN /\ TRUE \in BOOLEAN
    BY <1>4 DEF Panic
  <2>2. NoneCaptured(native_catch_stack)
    BY <1>4, NothingCaptured DEF Panic
  <2> HIDE DEF InCompiled
  <2> QED BY <1>0, <2>1, <2>2, AfterCaptures
<1>5. CASE Throw
  <2>1. NoneCaptured(native_catch_stack)
    BY <1>5, NothingCaptured DEF Throw
  <2>2. CASE native_catch_stack # <<>>
    <3>1. /\ Len(native_catch_stack') = Len(native_catch_stack)
          /\ \A i \in 1..Len(native_catch_stack) :
                 i # Len(native_catch_stack) => native_catch_stack'[i] = native_catch_stack[i]
      BY <1>0, <1>5, <2>2, CaptureKeeps DEF Throw
    <3>2. overflow_jmp # 0
      <4>1. Len(native_catch_stack) # 0
        BY <1>0, <2>2, EmptySeq
      <4>2. overflow_jmp \in 2..Len(native)
        BY <4>1, Basics, BoundaryTarget DEF UInv, StackInv
      <4> QED BY <4>2
    <3>3. ctl' = "jump4"
      BY <1>5, <2>2, <3>2 DEF Throw
    <3> QED BY <2>1, <3>1, <3>3 DEF CapturedOnItsWay, NoneCaptured
  <2>3. CASE native_catch_stack = <<>>
    BY <1>5, <2>1, <2>3 DEF Throw, CapturedOnItsWay, NoneCaptured
  <2> QED BY <2>2, <2>3
<1>6. CASE BeginCatch
  <2>1. NoneCaptured(native_catch_stack)
    BY <1>6, NothingCaptured DEF BeginCatch
  <2>2. native_catch_stack' = Append(native_catch_stack, FALSE) /\ FALSE \in BOOLEAN
    BY <1>6 DEF BeginCatch
  <2>3. /\ Len(native_catch_stack') = Len(native_catch_stack) + 1
        /\ \A i \in 1..Len(native_catch_stack) : native_catch_stack'[i] = native_catch_stack[i]
        /\ native_catch_stack'[Len(native_catch_stack) + 1] = FALSE
    BY <1>0, <2>2, AppendProperties
  <2>4. ASSUME NEW i \in 1..Len(native_catch_stack') PROVE ~native_catch_stack'[i]
    <3>1. i \in 1..Len(native_catch_stack) \/ i = Len(native_catch_stack) + 1
      BY <2>3, Basics
    <3> QED BY <2>1, <2>3, <3>1 DEF NoneCaptured
  <2> QED BY <2>4 DEF CapturedOnItsWay
<1>7. CASE CatchesPanic
  <2>1. Len(native_catch_stack) # 0 /\ overflow_jmp # 0 /\ native_catch_stack' = native_catch_stack
        /\ native' = Cut(native, overflow_jmp) /\ ctl' = "go"
    <3>1. ctl = "jump4" /\ ctl' = "go"
      BY <1>7 DEF CatchesPanic
    <3>2. native' = Cut(native, overflow_jmp)
      BY <1>7 DEF CatchesPanic, LongJump, Cut
    <3>3. native_catch_stack' = native_catch_stack
      BY <1>7 DEF CatchesPanic, catchVars
    <3>4. Len(native_catch_stack) # 0 /\ overflow_jmp # 0
      BY <3>1 DEF UInv, JumpsSomewhere
    <3> QED BY <3>1, <3>2, <3>3, <3>4
  <2>2. overflow_jmp \in 2..Len(native) /\ native[overflow_jmp].kind = "catch"
    BY <2>1, Basics, BoundaryTarget DEF UInv, StackInv
  <2>3. native' \in Seq(CFrame) /\ Len(native') = overflow_jmp
        /\ native'[overflow_jmp] = native[overflow_jmp]
    <3>1. overflow_jmp \in 0..Len(native) /\ overflow_jmp \in 1..overflow_jmp
      BY <2>2, Basics
    <3> QED BY <2>1, <3>1, Basics, CutFacts
  <2>4. Last(native').kind = "catch"
    BY <2>2, <2>3 DEF Last
  <2> QED BY <2>1, <2>4 DEF UInv, CapturedOnItsWay, Top
<1>8. CASE \/ CallCompiled \/ CallInterpreted \/ CallTooDeep \/ ReturnInterpreted \/ ReturnCompiled
           \/ CallBuiltin \/ CallBack \/ CatchUnwinds \/ RuntimePanic \/ LeaveLoop \/ EndMain
           \/ FatalExit \/ EndTimers
  <2>1. /\ native_catch_stack' = native_catch_stack
        /\ ctl # "jump4"
        /\ ctl = "go" => Top.kind # "catch"
    BY <1>8 DEF CallCompiled, CallInterpreted, CallTooDeep, ReturnInterpreted, ReturnCompiled,
       CallBuiltin, CallBack, CatchUnwinds, RuntimePanic, LeaveLoop, EndMain, FatalExit, EndTimers
  <2>2. NoneCaptured(native_catch_stack)
    BY <2>1, NothingCaptured
  <2> QED BY <2>1, <2>2 DEF CapturedOnItsWay, NoneCaptured
<1> QED BY <1>1, <1>2, <1>3, <1>4, <1>5, <1>6, <1>7, <1>8 DEF Next

-----------------------------------------------------------------------------
(* The main program. *)

LEMMA MainPush ==
    ASSUME NEW n \in Seq(CFrame), Len(n) > 0, NEW f \in CFrame, MainStack(n), f.height >= 1,
           f.kind = "loop" /\ ~f.jit => n[Len(n)].kind \in Guards
    PROVE  /\ MainStack(Append(n, f))
           /\ Guarded(n) \/ f.kind \in Guards => Guarded(Append(n, f))
<1> DEFINE m == Append(n, f)
<1>1. /\ Len(m) = Len(n) + 1 /\ Len(n) \in Nat
      /\ \A i \in 1..Len(n) : m[i] = n[i]
      /\ m[Len(n) + 1] = f
  BY PushFacts
<1> HIDE DEF m
<1>2. ASSUME NEW i \in 2..Len(m)
      PROVE  /\ m[i].height >= 1
             /\ m[i].kind = "loop" /\ ~m[i].jit => m[i - 1].kind \in Guards
  <2>1. CASE i = Len(n) + 1
    <3>1. m[i] = f /\ m[i - 1] = n[Len(n)]
      BY <1>1, <2>1
    <3> QED BY <3>1
  <2>2. CASE i # Len(n) + 1
    <3>1. i \in 2..Len(n) /\ i - 1 \in 1..Len(n) /\ i \in 1..Len(n)
      BY <1>1, <2>2
    <3> QED BY <1>1, <3>1 DEF MainStack
  <2> QED BY <2>1, <2>2
<1>3. MainStack(m)
  BY <1>2 DEF MainStack
<1>4. ASSUME Guarded(n) PROVE Guarded(m)
  <2>1. PICK i \in 1..Len(n) : n[i].kind \in Guards
    BY <1>4 DEF Guarded
  <2>2. i \in 1..Len(m) /\ m[i] = n[i]
    BY <1>1
  <2> QED BY <2>1, <2>2 DEF Guarded
<1>5. ASSUME f.kind \in Guards PROVE Guarded(m)
  <2>1. Len(n) + 1 \in 1..Len(m)
    BY <1>1
  <2> QED BY <1>1, <1>5, <2>1 DEF Guarded
<1> QED BY <1>3, <1>4, <1>5 DEF m

LEMMA MainCut ==
    ASSUME NEW n \in Seq(CFrame), NEW k \in 1..Len(n), MainStack(n)
    PROVE  /\ MainStack(Cut(n, k))
           /\ \A i \in 1..k : n[i].kind \in Guards => Guarded(Cut(n, k))
<1> DEFINE m == Cut(n, k)
<1>1. Len(m) = k /\ k <= Len(n) /\ Len(n) \in Nat /\ \A i \in 1..k : m[i] = n[i]
  <2>1. k \in 0..Len(n) /\ Len(n) \in Nat /\ k <= Len(n)
    BY LenProperties
  <2> QED BY <2>1, CutFacts
<1> HIDE DEF m
<1>2. ASSUME NEW i \in 2..Len(m)
      PROVE  /\ m[i].height >= 1
             /\ m[i].kind = "loop" /\ ~m[i].jit => m[i - 1].kind \in Guards
  <2>1. i \in 2..Len(n) /\ i \in 1..k /\ i - 1 \in 1..k
    BY <1>1
  <2> QED BY <1>1, <2>1 DEF MainStack
<1>3. MainStack(m)
  BY <1>2 DEF MainStack
<1>4. ASSUME NEW i \in 1..k, n[i].kind \in Guards PROVE Guarded(m)
  BY <1>1, <1>4 DEF Guarded
<1> QED BY <1>3, <1>4 DEF m

LEMMA MainPop ==
    ASSUME NEW n \in Seq(CFrame), Len(n) > 1, MainStack(n)
    PROVE  /\ MainStack(Front(n))
           /\ Guarded(n) /\ n[Len(n)].kind \notin Guards => Guarded(Front(n))
           /\ n[Len(n) - 1].kind \in Guards => Guarded(Front(n))
           /\ n[Len(n)].height >= 1
           /\ n[Len(n)].kind = "loop" /\ ~n[Len(n)].jit => Guarded(Front(n))
<1> DEFINE k == Len(n) - 1
<1>1. Len(n) \in Nat /\ k \in 1..Len(n) /\ k \in 1..k /\ Len(n) \in 2..Len(n)
  BY LenProperties
<1>2. Front(n) = Cut(n, k)
  BY FrontIsCut
<1>3. \A i \in 1..Len(n) : i \in 1..k \/ i = Len(n)
  BY <1>1
<1>4. MainStack(Cut(n, k)) /\ \A i \in 1..k : n[i].kind \in Guards => Guarded(Cut(n, k))
  BY <1>1, MainCut
<1>5. n[Len(n)].height >= 1 /\ (n[Len(n)].kind = "loop" /\ ~n[Len(n)].jit => n[k].kind \in Guards)
  BY <1>1 DEF MainStack
<1>6. Guarded(n) /\ n[Len(n)].kind \notin Guards => Guarded(Cut(n, k))
  BY <1>3, <1>4 DEF Guarded
<1> QED BY <1>1, <1>2, <1>4, <1>5, <1>6

LEMMA MainStep ==
    ASSUME UInv, Next, StackInv', phase' = "main"
    PROVE  /\ MainStack(native')
           /\ Len(native') > 1 \/ ctl' = "go" => frames' >= 1
           /\ has_error' /\ ~Guarded(native') => ctl' # "go"
<1> USE DEF InScript, Interpreting, InCompiled, Running, catchVars, jitVars, errorVars
<1> DEFINE Goal == /\ MainStack(native')
                   /\ Len(native') > 1 \/ ctl' = "go" => frames' >= 1
                   /\ has_error' /\ ~Guarded(native') => ctl' # "go"
<1>0. /\ native \in Seq(CFrame) /\ Len(native) \in Nat /\ Len(native) > 0
      /\ Top = native[Len(native)] /\ frames \in Nat /\ Top.height \in Nat
      /\ has_error \in BOOLEAN /\ throw_flag \in BOOLEAN
  BY Basics DEF UInv, TypeOK
<1>a. ~EndMain /\ ~FatalExit /\ ~EndTimers
  BY DEF EndMain, FatalExit, EndTimers
<1>b. phase = "main" /\ overflow_jmp' # 0
  <2>1. phase = "main"
    BY <1>a DEF Next, CallCompiled, CallInterpreted, CallTooDeep, ReturnInterpreted,
       ReturnCompiled, CallBuiltin, CallBack, BuiltinReturns, BeginCatch, CatchReturns,
       CatchesPanic, CatchUnwinds, CatchPassesFatal, Panic, Throw, RuntimePanic, LeaveLoop
  <2>2. "run" \in JmpKinds' /\ RunAtBottom(native')
        /\ Innermost(native', JmpKinds', overflow_jmp', Len(native'))
    BY DEF JmpKinds, StackInv, Stack, Chain
  <2>3. Len(native') \in 1..Len(native')
    BY <2>2, LenProperties DEF RunAtBottom
  <2>4. overflow_jmp' \in 1..Len(native')
    BY <2>2, <2>3, RunTarget
  <2> QED BY <2>1, <2>4
<1>c. overflow_jmp # 0
  <2>1. "run" \in JmpKinds /\ RunAtBottom(native)
        /\ Innermost(native, JmpKinds, overflow_jmp, Len(native))
    BY <1>b DEF JmpKinds, UInv, StackInv, Stack, Chain
  <2>2. Len(native) \in 1..Len(native)
    BY <1>0
  <2>3. overflow_jmp \in 1..Len(native)
    BY <2>1, <2>2, RunTarget
  <2> QED BY <2>3
<1>d. /\ MainStack(native)
      /\ Len(native) > 1 \/ ctl = "go" => frames >= 1
      /\ has_error /\ ~Guarded(native) => ctl # "go"
  BY <1>b DEF UInv, MainInv
<1>e. Top.kind \in Guards => Guarded(native)
  <2>1. Len(native) \in 1..Len(native)
    BY <1>0
  <2> QED BY <1>0, <2>1 DEF Guarded
<1>f. Top.kind # "run" => Len(native) > 1
  BY <1>0 DEF UInv, StackInv, Stack, RunAtBottom
<1>p. ASSUME NEW kind \in Kind, NEW saved \in Nat, NEW jit \in BOOLEAN, ctl = "go",
             native' = Append(native, NativeFrame(kind, saved, jit)),
             kind = "loop" /\ ~jit => Top.kind \in Guards,
             frames' >= frames, frames' \in Nat, has_error' = has_error
      PROVE  Goal
  <2> DEFINE f == NativeFrame(kind, saved, jit)
  <2>1. f \in CFrame /\ f.kind = kind /\ f.height = frames /\ f.jit = jit
    BY <1>0 DEF NativeFrame, CFrame
  <2> HIDE DEF f
  <2>2. frames >= 1 /\ frames' >= 1 /\ (has_error => Guarded(native))
    BY <1>0, <1>d, <1>p
  <2>3. MainStack(Append(native, f)) /\ (Guarded(native) => Guarded(Append(native, f)))
    BY <1>0, <1>d, <1>p, <2>1, <2>2, MainPush
  <2>4. native' = Append(native, f)
    BY <1>p DEF f
  <2> QED BY <1>p, <2>2, <2>3, <2>4
<1>1. CASE CallCompiled
  <2>1. has_error' = has_error
    BY <1>1, <1>c DEF CallCompiled, DepthChecked
  <2>2. /\ native' = Append(native, NativeFrame("code", jit_captures_raw, InCompiled))
        /\ frames' = frames + 1 /\ ctl = "go" /\ InCompiled \in BOOLEAN
    BY <1>1 DEF CallCompiled, CalleeCode
  <2>3. "code" \in Kind /\ jit_captures_raw \in Nat
    BY Basics DEF Kind
  <2> HIDE DEF InCompiled
  <2>4. frames' >= frames /\ frames' \in Nat
    BY <1>0, <2>2
  <2> QED BY <1>p, <2>1, <2>2, <2>3, <2>4
<1>2. CASE CallInterpreted
  <2>1. has_error' = has_error /\ ctl = "go" /\ frames' = frames + 1
    BY <1>2, <1>c DEF CallInterpreted, DepthChecked
  <2>2. frames' >= frames /\ frames' \in Nat
    BY <1>0, <2>1
  <2>3. CASE InCompiled
    <3>1. native' = Append(native, NativeFrame("loop", 0, TRUE))
      BY <1>2, <2>3 DEF CallInterpreted, CalleeLoop
    <3>2. "loop" \in Kind /\ 0 \in Nat /\ TRUE \in BOOLEAN
      BY DEF Kind
    <3> QED BY <1>p, <2>1, <2>2, <3>1, <3>2
  <2>4. CASE ~InCompiled
    <3>1. native' = native
      BY <1>2, <2>4 DEF CallInterpreted
    <3> QED BY <1>0, <1>d, <2>1, <2>2, <3>1
  <2> QED BY <2>3, <2>4
<1>3. CASE CallTooDeep \/ RuntimePanic
  <2>1. native' = native /\ frames' = frames /\ ctl' # "go" /\ ctl = "go"
    BY <1>3, <1>c DEF CallTooDeep, RuntimePanic, Report, Aborting
  <2> QED BY <1>d, <2>1
<1>4. CASE ReturnInterpreted
  <2>0. ctl = "go" /\ frames' = frames - 1 /\ has_error' = has_error /\ frames >= 1
    BY <1>4, <1>d DEF ReturnInterpreted
  <2>1. CASE Top.kind = "loop" /\ frames' <= Top.height
    <3>1. native' = Front(native)
      BY <1>4, <2>1 DEF ReturnInterpreted
    <3>2. frames > Top.height
      BY <2>1, Basics
    <3>3. frames' = Top.height
      BY <1>0, <2>0, <2>1, <3>2
    <3>4. Len(native) > 1 /\ Top.kind \notin Guards
      BY <1>f, <2>1 DEF Guards
    <3>5. MainStack(native') /\ Top.height >= 1 /\ (Guarded(native) => Guarded(native'))
      BY <1>0, <1>d, <3>1, <3>4, MainPop
    <3> QED BY <1>d, <2>0, <3>3, <3>5
  <2>2. CASE ~(Top.kind = "loop" /\ frames' <= Top.height)
    <3>1. native' = native /\ ctl' = (IF frames' = 0 THEN "leave" ELSE "go")
      BY <1>4, <2>2 DEF ReturnInterpreted, AfterReturn
    <3>2. frames' \in Nat
      BY <1>0, <2>0
    <3>3. Len(native) > 1 => frames' >= 1
      <4>1. CASE Top.kind = "loop"
        BY <1>0, <2>2, <3>2, <4>1
      <4>2. CASE Top.kind = "run"
        <5>1. Len(native) = 1
          BY <4>2, RunFacts
        <5> QED BY <5>1
      <4> QED BY <1>4, <4>1, <4>2 DEF ReturnInterpreted
    <3>4. ctl' = "go" => frames' >= 1
      BY <3>1, <3>2
    <3>5. Len(native') > 1 \/ ctl' = "go" => frames' >= 1
      BY <3>1, <3>3, <3>4
    <3>6. ~(has_error' /\ ~Guarded(native'))
      BY <1>d, <2>0, <3>1
    <3> QED BY <1>d, <3>1, <3>5, <3>6
  <2> QED BY <2>1, <2>2
<1>5. CASE ReturnCompiled
  <2>1. ctl = "go" /\ frames' = frames - 1 /\ has_error' = has_error /\ native' = Front(native)
        /\ Top.kind = "code"
    BY <1>5 DEF ReturnCompiled
  <2>2. frames > Top.height
    BY <2>1, Basics
  <2>3. Len(native) > 1 /\ Top.kind \notin Guards
    BY <1>f, <2>1 DEF Guards
  <2>4. MainStack(native') /\ Top.height >= 1 /\ (Guarded(native) => Guarded(native'))
    BY <1>0, <1>d, <2>1, <2>3, MainPop
  <2> QED BY <1>0, <1>d, <2>1, <2>2, <2>4
<1>6. CASE CallBuiltin
  <2>1. /\ native' = Append(native, NativeFrame("builtin", Len(temp_roots), FALSE))
        /\ frames' = frames /\ ctl = "go" /\ has_error' = has_error
    BY <1>6 DEF CallBuiltin
  <2>2. "builtin" \in Kind /\ Len(temp_roots) \in Nat /\ FALSE \in BOOLEAN /\ frames' >= frames
        /\ frames' \in Nat
    BY <1>0, <2>1, Basics DEF Kind
  <2> QED BY <1>p, <2>1, <2>2
<1>7. CASE CallBack
  <2>1. ctl = "go" /\ Top.kind = "builtin" /\ Top.kind \in Guards
    BY <1>7, <1>b DEF CallBack, Guards
  <2>2. CASE frames < MAX_CALL_DEPTH
    <3>1. frames' = frames + 1 /\ has_error' = has_error
          /\ \/ native' = Append(native, NativeFrame("loop", 0, FALSE))
             \/ native' = Append(native, NativeFrame("code", jit_captures_raw, FALSE))
      BY <1>7, <2>2 DEF CallBack, CalleeLoop, CalleeCode
    <3>2. "loop" \in Kind /\ "code" \in Kind /\ 0 \in Nat /\ jit_captures_raw \in Nat
          /\ FALSE \in BOOLEAN /\ frames' >= frames /\ frames' \in Nat
      BY <1>0, <3>1, Basics DEF Kind
    <3> QED BY <1>p, <2>1, <3>1, <3>2
  <2>3. CASE ~(frames < MAX_CALL_DEPTH)
    <3>1. native' = native /\ frames' = frames
      BY <1>7, <2>3 DEF CallBack
    <3> QED BY <1>d, <1>e, <2>1, <3>1
  <2> QED BY <2>2, <2>3
<1>8. CASE BuiltinReturns
  <2> DEFINE compiled == Below.kind = "code"
  <2>1. ctl = "go" /\ Top.kind = "builtin" /\ native' = Front(native) /\ frames' = frames
        /\ AfterBuiltin(compiled, native_catch_stack, overflow_jmp, has_error, throw_flag)
        /\ compiled \in BOOLEAN
    BY <1>8 DEF BuiltinReturns
  <2> HIDE DEF compiled
  <2>2. ~(has_error' /\ ctl' = "go")
    BY <1>0, <1>c, <2>1, AfterStops
  <2>3. MainStack(native')
    BY <1>0, <1>d, <1>f, <2>1, MainPop
  <2> QED BY <1>d, <2>1, <2>2, <2>3
<1>9. CASE CatchReturns
  <2> DEFINE compiled == Below.kind = "code"
  <2>1. Top.kind = "catch" /\ native' = Front(native) /\ frames' = FramesPopped
        /\ AfterBuiltin(compiled, BoundaryPopped, overflow_jmp', FALSE, throw_flag)
        /\ compiled \in BOOLEAN /\ FALSE \in BOOLEAN
    BY <1>9 DEF CatchReturns, PutBack
  <2> HIDE DEF compiled
  <2>2. ~(has_error' /\ ctl' = "go")
    BY <1>0, <1>b, <2>1, AfterStops
  <2>3. MainStack(native') /\ Top.height >= 1
    BY <1>0, <1>d, <1>f, <2>1, MainPop
  <2>4. frames' = Top.height
    BY <2>1, BoundaryThere
  <2> QED BY <2>1, <2>2, <2>3, <2>4
<1>10. CASE CatchPassesFatal
  <2>1. Top.kind = "catch" /\ native' = Front(native) /\ frames' = FramesPopped
        /\ overflow_jmp' = JumpTargetBefore
    BY <1>10 DEF CatchPassesFatal, PutBack
  <2>2. ctl' = "jump1"
    BY <1>10, <1>b, <2>1 DEF CatchPassesFatal
  <2>3. MainStack(native') /\ Top.height >= 1
    BY <1>0, <1>d, <1>f, <2>1, MainPop
  <2>4. frames' = Top.height
    BY <2>1, BoundaryThere
  <2> QED BY <2>2, <2>3, <2>4
<1>11. CASE BeginCatch
  <2> DEFINE f == NativeFrame("catch", overflow_jmp, FALSE)
             n == Append(native, f)
  <2>1. ctl = "go" /\ frames >= 1
    BY <1>11, <1>d DEF BeginCatch
  <2>2. f \in CFrame /\ f.kind = "catch" /\ f.height = frames
    BY <1>0, Basics DEF NativeFrame, CFrame, Kind
  <2> HIDE DEF f
  <2>3. MainStack(n) /\ Guarded(n)
    BY <1>0, <1>d, <2>1, <2>2, MainPush DEF Guards
  <2>4. n \in Seq(CFrame) /\ Len(n) > 0 /\ n[Len(n)] = f
    BY <1>0, <2>2, PushFacts
  <2>5. CASE frames < MAX_CALL_DEPTH
    <3> DEFINE g == NativeFrame("loop", 0, FALSE)
               h == NativeFrame("code", jit_captures_raw, FALSE)
    <3>1. frames' = frames + 1 /\ (native' = Append(n, g) \/ native' = Append(n, h))
      BY <1>11, <2>5 DEF BeginCatch, CalleeLoop, CalleeCode, f
    <3>2. g \in CFrame /\ h \in CFrame /\ g.height = frames /\ h.height = frames /\ h.kind = "code"
      BY <1>0, Basics DEF NativeFrame, CFrame, Kind
    <3> HIDE DEF n, g, h
    <3>3. n[Len(n)].kind \in Guards
      BY <2>2, <2>4 DEF Guards
    <3>4. MainStack(native') /\ Guarded(native')
      BY <2>1, <2>3, <2>4, <3>1, <3>2, <3>3, MainPush
    <3> QED BY <1>0, <2>1, <3>1, <3>4
  <2>6. CASE ~(frames < MAX_CALL_DEPTH)
    <3>1. native' = n /\ frames' = frames
      BY <1>11, <2>6 DEF BeginCatch, f
    <3> QED BY <2>1, <2>3, <3>1
  <2> QED BY <2>5, <2>6
<1>12. CASE CatchesPanic \/ CatchUnwinds
  <2>1. /\ native' = Cut(native, overflow_jmp) /\ frames' = frames /\ overflow_jmp \in 1..Len(native)
    BY <1>12, <1>c, CutToTarget DEF CatchesPanic, CatchUnwinds, LongJump, Cut
  <2>2. overflow_jmp \in 2..Len(native) /\ native[overflow_jmp].kind = "catch"
    <3>1. CASE CatchesPanic
      <4>1. Len(native_catch_stack) # 0
        BY <3>1 DEF CatchesPanic, UInv, JumpsSomewhere
      <4> QED BY <4>1, Basics, BoundaryTarget DEF UInv, StackInv
    <3>2. CASE CatchUnwinds
      <4>1. native[overflow_jmp].kind = "catch" /\ native[1].kind = "run"
        BY <3>2 DEF CatchUnwinds, UInv, StackInv, Stack, RunAtBottom
      <4>2. overflow_jmp # 1
        BY <4>1
      <4> QED BY <2>1, <4>1, <4>2, <1>0
    <3> QED BY <1>12, <3>1, <3>2
  <2>3. MainStack(native') /\ Guarded(native')
    <3>1. overflow_jmp \in 1..overflow_jmp
      BY <2>2
    <3> QED BY <1>0, <1>d, <2>1, <2>2, <3>1, MainCut DEF Guards
  <2>4. frames >= 1
    BY <1>0, <1>d, <2>2
  <2> QED BY <2>1, <2>3, <2>4
<1>13. CASE Panic
  <2>1. AfterBuiltin(InCompiled, native_catch_stack, overflow_jmp, has_error, TRUE)
        /\ InCompiled \in BOOLEAN /\ TRUE \in BOOLEAN /\ native' = native /\ frames' = frames
        /\ ctl = "go"
    BY <1>13 DEF Panic
  <2> HIDE DEF InCompiled
  <2>2. ~(has_error' /\ ctl' = "go")
    BY <1>0, <1>c, <2>1, AfterStops
  <2> QED BY <1>d, <2>1, <2>2
<1>14. CASE Throw
  <2>1. native' = native /\ frames' = frames /\ ctl' # "go" /\ ctl = "go"
    BY <1>14 DEF Throw
  <2> QED BY <1>d, <2>1
<1>15. CASE LeaveLoop
  <2>1. Top.kind = "loop" /\ native' = Front(native) /\ frames' = frames /\ has_error' = has_error
        /\ ctl' = (IF Top.jit /\ has_error THEN "jump1" ELSE "go")
    BY <1>15, <1>c DEF LeaveLoop, Aborting
  <2>2. MainStack(native') /\ (~Top.jit => Guarded(native'))
    BY <1>0, <1>d, <1>f, <2>1, MainPop
  <2> QED BY <1>d, <1>f, <2>1, <2>2
<1> QED
  BY <1>a, <1>1, <1>2, <1>3, <1>4, <1>5, <1>6, <1>7, <1>8, <1>9, <1>10, <1>11, <1>12, <1>13,
     <1>14, <1>15 DEF Next

-----------------------------------------------------------------------------
(* The invariant. *)

LEMMA InitUInv == Init => UInv
<1> SUFFICES ASSUME Init PROVE UInv
  OBVIOUS
<1> DEFINE f == [kind |-> "run", height |-> 0, saved |-> 0, jit |-> FALSE]
<1>1. native = <<f>> /\ phase = "main" /\ frames = 1 /\ native_catch_stack = <<>> /\ overflow_jmp = 1
      /\ jit_call_depth = 0 /\ jit_captures_raw = 0 /\ temp_roots = <<>> /\ ctl = "go"
  BY DEF Init
<1>2. f \in CFrame /\ f.kind = "run" /\ f.height = 0 /\ f.jit = FALSE
  BY DEF CFrame, Kind
<1>3. TypeOK
  <2>1. MaxNative \in Nat /\ 1 <= MaxNative
    BY UnwindAssumption
  <2>2. 1 \in 0..MaxNative /\ 0 \in 0..MaxNative
    BY <2>1
  <2>3. /\ native \in Seq([kind : Kind, height : Nat, saved : Nat, jit : BOOLEAN])
        /\ native # <<>>
    BY <1>1, <1>2 DEF CFrame
  <2>4. native_catch_stack \in Seq(BOOLEAN) /\ temp_roots \in Seq(1..MaxNative)
    BY <1>1, EmptySeq
  <2>5. has_error \in BOOLEAN
    BY DEF Init
  <2>6. throw_flag \in BOOLEAN
    BY DEF Init
  <2>7. skipped \in BOOLEAN
    BY DEF Init
  <2>8. /\ phase \in {"main", "timers", "done"} /\ frames \in Nat /\ overflow_jmp \in 0..MaxNative
        /\ jit_call_depth \in Nat /\ jit_captures_raw \in 0..MaxNative
        /\ ctl \in {"go", "leave", "jump1", "jump4"}
    BY <1>1, <2>2
  <2> QED BY <2>3, <2>4, <2>5, <2>6, <2>7, <2>8 DEF TypeOK
<1> HIDE DEF f
<1>4. /\ native \in Seq(CFrame) /\ Len(native) = 1 /\ native[1] = f
      /\ \A i \in 1..Len(native) : i = 1
  BY <1>1, <1>2
<1>5. StackInv
  <2>1. RunAtBottom(native)
    BY <1>2, <1>4 DEF RunAtBottom
  <2>2. Len(native) <= MaxNative
    BY <1>4, UnwindAssumption
  <2>3. Rises(native, frames)
    BY <1>1, <1>2, <1>4 DEF Rises
  <2>4. Chain(native, JmpKinds, "catch", overflow_jmp)
    BY <1>1, <1>2, <1>4 DEF Chain, Innermost, JmpKinds
  <2>5. Cardinality(OfKind(native, "catch")) = Len(native_catch_stack)
    <3>1. OfKind(native, "catch") = {}
      BY <1>2, <1>4 DEF OfKind
    <3> QED BY <1>1, <3>1, FS_EmptySet
  <2>6. jit_call_depth \in Nat /\ jit_call_depth >= Cardinality(OfJit(native))
    <3>1. OfJit(native) = {}
      BY <1>2, <1>4 DEF OfJit
    <3> QED BY <1>1, <3>1, FS_EmptySet
  <2>7. RootsSaved(native, temp_roots)
    BY <1>2, <1>4 DEF RootsSaved
  <2> QED BY <1>2, <1>4, <2>1, <2>2, <2>3, <2>4, <2>5, <2>6, <2>7 DEF StackInv, Stack
<1>6. IntactInv
  <2>1. Chain(native, {"code"}, "code", jit_captures_raw)
    BY <1>1, <1>2, <1>4 DEF Chain, Innermost
  <2>2. RootsInOrder(native, temp_roots)
    BY <1>1, <1>2, <1>4 DEF RootsInOrder
  <2> QED BY <2>1, <2>2 DEF IntactInv, Intact
<1>7. MainInv
  BY <1>1, <1>4 DEF MainInv, MainStack, Init
<1>8. CapturedOnItsWay /\ JumpsSomewhere /\ PanicNotForgotten
  BY <1>1 DEF CapturedOnItsWay, JumpsSomewhere, PanicNotForgotten, Init
<1> QED BY <1>3, <1>5, <1>6, <1>7, <1>8 DEF UInv

LEMMA NextUInv ==
    ASSUME UInv, [Next]_vars
    PROVE  UInv'
<1>1. CASE Next
  <2>1. StackInv' /\ IntactInv'
    BY <1>1, StackStep
  <2>2. TypeOK' /\ CapturedOnItsWay'
    BY <1>1, <2>1, TypeStep, CapturedStep
  <2>3. JumpsSomewhere' /\ PanicNotForgotten'
    BY <1>1, JumpsStep, PanicStep DEF UInv
  <2>4. MainInv'
    BY <1>1, <2>1, MainStep DEF MainInv
  <2> QED BY <2>1, <2>2, <2>3, <2>4 DEF UInv
<1>2. CASE UNCHANGED vars
  BY <1>2 DEF vars, catchVars, jitVars, errorVars, UInv, TypeOK, StackInv, IntactInv, JmpKinds,
     MainInv, CapturedOnItsWay, JumpsSomewhere, PanicNotForgotten, Top
<1> QED BY <1>1, <1>2

(* The stack of C++ frames, what they saved and what is current belong      *)
(* together in every state (call_function_value_catching, jit_helpers.cpp   *)
(* jit_call_value_impl, GcTempRoot).                                        *)
THEOREM UnwindInvariant == Spec => []UInv
<1>1. Init => UInv
  BY InitUInv
<1>2. UInv /\ [Next]_vars => UInv'
  BY NextUInv
<1> QED BY <1>1, <1>2, PTL DEF Spec

(* Every variable keeps its type; depths are never negative. *)
THEOREM TypeCorrect == Spec => []TypeOK
<1>1. UInv => TypeOK
  BY DEF UInv
<1> QED BY <1>1, UnwindInvariant, PTL

(* A longjmp never goes to a C++ frame that is gone (overflow_jmp).         *)
THEOREM JumpsToLiveFrames == Spec => []JumpTargetLives
<1>1. ASSUME UInv PROVE JumpTargetLives
  <2> DEFINE setjmps == Heights(JmpKinds)
  <2>1. Innermost(native, JmpKinds, overflow_jmp, Len(native)) /\ Len(native) \in Nat
    BY <1>1, Basics DEF UInv, StackInv, Stack, Chain
  <2>2. CASE overflow_jmp = 0
    <3>1. setjmps = {}
      BY <2>1, <2>2 DEF Innermost, Heights
    <3> QED BY <2>2, <3>1 DEF JumpTargetLives, JmpKinds
  <2>3. CASE overflow_jmp # 0
    <3>1. overflow_jmp \in setjmps /\ setjmps \subseteq Nat
      BY <2>1, <2>3 DEF Innermost, Heights
    <3>2. \A j \in setjmps : j <= overflow_jmp
      BY <2>1, <2>3 DEF Innermost, Heights
    <3> HIDE DEF setjmps
    <3>3. \A i \in setjmps : (\A j \in setjmps : j <= i) => i = overflow_jmp
      <4>1. ASSUME NEW i \in setjmps, \A j \in setjmps : j <= i PROVE i = overflow_jmp
        <5>1. i <= overflow_jmp /\ overflow_jmp <= i /\ i \in Nat /\ overflow_jmp \in Nat
          BY <3>1, <3>2, <4>1
        <5> QED BY <5>1
      <4> QED BY <4>1
    <3>4. overflow_jmp = CHOOSE i \in setjmps : \A j \in setjmps : j <= i
      BY <3>1, <3>2, <3>3
    <3>5. setjmps # {}
      BY <3>1
    <3> QED BY <3>4, <3>5 DEF JumpTargetLives, JmpKinds, setjmps
  <2> QED BY <2>2, <2>3
<1> QED BY <1>1, UnwindInvariant, PTL

(* Each catching call has its boundary, and a panic is captured by the      *)
(* innermost one only (capture_native_throw).                               *)
THEOREM BoundariesMatch == Spec => []InnermostCatches
<1>1. ASSUME UInv PROVE InnermostCatches
  <2>1. Heights({"catch"}) = OfKind(native, "catch")
    BY DEF Heights, OfKind
  <2>2. Len(native_catch_stack) = Cardinality(OfKind(native, "catch")) /\ CapturedOnItsWay
    BY <1>1 DEF UInv, StackInv, Stack
  <2> QED BY <2>1, <2>2 DEF InnermostCatches, CapturedOnItsWay
<1> QED BY <1>1, UnwindInvariant, PTL

(* jit_call_depth, which is unsigned, never falls behind the calls that     *)
(* compiled code has under way (jit_call_value_impl).                       *)
THEOREM DepthNeverWraps == Spec => []JitDepthCovers
<1>1. UInv => JitDepthCovers
  BY DEF UInv, StackInv, Stack, JitDepthCovers, OfJit
<1> QED BY <1>1, UnwindInvariant, PTL

(* As long as no longjmp skipped a frame that saves state, compiled code    *)
(* reads its own captures and the temporary roots are those of the builtins *)
(* under way.                                                               *)
THEOREM StateReturns == Spec => []SavedStateReturns
<1>1. ASSUME UInv, ~skipped PROVE /\ Top.kind = "code" => jit_captures_raw = Len(native)
                                  /\ ToSet(temp_roots) = Heights({"builtin"})
  <2>1. Innermost(native, {"code"}, jit_captures_raw, Len(native)) /\ RootsInOrder(native, temp_roots)
        /\ RootsSaved(native, temp_roots)
    BY <1>1 DEF UInv, IntactInv, Intact, Chain, StackInv, Stack
  <2>2. Top = native[Len(native)] /\ Len(native) \in Nat /\ Len(native) > 0
        /\ native \in Seq(CFrame) /\ Len(temp_roots) \in Nat /\ temp_roots \in Seq(Nat)
    BY <1>1, Basics
  <2>3. ASSUME Top.kind = "code" PROVE jit_captures_raw = Len(native)
    <3>1. jit_captures_raw \in 0..Len(native) /\ Len(native) \notin (jit_captures_raw + 1)..Len(native)
      BY <2>1, <2>2, <2>3 DEF Innermost
    <3> QED BY <2>2, <3>1
  <2>4. ToSet(temp_roots) = {temp_roots[k] : k \in 1..Len(temp_roots)}
    BY <2>2, LenProperties DEF ToSet
  <2>5. ASSUME NEW k \in 1..Len(temp_roots) PROVE temp_roots[k] \in Heights({"builtin"})
    BY <2>1 DEF RootsInOrder, Heights
  <2>6. ASSUME NEW i \in Heights({"builtin"})
        PROVE  \E k \in 1..Len(temp_roots) : temp_roots[k] = i
    <3>1. i \in 1..Len(native) /\ native[i].kind = "builtin"
      BY DEF Heights
    <3>2. native[i].saved \in Nat
      BY <2>2, <3>1, FrameType
    <3>3. native[i].saved < Len(temp_roots) /\ temp_roots[native[i].saved + 1] = i
      BY <2>1, <3>1 DEF RootsSaved, RootsInOrder
    <3>4. native[i].saved + 1 \in 1..Len(temp_roots)
      <4>1. \A x \in Nat, y \in Nat : x < y => x + 1 \in 1..y
        OBVIOUS
      <4>2. Len(temp_roots) \in Nat
        BY <2>2
      <4> QED BY <3>2, <3>3, <4>1, <4>2
    <3> QED BY <3>3, <3>4
  <2>7. ToSet(temp_roots) = Heights({"builtin"})
    BY <2>4, <2>5, <2>6
  <2> QED BY <2>3, <2>7
<1>2. UInv => SavedStateReturns
  BY <1>1 DEF SavedStateReturns
<1> QED BY <1>2, UnwindInvariant, PTL

(* When script code goes on without an error, a panic is not left over for  *)
(* the next builtin call (push_builtin_result).                             *)
THEOREM NoPanicLeftOver == Spec => []PanicNotForgotten
<1>1. UInv => PanicNotForgotten
  BY DEF UInv
<1> QED BY <1>1, UnwindInvariant, PTL

(* A catching call leaves the call frames as it found them.                 *)
THEOREM CatchBalances == Spec => CatchLeavesNoFrames
<1>1. ASSUME UInv, [Next]_vars, Len(native') < Len(native), Top.kind = "catch"
      PROVE  frames' = Top.height
  <2> USE DEF InScript, Interpreting, InCompiled, Running, catchVars, jitVars, errorVars
  <2>1. overflow_jmp = Len(native) /\ FramesPopped = Top.height /\ Len(native) \in Nat
        /\ native \in Seq(CFrame)
    BY <1>1, BoundaryThere, Basics
  <2>2. native' # native
    BY <1>1, <2>1
  <2>3. ~LongJump
    <3>1. Cut(native, Len(native)) = native
      BY <2>1 DEF Cut
    <3> QED BY <2>1, <2>2, <3>1 DEF LongJump, Cut
  <2>4. CASE CatchReturns \/ CatchPassesFatal
    BY <2>1, <2>4 DEF CatchReturns, CatchPassesFatal, PutBack
  <2>5. CASE BeginCatch
    BY <1>1, <2>5 DEF BeginCatch
  <2> QED
    BY <1>1, <2>2, <2>3, <2>4, <2>5
    DEF Next, vars, CallCompiled, CallInterpreted, CallTooDeep, ReturnInterpreted, ReturnCompiled,
     CallBuiltin, CallBack, BuiltinReturns, CatchesPanic, CatchUnwinds, Panic, Throw,
     RuntimePanic, LeaveLoop, EndMain, FatalExit, EndTimers
<1>2. UInv /\ [Next]_vars => [Len(native') < Len(native) /\ Top.kind = "catch" => frames' = Top.height]_vars
  BY <1>1
<1> QED BY <1>2, UnwindInvariant, PTL DEF Spec, CatchLeavesNoFrames

(* An error ends the main program: nothing more is called, unless a builtin *)
(* or a catching call is under way (run, jit_abort_on_runtime_error).       *)
THEOREM ErrorIsFinal == Spec => ErrorEndsMain
<1>1. ASSUME UInv, [Next]_vars, has_error, phase = "main", Heights({"builtin", "catch"}) = {}
      PROVE  frames' <= frames
  <2> USE DEF InScript, Interpreting, InCompiled, Running, catchVars, jitVars, errorVars
  <2>1. ~Guarded(native)
    BY <1>1 DEF Guarded, Guards, Heights
  <2>2. ctl # "go"
    BY <1>1, <2>1 DEF UInv, MainInv
  <2>3. frames \in Nat
    BY <1>1, Basics
  <2>4. ~CatchPassesFatal
    <3>1. Top = native[Len(native)] /\ Len(native) \in 1..Len(native)
      BY <1>1, Basics
    <3> QED BY <2>1, <3>1 DEF CatchPassesFatal, Guarded, Guards
  <2>5. frames' = frames
    BY <1>1, <2>2, <2>4
    DEF Next, vars, CallCompiled, CallInterpreted, CallTooDeep, ReturnInterpreted, ReturnCompiled,
     CallBuiltin, CallBack, BuiltinReturns, BeginCatch, CatchReturns, CatchesPanic, CatchUnwinds,
     Panic, Throw, RuntimePanic, LeaveLoop, EndMain, FatalExit, EndTimers
  <2> QED BY <2>3, <2>5
<1>2. UInv /\ [Next]_vars =>
         [has_error /\ phase = "main" /\ Heights({"builtin", "catch"}) = {} => frames' <= frames]_vars
  BY <1>1
<1> QED BY <1>2, UnwindInvariant, PTL DEF Spec, ErrorEndsMain

=============================================================================
