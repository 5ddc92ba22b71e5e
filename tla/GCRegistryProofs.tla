-------------------------- MODULE GCRegistryProofs --------------------------
(***************************************************************************)
(* Proofs about GCRegistry, for registries of any length: every header     *)
(* knows its own place in the vector, and the in-place partition of the    *)
(* sweep separates the marked entries from the others without losing or    *)
(* doubling one.                                                           *)
(***************************************************************************)
EXTENDS GCRegistry, FiniteSetTheorems, WellFoundedInduction, TLAPS

(* What the operations need to know of the vector and of the two pointers. *)
VectorOK ==
    /\ tracked_objects \in Seq(Object)
    /\ gc_index \in [Object -> Nat]
    /\ gc_marked \subseteq Object
    /\ pc \in {"idle", "partition", "partitioned"}
    /\ live_count \in Nat /\ garbage_begin \in Nat
    /\ live_count <= garbage_begin /\ garbage_begin <= Size
    /\ pc = "idle" => garbage_begin = 0

RInv == VectorOK /\ IndexIsPlace /\ Partition

(* The swap of two entries is a bijection on the places. *)
LEMMA SwapPermutes ==
    ASSUME VectorOK, IndexIsPlace, NEW i \in 0..(Size - 1), NEW j \in 0..(Size - 1),
           tracked_objects' = Swapped(i, j)
    PROVE  /\ tracked_objects' \in Seq(Object)
           /\ Len(tracked_objects') = Size
           /\ Registered' = Registered
           /\ \A k, l \in 1..Size : tracked_objects'[k] = tracked_objects'[l] => k = l
           /\ \A k \in 1..Size : tracked_objects'[k] = IF k = i + 1 THEN tracked_objects[j + 1]
                                      ELSE IF k = j + 1 THEN tracked_objects[i + 1]
                                      ELSE tracked_objects[k]
<1>1. tracked_objects' \in Seq(Object) /\ Len(tracked_objects') = Size
  BY DEF VectorOK, Swapped, Size
<1>2. \A k \in 1..Size : tracked_objects'[k] = IF k = i + 1 THEN tracked_objects[j + 1]
                                      ELSE IF k = j + 1 THEN tracked_objects[i + 1]
                                      ELSE tracked_objects[k]
  BY DEF VectorOK, Swapped, Size
<1>3. \A k, l \in 1..Size : tracked_objects'[k] = tracked_objects'[l] => k = l
  <2> SUFFICES ASSUME NEW k \in 1..Size, NEW l \in 1..Size, tracked_objects'[k] = tracked_objects'[l]
               PROVE  k = l
    OBVIOUS
  <2> DEFINE move(n) == IF n = i + 1 THEN j + 1 ELSE IF n = j + 1 THEN i + 1 ELSE n
  <2>1. Size \in Nat /\ i \in Int /\ j \in Int /\ i + 1 \in 1..Size /\ j + 1 \in 1..Size
    BY DEF VectorOK, Size
  <2>2. move(k) \in 1..Size /\ move(l) \in 1..Size
    BY <2>1
  <2>3. tracked_objects[move(k)] = tracked_objects[move(l)]
    BY <1>2
  <2>4. move(k) = move(l)
    BY <2>2, <2>3 DEF IndexIsPlace
  <2> QED BY <2>1, <2>4
<1>4. Size \in Nat /\ i + 1 \in 1..Size /\ j + 1 \in 1..Size
  BY DEF VectorOK, Size
<1>5. Registered' \subseteq Registered
  BY <1>1, <1>2, <1>4 DEF Registered, Size
<1>6. Registered \subseteq Registered'
  <2> SUFFICES ASSUME NEW k \in 1..Size PROVE tracked_objects[k] \in Registered'
    BY DEF Registered
  <2>1. CASE k = i + 1
    <3>1. tracked_objects'[j + 1] = tracked_objects[k]
      BY <1>2, <1>4, <2>1
    <3> QED BY <1>1, <1>4, <3>1 DEF Registered, Size
  <2>2. CASE k = j + 1
    <3>1. tracked_objects'[i + 1] = tracked_objects[k]
      BY <1>2, <1>4, <2>2
    <3> QED BY <1>1, <1>4, <3>1 DEF Registered, Size
  <2>3. CASE k # i + 1 /\ k # j + 1
    <3>1. tracked_objects'[k] = tracked_objects[k]
      BY <1>2, <2>3
    <3> QED BY <1>1, <3>1 DEF Registered, Size
  <2> QED BY <2>1, <2>2, <2>3
<1> QED BY <1>1, <1>2, <1>3, <1>5, <1>6

-----------------------------------------------------------------------------
(* track() appends an entry that was not there. *)
LEMMA TrackStep ==
    ASSUME RInv, NEW o \in Object, NEW est \in Est, Track(o, est)
    PROVE  RInv'
<1> USE DEF RInv
<1>1. /\ Size \in Nat /\ tracked_objects' \in Seq(Object) /\ Size' = Size + 1
      /\ \A k \in 1..Size : tracked_objects'[k] = tracked_objects[k]
      /\ tracked_objects'[Size + 1] = o
  BY DEF Track, VectorOK, Size
<1>2. o \notin Registered
  BY DEF Track, IndexIsPlace
<1>3. VectorOK'
  BY <1>1 DEF Track, VectorOK, sweepVars
<1>4. Registered' = Registered \cup {o}
  BY <1>1 DEF Registered
<1>5. \A k, l \in 1..Size' : tracked_objects'[k] = tracked_objects'[l] => k = l
  <2> SUFFICES ASSUME NEW k \in 1..Size', NEW l \in 1..Size', tracked_objects'[k] = tracked_objects'[l]
               PROVE  k = l
    OBVIOUS
  <2>1. CASE k = Size + 1 \/ l = Size + 1
    BY <1>1, <1>2, <2>1 DEF Registered
  <2>2. CASE k # Size + 1 /\ l # Size + 1
    BY <1>1, <2>2 DEF IndexIsPlace
  <2> QED BY <2>1, <2>2
<1>6. ASSUME NEW i \in 0..(Size' - 1) PROVE gc_index'[At(i)'] = i
  <2>1. CASE i = Size
    BY <1>1, <2>1 DEF Track, VectorOK, At
  <2>2. CASE i # Size
    <3>1. i \in 0..(Size - 1) /\ i + 1 \in 1..Size
      BY <1>1, <2>2
    <3>2. At(i)' = At(i) /\ At(i) \in Registered
      BY <1>1, <3>1 DEF At, Registered
    <3>3. gc_index'[At(i)] = gc_index[At(i)]
      BY <1>2, <3>1, <3>2 DEF Track, VectorOK, At, Size
    <3> QED BY <3>1, <3>2, <3>3 DEF IndexIsPlace, Track
  <2> QED BY <1>1, <2>1, <2>2
<1>7. IndexIsPlace'
  BY <1>1, <1>4, <1>5, <1>6 DEF IndexIsPlace, Track, Size
<1>8. Partition'
  BY DEF Partition, Track, sweepVars
<1> QED BY <1>3, <1>7, <1>8

(* untrack() moves the last entry to the place it frees. *)
LEMMA UntrackStep ==
    ASSUME RInv, NEW o \in Object, Untrack(o)
    PROVE  RInv' /\ Size' = Size - 1
<1> USE DEF RInv
<1> DEFINE i == gc_index[o]
<1>0. Size \in Nat
  BY DEF VectorOK, Size
<1>1. i \in 0..(Size - 1) /\ At(i) = o
  <2>1. PICK k \in 1..Size : tracked_objects[k] = o
    BY DEF Untrack, IndexIsPlace, Registered
  <2>2. k - 1 \in 0..(Size - 1) /\ At(k - 1) = o
    BY <1>0, <2>1 DEF At
  <2> QED BY <2>2 DEF Untrack, IndexIsPlace
<1>2. /\ tracked_objects' \in Seq(Object) /\ Size' = Size - 1
      /\ \A k \in 1..(Size - 1) : tracked_objects'[k] = IF k = i + 1 THEN tracked_objects[Size]
                                                        ELSE tracked_objects[k]
  <2>1. LastMovedTo(i) \in Seq(Object) /\ Len(LastMovedTo(i)) = Size
    BY <1>0, <1>1 DEF LastMovedTo, At, VectorOK, Size
  <2>2. \A k \in 1..Size : LastMovedTo(i)[k] = IF k = i + 1 THEN tracked_objects[Size]
                                               ELSE tracked_objects[k]
    BY <1>0, <1>1 DEF LastMovedTo, At, VectorOK, Size
  <2> QED BY <1>0, <1>1, <2>1, <2>2 DEF Untrack, Size
<1>3. VectorOK'
  <2>1. live_count = 0 /\ garbage_begin = 0
    BY DEF Untrack, VectorOK
  <2>2. gc_index' \in [Object -> Nat]
    BY <1>0, <1>1 DEF Untrack, Reindexed, VectorOK, At, Size
  <2> QED BY <1>0, <1>1, <1>2, <2>1, <2>2 DEF Untrack, VectorOK, sweepVars
<1>4. Registered' = Registered \ {o}
  <2>1. ASSUME NEW k \in 1..(Size - 1) PROVE tracked_objects'[k] \in Registered \ {o}
    <3>1. tracked_objects[k] \in Registered /\ tracked_objects[Size] \in Registered
      BY <1>0, <2>1 DEF Registered
    <3>2. k # i + 1 => tracked_objects[k] # o
      BY <1>0, <1>1 DEF IndexIsPlace, At
    <3>3. k = i + 1 => tracked_objects[Size] # o
      BY <1>0, <1>1 DEF IndexIsPlace, At
    <3> QED BY <1>2, <3>1, <3>2, <3>3
  <2>2. ASSUME NEW k \in 1..Size, tracked_objects[k] # o PROVE tracked_objects[k] \in Registered'
    <3>1. CASE k # Size
      BY <1>0, <1>1, <1>2, <2>2, <3>1 DEF Registered, At
    <3>2. CASE k = Size
      <4>1. i + 1 \in 1..(Size - 1) /\ tracked_objects'[i + 1] = tracked_objects[k]
        BY <1>0, <1>1, <1>2, <2>2, <3>2 DEF At
      <4> QED BY <1>2, <4>1 DEF Registered
    <3> QED BY <3>1, <3>2
  <2> QED BY <1>2, <2>1, <2>2 DEF Registered
<1>5. \A k, l \in 1..Size' : tracked_objects'[k] = tracked_objects'[l] => k = l
  <2> SUFFICES ASSUME NEW k \in 1..(Size - 1), NEW l \in 1..(Size - 1),
                      tracked_objects'[k] = tracked_objects'[l]
               PROVE  k = l
    BY <1>2
  <2> DEFINE from(n) == IF n = i + 1 THEN Size ELSE n
  <2>1. from(k) \in 1..Size /\ from(l) \in 1..Size
    BY <1>0
  <2>2. tracked_objects[from(k)] = tracked_objects[from(l)]
    BY <1>2
  <2>3. from(k) = from(l)
    BY <2>1, <2>2 DEF IndexIsPlace
  <2> QED BY <1>0, <2>3
<1>6. ASSUME NEW j \in 0..(Size' - 1) PROVE gc_index'[At(j)'] = j
  <2>0. j + 1 \in 1..(Size - 1) /\ j \in 0..(Size - 1) /\ Size - 1 \in 0..(Size - 1)
    BY <1>0, <1>2, <1>6
  <2>1. CASE j = i
    <3>1. At(j)' = At(Size - 1) /\ At(Size - 1) \in Object
      <4>1. tracked_objects'[j + 1] = tracked_objects[Size]
        BY <1>2, <2>0, <2>1
      <4>2. (Size - 1) + 1 = Size /\ Size \in 1..Len(tracked_objects)
        BY <1>0, <2>0 DEF Size
      <4>3. tracked_objects[Size] \in Object
        BY <4>2 DEF VectorOK
      <4> QED BY <4>1, <4>2, <4>3 DEF At
    <3>2. i + 1 # Size
      BY <1>0, <2>0, <2>1
    <3> QED BY <2>1, <3>1, <3>2 DEF Untrack, Reindexed, VectorOK
  <2>2. CASE j # i
    <3>1. At(j)' = At(j) /\ At(j) \in Object
      <4>1. j + 1 # i + 1
        BY <1>1, <2>0, <2>2
      <4>2. tracked_objects'[j + 1] = tracked_objects[j + 1]
        BY <1>2, <2>0, <4>1
      <4>3. j + 1 \in 1..Len(tracked_objects)
        BY <1>0, <2>0 DEF Size
      <4>4. tracked_objects[j + 1] \in Object
        BY <4>3 DEF VectorOK
      <4> QED BY <4>2, <4>4 DEF At
    <3>2. At(j) # At(Size - 1)
      BY <1>0, <2>0 DEF At, IndexIsPlace
    <3>3. gc_index'[At(j)] = gc_index[At(j)]
      BY <3>1, <3>2 DEF Untrack, Reindexed, VectorOK
    <3> QED BY <2>0, <3>1, <3>3 DEF IndexIsPlace, Untrack
  <2> QED BY <2>1, <2>2
<1>7. IndexIsPlace'
  BY <1>4, <1>5, <1>6 DEF IndexIsPlace, Untrack, Size
<1>8. Partition'
  BY DEF Partition, Untrack, sweepVars
<1> QED BY <1>2, <1>3, <1>7, <1>8

-----------------------------------------------------------------------------
(* The steps of the sweep. *)
LEMMA SwapStep ==
    ASSUME RInv, SwapGarbage
    PROVE  RInv'
<1> USE DEF RInv
<1>0. Size \in Nat /\ live_count \in Nat /\ garbage_begin \in Nat
      /\ live_count < garbage_begin /\ garbage_begin <= Size
      /\ pc = "partition" /\ pc' = pc /\ UNCHANGED <<gc_index, gc_tracked, gc_marked>>
  BY DEF SwapGarbage, VectorOK, Size, headerVars
<1>1. PICK g \in live_count..(garbage_begin - 1) :
        /\ LastLive(g)
        /\ garbage_begin' = g
        /\ IF g = live_count
           THEN UNCHANGED <<tracked_objects, live_count>>
           ELSE /\ tracked_objects' = Swapped(live_count, g)
                /\ live_count' = live_count + 1
  BY DEF SwapGarbage
<1>2. ASSUME NEW k \in g..(Size - 1), k # g \/ g = live_count PROVE At(k) \notin gc_marked
  <2>1. CASE k = g
    BY <1>2, <2>1 DEF SwapGarbage
  <2>2. CASE k \in (g + 1)..(garbage_begin - 1)
    BY <1>1, <2>2 DEF LastLive
  <2>3. CASE k \in garbage_begin..(Size - 1)
    BY <1>0, <2>3 DEF Partition
  <2> QED BY <1>0, <2>1, <2>2, <2>3
<1>3. CASE g = live_count
  <2>1. VectorOK'
    BY <1>0, <1>1, <1>3 DEF VectorOK, Size
  <2>2. IndexIsPlace'
    BY <1>0, <1>1, <1>3 DEF IndexIsPlace, Registered, Size
  <2>3. Partition'
    BY <1>0, <1>1, <1>2, <1>3 DEF Partition, At, Size
  <2> QED BY <2>1, <2>2, <2>3
<1>4. CASE g # live_count
  <2>1. /\ live_count \in 0..(Size - 1) /\ g \in 0..(Size - 1)
        /\ live_count < g /\ tracked_objects' = Swapped(live_count, g)
        /\ live_count' = live_count + 1 /\ garbage_begin' = g
    BY <1>0, <1>1, <1>4
  <2>2. /\ tracked_objects' \in Seq(Object)
        /\ Len(tracked_objects') = Size
        /\ Registered' = Registered
        /\ \A k, l \in 1..Size : tracked_objects'[k] = tracked_objects'[l] => k = l
    BY <2>1, SwapPermutes
  <2>3. \A k \in 0..(Size - 1) : At(k)' = IF k = live_count THEN At(g)
                                          ELSE IF k = g THEN At(live_count) ELSE At(k)
    <3>1. \A k \in 1..Size : tracked_objects'[k] = IF k = live_count + 1 THEN tracked_objects[g + 1]
                                      ELSE IF k = g + 1 THEN tracked_objects[live_count + 1]
                                      ELSE tracked_objects[k]
      BY <2>1, SwapPermutes
    <3> QED BY <1>0, <2>1, <3>1 DEF At
  <2>4. VectorOK'
    BY <1>0, <2>1, <2>2 DEF VectorOK, Size
  <2>5. IndexIsPlace'
    BY <1>0, <2>2 DEF IndexIsPlace, Size
  <2>6. ASSUME NEW k \in 0..(live_count' - 1) PROVE At(k)' \in gc_marked'
    <3>1. k \in 0..(Size - 1) /\ k # g
      BY <1>0, <2>1
    <3>2. k = live_count => At(g) \in gc_marked
      BY <1>1, <1>4 DEF LastLive
    <3>3. k # live_count => At(k) \in gc_marked
      BY <1>0, <2>1 DEF Partition
    <3> QED BY <1>0, <2>3, <3>1, <3>2, <3>3
  <2>7. ASSUME NEW k \in garbage_begin'..(Size' - 1) PROVE At(k)' \notin gc_marked'
    <3>1. k \in g..(Size - 1) /\ k \in 0..(Size - 1) /\ k # live_count
      BY <1>0, <2>1, <2>2 DEF Size
    <3>2. k = g => At(live_count) \notin gc_marked
      BY DEF SwapGarbage
    <3> QED BY <1>0, <1>2, <2>3, <3>1, <3>2
  <2> QED BY <1>0, <2>4, <2>5, <2>6, <2>7 DEF Partition
<1> QED BY <1>3, <1>4

LEMMA FinishStep ==
    ASSUME RInv, FinishCollection
    PROVE  /\ RInv'
           /\ Registered' = Registered \cap gc_marked
<1> USE DEF RInv
<1>0. /\ Size \in Nat /\ live_count \in 0..Size /\ garbage_begin = live_count
      /\ \A k \in 0..(live_count - 1) : At(k) \in gc_marked
      /\ \A k \in live_count..(Size - 1) : At(k) \notin gc_marked
  BY DEF FinishCollection, VectorOK, Partition, Size
<1>1. /\ tracked_objects' \in Seq(Object) /\ Size' = live_count
      /\ \A k \in 1..live_count : tracked_objects'[k] = tracked_objects[k]
  BY <1>0 DEF FinishCollection, VectorOK, Size
<1>2. Registered' = Front
  BY <1>0, <1>1 DEF Registered, Front, At
<1>3. Registered = Front \cup Back /\ Front \subseteq gc_marked /\ Back \cap gc_marked = {}
  <2>1. ASSUME NEW k \in 1..Size PROVE tracked_objects[k] \in Front \cup Back
    <3>1. tracked_objects[k] = At(k - 1) /\ (k - 1 \in 0..(live_count - 1) \/ k - 1 \in live_count..(Size - 1))
      BY <1>0 DEF At
    <3> QED BY <3>1 DEF Front, Back
  <2>2. Front \subseteq Registered /\ Back \subseteq Registered
    BY <1>0 DEF Front, Back, Registered, At
  <2>3. Registered \subseteq Front \cup Back
    BY <2>1 DEF Registered
  <2>4. Front \subseteq gc_marked /\ Back \cap gc_marked = {}
    BY <1>0 DEF Front, Back
  <2> QED BY <2>2, <2>3, <2>4
<1>4. Registered' = Registered \cap gc_marked
  BY <1>2, <1>3
<1>5. gc_tracked' = Registered'
  BY <1>2, <1>3 DEF FinishCollection, IndexIsPlace
<1>6. \A k, l \in 1..Size' : tracked_objects'[k] = tracked_objects'[l] => k = l
  BY <1>0, <1>1 DEF IndexIsPlace
<1>7. ASSUME NEW o \in Front
      PROVE  (CHOOSE i \in 0..(live_count - 1) : At(i) = o) \in 0..(live_count - 1)
  <2>1. \E i \in 0..(live_count - 1) : At(i) = o
    BY <1>7 DEF Front
  <2> QED BY <2>1
<1>8. ASSUME NEW j \in 0..(live_count - 1) PROVE gc_index'[At(j)'] = j
  <2> DEFINE c == CHOOSE i \in 0..(live_count - 1) : At(i) = At(j)
  <2>1. At(j)' = At(j) /\ At(j) \in Front /\ At(j) \in Object
    BY <1>0, <1>1 DEF At, Front, VectorOK, Size
  <2>2. c \in 0..(live_count - 1) /\ At(c) = At(j)
    BY <1>8
  <2> HIDE DEF c
  <2>3. c = j
    BY <1>0, <2>2 DEF IndexIsPlace, At
  <2>4. gc_index'[At(j)] = c
    BY <2>1 DEF FinishCollection, c
  <2> QED BY <2>1, <2>3, <2>4
<1>9. VectorOK'
  <2>1. gc_index' \in [Object -> Nat]
    <3> DEFINE place(o) == CHOOSE i \in 0..(live_count - 1) : At(i) = o
    <3>1. gc_index' = [o \in Object |-> IF o \in Front THEN place(o) ELSE gc_index[o]]
      BY DEF FinishCollection
    <3>2. \A o \in Front : place(o) \in Nat
      BY <1>0, <1>7
    <3> HIDE DEF place
    <3> QED BY <3>1, <3>2 DEF VectorOK
  <2>2. live_count' = 0 /\ garbage_begin' = 0 /\ pc' = "idle" /\ gc_marked' \subseteq gc_marked
    BY DEF FinishCollection
  <2> QED BY <1>0, <1>1, <2>1, <2>2 DEF VectorOK
<1>10. IndexIsPlace'
  BY <1>1, <1>5, <1>6, <1>8 DEF IndexIsPlace, FinishCollection
<1>11. Partition'
  BY DEF Partition, FinishCollection
<1> QED BY <1>4, <1>9, <1>10, <1>11

LEMMA OtherSteps ==
    ASSUME RInv,
           \/ \E t \in Threshold : SetCollectionThreshold(t)
           \/ \E limit \in Limit : SetMemoryLimit(limit)
           \/ \E M \in SUBSET gc_tracked : Collect(M) \/ ForceCollect(M)
           \/ KeepLive
           \/ EndPartition
           \/ UNCHANGED vars
    PROVE  RInv'
<1> USE DEF RInv
<1>1. CASE \/ \E t \in Threshold : SetCollectionThreshold(t)
           \/ \E limit \in Limit : SetMemoryLimit(limit)
           \/ UNCHANGED vars
  <2>1. UNCHANGED <<tracked_objects, headerVars, tracked_count, sweepVars>>
    BY <1>1 DEF SetCollectionThreshold, SetMemoryLimit, vars
  <2> QED BY <2>1 DEF headerVars, sweepVars, VectorOK, IndexIsPlace, Partition, Registered, Size, At
<1>2. ASSUME NEW M \in SUBSET gc_tracked, Collect(M) \/ ForceCollect(M) PROVE RInv'
  <2>1. /\ pc' = "partition" /\ live_count' = 0 /\ garbage_begin' = Size /\ gc_marked' = M
        /\ UNCHANGED <<tracked_objects, gc_index, gc_tracked, tracked_count>>
    BY <1>2 DEF Collect, ForceCollect, StartSweep, SweepEnd
  <2>2. M \subseteq Object /\ Size \in Nat
    BY DEF IndexIsPlace, Registered, VectorOK, Size
  <2> QED BY <2>1, <2>2 DEF VectorOK, IndexIsPlace, Partition, Registered, Size, At
<1>3. CASE KeepLive
  <2>1. /\ UNCHANGED <<tracked_objects, gc_index, gc_tracked, gc_marked, tracked_count, pc, garbage_begin>>
        /\ live_count' = live_count + 1 /\ live_count < garbage_begin /\ pc = "partition"
        /\ At(live_count) \in gc_marked
    BY <1>3 DEF KeepLive, headerVars
  <2>2. VectorOK' /\ IndexIsPlace'
    BY <2>1 DEF VectorOK, IndexIsPlace, Registered, Size, At
  <2>3. \A i \in 0..(live_count' - 1) : At(i)' \in gc_marked'
    BY <2>1 DEF Partition, VectorOK, At
  <2> QED BY <2>1, <2>2, <2>3 DEF Partition, Size, At
<1>4. CASE EndPartition
  <2>1. /\ UNCHANGED <<tracked_objects, gc_index, gc_tracked, gc_marked, tracked_count, live_count, garbage_begin>>
        /\ pc = "partition" /\ pc' = "partitioned" /\ live_count >= garbage_begin
    BY <1>4 DEF EndPartition, headerVars
  <2> QED BY <2>1 DEF VectorOK, IndexIsPlace, Partition, Registered, Size, At
<1> QED BY <1>1, <1>2, <1>3, <1>4

-----------------------------------------------------------------------------
(* The sum of e over a finite set, by the recursion the fold of the model  *)
(* uses.  The provers cannot take an induction theorem whose parameter is  *)
(* an operator; each induction below is over the SET of the subsets that   *)
(* break the claim, which has a smallest member if it has one.             *)

Chosen(s) == CHOOSE x \in s : TRUE
SumBody(e, S, g) ==
    [s \in SUBSET S |-> IF s = {} THEN 0 ELSE e[Chosen(s)] + g[s \ {Chosen(s)}]]
SumFcn(e, S) == CHOOSE g : g = SumBody(e, S, g)
SumOf(e, S) == SumFcn(e, S)[S]
PartOf(g, S) == [s \in SUBSET S |-> g[s]]

(* The fold of the model is that sum. *)
LEMMA EstIsSum == ASSUME NEW S PROVE EstOf(S) = SumOf(gc_est, S)
BY DEF EstOf, MapThenSumSet, MapThenFoldSet, SumOf, SumFcn, SumBody, Chosen

(* An element of a set of sets than which no other is smaller. *)
LEMMA SmallestSet ==
    ASSUME NEW S, IsFiniteSet(S), NEW T \in SUBSET SUBSET S, T # {}
    PROVE  \E m \in T : \A s \in T : ~(s \subseteq m /\ s # m)
<1>1. IsWellFoundedOn(StrictSubsetOrdering(S), SUBSET S)
  BY FS_StrictSubsetOrderingWellFounded, FS_FiniteSubsetsOfFinite
<1>2. PICK m \in T : \A s \in T : ~(<<s, m>> \in StrictSubsetOrdering(S))
  BY <1>1, WFMin
<1> QED BY <1>2 DEF StrictSubsetOrdering

(* The recursion has one solution. *)
LEMMA SumUnique ==
    ASSUME NEW e, NEW S, IsFiniteSet(S), NEW g, NEW h,
           g = SumBody(e, S, g), h = SumBody(e, S, h)
    PROVE  g = h
<1> DEFINE T == {s \in SUBSET S : g[s] # h[s]}
<1>1. SUFFICES ASSUME T # {} PROVE FALSE
  BY DEF SumBody
<1>2. PICK m \in T : \A s \in T : ~(s \subseteq m /\ s # m)
  <2>1. T \in SUBSET SUBSET S
    OBVIOUS
  <2> HIDE DEF T
  <2> QED BY <1>1, <2>1, SmallestSet
<1>3. CASE m = {}
  BY <1>2, <1>3 DEF SumBody
<1>4. CASE m # {}
  <2>1. Chosen(m) \in m
    BY <1>4 DEF Chosen
  <2>2. g[m \ {Chosen(m)}] = h[m \ {Chosen(m)}]
    BY <1>2, <2>1
  <2>3. \A k : k = SumBody(e, S, k) => k[m] = e[Chosen(m)] + k[m \ {Chosen(m)}]
    BY <1>2, <1>4 DEF SumBody
  <2> QED BY <1>2, <2>2, <2>3
<1> QED BY <1>3, <1>4

(* The solution for a set holds the solution for every part of it. *)
LEMMA SumRestricts ==
    ASSUME NEW e, NEW S, NEW s \in SUBSET S, NEW g, g = SumBody(e, S, g)
    PROVE  PartOf(g, s) = SumBody(e, s, PartOf(g, s))
<1> DEFINE r == PartOf(g, s)
<1>1. ASSUME NEW t \in SUBSET s, t # {}
      PROVE  r[t] = e[Chosen(t)] + r[t \ {Chosen(t)}]
  BY <1>1 DEF SumBody, PartOf
<1>2. r[{}] = 0
  BY DEF SumBody, PartOf
<1> QED BY <1>1, <1>2 DEF SumBody, PartOf

(* The recursion has a solution: the values of the smaller sets make up the next. *)
LEMMA SumExists ==
    ASSUME NEW e, NEW S, IsFiniteSet(S)
    PROVE  SumFcn(e, S) = SumBody(e, S, SumFcn(e, S))
<1> DEFINE Good(s) == SumFcn(e, s) = SumBody(e, s, SumFcn(e, s))
           T == {s \in SUBSET S : ~Good(s)}
<1>1. SUFFICES ASSUME T # {} PROVE FALSE
  <2>1. T = {} => Good(S)
    OBVIOUS
  <2> QED BY <2>1
<1>2. PICK m \in T : \A s \in T : ~(s \subseteq m /\ s # m)
  <2>1. T \in SUBSET SUBSET S
    OBVIOUS
  <2> HIDE DEF T
  <2> QED BY <1>1, <2>1, SmallestSet
<1>3. ASSUME NEW s \in SUBSET m, s # m PROVE Good(s) /\ IsFiniteSet(s)
  BY <1>2, <1>3, FS_Subset
<1> DEFINE val == [s \in SUBSET m |-> SumOf(e, s)]
           g == [s \in SUBSET m |-> IF s = {} THEN 0 ELSE e[Chosen(s)] + SumOf(e, s \ {Chosen(s)})]
<1>4. ASSUME NEW s \in SUBSET m, s # m PROVE g[s] = SumOf(e, s)
  <2>1. CASE s = {}
    BY <1>3, <1>4, <2>1 DEF SumOf, SumBody
  <2>2. CASE s # {}
    <3> DEFINE t == s \ {Chosen(s)}
    <3>1. Chosen(s) \in s /\ t \in SUBSET s /\ t \in SUBSET m /\ t # m
      BY <1>4, <2>2 DEF Chosen
    <3> DEFINE f == SumFcn(e, s)
               r == PartOf(f, t)
    <3>2. f = SumBody(e, s, f)
      BY <1>3, <1>4
    <3>3. r = SumBody(e, t, r)
      <4> HIDE DEF f, t
      <4>1. t \in SUBSET s
        BY <3>1
      <4> QED BY <3>2, <4>1, SumRestricts
    <3>4. r = SumFcn(e, t)
      <4>1. SumFcn(e, t) = SumBody(e, t, SumFcn(e, t)) /\ IsFiniteSet(t)
        BY <1>3, <3>1
      <4> HIDE DEF r
      <4> QED BY <3>3, <4>1, SumUnique
    <3>5. f[s] = e[Chosen(s)] + f[t]
      BY <2>2, <3>2 DEF SumBody
    <3>6. f[t] = SumOf(e, t)
      BY <3>4 DEF SumOf, PartOf
    <3> QED BY <2>2, <3>5, <3>6 DEF SumOf
  <2> QED BY <2>1, <2>2
<1>5. g = SumBody(e, m, g)
  <2>1. ASSUME NEW s \in SUBSET m, s # {}
        PROVE  g[s] = e[Chosen(s)] + g[s \ {Chosen(s)}]
    <3>1. Chosen(s) \in s
      BY <2>1 DEF Chosen
    <3>2. s \ {Chosen(s)} \in SUBSET m /\ s \ {Chosen(s)} # m
      BY <3>1
    <3>3. g[s \ {Chosen(s)}] = SumOf(e, s \ {Chosen(s)})
      BY <1>4, <3>2
    <3> QED BY <2>1, <3>3
  <2> HIDE DEF g
  <2>2. g = [s \in SUBSET m |-> g[s]] /\ g[{}] = 0
    BY DEF g
  <2> QED BY <2>1, <2>2 DEF SumBody
<1>6. Good(m)
  <2> HIDE DEF g
  <2> QED BY <1>5 DEF SumFcn
<1> QED BY <1>2, <1>6

(* The equation the sum of a finite set satisfies. *)
LEMMA SumStep ==
    ASSUME NEW e, NEW S, IsFiniteSet(S), S # {}
    PROVE  Chosen(S) \in S /\ SumOf(e, S) = e[Chosen(S)] + SumOf(e, S \ {Chosen(S)})
<1> DEFINE t == S \ {Chosen(S)}
           f == SumFcn(e, S)
           r == PartOf(f, t)
<1>1. f = SumBody(e, S, f)
  BY SumExists
<1>2. IsFiniteSet(t) /\ t \in SUBSET S
  BY FS_Subset
<1>3. r = SumBody(e, t, r)
  <2> HIDE DEF f, t
  <2>1. t \in SUBSET S
    BY <1>2
  <2> QED BY <1>1, <2>1, SumRestricts
<1>4. r = SumFcn(e, t)
  <2>1. SumFcn(e, t) = SumBody(e, t, SumFcn(e, t))
    BY <1>2, SumExists
  <2> HIDE DEF r
  <2> QED BY <1>2, <1>3, <2>1, SumUnique
<1>5. f[S] = e[Chosen(S)] + f[t]
  BY <1>1 DEF SumBody
<1>6. f[t] = SumOf(e, t)
  BY <1>4 DEF SumOf, PartOf
<1>7. Chosen(S) \in S
  BY DEF Chosen
<1> QED BY <1>5, <1>6, <1>7 DEF SumOf

LEMMA SumEmpty == ASSUME NEW e PROVE SumOf(e, {}) = 0
<1>1. SumFcn(e, {}) = SumBody(e, {}, SumFcn(e, {}))
  BY SumExists, FS_EmptySet
<1> QED BY <1>1 DEF SumOf, SumBody

LEMMA SumNat ==
    ASSUME NEW e, NEW S, IsFiniteSet(S), \A x \in S : e[x] \in Nat
    PROVE  SumOf(e, S) \in Nat
<1> DEFINE T == {s \in SUBSET S : SumOf(e, s) \notin Nat}
<1>1. SUFFICES ASSUME T # {} PROVE FALSE
  OBVIOUS
<1>2. PICK m \in T : \A s \in T : ~(s \subseteq m /\ s # m)
  <2>1. T \in SUBSET SUBSET S
    OBVIOUS
  <2> HIDE DEF T
  <2> QED BY <1>1, <2>1, SmallestSet
<1>3. m # {} /\ IsFiniteSet(m)
  <2>1. SumOf(e, {}) \in Nat
    BY SumEmpty
  <2> QED BY <1>2, <2>1, FS_Subset
<1>4. Chosen(m) \in m /\ SumOf(e, m) = e[Chosen(m)] + SumOf(e, m \ {Chosen(m)})
  BY <1>3, SumStep
<1>5. SumOf(e, m \ {Chosen(m)}) \in Nat /\ e[Chosen(m)] \in Nat
  BY <1>2, <1>4
<1> QED BY <1>2, <1>4, <1>5

(* Any member may be taken out first. *)
LEMMA SumRemove ==
    ASSUME NEW e, NEW S, IsFiniteSet(S), \A x \in S : e[x] \in Nat, NEW x \in S
    PROVE  SumOf(e, S) = e[x] + SumOf(e, S \ {x})
<1> DEFINE T == {s \in SUBSET S : \E y \in s : SumOf(e, s) # e[y] + SumOf(e, s \ {y})}
<1>1. SUFFICES ASSUME T # {} PROVE FALSE
  OBVIOUS
<1>2. PICK m \in T : \A s \in T : ~(s \subseteq m /\ s # m)
  <2>1. T \in SUBSET SUBSET S
    OBVIOUS
  <2> HIDE DEF T
  <2> QED BY <1>1, <2>1, SmallestSet
<1>3. PICK y \in m : SumOf(e, m) # e[y] + SumOf(e, m \ {y})
  BY <1>2
<1> DEFINE c == Chosen(m)
           rest == (m \ {y}) \ {c}
<1>4. c \in m /\ SumOf(e, m) = e[c] + SumOf(e, m \ {c})
  BY <1>3, SumStep, FS_Subset
<1>5. c # y
  BY <1>3, <1>4
<1> HIDE DEF c
<1>6. rest = (m \ {c}) \ {y}
  OBVIOUS
<1>7. SumOf(e, m \ {c}) = e[y] + SumOf(e, rest)
  BY <1>2, <1>4, <1>5, <1>6
<1>8. SumOf(e, m \ {y}) = e[c] + SumOf(e, rest)
  BY <1>2, <1>4, <1>5
<1>9. e[c] \in Nat /\ e[y] \in Nat /\ SumOf(e, rest) \in Nat
  <2>1. IsFiniteSet(rest) /\ rest \in SUBSET S
    BY FS_Subset
  <2> HIDE DEF rest
  <2> QED BY <1>4, <2>1, SumNat
<1> QED BY <1>3, <1>4, <1>7, <1>8, <1>9

(* The sum over two disjoint sets. *)
LEMMA SumUnion ==
    ASSUME NEW e, NEW A, NEW B, IsFiniteSet(A), IsFiniteSet(B), A \cap B = {},
           \A x \in A \cup B : e[x] \in Nat
    PROVE  SumOf(e, A \cup B) = SumOf(e, A) + SumOf(e, B)
<1> DEFINE T == {s \in SUBSET B : SumOf(e, A \cup s) # SumOf(e, A) + SumOf(e, s)}
<1>1. SUFFICES ASSUME T # {} PROVE FALSE
  OBVIOUS
<1>2. PICK m \in T : \A s \in T : ~(s \subseteq m /\ s # m)
  <2>1. T \in SUBSET SUBSET B
    OBVIOUS
  <2> HIDE DEF T
  <2> QED BY <1>1, <2>1, SmallestSet
<1>3. m # {}
  <2>1. A \cup {} = A /\ SumOf(e, A) \in Nat
    BY SumNat
  <2>2. SumOf(e, A \cup {}) = SumOf(e, A) + SumOf(e, {})
    BY <2>1, SumEmpty
  <2> QED BY <1>2, <2>2
<1>4. PICK y : y \in m
  BY <1>3
<1> DEFINE t == m \ {y}
<1>5. SumOf(e, A \cup t) = SumOf(e, A) + SumOf(e, t)
  BY <1>2, <1>4
<1>6. SumOf(e, m) = e[y] + SumOf(e, t)
  BY <1>4, SumRemove, FS_Subset
<1>7. SumOf(e, A \cup m) = e[y] + SumOf(e, A \cup t)
  <2>1. IsFiniteSet(A \cup m) /\ (A \cup m) \ {y} = A \cup t
    BY <1>4, FS_Subset, FS_Union
  <2> QED BY <1>4, <2>1, SumRemove
<1>8. SumOf(e, A) \in Nat /\ SumOf(e, t) \in Nat /\ e[y] \in Nat
  BY <1>4, SumNat, FS_Subset
<1> QED BY <1>2, <1>5, <1>6, <1>7, <1>8

(* The sum reads the function on its own set only. *)
LEMMA SumSame ==
    ASSUME NEW e, NEW f, NEW S, \A x \in S : e[x] = f[x]
    PROVE  SumOf(e, S) = SumOf(f, S)
<1>1. \A g : SumBody(e, S, g) = SumBody(f, S, g)
  BY DEF SumBody, Chosen
<1> QED BY <1>1 DEF SumOf, SumFcn

-----------------------------------------------------------------------------
(* At the end of the partition the marked entries are those in front. *)
LEMMA FrontAndBack ==
    ASSUME RInv, pc = "partitioned"
    PROVE  /\ Registered = Front \cup Back
           /\ Front \cap Back = {}
           /\ Registered \ gc_marked = Back
           /\ IsFiniteSet(Back) /\ Cardinality(Back) = Size - live_count
<1> USE DEF RInv
<1>0. /\ Size \in Nat /\ live_count \in 0..Size /\ garbage_begin = live_count
      /\ \A k \in 0..(live_count - 1) : At(k) \in gc_marked
      /\ \A k \in live_count..(Size - 1) : At(k) \notin gc_marked
  BY DEF VectorOK, Partition, Size
<1>1. Registered = Front \cup Back
  <2>1. ASSUME NEW k \in 1..Size PROVE tracked_objects[k] \in Front \cup Back
    <3>1. tracked_objects[k] = At(k - 1) /\ (k - 1 \in 0..(live_count - 1) \/ k - 1 \in live_count..(Size - 1))
      BY <1>0 DEF At
    <3> QED BY <3>1 DEF Front, Back
  <2>2. Front \subseteq Registered /\ Back \subseteq Registered
    BY <1>0 DEF Front, Back, Registered, At
  <2> QED BY <2>1, <2>2 DEF Registered
<1>2. Front \subseteq gc_marked /\ Back \cap gc_marked = {}
  BY <1>0 DEF Front, Back
<1>3. IsFiniteSet(Back) /\ Cardinality(Back) = Size - live_count
  <2> DEFINE places == live_count..(Size - 1)
             f == [k \in places |-> At(k)]
  <2>1. f \in Bijection(places, Back)
    <3>1. f \in [places -> Back] /\ \A x \in Back : \E k \in places : f[k] = x
      BY DEF Back
    <3>2. \A k, l \in places : f[k] = f[l] => k = l
      BY <1>0 DEF IndexIsPlace, At
    <3> QED BY <3>1, <3>2 DEF Bijection, Injection, IsInjective, Surjection
  <2>2. IsFiniteSet(places) /\ Cardinality(places) = Size - live_count
    <3>1. live_count \in Int /\ Size - 1 \in Int /\ (live_count > Size - 1 => Size - live_count = 0)
          /\ (Size - 1) - live_count + 1 = Size - live_count
      BY <1>0
    <3> QED BY <3>1, FS_Interval
  <2> QED BY <2>1, <2>2, FS_Bijection DEF ExistsBijection
<1> QED BY <1>1, <1>2, <1>3

-----------------------------------------------------------------------------
(* What the counters keep to: a collection is not asked for before the     *)
(* threshold is used up, and there is no memory target without a limit.    *)
PaceOK ==
    /\ memory_limit = 0 => memory_target = 0
    /\ collection_threshold + tracked_count <= allocation_count + collection_target

CInv == TypeOK /\ PaceOK /\ UsageCoversRegistry

LEMMA UsageIsSum ==
    /\ UsageCoversRegistry <=> estimated_memory_usage = SumOf(gc_est, gc_tracked) + clipped
    /\ UsageCoversRegistry' <=> estimated_memory_usage' = SumOf(gc_est', gc_tracked') + clipped'
BY DEF UsageCoversRegistry, EstOf, MapThenSumSet, MapThenFoldSet, SumOf, SumFcn, SumBody, Chosen

LEMMA TypeStep == ASSUME RInv, RInv', TypeOK, [Next]_vars PROVE TypeOK'
<1>v. VectorOK /\ VectorOK'
  BY DEF RInv
<1>0. Size \in Nat /\ Size' \in Nat
  BY <1>v DEF VectorOK, Size
<1>1. /\ tracked_objects' \in Seq(Object) /\ gc_index' \in [Object -> Nat] /\ gc_marked' \subseteq Object
      /\ pc' \in {"idle", "partition", "partitioned"}
      /\ 0 <= live_count' /\ live_count' <= garbage_begin' /\ garbage_begin' <= Size'
  BY <1>v DEF VectorOK
<1>2. gc_tracked' \subseteq Object
  <2>1. gc_tracked' = {tracked_objects'[i] : i \in 1..Len(tracked_objects')}
    BY DEF RInv, IndexIsPlace, Registered, Size
  <2>2. \A i \in 1..Len(tracked_objects') : tracked_objects'[i] \in Object
    BY <1>1
  <2> QED BY <2>1, <2>2
<1> USE RegistryAssumption DEF TypeOK
<1>3. ASSUME NEW o \in Object, NEW est \in Est, Track(o, est) PROVE TypeOK'
  <2>1. /\ est \in Nat /\ gc_est' = [gc_est EXCEPT ![o] = IF est > EstMax THEN EstMax ELSE est]
        /\ clipped' = clipped + (est - gc_est'[o])
    BY <1>3 DEF Track
  <2>2. gc_est' \in [Object -> 0..EstMax] /\ gc_est'[o] <= est /\ gc_est'[o] \in Nat
    BY <2>1
  <2>3. clipped' \in Nat
    BY <2>1, <2>2
  <2>4. trigger_collection' \in BOOLEAN
    BY <1>3 DEF Track, Due
  <2> QED BY <1>0, <1>1, <1>2, <1>3, <2>1, <2>2, <2>3, <2>4 DEF Track, sweepVars, Size
<1>4. ASSUME NEW o \in Object, Untrack(o) PROVE TypeOK'
  <2>1. estimated_memory_usage' \in Nat
    BY <1>4 DEF Untrack, Saturating
  <2> QED BY <1>0, <1>1, <1>2, <1>4, <2>1 DEF Untrack, paceVars, statVars, sweepVars, Size
<1>5. ASSUME NEW t \in Threshold, SetCollectionThreshold(t) PROVE TypeOK'
  BY <1>0, <1>1, <1>2, <1>5 DEF SetCollectionThreshold, headerVars, statVars, sweepVars
<1>6. ASSUME NEW limit \in Limit, SetMemoryLimit(limit) PROVE TypeOK'
  BY <1>0, <1>1, <1>2, <1>6 DEF SetMemoryLimit, headerVars, statVars, sweepVars
<1>7. ASSUME NEW M \in SUBSET gc_tracked, Collect(M) \/ ForceCollect(M) PROVE TypeOK'
  BY <1>0, <1>1, <1>2, <1>7 DEF Collect, ForceCollect, StartSweep, statVars
<1>8. CASE KeepLive \/ SwapGarbage \/ EndPartition
  BY <1>0, <1>1, <1>2, <1>8 DEF KeepLive, SwapGarbage, EndPartition, headerVars, statVars, paceVars
<1>9. CASE FinishCollection
  <2>1. live_count \in Nat /\ Size - live_count \in Nat
    BY <1>0, <1>9 DEF RInv, VectorOK
  <2>2. pc' = "idle" /\ gc_est' = gc_est /\ tracked_count' = live_count /\ total_collected' = total_collected + (Size - live_count)
        /\ allocation_count' = 0 /\ trigger_collection' = old_trigger /\ old_trigger' = FALSE
        /\ UNCHANGED <<collection_threshold, memory_limit, total_allocated, clipped>>
    BY <1>9 DEF FinishCollection
  <2>3. estimated_memory_usage' \in Nat
    <3>1. /\ IsFiniteSet(Back) /\ \A o \in Back : gc_est[o] \in Nat
      <4>1. Back \subseteq Object
        BY <1>0, <2>1 DEF Back, At, Size
      <4> QED BY <4>1, FS_Subset
    <3>2. EstOf(Back) \in Nat
      BY <3>1, SumNat, EstIsSum
    <3> QED BY <1>9, <3>2 DEF FinishCollection, Saturating
  <2>4. collection_target' \in Nat
    BY <1>9, <2>1 DEF FinishCollection, NextTarget, Larger
  <2>5. memory_target' \in Nat
    BY <1>9, <2>3 DEF FinishCollection, NextMemoryTarget, Larger
  <2>6. trigger_collection' \in BOOLEAN /\ old_trigger' \in BOOLEAN
    BY <2>2
  <2>7. tracked_count' \in Nat /\ allocation_count' \in Nat /\ total_collected' \in Nat
    BY <2>1, <2>2
  <2> QED BY <1>1, <1>2, <2>2, <2>3, <2>4, <2>5, <2>6, <2>7
<1>10. CASE UNCHANGED vars
  BY <1>0, <1>1, <1>2, <1>10 DEF vars, headerVars, statVars, paceVars, sweepVars
<1> QED BY <1>3, <1>4, <1>5, <1>6, <1>7, <1>8, <1>9, <1>10 DEF Next

LEMMA PaceStep == ASSUME RInv, TypeOK, PaceOK, [Next]_vars PROVE PaceOK'
<1> USE RegistryAssumption DEF TypeOK, PaceOK
<1>0. Size \in Nat /\ (pc = "idle" => tracked_count = Size)
  BY DEF RInv, VectorOK, IndexIsPlace, Size
<1>1. ASSUME NEW o \in Object, NEW est \in Est, Track(o, est) PROVE PaceOK'
  <2>1. Len(tracked_objects') = Size + 1
    BY <1>1 DEF Track, Size
  <2> QED BY <1>0, <1>1, <2>1 DEF Track
<1>2. ASSUME NEW o \in Object, Untrack(o) PROVE PaceOK'
  <2>1. Len(tracked_objects') = Size - 1
    BY <1>0, <1>2, UntrackStep DEF Size
  <2> QED BY <1>0, <1>2, <2>1 DEF Untrack, paceVars
<1>3. ASSUME NEW t \in Threshold, SetCollectionThreshold(t) PROVE PaceOK'
  BY <1>3 DEF SetCollectionThreshold
<1>4. ASSUME NEW limit \in Limit, SetMemoryLimit(limit) PROVE PaceOK'
  BY <1>4 DEF SetMemoryLimit
<1>5. ASSUME NEW M \in SUBSET gc_tracked, Collect(M) \/ ForceCollect(M) PROVE PaceOK'
  BY <1>5 DEF Collect, ForceCollect, StartSweep
<1>6. CASE KeepLive \/ SwapGarbage \/ EndPartition
  BY <1>6 DEF KeepLive, SwapGarbage, EndPartition, paceVars
<1>7. CASE FinishCollection
  <2>1. live_count \in Nat
    BY DEF RInv, VectorOK
  <2> QED BY <1>7, <2>1 DEF FinishCollection, NextTarget, NextMemoryTarget, Larger
<1>8. CASE UNCHANGED vars
  BY <1>8 DEF vars, paceVars
<1> QED BY <1>1, <1>2, <1>3, <1>4, <1>5, <1>6, <1>7, <1>8 DEF Next

LEMMA UsageStep == ASSUME RInv, TypeOK, UsageCoversRegistry, [Next]_vars PROVE UsageCoversRegistry'
<1> USE RegistryAssumption DEF TypeOK
<1>0. /\ IsFiniteSet(gc_tracked) /\ \A o \in gc_tracked : gc_est[o] \in Nat
      /\ estimated_memory_usage = SumOf(gc_est, gc_tracked) + clipped
      /\ SumOf(gc_est, gc_tracked) \in Nat
  <2>1. IsFiniteSet(gc_tracked) /\ \A o \in gc_tracked : gc_est[o] \in Nat
    BY FS_Subset
  <2> QED BY <2>1, UsageIsSum, SumNat
<1>1. SUFFICES estimated_memory_usage' = SumOf(gc_est', gc_tracked') + clipped'
  BY UsageIsSum
<1>2. ASSUME NEW o \in Object, NEW est \in Est, Track(o, est)
      PROVE  estimated_memory_usage' = SumOf(gc_est', gc_tracked') + clipped'
  <2>1. /\ est \in Nat /\ o \notin gc_tracked /\ gc_tracked' = gc_tracked \cup {o}
        /\ gc_est' \in [Object -> 0..EstMax] /\ \A p \in gc_tracked : gc_est'[p] = gc_est[p]
        /\ clipped' = clipped + (est - gc_est'[o])
        /\ estimated_memory_usage' = estimated_memory_usage + est
    BY <1>2 DEF Track
  <2>2. SumOf(gc_est', gc_tracked) = SumOf(gc_est, gc_tracked)
    BY <2>1, SumSame
  <2>3. SumOf(gc_est', gc_tracked \cup {o}) = gc_est'[o] + SumOf(gc_est', gc_tracked)
    <3> DEFINE S == gc_tracked \cup {o}
    <3>0. o \in S /\ S \ {o} = gc_tracked /\ S \subseteq Object
      BY <1>0, <2>1
    <3>a. IsFiniteSet(S)
      BY <1>0, FS_AddElement
    <3>b. \A x \in S : gc_est'[x] \in Nat
      BY <2>1, <3>0, RegistryAssumption
    <3>1. IsFiniteSet(S) /\ o \in S /\ S \ {o} = gc_tracked /\ \A x \in S : gc_est'[x] \in Nat
      BY <3>0, <3>a, <3>b
    <3> HIDE DEF S
    <3>2. SumOf(gc_est', S) = gc_est'[o] + SumOf(gc_est', S \ {o})
      BY <3>1, SumRemove
    <3> QED BY <3>1, <3>2 DEF S
  <2>4. gc_est'[o] \in Nat /\ clipped \in Nat
    BY <2>1
  <2>5. SumOf(gc_est', gc_tracked') = gc_est'[o] + SumOf(gc_est, gc_tracked)
    BY <2>1, <2>2, <2>3
  <2> HIDE DEF TypeOK
  <2> QED BY <1>0, <2>1, <2>4, <2>5
<1>3. ASSUME NEW o \in Object, Untrack(o)
      PROVE  estimated_memory_usage' = SumOf(gc_est', gc_tracked') + clipped'
  <2>1. /\ o \in gc_tracked /\ gc_tracked' = gc_tracked \ {o} /\ UNCHANGED <<gc_est, clipped>>
        /\ estimated_memory_usage' = Saturating(estimated_memory_usage, gc_est[o])
    BY <1>3 DEF Untrack, statVars
  <2>2. SumOf(gc_est, gc_tracked) = gc_est[o] + SumOf(gc_est, gc_tracked \ {o})
    BY <1>0, <2>1, SumRemove
  <2>3. SumOf(gc_est, gc_tracked \ {o}) \in Nat /\ gc_est[o] \in Nat
    <3> DEFINE S == gc_tracked \ {o}
    <3>1. IsFiniteSet(S) /\ \A p \in S : gc_est[p] \in Nat
      BY <1>0, FS_Subset
    <3> HIDE DEF S
    <3>2. SumOf(gc_est, S) \in Nat
      BY <3>1, SumNat
    <3> QED BY <3>2 DEF S
  <2> QED BY <1>0, <2>1, <2>2, <2>3 DEF Saturating
<1>4. CASE FinishCollection
  <2>1. /\ gc_tracked = Front \cup Back /\ Front \cap Back = {}
        /\ gc_tracked' = Front /\ UNCHANGED <<gc_est, clipped>>
        /\ estimated_memory_usage' = Saturating(estimated_memory_usage, EstOf(Back))
    BY <1>4, FrontAndBack DEF FinishCollection, RInv, IndexIsPlace
  <2>2. IsFiniteSet(Front) /\ IsFiniteSet(Back)
    BY <1>0, <2>1, FS_Subset
  <2>3. SumOf(gc_est, Front \cup Back) = SumOf(gc_est, Front) + SumOf(gc_est, Back)
    BY <1>0, <2>1, <2>2, SumUnion
  <2>4. SumOf(gc_est, Front) \in Nat /\ SumOf(gc_est, Back) \in Nat
    BY <1>0, <2>1, <2>2, SumNat
  <2>5. EstOf(Back) = SumOf(gc_est, Back)
    BY EstIsSum
  <2>6. SumOf(gc_est, gc_tracked) = SumOf(gc_est, gc_tracked') + EstOf(Back) /\ clipped \in Nat
    BY <2>1, <2>3, <2>5
  <2>7. SumOf(gc_est, gc_tracked') \in Nat /\ EstOf(Back) \in Nat
    BY <2>1, <2>4, <2>5
  <2>8. estimated_memory_usage >= EstOf(Back)
        /\ estimated_memory_usage - EstOf(Back) = SumOf(gc_est, gc_tracked') + clipped
    BY <1>0, <2>6, <2>7
  <2> QED BY <2>1, <2>8 DEF Saturating
<1>5. CASE UNCHANGED <<gc_est, gc_tracked, estimated_memory_usage, clipped>>
  BY <1>0, <1>5
<1>6. ASSUME \/ \E t \in Threshold : SetCollectionThreshold(t)
             \/ \E limit \in Limit : SetMemoryLimit(limit)
             \/ \E M \in SUBSET gc_tracked : Collect(M) \/ ForceCollect(M)
             \/ KeepLive \/ SwapGarbage \/ EndPartition \/ UNCHANGED vars
      PROVE  UNCHANGED <<gc_est, gc_tracked, estimated_memory_usage, clipped>>
  BY <1>6 DEF SetCollectionThreshold, SetMemoryLimit, Collect, ForceCollect, StartSweep, KeepLive,
       SwapGarbage, EndPartition, vars, headerVars, statVars
<1> QED BY <1>2, <1>3, <1>4, <1>5, <1>6 DEF Next

-----------------------------------------------------------------------------
THEOREM RegistryInvariant == Spec => []RInv
<1>1. Init => RInv
  BY DEF Init, RInv, VectorOK, IndexIsPlace, Partition, Registered, Size
<1>2. RInv /\ [Next]_vars => RInv'
  BY TrackStep, UntrackStep, SwapStep, FinishStep, OtherSteps DEF Next
<1> QED BY <1>1, <1>2, PTL DEF Spec

(* Every header knows its own place, for registries of any length. *)
THEOREM IndexCorrect == Spec => []IndexIsPlace
<1>1. RInv => IndexIsPlace
  BY DEF RInv
<1> QED BY <1>1, RegistryInvariant, PTL

(* The two-pointer loop separates the marked entries from the others. *)
THEOREM PartitionCorrect == Spec => []Partition
<1>1. RInv => Partition
  BY DEF RInv
<1> QED BY <1>1, RegistryInvariant, PTL

(* Types, pace and memory estimate of every registry. *)
THEOREM CountersInvariant == Spec => []CInv
<1>1. Init => CInv
  <2> SUFFICES ASSUME Init PROVE CInv
    OBVIOUS
  <2>0. collection_threshold \in Nat /\ memory_limit \in Nat /\ EstMax \in Nat /\ Size = 0
    BY RegistryAssumption DEF Init, Size
  <2>1. TypeOK /\ PaceOK
    <3>1. gc_est \in [Object -> 0..EstMax] /\ gc_index \in [Object -> Nat] /\ tracked_objects \in Seq(Object)
      BY <2>0 DEF Init
    <3>2. trigger_collection \in BOOLEAN /\ old_trigger \in BOOLEAN
      BY DEF Init
    <3> QED BY <2>0, <3>1, <3>2 DEF Init, TypeOK, PaceOK
  <2>2. UsageCoversRegistry
    BY UsageIsSum, SumEmpty DEF Init
  <2> QED BY <2>1, <2>2 DEF CInv
<1>2. RInv /\ RInv' /\ CInv /\ [Next]_vars => CInv'
  BY TypeStep, PaceStep, UsageStep DEF CInv
<1> QED BY <1>1, <1>2, RegistryInvariant, PTL DEF Spec

(* TypeOK holds, for every registry. *)
THEOREM TypeCorrect == Spec => []TypeOK
<1>1. CInv => TypeOK
  BY DEF CInv
<1> QED BY <1>1, CountersInvariant, PTL

(* The memory estimate is the sum of what the headers of the registered    *)
(* objects say, and what did not fit them.                                 *)
THEOREM UsageCorrect == Spec => []UsageCoversRegistry
<1>1. CInv => UsageCoversRegistry
  BY DEF CInv
<1> QED BY <1>1, CountersInvariant, PTL

(* Without a memory limit a collection is asked for only after             *)
(* collection_threshold objects were tracked.                              *)
THEOREM AskedInTime == Spec => AskedAfterThreshold
<1>1. ASSUME RInv, CInv, [Next]_vars, pc = "idle", pc' = "idle", memory_limit = 0,
             ~trigger_collection, trigger_collection'
      PROVE  allocation_count' >= collection_threshold
  <2>1. PICK o \in Object, est \in Est : Track(o, est)
    BY <1>1 DEF Next, vars, paceVars, sweepVars, Untrack, SetCollectionThreshold, SetMemoryLimit,
                Collect, ForceCollect, StartSweep, KeepLive, SwapGarbage, EndPartition, FinishCollection
  <2>2. Len(tracked_objects') = Size + 1 /\ Size \in Nat /\ tracked_count = Size
    BY <1>1, <2>1 DEF Track, Size, RInv, VectorOK, IndexIsPlace
  <2> QED BY <1>1, <2>1, <2>2, RegistryAssumption DEF Track, Due, CInv, PaceOK, TypeOK
<1>2. RInv /\ CInv /\ [Next]_vars =>
        [pc = "idle" /\ pc' = "idle" /\ memory_limit = 0 /\ ~trigger_collection /\ trigger_collection' =>
            allocation_count' >= collection_threshold]_vars
  BY <1>1
<1> QED BY <1>2, RegistryInvariant, CountersInvariant, PTL DEF Spec, AskedAfterThreshold

(* A sweep keeps the marked entries of the registry and no other, and      *)
(* counts what it removes.                                                 *)
THEOREM SweepCorrect == Spec => SweepKeepsMarked
<1>1. ASSUME RInv, CInv, [Next]_vars, pc = "partitioned", pc' = "idle"
      PROVE  /\ Registered' = Registered \cap gc_marked
             /\ total_collected' - total_collected = Cardinality(Registered \ gc_marked)
  <2>1. FinishCollection
    BY <1>1 DEF Next, vars, sweepVars, Track, Untrack, SetCollectionThreshold, SetMemoryLimit,
                Collect, ForceCollect, StartSweep, KeepLive, SwapGarbage, EndPartition
  <2>2. total_collected' = total_collected + (Size - live_count)
    BY <2>1 DEF FinishCollection
  <2>3. total_collected \in Nat /\ Size \in Nat /\ live_count \in Nat
    BY <1>1 DEF CInv, TypeOK, RInv, VectorOK, Size
  <2>4. Registered' = Registered \cap gc_marked
    BY <1>1, <2>1, FinishStep
  <2>5. Cardinality(Registered \ gc_marked) = Size - live_count
    BY <1>1, FrontAndBack
  <2> QED BY <2>2, <2>3, <2>4, <2>5
<1>2. RInv /\ CInv /\ [Next]_vars =>
        [pc = "partitioned" /\ pc' = "idle" =>
            /\ Registered' = Registered \cap gc_marked
            /\ total_collected' - total_collected = Cardinality(Registered \ gc_marked)]_vars
  BY <1>1
<1> QED BY <1>2, RegistryInvariant, CountersInvariant, PTL DEF Spec, SweepKeepsMarked

=============================================================================
