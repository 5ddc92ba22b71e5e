----------------------------- MODULE GCRegistry -----------------------------
(***************************************************************************)
(* The registry of the collector: the vector tracked_objects with the      *)
(* index every header keeps of its own place, the counters that decide     *)
(* when a collection is due, and the sweep that partitions the vector in   *)
(* place (gc.cpp track, untrack, sweep, collect, force_collect; gc.h       *)
(* set_collection_threshold, set_memory_limit).                            *)
(*                                                                         *)
(* Which objects the mark phase marks is GCHeap's subject; here the mark   *)
(* phase marks any subset of the registered objects.  The collector is     *)
(* enabled throughout: what switching it off does is in GCHeap.            *)
(***************************************************************************)
EXTENDS Integers, Sequences, FiniteSets, FiniteSetsExt

CONSTANTS
    Object,         \* heap addresses
    Est,            \* sizes track() may estimate for an object, in bytes
    EstMax,         \* the largest value of the 32-bit gc_est field
    Threshold,      \* values of __gc_set_threshold and of the default
    Limit,          \* values of __gc_set_memory_limit, 0 among them
    MaxAllocated    \* bound: objects ever tracked

ASSUME RegistryAssumption ==
    /\ IsFiniteSet(Object)
    /\ Est \subseteq Nat \ {0}
    /\ EstMax \in Nat \ {0}
    /\ Threshold \subseteq Nat \ {0}
    /\ Limit \subseteq Nat
    /\ MaxAllocated \in Nat

VARIABLES
    tracked_objects,
    gc_index,           \* 0-based, as in the header
    gc_tracked,
    gc_marked,
    gc_est,
    tracked_count,
    allocation_count,
    collection_threshold,
    collection_target,
    trigger_collection,
    total_allocated,
    total_collected,
    memory_limit,
    memory_target,
    estimated_memory_usage,
    pc,                 \* "idle", "partition" or "partitioned"
    old_trigger,        \* the trigger once the collection is over
    live_count,
    garbage_begin,
    clipped             \* history: bytes that gc_est could not record

headerVars == <<gc_index, gc_tracked, gc_marked, gc_est>>
paceVars == <<allocation_count, collection_threshold, collection_target,
              trigger_collection, memory_limit, memory_target>>
statVars == <<total_allocated, total_collected, clipped>>
sweepVars == <<pc, old_trigger, live_count, garbage_begin>>
vars == <<tracked_objects, headerVars, tracked_count, paceVars, statVars,
          estimated_memory_usage, sweepVars>>

(* C++ numbers the vector from 0. *)
At(i) == tracked_objects[i + 1]
Size == Len(tracked_objects)
Registered == {tracked_objects[i] : i \in 1..Size}

Larger(a, b) == IF a >= b THEN a ELSE b
Unsubtracted(a, b) == a
Saturating(a, b) == IF a >= b THEN a - b ELSE 0
EstOf(S) == MapThenSumSet(LAMBDA o : gc_est[o], S)

TypeOK ==
    /\ tracked_objects \in Seq(Object)
    /\ gc_index \in [Object -> Nat]
    /\ gc_tracked \subseteq Object
    /\ gc_marked \subseteq Object
    /\ gc_est \in [Object -> 0..EstMax]
    /\ tracked_count \in Nat
    /\ allocation_count \in Nat
    /\ collection_threshold \in Threshold
    /\ collection_target \in Nat
    /\ trigger_collection \in BOOLEAN
    /\ total_allocated \in Nat
    /\ total_collected \in Nat
    /\ memory_limit \in Limit
    /\ memory_target \in Nat
    /\ estimated_memory_usage \in Nat
    /\ pc \in {"idle", "partition", "partitioned"}
    /\ old_trigger \in BOOLEAN
    /\ clipped \in Nat
    /\ 0 <= live_count /\ live_count <= garbage_begin /\ garbage_begin <= Size

-----------------------------------------------------------------------------
Init ==
    /\ tracked_objects = <<>>
    /\ gc_index = [o \in Object |-> 0]
    /\ gc_tracked = {}
    /\ gc_marked = {}
    /\ gc_est = [o \in Object |-> 0]
    /\ tracked_count = 0
    /\ allocation_count = 0
    /\ collection_threshold \in Threshold
    /\ collection_target = collection_threshold
    /\ trigger_collection = FALSE
    /\ total_allocated = 0
    /\ total_collected = 0
    /\ memory_limit \in Limit
    /\ memory_target = memory_limit
    /\ estimated_memory_usage = 0
    /\ pc = "idle"
    /\ old_trigger = FALSE
    /\ live_count = 0
    /\ garbage_begin = 0
    /\ clipped = 0

(* A collection is due by count, or by estimated memory if there is a target. *)
Due ==
    \/ memory_target > 0 /\ estimated_memory_usage' > memory_target
    \/ tracked_count' >= collection_target

(* track(): a second call for a registered object does nothing.  The field *)
(* gc_est saturates at 32 bits while the usage grows by the full estimate. *)
Track(o, est) ==
    /\ pc = "idle"
    /\ o \notin gc_tracked
    /\ total_allocated < MaxAllocated
    /\ gc_est' = [gc_est EXCEPT ![o] = IF est > EstMax THEN EstMax ELSE est]
    /\ clipped' = clipped + (est - gc_est'[o])
    /\ gc_index' = [gc_index EXCEPT ![o] = Size]
    /\ tracked_objects' = Append(tracked_objects, o)
    /\ gc_tracked' = gc_tracked \cup {o}
    /\ tracked_count' = Len(tracked_objects')
    /\ allocation_count' = allocation_count + 1
    /\ total_allocated' = total_allocated + 1
    /\ estimated_memory_usage' = estimated_memory_usage + est
    /\ trigger_collection' = (trigger_collection \/ Due)
    /\ UNCHANGED <<gc_marked, collection_threshold, collection_target, memory_limit,
                   memory_target, total_collected, sweepVars>>

(* untrack(): the last entry takes the place of the one removed.  Part of  *)
(* the collector's interface; nothing calls it at this commit.             *)
LastMovedTo(i) == [tracked_objects EXCEPT ![i + 1] = At(Size - 1)]
NotReindexed(o) == gc_index
Reindexed(o) == [gc_index EXCEPT ![At(Size - 1)] = gc_index[o]]
Untrack(o) ==
    /\ pc = "idle"
    /\ o \in gc_tracked
    /\ tracked_objects' = SubSeq(LastMovedTo(gc_index[o]), 1, Size - 1)
    /\ gc_index' = IF gc_index[o] + 1 # Size THEN Reindexed(o) ELSE gc_index
    /\ gc_tracked' = gc_tracked \ {o}
    /\ estimated_memory_usage' = Saturating(estimated_memory_usage, gc_est[o])
    /\ tracked_count' = Len(tracked_objects')
    /\ UNCHANGED <<gc_marked, gc_est, paceVars, statVars, sweepVars>>

SetCollectionThreshold(t) ==
    /\ pc = "idle"
    /\ collection_threshold' = t
    /\ collection_target' = tracked_count + t
    /\ UNCHANGED <<tracked_objects, headerVars, tracked_count, allocation_count, trigger_collection,
                   memory_limit, memory_target, statVars, estimated_memory_usage, sweepVars>>

SetMemoryLimit(limit) ==
    /\ pc = "idle"
    /\ memory_limit' = limit
    /\ memory_target' = limit
    /\ UNCHANGED <<tracked_objects, headerVars, tracked_count, allocation_count, collection_threshold,
                   collection_target, trigger_collection, statVars, estimated_memory_usage, sweepVars>>

-----------------------------------------------------------------------------
(* Both loops of sweep() start at the two ends of the vector. *)
SweepEndBeyond == Size + 1
SweepEndShort == Larger(Size, 1) - 1
SweepEnd == Size

(* collect() at a safe point that found the trigger set, and force_collect *)
(* from __gc_collect: the mark phase marks the objects in M.               *)
StartSweep(M) ==
    /\ pc = "idle"
    /\ gc_marked' = M
    /\ live_count' = 0
    /\ garbage_begin' = SweepEnd
    /\ pc' = "partition"
    /\ UNCHANGED <<tracked_objects, gc_index, gc_tracked, gc_est, tracked_count, allocation_count,
                   collection_threshold, collection_target, memory_limit, memory_target, statVars,
                   estimated_memory_usage>>

Collect(M) ==
    /\ trigger_collection
    /\ StartSweep(M)
    /\ old_trigger' = FALSE
    /\ UNCHANGED trigger_collection

ForceCollect(M) ==
    /\ StartSweep(M)
    /\ old_trigger' = trigger_collection
    /\ trigger_collection' = TRUE

(* The two-pointer loop of sweep().  A live entry at the front stays.      *)
KeepLive ==
    /\ pc = "partition"
    /\ live_count < garbage_begin
    /\ At(live_count) \in gc_marked
    /\ live_count' = live_count + 1
    /\ UNCHANGED <<tracked_objects, headerVars, tracked_count, paceVars, statVars,
                   estimated_memory_usage, pc, old_trigger, garbage_begin>>

(* Garbage at the front: the scan from the back stops at the last live     *)
(* entry g, or at live_count when everything between is garbage.           *)
LastEntry(g) == g = garbage_begin - 1
LastLive(g) ==
    /\ g = live_count \/ At(g) \in gc_marked
    /\ \A k \in (g + 1)..(garbage_begin - 1) : At(k) \notin gc_marked

Swapped(i, j) ==
    [tracked_objects EXCEPT ![i + 1] = tracked_objects[j + 1], ![j + 1] = tracked_objects[i + 1]]

SwapGarbage ==
    /\ pc = "partition"
    /\ live_count < garbage_begin
    /\ At(live_count) \notin gc_marked
    /\ \E g \in live_count..(garbage_begin - 1) :
        /\ LastLive(g)
        /\ garbage_begin' = g
        /\ IF g = live_count
           THEN UNCHANGED <<tracked_objects, live_count>>
           ELSE /\ tracked_objects' = Swapped(live_count, g)
                /\ live_count' = live_count + 1
    /\ UNCHANGED <<headerVars, tracked_count, paceVars, statVars,
                   estimated_memory_usage, pc, old_trigger>>

EndPartition ==
    /\ pc = "partition"
    /\ live_count >= garbage_begin
    /\ pc' = "partitioned"
    /\ UNCHANGED <<tracked_objects, headerVars, tracked_count, paceVars, statVars,
                   estimated_memory_usage, old_trigger, live_count, garbage_begin>>

(* The rest of sweep(): survivors get their index and lose their mark, the *)
(* garbage behind them is untracked and popped from the back.  Then the    *)
(* tail of collect() paces the next collection and force_collect restores  *)
(* the trigger it found.                                                   *)
Front == {At(i) : i \in 0..(live_count - 1)}
Back == {At(i) : i \in live_count..(Size - 1)}

NextTargetFromZero(n) == Larger(collection_threshold, n)
NextTarget(n) == n + Larger(collection_threshold, n)
NextMemoryTarget(usage) == IF memory_limit > 0 THEN Larger(memory_limit, usage * 2) ELSE memory_target

FinishCollection ==
    /\ pc = "partitioned"
    /\ tracked_objects' = SubSeq(tracked_objects, 1, live_count)
    /\ gc_index' = [o \in Object |->
                        IF o \in Front THEN (CHOOSE i \in 0..(live_count - 1) : At(i) = o) ELSE gc_index[o]]
    /\ gc_marked' = gc_marked \ Front
    /\ gc_tracked' = gc_tracked \ Back
    /\ tracked_count' = live_count
    /\ estimated_memory_usage' = Saturating(estimated_memory_usage, EstOf(Back))
    /\ total_collected' = total_collected + (Size - live_count)
    /\ allocation_count' = 0
    /\ trigger_collection' = old_trigger
    /\ collection_target' = NextTarget(live_count)
    /\ memory_target' = NextMemoryTarget(estimated_memory_usage')
    /\ pc' = "idle"
    /\ old_trigger' = FALSE
    /\ live_count' = 0
    /\ garbage_begin' = 0
    /\ UNCHANGED <<gc_est, collection_threshold, memory_limit, total_allocated, clipped>>

-----------------------------------------------------------------------------
Next ==
    \/ \E o \in Object, est \in Est : Track(o, est)
    \/ \E o \in Object : Untrack(o)
    \/ \E t \in Threshold : SetCollectionThreshold(t)
    \/ \E limit \in Limit : SetMemoryLimit(limit)
    \/ \E M \in SUBSET gc_tracked : Collect(M) \/ ForceCollect(M)
    \/ KeepLive
    \/ SwapGarbage
    \/ EndPartition
    \/ FinishCollection

Spec == Init /\ [][Next]_vars

-----------------------------------------------------------------------------
(* Each header knows its own place: untrack() would otherwise overwrite    *)
(* the entry of another object, which the sweep would then never see.      *)
(* During the partition the indices are stale, and only then.              *)
IndexIsPlace ==
    /\ gc_tracked = Registered
    /\ \A i, j \in 1..Size : tracked_objects[i] = tracked_objects[j] => i = j
    /\ pc = "idle" => /\ tracked_count = Size
                      /\ \A i \in 0..(Size - 1) : gc_index[At(i)] = i

(* The invariant of the two-pointer loop, and what it leaves behind: the   *)
(* marked entries in front of the unmarked ones.                           *)
Partition ==
    pc # "idle" =>
        /\ \A i \in 0..(live_count - 1) : At(i) \in gc_marked
        /\ \A i \in garbage_begin..(Size - 1) : At(i) \notin gc_marked
        /\ pc = "partitioned" => live_count = garbage_begin

(* The estimate of memory in use is what the headers of the registered     *)
(* objects say, and above it exactly by what did not fit gc_est, which no  *)
(* sweep takes back; it never falls below, so the subtractions of sweep()  *)
(* and untrack() never have to saturate.                                   *)
UsageCoversRegistry == estimated_memory_usage = EstOf(gc_tracked) + clipped

(* Pacing: without a memory limit, a collection is asked for only after    *)
(* collection_threshold objects were tracked since the last one, however   *)
(* many of them survived, were untracked, or saw the threshold move.       *)
AskedAfterThreshold ==
    [][pc = "idle" /\ pc' = "idle" /\ memory_limit = 0 /\ ~trigger_collection /\ trigger_collection' =>
            allocation_count' >= collection_threshold]_vars

(* The sweep removes the unmarked objects, keeps the order it likes, and   *)
(* counts what it removed.                                                 *)
SweepKeepsMarked ==
    [][pc = "partitioned" /\ pc' = "idle" =>
            /\ Registered' = Registered \cap gc_marked
            /\ total_collected' - total_collected = Cardinality(Registered \ gc_marked)]_vars

=============================================================================
