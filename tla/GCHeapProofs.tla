---------------------------- MODULE GCHeapProofs ----------------------------
(***************************************************************************)
(* Proofs about GCHeap, for every set of addresses and of cells.            *)
(*                                                                         *)
(* The argument: while the mark loop runs, an object that is marked and no *)
(* longer on the worklist has only marked children, its captured variables *)
(* included.  When the loop is over, the marked objects are therefore      *)
(* closed under references and hold the roots, so that nothing unmarked is *)
(* reachable.  The hypotheses of the theorems say where that holds: every  *)
(* object enters the registry (no __gc_enable(false), and the registry can *)
(* grow) and the root set sees every active call (no compiled closures).   *)
(* The run gc_compiled shows that the last is needed.                      *)
(***************************************************************************)
EXTENDS GCHeap, TLAPS

(* A set closed under the references holds everything that is reachable. *)
LEMMA ReachLeast ==
    ASSUME NEW R, NEW refs, NEW S \in SUBSET Object, ClosedUnder(R, refs, S)
    PROVE  Reach(R, refs) \subseteq S
BY DEF Reach

(* The reachable objects are themselves closed under the references. *)
LEMMA ReachClosed ==
    ASSUME NEW R \in SUBSET Object, NEW refs \in [Object -> SUBSET Object]
    PROVE  ClosedUnder(R, refs, Reach(R, refs))
<1>1. R \subseteq Reach(R, refs)
  BY DEF Reach, ClosedUnder
<1>2. ASSUME NEW o \in Reach(R, refs), NEW c \in refs[o]
      PROVE  c \in Reach(R, refs)
  <2>1. o \in Object /\ c \in Object
    BY <1>2 DEF Reach
  <2>2. ASSUME NEW S \in SUBSET Object, ClosedUnder(R, refs, S)
        PROVE  c \in S
    BY <1>2, <2>2 DEF Reach, ClosedUnder
  <2> QED BY <2>1, <2>2 DEF Reach
<1> QED BY <1>1, <1>2 DEF ClosedUnder

(* The same facts for the references of a heap. *)
LEMMA RefsType == TypeOK => Refs \in [Object -> SUBSET Object]
BY DEF TypeOK, Refs

LEMMA HeldType == TypeOK => Held \in SUBSET Object
BY DEF TypeOK, Held, Usable

LEMMA ReachableClosed ==
    TypeOK => /\ roots \subseteq Reachable
              /\ \A c \in Usable : cell[c] \subseteq Reachable
              /\ \A o \in Reachable : Refs[o] \subseteq Reachable
              /\ Reachable \subseteq Object
<1> SUFFICES ASSUME TypeOK PROVE ClosedUnder(Held, Refs, Reachable) /\ Reachable \subseteq Object
  BY DEF ClosedUnder, Held
<1> QED BY RefsType, HeldType, ReachClosed DEF Reachable, Reach

-----------------------------------------------------------------------------
(* TypeOK is inductive by itself. *)
THEOREM TypeCorrect == Spec => []TypeOK
<1>1. Init => TypeOK
  BY DEF Init, TypeOK
<1>2. TypeOK /\ [Next]_vars => TypeOK'
  <2> SUFFICES ASSUME TypeOK, [Next]_vars PROVE TypeOK'
    OBVIOUS
  <2> USE DEF TypeOK
  <2>1. ASSUME NEW o \in Object, NEW C \in SUBSET Cell, Allocate(o, C) PROVE TypeOK'
    BY <2>1 DEF Allocate, Track, markVars
  <2>2. ASSUME NEW o \in Object, NEW v \in Object, StoreField(o, v) PROVE TypeOK'
    BY <2>2 DEF StoreField, markVars
  <2>3. ASSUME NEW o \in Object, NEW v \in Object, RemoveField(o, v) PROVE TypeOK'
    BY <2>3 DEF RemoveField, markVars
  <2>4. ASSUME NEW o \in Object, NEW v \in Object, Load(o, v) PROVE TypeOK'
    BY <2>4 DEF Load, markVars
  <2>5. ASSUME NEW o \in Object, DropRoot(o) \/ CallClosure(o) \/ CallCompiled(o)
        PROVE  TypeOK'
    BY <2>5 DEF DropRoot, CallClosure, CallCompiled, markVars
  <2>6. ASSUME NEW c \in Cell, NEW V \in SUBSET Object, OpenCell(c, V) \/ StoreCaptured(c, V)
        PROVE  TypeOK'
    BY <2>6 DEF OpenCell, StoreCaptured, markVars
  <2>7. ASSUME NEW c \in Cell, LoadCaptured(c) \/ CloseCell(c) PROVE TypeOK'
    BY <2>7 DEF LoadCaptured, CloseCell, markVars
  <2>8. ASSUME NEW b \in BOOLEAN, SetEnabled(b) PROVE TypeOK'
    BY <2>8 DEF SetEnabled, heapVars, markVars
  <2>9. CASE BeginCollection
    BY <2>9 DEF BeginCollection, GcRoots, heapVars
  <2>10. ASSUME NEW o \in Object, MarkRoot(o) PROVE TypeOK'
    BY <2>10 DEF MarkRoot, PushUnmarked, heapVars
  <2>11. ASSUME NEW o \in Object, MarkChildren(o) PROVE TypeOK'
    BY <2>11 DEF MarkChildren, PushUnmarked, Scanned, heapVars
  <2>12. CASE Sweep
    BY <2>12 DEF Sweep, Garbage, Survivors, MarksCleared
  <2>13. CASE UNCHANGED vars
    BY <2>13 DEF vars, heapVars, markVars
  <2> QED
    BY <2>1, <2>2, <2>3, <2>4, <2>5, <2>6, <2>7, <2>8, <2>9, <2>10, <2>11, <2>12, <2>13
       DEF Next, Mutator, Mark
<1> QED BY <1>1, <1>2, PTL DEF Spec

-----------------------------------------------------------------------------
(* A set that holds what the script holds, and is closed, after a step.    *)
LEMMA ReachGrowsBy ==
    ASSUME TypeOK', NEW T \in SUBSET Object,
           roots' \subseteq T,
           \A c \in Usable' : cell'[c] \subseteq T,
           \A o \in T : Refs'[o] \subseteq T
    PROVE  Reachable' \subseteq T
<1>1. ClosedUnder(Held', Refs', T)
  BY DEF ClosedUnder, Held
<1>2. Reach(Held', Refs') \subseteq T
  BY <1>1, ReachLeast
<1> QED BY <1>2 DEF Reachable

(* When the mark loop is over, everything reachable is marked. *)
LEMMA MarkedAtSweep ==
    ASSUME TypeOK, ThreeColours, phase = "mark", pending = {}, mark_stack = {}
    PROVE  Reachable \subseteq gc_marked
<1>1. ClosedUnder(Held, Refs, gc_marked)
  BY DEF ThreeColours, ClosedUnder
<1> QED BY <1>1, ReachLeast DEF Reachable, TypeOK

(* What the script's steps leave of the invariant. *)
LEMMA MutatorStep ==
    ASSUME GcEnableCalls = FALSE, Compiled = FALSE, OutOfMemory = FALSE, IInv, TypeOK', Mutator
    PROVE  IInv'
<1> USE DEF IInv
<1>0. /\ phase = "mutator" /\ phase' = "mutator" /\ enabled /\ enabled'
      /\ roots \subseteq Reachable /\ Reachable \subseteq Object
      /\ \A c \in frame_cells : cell[c] \subseteq Reachable
      /\ \A o \in Reachable : Refs[o] \subseteq Reachable
      /\ gc_marked' = {} /\ mark_stack' = {} /\ pending' = {} /\ borrowed' = {}
      /\ Usable = frame_cells /\ Usable' = frame_cells'
  <2>1. /\ phase = "mutator" /\ UNCHANGED markVars /\ UNCHANGED enabled
        /\ gc_marked' \subseteq gc_marked /\ borrowed' = {}
    BY DEF Mutator, Allocate, StoreField, RemoveField, Load, DropRoot, OpenCell, StoreCaptured,
           LoadCaptured, CallClosure, CallCompiled, CloseCell, SetEnabled, heapVars
  <2>2. gc_marked = {} /\ mark_stack = {} /\ pending = {}
    BY <2>1 DEF ThreeColours
  <2> QED BY <2>1, <2>2, ReachableClosed DEF markVars, Usable
<1>1. ASSUME NEW T \in SUBSET Object, roots' \subseteq T, \A c \in frame_cells' : cell'[c] \subseteq T,
             \A o \in T : Refs'[o] \subseteq T, T \subseteq allocated', T \subseteq gc_tracked'
      PROVE  IInv'
  <2>1. Reachable' \subseteq T
    BY <1>0, <1>1, ReachGrowsBy
  <2> QED BY <1>0, <1>1, <2>1 DEF NoDangling, MarksAreReachable, ThreeColours
<1>2. ASSUME roots' \subseteq Reachable, \A c \in frame_cells' : cell'[c] \subseteq Reachable,
             \A o \in Reachable : Refs'[o] \subseteq Reachable,
             UNCHANGED <<allocated, gc_tracked>>
      PROVE  IInv'
  BY <1>0, <1>1, <1>2 DEF NoDangling
<1>3. ASSUME UNCHANGED <<fields, captures, cell>> PROVE Refs' = Refs
  BY <1>3 DEF Refs
<1>4. ASSUME NEW o \in Object, NEW C \in SUBSET Cell, Allocate(o, C) PROVE IInv'
  <2> DEFINE T == Reachable \cup {o}
  <2>1. T \subseteq allocated' /\ T \subseteq gc_tracked' /\ roots' \subseteq T /\ T \in SUBSET Object
    BY <1>0, <1>4 DEF Allocate, Track, NoDangling
  <2>2. ASSUME NEW p \in Reachable PROVE Refs'[p] \subseteq T
    <3>1. p \in allocated /\ p # o /\ p \in Object /\ Refs[p] \subseteq Reachable
      BY <1>0, <1>4 DEF Allocate, NoDangling
    <3>2. fields'[p] = fields[p] /\ captures'[p] = captures[p] /\ cell' = cell
      BY <1>4, <3>1 DEF Allocate, TypeOK
    <3> QED BY <3>1, <3>2 DEF Refs
  <2>3. Refs'[o] \subseteq T
    <3>1. fields'[o] = {} /\ captures'[o] = C /\ cell' = cell /\ C \subseteq frame_cells
      BY <1>0, <1>4 DEF Allocate, TypeOK
    <3> QED BY <1>0, <3>1 DEF Refs
  <2>4. \A c \in frame_cells' : cell'[c] \subseteq T
    BY <1>0, <1>4 DEF Allocate
  <2> QED BY <1>1, <2>1, <2>2, <2>3, <2>4
<1>5. ASSUME NEW o \in Object, NEW v \in Object, StoreField(o, v) PROVE IInv'
  <2>1. ASSUME NEW p \in Reachable PROVE Refs'[p] \subseteq Refs[p] \cup {v}
    BY <1>0, <1>5 DEF StoreField, Refs, TypeOK
  <2> QED BY <1>0, <1>2, <1>5, <2>1 DEF StoreField
<1>6. ASSUME NEW o \in Object, NEW v \in Object, RemoveField(o, v) PROVE IInv'
  <2>1. ASSUME NEW p \in Reachable PROVE Refs'[p] \subseteq Refs[p]
    BY <1>0, <1>6 DEF RemoveField, Refs, TypeOK
  <2> QED BY <1>0, <1>2, <1>6, <2>1 DEF RemoveField
<1>7. ASSUME NEW o \in Object, NEW v \in Object, Load(o, v) PROVE IInv'
  <2>1. v \in Reachable
    BY <1>0, <1>7 DEF Load, Refs
  <2> QED BY <1>0, <1>2, <1>3, <1>7, <2>1 DEF Load
<1>8. ASSUME NEW o \in Object, DropRoot(o) PROVE IInv'
  BY <1>0, <1>2, <1>3, <1>8 DEF DropRoot
<1>9. ASSUME NEW o \in Object, CallClosure(o) PROVE IInv'
  <2>1. ASSUME NEW c \in captures[o] PROVE cell[c] \subseteq Refs[o]
    BY DEF Refs
  <2> QED BY <1>0, <1>2, <1>3, <1>9, <2>1 DEF CallClosure
<1>10. ASSUME NEW c \in Cell, NEW V \in SUBSET Object, OpenCell(c, V) \/ StoreCaptured(c, V)
       PROVE  IInv'
  <2>1. V \subseteq roots /\ frame_cells' \subseteq frame_cells \cup {c}
        /\ UNCHANGED <<allocated, fields, captures, roots, gc_tracked>>
    BY <1>10 DEF OpenCell, StoreCaptured, Storable
  <2>2. cell' = [cell EXCEPT ![c] = V]
    BY <1>10 DEF OpenCell, StoreCaptured
  <2>3. \A d \in Cell : cell'[d] = IF d = c THEN V ELSE cell[d]
    BY <2>2 DEF TypeOK
  <2>4. ASSUME NEW p \in Reachable PROVE Refs'[p] \subseteq Refs[p] \cup V
    <3>1. p \in Object /\ captures[p] \subseteq Cell
      BY <1>0 DEF TypeOK
    <3> QED BY <2>1, <2>3, <3>1 DEF Refs
  <2>5. \A d \in frame_cells' : cell'[d] \subseteq Reachable
    BY <1>0, <2>1, <2>3 DEF TypeOK
  <2> QED BY <1>0, <1>2, <2>1, <2>4, <2>5
<1>11. ASSUME NEW c \in Cell, LoadCaptured(c) \/ CloseCell(c) PROVE IInv'
  BY <1>0, <1>2, <1>3, <1>11 DEF LoadCaptured, CloseCell
<1>12. (\A b \in BOOLEAN : ~SetEnabled(b)) /\ (\A o \in Object : ~CallCompiled(o))
  BY DEF SetEnabled, CallCompiled
<1> QED BY <1>4, <1>5, <1>6, <1>7, <1>8, <1>9, <1>10, <1>11, <1>12 DEF Mutator

(* A turn of the collector that leaves the heap alone and marks objects    *)
(* the script can reach.                                                   *)
LEMMA HeapUntouched ==
    ASSUME UNCHANGED heapVars
    PROVE  Reachable' = Reachable /\ Refs' = Refs /\ Held' = Held
BY DEF heapVars, Reachable, Refs, Held, Usable

LEMMA CollectorStep ==
    ASSUME IInv, TypeOK', BeginCollection \/ Mark \/ Sweep
    PROVE  IInv'
<1> USE DEF IInv
<1>0. /\ Held \subseteq Reachable /\ Reachable \subseteq Object
      /\ \A o \in Reachable : Refs[o] \subseteq Reachable
  BY ReachableClosed DEF Held
<1>1. CASE BeginCollection
  <2>1. Reachable' = Reachable /\ Held' = Held /\ GcRoots = Held
    BY <1>1, HeapUntouched DEF BeginCollection, GcRoots, Held, Usable
  <2>2. ThreeColours'
    BY <1>1, <2>1 DEF BeginCollection, ThreeColours
  <2> QED BY <1>1, <2>1, <2>2 DEF BeginCollection, NoDangling, MarksAreReachable, heapVars
<1>2. ASSUME NEW o \in Object, MarkRoot(o) PROVE IInv'
  <2>1. Reachable' = Reachable /\ Held' = Held /\ Refs' = Refs
    BY <1>2, HeapUntouched DEF MarkRoot
  <2>2. gc_marked' \subseteq Reachable
    BY <1>0, <1>2 DEF MarkRoot, MarksAreReachable, ThreeColours
  <2>3. ThreeColours'
    BY <1>2, <2>1 DEF MarkRoot, PushUnmarked, ThreeColours
  <2> QED BY <1>2, <2>1, <2>2, <2>3 DEF MarkRoot, NoDangling, MarksAreReachable, heapVars
<1>3. ASSUME NEW o \in Object, MarkChildren(o) PROVE IInv'
  <2>1. Reachable' = Reachable /\ Held' = Held /\ Refs' = Refs
    BY <1>3, HeapUntouched DEF MarkChildren
  <2>2. Scanned(o) = Refs[o]
    BY DEF Scanned, Refs
  <2>3. gc_marked' \subseteq Reachable
    <3>1. o \in Reachable
      BY <1>3 DEF MarkChildren, ThreeColours, MarksAreReachable
    <3> QED BY <1>0, <1>3, <3>1, <2>2 DEF MarkChildren, MarksAreReachable
  <2>4. ThreeColours'
    <3>1. /\ phase = "mark" /\ phase' = "mark" /\ pending' = pending
          /\ gc_marked' = gc_marked \cup Refs[o]
          /\ mark_stack' = (mark_stack \ {o}) \cup (Refs[o] \ gc_marked)
      BY <1>3, <2>2 DEF MarkChildren, PushUnmarked
    <3>2. ASSUME NEW p \in gc_marked' \ mark_stack' PROVE Refs[p] \subseteq gc_marked'
      <4>1. CASE p = o
        BY <3>1, <4>1
      <4>2. CASE p # o
        <5>1. p \in gc_marked \ mark_stack
          BY <3>1, <3>2, <4>2
        <5> QED BY <3>1, <5>1 DEF ThreeColours
      <4> QED BY <4>1, <4>2
    <3> QED BY <2>1, <3>1, <3>2 DEF ThreeColours
  <2> QED BY <1>3, <2>1, <2>3, <2>4 DEF MarkChildren, NoDangling, MarksAreReachable, heapVars
<1>4. CASE Sweep
  <2>1. Reachable \subseteq gc_marked
    BY <1>4, MarkedAtSweep DEF Sweep
  <2>2. ASSUME NEW p \in Reachable PROVE Refs'[p] \subseteq Reachable
    <3>1. p \in Object /\ Refs[p] \subseteq Reachable
      BY <1>0
    <3>2. fields'[p] \subseteq fields[p] /\ captures'[p] \subseteq captures[p] /\ cell' = cell
      BY <1>4, <3>1 DEF Sweep
    <3>3. Refs'[p] \subseteq Refs[p]
      BY <3>1, <3>2 DEF Refs
    <3> QED BY <3>1, <3>3
  <2>3. Reachable' \subseteq Reachable
    BY <1>0, <1>4, <2>2, ReachGrowsBy DEF Sweep, Held, Usable
  <2>4. gc_marked' = {}
    BY <1>4 DEF Sweep, MarksCleared, MarksAreReachable
  <2>5. Reachable \subseteq allocated' /\ Reachable \subseteq gc_tracked'
    BY <1>4, <2>1 DEF Sweep, Garbage, Survivors, NoDangling
  <2> QED BY <1>4, <2>3, <2>4, <2>5 DEF Sweep, NoDangling, MarksAreReachable, ThreeColours
<1> QED BY <1>1, <1>2, <1>3, <1>4 DEF Mark

-----------------------------------------------------------------------------
(* The invariant of every program whose objects all enter the registry. *)
THEOREM InductiveInvariant ==
    ASSUME GcEnableCalls = FALSE, Compiled = FALSE, OutOfMemory = FALSE
    PROVE  Spec => []IInv
<1>1. Init => IInv
  <2> SUFFICES ASSUME Init PROVE IInv
    OBVIOUS
  <2>1. TypeOK
    BY DEF Init, TypeOK
  <2>2. ClosedUnder(Held, Refs, {})
    BY DEF Init, ClosedUnder, Held, Usable
  <2>3. Reachable \subseteq {}
    BY <2>2, ReachLeast DEF Reachable
  <2> QED BY <2>1, <2>3 DEF Init, IInv, NoDangling, MarksAreReachable, ThreeColours
<1>2. IInv /\ TypeOK' /\ [Next]_vars => IInv'
  <2> SUFFICES ASSUME IInv, TypeOK', [Next]_vars PROVE IInv'
    OBVIOUS
  <2>1. CASE UNCHANGED vars
    BY <2>1, HeapUntouched
       DEF vars, heapVars, markVars, IInv, NoDangling, MarksAreReachable, ThreeColours
  <2> QED BY <2>1, MutatorStep, CollectorStep DEF Next
<1> QED BY <1>1, <1>2, TypeCorrect, PTL DEF Spec

(* No use after free: what the script can reach is never deleted. *)
THEOREM NeverDangling ==
    ASSUME GcEnableCalls = FALSE, Compiled = FALSE, OutOfMemory = FALSE
    PROVE  Spec => []NoDangling
<1>1. IInv => NoDangling
  BY DEF IInv
<1> QED BY <1>1, InductiveInvariant, PTL

(* The mark loop never marks garbage. *)
THEOREM MarkIsPrecise ==
    ASSUME GcEnableCalls = FALSE, Compiled = FALSE, OutOfMemory = FALSE
    PROVE  Spec => []MarksAreReachable
<1>1. IInv => MarksAreReachable
  BY DEF IInv
<1> QED BY <1>1, InductiveInvariant, PTL

(* A sweep keeps exactly the reachable part of the registry. *)
THEOREM SweepExact ==
    ASSUME GcEnableCalls = FALSE, Compiled = FALSE, OutOfMemory = FALSE
    PROVE  Spec => SweepIsExact
<1>1. ASSUME IInv, [Next]_vars, phase = "mark", phase' = "mutator"
      PROVE  gc_tracked' = gc_tracked \cap Reachable
  <2>1. Sweep
    BY <1>1 DEF Next, vars, markVars, Mutator, Allocate, StoreField, RemoveField, Load, DropRoot,
                OpenCell, StoreCaptured, LoadCaptured, CallClosure, CallCompiled, CloseCell, SetEnabled,
                BeginCollection, Mark, MarkRoot, MarkChildren
  <2>2. Reachable \subseteq gc_marked
    BY <1>1, <2>1, MarkedAtSweep DEF Sweep, IInv
  <2> QED BY <1>1, <2>1, <2>2 DEF Sweep, Garbage, Survivors, IInv, MarksAreReachable
<1>2. IInv /\ [Next]_vars =>
        [phase = "mark" /\ phase' = "mutator" => gc_tracked' = gc_tracked \cap Reachable]_vars
  BY <1>1
<1> QED BY <1>2, InductiveInvariant, PTL DEF Spec, SweepIsExact

-----------------------------------------------------------------------------
(* No registered object carries a mark between collections, for every     *)
(* program: also when objects escape the registry (__gc_enable, a registry *)
(* that cannot grow) or compiled calls hide roots.  An allocation clears   *)
(* the mark of the address it reuses, and a sweep clears every mark the    *)
(* registry holds.                                                         *)
THEOREM RegisteredUnmarked == Spec => []RegisteredAreUnmarked
<1>1. Init => RegisteredAreUnmarked
  BY DEF Init, RegisteredAreUnmarked
<1>2. ASSUME RegisteredAreUnmarked, [Next]_vars PROVE RegisteredAreUnmarked'
  <2> USE <1>2 DEF RegisteredAreUnmarked
  <2>1. ASSUME NEW o \in Object, NEW C \in SUBSET Cell, Allocate(o, C)
        PROVE  RegisteredAreUnmarked'
    BY <2>1 DEF Allocate, Track
  <2>2. CASE UNCHANGED <<phase, gc_tracked, gc_marked>>
    BY <2>2
  <2>3. CASE phase' = "mark"
    BY <2>3
  <2>4. CASE Sweep
    BY <2>4 DEF Sweep, MarksCleared, Survivors
  <2>5. ASSUME Mutator PROVE UNCHANGED <<phase, gc_tracked, gc_marked>>
                             \/ \E o \in Object, C \in SUBSET Cell : Allocate(o, C)
    BY <2>5 DEF Mutator, StoreField, RemoveField, Load, DropRoot, OpenCell, StoreCaptured,
           LoadCaptured, CallClosure, CallCompiled, CloseCell, SetEnabled, markVars
  <2>6. ASSUME BeginCollection \/ Mark PROVE phase' = "mark"
    BY <2>6 DEF BeginCollection, Mark, MarkRoot, MarkChildren
  <2>7. ASSUME UNCHANGED vars PROVE UNCHANGED <<phase, gc_tracked, gc_marked>>
    BY <2>7 DEF vars, markVars
  <2> QED BY <2>1, <2>2, <2>3, <2>4, <2>5, <2>6, <2>7 DEF Next
<1> QED BY <1>1, <1>2, PTL DEF Spec

-----------------------------------------------------------------------------
(* GCHeap implements ScriptHeap.  First ScriptHeap's own notions, for any  *)
(* graph: values R held, cells U in use, fields f, captures k, cells b.    *)
Graph(R, U, f, k, b) ==
    /\ R \subseteq Object /\ U \subseteq Cell
    /\ f \in [Object -> SUBSET Object]
    /\ k \in [Object -> SUBSET Cell]
    /\ b \in [Cell -> SUBSET Object]

Closes(T, R, U, f, k, b) ==
    /\ T \subseteq Object
    /\ R \subseteq T
    /\ \A c \in U : b[c] \subseteq T
    /\ \A o \in T : f[o] \subseteq T /\ \A c \in k[o] : b[c] \subseteq T

LEMMA SightLeast ==
    ASSUME NEW R, NEW U, NEW f, NEW k, NEW b, NEW T, Closes(T, R, U, f, k, b)
    PROVE  Script!InSight(R, U, f, k, b) \subseteq T
<1>1. T \in SUBSET Object /\ R \cup UNION {b[c] : c \in U} \subseteq T
  BY DEF Closes
<1>2. \A p \in T : f[p] \cup UNION {b[c] : c \in k[p]} \subseteq T
  BY DEF Closes
<1> QED BY <1>1, <1>2 DEF Script!InSight

LEMMA SightCloses ==
    ASSUME NEW R, NEW U, NEW f, NEW k, NEW b, Graph(R, U, f, k, b)
    PROVE  Closes(Script!InSight(R, U, f, k, b), R, U, f, k, b)
<1> DEFINE S == Script!InSight(R, U, f, k, b)
           Base(X) == R \cup UNION {b[c] : c \in U} \subseteq X
           Step(X) == \A p \in X : f[p] \cup UNION {b[c] : c \in k[p]} \subseteq X
<1>1. S = {o \in Object : \A X \in SUBSET Object : Base(X) /\ Step(X) => o \in X}
  BY DEF Script!InSight
<1>2. R \cup UNION {b[c] : c \in U} \subseteq Object
  BY DEF Graph
<1>3. Base(S)
  BY <1>1, <1>2
<1>4. ASSUME NEW p \in S, NEW q \in f[p] \cup UNION {b[c] : c \in k[p]} PROVE q \in S
  <2>1. p \in Object /\ q \in Object
    BY <1>1, <1>4 DEF Graph
  <2>2. ASSUME NEW X \in SUBSET Object, Base(X), Step(X) PROVE q \in X
    BY <1>1, <1>4, <2>2
  <2> QED BY <1>1, <2>1, <2>2
<1>5. S \subseteq Object
  BY <1>1
<1> HIDE DEF S
<1>6. Closes(S, R, U, f, k, b)
  BY <1>3, <1>4, <1>5 DEF Closes
<1> QED BY <1>6 DEF S

(* What two graphs agree on and both reach is in sight alike. *)
Agree(T, U, f1, k1, b1, f2, k2, b2) ==
    /\ \A o \in T : f1[o] = f2[o] /\ k1[o] = k2[o]
    /\ \A c \in U : b1[c] = b2[c]
    /\ \A o \in T : \A c \in k1[o] : b1[c] = b2[c]

LEMMA SameSight ==
    ASSUME NEW R, NEW U, NEW f1, NEW k1, NEW b1, NEW f2, NEW k2, NEW b2, NEW T,
           Graph(R, U, f1, k1, b1), Graph(R, U, f2, k2, b2),
           Closes(T, R, U, f1, k1, b1), Agree(T, U, f1, k1, b1, f2, k2, b2)
    PROVE  LET S == Script!InSight(R, U, f1, k1, b1)
           IN  /\ Script!InSight(R, U, f2, k2, b2) = S
               /\ Script!Seen(f1, S) = Script!Seen(f2, S)
               /\ Script!Seen(k1, S) = Script!Seen(k2, S)
               /\ Script!CellsInSight(U, k1, S) = Script!CellsInSight(U, k2, S)
               /\ Script!Seen(b1, Script!CellsInSight(U, k1, S))
                  = Script!Seen(b2, Script!CellsInSight(U, k1, S))
<1> DEFINE S1 == Script!InSight(R, U, f1, k1, b1)
           S2 == Script!InSight(R, U, f2, k2, b2)
           C1 == Script!CellsInSight(U, k1, S1)
           C2 == Script!CellsInSight(U, k2, S1)
<1>1. Closes(S1, R, U, f1, k1, b1) /\ Closes(S2, R, U, f2, k2, b2)
  BY SightCloses
<1>2. S1 \subseteq T
  BY SightLeast
<1>3. Closes(T, R, U, f2, k2, b2)
  BY DEF Closes, Agree
<1>4. S2 \subseteq T
  BY <1>3, SightLeast
<1> HIDE DEF S1, S2
<1>5. Closes(S1, R, U, f2, k2, b2)
  BY <1>1, <1>2 DEF Closes, Agree
<1>6. Closes(S2, R, U, f1, k1, b1)
  BY <1>1, <1>4 DEF Closes, Agree
<1>7. S1 \subseteq S2 /\ S2 \subseteq S1
  BY <1>5, <1>6, SightLeast DEF S1, S2
<1>8. Script!Seen(f1, S1) = Script!Seen(f2, S1) /\ Script!Seen(k1, S1) = Script!Seen(k2, S1)
  BY <1>2 DEF Script!Seen, Agree, Graph
<1>9. C1 = C2
  <2>1. \A o \in S1 : k1[o] = k2[o]
    BY <1>2 DEF Agree
  <2> QED BY <2>1 DEF Script!CellsInSight
<1>10. \A c \in C1 : b1[c] = b2[c]
  BY <1>2 DEF Script!CellsInSight, Agree
<1> HIDE DEF C1, C2
<1>11. Script!Seen(b1, C1) = Script!Seen(b2, C1)
  BY <1>10 DEF Script!Seen, Graph
<1> QED BY <1>7, <1>8, <1>9, <1>11 DEF S1, S2, C1, C2

(* What GCHeap calls reachable and visible is what ScriptHeap sees of it.  *)
BoxesSeen == [c \in Cell |-> IF c \in VisibleCells THEN cell[c] ELSE {}]

ViewOK ==
    /\ Graph(roots, Usable, fields, captures, cell)
    /\ Reachable = Script!InSight(roots, Usable, fields, captures, cell)
    /\ Visible(fields) = Script!Seen(fields, Reachable)
    /\ Visible(captures) = Script!Seen(captures, Reachable)
    /\ VisibleCells = Script!CellsInSight(Usable, captures, Reachable)
    /\ BoxesSeen = Script!Seen(cell, VisibleCells)

LEMMA ViewIsSeen == TypeOK => ViewOK
<1> SUFFICES ASSUME TypeOK PROVE ViewOK
  OBVIOUS
<1>1. Graph(roots, Usable, fields, captures, cell)
  BY DEF TypeOK, Graph, Usable
<1>2. Reachable = Script!InSight(roots, Usable, fields, captures, cell)
  <2>1. Closes(Reachable, roots, Usable, fields, captures, cell)
    BY ReachableClosed DEF Closes, Refs
  <2> DEFINE S == Script!InSight(roots, Usable, fields, captures, cell)
  <2>2. S \subseteq Reachable
    BY <2>1, SightLeast
  <2>3. Closes(S, roots, Usable, fields, captures, cell)
    BY <1>1, SightCloses
  <2> HIDE DEF S
  <2>4. ClosedUnder(Held, Refs, S) /\ S \in SUBSET Object
    <3>1. Held \subseteq S /\ S \in SUBSET Object
      BY <2>3 DEF Closes, Held
    <3>2. \A o \in S : Refs[o] \subseteq S
      BY <2>3 DEF Closes, Refs
    <3> QED BY <3>1, <3>2 DEF ClosedUnder
  <2>5. Reachable \subseteq S
    BY <2>4, ReachLeast DEF Reachable
  <2> QED BY <2>2, <2>5 DEF S
<1>3. Visible(fields) = Script!Seen(fields, Reachable)
      /\ Visible(captures) = Script!Seen(captures, Reachable)
  BY DEF TypeOK, Visible, Script!Seen
<1>4. VisibleCells = Script!CellsInSight(Usable, captures, Reachable)
  BY DEF VisibleCells, Script!CellsInSight
<1>5. BoxesSeen = Script!Seen(cell, VisibleCells)
  BY DEF TypeOK, BoxesSeen, Script!Seen
<1> QED BY <1>1, <1>2, <1>3, <1>4, <1>5 DEF ViewOK

LEMMA ViewIsSeenNext == TypeOK' => ViewOK'
BY ViewIsSeen, PTL

(* A step shows as an operation that ends with the graph f, k, b when the  *)
(* heap agrees with that graph on all that its references lead to.         *)
LEMMA Shows ==
    ASSUME TypeOK', NEW R, NEW U, NEW f, NEW k, NEW b, NEW T,
           roots' = R, Usable' = U, Graph(R, U, f, k, b),
           Closes(T, R, U, fields', captures', cell'),
           Agree(T, U, fields', captures', cell', f, k, b)
    PROVE  Script!Becomes(R, U, f, k, b)
<1>1. ViewOK'
  BY ViewIsSeenNext
<1> DEFINE S == Script!InSight(R, U, fields', captures', cell')
           C == Script!CellsInSight(U, captures', S)
<1>2. /\ Graph(R, U, fields', captures', cell')
      /\ Reachable' = S
      /\ Visible(fields)' = Script!Seen(fields', S)
      /\ Visible(captures)' = Script!Seen(captures', S)
      /\ BoxesSeen' = Script!Seen(cell', C)
  BY <1>1 DEF ViewOK
<1>3. /\ Script!InSight(R, U, f, k, b) = S
      /\ Script!Seen(fields', S) = Script!Seen(f, S)
      /\ Script!Seen(captures', S) = Script!Seen(k, S)
      /\ C = Script!CellsInSight(U, k, S)
      /\ Script!Seen(cell', C) = Script!Seen(b, C)
  BY <1>2, SameSight
<1> HIDE DEF S, C
<1>4. /\ Visible(fields)' = Script!Seen(f, S)
      /\ Visible(captures)' = Script!Seen(k, S)
      /\ BoxesSeen' = Script!Seen(b, Script!CellsInSight(U, k, S))
  BY <1>2, <1>3
<1> QED BY <1>3, <1>4 DEF Script!Becomes, BoxesSeen

(* What the script sees of a state, in plain words.                        *)
LEMMA ViewFacts ==
    ASSUME TypeOK
    PROVE  /\ Graph(roots, Usable, Visible(fields), Visible(captures), BoxesSeen)
           /\ Script!InSight(roots, Usable, Visible(fields), Visible(captures), BoxesSeen) = Reachable
           /\ Script!CellsInSight(Usable, Visible(captures), Object) = VisibleCells
           /\ Closes(Reachable, roots, Usable, fields, captures, cell)
           /\ Agree(Reachable, Usable, fields, captures, cell,
                    Visible(fields), Visible(captures), BoxesSeen)
           /\ \A o \in Reachable : Visible(fields)[o] = fields[o] /\ Visible(captures)[o] = captures[o]
           /\ \A o \in Object \ Reachable : Visible(fields)[o] = {} /\ Visible(captures)[o] = {}
           /\ \A c \in VisibleCells : BoxesSeen[c] = cell[c]
           /\ \A c \in Usable : c \in VisibleCells
           /\ \A o \in Reachable : captures[o] \subseteq VisibleCells
<1>1. Graph(roots, Usable, fields, captures, cell)
  BY ViewIsSeen DEF ViewOK
<1>2. Graph(roots, Usable, Visible(fields), Visible(captures), BoxesSeen)
  BY <1>1 DEF Graph, Visible, BoxesSeen
<1>3. Closes(Reachable, roots, Usable, fields, captures, cell)
  BY ReachableClosed DEF Closes, Refs
<1>4. /\ \A o \in Reachable : Visible(fields)[o] = fields[o] /\ Visible(captures)[o] = captures[o]
      /\ \A o \in Object \ Reachable : Visible(fields)[o] = {} /\ Visible(captures)[o] = {}
  BY <1>3 DEF Closes, Visible
<1>5. /\ VisibleCells \subseteq Cell
      /\ \A c \in Usable : c \in VisibleCells
      /\ \A o \in Reachable : captures[o] \subseteq VisibleCells
  BY <1>1, <1>3 DEF VisibleCells, Graph, Closes
<1>6. \A c \in VisibleCells : BoxesSeen[c] = cell[c]
  BY <1>5 DEF BoxesSeen
<1>7. Agree(Reachable, Usable, fields, captures, cell,
            Visible(fields), Visible(captures), BoxesSeen)
  BY <1>4, <1>5, <1>6 DEF Agree
<1>8. Script!InSight(roots, Usable, Visible(fields), Visible(captures), BoxesSeen) = Reachable
  <2>1. Reachable = Script!InSight(roots, Usable, fields, captures, cell)
    BY ViewIsSeen DEF ViewOK
  <2> QED BY <1>1, <1>2, <1>3, <1>7, <2>1, SameSight
<1>9. Script!CellsInSight(Usable, Visible(captures), Object) = VisibleCells
  BY <1>3, <1>4 DEF Script!CellsInSight, VisibleCells, Closes
<1> QED BY <1>2, <1>3, <1>4, <1>5, <1>6, <1>7, <1>8, <1>9

(* The script's steps are those of ScriptHeap. *)
LEMMA ScriptSteps ==
    ASSUME Compiled = FALSE, GcEnableCalls = FALSE, IInv, TypeOK', Mutator
    PROVE  Script!Next
<1> DEFINE F == Visible(fields)
           K == Visible(captures)
           B == BoxesSeen
<1>0. TypeOK /\ Reachable \subseteq allocated
  BY DEF IInv, NoDangling
<1>1. /\ Graph(roots, Usable, F, K, B)
      /\ Closes(Reachable, roots, Usable, fields, captures, cell)
      /\ Agree(Reachable, Usable, fields, captures, cell, F, K, B)
      /\ \A o \in Reachable : F[o] = fields[o] /\ K[o] = captures[o]
      /\ \A o \in Object \ Reachable : F[o] = {} /\ K[o] = {}
      /\ \A c \in VisibleCells : B[c] = cell[c]
      /\ \A c \in Usable : c \in VisibleCells
      /\ \A o \in Reachable : captures[o] \subseteq VisibleCells
      /\ roots \subseteq Reachable /\ Reachable \subseteq Object
  BY <1>0, ViewFacts DEF Closes
<1> HIDE DEF F, K, B
<1>2. ASSUME NEW o \in Object, NEW C \in SUBSET Cell, Allocate(o, C)
      PROVE  Script!Allocate(o, C)
  <2> DEFINE T == Reachable \cup {o}
             k == [K EXCEPT ![o] = C]
  <2>1. /\ o \notin Reachable /\ C \subseteq Usable
        /\ fields' = [fields EXCEPT ![o] = {}] /\ captures' = [captures EXCEPT ![o] = C]
        /\ cell' = cell /\ roots' = roots \cup {o} /\ Usable' = Usable
    BY <1>0, <1>2 DEF Allocate, Usable
  <2>2. Graph(roots \cup {o}, Usable, F, k, B)
    BY <1>1, <1>2 DEF Graph
  <2>3. Closes(T, roots \cup {o}, Usable, fields', captures', cell')
    BY <1>1, <2>1 DEF Closes, TypeOK
  <2>4. Agree(T, Usable, fields', captures', cell', F, k, B)
    BY <1>0, <1>1, <2>1 DEF Agree, TypeOK, Graph
  <2>5. Script!Becomes(roots \cup {o}, Usable, F, k, B)
    <3> DEFINE R == roots \cup {o}
    <3>1. /\ roots' = R /\ Usable' = Usable /\ Graph(R, Usable, F, k, B)
          /\ Closes(T, R, Usable, fields', captures', cell')
          /\ Agree(T, Usable, fields', captures', cell', F, k, B)
      BY <2>1, <2>2, <2>3, <2>4
    <3> HIDE DEF R, k, T
    <3>2. Script!Becomes(R, Usable, F, k, B)
      BY <3>1, Shows DEF Script!Becomes
    <3> QED BY <3>2 DEF R, k
  <2>6. o \notin Script!InSight(roots, Usable, F, K, B)
    BY <1>0, <2>1, ViewFacts DEF F, K, B
  <2> QED BY <2>1, <2>5, <2>6 DEF Script!Allocate, BoxesSeen, F, K, B
<1>3. ASSUME NEW o \in Object, NEW v \in Object, StoreField(o, v)
      PROVE  Script!StoreField(o, v)
  <2> DEFINE f == [F EXCEPT ![o] = @ \cup {v}]
  <2>1. /\ {o, v} \subseteq roots /\ fields' = [fields EXCEPT ![o] = @ \cup {v}]
        /\ captures' = captures /\ cell' = cell /\ roots' = roots /\ Usable' = Usable
    BY <1>3 DEF StoreField, Usable
  <2>2. Graph(roots, Usable, f, K, B)
    BY <1>1, <1>3 DEF Graph
  <2>3. Closes(Reachable, roots, Usable, fields', captures', cell')
    BY <1>0, <1>1, <2>1 DEF Closes, TypeOK
  <2>4. Agree(Reachable, Usable, fields', captures', cell', f, K, B)
    BY <1>0, <1>1, <2>1 DEF Agree, TypeOK, Graph
  <2> HIDE DEF f
  <2>9. Script!Becomes(roots, Usable, f, K, B)
    <3>1. /\ roots' = roots /\ Usable' = Usable /\ Graph(roots, Usable, f, K, B)
          /\ Closes(Reachable, roots, Usable, fields', captures', cell')
          /\ Agree(Reachable, Usable, fields', captures', cell', f, K, B)
      BY <2>1, <2>2, <2>3, <2>4
    <3> QED BY <3>1, Shows DEF Script!Becomes
  <2> QED BY <2>1, <2>2, <2>3, <2>4, <2>9 DEF Script!StoreField, BoxesSeen, F, K, B, f
<1>4. ASSUME NEW o \in Object, NEW v \in Object, RemoveField(o, v)
      PROVE  Script!RemoveField(o, v)
  <2> DEFINE f == [F EXCEPT ![o] = @ \ {v}]
  <2>1. /\ o \in roots /\ v \in F[o] /\ fields' = [fields EXCEPT ![o] = @ \ {v}]
        /\ captures' = captures /\ cell' = cell /\ roots' = roots /\ Usable' = Usable
    BY <1>1, <1>4 DEF RemoveField, Usable
  <2>2. Graph(roots, Usable, f, K, B)
    BY <1>1, <1>4 DEF Graph
  <2>3. Closes(Reachable, roots, Usable, fields', captures', cell')
    BY <1>0, <1>1, <2>1 DEF Closes, TypeOK
  <2>4. Agree(Reachable, Usable, fields', captures', cell', f, K, B)
    BY <1>0, <1>1, <2>1 DEF Agree, TypeOK, Graph
  <2> HIDE DEF f
  <2>9. Script!Becomes(roots, Usable, f, K, B)
    <3>1. /\ roots' = roots /\ Usable' = Usable /\ Graph(roots, Usable, f, K, B)
          /\ Closes(Reachable, roots, Usable, fields', captures', cell')
          /\ Agree(Reachable, Usable, fields', captures', cell', f, K, B)
      BY <2>1, <2>2, <2>3, <2>4
    <3> QED BY <3>1, Shows DEF Script!Becomes
  <2> QED BY <2>1, <2>2, <2>3, <2>4, <2>9 DEF Script!RemoveField, BoxesSeen, F, K, B, f
<1>5. ASSUME NEW o \in Object, NEW v \in Object, Load(o, v)
      PROVE  Script!Load(o, v)
  <2> DEFINE R == roots \cup {v}
  <2>1. /\ o \in roots /\ v \in F[o] /\ fields' = fields
        /\ captures' = captures /\ cell' = cell /\ roots' = R /\ Usable' = Usable
    BY <1>1, <1>5 DEF Load, Usable
  <2>2. Graph(R, Usable, F, K, B)
    BY <1>1, <1>5 DEF Graph
  <2>3. Closes(Reachable, R, Usable, fields', captures', cell')
    BY <1>1, <2>1 DEF Closes
  <2> HIDE DEF R
  <2>9. Script!Becomes(R, Usable, F, K, B)
    <3>1. /\ roots' = R /\ Usable' = Usable /\ Graph(R, Usable, F, K, B)
          /\ Closes(Reachable, R, Usable, fields', captures', cell')
          /\ Agree(Reachable, Usable, fields', captures', cell', F, K, B)
      BY <1>1, <2>1, <2>2, <2>3
    <3> QED BY <3>1, Shows DEF Script!Becomes
  <2> QED BY <1>1, <2>1, <2>2, <2>3, <2>9 DEF Script!Load, BoxesSeen, F, K, B, R
<1>6. ASSUME NEW o \in Object, DropRoot(o) PROVE Script!Drop(o)
  <2> DEFINE R == roots \ {o}
  <2>1. /\ o \in roots /\ fields' = fields /\ captures' = captures /\ cell' = cell
        /\ roots' = R /\ Usable' = Usable
    BY <1>6 DEF DropRoot, Usable
  <2>2. Graph(R, Usable, F, K, B)
    BY <1>1 DEF Graph
  <2>3. Closes(Reachable, R, Usable, fields', captures', cell')
    BY <1>1, <2>1 DEF Closes
  <2> HIDE DEF R
  <2>9. Script!Becomes(R, Usable, F, K, B)
    <3>1. /\ roots' = R /\ Usable' = Usable /\ Graph(R, Usable, F, K, B)
          /\ Closes(Reachable, R, Usable, fields', captures', cell')
          /\ Agree(Reachable, Usable, fields', captures', cell', F, K, B)
      BY <1>1, <2>1, <2>2, <2>3
    <3> QED BY <3>1, Shows DEF Script!Becomes
  <2> QED BY <1>1, <2>1, <2>2, <2>3, <2>9 DEF Script!Drop, BoxesSeen, F, K, B, R
<1>7. ASSUME NEW o \in Object, CallClosure(o) PROVE Script!Call(o)
  <2>1. /\ o \in roots /\ fields' = fields /\ captures' = captures /\ cell' = cell
        /\ roots' = roots /\ Usable' = Usable \cup K[o]
    BY <1>1, <1>7 DEF CallClosure, Usable
  <2>2. Graph(roots, Usable \cup K[o], F, K, B)
    BY <1>1, <1>7 DEF Graph
  <2>3. K[o] = captures[o] /\ o \in Reachable
    BY <1>1, <2>1
  <2>4. Closes(Reachable, roots, Usable \cup K[o], fields', captures', cell')
    BY <1>1, <2>1, <2>3 DEF Closes
  <2>5. Agree(Reachable, Usable \cup K[o], fields', captures', cell', F, K, B)
    BY <1>1, <2>1, <2>3 DEF Agree
  <2>9. Script!Becomes(roots, Usable \cup K[o], F, K, B)
    <3> DEFINE U == Usable \cup K[o]
    <3>1. /\ roots' = roots /\ Usable' = U /\ Graph(roots, U, F, K, B)
          /\ Closes(Reachable, roots, U, fields', captures', cell')
          /\ Agree(Reachable, U, fields', captures', cell', F, K, B)
      BY <2>1, <2>2, <2>4, <2>5
    <3> HIDE DEF U
    <3>2. Script!Becomes(roots, U, F, K, B)
      BY <3>1, Shows DEF Script!Becomes
    <3> QED BY <3>2 DEF U
  <2> QED BY <2>1, <2>2, <2>4, <2>5, <2>9 DEF Script!Call, BoxesSeen, F, K, B
<1>8. ASSUME NEW c \in Cell, NEW V \in SUBSET Object, OpenCell(c, V)
      PROVE  Script!OpenCell(c, V)
  <2> DEFINE b == [B EXCEPT ![c] = V]
  <2>1. /\ c \notin VisibleCells /\ Storable(V) /\ cell' = [cell EXCEPT ![c] = V]
        /\ fields' = fields /\ captures' = captures /\ roots' = roots /\ Usable' = Usable \cup {c}
    BY <1>0, <1>8 DEF OpenCell, Usable, CellInUse, VisibleCells
  <2>2. Graph(roots, Usable \cup {c}, F, K, b)
    BY <1>1, <1>8 DEF Graph
  <2>3. V \subseteq Reachable /\ Script!Storable(V)
    BY <1>1, <2>1 DEF Storable, Script!Storable
  <2>4. Closes(Reachable, roots, Usable \cup {c}, fields', captures', cell')
    <3>1. \A d \in Cell : cell'[d] = IF d = c THEN V ELSE cell[d]
      BY <1>0, <2>1 DEF TypeOK
    <3>2. Usable \subseteq Cell /\ \A o \in Reachable : captures[o] \subseteq Cell
      BY <1>0, <1>1 DEF TypeOK, Usable
    <3> QED BY <1>1, <2>1, <2>3, <3>1, <3>2 DEF Closes
  <2>5. Agree(Reachable, Usable \cup {c}, fields', captures', cell', F, K, b)
    BY <1>0, <1>1, <2>1 DEF Agree, TypeOK, Graph
  <2>6. c \notin Script!CellsInSight(Usable, K, Object)
    BY <1>0, <2>1, ViewFacts DEF F, K, B
  <2> HIDE DEF b
  <2>9. Script!Becomes(roots, Usable \cup {c}, F, K, b)
    <3> DEFINE U == Usable \cup {c}
    <3>1. /\ roots' = roots /\ Usable' = U /\ Graph(roots, U, F, K, b)
          /\ Closes(Reachable, roots, U, fields', captures', cell')
          /\ Agree(Reachable, U, fields', captures', cell', F, K, b)
      BY <2>1, <2>2, <2>3, <2>4, <2>5
    <3> HIDE DEF U
    <3>2. Script!Becomes(roots, U, F, K, b)
      BY <3>1, Shows DEF Script!Becomes
    <3> QED BY <3>2 DEF U
  <2> QED BY <2>1, <2>2, <2>3, <2>4, <2>5, <2>6, <2>9 DEF Script!OpenCell, BoxesSeen, F, K, B, b
<1>9. ASSUME NEW c \in Cell, NEW V \in SUBSET Object, StoreCaptured(c, V)
      PROVE  Script!StoreCaptured(c, V)
  <2> DEFINE b == [B EXCEPT ![c] = V]
  <2>1. /\ c \in Usable /\ Storable(V) /\ cell' = [cell EXCEPT ![c] = V]
        /\ fields' = fields /\ captures' = captures /\ roots' = roots /\ Usable' = Usable
    BY <1>9 DEF StoreCaptured, Usable
  <2>2. Graph(roots, Usable, F, K, b)
    BY <1>1, <1>9 DEF Graph
  <2>3. V \subseteq Reachable /\ Script!Storable(V)
    BY <1>1, <2>1 DEF Storable, Script!Storable
  <2>4. Closes(Reachable, roots, Usable, fields', captures', cell')
    <3>1. \A d \in Cell : cell'[d] = IF d = c THEN V ELSE cell[d]
      BY <1>0, <2>1 DEF TypeOK
    <3>2. Usable \subseteq Cell /\ \A o \in Reachable : captures[o] \subseteq Cell
      BY <1>0, <1>1 DEF TypeOK, Usable
    <3> QED BY <1>1, <2>1, <2>3, <3>1, <3>2 DEF Closes
  <2>5. Agree(Reachable, Usable, fields', captures', cell', F, K, b)
    BY <1>0, <1>1, <2>1 DEF Agree, TypeOK, Graph
  <2> HIDE DEF b
  <2>9. Script!Becomes(roots, Usable, F, K, b)
    <3>1. /\ roots' = roots /\ Usable' = Usable /\ Graph(roots, Usable, F, K, b)
          /\ Closes(Reachable, roots, Usable, fields', captures', cell')
          /\ Agree(Reachable, Usable, fields', captures', cell', F, K, b)
      BY <2>1, <2>2, <2>3, <2>4, <2>5
    <3> QED BY <3>1, Shows DEF Script!Becomes
  <2> QED BY <2>1, <2>2, <2>3, <2>4, <2>5, <2>9 DEF Script!StoreCaptured, BoxesSeen, F, K, B, b
<1>10. ASSUME NEW c \in Cell, LoadCaptured(c) PROVE Script!LoadCaptured(c)
  <2>1. /\ c \in Usable /\ fields' = fields /\ captures' = captures /\ cell' = cell
        /\ roots' = roots \cup B[c] /\ Usable' = Usable
    BY <1>1, <1>10 DEF LoadCaptured, Usable
  <2>2. Graph(roots \cup B[c], Usable, F, K, B) /\ B[c] = cell[c]
    BY <1>1, <1>10, <2>1 DEF Graph
  <2>3. Closes(Reachable, roots \cup B[c], Usable, fields', captures', cell')
    BY <1>1, <2>1, <2>2 DEF Closes
  <2>9. Script!Becomes(roots \cup B[c], Usable, F, K, B)
    <3>1. /\ roots' = roots \cup B[c] /\ Usable' = Usable /\ Graph(roots \cup B[c], Usable, F, K, B)
          /\ Closes(Reachable, roots \cup B[c], Usable, fields', captures', cell')
          /\ Agree(Reachable, Usable, fields', captures', cell', F, K, B)
      BY <1>1, <2>1, <2>2, <2>3
    <3> QED BY <3>1, Shows DEF Script!Becomes
  <2> QED BY <1>1, <2>1, <2>2, <2>3, <2>9 DEF Script!LoadCaptured, BoxesSeen, F, K, B
<1>11. ASSUME NEW c \in Cell, CloseCell(c) PROVE Script!CloseCell(c)
  <2>1. /\ c \in Usable /\ fields' = fields /\ captures' = captures /\ cell' = cell
        /\ roots' = roots /\ Usable' = Usable \ {c}
    BY <1>11 DEF CloseCell, Usable, IInv
  <2>2. Graph(roots, Usable \ {c}, F, K, B)
    BY <1>1 DEF Graph
  <2>3. Closes(Reachable, roots, Usable \ {c}, fields', captures', cell')
    BY <1>1, <2>1 DEF Closes
  <2>4. Agree(Reachable, Usable \ {c}, fields', captures', cell', F, K, B)
    BY <1>1, <2>1 DEF Agree
  <2>9. Script!Becomes(roots, Usable \ {c}, F, K, B)
    <3>1. /\ roots' = roots /\ Usable' = Usable \ {c} /\ Graph(roots, Usable \ {c}, F, K, B)
          /\ Closes(Reachable, roots, Usable \ {c}, fields', captures', cell')
          /\ Agree(Reachable, Usable \ {c}, fields', captures', cell', F, K, B)
      BY <2>1, <2>2, <2>3, <2>4
    <3> QED BY <3>1, Shows DEF Script!Becomes
  <2> QED BY <2>1, <2>2, <2>3, <2>4, <2>9 DEF Script!CloseCell, BoxesSeen, F, K, B
<1>12. (\A x \in BOOLEAN : ~SetEnabled(x)) /\ (\A o \in Object : ~CallCompiled(o))
  BY DEF SetEnabled, CallCompiled
<1> QED BY <1>2, <1>3, <1>4, <1>5, <1>6, <1>7, <1>8, <1>9, <1>10, <1>11, <1>12
       DEF Mutator, Script!Next

(* The collector's steps do not show. *)
LEMMA CollectorHidden ==
    ASSUME IInv, TypeOK', BeginCollection \/ Mark \/ Sweep \/ UNCHANGED vars
    PROVE  UNCHANGED Script!heap
<1>1. CASE UNCHANGED heapVars
  <2>1. Reachable' = Reachable /\ Usable' = Usable
    BY <1>1, HeapUntouched DEF heapVars, Usable
  <2>2. VisibleCells' = VisibleCells
    BY <1>1, <2>1 DEF VisibleCells, heapVars
  <2> QED BY <1>1, <2>1, <2>2 DEF Script!heap, Visible, heapVars
<1>2. CASE Sweep
  <2> USE DEF IInv
  <2>1. /\ roots' = roots /\ Usable' = Usable /\ cell' = cell
        /\ \A o \in Reachable : fields'[o] = fields[o] /\ captures'[o] = captures[o]
    <3>1. Reachable \subseteq gc_marked /\ Reachable \subseteq Object
      BY <1>2, MarkedAtSweep, ReachableClosed DEF Sweep
    <3> QED BY <1>2, <3>1 DEF Sweep, Usable, Garbage
  <2>2. ViewOK /\ ViewOK' /\ Closes(Reachable, roots, Usable, fields, captures, cell)
    BY ViewIsSeen, ViewIsSeenNext, ViewFacts
  <2>3. Agree(Reachable, Usable, fields, captures, cell, fields', captures', cell')
    BY <2>1 DEF Agree
  <2>4. Graph(roots, Usable, fields', captures', cell') /\ Graph(roots, Usable, fields, captures, cell)
    BY <2>1, <2>2 DEF ViewOK
  <2>5. /\ Reachable = Script!InSight(roots, Usable, fields, captures, cell)
        /\ Reachable' = Script!InSight(roots, Usable, fields', captures', cell')
    BY <2>1, <2>2 DEF ViewOK
  <2>6. /\ Reachable' = Reachable
        /\ Script!Seen(fields', Reachable) = Script!Seen(fields, Reachable)
        /\ Script!Seen(captures', Reachable) = Script!Seen(captures, Reachable)
        /\ Script!CellsInSight(Usable, captures', Reachable)
           = Script!CellsInSight(Usable, captures, Reachable)
    BY <2>2, <2>3, <2>4, <2>5, SameSight
  <2>7. /\ Visible(fields)' = Visible(fields) /\ Visible(captures)' = Visible(captures)
        /\ VisibleCells' = VisibleCells
    BY <2>1, <2>2, <2>6 DEF ViewOK
  <2> QED BY <2>1, <2>7 DEF Script!heap
<1>3. (BeginCollection \/ Mark \/ UNCHANGED vars) => UNCHANGED heapVars
  BY DEF BeginCollection, Mark, MarkRoot, MarkChildren, vars
<1> QED BY <1>1, <1>2, <1>3

(* What a program can see of the collector's heap is a heap in which       *)
(* nothing is freed: no step of a collection shows, whatever cycles,       *)
(* closures and shared variables the program builds, and an address is     *)
(* used again only when nothing can reach it.                              *)
THEOREM RefinesScriptHeap ==
    ASSUME GcEnableCalls = FALSE, Compiled = FALSE, OutOfMemory = FALSE
    PROVE  Spec => ImplementsScriptHeap
<1>1. Init => Script!Init
  <2> SUFFICES ASSUME Init PROVE Script!Init
    OBVIOUS
  <2> QED BY DEF Init, Script!Init, Visible, VisibleCells, Usable
<1>2. IInv /\ TypeOK' /\ [Next]_vars => [Script!Next]_(Script!heap)
  <2> SUFFICES ASSUME IInv, TypeOK', [Next]_vars PROVE Script!Next \/ UNCHANGED Script!heap
    OBVIOUS
  <2>1. CASE Mutator
    BY <2>1, ScriptSteps
  <2>2. CASE BeginCollection \/ Mark \/ Sweep \/ UNCHANGED vars
    BY <2>2, CollectorHidden
  <2> QED BY <2>1, <2>2 DEF Next
<1> QED BY <1>1, <1>2, TypeCorrect, InductiveInvariant, PTL DEF Spec, ImplementsScriptHeap, Script!Spec

=============================================================================
