------------------------------- MODULE GCHeap -------------------------------
(***************************************************************************)
(* The heap of a nari program and the mark phase of its collector (gc.cpp  *)
(* mark_value and collect, the allocators of core_types, the root set of   *)
(* runtime.cpp collect_gc_roots).                                          *)
(*                                                                         *)
(* One thread runs both the script and the collector, so a collection is   *)
(* never interleaved with the script: `phase` says whose turn it is.  What *)
(* the mark loop does is kept step by step, because the correctness of the *)
(* sweep rests on what the loop has reached when its worklist runs dry.    *)
(* WHEN a collection starts (the thresholds) is GCRegistry's subject; here *)
(* it may start at any safe point.                                         *)
(***************************************************************************)
EXTENDS Naturals, FiniteSets

CONSTANTS
    Object,         \* heap addresses
    Cell,           \* boxes of variables that closures share
    RegexObject,    \* the addresses that only ever hold a RegexObj
    GcEnableCalls,  \* whether the script calls __gc_enable
    Compiled,       \* whether the method JIT compiles closures
    OutOfMemory     \* whether the registry's push_back may throw

ASSUME HeapAssumption ==
    /\ RegexObject \subseteq Object
    /\ GcEnableCalls \in BOOLEAN
    /\ Compiled \in BOOLEAN
    /\ OutOfMemory \in BOOLEAN

VARIABLES
    allocated,      \* addresses of constructed, not yet deleted objects
    fields,         \* the child values an object holds
    captures,       \* the cells a function object has captured
    cell,           \* the value a cell holds, if it is on the heap
    frame_cells,    \* the cells of active call frames
    borrowed,       \* the cells compiled calls keep outside their frames
    roots,          \* the values on the stack, in globals, or held by C++
    enabled,
    gc_tracked,     \* the objects whose gc_tracked flag is set
    gc_marked,      \* the objects whose gc_marked flag is set
    phase,          \* "mutator" or "mark"
    pending,        \* roots the loop of collect has not visited yet
    mark_stack

heapVars == <<allocated, fields, captures, cell, frame_cells, borrowed, roots>>
markVars == <<phase, pending, mark_stack>>
vars == <<heapVars, enabled, gc_tracked, gc_marked, markVars>>

(* The registry holds no address of a deleted object. *)
TypeOK ==
    /\ allocated \subseteq Object
    /\ fields \in [Object -> SUBSET Object]
    /\ captures \in [Object -> SUBSET Cell]
    /\ cell \in [Cell -> SUBSET Object]
    /\ frame_cells \subseteq Cell
    /\ borrowed \subseteq Cell
    /\ roots \subseteq Object
    /\ enabled \in BOOLEAN
    /\ gc_tracked \subseteq allocated
    /\ gc_marked \subseteq Object
    /\ phase \in {"mutator", "mark"}
    /\ pending \subseteq Object
    /\ mark_stack \subseteq Object

-----------------------------------------------------------------------------
(* What a script can reach from the values R along the references refs:    *)
(* the least set that holds R and is closed under refs.                    *)

ClosedUnder(R, refs, S) == R \subseteq S /\ \A o \in S : refs[o] \subseteq S

Reach(R, refs) ==
    {o \in Object : \A S \in SUBSET Object : ClosedUnder(R, refs, S) => o \in S}

Refs == [o \in Object |-> fields[o] \cup UNION {cell[c] : c \in captures[o]}]

(* What the script holds itself: also the variables of its active calls    *)
(* that some closure captured.                                             *)
Usable == frame_cells \cup borrowed
Held == roots \cup UNION {cell[c] : c \in Usable}

Reachable == Reach(Held, Refs)

CellInUse(c) == c \in Usable \/ \E o \in allocated : c \in captures[o]

-----------------------------------------------------------------------------
Init ==
    /\ allocated = {}
    /\ fields = [o \in Object |-> {}]
    /\ captures = [o \in Object |-> {}]
    /\ cell = [c \in Cell |-> {}]
    /\ frame_cells = {}
    /\ borrowed = {}
    /\ roots = {}
    /\ enabled = TRUE
    /\ gc_tracked = {}
    /\ gc_marked = {}
    /\ phase = "mutator"
    /\ pending = {}
    /\ mark_stack = {}

(* track(): skipped while the collector is disabled, and the entry is      *)
(* dropped when the registry cannot grow.                                  *)
Track(o) ==
    \/ enabled /\ gc_tracked' = gc_tracked \cup {o}
    \/ (~enabled \/ OutOfMemory) /\ UNCHANGED gc_tracked

(* A make_* allocator.  The caller holds the new value in a register, on   *)
(* the VM stack or as a temporary root; a closure shares cells of the call *)
(* that makes it.                                                          *)
Allocate(o, C) ==
    /\ phase = "mutator"
    /\ o \notin allocated
    /\ o \in RegexObject => C = {}
    /\ C \subseteq Usable
    /\ allocated' = allocated \cup {o}
    /\ fields' = [fields EXCEPT ![o] = {}]
    /\ captures' = [captures EXCEPT ![o] = C]
    /\ roots' = roots \cup {o}
    /\ gc_marked' = gc_marked \ {o}
    /\ Track(o)
    /\ UNCHANGED <<cell, frame_cells, borrowed, enabled, markVars>>

(* The script stores a value it holds into an object it holds; clearing or *)
(* overwriting the place is RemoveField.                                   *)
StoreField(o, v) ==
    /\ phase = "mutator"
    /\ {o, v} \subseteq roots
    /\ o \notin RegexObject
    /\ fields' = [fields EXCEPT ![o] = @ \cup {v}]
    /\ UNCHANGED <<allocated, captures, cell, frame_cells, borrowed, roots,
                   enabled, gc_tracked, gc_marked, markVars>>

RemoveField(o, v) ==
    /\ phase = "mutator"
    /\ o \in roots
    /\ v \in fields[o]
    /\ fields' = [fields EXCEPT ![o] = @ \ {v}]
    /\ UNCHANGED <<allocated, captures, cell, frame_cells, borrowed, roots,
                   enabled, gc_tracked, gc_marked, markVars>>

Load(o, v) ==
    /\ phase = "mutator"
    /\ o \in roots
    /\ v \in fields[o]
    /\ roots' = roots \cup {v}
    /\ UNCHANGED <<allocated, fields, captures, cell, frame_cells, borrowed,
                   enabled, gc_tracked, gc_marked, markVars>>

DropRoot(o) ==
    /\ phase = "mutator"
    /\ o \in roots
    /\ roots' = roots \ {o}
    /\ UNCHANGED <<allocated, fields, captures, cell, frame_cells, borrowed,
                   enabled, gc_tracked, gc_marked, markVars>>

(* A value a variable can have: one of the heap, or a number and the like. *)
Storable(V) == V = {} \/ \E v \in roots : V = {v}

(* The first closure over a variable moves it from the frame into a cell.  *)
OpenCell(c, V) ==
    /\ phase = "mutator"
    /\ ~CellInUse(c)
    /\ Storable(V)
    /\ cell' = [cell EXCEPT ![c] = V]
    /\ frame_cells' = frame_cells \cup {c}
    /\ UNCHANGED <<allocated, fields, captures, borrowed, roots, enabled,
                   gc_tracked, gc_marked, markVars>>

(* An assignment to a captured variable, seen by every closure over it.    *)
StoreCaptured(c, V) ==
    /\ phase = "mutator"
    /\ c \in Usable
    /\ Storable(V)
    /\ cell' = [cell EXCEPT ![c] = V]
    /\ UNCHANGED <<allocated, fields, captures, frame_cells, borrowed, roots,
                   enabled, gc_tracked, gc_marked, markVars>>

LoadCaptured(c) ==
    /\ phase = "mutator"
    /\ c \in Usable
    /\ roots' = roots \cup cell[c]
    /\ UNCHANGED <<allocated, fields, captures, cell, frame_cells, borrowed,
                   enabled, gc_tracked, gc_marked, markVars>>

(* A call of a closure: the frame owns its captures, so the closure itself *)
(* may die while it runs.                                                  *)
CallClosure(o) ==
    /\ phase = "mutator"
    /\ o \in roots
    /\ frame_cells' = frame_cells \cup captures[o]
    /\ UNCHANGED <<allocated, fields, captures, cell, borrowed, roots, enabled,
                   gc_tracked, gc_marked, markVars>>

(* A call of a compiled closure: the call moves the captures from its      *)
(* frame to a local of its own while the code runs.                        *)
CallCompiled(o) ==
    /\ phase = "mutator"
    /\ Compiled
    /\ o \in roots
    /\ borrowed' = borrowed \cup captures[o]
    /\ UNCHANGED <<allocated, fields, captures, cell, frame_cells, roots,
                   enabled, gc_tracked, gc_marked, markVars>>

(* A call returns, or the block of a variable ends. *)
CloseCell(c) ==
    /\ phase = "mutator"
    /\ \/ c \in frame_cells /\ frame_cells' = frame_cells \ {c} /\ UNCHANGED borrowed
       \/ c \in borrowed /\ borrowed' = borrowed \ {c} /\ UNCHANGED frame_cells
    /\ UNCHANGED <<allocated, fields, captures, cell, roots, enabled,
                   gc_tracked, gc_marked, markVars>>

(* __gc_enable(b) *)
SetEnabled(b) ==
    /\ phase = "mutator"
    /\ GcEnableCalls
    /\ enabled # b
    /\ enabled' = b
    /\ UNCHANGED <<heapVars, gc_tracked, gc_marked, markVars>>

-----------------------------------------------------------------------------
(* collect_gc_roots lists the cells of every frame with the other roots. *)
RootsOfNoFrame == roots
GcRoots == roots \cup UNION {cell[c] : c \in frame_cells}

(* collect() returns at once while the collector is disabled. *)
BeginCollection ==
    /\ phase = "mutator"
    /\ enabled
    /\ phase' = "mark"
    /\ pending' = GcRoots
    /\ UNCHANGED <<heapVars, enabled, gc_tracked, gc_marked, mark_stack>>

(* The lambda push of mark_value stacks what is not marked yet. *)
PushAll(S) == S
PushUnmarked(S) == S \ gc_marked

(* mark_value of one root: an object is marked as it is stacked. *)
MarkRoot(r) ==
    /\ phase = "mark"
    /\ mark_stack = {}
    /\ r \in pending
    /\ pending' = pending \ {r}
    /\ mark_stack' = PushUnmarked({r})
    /\ gc_marked' = gc_marked \cup {r}
    /\ UNCHANGED <<heapVars, enabled, gc_tracked, phase>>

(* One turn of the worklist loop. *)
ScannedFields(o) == fields[o]
Scanned(o) == fields[o] \cup UNION {cell[c] : c \in captures[o]}

MarkChildren(o) ==
    /\ phase = "mark"
    /\ o \in mark_stack
    /\ mark_stack' = (mark_stack \ {o}) \cup PushUnmarked(Scanned(o))
    /\ gc_marked' = gc_marked \cup Scanned(o)
    /\ UNCHANGED <<heapVars, enabled, gc_tracked, phase, pending>>

Garbage == gc_tracked \ gc_marked

MarksKept == gc_marked
MarksCleared == gc_marked \ gc_tracked

Survivors == gc_tracked \ Garbage

(* sweep(): the marks of the survivors are cleared, the garbage leaves the *)
(* registry, its containers are emptied, and it is deleted -- except that  *)
(* the delete switch has no case for a RegexObj.                           *)
Sweep ==
    /\ phase = "mark"
    /\ pending = {}
    /\ mark_stack = {}
    /\ gc_marked' = MarksCleared
    /\ gc_tracked' = Survivors
    /\ fields' = [o \in Object |-> IF o \in Garbage THEN {} ELSE fields[o]]
    /\ captures' = [o \in Object |-> IF o \in Garbage THEN {} ELSE captures[o]]
    /\ allocated' = allocated \ (Garbage \ RegexObject)
    /\ phase' = "mutator"
    /\ UNCHANGED <<cell, frame_cells, borrowed, roots, enabled, pending,
                   mark_stack>>

-----------------------------------------------------------------------------
Mutator ==
    \/ \E o \in Object, C \in SUBSET Cell : Allocate(o, C)
    \/ \E o, v \in Object : StoreField(o, v) \/ RemoveField(o, v) \/ Load(o, v)
    \/ \E o \in Object : DropRoot(o) \/ CallClosure(o) \/ CallCompiled(o)
    \/ \E c \in Cell, V \in SUBSET Object : OpenCell(c, V) \/ StoreCaptured(c, V)
    \/ \E c \in Cell : LoadCaptured(c) \/ CloseCell(c)
    \/ \E b \in BOOLEAN : SetEnabled(b)

Mark == \E o \in Object : MarkRoot(o) \/ MarkChildren(o)

Next == Mutator \/ BeginCollection \/ Mark \/ Sweep

Spec == Init /\ [][Next]_vars

(* A collection runs to its end before its caller goes on. *)
FairSpec == Spec /\ WF_vars(Mark \/ Sweep)

-----------------------------------------------------------------------------
(* No use after free: whatever the script can still reach has not been     *)
(* deleted.  gc.h: an object is freed once it becomes unreachable.         *)
NoDangling == Reachable \subseteq allocated

(* The mark loop reaches nothing but what the script can reach, so that no *)
(* garbage is kept by mark_value's own walk or by marks left from before.  *)
MarksAreReachable == gc_marked \subseteq Reachable

(* The sweep empties the registry of every unreachable object and of no    *)
(* other: gc.h, "every tracked object is freed by the sweep once it becomes *)
(* unreachable from the roots".                                            *)
SweepIsExact ==
    [][phase = "mark" /\ phase' = "mutator" => gc_tracked' = gc_tracked \cap Reachable]_vars

(* Between collections no registered object carries a mark, also when some *)
(* objects escaped the registry: a mark left on a registered object would  *)
(* hide its children from the next collection.                             *)
RegisteredAreUnmarked == phase = "mutator" => gc_marked \cap gc_tracked = {}

(* The collector does not show: what the script can reach behaves like a   *)
(* heap in which nothing is ever freed (ScriptHeap), and a new object never *)
(* takes the address of one that is still in use.                          *)
Visible(f) == [o \in Object |-> IF o \in Reachable THEN f[o] ELSE {}]
VisibleCells == Usable \cup UNION {captures[o] : o \in Reachable}

Script == INSTANCE ScriptHeap
    WITH usable <- Usable, fields <- Visible(fields), captures <- Visible(captures),
         cell <- [c \in Cell |-> IF c \in VisibleCells THEN cell[c] ELSE {}]

ImplementsScriptHeap == Script!Spec

(* The mark loop of a collection terminates, whatever cycles the heap has. *)
CollectionEnds == phase = "mark" ~> phase = "mutator"

(* The invariant of the collector's loops, which the proof of NoDangling   *)
(* rests on: the three-colour argument.  Between collections no object is  *)
(* marked; during one, a marked object that has left the worklist (black)  *)
(* refers to marked objects only.                                          *)
ThreeColours ==
    /\ phase = "mutator" => gc_marked = {} /\ mark_stack = {} /\ pending = {}
    /\ phase = "mark" =>
        /\ mark_stack \subseteq gc_marked
        /\ pending \subseteq Held
        /\ Held \ pending \subseteq gc_marked
        /\ \A o \in gc_marked \ mark_stack : Refs[o] \subseteq gc_marked

IInv ==
    /\ TypeOK
    /\ enabled
    /\ borrowed = {}
    /\ NoDangling
    /\ Reachable \subseteq gc_tracked
    /\ MarksAreReachable
    /\ ThreeColours

=============================================================================
