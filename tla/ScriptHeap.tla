----------------------------- MODULE ScriptHeap -----------------------------
(***************************************************************************)
(* What a script may count on: a heap without a collector, in which        *)
(* nothing is ever freed.  The state is what the script can still reach;   *)
(* what it cannot reach is gone from its sight, and the address of a new   *)
(* object is any address out of sight.  A collector implements this heap   *)
(* when none of its steps shows.                                           *)
(***************************************************************************)
CONSTANTS Object, Cell

VARIABLES
    roots,          \* the values the script holds
    usable,         \* the captured variables of its active calls
    fields,         \* what an object in sight holds
    captures,       \* the variables a closure in sight has captured
    cell            \* the value of a captured variable in sight

heap == <<roots, usable, fields, captures, cell>>

(* The least set with the values the script holds that is closed under     *)
(* references.                                                             *)
InSight(R, U, f, k, b) ==
    {o \in Object : \A S \in SUBSET Object :
        /\ R \cup UNION {b[c] : c \in U} \subseteq S
        /\ \A p \in S : f[p] \cup UNION {b[c] : c \in k[p]} \subseteq S
        => o \in S}

CellsInSight(U, k, S) == U \cup UNION {k[o] : o \in S}

(* An operation ends with these values, as far as they are in sight. *)
Seen(f, S) == [x \in DOMAIN f |-> IF x \in S THEN f[x] ELSE {}]

Becomes(R, U, f, k, b) ==
    /\ roots' = R
    /\ usable' = U
    /\ LET S == InSight(R, U, f, k, b)
       IN  /\ fields' = Seen(f, S)
           /\ captures' = Seen(k, S)
           /\ cell' = Seen(b, CellsInSight(U, k, S))

-----------------------------------------------------------------------------
Init ==
    /\ roots = {}
    /\ usable = {}
    /\ fields = [o \in Object |-> {}]
    /\ captures = [o \in Object |-> {}]
    /\ cell = [c \in Cell |-> {}]

Allocate(o, C) ==
    /\ C \subseteq usable
    /\ o \notin InSight(roots, usable, fields, captures, cell)
    /\ Becomes(roots \cup {o}, usable, fields, [captures EXCEPT ![o] = C], cell)

StoreField(o, v) ==
    /\ {o, v} \subseteq roots
    /\ Becomes(roots, usable, [fields EXCEPT ![o] = @ \cup {v}], captures, cell)

RemoveField(o, v) ==
    /\ o \in roots
    /\ v \in fields[o]
    /\ Becomes(roots, usable, [fields EXCEPT ![o] = @ \ {v}], captures, cell)

Load(o, v) ==
    /\ o \in roots
    /\ v \in fields[o]
    /\ Becomes(roots \cup {v}, usable, fields, captures, cell)

Drop(o) ==
    /\ o \in roots
    /\ Becomes(roots \ {o}, usable, fields, captures, cell)

Call(o) ==
    /\ o \in roots
    /\ Becomes(roots, usable \cup captures[o], fields, captures, cell)

Storable(V) == V = {} \/ \E v \in roots : V = {v}

OpenCell(c, V) ==
    /\ c \notin CellsInSight(usable, captures, Object)
    /\ Storable(V)
    /\ Becomes(roots, usable \cup {c}, fields, captures, [cell EXCEPT ![c] = V])

StoreCaptured(c, V) ==
    /\ c \in usable
    /\ Storable(V)
    /\ Becomes(roots, usable, fields, captures, [cell EXCEPT ![c] = V])

LoadCaptured(c) ==
    /\ c \in usable
    /\ Becomes(roots \cup cell[c], usable, fields, captures, cell)

CloseCell(c) ==
    /\ c \in usable
    /\ Becomes(roots, usable \ {c}, fields, captures, cell)

(* What a script does elsewhere, and all that a collector does, leaves what *)
(* is in sight alone; named first because most steps are of this kind.     *)
Next ==
    \/ UNCHANGED heap
    \/ \E o \in Object, C \in SUBSET Cell : Allocate(o, C)
    \/ \E o, v \in Object : StoreField(o, v) \/ RemoveField(o, v) \/ Load(o, v)
    \/ \E o \in Object : Drop(o) \/ Call(o)
    \/ \E c \in Cell, V \in SUBSET Object : OpenCell(c, V) \/ StoreCaptured(c, V)
    \/ \E c \in Cell : LoadCaptured(c) \/ CloseCell(c)

Spec == Init /\ [][Next]_heap

=============================================================================
