------------------------------- MODULE AsyncIO -------------------------------
(***************************************************************************)
(* What the asynchronous I/O of the runtime promises the thread that runs  *)
(* the script: an operation that was submitted completes at most once, and *)
(* its callback is taken at most once, after it completed, the callbacks   *)
(* in the order in which the operations completed.                         *)
(***************************************************************************)
EXTENDS Naturals, Sequences, SequencesExt

CONSTANT Op

VARIABLES
    submitted,      \* operations ever handed to the pool
    completions,    \* the operations that completed, in that order
    delivered       \* how many of them the script's thread has taken

Init ==
    /\ submitted = {}
    /\ completions = <<>>
    /\ delivered = 0

Submit(o) ==
    /\ o \notin submitted
    /\ submitted' = submitted \cup {o}
    /\ UNCHANGED <<completions, delivered>>

Complete(o) ==
    /\ o \in submitted \ ToSet(completions)
    /\ completions' = Append(completions, o)
    /\ UNCHANGED <<submitted, delivered>>

Deliver ==
    /\ delivered < Len(completions)
    /\ delivered' = delivered + 1
    /\ UNCHANGED <<submitted, completions>>

Next ==
    \/ \E o \in Op : Submit(o) \/ Complete(o)
    \/ Deliver

Spec == Init /\ [][Next]_<<submitted, completions, delivered>>

=============================================================================
