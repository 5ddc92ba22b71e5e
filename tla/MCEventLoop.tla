----------------------------- MODULE MCEventLoop -----------------------------
(* EventLoop with a few operations and intervals. *)
EXTENDS EventLoop, TLC

Symmetry == Permutations(Timer) \cup Permutations(Interval)

=============================================================================
