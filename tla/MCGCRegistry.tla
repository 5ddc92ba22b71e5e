---------------------------- MODULE MCGCRegistry ----------------------------
(* GCRegistry on a registry of a few objects. *)
EXTENDS GCRegistry, TLC

Symmetry == Permutations(Object)

=============================================================================
