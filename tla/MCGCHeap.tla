------------------------------ MODULE MCGCHeap ------------------------------
(* GCHeap on small heaps: which addresses exist and their symmetry. *)
EXTENDS GCHeap, TLC

Symmetry == Permutations(Object \ RegexObject)

=============================================================================
