-------------------------- MODULE MCDebugController --------------------------
(* DebugController with two source lines and short programs. *)
EXTENDS DebugController

=============================================================================
