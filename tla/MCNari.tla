------------------------------- MODULE MCNari --------------------------------
(***************************************************************************)
(* Instances of Nari for TLC.                                              *)
(***************************************************************************)
EXTENDS CompiledPrograms, Nari

\* The sample programs.
MCPrograms == LET known == CompiledSamples IN known

\* Programs whose inner loop is over just when its next iteration is to be recorded.
MCTracedPrograms == LET known == CompiledEndsWhenHot IN known

=============================================================================
