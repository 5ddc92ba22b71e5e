--------------------------- MODULE CompiledPrograms ---------------------------
(***************************************************************************)
(* The programs, compiled.  The module stands apart and before Nari: TLC   *)
(* computes the constants of a module once it has come to its end, and a   *)
(* sequence made by \o is a value.                                         *)
(***************************************************************************)
EXTENDS Toolchain, Sequences

P == INSTANCE Programs

AllCompiled(trees, withNative) == [p \in DOMAIN trees |-> Compiled(trees[p], withNative)] \o <<>>

CompiledSamples ==
    LET samples == P!Samples
        calling == P!CallingLoops
    IN AllCompiled(samples, TRUE) \o AllCompiled(calling, FALSE)

CompiledEndsWhenHot ==
    LET trees == P!EndsWhenHot
    IN AllCompiled(trees, FALSE)

=============================================================================
