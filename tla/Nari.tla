-------------------------------- MODULE Nari ---------------------------------
(***************************************************************************)
(* The parser, the compiler, the verifier and the virtual machine          *)
(* together.  Every program is written down, parsed and compiled, and the  *)
(* machine runs what came out.                                             *)
(***************************************************************************)
EXTENDS Trace, Toolchain

ASSUME NariAssumption == \A p \in DOMAIN Programs : Programs[p] = Compiled(Programs[p].tree, Programs[p].withNative)

vars == <<vmVars, traceVars>>

\* The thread of the machine keeps running.
Spec == TraceInit /\ [][TraceNext]_vars /\ WF_vars(TraceNext)

----------------------------------------------------------------------------
\* Properties

\* The compiled program prints what the program means, in order, and ends as it does:
\* scopes, closures, jumps, calls and the order of evaluation survive the compilation.
RunsAsWritten ==
    /\ IsPrefix(out, Programs[program].meaning.out)
    /\ status # "running" =>
         [out |-> out, status |-> status] = Programs[program].meaning

\* Every one of the programs ends, with no more frames than MaxCallDepth.
Finishes == <>(status # "running")

=============================================================================
