------------------------------ MODULE Toolchain -------------------------------
(***************************************************************************)
(* From a syntax tree to what runs: the tree is written down, parsed,      *)
(* simplified, compiled and verified.                                      *)
(***************************************************************************)
EXTENDS Naturals, Sequences

S == INSTANCE Source
Parser == INSTANCE Parser
C == INSTANCE Compiler
V == INSTANCE Verifier
L == INSTANCE Language
N == INSTANCE NativeCode

\* What becomes of a syntax tree once it is written down: the chunk and its native code, what
\* the verifier says, or would say, of them, and what the program means without any of this.  TLC computes a value once when
\* it is taken from a set.  The method compiler may be turned off.
Compiled(tree, withNative) ==
    LET chunks == {C!CompileProgram(parsed) :
                     parsed \in {Parser!ParseProgram(tokens) : tokens \in {S!Tokens(tree)}}}
        Native(chunk) == IF withNative THEN N!NativeChunk(chunk) ELSE [i \in DOMAIN chunk |-> <<>>]
        codes == {[chunk |-> chunk, native |-> Native(chunk) \o <<>>] : chunk \in chunks}
    IN CHOOSE c \in {[tree |-> tree, chunk |-> code.chunk, verdict |-> V!Verdict(code.chunk),
                      withNative |-> withNative, native |-> code.native,
                      nativeVerdict |-> V!Verdict(V!NativeForm(code.chunk, code.native)),
                      meaning |-> L!Meaning(tree)] : code \in codes} : TRUE

=============================================================================
