--------------------------- MODULE MCIOThreadPool ---------------------------
(* IOThreadPool with a few operations, workers and submitting threads. *)
EXTENDS IOThreadPool

=============================================================================
