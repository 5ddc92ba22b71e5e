----------------------------- MODULE MCTcpServer -----------------------------
(* TcpServer with two workers and a handful of connections. *)
EXTENDS TcpServer

=============================================================================
