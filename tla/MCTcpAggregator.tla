------------------------- MODULE MCTcpAggregator -------------------------
(* Small instances of TcpAggregator for TLC. *)
EXTENDS TcpAggregator
=============================================================================
