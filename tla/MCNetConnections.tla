--------------------------- MODULE MCNetConnections ---------------------------
(* Instances of NetConnections for TLC. *)
EXTENDS NetConnections
=============================================================================
