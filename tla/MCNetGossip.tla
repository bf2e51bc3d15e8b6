----------------------------- MODULE MCNetGossip -----------------------------
(* Instances of NetGossip for TLC. *)
EXTENDS NetGossip
=============================================================================
