---------------------------- MODULE MCObservers ----------------------------
(* The block trees of ChainDatabase, with its observers. *)
EXTENDS BlockObservers, MCChainDatabase
=============================================================================
