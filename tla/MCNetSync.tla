------------------------------ MODULE MCNetSync ------------------------------
(***************************************************************************)
(* Instances of NetSync: the chain 1, 2, a fork 3, 4 after block 1, and    *)
(* two peers.                                                              *)
(***************************************************************************)
EXTENDS NetSync

CONSTANTS p1, p2

AllBlocks == 0 .. 4
TheParent == [b \in AllBlocks |-> CASE b = 0 -> 0 [] b = 3 -> 1 [] OTHER -> b - 1]
ThePath[b \in AllBlocks] == IF b = 0 THEN <<>> ELSE Append(ThePath[TheParent[b]], b)
\* One peer whose chain moves to the fork, one that stays on it.
Moving == [p \in Peers |-> IF p = p1 THEN {2, 4} ELSE {3}]
=============================================================================
