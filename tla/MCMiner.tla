------------------------------ MODULE MCMiner ------------------------------
(* A block tree for Miner. *)
EXTENDS Miner, MCChainDatabase

\* The branch c ends in a bad block or in its sibling; the miner's block on a3 has work on a3
\* (m4) or on another block (s4).
MineParent ==
    [t1 |-> "zero", t2 |-> "t1", a3 |-> "t2", m4 |-> "a3", s4 |-> "a3",
     c3 |-> "t2", c4 |-> "c3", e4 |-> "c3"]
MineNumber ==
    [t1 |-> 1, t2 |-> 2, a3 |-> 3, m4 |-> 4, s4 |-> 4, c3 |-> 3, c4 |-> 4, e4 |-> 4]
MineBlocks == DOMAIN MineParent
MinePath == Ancestry(MineParent)
=============================================================================
