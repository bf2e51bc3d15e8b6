-------------------------- MODULE MCChainDatabase --------------------------
(* Block trees for ChainDatabase.                                          *)
EXTENDS ChainDatabase

(* Every block with its ancestors, from a parent function over a tree of   *)
(* at most six levels.                                                     *)
Ancestry(parent) ==
    LET Up(S) == S \cup {parent[x] : x \in S \cap DOMAIN parent}
    IN  [b \in DOMAIN parent |->
           Up(Up(Up(Up(Up(Up({b})))))) \cap DOMAIN parent]

(* Branches of unequal length from three points of the trunk. *)
DeepParent ==
    [t1 |-> "zero", t2 |-> "t1",
     a3 |-> "t2", a4 |-> "a3", a5 |-> "a4",
     c3 |-> "t2", c4 |-> "c3", c5 |-> "c4", c6 |-> "c5", d5 |-> "a4"]
DeepNumber ==
    [t1 |-> 1, t2 |-> 2, a3 |-> 3, a4 |-> 4, a5 |-> 5,
     c3 |-> 3, c4 |-> 4, c5 |-> 5, c6 |-> 6, d5 |-> 5]
DeepBlocks == DOMAIN DeepParent
DeepPath == Ancestry(DeepParent)
DeepTrunk == <<"t1", "t2">>

(* Small enough for shutdowns and crashes at every step. *)
FaultParent ==
    [t1 |-> "zero", a2 |-> "t1", a3 |-> "a2",
     c2 |-> "t1", c3 |-> "c2", c4 |-> "c3"]
FaultNumber == [t1 |-> 1, a2 |-> 2, a3 |-> 3, c2 |-> 2, c3 |-> 3, c4 |-> 4]
FaultBlocks == DOMAIN FaultParent
FaultPath == Ancestry(FaultParent)
FaultTrunk == <<"t1">>

=============================================================================
