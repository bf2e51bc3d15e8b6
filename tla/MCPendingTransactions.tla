----------------------- MODULE MCPendingTransactions -----------------------
(* A parent and its child, a rival that uses what the parent uses, and a   *)
(* pow.  Rival and child expire between two time stamps.                   *)
EXTENDS PendingTransactions

MCTxs == {"parent", "child", "rival", "pow"}
MCNeeds == [t \in MCTxs |-> IF t = "child" THEN {"parent"} ELSE {}]
MCUses == [t \in MCTxs |-> IF t \in {"parent", "rival"} THEN {"coin"} ELSE {}]
MCExpires == [t \in MCTxs |-> IF t \in {"rival", "child"} THEN 2 ELSE IF t = "pow" THEN 5 ELSE 4]
MCArriving == {<<>>, <<"parent">>, <<"rival">>, <<"parent", "child">>,
               <<"child">>}
=============================================================================
