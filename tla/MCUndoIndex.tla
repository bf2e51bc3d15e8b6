---------------------------- MODULE MCUndoIndex ----------------------------
(* Two contents with one key and a third with another: enough to change    *)
(* an object without and with touching its unique key, and to clash.  A    *)
(* fourth has a key behind both, for a key that moves between two others.  *)
EXTENDS MiraIndex

MCValues == {"a1", "a2", "b1", "c1"}
MCKey == [v \in MCValues |-> CASE v = "b1" -> 2 [] v = "c1" -> 3 [] OTHER -> 1]
MCWide == {"c1"}
=============================================================================
