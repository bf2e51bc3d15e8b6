----------------------------- MODULE MCBlockLog -----------------------------
(* BlockLog has no constants but numbers and switches.                     *)
EXTENDS BlockLog
=============================================================================
