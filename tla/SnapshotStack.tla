--------------------------- MODULE SnapshotStack ---------------------------
(***************************************************************************)
(* What an undo-able object index promises, with no word on how: a table   *)
(* of objects, and a stack of complete copies of that table, one per open  *)
(* undo session.  generic_index (libraries/chainbase) keeps only per-      *)
(* session differences; UndoIndex.tla models those and is shown to         *)
(* implement this module.                                                  *)
(***************************************************************************)
EXTENDS Integers, Sequences

CONSTANTS Table       \* every content an index can have

VARIABLES table,      \* the current content
          copies,     \* copies[k]: the content when session k was started
          revision,   \* the revision number callers see
          broken      \* an undo has failed, and the table is lost

vars == <<table, copies, revision, broken>>

Init == table \in Table /\ copies = <<>> /\ revision = 0 /\ ~ broken

(* Objects are created, modified or removed. *)
Change == /\ table' \in Table
          /\ UNCHANGED <<copies, revision, broken>>

Start == /\ copies' = Append(copies, table)
         /\ revision' = revision + 1
         /\ UNCHANGED <<table, broken>>

(* The promise: undo brings back the whole copy taken at the start. *)
Undo == /\ copies # <<>>
        /\ table' = copies[Len(copies)]
        /\ copies' = SubSeq(copies, 1, Len(copies) - 1)
        /\ revision' = revision - 1
        /\ UNCHANGED broken

(* Or it fails for all to see, and nothing is promised of the table. *)
UndoFails == /\ copies # <<>>
             /\ table' \in Table
             /\ broken' = TRUE
             /\ UNCHANGED <<copies, revision>>

(* Squash keeps the content and forgets the youngest copy. *)
Squash == /\ copies # <<>>
          /\ copies' = SubSeq(copies, 1, Len(copies) - 1)
          /\ revision' = IF Len(copies) = 1 THEN revision ELSE revision - 1
          /\ UNCHANGED <<table, broken>>

(* Commit forgets the n oldest copies. *)
Commit == /\ \E n \in 1 .. Len(copies) :
                copies' = SubSeq(copies, n + 1, Len(copies))
          /\ UNCHANGED <<table, revision, broken>>

SetRevision == /\ copies = <<>>
               /\ revision' \in Int
               /\ UNCHANGED <<table, copies, broken>>

Next == /\ ~ broken
        /\ Change \/ Start \/ Undo \/ UndoFails \/ Squash \/ Commit \/ SetRevision

Spec == Init /\ [][Next]_vars
=============================================================================
