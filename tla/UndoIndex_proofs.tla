-------------------------- MODULE UndoIndex_proofs --------------------------
(***************************************************************************)
(* Proofs about UndoIndex for every set of contents and keys, any number   *)
(* of ids and any depth of sessions: the differences that generic_index    *)
(* keeps are exact, and implement the full copies of SnapshotStack.        *)
(***************************************************************************)
EXTENDS UndoIndex, SequenceTheorems, TLAPS

Tables == [objs : Objects, next_id : 0 .. MaxId + 1]

(* No two objects share a key, and no id from the next one on is in use. *)
Good(x) == /\ \A i \in Ids : x.objs[i] # None => Free(x.objs, i, x.objs[i])
           /\ \A i \in Ids : i >= x.next_id => x.objs[i] = None

(* u is an exact difference from x to y.  Two facts are needed on top to   *)
(* carry exactness through squash and undo: an id in use in y but not in x *)
(* was handed out in between, and (r: has a key been changed?) an object   *)
(* in both has one key.                                                    *)
Differ(u, x, y, r) ==
    /\ u.old_next_id = x.next_id
    /\ x.next_id <= y.next_id
    /\ \A i \in Ids : Exact(u, i, x.objs[i], y.objs[i])
    /\ \A i \in Ids : x.objs[i] = None /\ y.objs[i] # None => i >= x.next_id
    /\ r \/ \A i \in Ids : x.objs[i] # None /\ y.objs[i] # None =>
                              Key[x.objs[i]] = Key[y.objs[i]]

(* What on_modify and on_remove make of the top undo state u when the      *)
(* object i has content o.                                                 *)
Modified(u, i, o) == IF i \notin u.new_ids /\ u.old_values[i] = None
                     THEN [u EXCEPT !.old_values[i] = o] ELSE u
Removed(u, i, o) ==
    CASE i \in u.new_ids -> [u EXCEPT !.new_ids = @ \ {i}]
      [] i \notin u.new_ids /\ u.old_values[i] # None ->
           [u EXCEPT !.removed_values[i] = u.old_values[i],
                     !.old_values[i] = None]
      [] i \notin u.new_ids /\ u.old_values[i] = None ->
           [u EXCEPT !.removed_values[i] = IF @ = None THEN o ELSE @]

-----------------------------------------------------------------------------
(* One undo state and the tables before and after it.                      *)

LEMMA StateFields ==
  ASSUME NEW u \in UndoState
  PROVE  /\ u.old_values \in Objects
         /\ u.removed_values \in Objects
         /\ u.new_ids \in SUBSET Ids
         /\ u.old_next_id \in 0 .. MaxId + 1
         /\ u.revision \in Int
  BY DEF UndoState

(* An empty undo state is the difference of a table to itself. *)
LEMMA DifferStart ==
  ASSUME NEW x \in Tables, NEW r \in BOOLEAN, NEW n \in Int
  PROVE  LET u == [old_values |-> Nothing, removed_values |-> Nothing,
                   new_ids |-> {}, old_next_id |-> x.next_id, revision |-> n]
         IN  u \in UndoState /\ Differ(u, x, x, r)
  <1> DEFINE u == [old_values |-> Nothing, removed_values |-> Nothing,
                   new_ids |-> {}, old_next_id |-> x.next_id, revision |-> n]
  <1>1. Nothing \in Objects /\ \A i \in Ids : Nothing[i] = None
    BY DEF Nothing, Objects
  <1>2. u \in UndoState
    BY <1>1 DEF UndoState, Tables
  <1>3. Differ(u, x, x, r)
    BY <1>1, MaxIdAssumption DEF Differ, Exact, Tables
  <1>4. QED BY <1>2, <1>3

LEMMA DifferCreate ==
  ASSUME NEW u \in UndoState, NEW x \in Tables, NEW y \in Tables,
         NEW r \in BOOLEAN, NEW v \in Values,
         Differ(u, x, y, r), Good(x), Good(y), y.next_id \in Ids
  PROVE  LET w == [u EXCEPT !.new_ids = @ \cup {y.next_id}]
             z == [objs |-> [y.objs EXCEPT ![y.next_id] = v],
                   next_id |-> y.next_id + 1]
         IN  w \in UndoState /\ Differ(w, x, z, r)
  <1> DEFINE w == [u EXCEPT !.new_ids = @ \cup {y.next_id}]
             z == [objs |-> [y.objs EXCEPT ![y.next_id] = v],
                   next_id |-> y.next_id + 1]
  <1>1. /\ w \in UndoState
        /\ w.old_values = u.old_values /\ w.removed_values = u.removed_values
        /\ w.old_next_id = u.old_next_id
        /\ w.new_ids = u.new_ids \cup {y.next_id}
    BY DEF UndoState
  <1>2. /\ y.objs \in Objects /\ x.objs \in Objects
        /\ x.next_id \in Nat /\ y.next_id \in Nat
        /\ v # None
    BY NoneAssumption, MaxIdAssumption DEF Tables
  <1>3. \A i \in Ids : z.objs[i] = IF i = y.next_id THEN v ELSE y.objs[i]
    BY <1>2 DEF Objects
  <1>4. x.next_id <= y.next_id
    BY DEF Differ
  <1>5. x.objs[y.next_id] = None /\ y.objs[y.next_id] = None
    BY <1>2, <1>4 DEF Good
  <1>6. ASSUME NEW i \in Ids PROVE Exact(w, i, x.objs[i], z.objs[i])
    <2>1. Exact(u, i, x.objs[i], y.objs[i])
      BY DEF Differ
    <2>2. CASE i = y.next_id
      BY <2>1, <2>2, <1>1, <1>2, <1>3, <1>5 DEF Exact
    <2>3. CASE i # y.next_id
      BY <2>1, <2>3, <1>1, <1>3 DEF Exact
    <2>4. QED BY <2>2, <2>3
  <1>7. \A i \in Ids : x.objs[i] = None /\ z.objs[i] # None => i >= x.next_id
    BY <1>2, <1>3, <1>4 DEF Differ
  <1>8. r \/ \A i \in Ids : x.objs[i] # None /\ z.objs[i] # None =>
                              Key[x.objs[i]] = Key[z.objs[i]]
    BY <1>3, <1>5 DEF Differ
  <1>9. QED BY <1>1, <1>2, <1>4, <1>6, <1>7, <1>8 DEF Differ

(* c is the new content, or the old one if the container refused it; s is  *)
(* r unless the key has changed.                                           *)
LEMMA DifferModify ==
  ASSUME NEW u \in UndoState, NEW x \in Tables, NEW y \in Tables,
         NEW r \in BOOLEAN, NEW s \in BOOLEAN, NEW c \in Values, NEW i \in Ids,
         Differ(u, x, y, r), y.objs[i] # None,
         r => s, s \/ Key[c] = Key[y.objs[i]]
  PROVE  LET w == Modified(u, i, y.objs[i])
             z == [objs |-> [y.objs EXCEPT ![i] = c], next_id |-> y.next_id]
         IN  w \in UndoState /\ Differ(w, x, z, s)
  <1> DEFINE w == Modified(u, i, y.objs[i])
             z == [objs |-> [y.objs EXCEPT ![i] = c], next_id |-> y.next_id]
  <1>1. /\ y.objs \in Objects /\ x.objs \in Objects /\ c # None
        /\ u.old_values \in Objects
    BY NoneAssumption DEF Tables, UndoState
  <1>2. /\ w \in UndoState
        /\ w.new_ids = u.new_ids /\ w.removed_values = u.removed_values
        /\ w.old_next_id = u.old_next_id
        /\ \A j \in Ids \ {i} : w.old_values[j] = u.old_values[j]
        /\ w.old_values[i] = IF i \notin u.new_ids /\ u.old_values[i] = None
                             THEN y.objs[i] ELSE u.old_values[i]
    <2> DEFINE ov == [u.old_values EXCEPT ![i] = y.objs[i]]
    <2>1. /\ ov \in Objects /\ ov[i] = y.objs[i]
          /\ \A j \in Ids \ {i} : ov[j] = u.old_values[j]
      BY <1>1 DEF Objects
    <2>2. [u EXCEPT !.old_values[i] = y.objs[i]] = [u EXCEPT !.old_values = ov]
      BY DEF UndoState
    <2> HIDE DEF ov
    <2>3. CASE i \notin u.new_ids /\ u.old_values[i] = None
      <3>1. w = [u EXCEPT !.old_values = ov]
        BY <2>2, <2>3 DEF Modified
      <3>2. QED BY <2>1, <2>3, <3>1 DEF UndoState
    <2>4. CASE ~ (i \notin u.new_ids /\ u.old_values[i] = None)
      BY <2>4 DEF Modified
    <2>5. QED BY <2>3, <2>4
  <1>3. \A j \in Ids : z.objs[j] = IF j = i THEN c ELSE y.objs[j]
    BY <1>1 DEF Objects
  <1> HIDE DEF w
  <1>4. ASSUME NEW j \in Ids PROVE Exact(w, j, x.objs[j], z.objs[j])
    <2>1. Exact(u, j, x.objs[j], y.objs[j])
      BY DEF Differ
    <2>2. CASE j = i
      BY <2>1, <2>2, <1>1, <1>2, <1>3 DEF Exact
    <2>3. CASE j # i
      BY <2>1, <2>3, <1>2, <1>3 DEF Exact
    <2>4. QED BY <2>2, <2>3
  <1>5. \A j \in Ids : x.objs[j] = None /\ z.objs[j] # None => j >= x.next_id
    BY <1>3 DEF Differ
  <1>6. s \/ \A j \in Ids : x.objs[j] # None /\ z.objs[j] # None =>
                              Key[x.objs[j]] = Key[z.objs[j]]
    BY <1>3 DEF Differ
  <1>7. QED BY <1>2, <1>4, <1>5, <1>6 DEF Differ, w

LEMMA DifferRemove ==
  ASSUME NEW u \in UndoState, NEW x \in Tables, NEW y \in Tables,
         NEW r \in BOOLEAN, NEW i \in Ids,
         Differ(u, x, y, r), y.objs[i] # None
  PROVE  LET w == Removed(u, i, y.objs[i])
             z == [objs |-> [y.objs EXCEPT ![i] = None], next_id |-> y.next_id]
         IN  w \in UndoState /\ Differ(w, x, z, r)
  <1> DEFINE w == Removed(u, i, y.objs[i])
             z == [objs |-> [y.objs EXCEPT ![i] = None], next_id |-> y.next_id]
  <1>1. /\ y.objs \in Objects /\ x.objs \in Objects
        /\ u.old_values \in Objects /\ u.removed_values \in Objects
        /\ Nothing \in Objects
    BY DEF Tables, UndoState, Nothing, Objects
  <1>2. Exact(u, i, x.objs[i], y.objs[i])
    BY DEF Differ
  <1>3. u.removed_values[i] = None
    BY <1>2 DEF Exact
  <1>4. /\ w \in UndoState
        /\ w.old_next_id = u.old_next_id
        /\ w.new_ids = u.new_ids \ {i}
        /\ \A j \in Ids : w.old_values[j] =
              IF j = i THEN None ELSE u.old_values[j]
        /\ \A j \in Ids : w.removed_values[j] =
              IF j = i THEN IF i \in u.new_ids THEN None
                            ELSE IF u.old_values[i] # None
                                 THEN u.old_values[i] ELSE y.objs[i]
              ELSE u.removed_values[j]
    <2>1. CASE i \in u.new_ids
      <3>1. w = [u EXCEPT !.new_ids = @ \ {i}]
        BY <2>1 DEF Removed
      <3>2. u.old_values[i] = None
        BY <1>1, <1>2, <2>1 DEF Exact
      <3> HIDE DEF w
      <3>3. QED BY <1>3, <2>1, <3>1, <3>2 DEF UndoState
    <2>2. CASE i \notin u.new_ids /\ u.old_values[i] # None
      <3> DEFINE rv == [u.removed_values EXCEPT ![i] = u.old_values[i]]
                 ov == [u.old_values EXCEPT ![i] = None]
      <3>1. w = [u EXCEPT !.removed_values[i] = u.old_values[i],
                          !.old_values[i] = None]
        BY <2>2 DEF Removed
      <3>2. w = [u EXCEPT !.removed_values = rv, !.old_values = ov]
        BY <3>1 DEF UndoState
      <3>3. /\ rv \in Objects /\ ov \in Objects
            /\ \A j \in Ids : ov[j] = IF j = i THEN None ELSE u.old_values[j]
            /\ \A j \in Ids : rv[j] = IF j = i THEN u.old_values[i]
                                      ELSE u.removed_values[j]
        BY <1>1 DEF Objects
      <3> HIDE DEF w, rv, ov
      <3>4. QED BY <2>2, <3>2, <3>3 DEF UndoState
    <2>3. CASE i \notin u.new_ids /\ u.old_values[i] = None
      <3> DEFINE rv == [u.removed_values EXCEPT ![i] = y.objs[i]]
      <3>1. w = [u EXCEPT !.removed_values[i] =
                     IF @ = None THEN y.objs[i] ELSE @]
        BY <2>3 DEF Removed
      <3>2. w = [u EXCEPT !.removed_values = rv]
        BY <1>3, <3>1 DEF UndoState
      <3>3. /\ rv \in Objects
            /\ \A j \in Ids : rv[j] = IF j = i THEN y.objs[i]
                                      ELSE u.removed_values[j]
        BY <1>1 DEF Objects
      <3> HIDE DEF w, rv
      <3>4. QED BY <2>3, <3>2, <3>3 DEF UndoState
    <2>4. QED BY <2>1, <2>2, <2>3
  <1>5. \A j \in Ids : z.objs[j] = IF j = i THEN None ELSE y.objs[j]
    BY <1>1 DEF Objects
  <1> HIDE DEF w
  <1>6. ASSUME NEW j \in Ids PROVE Exact(w, j, x.objs[j], z.objs[j])
    <2>1. Exact(u, j, x.objs[j], y.objs[j])
      BY DEF Differ
    <2>2. CASE j = i
      BY <2>1, <2>2, <1>1, <1>3, <1>4, <1>5 DEF Exact
    <2>3. CASE j # i
      BY <2>1, <2>3, <1>4, <1>5 DEF Exact
    <2>4. QED BY <2>2, <2>3
  <1>7. \A j \in Ids : x.objs[j] = None /\ z.objs[j] # None => j >= x.next_id
    BY <1>5 DEF Differ
  <1>8. r \/ \A j \in Ids : x.objs[j] # None /\ z.objs[j] # None =>
                              Key[x.objs[j]] = Key[z.objs[j]]
    BY <1>5 DEF Differ
  <1>9. QED BY <1>4, <1>6, <1>7, <1>8 DEF Differ, w

(* undo() computes the table before the difference from the one after it. *)
LEMMA DifferUndo ==
  ASSUME NEW u \in UndoState, NEW x \in Tables, NEW y \in Tables,
         NEW r \in BOOLEAN, Differ(u, x, y, r)
  PROVE  Restored(y.objs, u) = x.objs
  <1>1. x.objs \in Objects /\ y.objs \in Objects
    BY DEF Tables
  <1>2. ASSUME NEW i \in Ids PROVE Restored(y.objs, u)[i] = x.objs[i]
    <2>1. Exact(u, i, x.objs[i], y.objs[i])
      BY DEF Differ
    <2>2. CASE u.old_values[i] # None
      BY <2>1, <2>2 DEF Exact, Restored
    <2>3. CASE u.old_values[i] = None /\ u.removed_values[i] # None
      BY <2>1, <2>3 DEF Exact, Restored
    <2>4. CASE u.old_values[i] = None /\ u.removed_values[i] = None
      BY <2>1, <2>4 DEF Exact, Restored
    <2>5. QED BY <2>2, <2>3, <2>4
  <1>3. Restored(y.objs, u) = [i \in Ids |-> Restored(y.objs, u)[i]]
    BY DEF Restored
  <1>4. x.objs = [i \in Ids |-> x.objs[i]]
    BY <1>1 DEF Objects
  <1>5. QED BY <1>2, <1>3, <1>4

(* As long as no key has been changed, undo() meets no taken key. *)
LEMMA DifferNoClash ==
  ASSUME NEW u \in UndoState, NEW x \in Tables, NEW y \in Tables,
         Differ(u, x, y, FALSE), Good(y)
  PROVE  Clashes(y.objs, u) = {}
  <1> SUFFICES ASSUME NEW i \in Ids, u.old_values[i] # None
               PROVE  Free(PartlyRestored(y.objs, u, i), i, u.old_values[i])
    BY DEF Clashes
  <1>1. ASSUME NEW j \in Ids, u.old_values[j] # None
        PROVE  /\ y.objs[j] # None
               /\ Key[u.old_values[j]] = Key[y.objs[j]]
    <2>1. Exact(u, j, x.objs[j], y.objs[j])
      BY DEF Differ
    <2>2. x.objs[j] = u.old_values[j] /\ y.objs[j] # None
      BY <1>1, <2>1 DEF Exact
    <2>3. QED BY <1>1, <2>2 DEF Differ
  <1> DEFINE t == PartlyRestored(y.objs, u, i)
  <1>2. SUFFICES ASSUME NEW j \in Ids \ {i}, t[j] # None
                 PROVE  Key[t[j]] # Key[u.old_values[i]]
    BY DEF Free
  <1>3. t[j] = IF j < i /\ u.old_values[j] # None
               THEN u.old_values[j] ELSE y.objs[j]
    BY DEF PartlyRestored
  <1>4. y.objs[j] # None /\ Key[t[j]] = Key[y.objs[j]]
    BY <1>1, <1>2, <1>3
  <1>5. Key[u.old_values[i]] = Key[y.objs[i]] /\ y.objs[i] # None
    BY <1>1
  <1>6. Free(y.objs, i, y.objs[i])
    BY <1>5 DEF Good
  <1>7. Key[y.objs[j]] # Key[y.objs[i]]
    BY <1>4, <1>6 DEF Free
  <1>8. QED BY <1>4, <1>5, <1>7

(* The case table of squash(): two successive differences become one. *)
LEMMA DifferMerge ==
  ASSUME NEW a \in UndoState, NEW b \in UndoState,
         NEW x \in Tables, NEW y \in Tables, NEW z \in Tables,
         NEW r \in BOOLEAN,
         Differ(a, x, y, r), Differ(b, y, z, r), Good(x), Good(y)
  PROVE  /\ Merge(a, b) \in UndoState
         /\ Merge(a, b).revision = a.revision
         /\ Differ(Merge(a, b), x, z, r)
  <1> DEFINE w == Merge(a, b)
             old == MergedOld(a, b)
             new == a.new_ids \cup b.new_ids
             gone == {i \in Ids : b.removed_values[i] # None}
             ov == [i \in Ids |-> IF i \in gone \ new THEN None ELSE old[i]]
             rv == [i \in Ids |-> IF i \notin gone \ new \/
                                     a.removed_values[i] # None
                                  THEN a.removed_values[i]
                                  ELSE IF old[i] # None THEN old[i]
                                  ELSE b.removed_values[i]]
  <1>1. /\ a.old_values \in Objects /\ b.old_values \in Objects
        /\ a.removed_values \in Objects /\ b.removed_values \in Objects
        /\ x.objs \in Objects /\ y.objs \in Objects /\ z.objs \in Objects
        /\ x.next_id \in Nat /\ y.next_id \in Nat /\ z.next_id \in Nat
        /\ new \subseteq Ids
    BY MaxIdAssumption DEF UndoState, Tables
  <1>2. /\ old \in Objects
        /\ \A i \in Ids : old[i] =
              IF a.old_values[i] = None /\ i \notin a.new_ids
              THEN b.old_values[i] ELSE a.old_values[i]
    BY <1>1 DEF MergedOld, Objects
  <1> HIDE DEF old
  <1>3. ov \in Objects /\ rv \in Objects
    BY <1>1, <1>2 DEF Objects
  <1>4. w = [a EXCEPT !.new_ids = new \ gone, !.old_values = ov,
                      !.removed_values = rv]
    BY DEF Merge, UndoState, old
  <1>5. /\ w \in UndoState
        /\ w.revision = a.revision /\ w.old_next_id = a.old_next_id
        /\ w.new_ids = new \ gone /\ w.old_values = ov /\ w.removed_values = rv
    <2> HIDE DEF w, new, gone, ov, rv
    <2>1. new \ gone \in SUBSET Ids
      BY <1>1
    <2>2. QED BY <1>3, <1>4, <2>1 DEF UndoState
  <1>6. ASSUME NEW i \in Ids
        PROVE  /\ ov[i] = IF i \in gone \ new THEN None ELSE old[i]
               /\ rv[i] = IF i \notin gone \ new \/ a.removed_values[i] # None
                          THEN a.removed_values[i]
                          ELSE IF old[i] # None THEN old[i]
                          ELSE b.removed_values[i]
    OBVIOUS
  <1> HIDE DEF w, ov, rv
  <1>7. x.next_id <= y.next_id /\ y.next_id <= z.next_id
    BY DEF Differ
  (* An id is not handed out again: an object of x that is gone in y does  *)
  (* not come back in z.                                                   *)
  <1>8. ASSUME NEW i \in Ids, x.objs[i] # None, y.objs[i] = None
        PROVE  z.objs[i] = None
    <2>1. i < x.next_id
      BY <1>1, <1>8 DEF Good, Ids
    <2>2. z.objs[i] # None => i >= y.next_id
      BY <1>8 DEF Differ
    <2>3. QED BY <1>1, <1>7, <2>1, <2>2 DEF Ids
  <1>9. ASSUME NEW i \in Ids PROVE Exact(w, i, x.objs[i], z.objs[i])
    <2>1. Exact(a, i, x.objs[i], y.objs[i]) /\ Exact(b, i, y.objs[i], z.objs[i])
      BY DEF Differ
    <2>2. i \in gone <=> b.removed_values[i] # None
      OBVIOUS
    <2>3. i \in new <=> i \in a.new_ids \/ i \in b.new_ids
      OBVIOUS
    <2> HIDE DEF gone, new
    <2>4. CASE x.objs[i] = None
      BY <2>1, <2>2, <2>3, <2>4, <1>2, <1>5, <1>6 DEF Exact
    <2>5. CASE x.objs[i] # None /\ y.objs[i] = None
      BY <2>1, <2>2, <2>3, <2>5, <1>2, <1>5, <1>6, <1>8 DEF Exact
    <2>6. CASE x.objs[i] # None /\ y.objs[i] # None
      BY <2>1, <2>2, <2>3, <2>6, <1>2, <1>5, <1>6 DEF Exact
    <2>7. QED BY <2>4, <2>5, <2>6
  <1>10. ASSUME NEW i \in Ids, x.objs[i] = None, z.objs[i] # None
         PROVE  i >= x.next_id
    <2>1. CASE y.objs[i] = None
      BY <2>1, <1>1, <1>7, <1>10 DEF Differ, Ids
    <2>2. CASE y.objs[i] # None
      BY <2>2, <1>10 DEF Differ
    <2>3. QED BY <2>1, <2>2
  <1>11. ASSUME NEW i \in Ids, ~ r, x.objs[i] # None, z.objs[i] # None
         PROVE  Key[x.objs[i]] = Key[z.objs[i]]
    <2>1. y.objs[i] # None
      BY <1>8, <1>11
    <2>2. QED BY <2>1, <1>11 DEF Differ
  <1>12. Differ(w, x, z, r)
    BY <1>1, <1>5, <1>7, <1>9, <1>10, <1>11 DEF Differ
  <1>13. QED BY <1>5, <1>12 DEF w

-----------------------------------------------------------------------------
(* The inductive invariant: each undo state is the difference between the  *)
(* tables at the two ends of its session, and all these tables are good.   *)

Current == [objs |-> objs, next_id |-> next_id]
EndOf(k) == IF k = Len(saved) THEN Current ELSE saved[k + 1]

Sessions == /\ Len(saved) = Len(stack)
            /\ \A k \in 1 .. Len(stack) :
                  Differ(stack[k], saved[k], EndOf(k), rekeyed)
            /\ \A k \in 1 .. Len(stack) : Good(saved[k])
            /\ Good(Current)

IndInv == TypeOK /\ RevisionsConsecutive /\ ThrowsOnlyIfRekeyed
            /\ (~ threw => Sessions)

LEMMA CurrentType ==
  ASSUME TypeOK
  PROVE  Current \in Tables
  BY DEF TypeOK, Current, Tables

LEMMA TopFacts ==
  ASSUME TypeOK, Sessions, stack # <<>>
  PROVE  /\ Len(stack) \in 1 .. Len(stack)
         /\ Top \in UndoState
         /\ saved # <<>>
         /\ saved[Len(stack)] \in Tables
         /\ Differ(Top, saved[Len(stack)], Current, rekeyed)
         /\ Good(saved[Len(stack)])
  <1>1. Len(stack) \in Nat /\ Len(stack) > 0 /\ stack \in Seq(UndoState)
    BY DEF TypeOK
  <1>2. saved \in Seq(Tables) /\ Len(saved) = Len(stack)
    BY DEF TypeOK, Sessions, Tables
  <1>3. QED BY <1>1, <1>2 DEF Top, Sessions, EndOf

(* An operation on objects: the top undo state is replaced by one that is  *)
(* the difference to the new table; without a session nothing is recorded. *)
LEMMA TopChanges ==
  ASSUME IndInv, ~ threw, NEW u,
         stack # <<>> => /\ u \in UndoState
                         /\ u.revision = Top.revision
                         /\ Differ(u, saved[Len(stack)], Current', rekeyed'),
         stack' = OnTop(u),
         Current' \in Tables, Good(Current)', rekeyed' \in BOOLEAN,
         rekeyed => rekeyed',
         UNCHANGED <<revision, unwinding, threw, saved>>
  PROVE  IndInv'
  <1>1. TypeOK /\ Sessions /\ RevisionsConsecutive
    BY DEF IndInv
  <1>2. objs' \in Objects /\ next_id' \in 0 .. MaxId + 1
    BY DEF Current, Tables
  <1>3. CASE stack = <<>>
    <2>1. stack' = stack
      BY <1>3 DEF OnTop, enabled
    <2>2. TypeOK'
      BY <1>1, <1>2, <2>1 DEF TypeOK
    <2>3. Len(stack) = 0 /\ Len(stack') = 0 /\ Len(saved') = 0
      BY <1>1, <1>3, <2>1 DEF Sessions
    <2>4. Sessions'
      BY <2>3 DEF Sessions
    <2>5. QED BY <2>2, <2>3, <2>4 DEF IndInv, RevisionsConsecutive,
                                      ThrowsOnlyIfRekeyed
  <1>4. CASE stack # <<>>
    <2> DEFINE n == Len(stack)
    <2>1. /\ n \in Nat /\ n \in 1 .. n /\ stack \in Seq(UndoState)
          /\ Len(saved) = n /\ saved \in Seq(Tables)
      BY <1>1, <1>4, TopFacts DEF TypeOK, Sessions, Tables
    <2>2. stack' = [stack EXCEPT ![n] = u]
      BY <1>4 DEF OnTop, enabled
    <2>3. /\ stack' \in Seq(UndoState) /\ Len(stack') = n
          /\ stack'[n] = u
          /\ \A k \in 1 .. n : k # n => stack'[k] = stack[k]
      BY <1>4, <2>1, <2>2
    <2>4. TypeOK'
      BY <1>1, <1>2, <2>3 DEF TypeOK
    <2>5. \A k \in 1 .. n : stack'[k].revision = stack[k].revision
      BY <1>4, <2>3 DEF Top
    <2>6. RevisionsConsecutive'
      BY <1>1, <2>3, <2>5 DEF RevisionsConsecutive
    <2>7. ASSUME NEW k \in 1 .. n
          PROVE  Differ(stack'[k], saved'[k], EndOf(k)', rekeyed')
      <3>1. CASE k = n
        BY <1>4, <2>1, <2>3, <3>1 DEF EndOf
      <3>2. CASE k # n
        <4>1. EndOf(k)' = EndOf(k)
          BY <2>1, <3>2 DEF EndOf
        <4>2. Differ(stack[k], saved[k], EndOf(k), rekeyed)
          BY <1>1 DEF Sessions
        <4>3. QED BY <2>3, <3>2, <4>1, <4>2 DEF Differ
      <3>3. QED BY <3>1, <3>2
    <2>8. Sessions'
      BY <1>1, <2>1, <2>3, <2>7 DEF Sessions
    <2>9. QED BY <2>4, <2>6, <2>8 DEF IndInv, ThrowsOnlyIfRekeyed
  <1>5. QED BY <1>3, <1>4

-----------------------------------------------------------------------------
(* One lemma per operation.                                                *)

LEMMA Emplace ==
  ASSUME IndInv, NEW v \in Values, emplace(v)
  PROVE  IndInv'
  <1> DEFINE u == [Top EXCEPT !.new_ids = @ \cup {next_id}]
             t == [objs EXCEPT ![next_id] = v]
  <1>1. /\ ~ threw /\ TypeOK /\ Sessions
        /\ next_id \in Ids /\ Free(objs, next_id, v)
        /\ objs' = t /\ next_id' = next_id + 1
        /\ stack' = OnTop(u)
        /\ UNCHANGED <<revision, unwinding, threw, saved, rekeyed>>
    BY DEF emplace, Running, IndInv, on_create
  <1>2. objs \in Objects /\ next_id \in Nat /\ rekeyed \in BOOLEAN
        /\ v # None /\ Good(Current)
    BY <1>1, NoneAssumption DEF TypeOK, Ids, Sessions
  <1>3. t \in Objects /\ \A i \in Ids : t[i] = IF i = next_id THEN v ELSE objs[i]
    BY <1>1, <1>2 DEF Objects
  <1>4. /\ Current' = [objs |-> t, next_id |-> next_id + 1]
        /\ Current' \in Tables
    BY <1>1, <1>3, MaxIdAssumption DEF Current, Tables, Ids
  <1> HIDE DEF t
  <1>5. Good(Current)'
    <2>1. \A i \in Ids : objs[i] # None => Free(objs, i, objs[i])
      BY <1>2 DEF Good, Current
    <2>2. \A i \in Ids : i >= next_id => objs[i] = None
      BY <1>2 DEF Good, Current
    <2>3. ASSUME NEW i \in Ids, t[i] # None PROVE Free(t, i, t[i])
      <3>1. CASE i = next_id
        BY <1>1, <1>3, <3>1 DEF Free
      <3>2. CASE i # next_id
        BY <1>1, <1>3, <2>1, <2>3, <3>2 DEF Free
      <3>3. QED BY <3>1, <3>2
    <2>4. ASSUME NEW i \in Ids, i >= next_id + 1 PROVE t[i] = None
      BY <1>2, <1>3, <2>2, <2>4 DEF Ids
    <2>5. QED BY <1>4, <2>3, <2>4 DEF Good
  <1>6. ASSUME stack # <<>>
        PROVE  /\ u \in UndoState /\ u.revision = Top.revision
               /\ Differ(u, saved[Len(stack)], Current', rekeyed')
    <2>1. /\ Top \in UndoState /\ saved[Len(stack)] \in Tables
          /\ Differ(Top, saved[Len(stack)], Current, rekeyed)
          /\ Good(saved[Len(stack)]) /\ Current \in Tables
      BY <1>1, <1>6, TopFacts, CurrentType
    <2>2. Current.next_id = next_id /\ Current.objs = objs
      BY DEF Current
    <2>3. u.revision = Top.revision
      BY <2>1 DEF UndoState
    <2>4. u \in UndoState /\ Differ(u, saved[Len(stack)], Current', rekeyed)
      BY <1>1, <1>2, <1>4, <2>1, <2>2, DifferCreate DEF t
    <2>5. QED BY <1>1, <2>3, <2>4
  <1> HIDE DEF u
  <1>7. QED BY <1>1, <1>2, <1>4, <1>5, <1>6, TopChanges

LEMMA Modify ==
  ASSUME IndInv, NEW i \in Ids, NEW v \in Values, modify(i, v)
  PROVE  IndInv'
  <1> DEFINE c == IF Free(objs, i, v) THEN v ELSE objs[i]
             u == Modified(Top, i, objs[i])
             t == [objs EXCEPT ![i] = c]
  <1>1. /\ ~ threw /\ TypeOK /\ Sessions
        /\ objs[i] # None
        /\ objs' = (IF Free(objs, i, v) THEN [objs EXCEPT ![i] = v] ELSE objs)
        /\ rekeyed' = (rekeyed \/ (Free(objs, i, v) /\ Key[v] # Key[objs[i]]))
        /\ stack' = on_modify(i)
        /\ UNCHANGED <<next_id, revision, unwinding, threw, saved>>
    BY DEF modify, Running, IndInv
  <1>2. objs \in Objects /\ next_id \in Nat /\ Good(Current)
        /\ stack \in Seq(UndoState) /\ c \in Values /\ c # None
    BY <1>1, NoneAssumption DEF TypeOK, Sessions, Objects
  <1>3. rekeyed \in BOOLEAN /\ rekeyed' \in BOOLEAN
    BY <1>1 DEF TypeOK
  <1>4. (rekeyed => rekeyed') /\ (rekeyed' \/ Key[c] = Key[objs[i]])
    BY <1>1
  <1>5. objs' = t /\ t \in Objects
        /\ \A j \in Ids : t[j] = IF j = i THEN c ELSE objs[j]
    BY <1>1, <1>2 DEF Objects
  <1>6. stack' = OnTop(u)
    <2>1. CASE stack = <<>>
      BY <1>1, <2>1 DEF on_modify, OnTop, enabled
    <2>2. CASE stack # <<>> /\ i \notin Top.new_ids /\ Top.old_values[i] = None
      BY <1>1, <2>2 DEF on_modify, enabled, Modified
    <2>3. CASE stack # <<>> /\ ~ (i \notin Top.new_ids /\ Top.old_values[i] = None)
      <3>1. stack' = stack /\ u = Top
        BY <1>1, <2>3 DEF on_modify, enabled, Modified
      <3>2. stack = [stack EXCEPT ![Len(stack)] = stack[Len(stack)]]
        BY <1>2, <2>3
      <3>3. QED BY <2>3, <3>1, <3>2 DEF OnTop, Top, enabled
    <2>4. QED BY <2>1, <2>2, <2>3
  <1>7. /\ Current' = [objs |-> t, next_id |-> next_id]
        /\ Current' \in Tables
    BY <1>1, <1>5 DEF Current, Tables, TypeOK
  <1>8. Good(Current)'
    <2>1. \A j \in Ids : objs[j] # None => Free(objs, j, objs[j])
      BY <1>2 DEF Good, Current
    <2>2. \A j \in Ids : j >= next_id => objs[j] = None
      BY <1>2 DEF Good, Current
    <2>3. Free(objs, i, c)
      BY <1>1, <2>1
    <2> HIDE DEF t, c
    <2>4. ASSUME NEW j \in Ids, t[j] # None PROVE Free(t, j, t[j])
      <3>1. CASE j = i
        BY <1>5, <2>3, <3>1 DEF Free
      <3>2. CASE j # i
        BY <1>2, <1>5, <2>1, <2>3, <2>4, <3>2 DEF Free
      <3>3. QED BY <3>1, <3>2
    <2>5. ASSUME NEW j \in Ids, j >= next_id PROVE t[j] = None
      BY <1>1, <1>5, <2>2, <2>5
    <2>6. QED BY <1>7, <2>4, <2>5 DEF Good
  <1>9. ASSUME stack # <<>>
        PROVE  /\ u \in UndoState /\ u.revision = Top.revision
               /\ Differ(u, saved[Len(stack)], Current', rekeyed')
    <2>1. /\ Top \in UndoState /\ saved[Len(stack)] \in Tables
          /\ Differ(Top, saved[Len(stack)], Current, rekeyed)
          /\ Current \in Tables
      BY <1>1, <1>9, TopFacts, CurrentType
    <2>2. Current.next_id = next_id /\ Current.objs = objs
      BY DEF Current
    <2>3. u.revision = Top.revision
      BY <2>1 DEF UndoState, Modified
    <2> HIDE DEF c
    <2> DEFINE m == Modified(Top, i, Current.objs[i])
               z == [objs |-> [Current.objs EXCEPT ![i] = c],
                     next_id |-> Current.next_id]
    <2>4. /\ Current.objs[i] # None
          /\ rekeyed' \/ Key[c] = Key[Current.objs[i]]
      BY <1>1, <1>4, <2>2
    <2>5. m \in UndoState /\ Differ(m, saved[Len(stack)], z, rekeyed')
      BY <1>2, <1>3, <1>4, <2>1, <2>4, DifferModify
    <2>6. m = u /\ z = Current'
      BY <1>7, <2>2
    <2>7. QED BY <2>3, <2>5, <2>6
  <1> HIDE DEF u
  <1>10. QED BY <1>1, <1>3, <1>4, <1>6, <1>7, <1>8, <1>9, TopChanges

LEMMA Remove ==
  ASSUME IndInv, NEW i \in Ids, remove(i)
  PROVE  IndInv'
  <1> DEFINE u == Removed(Top, i, objs[i])
             t == [objs EXCEPT ![i] = None]
  <1>1. /\ ~ threw /\ TypeOK /\ Sessions
        /\ objs[i] # None /\ objs' = t
        /\ stack' = OnTop(u)
        /\ UNCHANGED <<next_id, revision, unwinding, threw, saved, rekeyed>>
    BY DEF remove, Running, IndInv, on_remove, Removed
  <1>2. objs \in Objects /\ Good(Current) /\ rekeyed \in BOOLEAN
    BY <1>1 DEF TypeOK, Sessions
  <1>3. t \in Objects /\ \A j \in Ids : t[j] = IF j = i THEN None ELSE objs[j]
    BY <1>2 DEF Objects
  <1>4. /\ Current' = [objs |-> t, next_id |-> next_id]
        /\ Current' \in Tables
    BY <1>1, <1>3 DEF Current, Tables, TypeOK
  <1>5. Good(Current)'
    <2>1. \A j \in Ids : objs[j] # None => Free(objs, j, objs[j])
      BY <1>2 DEF Good, Current
    <2>2. \A j \in Ids : j >= next_id => objs[j] = None
      BY <1>2 DEF Good, Current
    <2> HIDE DEF t
    <2>3. QED BY <1>3, <1>4, <2>1, <2>2 DEF Good, Free
  <1>6. ASSUME stack # <<>>
        PROVE  /\ u \in UndoState /\ u.revision = Top.revision
               /\ Differ(u, saved[Len(stack)], Current', rekeyed')
    <2>1. /\ Top \in UndoState /\ saved[Len(stack)] \in Tables
          /\ Differ(Top, saved[Len(stack)], Current, rekeyed)
          /\ Current \in Tables
      BY <1>1, <1>6, TopFacts, CurrentType
    <2>2. Current.next_id = next_id /\ Current.objs = objs
      BY DEF Current
    <2>3. u.revision = Top.revision
      <3>1. CASE i \in Top.new_ids
        BY <2>1, <3>1 DEF UndoState, Removed
      <3>2. CASE i \notin Top.new_ids /\ Top.old_values[i] # None
        BY <2>1, <3>2 DEF UndoState, Removed
      <3>3. CASE i \notin Top.new_ids /\ Top.old_values[i] = None
        BY <2>1, <3>3 DEF UndoState, Removed
      <3>4. QED BY <3>1, <3>2, <3>3
    <2>4. u \in UndoState /\ Differ(u, saved[Len(stack)], Current', rekeyed)
      BY <1>1, <1>2, <1>4, <2>1, <2>2, DifferRemove
    <2>5. QED BY <1>1, <2>3, <2>4
  <1> HIDE DEF u
  <1>7. QED BY <1>1, <1>2, <1>4, <1>5, <1>6, TopChanges

LEMMA StartSession ==
  ASSUME IndInv, start_undo_session
  PROVE  IndInv'
  <1> DEFINE u == [old_values |-> Nothing, removed_values |-> Nothing,
                   new_ids |-> {}, old_next_id |-> next_id,
                   revision |-> revision + 1]
             n == Len(stack)
  <1>1. /\ ~ threw /\ TypeOK /\ Sessions /\ RevisionsConsecutive
        /\ revision' = revision + 1
        /\ stack' = Append(stack, u)
        /\ saved' = Append(saved, Current)
        /\ UNCHANGED <<objs, next_id, unwinding, threw, rekeyed>>
    BY DEF start_undo_session, Running, IndInv, Current
  <1>2. /\ stack \in Seq(UndoState) /\ saved \in Seq(Tables)
        /\ n \in Nat /\ Len(saved) = n
        /\ revision \in Int /\ rekeyed \in BOOLEAN
        /\ Current \in Tables /\ Current' = Current
        /\ Good(Current)
    BY <1>1, CurrentType DEF TypeOK, Tables, Sessions, Current
  <1>3. u \in UndoState /\ Differ(u, Current, Current, rekeyed)
    <2>1. Current.next_id = next_id
      BY DEF Current
    <2>2. revision + 1 \in Int
      BY <1>2
    <2>3. QED BY <1>2, <2>1, <2>2, DifferStart
  <1>4. u.revision = revision + 1
    OBVIOUS
  <1> HIDE DEF u
  <1>5. /\ stack' \in Seq(UndoState) /\ Len(stack') = n + 1
        /\ stack'[n + 1] = u
        /\ \A k \in 1 .. n : stack'[k] = stack[k]
    BY <1>1, <1>2, <1>3
  <1>6. /\ saved' \in Seq(Tables) /\ Len(saved') = n + 1
        /\ saved'[n + 1] = Current
        /\ \A k \in 1 .. n : saved'[k] = saved[k]
    BY <1>1, <1>2
  <1>7. TypeOK'
    BY <1>1, <1>2, <1>5, <1>6 DEF TypeOK, Tables
  <1>8. RevisionsConsecutive'
    <2>1. ASSUME NEW k \in 1 .. n + 1
          PROVE  stack'[k].revision = revision' - (n + 1) + k
      <3>1. CASE k = n + 1
        BY <1>1, <1>2, <1>4, <1>5, <3>1
      <3>2. CASE k \in 1 .. n
        BY <1>1, <1>2, <1>5, <3>2 DEF RevisionsConsecutive
      <3>3. QED BY <1>2, <3>1, <3>2
    <2>2. \A k \in 1 .. Len(stack') :
             stack'[k].revision = revision' - Len(stack') + k
      BY <1>5, <2>1
    <2>3. QED BY <2>2 DEF RevisionsConsecutive
  <1>9. ASSUME NEW k \in 1 .. n + 1
        PROVE  /\ Differ(stack'[k], saved'[k], EndOf(k)', rekeyed')
               /\ Good(saved'[k])
    <2>1. CASE k = n + 1
      <3>1. EndOf(k)' = Current
        BY <1>2, <1>6, <2>1 DEF EndOf
      <3>2. QED BY <1>1, <1>2, <1>3, <1>5, <1>6, <2>1, <3>1
    <2>2. CASE k \in 1 .. n
      <3>1. EndOf(k)' = EndOf(k)
        BY <1>2, <1>6, <2>2 DEF EndOf
      <3>2. QED BY <1>1, <1>5, <1>6, <2>2, <3>1 DEF Sessions
    <2>3. QED BY <1>2, <2>1, <2>2
  <1>10. Sessions'
    BY <1>2, <1>5, <1>6, <1>9 DEF Sessions
  <1>11. QED BY <1>1, <1>7, <1>8, <1>10 DEF IndInv, ThrowsOnlyIfRekeyed

(* The first m elements of a sequence, and what follows them. *)
LEMMA Prefix ==
  ASSUME NEW T, NEW s \in Seq(T), NEW m \in 0 .. Len(s)
  PROVE  /\ SubSeq(s, 1, m) \in Seq(T)
         /\ Len(SubSeq(s, 1, m)) = m
         /\ \A k \in 1 .. m : SubSeq(s, 1, m)[k] = s[k]
  <1>1. \A k \in 1 .. m : s[k] \in T
    BY ElementOfSeq
  <1>2. m \in Int /\ m - 1 + 1 = m
    OBVIOUS
  <1>3. QED BY <1>1, <1>2, SubSeqProperties

LEMMA Rest ==
  ASSUME NEW T, NEW s \in Seq(T), NEW m \in 0 .. Len(s)
  PROVE  /\ SubSeq(s, m + 1, Len(s)) \in Seq(T)
         /\ Len(SubSeq(s, m + 1, Len(s))) = Len(s) - m
         /\ \A k \in 1 .. Len(s) - m : SubSeq(s, m + 1, Len(s))[k] = s[m + k]
  <1>1. Len(s) \in Nat /\ m \in Nat /\ m <= Len(s)
    BY LenProperties
  <1>2. \A k \in m + 1 .. Len(s) : s[k] \in T
    BY <1>1, ElementOfSeq
  <1>3. m + 1 \in Int /\ Len(s) \in Int
    BY <1>1
  <1>4. /\ SubSeq(s, m + 1, Len(s)) \in Seq(T)
        /\ Len(SubSeq(s, m + 1, Len(s))) =
              IF m + 1 <= Len(s) THEN Len(s) - (m + 1) + 1 ELSE 0
        /\ \A k \in 1 .. Len(s) - (m + 1) + 1 :
              SubSeq(s, m + 1, Len(s))[k] = s[(m + 1) + k - 1]
    BY <1>2, <1>3, SubSeqProperties
  <1>5. Len(s) - (m + 1) + 1 = Len(s) - m
    BY <1>1
  <1>6. \A k \in 1 .. Len(s) - m : (m + 1) + k - 1 = m + k
    BY <1>1
  <1>7. Len(SubSeq(s, m + 1, Len(s))) = Len(s) - m
    BY <1>1, <1>4
  <1>8. QED BY <1>4, <1>5, <1>6, <1>7

LEMMA Front ==
  ASSUME NEW T, NEW s \in Seq(T), s # <<>>
  PROVE  LET f == SubSeq(s, 1, Len(s) - 1)
         IN  /\ f \in Seq(T) /\ Len(f) = Len(s) - 1
             /\ \A k \in 1 .. Len(s) - 1 : f[k] = s[k]
  <1>1. Len(s) - 1 \in 0 .. Len(s)
    OBVIOUS
  <1>2. QED BY <1>1, Prefix

LEMMA UndoSession ==
  ASSUME IndInv, undo
  PROVE  IndInv'
  <1> DEFINE n == Len(stack)
  <1>1. /\ ~ threw /\ TypeOK /\ Sessions /\ RevisionsConsecutive
        /\ stack # <<>>
        /\ IF Clashes(objs, Top) = {} THEN UndoOk ELSE UndoThrows
        /\ unwinding' = (unwinding /\ Len(stack) > 1)
        /\ rekeyed' = rekeyed
    BY DEF undo, IndInv, enabled
  <1>2. /\ n \in 1 .. n /\ n \in Nat /\ Top \in UndoState /\ saved # <<>>
        /\ saved[n] \in Tables
        /\ Differ(Top, saved[n], Current, rekeyed) /\ Good(saved[n])
        /\ Current \in Tables /\ Good(Current)
        /\ stack \in Seq(UndoState) /\ saved \in Seq(Tables) /\ Len(saved) = n
        /\ revision \in Int /\ rekeyed \in BOOLEAN
    BY <1>1, TopFacts, CurrentType DEF TypeOK, Tables, Sessions
  <1>3. unwinding' \in BOOLEAN
    BY <1>1 DEF TypeOK
  <1>4. CASE UndoOk
    <2>1. Current' = saved[n]
      <3>1. objs' = saved[n].objs
        BY <1>2, <1>4, DifferUndo DEF UndoOk, Current
      <3>2. next_id' = saved[n].next_id
        BY <1>2, <1>4 DEF UndoOk, Differ
      <3>3. saved[n] = [objs |-> saved[n].objs, next_id |-> saved[n].next_id]
        BY <1>2 DEF Tables
      <3>4. QED BY <3>1, <3>2, <3>3 DEF Current
    <2>2. /\ stack' \in Seq(UndoState) /\ Len(stack') = n - 1
          /\ \A k \in 1 .. n - 1 : stack'[k] = stack[k]
      BY <1>1, <1>2, <1>4, Front DEF UndoOk, Popped
    <2>3. /\ saved' \in Seq(Tables) /\ Len(saved') = n - 1
          /\ \A k \in 1 .. n - 1 : saved'[k] = saved[k]
      BY <1>2, <1>4, Front DEF UndoOk
    <2>4. threw' = threw /\ revision' = revision - 1
      BY <1>4 DEF UndoOk
    <2>5. TypeOK'
      <3>1. objs' \in Objects /\ next_id' \in 0 .. MaxId + 1
        BY <1>2, <2>1 DEF Current, Tables
      <3>2. QED BY <1>1, <1>2, <1>3, <2>2, <2>3, <2>4, <3>1 DEF TypeOK, Tables
    <2>6. RevisionsConsecutive'
      <3>1. ASSUME NEW k \in 1 .. n - 1
            PROVE  stack'[k].revision = revision - 1 - (n - 1) + k
        <4>1. k \in 1 .. n
          BY <1>2
        <4>2. stack[k].revision = revision - n + k
          BY <1>1, <4>1 DEF RevisionsConsecutive
        <4>3. stack'[k] = stack[k]
          BY <2>2
        <4>4. n \in Int /\ revision \in Int /\ k \in Int
          BY <1>2
        <4> HIDE DEF n
        <4>5. revision - n + k = revision - 1 - (n - 1) + k
          BY <4>4
        <4>6. QED BY <4>2, <4>3, <4>5
      <3>2. \A k \in 1 .. Len(stack') :
               stack'[k].revision = revision' - Len(stack') + k
        BY <2>2, <2>4, <3>1
      <3>3. QED BY <3>2 DEF RevisionsConsecutive
    <2>7. ASSUME NEW k \in 1 .. n - 1
          PROVE  /\ Differ(stack'[k], saved'[k], EndOf(k)', rekeyed')
                 /\ Good(saved'[k])
      <3>1. EndOf(k) = saved[k + 1]
        BY <1>2 DEF EndOf
      <3>2. EndOf(k)' = saved[k + 1]
        BY <1>2, <2>1, <2>3 DEF EndOf
      <3>3. k \in 1 .. n
        BY <1>2
      <3>4. QED BY <1>1, <2>2, <2>3, <3>1, <3>2, <3>3 DEF Sessions
    <2>8. Sessions'
      BY <1>2, <2>1, <2>2, <2>3, <2>7 DEF Sessions
    <2>9. QED BY <1>1, <2>4, <2>5, <2>6, <2>8 DEF IndInv, ThrowsOnlyIfRekeyed
  <1>5. CASE UndoThrows /\ Clashes(objs, Top) # {}
    <2>1. rekeyed
      <3>1. SUFFICES ASSUME rekeyed = FALSE PROVE FALSE
        BY <1>2
      <3>2. Differ(Top, saved[n], Current, FALSE)
        BY <1>2, <3>1
      <3>3. Clashes(Current.objs, Top) = {}
        BY <1>2, <3>2, DifferNoClash
      <3>4. QED BY <1>5, <3>3 DEF Current
    <2>2. PICK first \in Ids : objs' = PartlyRestored(objs, Top, first)
      BY <1>5 DEF UndoThrows, Clashes
    <2>3. objs' \in Objects
      <3>1. objs \in Objects /\ Top.old_values \in Objects
        BY <1>1, <1>2 DEF TypeOK, UndoState
      <3>2. QED BY <2>2, <3>1 DEF PartlyRestored, Objects
    <2>4. threw' = TRUE /\ UNCHANGED <<next_id, stack, revision, saved>>
      BY <1>5 DEF UndoThrows
    <2>5. TypeOK'
      BY <1>1, <1>3, <2>3, <2>4 DEF TypeOK
    <2>6. QED BY <1>1, <2>1, <2>4, <2>5
              DEF IndInv, RevisionsConsecutive, ThrowsOnlyIfRekeyed
  <1>6. QED BY <1>1, <1>4, <1>5

LEMMA Squash ==
  ASSUME IndInv, squash
  PROVE  IndInv'
  <1> DEFINE n == Len(stack)
  <1>1. /\ ~ threw /\ TypeOK /\ Sessions /\ RevisionsConsecutive
        /\ stack # <<>>
        /\ IF n = 1 THEN stack' = <<>> /\ UNCHANGED revision
           ELSE /\ stack' = [Popped EXCEPT ![n - 1] = Merge(@, Top)]
                /\ revision' = revision - 1
        /\ saved' = SubSeq(saved, 1, Len(saved) - 1)
        /\ UNCHANGED <<objs, next_id, unwinding, threw, rekeyed>>
    BY DEF squash, Running, IndInv, enabled
  <1>2. /\ n \in 1 .. n /\ n \in Nat /\ Top \in UndoState /\ saved # <<>>
        /\ saved[n] \in Tables
        /\ Differ(Top, saved[n], Current, rekeyed) /\ Good(saved[n])
        /\ Current \in Tables /\ Good(Current) /\ Current' = Current
        /\ stack \in Seq(UndoState) /\ saved \in Seq(Tables) /\ Len(saved) = n
        /\ revision \in Int /\ rekeyed \in BOOLEAN
    BY <1>1, TopFacts, CurrentType DEF TypeOK, Tables, Sessions, Current
  <1>3. /\ saved' \in Seq(Tables) /\ Len(saved') = n - 1
        /\ \A k \in 1 .. n - 1 : saved'[k] = saved[k]
    BY <1>1, <1>2, Front
  <1>4. CASE n = 1
    <2>1. stack' = <<>> /\ revision' = revision /\ Len(stack') = 0
      BY <1>1, <1>4
    <2>2. TypeOK'
      BY <1>1, <1>3, <2>1 DEF TypeOK, Tables
    <2>3. Sessions'
      BY <1>2, <1>3, <1>4, <2>1 DEF Sessions
    <2>4. QED BY <1>1, <2>1, <2>2, <2>3
              DEF IndInv, RevisionsConsecutive, ThrowsOnlyIfRekeyed
  <1>5. CASE n # 1
    <2> DEFINE m == n - 1
               a == stack[m]
               w == Merge(a, Top)
    <2>1. m \in 1 .. n /\ m \in Nat /\ m \in 1 .. m /\ m + 1 = n /\ m # n
      BY <1>2, <1>5
    <2>2. /\ Popped \in Seq(UndoState) /\ Len(Popped) = m
          /\ \A k \in 1 .. m : Popped[k] = stack[k]
      BY <1>1, <1>2, Front DEF Popped
    <2>3. /\ a \in UndoState /\ saved[m] \in Tables
          /\ Differ(a, saved[m], saved[n], rekeyed) /\ Good(saved[m])
      <3>1. EndOf(m) = saved[n]
        BY <1>2, <2>1 DEF EndOf
      <3>2. a \in UndoState /\ saved[m] \in Tables
        BY <1>2, <2>1
      <3>3. QED BY <1>1, <2>1, <3>1, <3>2 DEF Sessions
    <2>4. /\ w \in UndoState /\ w.revision = a.revision
          /\ Differ(w, saved[m], Current, rekeyed)
      BY <1>2, <2>3, DifferMerge
    <2>5. stack' = [Popped EXCEPT ![m] = w] /\ revision' = revision - 1
      BY <1>1, <1>5, <2>1, <2>2
    <2> HIDE DEF w
    <2>6. /\ stack' \in Seq(UndoState) /\ Len(stack') = m
          /\ stack'[m] = w
          /\ \A k \in 1 .. m : k # m => stack'[k] = stack[k]
      <3>1. w \in UndoState
        BY <2>4
      <3> HIDE DEF m, a
      <3>2. QED BY <2>1, <2>2, <2>5, <3>1
    <2>7. TypeOK'
      BY <1>1, <1>2, <1>3, <2>5, <2>6 DEF TypeOK, Tables
    <2>8. RevisionsConsecutive'
      <3>1. ASSUME NEW k \in 1 .. m
            PROVE  stack'[k].revision = revision' - m + k
        <4>1. stack'[k].revision = stack[k].revision
          BY <2>4, <2>6
        <4>2. k \in 1 .. n
          BY <1>2, <2>1
        <4>3. stack[k].revision = revision - n + k
          BY <1>1, <4>2 DEF RevisionsConsecutive
        <4>4. revision - n + k = revision' - m + k
          <5>1. n \in Int /\ revision \in Int /\ k \in Int
            BY <1>2
          <5>2. revision' = revision - 1 /\ m = n - 1
            BY <2>5
          <5> HIDE DEF n, m
          <5>3. QED BY <5>1, <5>2
        <4>5. QED BY <4>1, <4>3, <4>4
      <3> HIDE DEF m
      <3>2. \A k \in 1 .. Len(stack') :
               stack'[k].revision = revision' - Len(stack') + k
        BY <2>6, <3>1
      <3>3. QED BY <3>2 DEF RevisionsConsecutive
    <2>9. ASSUME NEW k \in 1 .. m
          PROVE  /\ Differ(stack'[k], saved'[k], EndOf(k)', rekeyed')
                 /\ Good(saved'[k])
      <3>1. k \in 1 .. n /\ saved'[k] = saved[k]
        BY <1>2, <1>3
      <3>2. CASE k = m
        <4>1. EndOf(k)' = Current
          BY <1>2, <1>3, <3>2 DEF EndOf
        <4>2. QED BY <1>1, <2>3, <2>4, <2>6, <3>1, <3>2, <4>1
      <3>3. CASE k # m
        <4>1. EndOf(k)' = saved[k + 1] /\ EndOf(k) = saved[k + 1]
          BY <1>2, <1>3, <3>3 DEF EndOf
        <4>2. QED BY <1>1, <2>6, <3>1, <3>3, <4>1 DEF Sessions
      <3>4. QED BY <3>2, <3>3
    <2>10. Sessions'
      BY <1>2, <1>3, <2>6, <2>9 DEF Sessions
    <2>11. QED BY <1>1, <2>7, <2>8, <2>10 DEF IndInv, ThrowsOnlyIfRekeyed
  <1>6. QED BY <1>4, <1>5

LEMMA CommitSessions ==
  ASSUME IndInv, NEW r, commit(r)
  PROVE  IndInv'
  <1> DEFINE n == Len(stack)
  <1>1. /\ ~ threw /\ TypeOK /\ Sessions /\ RevisionsConsecutive
        /\ UNCHANGED <<objs, next_id, revision, unwinding, threw, rekeyed>>
    BY DEF commit, Running, IndInv
  <1>2. PICK d \in 1 .. n : /\ stack' = SubSeq(stack, d + 1, n)
                            /\ saved' = SubSeq(saved, d + 1, n)
    BY DEF commit
  <1>3. /\ stack \in Seq(UndoState) /\ saved \in Seq(Tables)
        /\ n \in Nat /\ Len(saved) = n /\ d \in 0 .. n /\ d \in Nat
        /\ Current' = Current /\ Good(Current) /\ revision \in Int
    BY <1>1 DEF TypeOK, Tables, Sessions, Current
  <1>4. /\ stack' \in Seq(UndoState) /\ Len(stack') = n - d
        /\ \A k \in 1 .. n - d : stack'[k] = stack[d + k]
    BY <1>2, <1>3, Rest
  <1>5. /\ saved' \in Seq(Tables) /\ Len(saved') = n - d
        /\ \A k \in 1 .. n - d : saved'[k] = saved[d + k]
    BY <1>2, <1>3, Rest
  <1>6. TypeOK'
    BY <1>1, <1>4, <1>5 DEF TypeOK, Tables
  <1>7. RevisionsConsecutive'
    <2>1. ASSUME NEW k \in 1 .. n - d
          PROVE  stack'[k].revision = revision' - (n - d) + k
      <3>1. d + k \in 1 .. n
        BY <1>3
      <3>2. stack[d + k].revision = revision - n + (d + k)
        BY <1>1, <3>1 DEF RevisionsConsecutive
      <3>3. stack'[k] = stack[d + k] /\ revision' = revision
        BY <1>1, <1>4
      <3>4. n \in Int /\ revision \in Int /\ k \in Int /\ d \in Int
        BY <1>3
      <3> HIDE DEF n
      <3>5. revision - n + (d + k) = revision - (n - d) + k
        BY <3>4
      <3>6. QED BY <3>2, <3>3, <3>5
    <2>2. \A k \in 1 .. Len(stack') :
             stack'[k].revision = revision' - Len(stack') + k
      BY <1>4, <2>1
    <2>3. QED BY <2>2 DEF RevisionsConsecutive
  <1>8. ASSUME NEW k \in 1 .. n - d
        PROVE  /\ Differ(stack'[k], saved'[k], EndOf(k)', rekeyed')
               /\ Good(saved'[k])
    <2>1. d + k \in 1 .. n
      BY <1>3
    <2>2. EndOf(k)' = EndOf(d + k)
      <3>1. CASE k = n - d
        BY <1>3, <1>5, <3>1 DEF EndOf
      <3>2. CASE k # n - d
        <4>1. k + 1 \in 1 .. n - d /\ d + k # n /\ d + (k + 1) = d + k + 1
          BY <1>3, <3>2
        <4>2. saved'[k + 1] = saved[d + (k + 1)]
          BY <1>5, <4>1
        <4>3. QED BY <1>3, <1>5, <3>2, <4>1, <4>2 DEF EndOf
      <3>3. QED BY <3>1, <3>2
    <2>3. QED BY <1>1, <1>4, <1>5, <2>1, <2>2 DEF Sessions
  <1>9. Sessions'
    BY <1>3, <1>4, <1>5, <1>8 DEF Sessions
  <1>10. QED BY <1>1, <1>6, <1>7, <1>9 DEF IndInv, ThrowsOnlyIfRekeyed

LEMMA UndoAll ==
  ASSUME IndInv, undo_all
  PROVE  IndInv'
  <1>1. UNCHANGED <<objs, next_id, stack, revision, threw, saved, rekeyed>>
    BY DEF undo_all
  <1>2. TypeOK'
    BY <1>1 DEF undo_all, IndInv, TypeOK
  <1>3. Sessions => Sessions'
    BY <1>1 DEF Sessions, EndOf, Current
  <1>4. QED BY <1>1, <1>2, <1>3 DEF IndInv, RevisionsConsecutive,
                                    ThrowsOnlyIfRekeyed

LEMMA SetRevision ==
  ASSUME IndInv, NEW r \in 0 .. MaxRevision, set_revision(r)
  PROVE  IndInv'
  <1>1. /\ UNCHANGED <<objs, next_id, stack, threw, saved, rekeyed, unwinding>>
        /\ stack = <<>> /\ revision' \in Int
    BY SessionBoundsAssumption DEF set_revision, enabled
  <1>2. TypeOK'
    BY <1>1 DEF IndInv, TypeOK
  <1>3. Sessions => Sessions'
    BY <1>1 DEF Sessions, EndOf, Current
  <1>4. RevisionsConsecutive'
    BY <1>1 DEF RevisionsConsecutive
  <1>5. QED BY <1>1, <1>2, <1>3, <1>4 DEF IndInv, ThrowsOnlyIfRekeyed

LEMMA Unchanged ==
  ASSUME IndInv, UNCHANGED vars
  PROVE  IndInv'
  <1>1. UNCHANGED <<objs, next_id, stack, revision, threw, saved, rekeyed,
                    unwinding>>
    BY DEF vars
  <1>2. TypeOK'
    BY <1>1 DEF IndInv, TypeOK
  <1>3. Sessions => Sessions'
    BY <1>1 DEF Sessions, EndOf, Current
  <1>4. QED BY <1>1, <1>2, <1>3 DEF IndInv, RevisionsConsecutive,
                                    ThrowsOnlyIfRekeyed

LEMMA Initially ==
  ASSUME Init
  PROVE  IndInv
  <1>1. Nothing \in Objects /\ \A i \in Ids : Nothing[i] = None
    BY DEF Nothing, Objects
  <1>2. TypeOK
    <2>1. 0 \in 0 .. MaxId + 1
      BY MaxIdAssumption
    <2>2. /\ unwinding \in BOOLEAN /\ threw \in BOOLEAN /\ rekeyed \in BOOLEAN
      BY DEF Init
    <2>3. /\ stack \in Seq(UndoState)
          /\ saved \in Seq([objs : Objects, next_id : 0 .. MaxId + 1])
          /\ revision \in Int
      BY DEF Init
    <2>4. QED BY <1>1, <2>1, <2>2, <2>3 DEF Init, TypeOK
  <1>3. Good(Current)
    BY <1>1 DEF Init, Good, Current
  <1>4. Sessions /\ RevisionsConsecutive
    BY <1>3 DEF Init, Sessions, RevisionsConsecutive
  <1>5. QED BY <1>2, <1>4 DEF Init, IndInv, ThrowsOnlyIfRekeyed

LEMMA Steps ==
  ASSUME IndInv, [Next]_vars
  PROVE  IndInv'
  <1>1. CASE \E v \in Values : emplace(v)
    BY <1>1, Emplace
  <1>2. CASE \E i \in Ids, v \in Values : modify(i, v)
    BY <1>2, Modify
  <1>3. CASE \E i \in Ids : remove(i)
    BY <1>3, Remove
  <1>4. CASE start_undo_session
    BY <1>4, StartSession
  <1>5. CASE undo
    BY <1>5, UndoSession
  <1>6. CASE squash
    BY <1>6, Squash
  <1>7. CASE \E r \in 0 .. MaxRevision : commit(r)
    BY <1>7, CommitSessions
  <1>8. CASE undo_all
    BY <1>8, UndoAll
  <1>9. CASE \E r \in 0 .. MaxRevision : set_revision(r)
    BY <1>9, SetRevision
  <1>10. CASE UNCHANGED vars
    BY <1>10, Unchanged
  <1>11. QED BY <1>1, <1>2, <1>3, <1>4, <1>5, <1>6, <1>7, <1>8, <1>9, <1>10
            DEF Next

-----------------------------------------------------------------------------
(* Theorems.                                                               *)

(* The inductive invariant holds in every reachable state. *)
THEOREM Invariance == Spec => []IndInv
  <1>1. Init => IndInv
    BY Initially
  <1>2. IndInv /\ [Next]_vars => IndInv'
    BY Steps
  <1>3. QED BY <1>1, <1>2, PTL DEF Spec

(* The variables of generic_index keep their types. *)
THEOREM TypeCorrect == Spec => []TypeOK
  <1>1. IndInv => TypeOK
    BY DEF IndInv
  <1>2. QED BY <1>1, Invariance, PTL

(* At any depth of nesting every undo state is the exact difference of the *)
(* tables at the two ends of its session: squash() and its 4x4 case table  *)
(* lose no change and invent none.                                         *)
THEOREM DifferencesAlwaysExact == Spec => []DifferencesExact
  <1>1. IndInv => DifferencesExact
    <2> SUFFICES ASSUME IndInv, ~ threw
                 PROVE  /\ Len(saved) = Len(stack)
                        /\ \A k \in 1 .. Len(stack) :
                              /\ stack[k].old_next_id = saved[k].next_id
                              /\ \A i \in Ids :
                                    Exact(stack[k], i, saved[k].objs[i],
                                          After(k)[i])
      BY DEF DifferencesExact
    <2>1. Sessions
      BY DEF IndInv
    <2>2. ASSUME NEW k \in 1 .. Len(stack)
          PROVE  EndOf(k).objs = After(k)
      BY DEF EndOf, After, Current
    <2>3. QED BY <2>1, <2>2 DEF Sessions, Differ
  <1>2. QED BY <1>1, Invariance, PTL

(* The revisions on the stack are consecutive and end in the index's own,  *)
(* so that commit(r) drops exactly the sessions up to r.                   *)
THEOREM RevisionsAlwaysConsecutive == Spec => []RevisionsConsecutive
  <1>1. IndInv => RevisionsConsecutive
    BY DEF IndInv
  <1>2. QED BY <1>1, Invariance, PTL

(* The id counter that undo() rewinds never runs into a live object, and   *)
(* no two live objects share a unique key.                                 *)
THEOREM IdsAndKeysAlwaysUnique == Spec => []IdsAndKeysUnique
  <1>1. IndInv => IdsAndKeysUnique
    BY DEF IndInv, Sessions, Good, Current, IdsAndKeysUnique
  <1>2. QED BY <1>1, Invariance, PTL

(* undo() throws only after a caller has changed a unique key. *)
THEOREM UndoThrowsOnlyIfRekeyed == Spec => []ThrowsOnlyIfRekeyed
  <1>1. IndInv => ThrowsOnlyIfRekeyed
    BY DEF IndInv
  <1>2. QED BY <1>1, Invariance, PTL

-----------------------------------------------------------------------------
(* The refinement of SnapshotStack.                                        *)

Same == UNCHANGED <<Current, saved, revision, threw>>

(* Every operation is one of SnapshotStack's, or invisible there. *)
LEMMA SnapshotSteps ==
  ASSUME IndInv, IndInv', [Next]_vars
  PROVE  Same \/ Snapshots!Next
  <1>1. Current \in Tables /\ Current' \in Tables
    BY DEF IndInv, TypeOK, Current, Tables
  <1>2. CASE /\ UNCHANGED <<saved, revision, threw>> /\ ~ threw
    BY <1>1, <1>2 DEF Snapshots!Next, Snapshots!Change, Current, Tables
  <1>3. CASE start_undo_session
    BY <1>3 DEF start_undo_session, Running, Snapshots!Next, Snapshots!Start
  <1>4. CASE undo
    <2>1. /\ ~ threw /\ TypeOK /\ Sessions /\ stack # <<>>
          /\ IF Clashes(objs, Top) = {} THEN UndoOk ELSE UndoThrows
      BY <1>4 DEF undo, IndInv, enabled
    <2>2. /\ Top \in UndoState /\ saved # <<>> /\ Len(saved) = Len(stack)
          /\ saved[Len(stack)] \in Tables /\ rekeyed \in BOOLEAN
          /\ Differ(Top, saved[Len(stack)], Current, rekeyed)
      BY <2>1, TopFacts DEF Sessions, TypeOK
    <2>3. CASE UndoOk
      <3>1. objs' = saved[Len(saved)].objs
        BY <1>1, <2>2, <2>3, DifferUndo DEF UndoOk, Current
      <3>2. next_id' = saved[Len(saved)].next_id
        BY <2>2, <2>3 DEF UndoOk, Differ
      <3>3. saved[Len(saved)] = [objs |-> saved[Len(saved)].objs,
                                 next_id |-> saved[Len(saved)].next_id]
        BY <2>2 DEF Tables
      <3>4. [objs |-> objs, next_id |-> next_id]' = saved[Len(saved)]
        BY <3>1, <3>2, <3>3
      <3>5. Snapshots!Undo
        BY <2>2, <2>3, <3>4 DEF UndoOk, Snapshots!Undo
      <3>6. QED BY <2>1, <3>5 DEF Snapshots!Next
    <2>4. CASE UndoThrows
      <3>1. Snapshots!UndoFails
        BY <1>1, <2>2, <2>4 DEF UndoThrows, Snapshots!UndoFails, Current, Tables
      <3>2. QED BY <2>1, <3>1 DEF Snapshots!Next
    <2>5. QED BY <2>1, <2>3, <2>4
  <1>5. CASE squash
    <2>1. ~ threw /\ stack # <<>> /\ Len(saved) = Len(stack) /\ saved # <<>>
      BY <1>5, TopFacts DEF squash, Running, enabled, IndInv, Sessions
    <2>2. Snapshots!Squash
      BY <1>5, <2>1 DEF squash, Snapshots!Squash
    <2>3. QED BY <2>1, <2>2 DEF Snapshots!Next
  <1>6. CASE \E r \in 0 .. MaxRevision : commit(r)
    <2>1. ~ threw /\ Len(saved) = Len(stack)
      BY <1>6 DEF commit, Running, IndInv, Sessions
    <2>2. Snapshots!Commit
      BY <1>6, <2>1 DEF commit, Snapshots!Commit
    <2>3. QED BY <2>1, <2>2 DEF Snapshots!Next
  <1>7. CASE \E r \in 0 .. MaxRevision : set_revision(r)
    <2>1. ~ threw /\ Len(saved) = Len(stack) /\ stack = <<>>
      BY <1>7 DEF set_revision, Running, IndInv, Sessions, enabled
    <2>2. saved = <<>>
      BY <2>1 DEF IndInv, TypeOK
    <2>3. Snapshots!SetRevision
      BY <1>7, <2>2, SessionBoundsAssumption
         DEF set_revision, Snapshots!SetRevision
    <2>4. QED BY <2>1, <2>3 DEF Snapshots!Next
  <1>8. CASE undo_all
    BY <1>8 DEF undo_all, Same, Current
  <1>9. CASE UNCHANGED vars
    BY <1>9 DEF vars, Same, Current
  <1>10. CASE \E v \in Values : emplace(v)
    BY <1>2, <1>10 DEF emplace, Running
  <1>11. CASE \E i \in Ids, v \in Values : modify(i, v)
    BY <1>2, <1>11 DEF modify, Running
  <1>12. CASE \E i \in Ids : remove(i)
    BY <1>2, <1>12 DEF remove, Running
  <1>13. QED BY <1>3, <1>4, <1>5, <1>6, <1>7, <1>8, <1>9, <1>10, <1>11, <1>12
            DEF Next

(* The differences of generic_index implement full copies of the table:    *)
(* whatever is created, changed, removed, squashed or committed, undo()    *)
(* brings back the table and the id counter of the start of the session,   *)
(* or throws.                                                              *)
THEOREM Implements == Spec => ImplementsSnapshots
  <1>1. Init => Snapshots!Init
    <2>1. Nothing \in Objects /\ 0 \in 0 .. MaxId + 1
      BY MaxIdAssumption DEF Nothing, Objects
    <2>2. QED BY <2>1 DEF Init, Snapshots!Init
  <1>2. IndInv /\ IndInv' /\ [Next]_vars => [Snapshots!Next]_(Snapshots!vars)
    BY SnapshotSteps DEF Same, Current, Snapshots!vars
  <1>3. QED BY <1>1, <1>2, Invariance, PTL
            DEF Spec, ImplementsSnapshots, Snapshots!Spec
=============================================================================
