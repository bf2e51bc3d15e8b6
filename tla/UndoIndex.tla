----------------------------- MODULE UndoIndex -----------------------------
(***************************************************************************)
(* chainbase::generic_index: one table of objects with integer ids and a   *)
(* unique secondary key, and the stack of undo_state differences from      *)
(* which undo() rebuilds the table.  Every chain object (wallets,          *)
(* comments, dynamic global properties ...) lives in such an index, and a  *)
(* fork switch is nothing but undo() followed by new sessions.             *)
(*                                                                         *)
(* An object is abstracted to a value v; Key[v] is what the unique         *)
(* secondary index reads from it.  Tables are total functions over the ids *)
(* with None where no object has the id.  saved and rekeyed are history    *)
(* variables, read by no action: the table at the start of every open      *)
(* session, and whether a caller ever changed the key of an object.        *)
(***************************************************************************)
EXTENDS Integers, Sequences

CONSTANTS Values,          \* object contents
          Key,             \* Key[v]: the unique secondary key in content v
          None,            \* no object
          MaxId,           \* bound: ids 0 .. MaxId
          MaxDepth,        \* bound: open sessions
          MaxRevision      \* bound: arguments of commit and set_revision

ASSUME NoneAssumption == None \notin Values
ASSUME MaxIdAssumption == MaxId \in Nat
ASSUME SessionBoundsAssumption == MaxDepth \in Nat /\ MaxRevision \in Nat

VARIABLES objs,        \* _indices
          next_id,     \* _next_id
          stack,       \* _stack
          revision,    \* _revision
          unwinding,   \* undo_all() is between two iterations of its loop
          threw,       \* undo() has thrown and left the table half restored
          saved,       \* history: the table at the start of each session
          rekeyed      \* history: has the key of an object been changed?

vars == <<objs, next_id, stack, revision, unwinding, threw, saved, rekeyed>>

Ids     == 0 .. MaxId
Objects == [Ids -> Values \cup {None}]
Nothing == [i \in Ids |-> None]

UndoState == [old_values     : Objects,
              removed_values : Objects,
              new_ids        : SUBSET Ids,
              old_next_id    : 0 .. MaxId + 1,
              revision       : Int]

enabled == stack # <<>>
Top     == stack[Len(stack)]
Popped  == SubSeq(stack, 1, Len(stack) - 1)

(* Content v may be stored under id i: no other object has its key. *)
Free(t, i, v) == \A j \in Ids \ {i} : t[j] # None => Key[t[j]] # Key[v]

-----------------------------------------------------------------------------
(* What the top undo_state records of a creation, modification, removal.   *)

OnTop(u) == IF enabled THEN [stack EXCEPT ![Len(stack)] = u] ELSE stack

on_create(i) == OnTop([Top EXCEPT !.new_ids = @ \cup {i}])

(* Seeded fault: a second change of an object overwrites the first record. *)
on_modify_latest(i) ==
    IF enabled /\ i \notin Top.new_ids
    THEN OnTop([Top EXCEPT !.old_values[i] = objs[i]])
    ELSE stack

on_modify(i) ==
    IF enabled /\ i \notin Top.new_ids /\ Top.old_values[i] = None
    THEN OnTop([Top EXCEPT !.old_values[i] = objs[i]])
    ELSE stack

(* Seeded fault: the old value of a removed object stays among the old     *)
(* values too.                                                             *)
on_remove_keeps_old(i) ==
    OnTop(CASE i \in Top.new_ids ->
                 [Top EXCEPT !.new_ids = @ \ {i}]
            [] i \notin Top.new_ids /\ Top.old_values[i] # None ->
                 [Top EXCEPT !.removed_values[i] = Top.old_values[i]]
            [] i \notin Top.new_ids /\ Top.old_values[i] = None ->
                 [Top EXCEPT !.removed_values[i] =
                      IF @ = None THEN objs[i] ELSE @])

on_remove(i) ==
    OnTop(CASE i \in Top.new_ids ->
                 [Top EXCEPT !.new_ids = @ \ {i}]
            [] i \notin Top.new_ids /\ Top.old_values[i] # None ->
                 [Top EXCEPT !.removed_values[i] = Top.old_values[i],
                             !.old_values[i] = None]
            [] i \notin Top.new_ids /\ Top.old_values[i] = None ->
                 [Top EXCEPT !.removed_values[i] =
                      IF @ = None THEN objs[i] ELSE @])

-----------------------------------------------------------------------------
(* The table before the changes that u records, computed from the table t  *)
(* after them.                                                             *)
Restored(t, u) ==
    [i \in Ids |-> CASE u.old_values[i] # None -> u.old_values[i]
                     [] u.old_values[i] = None /\ u.removed_values[i] # None
                          -> u.removed_values[i]
                     [] u.old_values[i] = None /\ u.removed_values[i] = None
                          -> IF i \in u.new_ids THEN None ELSE t[i]]

(* The table when the first loop of undo() is about to write back object   *)
(* i: old_values is ordered by id, so the smaller ids are back already.    *)
PartlyRestored(t, u, i) ==
    [j \in Ids |-> IF j < i /\ u.old_values[j] # None
                   THEN u.old_values[j] ELSE t[j]]

(* The ids at which the first loop meets the unique key of another object. *)
Clashes(t, u) ==
    {i \in Ids : /\ u.old_values[i] # None
                 /\ ~ Free(PartlyRestored(t, u, i), i, u.old_values[i])}

(* The merge of the two youngest undo states in squash(). *)
MergedOld(a, b) ==
    [i \in Ids |-> IF a.old_values[i] = None /\ i \notin a.new_ids
                   THEN b.old_values[i] ELSE a.old_values[i]]

Merge(a, b) ==
    LET old  == MergedOld(a, b)
        new  == a.new_ids \cup b.new_ids
        gone == {i \in Ids : b.removed_values[i] # None}
    IN  [a EXCEPT
           !.new_ids = new \ gone,
           !.old_values = [i \in Ids |-> IF i \in gone \ new THEN None
                                                             ELSE old[i]],
           !.removed_values =
               [i \in Ids |-> IF i \notin gone \ new \/ @[i] # None THEN @[i]
                              ELSE IF old[i] # None THEN old[i]
                              ELSE b.removed_values[i]]]

-----------------------------------------------------------------------------
Init == /\ objs = Nothing
        /\ next_id = 0
        /\ stack = <<>>
        /\ revision = 0
        /\ unwinding = FALSE
        /\ threw = FALSE
        /\ saved = <<>>
        /\ rekeyed = FALSE

Running == ~ unwinding /\ ~ threw

(* A creation that meets a taken key throws before anything has changed,   *)
(* so it is no step of the model.                                          *)
emplace(v) ==
    /\ Running
    /\ next_id \in Ids
    /\ Free(objs, next_id, v)
    /\ objs' = [objs EXCEPT ![next_id] = v]
    /\ next_id' = next_id + 1
    /\ stack' = on_create(next_id)
    /\ UNCHANGED <<revision, unwinding, threw, saved, rekeyed>>

(* on_modify has recorded the old value before the container refuses a     *)
(* taken key; the object then keeps its content.                           *)
modify(i, v) ==
    /\ Running
    /\ objs[i] # None
    /\ objs' = IF Free(objs, i, v) THEN [objs EXCEPT ![i] = v] ELSE objs
    /\ rekeyed' = (rekeyed \/ (Free(objs, i, v) /\ Key[v] # Key[objs[i]]))
    /\ stack' = on_modify(i)
    /\ UNCHANGED <<next_id, revision, unwinding, threw, saved>>

remove(i) ==
    /\ Running
    /\ objs[i] # None
    /\ objs' = [objs EXCEPT ![i] = None]
    /\ stack' = on_remove(i)
    /\ UNCHANGED <<next_id, revision, unwinding, threw, saved, rekeyed>>

start_undo_session ==
    /\ Running
    /\ Len(stack) < MaxDepth
    /\ revision < MaxRevision
    /\ revision' = revision + 1
    /\ stack' = Append(stack, [old_values     |-> Nothing,
                               removed_values |-> Nothing,
                               new_ids        |-> {},
                               old_next_id    |-> next_id,
                               revision       |-> revision + 1])
    /\ saved' = Append(saved, [objs |-> objs, next_id |-> next_id])
    /\ UNCHANGED <<objs, next_id, unwinding, threw, rekeyed>>

UndoOk ==
    /\ objs' = Restored(objs, Top)
    /\ next_id' = Top.old_next_id
    /\ stack' = Popped
    /\ revision' = revision - 1
    /\ saved' = SubSeq(saved, 1, Len(saved) - 1)
    /\ UNCHANGED threw

(* The exception leaves the first loop at the smallest clashing id, with   *)
(* nothing popped.  The third loop cannot clash: by then every id holds    *)
(* what it held at the start of the session or nothing.                    *)
UndoThrows ==
    /\ \E first \in Clashes(objs, Top) :
          /\ \A i \in Clashes(objs, Top) : first <= i
          /\ objs' = PartlyRestored(objs, Top, first)
    /\ threw' = TRUE
    /\ UNCHANGED <<next_id, stack, revision, saved>>

(* undo() from a caller or a session destructor, or one turn of undo_all's *)
(* loop.  On an empty stack it returns at once and changes nothing.        *)
undo ==
    /\ enabled /\ ~ threw
    /\ IF Clashes(objs, Top) = {} THEN UndoOk ELSE UndoThrows
    /\ unwinding' = (unwinding /\ Len(stack) > 1)
    /\ UNCHANGED rekeyed

squash ==
    /\ Running
    /\ enabled
    /\ IF Len(stack) = 1
       THEN stack' = <<>> /\ UNCHANGED revision
       ELSE /\ stack' = [Popped EXCEPT
                           ![Len(stack) - 1] = Merge(@, Top)]
            /\ revision' = revision - 1
    /\ saved' = SubSeq(saved, 1, Len(saved) - 1)
    /\ UNCHANGED <<objs, next_id, unwinding, threw, rekeyed>>

(* commit(r) drops states from the front while their revision is <= r. *)
Dropped(r, n) ==
    /\ n \in 0 .. Len(stack)
    /\ \A k \in 1 .. n : stack[k].revision <= r
    /\ n < Len(stack) => stack[n + 1].revision > r

commit(r) ==
    /\ Running
    /\ \E n \in 1 .. Len(stack) :
          /\ Dropped(r, n)
          /\ stack' = SubSeq(stack, n + 1, Len(stack))
          /\ saved' = SubSeq(saved, n + 1, Len(stack))
    /\ UNCHANGED <<objs, next_id, revision, unwinding, threw, rekeyed>>

undo_all ==
    /\ Running
    /\ enabled
    /\ unwinding' = TRUE
    /\ UNCHANGED <<objs, next_id, stack, revision, threw, saved, rekeyed>>

(* set_revision throws while an undo state is on the stack. *)
set_revision(r) ==
    /\ Running
    /\ ~ enabled
    /\ revision' = r
    /\ UNCHANGED <<objs, next_id, stack, unwinding, threw, saved, rekeyed>>

Next == \/ \E v \in Values : emplace(v)
        \/ \E i \in Ids, v \in Values : modify(i, v)
        \/ \E i \in Ids : remove(i)
        \/ start_undo_session
        \/ undo
        \/ squash
        \/ \E r \in 0 .. MaxRevision : commit(r)
        \/ undo_all
        \/ \E r \in 0 .. MaxRevision : set_revision(r)

Spec == Init /\ [][Next]_vars

-----------------------------------------------------------------------------
(* Properties.                                                             *)

(* The variables keep their types. *)
TypeOK == /\ objs \in Objects
          /\ next_id \in 0 .. MaxId + 1
          /\ stack \in Seq(UndoState)
          /\ revision \in Int
          /\ unwinding \in BOOLEAN
          /\ threw \in BOOLEAN
          /\ saved \in Seq([objs : Objects, next_id : 0 .. MaxId + 1])
          /\ rekeyed \in BOOLEAN

(* The table when session k was closed by a younger one, or now. *)
After(k) == IF k = Len(saved) THEN objs ELSE saved[k + 1].objs

(* u is an exact difference at id i between content b before and a after:  *)
(* the three containers say which of the four cases of the comment in      *)
(* squash() holds, and nothing is recorded twice.                          *)
Exact(u, i, b, a) ==
    /\ (i \in u.new_ids) <=> (b = None /\ a # None)
    /\ u.old_values[i] # None => b = u.old_values[i] /\ a # None
    /\ (u.removed_values[i] # None) <=> (b # None /\ a = None)
    /\ u.removed_values[i] # None => b = u.removed_values[i]
    /\ i \notin u.new_ids /\ u.old_values[i] = None
         /\ u.removed_values[i] = None => a = b

(* However operations, squashes and commits are interleaved, each undo     *)
(* state is the exact difference between the table at the start of its     *)
(* session and the table at the start of the next one: squash's 4x4 case   *)
(* table loses no change and invents none, at any depth of the stack.      *)
DifferencesExact ==
    ~ threw =>
      /\ Len(saved) = Len(stack)
      /\ \A k \in 1 .. Len(stack) :
            /\ stack[k].old_next_id = saved[k].next_id
            /\ \A i \in Ids :
                  Exact(stack[k], i, saved[k].objs[i], After(k)[i])

(* The sessions on the stack carry consecutive revisions that end in the   *)
(* index's own, so commit(r) drops exactly the sessions up to r; the one   *)
(* squash that forgets to decrement _revision empties the stack.           *)
RevisionsConsecutive ==
    \A k \in 1 .. Len(stack) :
        stack[k].revision = revision - Len(stack) + k

(* Two live objects never share a unique key, and an id that is still to   *)
(* be handed out is never in use: the id counter that undo rewinds does    *)
(* not run into a surviving object.                                        *)
IdsAndKeysUnique ==
    ~ threw =>
      /\ \A i \in Ids : objs[i] # None => Free(objs, i, objs[i])
      /\ \A i \in Ids : i >= next_id => objs[i] = None

(* undo() puts old values back while the objects created in the session    *)
(* still hold their keys.  All the same it throws only if some caller has  *)
(* changed the unique key of an existing object: no creation, removal,     *)
(* squash or commit can bring about the clash.                             *)
ThrowsOnlyIfRekeyed == threw => rekeyed

(* The index implements full copies: undo() "restores the state to how it  *)
(* was prior to the current session", next id included, or throws.         *)
Snapshots == INSTANCE SnapshotStack WITH
    Table    <- [objs : Objects, next_id : 0 .. MaxId + 1],
    table    <- [objs |-> objs, next_id |-> next_id],
    copies   <- saved,
    broken   <- threw
ImplementsSnapshots == Snapshots!Spec
=============================================================================
