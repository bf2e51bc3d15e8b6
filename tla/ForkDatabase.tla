---------------------------- MODULE ForkDatabase ----------------------------
(***************************************************************************)
(* fork_database: the in-memory tree of recent blocks, as operators on a   *)
(* record fd that ChainDatabase keeps in a variable.                       *)
(*                                                                         *)
(*   index       ids in _index                                             *)
(*   linked      ids of _index whose weak prev pointer can be locked       *)
(*   unlinked    ids in _unlinked_index                                    *)
(*   head        id of *_head, or Zero                                     *)
(*   head_linked can the prev pointer of *_head be locked?                 *)
(*                                                                         *)
(* head has its own flag because *_head need not be an element of _index:  *)
(* a duplicate is refused by the index and still becomes the head, and     *)
(* remove() takes an item out of the index only.                           *)
(*                                                                         *)
(* A block is its id.  The set of blocks that exist anywhere is a constant *)
(* tree: Parent is the previous field of the header and Num is             *)
(* block_num(), which the header derives from previous.                    *)
(***************************************************************************)
EXTENDS Integers, Sequences

CONSTANTS Blocks,     \* the ids of all blocks that may arrive
          Zero,       \* the null id, previous of a first block
          Parent,     \* previous
          Num,        \* block_num()
          Path,       \* Path[b]: b and all its ancestors
          MaxSize     \* XGT_FORK_DB_MAX_SIZE

ASSUME ZeroAssumption == Zero \notin Blocks
ASSUME ParentAssumption == Parent \in [Blocks -> Blocks \cup {Zero}]
ASSUME NumAssumption ==
    /\ Num \in [Blocks -> Nat]
    /\ \A b \in Blocks :
         Num[b] = IF Parent[b] = Zero THEN 1 ELSE Num[Parent[b]] + 1
ASSUME MaxSizeAssumption == MaxSize \in Nat
ASSUME PathAssumption ==
    /\ Path \in [Blocks -> SUBSET Blocks]
    /\ \A b \in Blocks :
         /\ b \in Path[b]
         /\ \A x \in Path[b] : /\ Parent[x] \in Path[b] \cup {Zero}
                              /\ Num[x] <= Num[b]
         /\ \A x, y \in Path[b] : Num[x] = Num[y] => x = y

Max0(n) == IF n > 0 THEN n ELSE 0

Fork == [index : SUBSET Blocks, linked : SUBSET Blocks,
         unlinked : SUBSET Blocks, head : Blocks \cup {Zero},
         head_linked : BOOLEAN]

(* A new fork_database, and reset() on one with nothing unlinked. *)
NoFork == [index |-> {}, linked |-> {}, unlinked |-> {},
           head |-> Zero, head_linked |-> FALSE]

start_block(fd, b) ==
    [fd EXCEPT !.index = @ \cup {b}, !.head = b, !.head_linked = FALSE]

-----------------------------------------------------------------------------
(* push_block: the guards of _push_block and, when they pass, the set of   *)
(* possible results.                                                       *)

(* Seeded fault: only blocks above the head are in range. *)
TooOldBelowHead(fd, b) == fd.head # Zero /\ Num[b] <= Num[fd.head]

TooOld(fd, b) == /\ fd.head # Zero
                 /\ Num[b] <= Max0(Num[fd.head] - MaxSize)

Links(fd, b) == \/ fd.head = Zero
                \/ Parent[b] = Zero
                \/ Parent[b] \in fd.index

cache_unlinked(fd, b) == [fd EXCEPT !.unlinked = @ \cup {b}]

(* b and the cached blocks that _push_next links behind it, depth first. *)
Adopted(fd, b) ==
    {b} \cup {x \in fd.unlinked :
                /\ b \in Path[x] /\ x # b
                /\ \A y \in Path[x] : Num[y] > Num[b] => y \in fd.unlinked}

(* _head moves to a strictly higher item; among equals the hash order of   *)
(* the unlinked index decides which was first.                             *)
NewHeads(fd, b) ==
    LET higher == {x \in Adopted(fd, b) :
                     fd.head = Zero \/ Num[x] > Num[fd.head]}
    IN  IF higher = {} THEN {fd.head}
        ELSE {x \in higher : \A y \in higher : Num[y] <= Num[x]}

(* The items that find their previous item in the index. *)
FoundPrevious(fd, b) ==
    {x \in Adopted(fd, b) : Parent[x] # Zero /\ (x = b => fd.head # Zero)}

push_block(fd, b) ==
    {[index    |-> fd.index \cup Adopted(fd, b),
      linked   |-> fd.linked \cup (FoundPrevious(fd, b) \ fd.index),
      unlinked |-> fd.unlinked \ (Adopted(fd, b) \ {b}),
      head     |-> h,
      head_linked |-> IF h \in Adopted(fd, b) /\ h # fd.head
                      THEN h \in FoundPrevious(fd, b)
                      ELSE fd.head_linked] : h \in NewHeads(fd, b)}

-----------------------------------------------------------------------------
(* Erasing items expires the prev pointers of their children. *)
EraseItems(fd, gone) ==
    LET alive(x) == Parent[x] \notin gone
    IN  [fd EXCEPT !.index = @ \ gone,
                   !.linked = {x \in @ \ gone : alive(x)},
                   !.head_linked = @ /\ alive(fd.head)]

remove(fd, gone) == EraseItems(fd, gone \cap fd.index)

(* set_max_size(s) deletes what is more than s below the head. *)
set_max_size(fd, s) ==
    LET old(S) == {x \in S : Num[x] < Max0(Num[fd.head] - s)}
    IN  IF fd.head = Zero THEN fd
        ELSE [EraseItems(fd, old(fd.index)) EXCEPT
                !.unlinked = @ \ old(@)]

set_head(fd, b) ==
    [fd EXCEPT !.head = b, !.head_linked = b \in fd.linked]

(* pop_block asserts that the head has a live previous item. *)
CanPop(fd) == fd.head # Zero /\ fd.head_linked
pop_block(fd) == set_head(fd, Parent[fd.head])

fetch_block(fd) == fd.index \cup fd.unlinked

-----------------------------------------------------------------------------
(* The block at number n on the main branch, as a set of at most one.  The *)
(* only block of that number is returned without looking at the branch;    *)
(* otherwise the walk from the head stops at an expired pointer.           *)
fetch_block_by_number(fd, n) == {x \in fd.index : Num[x] = n}

walk_main_branch_to_num(fd, n) ==
    {x \in Path[fd.head] :
       /\ Num[x] = n
       /\ \A y \in Path[fd.head] : Num[y] > n =>
            IF y = fd.head THEN fd.head_linked ELSE y \in fd.linked}

fetch_main(fd, n) ==
    IF fd.head = Zero \/ n > Num[fd.head] THEN {}
    ELSE LET at == fetch_block_by_number(fd, n)
         IN  IF \A x, y \in at : x = y THEN at
             ELSE walk_main_branch_to_num(fd, n)

(* fetch_branch_from(a, b): both paths down to the highest pair of blocks  *)
(* of one number that have the same previous, as a set that is empty when  *)
(* an assertion fails: an end is not in the index, or a pointer on the way *)
(* has expired.  When b is an ancestor of a that pair is b itself, twice.  *)
Meets(a, x) == \E y \in Path[a] : Num[y] = Num[x] /\ Parent[y] = Parent[x]

Branch(b, n) == {x \in Path[b] : Num[x] >= n}

fetch_branch_from(fd, a, b) ==
    {[fork   |-> Parent[x],
      first  |-> Branch(a, Num[x]),
      second |-> Branch(b, Num[x])] :
         x \in {z \in Path[b] :
                 /\ {a, b} \subseteq fd.index
                 /\ Meets(a, z)
                 /\ \A w \in Path[b] : Meets(a, w) => Num[w] <= Num[z]
                 /\ \A w \in Branch(a, Num[z]) \cup Branch(b, Num[z]) :
                       Num[w] > Num[z] => w \in fd.linked}}
=============================================================================
