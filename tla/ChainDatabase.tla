--------------------------- MODULE ChainDatabase ---------------------------
(***************************************************************************)
(* database::push_block and what it is built on: the fork database, the    *)
(* undo stack of the chain state, and the block log.  One action is one    *)
(* critical stretch of the write thread: the arrival of a block up to the  *)
(* first block popped or applied, and then one pop or one application at a *)
(* time, so that a crash can fall between any two of them.                 *)
(*                                                                         *)
(* The chain state is abstracted to the sequence of blocks whose effects   *)
(* it holds.  head_block_id is its last element; last_irreversible_block   *)
(* is a function of its length.  undoable counts the block sessions on the *)
(* undo stack (UndoIndex.tla shows that one undo() removes exactly one     *)
(* block's effects).  Transactions are not modelled here: a block either   *)
(* applies on its parent or is in Bad, and either outcome is possible on   *)
(* any other state.                                                        *)
(***************************************************************************)
EXTENDS ForkDatabase

CONSTANTS Bad,           \* blocks whose transactions or header fail to apply
          LibDepth,      \* XGT_MAX_WITNESSES: blocks that stay reversible
          Trunk,         \* blocks pushed in order before the model starts
          CanClose,      \* are clean shutdowns considered?
          CanCrash       \* are unclean shutdowns considered?

ASSUME LibDepthAssumption == LibDepth \in Nat
ASSUME BadAssumption == Bad \subseteq Blocks
ASSUME TrunkAssumption ==
    /\ Trunk \in Seq(Blocks)
    /\ \A n \in 1 .. Len(Trunk) : Num[Trunk[n]] = n
    /\ \A n \in 1 .. Len(Trunk) :
         Parent[Trunk[n]] = IF n = 1 THEN Zero ELSE Trunk[n - 1]
ASSUME RestartAssumption == CanClose \in BOOLEAN /\ CanCrash \in BOOLEAN

VARIABLES chain,      \* the blocks applied to the chain state, in order
          undoable,   \* how many of the last of them undo() can take back
          log,        \* the blocks in the block log
          fd,         \* _fork_db
          disk,       \* the chain state as last flushed to RocksDB
          pc,         \* where the write thread is
          switch,     \* the local variables of a fork switch
          push,       \* history: the last push
          failed      \* history: did the last push throw?

vars == <<chain, undoable, log, fd, disk, pc, switch, push, failed>>

Switching == {"pop", "apply", "unwind", "restore"}
Stopped   == {"down", "torn"}
NoSwitch  == [fork |-> Zero, second |-> {}, todo |-> {}]

head_block_id  == IF chain = <<>> THEN Zero ELSE chain[Len(chain)]
head_block_num == IF chain = <<>> THEN 0 ELSE Num[head_block_id]
Base           == Len(chain) - undoable

(* last_irreversible_block_num of the state whose head has number n. *)
lib(n) == Max0(n - LibDepth)

-----------------------------------------------------------------------------
(* Applying a block on top of the chain while the fork database is f.      *)

(* Seeded fault: no comparison of the two heads. *)
MigratesAnyHeight(b, f) ==
    \A n \in Len(log) + 1 .. lib(Num[b]) : fetch_main(f, n) # {}

(* The assertions of migrate_irreversible_state. *)
Migrates(b, f) ==
    /\ Num[f.head] = Num[b]
    /\ \A n \in Len(log) + 1 .. lib(Num[b]) : fetch_main(f, n) # {}

(* The header's previous is not compared with head_block_id: the call of   *)
(* validate_block_header is commented out.                                 *)
MayApply(b, f) == b \notin Bad /\ Migrates(b, f)
MayFail(b, f)  == ~ MayApply(b, f) \/ Parent[b] # head_block_id

(* Seeded fault: any block of the number will do. *)
MigratedAnyFork(b, f) ==
    log \o [i \in 1 .. Max0(lib(Num[b]) - Len(log)) |->
              CHOOSE x \in fetch_block_by_number(f, Len(log) + i) : TRUE]

(* New irreversible blocks are read from the main branch. *)
MigratedLog(b, f) ==
    log \o [i \in 1 .. Max0(lib(Num[b]) - Len(log)) |->
              CHOOSE x \in fetch_main(f, Len(log) + i) : TRUE]

(* Seeded fault: commit the head. *)
CommittedHead(n) == 0

(* Sessions left after the new one is pushed and commit(lib) has run. *)
Committed(n) == IF undoable + 1 <= Len(chain) + 1 - lib(n)
                THEN undoable + 1 ELSE Max0(Len(chain) + 1 - lib(n))

(* apply_block to its end: state, block log, fork database, undo stack. *)
apply_block(b, f) ==
    /\ chain' = Append(chain, b)
    /\ log' = MigratedLog(b, f)
    /\ fd' = set_max_size(set_max_size(f, Num[b] - lib(Num[b]) + 1), MaxSize)
    /\ undoable' = Committed(Num[b])

-----------------------------------------------------------------------------
(* push_block.                                                             *)

(* What the history variable records: the chain that push_block found, the *)
(* block if it is a valid child of the head, and whether one that cannot   *)
(* apply waits to be linked behind that child.                             *)
Extends(b) == b \notin Bad /\ Parent[b] = head_block_id
Pushed(b) ==
    [chain     |-> chain,
     extension |-> IF Extends(b) THEN b ELSE Zero,
     spoiled   |-> Extends(b) /\ \E x \in Adopted(fd, b) : x \in Bad]

Throw == pc' = "idle" /\ failed' = TRUE /\ switch' = NoSwitch
Return == pc' = "idle" /\ failed' = FALSE /\ switch' = NoSwitch

(* Too old, or not linked: an unlinkable block is cached before the        *)
(* exception is passed on.                                                 *)
push_refused(b) ==
    /\ pc = "idle"
    /\ \/ TooOld(fd, b) /\ UNCHANGED fd
       \/ ~ TooOld(fd, b) /\ ~ Links(fd, b) /\ fd' = cache_unlinked(fd, b)
    /\ push' = Pushed(b)
    /\ Throw
    /\ UNCHANGED <<chain, undoable, log, disk>>

Accepted(b, f) == /\ pc = "idle"
                  /\ ~ TooOld(fd, b) /\ Links(fd, b)
                  /\ f \in push_block(fd, b)
                  /\ push' = Pushed(b)

(* Seeded fault: the fork database's head is only compared by height. *)
push_direct_by_height(b) ==
    \E f \in push_block(fd, b) :
       /\ Accepted(b, f)
       /\ Num[f.head] = head_block_num + 1
       /\ \/ MayApply(b, f) /\ apply_block(b, f) /\ Return
          \/ /\ MayFail(b, f)
             /\ fd' = remove(f, {b})
             /\ Throw
             /\ UNCHANGED <<chain, undoable, log>>
    /\ UNCHANGED disk

(* The fork database's head builds on ours.  It is the pushed block b, not *)
(* that head, that is applied.                                             *)
push_direct(b) ==
    \E f \in push_block(fd, b) :
       /\ Accepted(b, f)
       /\ Parent[f.head] = head_block_id
       /\ \/ MayApply(b, f) /\ apply_block(b, f) /\ Return
          \/ /\ MayFail(b, f)
             /\ fd' = remove(f, {b})
             /\ Throw
             /\ UNCHANGED <<chain, undoable, log>>
    /\ UNCHANGED disk

(* Seeded fault: switch only to a fork that leads by two. *)
HigherByTwo(f) == Num[f.head] > head_block_num + 1

(* Only switch forks if new_head is actually higher than head *)
Higher(f) == Num[f.head] > head_block_num

(* A block that does not lead to a higher head is only kept. *)
push_kept(b) ==
    \E f \in push_block(fd, b) :
       /\ Accepted(b, f)
       /\ Parent[f.head] # head_block_id
       /\ ~ Higher(f)
       /\ fd' = f
       /\ Return
    /\ UNCHANGED <<chain, undoable, log, disk>>

(* A higher head on another branch: fetch both branches, or throw. *)
push_switch(b) ==
    \E f \in push_block(fd, b) :
       /\ Accepted(b, f)
       /\ Parent[f.head] # head_block_id
       /\ Higher(f)
       /\ fd' = f
       /\ LET found == IF head_block_id = Zero THEN {}
                       ELSE fetch_branch_from(f, f.head, head_block_id)
          IN  \/ \E br \in found :
                    /\ switch' = [fork |-> br.fork, second |-> br.second,
                                  todo |-> br.first]
                    /\ pc' = "pop"
                    /\ failed' = FALSE
              \/ found = {} /\ Throw
    /\ UNCHANGED <<chain, undoable, log, disk>>

-----------------------------------------------------------------------------
(* The loops of a fork switch.                                             *)

(* pop_block: the head must be known and have a live previous item in the  *)
(* fork database; undo() on an empty stack returns without a word.         *)
CanPopBlock == /\ head_block_id \in fetch_block(fd) \cup
                                    {log[n] : n \in 1 .. Len(log)}
               /\ CanPop(fd)

(* Seeded fault: undo reaches below the committed point. *)
UndoneAlways == IF chain = <<>> THEN chain ELSE SubSeq(chain, 1, Len(chain) - 1)

Undone == IF undoable > 0 THEN SubSeq(chain, 1, Len(chain) - 1) ELSE chain

pop_head ==
    IF CanPopBlock
    THEN /\ fd' = pop_block(fd)
         /\ chain' = Undone
         /\ undoable' = Max0(undoable - 1)
         /\ UNCHANGED <<pc, switch, failed>>
    ELSE Throw /\ UNCHANGED <<fd, chain, undoable>>

(* The next block of a branch that is left to apply. *)
Lowest(b) == \A x \in switch.todo : Num[b] <= Num[x]

(* pop blocks until we hit the forked block *)
switch_pop ==
    /\ pc = "pop"
    /\ IF head_block_id # switch.fork THEN pop_head
       ELSE /\ pc' = "apply"
            /\ UNCHANGED <<chain, undoable, fd, switch, failed>>
    /\ UNCHANGED <<log, disk, push>>

(* Seeded fault: a block that fails starts the switch again. *)
switch_apply_again(b) ==
    /\ pc = "apply" /\ Lowest(b)
    /\ LET f == set_head(fd, b)
       IN  \/ /\ MayApply(b, f)
              /\ apply_block(b, f)
              /\ switch' = [switch EXCEPT !.todo = @ \ {b}]
              /\ UNCHANGED <<pc, failed>>
           \/ /\ MayFail(b, f)
              /\ fd' = f
              /\ pc' = "pop"
              /\ UNCHANGED <<chain, undoable, log, switch, failed>>
    /\ UNCHANGED <<disk, push>>

(* push all blocks on the new fork *)
switch_apply(b) ==
    /\ pc = "apply" /\ Lowest(b)
    /\ LET f == set_head(fd, b)
       IN  \/ /\ MayApply(b, f)
              /\ apply_block(b, f)
              /\ switch' = [switch EXCEPT !.todo = @ \ {b}]
              /\ UNCHANGED <<pc, failed>>
           \/ /\ MayFail(b, f)
              /\ fd' = remove(f, switch.todo)
              /\ pc' = "unwind"
              /\ UNCHANGED <<chain, undoable, log, switch, failed>>
    /\ UNCHANGED <<disk, push>>

switch_done ==
    /\ pc = "apply" /\ switch.todo = {}
    /\ Return
    /\ UNCHANGED <<chain, undoable, log, fd, disk, push>>

(* Seeded fault: the good fork is not put back. *)
switch_unwind_only ==
    /\ pc = "unwind"
    /\ IF head_block_id # switch.fork THEN pop_head
       ELSE /\ pc' = "restore"
            /\ switch' = [switch EXCEPT !.todo = {}]
            /\ UNCHANGED <<chain, undoable, fd, failed>>
    /\ UNCHANGED <<log, disk, push>>

(* pop all blocks from the bad fork *)
switch_unwind ==
    /\ pc = "unwind"
    /\ IF head_block_id # switch.fork THEN pop_head
       ELSE /\ pc' = "restore"
            /\ switch' = [switch EXCEPT !.todo = switch.second]
            /\ UNCHANGED <<chain, undoable, fd, failed>>
    /\ UNCHANGED <<log, disk, push>>

(* restore all blocks from the good fork; an exception here is not caught *)
switch_restore(b) ==
    /\ pc = "restore" /\ Lowest(b)
    /\ LET f == set_head(fd, b)
       IN  \/ /\ MayApply(b, f)
              /\ apply_block(b, f)
              /\ switch' = [switch EXCEPT !.todo = @ \ {b}]
              /\ UNCHANGED <<pc, failed>>
           \/ /\ MayFail(b, f)
              /\ fd' = f
              /\ Throw
              /\ UNCHANGED <<chain, undoable, log>>
    /\ UNCHANGED <<disk, push>>

(* throw *except *)
switch_rethrow ==
    /\ pc = "restore" /\ switch.todo = {}
    /\ Throw
    /\ UNCHANGED <<chain, undoable, log, fd, disk, push>>

-----------------------------------------------------------------------------
(* database::fetch_block_by_number: the main branch of the fork database   *)
(* answers first, then the block log.  A set of at most one block.         *)
fetched_by_number(n) ==
    LET recent == fetch_main(fd, n)
    IN  IF recent # {} THEN recent ELSE {log[m] : m \in {n} \cap DOMAIN log}

-----------------------------------------------------------------------------
(* Shutdown and start.                                                     *)

(* RocksDB writes its memtables out when it likes; there is no WAL. *)
flush_state ==
    /\ CanCrash /\ pc \notin Stopped /\ disk # chain
    /\ disk' = chain
    /\ UNCHANGED <<chain, undoable, log, fd, pc, switch, push, failed>>

(* close() rewinds every undo session, then flushes. *)
close ==
    /\ CanClose /\ pc = "idle"
    /\ chain' = SubSeq(chain, 1, Base)
    /\ undoable' = 0
    /\ disk' = SubSeq(chain, 1, Base)
    /\ fd' = NoFork
    /\ pc' = "down"
    /\ failed' = FALSE
    /\ UNCHANGED <<log, switch, push>>

(* The process dies.  If it dies inside a session, or RocksDB has flushed  *)
(* its indices at different moments, the revision is not the head number.  *)
crash ==
    /\ CanCrash /\ pc \notin Stopped
    /\ chain' = disk
    /\ undoable' = 0
    /\ fd' = NoFork
    /\ pc' \in Stopped
    /\ switch' = NoSwitch
    /\ failed' = FALSE
    /\ UNCHANGED <<log, disk, push>>

(* open() accepts a state only if the block log holds its head block. *)
open ==
    /\ pc = "down"
    /\ chain # <<>> => /\ Len(chain) <= Len(log)
                       /\ log[Len(chain)] = head_block_id
    /\ fd' = IF chain = <<>> THEN NoFork
             ELSE start_block(NoFork, head_block_id)
    /\ pc' = "idle"
    /\ UNCHANGED <<chain, undoable, log, disk, switch, push, failed>>

(* reindex() wipes the state and replays the block log; with an empty log  *)
(* it stops after the wipe.                                                *)
reindex ==
    /\ pc \in Stopped
    /\ chain' = log
    /\ disk' = log
    /\ IF log = <<>> THEN fd' = NoFork /\ pc' = "down"
       ELSE fd' = start_block(NoFork, log[Len(log)]) /\ pc' = "idle"
    /\ UNCHANGED <<undoable, log, switch, push, failed>>

-----------------------------------------------------------------------------
(* Trunk has been pushed block by block: what apply_block leaves behind.   *)
Init ==
    LET n == Len(Trunk)
        kept == {Trunk[k] : k \in {m \in 1 .. n : m >= lib(n) - 1}}
    IN  /\ chain = Trunk
        /\ undoable = n - lib(n)
        /\ log = SubSeq(Trunk, 1, lib(n))
        /\ fd = IF n = 0 THEN NoFork
                ELSE [index |-> kept,
                      linked |-> {b \in kept : Parent[b] \in kept},
                      unlinked |-> {},
                      head |-> Trunk[n],
                      head_linked |-> Parent[Trunk[n]] \in kept]
        /\ disk = <<>>
        /\ pc = "idle"
        /\ switch = NoSwitch
        /\ push = [chain |-> Trunk, extension |-> Zero, spoiled |-> FALSE]
        /\ failed = FALSE

switch_step == \/ switch_pop
               \/ \E b \in switch.todo : switch_apply(b)
               \/ switch_done
               \/ switch_unwind
               \/ \E b \in switch.todo : switch_restore(b)
               \/ switch_rethrow

Next == \/ \E b \in Blocks : push_refused(b)
        \/ \E b \in Blocks : push_direct(b)
        \/ \E b \in Blocks : push_kept(b)
        \/ \E b \in Blocks : push_switch(b)
        \/ switch_pop
        \/ \E b \in switch.todo : switch_apply(b)
        \/ switch_done
        \/ switch_unwind
        \/ \E b \in switch.todo : switch_restore(b)
        \/ switch_rethrow
        \/ flush_state
        \/ close
        \/ crash
        \/ open
        \/ reindex

(* The write thread does not stop in the middle of a push. *)
Spec == Init /\ [][Next]_vars /\ WF_vars(switch_step)

-----------------------------------------------------------------------------
(* Properties.                                                             *)

Branches == [fork : Blocks \cup {Zero}, second : SUBSET Blocks,
             todo : SUBSET Blocks]
Pushes == [chain : Seq(Blocks), extension : Blocks \cup {Zero},
           spoiled : BOOLEAN]

(* The variables keep their types. *)
TypeOK == /\ chain \in Seq(Blocks)
          /\ undoable \in 0 .. Len(chain)
          /\ log \in Seq(Blocks)
          /\ fd \in Fork
          /\ disk \in Seq(Blocks)
          /\ pc \in {"idle"} \cup Switching \cup Stopped
          /\ switch \in Branches
          /\ push \in Pushes
          /\ failed \in BOOLEAN

(* The n-th applied block has number n, so head_block_num, the revision of *)
(* the undo stack and the arguments of commit() agree, although the header *)
(* of an applied block is never compared with the head.                    *)
NumbersMatch == \A n \in 1 .. Len(chain) : Num[chain[n]] = n

(* A step of the running node leaves the blocks below the oldest undo      *)
(* session in place and never moves that point down: pops that run on      *)
(* after the undo stack is empty remove nothing.                           *)
CommittedStays ==
    pc \notin Stopped /\ pc' \notin Stopped =>
        /\ Base' >= Base
        /\ Base <= Len(chain')
        /\ \A n \in 1 .. Base : chain'[n] = chain[n]
CommittedNeverUndone == [][CommittedStays]_vars

(* Without a crash, whatever has been written to the block log is beyond   *)
(* the reach of undo().                                                    *)
LogCommitted == CanCrash \/ Len(log) <= Base

(* At every point of a switch the blocks that are left to apply form one   *)
(* branch, and it starts on the head that the pops and the applications    *)
(* so far have produced; the blocks to restore form a branch on the fork   *)
(* point.  Nothing else keeps apply_block from the wrong parent.           *)
BranchOn(S, base) == /\ \A x \in S : Parent[x] \in S \cup {base}
                     /\ \A x, y \in S : Num[x] = Num[y] => x = y
SwitchOnBranch ==
    /\ pc = "pop" => BranchOn(switch.todo, switch.fork)
    /\ pc \in {"pop", "apply", "unwind"} =>
          BranchOn(switch.second, switch.fork)
    /\ pc \in {"apply", "restore"} => BranchOn(switch.todo, head_block_id)

(* Every applied block was applied on the block its header names. *)
Linked(s) == \A n \in 1 .. Len(s) :
                Parent[s[n]] = IF n = 1 THEN Zero ELSE s[n - 1]
ChainLinked == Linked(chain)

(* State and block log tell one history: they agree as far as both go. *)
LogOnChain ==
    pc \notin Stopped =>
      \A n \in 1 .. Len(log) : n <= Len(chain) => log[n] = chain[n]

(* Readers that ask for a block by its number between two pushes get the   *)
(* block of that number whose effects the state holds, although the fork   *)
(* database answers first, from its own head, and the block log second.    *)
LookupsOnChain ==
    pc = "idle" =>
      \A n \in 1 .. head_block_num + 1 :
        fetched_by_number(n) = {chain[m] : m \in {n} \cap DOMAIN chain}

(* State, block log and lookups tell one history. *)
OneHistory == LogOnChain /\ LookupsOnChain

(* "Push block may fail in which case every partial change is unwound": a  *)
(* push that throws leaves the chain it found.                             *)
FailedPushUnwound == pc = "idle" /\ failed => chain = push.chain

(* "As long as blocks are pushed in order the fork database will maintain  *)
(* a linked tree": between two pushes it holds the head of the chain, on   *)
(* which the next block has to build.                                      *)
HeadKnown == pc = "idle" /\ chain # <<>> => head_block_id \in fd.index

(* A valid block that extends the head is not turned down, whatever        *)
(* arrived before it, with two exceptions.  push_block applies it together *)
(* with the cached blocks that it links, and throws when one of those      *)
(* fails; then the block itself is not lost: it stays in the fork          *)
(* database, where its next child finds it.  And nothing links to a head   *)
(* that the fork database no longer holds.                                 *)
ExtensionAccepted ==
    pc = "idle" /\ failed /\ push.extension # Zero =>
        \/ push.spoiled /\ push.extension \in fd.index
        \/ ~ HeadKnown

(* The longest chain rule: after a push that succeeds no block that links  *)
(* to the fork database is higher than the head of the chain.              *)
HeadIsHighest == pc = "idle" /\ ~ failed =>
                    \A b \in fd.index : Num[b] <= head_block_num

(* A switch, its unwinding and its restoration come to an end. *)
SwitchEnds == pc \in Switching ~> pc \in {"idle"} \cup Stopped
=============================================================================
