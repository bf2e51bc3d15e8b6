--------------------------- MODULE BlockObservers ---------------------------
(***************************************************************************)
(* Two plugins that listen to the chain database: wallet_history, which    *)
(* moves the operations of irreversible blocks into a RocksDB of its own,  *)
(* and transaction_status, which keeps a table in the chain state and a    *)
(* flag in memory.  The three stores are taken back differently: a pop, a  *)
(* failed block and a shutdown undo the chain state only.                  *)
(*                                                                         *)
(* Every block is taken to have a tracked operation and a transaction.     *)
(* volatile_operation_objects live in the chain state: they are those of   *)
(* the blocks above last_irreversible_block_num that were applied outside  *)
(* of reindex(), so that no variable is needed for them or for their undo. *)
(***************************************************************************)
EXTENDS ChainDatabase

CONSTANTS TrackAfter,    \* transaction_status: actual_track_after_block
          StatusDepth    \* transaction_status: actual_block_depth

ASSUME StatusAssumption == TrackAfter \in Nat /\ StatusDepth \in Nat

VARIABLES stored,     \* blocks whose operations are in wallet_history's RocksDB
          replayed,   \* how many blocks of the chain reindex() has applied
          tracking,   \* transaction_status_impl::tracking
          statused    \* blocks with transaction_status_objects: in the chain
                      \* state, and in the state that was flushed

(* The blocks of a chain c. *)
BlocksOf(c) == {c[k] : k \in 1 .. Len(c)}

history_vars == <<stored, replayed>>
observed_vars == <<vars, history_vars, tracking, statused>>

-----------------------------------------------------------------------------
(* wallet_history.                                                         *)

(* Seeded fault: the block itself is left out. *)
ImportedBelow(b) ==
    LET c == Append(chain, b)
    IN  {c[k] : k \in {m \in 1 .. Len(c) : /\ m > replayed /\ m > lib(Len(chain))
                                           /\ m < lib(Num[b])}}

(* What update_last_irreversible_block makes on_irreversible_block import  *)
(* while b is applied: the volatile operations up to the new irreversible  *)
(* number.  get_lib() always returns 0 and so skips number 0 only.         *)
Imported(b) ==
    LET c == Append(chain, b)
    IN  {c[k] : k \in {m \in 1 .. Len(c) : /\ m > replayed /\ m > lib(Len(chain))
                                           /\ m <= lib(Num[b])}}

(* importOperation writes through to RocksDB, which nothing undoes. *)
on_irreversible_block(b) ==
    /\ stored' = stored \cup Imported(b)
    /\ UNCHANGED replayed

(* on_pre_reindex destroys the database; the operations of every block of  *)
(* the log are then imported as they are applied.                          *)
history_reindexed ==
    /\ stored' = BlocksOf(log)
    /\ replayed' = Len(log)

-----------------------------------------------------------------------------
(* transaction_status.                                                     *)

(* max(1, head - depth + 1, track after + 1) for a head of number n. *)
get_earliest_tracked_block_num(n) ==
    LET byDepth == Max0(n - StatusDepth) + 1
    IN  IF byDepth > TrackAfter + 1 THEN byDepth ELSE TrackAfter + 1

(* Seeded fault: tracking begins one block late. *)
ActivatesAfter(b) == tracking \/ TrackAfter < Num[b]

(* The end of on_post_apply_block. *)
Activates(b) == tracking \/ TrackAfter <= Num[b]

(* on_post_apply_transaction and on_post_apply_block of a block that is    *)
(* applied.  Objects that are too old are removed in the chain state, and  *)
(* come back with an undo: nothing reads them below the earliest number.   *)
on_post_apply_block(b) ==
    /\ statused' = [statused EXCEPT !.state =
                      IF tracking THEN @ \cup {b} ELSE @ \ {b}]
    /\ tracking' = Activates(b)

(* rebuild_state: the blocks of the table in a chain of blocks c. *)
Rebuilt(c) ==
    {c[k] : k \in get_earliest_tracked_block_num(Len(c)) .. Len(c)}

(* state_is_valid: the first and the last block of the range are there. *)
state_is_valid ==
    LET first == get_earliest_tracked_block_num(Len(chain))
    IN  first <= Len(chain) => {chain[first], head_block_id} \subseteq statused.state

-----------------------------------------------------------------------------
(* Both, with the steps of the chain database.                             *)

(* A block that is applied is observed to its end.  One that fails may     *)
(* have been observed up to its irreversible number, and as a whole if it  *)
(* is migrate_irreversible_state that fails; its objects are undone, what  *)
(* RocksDB and memory hold is not.                                         *)
Observed(b) ==
    \/ /\ chain' = Append(chain, b)
       /\ on_irreversible_block(b)
       /\ on_post_apply_block(b)
    \/ /\ chain' = chain
       /\ \/ UNCHANGED history_vars /\ UNCHANGED tracking
          \/ on_irreversible_block(b) /\ UNCHANGED tracking
          \/ on_irreversible_block(b) /\ tracking' = Activates(b)
       /\ UNCHANGED statused

(* An undo takes the status objects of the blocks that it removes along. *)
Popped == statused' = [statused EXCEPT !.state = @ \cap BlocksOf(chain')]

(* RocksDB's flush of the chain state writes the status objects too. *)
Flushed == LET kept == statused.state \cap BlocksOf(chain')
           IN  statused' = [state |-> kept, disk |-> kept]

push_observed(b) == push_direct(b) /\ Observed(b)
apply_observed(b) == switch_apply(b) /\ Observed(b)
restore_observed(b) == switch_restore(b) /\ Observed(b)
flush_observed == flush_state /\ Flushed /\ UNCHANGED <<history_vars, tracking>>
close_observed == close /\ Flushed /\ UNCHANGED <<history_vars, tracking>>
crash_observed ==
    /\ crash
    /\ statused' = [statused EXCEPT !.state = statused.disk]
    /\ UNCHANGED <<history_vars, tracking>>

(* plugin_initialize, and plugin_startup with a valid state or with the    *)
(* option that rebuilds it; otherwise the process exits.                   *)
open_observed ==
    /\ open
    /\ tracking' = (TrackAfter = 0)
    /\ \/ state_is_valid /\ UNCHANGED statused
       \/ statused' = [statused EXCEPT !.state = Rebuilt(chain)]
    /\ UNCHANGED history_vars

reindex_observed ==
    /\ reindex
    /\ history_reindexed
    /\ statused' = [state |-> Rebuilt(log), disk |-> Rebuilt(log)]
    /\ tracking' = TRUE

(* Steps that no observer is told of. *)
unobserved ==
    /\ \/ \E b \in Blocks : push_refused(b) \/ push_kept(b) \/ push_switch(b)
       \/ switch_pop \/ switch_done \/ switch_unwind \/ switch_rethrow
    /\ Popped
    /\ UNCHANGED <<history_vars, tracking>>

ObserverInit ==
    /\ Init
    /\ stored = {Trunk[k] : k \in 1 .. lib(Len(Trunk))}
    /\ replayed = 0
    /\ tracking = (TrackAfter <= Len(Trunk))
    /\ statused = [state |-> {Trunk[k] : k \in TrackAfter + 1 .. Len(Trunk)},
                   disk |-> {}]

ObserverNext ==
    \/ unobserved
    \/ \E b \in Blocks : push_observed(b)
    \/ \E b \in switch.todo : apply_observed(b)
    \/ \E b \in switch.todo : restore_observed(b)
    \/ flush_observed \/ close_observed \/ crash_observed
    \/ open_observed \/ reindex_observed

ObserverSpec == ObserverInit /\ [][ObserverNext]_observed_vars

-----------------------------------------------------------------------------
(* Properties.                                                             *)

(* The operations of every irreversible block of the chain are in          *)
(* wallet_history, whatever was popped, failed, shut down, lost in a crash *)
(* or replayed before.                                                     *)
HistoryComplete ==
    pc \notin Stopped =>
       \A n \in 1 .. lib(Len(chain)) : chain[n] \in stored

(* wallet_history holds no operation of a block that a switch has taken    *)
(* off the chain: what is below the oldest undo session stays, and only    *)
(* blocks from there are imported.  (A block that fails may leave more     *)
(* behind: the run has none.)                                              *)
HistoryOnChain ==
    pc \in {"idle"} => \A b \in stored : \E n \in 1 .. Base : chain[n] = b

(* Within the trackable range every transaction is found: no fork switch   *)
(* around the block at which tracking begins leaves a block out.           *)
StatusTracked ==
    pc \notin Stopped =>
       \A n \in get_earliest_tracked_block_num(Len(chain)) .. Len(chain) :
          chain[n] \in statused.state

(* What the plugins hold after fork switches without failures. *)
ObserversOnChain == HistoryOnChain /\ StatusTracked

(* What they hold after failures, crashes and restarts. *)
ObserversComplete == HistoryComplete /\ StatusTracked
=============================================================================
