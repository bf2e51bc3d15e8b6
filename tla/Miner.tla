------------------------------- MODULE Miner -------------------------------
(***************************************************************************)
(* The mining loop of the witness plugin on top of the chain database: it  *)
(* reads the head, searches for a proof of work on it, and generates a     *)
(* block while blocks of others arrive.                                    *)
(*                                                                         *)
(* The miner takes the read lock once for each value that it reads, and    *)
(* the write lock only inside generate_block and accept_block, so blocks   *)
(* arrive between any two of its steps; a push holds the write lock to its *)
(* end.  All blocks here have numbers from 2116800 on: the miner's block   *)
(* carries the proof of work as its first transaction and fails to apply   *)
(* when the work was not done on its previous block.  A block of Mine that *)
(* is in Bad stands for one with such work.                                *)
(***************************************************************************)
EXTENDS ChainDatabase

CONSTANTS Mine,   \* blocks that the miner of this node generates
          None

ASSUME MineAssumption == /\ Mine \subseteq Blocks
                         /\ None \notin Blocks \cup {Zero}
                         /\ \A n \in 1 .. Len(Trunk) : Trunk[n] \notin Mine

VARIABLES loop,      \* where the mining loop is
          block_id, block_num, \* what it has read
          mined,     \* the block that it has generated
          worked,    \* the block on which the work in each generated block was done
          broadcast  \* the blocks it has sent to the network

miner_vars == <<loop, block_id, block_num, mined, worked, broadcast>>

all_vars == <<vars, miner_vars>>

-----------------------------------------------------------------------------
(* The chain, as far as others move it. *)

\* Blocks arrive from the network; the miner's own come back from it.
Arriving == (Blocks \ Mine) \cup broadcast

push_any(b) == push_refused(b) \/ push_direct(b) \/ push_kept(b) \/ push_switch(b)

\* While the miner waits for the answer to a push of its own, no other push begins.
Waiting == loop \in {"generating", "accepting"}

chain_step ==
  /\ \/ ~Waiting /\ \E b \in Arriving : push_any(b)
     \/ switch_step
  /\ UNCHANGED miner_vars

-----------------------------------------------------------------------------
(* The loop. *)

Unlocked == pc = "idle"

\* schedule_production_loop and block_production_loop up to start_mining, which reads the id of
\* the head block first.
read_id ==
  /\ loop = "wait" /\ Unlocked
  /\ head_block_num > 0
  /\ block_id' = head_block_id
  /\ loop' = "id"
  /\ UNCHANGED <<block_num, mined, worked, broadcast>> /\ UNCHANGED vars

\* The reads of head_block_num, head_block_time and the target.
read_num ==
  /\ loop = "id" /\ Unlocked
  /\ block_num' = head_block_num
  /\ loop' = "mine"
  /\ UNCHANGED <<block_id, mined, worked, broadcast>> /\ UNCHANGED vars

\* Seeded fault: work for any block will do.
WorkAlwaysFits(b) == TRUE

\* "Op prev block id doesn't match prev block id"
WorkFits(b) == block_id = Parent[b]

\* A solution is found: generate_block builds on the head of that moment and pushes the result.
generate_block(b) ==
  /\ loop = "mine" /\ Unlocked
  /\ b \notin DOMAIN worked
  /\ Parent[b] = head_block_id
  /\ b \notin Bad <=> WorkFits(b)
  /\ push_any(b)
  /\ worked' = [x \in DOMAIN worked \cup {b} |-> IF x = b THEN block_id ELSE worked[x]]
  /\ loop' = "generating" /\ mined' = b
  /\ UNCHANGED <<block_id, block_num, broadcast>>

\* The transaction with the work expires a fixed time after the head block that the miner has
\* read; on another head, whose time stamp nothing bounds, it may be too late or too early, and
\* generate_block throws.
generate_fails ==
  /\ loop = "mine" /\ Unlocked
  /\ head_block_id # block_id
  /\ loop' = "wait"
  /\ UNCHANGED <<block_id, block_num, mined, worked, broadcast>> /\ UNCHANGED vars

\* generate_block returns, or throws: then the miner starts again.
generate_returns ==
  /\ loop = "generating" /\ Unlocked
  /\ loop' = IF failed THEN "wait" ELSE "generated"
  /\ UNCHANGED <<block_id, block_num, mined, worked, broadcast>> /\ UNCHANGED vars

\* accept_block pushes the block a second time.
accept_block ==
  /\ loop = "generated" /\ Unlocked
  /\ push_any(mined)
  /\ loop' = "accepting"
  /\ UNCHANGED <<block_id, block_num, mined, worked, broadcast>>

\* broadcast_block follows unless accept_block threw.
accept_returns ==
  /\ loop = "accepting" /\ Unlocked
  /\ loop' = "wait"
  /\ broadcast' = IF failed THEN broadcast ELSE broadcast \cup {mined}
  /\ UNCHANGED <<block_id, block_num, mined, worked>> /\ UNCHANGED vars

\* "Stop mining due new block arrival": the loop compares numbers.
NumberChanged == head_block_num # block_num

\* The check after a round without a solution; if it fails there is another round.
check_head ==
  /\ loop = "mine" /\ Unlocked
  /\ NumberChanged
  /\ loop' = "wait"
  /\ UNCHANGED <<block_id, block_num, mined, worked, broadcast>> /\ UNCHANGED vars

\* plugin_shutdown sets _is_braking, which the loops look at.
brake ==
  /\ loop \in {"wait", "mine"}
  /\ loop' = "off"
  /\ UNCHANGED <<block_id, block_num, mined, worked, broadcast>> /\ UNCHANGED vars

MinerInit ==
  /\ Init
  /\ loop = "wait" /\ block_id = Zero /\ block_num = 0 /\ mined = None
  /\ worked = <<>> /\ broadcast = {}

MinerNext ==
  \/ chain_step
  \/ read_id \/ read_num
  \/ \E b \in Mine : generate_block(b)
  \/ generate_fails \/ generate_returns
  \/ accept_block \/ accept_returns
  \/ check_head
  \/ brake

\* The write thread finishes its pushes.
MinerSpec ==
  /\ MinerInit /\ [][MinerNext]_all_vars
  /\ WF_all_vars(switch_step /\ UNCHANGED miner_vars)

-----------------------------------------------------------------------------
(* Properties. *)

\* No block of the miner joins the chain with work that was done on another block than its
\* previous one, although the four reads and the generation each see a head of their own.
WorkOnPrevious == \A n \in 1 .. Len(chain) : chain[n] \in Mine => worked[chain[n]] = Parent[chain[n]]

\* To compare numbers is enough: when the id and the number that the miner has read belong
\* together, a head of that number is still the block that it works on, because the chain never
\* changes to another branch of equal height.
NumbersSuffice ==
  loop = "mine" /\ Unlocked /\ block_id # Zero /\ Num[block_id] = block_num /\ head_block_num = block_num
    => head_block_id = block_id

\* The reads of the head at several moments do no harm.
StaleReadsHarmless == WorkOnPrevious /\ NumbersSuffice
=============================================================================
