------------------------------ MODULE BlockLog ------------------------------
(***************************************************************************)
(* block_log: irreversible blocks in an append-only file, and a second     *)
(* file with the position of each block.                                   *)
(*                                                                         *)
(* Blocks are 1, 2, 3 ... in order, so a file is known by its length.  It  *)
(* is counted in pieces, because a write can be cut anywhere: a block in   *)
(* the log is two pieces of data and two of the position that follows it,  *)
(* an index entry is two pieces.  Each file has a length in the stream     *)
(* (what the program has written) and one in the file system (what is left *)
(* if the process dies); nothing is ever synced, so that a power failure   *)
(* cuts the two files independently.                                       *)
(***************************************************************************)
EXTENDS Integers

CONSTANTS MaxBlocks,      \* bound: blocks appended
          CanLosePower,   \* may the machine fail, not only the process?
          CanDeleteIndex  \* may the operator remove the index file?

ASSUME MaxBlocksAssumption == MaxBlocks \in Nat
ASSUME FailuresAssumption ==
    CanLosePower \in BOOLEAN /\ CanDeleteIndex \in BOOLEAN

VARIABLES log,        \* pieces written to block_stream
          index,      \* pieces written to index_stream
          log_file,   \* pieces in the block_log file
          index_file, \* pieces in the block_log.index file
          head,       \* number of my->head, 0 if there is none
          state,      \* "open", "closed", or "refused": open() threw
          flushed     \* history: head when flush() last returned

log_vars == <<log, index, log_file, index_file, head, state, flushed>>

LogPieces(n)   == 4 * n
IndexPieces(n) == 2 * n
Whole(pieces)  == pieces % 4 = 0

LogInit == /\ log = 0 /\ index = 0
           /\ log_file = 0 /\ index_file = 0
           /\ head = 0
           /\ state = "closed"
           /\ flushed = 0

-----------------------------------------------------------------------------
(* The loop stops when the position it has read is the last block's: the   *)
(* last block is the one whose position ends the loop.  A single block is  *)
(* at position 0, where the loop starts, and is not indexed.               *)
construct_index(n) == IF n = 1 THEN 0 ELSE IndexPieces(n)

(* Seeded fault: an index that is too long is trusted. *)
IndexMatchesLonger(n) == index_file >= IndexPieces(n)

(* The last positions in the two files are the same. *)
IndexMatches(n) == index_file = IndexPieces(n)

(* open(): a log that does not end in a whole position makes read_head     *)
(* unpack from a garbage position, and an index that is shorter than one   *)
(* entry cannot be read at all: both throw.                                *)
Readable == Whole(log_file) /\ (log_file > 0 => index_file # 1)

open_refused ==
    /\ state = "closed"
    /\ ~ Readable
    /\ state' = "refused"
    /\ UNCHANGED <<log, index, log_file, index_file, head, flushed>>

(* Both files exist and agree, or both are new. *)
open_as_is ==
    /\ state = "closed"
    /\ Readable
    /\ IndexMatches(log_file \div 4)
    /\ head' = log_file \div 4
    /\ log' = log_file /\ index' = index_file
    /\ state' = "open"
    /\ UNCHANGED <<log_file, index_file, flushed>>

(* The index is behind, ahead, cut or missing: remove and rebuild it. *)
open_rebuild ==
    /\ state = "closed"
    /\ Readable /\ log_file > 0
    /\ ~ IndexMatches(log_file \div 4)
    /\ head' = log_file \div 4
    /\ log' = log_file
    /\ index' = construct_index(log_file \div 4)
    /\ index_file' = 0
    /\ state' = "open"
    /\ UNCHANGED <<log_file, flushed>>

(* The log is new and an index exists: delete the index. *)
open_fresh ==
    /\ state = "closed"
    /\ log_file = 0 /\ ~ IndexMatches(0)
    /\ head' = 0
    /\ log' = 0 /\ index' = 0 /\ index_file' = 0
    /\ state' = "open"
    /\ UNCHANGED <<log_file, flushed>>

-----------------------------------------------------------------------------
(* The assertion on the position in the index file. *)
CanAppend == index = IndexPieces(head)

(* seekg writes out what is buffered; then the block goes to the streams. *)
append ==
    /\ state = "open"
    /\ head < MaxBlocks
    /\ CanAppend
    /\ log_file' = log /\ index_file' = index
    /\ log' = log + LogPieces(1)
    /\ index' = index + IndexPieces(1)
    /\ head' = head + 1
    /\ UNCHANGED <<state, flushed>>

(* Seeded fault: only the index is flushed. *)
flush_index ==
    /\ state = "open"
    /\ index_file' = index
    /\ flushed' = head
    /\ UNCHANGED <<log, index, log_file, head, state>>

flush ==
    /\ state = "open"
    /\ log_file' = log /\ index_file' = index
    /\ flushed' = head
    /\ UNCHANGED <<log, index, head, state>>

(* A stream whose buffer is full writes out a part of it; a flush() that   *)
(* is interrupted, or meets a full disk, does no more than that.           *)
spill_log ==
    /\ state = "open"
    /\ log_file' \in log_file + 1 .. log
    /\ UNCHANGED <<log, index, index_file, head, state, flushed>>

spill_index ==
    /\ state = "open"
    /\ index_file' \in index_file + 1 .. index
    /\ UNCHANGED <<log, index, log_file, head, state, flushed>>

(* close() destroys the streams, which flushes them. *)
close ==
    /\ state = "open"
    /\ log_file' = log /\ index_file' = index
    /\ flushed' = head
    /\ head' = 0
    /\ state' = "closed"
    /\ UNCHANGED <<log, index>>

-----------------------------------------------------------------------------
(* The process dies: what the streams had not written out is gone. *)
crash ==
    /\ state = "open"
    /\ log' = log_file /\ index' = index_file
    /\ head' = 0
    /\ state' = "closed"
    /\ UNCHANGED <<log_file, index_file, flushed>>

(* The machine dies: each file keeps some prefix. *)
lose_power ==
    /\ CanLosePower /\ state = "open"
    /\ log_file' \in 0 .. log_file
    /\ index_file' \in 0 .. index_file
    /\ log' = log_file' /\ index' = index_file'
    /\ head' = 0
    /\ flushed' = 0
    /\ state' = "closed"

delete_index ==
    /\ CanDeleteIndex /\ state = "closed" /\ index_file > 0
    /\ index_file' = 0 /\ index' = 0
    /\ UNCHANGED <<log, log_file, head, state, flushed>>

-----------------------------------------------------------------------------
LogNext == \/ open_refused
           \/ open_as_is
           \/ open_rebuild
           \/ open_fresh
           \/ append
           \/ flush
           \/ spill_log
           \/ spill_index
           \/ close
           \/ crash
           \/ lose_power
           \/ delete_index

LogSpec == LogInit /\ [][LogNext]_log_vars

-----------------------------------------------------------------------------
(* Properties.                                                             *)

(* The variables keep their types, and no file is longer than its stream. *)
LogTypeOK == /\ log \in 0 .. LogPieces(MaxBlocks)
             /\ index \in 0 .. IndexPieces(MaxBlocks)
             /\ log_file \in 0 .. log
             /\ index_file \in 0 .. index
             /\ head \in 0 .. MaxBlocks
             /\ state \in {"open", "closed", "refused"}
             /\ flushed \in 0 .. MaxBlocks

(* Whatever cut or removed the two files, an open log of more than one     *)
(* block has exactly one index entry per block: every number up to the     *)
(* head can be read, and append() finds the position it asserts.           *)
IndexComplete ==
    state = "open" => /\ log = LogPieces(head)
                      /\ head # 1 => index = IndexPieces(head)

(* A block whose flush() has returned is there after the process dies at   *)
(* any later point, and is readable whenever open() succeeds.              *)
FlushedSurvives == /\ log_file >= LogPieces(flushed)
                   /\ state = "open" => head >= flushed
=============================================================================
