# A TLA+ verification of the XGT node

XGT (`libraries/`, `programs/xgtd`) is a proof-of-work chain descended from
Steem.  A node keeps the chain state in RocksDB through chainbase/mira, keeps
recent blocks of all branches in a fork database, writes irreversible blocks to
an append-only block log, and lets one write thread change all of this.  This
directory holds TLA+ models of those parts, TLC runs on small instances, and
TLAPS proofs for all instances.

## 1. Inventory

| Component | State | Operations | Hard behaviour | What makes it correct |
|---|---|---|---|---|
| chainbase `generic_index` (`libraries/chainbase`) | objects by id, next id, stack of undo states, revision | emplace, modify, remove, start session, undo, squash, commit, undo_all, set_revision | differences must add up at any nesting of sessions; uniqueness while restoring | undo restores the start of the session exactly; revisions are consecutive |
| chainbase locks | shared mutex, two counters | with_read_lock, with_write_lock | readers against the writer, 60 s timeouts | one writer or many readers |
| fork database (`libraries/chain/fork_database.cpp`) | `_index`, `_unlinked_index`, weak `prev` pointers, `_head` | push_block, _push_next, pop_block, set_head, remove, set_max_size, fetch_branch_from, fetch_block_on_main_branch_by_number | blocks out of order, expired pointers, head that is no longer in the index | branches are walked parent by parent; the head is the highest linked block |
| chain database (`libraries/chain/database.cpp`) | head block, last irreversible block, undo sessions | push_block, _push_block (fork switch), apply_block, pop_block, migrate_irreversible_state, open, close, reindex | failure in the middle of a switch, restarts, crashes | every block is applied on its parent; a failed push changes nothing; what is committed stays; state and log tell one history |
| pending transactions (`db_with.hpp`, `database.cpp`) | `_pending_tx`, `_popped_tx`, pending session, known transactions | push_transaction, without_pending_transactions, clear_pending | restoring what a block or a switch took back, in 200 ms | no transaction takes effect twice, none is lost |
| block producer (`libraries/plugins/witness/block_producer.cpp`) | the block under construction | generate_block, apply_pending_transactions | shares the pending session | a generated block applies |
| block log (`libraries/chain/block_log.cpp`) | log file, index file, cached head | open, append, flush, read_block_by_num, construct_index | torn and lost writes of two files | an opened log can be read and appended to; flushed blocks survive |
| chain plugin (`libraries/plugins/chain`) | write queue, write thread, shutdown | accept_block, accept_transaction, generate_block, start/stop_write_processing | pointers into other threads' stacks; requests racing the shutdown | each request runs once and is answered; shutdown ends and closes last |
| witness plugin (`witness_plugin.cpp`) | the head id, number, time and target that the miner has read | schedule_production_loop, block_production_loop, start_mining, plugin_shutdown | state read under four locks and used much later; a block pushed twice | no block joins the chain with work for another; work is for the head as long as the number agrees |
| operation evaluators (`xgt_evaluator.cpp`, `xtt_evaluator.cpp`), end of a block (`database.cpp`) | wallets, balances, witnesses, escrows, comments, mining target, tokens | one evaluator per operation; rewards, clearing of the null wallet, difficulty | three parties and two deadlines of an escrow; names that are reused; unchecked time stamps | XGT is conserved; money moves by those who may move it; one reward per block; threads stay whole |
| mira (`libraries/mira`) | RocksDB columns, object cache | multi-index containers on RocksDB: insert, modify, erase, find, bounds, iterators; trimming of the cache | a cache shared by all indices, filled by readers; no write-ahead log | unique keys; a read by any index sees the present object, whatever is cached; a flushed state is some earlier state |
| p2p: synchronisation (`libraries/net/node.cpp`, `libraries/plugins/p2p`) | per peer: ids to get, ids requested; received blocks; backlog task | synopsis, id lists, requests, backlog | peers with different chains, replies to old synopses, dropped peers, a task that may miss its wake-up | a block is fetched and handed on once; lists are lines; in sync means knowing the peer's head as of its reply, and being told the rest |
| p2p: inventories | per peer: advertised, announced, requested; items to fetch, failed items, message cache | announce, fetch, process, broadcast, time out | several peers announce the same item; timeouts | fetched once, not again after a refusal, asked of another after a timeout; news reaches everybody |
| p2p: connections (`peer_connection.cpp`, `peer_database.cpp`) | four lists of connections, potential peers, firewall checks | connect loop, accept loop, handshake, closing, timeouts | simultaneous connections, half-done handshakes | one accepted connection per node; none hangs in its handshake or its end |
| index plugins (`wallet_history`, `transaction_status`, `wallet_by_key`, ...) | a RocksDB of their own, tables in the chain state, flags in memory | handlers of block signals | three stores that are taken back differently; copies taken before an operation that may be refused | complete after forks, failures and restarts; an entry of a key names a wallet that has it |
| appbase, json_rpc, webserver, APIs, utilities, schema, protocol | configuration, connections, serialisation | start, stop, requests | I/O | |

How they interact: p2p, API and mining threads put requests into the chain
plugin's queue and wait.  The write thread takes one request, holds the write
lock, and calls `database::push_block`, `push_transaction` or the block
producer.  `push_block` first moves the pending transactions away (restorer),
then asks the fork database for the new head, and extends the chain or switches
forks; each applied block opens an undo session in every `generic_index`, each
popped block undoes one.  Applying a block appends what became irreversible to
the block log and commits the undo sessions below it.  `close()` undoes all open
sessions and flushes; `open()` and `reindex()` put state, fork database and log
together again.  The network threads keep their own view: blocks fetched during
synchronisation and items fetched from inventories end in
`p2p_plugin::handle_block` and `handle_transaction`, which go through the same
queue.  The index plugins run inside `apply_block`, through its signals.

`PROJECT.json` lists the hazards of this code line by line.

## 2. Modules

| Module | Models | State | Actions |
|---|---|---|---|
| `SnapshotStack` | nothing in the code: the abstract promise of an undo-able table | table, full copies, revision, broken | Change, Start, Undo, UndoFails, Squash, Commit, SetRevision |
| `UndoIndex` | `generic_index` | `_indices`, `_next_id`, `_stack`, `_revision` | one per member function; `undo_all` is a loop of `undo` |
| `MiraIndex` | `mira::multi_index_container` under `UndoIndex`: columns, object cache, first keys, iterators | `mira`: `primary`, `secondary`, `cached`, `by_key`, `first_id`, `first_key`, `count` | every action of `UndoIndex` with what it does to the container; `read`, `trim_cache`, `reopen` |
| `ForkDatabase` | `fork_database`, as operators on a record | `index`, `linked` (items whose `prev` is set), `unlinked`, `head`, `head_linked` | operators for every member function |
| `ChainDatabase` | `database::push_block` and everything below it; composes `ForkDatabase`, the undo stack, the block log, the flushed state | `chain`, `undoable`, `log`, `fd`, `disk`, `pc`, `switch` | push (refused, direct, kept, switch), one action per pop and per applied block of a switch, close, crash, open, reindex |
| `PendingTransactions` | `_pending_tx`, its session, the restorer, the producer | `pending`, `open`, `applied`, `popped`, `waiting`, `late`, `chain`, ... | push_transaction, accept_block, the outcomes of a push, put back one transaction, generate |
| `WriteQueue` | chain plugin's queue, write thread and shutdown, chainbase's locks | `queue`, `client`, `writer`, `cxt`, `readers`, `write_lock_count`, `main` | accept, answered, take, lock, lock_timeout, execute, unlock, lock_read, unlock_read, plugin_shutdown, join, destructor |
| `BlockLog` | `block_log` and the two files under it | lengths of the streams and of the files, `head`, `state` | open (four cases), append, flush, close, partial writes, crash, power failure, removed index |
| `Miner` | the mining loop over `ChainDatabase` | `loop`, `block_id`, `block_num`, `mined`, `worked`, `broadcast` | read_id, read_num, generate_block, generate_fails, generate_returns, accept_block, accept_returns, check_head, brake, and every step of the chain |
| `BlockObservers` | `wallet_history` and `transaction_status` over `ChainDatabase` | `stored`, `replayed`, `tracking`, `statused` | every step of the chain with what the two plugins do in it |
| `KeyLookups` | `wallet_by_key`, which follows the operations that change authorities | `key_lookup`, `cached_keys`, `shared` | `wallet_create`, `wallet_update`, refused updates and pow with what the plugin does before and after them |
| `Ledger`, `Comments`, `Authorities`, `KeyLookups`, composed by `Evaluators` | evaluators of wallets, transfers, escrows, pow, comments, wallet updates; the end of a block | `wallets`, `witnesses`, `balance`, `escrow`, `comment`, `authority`, `mining_target`, ... | one per evaluator, `end_of_block` |
| `Authorities`, its operators | `sign_state::check_authority_impl`, `verify_authority` | none: what approvals and counts are passed on from one check to the next | `check_authority_impl`, `verify_authority` |
| `NetSync` | synchronisation with peers, in `node_impl` and the p2p plugin | `peer`, `_active_sync_requests`, `_received_sync_items`, `_new_received_sync_items`, `backlog`, `client`, `remote`, ... | one per message handler, loop and timeout |
| `NetGossip` | inventories, fetching, broadcasting | `peer`, `_items_to_fetch`, `_recently_failed_items`, `_new_inventory`, `_message_cache`, ... | one per message handler, loop and timeout |
| `NetConnections` | connections, handshake, potential peers, firewall checks | `conn`, `_potential_peer_db`, `_add_once_node_list`, `connect_loop`, ... | one per message handler, task, loop and timeout |
| `MC*` | the instances that TLC checks | | |
| `UndoIndex_proofs`, `ChainDatabase_proofs`, `ChainPlugin_proofs`, `Evaluators_proofs`, `NetConnections_proofs`, `NetGossip_proofs`, `NetSync_proofs`, `PendingTransactions_proofs` | TLAPS proofs | | |

Abstractions.

* An object is a value with a unique key; a block is a name with a parent and a
  number; a transaction is a name with the transactions it builds on, the things
  it uses up and an expiration.  In the chain modules what evaluators do is
  abstracted to whether a block or transaction applies; `Evaluators` models it.
* `ChainDatabase.chain` is the chain state: the sequence of blocks whose effects
  the state holds.  `UndoIndex` justifies this: one `undo()` takes back exactly
  one session.  `Bad` is the set of blocks that do not apply on their parent; on
  another state either outcome is possible (`MayApply`, `MayFail`), because
  `validate_block_header` is commented out (`database.cpp:1537`).
* `linked` and `head_linked` keep apart what `fork_item::prev` keeps apart: an
  item can be in the index while the weak pointer to its parent is unset or
  expired, and `_head` can outlive its entry in the index.
* In `PendingTransactions` and `Ledger` the time stamp of a block is any member of
  `Times`, also an earlier one than its parent's: the header validation is commented
  out, and `check_time_in_block` bounds it from above only.  Expiration, the limit on
  how far ahead it may be, and the index of known transactions are those of the code.
* In `BlockLog` a file is a length in pieces, since blocks are written in order;
  pieces are smaller than a position, so that every torn write is there.
* In the network modules a block is a name with a parent, a synopsis and a list
  of ids are sequences of names, a timeout is an action that may happen whenever
  the code tests for it, and ages of inventory entries are small counters.  The
  tasks of the p2p thread are cooperative: what runs between two yields is one
  action.  Peers follow the protocol but may stop, leave, refuse and reconnect, and
  send messages out of turn, which count as disturbances.
* In `MiraIndex` a table has two indices, by id and by key.  A cached object is named
  by its id, since both maps of the cache share it.  All tables share one list of
  recently used objects, so that trimming may take any object of this one.  A write
  batch of RocksDB is atomic, and every write succeeds.
* An operation whose assertions fail has no effect (`UndoIndex`); signatures are
  the `signer` of an operation, and `Authorities` checks apart from the operations
  what any set of keys would be granted.  There every weight is 1, a wallet's name
  stands for the key it is the hash of, and the social authority is left out: it is
  set and checked like the money authority, with one more to fall back on.  A transaction of several operations is what
  `unchecked` stands for: after a `wallet_create` the rest of the transaction is not
  compared with its signatures (`database.cpp:1890-1894`), so that a `wallet_update`
  may follow that nobody entitled has signed, also of a wallet that it creates itself
  (the branch "Upsert").
* In `NetSync` a reply has a head of its own: `remote` keeps what the peer has and what
  it had when it answered, and the peer moves on between the two.
* The miner's work is the choice of a moment: `generate_block` may happen
  whenever the loop is hashing.
* History variables (`saved`, `rekeyed`, `push`, `failed`, `owed`, `hurried`,
  `runs`, `flushed`, `worked`, `signer`, `issued`, `rewards`, `judged`,
  `orphaned`, `shared`) are read by properties only.

Operators whose comment begins "Seeded fault" are faulty variants of the
definition that follows them; `PROJECT.json` says which property notices which.
No action uses them.

## 3. Runs

Every module states its invariants as named parts, each with a comment; the
invariant `...Sound` of a run is the conjunction of the parts that belong
together, its type invariant included.

Runs that pass:

| Run | Instance and bounds | Shows |
|---|---|---|
| `undo_index` | ids 0..2, four contents with three keys, two nested sessions, revisions up to 3, one content (`Wide`) outside nested sessions only | `ContainerSound`: columns, count and first keys are those of the table (`ColumnsAgree`), and lookups, bounds and walks in both directions by either index show it whatever is cached (`ReadsRight`), also after refused changes and undo; `ThrowsOnlyIfRekeyed`, and `ImplementsSnapshots`: the index implements `SnapshotStack`.  Three ids and keys are needed for a key that moves from one object to another past a third; deeper nesting is left to the proofs |
| `chain_forks` | two branches of 3 and 4 blocks and a third that leaves the first, all arrival orders, irreversible at depth 3, transaction tracking that begins in the middle | `ChainLinked`, `OneHistory` (state, block log and lookups by number agree), `ExtensionAccepted` (here every block applies, and no exception of it comes up), `HeadIsHighest`; `ObserversOnChain`: wallet_history holds permanent blocks only, transaction_status misses no transaction although switches pass the block at which tracking begins |
| `chain_badblock` | a branch with an invalid last block and a valid sibling of it, and a miner with two blocks of its own | `FailedPushUnwound` ("every partial change is unwound"); `ExtensionAccepted`: a valid block on the head is turned down only when a cached child that it links fails, and then stays in the fork database, or when the fork database has lost the head (section 5); liveness `SwitchEnds`; `StaleReadsHarmless`: no block joins the chain with work for another (`WorkOnPrevious`), and comparing numbers is enough (`NumbersSuffice`) |
| `chain_faults` | six blocks, one invalid, irreversible at depth 1, clean and unclean shutdown at every step | `NumbersMatch`, `CommittedNeverUndone`; `ObserversComplete`: after any start that succeeds wallet_history has every irreversible block and transaction_status every trackable one |
| `pending_transactions` | a transaction, one that builds on it, a rival, a pow; chains of 3 blocks with time stamps before or after the expiration of two of them, in any order; two pending | `AppliedOnce` (nothing takes effect twice unless time stamps have gone back over its expiration), `NothingLost`, `GeneratedApplies`, `RestoreApplies` |
| `write_queue` | three clients, two readers, a quit signal, lock timeouts | `QueueSound` (no dangling pointer in the queue, `AnsweredOnce`, closed after the last write), and liveness `RequestsServed`, `ShutdownEnds` |
| `block_log` | five blocks, all failures | `IndexComplete`, `FlushedSurvives` |
| `net_sync` | a chain of two blocks with a fork of two after its first, the first of the fork refused; two peers, one that moves to the fork and one that stays on it; lists of two ids per reply, one disturbance | `RequestsSound` (a block is requested and stored once, prefetching is bounded), `ListsSound` (each list is a line of blocks; the reference point of a peer that stays on its branch is known), `InSyncKnowsHead` (the reply that ends the synchronisation may be older than the peer's chain: the node then has the head of that moment, and the peer has noted to announce what came after), and liveness `ArrivedBlocksTaken` |
| `net_gossip` | two peers, one in synchronisation, each of which may ask for block ids and be found behind or up to date at any moment; two blocks and a transaction, among them one refused and one that does not link | `InventoriesSound` (fetched once, not again after a refusal, advertised only when accepted and never echoed, bounded), and liveness `NewsSpreads`, `GivenUpAskedElsewhere` |
| `net_connections` | three connection objects, three nodes, one a stranger behind a firewall, one inbound connection, one firewall check, two disturbances | `ConnectionsSound` (`ActiveAccepted`: a connection that this node opened or whose negotiation is complete is active only when both have accepted; `OneConnectionPerNode` among those it accepted; `OneOutbound`; `ChecksRelayedOnce`), and liveness `Settles` |
| `evaluators` | six wallets, two of them new (the second for operations on wallets only), supply 3, one escrow per sender, three blocks around the change of the reward rule and of the difficulty, three comments; six operations on money, or one and three of mining, or five on comments, or in one block three on wallets, or two and a proof of work.  Of wallets: every set of keys as signatures, for one wallet or two; recursion to depth 2, three members, four wallets in a check; an update gives one authority to a wallet that exists, and both to one that it creates; the null wallet is not updated | `StateSound` (conservation, stages of escrows, nothing negative), `OneReward`, `ThreadsSound`, `VerdictsRight` (signatures are granted what they are worth: nothing more through cycles or earlier approvals, nothing less within the limits), `KeyLookupsRight` (an entry of wallet_by_key names a wallet that has the key, after refused and unchecked operations too), and the action properties `MovesPermitted`, `Retargets` |

One run finds a disagreement between the code and what the repository says of it
(`findings` in `PROJECT.json` quotes the lines):

| Run | Property violated | What happens |
|---|---|---|
| `stale_fork_head` | `ChainLinked` | A block that fails is removed from the fork database, but `_head` stays on it.  Here it is the miner's own block: the miner has read the id of the head, another block arrives, and the block generated on top of that carries work for the old head and fails.  A later block is compared with the stale fork head and applied although its parent is not the head of the chain |

`ChainLinked` also is an invariant of `chain_forks`: it holds as long as no block
fails.  The constants of the two configurations show the difference.  In the same way
`ExtensionAccepted`, `AppliedOnce`, `ActiveAccepted` and `Settles` leave out a case in which the
code does not do what its comments say; section 5 describes these four.

Bounds and deadlock.  The arrival of blocks, `write_lock_count`, revisions and
lengths are bounded by the instance only; `MaxPending`, `MaxBlocks`, `MaxDepth`,
`MaxRevision`, `Wide`, `MaxOps`, `LastBlock`, `MaxInventories`, `MaxInbound`,
`MaxChecks` and `MaxDisturbances` appear in guards; updates that are refused come after the
first operation on wallets.  A disturbance is a lost
connection, a timeout of an answering peer, a peer that falls behind or a message out of turn; one of them
at any point, with two peers, reaches each handler of failures in each of its
states.  Deadlock is checked for `ChainDatabase` and `BlockObservers`, where a
push is always possible or a restart is.  It is switched off where the bounds end
the behaviour (`MiraIndex`, `PendingTransactions`, `Evaluators`, the network
modules), where `open()` may refuse a log for good (`BlockLog`), and where the
process may end (`WriteQueue`).  Symmetry is used in `evaluators` only, between
wallets that exist and play no special role; its properties are invariants and
action properties.  Once an operation on wallets was applied the run has a view without the
variables that such operations neither read nor change, and the blocks after it are not
followed (`Bounds`).  Elsewhere the branches of a tree or the peers differ, or the
run checks liveness.

Fairness.  `ChainDatabase` and `Miner`: weak fairness of `switch_step`, as the
write thread does not stop between two blocks of a switch.  Nothing is assumed of
arrivals, shutdowns and crashes.  `WriteQueue`: weak fairness of the write
thread, of a thread in `join()`, of a shutdown that `app().quit()` has asked for,
and of the end of what runs under a read lock.  Clients, signals and timeouts are
not fair.  boost's `shared_mutex` lets no new reader in while a writer waits,
which is why the write thread gets its lock.  `NetSync`: the p2p thread runs a
task that is scheduled.  `NetGossip`: tasks that were woken run, a request is
answered or times out, a closed connection ends.  `NetConnections`: the loop that
ends inactive connections runs every second, so that a handshake or a close that
is not answered times out; the read loop of a socket that was shut ends; and a
connect or an accept that is under way on a connection being ended comes to its end.
No peer is assumed to answer.

## 4. Proofs

All with TLAPS, for every value of the constants.

**`UndoIndex_proofs`.**  `Implements`: the differences kept by `generic_index`
implement the full copies of `SnapshotStack`; also `DifferencesAlwaysExact`,
`UndoThrowsOnlyIfRekeyed`, `IdsAndKeysAlwaysUnique`, `RevisionsAlwaysConsecutive`
and `TypeCorrect`.  `DifferencesExact` is not inductive: to merge "removed" with
"created" in `squash()` one has to know that an id is not handed out twice, and
to undo without a clash one has to know that keys agree before and after.  The
predicate `Differ` adds both (an object that is in use after a session but not
before has an id from that session; objects in both have one key unless some
key was changed), and `IndInv` states `Differ` for every session and `Good`
(unique keys, unused ids) for every table.  There is a lemma per operation on a
single difference (`DifferCreate`, `DifferModify`, `DifferRemove`, `DifferUndo`,
`DifferMerge`, `DifferNoClash`) and a lemma per action on the stack.
Assumptions: `None` is not a content, and the bounds are natural numbers.

**`ChainDatabase_proofs`.**  `NumbersAlwaysMatch`, `SwitchAlwaysOnBranch`,
`LogAlwaysCommitted`, `CommittedIsFinal`, `TypeCorrect`, for every tree
of blocks, every set of invalid blocks, every depth of irreversibility, with
shutdowns and crashes.  The inductive invariant is
`ChainOK /\ ControlOK /\ SwitchOnBranch`: the n-th block of the chain and of the
log has number n, the log is not longer than what is committed unless there was
a crash, and during a switch the remaining blocks form one branch on the current
head.  The last part is what makes the first inductive: nothing in `apply_block`
compares the block with the head, and only the assertion in
`migrate_irreversible_state` on the fork database's head and the shape of the
branch keep the numbers in step.  Assumptions: a block's number is its parent's
plus one (`block_num()` computes it from `previous`), `Path` is the set of a
block's ancestors with itself, and the trunk that the instance starts with is
numbered from one and linked.

`ChainAlwaysLinked`, `LogAlwaysOnChain` and `SwitchesComplete` are proved for `Regular`
instances: no block fails to apply, there is no crash, and the fork database is at least as
large as what is reversible (1024 against 10 in `config.hpp`).  The first is false when a block
fails (run `stale_fork_head`).  `apply_block` does not look at `previous`, so that the
fork database alone keeps blocks on their parents, and `LinkInv` says how:

- `NoChildLeft`: between pushes the head of the fork database is no child of our head.  A block
  pushed beside such a child would be applied in its place, since it is the pushed block and
  not the head of the fork database that is applied.
- `ForkLinked`: live pointers lead to items of the index, and a cached block waits for its
  parent, which is not there.  So a head that builds on ours is the block just
  pushed and not one adopted from the cache (`DirectNext`).
- `HoldsChain`: no pointer above the end of the block log has expired, and the reversible
  blocks are there.  Then the main branch is the chain with the new block (`MainBranch`),
  which gives the assertions of `migrate_irreversible_state` and the block log
  (`NextMigrates`).  `set_max_size` keeps this up (`TrimLinked`).

`HeadAlwaysHighest` and `ExtensionsAccepted` need in addition that forks are shallow
(`Shallow`): a branch that is higher than a block agrees with what that block makes
irreversible; there is a first block, something is reversible, and there are no restarts.
`chain_forks` is such an instance.  The second gives `ExtensionAccepted` without its
exceptions: the head of the chain stays in the fork database (`HeadKnown`), and no block that
extends it is turned down.  Where blocks fail both are false, and TLC checks what is left
(`chain_badblock`).  `TopInv` says that the
log ends where the undo stack ends, that the head of the fork database is ours and nothing is
higher between pushes (`TopIdle`), that the blocks left in a switch contain one that
nothing is higher than (`TargetIs`), and that the fork point is no lower than the log
(`TopPop`), so that neither the undo stack nor a pointer of the fork database runs out while
blocks are popped.  `ForkFound` shows that a higher branch always has such a fork point.
`RecentLookupsOnChain` is `LookupsOnChain` from the end of the log on (`MainIsChain`); section 5
says why not below.

The module goes on to the two specifications over the chain.
`HistoryAlwaysComplete` and `ObserversAlwaysComplete` are about `BlockObservers`.
`HistoryInv` covers the state in memory and the one that a crash would leave, and says
that the blocks `reindex()` has applied, which leave no volatile operations behind, stay
below the undo stack.  `StatusInv` asks for the statuses from `Earliest(Base)` on, not
from the earliest number of the present head: pops make the range begin lower, and
`Base` is how far they can go.  The second theorem has a hypothesis, `StatusOption`:
tracking begins with the first block, as by default, or the node is not restarted; without it
the theorem is false (section 5).  `MinedWorkFits` is the first half of
`StaleReadsHarmless`.  It rests on where blocks can come from: a push adds one block to
what the chain, the fork database and a switch hold (`PushPresent`), a step of a switch
none (`SwitchPresent`), and neither applies a bad one.  For the lowest block of a branch,
which only a live pointer holds, this takes the least number above it on the path
(`BranchOfItems`).  Assumption: the miner's blocks are not part of the trunk.

`ObserversAlwaysOnChain` (for `Regular` instances with `StatusOption`) and
`StaleReadsAlwaysHarmless` (for `Shallow` ones) carry `LinkInv` and `TopInv` over to the two
specifications.  What wallet_history has imported is below the oldest undo session
(`StoredFinal`), since an application imports no more than it commits, and no application fails
after importing.  The head at the end of a push is the one that the miner has read or a higher one
(`ReadInv`): a switch under way has a block left that is higher (`Outgrown`).  With no bad
blocks the miner generates only on the block it has worked for; that stale work does no harm
is what `MinedWorkFits` says for any set of bad blocks.

**`ChainPlugin_proofs`**, the block log: `IndexAlwaysComplete`, `FlushedAlwaysSurvives`,
`LogTypeCorrect` for any number of blocks.  The invariant adds that a closed log
has nothing buffered and that a log of one block may have an empty index.

The type invariants, `DifferencesExact`, `RevisionsConsecutive`, `IdsAndKeysUnique`,
`LogCommitted` and `SwitchOnBranch` of `UndoIndex`, `ChainDatabase` and `BlockLog` are in no
run any more: they are proved for every instance.

**`ChainPlugin_proofs`**, the write queue: `AnsweredOnceTheorem`, `ClosedAfterWritesTheorem` and
`QueueSoundTheorem` for any number of client and reader threads; the last with
stop-at-block unset, since with it the write thread asks itself to stop (section
5).  `ThreadInv` says that the lock counter counts the readers and the writer,
and that the write thread works for a client that waits and whose request has not
run: the second is what makes `AnsweredOnce` inductive, because an answer is given
for whatever the thread has in hand.  `QueueInv` (`Handed`) states "exactly once"
without counting: queued messages differ from each other and from the one in hand.
`Cardinality` comes back in one last step (`HandedIsOnce`).  Assumptions: clients and
shutdown messages differ, and the readers are finitely many.

**`Evaluators_proofs`.**  For any wallets, amounts, deadlines, comments, authorities
and sequences of operations and blocks.  There is an inductive invariant for each
part, one lemma per operation.

- `OneRewardTheorem`: `RewardInv` adds that a pow below `PowChange` in the block being
  applied is not for the head itself; when the rule changes within a block, the two
  rules ask for work on different blocks, and a pow that was rewarded at once makes the
  block invalid instead of being rewarded again.
- `EscrowStagesTheorem`, `HoldersExistTheorem` and `ReleasesPermittedTheorem`:
  `MoneyInv` is their conjunction with the types of the tables; the end of a block needs
  `MinersInv` as well, that whoever may be the miner of a block has a wallet.
- `ConservedTheorem`, `MovesPermittedTheorem`: `SumsInv`, that the balances are naturals
  and the sums agree, with `MoneyInv` (an escrow that is released or rejected holds what
  is paid out) and `RewardInv`.  What a sum over a finite set is when one term changes,
  appears or goes (`SumMoved`) is proved from the definition of the fold, and that
  a reward is a natural number from the recursive `divisor`.
- `RetargetsTheorem`: `TargetInv`; the bounds of a product and quotient of variables
  (`TimesMonotone`, `QuotientBounds`) are lemmas of their own.
- `ThreadsSoundTheorem`: `CommentInv` says that a reply is one below its parent, which
  exists, and in its thread, that ids differ, and that no count is short.  Deletions
  break the counts from above only: the comment that goes has the count 0, so it has no
  replies, and its parent had counted it.  `AncSame` (ancestors are the same in two
  tables that agree on them) is what every step uses; that the thread ends at the
  recorded root is an induction on depths.
- `KeyLookupsRightTheorem`: `KeyInv` adds that every wallet has its authorities and that
  `shared` has seen every sharing, which is what lets an entry go with its key.
- `StateSoundTheorem`: from all of them.

Induction over numbers and finite sets is done with sets in place of predicates
(`NatInduct`, `SubsetInduct`): a set of naturals that misses one has a smallest that it
misses, by `WFMin` and the library's well-founded orderings.  Assumptions:
`LedgerAssumption` and `CommentAssumption`, natural amounts and numbers, finitely many
names, escrow ids and posts.

**`NetConnections_proofs`.**  `ConnectionsSoundTheorem`: all of `ConnectionsSound`,
without the bounds on connections, nodes, inbound connections, checks and
disturbances.  The invariant of one connection (`ConnOK`) relates the message that is
awaited to what both sides have said so far, so that the last message of the handshake
finds both accepted or is the end; and says that a connection that this node has asked
to close no longer counts.  A connection that became active early, by asking for block
ids, goes on with its handshake there: the same relation holds of it, and nothing is
claimed of its acceptance until the negotiation is complete.  The invariant of two (`Apart`) states uniqueness for every
connection that the node has accepted, active or not: `OneConnectionPerNode` is not
inductive, because two handshakes with one node run at the same time and the test is
made three messages before the connection becomes active.  Most actions only take from
a connection what it holds (`Weaker`), which one lemma covers (`Weakened`); the others
open connections (`Opened`) or pass a check on (`Forwarded`).  Assumptions: the nodes
that are configured, gossiped or call are nodes or this one, and `None` is none of
them.

**`NetGossip_proofs`.**  `InventoriesSoundTheorem`: all of `InventoriesSound`, without the
bounds on messages and disturbances.  `OneFetch` is not inductive: an announcement is
compared with the requests of active peers only.  `PeerOK` says that what a peer on its
way out has been asked for is orphaned, which is the exception the property makes;
`FetchOK` holds requests, queue and failed items apart; `RestOK` says that blocks that
were accepted lately are none that the client refuses, which is why they may pass
without being handed to it.  The handler of an inventory message is a fold over its ids:
`Handling` is the invariant of its intermediate states (nobody leaves, nothing is
requested), and `HeardAllKeeps` carries it through the fold by induction over the
subsets of positions.  That a pass of the fetch loop asks a peer for one item only
follows from the order of the queue (`BeforeTotal`).  Assumptions: blocks and
transactions differ, only blocks can fail to link, the client does not refuse what it
made, lifetimes in the order of `config.hpp`.  The attempt showed that a part of `NoEcho`
was too strong (section 5).

**`NetSync_proofs`.**  `RequestsSoundTheorem` and `ListsSoundTheorem`, for any tree of
blocks, any peers whose chains grow or move to forks, any refused blocks and limits, and
any number of disturbances.  Neither property is inductive.

- `PeerOK` is the invariant of one connection.  `ListsSound` says that the ids still to be
  fetched from a peer are a line of blocks; for a reply to continue that line, `PeerOK`
  relates the synopsis that was sent, the head that the peer had when it answered and the
  list as it was in between.  The reply may be older than the peer's chain
  (`RemotePeerOK`): `AnswerStep` notes the head, `HeadMoves` that the peer's moving on leaves
  what was answered as it is.  The lemmas about `PeerSynopsis` show the code's assertion that
  the synopsis ends in the last id of the list (`node.cpp:2400`), and `NewListsOK` that a
  reply is joined to the list at a common id.
- `FetchOK` holds requests, what was received and what is being handled apart, and states
  "once" of each of the three stores; prefetching is bounded by their sum.
- `fetch_sync_items_loop` goes over the peers and requests for each what nobody has been asked
  for yet.  `Pass` is the invariant between two peers of one pass, and `RequestAllKeeps`
  carries it through the fold by induction over subsets of positions; `FirstFew` shows that a
  pass asks for no more than there is room for.
- The halving that picks the block numbers of a synopsis, and paths, are recursions over
  numbers.  What they compute is proved by `NatInduct`, as above, from the equations
  of the recursive function.

Assumptions: `ChainsAssumption` (a path is that of the parent and the block itself),
`PeersAssumption` (finitely many peers, whose heads are blocks) and `LimitsAssumption` (the
limits of `config.hpp` are natural numbers, and one accepted block at least is remembered).  The attempt showed that the
reference point is known for peers that stay on their branch only (section 5).

**`PendingTransactions_proofs`.**  `AppliedOnceTheorem`, `GeneratedAppliesTheorem`,
`RestoreAppliesTheorem` and `NothingLostTheorem`, for any transactions and dependencies between them, any
blocks that arrive and any depth of fork switches.  None of these properties is
inductive.  `SwitchKept` says that every block of the chain applied on top of those
below it, and the same of the chain from before a switch (`Old`: what the switch has
left, then the popped blocks), which every step of a switch leaves as it was; the
blocks that a failed switch puts back are the next ones of `Old`.  `AppliesFresh` is
why the first gives `NoTransactionTwice`: a transaction that is in effect and applies
again has been forgotten, by a block whose time stamp was past its expiration, and the
head has a time stamp before it.  Time stamps are any numbers in any order.  `BlockTried` relates the
producer's block to the session that it is tried in, and `SessionAway` says that
nothing is in effect on top of the chain while blocks are pushed.

`NothingLostTheorem`: once a push is over, a transaction that was pending or in a
popped block, and is in neither place now, does not apply to the state as it is.  That
it did not apply when it was tried says less: something tried after it could have made
it apply.  `LostInv` excludes this by the order.  What is still to be put back, the
popped transactions and then the waiting ones, is in an order in which each comes after
what it builds on (`OrdIn`); pops keep it because every block was valid on those below,
and a failed switch returns to the same chain.  So what a transaction builds on has had
its turn before it (`Tried`), and one that fails at its turn cannot succeed later
(`SettledMore`).  Nothing is claimed after a push that ran out of time (`hurried`), where
the order is lost.  Assumptions of the module: expirations are natural numbers, blocks are
sequences of transactions.

Only model-checked: liveness under fairness (`SwitchEnds`, `RequestsServed`,
`ShutdownEnds`, `ArrivedBlocksTaken`, `NewsSpreads`, `GivenUpAskedElsewhere`,
`Settles`), the part of `OneHistory` about lookups below the block log (false in general:
section 5), `FailedPushUnwound` (it is about blocks that fail, and holds while every block is
reversible), the same properties of `ChainDatabase` where a block fails, `VerdictsRight` of
`Authorities` (the check is a recursion over authorities),
all of `MiraIndex`, and `InSyncKnowsHead` of `NetSync`, which compares the synopsis that a
peer was sent with the head at the time of its answer: a switch of the client between the
two that is deeper than the synopsis is dense is not excluded in general.

## 5. Further observations

Met while modelling, and not the subject of a run.  The first four are counterexamples of
TLC to definitions that the modules keep beside the property that does hold:

* `HeadKnown` in `chain_badblock`.  The stale fork head of section 3, and the head of the chain
  arrives once more: an API call, for instance, pushes whatever it is given.  The removed child
  builds on our head, so the duplicate takes the direct path, is applied on itself, fails the
  assertion at `database.cpp:2424` and is removed from the fork database.  The chain then
  stands on a block that no other can link to, although `fork_database.hpp:41` says "As long
  as blocks are pushed in order the fork database will maintain a linked tree of all blocks
  that branch from the start_block".
* `NoDuplicate` in `pending_transactions`.  A block with a late time stamp makes
  `clear_expired_transactions` (`database.cpp:2474`) forget a transaction of the chain; after a
  block with an earlier one it has not expired, is not known, and applies again.  The comment
  at 2471 says "Transactions must have expired by at least two forking windows in order to be
  removed."; no header check compares time stamps (the calls at 1537 and 2314 are commented
  out, `chain_plugin.cpp:689` is an upper bound only).
* `HandshakeDone` in `net_connections`.  An inbound peer that asks for block ids before its
  hello, or after it was rejected, is moved to the active list although neither side has
  accepted: the branch at `node.cpp:2314-2331`, commented "handshaking is done", tests only the
  direction and the list.
* `AllSettle` in `net_connections`.  A connection whose accept failed is put on the terminating
  list, which holds connections that wait "for the OS to notify us that the socket is really
  closed" (`node.cpp:473`).  It has no read loop that would notice, and the test that should delete it
  (`node.cpp:1428`) wants a `connection_terminated_time` that `peer_connection.cpp:397` sets
  only if it was set before.

Of the write path:

* `lock_read` passes `_write_lock_count` to `counted_shared_lock`
  (`chainbase.hpp:1088`), so that `require_write_lock` is satisfied under a read
  lock and `_read_lock_count` is never used.  The model counts as the code does.
* The index of a log with exactly one block is rebuilt empty
  (`block_log.cpp:268`), and the next `append` fails its assertion (140).
  `IndexComplete` leaves this case out.
* After a restart the fork database holds one block without a parent; a block
  that arrives before its parent can then make the push of that parent throw,
  although `fork_database.hpp:54-55` allows for out-of-order arrival.
* `undo()` writes old values back while new objects still hold their keys
  (`chainbase.hpp:385-399`), and throws half way if a key was changed and then
  reused.  `ThrowsOnlyIfRekeyed` says that this is the only way.
* `clear_pending` asserts that pending transactions imply a session
  (`database.cpp:865`); the restorer puts transactions off without one.
* A transaction that is put off may end up ahead of one that it builds on, and
  one that is put off again and again is kept twice.

Chain:

* A longer fork from below the last irreversible block pops every undo session;
  the pops below have no effect on the state, `pop_block` then throws, and the
  push ends with blocks missing (`database.cpp:715`), although push_block is
  documented to unwind "every partial change" (622).  `FailedPushUnwound` is
  checked with every block reversible.
* After a crash the flushed state may be older than the block log.  `open()`
  looks up the head of the state in the log only (`database.cpp:175`), so that
  such a state passes, and the chain can then grow along a branch that
  contradicts the log.  `OneHistory` is checked without crashes and, for
  its part about lookups, without bad blocks: a block that fails leaves the stale fork
  head of the findings above, and a duplicate pushed then is removed from the index
  (below), after which a lookup of its number finds nothing.
* A block that links is taken by the fork database at any height below its maximum size,
  although it has been trimmed to what is reversible.  A second first block, for example, that
  arrives when block 1 is irreversible becomes the only block of its number there, and
  `fetch_block_by_number` (`database.cpp:418`), which asks the fork database before the block
  log, returns it.  Below the end of the block log lookups are therefore not on the chain in
  general; `OneHistory` is checked with trees that have no such fork.
* After a fork from below the irreversible block has made a switch throw, the head of the fork
  database stays higher than ours: a block that extends our head then leads to the same switch
  again, which throws, and is not applied.  `HeadIsHighest` and `ExtensionAccepted` are about shallow
  forks.  With blocks that fail `HeadIsHighest` does not hold either: a good branch that was
  linked together with the failing one stays in the fork database, and waits there for its next
  block.  A node with an empty chain whose first push is not a first block is stuck in the same
  way: that block becomes the head of the fork database, and nothing links it to genesis.
* With `stop-at-block` set, `post_block` calls `stop_write_processing` from the
  write thread (`chain_plugin.cpp:269`), which joins itself; `XGT_TRY_NOTIFY`
  swallows the exception and `app().quit()` is not reached, although the option
  says "Stop and exit after reaching given block number" (305).
* When the block reward does not apply, `generate_block` throws after it has
  replaced the pending session by an empty one (`block_producer.cpp:186`); the
  comment at 87-91 counts on `push_block` to re-create it.
* The header check, the TaPoS check (`database.cpp:1935-1944`), the expiry of
  unratified escrows, account recovery and automated actions (1588-1595) are
  commented out.  An escrow that is not ratified in time can be neither approved,
  rejected nor released; `tests/tests/operation_tests.cpp:4681` expects the
  refund.
* The loop "reject blocks with duplicate rewards" (`database.cpp:1598-1622`)
  rejects nothing.  Rewards do not change `current_supply`.  A transfer to an
  unknown wallet creates random keys, different on every node.  The mining target
  has no lower bound.  `delete_comment` lowers the count of the immediate parent
  only, so that the counts of older ancestors stay too large, and a comment whose
  grandchild was deleted can not be deleted any more; `comment_content_object`s
  are not removed.
* `wallet_create` has the checks of its authorities commented out
  (`xgt_evaluator.cpp:180-187`), so that a money authority may name wallets without an
  authority object; looking at one throws and ends the whole check, also when the
  remaining members would do.  `wallet_update` is tied to the keys that the wallet is
  named after, whatever its recovery authority has become (`database.cpp:1903-1915`).
* The API calls `get_required_signatures` and `verify_signatures` pass their arguments
  to the check in another order than its parameters have (`database_api.cpp:728-734`,
  `834-840`); `VerdictsRight` is about the call in `_apply_transaction`.
* The check of signatures is not monotone.  A wallet that is approved on the way to another
  counts in later checks, so that one signature more can take a permission away.  Let the
  recovery authority of `init` be `bob`, the money authority of `dan` be `bob`, and that of `tom`
  be `dan`.  A transaction that needs `init` and `tom` passes with the signature of `bob`: the
  check of `init` approves him, and that of `tom` finds him approved.  With the signatures of
  `bob` and `init` the first check ends at the key of `init`, `bob` is not approved, and
  at the last level of the recursion `tom` is refused (`sign_state.cpp:35-72`).
  `VerdictsRight` says nothing of this.
* A `wallet_update` behind a `wallet_create` in one transaction is not compared with its
  signatures: the loop that does so ends at the `wallet_create` (`database.cpp:1890-1894`).
* A block that arrives between the miner's reads of id and number makes it work
  on a head that is gone, unnoticed until the next block.

mira:

* During bulk load `insert_` counts refused objects too, and flushes by a counter that
  nothing increments (`multi_index_container.hpp:643-647`).
* `_entry_count` is stored by `close()` only, so that `size()` is wrong after a crash.
* `adjust_capacity` and `purge` take no lock of the cache (`object_cache.hpp:71`); they
  rely on the write lock of the database being held around them.
* An iterator keeps the view of RocksDB from its creation, but continues from a cached
  object by its present key: one held across a change of that key walks from there.

Plugins:

* `get_lib()` of wallet_history returns 0 always (`wallet_history.cpp:1001`).
  What is imported while a block is applied is not undone with it, so that every
  fork switch and every clean restart imports operations of irreversible blocks
  again, and a block that fails may leave operations of blocks that a later switch
  removes.
* transaction_status with `track-after` above zero starts each time with tracking
  off, and the first block after a restart gets no statuses; the next start may
  then exit.  `chain_faults` has the option at zero.

* The index `by_key` of wallet_by_key is unique in the key alone
  (`wallet_by_key_objects.hpp:38-43`), although lookups pass a key and a wallet and the
  API returns several wallets for a key.  When two wallets share a key the entry goes when
  either gives it up; `KeyLookupsRight` leaves completeness out then.  The wallets of the
  genesis block have no entry before their first pow, and `get_key_references` uses what
  it finds without a test.

Network:

* After an unlinkable block the lists of a peer are cleared while a request for
  ids may be outstanding; the reply then continues a list that is gone, and a block
  is skipped.  `item_not_available` takes a block off the peer's list and leaves it
  in `_active_sync_requests`: it is never requested again.
* When a block of a peer's chain is refused and the peer moves to a fork from below it
  before it answers, the first id of its list can be a block that the client does not have,
  against the comment at `node.cpp:2615-2623` ("it should be one of the blocks we sent in the
  initial synopsis") and the assertion there.  Later synopses for this peer then fail, which
  is only logged, and nothing more is fetched from it.  It takes a chain that is longer than
  that of `net_sync`; `ListsSound` asks for a known reference point of peers that stay on
  their branch.  A synopsis that fails in the task that hands blocks to the client would end
  that task; the model treats it as in the handlers.
* `_message_ids_currently_being_processed` keeps the id of a block whose
  `handle_block` threw (`node.cpp:3261`); inventories with it are then ignored.
* The backlog loop ends after its maximum (3207) and nothing restarts it before
  the next block arrives, against the comment at 3224-3225.
* The connect loop, once it has the desired number of connections, waits for a
  promise that nothing fulfils (955-956 are commented out), against
  `node_configuration.hpp:26`.
* Requests to a peer that is being closed are not seen by
  `on_item_ids_inventory_message`: an item may be requested twice, or again after
  it failed (`orphaned` in `NetGossip`).
* A request outlives the announcement it rests on: one that is older than the inventory
  lifetime still counts as long as nothing clears it, and is cleared when a block is accepted
  (`node.cpp:3316`).  If the client then gets the same item elsewhere, it is told to the
  peer that it is being requested from.  `NoEcho` is therefore about announcements only.
* The advertise loop takes the new inventory away before it looks at the peers
  (`node.cpp:1210`), and passes over one that needs items of us (1221).  A peer that is found
  to be behind between a broadcast and the loop gets the ids of blocks in the reply to it,
  but is never told of a transaction (`NewsSpreads` makes this exception).
* A peer that we asked with an empty chain may find that we need nothing more and still not
  announce to us: it compares the one id of its reply with a synopsis that has none
  (`node.cpp:2262-2275`; the exception in `InSyncKnowsHead`).
* A connection that becomes active before its hello has no id of its node, and the endpoint
  that is noted for it is this node's own (`node.cpp:2320-2327`), which is then put into the
  database of potential peers.  A firewall check that such a peer asks for is taken for one of this
  node's own.  A second `connection_accepted` may overwrite a check that was relayed to the
  peer.
* `on_fetch_items_message` expects `key_not_found_exception` where the p2p plugin
  throws another, so that `item_not_available` is not sent and the connection ends.
* `on_check_firewall_message` builds the reply "unable_to_check" and does not send
  it (3558-3561); a successful check records the endpoint of the helper (3609);
  checks have no timeout.  `is_accepting_new_connections` counts the connection
  that asks.

## 6. Plan

1. Proofs: `ContainerSound` of `MiraIndex`; `FailedPushUnwound` for bad blocks on branches
   that are reversible as a whole.
2. `NetSync` over `ChainDatabase` instead of its own client, and
   `PendingTransactions` composed with `ChainDatabase`.
3. The social authority and weights in `Authorities`; custom tokens in `Evaluators`;
   composite keys and bulk load in `MiraIndex`.

Not modelled: serialisation, protocol types, API plugins and utilities (no state
of their own that the properties see); RocksDB (external; only its promises
are used), mira's composite keys, configuration and bulk load; encryption, framing and bandwidth
monitoring of connections; votes (the evaluator changes nothing), account recovery (there is no evaluator for it), contracts,
custom operations and XTT tokens (the last cannot be created: the pool of token
names that `xtt_create` draws from is filled by `xtt_create` alone); the column
families and queries of wallet_history, the energy bars and queries of wallet_by_key, debug_node; checkpoints,
hardfork voting, statefile loading; vendored code.
