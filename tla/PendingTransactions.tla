------------------------ MODULE PendingTransactions ------------------------
(***************************************************************************)
(* Transactions that are not in a block yet: _pending_tx and the undo      *)
(* session that holds their effects, how push_block takes them out of the  *)
(* way and puts them back (pending_transactions_restorer), and how the     *)
(* block producer makes a block of them.                                   *)
(*                                                                         *)
(* The chain state is the set of transactions in effect: those of the      *)
(* blocks in chain, then those in applied.  Whether a transaction applies  *)
(* to it depends on the transactions it builds on, on what it uses up and  *)
(* on its expiration.  A block carries any time stamp, earlier than its    *)
(* parent's too: the test of the header is commented out (database.cpp:    *)
(* 1537, 2314).  Which block is popped or applied when is ChainDatabase's  *)
(* subject; here a push extends the head, fails, or switches forks with or *)
(* without success.  All of it runs in the write thread, one turn of a     *)
(* loop at a time.                                                         *)
(***************************************************************************)
EXTENDS Integers, Sequences

CONSTANTS Txs,          \* transactions
          Needs,        \* Needs[t]: transactions whose effects t builds on
          Uses,         \* Uses[t]: what t uses up, and no other then can
          Expires,      \* Expires[t]: expiration
          Times,        \* time stamps of blocks
          MaxAhead,     \* XGT_MAX_TIME_UNTIL_EXPIRATION
          Pow,          \* transactions with a pow operation
          PowUntil,     \* block 2116800: later, pow is not put back
          Arriving,     \* what is in blocks of other nodes: sequences of transactions
          MaxBlocks,    \* bound: length of the chain
          MaxPending,   \* bound: pending transactions
          CanPostpone   \* may the 200 ms of XGT_PENDING_TRANSACTION_
                        \* EXECUTION_LIMIT run out?

ASSUME TxsAssumption ==
    /\ Needs \in [Txs -> SUBSET Txs]
    /\ Expires \in [Txs -> Nat] /\ Times \subseteq Nat /\ MaxAhead \in Nat
    /\ Pow \subseteq Txs
    /\ Arriving \subseteq Seq(Txs)
ASSUME UsesAssumption == DOMAIN Uses = Txs
ASSUME PendingBoundsAssumption ==
    /\ MaxBlocks \in Nat /\ MaxPending \in Nat /\ PowUntil \in Nat
    /\ CanPostpone \in BOOLEAN

VARIABLES chain,     \* the applied blocks
          pending,   \* _pending_tx
          open,      \* _pending_tx_session.valid()
          applied,   \* the transactions in effect in that session
          popped,    \* _popped_tx
          waiting,   \* the restorer's _pending_transactions
          late,      \* the restorer's time is up (apply_trxs is false)
          second,    \* blocks a fork switch has undone
          fresh,     \* how many blocks of the new fork it has applied
          mine,      \* is the block being pushed the one in block?
          block,     \* pending_block of the producer: its transactions ...
          when,      \* ... and its time stamp
          left,      \* pending transactions it has not looked at
          rewarded,  \* has it been given a block_reward?
          pc,        \* where the write thread is
          owed,      \* history: what the last push had to put back
          hurried    \* history: has a transaction ever been put off?

vars == <<chain, pending, open, applied, popped, waiting, late, second,
          fresh, mine, block, when, left, rewarded, pc, owed, hurried>>

Elements(s) == {s[i] : i \in 1 .. Len(s)}
InChain == UNION {Elements(chain[k].transactions) : k \in 1 .. Len(chain)}

(* head_block_time: what the last block carries. *)
Now == IF chain = <<>> THEN 0 ELSE chain[Len(chain)].timestamp

-----------------------------------------------------------------------------
(* _apply_transaction, on top of the chain and of the transactions in top. *)

(* Seeded fault: the index of known transactions is emptied too soon. *)
RememberedAhead ==
    {t \in InChain : \E k \in 1 .. Len(chain) :
       /\ t \in Elements(chain[k].transactions)
       /\ \A l \in k .. Len(chain) : chain[l].timestamp + 2 <= Expires[t]}

(* transaction_index, as far as blocks have filled it: each block, the one *)
(* with the transaction included, removes what has expired at its time     *)
(* (clear_expired_transactions); popping it puts that back.                *)
Remembered ==
    {t \in InChain : \E k \in 1 .. Len(chain) :
       /\ t \in Elements(chain[k].transactions)
       /\ \A l \in k .. Len(chain) : chain[l].timestamp <= Expires[t]}

Known(top) == Remembered \cup top

Applies(t, top) ==
    /\ t \notin Known(top)
    /\ chain # <<>> => Now < Expires[t] /\ Expires[t] <= Now + MaxAhead
    /\ Needs[t] \subseteq InChain \cup top
    /\ \A x \in InChain \cup top : Uses[x] \cap Uses[t] = {}

Top == Elements(applied)

(* All the transactions of a block, each on top of those before it. *)
BlockApplies(b) ==
    \A i \in 1 .. Len(b) : Applies(b[i], {b[j] : j \in 1 .. i - 1})

-----------------------------------------------------------------------------
(* push_transaction: a transaction that applies stays in effect in the     *)
(* pending session, which the first one opens; one that throws leaves only *)
(* the session behind.                                                     *)
push_transaction(t) ==
    /\ pc = "idle" /\ Len(pending) < MaxPending
    /\ open' = TRUE
    /\ IF Applies(t, Top)
       THEN pending' = Append(pending, t) /\ applied' = Append(applied, t)
       ELSE UNCHANGED <<pending, applied>>
    /\ owed' = {}
    /\ UNCHANGED <<chain, popped, waiting, late, second, fresh, mine, block, when,
                   left, rewarded, pc, hurried>>

-----------------------------------------------------------------------------
(* push_block under without_pending_transactions.                          *)

(* The restorer moves _pending_tx away and calls clear_pending. *)
without_pending(own) ==
    /\ waiting' = pending
    /\ pending' = <<>>
    /\ open' = FALSE /\ applied' = <<>>
    /\ mine' = own
    /\ pc' = "push"
    /\ owed' = Elements(pending)
    /\ UNCHANGED <<chain, popped, late, second, fresh, block, when, rewarded,
                   hurried>>

accept_block ==
    /\ pc = "idle" /\ Len(pending) <= MaxPending
    /\ without_pending(FALSE)
    /\ UNCHANGED left

Applied(b) == /\ Len(chain) < MaxBlocks
              /\ BlockApplies(b.transactions)
              /\ chain' = Append(chain, b)

(* check_time_in_block bounds time stamps from above only. *)
Received == [timestamp : Times, transactions : Arriving]

pending_block == [timestamp |-> when, transactions |-> block]

push_direct(b) ==
    /\ pc = "push"
    /\ IF mine THEN b = pending_block ELSE b \in Received
    /\ Applied(b)
    /\ pc' = "popped"
    /\ UNCHANGED <<pending, open, applied, popped, waiting, late, second,
                   fresh, mine, block, when, left, rewarded, owed, hurried>>

(* The block is refused, fails, or is kept in the fork database. *)
push_without_effect ==
    /\ pc = "push"
    /\ pc' = "popped"
    /\ UNCHANGED <<chain, pending, open, applied, popped, waiting, late,
                   second, fresh, mine, block, when, left, rewarded, owed, hurried>>

(* Seeded fault: the popped transactions are put behind older ones. *)
pop_block_appends ==
    /\ chain' = SubSeq(chain, 1, Len(chain) - 1)
    /\ popped' = popped \o chain[Len(chain)].transactions
    /\ owed' = owed \cup Elements(chain[Len(chain)].transactions)

(* pop_block saves the transactions of the block it takes back. *)
pop_block ==
    /\ chain' = SubSeq(chain, 1, Len(chain) - 1)
    /\ popped' = chain[Len(chain)].transactions \o popped
    /\ owed' = owed \cup Elements(chain[Len(chain)].transactions)

(* Seeded fault: the old blocks are kept in the order of their removal. *)
switch_pop_reversed ==
    /\ (pc = "push" /\ ~ mine) \/ pc = "pop"
    /\ chain # <<>>
    /\ second' = second \o <<chain[Len(chain)]>>
    /\ pop_block
    /\ pc' = "pop"
    /\ UNCHANGED <<pending, open, applied, waiting, late, fresh, mine, block, when,
                   left, rewarded, hurried>>

(* A block that arrives makes a higher fork: pop to the fork point ... *)
switch_pop ==
    /\ (pc = "push" /\ ~ mine) \/ pc = "pop"
    /\ chain # <<>>
    /\ second' = <<chain[Len(chain)]>> \o second
    /\ pop_block
    /\ pc' = "pop"
    /\ UNCHANGED <<pending, open, applied, waiting, late, fresh, mine, block, when,
                   left, rewarded, hurried>>

(* ... and apply the blocks of the new fork, which are more than those. *)
switch_apply(b) ==
    /\ pc \in {"pop", "apply"}
    /\ fresh <= Len(second)
    /\ Applied(b)
    /\ fresh' = fresh + 1
    /\ pc' = "apply"
    /\ UNCHANGED <<pending, open, applied, popped, waiting, late, second,
                   mine, block, when, left, rewarded, owed, hurried>>

switch_done ==
    /\ pc = "apply" /\ fresh = Len(second) + 1
    /\ second' = <<>> /\ fresh' = 0
    /\ pc' = "popped"
    /\ UNCHANGED <<chain, pending, open, applied, popped, waiting, late, mine,
                   block, when, left, rewarded, owed, hurried>>

(* A block of the new fork throws: take that fork back ... *)
switch_fails ==
    /\ pc \in {"pop", "apply"} /\ fresh <= Len(second)
    /\ pc' = "unwind"
    /\ UNCHANGED <<chain, pending, open, applied, popped, waiting, late,
                   second, fresh, mine, block, when, left, rewarded, owed, hurried>>

switch_unwind ==
    /\ pc = "unwind" /\ fresh > 0
    /\ pop_block
    /\ fresh' = fresh - 1
    /\ UNCHANGED <<pending, open, applied, waiting, late, second, mine, block, when,
                   left, rewarded, pc, hurried>>

(* ... and put the old one back. *)
switch_restore ==
    /\ pc = "unwind" /\ fresh = 0 /\ second # <<>>
    /\ BlockApplies(Head(second).transactions)
    /\ chain' = Append(chain, Head(second))
    /\ second' = Tail(second)
    /\ pc' = IF Len(second) = 1 THEN "popped" ELSE "unwind"
    /\ UNCHANGED <<pending, open, applied, popped, waiting, late, fresh, mine,
                   block, when, left, rewarded, owed, hurried>>

-----------------------------------------------------------------------------
(* ~pending_transactions_restorer.                                         *)

Ignored(t) == (Len(chain) > PowUntil /\ t \in Pow) \/ t \in Known(Top)

(* One transaction: ignored, put off without being applied once the time   *)
(* is up, or pushed again; an exception is swallowed.                      *)
put_back(t) ==
    \/ /\ Ignored(t)
       /\ UNCHANGED <<pending, open, applied, late, hurried>>
    \/ /\ ~ Ignored(t)
       /\ late \/ CanPostpone
       /\ late' = TRUE /\ hurried' = TRUE
       /\ pending' = Append(pending, t)
       /\ UNCHANGED <<open, applied>>
    \/ /\ ~ Ignored(t) /\ ~ late
       /\ open' = TRUE
       /\ IF Applies(t, Top)
          THEN pending' = Append(pending, t) /\ applied' = Append(applied, t)
          ELSE UNCHANGED <<pending, applied>>
       /\ UNCHANGED <<late, hurried>>

restore_popped ==
    /\ pc = "popped" /\ popped # <<>>
    /\ put_back(Head(popped))
    /\ popped' = Tail(popped)
    /\ UNCHANGED <<chain, waiting, second, fresh, mine, block, when, left, rewarded,
                   pc, owed>>

restore_pending ==
    /\ pc = "popped" /\ popped = <<>> /\ waiting # <<>>
    /\ put_back(Head(waiting))
    /\ waiting' = Tail(waiting)
    /\ UNCHANGED <<chain, popped, second, fresh, mine, block, when, left, rewarded,
                   pc, owed>>

restored ==
    /\ pc = "popped" /\ popped = <<>> /\ waiting = <<>>
    /\ pc' = "idle"
    /\ late' = FALSE /\ mine' = FALSE
    /\ block' = <<>> /\ when' = 0 /\ rewarded' = FALSE
    /\ UNCHANGED <<chain, pending, open, applied, popped, waiting, second,
                   fresh, left, owed, hurried>>

-----------------------------------------------------------------------------
(* block_producer::generate_block.                                         *)

(* Seeded fault: the session is not thrown away first. *)
generate_on_pending(reward) ==
    /\ pc = "idle" /\ Len(pending) <= MaxPending
    /\ open' = TRUE
    /\ rewarded' = (reward # {})
    /\ block' = <<>> /\ when' \in Times /\ UNCHANGED applied
    /\ left' = pending /\ pc' = "generate"
    /\ owed' = {}
    /\ UNCHANGED <<chain, pending, popped, waiting, late, second, fresh, mine,
                   hurried>>

(* A new session on the state of the head.  The reward, if it fits, comes  *)
(* first; if it does not apply the exception passes through everything.    *)
generate_block(reward) ==
    /\ pc = "idle" /\ Len(pending) <= MaxPending
    /\ open' = TRUE
    /\ \/ /\ \E b \in {<<>>} \cup {<<t>> : t \in reward} :
                BlockApplies(b) /\ block' = b /\ applied' = b
          /\ when' \in Times
          /\ rewarded' = (reward # {})
          /\ left' = pending /\ pc' = "generate"
       \/ /\ \E t \in reward : ~ Applies(t, {})
          /\ applied' = <<>>
          /\ UNCHANGED <<block, when, rewarded, left, pc>>
    /\ owed' = {}
    /\ UNCHANGED <<chain, pending, popped, waiting, late, second, fresh, mine,
                   hurried>>

(* The next pending transaction is left out (expired, somebody else's pow, *)
(* too big, or it does not apply) or goes into the block.                  *)
apply_pending_transactions ==
    /\ pc = "generate" /\ left # <<>>
    /\ left' = Tail(left)
    /\ LET t == Head(left)
       IN  \/ UNCHANGED <<block, applied>>
           \/ /\ Expires[t] >= when
              /\ ~ (rewarded /\ t \in Pow)
              /\ Applies(t, Top)
              /\ block' = Append(block, t)
              /\ applied' = Append(applied, t)
    /\ UNCHANGED <<chain, pending, open, popped, waiting, late, second, fresh,
                   mine, when, rewarded, pc, owed, hurried>>

(* The session is dropped and the block is pushed. *)
generate_push ==
    /\ pc = "generate" /\ left = <<>>
    /\ without_pending(TRUE)
    /\ UNCHANGED left

-----------------------------------------------------------------------------
Init == /\ chain = <<>> /\ pending = <<>>
        /\ open = FALSE /\ applied = <<>>
        /\ popped = <<>> /\ waiting = <<>> /\ late = FALSE
        /\ second = <<>> /\ fresh = 0
        /\ mine = FALSE /\ block = <<>> /\ when = 0 /\ left = <<>> /\ rewarded = FALSE
        /\ pc = "idle"
        /\ owed = {} /\ hurried = FALSE

Rewards == {{}} \cup {{t} : t \in Pow}

Next == \/ \E t \in Txs : push_transaction(t)
        \/ accept_block
        \/ \E b \in Received \cup {pending_block} : push_direct(b)
        \/ push_without_effect
        \/ switch_pop
        \/ \E b \in Received : switch_apply(b)
        \/ switch_done
        \/ switch_fails
        \/ switch_unwind
        \/ switch_restore
        \/ restore_popped
        \/ restore_pending
        \/ restored
        \/ \E r \in Rewards : generate_block(r)
        \/ apply_pending_transactions
        \/ generate_push

Spec == Init /\ [][Next]_vars

-----------------------------------------------------------------------------
(* Properties.                                                             *)

Blocks == [timestamp : Times, transactions : Seq(Txs)]

(* The variables keep their types. *)
TypeOK == /\ chain \in Seq(Blocks) /\ second \in Seq(Blocks)
          /\ {pending, applied, popped, waiting, block, left} \subseteq Seq(Txs)
          /\ {open, late, mine, rewarded} \subseteq BOOLEAN
          /\ fresh \in Nat /\ when \in Times \cup {0}
          /\ pc \in {"idle", "push", "pop", "apply", "unwind", "popped",
                     "generate"}
          /\ owed \subseteq Txs
          /\ hurried \in BOOLEAN

(* Between blocks k and l the time has been past t's expiration and then   *)
(* before it again.                                                        *)
WentBack(t, k, l) ==
    \E m, n \in k .. l : /\ m < n
                         /\ chain[m].timestamp > Expires[t]
                         /\ chain[n].timestamp < Expires[t]

Places == UNION {{<<k, i>> : i \in 1 .. Len(chain[k].transactions)} : k \in 1 .. Len(chain)}
At(p) == chain[p[1]].transactions[p[2]]

(* A transaction takes effect a second time, in the chain or on top of it, *)
(* only when time stamps have gone back over its expiration in between:    *)
(* nothing else, no pop, restoration or generated block, lets one through  *)
(* that clear_expired_transactions has made the index forget.              *)
NoTransactionTwice ==
    /\ \A p, q \in Places :
          At(p) = At(q) /\ p # q /\ p[1] <= q[1] => WentBack(At(p), p[1], q[1] - 1)
    /\ \A p \in Places, i \in 1 .. Len(applied) :
          At(p) = applied[i] => WentBack(At(p), p[1], Len(chain))
    /\ \A i, j \in 1 .. Len(applied) : applied[i] = applied[j] => i = j

(* "Duplicate transaction check failed" (database.cpp:1847): no transaction *)
(* is applied that the chain already has.                                  *)
NoDuplicate == \A p, q \in Places : At(p) = At(q) => p = q

(* The state is well formed, and no transaction takes effect twice unless  *)
(* time has gone back over its expiration.                                 *)
AppliedOnce == TypeOK /\ NoTransactionTwice

(* A push loses no transaction: whatever was pending, or in a block that   *)
(* has been popped, is afterwards in the chain or pending again, unless it *)
(* does not apply to the new state, or is a pow from before.  This needs   *)
(* the time to try them all: a transaction that is put off untried may end *)
(* up ahead of one that it builds on.                                      *)
NothingLost ==
    pc = "idle" /\ ~ hurried =>
       \A t \in owed : \/ t \in InChain \cup Elements(pending) \cup Pow
                       \/ ~ Applies(t, Top)

(* The block that the producer has put together applies: its transactions  *)
(* were tried on the state that it will be pushed on, in the same order.   *)
GeneratedApplies == mine /\ pc = "push" => BlockApplies(block)

(* What a switch undid can be applied again: the saved blocks are valid on *)
(* the state that the failed switch has gone back to.                      *)
RestoreApplies ==
    pc = "unwind" /\ fresh = 0 /\ second # <<>> => BlockApplies(Head(second).transactions)

=============================================================================
