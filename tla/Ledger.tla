------------------------------- MODULE Ledger -------------------------------
(***************************************************************************)
(* What the operations of a transaction do to wallets, witnesses, balances *)
(* and escrows (libraries/chain/xgt_evaluator.cpp and the balance functions*)
(* of libraries/chain/database.cpp), and what the end of a block adds:     *)
(* mining rewards and the clearing of the null wallet.                     *)
(*                                                                         *)
(* An operation whose assertions do not all hold throws; its transaction   *)
(* is undone as a whole (UndoIndex), so an operation either has its whole  *)
(* effect or none.  Amounts are naturals; the only symbol is XGT.          *)
(***************************************************************************)
EXTENDS Integers, FiniteSets, FiniteSetsExt, Functions

CONSTANTS Names,       \* wallet names that operations mention
          InitMiner,   \* XGT_INIT_MINER_NAME, which owns the supply at genesis
          Null,        \* XGT_NULL_WALLET
          Existing,    \* wallets that exist already
          InitSupply,
          Amounts, Fees, \* amounts and fees in operations
          EscrowIds,
          Times,       \* time stamps of blocks
          Deadlines,   \* ratification deadlines and expirations of escrows, as pairs
          FirstBlock, LastBlock, \* the number of the head block at the start and at the end of a behaviour
          LibDepth,    \* how far the last irreversible block is behind
          PowChange,   \* the block number 2116800, at which rewards move to the end of the block
          HalvingInterval, MiningReward,
          RecalcEvery, \* blocks between two adjustments of the mining target
          Expected,    \* the time they should take
          TargetStart, TargetMax,
          PeriodStart, \* the time stamp of the last block that adjusted the target
          MaxOps,      \* mixes of operations in a behaviour: how many of each kind
          None

ASSUME LedgerAssumption ==
  /\ IsFiniteSet(Names) /\ IsFiniteSet(EscrowIds)
  /\ Existing \subseteq Names /\ {InitMiner, Null} \subseteq Existing /\ InitMiner # Null
  /\ InitSupply \in Nat /\ MiningReward \in Nat /\ Amounts \cup Fees \subseteq Nat
  /\ 0 \in Times /\ Times \subseteq Nat /\ PeriodStart \in Int /\ Deadlines \subseteq Nat \X Nat /\ HalvingInterval \in Nat \ {0}
  /\ FirstBlock \in Nat /\ LastBlock \in Nat /\ FirstBlock <= LastBlock /\ LibDepth \in Nat /\ PowChange \in Nat
  /\ None \notin [worker : Names, prev : Int]
  /\ RecalcEvery \in Nat \ {0} /\ Expected \in Nat \ {0} /\ TargetMax \in Nat /\ TargetStart \in 0 .. TargetMax

VARIABLES wallets,         \* names of the wallet_objects
          witnesses,       \* owners of the witness_objects
          balance,
          escrow,          \* escrow_objects by <<from, escrow_id>>
          head_block_time, head_block_num,
          block,           \* of the block being applied: who may be its miner, its first pow operation
          mining_target,
          period_start,    \* the time stamp of the block RecalcEvery before the next adjustment
          rewards,         \* rewards paid in the block being applied and in the one before
          issued,          \* XGT issued and not cleared so far
          signer,          \* whose authority the last operation needed
          ops              \* operations applied, by kind

ledger_vars == <<wallets, witnesses, balance, escrow, head_block_time, head_block_num,
                 block, mining_target, period_start, rewards, issued>>

mining_vars == <<block, mining_target, period_start, rewards, issued>>

-----------------------------------------------------------------------------
(* Balances *)

\* adjust_balance and modify_balance; the callers make sure that a debit is covered.
adjust_balance(bal, w, delta) == [bal EXCEPT ![w] = @ + delta]

Sufficient(bal, w, amount) == w \in wallets /\ bal[w] >= amount

Sum(f) == MapThenSumSet(LAMBDA x : f[x], DOMAIN f)

\* A behaviour stays within one of the mixes of MaxOps.
Within(kind) == \E mix \in MaxOps : \A k \in DOMAIN mix : ops[k] + (IF k = kind THEN 1 ELSE 0) <= mix[k]

Operation(kind, who) ==
  /\ ops' = [ops EXCEPT ![kind] = @ + 1]
  /\ signer' = who

-----------------------------------------------------------------------------
(* Wallets and witnesses *)

wallet_create(creator, w) ==
  /\ Operation("wallets", creator)
  /\ creator \in wallets /\ w \notin wallets
  /\ wallets' = wallets \cup {w}
  /\ UNCHANGED <<witnesses, balance, escrow, head_block_time, head_block_num>> /\ UNCHANGED mining_vars

\* A wallet that nobody has created gets keys nobody knows.
transfer(from, to, amount) ==
  /\ Operation("money", from)
  /\ amount > 0
  /\ Sufficient(balance, from, amount)
  /\ wallets' = wallets \cup {to}
  /\ balance' = adjust_balance(adjust_balance(balance, from, -amount), to, amount)
  /\ UNCHANGED <<witnesses, escrow, head_block_time, head_block_num>> /\ UNCHANGED mining_vars

witness_update(w) ==
  /\ Operation("mining", w)
  /\ w \in wallets
  /\ witnesses' = witnesses \cup {w}
  /\ UNCHANGED <<wallets, balance, escrow, head_block_time, head_block_num>> /\ UNCHANGED mining_vars

-----------------------------------------------------------------------------
(* Escrows *)

is_approved(e) == e.to_approved /\ e.agent_approved

Created(f, k, v) == [x \in DOMAIN f \cup {k} |-> IF x = k THEN v ELSE f[x]]

Removed(f, k) == Restrict(f, DOMAIN f \ {k})

escrow_transfer(from, to, agent, id, amount, fee, deadline, expiration) ==
  /\ Operation("money", from)
  /\ amount > 0 /\ from # agent /\ to # agent /\ deadline < expiration
  /\ {from, to, agent} \subseteq wallets
  /\ deadline > head_block_time /\ expiration > head_block_time
  /\ Sufficient(balance, from, amount + fee)
  /\ <<from, id>> \notin DOMAIN escrow
  /\ balance' = adjust_balance(balance, from, -(amount + fee))
  /\ escrow' = Created(escrow, <<from, id>>,
                       [to |-> to, agent |-> agent, ratification_deadline |-> deadline,
                        escrow_expiration |-> expiration, xgt_balance |-> amount,
                        pending_fee |-> fee, to_approved |-> FALSE, agent_approved |-> FALSE,
                        disputed |-> FALSE])
  /\ UNCHANGED <<wallets, witnesses, head_block_time, head_block_num>> /\ UNCHANGED mining_vars

\* Seeded fault: the fee is not given back.
RefundedAmount(e) == e.xgt_balance

\* What the sender gets back when an escrow is rejected.
Refund(e) == e.xgt_balance + e.pending_fee

escrow_approve(k, who, approve) ==
  /\ Operation("money", who)
  /\ k \in DOMAIN escrow
  /\ LET e == escrow[k]
         to_approved == e.to_approved \/ (approve /\ who = e.to)
         agent_approved == e.agent_approved \/ (approve /\ who = e.agent)
     IN  /\ who \in {e.to, e.agent}
         /\ e.ratification_deadline >= head_block_time
         /\ who = e.to => ~e.to_approved
         /\ who = e.agent => ~e.agent_approved
         /\ IF ~approve
            THEN /\ balance' = adjust_balance(balance, k[1], Refund(e))
                 /\ escrow' = Removed(escrow, k)
            ELSE IF to_approved /\ agent_approved
            THEN /\ balance' = adjust_balance(balance, e.agent, e.pending_fee)
                 /\ escrow' = [escrow EXCEPT ![k].to_approved = TRUE, ![k].agent_approved = TRUE,
                                             ![k].pending_fee = 0]
            ELSE /\ escrow' = [escrow EXCEPT ![k].to_approved = to_approved,
                                             ![k].agent_approved = agent_approved]
                 /\ UNCHANGED balance
  /\ UNCHANGED <<wallets, witnesses, head_block_time, head_block_num>> /\ UNCHANGED mining_vars

escrow_dispute(k, who) ==
  /\ Operation("money", who)
  /\ k \in DOMAIN escrow
  /\ who \in {k[1], escrow[k].to}
  /\ head_block_time < escrow[k].escrow_expiration
  /\ is_approved(escrow[k]) /\ ~escrow[k].disputed
  /\ escrow' = [escrow EXCEPT ![k].disputed = TRUE]
  /\ UNCHANGED <<wallets, witnesses, balance, head_block_time, head_block_num>> /\ UNCHANGED mining_vars

\* Seeded fault: a dispute does not stop the two parties.
MayReleaseDisputed(e, from, who, receiver) ==
  /\ receiver \in {from, e.to}
  /\ \/ e.disputed /\ who = e.agent
     \/ /\ who \in {from, e.to}
        /\ e.escrow_expiration > head_block_time =>
             IF who = from THEN receiver = e.to ELSE receiver = from

\* Who may release to whom.
MayRelease(e, from, who, receiver) ==
  /\ receiver \in {from, e.to}
  /\ IF e.disputed THEN who = e.agent
     ELSE /\ who \in {from, e.to}
          /\ e.escrow_expiration > head_block_time =>
               IF who = from THEN receiver = e.to ELSE receiver = from

escrow_release(k, who, receiver, amount) ==
  /\ Operation("money", who)
  /\ amount > 0
  /\ k \in DOMAIN escrow
  /\ LET e == escrow[k]
     IN  /\ e.xgt_balance >= amount
         /\ is_approved(e)
         /\ MayRelease(e, k[1], who, receiver)
         /\ escrow' = IF e.xgt_balance = amount THEN Removed(escrow, k)
                      ELSE [escrow EXCEPT ![k].xgt_balance = @ - amount]
  /\ balance' = adjust_balance(balance, receiver, amount)
  /\ UNCHANGED <<wallets, witnesses, head_block_time, head_block_num>> /\ UNCHANGED mining_vars

-----------------------------------------------------------------------------
(* Mining *)

\* 1L << n
divisor[n \in Nat] == IF n = 0 THEN 1 ELSE 2 * divisor[n - 1]

\* The reward after n intervals, rounded down.
Halved(n) == MiningReward \div divisor[n]

Reward(num) == Halved(num \div HalvingInterval)

last_irreversible_block_num == IF head_block_num > LibDepth THEN head_block_num - LibDepth ELSE 0

\* A pow operation for the block with number prev.  Below PowChange it is rewarded at once: the
\* work must be for the predecessor of the head block, if there is a head block, and a worker
\* that is not known becomes a wallet and a witness (_apply_transaction refuses such a worker
\* first unless it skips the check of signatures, as a replay does).
pow(worker, prev) ==
  /\ Operation("mining", worker)
  /\ block' = [block EXCEPT !.pow = IF @ = None THEN [worker |-> worker, prev |-> prev] ELSE @]
  /\ IF head_block_num >= PowChange THEN UNCHANGED <<wallets, witnesses, balance, issued, rewards>>
     ELSE /\ head_block_num > 0 => prev = head_block_num - 1
          /\ prev > last_irreversible_block_num
          /\ mining_target > 0
          /\ wallets' = wallets \cup {worker}
          /\ witnesses' = IF worker \in wallets THEN witnesses ELSE witnesses \cup {worker}
          /\ IF worker \in witnesses'
             THEN /\ balance' = adjust_balance(balance, worker, Reward(head_block_num))
                  /\ issued' = issued + Reward(head_block_num)
                  /\ rewards' = [rewards EXCEPT !.now = @ + 1]
             ELSE UNCHANGED <<balance, issued, rewards>>
  /\ UNCHANGED <<escrow, head_block_time, head_block_num, mining_target, period_start>>

\* Seeded fault: the block that the work is for is not compared.
FirstPowByMiner(miner) == block.pow.worker = miner /\ mining_target > 0

\* What makes the first pow operation of a block right.
FirstPowRight(miner) ==
  block.pow.worker = miner /\ mining_target > 0 /\ block.pow.prev = head_block_num

\* Seeded fault: no maximum.
AdjustedUncapped(target, actual) ==
  IF actual < 0 \/ actual > 4 * Expected THEN 4 * target
  ELSE IF 4 * actual < Expected THEN target \div 4
  ELSE (target * actual) \div Expected

\* The target divided by the ratio of the expected to the actual time, which is kept between
\* 1/4 and 4; a negative ratio becomes 1/4, division by zero 4.
Adjusted(target, actual) ==
  LET next == IF actual < 0 \/ actual > 4 * Expected THEN 4 * target
              ELSE IF 4 * actual < Expected THEN target \div 4
              ELSE (target * actual) \div Expected
  IN  IF next >= TargetMax THEN TargetMax ELSE next

\* The end of _apply_block, after the transactions: the head moves on, the null wallet is
\* cleared, and from PowChange on the first pow operation of the block is rewarded; the block
\* is invalid if that operation is not right.  Nothing checks the time stamp.  The block before
\* the adjustment of the target is in the block log, RecalcEvery being far above LibDepth.
end_of_block(miner, time) ==
  /\ head_block_num < LastBlock
  /\ miner \in block.miners
  /\ head_block_num' = head_block_num + 1
  /\ head_block_time' = time
  /\ LET paid == head_block_num' >= PowChange /\ block.pow # None
         amount == IF paid THEN Reward(head_block_num') ELSE 0
         cleared == [balance EXCEPT ![Null] = 0]
     IN  /\ paid => FirstPowRight(miner)
         /\ balance' = IF paid THEN adjust_balance(cleared, block.pow.worker, amount) ELSE cleared
         /\ issued' = issued - balance[Null] + amount
         /\ rewards' = [now |-> 0, last |-> rewards.now + (IF paid THEN 1 ELSE 0)]
  /\ IF head_block_num' % RecalcEvery = 1
     THEN mining_target' = Adjusted(mining_target, time - period_start) /\ period_start' = time
     ELSE UNCHANGED <<mining_target, period_start>>
  /\ block' = [miners |-> witnesses, pow |-> None]
  /\ signer' = None
  /\ UNCHANGED <<wallets, witnesses, escrow, ops>>

\* init_genesis, and what created the wallets that exist already
LedgerInit ==
  /\ wallets = Existing
  /\ witnesses = {InitMiner}
  /\ balance = [w \in Names |-> IF w = InitMiner THEN InitSupply ELSE 0]
  /\ escrow = <<>>
  /\ head_block_time = 0 /\ head_block_num = FirstBlock
  /\ block = [miners |-> {InitMiner}, pow |-> None]
  /\ mining_target = TargetStart /\ period_start = PeriodStart
  /\ rewards = [now |-> 0, last |-> 0]
  /\ issued = InitSupply
  /\ signer = None
  /\ ops = [k \in {"money", "mining", "comments", "wallets"} |-> 0]

\* Nobody can sign for the null wallet.
Signers == Names \ {Null}

MoneyNext ==
  /\ Within("money")
  /\ \/ \E from \in Signers, to \in Names, a \in Amounts : transfer(from, to, a)
     \/ \E from \in Signers, to, agent \in Names, id \in EscrowIds, a \in Amounts, fee \in Fees, d \in Deadlines :
          escrow_transfer(from, to, agent, id, a, fee, d[1], d[2])
     \/ \E k \in DOMAIN escrow, who \in Signers :
          \/ \E approve \in BOOLEAN : escrow_approve(k, who, approve)
          \/ escrow_dispute(k, who)
          \/ \E receiver \in Names, a \in Amounts : escrow_release(k, who, receiver, a)

WitnessNext == Within("mining") /\ \E w \in Signers : witness_update(w)

PowNext == Within("mining") /\ \E w \in Signers : \E prev \in {head_block_num - 1, head_block_num} : pow(w, prev)

-----------------------------------------------------------------------------
(* Properties *)

Holdings == [k \in DOMAIN escrow |-> escrow[k].xgt_balance + escrow[k].pending_fee]

\* Every XGT that was issued and not cleared is in a wallet or in an escrow, after any sequence
\* of operations (database::validate_invariants, whose body is commented out).
Conserved == Sum(balance) + Sum(Holdings) = issued

\* An escrow holds its fee until both have approved it and never after, is disputed only when
\* approved, and exists only while it holds something ("The escrow agent is paid the fee on
\* approval of all parties", xgt_operations.hpp:169).
EscrowStages ==
  \A k \in DOMAIN escrow :
    LET e == escrow[k]
    IN  /\ is_approved(e) => e.pending_fee = 0
        /\ e.disputed => is_approved(e)
        /\ e.xgt_balance > 0
        /\ {k[1], e.to, e.agent} \subseteq wallets
        /\ e.agent \notin {k[1], e.to}

\* Money is only held by wallets that exist.
HoldersExist == \A w \in Names : balance[w] > 0 => w \in wallets

\* The state of the ledger as a whole: what was issued is there, in wallets that exist and in
\* escrows of the right stage.
LedgerSound == Conserved /\ EscrowStages /\ HoldersExist

\* No balance falls but by an operation that the wallet's owner has signed; only the null
\* wallet is emptied by the chain.
DebitsAreSigned == [][\A w \in Names \ {Null} : balance'[w] < balance[w] => signer' = w]_balance

\* What leaves the escrow k in a step leaves by the permission scheme of
\* xgt_operations.hpp:241-245: under dispute by the agent alone; before the expiration neither
\* party can take it for itself.
LeavesPermitted(k) ==
  LET e == escrow[k]
      left == IF k \in DOMAIN escrow' THEN escrow'[k].xgt_balance ELSE 0
  IN  left < e.xgt_balance =>
        /\ e.disputed => signer' = e.agent
        /\ ~e.disputed /\ is_approved(e) => signer' \in {k[1], e.to}
        /\ ~e.disputed /\ is_approved(e) /\ k[1] # e.to /\ head_block_time < e.escrow_expiration
           => balance'[signer'] = balance[signer']

\* No step takes out of an escrow what the permission scheme does not allow.
ReleasesPermitted == [][\A k \in DOMAIN escrow : LeavesPermitted(k)]_escrow

\* Money leaves a wallet or an escrow only by those who may take it out.
MovesPermitted == DebitsAreSigned /\ ReleasesPermitted

\* What an adjustment may do to the target, by the time stamps of the period.
TargetMoves ==
  LET actual == head_block_time' - period_start
  IN  /\ mining_target \div 4 <= mining_target' /\ mining_target' <= 4 * mining_target
      /\ mining_target' <= TargetMax
      /\ actual \in 0 .. Expected => mining_target' <= mining_target
      /\ actual > Expected => mining_target' >= mining_target

\* "Limit the adjustment by a factor of 4 (to prevent massive changes from one target to the
\* next)" (database.cpp:1714), whatever the time stamps of the blocks are; and a period that was
\* too short by them never makes mining easier, nor one that was too long harder.
Retargets == [][TargetMoves]_mining_target

\* From PowChange on a block pays at most one reward ("reward the first miner, on the current
\* ("next") block", database.cpp:1625), also in the block in which the rule changes, when both
\* rules look at it.
OneReward == head_block_num >= PowChange => rewards.last <= 1 /\ rewards.now = 0
=============================================================================
