------------------------- MODULE Evaluators_proofs -------------------------
(***************************************************************************)
(* Proofs about wallets, escrows, mining, comments and the entries of      *)
(* wallet_by_key, for any wallets, amounts, deadlines and sequences of     *)
(* operations and blocks.                                                  *)
(*                                                                         *)
(* One inductive invariant for each: the rewards, the wallets that mine,   *)
(* the escrows and the holders of money, the sums, the target, the threads *)
(* of comments, the keys.  The money needs the miners where a block pays   *)
(* its miner; the sums need the money and the rewards.                     *)
(***************************************************************************)
EXTENDS Evaluators, FiniteSetTheorems, WellFoundedInduction, TLAPS

EscrowObject == [to : Names, agent : Names, ratification_deadline : Nat, escrow_expiration : Nat,
                 xgt_balance : Nat, pending_fee : Nat, to_approved : BOOLEAN,
                 agent_approved : BOOLEAN, disputed : BOOLEAN]

(* The escrows are a table of escrow objects. *)
EscrowTable ==
  /\ escrow = [k \in DOMAIN escrow |-> escrow[k]]
  /\ DOMAIN escrow \subseteq Names \X EscrowIds
  /\ \A k \in DOMAIN escrow : escrow[k] \in EscrowObject

(* Every name has a balance. *)
BalanceTable == balance = [w \in Names |-> balance[w]]

MoneyInv == EscrowTable /\ BalanceTable /\ EscrowStages /\ HoldersExist /\ wallets \subseteq Names

(* Whoever the end of a block may credit has a wallet. *)
MinersInv ==
  /\ Null \in wallets /\ witnesses \subseteq wallets
  /\ block = [miners |-> block.miners, pow |-> block.pow]
  /\ block.miners \subseteq wallets

(* The steps of miners. *)
MiningNext == WitnessNext \/ PowNext

(* A reward below PowChange is for work on the predecessor of the head,    *)
(* which the rule from PowChange on turns down. *)
RewardInv ==
  /\ head_block_num \in Nat
  /\ rewards \in [now : Nat, last : Nat]
  /\ block = [miners |-> block.miners, pow |-> block.pow]
  /\ rewards.now > 0 => block.pow # None
  /\ head_block_num < PowChange /\ block.pow # None => block.pow.prev # head_block_num
  /\ OneReward

(* Of what the ledger keeps, operations on authorities only add wallets. *)
AddsWallet(w) ==
  /\ wallets' = wallets \cup {w}
  /\ UNCHANGED <<witnesses, balance, escrow, head_block_time, head_block_num>> /\ UNCHANGED mining_vars

LEMMA AuthorityStep ==
  ASSUME AuthorityNext
  PROVE  UNCHANGED ledger_vars \/ \E w \in Names : AddsWallet(w)
  <1>1. ASSUME NEW creator, NEW w \in Names, NEW recovery, NEW money, create_wallet(creator, w, recovery, money)
        PROVE  AddsWallet(w)
    BY <1>1 DEF create_wallet, wallet_create, AddsWallet
  <1>2. ASSUME NEW w \in Names, NEW recovery, NEW money, wallet_update(w, recovery, money)
        PROVE  AddsWallet(w)
    BY <1>2 DEF wallet_update, AddsWallet
  <1>3. ASSUME NEW w, NEW recovery, NEW money, wallet_update_refused(w, recovery, money)
        PROVE  UNCHANGED ledger_vars
    BY <1>3 DEF wallet_update_refused
  <1> QED
    BY <1>1, <1>2, <1>3, Zenon DEF AuthorityNext, Signers

-----------------------------------------------------------------------------
(* Rewards.                                                                *)

(* The chain starts with no reward paid and no pow seen. *)
LEMMA RewardInit == Init => RewardInv
  BY LedgerAssumption DEF Init, LedgerInit, RewardInv, OneReward

(* Only pow and the end of a block change what RewardInv is about. *)
LEMMA RewardKept == ASSUME RewardInv, UNCHANGED <<head_block_num, rewards, block>>
                    PROVE  RewardInv'
  BY DEF RewardInv, OneReward

(* Below PowChange a pow counts a reward and is for the block before the head. *)
LEMMA RewardPow == ASSUME RewardInv, NEW w \in Names, NEW prev \in {head_block_num - 1, head_block_num},
                          pow(w, prev)
                   PROVE  RewardInv'
  <1> USE DEF RewardInv
  <1> DEFINE new == [worker |-> w, prev |-> prev]
  <1>1. new # None /\ new.prev = prev
    BY LedgerAssumption
  <1>2. /\ block' = [miners |-> block.miners, pow |-> IF block.pow = None THEN new ELSE block.pow]
        /\ head_block_num' = head_block_num
    BY DEF pow
  <1>3. block'.pow # None
    BY <1>1, <1>2
  <1>4. CASE head_block_num >= PowChange
    <2>1. rewards' = rewards
      BY <1>4 DEF pow
    <2> QED
      BY <1>2, <1>3, <1>4, <2>1, LedgerAssumption DEF OneReward
  <1>5. CASE ~ head_block_num >= PowChange
    <2>1. head_block_num > 0 => prev = head_block_num - 1
      BY <1>5 DEF pow
    <2>2. prev > last_irreversible_block_num
      BY <1>5 DEF pow
    <2>3. prev # head_block_num
      BY <2>1, <2>2, LedgerAssumption DEF last_irreversible_block_num
    <2>4. rewards' = rewards \/ rewards' = [rewards EXCEPT !.now = @ + 1]
      BY <1>5 DEF pow
    <2>5. rewards' \in [now : Nat, last : Nat]
      BY <2>4
    <2>6. block'.pow.prev # head_block_num
      BY <1>1, <1>2, <1>5, <2>3, LedgerAssumption
    <2> QED
      BY <1>2, <1>3, <1>5, <2>5, <2>6, LedgerAssumption DEF OneReward
  <1> QED
    BY <1>4, <1>5

(* A pow that was rewarded at once is not right at the end of the block. *)
LEMMA RewardEnd == ASSUME RewardInv, NEW m \in Names, NEW time \in Times, end_of_block(m, time)
                   PROVE  RewardInv'
  <1> USE DEF RewardInv
  <1> DEFINE paid == head_block_num' >= PowChange /\ block.pow # None
  <1>1. /\ head_block_num' = head_block_num + 1
        /\ block' = [miners |-> witnesses, pow |-> None]
        /\ rewards' = [now |-> 0, last |-> rewards.now + (IF paid THEN 1 ELSE 0)]
        /\ paid => FirstPowRight(m)
    BY DEF end_of_block
  <1>2. rewards' \in [now : Nat, last : Nat] /\ rewards'.now = 0
    BY <1>1
  <1>3. ASSUME head_block_num' >= PowChange PROVE rewards'.last <= 1
    <2>1. rewards.now = 0
      <3>1. CASE head_block_num >= PowChange
        BY <3>1 DEF OneReward
      <3>2. CASE ~ head_block_num >= PowChange /\ rewards.now > 0
        BY <1>1, <1>3, <3>2, LedgerAssumption DEF FirstPowRight
      <3> QED
        BY <3>1, <3>2
    <2> QED
      BY <1>1, <2>1
  <1> QED
    BY <1>1, <1>2, <1>3 DEF OneReward

(* One case for each kind of step. *)
LEMMA RewardStep == RewardInv /\ [Next]_vars => RewardInv'
  <1> SUFFICES ASSUME RewardInv, [Next]_vars PROVE RewardInv'
    OBVIOUS
  <1> USE DEF mining_vars, ledger_vars
  <1>1. CASE MoneyNext
    <2> USE DEF MoneyNext
    <2>1. ASSUME NEW w, NEW n, NEW a, transfer(w, n, a) PROVE RewardInv'
      BY <2>1, RewardKept DEF transfer
    <2>2. ASSUME NEW w, NEW n, NEW agent, NEW id, NEW a, NEW fee, NEW d,
                 escrow_transfer(w, n, agent, id, a, fee, d[1], d[2])
          PROVE  RewardInv'
      BY <2>2, RewardKept DEF escrow_transfer
    <2>3. ASSUME NEW k, NEW who, NEW approve, escrow_approve(k, who, approve) PROVE RewardInv'
      BY <2>3, RewardKept DEF escrow_approve
    <2>4. ASSUME NEW k, NEW who, escrow_dispute(k, who) PROVE RewardInv'
      BY <2>4, RewardKept DEF escrow_dispute
    <2>5. ASSUME NEW k, NEW who, NEW n, NEW a, escrow_release(k, who, n, a) PROVE RewardInv'
      BY <2>5, RewardKept DEF escrow_release
    <2> QED
      BY <1>1, <2>1, <2>2, <2>3, <2>4, <2>5, Zenon
  <1>2. CASE MiningNext
    <2>1. PICK w \in Signers : \/ witness_update(w)
                               \/ \E prev \in {head_block_num - 1, head_block_num} : pow(w, prev)
      BY <1>2 DEF MiningNext, WitnessNext, PowNext
    <2>2. w \in Names
      BY DEF Signers
    <2>3. CASE witness_update(w)
      BY <2>3, RewardKept DEF witness_update
    <2> QED
      BY <2>1, <2>2, <2>3, RewardPow
  <1>3. CASE CommentNext
    <2>1. UNCHANGED <<head_block_num, rewards, block>>
      BY <1>3 DEF CommentNext, comment_create, comment_edit, delete_comment, comment_options
    <2> QED
      BY <2>1, RewardKept
  <1>4. ASSUME NEW m \in Names, NEW time \in Times, end_of_block(m, time) PROVE RewardInv'
    BY <1>4, RewardEnd
  <1>5. CASE AuthorityNext
    <2>1. ASSUME NEW n, AddsWallet(n) PROVE RewardInv'
      BY <2>1, RewardKept DEF AddsWallet
    <2>2. CASE UNCHANGED ledger_vars
      BY <2>2, RewardKept
    <2> QED
      BY <1>5, <2>1, <2>2, AuthorityStep
  <1>6. CASE UNCHANGED vars
    BY <1>6, RewardKept DEF vars
  <1> QED
    BY <1>1, <1>2, <1>3, <1>4, <1>5, <1>6 DEF Next, MiningNext

(* From PowChange on a block pays at most one reward, also in the block in *)
(* which the rule changes: pow_evaluator and _apply_block ask for work on  *)
(* different blocks. *)
THEOREM OneRewardTheorem == Spec => []OneReward
  <1>1. RewardInv => OneReward
    BY DEF RewardInv
  <1> QED
    BY <1>1, RewardInit, RewardStep, PTL DEF Spec
-----------------------------------------------------------------------------
(* Wallets and escrows.                                                    *)

(* At genesis there are no escrows and the initial miner holds all. *)
LEMMA MoneyInit == Init => MoneyInv
  BY LedgerAssumption DEF Init, LedgerInit, MoneyInv, EscrowTable, BalanceTable, EscrowStages, HoldersExist

(* Operations that leave the escrows alone keep what is known of them, as  *)
(* wallets are never removed. *)
LEMMA EscrowsKept == ASSUME EscrowTable, EscrowStages, escrow' = escrow, wallets \subseteq wallets'
                     PROVE  EscrowTable' /\ EscrowStages'
  BY DEF EscrowTable, EscrowStages, is_approved

(* A change of a balance concerns that balance. *)
LEMMA Adjusts == ASSUME NEW bal, bal = [w \in Names |-> bal[w]], NEW w \in Names, NEW delta
                 PROVE  LET new == adjust_balance(bal, w, delta)
                        IN  /\ new = [x \in Names |-> new[x]]
                            /\ new[w] = bal[w] + delta
                            /\ \A x \in Names \ {w} : new[x] = bal[x]
  BY DEF adjust_balance

(* Whoever is credited has a wallet. *)
LEMMA HoldersKept ==
  ASSUME HoldersExist, wallets \subseteq wallets', NEW S \in SUBSET wallets',
         \A x \in Names \ S : balance'[x] = balance[x]
  PROVE  HoldersExist'
  BY DEF HoldersExist

(* A new wallet holds nothing. *)
LEMMA MoneyCreate == ASSUME MoneyInv, NEW n \in Names, AddsWallet(n)
                     PROVE  MoneyInv'
  <1>1. escrow' = escrow /\ balance' = balance /\ wallets' = wallets \cup {n}
    BY DEF AddsWallet
  <1> QED
    BY <1>1, EscrowsKept DEF MoneyInv, BalanceTable, HoldersExist

(* A transfer creates the wallet that it credits. *)
LEMMA MoneyTransfer == ASSUME MoneyInv, NEW w \in Names, NEW n \in Names, NEW a \in Amounts,
                              transfer(w, n, a)
                       PROVE  MoneyInv'
  <1>1. /\ escrow' = escrow /\ wallets' = wallets \cup {n} /\ w \in wallets
        /\ balance' = adjust_balance(adjust_balance(balance, w, -a), n, a)
    BY DEF transfer, Sufficient
  <1> DEFINE mid == adjust_balance(balance, w, -a)
  <1>2. mid = [x \in Names |-> mid[x]] /\ \A x \in Names \ {w} : mid[x] = balance[x]
    BY Adjusts DEF MoneyInv, BalanceTable
  <1> HIDE DEF mid
  <1>3. BalanceTable' /\ \A x \in Names \ {n} : balance'[x] = mid[x]
    BY <1>1, <1>2, Adjusts DEF mid, BalanceTable
  <1>4. \A x \in Names \ {w, n} : balance'[x] = balance[x]
    BY <1>2, <1>3
  <1>5. HoldersExist'
    <2>1. {w, n} \in SUBSET wallets' /\ wallets \subseteq wallets'
      BY <1>1
    <2> QED
      BY <1>4, <2>1, HoldersKept DEF MoneyInv
  <1> QED
    BY <1>1, <1>3, <1>5, EscrowsKept DEF MoneyInv

(* A new escrow is neither approved nor disputed. *)
LEMMA MoneyEscrow ==
  ASSUME MoneyInv, NEW w \in Names, NEW n \in Names, NEW agent \in Names, NEW id \in EscrowIds,
         NEW a \in Amounts, NEW fee \in Fees, NEW d \in Deadlines,
         escrow_transfer(w, n, agent, id, a, fee, d[1], d[2])
  PROVE  MoneyInv'
  <1> DEFINE key == <<w, id>>
             new == [to |-> n, agent |-> agent, ratification_deadline |-> d[1],
                     escrow_expiration |-> d[2], xgt_balance |-> a,
                     pending_fee |-> fee, to_approved |-> FALSE, agent_approved |-> FALSE,
                     disputed |-> FALSE]
  <1>1. /\ escrow' = Created(escrow, key, new) /\ key \notin DOMAIN escrow
        /\ wallets' = wallets /\ {w, n, agent} \subseteq wallets
        /\ a > 0 /\ w # agent /\ n # agent
        /\ balance' = adjust_balance(balance, w, -(a + fee))
    BY DEF escrow_transfer
  <1>2. new \in EscrowObject /\ ~ is_approved(new) /\ ~ new.disputed /\ new.xgt_balance > 0
    BY <1>1, LedgerAssumption DEF EscrowObject, is_approved
  <1>3. /\ DOMAIN escrow' = DOMAIN escrow \cup {key}
        /\ escrow' = [k \in DOMAIN escrow' |-> escrow'[k]]
        /\ escrow'[key] = new
        /\ \A k \in DOMAIN escrow : escrow'[k] = escrow[k]
    BY <1>1 DEF Created
  <1>4. key \in Names \X EscrowIds /\ key[1] = w /\ new.to = n /\ new.agent = agent
    OBVIOUS
  <1> HIDE DEF key, new
  <1>5. EscrowTable'
    BY <1>2, <1>3, <1>4 DEF MoneyInv, EscrowTable
  <1>6. EscrowStages'
    BY <1>1, <1>2, <1>3, <1>4 DEF MoneyInv, EscrowStages, is_approved
  <1>7. BalanceTable' /\ \A x \in Names \ {w} : balance'[x] = balance[x]
    BY <1>1, Adjusts DEF MoneyInv, BalanceTable
  <1>8. HoldersExist'
    BY <1>1, <1>7, HoldersKept DEF MoneyInv
  <1> QED
    BY <1>1, <1>5, <1>6, <1>7, <1>8 DEF MoneyInv

(* An escrow that is changed or removed, with a balance adjusted at most. *)
LEMMA EscrowChanged ==
  ASSUME MoneyInv, NEW k \in DOMAIN escrow, wallets' = wallets,
         \/ escrow' = Removed(escrow, k)
         \/ \E e \in EscrowObject :
              /\ escrow' = [escrow EXCEPT ![k] = e]
              /\ is_approved(e) => e.pending_fee = 0
              /\ e.disputed => is_approved(e)
              /\ e.xgt_balance > 0
              /\ e.to = escrow[k].to /\ e.agent = escrow[k].agent
  PROVE  EscrowTable' /\ EscrowStages'
  <1>1. CASE escrow' = Removed(escrow, k)
    <2>1. /\ DOMAIN escrow' = DOMAIN escrow \ {k}
          /\ escrow' = [x \in DOMAIN escrow' |-> escrow'[x]]
          /\ \A x \in DOMAIN escrow' : escrow'[x] = escrow[x]
      BY <1>1 DEF Removed, Restrict
    <2> QED
      BY <2>1 DEF MoneyInv, EscrowTable, EscrowStages, is_approved
  <1>2. ASSUME NEW e \in EscrowObject, escrow' = [escrow EXCEPT ![k] = e],
               is_approved(e) => e.pending_fee = 0, e.disputed => is_approved(e), e.xgt_balance > 0,
               e.to = escrow[k].to, e.agent = escrow[k].agent
        PROVE  EscrowTable' /\ EscrowStages'
    <2>1. /\ DOMAIN escrow' = DOMAIN escrow
          /\ escrow' = [x \in DOMAIN escrow' |-> escrow'[x]]
          /\ escrow'[k] = e
          /\ \A x \in DOMAIN escrow \ {k} : escrow'[x] = escrow[x]
      BY <1>2 DEF MoneyInv, EscrowTable
    <2>2. EscrowTable'
      BY <2>1 DEF MoneyInv, EscrowTable
    <2>3. EscrowStages'
      BY <1>2, <2>1 DEF MoneyInv, EscrowStages, is_approved
    <2> QED
      BY <2>2, <2>3
  <1> QED
    BY <1>1, <1>2

(* A rejection removes the escrow; the second approval pays the fee. *)
LEMMA MoneyApprove == ASSUME MoneyInv, NEW k \in DOMAIN escrow, NEW who \in Names, NEW approve \in BOOLEAN,
                             escrow_approve(k, who, approve)
                      PROVE  MoneyInv'
  <1> DEFINE e == escrow[k]
  <1>1. /\ e \in EscrowObject /\ k[1] \in wallets /\ e.agent \in wallets /\ e.xgt_balance > 0
        /\ k[1] \in Names /\ e.agent \in Names
        /\ (e.disputed => is_approved(e))
    BY DEF MoneyInv, EscrowTable, EscrowStages, EscrowObject
  <1>2. wallets' = wallets
    BY DEF escrow_approve
  <1>3. ~ is_approved(e)
    BY DEF escrow_approve, is_approved
  <1>4. CASE ~ approve
    <2>1. escrow' = Removed(escrow, k) /\ balance' = adjust_balance(balance, k[1], Refund(e))
      BY <1>4 DEF escrow_approve
    <2>2. EscrowTable' /\ EscrowStages'
      BY <1>2, <2>1, EscrowChanged
    <2>3. BalanceTable' /\ \A x \in Names \ {k[1]} : balance'[x] = balance[x]
      BY <1>1, <2>1, Adjusts DEF MoneyInv, BalanceTable
    <2>4. HoldersExist'
      BY <1>1, <1>2, <2>3, HoldersKept DEF MoneyInv
    <2> QED
      BY <1>2, <2>2, <2>3, <2>4 DEF MoneyInv
  <1>5. CASE approve
    <2> DEFINE to_approved == e.to_approved \/ (approve /\ who = e.to)
               agent_approved == e.agent_approved \/ (approve /\ who = e.agent)
    <2>1. CASE to_approved /\ agent_approved
      <3> DEFINE f == [e EXCEPT !.to_approved = TRUE, !.agent_approved = TRUE, !.pending_fee = 0]
      <3>1. escrow' = [escrow EXCEPT ![k] = f] /\ balance' = adjust_balance(balance, e.agent, e.pending_fee)
        BY <1>5, <2>1 DEF escrow_approve
      <3>2. /\ f \in EscrowObject /\ f.pending_fee = 0 /\ is_approved(f)
            /\ f.xgt_balance > 0 /\ f.to = e.to /\ f.agent = e.agent
        BY <1>1 DEF EscrowObject, is_approved
      <3> HIDE DEF f
      <3>3. EscrowTable' /\ EscrowStages'
        BY <1>2, <3>1, <3>2, EscrowChanged
      <3>4. BalanceTable' /\ \A x \in Names \ {e.agent} : balance'[x] = balance[x]
        BY <1>1, <3>1, Adjusts DEF MoneyInv, BalanceTable
      <3>5. HoldersExist'
        BY <1>1, <1>2, <3>4, HoldersKept DEF MoneyInv
      <3> QED
        BY <1>2, <3>3, <3>4, <3>5 DEF MoneyInv
    <2>2. CASE ~ (to_approved /\ agent_approved)
      <3> DEFINE f == [e EXCEPT !.to_approved = to_approved, !.agent_approved = agent_approved]
      <3>1. escrow' = [escrow EXCEPT ![k] = f] /\ balance' = balance
        BY <1>5, <2>2 DEF escrow_approve
      <3>2. to_approved \in BOOLEAN /\ agent_approved \in BOOLEAN
        BY <1>1, Zenon DEF EscrowObject
      <3>3. /\ f \in EscrowObject /\ ~ is_approved(f) /\ ~ f.disputed
            /\ f.xgt_balance > 0 /\ f.to = e.to /\ f.agent = e.agent
        BY <1>1, <1>3, <2>2, <3>2 DEF EscrowObject, is_approved
      <3> HIDE DEF f
      <3>4. EscrowTable' /\ EscrowStages'
        BY <1>2, <3>1, <3>3, EscrowChanged
      <3> QED
        BY <1>2, <3>1, <3>4 DEF MoneyInv, BalanceTable, HoldersExist
    <2> QED
      BY <2>1, <2>2
  <1> QED
    BY <1>4, <1>5

(* Only an approved escrow is disputed. *)
LEMMA MoneyDispute == ASSUME MoneyInv, NEW k \in DOMAIN escrow, NEW who \in Names, escrow_dispute(k, who)
                      PROVE  MoneyInv'
  <1> DEFINE e == escrow[k]
             f == [e EXCEPT !.disputed = TRUE]
  <1>1. e \in EscrowObject /\ e.xgt_balance > 0 /\ (is_approved(e) => e.pending_fee = 0)
    BY DEF MoneyInv, EscrowTable, EscrowStages
  <1>2. escrow' = [escrow EXCEPT ![k] = f] /\ is_approved(e) /\ balance' = balance /\ wallets' = wallets
    BY DEF escrow_dispute
  <1>3. /\ f \in EscrowObject /\ f.pending_fee = 0 /\ is_approved(f)
        /\ f.xgt_balance > 0 /\ f.to = e.to /\ f.agent = e.agent
    BY <1>1, <1>2 DEF EscrowObject, is_approved
  <1> HIDE DEF f
  <1>4. EscrowTable' /\ EscrowStages'
    BY <1>2, <1>3, EscrowChanged
  <1> QED
    BY <1>2, <1>4 DEF MoneyInv, BalanceTable, HoldersExist

(* A release goes to one of the parties and leaves no empty escrow. *)
LEMMA MoneyRelease == ASSUME MoneyInv, NEW k \in DOMAIN escrow, NEW who \in Names, NEW n \in Names,
                             NEW a \in Amounts, escrow_release(k, who, n, a)
                      PROVE  MoneyInv'
  <1> DEFINE e == escrow[k]
             f == [e EXCEPT !.xgt_balance = @ - a]
  <1>1. /\ e \in EscrowObject /\ {k[1], e.to} \subseteq wallets
        /\ (is_approved(e) => e.pending_fee = 0) /\ (e.disputed => is_approved(e))
    BY DEF MoneyInv, EscrowTable, EscrowStages
  <1>2. /\ is_approved(e) /\ e.xgt_balance >= a /\ a > 0 /\ n \in {k[1], e.to}
        /\ escrow' = IF e.xgt_balance = a THEN Removed(escrow, k) ELSE [escrow EXCEPT ![k] = f]
        /\ balance' = adjust_balance(balance, n, a) /\ wallets' = wallets
    BY DEF escrow_release, MayRelease
  <1>3. EscrowTable' /\ EscrowStages'
    <2>1. CASE e.xgt_balance = a
      BY <1>2, <2>1, EscrowChanged
    <2>2. CASE e.xgt_balance # a
      <3>1. /\ f \in EscrowObject /\ f.pending_fee = 0 /\ is_approved(f)
            /\ f.xgt_balance > 0 /\ f.to = e.to /\ f.agent = e.agent
        BY <1>1, <1>2, <2>2, LedgerAssumption DEF EscrowObject, is_approved
      <3> HIDE DEF f
      <3> QED
        BY <1>2, <2>2, <3>1, EscrowChanged
    <2> QED
      BY <2>1, <2>2
  <1>4. BalanceTable' /\ \A x \in Names \ {n} : balance'[x] = balance[x]
    BY <1>2, Adjusts DEF MoneyInv, BalanceTable
  <1>5. HoldersExist'
    BY <1>1, <1>2, <1>4, HoldersKept DEF MoneyInv
  <1> QED
    BY <1>2, <1>3, <1>4, <1>5 DEF MoneyInv

(* A pow creates the wallet that it rewards. *)
LEMMA MoneyPow == ASSUME MoneyInv, NEW w \in Names, NEW prev, pow(w, prev)
                  PROVE  MoneyInv'
  <1>1. escrow' = escrow
    BY DEF pow
  <1>2. CASE head_block_num >= PowChange
    <2>1. wallets' = wallets /\ balance' = balance
      BY <1>2 DEF pow
    <2> QED
      BY <1>1, <2>1, EscrowsKept DEF MoneyInv, BalanceTable, HoldersExist
  <1>3. CASE ~ head_block_num >= PowChange
    <2>1. /\ wallets' = wallets \cup {w}
          /\ balance' = balance \/ balance' = adjust_balance(balance, w, Reward(head_block_num))
      BY <1>3 DEF pow
    <2>2. BalanceTable' /\ \A x \in Names \ {w} : balance'[x] = balance[x]
      BY <2>1, Adjusts DEF MoneyInv, BalanceTable
    <2>3. HoldersExist'
      BY <2>1, <2>2, HoldersKept DEF MoneyInv
    <2> QED
      BY <1>1, <2>1, <2>2, <2>3, EscrowsKept DEF MoneyInv
  <1> QED
    BY <1>2, <1>3

(* The null wallet is cleared; a miner that is paid is one of the witnesses. *)
LEMMA MoneyEnd == ASSUME MoneyInv, MinersInv, NEW m \in Names, NEW time \in Times, end_of_block(m, time)
                  PROVE  MoneyInv'
  <1> DEFINE cleared == [balance EXCEPT ![Null] = 0]
             paid == head_block_num' >= PowChange /\ block.pow # None
             amount == IF paid THEN Reward(head_block_num') ELSE 0
  <1>1. /\ escrow' = escrow /\ wallets' = wallets /\ m \in wallets
        /\ balance' = IF paid THEN adjust_balance(cleared, block.pow.worker, amount) ELSE cleared
        /\ paid => block.pow.worker = m
    BY DEF end_of_block, FirstPowRight, MinersInv
  <1>2. cleared = [x \in Names |-> cleared[x]] /\ \A x \in Names \ {Null} : cleared[x] = balance[x]
    BY DEF MoneyInv, BalanceTable
  <1> HIDE DEF cleared, paid, amount
  <1>3. balance' = cleared \/ balance' = adjust_balance(cleared, m, amount)
    BY <1>1
  <1>4. BalanceTable' /\ \A x \in Names \ {m} : balance'[x] = cleared[x]
    BY <1>2, <1>3, Adjusts DEF BalanceTable
  <1>5. \A x \in Names \ {Null, m} : balance'[x] = balance[x]
    BY <1>2, <1>4
  <1>6. {Null, m} \in SUBSET wallets' /\ wallets \subseteq wallets'
    BY <1>1 DEF MinersInv
  <1>7. HoldersExist'
    BY <1>5, <1>6, HoldersKept DEF MoneyInv
  <1> QED
    BY <1>1, <1>4, <1>7, EscrowsKept DEF MoneyInv

(* Steps that touch neither money, nor wallets, nor escrows. *)
LEMMA MoneyKept == ASSUME MoneyInv, UNCHANGED <<wallets, balance, escrow>>
                   PROVE  MoneyInv'
  BY EscrowsKept DEF MoneyInv, BalanceTable, HoldersExist

(* One case for each kind of step. *)
LEMMA MoneyStep == MoneyInv /\ MinersInv /\ [Next]_vars => MoneyInv'
  <1> SUFFICES ASSUME MoneyInv, MinersInv, [Next]_vars PROVE MoneyInv'
    OBVIOUS
  <1>0. Signers \subseteq Names
    BY DEF Signers
  <1>1. CASE MoneyNext
    <2>1. ASSUME NEW w \in Signers, NEW n \in Names, NEW a \in Amounts, transfer(w, n, a) PROVE MoneyInv'
      BY <1>0, <2>1, MoneyTransfer
    <2>2. ASSUME NEW w \in Signers, NEW n \in Names, NEW agent \in Names, NEW id \in EscrowIds,
                 NEW a \in Amounts, NEW fee \in Fees, NEW d \in Deadlines,
                 escrow_transfer(w, n, agent, id, a, fee, d[1], d[2])
          PROVE  MoneyInv'
      BY <1>0, <2>2, MoneyEscrow
    <2>3. ASSUME NEW k \in DOMAIN escrow, NEW who \in Signers, NEW approve \in BOOLEAN,
                 escrow_approve(k, who, approve)
          PROVE  MoneyInv'
      BY <1>0, <2>3, MoneyApprove
    <2>4. ASSUME NEW k \in DOMAIN escrow, NEW who \in Signers, escrow_dispute(k, who) PROVE MoneyInv'
      BY <1>0, <2>4, MoneyDispute
    <2>5. ASSUME NEW k \in DOMAIN escrow, NEW who \in Signers, NEW n \in Names, NEW a \in Amounts,
                 escrow_release(k, who, n, a)
          PROVE  MoneyInv'
      BY <1>0, <2>5, MoneyRelease
    <2> QED
      BY <1>1, <2>1, <2>2, <2>3, <2>4, <2>5, Zenon DEF MoneyNext
  <1>2. CASE MiningNext
    <2>1. PICK w \in Signers : \/ witness_update(w)
                               \/ \E prev \in {head_block_num - 1, head_block_num} : pow(w, prev)
      BY <1>2 DEF MiningNext, WitnessNext, PowNext
    <2>2. CASE witness_update(w)
      BY <2>2, MoneyKept DEF witness_update
    <2> QED
      BY <1>0, <2>1, <2>2, MoneyPow
  <1>3. CASE CommentNext
    <2>1. UNCHANGED <<wallets, balance, escrow>>
      BY <1>3 DEF CommentNext, comment_create, comment_edit, delete_comment, comment_options, ledger_vars
    <2> QED
      BY <2>1, MoneyKept
  <1>4. ASSUME NEW m \in Names, NEW time \in Times, end_of_block(m, time) PROVE MoneyInv'
    BY <1>4, MoneyEnd
  <1>5. CASE AuthorityNext
    <2>1. ASSUME NEW n \in Names, AddsWallet(n) PROVE MoneyInv'
      BY <1>0, <2>1, MoneyCreate
    <2>2. CASE UNCHANGED ledger_vars
      BY <2>2, MoneyKept DEF ledger_vars
    <2> QED
      BY <1>5, <2>1, <2>2, AuthorityStep
  <1>6. CASE UNCHANGED vars
    BY <1>6, MoneyKept DEF vars, ledger_vars
  <1> QED
    BY <1>1, <1>2, <1>3, <1>4, <1>5, <1>6 DEF Next, MiningNext

(* At genesis only the initial miner mines. *)
LEMMA MinersInit == Init => MinersInv
  BY LedgerAssumption DEF Init, LedgerInit, MinersInv

(* Wallets are never removed, and the miners of a block are the witnesses  *)
(* at its start. *)
LEMMA MinersKept == ASSUME MinersInv, wallets \subseteq wallets', UNCHANGED <<witnesses, block>>
                    PROVE  MinersInv'
  BY DEF MinersInv

(* Witnesses are made of wallets only. *)
LEMMA MinersStep == MinersInv /\ [Next]_vars => MinersInv'
  <1> SUFFICES ASSUME MinersInv, [Next]_vars PROVE MinersInv'
    OBVIOUS
  <1> USE DEF mining_vars, ledger_vars
  <1>1. CASE MoneyNext
    <2> USE DEF MoneyNext
    <2>1. ASSUME NEW w, NEW n, NEW a, transfer(w, n, a) PROVE MinersInv'
      BY <2>1, MinersKept DEF transfer
    <2>2. ASSUME NEW w, NEW n, NEW agent, NEW id, NEW a, NEW fee, NEW d,
                 escrow_transfer(w, n, agent, id, a, fee, d[1], d[2])
          PROVE  MinersInv'
      BY <2>2, MinersKept DEF escrow_transfer
    <2>3. ASSUME NEW k, NEW who, NEW approve, escrow_approve(k, who, approve) PROVE MinersInv'
      BY <2>3, MinersKept DEF escrow_approve
    <2>4. ASSUME NEW k, NEW who, escrow_dispute(k, who) PROVE MinersInv'
      BY <2>4, MinersKept DEF escrow_dispute
    <2>5. ASSUME NEW k, NEW who, NEW n, NEW a, escrow_release(k, who, n, a) PROVE MinersInv'
      BY <2>5, MinersKept DEF escrow_release
    <2> QED
      BY <1>1, <2>1, <2>2, <2>3, <2>4, <2>5, Zenon
  <1>2. CASE MiningNext
    <2>1. PICK w \in Signers : \/ witness_update(w)
                               \/ \E prev \in {head_block_num - 1, head_block_num} : pow(w, prev)
      BY <1>2 DEF MiningNext, WitnessNext, PowNext
    <2>2. CASE witness_update(w)
      BY <2>2 DEF witness_update, MinersInv
    <2>3. ASSUME NEW prev, pow(w, prev) PROVE MinersInv'
      <3>1. /\ block' = [miners |-> block.miners, pow |-> block'.pow]
            /\ \/ wallets' = wallets /\ witnesses' = witnesses
               \/ wallets' = wallets \cup {w} /\ witnesses' \subseteq witnesses \cup {w}
        BY <2>3 DEF pow, MinersInv
      <3> QED
        BY <3>1 DEF MinersInv
    <2> QED
      BY <2>1, <2>2, <2>3
  <1>3. CASE CommentNext
    <2>1. UNCHANGED <<wallets, witnesses, block>>
      BY <1>3 DEF CommentNext, comment_create, comment_edit, delete_comment, comment_options
    <2> QED
      BY <2>1, MinersKept
  <1>4. ASSUME NEW m \in Names, NEW time \in Times, end_of_block(m, time) PROVE MinersInv'
    BY <1>4 DEF end_of_block, MinersInv
  <1>5. CASE AuthorityNext
    <2>1. ASSUME NEW n, AddsWallet(n) PROVE MinersInv'
      BY <2>1, MinersKept DEF AddsWallet
    <2>2. CASE UNCHANGED ledger_vars
      BY <2>2, MinersKept
    <2> QED
      BY <1>5, <2>1, <2>2, AuthorityStep
  <1>6. CASE UNCHANGED vars
    BY <1>6, MinersKept DEF vars
  <1> QED
    BY <1>1, <1>2, <1>3, <1>4, <1>5, <1>6 DEF Next, MiningNext

(* An escrow always is at one of its stages, held by wallets that exist:   *)
(* the fee is out once both have approved, a dispute needs an approval,    *)
(* and an escrow that holds nothing is gone. *)
THEOREM EscrowStagesTheorem == Spec => []EscrowStages
  <1>1. MoneyInv => EscrowStages
    BY DEF MoneyInv
  <1> QED
    BY <1>1, MoneyInit, MoneyStep, MinersInit, MinersStep, PTL DEF Spec

(* Money is only ever held by wallets that exist, also when a block pays   *)
(* its miner. *)
THEOREM HoldersExistTheorem == Spec => []HoldersExist
  <1>1. MoneyInv => HoldersExist
    BY DEF MoneyInv
  <1> QED
    BY <1>1, MoneyInit, MoneyStep, MinersInit, MinersStep, PTL DEF Spec
-----------------------------------------------------------------------------
(* What leaves an escrow.                                                  *)

(* An escrow that a step does not touch loses nothing. *)
LEMMA Untouched == ASSUME MoneyInv, NEW k \in DOMAIN escrow, k \in DOMAIN escrow', escrow'[k].xgt_balance = escrow[k].xgt_balance
                   PROVE  LeavesPermitted(k)
  <1>1. escrow[k].xgt_balance \in Nat
    BY DEF MoneyInv, EscrowTable, EscrowObject
  <1> QED
    BY <1>1 DEF LeavesPermitted

(* Who turns an escrow down does it before the approval of both. *)
LEMMA ApproveLeaves == ASSUME MoneyInv, NEW k \in DOMAIN escrow, NEW who, NEW approve \in BOOLEAN,
                              escrow_approve(k, who, approve), NEW x \in DOMAIN escrow
                       PROVE  LeavesPermitted(x)
  <1>1. escrow[k] \in EscrowObject /\ (escrow[k].disputed => is_approved(escrow[k]))
    BY DEF MoneyInv, EscrowTable, EscrowStages
  <1>2. ~ is_approved(escrow[k])
    BY DEF escrow_approve, is_approved
  <1>3. CASE x = k
    <2>1. CASE approve
      <3>1. k \in DOMAIN escrow' /\ escrow'[k].xgt_balance = escrow[k].xgt_balance
        BY <1>1, <2>1 DEF escrow_approve, EscrowObject, MoneyInv, EscrowTable
      <3> QED
        BY <1>3, <3>1, Untouched
    <2>2. CASE ~ approve
      BY <1>1, <1>2, <1>3 DEF LeavesPermitted
    <2> QED
      BY <2>1, <2>2
  <1>4. CASE x # k
    <2>1. x \in DOMAIN escrow' /\ escrow'[x] = escrow[x]
      BY <1>4 DEF escrow_approve, Removed, Restrict, MoneyInv, EscrowTable
    <2> QED
      BY <2>1, Untouched
  <1> QED
    BY <1>3, <1>4

(* A release follows the permission scheme of its escrow. *)
LEMMA ReleaseLeaves == ASSUME MoneyInv, NEW k \in DOMAIN escrow, NEW who \in Names, NEW n \in Names,
                              NEW a \in Amounts, escrow_release(k, who, n, a), NEW x \in DOMAIN escrow
                       PROVE  LeavesPermitted(x)
  <1> DEFINE e == escrow[k]
  <1>1. /\ signer' = who /\ balance' = adjust_balance(balance, n, a)
        /\ MayRelease(e, k[1], who, n)
        /\ escrow' = IF e.xgt_balance = a THEN Removed(escrow, k) ELSE [escrow EXCEPT ![k].xgt_balance = @ - a]
    BY DEF escrow_release, Operation
  <1>2. \A y \in Names \ {n} : balance'[y] = balance[y]
    BY <1>1, Adjusts DEF MoneyInv, BalanceTable
  <1>3. CASE x = k
    <2>1. e.disputed => who = e.agent
      BY <1>1 DEF MayRelease
    <2>2. ~ e.disputed => who \in {k[1], e.to}
      BY <1>1 DEF MayRelease
    <2>3. ASSUME ~ e.disputed, k[1] # e.to, head_block_time < e.escrow_expiration PROVE n # who
      BY <1>1, <2>3 DEF MayRelease
    <2> QED
      BY <1>1, <1>2, <1>3, <2>1, <2>2, <2>3 DEF LeavesPermitted
  <1>4. CASE x # k
    <2>1. x \in DOMAIN escrow' /\ escrow'[x] = escrow[x]
      BY <1>1, <1>4 DEF Removed, Restrict, MoneyInv, EscrowTable
    <2> QED
      BY <2>1, Untouched
  <1> QED
    BY <1>3, <1>4

(* Only approvals, disputes, releases and new escrows change the escrows. *)
LEMMA LeavesStep == MoneyInv /\ [Next]_vars => [\A x \in DOMAIN escrow : LeavesPermitted(x)]_escrow
  <1> SUFFICES ASSUME MoneyInv, Next, escrow' # escrow, NEW x \in DOMAIN escrow
               PROVE  LeavesPermitted(x)
    BY DEF vars, ledger_vars
  <1>0. Signers \subseteq Names
    BY DEF Signers
  <1>1. CASE MoneyNext
    <2>1. ASSUME NEW w, NEW n, NEW a, transfer(w, n, a) PROVE FALSE
      BY <2>1 DEF transfer
    <2>2. ASSUME NEW w, NEW n, NEW agent, NEW id, NEW a, NEW fee, NEW d,
                 escrow_transfer(w, n, agent, id, a, fee, d[1], d[2])
          PROVE  LeavesPermitted(x)
      <3>1. x \in DOMAIN escrow' /\ escrow'[x] = escrow[x]
        BY <2>2 DEF escrow_transfer, Created
      <3> QED
        BY <3>1, Untouched
    <2>3. ASSUME NEW k \in DOMAIN escrow, NEW who \in Signers, NEW approve \in BOOLEAN,
                 escrow_approve(k, who, approve)
          PROVE  LeavesPermitted(x)
      BY <2>3, ApproveLeaves
    <2>4. ASSUME NEW k \in DOMAIN escrow, NEW who, escrow_dispute(k, who) PROVE LeavesPermitted(x)
      <3>1. escrow' = [escrow EXCEPT ![k] = [@ EXCEPT !.disputed = TRUE]] /\ escrow[k] \in EscrowObject
        BY <2>4 DEF escrow_dispute, MoneyInv, EscrowTable
      <3>2. x \in DOMAIN escrow' /\ escrow'[x].xgt_balance = escrow[x].xgt_balance
        BY <3>1 DEF MoneyInv, EscrowTable, EscrowObject
      <3> QED
        BY <3>2, Untouched
    <2>5. ASSUME NEW k \in DOMAIN escrow, NEW who \in Signers, NEW n \in Names, NEW a \in Amounts,
                 escrow_release(k, who, n, a)
          PROVE  LeavesPermitted(x)
      BY <1>0, <2>5, ReleaseLeaves
    <2> QED
      BY <1>1, <2>1, <2>2, <2>3, <2>4, <2>5, Zenon DEF MoneyNext
  <1>2. CASE MiningNext
    BY <1>2 DEF MiningNext, WitnessNext, PowNext, witness_update, pow
  <1>3. CASE CommentNext
    BY <1>3 DEF CommentNext, comment_create, comment_edit, delete_comment, comment_options, ledger_vars
  <1>4. ASSUME NEW m, NEW time, end_of_block(m, time) PROVE FALSE
    BY <1>4 DEF end_of_block
  <1>5. CASE AuthorityNext
    BY <1>5, AuthorityStep DEF AddsWallet, ledger_vars
  <1> QED
    BY <1>1, <1>2, <1>3, <1>4, <1>5 DEF Next, MiningNext

(* What leaves an escrow leaves by the permission scheme: under dispute by *)
(* the agent alone, else by a party, and before the expiration never to    *)
(* the party that releases it (escrow_release_evaluator). *)
THEOREM ReleasesPermittedTheorem == Spec => ReleasesPermitted
  <1>1. MoneyInv /\ [Next]_vars => [\A k \in DOMAIN escrow : LeavesPermitted(k)]_escrow
    BY LeavesStep
  <1> QED
    BY <1>1, MoneyInit, MoneyStep, MinersInit, MinersStep, PTL DEF Spec, ReleasesPermitted
-----------------------------------------------------------------------------
(* The entries of wallet_by_key.                                           *)

(* Every wallet has its authorities, the entries are a table, and the      *)
(* history variable has seen every sharing. *)
KeyInv ==
  /\ authority = [w \in wallets |-> authority[w]]
  /\ key_lookup = [k \in DOMAIN key_lookup |-> key_lookup[k]]
  /\ Sharing(authority) => shared
  /\ KeyLookupsRight

(* The wallets that exist at the start have one key each, their name. *)
LEMMA KeysStart == Init => KeyInv
  <1> SUFFICES ASSUME Init PROVE KeyInv
    OBVIOUS
  <1>1. /\ wallets = Existing /\ authority = [w \in Existing |-> IF w = Null THEN Unknown[w] ELSE Known[w]]
        /\ key_lookup = [w \in Existing \ {InitMiner, Null} |-> w]
    BY DEF Init, LedgerInit, AuthorityInit, KeyInit
  <1>2. \A w \in wallets : AllKeys(authority[w]) = IF w = Null THEN {} ELSE {w}
    BY <1>1, LedgerAssumption DEF AllKeys, Known, Unknown, Alike, Keys
  <1>3. DOMAIN authority = wallets /\ authority = [w \in wallets |-> authority[w]]
    BY <1>1
  <1>4. ~ Sharing(authority)
    BY <1>2, <1>3 DEF Sharing
  <1>5. ASSUME NEW k \in DOMAIN key_lookup PROVE key_lookup[k] \in wallets /\ k \in AllKeys(authority[key_lookup[k]])
    <2>1. k \in Existing /\ k # Null /\ key_lookup[k] = k
      BY <1>1, <1>5
    <2> QED
      BY <1>1, <1>2, <2>1
  <1>6. ASSUME NEW w \in wallets \ {InitMiner} PROVE AllKeys(authority[w]) \subseteq DOMAIN key_lookup
    <2>1. w # Null => w \in DOMAIN key_lookup
      BY <1>1
    <2> QED
      BY <1>2, <2>1
  <1> QED
    BY <1>1, <1>3, <1>4, <1>5, <1>6 DEF KeyInv, KeyLookupsRight

(* What the authorities of a wallet are after an operation that may have   *)
(* created it. *)
LEMMA JoinedAt == ASSUME KeyInv, NEW new, wallets \subseteq wallets', authority' = Joined(new)
                  PROVE  /\ authority' = [w \in wallets' |-> authority'[w]]
                         /\ \A w \in wallets : authority'[w] = authority[w]
                         /\ \A w \in wallets' \ wallets : authority'[w] = new[w]
  BY DEF KeyInv, Joined

(* An operation that leaves the entries alone, and whose new wallets have  *)
(* no keys. *)
LEMMA KeysLeft == ASSUME KeyInv, UNCHANGED <<key_lookup, shared>>, wallets \subseteq wallets',
                         authority' = [w \in wallets' |-> authority'[w]],
                         \A w \in wallets : authority'[w] = authority[w],
                         \A w \in wallets' \ wallets : AllKeys(authority'[w]) = {}
                  PROVE  KeyInv'
  <1>1. Sharing(authority') => Sharing(authority)
    BY DEF KeyInv, Sharing
  <1>2. KeyLookupsRight'
    BY DEF KeyInv, KeyLookupsRight, AllKeys
  <1> QED
    BY <1>1, <1>2 DEF KeyInv, Sharing, AllKeys

(* update_key_lookup after a change of one wallet: the copy is of the keys *)
(* that it had, none if it is new. *)
LEMMA KeysUpdated == ASSUME KeyInv, NEW w \in wallets', NEW cached, wallets \subseteq wallets', 
                            wallets' \subseteq wallets \cup {w},
                            authority' = [v \in wallets' |-> authority'[v]],
                            \A v \in wallets \ {w} : authority'[v] = authority[v],
                            \A k \in cached : w \in wallets /\ k \in AllKeys(authority[w]),
                            w \in wallets /\ authority'[w] # authority[w] => cached = AllKeys(authority[w]),
                            update_key_lookup(w, cached)
                     PROVE  KeyInv'
  <1> DEFINE now == AllKeys(authority'[w])
             kept == DOMAIN key_lookup \ (cached \ now)
             added == now \ cached
  <1>1. /\ key_lookup' = [k \in kept \cup added |-> IF k \in kept THEN key_lookup[k] ELSE w]
        /\ shared' = (shared \/ Sharing(authority'))
    BY DEF update_key_lookup
  <1>2. ASSUME NEW k \in DOMAIN key_lookup' PROVE key_lookup'[k] \in wallets' /\ k \in AllKeys(authority'[key_lookup'[k]])
    <2>1. CASE k \in kept
      <3>1. key_lookup'[k] = key_lookup[k] /\ key_lookup[k] \in wallets /\ k \in AllKeys(authority[key_lookup[k]])
        BY <1>1, <2>1 DEF KeyInv, KeyLookupsRight
      <3>2. CASE key_lookup[k] = w
        BY <2>1, <3>1, <3>2
      <3>3. CASE key_lookup[k] # w
        BY <3>1, <3>3
      <3> QED
        BY <3>2, <3>3
    <2>2. CASE k \notin kept
      BY <1>1, <1>2, <2>2
    <2> QED
      BY <2>1, <2>2
  <1>3. ASSUME ~ shared', NEW v \in wallets' \ {InitMiner}, NEW k \in AllKeys(authority'[v]) PROVE k \in DOMAIN key_lookup'
    <2>1. ~ shared /\ ~ Sharing(authority) /\ ~ Sharing(authority')
      BY <1>1, <1>3 DEF KeyInv
    <2>2. CASE v = w
      <3>1. w \in wallets /\ k \in cached => k \in DOMAIN key_lookup
        BY <1>3, <2>1, <2>2 DEF KeyInv, KeyLookupsRight
      <3> QED
        BY <1>1, <2>2, <3>1
    <2>3. CASE v # w
      <3>1. v \in wallets /\ k \in AllKeys(authority[v]) /\ k \in DOMAIN key_lookup
        BY <1>3, <2>1, <2>3 DEF KeyInv, KeyLookupsRight
      <3>2. k \notin cached
        BY <2>1, <2>3, <3>1 DEF Sharing, KeyInv
      <3> QED
        BY <1>1, <3>1, <3>2
    <2> QED
      BY <2>2, <2>3
  <1> HIDE DEF now, kept, added
  <1>4. KeyLookupsRight'
    BY <1>2, <1>3 DEF KeyLookupsRight, AllKeys
  <1>5. key_lookup' = [k \in DOMAIN key_lookup' |-> key_lookup'[k]]
    BY <1>1
  <1>6. (Sharing(authority) => shared)'
    BY <1>1 DEF Sharing, AllKeys
  <1> QED
    BY <1>4, <1>5, <1>6 DEF KeyInv

(* What operations on money leave alone. *)
LEMMA MoneyOnly == MoneyNext => /\ wallets \subseteq wallets'
                                /\ UNCHANGED <<witnesses, head_block_time, head_block_num>> /\ UNCHANGED mining_vars
  <1> DEFINE Same == /\ wallets \subseteq wallets'
                     /\ UNCHANGED <<witnesses, head_block_time, head_block_num>> /\ UNCHANGED mining_vars
  <1>1. ASSUME NEW w, NEW n, NEW a, transfer(w, n, a) PROVE Same
    BY <1>1 DEF transfer
  <1>2. ASSUME NEW w, NEW n, NEW agent, NEW id, NEW a, NEW fee, NEW d,
               escrow_transfer(w, n, agent, id, a, fee, d[1], d[2])
        PROVE  Same
    BY <1>2 DEF escrow_transfer
  <1>3. ASSUME NEW k, NEW who, NEW approve, escrow_approve(k, who, approve) PROVE Same
    BY <1>3 DEF escrow_approve
  <1>4. ASSUME NEW k, NEW who, escrow_dispute(k, who) PROVE Same
    BY <1>4 DEF escrow_dispute
  <1>5. ASSUME NEW k, NEW who, NEW n, NEW a, escrow_release(k, who, n, a) PROVE Same
    BY <1>5 DEF escrow_release
  <1> HIDE DEF Same
  <1>6. MoneyNext => Same
    BY <1>1, <1>2, <1>3, <1>4, <1>5, Zenon DEF MoneyNext
  <1> QED
    BY <1>6 DEF Same

(* The plugin after an operation that has created w or none. *)
LEMMA KeysPosted == ASSUME KeyInv, NEW w, wallets' = wallets \/ wallets' = wallets \cup {w},
                           authority' = [v \in wallets' |-> authority'[v]],
                           \A v \in wallets : authority'[v] = authority[v],
                           post_operation(w, {})
                    PROVE  KeyInv'
  <1>1. pre_operation({}) = {}
    BY DEF pre_operation
  <1>2. wallets \subseteq wallets' /\ wallets' \subseteq wallets \cup {w}
    OBVIOUS
  <1>3. CASE w \in wallets'
    <2>1. update_key_lookup(w, {})
      BY <1>1, <1>3 DEF post_operation
    <2> QED
      BY <1>2, <1>3, <2>1, KeysUpdated
  <1>4. CASE w \notin wallets'
    <2>1. wallets' = wallets /\ UNCHANGED <<key_lookup, shared>>
      BY <1>4 DEF post_operation
    <2> QED
      BY <2>1, KeysLeft
  <1> QED
    BY <1>3, <1>4

(* What wallet_update leaves alone of the authorities. *)
LEMMA UpdatedAt == ASSUME KeyInv, NEW w, NEW recovery, NEW money, wallet_update(w, recovery, money)
                   PROVE  /\ wallets' = wallets \cup {w}
                          /\ authority' = [v \in wallets' |-> authority'[v]]
                          /\ \A v \in wallets \ {w} : authority'[v] = authority[v]
  BY DEF wallet_update

(* The plugin after an update of w: its copy is of the keys that w had. *)
LEMMA KeysChanged == ASSUME KeyInv, NEW w \in wallets, NEW recovery, NEW money, wallet_update(w, recovery, money),
                            post_operation(w, {w})
                     PROVE  KeyInv'
  <1>1. w \in wallets' /\ wallets' = wallets
    BY UpdatedAt
  <1>2. pre_operation({w}) = AllKeys(authority[w])
    BY DEF pre_operation
  <1>3. update_key_lookup(w, AllKeys(authority[w]))
    BY <1>1, <1>2 DEF post_operation
  <1> QED
    BY <1>1, <1>3, UpdatedAt, KeysUpdated

(* The plugin after an update that has created w. *)
LEMMA KeysUpserted == ASSUME KeyInv, NEW w, w \notin wallets, NEW recovery, NEW money,
                             wallet_update(w, recovery, money), post_operation(w, {})
                      PROVE  KeyInv'
  BY UpdatedAt, KeysPosted

(* Nothing that the entries depend on changes. *)
LEMMA KeysKept == ASSUME KeyInv, UNCHANGED <<wallets, authority, key_lookup, shared>>
                  PROVE  KeyInv'
  BY DEF KeyInv, KeyLookupsRight, Sharing, AllKeys

(* One case for each kind of step. *)
LEMMA KeyStep == KeyInv /\ MoneyInv /\ MoneyInv' /\ [Next]_vars => KeyInv'
  <1> SUFFICES ASSUME KeyInv, MoneyInv, MoneyInv', [Next]_vars PROVE KeyInv'
    OBVIOUS
  <1> USE DEF key_vars
  <1>1. CASE MoneyNext /\ authority' = Joined(Unknown) /\ UNCHANGED key_vars
    <2>1. wallets' \subseteq Names
      BY DEF MoneyInv
    <2>2. \A w \in wallets' \ wallets : AllKeys(Unknown[w]) = {}
      BY <2>1 DEF AllKeys, Unknown, Alike, Keys
    <2> QED
      BY <1>1, <2>2, MoneyOnly, JoinedAt, KeysLeft
  <1>2. CASE WitnessNext /\ UNCHANGED <<authority, key_vars>>
    BY <1>2, KeysKept DEF WitnessNext, witness_update
  <1>3. CASE PowNext /\ authority' = Joined(Known) /\ post_operation(signer', {})
    <2>1. PICK w \in Signers : \E prev : pow(w, prev)
      BY <1>3 DEF PowNext
    <2>2. signer' = w /\ (wallets' = wallets \/ wallets' = wallets \cup {w})
      BY <2>1 DEF pow, Operation
    <2> QED
      BY <1>3, <2>2, JoinedAt, KeysPosted
  <1>4. CASE AuthorityNext
    <2>1. ASSUME NEW creator, NEW w, NEW recovery, NEW money, create_wallet(creator, w, recovery, money),
                 post_operation(w, {})
          PROVE  KeyInv'
      <3>1. wallets' = wallets \cup {w}
        BY <2>1 DEF create_wallet, wallet_create
      <3>2. authority' = Joined([x \in {w} |-> [Alike(recovery) EXCEPT !.money = money]])
        BY <2>1 DEF create_wallet
      <3> QED
        BY <2>1, <3>1, <3>2, JoinedAt, KeysPosted
    <2>2. ASSUME NEW w, NEW recovery, NEW money, wallet_update_refused(w, recovery, money) PROVE KeyInv'
      BY <2>2, KeysKept DEF wallet_update_refused, ledger_vars
    <2> QED
      BY <1>4, <2>1, <2>2, KeysChanged, KeysUpserted, Zenon DEF AuthorityNext
  <1>5. CASE CommentNext /\ UNCHANGED <<authority, key_vars>>
    <2>1. UNCHANGED wallets
      BY <1>5 DEF CommentNext, comment_create, comment_edit, delete_comment, comment_options, ledger_vars
    <2> QED
      BY <1>5, <2>1, KeysKept
  <1>6. ASSUME NEW m, NEW time, end_of_block(m, time), UNCHANGED <<authority, key_vars>> PROVE KeyInv'
    BY <1>6, KeysKept DEF end_of_block
  <1>7. CASE UNCHANGED vars
    BY <1>7, KeysKept DEF vars, ledger_vars
  <1> QED
    BY <1>1, <1>2, <1>3, <1>4, <1>5, <1>6, <1>7 DEF Next

(* An entry of wallet_by_key names a wallet that has the key, after any    *)
(* operations, refused ones included; and as long as no two wallets have   *)
(* had a key in common, every key that an operation has set has an entry. *)
THEOREM KeyLookupsRightTheorem == Spec => []KeyLookupsRight
  <1>1. KeyInv => KeyLookupsRight
    BY DEF KeyInv
  <1> QED
    BY <1>1, KeysStart, KeyStep, MoneyInit, MoneyStep, MinersInit, MinersStep, PTL DEF Spec
-----------------------------------------------------------------------------
(* Induction and sums.                                                     *)

(* Induction over the natural numbers, for a set. *)
Below == {p \in Nat \X Nat : p[1] < p[2]}

LEMMA NatInduct == ASSUME NEW T \in SUBSET Nat, 0 \in T, \A n \in T : n + 1 \in T
                   PROVE  T = Nat
  <1> SUFFICES ASSUME Nat \ T # {} PROVE FALSE
    OBVIOUS
  <1>1. IsWellFoundedOn(Below, Nat)
    BY NatLessThanWellFounded, Zenon DEF Below, OpToRel
  <1>2. PICK x \in Nat \ T : \A y \in Nat \ T : ~ (<<y, x>> \in Below)
    BY <1>1, WFMin
  <1>3. x - 1 \in Nat /\ <<x - 1, x>> \in Below
    BY <1>2 DEF Below
  <1>4. x - 1 \in T /\ (x - 1) + 1 = x
    BY <1>2, <1>3
  <1> QED
    BY <1>2, <1>4

(* Induction over the subsets of a finite set. *)
LEMMA SubsetInduct == ASSUME NEW S, IsFiniteSet(S), NEW T \in SUBSET (SUBSET S),
                             \A s \in SUBSET S : (\A t \in SUBSET s : t # s => t \in T) => s \in T
                      PROVE  T = SUBSET S
  <1> SUFFICES ASSUME (SUBSET S) \ T # {} PROVE FALSE
    OBVIOUS
  <1>1. IsWellFoundedOn(StrictSubsetOrdering(S), SUBSET S)
    BY FS_StrictSubsetOrderingWellFounded, FS_FiniteSubsetsOfFinite
  <1> DEFINE Rest == (SUBSET S) \ T
  <1>0. Rest \subseteq SUBSET S /\ Rest # {}
    OBVIOUS
  <1> HIDE DEF Rest
  <1>2. PICK s \in Rest : \A t \in Rest : ~ (<<t, s>> \in StrictSubsetOrdering(S))
    BY <1>0, <1>1, WFMin
  <1> USE DEF Rest
  <1>3. ASSUME NEW t \in SUBSET s, t # s PROVE t \in T
    <2>1. <<t, s>> \in StrictSubsetOrdering(S)
      BY <1>3 DEF StrictSubsetOrdering
    <2> QED
      BY <1>2, <2>1
  <1> QED
    BY <1>2, <1>3

(* What MapThenSumSet takes first. *)
Pick(S) == CHOOSE x \in S : TRUE

(* The sum of f over S, and the recursive function that MapThenSumSet uses. *)
SumOver(f, S) == MapThenSumSet(LAMBDA x : f[x], S)

Iter(g, f, S) == g = [s \in SUBSET S |-> IF s = {} THEN 0 ELSE f[Pick(s)] + g[s \ {Pick(s)}]]

(* It is one of the set. *)
LEMMA PickIn == ASSUME NEW s, s # {} PROVE Pick(s) \in s
  BY DEF Pick

(* One step of the recursion. *)
LEMMA IterAt == ASSUME NEW f, NEW S, NEW g, Iter(g, f, S), NEW s \in SUBSET S
                PROVE  /\ s = {} => g[s] = 0
                       /\ s # {} => g[s] = f[Pick(s)] + g[s \ {Pick(s)}]
  BY DEF Iter

(* The sum depends on the summands only. *)
LEMMA IterAgree == ASSUME NEW f, NEW S, NEW g, Iter(g, f, S),
                          NEW e, NEW R, NEW h, Iter(h, e, R),
                          NEW s \in SUBSET S, s \subseteq R, IsFiniteSet(s), \A x \in s : f[x] = e[x]
                   PROVE  g[s] = h[s]
  <1> DEFINE T == {t \in SUBSET s : g[t] = h[t]}
  <1>1. ASSUME NEW t \in SUBSET s, \A u \in SUBSET t : u # t => u \in T PROVE t \in T
    <2>1. CASE t = {}
      BY <2>1, IterAt
    <2>2. CASE t # {}
      <3>1. Pick(t) \in t
        BY <2>2, PickIn
      <3>2. t \ {Pick(t)} \in T
        BY <1>1, <3>1
      <3>3. g[t] = f[Pick(t)] + g[t \ {Pick(t)}] /\ h[t] = e[Pick(t)] + h[t \ {Pick(t)}]
        <4>1. t \in SUBSET S /\ t \in SUBSET R
          OBVIOUS
        <4>2. g[t] = f[Pick(t)] + g[t \ {Pick(t)}]
          BY <2>2, <4>1, IterAt
        <4>3. h[t] = e[Pick(t)] + h[t \ {Pick(t)}]
          BY <2>2, <4>1 DEF Iter
        <4> QED
          BY <4>2, <4>3
      <3> QED
        BY <3>1, <3>2, <3>3
    <2> QED
      BY <2>1, <2>2
  <1>2. T \in SUBSET (SUBSET s)
    OBVIOUS
  <1>3. T = SUBSET s
    <2> HIDE DEF T
    <2> QED
      BY <1>1, <1>2, SubsetInduct
  <1> QED
    BY <1>3

(* The recursion defines a function: by induction over the subsets of S.  *)
LEMMA IterExists == ASSUME NEW f, NEW S, IsFiniteSet(S) PROVE \E g : Iter(g, f, S)
  <1> DEFINE T == {t \in SUBSET S : \E g : Iter(g, f, t)}
  <1>1. ASSUME NEW t \in SUBSET S, \A u \in SUBSET t : u # t => u \in T PROVE t \in T
    <2> DEFINE less(s) == s \ {Pick(s)}
               part(s) == CHOOSE g : Iter(g, f, s)
               g == [s \in SUBSET t |-> IF s = {} THEN 0 ELSE f[Pick(s)] + part(less(s))[less(s)]]
    <2>1. \A s : s # {} => Pick(s) \in s
      BY PickIn
    <2>2. ASSUME NEW s \in SUBSET t, s # t PROVE Iter(part(s), f, s)
      BY <1>1, <2>2
    <2>3. ASSUME NEW s \in SUBSET t, s # {} PROVE g[less(s)] = part(less(s))[less(s)]
      <3> DEFINE u == less(s)
      <3>1. u \in SUBSET t /\ u # t /\ Iter(part(u), f, u)
        BY <2>1, <2>2, <2>3
      <3>2. CASE u = {}
        <4>1. part(u)[u] = 0
          <5> HIDE DEF part, u
          <5> QED
            BY <3>1, <3>2, IterAt
        <4> QED
          BY <3>1, <3>2, <4>1
      <3>3. CASE u # {}
        <4>1. less(u) \in SUBSET u /\ less(u) # t /\ Iter(part(less(u)), f, less(u))
          BY <2>1, <2>2, <3>1, <3>3
        <4>2. IsFiniteSet(less(u))
          BY <4>1, <3>1, FS_Subset
        <4>3. part(less(u))[less(u)] = part(u)[less(u)]
          <5> HIDE DEF part, u, less
          <5> QED
          BY <3>1, <4>1, <4>2, IterAgree
        <4>4. part(u)[u] = f[Pick(u)] + part(u)[less(u)]
          <5> HIDE DEF part, u
          <5> QED
            BY <3>1, <3>3, IterAt
        <4> QED
          BY <3>1, <3>3, <4>3, <4>4
      <3> QED
        BY <3>2, <3>3
    <2>4. ASSUME NEW s \in SUBSET t, s # {} PROVE g[s] = f[Pick(s)] + g[less(s)]
      BY <2>3, <2>4
    <2>5. g = [s \in SUBSET t |-> g[s]] /\ g[{}] = 0
      OBVIOUS
    <2>6. Iter(g, f, t)
      <3> HIDE DEF g
      <3> QED
        BY <2>4, <2>5 DEF Iter
    <2> QED
      BY <2>6
  <1>2. T \in SUBSET (SUBSET S)
    OBVIOUS
  <1>3. T = SUBSET S
    <2> HIDE DEF T
    <2> QED
      BY <1>1, <1>2, SubsetInduct
  <1> QED
    BY <1>3

(* The sum is the value of that function. *)
LEMMA SumIter == ASSUME NEW f, NEW S, IsFiniteSet(S)
                 PROVE  \E g : Iter(g, f, S) /\ SumOver(f, S) = g[S]
  <1>1. SumOver(f, S) = (CHOOSE g : Iter(g, f, S))[S]
    BY Zenon DEF SumOver, MapThenSumSet, MapThenFoldSet, Iter, Pick
  <1> QED
    BY <1>1, IterExists, Zenon

(* A sum of nothing. *)
LEMMA SumEmpty == ASSUME NEW f PROVE SumOver(f, {}) = 0
  <1>1. IsFiniteSet({}) /\ {} \in SUBSET {}
    BY FS_EmptySet
  <1>2. PICK g : Iter(g, f, {}) /\ SumOver(f, {}) = g[{}]
    BY <1>1, SumIter
  <1> QED
    BY <1>1, <1>2 DEF Iter

(* Equal summands have equal sums. *)
LEMMA SumAgree == ASSUME NEW f, NEW e, NEW S, IsFiniteSet(S), \A x \in S : f[x] = e[x]
                  PROVE  SumOver(f, S) = SumOver(e, S)
  BY SumIter, IterAgree

(* A sum is a summand and the sum of the others. *)
LEMMA SumPick == ASSUME NEW f, NEW S, IsFiniteSet(S), S # {}
                 PROVE  SumOver(f, S) = f[Pick(S)] + SumOver(f, S \ {Pick(S)})
  <1>1. PICK g : Iter(g, f, S) /\ SumOver(f, S) = g[S]
    BY SumIter
  <1> DEFINE r == S \ {Pick(S)}
  <1>2. r \in SUBSET S /\ IsFiniteSet(r)
    BY FS_Subset
  <1>3. PICK h : Iter(h, f, r) /\ SumOver(f, r) = h[r]
    BY <1>2, SumIter
  <1>4. g[r] = h[r]
    BY <1>1, <1>2, <1>3, IterAgree
  <1> QED
    BY <1>1, <1>3, <1>4, IterAt

(* A sum of integers is an integer. *)
LEMMA SumInt == ASSUME NEW f, NEW S, IsFiniteSet(S), \A x \in S : f[x] \in Int
                PROVE  SumOver(f, S) \in Int
  <1> DEFINE T == {t \in SUBSET S : SumOver(f, t) \in Int}
  <1>1. ASSUME NEW t \in SUBSET S, \A u \in SUBSET t : u # t => u \in T PROVE t \in T
    <2>1. CASE t = {}
      BY <2>1, SumEmpty
    <2>2. CASE t # {}
      <3>1. Pick(t) \in t /\ IsFiniteSet(t)
        BY <2>2, PickIn, FS_Subset
      <3>2. t \ {Pick(t)} \in T /\ f[Pick(t)] \in Int
        BY <1>1, <3>1
      <3> QED
        BY <2>2, <3>1, <3>2, SumPick
    <2> QED
      BY <2>1, <2>2
  <1>2. T \in SUBSET (SUBSET S)
    OBVIOUS
  <1>3. T = SUBSET S
    <2> HIDE DEF T
    <2> QED
      BY <1>1, <1>2, SubsetInduct
  <1> QED
    BY <1>3

(* A sum of naturals is a natural. *)
LEMMA SumNat == ASSUME NEW f, NEW S, IsFiniteSet(S), \A x \in S : f[x] \in Nat
                PROVE  SumOver(f, S) \in Nat
  <1> DEFINE T == {t \in SUBSET S : SumOver(f, t) \in Nat}
  <1>1. ASSUME NEW t \in SUBSET S, \A u \in SUBSET t : u # t => u \in T PROVE t \in T
    <2>1. CASE t = {}
      BY <2>1, SumEmpty
    <2>2. CASE t # {}
      <3>1. Pick(t) \in t /\ IsFiniteSet(t)
        BY <2>2, PickIn, FS_Subset
      <3>2. t \ {Pick(t)} \in T /\ f[Pick(t)] \in Nat
        BY <1>1, <3>1
      <3> QED
        BY <2>2, <3>1, <3>2, SumPick
    <2> QED
      BY <2>1, <2>2
  <1>2. T \in SUBSET (SUBSET S)
    OBVIOUS
  <1>3. T = SUBSET S
    <2> HIDE DEF T
    <2> QED
      BY <1>1, <1>2, SubsetInduct
  <1> QED
    BY <1>3

(* A sum of zeros. *)
LEMMA SumZero == ASSUME NEW f, NEW S, IsFiniteSet(S), \A x \in S : f[x] = 0
                 PROVE  SumOver(f, S) = 0
  <1> DEFINE T == {t \in SUBSET S : SumOver(f, t) = 0}
  <1>1. ASSUME NEW t \in SUBSET S, \A u \in SUBSET t : u # t => u \in T PROVE t \in T
    <2>1. CASE t = {}
      BY <2>1, SumEmpty
    <2>2. CASE t # {}
      <3>1. Pick(t) \in t /\ IsFiniteSet(t)
        BY <2>2, PickIn, FS_Subset
      <3>2. t \ {Pick(t)} \in T /\ f[Pick(t)] = 0
        BY <1>1, <3>1
      <3> QED
        BY <2>2, <3>1, <3>2, SumPick
    <2> QED
      BY <2>1, <2>2
  <1>2. T \in SUBSET (SUBSET S)
    OBVIOUS
  <1>3. T = SUBSET S
    <2> HIDE DEF T
    <2> QED
      BY <1>1, <1>2, SubsetInduct
  <1> QED
    BY <1>3

(* Any summand may be taken out first. *)
LEMMA SumRemove == ASSUME NEW f, NEW S, IsFiniteSet(S), \A x \in S : f[x] \in Int, NEW a \in S
                   PROVE  SumOver(f, S) = f[a] + SumOver(f, S \ {a})
  <1> DEFINE T == {t \in SUBSET S : \A x \in t : SumOver(f, t) = f[x] + SumOver(f, t \ {x})}
  <1>1. ASSUME NEW t \in SUBSET S, \A u \in SUBSET t : u # t => u \in T PROVE t \in T
    <2> SUFFICES ASSUME NEW x \in t PROVE SumOver(f, t) = f[x] + SumOver(f, t \ {x})
      OBVIOUS
    <2> DEFINE p == Pick(t)
               r == t \ {p}
    <2>1. p \in t /\ IsFiniteSet(t) /\ SumOver(f, t) = f[p] + SumOver(f, r)
      BY PickIn, FS_Subset, SumPick
    <2>2. CASE x = p
      BY <2>1, <2>2
    <2>3. CASE x # p
      <3> DEFINE q == t \ {x}
                 z == t \ {x, p}
      <3>1. r \ {x} = z /\ q \ {p} = z /\ x \in r /\ p \in q
        BY <2>1, <2>3
      <3>2. r \in T /\ q \in T
        BY <1>1, <2>1
      <3>3. SumOver(f, r) = f[x] + SumOver(f, z) /\ SumOver(f, q) = f[p] + SumOver(f, z)
        BY <3>1, <3>2
      <3>4. SumOver(f, z) \in Int /\ f[x] \in Int /\ f[p] \in Int
        BY <2>1, FS_Subset, SumInt
      <3> HIDE DEF p, q, z, r
      <3>5. SumOver(f, t) = f[x] + SumOver(f, q)
        BY <2>1, <3>3, <3>4
      <3> QED
        BY <3>5 DEF q
    <2> QED
      BY <2>2, <2>3
  <1>2. T \in SUBSET (SUBSET S)
    OBVIOUS
  <1>3. T = SUBSET S
    <2> HIDE DEF T
    <2> QED
      BY <1>1, <1>2, SubsetInduct
  <1> QED
    BY <1>3

(* Two functions that differ in one place at most have sums that differ by *)
(* what they have there. *)
At(f, a) == IF a \in DOMAIN f THEN f[a] ELSE 0

LEMMA SumMoved == ASSUME NEW f, NEW g, NEW a, IsFiniteSet(DOMAIN f), IsFiniteSet(DOMAIN g),
                         \A x \in DOMAIN f : f[x] \in Int, \A x \in DOMAIN g : g[x] \in Int,
                         DOMAIN f \ {a} = DOMAIN g \ {a}, \A x \in DOMAIN f \ {a} : f[x] = g[x]
                  PROVE  /\ Sum(f) \in Int /\ Sum(g) = Sum(f) - At(f, a) + At(g, a)
  <1> DEFINE R == DOMAIN f \ {a}
  <1>1. Sum(f) = SumOver(f, DOMAIN f) /\ Sum(g) = SumOver(g, DOMAIN g)
    BY Zenon DEF Sum, SumOver
  <1>2. IsFiniteSet(R) /\ SumOver(f, R) = SumOver(g, R) /\ SumOver(f, R) \in Int
    BY FS_Subset, SumAgree, SumInt
  <1>3. SumOver(f, DOMAIN f) = At(f, a) + SumOver(f, R)
    <2>1. CASE a \in DOMAIN f
      BY <2>1, SumRemove DEF At
    <2>2. CASE a \notin DOMAIN f
      <3>1. R = DOMAIN f
        BY <2>2
      <3> QED
        BY <1>2, <2>2, <3>1 DEF At
    <2> QED
      BY <2>1, <2>2
  <1>4. SumOver(g, DOMAIN g) = At(g, a) + SumOver(g, R)
    <2>1. CASE a \in DOMAIN g
      BY <2>1, SumRemove DEF At
    <2>2. CASE a \notin DOMAIN g
      <3>1. R = DOMAIN g
        BY <2>2
      <3> QED
        BY <1>2, <2>2, <3>1 DEF At
    <2> QED
      BY <2>1, <2>2
  <1>5. At(f, a) \in Int /\ At(g, a) \in Int
    BY DEF At
  <1> HIDE DEF R
  <1> QED
    BY <1>1, <1>2, <1>3, <1>4, <1>5
-----------------------------------------------------------------------------
(* Conservation of XGT, and who can lower a balance.                       *)

SumsInv == balance \in [Names -> Nat] /\ issued \in Int /\ Conserved

(* Only the signer of the operation, or the null wallet, has less. *)
Debits == \A w \in Names \ {Null} : balance'[w] < balance[w] => signer' = w

(* The divisor of the reward up to n, as a function. *)
Shift(d, n) == d = [i \in 0 .. n |-> IF i = 0 THEN 1 ELSE 2 * d[i - 1]]

(* There is one for each n, and two agree where both are defined. *)
LEMMA ShiftExists == \A n \in Nat : \E d : Shift(d, n)
  <1> DEFINE T == {n \in Nat : \E d : Shift(d, n)}
  <1>1. 0 \in T
    <2>1. Shift([i \in 0 .. 0 |-> 1], 0)
      BY DEF Shift
    <2> QED
      BY <2>1
  <1>2. ASSUME NEW n \in T PROVE n + 1 \in T
    <2>1. PICK d : Shift(d, n)
      OBVIOUS
    <2> DEFINE e == [i \in 0 .. n + 1 |-> IF i = n + 1 THEN 2 * d[n] ELSE d[i]]
    <2>2. ASSUME NEW i \in 0 .. n + 1 PROVE e[i] = IF i = 0 THEN 1 ELSE 2 * e[i - 1]
      <3>1. CASE i = n + 1
        BY <3>1
      <3>2. CASE i \in 0 .. n
        <4>1. d[i] = IF i = 0 THEN 1 ELSE 2 * d[i - 1]
          BY <2>1, <3>2 DEF Shift
        <4> QED
          BY <3>2, <4>1
      <3> QED
        BY <3>1, <3>2
    <2>3. e = [i \in 0 .. n + 1 |-> e[i]]
      OBVIOUS
    <2>4. Shift(e, n + 1)
      <3> HIDE DEF e
      <3> QED
        BY <2>2, <2>3 DEF Shift
    <2> QED
      BY <2>4
  <1>3. T \in SUBSET Nat
    OBVIOUS
  <1>4. T = Nat
    <2> HIDE DEF T
    <2> QED
      BY <1>1, <1>2, <1>3, NatInduct
  <1> QED
    BY <1>4

LEMMA ShiftAgree == ASSUME NEW n \in Nat, NEW d, Shift(d, n), NEW m \in Nat, NEW e, Shift(e, m),
                           NEW j \in 0 .. n, j <= m
                    PROVE  d[j] = e[j]
  <1> DEFINE T == {i \in Nat : i \in 0 .. n /\ i <= m => d[i] = e[i]}
  <1>1. 0 \in T
    BY DEF Shift
  <1>2. ASSUME NEW i \in T PROVE i + 1 \in T
    <2> SUFFICES ASSUME i + 1 \in 0 .. n, i + 1 <= m PROVE d[i + 1] = e[i + 1]
      OBVIOUS
    <2>1. d[i + 1] = 2 * d[i] /\ e[i + 1] = 2 * e[i]
      BY DEF Shift
    <2> QED
      BY <1>2, <2>1
  <1>3. T \in SUBSET Nat
    OBVIOUS
  <1>4. T = Nat
    <2> HIDE DEF T
    <2> QED
      BY <1>1, <1>2, <1>3, NatInduct
  <1> QED
    BY <1>4

(* So the divisor of the reward is a number above zero. *)
LEMMA DivisorPositive == \A n \in Nat : divisor[n] \in Nat \ {0}
  <1> DEFINE part(n) == CHOOSE d : Shift(d, n)
             g == [n \in Nat |-> part(n)[n]]
  <1>1. ASSUME NEW n \in Nat PROVE Shift(part(n), n)
    BY ShiftExists
  <1> HIDE DEF part
  <1>2. ASSUME NEW n \in Nat PROVE g[n] = IF n = 0 THEN 1 ELSE 2 * g[n - 1]
    <2>1. g[n] = part(n)[n]
      OBVIOUS
    <2>2. CASE n = 0
      BY <1>1, <2>2 DEF Shift
    <2>3. CASE n # 0
      <3>1. n - 1 \in Nat /\ n - 1 \in 0 .. n
        BY <2>3
      <3>2. part(n)[n] = 2 * part(n)[n - 1]
        BY <1>1, <2>3 DEF Shift
      <3>3. part(n)[n - 1] = part(n - 1)[n - 1]
        BY <1>1, <3>1, ShiftAgree
      <3>4. g[n - 1] = part(n - 1)[n - 1]
        BY <3>1
      <3> HIDE DEF g
      <3> QED
        BY <2>1, <2>3, <3>2, <3>3, <3>4
    <2> QED
      BY <2>2, <2>3
  <1>3. g = [n \in Nat |-> g[n]]
    OBVIOUS
  <1> HIDE DEF g
  <1>4. g = [n \in Nat |-> IF n = 0 THEN 1 ELSE 2 * g[n - 1]]
    BY <1>2, <1>3
  <1>5. divisor = [n \in Nat |-> IF n = 0 THEN 1 ELSE 2 * divisor[n - 1]]
    BY <1>4, Zenon DEF divisor
  <1> DEFINE T == {n \in Nat : divisor[n] \in Nat \ {0}}
  <1>6. 0 \in T
    BY <1>5
  <1>7. ASSUME NEW n \in T PROVE n + 1 \in T
    <2>1. divisor[n + 1] = 2 * divisor[n]
      BY <1>5
    <2> QED
      BY <2>1
  <1>8. T \in SUBSET Nat
    OBVIOUS
  <1>9. T = Nat
    <2> HIDE DEF T
    <2> QED
      BY <1>6, <1>7, <1>8, NatInduct
  <1> QED
    BY <1>9

(* A reward is a number. *)
LEMMA RewardNat == ASSUME NEW n \in Nat PROVE Reward(n) \in Nat
  <1>1. n \div HalvingInterval \in Nat
    BY LedgerAssumption
  <1>2. \A d \in Nat \ {0} : MiningReward \div d \in Nat
    BY LedgerAssumption
  <1> QED
    BY <1>1, <1>2, DivisorPositive DEF Reward, Halved

(* An adjusted balance adds to the sum what it is adjusted by. *)
LEMMA AdjustedSum == ASSUME NEW bal \in [Names -> Int], NEW w \in Names, NEW d \in Int
                     PROVE  /\ adjust_balance(bal, w, d) \in [Names -> Int]
                            /\ Sum(bal) \in Int
                            /\ Sum(adjust_balance(bal, w, d)) = Sum(bal) + d
  <1> DEFINE new == adjust_balance(bal, w, d)
  <1>1. /\ new \in [Names -> Int] /\ DOMAIN new = Names /\ DOMAIN bal = Names /\ new[w] = bal[w] + d
        /\ \A x \in Names \ {w} : new[x] = bal[x]
    BY DEF adjust_balance
  <1> HIDE DEF new
  <1>2. Sum(bal) \in Int /\ Sum(new) = Sum(bal) - At(bal, w) + At(new, w)
    BY <1>1, SumMoved, LedgerAssumption
  <1>3. At(bal, w) = bal[w] /\ At(new, w) = bal[w] + d /\ bal[w] \in Int
    BY <1>1 DEF At
  <1> QED
    BY <1>1, <1>2, <1>3 DEF new

(* There are finitely many escrows, and each holds a number. *)
LEMMA HoldingsNat == ASSUME EscrowTable
                     PROVE  /\ IsFiniteSet(DOMAIN escrow)
                            /\ Holdings \in [DOMAIN escrow -> Nat]
  <1>1. IsFiniteSet(Names \X EscrowIds)
    BY FS_Product, LedgerAssumption
  <1>2. IsFiniteSet(DOMAIN escrow)
    BY <1>1, FS_Subset DEF EscrowTable
  <1> QED
    BY <1>2 DEF EscrowTable, EscrowObject, Holdings

LEMMA HoldingsInt == ASSUME EscrowTable PROVE Sum(Holdings) \in Int
  <1>1. IsFiniteSet(DOMAIN Holdings) /\ \A x \in DOMAIN Holdings : Holdings[x] \in Int
    BY HoldingsNat
  <1> QED
    BY <1>1, SumMoved

(* A step that changes one escrow, creates or removes it. *)
LEMMA HoldingsMoved == ASSUME EscrowTable, EscrowTable', NEW k, DOMAIN escrow \ {k} = DOMAIN escrow' \ {k},
                              \A x \in DOMAIN escrow \ {k} : Holdings'[x] = Holdings[x]
                       PROVE  /\ Sum(Holdings) \in Int
                              /\ Sum(Holdings') = Sum(Holdings) - At(Holdings, k) + At(Holdings', k)
  <1>1. IsFiniteSet(DOMAIN escrow) /\ Holdings \in [DOMAIN escrow -> Nat]
    BY HoldingsNat
  <1>2. (IsFiniteSet(DOMAIN escrow) /\ Holdings \in [DOMAIN escrow -> Nat])'
    BY HoldingsNat, PTL
  <1>3. /\ DOMAIN Holdings = DOMAIN escrow /\ DOMAIN Holdings' = DOMAIN escrow'
        /\ \A x \in DOMAIN Holdings : Holdings[x] \in Int
        /\ \A x \in DOMAIN Holdings' : Holdings'[x] \in Int
    BY <1>1, <1>2
  <1> QED
    BY <1>1, <1>2, <1>3, SumMoved

(* Steps that touch neither money nor escrows. *)
LEMMA SumsKept == ASSUME SumsInv, UNCHANGED <<balance, escrow, issued>>
                  PROVE  SumsInv' /\ Debits
  BY DEF SumsInv, Conserved, Holdings, Debits

(* A transfer moves an amount that the sender has. *)
LEMMA SumsTransfer == ASSUME SumsInv, MoneyInv, NEW w \in Names, NEW n \in Names, NEW a \in Amounts,
                             transfer(w, n, a)
                      PROVE  SumsInv' /\ Debits
  <1> DEFINE mid == adjust_balance(balance, w, -a)
  <1>1. /\ escrow' = escrow /\ issued' = issued /\ signer' = w /\ balance[w] >= a
        /\ balance' = adjust_balance(mid, n, a)
    BY DEF transfer, Sufficient, Operation, mining_vars
  <1>2. a \in Nat /\ a \in Int /\ -a \in Int /\ balance \in [Names -> Int]
    BY LedgerAssumption DEF SumsInv
  <1>3. mid \in [Names -> Int] /\ Sum(balance) \in Int /\ Sum(mid) = Sum(balance) - a
    BY <1>2, AdjustedSum
  <1>4. \A x \in Names : mid[x] = IF x = w THEN balance[x] - a ELSE balance[x]
    BY <1>2 DEF adjust_balance
  <1> HIDE DEF mid
  <1>5. Sum(balance') = Sum(mid) + a
    <2>1. Sum(adjust_balance(mid, n, a)) = Sum(mid) + a
      BY <1>2, <1>3, AdjustedSum
    <2> QED
      BY <1>1, <2>1
  <1>6. \A x \in Names : balance'[x] = IF x = n THEN mid[x] + a ELSE mid[x]
    BY <1>1, <1>3 DEF adjust_balance
  <1>7. balance' = [x \in Names |-> balance'[x]]
    BY <1>1, <1>3 DEF adjust_balance
  <1>8. balance' \in [Names -> Nat] /\ Debits
    BY <1>1, <1>2, <1>4, <1>6, <1>7 DEF SumsInv, Debits
  <1>9. Sum(balance') = Sum(balance)
    BY <1>2, <1>3, <1>5
  <1> QED
    BY <1>1, <1>8, <1>9 DEF SumsInv, Conserved, Holdings

(* A step that moves d into or out of one balance, and as much out of or   *)
(* into one escrow. *)
LEMMA SumsMoved == ASSUME SumsInv, EscrowTable, EscrowTable', issued' = issued,
                          NEW n \in Names, NEW d \in Int, balance[n] + d >= 0,
                          balance' = adjust_balance(balance, n, d), d < 0 => signer' = n,
                          NEW k, DOMAIN escrow \ {k} = DOMAIN escrow' \ {k},
                          \A x \in DOMAIN escrow \ {k} : Holdings'[x] = Holdings[x],
                          At(Holdings', k) = At(Holdings, k) - d
                   PROVE  SumsInv' /\ Debits
  <1>1. balance \in [Names -> Int]
    BY DEF SumsInv
  <1>2. Sum(balance) \in Int /\ Sum(balance') = Sum(balance) + d
    BY <1>1, AdjustedSum
  <1>3. Sum(Holdings) \in Int /\ Sum(Holdings') = Sum(Holdings) - At(Holdings, k) + At(Holdings', k)
    BY HoldingsMoved
  <1>4. At(Holdings, k) \in Int
    BY HoldingsNat DEF At
  <1>5. Sum(balance') + Sum(Holdings') = issued'
    BY <1>2, <1>3, <1>4 DEF SumsInv, Conserved
  <1>6. balance' \in [Names -> Nat] /\ Debits
    BY DEF SumsInv, adjust_balance, Debits
  <1> QED
    BY <1>5, <1>6 DEF SumsInv, Conserved

(* A step that changes one escrow but not what it holds, and no balance. *)
LEMMA SumsAlike == ASSUME SumsInv, Holdings' = Holdings, UNCHANGED <<balance, issued>>
                   PROVE  SumsInv' /\ Debits
  BY DEF SumsInv, Conserved, Debits

(* A new escrow holds what its sender pays. *)
LEMMA SumsEscrow ==
  ASSUME SumsInv, MoneyInv, MoneyInv', NEW w \in Names, NEW n, NEW agent, NEW id,
         NEW a \in Amounts, NEW fee \in Fees, NEW d,
         escrow_transfer(w, n, agent, id, a, fee, d[1], d[2])
  PROVE  SumsInv' /\ Debits
  <1> DEFINE key == <<w, id>>
  <1>1. a \in Nat /\ fee \in Nat
    BY LedgerAssumption
  <1>2. /\ issued' = issued /\ signer' = w /\ balance[w] >= a + fee /\ key \notin DOMAIN escrow
        /\ balance' = adjust_balance(balance, w, -(a + fee))
    BY DEF escrow_transfer, Sufficient, Operation, mining_vars
  <1>3. /\ DOMAIN escrow' = DOMAIN escrow \cup {key}
        /\ escrow'[key].xgt_balance = a /\ escrow'[key].pending_fee = fee
        /\ \A x \in DOMAIN escrow : escrow'[x] = escrow[x]
    BY <1>2 DEF escrow_transfer, Created
  <1> HIDE DEF key
  <1>4. /\ At(Holdings, key) = 0 /\ At(Holdings', key) = a + fee
        /\ \A x \in DOMAIN escrow \ {key} : Holdings'[x] = Holdings[x]
    BY <1>2, <1>3 DEF At, Holdings
  <1>5. /\ -(a + fee) \in Int /\ balance[w] + (-(a + fee)) >= 0
        /\ At(Holdings', key) = At(Holdings, key) - (-(a + fee))
    BY <1>1, <1>2, <1>4 DEF SumsInv
  <1>6. DOMAIN escrow \ {key} = DOMAIN escrow' \ {key}
    BY <1>3
  <1> QED
    BY <1>2, <1>4, <1>5, <1>6, SumsMoved DEF MoneyInv

(* A rejection gives all of it back, the second approval pays the fee. *)
LEMMA SumsApprove == ASSUME SumsInv, MoneyInv, MoneyInv', NEW k \in DOMAIN escrow, NEW who, NEW approve \in BOOLEAN,
                            escrow_approve(k, who, approve)
                     PROVE  SumsInv' /\ Debits
  <1> DEFINE e == escrow[k]
  <1>1. /\ e \in EscrowObject /\ k[1] \in Names /\ e.agent \in Names
        /\ e.xgt_balance \in Nat /\ e.pending_fee \in Nat /\ issued' = issued
    BY DEF MoneyInv, EscrowTable, EscrowObject, escrow_approve, mining_vars
  <1>2. balance \in [Names -> Nat]
    BY DEF SumsInv
  <1>3. At(Holdings, k) = e.xgt_balance + e.pending_fee
    BY DEF At, Holdings
  <1>4. CASE ~ approve
    <2>1. escrow' = Removed(escrow, k) /\ balance' = adjust_balance(balance, k[1], Refund(e))
      BY <1>4 DEF escrow_approve
    <2>2. DOMAIN escrow' = DOMAIN escrow \ {k} /\ \A x \in DOMAIN escrow \ {k} : escrow'[x] = escrow[x]
      BY <2>1 DEF Removed, Restrict
    <2>3. At(Holdings', k) = 0 /\ \A x \in DOMAIN escrow \ {k} : Holdings'[x] = Holdings[x]
      BY <2>2 DEF At, Holdings
    <2>4. Refund(e) \in Nat /\ Refund(e) = At(Holdings, k)
      BY <1>1, <1>3 DEF Refund
    <2>5. balance[k[1]] + Refund(e) >= 0 /\ At(Holdings', k) = At(Holdings, k) - Refund(e)
      BY <1>1, <1>2, <2>3, <2>4
    <2>6. DOMAIN escrow \ {k} = DOMAIN escrow' \ {k}
      BY <2>2
    <2> QED
      BY <1>1, <2>1, <2>3, <2>4, <2>5, <2>6, SumsMoved DEF MoneyInv
  <1>5. CASE approve /\ (e.to_approved \/ who = e.to) /\ (e.agent_approved \/ who = e.agent)
    <2>1. /\ balance' = adjust_balance(balance, e.agent, e.pending_fee)
          /\ escrow' = [escrow EXCEPT ![k].to_approved = TRUE, ![k].agent_approved = TRUE, ![k].pending_fee = 0]
      BY <1>5 DEF escrow_approve
    <2>2. /\ DOMAIN escrow' = DOMAIN escrow
          /\ escrow'[k].xgt_balance = e.xgt_balance /\ escrow'[k].pending_fee = 0
          /\ \A x \in DOMAIN escrow \ {k} : escrow'[x] = escrow[x]
      BY <1>1, <2>1 DEF EscrowObject
    <2>3. At(Holdings', k) = e.xgt_balance /\ \A x \in DOMAIN escrow \ {k} : Holdings'[x] = Holdings[x]
      BY <1>1, <2>2 DEF At, Holdings
    <2>4. balance[e.agent] + e.pending_fee >= 0 /\ At(Holdings', k) = At(Holdings, k) - e.pending_fee
      BY <1>1, <1>2, <1>3, <2>3
    <2>5. ~ (e.pending_fee < 0) /\ e.pending_fee \in Int /\ DOMAIN escrow \ {k} = DOMAIN escrow' \ {k}
      BY <1>1, <2>2
    <2> QED
      BY <1>1, <2>1, <2>3, <2>4, <2>5, SumsMoved DEF MoneyInv
  <1>6. CASE approve /\ ~ ((e.to_approved \/ who = e.to) /\ (e.agent_approved \/ who = e.agent))
    <2>1. /\ balance' = balance /\ DOMAIN escrow' = DOMAIN escrow
          /\ \A x \in DOMAIN escrow : escrow'[x].xgt_balance = escrow[x].xgt_balance
                                      /\ escrow'[x].pending_fee = escrow[x].pending_fee
      BY <1>1, <1>6 DEF escrow_approve, EscrowObject
    <2>2. Holdings' = Holdings
      BY <2>1 DEF Holdings
    <2> QED
      BY <1>1, <2>1, <2>2, SumsAlike
  <1> QED
    BY <1>4, <1>5, <1>6

(* What is released leaves the escrow, whose fee is out. *)
LEMMA SumsRelease == ASSUME SumsInv, MoneyInv, MoneyInv', NEW k \in DOMAIN escrow, NEW who, NEW n \in Names,
                            NEW a \in Amounts, escrow_release(k, who, n, a)
                     PROVE  SumsInv' /\ Debits
  <1> DEFINE e == escrow[k]
  <1>1. e \in EscrowObject /\ e.xgt_balance \in Nat /\ e.pending_fee = 0 /\ a \in Nat
    BY LedgerAssumption DEF MoneyInv, EscrowTable, EscrowStages, EscrowObject, escrow_release
  <1>2. /\ issued' = issued /\ balance' = adjust_balance(balance, n, a)
        /\ escrow' = IF e.xgt_balance = a THEN Removed(escrow, k) ELSE [escrow EXCEPT ![k].xgt_balance = @ - a]
    BY DEF escrow_release, mining_vars
  <1>3. At(Holdings, k) = e.xgt_balance
    BY <1>1 DEF At, Holdings
  <1>4. /\ DOMAIN escrow \ {k} = DOMAIN escrow' \ {k}
        /\ \A x \in DOMAIN escrow \ {k} : x \in DOMAIN escrow' /\ escrow'[x] = escrow[x]
    BY <1>2 DEF Removed, Restrict
  <1>5. \A x \in DOMAIN escrow \ {k} : Holdings'[x] = Holdings[x]
    BY <1>4 DEF Holdings
  <1>6. At(Holdings', k) = e.xgt_balance - a
    <2>1. CASE e.xgt_balance = a
      <3>1. k \notin DOMAIN escrow'
        BY <1>2, <2>1 DEF Removed, Restrict
      <3> QED
        BY <1>1, <2>1, <3>1 DEF At, Holdings
    <2>2. CASE e.xgt_balance # a
      <3>1. k \in DOMAIN escrow' /\ escrow'[k].xgt_balance = e.xgt_balance - a /\ escrow'[k].pending_fee = 0
        BY <1>1, <1>2, <2>2 DEF EscrowObject
      <3> QED
        BY <1>1, <3>1 DEF At, Holdings
    <2> QED
      BY <2>1, <2>2
  <1>7. balance[n] + a >= 0 /\ At(Holdings', k) = At(Holdings, k) - a /\ ~ (a < 0) /\ a \in Int
    BY <1>1, <1>3, <1>6 DEF SumsInv
  <1> QED
    BY <1>2, <1>4, <1>5, <1>7, SumsMoved DEF MoneyInv

(* A dispute moves nothing. *)
LEMMA SumsDispute == ASSUME SumsInv, MoneyInv, NEW k \in DOMAIN escrow, NEW who, escrow_dispute(k, who)
                     PROVE  SumsInv' /\ Debits
  <1>1. /\ escrow' = [escrow EXCEPT ![k].disputed = TRUE] /\ escrow[k] \in EscrowObject
        /\ balance' = balance /\ issued' = issued
    BY DEF escrow_dispute, mining_vars, MoneyInv, EscrowTable
  <1>2. /\ DOMAIN escrow' = DOMAIN escrow
        /\ \A x \in DOMAIN escrow : escrow'[x].xgt_balance = escrow[x].xgt_balance
                                    /\ escrow'[x].pending_fee = escrow[x].pending_fee
    BY <1>1 DEF EscrowObject
  <1>3. Holdings' = Holdings
    BY <1>2 DEF Holdings
  <1> QED
    BY <1>1, <1>3, SumsAlike

(* A reward is issued to the miner. *)
LEMMA SumsReward == ASSUME SumsInv, EscrowTable, escrow' = escrow, NEW w \in Names, NEW d \in Nat,
                           balance' = adjust_balance(balance, w, d), issued' = issued + d
                    PROVE  SumsInv' /\ Debits
  <1>1. balance \in [Names -> Int] /\ d \in Int
    BY DEF SumsInv
  <1>2. Sum(balance) \in Int /\ Sum(balance') = Sum(balance) + d
    BY <1>1, AdjustedSum
  <1>3. Holdings' = Holdings
    BY DEF Holdings
  <1>4. Sum(Holdings) \in Int
    BY HoldingsInt
  <1>5. balance' \in [Names -> Nat] /\ Debits
    BY DEF SumsInv, adjust_balance, Debits
  <1> QED
    BY <1>1, <1>2, <1>3, <1>4, <1>5 DEF SumsInv, Conserved

(* Below PowChange a pow is rewarded at once, if at all. *)
LEMMA SumsPow == ASSUME SumsInv, EscrowTable, head_block_num \in Nat, NEW w \in Names, NEW prev, pow(w, prev)
                 PROVE  SumsInv' /\ Debits
  <1>1. escrow' = escrow
    BY DEF pow
  <1>2. \/ UNCHANGED <<balance, issued>>
        \/ /\ balance' = adjust_balance(balance, w, Reward(head_block_num))
           /\ issued' = issued + Reward(head_block_num)
    BY DEF pow
  <1>3. Reward(head_block_num) \in Nat
    BY RewardNat
  <1> QED
    BY <1>1, <1>2, <1>3, SumsKept, SumsReward

(* What the null wallet has is taken out of what is issued. *)
LEMMA SumsEnd == ASSUME SumsInv, EscrowTable, head_block_num \in Nat, NEW m \in Names, NEW time,
                        end_of_block(m, time)
                 PROVE  SumsInv' /\ Debits
  <1> DEFINE cleared == [balance EXCEPT ![Null] = 0]
             paid == head_block_num' >= PowChange /\ block.pow # None
             amount == IF paid THEN Reward(head_block_num') ELSE 0
             void == balance[Null]
  <1>1. /\ escrow' = escrow /\ head_block_num' = head_block_num + 1
        /\ balance' = IF paid THEN adjust_balance(cleared, block.pow.worker, amount) ELSE cleared
        /\ paid => block.pow.worker = m
        /\ issued' = issued - void + amount
    BY DEF end_of_block, FirstPowRight
  <1>2. balance \in [Names -> Int] /\ void \in Nat /\ -void \in Int /\ Null \in Names
    BY LedgerAssumption DEF SumsInv
  <1>3. cleared \in [Names -> Nat] /\ \A x \in Names \ {Null} : cleared[x] = balance[x]
    BY DEF SumsInv
  <1>4. /\ DOMAIN cleared = Names /\ DOMAIN balance = Names
        /\ At(balance, Null) = void /\ At(cleared, Null) = 0
    BY <1>2, <1>3 DEF At
  <1>5. Sum(balance) \in Int /\ Sum(cleared) = Sum(balance) - void
    <2> HIDE DEF cleared, void
    <2>1. (\A x \in Names : balance[x] \in Int /\ cleared[x] \in Int) /\ IsFiniteSet(Names)
      BY <1>2, <1>3, LedgerAssumption
    <2>2. Sum(balance) \in Int /\ Sum(cleared) = Sum(balance) - At(balance, Null) + At(cleared, Null)
      BY <1>3, <1>4, <2>1, SumMoved
    <2> QED
      BY <1>2, <1>4, <2>2
  <1>6. amount \in Nat
    BY <1>1, RewardNat
  <1> HIDE DEF cleared, paid, amount, void
  <1>7. /\ balance' \in [Names -> Nat] /\ \A x \in Names : balance'[x] >= cleared[x]
        /\ Sum(balance') = Sum(cleared) + amount
    <2>1. CASE paid
      <3>1. balance' = adjust_balance(cleared, m, amount) /\ cleared \in [Names -> Int] /\ amount \in Int
        BY <1>1, <1>3, <1>6, <2>1
      <3>2. balance' \in [Names -> Nat] /\ \A x \in Names : balance'[x] >= cleared[x]
        BY <1>3, <1>6, <3>1 DEF adjust_balance
      <3> QED
        BY <3>1, <3>2, AdjustedSum
    <2>2. CASE ~ paid
      <3>1. balance' = cleared /\ amount = 0
        BY <1>1, <2>2 DEF amount
      <3> QED
        BY <1>2, <1>3, <1>5, <3>1
    <2> QED
      BY <2>1, <2>2
  <1>8. Holdings' = Holdings
    BY <1>1 DEF Holdings
  <1>9. Sum(Holdings) \in Int
    BY HoldingsInt
  <1>10. Debits
    BY <1>3, <1>7 DEF Debits, SumsInv
  <1> QED
    BY <1>1, <1>2, <1>5, <1>6, <1>7, <1>8, <1>9, <1>10 DEF SumsInv, Conserved

(* One case for each kind of step. *)
LEMMA SumsStep == SumsInv /\ MoneyInv /\ MoneyInv' /\ RewardInv /\ [Next]_vars
                  => SumsInv' /\ [Debits]_balance
  <1> SUFFICES ASSUME SumsInv, MoneyInv, MoneyInv', RewardInv, [Next]_vars
               PROVE  SumsInv' /\ Debits
    OBVIOUS
  <1>0. Signers \subseteq Names /\ EscrowTable /\ head_block_num \in Nat
    BY DEF Signers, MoneyInv, RewardInv
  <1>1. CASE MoneyNext
    <2>1. ASSUME NEW w \in Signers, NEW n \in Names, NEW a \in Amounts, transfer(w, n, a) PROVE SumsInv' /\ Debits
      BY <1>0, <2>1, SumsTransfer
    <2>2. ASSUME NEW w \in Signers, NEW n \in Names, NEW agent \in Names, NEW id \in EscrowIds,
                 NEW a \in Amounts, NEW fee \in Fees, NEW d \in Deadlines,
                 escrow_transfer(w, n, agent, id, a, fee, d[1], d[2])
          PROVE  SumsInv' /\ Debits
      BY <1>0, <2>2, SumsEscrow
    <2>3. ASSUME NEW k \in DOMAIN escrow, NEW who \in Signers, NEW approve \in BOOLEAN,
                 escrow_approve(k, who, approve)
          PROVE  SumsInv' /\ Debits
      BY <2>3, SumsApprove
    <2>4. ASSUME NEW k \in DOMAIN escrow, NEW who \in Signers, escrow_dispute(k, who) PROVE SumsInv' /\ Debits
      BY <2>4, SumsDispute
    <2>5. ASSUME NEW k \in DOMAIN escrow, NEW who \in Signers, NEW n \in Names, NEW a \in Amounts,
                 escrow_release(k, who, n, a)
          PROVE  SumsInv' /\ Debits
      BY <2>5, SumsRelease
    <2> QED
      BY <1>1, <2>1, <2>2, <2>3, <2>4, <2>5, Zenon DEF MoneyNext
  <1>2. CASE MiningNext
    <2>1. PICK w \in Signers : \/ witness_update(w)
                               \/ \E prev \in {head_block_num - 1, head_block_num} : pow(w, prev)
      BY <1>2 DEF MiningNext, WitnessNext, PowNext
    <2>2. CASE witness_update(w)
      BY <2>2, SumsKept DEF witness_update, mining_vars
    <2> QED
      BY <1>0, <2>1, <2>2, SumsPow
  <1>3. CASE CommentNext
    <2>1. UNCHANGED <<balance, escrow, issued>>
      BY <1>3 DEF CommentNext, comment_create, comment_edit, delete_comment, comment_options, ledger_vars
    <2> QED
      BY <2>1, SumsKept
  <1>4. ASSUME NEW m \in Names, NEW time \in Times, end_of_block(m, time) PROVE SumsInv' /\ Debits
    BY <1>0, <1>4, SumsEnd
  <1>5. CASE AuthorityNext
    <2>1. ASSUME NEW n \in Names, AddsWallet(n) PROVE SumsInv' /\ Debits
      BY <2>1, SumsKept DEF AddsWallet, mining_vars
    <2>2. CASE UNCHANGED ledger_vars
      BY <2>2, SumsKept DEF ledger_vars
    <2> QED
      BY <1>5, <2>1, <2>2, AuthorityStep
  <1>6. CASE UNCHANGED vars
    BY <1>6, SumsKept DEF vars, ledger_vars
  <1> QED
    BY <1>1, <1>2, <1>3, <1>4, <1>5, <1>6 DEF Next, MiningNext

(* At genesis the initial miner has the supply. *)
LEMMA SumsInit == Init => SumsInv
  <1> SUFFICES ASSUME Init PROVE SumsInv
    OBVIOUS
  <1> DEFINE zero == [w \in Names |-> 0]
  <1>1. /\ balance = [w \in Names |-> IF w = InitMiner THEN InitSupply ELSE 0]
        /\ escrow = <<>> /\ issued = InitSupply /\ InitMiner \in Names /\ InitSupply \in Nat
    BY LedgerAssumption DEF Init, LedgerInit
  <1>2. DOMAIN escrow = {} /\ DOMAIN Holdings = {}
    BY <1>1 DEF Holdings
  <1>3. Sum(Holdings) = 0
    <2>1. Sum(Holdings) = SumOver(Holdings, DOMAIN Holdings)
      BY Zenon DEF Sum, SumOver
    <2> QED
      BY <1>2, <2>1, SumEmpty
  <1>4. Sum(balance) = InitSupply
    <2> DEFINE others == Names \ {InitMiner}
    <2>1. Sum(balance) = SumOver(balance, DOMAIN balance) /\ DOMAIN balance = Names
      BY <1>1, Zenon DEF Sum, SumOver
    <2>2. balance[InitMiner] = InitSupply /\ \A x \in others : balance[x] = 0
      BY <1>1
    <2>3. IsFiniteSet(Names) /\ IsFiniteSet(others) /\ \A x \in Names : balance[x] \in Int
      BY <1>1, FS_Subset, LedgerAssumption
    <2>4. SumOver(balance, others) = 0
      BY <2>2, <2>3, SumZero
    <2>5. SumOver(balance, Names) = balance[InitMiner] + SumOver(balance, others)
      BY <1>1, <2>3, SumRemove
    <2> QED
      BY <1>1, <2>1, <2>2, <2>4, <2>5
  <1> QED
    BY <1>1, <1>3, <1>4 DEF SumsInv, Conserved

(* Every XGT that was issued and not cleared is in a wallet or in an       *)
(* escrow, after any operations and blocks. *)
THEOREM ConservedTheorem == Spec => []Conserved
  <1>1. SumsInv => Conserved
    BY DEF SumsInv
  <1>2. SumsInv /\ MoneyInv /\ MoneyInv' /\ RewardInv /\ [Next]_vars => SumsInv'
    BY SumsStep
  <1> QED
    BY <1>1, <1>2, SumsInit, MoneyInit, MoneyStep, MinersInit, MinersStep, RewardInit, RewardStep, PTL DEF Spec

(* Money leaves a wallet only by an operation of its owner, and an escrow  *)
(* only by the permission scheme. *)
THEOREM MovesPermittedTheorem == Spec => MovesPermitted
  <1>1. SumsInv /\ MoneyInv /\ MoneyInv' /\ RewardInv /\ [Next]_vars
        => SumsInv' /\ [\A w \in Names \ {Null} : balance'[w] < balance[w] => signer' = w]_balance
    BY SumsStep DEF Debits
  <1>2. Spec => DebitsAreSigned
    BY <1>1, SumsInit, MoneyInit, MoneyStep, MinersInit, MinersStep, RewardInit, RewardStep, PTL
    DEF Spec, DebitsAreSigned
  <1> QED
    BY <1>2, ReleasesPermittedTheorem, PTL DEF MovesPermitted
-----------------------------------------------------------------------------
(* The mining target.                                                      *)

TargetInv == mining_target \in 0 .. TargetMax /\ period_start \in Int

(* Products keep the order, and a quotient is bounded by what its product  *)
(* with the divisor is bounded by. *)
LEMMA TimesMonotone == \A x, y, z \in Nat : x <= y => x * z <= y * z
  OBVIOUS

LEMMA QuotientBounds == ASSUME NEW p \in Nat, NEW q \in Nat \ {0}, NEW b \in Nat
                        PROVE  /\ p \div q \in Nat
                               /\ b * q <= p => b <= p \div q
                               /\ p <= b * q => p \div q <= b
  <1> DEFINE d == p \div q
  <1>1. d \in Nat /\ d * q <= p /\ p < (d + 1) * q
    OBVIOUS
  <1> HIDE DEF d
  <1>2. ASSUME b * q <= p, ~ (b <= d) PROVE FALSE
    <2>1. d + 1 <= b
      BY <1>1, <1>2
    <2>2. (d + 1) * q <= b * q
      BY <1>1, <2>1, TimesMonotone
    <2> QED
      BY <1>1, <1>2, <2>2
  <1>3. ASSUME p <= b * q, ~ (d <= b) PROVE FALSE
    <2>1. b + 1 <= d
      BY <1>1, <1>3
    <2>2. (b + 1) * q <= d * q
      BY <1>1, <2>1, TimesMonotone
    <2>3. (b + 1) * q = b * q + q
      OBVIOUS
    <2> QED
      BY <1>1, <1>3, <2>2, <2>3
  <1> QED
    BY <1>1, <1>2, <1>3 DEF d

(* A new target is within a factor of 4 of the old one, not above the      *)
(* maximum, and on the right side of the old one. *)
LEMMA AdjustedBounds == ASSUME NEW t \in 0 .. TargetMax, NEW a \in Int
                        PROVE  /\ Adjusted(t, a) \in 0 .. TargetMax
                               /\ t \div 4 <= Adjusted(t, a) /\ Adjusted(t, a) <= 4 * t
                               /\ a \in 0 .. Expected => Adjusted(t, a) <= t
                               /\ a > Expected => Adjusted(t, a) >= t
  <1> DEFINE next == IF a < 0 \/ a > 4 * Expected THEN 4 * t
                     ELSE IF 4 * a < Expected THEN t \div 4
                     ELSE (t * a) \div Expected
  <1>0. /\ t \in Nat /\ Expected \in Nat \ {0} /\ TargetMax \in Nat /\ t <= TargetMax
        /\ t \div 4 \in Nat /\ t \div 4 <= t
    BY LedgerAssumption
  <1>1. /\ next \in Nat /\ t \div 4 <= next /\ next <= 4 * t
        /\ a \in 0 .. Expected => next <= t
        /\ a > Expected => next >= t
    <2>1. CASE a < 0 \/ a > 4 * Expected
      <3>1. next = 4 * t
        BY <2>1
      <3> HIDE DEF next
      <3> QED
        BY <1>0, <2>1, <3>1
    <2>2. CASE ~ (a < 0 \/ a > 4 * Expected) /\ 4 * a < Expected
      <3>1. next = t \div 4
        BY <2>2
      <3> HIDE DEF next
      <3> QED
        BY <1>0, <2>2, <3>1
    <2>3. CASE ~ (a < 0 \/ a > 4 * Expected) /\ ~ (4 * a < Expected)
      <3> DEFINE p == t * a
                 q == t \div 4
      <3>1. next = p \div Expected /\ a \in Nat /\ a <= 4 * Expected /\ Expected <= 4 * a
        BY <1>0, <2>3
      <3>2. p \in Nat
        BY <1>0, <3>1
      <3>3. q * Expected <= p
        <4>1. q \in Nat /\ 4 * q <= t
          BY <1>0
        <4>2. (4 * q) * Expected <= t * Expected
          BY <1>0, <4>1, TimesMonotone
        <4>3. Expected * t <= (4 * a) * t
          BY <1>0, <3>1, TimesMonotone
        <4>4. (4 * a) * t = 4 * p /\ Expected * t = t * Expected /\ (4 * q) * Expected = 4 * (q * Expected)
          BY <1>0, <3>1, <4>1
        <4>5. q * Expected \in Nat
          BY <1>0, <4>1
        <4> HIDE DEF p, q
        <4> QED
          BY <1>0, <3>2, <4>2, <4>3, <4>4, <4>5
      <3>4. p <= (4 * t) * Expected
        <4>1. a * t <= (4 * Expected) * t
          BY <1>0, <3>1, TimesMonotone
        <4>2. a * t = p /\ (4 * Expected) * t = (4 * t) * Expected
          BY <1>0, <3>1
        <4> QED
          BY <4>1, <4>2
      <3>5. a <= Expected => p <= t * Expected
        <4>1. a <= Expected => a * t <= Expected * t
          BY <1>0, <3>1, TimesMonotone
        <4>2. a * t = p /\ Expected * t = t * Expected
          BY <1>0, <3>1
        <4> QED
          BY <4>1, <4>2
      <3>6. a > Expected => t * Expected <= p
        <4>1. a > Expected => Expected * t <= a * t
          BY <1>0, <3>1, TimesMonotone
        <4>2. a * t = p /\ Expected * t = t * Expected
          BY <1>0, <3>1
        <4> QED
          BY <4>1, <4>2
      <3>7. 4 * t \in Nat /\ q \in Nat
        BY <1>0
      <3> HIDE DEF next, p, q
      <3>8. next \in Nat /\ q <= next /\ next <= 4 * t
        BY <1>0, <3>1, <3>2, <3>3, <3>4, <3>7, QuotientBounds
      <3>9. (a <= Expected => next <= t) /\ (a > Expected => t <= next)
        BY <1>0, <3>1, <3>2, <3>5, <3>6, QuotientBounds
      <3> QED
        BY <1>0, <3>1, <3>8, <3>9 DEF q
    <2> QED
      BY <2>1, <2>2, <2>3
  <1>2. Adjusted(t, a) = IF next >= TargetMax THEN TargetMax ELSE next
    BY DEF Adjusted
  <1> HIDE DEF next
  <1> QED
    BY <1>0, <1>1, <1>2

(* Only the end of a block changes the target. *)
LEMMA TargetStep == TargetInv /\ [Next]_vars => TargetInv' /\ [TargetMoves]_mining_target
  <1> SUFFICES ASSUME TargetInv, [Next]_vars
               PROVE  \/ UNCHANGED <<mining_target, period_start>>
                      \/ TargetInv' /\ TargetMoves
    BY DEF TargetInv
  <1> USE DEF mining_vars, ledger_vars
  <1>1. CASE MoneyNext
    BY <1>1, MoneyOnly
  <1>2. CASE MiningNext
    BY <1>2 DEF MiningNext, WitnessNext, PowNext, witness_update, pow
  <1>3. CASE CommentNext
    BY <1>3 DEF CommentNext, comment_create, comment_edit, delete_comment, comment_options
  <1>4. ASSUME NEW m \in Names, NEW time \in Times, end_of_block(m, time)
        PROVE  \/ UNCHANGED <<mining_target, period_start>>
               \/ TargetInv' /\ TargetMoves
    <2> DEFINE a == time - period_start
    <2>1. \/ UNCHANGED <<mining_target, period_start>>
          \/ /\ mining_target' = Adjusted(mining_target, a)
             /\ period_start' = time /\ head_block_time' - period_start = a
      BY <1>4 DEF end_of_block
    <2>2. time \in Int /\ a \in Int /\ mining_target \in 0 .. TargetMax
      BY LedgerAssumption DEF TargetInv
    <2>3. CASE UNCHANGED <<mining_target, period_start>>
      BY <2>3
    <2>4. CASE /\ mining_target' = Adjusted(mining_target, a)
               /\ period_start' = time /\ head_block_time' - period_start = a
      <3>1. /\ mining_target' \in 0 .. TargetMax
            /\ mining_target \div 4 <= mining_target' /\ mining_target' <= 4 * mining_target
            /\ a \in 0 .. Expected => mining_target' <= mining_target
            /\ a > Expected => mining_target' >= mining_target
        BY <2>2, <2>4, AdjustedBounds
      <3>2. TargetInv'
        BY <2>2, <2>4, <3>1 DEF TargetInv
      <3>3. mining_target' <= TargetMax
        BY <3>1, LedgerAssumption
      <3> HIDE DEF a
      <3>4. TargetMoves
        BY <2>4, <3>1, <3>3 DEF TargetMoves
      <3> QED
        BY <3>2, <3>4
    <2> QED
      BY <2>1, <2>3, <2>4
  <1>5. CASE AuthorityNext
    BY <1>5, AuthorityStep DEF AddsWallet
  <1>6. CASE UNCHANGED vars
    BY <1>6 DEF vars
  <1> QED
    BY <1>1, <1>2, <1>3, <1>4, <1>5, <1>6 DEF Next, MiningNext

(* An adjustment changes the target by a factor of 4 at most, whatever the *)
(* time stamps are, never beyond the maximum, and in the right direction. *)
THEOREM RetargetsTheorem == Spec => Retargets
  <1>1. Init => TargetInv
    BY LedgerAssumption DEF Init, LedgerInit, TargetInv
  <1> QED
    BY <1>1, TargetStep, PTL DEF Spec, Retargets

-----------------------------------------------------------------------------
(* Comments.  The tables of comments of two states are compared, so that    *)
(* the ancestors have the table as a parameter. *)

\* The set s has the parents of what it has in the table t.
Closed(t, s) == \A y \in s \cap DOMAIN t : t[y].parent \in s \cup {None}

Anc(t, c) == {x \in Posts : \A s \in SUBSET Posts : c \in s /\ Closed(t, s) => x \in s}

\* The replies to c, direct and indirect.
Desc(t, c) == {x \in DOMAIN t \ {c} : c \in Anc(t, x)}

CommentObject == [id : Nat, parent : Posts \cup {None}, children : Int, allow_votes : BOOLEAN,
                  root_comment : Nat, depth : 0 .. MaxDepth]

\* Every reply is one below its parent, which is there, and in its thread.
Linked(t) ==
  \A c \in DOMAIN t :
    /\ t[c].parent # None => /\ t[c].parent \in DOMAIN t
                             /\ t[c].depth = t[t[c].parent].depth + 1
                             /\ t[c].root_comment = t[t[c].parent].root_comment
    /\ t[c].parent = None => t[c].depth = 0 /\ t[c].root_comment = t[c].id

TableOK(t, n) ==
  /\ n \in Nat
  /\ DOMAIN t \subseteq Posts
  /\ \A c \in DOMAIN t : t[c] \in CommentObject /\ t[c].id < n
  /\ \A c, d \in DOMAIN t : c # d => t[c].id # t[d].id
  /\ Linked(t)

Counts(t) == \A c \in DOMAIN t : t[c].children >= Cardinality(Desc(t, c))

CommentInv == TableOK(comment, next_id) /\ Counts(comment)

LEMMA AncSelf == ASSUME NEW t, NEW c \in Posts PROVE c \in Anc(t, c)
  BY DEF Anc

LEMMA AncLeast == ASSUME NEW t, NEW c, NEW s \in SUBSET Posts, c \in s, Closed(t, s)
                  PROVE  Anc(t, c) \subseteq s
  BY DEF Anc

LEMMA AncPosts == ASSUME NEW t, NEW c PROVE Anc(t, c) \in SUBSET Posts
  BY DEF Anc

(* The ancestors are closed themselves. *)
LEMMA AncClosed == ASSUME NEW t, NEW c, \A y \in DOMAIN t : t[y].parent \in Posts \cup {None}
                   PROVE  Closed(t, Anc(t, c))
  <1> SUFFICES ASSUME NEW y \in Anc(t, c), y \in DOMAIN t, t[y].parent # None
               PROVE  t[y].parent \in Anc(t, c)
    BY DEF Closed
  <1>1. ASSUME NEW s \in SUBSET Posts, c \in s, Closed(t, s)
        PROVE  t[y].parent \in s
    <2>1. y \in s
      BY <1>1, AncLeast
    <2> QED
      BY <1>1, <2>1 DEF Closed
  <1> QED
    BY <1>1 DEF Anc

(* The ancestors of a reply are the reply and the ancestors of its parent. *)
LEMMA AncReply == ASSUME NEW t, NEW c \in DOMAIN t, c \in Posts, t[c].parent # None,
                         \A y \in DOMAIN t : t[y].parent \in Posts \cup {None}
                  PROVE  Anc(t, c) = {c} \cup Anc(t, t[c].parent)
  <1> DEFINE p == t[c].parent
             s == {c} \cup Anc(t, p)
  <1>1. p \in Posts /\ p \in Anc(t, p)
    BY AncSelf
  <1>2. s \in SUBSET Posts
    BY AncPosts
  <1>3. Closed(t, s)
    <2>1. Closed(t, Anc(t, p))
      BY AncClosed
    <2> QED
      BY <1>1, <2>1 DEF Closed
  <1>4. Anc(t, c) \subseteq s
    BY <1>2, <1>3, AncLeast
  <1>5. c \in Anc(t, c) /\ Closed(t, Anc(t, c)) /\ Anc(t, c) \in SUBSET Posts
    BY AncSelf, AncClosed, AncPosts
  <1>6. p \in Anc(t, c)
    BY <1>5 DEF Closed
  <1>7. Anc(t, p) \subseteq Anc(t, c)
    BY <1>5, <1>6, AncLeast
  <1> QED
    BY <1>4, <1>5, <1>7

(* Ancestors are the same in two tables that agree on them. *)
LEMMA AncSame == ASSUME NEW t, NEW u, NEW c \in Posts,
                        \A y \in DOMAIN t : t[y].parent \in Posts \cup {None},
                        \A y \in Anc(t, c) : /\ y \in DOMAIN u <=> y \in DOMAIN t
                                             /\ y \in DOMAIN t => u[y].parent = t[y].parent
                 PROVE  Anc(u, c) = Anc(t, c)
  <1> DEFINE E == Anc(t, c)
  <1>1. E \in SUBSET Posts /\ c \in E /\ Closed(t, E)
    BY AncPosts, AncSelf, AncClosed
  <1>2. Closed(u, E)
    BY <1>1 DEF Closed
  <1>3. Anc(u, c) \subseteq E
    BY <1>1, <1>2, AncLeast
  <1>4. ASSUME NEW s \in SUBSET Posts, c \in s, Closed(u, s)
        PROVE  E \subseteq s
    <2>1. Closed(t, s \cap E)
      BY <1>1, <1>4 DEF Closed
    <2>2. E \subseteq s \cap E
      BY <1>1, <1>4, <2>1, AncLeast
    <2> QED
      BY <2>2
  <1>5. E \subseteq Anc(u, c)
    BY <1>1, <1>4 DEF Anc
  <1> QED
    BY <1>3, <1>5

(* In a table that is linked, ancestors are comments, and no reply is an   *)
(* ancestor of what it replies to. *)
LEMMA AncLinked == ASSUME NEW t, NEW n, TableOK(t, n), NEW c \in DOMAIN t
                   PROVE  Anc(t, c) \subseteq DOMAIN t
  <1>1. Closed(t, DOMAIN t)
    BY DEF Closed, TableOK, Linked, CommentObject
  <1> QED
    BY <1>1, AncLeast DEF TableOK

(* The thread of every comment ends at its root, by induction on depths. *)
LEMMA RootReached == ASSUME NEW t, NEW n, TableOK(t, n)
                     PROVE  \A c \in DOMAIN t : \E r \in Anc(t, c) :
                              t[r].parent = None /\ t[r].id = t[c].root_comment
  <1> DEFINE P(c) == \E r \in Anc(t, c) : t[r].parent = None /\ t[r].id = t[c].root_comment
             T == {d \in Nat : \A c \in DOMAIN t : t[c].depth = d => P(c)}
  <1>0. /\ \A y \in DOMAIN t : t[y].parent \in Posts \cup {None} /\ t[y].depth \in Nat /\ y \in Posts
        /\ MaxDepth \in Nat
    BY CommentAssumption DEF TableOK, CommentObject
  <1>1. ASSUME NEW c \in DOMAIN t, t[c].parent = None
        PROVE  P(c)
    <2>1. c \in Anc(t, c)
      BY <1>0, AncSelf
    <2> QED
      BY <1>1, <2>1 DEF TableOK, Linked
  <1>2. 0 \in T
    <2> SUFFICES ASSUME NEW c \in DOMAIN t, t[c].depth = 0 PROVE P(c)
      OBVIOUS
    <2>1. t[c].parent = None
      BY <1>0 DEF TableOK, Linked
    <2> QED
      BY <1>1, <2>1
  <1>3. ASSUME NEW d \in T PROVE d + 1 \in T
    <2> SUFFICES ASSUME NEW c \in DOMAIN t, t[c].depth = d + 1, t[c].parent # None PROVE P(c)
      BY <1>1
    <2> DEFINE p == t[c].parent
    <2>1. p \in DOMAIN t /\ t[p].depth = d /\ t[c].root_comment = t[p].root_comment
      BY <1>0 DEF TableOK, Linked
    <2>2. P(p)
      BY <1>3, <2>1
    <2>3. Anc(t, p) \subseteq Anc(t, c)
      BY <1>0, AncReply
    <2> QED
      BY <2>1, <2>2, <2>3
  <1>4. T \in SUBSET Nat
    OBVIOUS
  <1> HIDE DEF T
  <1>5. T = Nat
    BY <1>2, <1>3, <1>4, NatInduct
  <1> QED
    BY <1>0, <1>5 DEF T

LEMMA DescFinite == ASSUME NEW t, NEW n, TableOK(t, n), NEW c
                    PROVE  IsFiniteSet(Desc(t, c)) /\ Cardinality(Desc(t, c)) \in Nat
  <1>1. Desc(t, c) \in SUBSET Posts
    BY DEF Desc, TableOK
  <1> QED
    BY <1>1, FS_Subset, FS_CardinalityType, CommentAssumption

(* A comment with the count 0 has no replies. *)
LEMMA Childless == ASSUME NEW t, NEW n, TableOK(t, n), Counts(t), NEW c \in DOMAIN t, t[c].children = 0
                   PROVE  Desc(t, c) = {}
  <1>1. IsFiniteSet(Desc(t, c)) /\ Cardinality(Desc(t, c)) \in Nat
    BY DescFinite
  <1>2. Cardinality(Desc(t, c)) = 0
    BY <1>1 DEF Counts
  <1> QED
    BY <1>1, <1>2, FS_EmptySet

(* What counts is kept when a table grows by replies: a comment that is    *)
(* entered, and one more for each of its ancestors. *)
LEMMA CreateTable ==
  ASSUME NEW t, NEW n, TableOK(t, n), Counts(t), NEW c \in Posts, c \notin DOMAIN t,
         NEW p \in Posts \cup {None}, p # None => p \in DOMAIN t /\ t[p].depth < MaxDepth, NEW u,
         DOMAIN u = DOMAIN t \cup {c},
         u[c] = [id |-> n, parent |-> p, children |-> 0, allow_votes |-> TRUE,
                 root_comment |-> IF p = None THEN n ELSE t[p].root_comment,
                 depth |-> IF p = None THEN 0 ELSE t[p].depth + 1],
         \A x \in DOMAIN t :
           u[x] = IF p # None /\ x \in Anc(t, p) THEN [t[x] EXCEPT !.children = @ + 1] ELSE t[x]
  PROVE  TableOK(u, n + 1) /\ Counts(u)
  <1>0. /\ \A y \in DOMAIN t : t[y].parent \in Posts \cup {None} /\ t[y] \in CommentObject
        /\ MaxDepth \in Nat /\ None \notin Posts /\ n \in Nat /\ DOMAIN t \subseteq Posts
    BY CommentAssumption DEF TableOK, CommentObject
  <1>1. \A x \in DOMAIN t :
          /\ u[x] \in CommentObject /\ u[x].id = t[x].id /\ u[x].parent = t[x].parent
          /\ u[x].root_comment = t[x].root_comment /\ u[x].depth = t[x].depth
          /\ u[x].children = t[x].children + (IF p # None /\ x \in Anc(t, p) THEN 1 ELSE 0)
    BY <1>0 DEF CommentObject
  <1>2. /\ u[c] \in CommentObject /\ u[c].id = n /\ u[c].parent = p /\ u[c].children = 0
        /\ p = None => u[c].depth = 0 /\ u[c].root_comment = n
        /\ p # None => u[c].depth = t[p].depth + 1 /\ u[c].root_comment = t[p].root_comment
    BY <1>0 DEF CommentObject
  <1>3. TableOK(u, n + 1)
    <2>1. \A x \in DOMAIN t : t[x].id < n /\ t[x].id \in Nat
      BY <1>0 DEF TableOK, CommentObject
    <2>2. ASSUME NEW x \in DOMAIN u
          PROVE  u[x] \in CommentObject /\ u[x].id < n + 1
      <3>1. CASE x = c
        <4>1. n < n + 1
          BY <1>0
        <4> QED
          BY <1>2, <3>1, <4>1
      <3>2. CASE x \in DOMAIN t
        BY <1>0, <1>1, <2>1, <3>2
      <3> QED
        BY <3>1, <3>2
    <2>3. \A x, y \in DOMAIN u : x # y => u[x].id # u[y].id
      BY <1>0, <1>1, <1>2, <2>1 DEF TableOK
    <2>4. Linked(u)
      <3> SUFFICES ASSUME NEW x \in DOMAIN u
                   PROVE  /\ u[x].parent # None => /\ u[x].parent \in DOMAIN u
                                                   /\ u[x].depth = u[u[x].parent].depth + 1
                                                   /\ u[x].root_comment = u[u[x].parent].root_comment
                          /\ u[x].parent = None => u[x].depth = 0 /\ u[x].root_comment = u[x].id
        BY DEF Linked
      <3>1. CASE x = c
        BY <1>1, <1>2, <3>1
      <3>2. CASE x \in DOMAIN t
        <4>1. /\ t[x].parent # None => /\ t[x].parent \in DOMAIN t
                                       /\ t[x].depth = t[t[x].parent].depth + 1
                                       /\ t[x].root_comment = t[t[x].parent].root_comment
              /\ t[x].parent = None => t[x].depth = 0 /\ t[x].root_comment = t[x].id
          BY <3>2 DEF TableOK, Linked
        <4> QED
          BY <1>1, <3>2, <4>1
      <3> QED
        BY <3>1, <3>2
    <2> QED
      BY <1>0, <2>2, <2>3, <2>4 DEF TableOK
  <1>4. \A x \in DOMAIN t : Anc(u, x) = Anc(t, x) /\ Anc(t, x) \subseteq DOMAIN t
    BY <1>0, <1>1, AncLinked, AncSame
  <1>5. Anc(u, c) = {c} \cup (IF p = None THEN {} ELSE Anc(t, p))
    <2>0. \A y \in DOMAIN u : u[y].parent \in Posts \cup {None}
      BY <1>0, <1>1, <1>2
    <2>1. CASE p = None
      <3>1. Closed(u, {c})
        BY <1>2, <2>1 DEF Closed
      <3> QED
        BY <2>1, <3>1, AncLeast, AncSelf
    <2>2. CASE p # None
      BY <1>2, <1>4, <2>0, <2>2, AncReply
    <2> QED
      BY <2>1, <2>2
  <1>6. ASSUME NEW x \in DOMAIN t
        PROVE  u[x].children >= Cardinality(Desc(u, x))
    <2>1. Desc(u, x) = IF p # None /\ x \in Anc(t, p) THEN Desc(t, x) \cup {c} ELSE Desc(t, x)
      BY <1>4, <1>5 DEF Desc
    <2>2. IsFiniteSet(Desc(t, x)) /\ Cardinality(Desc(t, x)) \in Nat /\ c \notin Desc(t, x)
      BY DescFinite DEF Desc
    <2>3. t[x].children >= Cardinality(Desc(t, x)) /\ t[x].children \in Int
      BY <1>0 DEF Counts, CommentObject
    <2>4. Cardinality(Desc(t, x) \cup {c}) = Cardinality(Desc(t, x)) + 1
      BY <2>2, FS_AddElement
    <2> QED
      BY <1>1, <2>1, <2>2, <2>3, <2>4
  <1>7. Desc(u, c) = {}
    BY <1>4 DEF Desc
  <1>8. u[c].children >= Cardinality(Desc(u, c))
    <2>1. Cardinality(Desc(u, c)) = 0
      BY <1>7, FS_EmptySet
    <2> QED
      BY <1>2, <2>1
  <1> QED
    BY <1>3, <1>6, <1>8 DEF Counts

(* A comment without replies is taken out, and its parent counts one less. *)
LEMMA DeleteTable ==
  ASSUME NEW t, NEW n, TableOK(t, n), Counts(t), NEW c \in DOMAIN t, t[c].children = 0, NEW u,
         DOMAIN u = DOMAIN t \ {c},
         \A x \in DOMAIN u :
           u[x] = IF x = t[c].parent THEN [t[x] EXCEPT !.children = @ - 1] ELSE t[x]
  PROVE  TableOK(u, n) /\ Counts(u)
  <1>0. /\ \A y \in DOMAIN t : t[y].parent \in Posts \cup {None} /\ t[y] \in CommentObject
        /\ DOMAIN t \subseteq Posts
    BY DEF TableOK, CommentObject
  <1>1. \A x \in DOMAIN u :
          /\ x \in DOMAIN t /\ x # c
          /\ u[x] \in CommentObject /\ u[x].id = t[x].id /\ u[x].parent = t[x].parent
          /\ u[x].root_comment = t[x].root_comment /\ u[x].depth = t[x].depth
          /\ u[x].children = t[x].children - (IF x = t[c].parent THEN 1 ELSE 0)
    BY <1>0 DEF CommentObject
  <1>2. \A x \in DOMAIN u : c \notin Anc(t, x)
    BY <1>1, Childless DEF Desc
  <1>3. \A x \in DOMAIN t : t[x].parent # None => t[x].parent \in Anc(t, x) /\ t[x].parent # x
    <2> SUFFICES ASSUME NEW x \in DOMAIN t, t[x].parent # None
                 PROVE  t[x].parent \in Anc(t, x) /\ t[x].parent # x
      OBVIOUS
    <2>1. t[x].parent \in Anc(t, x)
      BY <1>0, AncReply, AncSelf
    <2>2. t[x].depth \in Int /\ t[x].depth = t[t[x].parent].depth + 1
      BY <1>0, CommentAssumption DEF CommentObject, TableOK, Linked
    <2> QED
      BY <2>1, <2>2
  <1>4. \A x \in DOMAIN u : u[x].parent # None => u[x].parent \in DOMAIN u
    BY <1>1, <1>2, <1>3 DEF TableOK, Linked
  <1>5. TableOK(u, n)
    <2>1. Linked(u)
      <3> SUFFICES ASSUME NEW x \in DOMAIN u
                   PROVE  /\ u[x].parent # None => /\ u[x].parent \in DOMAIN u
                                                   /\ u[x].depth = u[u[x].parent].depth + 1
                                                   /\ u[x].root_comment = u[u[x].parent].root_comment
                          /\ u[x].parent = None => u[x].depth = 0 /\ u[x].root_comment = u[x].id
        BY DEF Linked
      <3>1. /\ t[x].parent # None => /\ t[x].depth = t[t[x].parent].depth + 1
                                     /\ t[x].root_comment = t[t[x].parent].root_comment
            /\ t[x].parent = None => t[x].depth = 0 /\ t[x].root_comment = t[x].id
        BY <1>1 DEF TableOK, Linked
      <3> QED
        BY <1>1, <1>4, <3>1
    <2> QED
      BY <1>1, <2>1 DEF TableOK
  <1>6. \A x \in DOMAIN u : Anc(u, x) = Anc(t, x)
    BY <1>0, <1>1, <1>2, AncLinked, AncSame
  <1>7. ASSUME NEW x \in DOMAIN u
        PROVE  u[x].children >= Cardinality(Desc(u, x))
    <2>1. Desc(u, x) = Desc(t, x) \ {c}
      BY <1>1, <1>6 DEF Desc
    <2>2. IsFiniteSet(Desc(t, x)) /\ Cardinality(Desc(t, x)) \in Nat
      BY DescFinite
    <2>3. t[x].children >= Cardinality(Desc(t, x)) /\ t[x].children \in Int
      BY <1>0, <1>1 DEF Counts, CommentObject
    <2>4. Cardinality(Desc(u, x)) = IF c \in Desc(t, x) THEN Cardinality(Desc(t, x)) - 1 ELSE Cardinality(Desc(t, x))
      BY <2>1, <2>2, FS_RemoveElement
    <2>5. x = t[c].parent => c \in Desc(t, x)
      <3>1. None \notin DOMAIN u
        BY <1>0, <1>1, CommentAssumption
      <3> QED
        BY <1>1, <1>3, <3>1 DEF Desc
    <2> QED
      BY <1>1, <2>2, <2>3, <2>4, <2>5
  <1> QED
    BY <1>5, <1>7 DEF Counts

LEMMA CommentKept == ASSUME CommentInv, UNCHANGED <<comment, next_id>>
                     PROVE  CommentInv'
  BY DEF CommentInv

LEMMA CommentCreate == ASSUME CommentInv, NEW c \in Posts, NEW p \in Posts \cup {None}, comment_create(c, p)
                       PROVE  CommentInv'
  <1>1. /\ TableOK(comment, next_id) /\ Counts(comment) /\ c \notin DOMAIN comment
        /\ p # None => p \in DOMAIN comment /\ comment[p].depth < MaxDepth
    BY DEF CommentInv, comment_create
  <1>2. Ancestors(p) = Anc(comment, p)
    BY DEF Ancestors, Anc, Closed
  <1>3. /\ DOMAIN comment' = DOMAIN comment \cup {c}
        /\ comment'[c] = NewComment(p)
        /\ \A x \in DOMAIN comment : comment'[x] = Counted(p)[x]
        /\ next_id' = next_id + 1
    <2>1. comment' = Created(Counted(p), c, NewComment(p)) /\ next_id' = next_id + 1
      BY DEF comment_create
    <2>2. DOMAIN Counted(p) = DOMAIN comment
      BY DEF Counted
    <2> HIDE DEF Counted
    <2> QED
      BY <1>1, <2>1, <2>2 DEF Created
  <1>4. \A x \in DOMAIN comment :
          comment'[x] = IF p # None /\ x \in Anc(comment, p) THEN [comment[x] EXCEPT !.children = @ + 1] ELSE comment[x]
    BY <1>2, <1>3 DEF Counted
  <1>5. TableOK(comment', next_id + 1) /\ Counts(comment')
    <2>1. DOMAIN comment' = DOMAIN comment \cup {c}
      BY <1>3
    <2>2. comment'[c] = [id |-> next_id, parent |-> p, children |-> 0, allow_votes |-> TRUE,
                         root_comment |-> IF p = None THEN next_id ELSE comment[p].root_comment,
                         depth |-> IF p = None THEN 0 ELSE comment[p].depth + 1]
      BY <1>3 DEF NewComment
    <2> QED
      BY <1>1, <1>4, <2>1, <2>2, CreateTable
  <1> QED
    BY <1>3, <1>5 DEF CommentInv

LEMMA CommentDelete == ASSUME CommentInv, NEW c \in Posts, delete_comment(c)
                       PROVE  CommentInv'
  <1>1. /\ TableOK(comment, next_id) /\ Counts(comment) /\ c \in DOMAIN comment
        /\ comment[c].children = 0 /\ comment' = Uncounted(c) /\ next_id' = next_id
    BY DEF CommentInv, delete_comment
  <1>2. /\ DOMAIN comment' = DOMAIN comment \ {c}
        /\ \A x \in DOMAIN comment' :
             comment'[x] = IF x = comment[c].parent THEN [comment[x] EXCEPT !.children = @ - 1] ELSE comment[x]
    BY <1>1 DEF Uncounted
  <1>3. TableOK(comment', next_id) /\ Counts(comment')
    BY <1>1, <1>2, DeleteTable
  <1> QED
    BY <1>1, <1>3 DEF CommentInv

(* What a voter may do is not about threads. *)
LEMMA CommentOptions == ASSUME CommentInv, NEW c \in Posts, NEW allow \in BOOLEAN, comment_options(c, allow)
                        PROVE  CommentInv'
  <1>1. /\ TableOK(comment, next_id) /\ Counts(comment) /\ c \in DOMAIN comment
        /\ comment' = [comment EXCEPT ![c].allow_votes = allow] /\ next_id' = next_id
    BY DEF CommentInv, comment_options
  <1>2. \A y \in DOMAIN comment : comment[y].parent \in Posts \cup {None} /\ comment[y] \in CommentObject /\ y \in Posts
    BY <1>1 DEF TableOK, CommentObject
  <1>3. /\ DOMAIN comment' = DOMAIN comment
        /\ \A x \in DOMAIN comment :
             /\ comment'[x] \in CommentObject /\ comment'[x].id = comment[x].id
             /\ comment'[x].parent = comment[x].parent /\ comment'[x].children = comment[x].children
             /\ comment'[x].root_comment = comment[x].root_comment /\ comment'[x].depth = comment[x].depth
    BY <1>1, <1>2 DEF CommentObject
  <1>4. TableOK(comment', next_id)
    <2>1. Linked(comment')
      <3> SUFFICES ASSUME NEW x \in DOMAIN comment
                   PROVE  LET u == comment'
                          IN  /\ u[x].parent # None => /\ u[x].parent \in DOMAIN u
                                                       /\ u[x].depth = u[u[x].parent].depth + 1
                                                       /\ u[x].root_comment = u[u[x].parent].root_comment
                              /\ u[x].parent = None => u[x].depth = 0 /\ u[x].root_comment = u[x].id
        BY <1>3 DEF Linked
      <3>1. /\ comment[x].parent # None => /\ comment[x].parent \in DOMAIN comment
                                           /\ comment[x].depth = comment[comment[x].parent].depth + 1
                                           /\ comment[x].root_comment = comment[comment[x].parent].root_comment
            /\ comment[x].parent = None => comment[x].depth = 0 /\ comment[x].root_comment = comment[x].id
        BY <1>1 DEF TableOK, Linked
      <3> QED
        BY <1>3, <3>1
    <2> QED
      BY <1>1, <1>3, <2>1 DEF TableOK
  <1>5. \A x \in DOMAIN comment : Anc(comment', x) = Anc(comment, x)
    BY <1>2, <1>3, AncSame
  <1>6. \A x \in DOMAIN comment : Desc(comment', x) = Desc(comment, x)
    BY <1>3, <1>5 DEF Desc
  <1>7. Counts(comment')
    BY <1>1, <1>3, <1>6 DEF Counts
  <1> QED
    BY <1>1, <1>4, <1>7 DEF CommentInv

LEMMA CommentStep == CommentInv /\ [Next]_vars => CommentInv'
  <1> SUFFICES ASSUME CommentInv, [Next]_vars PROVE CommentInv'
    OBVIOUS
  <1>1. CASE UNCHANGED comment_vars
    BY <1>1, CommentKept DEF comment_vars
  <1>2. CASE CommentNext
    <2>1. PICK c \in Posts : \/ \E p \in Posts \cup {None} : comment_create(c, p)
                             \/ comment_edit(c)
                             \/ delete_comment(c)
                             \/ \E allow \in BOOLEAN : comment_options(c, allow)
      BY <1>2 DEF CommentNext
    <2>2. CASE comment_edit(c)
      BY <2>2, CommentKept DEF comment_edit
    <2> QED
      BY <2>1, <2>2, CommentCreate, CommentDelete, CommentOptions
  <1>3. CASE UNCHANGED vars
    BY <1>3, CommentKept DEF vars, comment_vars
  <1> QED
    BY <1>1, <1>2, <1>3 DEF Next

LEMMA CommentStart == Init => CommentInv
  <1> SUFFICES ASSUME Init PROVE CommentInv
    OBVIOUS
  <1>1. comment = <<>> /\ next_id = 0
    BY DEF Init, CommentInit
  <1>2. DOMAIN comment = {}
    BY <1>1
  <1> QED
    BY <1>1, <1>2 DEF CommentInv, TableOK, Linked, Counts

LEMMA ThreadsFollow == CommentInv => ThreadsSound
  <1> SUFFICES ASSUME CommentInv PROVE ThreadsSound
    OBVIOUS
  <1>1. TableOK(comment, next_id) /\ Counts(comment)
    BY DEF CommentInv
  <1>2. \A c : Ancestors(c) = Anc(comment, c)
    BY DEF Ancestors, Anc, Closed
  <1>3. ThreadsWhole
    <2>1. \A c \in DOMAIN comment : Anc(comment, c) \subseteq DOMAIN comment
      BY <1>1, AncLinked
    <2>2. \A c \in DOMAIN comment : \E r \in Anc(comment, c) :
             comment[r].parent = None /\ comment[r].id = comment[c].root_comment
      BY <1>1, RootReached
    <2>3. \A c \in DOMAIN comment : comment[c].parent # None => comment[c].depth = comment[comment[c].parent].depth + 1
      BY <1>1 DEF TableOK, Linked
    <2> QED
      BY <1>2, <2>1, <2>2, <2>3 DEF ThreadsWhole
  <1>4. ChildrenCounted
    BY <1>1, <1>2 DEF ChildrenCounted, Counts, Desc
  <1> QED
    BY <1>3, <1>4 DEF ThreadsSound

(* Threads stay whole, and no reply is missed by the counts that keep      *)
(* delete_comment from taking what has replies: comment_evaluator counts a *)
(* reply at all ancestors, delete_comment_evaluator at the parent alone. *)
THEOREM ThreadsSoundTheorem == Spec => []ThreadsSound
  <1> QED
    BY CommentStart, CommentStep, ThreadsFollow, PTL DEF Spec

-----------------------------------------------------------------------------
(* The state as a whole.                                                   *)

HeadInv == head_block_time \in Times /\ head_block_num \in FirstBlock .. LastBlock

LEMMA HeadStart == Init => HeadInv
  BY LedgerAssumption DEF Init, LedgerInit, HeadInv

LEMMA HeadStep == HeadInv /\ [Next]_vars => HeadInv'
  <1> SUFFICES ASSUME HeadInv, [Next]_vars PROVE HeadInv'
    OBVIOUS
  <1> USE DEF mining_vars, ledger_vars, HeadInv
  <1>1. CASE MoneyNext
    BY <1>1, MoneyOnly
  <1>2. CASE MiningNext
    BY <1>2 DEF MiningNext, WitnessNext, PowNext, witness_update, pow
  <1>3. CASE CommentNext
    BY <1>3 DEF CommentNext, comment_create, comment_edit, delete_comment, comment_options
  <1>4. ASSUME NEW m \in Names, NEW time \in Times, end_of_block(m, time) PROVE HeadInv'
    BY <1>4, LedgerAssumption DEF end_of_block
  <1>5. CASE AuthorityNext
    BY <1>5, AuthorityStep DEF AddsWallet
  <1>6. CASE UNCHANGED vars
    BY <1>6 DEF vars
  <1> QED
    BY <1>1, <1>2, <1>3, <1>4, <1>5, <1>6 DEF Next, MiningNext

(* What is in wallets and escrows is not negative, so neither is what was  *)
(* issued. *)
LEMMA IssuedNat == SumsInv /\ EscrowTable => issued \in Nat
  <1> SUFFICES ASSUME SumsInv, EscrowTable PROVE issued \in Nat
    OBVIOUS
  <1>1. Sum(balance) \in Nat
    <2>1. DOMAIN balance = Names /\ \A x \in Names : balance[x] \in Nat
      BY DEF SumsInv
    <2>2. SumOver(balance, Names) \in Nat
      BY <2>1, SumNat, LedgerAssumption
    <2>3. Sum(balance) = SumOver(balance, DOMAIN balance)
      BY Zenon DEF Sum, SumOver
    <2> QED
      BY <2>1, <2>2, <2>3
  <1>2. Sum(Holdings) \in Nat
    <2>1. IsFiniteSet(DOMAIN Holdings) /\ \A x \in DOMAIN Holdings : Holdings[x] \in Nat
      BY HoldingsNat
    <2>2. SumOver(Holdings, DOMAIN Holdings) \in Nat
      BY <2>1, SumNat
    <2>3. Sum(Holdings) = SumOver(Holdings, DOMAIN Holdings)
      BY Zenon DEF Sum, SumOver
    <2> QED
      BY <2>2, <2>3
  <1> QED
    BY <1>1, <1>2 DEF SumsInv, Conserved

LEMMA StateFollows == /\ SumsInv /\ MoneyInv /\ MinersInv /\ TargetInv /\ KeyInv
                      /\ CommentInv /\ HeadInv
                      => StateSound
  <1> SUFFICES ASSUME SumsInv, MoneyInv, MinersInv, TargetInv, KeyInv, CommentInv, HeadInv
               PROVE  StateSound
    OBVIOUS
  <1>1. LedgerSound
    BY DEF LedgerSound, SumsInv, MoneyInv
  <1>2. wallets \subseteq Names /\ witnesses \subseteq wallets /\ balance \in [Names -> Nat]
    BY DEF MoneyInv, MinersInv, SumsInv
  <1>3. DOMAIN authority = wallets
    BY DEF KeyInv
  <1>4. \A k \in DOMAIN escrow : escrow[k].xgt_balance \in Nat /\ escrow[k].pending_fee \in Nat
    BY DEF MoneyInv, EscrowTable, EscrowObject
  <1>5. issued \in Nat /\ mining_target \in Nat
    BY IssuedNat, LedgerAssumption DEF MoneyInv, TargetInv
  <1>6. /\ DOMAIN comment \subseteq Posts
        /\ \A c, d \in DOMAIN comment : c # d => comment[c].id # comment[d].id
    BY DEF CommentInv, TableOK
  <1>7. ASSUME NEW c \in DOMAIN comment
        PROVE  comment[c].children \in Nat /\ comment[c].depth \in 0 .. MaxDepth
    <2>1. TableOK(comment, next_id) /\ comment[c].children >= Cardinality(Desc(comment, c))
      BY DEF CommentInv, Counts
    <2>2. comment[c].children \in Int /\ comment[c].depth \in 0 .. MaxDepth
      BY <2>1 DEF TableOK, CommentObject
    <2>3. Cardinality(Desc(comment, c)) \in Nat
      BY <2>1, DescFinite
    <2> QED
      BY <2>1, <2>2, <2>3
  <1>8. TypeOK
    BY <1>2, <1>3, <1>4, <1>5, <1>6, <1>7 DEF TypeOK, HeadInv
  <1> QED
    BY <1>1, <1>8 DEF StateSound

(* After any sequence of operations and blocks nothing is negative, every  *)
(* wallet has its authorities, XGT is conserved and escrows are at one of  *)
(* their stages. *)
THEOREM StateSoundTheorem == Spec => []StateSound
  <1>1. Init => TargetInv
    BY LedgerAssumption DEF Init, LedgerInit, TargetInv
  <1>2. TargetInv /\ [Next]_vars => TargetInv'
    BY TargetStep
  <1>3. SumsInv /\ MoneyInv /\ MoneyInv' /\ RewardInv /\ [Next]_vars => SumsInv'
    BY SumsStep
  <1> QED
    BY <1>1, <1>2, <1>3, SumsInit, MoneyInit, MoneyStep, MinersInit, MinersStep, RewardInit, RewardStep,
       KeysStart, KeyStep, CommentStart, CommentStep, HeadStart, HeadStep, StateFollows, PTL
    DEF Spec
=============================================================================
