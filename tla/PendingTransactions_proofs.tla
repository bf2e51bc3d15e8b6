--------------------- MODULE PendingTransactions_proofs ---------------------
(***************************************************************************)
(* Proofs about transactions that are not in a block yet, for any          *)
(* transactions, any blocks that arrive and any depth of fork switches.    *)
(*                                                                         *)
(* A chain is handled as a function with a length, so that nothing has to  *)
(* be known of concatenations.  At the end: a push loses nothing.          *)
(***************************************************************************)
EXTENDS PendingTransactions, SequenceTheorems, TLAPS

(* The transactions of the first m blocks of f, and whether a block        *)
(* applies on top of those. *)
InTo(f, m) == UNION {Elements(f[k].transactions) : k \in 1 .. m}

RememberedTo(f, m) ==
  {t \in InTo(f, m) : \E k \in 1 .. m : /\ t \in Elements(f[k].transactions)
                                       /\ \A l \in k .. m : f[l].timestamp <= Expires[t]}

AppliesOn(t, top, f, m) ==
  /\ t \notin RememberedTo(f, m) \cup top
  /\ m # 0 => f[m].timestamp < Expires[t] /\ Expires[t] <= f[m].timestamp + MaxAhead
  /\ Needs[t] \subseteq InTo(f, m) \cup top
  /\ \A x \in InTo(f, m) \cup top : Uses[x] \cap Uses[t] = {}

BlockOn(b, f, m) ==
  \A i \in 1 .. Len(b) : AppliesOn(b[i], {b[j] : j \in 1 .. i - 1}, f, m)

ValidTo(f, m) == \A k \in 1 .. m : BlockOn(f[k].transactions, f, k - 1)

(* The chain from before a fork switch: what is left of it, and what was   *)
(* popped. *)
Kept == Len(chain) - fresh
Old == [k \in 1 .. Kept + Len(second) |-> IF k <= Kept THEN chain[k] ELSE second[k - Kept]]

(* The pieces of the invariant: types; the time stamp of a generated    *)
(* block; where the pending session is away; the producer's block; the chain before and during a switch. *)
Types ==
  /\ chain \in Seq(Blocks) /\ second \in Seq(Blocks)
  /\ pending \in Seq(Txs) /\ applied \in Seq(Txs) /\ popped \in Seq(Txs)
  /\ waiting \in Seq(Txs) /\ block \in Seq(Txs) /\ left \in Seq(Txs)
  /\ fresh \in Nat
  /\ pc \in {"idle", "push", "pop", "apply", "unwind", "popped", "generate"}

Stamped == mine \in BOOLEAN /\ when \in Times \cup {0} /\ (mine \/ pc = "generate" => when \in Times)

SessionAway == pc \in {"push", "pop", "apply", "unwind"} => applied = <<>>

AppliedFresh ==
  /\ \A i, j \in 1 .. Len(applied) : applied[i] = applied[j] => i = j
  /\ \A i \in 1 .. Len(applied), k \in 1 .. Len(chain) :
        applied[i] \in Elements(chain[k].transactions) => WentBack(applied[i], k, Len(chain))

BlockTried ==
  /\ pc = "generate" => block = applied /\ BlockApplies(block)
  /\ GeneratedApplies

SwitchKept ==
  /\ ValidTo(chain, Len(chain))
  /\ pc \notin {"pop", "apply", "unwind"} => second = <<>> /\ fresh = 0
  /\ pc = "pop" => fresh = 0
  /\ fresh <= Len(chain)
  /\ ValidTo(Old, Kept + Len(second))

-----------------------------------------------------------------------------
(* Applying a transaction.                                                 *)

(* A transaction that applies is not in effect yet, or the time was past   *)
(* its expiration before it came back. *)
LEMMA AppliesFresh == ASSUME Types, NEW t \in Txs, NEW top, NEW m \in 0 .. Len(chain), AppliesOn(t, top, chain, m)
                      PROVE  /\ t \notin top
                             /\ \A k \in 1 .. m : t \in Elements(chain[k].transactions) => WentBack(t, k, m)
  <1>1. t \notin top
    BY DEF AppliesOn
  <1>2. ASSUME NEW k \in 1 .. m, t \in Elements(chain[k].transactions) PROVE WentBack(t, k, m)
    <2>1. Len(chain) \in Nat /\ \A l \in 1 .. m : chain[l] \in Blocks
      BY DEF Types
    <2>2. \A l \in 1 .. m : chain[l].timestamp \in Nat
      BY <2>1, TxsAssumption DEF Blocks
    <2>3. Expires[t] \in Nat
      BY TxsAssumption
    <2>4. t \in InTo(chain, m) /\ t \notin RememberedTo(chain, m)
      BY <1>2 DEF InTo, AppliesOn
    <2>5. PICK l \in k .. m : ~ (chain[l].timestamp <= Expires[t])
      BY <1>2, <2>4 DEF RememberedTo
    <2>6. m # 0 /\ chain[m].timestamp < Expires[t]
      BY <2>1 DEF AppliesOn
    <2>7. l \in 1 .. m /\ m \in k .. m /\ m \in 1 .. m
      BY <2>1
    <2>8. chain[l].timestamp > Expires[t] /\ l # m
      BY <2>2, <2>3, <2>5, <2>6, <2>7
    <2>9. l < m
      BY <2>1, <2>7, <2>8
    <2> QED
      BY <2>6, <2>7, <2>8, <2>9 DEF WentBack
  <1> QED
    BY <1>1, <1>2

(* Applies and BlockApplies are about the chain as it is. *)
LEMMA AppliesNow == ASSUME Types, NEW t, NEW top PROVE Applies(t, top) <=> AppliesOn(t, top, chain, Len(chain))
  <1>1. InChain = InTo(chain, Len(chain)) /\ Remembered = RememberedTo(chain, Len(chain))
    BY DEF InChain, InTo, Remembered, RememberedTo
  <1>2. /\ chain # <<>> <=> Len(chain) # 0
        /\ chain # <<>> => Now = chain[Len(chain)].timestamp
    BY DEF Now, Types
  <1> QED
    BY <1>1, <1>2, Zenon DEF Applies, AppliesOn, Known

(* The same for the transactions of a block. *)
LEMMA BlockAppliesNow == ASSUME Types, NEW b PROVE BlockApplies(b) <=> BlockOn(b, chain, Len(chain))
  BY AppliesNow, Zenon DEF BlockApplies, BlockOn

(* What applies depends on the blocks below only. *)
LEMMA Agree == ASSUME NEW f, NEW g, NEW m \in Nat, \A k \in 1 .. m : f[k] = g[k]
               PROVE  /\ InTo(f, m) = InTo(g, m)
                      /\ \A b : BlockOn(b, f, m) <=> BlockOn(b, g, m)
                      /\ ValidTo(f, m) <=> ValidTo(g, m)
  <1>1. ASSUME NEW l \in 0 .. m PROVE InTo(f, l) = InTo(g, l)
    <2>1. \A k \in 1 .. l : f[k] = g[k]
      BY <1>1
    <2> QED
      BY <2>1 DEF InTo
  <1>1a. ASSUME NEW l \in 0 .. m PROVE RememberedTo(f, l) = RememberedTo(g, l)
    <2>1. \A k \in 1 .. l : f[k] = g[k] /\ \A h \in k .. l : f[h] = g[h]
      BY <1>1a
    <2>2. InTo(f, l) = InTo(g, l)
      BY <1>1
    <2> QED
      BY <2>1, <2>2 DEF RememberedTo
  <1>1b. ASSUME NEW l \in 0 .. m, NEW t, NEW top PROVE AppliesOn(t, top, f, l) <=> AppliesOn(t, top, g, l)
    <2>1. l # 0 => f[l] = g[l]
      BY <1>1b
    <2>2. InTo(f, l) = InTo(g, l) /\ RememberedTo(f, l) = RememberedTo(g, l)
      BY <1>1, <1>1a
    <2> QED
      BY <2>1, <2>2, Zenon DEF AppliesOn
  <1>2. ASSUME NEW l \in 0 .. m, NEW b PROVE BlockOn(b, f, l) <=> BlockOn(b, g, l)
    BY <1>1b, Zenon DEF BlockOn
  <1>3. ValidTo(f, m) <=> ValidTo(g, m)
    <2>1. \A k \in 1 .. m : k - 1 \in 0 .. m /\ f[k] = g[k]
      OBVIOUS
    <2> QED
      BY <1>2, <2>1 DEF ValidTo
  <1> QED
    BY <1>1, <1>2, <1>3

(* A longer chain. *)
LEMMA ValidNext == ASSUME NEW f, NEW m \in Nat, ValidTo(f, m), BlockOn(f[m + 1].transactions, f, m)
                   PROVE  ValidTo(f, m + 1)
  <1> SUFFICES ASSUME NEW k \in 1 .. m + 1 PROVE BlockOn(f[k].transactions, f, k - 1)
    BY DEF ValidTo
  <1>1. CASE k = m + 1
    <2>1. k - 1 = m
      BY <1>1
    <2> QED
      BY <1>1, <2>1
  <1>2. CASE k \in 1 .. m
    BY <1>2 DEF ValidTo
  <1> QED
    BY <1>1, <1>2

(* A shorter one. *)
LEMMA ValidLess == ASSUME NEW f, NEW m \in Nat, ValidTo(f, m), NEW l \in 0 .. m PROVE ValidTo(f, l)
  BY DEF ValidTo

-----------------------------------------------------------------------------
(* Types.                                                                  *)

(* What is in a block. *)
LEMMA InBlock == /\ \A b \in Blocks : b.transactions \in Seq(Txs) /\ b.timestamp \in Times
                 /\ Types => \A k \in 1 .. Len(chain) : chain[k] \in Blocks
                 /\ Types /\ chain # <<>> => Len(chain) \in 1 .. Len(chain)
  <1>1. \A b \in Blocks : b.transactions \in Seq(Txs) /\ b.timestamp \in Times
    BY DEF Blocks
  <1>2. Types => \A k \in 1 .. Len(chain) : chain[k] \in Blocks
    BY DEF Types
  <1>3. Types /\ chain # <<>> => Len(chain) \in 1 .. Len(chain)
    BY DEF Types
  <1> QED
    BY <1>1, <1>2, <1>3

(* pop_block takes the last block off and its transactions to the front. *)
LEMMA PopTypes == ASSUME Types, chain # <<>>, pop_block
                  PROVE  chain' \in Seq(Blocks) /\ popped' \in Seq(Txs)
  <1>1. chain[Len(chain)].transactions \in Seq(Txs)
    BY InBlock
  <1> QED
    BY <1>1 DEF pop_block, Types

(* The blocks that are pushed. *)
LEMMA ReceivedBlocks == ASSUME NEW b \in Received PROVE b \in Blocks
  BY TxsAssumption DEF Received, Blocks

LEMMA Pushed == ASSUME Types, Stamped, NEW b, push_direct(b) PROVE b \in Blocks
  <1>1. CASE mine
    <2>1. b = [timestamp |-> when, transactions |-> block]
      BY <1>1, Zenon DEF push_direct, pending_block
    <2>2. when \in Times /\ block \in Seq(Txs)
      BY <1>1, Zenon DEF Types, Stamped
    <2> QED
      BY <2>1, <2>2 DEF Blocks
  <1>2. CASE ~ mine
    <2>1. b \in Received
      BY <1>2, Zenon DEF push_direct
    <2> QED
      BY <2>1, ReceivedBlocks
  <1> QED
    BY <1>1, <1>2, Zenon DEF Stamped

(* The producer has a time stamp for its block. *)
LEMMA StampedStep == Stamped /\ [Next]_vars => Stamped'
  <1> SUFFICES ASSUME Stamped, [Next]_vars PROVE Stamped'
    OBVIOUS
  <1>1. ASSUME mine' = mine, when' = when, pc' = pc \/ pc' \in {"idle", "push", "pop", "apply", "unwind", "popped"}
        PROVE  Stamped'
    BY <1>1 DEF Stamped
  <1>2. CASE \E t \in Txs : push_transaction(t)
    BY <1>1, <1>2, Zenon DEF push_transaction
  <1>3. CASE accept_block \/ generate_push
    <2>1. when' = when /\ pc' = "push" /\ (mine' = FALSE \/ (mine' = TRUE /\ pc = "generate"))
      BY <1>3, Zenon DEF accept_block, generate_push, without_pending
    <2> QED
      BY <2>1 DEF Stamped
  <1>4. CASE (\E b \in Received \cup {pending_block} : push_direct(b)) \/ push_without_effect \/ switch_done
    BY <1>1, <1>4, Zenon DEF push_direct, push_without_effect, switch_done
  <1>5. CASE switch_pop
    BY <1>1, <1>5, Zenon DEF switch_pop
  <1>6. CASE \E b \in Received : switch_apply(b)
    BY <1>1, <1>6, Zenon DEF switch_apply
  <1>7. CASE switch_fails \/ switch_unwind
    BY <1>1, <1>7, Zenon DEF switch_fails, switch_unwind
  <1>8. CASE switch_restore
    BY <1>1, <1>8, Zenon DEF switch_restore
  <1>9. CASE restore_popped \/ restore_pending
    BY <1>1, <1>9, Zenon DEF restore_popped, restore_pending
  <1>10. CASE restored
    <2>1. mine' = FALSE /\ when' = 0 /\ pc' = "idle"
      BY <1>10, Zenon DEF restored
    <2> QED
      BY <2>1 DEF Stamped
  <1>11. CASE \E r \in Rewards : generate_block(r)
    <2>1. mine' = mine /\ (when' \in Times \/ (when' = when /\ pc' = pc))
      BY <1>11, Zenon DEF generate_block
    <2> QED
      BY <2>1 DEF Stamped
  <1>12. CASE apply_pending_transactions
    BY <1>1, <1>12, Zenon DEF apply_pending_transactions
  <1>13. CASE UNCHANGED vars
    BY <1>1, <1>13, Zenon DEF vars
  <1> QED
    BY <1>2, <1>3, <1>4, <1>5, <1>6, <1>7, <1>8, <1>9, <1>10, <1>11, <1>12, <1>13, Zenon DEF Next

(* Sequences of transactions. *)
LEMMA TxSeqs == /\ <<>> \in Seq(Txs)
                /\ \A s \in Seq(Txs), t \in Txs : Append(s, t) \in Seq(Txs)
                /\ \A t \in Txs : <<t>> \in Seq(Txs)
                /\ \A s \in Seq(Txs) : s # <<>> => Head(s) \in Txs /\ Tail(s) \in Seq(Txs)
  OBVIOUS

(* A transaction that is put back. *)
LEMMA PutBackTypes == ASSUME Types, NEW t \in Txs, put_back(t)
                      PROVE  pending' \in Seq(Txs) /\ applied' \in Seq(Txs)
  <1>1. /\ pending' = pending \/ pending' = Append(pending, t)
        /\ applied' = applied \/ applied' = Append(applied, t)
    BY Zenon DEF put_back
  <1> QED
    BY <1>1, TxSeqs, Zenon DEF Types

(* One case for each action. *)
LEMMA TypesStep == Types /\ Stamped /\ SwitchKept /\ [Next]_vars => Types'
  <1> SUFFICES ASSUME Types, Stamped, SwitchKept, [Next]_vars PROVE Types'
    OBVIOUS
  <1> USE DEF Types
  <1>1. ASSUME NEW t \in Txs, push_transaction(t) PROVE Types'
    <2>1. /\ pending' = pending \/ pending' = Append(pending, t)
          /\ applied' = applied \/ applied' = Append(applied, t)
          /\ UNCHANGED <<chain, popped, waiting, second, fresh, block, left, pc>>
      BY <1>1, Zenon DEF push_transaction
    <2> QED
      BY <2>1, TxSeqs, Zenon
  <1>2. CASE accept_block \/ generate_push
    <2>1. /\ waiting' = pending /\ pending' = <<>> /\ applied' = <<>> /\ pc' = "push"
          /\ UNCHANGED <<chain, popped, second, fresh, block, left>>
      BY <1>2, Zenon DEF accept_block, generate_push, without_pending
    <2> QED
      BY <2>1
  <1>3. ASSUME NEW b \in Received \cup {pending_block}, push_direct(b) PROVE Types'
    <2>1. b \in Blocks
      BY <1>3, Pushed, Zenon
    <2> QED
      BY <1>3, <2>1 DEF push_direct, Applied
  <1>4. CASE push_without_effect \/ switch_fails \/ restored
    BY <1>4 DEF push_without_effect, switch_fails, restored
  <1>5. CASE switch_pop
    <2>1. chain' \in Seq(Blocks) /\ popped' \in Seq(Txs)
      BY <1>5, PopTypes DEF switch_pop
    <2>2. second' \in Seq(Blocks)
      BY <1>5 DEF switch_pop
    <2> QED
      BY <1>5, <2>1, <2>2 DEF switch_pop
  <1>6. ASSUME NEW b \in Received, switch_apply(b) PROVE Types'
    <2>1. b \in Blocks
      BY <1>6, ReceivedBlocks, Zenon
    <2> QED
      BY <1>6, <2>1 DEF switch_apply, Applied
  <1>7. CASE switch_done
    BY <1>7 DEF switch_done
  <1>8. CASE switch_unwind
    <2>1. chain # <<>>
      BY <1>8 DEF switch_unwind, SwitchKept
    <2>2. chain' \in Seq(Blocks) /\ popped' \in Seq(Txs)
      BY <1>8, <2>1, PopTypes DEF switch_unwind
    <2>3. fresh' \in Nat
      BY <1>8 DEF switch_unwind
    <2> QED
      BY <1>8, <2>2, <2>3 DEF switch_unwind
  <1>9. CASE switch_restore
    BY <1>9 DEF switch_restore
  <1>10. CASE restore_popped
    <2>1. Head(popped) \in Txs /\ popped' \in Seq(Txs)
      BY <1>10 DEF restore_popped
    <2>2. pending' \in Seq(Txs) /\ applied' \in Seq(Txs)
      BY <1>10, <2>1, PutBackTypes DEF restore_popped
    <2> QED
      BY <1>10, <2>1, <2>2 DEF restore_popped
  <1>11. CASE restore_pending
    <2>1. Head(waiting) \in Txs /\ waiting' \in Seq(Txs)
      BY <1>11 DEF restore_pending
    <2>2. pending' \in Seq(Txs) /\ applied' \in Seq(Txs)
      BY <1>11, <2>1, PutBackTypes DEF restore_pending
    <2> QED
      BY <1>11, <2>1, <2>2 DEF restore_pending
  <1>12. ASSUME NEW r \in Rewards, generate_block(r) PROVE Types'
    <2>1. \A t \in r : t \in Txs
      BY TxsAssumption DEF Rewards
    <2>2. /\ \/ \E b \in {<<>>} \cup {<<t>> : t \in r} : block' = b /\ applied' = b
             \/ applied' = <<>> /\ block' = block
          /\ left' = pending \/ left' = left
          /\ pc' = "generate" \/ pc' = pc
          /\ UNCHANGED <<chain, pending, popped, waiting, second, fresh>>
      BY <1>12, Zenon DEF generate_block
    <2>3. block' \in Seq(Txs) /\ applied' \in Seq(Txs)
      BY <2>1, <2>2, TxSeqs, Zenon
    <2> QED
      BY <2>2, <2>3, Zenon
  <1>13. CASE apply_pending_transactions
    <2>1. /\ left # <<>> /\ left' = Tail(left)
          /\ block' = block \/ block' = Append(block, Head(left))
          /\ applied' = applied \/ applied' = Append(applied, Head(left))
          /\ UNCHANGED <<chain, pending, popped, waiting, second, fresh, pc>>
      BY <1>13, Zenon DEF apply_pending_transactions
    <2> QED
      BY <2>1, TxSeqs, Zenon
  <1>14. CASE UNCHANGED vars
    BY <1>14 DEF vars
  <1> QED
    BY <1>1, <1>2, <1>3, <1>4, <1>5, <1>6, <1>7, <1>8, <1>9, <1>10, <1>11, <1>12, <1>13, <1>14 DEF Next

-----------------------------------------------------------------------------
(* The chain and fork switches.                                            *)

(* After a step that ends outside a switch the chain is all there is. *)
LEMMA NoSwitch ==
  ASSUME chain' \in Seq(Blocks), ValidTo(chain', Len(chain')), second' = <<>>, fresh' = 0, pc' # "pop"
  PROVE  SwitchKept'
  <1>1. Kept' = Len(chain') /\ Len(second') = 0 /\ Len(chain') \in Nat
    BY DEF Kept
  <1>2. \A k \in 1 .. Len(chain') : Old'[k] = chain'[k]
    BY <1>1 DEF Old
  <1>3. Kept' + Len(second') = Len(chain')
    BY <1>1
  <1>4. ValidTo(Old', Len(chain'))
    BY <1>1, <1>2, Agree
  <1> QED
    BY <1>1, <1>3, <1>4 DEF SwitchKept

(* A step that leaves the chain and the switch alone. *)
LEMMA Stays ==
  ASSUME SwitchKept, UNCHANGED <<chain, second, fresh>>,
         pc' \notin {"pop", "apply", "unwind"} => pc \notin {"pop", "apply", "unwind"},
         pc' = "pop" => pc = "pop"
  PROVE  SwitchKept'
  <1>1. Kept' = Kept /\ Old' = Old
    BY DEF Kept, Old
  <1> QED
    BY <1>1 DEF SwitchKept

(* A block that applies. *)
LEMMA Grows ==
  ASSUME Types, ValidTo(chain, Len(chain)), NEW b \in Blocks, BlockApplies(b.transactions), chain' = Append(chain, b)
  PROVE  /\ ValidTo(chain', Len(chain')) /\ Len(chain') = Len(chain) + 1
         /\ \A k \in 1 .. Len(chain) : chain'[k] = chain[k]
         /\ chain'[Len(chain) + 1] = b
  <1> DEFINE n == Len(chain)
  <1>1. /\ n \in Nat /\ Len(chain') = n + 1 /\ chain'[n + 1] = b
        /\ \A k \in 1 .. n : chain'[k] = chain[k]
    BY DEF Types
  <1>2. BlockOn(b.transactions, chain, n)
    BY BlockAppliesNow
  <1> HIDE DEF n
  <1>3. ValidTo(chain', n) /\ BlockOn(b.transactions, chain', n)
    BY <1>1, <1>2, Agree DEF n
  <1>4. ValidTo(chain', n + 1)
    BY <1>1, <1>3, ValidNext
  <1> QED
    BY <1>1, <1>4 DEF n

(* The first m of a sequence. *)
LEMMA FirstOf == ASSUME NEW S, NEW s \in Seq(S), NEW m \in Nat, m <= Len(s)
                 PROVE  Len(SubSeq(s, 1, m)) = m /\ \A k \in 1 .. m : SubSeq(s, 1, m)[k] = s[k]
  <1>1. Len(s) \in Nat
    OBVIOUS
  <1>2. Len(SubSeq(s, 1, m)) = m
    BY <1>1, SubSeqProperties
  <1>3. \A k \in 1 .. m : SubSeq(s, 1, m)[k] = s[1 + k - 1] /\ 1 + k - 1 = k
    BY <1>1, <1>2, SubSeqProperties
  <1> QED
    BY <1>2, <1>3

(* A block that is popped. *)
LEMMA Shrinks ==
  ASSUME Types, ValidTo(chain, Len(chain)), chain # <<>>, pop_block
  PROVE  /\ ValidTo(chain', Len(chain')) /\ Len(chain') = Len(chain) - 1 /\ Len(chain) \in Nat \ {0}
         /\ \A k \in 1 .. Len(chain) - 1 : chain'[k] = chain[k]
  <1> DEFINE n == Len(chain) - 1
  <1>0. chain' = SubSeq(chain, 1, n) /\ chain \in Seq(Blocks)
    BY DEF Types, pop_block
  <1>1. /\ n \in Nat /\ Len(chain') = n /\ n \in 0 .. Len(chain) /\ Len(chain) \in Nat \ {0}
        /\ \A k \in 1 .. n : chain'[k] = chain[k]
    <2>1. Len(chain) \in Nat /\ Len(chain) # 0
      BY <1>0
    <2>2. n \in Nat /\ n \in 0 .. Len(chain)
      BY <2>1
    <2>3. n <= Len(chain)
      BY <2>1
    <2> HIDE DEF n
    <2>4. Len(chain') = n /\ \A k \in 1 .. n : chain'[k] = chain[k]
      BY <1>0, <2>2, <2>3, FirstOf
    <2> QED
      BY <2>1, <2>2, <2>4
  <1> HIDE DEF n
  <1>2. ValidTo(chain, n)
    BY <1>1, ValidLess
  <1>3. ValidTo(chain', n)
    BY <1>1, <1>2, Agree
  <1> QED
    BY <1>1, <1>3 DEF n

(* A step of a switch leaves the chain from before it what it was. *)
LEMMA OldKept ==
  ASSUME SwitchKept, NEW n \in Nat, n = Kept + Len(second), n = Kept' + Len(second'),
         \A k \in 1 .. n : Old'[k] = Old[k]
  PROVE  ValidTo(Old', Kept' + Len(second'))
  <1>1. ValidTo(Old, n)
    BY DEF SwitchKept
  <1>2. ValidTo(Old', n)
    BY <1>1, Agree
  <1> QED
    BY <1>2

(* The first block that was popped applies again on what is left. *)
LEMMA OldApplies ==
  ASSUME Types, SwitchKept, fresh = 0, second # <<>>
  PROVE  BlockApplies(Head(second).transactions)
  <1> DEFINE n == Len(chain)
  <1>1. /\ n \in Nat /\ Kept = n /\ Len(second) \in Nat \ {0} /\ Head(second) = second[1]
    BY DEF Types, Kept
  <1>2. Old[n + 1] = Head(second) /\ \A k \in 1 .. n : Old[k] = chain[k]
    BY <1>1 DEF Old
  <1>3. BlockOn(Old[n + 1].transactions, Old, (n + 1) - 1)
    BY <1>1 DEF SwitchKept, ValidTo
  <1>4. (n + 1) - 1 = n
    BY <1>1
  <1> HIDE DEF n
  <1>5. BlockOn(Head(second).transactions, chain, n)
    <2>1. BlockOn(Head(second).transactions, Old, n)
      BY <1>2, <1>3, <1>4
    <2> QED
      BY <1>1, <1>2, <2>1, Agree
  <1> QED
    BY <1>1, <1>5, BlockAppliesNow DEF n

(* A block put in front. *)
LEMMA Front == ASSUME NEW S, NEW x \in S, NEW s \in Seq(S)
               PROVE  /\ <<x>> \o s \in Seq(S) /\ Len(<<x>> \o s) = Len(s) + 1
                      /\ (<<x>> \o s)[1] = x
                      /\ \A j \in 1 .. Len(s) : (<<x>> \o s)[j + 1] = s[j]
  OBVIOUS

(* A block taken from the front. *)
LEMMA Rest == ASSUME NEW S, NEW s \in Seq(S), s # <<>>
              PROVE  /\ Tail(s) \in Seq(S) /\ Len(Tail(s)) = Len(s) - 1 /\ Len(s) \in Nat \ {0}
                     /\ Head(s) = s[1]
                     /\ \A j \in 1 .. Len(s) - 1 : Tail(s)[j] = s[j + 1]
  OBVIOUS

(* One more block is popped: it is the first of those that were. *)
LEMMA PopKept == ASSUME Types, SwitchKept, switch_pop PROVE SwitchKept'
  <1>1. /\ fresh = 0 /\ fresh' = 0 /\ chain # <<>> /\ pop_block /\ pc' = "pop"
        /\ second' = <<chain[Len(chain)]>> \o second
    BY DEF switch_pop, SwitchKept
  <1>2. /\ ValidTo(chain', Len(chain')) /\ Len(chain') = Len(chain) - 1 /\ Len(chain) \in Nat \ {0}
        /\ \A k \in 1 .. Len(chain) - 1 : chain'[k] = chain[k]
    BY <1>1, Shrinks DEF SwitchKept
  <1>3. chain[Len(chain)] \in Blocks /\ Len(second) \in Nat
    BY <1>2 DEF Types
  <1>4. /\ Len(second') = Len(second) + 1 /\ second'[1] = chain[Len(chain)]
        /\ \A j \in 1 .. Len(second) : second'[j + 1] = second[j]
    BY <1>1, <1>3, Front DEF Types
  <1> DEFINE n == Len(chain) + Len(second)
  <1>5. /\ n \in Nat /\ Kept = Len(chain) /\ Kept' = Len(chain) - 1
        /\ n = Kept + Len(second) /\ n = Kept' + Len(second')
    BY <1>1, <1>2, <1>3, <1>4 DEF Kept
  <1>6. ASSUME NEW k \in 1 .. n PROVE Old'[k] = Old[k]
    <2>1. CASE k <= Len(chain) - 1
      BY <2>1, <1>2, <1>5 DEF Old
    <2>2. CASE k = Len(chain)
      <3>1. k - Kept' = 1 /\ ~ (k <= Kept') /\ k <= Kept
        BY <2>2, <1>2, <1>5
      <3> QED
        BY <2>2, <3>1, <1>4, <1>5 DEF Old
    <2>3. CASE k > Len(chain)
      <3>1. k - Kept \in 1 .. Len(second) /\ k - Kept' = (k - Kept) + 1 /\ ~ (k <= Kept') /\ ~ (k <= Kept)
        BY <2>3, <1>2, <1>3, <1>5
      <3>2. Old'[k] = second'[(k - Kept) + 1] /\ Old[k] = second[k - Kept]
        BY <3>1, <1>5 DEF Old
      <3> QED
        BY <3>1, <3>2, <1>4
    <2> QED
      BY <2>1, <2>2, <2>3, <1>2, <1>3
  <1> HIDE DEF n
  <1>7. ValidTo(Old', Kept' + Len(second'))
    BY <1>5, <1>6, OldKept
  <1> QED
    BY <1>1, <1>2, <1>7 DEF SwitchKept

(* A block of the new fork. *)
LEMMA ApplyKept == ASSUME Types, Stamped, SwitchKept, NEW b \in Received, switch_apply(b) PROVE SwitchKept'
  <1>1. /\ fresh' = fresh + 1 /\ second' = second /\ pc' = "apply" /\ BlockApplies(b.transactions)
        /\ chain' = Append(chain, b) /\ b \in Blocks
    BY ReceivedBlocks DEF switch_apply, Applied
  <1>2. /\ ValidTo(chain', Len(chain')) /\ Len(chain') = Len(chain) + 1
        /\ \A k \in 1 .. Len(chain) : chain'[k] = chain[k]
    BY <1>1, Grows DEF SwitchKept
  <1>3. Len(chain) \in Nat /\ Len(second) \in Nat /\ fresh \in Nat /\ fresh <= Len(chain)
    BY DEF Types, SwitchKept
  <1>4. Kept' = Kept /\ Kept \in Nat /\ Kept <= Len(chain)
    BY <1>1, <1>2, <1>3 DEF Kept
  <1> DEFINE n == Kept + Len(second)
  <1>5. n \in Nat /\ n = Kept' + Len(second')
    BY <1>1, <1>3, <1>4
  <1>6. ASSUME NEW k \in 1 .. n PROVE Old'[k] = Old[k]
    <2>1. CASE k <= Kept
      BY <2>1, <1>1, <1>2, <1>3, <1>4 DEF Old
    <2>2. CASE ~ (k <= Kept)
      BY <2>2, <1>1, <1>4 DEF Old
    <2> QED
      BY <2>1, <2>2
  <1> HIDE DEF n
  <1>7. ValidTo(Old', Kept' + Len(second'))
    BY <1>5, <1>6, OldKept DEF n
  <1> QED
    BY <1>1, <1>2, <1>3, <1>7 DEF SwitchKept

(* A block of the new fork is taken back. *)
LEMMA UnwindKept == ASSUME Types, SwitchKept, switch_unwind PROVE SwitchKept'
  <1>1. fresh' = fresh - 1 /\ fresh > 0 /\ second' = second /\ pc' = "unwind" /\ pop_block /\ chain # <<>>
    BY DEF switch_unwind, SwitchKept, Types
  <1>2. /\ ValidTo(chain', Len(chain')) /\ Len(chain') = Len(chain) - 1
        /\ \A k \in 1 .. Len(chain) - 1 : chain'[k] = chain[k]
    BY <1>1, Shrinks DEF SwitchKept
  <1>3. Len(chain) \in Nat /\ Len(second) \in Nat /\ fresh \in Nat /\ fresh <= Len(chain)
    BY DEF Types, SwitchKept
  <1>4. Kept' = Kept /\ Kept \in Nat /\ Kept <= Len(chain) - 1
    BY <1>1, <1>2, <1>3 DEF Kept
  <1> DEFINE n == Kept + Len(second)
  <1>5. n \in Nat /\ n = Kept' + Len(second')
    BY <1>1, <1>3, <1>4
  <1>6. ASSUME NEW k \in 1 .. n PROVE Old'[k] = Old[k]
    <2>1. CASE k <= Kept
      BY <2>1, <1>1, <1>2, <1>3, <1>4 DEF Old
    <2>2. CASE ~ (k <= Kept)
      BY <2>2, <1>1, <1>4 DEF Old
    <2> QED
      BY <2>1, <2>2
  <1> HIDE DEF n
  <1>7. ValidTo(Old', Kept' + Len(second'))
    BY <1>5, <1>6, OldKept DEF n
  <1> QED
    BY <1>1, <1>2, <1>3, <1>7 DEF SwitchKept

(* A popped block is applied again. *)
LEMMA RestoreKept == ASSUME Types, SwitchKept, switch_restore PROVE SwitchKept'
  <1>1. /\ fresh = 0 /\ fresh' = 0 /\ second # <<>> /\ second' = Tail(second) /\ BlockApplies(Head(second).transactions)
        /\ chain' = Append(chain, Head(second))
        /\ pc' = IF Len(second) = 1 THEN "popped" ELSE "unwind"
    BY DEF switch_restore
  <1>2. /\ second' \in Seq(Blocks) /\ Len(second') = Len(second) - 1 /\ Len(second) \in Nat \ {0}
        /\ Head(second) = second[1] /\ Head(second) \in Blocks
        /\ \A j \in 1 .. Len(second) - 1 : second'[j] = second[j + 1]
    BY <1>1, Rest DEF Types
  <1>3. /\ ValidTo(chain', Len(chain')) /\ Len(chain') = Len(chain) + 1
        /\ \A k \in 1 .. Len(chain) : chain'[k] = chain[k]
        /\ chain'[Len(chain) + 1] = Head(second)
    BY <1>1, <1>2, Grows DEF SwitchKept
  <1> DEFINE n == Len(chain) + Len(second)
  <1>4. Len(chain) \in Nat
    BY DEF Types
  <1>5. /\ n \in Nat /\ Kept = Len(chain) /\ Kept' = Len(chain) + 1
        /\ n = Kept + Len(second) /\ n = Kept' + Len(second')
    BY <1>1, <1>2, <1>3, <1>4 DEF Kept
  <1>6. ASSUME NEW k \in 1 .. n PROVE Old'[k] = Old[k]
    <2>1. CASE k <= Len(chain)
      BY <2>1, <1>3, <1>4, <1>5 DEF Old
    <2>2. CASE k = Len(chain) + 1
      <3>1. k - Kept = 1 /\ ~ (k <= Kept) /\ k <= Kept'
        BY <2>2, <1>4, <1>5
      <3> QED
        BY <2>2, <3>1, <1>2, <1>3, <1>5 DEF Old
    <2>3. CASE k > Len(chain) + 1
      <3>1. /\ k - Kept' \in 1 .. Len(second) - 1 /\ k - Kept = (k - Kept') + 1
            /\ ~ (k <= Kept') /\ ~ (k <= Kept)
        BY <2>3, <1>2, <1>4, <1>5
      <3>2. Old'[k] = second'[k - Kept'] /\ Old[k] = second[(k - Kept') + 1]
        BY <3>1, <1>5 DEF Old
      <3> QED
        BY <3>1, <3>2, <1>2
    <2> QED
      BY <2>1, <2>2, <2>3, <1>4
  <1> HIDE DEF n
  <1>7. ValidTo(Old', Kept' + Len(second'))
    BY <1>5, <1>6, OldKept
  <1>8. pc' = "popped" => second' = <<>>
    BY <1>1, <1>2
  <1> QED
    BY <1>1, <1>3, <1>4, <1>7, <1>8 DEF SwitchKept

(* One case for each kind of step. *)
LEMMA SwitchStep == Types /\ Stamped /\ SwitchKept /\ [Next]_vars => SwitchKept'
  <1> SUFFICES ASSUME Types, Stamped, SwitchKept, [Next]_vars PROVE SwitchKept'
    OBVIOUS
  <1>0. Types'
    BY TypesStep
  <1>1. ASSUME UNCHANGED <<chain, second, fresh>>, pc = pc' \/ pc' \in {"push", "popped", "idle", "generate", "unwind"},
               pc' \in {"push", "popped", "idle", "generate"} => pc \notin {"pop", "apply", "unwind"}
        PROVE  SwitchKept'
    BY <1>1, Stays DEF Types
  <1>2. CASE \E t \in Txs : push_transaction(t)
    BY <1>2, <1>1, Zenon DEF push_transaction
  <1>3. CASE accept_block \/ generate_push
    <2>1. pc \in {"idle", "generate"} /\ pc' = "push" /\ UNCHANGED <<chain, second, fresh>>
      BY <1>3, Zenon DEF accept_block, generate_push, without_pending
    <2> QED
      BY <2>1, <1>1
  <1>4. ASSUME NEW b \in Received \cup {pending_block}, push_direct(b) PROVE SwitchKept'
    <2>0. b \in Blocks
      BY <1>4, Pushed, Zenon
    <2>1. /\ b \in Blocks /\ BlockApplies(b.transactions) /\ chain' = Append(chain, b)
          /\ second' = <<>> /\ fresh' = 0 /\ pc' = "popped"
      BY <1>4, <2>0 DEF push_direct, Applied, SwitchKept
    <2>2. ValidTo(chain', Len(chain'))
      BY <2>1, Grows DEF SwitchKept
    <2> QED
      BY <2>1, <2>2, <1>0, NoSwitch DEF Types
  <1>5. CASE push_without_effect \/ restored
    <2>1. pc \in {"push", "popped"} /\ pc' \in {"popped", "idle"} /\ UNCHANGED <<chain, second, fresh>>
      BY <1>5, Zenon DEF push_without_effect, restored
    <2> QED
      BY <2>1, <1>1
  <1>6. CASE switch_fails
    BY <1>6, <1>1 DEF switch_fails
  <1>7. CASE switch_done
    <2>1. chain' = chain /\ second' = <<>> /\ fresh' = 0 /\ pc' = "popped" /\ ValidTo(chain', Len(chain'))
      BY <1>7 DEF switch_done, SwitchKept
    <2> QED
      BY <2>1, <1>0, NoSwitch DEF Types
  <1>8. CASE restore_popped \/ restore_pending
    <2>1. pc = "popped" /\ pc' = pc /\ UNCHANGED <<chain, second, fresh>>
      BY <1>8, Zenon DEF restore_popped, restore_pending
    <2> QED
      BY <2>1, <1>1
  <1>9. ASSUME NEW r \in Rewards, generate_block(r) PROVE SwitchKept'
    <2>1. pc = "idle" /\ (pc' = "generate" \/ pc' = pc) /\ UNCHANGED <<chain, second, fresh>>
      BY <1>9, Zenon DEF generate_block
    <2> QED
      BY <2>1, <1>1
  <1>10. CASE apply_pending_transactions
    <2>1. pc = "generate" /\ pc' = pc /\ UNCHANGED <<chain, second, fresh>>
      BY <1>10, Zenon DEF apply_pending_transactions
    <2> QED
      BY <2>1, <1>1
  <1>11. CASE UNCHANGED vars
    BY <1>11, Stays DEF vars
  <1> QED
    BY <1>2, <1>3, <1>4, <1>5, <1>6, <1>7, <1>8, <1>9, <1>10, <1>11,
       PopKept, ApplyKept, UnwindKept, RestoreKept DEF Next

-----------------------------------------------------------------------------
(* What is in effect on top of the chain.                                  *)

(* Away with the session, back to it: one case for each kind of step. *)
LEMMA AwayStep == ASSUME Types, SessionAway, [Next]_vars PROVE SessionAway'
  <1>1. \/ pc' = "push" /\ applied' = <<>>
        \/ pc' \in {"popped", "idle", "generate"}
        \/ applied' = applied /\ pc \in {"push", "pop", "apply", "unwind"}
        \/ applied' = applied /\ pc' = pc
        \/ pc \in {"idle", "generate", "popped"} /\ pc' = pc
    <2>1. CASE \E t \in Txs : push_transaction(t)
      BY <2>1, Zenon DEF push_transaction
    <2>2. CASE accept_block \/ generate_push
      BY <2>2, Zenon DEF accept_block, generate_push, without_pending
    <2>3. CASE \E b \in Received \cup {pending_block} : push_direct(b)
      BY <2>3, Zenon DEF push_direct
    <2>4. CASE push_without_effect \/ restored \/ switch_done
      BY <2>4, Zenon DEF push_without_effect, restored, switch_done
    <2>5. CASE switch_pop
      BY <2>5, Zenon DEF switch_pop
    <2>6. CASE \E b \in Received : switch_apply(b)
      BY <2>6, Zenon DEF switch_apply
    <2>7. CASE switch_fails \/ switch_unwind
      BY <2>7, Zenon DEF switch_fails, switch_unwind
    <2>8. CASE switch_restore
      BY <2>8, Zenon DEF switch_restore
    <2>9. CASE restore_popped \/ restore_pending
      BY <2>9, Zenon DEF restore_popped, restore_pending
    <2>10. CASE \E r \in Rewards : generate_block(r)
      BY <2>10, Zenon DEF generate_block
    <2>11. CASE apply_pending_transactions
      BY <2>11, Zenon DEF apply_pending_transactions
    <2>12. CASE UNCHANGED vars
      BY <2>12, Zenon DEF vars
    <2> QED
      BY <2>1, <2>2, <2>3, <2>4, <2>5, <2>6, <2>7, <2>8, <2>9, <2>10, <2>11, <2>12, Zenon DEF Next
  <1> QED
    BY <1>1 DEF SessionAway

(* A sequence of distinct transactions, and one more that applies on top   *)
(* of all of them. *)
LEMMA AppendFresh ==
  ASSUME Types, AppliedFresh, NEW t \in Txs, Applies(t, Top), applied' = Append(applied, t), chain' = chain
  PROVE  AppliedFresh'
  <1>1. t \notin Top /\ \A k \in 1 .. Len(chain) : t \in Elements(chain[k].transactions) => WentBack(t, k, Len(chain))
    <2>1. Len(chain) \in 0 .. Len(chain)
      BY DEF Types
    <2> QED
      BY <2>1, AppliesNow, AppliesFresh
  <1>2. \A x, k : WentBack(x, k, Len(chain))' <=> WentBack(x, k, Len(chain))
    BY DEF WentBack
  <1>3. /\ Len(applied) \in Nat /\ Len(applied') = Len(applied) + 1
        /\ \A i \in 1 .. Len(applied) : applied'[i] = applied[i]
        /\ applied'[Len(applied) + 1] = t
    BY DEF Types
  <1>4. \A i \in 1 .. Len(applied) : applied[i] # t
    BY <1>1 DEF Top, Elements
  <1>5. \A i \in 1 .. Len(applied') : i \in 1 .. Len(applied) \/ i = Len(applied) + 1
    BY <1>3
  <1>6. \A i, j \in 1 .. Len(applied') : applied'[i] = applied'[j] => i = j
    BY <1>3, <1>4, <1>5 DEF AppliedFresh
  <1>7. ASSUME NEW i \in 1 .. Len(applied'), NEW k \in 1 .. Len(chain), applied'[i] \in Elements(chain[k].transactions)
        PROVE  WentBack(applied'[i], k, Len(chain))
    <2>1. CASE i \in 1 .. Len(applied)
      BY <1>3, <1>7, <2>1 DEF AppliedFresh
    <2>2. CASE i = Len(applied) + 1
      BY <1>1, <1>3, <1>7, <2>2
    <2> QED
      BY <1>5, <2>1, <2>2
  <1> QED
    BY <1>2, <1>6, <1>7 DEF AppliedFresh

(* Nothing in effect. *)
LEMMA EmptyFresh == ASSUME applied' = <<>> PROVE AppliedFresh'
  BY DEF AppliedFresh, Elements

(* The same transactions on the same chain. *)
LEMMA SameFresh == ASSUME AppliedFresh, applied' = applied, chain' = chain PROVE AppliedFresh'
  BY DEF AppliedFresh, WentBack

(* A transaction that is put back. *)
LEMMA PutBackFresh ==
  ASSUME Types, AppliedFresh, NEW t \in Txs, put_back(t), chain' = chain
  PROVE  AppliedFresh'
  <1>1. \/ applied' = applied
        \/ applied' = Append(applied, t) /\ Applies(t, Top)
    BY Zenon DEF put_back
  <1> QED
    BY <1>1, AppendFresh, SameFresh

(* Blocks of at most one transaction. *)
LEMMA OneFresh ==
  ASSUME Types, NEW t \in Txs, BlockApplies(<<t>>), applied' = <<t>>, chain' = chain
  PROVE  AppliedFresh'
  <1>1. Applies(t, {})
    <2>1. {<<t>>[j] : j \in 1 .. 1 - 1} = {} /\ Len(<<t>>) = 1 /\ <<t>>[1] = t
      OBVIOUS
    <2>2. Applies(<<t>>[1], {<<t>>[j] : j \in 1 .. 1 - 1})
      BY <2>1 DEF BlockApplies
    <2> QED
      BY <2>1, <2>2, Zenon
  <1>2. \A k \in 1 .. Len(chain) : t \in Elements(chain[k].transactions) => WentBack(t, k, Len(chain))
    <2>1. Len(chain) \in 0 .. Len(chain)
      BY DEF Types
    <2> QED
      BY <2>1, <1>1, AppliesNow, AppliesFresh
  <1>3. \A x, k : WentBack(x, k, Len(chain))' <=> WentBack(x, k, Len(chain))
    BY DEF WentBack
  <1>4. Len(applied') = 1 /\ applied'[1] = t
    OBVIOUS
  <1> QED
    BY <1>2, <1>3, <1>4 DEF AppliedFresh

(* One case for each kind of step. *)
LEMMA FreshStep == ASSUME Types, SessionAway, AppliedFresh, [Next]_vars PROVE AppliedFresh'
  <1>0. SessionAway'
    BY AwayStep
  <1>1. ASSUME NEW t \in Txs, push_transaction(t) PROVE AppliedFresh'
    <2>1. /\ chain' = chain
          /\ applied' = applied \/ (applied' = Append(applied, t) /\ Applies(t, Top))
      BY <1>1, Zenon DEF push_transaction
    <2> QED
      BY <2>1, AppendFresh, SameFresh
  <1>2. CASE accept_block \/ generate_push
    <2>1. applied' = <<>>
      BY <1>2, Zenon DEF accept_block, generate_push, without_pending
    <2> QED
      BY <2>1, EmptyFresh
  <1>3. ASSUME pc \in {"push", "pop", "apply", "unwind"}, applied' = applied PROVE AppliedFresh'
    BY <1>3, EmptyFresh DEF SessionAway
  <1>4. CASE \E b \in Received \cup {pending_block} : push_direct(b)
    <2>1. pc = "push" /\ applied' = applied
      BY <1>4, Zenon DEF push_direct
    <2> QED
      BY <2>1, <1>3
  <1>5. CASE push_without_effect \/ switch_fails \/ switch_unwind \/ switch_restore \/ switch_pop \/ switch_done
    <2>1. pc \in {"push", "pop", "apply", "unwind"} /\ applied' = applied
      BY <1>5, Zenon DEF push_without_effect, switch_fails, switch_unwind, switch_restore, switch_pop, switch_done
    <2> QED
      BY <2>1, <1>3
  <1>6. CASE \E b \in Received : switch_apply(b)
    <2>1. pc \in {"pop", "apply"} /\ applied' = applied
      BY <1>6, Zenon DEF switch_apply
    <2> QED
      BY <2>1, <1>3
  <1>7. CASE restored \/ UNCHANGED vars
    <2>1. chain' = chain /\ applied' = applied
      BY <1>7, Zenon DEF restored, vars
    <2> QED
      BY <2>1, SameFresh
  <1>8. CASE restore_popped
    BY <1>8, PutBackFresh, TxSeqs DEF restore_popped, Types
  <1>9. CASE restore_pending
    BY <1>9, PutBackFresh, TxSeqs DEF restore_pending, Types
  <1>10. ASSUME NEW r \in Rewards, generate_block(r) PROVE AppliedFresh'
    <2>1. \A t \in r : t \in Txs
      BY TxsAssumption DEF Rewards
    <2>2. /\ chain' = chain
          /\ \/ applied' = <<>>
             \/ \E t \in r : applied' = <<t>> /\ BlockApplies(<<t>>)
      BY <1>10, Zenon DEF generate_block
    <2> QED
      BY <2>1, <2>2, EmptyFresh, OneFresh
  <1>11. CASE apply_pending_transactions
    <2>1. /\ chain' = chain /\ left # <<>>
          /\ applied' = applied \/ (applied' = Append(applied, Head(left)) /\ Applies(Head(left), Top))
      BY <1>11, Zenon DEF apply_pending_transactions
    <2>2. Head(left) \in Txs
      BY <2>1, TxSeqs DEF Types
    <2> QED
      BY <2>1, <2>2, AppendFresh, SameFresh
  <1> QED
    BY <1>1, <1>2, <1>4, <1>5, <1>6, <1>7, <1>8, <1>9, <1>10, <1>11, Zenon DEF Next

-----------------------------------------------------------------------------
(* The producer's block.                                                   *)

(* Whether a block applies is a question about the chain. *)
LEMMA SameBlocks == ASSUME chain' = chain PROVE BlockApplies(block') <=> BlockApplies(block)'
  <1>1. InChain' = InChain /\ Now' = Now /\ Remembered' = Remembered
    BY DEF InChain, Now, Remembered
  <1> QED
    BY <1>1 DEF BlockApplies, Applies, Known

(* One more transaction that applies on top of a block that does. *)
LEMMA BlockGrows ==
  ASSUME NEW b \in Seq(Txs), BlockApplies(b), NEW t \in Txs, Applies(t, Elements(b))
  PROVE  BlockApplies(Append(b, t))
  <1> DEFINE c == Append(b, t)
  <1>1. /\ Len(b) \in Nat /\ Len(c) = Len(b) + 1 /\ c[Len(b) + 1] = t
        /\ \A i \in 1 .. Len(b) : c[i] = b[i]
    OBVIOUS
  <1> HIDE DEF c
  <1> SUFFICES ASSUME NEW i \in 1 .. Len(c) PROVE Applies(c[i], {c[j] : j \in 1 .. i - 1})
    BY DEF BlockApplies, c
  <1>2. CASE i \in 1 .. Len(b)
    <2>1. {c[j] : j \in 1 .. i - 1} = {b[j] : j \in 1 .. i - 1} /\ c[i] = b[i]
      BY <1>1, <1>2
    <2>2. Applies(b[i], {b[j] : j \in 1 .. i - 1})
      BY <1>2 DEF BlockApplies
    <2> QED
      BY <2>1, <2>2, Zenon
  <1>3. CASE i = Len(b) + 1
    <2>1. {c[j] : j \in 1 .. i - 1} = Elements(b) /\ c[i] = t
      BY <1>1, <1>3 DEF Elements
    <2> QED
      BY <2>1, Zenon
  <1> QED
    BY <1>1, <1>2, <1>3

(* One case for each kind of step. *)
LEMMA BlockStep == ASSUME Types, BlockTried, [Next]_vars PROVE BlockTried'
  <1>1. ASSUME pc' # "generate", pc' # "push" PROVE BlockTried'
    BY <1>1, Zenon DEF BlockTried, GeneratedApplies
  <1>2. CASE (\E t \in Txs : push_transaction(t)) \/ push_without_effect \/ restored \/ switch_done
    <2>1. pc' \in {"idle", "popped"}
      BY <1>2, Zenon DEF push_transaction, push_without_effect, restored, switch_done
    <2> QED
      BY <2>1, <1>1
  <1>3. CASE accept_block
    <2>1. mine' = FALSE /\ pc' = "push"
      BY <1>3, Zenon DEF accept_block, without_pending
    <2>2. pc' # "generate"
      BY <2>1
    <2> QED
      BY <2>1, <2>2, Zenon DEF BlockTried, GeneratedApplies
  <1>4. CASE generate_push
    <2>1. pc' = "push" /\ block' = block /\ chain' = chain /\ pc = "generate"
      BY <1>4, Zenon DEF generate_push, without_pending
    <2>2. pc' # "generate" /\ BlockApplies(block)
      BY <2>1 DEF BlockTried
    <2>3. BlockApplies(block)'
      BY <2>1, <2>2, SameBlocks, Zenon
    <2> QED
      BY <2>2, <2>3, Zenon DEF BlockTried, GeneratedApplies
  <1>5. CASE \E b \in Received \cup {pending_block} : push_direct(b)
    <2>1. pc' = "popped"
      BY <1>5, Zenon DEF push_direct
    <2> QED
      BY <2>1, <1>1
  <1>6. CASE \/ switch_fails \/ switch_unwind \/ switch_restore \/ switch_pop
             \/ \E b \in Received : switch_apply(b)
    <2>1. pc' \in {"unwind", "popped", "pop", "apply"}
      BY <1>6, Zenon DEF switch_fails, switch_unwind, switch_restore, switch_pop, switch_apply
    <2> QED
      BY <2>1, <1>1
  <1>7. CASE restore_popped \/ restore_pending
    <2>1. pc' = "popped"
      BY <1>7, Zenon DEF restore_popped, restore_pending
    <2> QED
      BY <2>1, <1>1
  <1>8. ASSUME NEW r \in Rewards, generate_block(r) PROVE BlockTried'
    <2>1. /\ chain' = chain
          /\ \/ pc' = "generate" /\ block' = applied' /\ BlockApplies(block')
             \/ pc' = "idle"
      BY <1>8, Zenon DEF generate_block
    <2>2. CASE pc' = "idle"
      BY <2>2, <1>1
    <2>3. CASE pc' = "generate" /\ block' = applied' /\ BlockApplies(block')
      <3>1. BlockApplies(block)'
        BY <2>1, <2>3, SameBlocks, Zenon
      <3>2. pc' # "push"
        BY <2>3
      <3> QED
        BY <2>3, <3>1, <3>2, Zenon DEF BlockTried, GeneratedApplies
    <2> QED
      BY <2>1, <2>2, <2>3
  <1>9. CASE apply_pending_transactions
    <2>1. /\ chain' = chain /\ left # <<>> /\ pc = "generate" /\ pc' = pc
          /\ \/ block' = block /\ applied' = applied
             \/ /\ block' = Append(block, Head(left)) /\ applied' = Append(applied, Head(left))
                /\ Applies(Head(left), Top)
      BY <1>9, Zenon DEF apply_pending_transactions
    <2>2. block = applied /\ BlockApplies(block)
      BY <2>1, Zenon DEF BlockTried
    <2>3. Head(left) \in Txs /\ block \in Seq(Txs)
      BY <2>1, TxSeqs DEF Types
    <2>4. block' = applied' /\ BlockApplies(block')
      <3>1. CASE block' = block /\ applied' = applied
        BY <3>1, <2>2, Zenon
      <3>2. CASE block' = Append(block, Head(left)) /\ applied' = Append(applied, Head(left)) /\ Applies(Head(left), Top)
        BY <3>2, <2>2, <2>3, BlockGrows DEF Top
      <3> QED
        BY <2>1, <3>1, <3>2, Zenon
    <2>5. BlockApplies(block)'
      BY <2>1, <2>4, SameBlocks, Zenon
    <2>6. pc' # "push"
      BY <2>1
    <2> QED
      BY <2>4, <2>5, <2>6, Zenon DEF BlockTried, GeneratedApplies
  <1>10. CASE UNCHANGED vars
    <2>1. chain' = chain /\ block' = block /\ applied' = applied /\ pc' = pc /\ (mine' <=> mine)
      BY <1>10, Zenon DEF vars
    <2>2. BlockApplies(block) <=> BlockApplies(block)'
      BY <2>1, SameBlocks, Zenon
    <2> QED
      BY <2>1, <2>2, Zenon DEF BlockTried, GeneratedApplies
  <1> QED
    BY <1>2, <1>3, <1>4, <1>5, <1>6, <1>7, <1>8, <1>9, <1>10, Zenon DEF Next

-----------------------------------------------------------------------------
(* The flags and what a push owes.                                         *)

Flags == /\ open \in BOOLEAN /\ late \in BOOLEAN /\ mine \in BOOLEAN
         /\ rewarded \in BOOLEAN /\ hurried \in BOOLEAN

(* One case for each kind of step. *)
LEMMA FlagsStep == ASSUME Flags, [Next]_vars PROVE Flags'
  <1> USE DEF Flags
  <1>1. CASE \E t \in Txs : push_transaction(t)
    BY <1>1, Zenon DEF push_transaction
  <1>2. CASE accept_block \/ generate_push
    BY <1>2, Zenon DEF accept_block, generate_push, without_pending
  <1>3. CASE \E b \in Received \cup {pending_block} : push_direct(b)
    BY <1>3, Zenon DEF push_direct
  <1>4. CASE push_without_effect \/ restored \/ switch_done
    BY <1>4, Zenon DEF push_without_effect, restored, switch_done
  <1>5. CASE switch_pop
    BY <1>5, Zenon DEF switch_pop
  <1>6. CASE \E b \in Received : switch_apply(b)
    BY <1>6, Zenon DEF switch_apply
  <1>7. CASE switch_fails \/ switch_unwind
    BY <1>7, Zenon DEF switch_fails, switch_unwind
  <1>8. CASE switch_restore
    BY <1>8, Zenon DEF switch_restore
  <1>9. ASSUME NEW t, put_back(t), mine' = mine, rewarded' = rewarded PROVE Flags'
    BY <1>9, Zenon DEF put_back
  <1>10. CASE restore_popped \/ restore_pending
    BY <1>9, <1>10, Zenon DEF restore_popped, restore_pending
  <1>11. CASE \E r \in Rewards : generate_block(r)
    BY <1>11, Zenon DEF generate_block
  <1>12. CASE apply_pending_transactions
    BY <1>12, Zenon DEF apply_pending_transactions
  <1>13. CASE UNCHANGED vars
    BY <1>13, Zenon DEF vars
  <1> QED
    BY <1>1, <1>2, <1>3, <1>4, <1>5, <1>6, <1>7, <1>8, <1>10, <1>11, <1>12, <1>13, Zenon DEF Next

(* What is owed was pending, or in a block. *)
LEMMA OwedStep == ASSUME Types, SwitchKept, owed \subseteq Txs, [Next]_vars PROVE owed' \subseteq Txs
  <1>1. \/ owed' = owed \/ owed' = {} \/ owed' = Elements(pending)
        \/ owed' = owed \cup Elements(chain[Len(chain)].transactions) /\ chain # <<>>
    <2>1. CASE \E t \in Txs : push_transaction(t)
      BY <2>1, Zenon DEF push_transaction
    <2>2. CASE accept_block \/ generate_push
      BY <2>2, Zenon DEF accept_block, generate_push, without_pending
    <2>3. CASE \E b \in Received \cup {pending_block} : push_direct(b)
      BY <2>3, Zenon DEF push_direct
    <2>4. CASE push_without_effect \/ restored \/ switch_done
      BY <2>4, Zenon DEF push_without_effect, restored, switch_done
    <2>5. CASE switch_pop
      BY <2>5, Zenon DEF switch_pop, pop_block
    <2>6. CASE \E b \in Received : switch_apply(b)
      BY <2>6, Zenon DEF switch_apply
    <2>7. CASE switch_fails
      BY <2>7, Zenon DEF switch_fails
    <2>8. CASE switch_unwind
      <3>1. chain # <<>>
        BY <2>8 DEF switch_unwind, SwitchKept, Types
      <3> QED
        BY <2>8, <3>1, Zenon DEF switch_unwind, pop_block
    <2>9. CASE switch_restore
      BY <2>9, Zenon DEF switch_restore
    <2>10. CASE restore_popped \/ restore_pending
      BY <2>10, Zenon DEF restore_popped, restore_pending
    <2>11. CASE \E r \in Rewards : generate_block(r)
      BY <2>11, Zenon DEF generate_block
    <2>12. CASE apply_pending_transactions
      BY <2>12, Zenon DEF apply_pending_transactions
    <2>13. CASE UNCHANGED vars
      BY <2>13, Zenon DEF vars
    <2> QED
      BY <2>1, <2>2, <2>3, <2>4, <2>5, <2>6, <2>7, <2>8, <2>9, <2>10, <2>11, <2>12, <2>13, Zenon DEF Next
  <1>2. \A s \in Seq(Txs) : Elements(s) \subseteq Txs
    BY DEF Elements
  <1>3. chain # <<>> => chain[Len(chain)].transactions \in Seq(Txs)
    BY InBlock
  <1> QED
    BY <1>1, <1>2, <1>3 DEF Types

-----------------------------------------------------------------------------
(* The theorems.                                                           *)

(* The inductive invariant. *)
IInv == /\ Types /\ Stamped /\ Flags /\ owed \subseteq Txs
        /\ SessionAway /\ AppliedFresh /\ BlockTried /\ SwitchKept

(* At the start there is nothing. *)
LEMMA InitIInv == Init => IInv
  <1> SUFFICES ASSUME Init PROVE IInv
    OBVIOUS
  <1>1. /\ chain = <<>> /\ second = <<>> /\ fresh = 0 /\ pc = "idle" /\ applied = <<>> /\ pending = <<>>
        /\ popped = <<>> /\ waiting = <<>> /\ block = <<>> /\ left = <<>> /\ owed = {}
    BY Zenon DEF Init
  <1>2. Flags
    BY Zenon DEF Init, Flags
  <1>3. Types /\ Stamped
    <2>1. mine = FALSE /\ when = 0
      BY Zenon DEF Init
    <2>2. Types
      BY <1>1 DEF Types
    <2>3. Stamped
      BY <1>1, <2>1 DEF Stamped
    <2> QED
      BY <2>2, <2>3
  <1>4. SessionAway /\ AppliedFresh
    BY <1>1 DEF SessionAway, AppliedFresh, Elements
  <1>5. pc # "generate" /\ pc # "push"
    BY <1>1
  <1>6. BlockTried
    BY <1>5, Zenon DEF BlockTried, GeneratedApplies
  <1>7. Kept = 0 /\ Len(second) = 0 /\ Len(chain) = 0
    BY <1>1 DEF Kept
  <1>8. ValidTo(chain, Len(chain)) /\ ValidTo(Old, Kept + Len(second))
    BY <1>7 DEF ValidTo
  <1>9. SwitchKept
    BY <1>1, <1>7, <1>8 DEF SwitchKept
  <1> QED
    BY <1>1, <1>2, <1>3, <1>4, <1>6, <1>9, Zenon DEF IInv

(* Every part is kept. *)
LEMMA IInvStep == IInv /\ [Next]_vars => IInv'
  <1> SUFFICES ASSUME IInv, [Next]_vars PROVE IInv'
    OBVIOUS
  <1>1. Types /\ Stamped /\ Flags /\ owed \subseteq Txs /\ SessionAway /\ AppliedFresh /\ BlockTried /\ SwitchKept
    BY Zenon DEF IInv
  <1>2. Types' /\ Stamped'
    BY <1>1, TypesStep, StampedStep, Zenon
  <1>3. Flags'
    BY <1>1, FlagsStep, Zenon
  <1>4. owed' \subseteq Txs
    BY <1>1, OwedStep, Zenon
  <1>5. SessionAway' /\ AppliedFresh'
    BY <1>1, AwayStep, FreshStep, Zenon
  <1>6. BlockTried'
    BY <1>1, BlockStep, Zenon
  <1>7. SwitchKept'
    BY <1>1, SwitchStep, Zenon
  <1> QED
    BY <1>2, <1>3, <1>4, <1>5, <1>6, <1>7, Zenon DEF IInv

(* In a chain of blocks that applied a transaction is twice only with the  *)
(* time going back in between. *)
LEMMA ValidOnce == ASSUME Types, ValidTo(chain, Len(chain)), NEW p \in Places, NEW q \in Places,
                          At(p) = At(q), p # q, p[1] <= q[1]
                   PROVE  WentBack(At(p), p[1], q[1] - 1)
  <1>1. ASSUME NEW k \in 1 .. Len(chain), NEW i \in 1 .. Len(chain[k].transactions)
        PROVE  LET x == chain[k].transactions[i]
               IN  /\ x \notin {chain[k].transactions[j] : j \in 1 .. i - 1}
                   /\ \A l \in 1 .. k - 1 : x \in Elements(chain[l].transactions) => WentBack(x, l, k - 1)
    <2>0. chain[k].transactions \in Seq(Txs) /\ k - 1 \in 0 .. Len(chain)
      <3>1. chain[k].transactions \in Seq(Txs)
        BY InBlock
      <3>2. Len(chain) \in Nat
        BY DEF Types
      <3> QED
        BY <3>1, <3>2
    <2>1. chain[k].transactions \in Seq(Txs) /\ chain[k].transactions[i] \in Txs /\ k - 1 \in 0 .. Len(chain)
      BY <2>0
    <2>2. AppliesOn(chain[k].transactions[i], {chain[k].transactions[j] : j \in 1 .. i - 1}, chain, k - 1)
      BY DEF ValidTo, BlockOn
    <2> QED
      BY <2>1, <2>2, AppliesFresh
  <1>2. PICK k \in 1 .. Len(chain) : \E i \in 1 .. Len(chain[k].transactions) : p = <<k, i>>
    BY DEF Places
  <1>3. PICK i \in 1 .. Len(chain[k].transactions) : p = <<k, i>>
    BY <1>2
  <1>4. PICK l \in 1 .. Len(chain) : \E j \in 1 .. Len(chain[l].transactions) : q = <<l, j>>
    BY DEF Places
  <1>5. PICK j \in 1 .. Len(chain[l].transactions) : q = <<l, j>>
    BY <1>4
  <1>6. /\ chain[k].transactions[i] = chain[l].transactions[j] /\ At(p) = chain[l].transactions[j]
        /\ p[1] = k /\ q[1] = l /\ k <= l
    BY <1>3, <1>5 DEF At
  <1>7. Len(chain) \in Nat /\ Len(chain[k].transactions) \in Nat /\ Len(chain[l].transactions) \in Nat
    <2>1. chain[k].transactions \in Seq(Txs) /\ chain[l].transactions \in Seq(Txs) /\ chain \in Seq(Blocks)
      BY InBlock DEF Types
    <2> QED
      BY <2>1
  <1>8. CASE k < l
    <2>1. k \in 1 .. l - 1
      BY <1>7, <1>8
    <2>2. chain[l].transactions[j] \in Elements(chain[k].transactions)
      BY <1>6 DEF Elements
    <2>3. WentBack(chain[l].transactions[j], k, l - 1)
      BY <1>1, <2>1, <2>2
    <2> QED
      BY <1>6, <2>3
  <1>9. CASE k = l
    <2>1. ~ (i < j)
      <3> SUFFICES ASSUME i < j PROVE FALSE
        OBVIOUS
      <3>1. i \in 1 .. j - 1
        BY <1>7, <1>9
      <3> QED
        BY <3>1, <1>1, <1>6, <1>9
    <2>2. ~ (j < i)
      <3> SUFFICES ASSUME j < i PROVE FALSE
        OBVIOUS
      <3>1. j \in 1 .. i - 1
        BY <1>7, <1>9
      <3> QED
        BY <3>1, <1>1, <1>6, <1>9
    <2>3. i = j
      BY <1>7, <1>9, <2>1, <2>2
    <2> QED
      BY <1>3, <1>5, <1>9, <2>3
  <1> QED
    BY <1>6, <1>7, <1>8, <1>9

(* What the invariant says of the properties. *)
LEMMA IInvProperties == IInv => AppliedOnce /\ GeneratedApplies /\ RestoreApplies
  <1> SUFFICES ASSUME IInv PROVE AppliedOnce /\ GeneratedApplies /\ RestoreApplies
    OBVIOUS
  <1>1. Types /\ Stamped /\ Flags /\ owed \subseteq Txs /\ AppliedFresh /\ BlockTried /\ SwitchKept
    BY Zenon DEF IInv
  <1>2. NoTransactionTwice
    <2>1. ValidTo(chain, Len(chain))
      BY <1>1 DEF SwitchKept
    <2>2. \A p, q \in Places : At(p) = At(q) /\ p # q /\ p[1] <= q[1] => WentBack(At(p), p[1], q[1] - 1)
      BY <1>1, <2>1, ValidOnce
    <2>3. ASSUME NEW p \in Places, NEW i \in 1 .. Len(applied), At(p) = applied[i]
          PROVE  WentBack(At(p), p[1], Len(chain))
      <3>1. PICK k \in 1 .. Len(chain) : \E h \in 1 .. Len(chain[k].transactions) : p = <<k, h>>
        BY DEF Places
      <3>2. p[1] = k /\ At(p) \in Elements(chain[k].transactions)
        BY <3>1 DEF At, Elements
      <3> QED
        BY <1>1, <2>3, <3>2 DEF AppliedFresh
    <2> QED
      BY <1>1, <2>2, <2>3 DEF NoTransactionTwice, AppliedFresh
  <1>3. TypeOK
    <2>1. /\ chain \in Seq(Blocks) /\ second \in Seq(Blocks) /\ fresh \in Nat
          /\ {pending, applied, popped, waiting, block, left} \subseteq Seq(Txs)
          /\ pc \in {"idle", "push", "pop", "apply", "unwind", "popped", "generate"}
      BY <1>1 DEF Types
    <2>2. {open, late, mine, rewarded} \subseteq BOOLEAN /\ hurried \in BOOLEAN
      BY <1>1, Zenon DEF Flags
    <2> QED
      BY <1>1, <2>1, <2>2, Zenon DEF TypeOK, Stamped
  <1>4. RestoreApplies
    BY <1>1, OldApplies DEF RestoreApplies
  <1>5. GeneratedApplies
    BY <1>1, Zenon DEF BlockTried
  <1> QED
    BY <1>2, <1>3, <1>4, <1>5, Zenon DEF AppliedOnce

(* The invariant always holds. *)
LEMMA IInvAlways == Spec => []IInv
  BY InitIInv, IInvStep, PTL DEF Spec

(* A transaction takes effect twice, in two places of the chain or in one   *)
(* of them and the pending session, only when blocks between the two have   *)
(* carried a time after its expiration and then one before it; whatever is  *)
(* popped, restored or generated.  The code has no test that keeps time     *)
(* stamps from going back.                                                  *)
THEOREM AppliedOnceTheorem == Spec => []AppliedOnce
  <1>1. IInv => AppliedOnce
    BY IInvProperties, Zenon
  <1> QED
    BY <1>1, IInvAlways, PTL

(* A block that generate_block has made applies where it is pushed. *)
THEOREM GeneratedAppliesTheorem == Spec => []GeneratedApplies
  <1>1. IInv => GeneratedApplies
    BY IInvProperties, Zenon
  <1> QED
    BY <1>1, IInvAlways, PTL

(* After a failed switch every block that _maybe_switch_forks popped       *)
(* applies again, in the order in which it puts them back.                 *)
THEOREM RestoreAppliesTheorem == Spec => []RestoreApplies
  <1>1. IInv => RestoreApplies
    BY IInvProperties, Zenon
  <1> QED
    BY <1>1, IInvAlways, PTL
-----------------------------------------------------------------------------
(* Nothing is lost.  What the restorer has to put back is in an order in    *)
(* which everything comes after what it builds on, through pops and failed  *)
(* switches.  A transaction that does not apply when its turn comes cannot  *)
(* apply later, because what it builds on had its turn before.              *)

(* Every transaction of s builds on X and those before it. *)
OrdIn(s, X) == \A i \in 1 .. Len(s) : Needs[s[i]] \subseteq X \cup {s[j] : j \in 1 .. i - 1}

(* A transaction that need not be tried again. *)
SettledOn(t, top) == t \in InChain \cup top \/ (Len(chain) > PowUntil /\ t \in Pow) \/ ~ Applies(t, top)
Settled(t) == SettledOn(t, Top)

(* P has had its turn, and the rest of what is owed is in order. *)
Tried(P) ==
  /\ \A t \in P : Needs[t] \subseteq InChain \cup P /\ Settled(t)
  /\ OrdIn(popped, InChain \cup P)
  /\ OrdIn(waiting, (InChain \cup P) \cup Elements(popped))
  /\ owed \subseteq P \cup Elements(popped) \cup Elements(waiting)

Pushing == {"push", "pop", "apply", "unwind"}

(* Where the lists are empty. *)
Away == /\ pc \in {"idle", "generate"} => popped = <<>> /\ waiting = <<>>
        /\ pc \in Pushing => pending = <<>>

LostInv ==
  hurried = FALSE =>
    /\ OrdIn(pending, InChain)
    /\ pc \in {"idle", "popped"} => Elements(applied) \subseteq Elements(pending)
    /\ pc = "idle" => \A t \in owed : Settled(t)
    /\ pc \in Pushing => Tried({})
    /\ pc = "popped" => \E P \in SUBSET Txs : Tried(P)

LEMMA OrdMono == ASSUME NEW s, NEW X, NEW Y, OrdIn(s, X), X \subseteq Y PROVE OrdIn(s, Y)
  BY DEF OrdIn

LEMMA OrdEmpty == ASSUME NEW X PROVE OrdIn(<<>>, X) /\ Elements(<<>>) = {}
  BY DEF OrdIn, Elements

(* One that builds on what is there, at the end. *)
LEMMA OrdAppend == ASSUME NEW s \in Seq(Txs), NEW t \in Txs, NEW X, OrdIn(s, X),
                          Needs[t] \subseteq X \cup Elements(s)
                   PROVE  OrdIn(Append(s, t), X) /\ Elements(Append(s, t)) = Elements(s) \cup {t}
  <1> DEFINE n == Len(s)
             u == Append(s, t)
  <1>1. n \in Nat /\ Len(u) = n + 1 /\ u[n + 1] = t /\ \A i \in 1 .. n : u[i] = s[i]
    OBVIOUS
  <1> HIDE DEF n, u
  <1>2. Elements(s) = {s[i] : i \in 1 .. n}
    BY DEF Elements, n
  <1>3. Elements(u) = Elements(s) \cup {t}
    <2>1. Elements(u) = {u[i] : i \in 1 .. n + 1}
      BY <1>1 DEF Elements
    <2>2. \A i \in 1 .. n + 1 : i \in 1 .. n \/ i = n + 1
      BY <1>1
    <2>3. n + 1 \in 1 .. n + 1 /\ \A i \in 1 .. n : i \in 1 .. n + 1
      BY <1>1
    <2> QED
      BY <1>1, <1>2, <2>1, <2>2, <2>3
  <1>4. ASSUME NEW i \in 1 .. Len(u) PROVE Needs[u[i]] \subseteq X \cup {u[j] : j \in 1 .. i - 1}
    <2>1. CASE i = n + 1
      <3>1. {u[j] : j \in 1 .. i - 1} = Elements(s)
        BY <1>1, <1>2, <2>1
      <3> QED
        BY <1>1, <2>1, <3>1
    <2>2. CASE i \in 1 .. n
      <3>1. {u[j] : j \in 1 .. i - 1} = {s[j] : j \in 1 .. i - 1}
        BY <1>1, <2>2
      <3>2. Needs[s[i]] \subseteq X \cup {s[j] : j \in 1 .. i - 1}
        BY <2>2 DEF OrdIn, n
      <3> QED
        BY <1>1, <2>2, <3>1, <3>2
    <2> QED
      BY <1>1, <2>1, <2>2
  <1>5. OrdIn(u, X)
    BY <1>4 DEF OrdIn
  <1> QED
    BY <1>3, <1>5 DEF u

(* Two lists, one after the other. *)
LEMMA OrdCat == ASSUME NEW b \in Seq(Txs), NEW s \in Seq(Txs), NEW X, OrdIn(b, X),
                       OrdIn(s, X \cup Elements(b))
                PROVE  OrdIn(b \o s, X) /\ Elements(b \o s) = Elements(b) \cup Elements(s)
  <1> DEFINE n == Len(b)
             m == Len(s)
             u == b \o s
  <1>1. /\ n \in Nat /\ m \in Nat /\ Len(u) = n + m
        /\ \A i \in 1 .. n : u[i] = b[i]
        /\ \A i \in n + 1 .. n + m : u[i] = s[i - n]
    OBVIOUS
  <1>2. Elements(b) = {b[i] : i \in 1 .. n} /\ Elements(s) = {s[i] : i \in 1 .. m}
    BY DEF Elements
  <1> HIDE DEF n, m, u
  <1>3. \A i \in 1 .. m : i + n \in n + 1 .. n + m /\ u[i + n] = s[i]
    <2> SUFFICES ASSUME NEW i \in 1 .. m PROVE i + n \in n + 1 .. n + m /\ u[i + n] = s[i]
      OBVIOUS
    <2>1. i + n \in n + 1 .. n + m /\ (i + n) - n = i
      BY <1>1
    <2> QED
      BY <1>1, <2>1
  <1>4. Elements(u) = Elements(b) \cup Elements(s)
    <2>1. Elements(u) = {u[i] : i \in 1 .. n + m}
      BY <1>1 DEF Elements
    <2>2. ASSUME NEW x \in Elements(u) PROVE x \in Elements(b) \cup Elements(s)
      <3>1. PICK i \in 1 .. n + m : x = u[i]
        BY <2>1, <2>2
      <3>2. CASE i \in 1 .. n
        BY <1>1, <1>2, <3>1, <3>2
      <3>3. CASE i \in n + 1 .. n + m
        <4>1. i - n \in 1 .. m
          BY <1>1, <3>3
        <4> QED
          BY <1>1, <1>2, <3>1, <3>3, <4>1
      <3> QED
        BY <1>1, <3>2, <3>3
    <2>3. ASSUME NEW x \in Elements(b) \cup Elements(s) PROVE x \in Elements(u)
      <3>1. CASE x \in Elements(b)
        <4>1. PICK i \in 1 .. n : x = b[i]
          BY <1>2, <3>1
        <4>2. i \in 1 .. n + m /\ u[i] = x
          BY <1>1, <4>1
        <4> QED
          BY <2>1, <4>2
      <3>2. CASE x \in Elements(s)
        <4>1. PICK i \in 1 .. m : x = s[i]
          BY <1>2, <3>2
        <4>2. i + n \in 1 .. n + m /\ u[i + n] = x
          BY <1>1, <1>3, <4>1
        <4> QED
          BY <2>1, <4>2
      <3> QED
        BY <2>3, <3>1, <3>2
    <2> QED
      BY <2>2, <2>3
  <1>5. ASSUME NEW i \in 1 .. Len(u) PROVE Needs[u[i]] \subseteq X \cup {u[j] : j \in 1 .. i - 1}
    <2>1. CASE i \in 1 .. n
      <3>0. \A j \in 1 .. i - 1 : u[j] = b[j]
        <4> SUFFICES ASSUME NEW j \in 1 .. i - 1 PROVE u[j] = b[j]
          OBVIOUS
        <4>1. j \in 1 .. n
          BY <1>1, <2>1
        <4> QED
          BY <1>1, <4>1
      <3>1. {u[j] : j \in 1 .. i - 1} = {b[j] : j \in 1 .. i - 1}
        BY <3>0
      <3>2. Needs[b[i]] \subseteq X \cup {b[j] : j \in 1 .. i - 1}
        BY <2>1 DEF OrdIn, n
      <3> QED
        BY <1>1, <2>1, <3>1, <3>2
    <2>2. CASE i \in n + 1 .. n + m
      <3> DEFINE k == i - n
      <3>1. k \in 1 .. m /\ u[i] = s[k]
        BY <1>1, <2>2
      <3>2. Needs[s[k]] \subseteq (X \cup Elements(b)) \cup {s[j] : j \in 1 .. k - 1}
        BY <3>1 DEF OrdIn, m
      <3>3. Elements(b) \subseteq {u[j] : j \in 1 .. i - 1}
        <4> SUFFICES ASSUME NEW j \in 1 .. n PROVE \E h \in 1 .. i - 1 : b[j] = u[h]
          BY <1>2
        <4>1. j \in 1 .. i - 1
          BY <1>1, <2>2
        <4> QED
          BY <1>1, <4>1
      <3>4. {s[j] : j \in 1 .. k - 1} \subseteq {u[j] : j \in 1 .. i - 1}
        <4> SUFFICES ASSUME NEW j \in 1 .. k - 1 PROVE \E h \in 1 .. i - 1 : s[j] = u[h]
          OBVIOUS
        <4>1. j \in 1 .. m /\ j + n \in 1 .. i - 1
          BY <1>1, <2>2, <3>1
        <4> QED
          BY <1>3, <4>1
      <3> QED
        BY <3>1, <3>2, <3>3, <3>4
    <2> QED
      BY <1>1, <2>1, <2>2
  <1>6. OrdIn(u, X)
    BY <1>5 DEF OrdIn
  <1> QED
    BY <1>4, <1>6 DEF u

(* The first of a list, and the rest on top of it. *)
LEMMA OrdTail == ASSUME NEW s \in Seq(Txs), s # <<>>, NEW X, OrdIn(s, X)
                 PROVE  /\ Needs[Head(s)] \subseteq X
                        /\ OrdIn(Tail(s), X \cup {Head(s)})
                        /\ Elements(s) = {Head(s)} \cup Elements(Tail(s))
  <1> DEFINE n == Len(s)
             u == Tail(s)
  <1>1. n \in Nat \ {0} /\ Len(u) = n - 1 /\ Head(s) = s[1] /\ \A i \in 1 .. n - 1 : u[i] = s[i + 1]
    BY Rest
  <1> HIDE DEF n, u
  <1>2. Needs[s[1]] \subseteq X \cup {s[j] : j \in 1 .. 1 - 1}
    BY <1>1 DEF OrdIn, n
  <1>3. {s[j] : j \in 1 .. 1 - 1} = {}
    OBVIOUS
  <1>4. ASSUME NEW i \in 1 .. Len(u) PROVE Needs[u[i]] \subseteq (X \cup {s[1]}) \cup {u[j] : j \in 1 .. i - 1}
    <2>1. i + 1 \in 1 .. n /\ u[i] = s[i + 1]
      BY <1>1
    <2>2. Needs[s[i + 1]] \subseteq X \cup {s[j] : j \in 1 .. (i + 1) - 1}
      BY <2>1 DEF OrdIn, n
    <2>3. ASSUME NEW j \in 1 .. (i + 1) - 1 PROVE s[j] \in {s[1]} \cup {u[h] : h \in 1 .. i - 1}
      <3>1. CASE j = 1
        BY <3>1
      <3>2. CASE j # 1
        <4>1. j - 1 \in 1 .. i - 1 /\ j - 1 \in 1 .. n - 1 /\ (j - 1) + 1 = j
          BY <1>1, <2>1, <2>3, <3>2
        <4>2. u[j - 1] = s[j]
          BY <1>1, <4>1
        <4> QED
          BY <4>1, <4>2
      <3> QED
        BY <3>1, <3>2
    <2> QED
      BY <2>1, <2>2, <2>3
  <1>5. OrdIn(u, X \cup {s[1]})
    BY <1>4 DEF OrdIn
  <1>6. Elements(s) = {s[1]} \cup Elements(u)
    <2>1. Elements(s) = {s[i] : i \in 1 .. n} /\ Elements(u) = {u[i] : i \in 1 .. n - 1}
      BY <1>1 DEF Elements, n
    <2>2. ASSUME NEW i \in 1 .. n PROVE s[i] \in {s[1]} \cup Elements(u)
      <3>1. CASE i = 1
        BY <3>1
      <3>2. CASE i # 1
        <4>1. i - 1 \in 1 .. n - 1 /\ (i - 1) + 1 = i
          BY <1>1, <3>2
        <4> QED
          BY <1>1, <2>1, <4>1
      <3> QED
        BY <3>1, <3>2
    <2>3. \A i \in 1 .. n - 1 : u[i] \in Elements(s)
      <3> SUFFICES ASSUME NEW i \in 1 .. n - 1 PROVE u[i] \in Elements(s)
        OBVIOUS
      <3>1. i + 1 \in 1 .. n /\ u[i] = s[i + 1]
        BY <1>1
      <3> QED
        BY <2>1, <3>1
    <2>4. s[1] \in Elements(s)
      BY <1>1, <2>1
    <2> QED
      BY <2>1, <2>2, <2>3, <2>4
  <1> QED
    BY <1>1, <1>2, <1>3, <1>5, <1>6 DEF u

(* What is settled stays so when something else takes effect that it does  *)
(* not build on, or that is in effect already. *)
LEMMA SettledMore == ASSUME NEW t \in Txs, NEW top, NEW x, x \notin Needs[t] \/ x \in InChain \cup top,
                            SettledOn(t, top)
                     PROVE  SettledOn(t, top \cup {x})
  BY DEF SettledOn, Applies, Known

(* It is a question about the chain. *)
LEMMA SettledSame == ASSUME chain' = chain, NEW t, NEW top PROVE SettledOn(t, top)' <=> SettledOn(t, top)
  <1>1. InChain' = InChain /\ Now' = Now /\ Remembered' = Remembered
    BY DEF InChain, Now, Remembered
  <1> QED
    BY <1>1 DEF SettledOn, Applies, Known

(* A step that takes nothing out of the chain before the restorer starts. *)
LEMMA LostGrow ==
  ASSUME Types, Away, LostInv, SessionAway, pc \in Pushing, pc' \in Pushing \cup {"popped"},
         InChain \subseteq InChain', UNCHANGED <<pending, applied, popped, waiting, owed, hurried>>
  PROVE  LostInv'
  <1> SUFFICES ASSUME hurried = FALSE PROVE LostInv'
    BY DEF LostInv
  <1>1. pending' = <<>> /\ applied' = <<>> /\ Tried({})
    BY DEF Away, SessionAway, LostInv, Pushing
  <1>2. OrdIn(pending', InChain') /\ Elements(applied') \subseteq Elements(pending')
    BY <1>1, OrdEmpty
  <1>3. Tried({})'
    <2>1. /\ OrdIn(popped, InChain \cup {}) /\ OrdIn(waiting, (InChain \cup {}) \cup Elements(popped))
          /\ owed \subseteq {} \cup Elements(popped) \cup Elements(waiting)
      BY <1>1 DEF Tried
    <2>2. OrdIn(popped, InChain' \cup {}) /\ OrdIn(waiting, (InChain' \cup {}) \cup Elements(popped))
      BY <2>1, OrdMono
    <2> QED
      BY <2>1, <2>2 DEF Tried
  <1>4. {} \in SUBSET Txs /\ pc' # "idle"
    BY DEF Pushing
  <1> QED
    BY <1>2, <1>3, <1>4 DEF LostInv

(* The chain without its last block. *)
LEMMA ChainShrinks ==
  ASSUME Types, ValidTo(chain, Len(chain)), chain # <<>>, pop_block
  PROVE  LET b == chain[Len(chain)].transactions
         IN  b \in Seq(Txs) /\ InChain = InChain' \cup Elements(b) /\ OrdIn(b, InChain')
  <1> DEFINE n == Len(chain) - 1
             b == chain[Len(chain)].transactions
  <1>1. /\ Len(chain') = n /\ Len(chain) \in Nat \ {0} /\ \A k \in 1 .. n : chain'[k] = chain[k]
    BY Shrinks
  <1>2. n \in Nat /\ Len(chain) = n + 1 /\ b = chain[n + 1].transactions
    BY <1>1
  <1>3. b \in Seq(Txs)
    BY InBlock
  <1> HIDE DEF n, b
  <1>4. InChain' = UNION {Elements(chain[k].transactions) : k \in 1 .. n}
    BY <1>1 DEF InChain
  <1>5. InChain = UNION {Elements(chain[k].transactions) : k \in 1 .. n + 1}
    BY <1>2 DEF InChain
  <1>6. InChain = InChain' \cup Elements(b)
    <2>1. \A k \in 1 .. n + 1 : k \in 1 .. n \/ k = n + 1
      BY <1>2
    <2>2. n + 1 \in 1 .. n + 1 /\ \A k \in 1 .. n : k \in 1 .. n + 1
      BY <1>2
    <2> QED
      BY <1>2, <1>4, <1>5, <2>1, <2>2
  <1>7. BlockOn(b, chain, n)
    <2>1. n + 1 \in 1 .. Len(chain) /\ (n + 1) - 1 = n
      BY <1>2
    <2> QED
      BY <1>2, <2>1 DEF ValidTo
  <1>8. OrdIn(b, InChain')
    BY <1>4, <1>7 DEF BlockOn, AppliesOn, OrdIn, InTo
  <1> QED
    BY <1>3, <1>6, <1>8 DEF b

(* A block is popped, and its transactions go to the front. *)
LEMMA LostPop ==
  ASSUME Types, Away, LostInv, SwitchKept, chain # <<>>, pop_block, pc \in Pushing, pc' \in Pushing,
         UNCHANGED <<pending, waiting, hurried>>
  PROVE  LostInv'
  <1> SUFFICES ASSUME hurried = FALSE PROVE LostInv'
    BY DEF LostInv
  <1> DEFINE b == chain[Len(chain)].transactions
  <1>1. /\ popped' = b \o popped /\ owed' = owed \cup Elements(b)
        /\ b \in Seq(Txs) /\ InChain = InChain' \cup Elements(b) /\ OrdIn(b, InChain')
    BY ChainShrinks DEF pop_block, SwitchKept
  <1>2. Tried({}) /\ pending' = <<>> /\ popped \in Seq(Txs)
    BY DEF LostInv, Away, Types
  <1> HIDE DEF b
  <1>3. /\ OrdIn(popped, InChain \cup {}) /\ OrdIn(waiting, (InChain \cup {}) \cup Elements(popped))
        /\ owed \subseteq {} \cup Elements(popped) \cup Elements(waiting)
    BY <1>2 DEF Tried
  <1>4. OrdIn(popped', InChain') /\ Elements(popped') = Elements(b) \cup Elements(popped)
    <2>1. InChain \cup {} = InChain' \cup Elements(b)
      BY <1>1
    <2>2. OrdIn(popped, InChain' \cup Elements(b))
      BY <1>3, <2>1
    <2> QED
      BY <1>1, <1>2, <2>2, OrdCat
  <1>5. OrdIn(waiting, (InChain' \cup {}) \cup Elements(popped'))
    <2>1. (InChain \cup {}) \cup Elements(popped) = (InChain' \cup {}) \cup Elements(popped')
      BY <1>1, <1>4
    <2> QED
      BY <1>3, <2>1
  <1>6. Tried({})'
    <2>1. InChain' = InChain' \cup {}
      OBVIOUS
    <2>2. OrdIn(popped', InChain' \cup {})
      BY <1>4, <2>1
    <2>3. owed' \subseteq {} \cup Elements(popped') \cup Elements(waiting)
      BY <1>1, <1>3, <1>4
    <2> QED
      BY <1>5, <2>2, <2>3 DEF Tried
  <1>7. OrdIn(pending', InChain')
    BY <1>2, OrdEmpty
  <1>8. pc' \notin {"idle", "popped"}
    BY DEF Pushing
  <1> QED
    BY <1>6, <1>7, <1>8 DEF LostInv

(* The restorer is made, with what is pending. *)
LEMMA LostAway ==
  ASSUME Types, Away, LostInv, pc \in {"idle", "generate"}, NEW own, without_pending(own)
  PROVE  LostInv'
  <1>0. /\ waiting' = pending /\ pending' = <<>> /\ pc' = "push" /\ owed' = Elements(pending)
        /\ popped' = popped /\ chain' = chain /\ hurried' = hurried
    BY Zenon DEF without_pending
  <1> SUFFICES ASSUME hurried = FALSE PROVE LostInv'
    BY <1>0 DEF LostInv
  <1>1. popped' = <<>> /\ InChain' = InChain
    BY <1>0 DEF Away, InChain
  <1>2. OrdIn(pending, InChain)
    BY DEF LostInv
  <1>3. Tried({})'
    <2>1. InChain \subseteq (InChain \cup {}) \cup Elements(<<>>)
      OBVIOUS
    <2>2. OrdIn(pending, (InChain \cup {}) \cup Elements(<<>>))
      BY <1>2, <2>1, OrdMono
    <2>3. OrdIn(<<>>, InChain \cup {})
      BY OrdEmpty
    <2> QED
      BY <1>0, <1>1, <2>2, <2>3 DEF Tried
  <1>4. OrdIn(pending', InChain')
    BY <1>0, OrdEmpty
  <1> QED
    BY <1>0, <1>3, <1>4 DEF LostInv

(* A transaction has its turn. *)
LEMMA PutBackSettles ==
  ASSUME Types, NEW P \in SUBSET Txs, NEW t \in Txs, put_back(t), chain' = chain,
         hurried' = FALSE, OrdIn(pending, InChain), Elements(applied) \subseteq Elements(pending),
         \A x \in P : Needs[x] \subseteq InChain \cup P /\ Settled(x), Needs[t] \subseteq InChain \cup P
  PROVE  /\ OrdIn(pending', InChain') /\ Elements(applied') \subseteq Elements(pending')
         /\ \A x \in P \cup {t} : Needs[x] \subseteq InChain' \cup (P \cup {t}) /\ Settled(x)'
  <1>1. InChain' = InChain
    BY DEF InChain
  <1>2. \/ Ignored(t) /\ UNCHANGED <<pending, applied>>
        \/ ~ Applies(t, Top) /\ UNCHANGED <<pending, applied>>
        \/ ~ Ignored(t) /\ Applies(t, Top) /\ pending' = Append(pending, t) /\ applied' = Append(applied, t)
    BY Zenon DEF put_back
  <1>3. \A x \in P \cup {t} : Needs[x] \subseteq InChain' \cup (P \cup {t})
    BY <1>1
  <1>4. CASE UNCHANGED <<pending, applied>> /\ (Ignored(t) \/ ~ Applies(t, Top))
    <2>1. Top' = Top
      BY <1>4 DEF Top
    <2>2. Settled(t)
      <3>1. CASE ~ Applies(t, Top)
        BY <3>1 DEF Settled, SettledOn
      <3>2. CASE Ignored(t)
        BY <3>2 DEF Ignored, Known, Remembered, Settled, SettledOn
      <3> QED
        BY <1>4, <3>1, <3>2
    <2>3. \A x \in P \cup {t} : Settled(x)'
      <3>1. \A x \in P \cup {t} : SettledOn(x, Top)
        BY <2>2 DEF Settled
      <3> QED
        BY <2>1, <3>1, SettledSame DEF Settled
    <2> QED
      BY <1>1, <1>3, <1>4, <2>3
  <1>5. CASE /\ ~ Ignored(t) /\ Applies(t, Top)
             /\ pending' = Append(pending, t) /\ applied' = Append(applied, t)
    <2>1. Top = Elements(applied)
      BY DEF Top
    <2>2. Needs[t] \subseteq InChain \cup Top
      BY <1>5 DEF Applies
    <2>3. Elements(applied') = Elements(applied) \cup {t}
      <3>1. applied \in Seq(Txs) /\ OrdIn(applied, Txs)
        BY TxsAssumption DEF Types, OrdIn
      <3>2. Needs[t] \subseteq Txs \cup Elements(applied)
        BY TxsAssumption
      <3> QED
        BY <1>5, <3>1, <3>2, OrdAppend
    <2>4. Top' = Top \cup {t}
      BY <2>3 DEF Top
    <2>5. OrdIn(pending', InChain) /\ Elements(pending') = Elements(pending) \cup {t}
      <3>1. pending \in Seq(Txs) /\ Needs[t] \subseteq InChain \cup Elements(pending)
        BY <2>1, <2>2 DEF Types
      <3> QED
        BY <1>5, <3>1, OrdAppend
    <2>6. t \in P => t \in InChain \cup Top
      <3> SUFFICES ASSUME t \in P PROVE t \in InChain \cup Top
        OBVIOUS
      <3>1. SettledOn(t, Top)
        BY DEF Settled
      <3>2. ~ (Len(chain) > PowUntil /\ t \in Pow)
        BY <1>5 DEF Ignored
      <3> QED
        BY <1>5, <3>1, <3>2 DEF SettledOn
    <2>7. ASSUME NEW x \in P \cup {t} PROVE Settled(x)'
      <3>1. SettledOn(x, Top \cup {t})
        <4>1. CASE x = t
          BY <4>1 DEF SettledOn
        <4>2. CASE x \in P
          <5>1. /\ t \notin Needs[x] \/ t \in InChain \cup Top
                /\ SettledOn(x, Top) /\ x \in Txs
            BY <2>6, <4>2 DEF Settled
          <5> QED
            BY <5>1, SettledMore
        <4> QED
          BY <4>1, <4>2
      <3> QED
        BY <2>4, <3>1, SettledSame DEF Settled
    <2> QED
      BY <1>1, <1>3, <2>3, <2>5, <2>7
  <1> QED
    BY <1>2, <1>4, <1>5

(* The restorer's two loops. *)
LEMMA LostPopped == ASSUME Types, LostInv, restore_popped PROVE LostInv'
  <1>0. /\ pc = "popped" /\ pc' = pc /\ popped # <<>> /\ put_back(Head(popped)) /\ popped' = Tail(popped)
        /\ chain' = chain /\ waiting' = waiting /\ owed' = owed
    BY Zenon DEF restore_popped
  <1>1. hurried' = FALSE => hurried = FALSE
    BY <1>0, Zenon DEF put_back
  <1> SUFFICES ASSUME hurried' = FALSE PROVE LostInv'
    BY DEF LostInv
  <1>2. /\ OrdIn(pending, InChain) /\ Elements(applied) \subseteq Elements(pending)
        /\ \E P \in SUBSET Txs : Tried(P)
    BY <1>0, <1>1 DEF LostInv
  <1>3. PICK P \in SUBSET Txs : Tried(P)
    BY <1>2
  <1>0a. PICK t : t = Head(popped)
    OBVIOUS
  <1> DEFINE Q == P \cup {t}
  <1>4. popped \in Seq(Txs) /\ t \in Txs /\ InChain' = InChain
    BY <1>0, <1>0a DEF Types, InChain
  <1>5. /\ \A x \in P : Needs[x] \subseteq InChain \cup P /\ Settled(x)
        /\ OrdIn(popped, InChain \cup P) /\ OrdIn(waiting, (InChain \cup P) \cup Elements(popped))
        /\ owed \subseteq P \cup Elements(popped) \cup Elements(waiting)
    BY <1>3 DEF Tried
  <1>6. /\ Needs[t] \subseteq InChain \cup P /\ OrdIn(popped', (InChain \cup P) \cup {t})
        /\ Elements(popped) = {t} \cup Elements(popped')
    BY <1>0, <1>0a, <1>4, <1>5, OrdTail
  <1>7. /\ OrdIn(pending', InChain') /\ Elements(applied') \subseteq Elements(pending')
        /\ \A x \in Q : Needs[x] \subseteq InChain' \cup Q /\ Settled(x)'
    <2>1. put_back(t)
      BY <1>0, <1>0a
    <2> QED
      BY <1>0, <1>2, <1>4, <1>5, <1>6, <2>1, PutBackSettles
  <1>8. Tried(Q)'
    <2>1. /\ (InChain \cup P) \cup {t} = InChain' \cup Q
          /\ (InChain \cup P) \cup Elements(popped) = (InChain' \cup Q) \cup Elements(popped')
      BY <1>4, <1>6
    <2>2. OrdIn(popped', InChain' \cup Q) /\ OrdIn(waiting', (InChain' \cup Q) \cup Elements(popped'))
      BY <1>0, <1>5, <1>6, <2>1
    <2>3. owed' \subseteq Q \cup Elements(popped') \cup Elements(waiting')
      BY <1>0, <1>5, <1>6
    <2> HIDE DEF Q
    <2> QED
      BY <1>7, <2>2, <2>3 DEF Tried
  <1>9. Q \in SUBSET Txs
    BY <1>4
  <1> HIDE DEF Q
  <1>10. pc' = "popped" /\ pc' \notin Pushing /\ pc' # "idle"
    BY <1>0 DEF Pushing
  <1> QED
    BY <1>7, <1>8, <1>9, <1>10 DEF LostInv

LEMMA LostWaiting == ASSUME Types, LostInv, restore_pending PROVE LostInv'
  <1>0. /\ pc = "popped" /\ pc' = pc /\ waiting # <<>> /\ put_back(Head(waiting)) /\ waiting' = Tail(waiting)
        /\ chain' = chain /\ popped = <<>> /\ popped' = popped /\ owed' = owed
    BY Zenon DEF restore_pending
  <1>1. hurried' = FALSE => hurried = FALSE
    BY <1>0, Zenon DEF put_back
  <1> SUFFICES ASSUME hurried' = FALSE PROVE LostInv'
    BY DEF LostInv
  <1>2. /\ OrdIn(pending, InChain) /\ Elements(applied) \subseteq Elements(pending)
        /\ \E P \in SUBSET Txs : Tried(P)
    BY <1>0, <1>1 DEF LostInv
  <1>3. PICK P \in SUBSET Txs : Tried(P)
    BY <1>2
  <1>0a. PICK t : t = Head(waiting)
    OBVIOUS
  <1> DEFINE Q == P \cup {t}
  <1>4. waiting \in Seq(Txs) /\ t \in Txs /\ InChain' = InChain /\ Elements(popped) = {} /\ Elements(popped') = {}
    <2>1. waiting \in Seq(Txs) /\ t \in Txs /\ InChain' = InChain
      BY <1>0, <1>0a DEF Types, InChain
    <2>2. Elements(popped) = {} /\ Elements(popped') = {}
      BY <1>0, OrdEmpty
    <2> QED
      BY <2>1, <2>2
  <1>5. /\ \A x \in P : Needs[x] \subseteq InChain \cup P /\ Settled(x)
        /\ OrdIn(waiting, (InChain \cup P) \cup Elements(popped))
        /\ owed \subseteq P \cup Elements(popped) \cup Elements(waiting)
    BY <1>3 DEF Tried
  <1>6. /\ Needs[t] \subseteq InChain \cup P /\ OrdIn(waiting', (InChain \cup P) \cup {t})
        /\ Elements(waiting) = {t} \cup Elements(waiting')
    <2>1. OrdIn(waiting, InChain \cup P)
      BY <1>4, <1>5, OrdMono
    <2> QED
      BY <1>0, <1>0a, <1>4, <2>1, OrdTail
  <1>7. /\ OrdIn(pending', InChain') /\ Elements(applied') \subseteq Elements(pending')
        /\ \A x \in Q : Needs[x] \subseteq InChain' \cup Q /\ Settled(x)'
    <2>1. put_back(t)
      BY <1>0, <1>0a
    <2> QED
      BY <1>0, <1>2, <1>4, <1>5, <1>6, <2>1, PutBackSettles
  <1>8. Tried(Q)'
    <2>1. (InChain \cup P) \cup {t} = (InChain' \cup Q) \cup Elements(popped')
      BY <1>4
    <2>2. OrdIn(popped', InChain' \cup Q) /\ OrdIn(waiting', (InChain' \cup Q) \cup Elements(popped'))
      BY <1>0, <1>6, <2>1, OrdEmpty
    <2>3. owed' \subseteq Q \cup Elements(popped') \cup Elements(waiting')
      BY <1>0, <1>4, <1>5, <1>6
    <2> HIDE DEF Q
    <2> QED
      BY <1>7, <2>2, <2>3 DEF Tried
  <1>9. Q \in SUBSET Txs
    BY <1>4
  <1> HIDE DEF Q
  <1>10. pc' = "popped" /\ pc' \notin Pushing /\ pc' # "idle"
    BY <1>0 DEF Pushing
  <1> QED
    BY <1>7, <1>8, <1>9, <1>10 DEF LostInv

(* All have had their turn. *)
LEMMA LostRestored == ASSUME Types, LostInv, restored PROVE LostInv'
  <1>0. /\ pc = "popped" /\ pc' = "idle" /\ popped = <<>> /\ waiting = <<>>
        /\ UNCHANGED <<chain, pending, applied, owed, hurried>>
    BY Zenon DEF restored
  <1> SUFFICES ASSUME hurried = FALSE PROVE LostInv'
    BY <1>0 DEF LostInv
  <1>1. OrdIn(pending, InChain) /\ Elements(applied) \subseteq Elements(pending) /\ \E P \in SUBSET Txs : Tried(P)
    BY <1>0 DEF LostInv
  <1>2. PICK P \in SUBSET Txs : Tried(P)
    BY <1>1
  <1>3. owed \subseteq P /\ \A t \in P : Settled(t)
    BY <1>0, <1>2, OrdEmpty DEF Tried
  <1>4. InChain' = InChain /\ Top' = Top
    BY <1>0 DEF InChain, Top
  <1>5. \A t \in owed' : Settled(t)'
    <2>1. \A t \in owed : SettledOn(t, Top)
      BY <1>3 DEF Settled
    <2> QED
      BY <1>0, <1>4, <2>1, SettledSame DEF Settled
  <1>6. pc' \notin Pushing
    BY <1>0 DEF Pushing
  <1> QED
    BY <1>0, <1>1, <1>4, <1>5, <1>6 DEF LostInv

(* A transaction arrives. *)
LEMMA LostPush == ASSUME Types, LostInv, NEW t \in Txs, push_transaction(t) PROVE LostInv'
  <1>0. /\ pc = "idle" /\ pc' = "idle" /\ owed' = {} /\ chain' = chain /\ hurried' = hurried
        /\ \/ Applies(t, Top) /\ pending' = Append(pending, t) /\ applied' = Append(applied, t)
           \/ UNCHANGED <<pending, applied>>
    BY Zenon DEF push_transaction
  <1> SUFFICES ASSUME hurried = FALSE PROVE LostInv'
    BY <1>0 DEF LostInv
  <1>1. OrdIn(pending, InChain) /\ Elements(applied) \subseteq Elements(pending)
    BY <1>0 DEF LostInv
  <1>2. InChain' = InChain
    BY <1>0 DEF InChain
  <1>3. OrdIn(pending', InChain') /\ Elements(applied') \subseteq Elements(pending')
    <2>1. CASE UNCHANGED <<pending, applied>>
      BY <1>1, <1>2, <2>1
    <2>2. CASE Applies(t, Top) /\ pending' = Append(pending, t) /\ applied' = Append(applied, t)
      <3>1. Needs[t] \subseteq InChain \cup Elements(applied)
        BY <2>2 DEF Applies, Top
      <3>2. pending \in Seq(Txs) /\ applied \in Seq(Txs) /\ OrdIn(applied, Txs) /\ Needs[t] \subseteq Txs
        BY TxsAssumption DEF Types, OrdIn
      <3>3. OrdIn(pending', InChain) /\ Elements(pending') = Elements(pending) \cup {t}
        BY <1>1, <2>2, <3>1, <3>2, OrdAppend
      <3>4. Elements(applied') = Elements(applied) \cup {t}
        BY <2>2, <3>2, OrdAppend
      <3> QED
        BY <1>1, <1>2, <3>3, <3>4
    <2> QED
      BY <1>0, <2>1, <2>2
  <1>4. pc' \notin Pushing
    BY <1>0 DEF Pushing
  <1> QED
    BY <1>0, <1>3, <1>4 DEF LostInv

(* The producer leaves what is pending alone. *)
LEMMA LostGenerate ==
  ASSUME LostInv, pc \in {"idle", "generate"}, UNCHANGED <<chain, pending, hurried>>,
         \/ pc' = "generate"
         \/ pc' = "idle" /\ applied' = <<>> /\ owed' = {}
  PROVE  LostInv'
  <1>1. InChain' = InChain /\ pc' \notin Pushing /\ Elements(<<>>) = {}
    BY OrdEmpty DEF InChain, Pushing
  <1> QED
    BY <1>1 DEF LostInv

LEMMA LostSame ==
  ASSUME LostInv, UNCHANGED <<chain, pending, applied, popped, waiting, owed, hurried, pc>>
  PROVE  LostInv'
  <1>1. InChain' = InChain /\ Top' = Top
    BY DEF InChain, Top
  <1>2. \A t : Settled(t)' <=> Settled(t)
    BY <1>1, SettledSame DEF Settled
  <1>3. \A P \in SUBSET Txs : Tried(P)' <=> Tried(P)
    BY <1>1, <1>2 DEF Tried
  <1>4. Tried({})' <=> Tried({})
    BY <1>3
  <1> QED
    BY <1>1, <1>2, <1>3, <1>4 DEF LostInv

(* The chain grows by a block. *)
LEMMA ChainGrows == ASSUME Types, NEW b, chain' = Append(chain, b) \/ chain' = chain
                    PROVE  InChain \subseteq InChain'
  <1> SUFFICES ASSUME chain' = Append(chain, b) PROVE InChain \subseteq InChain'
    BY DEF InChain
  <1>1. /\ Len(chain) \in Nat /\ Len(chain') = Len(chain) + 1
        /\ \A k \in 1 .. Len(chain) : chain'[k] = chain[k] /\ k \in 1 .. Len(chain')
    BY DEF Types
  <1> QED
    BY <1>1 DEF InChain

LEMMA AwayKept == ASSUME Types, Away, [Next]_vars PROVE Away'
  <1>1. CASE \E t \in Txs : push_transaction(t)
    <2>1. pc = "idle" /\ pc' = pc /\ UNCHANGED <<popped, waiting>>
      BY <1>1, Zenon DEF push_transaction
    <2> QED
      BY <2>1 DEF Away, Pushing
  <1>2. CASE accept_block \/ generate_push
    <2>1. pc' = "push" /\ pending' = <<>>
      BY <1>2, Zenon DEF accept_block, generate_push, without_pending
    <2> QED
      BY <2>1 DEF Away
  <1>3. CASE \/ \E b \in Received \cup {pending_block} : push_direct(b)
             \/ push_without_effect \/ switch_pop \/ switch_done \/ switch_fails \/ switch_unwind
             \/ switch_restore \/ \E b \in Received : switch_apply(b)
    <2>1. pc \in Pushing /\ pc' \in Pushing \cup {"popped"} /\ pending' = pending
      <3>1. CASE \E b \in Received \cup {pending_block} : push_direct(b)
        BY <3>1 DEF push_direct, Pushing
      <3>2. CASE push_without_effect
        BY <3>2 DEF push_without_effect, Pushing
      <3>3. CASE switch_pop
        BY <3>3 DEF switch_pop, Pushing
      <3>4. CASE switch_done
        BY <3>4 DEF switch_done, Pushing
      <3>5. CASE switch_fails
        BY <3>5 DEF switch_fails, Pushing
      <3>6. CASE switch_unwind
        BY <3>6 DEF switch_unwind, Pushing
      <3>7. CASE switch_restore
        BY <3>7 DEF switch_restore, Pushing
      <3>8. CASE \E b \in Received : switch_apply(b)
        BY <3>8 DEF switch_apply, Pushing
      <3> QED
        BY <1>3, <3>1, <3>2, <3>3, <3>4, <3>5, <3>6, <3>7, <3>8
    <2> QED
      BY <2>1 DEF Away, Pushing
  <1>4. CASE restore_popped \/ restore_pending
    <2>1. pc' = "popped"
      BY <1>4, Zenon DEF restore_popped, restore_pending
    <2> QED
      BY <2>1 DEF Away, Pushing
  <1>5. CASE restored
    <2>1. pc' = "idle" /\ popped' = <<>> /\ waiting' = <<>>
      BY <1>5, Zenon DEF restored
    <2> QED
      BY <2>1 DEF Away, Pushing
  <1>6. CASE apply_pending_transactions \/ \E r \in Rewards : generate_block(r)
    <2>1. pc \in {"idle", "generate"} /\ pc' \in {"idle", "generate"} /\ UNCHANGED <<popped, waiting>>
      <3>1. CASE apply_pending_transactions
        BY <3>1 DEF apply_pending_transactions
      <3>2. CASE \E r \in Rewards : generate_block(r)
        BY <3>2 DEF generate_block
      <3> QED
        BY <1>6, <3>1, <3>2
    <2> QED
      BY <2>1 DEF Away, Pushing
  <1>7. CASE UNCHANGED vars
    BY <1>7 DEF vars, Away
  <1> QED
    BY <1>1, <1>2, <1>3, <1>4, <1>5, <1>6, <1>7, Zenon DEF Next

LEMMA LostStep == ASSUME IInv, Away, LostInv, [Next]_vars PROVE LostInv'
  <1>0. Types /\ SessionAway /\ SwitchKept
    BY Zenon DEF IInv
  <1>1. CASE \E t \in Txs : push_transaction(t)
    BY <1>0, <1>1, LostPush
  <1>2. CASE accept_block \/ generate_push
    <2>1. pc \in {"idle", "generate"} /\ \E own \in BOOLEAN : without_pending(own)
      BY <1>2, Zenon DEF accept_block, generate_push
    <2> QED
      BY <1>0, <2>1, LostAway
  <1>3. ASSUME NEW b, push_direct(b) \/ switch_apply(b) PROVE LostInv'
    <2>1. /\ pc \in Pushing /\ pc' \in Pushing \cup {"popped"} /\ chain' = Append(chain, b)
          /\ UNCHANGED <<pending, applied, popped, waiting, owed, hurried>>
      <3>1. CASE push_direct(b)
        BY <3>1, Zenon DEF push_direct, Applied, Pushing
      <3>2. CASE switch_apply(b)
        BY <3>2, Zenon DEF switch_apply, Applied, Pushing
      <3> QED
        BY <1>3, <3>1, <3>2
    <2> QED
      BY <1>0, <2>1, ChainGrows, LostGrow
  <1>4. CASE push_without_effect \/ switch_done \/ switch_fails
    <2>1. /\ pc \in Pushing /\ pc' \in Pushing \cup {"popped"} /\ chain' = chain
          /\ UNCHANGED <<pending, applied, popped, waiting, owed, hurried>>
      BY <1>4, Zenon DEF push_without_effect, switch_done, switch_fails, Pushing
    <2> QED
      BY <1>0, <2>1, ChainGrows, LostGrow
  <1>5. CASE switch_restore
    <2>1. /\ pc \in Pushing /\ pc' \in Pushing \cup {"popped"} /\ chain' = Append(chain, Head(second))
          /\ UNCHANGED <<pending, applied, popped, waiting, owed, hurried>>
      BY <1>5, Zenon DEF switch_restore, Pushing
    <2> QED
      BY <1>0, <2>1, ChainGrows, LostGrow
  <1>6. CASE switch_pop \/ switch_unwind
    <2>1. /\ pc \in Pushing /\ pc' \in Pushing /\ pop_block /\ UNCHANGED <<pending, waiting, hurried>>
      BY <1>6, Zenon DEF switch_pop, switch_unwind, Pushing
    <2>2. chain # <<>>
      <3>1. CASE switch_pop
        BY <3>1, Zenon DEF switch_pop
      <3>2. CASE switch_unwind
        BY <1>0, <3>2 DEF switch_unwind, SwitchKept, Types
      <3> QED
        BY <1>6, <3>1, <3>2
    <2> QED
      BY <1>0, <2>1, <2>2, LostPop
  <1>7. CASE restore_popped \/ restore_pending \/ restored
    BY <1>0, <1>7, LostPopped, LostWaiting, LostRestored
  <1>8. CASE \E r \in Rewards : generate_block(r)
    <2>1. /\ pc \in {"idle", "generate"} /\ UNCHANGED <<chain, pending, hurried>>
          /\ pc' = "generate" \/ (pc' = "idle" /\ applied' = <<>> /\ owed' = {})
      BY <1>8, Zenon DEF generate_block
    <2> QED
      BY <2>1, LostGenerate
  <1>9. CASE apply_pending_transactions
    <2>1. pc \in {"idle", "generate"} /\ UNCHANGED <<chain, pending, hurried>> /\ pc' = "generate"
      BY <1>9, Zenon DEF apply_pending_transactions
    <2> QED
      BY <2>1, LostGenerate
  <1>10. CASE UNCHANGED vars
    <2>1. UNCHANGED <<chain, pending, applied, popped, waiting, owed, hurried, pc>>
      BY <1>10, Zenon DEF vars
    <2> QED
      BY <2>1, LostSame
  <1> QED
    BY <1>1, <1>2, <1>3, <1>4, <1>5, <1>6, <1>7, <1>8, <1>9, <1>10, Zenon DEF Next

LEMMA LostFollows == IInv /\ LostInv => NothingLost
  <1> SUFFICES ASSUME IInv, LostInv, pc = "idle", ~ hurried, NEW t \in owed
               PROVE  t \in InChain \cup Elements(pending) \cup Pow \/ ~ Applies(t, Top)
    BY Zenon DEF NothingLost
  <1>1. hurried = FALSE /\ owed \subseteq Txs
    BY Zenon DEF IInv, Flags
  <1>2. Elements(applied) \subseteq Elements(pending) /\ Settled(t)
    BY <1>1 DEF LostInv
  <1>3. t \in Txs
    BY <1>1
  <1> QED
    BY <1>2, <1>3 DEF Settled, SettledOn, Top

(* A push loses no transaction: what was pending or in a block that was    *)
(* popped is in the chain or pending again, unless it does not apply to    *)
(* what the push has led to or is a pow, for any fork switch, also one     *)
(* that fails and is taken back.                                           *)
THEOREM NothingLostTheorem == Spec => []NothingLost
  <1>1. Init => Away /\ LostInv
    <2> SUFFICES ASSUME Init PROVE Away /\ LostInv
      OBVIOUS
    <2>1. pc = "idle" /\ pending = <<>> /\ applied = <<>> /\ popped = <<>> /\ waiting = <<>> /\ owed = {}
      BY Zenon DEF Init
    <2> QED
      BY <2>1, OrdEmpty DEF Away, LostInv, Pushing
  <1>2. IInv /\ Away /\ LostInv /\ [Next]_vars => Away' /\ LostInv'
    <2>1. IInv => Types
      BY Zenon DEF IInv
    <2> QED
      BY <2>1, AwayKept, LostStep
  <1> QED
    BY <1>1, <1>2, LostFollows, IInvAlways, PTL DEF Spec
=============================================================================
