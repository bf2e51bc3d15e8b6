----------------------------- MODULE Evaluators -----------------------------
(***************************************************************************)
(* Blocks of operations: what Ledger, Comments, Authorities and KeyLookups *)
(* do in any order, and the end of each block.  They share the wallets and *)
(* the time of the head block, which does not move while the transactions  *)
(* of a block are applied.                                                 *)
(***************************************************************************)
EXTENDS Comments, KeyLookups

vars == <<ledger_vars, comment_vars, authority, unchecked, key_vars, signer, ops>>

Init == LedgerInit /\ CommentInit /\ AuthorityInit /\ KeyInit

\* A transfer creates a wallet that has random keys, a pow one that has the worker's.
Next ==
  \/ MoneyNext /\ authority' = Joined(Unknown) /\ OtherOperation /\ UNCHANGED <<comment_vars, key_vars>>
  \/ WitnessNext /\ OtherOperation /\ UNCHANGED <<comment_vars, authority, key_vars>>
  \/ /\ PowNext /\ authority' = Joined(Known) /\ post_operation(signer', {})
     /\ OtherOperation /\ UNCHANGED comment_vars
  \/ AuthorityNext /\ UNCHANGED comment_vars
  \/ CommentNext /\ OtherOperation /\ UNCHANGED <<authority, key_vars>>
  \/ \E miner \in Names, time \in Times :
       /\ end_of_block(miner, time) /\ unchecked' = FALSE
       /\ UNCHANGED <<comment_vars, authority, key_vars>>

Spec == Init /\ [][Next]_vars

\* The state is well formed: no balance, escrow or count of children is ever negative, and every
\* wallet has its authorities.
TypeOK ==
  /\ wallets \subseteq Names /\ witnesses \subseteq wallets
  /\ balance \in [Names -> Nat]
  /\ DOMAIN authority = wallets
  /\ \A k \in DOMAIN escrow : escrow[k].xgt_balance \in Nat /\ escrow[k].pending_fee \in Nat
  /\ head_block_time \in Times /\ head_block_num \in FirstBlock .. LastBlock
  /\ issued \in Nat /\ mining_target \in Nat
  /\ DOMAIN comment \subseteq Posts
  /\ \A c \in DOMAIN comment : comment[c].children \in Nat /\ comment[c].depth \in 0 .. MaxDepth
  /\ \A c, d \in DOMAIN comment : c # d => comment[c].id # comment[d].id

\* The state after any sequence of operations and blocks: nothing is negative, XGT is
\* conserved and escrows are at one of their stages.
StateSound == TypeOK /\ LedgerSound
=============================================================================
