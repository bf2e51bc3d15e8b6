----------------------------- MODULE KeyLookups -----------------------------
(***************************************************************************)
(* The plugin wallet_by_key, which follows the authorities: for each key   *)
(* a wallet that has it.  The plugin takes a copy of a wallet's keys       *)
(* before an operation and compares after it.  Its index is part of the    *)
(* chain state and is undone with it; the copy is a member of the plugin,  *)
(* and stays when an operation is refused.                                 *)
(*                                                                         *)
(* The index by_key is unique in the key alone, so that a lookup of a key  *)
(* and a wallet finds the entry of the key whatever wallet it names.       *)
(***************************************************************************)
EXTENDS Authorities

VARIABLES key_lookup,   \* the key_lookup_objects: the wallet of each key
          cached_keys,  \* the keys of a wallet before an operation
          shared        \* history: have two wallets had a key in common?

key_vars == <<key_lookup, cached_keys, shared>>

AllKeys(a) == a.recovery.key_auths \cup a.money.key_auths

Sharing(table) == \E v, w \in DOMAIN table : v # w /\ AllKeys(table[v]) \cap AllKeys(table[w]) # {}

\* Seeded fault: the copy for an earlier operation is not cleared.
pre_operation_uncleared(changed) == cached_keys \cup UNION {AllKeys(authority[w]) : w \in changed}

\* pre_operation_visitor: the copy, of the wallets that the operation changes and does not create.
pre_operation(changed) == UNION {AllKeys(authority[w]) : w \in changed}

\* Keys that are new get an entry if they have none, those that are gone lose theirs.
update_key_lookup(w, cached) ==
  LET now == AllKeys(authority'[w])
      kept == DOMAIN key_lookup \ (cached \ now)
  IN  /\ key_lookup' = [k \in kept \cup (now \ cached) |-> IF k \in kept THEN key_lookup[k] ELSE w]
      /\ cached_keys' = {}
      /\ shared' = (shared \/ Sharing(authority'))

\* post_operation_visitor
post_operation(w, changed) ==
  IF w \in wallets' THEN update_key_lookup(w, pre_operation(changed))
  ELSE cached_keys' = pre_operation(changed) /\ UNCHANGED <<key_lookup, shared>>

\* The evaluator refuses the operation, and everything is undone but the copy.
wallet_update_refused(w, recovery, money) ==
  /\ w \in DOMAIN authority /\ ~ Allowed(w, recovery, money)
  /\ cached_keys' = pre_operation({w})
  /\ unchecked' = FALSE
  /\ UNCHANGED <<key_lookup, shared, authority, signer, ops>> /\ UNCHANGED ledger_vars

\* Nothing is entered for the wallets of the genesis block.
KeyInit ==
  /\ key_lookup = [w \in Existing \ {InitMiner, Null} |-> w]
  /\ cached_keys = {}
  /\ shared = FALSE

AuthorityNext ==
  /\ Within("wallets")
  /\ \/ \E creator \in Signers, w \in Names, money \in Offered : \E recovery \in {Keys({w})} \cup Offered :
          create_wallet(creator, w, recovery, money) /\ post_operation(w, {})
     \/ \E w \in Signers \cap wallets, a \in Offered :   \* bound: one authority at a time
          (wallet_update(w, a, None) \/ wallet_update(w, None, a)) /\ post_operation(w, {w})
     \/ \E w \in Signers \ wallets, money \in Offered : \E recovery \in {Keys({w})} \cup Offered :
          wallet_update(w, recovery, money) /\ post_operation(w, {})
     \/ \E w \in Signers, a \in Offered :   \* bound: only once keys have moved
          ops.wallets > 0 /\ (wallet_update_refused(w, a, None) \/ wallet_update_refused(w, None, a))

-----------------------------------------------------------------------------
\* Whatever is updated, refused, mined or created in between, an entry names a wallet that has
\* the key now.  And every key of a wallet that an operation has created has an entry (which
\* get_key_references takes for granted when the key signs a transfer), unless two wallets have
\* had a key in common: the entry they share goes when either gives it up.
KeyLookupsRight ==
  /\ \A k \in DOMAIN key_lookup : key_lookup[k] \in wallets /\ k \in AllKeys(authority[key_lookup[k]])
  /\ ~ shared => \A w \in wallets \ {InitMiner} : AllKeys(authority[w]) \subseteq DOMAIN key_lookup
=============================================================================
