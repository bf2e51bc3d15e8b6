---------------------------- MODULE Authorities ----------------------------
(***************************************************************************)
(* The authorities of wallets: how operations change them, and how the     *)
(* keys that have signed a transaction are checked against them            *)
(* (libraries/protocol/sign_state.cpp and transaction_util.hpp), where an  *)
(* authority may name other wallets, in cycles too.                        *)
(*                                                                         *)
(* Every weight is 1.  A wallet's name is the hash of the keys it was      *)
(* created with; here of one key, which is written as the name itself.     *)
(* The social authority is left out: it is changed and checked like the    *)
(* money authority, with one more authority to fall back on.               *)
(***************************************************************************)
EXTENDS Ledger, Sequences

CONSTANTS Offered,        \* authorities that operations carry
          Orders,         \* orders of names and keys in the maps of an authority
          SigDepth,       \* XGT_MAX_SIG_CHECK_DEPTH
          MaxMembership,  \* XGT_MAX_AUTHORITY_MEMBERSHIP
          MaxWalletAuths, \* XGT_MAX_SIG_CHECK_WALLETS
          RecoveryLimit   \* XGT_RECOVERY_UPDATE_LIMIT

Authority == [weight_threshold : Nat, key_auths : SUBSET Names, wallet_auths : SUBSET Names]

ASSUME AuthorityAssumption ==
  /\ Offered \subseteq Authority
  /\ Orders \subseteq Seq(Names)
  /\ {SigDepth, RecoveryLimit} \subseteq Nat
  /\ {MaxMembership, MaxWalletAuths} \subseteq Nat \ {0}   \* 0 is no limit

VARIABLES authority,  \* the account_authority_objects by wallet
          unchecked   \* has the transaction that is applied created a wallet?

Keys(ks) == [weight_threshold |-> 1, key_auths |-> ks, wallet_auths |-> {}]

\* Both authorities of a new wallet alike; they have not been updated for longer than the limit.
Alike(a) == [recovery |-> a, money |-> a, last_recovery_update |-> -(RecoveryLimit + 1)]

\* The table after an operation that has created wallets with a key of theirs or with random keys.
Known == [w \in Names |-> Alike(Keys({w}))]
Unknown == [w \in Names |-> Alike(Keys({}))]
Joined(new) == [w \in wallets' |-> IF w \in DOMAIN authority THEN authority[w] ELSE new[w]]

-----------------------------------------------------------------------------
(* sign_state *)

\* What sign_state::check_authority_impl starts on, and where its loops are: in "go" it is still
\* looking, "throws" is the exception for a wallet that does not exist.
Frames == [auth : Authority, approved : SUBSET Names, count : Nat]
Start(f) == [out |-> "go", weight |-> 0, members |-> 0, approved |-> f.approved, count |-> f.count]

Stop(s, out) == [s EXCEPT !.out = out]

\* The end of a turn of either loop: only so many members are looked at.
Member(s) == IF s.members + 1 >= MaxMembership THEN Stop(s, "no") ELSE [s EXCEPT !.members = @ + 1]

\* A member that has signed or is approved.
Weighed(s, auth) ==
  IF s.weight + 1 >= auth.weight_threshold THEN Stop(s, "yes") ELSE Member([s EXCEPT !.weight = @ + 1])

\* Seeded fault: a wallet counts as approved while it is being looked at.
NestedVisited(w, s) == [auth |-> authority[w].money, approved |-> s.approved \cup {w}, count |-> s.count + 1]

\* What the check of a wallet within the check of another starts on.
Nested(w, s) == [auth |-> authority[w].money, approved |-> s.approved, count |-> s.count + 1]

\* What the wallets w in an authority add, given the check of the wallet itself, with depth left to go.
WalletTurn(s, auth, w, depth, check) ==
  CASE w \in s.approved -> Weighed(s, auth)
    [] w \notin s.approved /\ depth = 0 -> s
    [] w \notin s.approved /\ depth > 0 ->
         IF s.count >= MaxWalletAuths THEN Stop(s, "no")
         ELSE IF w \notin DOMAIN authority THEN Stop(s, "throws")
         ELSE LET r == check[Nested(w, s)]
                  t == [s EXCEPT !.approved = r.approved, !.count = r.count]
              IN  CASE r.out = "yes" -> Weighed([t EXCEPT !.approved = @ \cup {w}], auth)
                    [] r.out = "no" -> Member(t)
                    [] r.out = "throws" -> Stop(t, "throws")

\* The keys first, then the wallets, both in the order of their map.
check_authority_impl(signed, order) ==
  LET impl[depth \in 0 .. SigDepth] ==
        [f \in Frames |->
           LET keys == SelectSeq(order, LAMBDA k : k \in f.auth.key_auths)
               nested == SelectSeq(order, LAMBDA w : w \in f.auth.wallet_auths)
               turn[i \in 0 .. Len(keys) + Len(nested)] ==
                 IF i = 0 THEN Start(f)
                 ELSE LET s == turn[i - 1]
                      IN  IF s.out # "go" THEN s
                          ELSE IF i > Len(keys)
                          THEN WalletTurn(s, f.auth, nested[i - Len(keys)], depth, impl[depth - 1])
                          ELSE IF keys[i] \in signed THEN Weighed(s, f.auth) ELSE Member(s)
               end == turn[Len(keys) + Len(nested)]
           IN  IF end.out # "go" THEN end
               ELSE Stop(end, IF end.weight >= f.auth.weight_threshold THEN "yes" ELSE "no")]
  IN  impl[SigDepth]

\* verify_authority for a transaction that needs the money authority of the wallets in required:
\* each by its money authority or else by its recovery authority.  What one check has approved
\* counts in the next.
verify_authority(signed, order, required) ==
  LET impl == check_authority_impl(signed, order)
      ids == SelectSeq(order, LAMBDA w : w \in required)
      one(id, approved) ==
        LET money == impl[[auth |-> authority[id].money, approved |-> approved, count |-> 1]]
        IN  IF id \in approved THEN [out |-> "yes", approved |-> approved]
            ELSE IF money.out # "no" THEN money
            ELSE impl[[auth |-> authority[id].recovery, approved |-> money.approved, count |-> 0]]
      all[i \in 0 .. Len(ids)] ==
        IF i = 0 THEN [out |-> "yes", approved |-> {}]
        ELSE LET s == all[i - 1]
             IN  IF s.out # "yes" THEN s
                 ELSE IF ids[i] \notin DOMAIN authority THEN Stop(s, "throws")
                 ELSE one(ids[i], s.approved)
  IN  all[Len(ids)].out = "yes"

-----------------------------------------------------------------------------
(* Operations *)

\* wallet_create: the authorities are taken as they are.
create_wallet(creator, w, recovery, money) ==
  /\ recovery.key_auths = {w}
  /\ wallet_create(creator, w)
  /\ authority' = Joined([x \in {w} |-> [Alike(recovery) EXCEPT !.money = money]])
  /\ unchecked' = TRUE

\* The authorities of the wallet that wallet_update finds: those in the operation if the wallet
\* does not exist and is created (the branch "Upsert").
Upserted(w, recovery, money) ==
  IF w \in DOMAIN authority THEN authority[w] ELSE [Alike(recovery) EXCEPT !.money = money]

\* What wallet_update asks of the authorities in the operation (None where it has none).
Allowed(w, recovery, money) ==
  /\ \A a \in {recovery, money} \ {None} :
       /\ Cardinality(a.key_auths) + Cardinality(a.wallet_auths) <= MaxMembership
       /\ a.wallet_auths \subseteq wallets \cup {w}
  /\ recovery # None => head_block_time - Upserted(w, recovery, money).last_recovery_update > RecoveryLimit

\* _apply_transaction wants the transaction signed by the keys that the wallet is named after
\* and by no others, whatever the recovery authority is by now, so that the wallet must exist;
\* but it stops looking at the first wallet_create of the transaction.
MayUpdate(w) ==
  \/ Operation("wallets", w) /\ w \in DOMAIN authority /\ unchecked' = FALSE
  \/ unchecked /\ Operation("wallets", signer) /\ UNCHANGED unchecked

wallet_update(w, recovery, money) ==
  /\ MayUpdate(w)
  /\ w \in DOMAIN authority \/ None \notin {recovery, money}
  /\ Allowed(w, recovery, money)
  /\ wallets' = wallets \cup {w}
  /\ LET old == Upserted(w, recovery, money)
         new == [recovery |-> IF recovery = None THEN old.recovery ELSE recovery,
                 money |-> IF money = None THEN old.money ELSE money,
                 last_recovery_update |-> IF recovery = None THEN old.last_recovery_update
                                          ELSE head_block_time]
     IN  authority' = [x \in wallets' |-> IF x = w THEN new ELSE authority[x]]
  /\ UNCHANGED <<witnesses, balance, escrow, head_block_time, head_block_num>> /\ UNCHANGED mining_vars

\* At genesis and after wallet_create; nobody has keys of the null wallet.
AuthorityInit ==
  /\ authority = [w \in Existing |-> IF w = Null THEN Unknown[w] ELSE Known[w]]
  /\ unchecked = FALSE

\* Any other operation goes on with the transaction or begins another one.
OtherOperation == unchecked' \in {unchecked, FALSE}

-----------------------------------------------------------------------------
(* Properties *)

\* An authority is met by signatures and by wallets that are approved.
Met(a, signed, approved) ==
  Cardinality(a.key_auths \cap signed) + Cardinality(a.wallet_auths \cap approved) >= a.weight_threshold

\* The wallets whose money authority is met within n levels of authorities; the highest n that
\* matters is the number of wallets.
MetWithin(signed, n) ==
  LET met[i \in 0 .. n] ==
        IF i = 0 THEN {}
        ELSE LET below == met[i - 1] IN {w \in DOMAIN authority : Met(authority[w].money, signed, below)}
  IN  met[n]

\* What wallet_update asks of authorities, and wallet_create does not.
Tidy ==
  \A w \in DOMAIN authority : \A a \in {authority[w].recovery, authority[w].money} :
    /\ a.wallet_auths \subseteq DOMAIN authority
    /\ Cardinality(a.key_auths) + Cardinality(a.wallet_auths) <= MaxMembership

\* How many wallets the check of w looks at if none of them is approved.
LooksAt(w) ==
  LET below[n \in 0 .. SigDepth] ==
        [x \in DOMAIN authority |->
           IF n = 0 THEN 1 ELSE 1 + MapThenSumSet(LAMBDA y : below[n - 1][y], authority[x].money.wallet_auths)]
  IN  below[SigDepth][w]

\* The check grants a transaction only what its signatures are worth, however authorities refer to
\* each other, in cycles or to wallets without an object, and whatever was approved on the way for
\* another wallet: each wallet needed has its money or recovery authority met.  And within the
\* limits nothing is refused whose money authority is met at the depth that the check may go to,
\* whatever was approved or tried before.  This is so of every table that an operation on wallets
\* leaves, for one wallet or two.
VerdictsRight ==
  LET keys == UNION {authority[w].money.key_auths \cup authority[w].recovery.key_auths : w \in DOMAIN authority}
      known == DOMAIN authority
      small == {w \in known : LooksAt(w) <= MaxWalletAuths}
      needed == {r \in SUBSET (wallets \ {Null}) : Cardinality(r) \in {1, 2}}
  IN  ops.wallets > 0 /\ signer # None =>
        \A signed \in SUBSET keys :
          LET met == MetWithin(signed, Cardinality(wallets))
              worth == {w \in known : \/ Met(authority[w].money, signed, met)
                                     \/ Met(authority[w].recovery, signed, met)}
              near == small \cap MetWithin(signed, SigDepth + 1)
          IN  \A order \in Orders, required \in needed :
                /\ ~ (required \subseteq worth) => ~ verify_authority(signed, order, required)
                /\ Tidy /\ required \subseteq near => verify_authority(signed, order, required)
=============================================================================
