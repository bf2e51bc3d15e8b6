---------------------------- MODULE MCEvaluators ----------------------------
(* Instances of Evaluators for TLC. *)
EXTENDS Evaluators, SequencesExt, TLC

\* Only the initial miner writes; the others are interchangeable where they exist already.
Authors == [p \in Posts |-> InitMiner]

Symmetry == Permutations(Existing \ {InitMiner, Null})

EscrowDeadlines == {<<1, 2>>}

Others == Existing \ {InitMiner, Null}

\* A name that no wallet has at first.
Stranger == {CHOOSE w \in Names : w \notin Existing}

\* The others in either order.
Sorted == {<<InitMiner>> \o s \o SetToSeq(Names \ Existing) : s \in SetToSeqs(Others)}

\* Either six operations on money, or one of them with mining, or comments, or three operations on
\* wallets, or two and a proof of work: the kinds share only wallets, balances and time.
Ops == {[money |-> 6, mining |-> 0, comments |-> 0, wallets |-> 0],
        [money |-> 1, mining |-> 3, comments |-> 0, wallets |-> 0],
        [money |-> 0, mining |-> 0, comments |-> 5, wallets |-> 0],
        [money |-> 0, mining |-> 0, comments |-> 0, wallets |-> 3],
        [money |-> 0, mining |-> 1, comments |-> 0, wallets |-> 2]}

\* One wallet, which may not exist yet, or two of the key of the initial miner and the others.
Named == [weight_threshold : {1}, key_auths : {{}}, wallet_auths : {{w} : w \in Others \cup Stranger}]
         \cup [weight_threshold : {2}, key_auths : {{InitMiner}}, wallet_auths : {Others}]

\* What operations on wallets read and change; who has signed the last one makes no difference to them.
WalletView == <<wallets, authority, unchecked, key_vars, head_block_time, head_block_num < PowChange,
                witnesses, ops, signer = None>>

View == IF ops.wallets > 0 THEN WalletView ELSE vars

\* Blocks with operations on wallets are not followed by others; only these operations use the
\* second new name.
Bounds ==
  /\ ops.wallets > 0 => head_block_num = FirstBlock
  /\ ops.wallets = 0 => wallets \subseteq Existing \cup Stranger
=============================================================================
