------------------------ MODULE ChainDatabase_proofs ------------------------
(***************************************************************************)
(* Proofs about ChainDatabase, and about BlockObservers and Miner on top   *)
(* of it, for every tree of blocks, every set of bad blocks and every      *)
(* irreversibility depth, with restarts and crashes.                       *)
(***************************************************************************)
EXTENDS BlockObservers, Miner, SequenceTheorems, WellFoundedInduction, TLAPS

-----------------------------------------------------------------------------
(* The fork database: every operation returns a fork database.             *)

LEMMA NumNat == \A b \in Blocks : Num[b] \in Nat
  BY NumAssumption

LEMMA NoForkType == NoFork \in Fork
  BY DEF NoFork, Fork

LEMMA StartBlockType ==
  ASSUME NEW b \in Blocks
  PROVE  start_block(NoFork, b) \in Fork
  BY DEF start_block, NoFork, Fork

LEMMA CacheType ==
  ASSUME NEW f \in Fork, NEW b \in Blocks
  PROVE  cache_unlinked(f, b) \in Fork
  BY DEF cache_unlinked, Fork

LEMMA AdoptedType ==
  ASSUME NEW f \in Fork, NEW b \in Blocks
  PROVE  Adopted(f, b) \subseteq Blocks /\ b \in Adopted(f, b)
  BY DEF Adopted, Fork

(* The head that push_block returns is a block, never the null pointer. *)
LEMMA NewHeadsType ==
  ASSUME NEW f \in Fork, NEW b \in Blocks, NEW h \in NewHeads(f, b)
  PROVE  h \in Blocks
  <1>1. CASE f.head = Zero
    BY <1>1, AdoptedType DEF NewHeads
  <1>2. CASE f.head # Zero
    BY <1>2, AdoptedType DEF NewHeads, Fork
  <1>3. QED BY <1>1, <1>2

LEMMA PushBlockType ==
  ASSUME NEW f \in Fork, NEW b \in Blocks, NEW g \in push_block(f, b)
  PROVE  g \in Fork /\ g.head \in Blocks
  <1>1. PICK h \in NewHeads(f, b) :
           g = [index    |-> f.index \cup Adopted(f, b),
                linked   |-> f.linked \cup (FoundPrevious(f, b) \ f.index),
                unlinked |-> f.unlinked \ (Adopted(f, b) \ {b}),
                head     |-> h,
                head_linked |-> IF h \in Adopted(f, b) /\ h # f.head
                                THEN h \in FoundPrevious(f, b)
                                ELSE f.head_linked]
    BY DEF push_block
  <1>2. h \in Blocks
    BY NewHeadsType
  <1>3. FoundPrevious(f, b) \subseteq Blocks
    BY AdoptedType DEF FoundPrevious
  <1>4. (IF h \in Adopted(f, b) /\ h # f.head
         THEN h \in FoundPrevious(f, b) ELSE f.head_linked) \in BOOLEAN
    <2>1. f.head_linked \in BOOLEAN
      BY DEF Fork
    <2>2. CASE h \in Adopted(f, b) /\ h # f.head
      BY <2>2
    <2>3. CASE ~ (h \in Adopted(f, b) /\ h # f.head)
      BY <2>1, <2>3
    <2>4. QED BY <2>2, <2>3
  <1>5. QED BY <1>1, <1>2, <1>3, <1>4, AdoptedType DEF Fork

LEMMA EraseType ==
  ASSUME NEW f \in Fork, NEW gone
  PROVE  EraseItems(f, gone) \in Fork /\ EraseItems(f, gone).head = f.head
  BY DEF EraseItems, Fork

LEMMA RemoveType ==
  ASSUME NEW f \in Fork, NEW gone
  PROVE  remove(f, gone) \in Fork
  BY EraseType DEF remove

LEMMA SetMaxSizeType ==
  ASSUME NEW f \in Fork, NEW s
  PROVE  set_max_size(f, s) \in Fork
  <1> DEFINE old(S) == {x \in S : Num[x] < Max0(Num[f.head] - s)}
             e == EraseItems(f, old(f.index))
  <1>1. e \in Fork
    BY EraseType
  <1>2. CASE f.head = Zero
    BY <1>2 DEF set_max_size
  <1>3. CASE f.head # Zero
    <2>1. set_max_size(f, s) = [e EXCEPT !.unlinked = @ \ old(@)]
      BY <1>3 DEF set_max_size
    <2>2. e.unlinked \ old(e.unlinked) \in SUBSET Blocks
      BY <1>1 DEF Fork
    <2> HIDE DEF e, old
    <2>3. QED BY <1>1, <2>1, <2>2 DEF Fork
  <1>4. QED BY <1>2, <1>3

LEMMA SetHeadType ==
  ASSUME NEW f \in Fork, NEW b \in Blocks \cup {Zero}
  PROVE  set_head(f, b) \in Fork /\ set_head(f, b).head = b
  <1>1. (b \in f.linked) \in BOOLEAN
    OBVIOUS
  <1>2. QED BY <1>1 DEF set_head, Fork

LEMMA PopBlockType ==
  ASSUME NEW f \in Fork, CanPop(f)
  PROVE  pop_block(f) \in Fork
  <1>1. Parent[f.head] \in Blocks \cup {Zero}
    BY ParentAssumption DEF CanPop, Fork
  <1>2. QED BY <1>1, SetHeadType DEF pop_block

-----------------------------------------------------------------------------
(* The inductive invariant: the properties proved below, and what they     *)
(* need to know of the log, of the flushed state and of a stopped node.    *)

LogNumbers == \A n \in 1 .. Len(log) : Num[log[n]] = n

(* What pops and applications change. *)
ChainOK == /\ chain \in Seq(Blocks)
           /\ undoable \in 0 .. Len(chain)
           /\ log \in Seq(Blocks)
           /\ fd \in Fork
           /\ NumbersMatch
           /\ LogNumbers
           /\ LogCommitted

(* What the rest of the node keeps. *)
ControlOK == /\ disk \in Seq(Blocks)
             /\ \A n \in 1 .. Len(disk) : Num[disk[n]] = n
             /\ pc \in {"idle"} \cup Switching \cup Stopped
             /\ pc \in Stopped => undoable = 0
             /\ switch \in Branches
             /\ push \in Pushes
             /\ failed \in BOOLEAN

IndInv == ChainOK /\ ControlOK /\ SwitchOnBranch

(* The blocks below the oldest session stay, and that point does not sink. *)
BaseStays == /\ Base' >= Base
             /\ Base <= Len(chain')
             /\ \A n \in 1 .. Base : chain'[n] = chain[n]

-----------------------------------------------------------------------------
(* Numbers of blocks.                                                      *)

LEMMA HeadFacts ==
  ASSUME ChainOK
  PROVE  /\ chain = <<>> => head_block_id = Zero /\ Len(chain) = 0
         /\ chain # <<>> => /\ head_block_id \in Blocks
                            /\ Num[head_block_id] = Len(chain)
                            /\ Len(chain) > 0
  <1>1. CASE chain = <<>>
    BY <1>1 DEF head_block_id
  <1>2. CASE chain # <<>>
    <2>1. Len(chain) \in 1 .. Len(chain)
      BY <1>2, EmptySeq DEF ChainOK
    <2>2. QED BY <1>2, <2>1, ElementOfSeq DEF ChainOK, NumbersMatch, head_block_id
  <1>3. QED BY <1>1, <1>2

LEMMA ParentNumber ==
  ASSUME NEW b \in Blocks, Parent[b] \in Blocks
  PROVE  Num[b] = Num[Parent[b]] + 1 /\ Num[b] > 1
  <1>1. Num[b] = Num[Parent[b]] + 1
    BY NumAssumption, ZeroAssumption
  <1>2. Num[Parent[b]] > 0
    BY NumAssumption, ParentAssumption
  <1>3. QED BY <1>1, <1>2, NumNat

(* A block on the head of the chain has the next number. *)
LEMMA NextNumber ==
  ASSUME ChainOK, NEW b \in Blocks, Parent[b] = head_block_id
  PROVE  Num[b] = Len(chain) + 1
  <1>1. CASE chain = <<>>
    BY <1>1, HeadFacts, NumAssumption
  <1>2. CASE chain # <<>>
    BY <1>2, HeadFacts, ParentNumber
  <1>3. QED BY <1>1, <1>2

LEMMA LibFacts ==
  ASSUME NEW n \in Nat
  PROVE  lib(n) \in 0 .. n
  BY LibDepthAssumption DEF lib, Max0

-----------------------------------------------------------------------------
(* Branches.                                                               *)

LEMMA PathFacts ==
  ASSUME NEW b \in Blocks
  PROVE  /\ Path[b] \subseteq Blocks
         /\ b \in Path[b]
         /\ \A x \in Path[b] : Parent[x] \in Path[b] \cup {Zero}
         /\ \A x \in Path[b] : Num[x] <= Num[b]
         /\ \A x, y \in Path[b] : Num[x] = Num[y] => x = y
  BY PathAssumption

(* The part of a path from block y upwards is a branch on y's parent. *)
LEMMA BranchIsOn ==
  ASSUME NEW a \in Blocks, NEW y \in Path[a]
  PROVE  /\ Branch(a, Num[y]) \subseteq Blocks
         /\ BranchOn(Branch(a, Num[y]), Parent[y])
  <1>1. Branch(a, Num[y]) \subseteq Path[a] /\ Path[a] \subseteq Blocks
    BY PathFacts DEF Branch
  <1>2. ASSUME NEW x \in Branch(a, Num[y])
        PROVE  Parent[x] \in Branch(a, Num[y]) \cup {Parent[y]}
    <2>1. x \in Path[a] /\ x \in Blocks /\ y \in Blocks /\ Num[x] >= Num[y]
      BY <1>1 DEF Branch
    <2>2. CASE Num[x] = Num[y]
      BY <2>1, <2>2, PathFacts
    <2>3. CASE Num[x] > Num[y]
      <3>1. Num[y] >= 1
        BY <2>1, NumAssumption, ParentAssumption
      <3>2. Parent[x] # Zero
        BY <2>1, <2>3, <3>1, NumAssumption
      <3>3. Parent[x] \in Path[a]
        BY <2>1, <3>2, PathFacts
      <3>4. Num[Parent[x]] >= Num[y]
        BY <1>1, <2>1, <2>3, <3>3, ParentNumber, NumNat
      <3>5. QED BY <3>3, <3>4 DEF Branch
    <2>4. QED BY <2>1, <2>2, <2>3, NumNat
  <1>3. \A x, z \in Branch(a, Num[y]) : Num[x] = Num[z] => x = z
    BY <1>1, PathFacts
  <1>4. QED BY <1>1, <1>2, <1>3 DEF BranchOn

(* What fetch_branch_from returns: two branches on the fork point. *)
LEMMA FetchedBranches ==
  ASSUME NEW f, NEW a \in Blocks, NEW b \in Blocks,
         NEW br \in fetch_branch_from(f, a, b)
  PROVE  /\ br.fork \in Blocks \cup {Zero}
         /\ br.first \subseteq Blocks /\ BranchOn(br.first, br.fork)
         /\ br.second \subseteq Blocks /\ BranchOn(br.second, br.fork)
  <1>1. PICK x \in Path[b] :
            /\ Meets(a, x)
            /\ br = [fork   |-> Parent[x],
                     first  |-> Branch(a, Num[x]),
                     second |-> Branch(b, Num[x])]
    BY DEF fetch_branch_from
  <1>2. PICK y \in Path[a] : Num[y] = Num[x] /\ Parent[y] = Parent[x]
    BY <1>1 DEF Meets
  <1>3. x \in Blocks
    BY PathFacts
  <1>4. QED BY <1>1, <1>2, <1>3, BranchIsOn, ParentAssumption

-----------------------------------------------------------------------------
(* apply_block.                                                            *)

LEMMA FunctionIsSeq ==
  ASSUME NEW S, NEW k \in Nat, NEW t \in [1 .. k -> S]
  PROVE  t \in Seq(S) /\ Len(t) = k
  OBVIOUS

LEMMA PrefixFacts ==
  ASSUME NEW S, NEW s \in Seq(S), NEW m \in 0 .. Len(s)
  PROVE  /\ SubSeq(s, 1, m) \in Seq(S)
         /\ Len(SubSeq(s, 1, m)) = m
         /\ \A k \in 1 .. m : SubSeq(s, 1, m)[k] = s[k]
  <1>1. \A k \in 1 .. m : s[k] \in S
    BY ElementOfSeq
  <1>2. m \in Int /\ m - 1 + 1 = m
    OBVIOUS
  <1>3. QED BY <1>1, <1>2, SubSeqProperties

LEMMA FetchMainFacts ==
  ASSUME NEW f \in Fork, NEW n \in Nat, NEW x \in fetch_main(f, n)
  PROVE  x \in Blocks /\ Num[x] = n
  <1>1. f.head \in Blocks
    BY DEF fetch_main, Fork
  <1>2. x \in fetch_block_by_number(f, n) \/ x \in walk_main_branch_to_num(f, n)
    BY <1>1, ZeroAssumption DEF fetch_main
  <1>3. QED BY <1>1, <1>2, PathFacts
            DEF fetch_block_by_number, walk_main_branch_to_num, Fork

(* The block log grows by the missing numbers up to last_irreversible_block. *)
LEMMA MigratedLogFacts ==
  ASSUME ChainOK,
         NEW b \in Blocks, NEW f \in Fork, Migrates(b, f)
  PROVE  LET new == MigratedLog(b, f)
         IN  /\ new \in Seq(Blocks)
             /\ Len(new) = Len(log) + Max0(lib(Num[b]) - Len(log))
             /\ \A n \in 1 .. Len(new) : Num[new[n]] = n
  <1> DEFINE k == Max0(lib(Num[b]) - Len(log))
             t == [i \in 1 .. k |->
                     CHOOSE x \in fetch_main(f, Len(log) + i) : TRUE]
  <1>1. log \in Seq(Blocks) /\ Len(log) \in Nat
    BY DEF ChainOK
  <1>2. Num[b] \in Nat /\ lib(Num[b]) \in Nat
    BY NumNat, LibFacts
  <1>3. k \in Nat /\ (k > 0 => Len(log) + k = lib(Num[b]))
    BY <1>1, <1>2 DEF Max0
  <1>4. ASSUME NEW i \in 1 .. k
        PROVE  t[i] \in Blocks /\ Num[t[i]] = Len(log) + i
    <2>1. Len(log) + i \in Len(log) + 1 .. lib(Num[b])
      BY <1>1, <1>2, <1>3
    <2>2. fetch_main(f, Len(log) + i) # {}
      BY <2>1 DEF Migrates
    <2>3. t[i] \in fetch_main(f, Len(log) + i)
      BY <2>2
    <2>4. QED BY <1>1, <2>3, FetchMainFacts
  <1> HIDE DEF k
  <1>5. t \in [1 .. k -> Blocks]
    BY <1>4
  <1>6. t \in Seq(Blocks) /\ Len(t) = k
    BY <1>3, <1>5, FunctionIsSeq
  <1> HIDE DEF t
  <1>7. MigratedLog(b, f) = log \o t
    BY DEF MigratedLog, t, k
  <1>8. \A n \in 1 .. Len(log) + k : Num[(log \o t)[n]] = n
    BY <1>1, <1>3, <1>4, <1>6, ConcatProperties DEF ChainOK, LogNumbers
  <1>9. log \o t \in Seq(Blocks) /\ Len(log \o t) = Len(log) + k
    BY <1>1, <1>6, ConcatProperties
  <1>10. QED BY <1>7, <1>8, <1>9 DEF k

(* A block with the next number leaves everything in order. *)
LEMMA ApplyBlock ==
  ASSUME ChainOK, NEW b \in Blocks, NEW f \in Fork,
         Num[b] = Len(chain) + 1, MayApply(b, f), apply_block(b, f)
  PROVE  /\ ChainOK' /\ BaseStays
         /\ head_block_id' = b
         /\ undoable' \in Nat
  <1> DEFINE n == Num[b]
  <1>1. /\ chain \in Seq(Blocks) /\ Len(chain) \in Nat
        /\ undoable \in Nat /\ undoable <= Len(chain)
        /\ log \in Seq(Blocks) /\ Len(log) \in Nat
    BY DEF ChainOK
  <1>2. n \in Nat /\ lib(n) \in Nat /\ lib(n) <= n
    BY NumNat, LibFacts
  <1>3. /\ chain' \in Seq(Blocks) /\ chain' # <<>>
        /\ Len(chain') = Len(chain) + 1
        /\ \A k \in 1 .. Len(chain) : chain'[k] = chain[k]
        /\ chain'[Len(chain) + 1] = b
    BY <1>1, AppendProperties DEF apply_block
  <1>4. NumbersMatch'
    BY <1>1, <1>3 DEF ChainOK, NumbersMatch
  <1>5. head_block_id' = b
    BY <1>3 DEF head_block_id
  <1>6. /\ log' \in Seq(Blocks)
        /\ Len(log') = Len(log) + Max0(lib(n) - Len(log))
        /\ LogNumbers'
    BY MigratedLogFacts DEF apply_block, MayApply, LogNumbers
  <1>7. fd' \in Fork
    BY SetMaxSizeType DEF apply_block
  <1>8. /\ undoable' \in Nat
        /\ undoable' <= undoable + 1
        /\ undoable' <= Len(chain) + 1 - lib(n)
    BY <1>1, <1>2 DEF apply_block, Committed, Max0
  <1>9. /\ Base \in Int /\ Base' \in Int
        /\ Base' >= Base /\ Base' >= lib(n) /\ Base <= Len(chain)
    BY <1>1, <1>2, <1>3, <1>8 DEF Base
  <1>10. LogCommitted'
    BY <1>1, <1>2, <1>6, <1>9 DEF ChainOK, LogCommitted, Max0
  <1>11. BaseStays
    BY <1>1, <1>3, <1>9 DEF BaseStays, Base
  <1>12. undoable' \in 0 .. Len(chain')
    BY <1>1, <1>3, <1>8
  <1>13. QED BY <1>3, <1>4, <1>5, <1>6, <1>7, <1>8, <1>10, <1>11, <1>12
             DEF ChainOK

(* A pop, undo() on an empty stack included. *)
LEMMA PopHead ==
  ASSUME ChainOK, CanPopBlock, fd' = pop_block(fd), chain' = Undone,
         undoable' = Max0(undoable - 1), UNCHANGED log
  PROVE  ChainOK' /\ BaseStays
  <1>1. /\ chain \in Seq(Blocks) /\ Len(chain) \in Nat
        /\ undoable \in Nat /\ undoable <= Len(chain)
    BY DEF ChainOK
  <1>2. fd' \in Fork
    BY PopBlockType DEF ChainOK, CanPopBlock
  <1>3. CASE undoable = 0
    BY <1>1, <1>2, <1>3
       DEF ChainOK, BaseStays, Base, Undone, Max0, NumbersMatch, LogNumbers,
           LogCommitted
  <1>4. CASE undoable > 0
    <2>1. Len(chain) - 1 \in 0 .. Len(chain)
      BY <1>1, <1>4
    <2>2. /\ chain' \in Seq(Blocks)
          /\ Len(chain') = Len(chain) - 1
          /\ \A k \in 1 .. Len(chain) - 1 : chain'[k] = chain[k]
      BY <1>1, <1>4, <2>1, PrefixFacts DEF Undone
    <2>3. undoable' = undoable - 1 /\ Base' = Base
      BY <1>1, <1>4, <2>2 DEF Max0, Base
    <2>4. NumbersMatch'
      BY <1>1, <2>2 DEF ChainOK, NumbersMatch
    <2>5. LogNumbers' /\ LogCommitted' /\ log' \in Seq(Blocks)
      BY <2>3 DEF ChainOK, LogNumbers, LogCommitted
    <2>6. BaseStays
      <3>1. Base \in Int /\ Base <= Len(chain) - 1
        BY <1>1, <1>4 DEF Base
      <3>2. \A k \in 1 .. Base : k \in 1 .. Len(chain) - 1
        BY <1>1, <3>1
      <3>3. \A k \in 1 .. Base : chain'[k] = chain[k]
        BY <2>2, <3>2
      <3>4. Base' >= Base /\ Base <= Len(chain')
        BY <2>2, <2>3, <3>1
      <3>5. QED BY <3>3, <3>4 DEF BaseStays
    <2>7. undoable' \in 0 .. Len(chain')
      BY <1>1, <1>4, <2>2, <2>3
    <2>8. QED BY <1>2, <2>2, <2>4, <2>5, <2>6, <2>7 DEF ChainOK
  <1>5. QED BY <1>1, <1>3, <1>4

(* A step that only changes the fork database. *)
LEMMA SameChain ==
  ASSUME ChainOK, UNCHANGED <<chain, undoable, log>>, fd' \in Fork
  PROVE  ChainOK' /\ BaseStays /\ head_block_id' = head_block_id
  BY DEF ChainOK, BaseStays, Base, NumbersMatch, LogNumbers, LogCommitted,
         head_block_id

-----------------------------------------------------------------------------
(* Steps of the write thread.                                              *)

(* push_block returns or throws. *)
LEMMA BackToIdle ==
  ASSUME ControlOK, UNCHANGED disk, pc' = "idle", switch' = NoSwitch,
         failed' \in BOOLEAN,
         push' \in Pushes
  PROVE  ControlOK' /\ SwitchOnBranch'
  <1>1. "idle" \notin Stopped
    BY DEF Stopped
  <1>2. NoSwitch \in Branches
    BY DEF NoSwitch, Branches
  <1>3. ControlOK'
    BY <1>1, <1>2 DEF ControlOK
  <1>4. SwitchOnBranch'
    BY DEF SwitchOnBranch
  <1>5. QED BY <1>3, <1>4

LEMMA PushedType ==
  ASSUME ChainOK, NEW b \in Blocks
  PROVE  Pushed(b) \in Pushes
  <1>1. (Extends(b) /\ \E x \in Adopted(fd, b) : x \in Bad) \in BOOLEAN
    BY DEF Extends
  <1>2. (IF Extends(b) THEN b ELSE Zero) \in Blocks \cup {Zero}
    OBVIOUS
  <1>3. QED BY <1>1, <1>2 DEF Pushed, Pushes, ChainOK

LEMMA Refused ==
  ASSUME IndInv, NEW b \in Blocks, push_refused(b)
  PROVE  IndInv' /\ BaseStays
  <1>1. fd' \in Fork
    BY CacheType DEF push_refused, IndInv, ChainOK
  <1>2. ChainOK' /\ BaseStays
    BY <1>1, SameChain DEF push_refused, IndInv
  <1>3. ControlOK' /\ SwitchOnBranch'
    BY BackToIdle, PushedType DEF push_refused, Throw, IndInv
  <1>4. QED BY <1>2, <1>3 DEF IndInv

LEMMA Direct ==
  ASSUME IndInv, NEW b \in Blocks, push_direct(b)
  PROVE  IndInv' /\ BaseStays
  <1>1. PICK f \in push_block(fd, b) :
           /\ Accepted(b, f)
           /\ Parent[f.head] = head_block_id
           /\ \/ MayApply(b, f) /\ apply_block(b, f) /\ Return
              \/ /\ fd' = remove(f, {b})
                 /\ Throw
                 /\ UNCHANGED <<chain, undoable, log>>
    BY DEF push_direct
  <1>2. f \in Fork /\ f.head \in Blocks
    BY PushBlockType DEF IndInv, ChainOK
  <1>3. ControlOK' /\ SwitchOnBranch'
    BY <1>1, BackToIdle, PushedType
       DEF push_direct, Accepted, Return, Throw, IndInv
  <1>4. ASSUME MayApply(b, f), apply_block(b, f)
        PROVE  ChainOK' /\ BaseStays
    <2>1. Num[f.head] = Len(chain) + 1
      BY <1>1, <1>2, NextNumber DEF IndInv
    <2>2. Num[b] = Len(chain) + 1
      BY <1>4, <2>1 DEF MayApply, Migrates
    <2>3. QED BY <1>2, <1>4, <2>2, ApplyBlock DEF IndInv
  <1>5. ASSUME fd' = remove(f, {b}), UNCHANGED <<chain, undoable, log>>
        PROVE  ChainOK' /\ BaseStays
    BY <1>2, <1>5, RemoveType, SameChain DEF IndInv
  <1>6. QED BY <1>1, <1>3, <1>4, <1>5 DEF IndInv

LEMMA Kept ==
  ASSUME IndInv, NEW b \in Blocks, push_kept(b)
  PROVE  IndInv' /\ BaseStays
  <1>1. fd' \in Fork
    BY PushBlockType DEF push_kept, IndInv, ChainOK
  <1>2. ChainOK' /\ BaseStays
    BY <1>1, SameChain DEF push_kept, IndInv
  <1>3. ControlOK' /\ SwitchOnBranch'
    BY BackToIdle, PushedType DEF push_kept, Accepted, Return, IndInv
  <1>4. QED BY <1>2, <1>3 DEF IndInv

LEMMA Switched ==
  ASSUME IndInv, NEW b \in Blocks, push_switch(b)
  PROVE  IndInv' /\ BaseStays
  <1>1. PICK f \in push_block(fd, b) :
           /\ Accepted(b, f)
           /\ fd' = f
           /\ \/ \E br \in fetch_branch_from(f, f.head, head_block_id) :
                    /\ head_block_id # Zero
                    /\ switch' = [fork |-> br.fork, second |-> br.second,
                                  todo |-> br.first]
                    /\ pc' = "pop"
                    /\ failed' = FALSE
              \/ Throw
    BY DEF push_switch
  <1>2. f \in Fork /\ f.head \in Blocks
    BY PushBlockType DEF IndInv, ChainOK
  <1>3. ChainOK' /\ BaseStays
    BY <1>1, <1>2, SameChain DEF push_switch, IndInv
  <1>4. push' \in Pushes /\ disk' = disk
    BY <1>1, PushedType DEF push_switch, Accepted, IndInv
  <1>5. ASSUME Throw
        PROVE  ControlOK' /\ SwitchOnBranch'
    BY <1>4, <1>5, BackToIdle DEF Throw, IndInv
  <1>6. ASSUME NEW br \in fetch_branch_from(f, f.head, head_block_id),
               head_block_id # Zero,
               switch' = [fork |-> br.fork, second |-> br.second,
                          todo |-> br.first],
               pc' = "pop", failed' = FALSE
        PROVE  ControlOK' /\ SwitchOnBranch'
    <2>1. head_block_id \in Blocks
      BY <1>6, HeadFacts DEF IndInv
    <2>2. /\ br.fork \in Blocks \cup {Zero}
          /\ br.first \subseteq Blocks /\ BranchOn(br.first, br.fork)
          /\ br.second \subseteq Blocks /\ BranchOn(br.second, br.fork)
      BY <1>2, <2>1, FetchedBranches
    <2>3. switch' \in Branches
      BY <1>6, <2>2 DEF Branches
    <2>4. pc' \in Switching /\ pc' \notin Stopped
      BY <1>6 DEF Switching, Stopped
    <2>5. ControlOK'
      BY <1>4, <1>6, <2>3, <2>4 DEF IndInv, ControlOK
    <2>6. SwitchOnBranch'
      BY <1>6, <2>2 DEF SwitchOnBranch, BranchOn
    <2>7. QED BY <2>5, <2>6
  <1>7. QED BY <1>1, <1>3, <1>5, <1>6 DEF IndInv

-----------------------------------------------------------------------------
(* Steps of a fork switch.                                                 *)

(* The lowest block of a branch is a child of its base, and what is left   *)
(* when it is taken away is a branch on it.                                *)
LEMMA LowestOnBase ==
  ASSUME NEW S \in SUBSET Blocks, NEW base, BranchOn(S, base),
         NEW b \in S, \A x \in S : Num[b] <= Num[x]
  PROVE  Parent[b] = base
  <1>1. SUFFICES ASSUME Parent[b] \in S PROVE FALSE
    BY DEF BranchOn
  <1>2. Num[b] = Num[Parent[b]] + 1
    BY <1>1, ParentNumber
  <1>3. QED BY <1>1, <1>2, NumNat

LEMMA RestOnLowest ==
  ASSUME NEW S \in SUBSET Blocks, NEW base \in Blocks \cup {Zero},
         BranchOn(S, base), NEW b \in S, \A x \in S : Num[b] <= Num[x]
  PROVE  BranchOn(S \ {b}, b)
  <1>1. Parent[b] = base
    BY LowestOnBase
  <1>2. ASSUME NEW x \in S \ {b}
        PROVE  Parent[x] # base
    <2>1. SUFFICES ASSUME Parent[x] = base PROVE FALSE
      OBVIOUS
    <2>2. Num[x] = Num[b]
      BY <1>1, <2>1, NumAssumption
    <2>3. QED BY <2>2 DEF BranchOn
  <1>3. QED BY <1>2 DEF BranchOn

(* pop_head, in either of the two loops that call it. *)
LEMMA Popping ==
  ASSUME IndInv, pc \in {"pop", "unwind"}, pop_head,
         UNCHANGED <<log, disk, push>>
  PROVE  IndInv' /\ BaseStays
  <1>1. CASE CanPopBlock
    <2>1. ChainOK' /\ BaseStays
      BY <1>1, PopHead DEF pop_head, IndInv
    <2>2. pc' = pc /\ switch' = switch /\ failed' = failed
      BY <1>1 DEF pop_head
    <2>3. pc \notin Stopped
      BY DEF Stopped
    <2>4. ControlOK'
      BY <2>2, <2>3 DEF IndInv, ControlOK
    <2>5. SwitchOnBranch'
      BY <2>2 DEF IndInv, SwitchOnBranch, BranchOn
    <2>6. QED BY <2>1, <2>4, <2>5 DEF IndInv
  <1>2. CASE ~ CanPopBlock
    <2>1. ChainOK' /\ BaseStays
      BY <1>2, SameChain DEF pop_head, IndInv, ChainOK
    <2>2. ControlOK' /\ SwitchOnBranch'
      BY <1>2, BackToIdle DEF pop_head, Throw, IndInv, ControlOK
    <2>3. QED BY <2>1, <2>2 DEF IndInv
  <1>3. QED BY <1>1, <1>2

LEMMA SwitchPop ==
  ASSUME IndInv, switch_pop
  PROVE  IndInv' /\ BaseStays
  <1>1. CASE head_block_id # switch.fork
    BY <1>1, Popping DEF switch_pop
  <1>2. CASE head_block_id = switch.fork
    <2>1. /\ UNCHANGED <<chain, undoable, log, fd, disk, switch, push, failed>>
          /\ pc = "pop" /\ pc' = "apply"
      BY <1>2 DEF switch_pop
    <2>2. ChainOK' /\ BaseStays /\ head_block_id' = head_block_id
      BY <2>1, SameChain DEF IndInv, ChainOK
    <2>3. pc' \in Switching /\ pc' \notin Stopped
      BY <2>1 DEF Switching, Stopped
    <2>4. ControlOK'
      BY <2>1, <2>3 DEF IndInv, ControlOK
    <2>5. SwitchOnBranch'
      BY <1>2, <2>1, <2>2 DEF IndInv, SwitchOnBranch, BranchOn
    <2>6. QED BY <2>2, <2>4, <2>5 DEF IndInv
  <1>3. QED BY <1>1, <1>2

(* The next block of a branch is applied, in either of the two loops. *)
LEMMA Applying ==
  ASSUME IndInv, pc \in {"apply", "restore"},
         NEW b \in switch.todo, Lowest(b),
         MayApply(b, set_head(fd, b)), apply_block(b, set_head(fd, b)),
         switch' = [switch EXCEPT !.todo = @ \ {b}],
         UNCHANGED <<pc, failed, disk, push>>
  PROVE  IndInv' /\ BaseStays
  <1>1. /\ switch.todo \in SUBSET Blocks /\ switch.second \in SUBSET Blocks
        /\ switch.fork \in Blocks \cup {Zero}
        /\ b \in Blocks
        /\ BranchOn(switch.todo, head_block_id)
    BY DEF IndInv, ControlOK, SwitchOnBranch, Branches
  <1>2. Parent[b] = head_block_id
    BY <1>1, LowestOnBase DEF Lowest
  <1>3. Num[b] = Len(chain) + 1
    BY <1>1, <1>2, NextNumber DEF IndInv
  <1>4. set_head(fd, b) \in Fork
    BY <1>1, SetHeadType DEF IndInv, ChainOK
  <1>5. ChainOK' /\ BaseStays /\ head_block_id' = b
    BY <1>1, <1>3, <1>4, ApplyBlock DEF IndInv
  <1>6. head_block_id \in Blocks \cup {Zero}
    BY <1>1, <1>2, ParentAssumption
  <1>7. BranchOn(switch.todo \ {b}, b)
    BY <1>1, <1>6, RestOnLowest DEF Lowest
  <1>8. /\ switch' \in Branches
        /\ switch'.todo = switch.todo \ {b}
        /\ switch'.second = switch.second
        /\ switch'.fork = switch.fork
    BY <1>1 DEF IndInv, ControlOK, Branches
  <1>9. pc \notin Stopped
    BY DEF Stopped
  <1>10. ControlOK'
    BY <1>8, <1>9 DEF IndInv, ControlOK
  <1>11. SwitchOnBranch'
    BY <1>5, <1>7, <1>8 DEF IndInv, SwitchOnBranch, BranchOn
  <1>12. QED BY <1>5, <1>10, <1>11 DEF IndInv

LEMMA SwitchApply ==
  ASSUME IndInv, NEW b \in switch.todo, switch_apply(b)
  PROVE  IndInv' /\ BaseStays
  <1>1. b \in Blocks
    BY DEF IndInv, ControlOK, Branches
  <1>2. ASSUME MayApply(b, set_head(fd, b)), apply_block(b, set_head(fd, b)),
               switch' = [switch EXCEPT !.todo = @ \ {b}],
               UNCHANGED <<pc, failed>>
        PROVE  IndInv' /\ BaseStays
    BY <1>2, Applying DEF switch_apply
  <1>3. ASSUME fd' = remove(set_head(fd, b), switch.todo), pc' = "unwind",
               UNCHANGED <<chain, undoable, log, switch, failed>>
        PROVE  IndInv' /\ BaseStays
    <2>1. fd' \in Fork
      BY <1>1, <1>3, SetHeadType, RemoveType DEF IndInv, ChainOK
    <2>2. ChainOK' /\ BaseStays
      BY <1>3, <2>1, SameChain DEF IndInv
    <2>3. pc' \in Switching /\ pc' \notin Stopped
      BY <1>3 DEF Switching, Stopped
    <2>4. ControlOK'
      BY <1>3, <2>3 DEF switch_apply, IndInv, ControlOK
    <2>5. SwitchOnBranch'
      BY <1>3 DEF switch_apply, IndInv, SwitchOnBranch, BranchOn
    <2>6. QED BY <2>2, <2>4, <2>5 DEF IndInv
  <1>4. QED BY <1>2, <1>3 DEF switch_apply

LEMMA SwitchUnwind ==
  ASSUME IndInv, switch_unwind
  PROVE  IndInv' /\ BaseStays
  <1>1. CASE head_block_id # switch.fork
    BY <1>1, Popping DEF switch_unwind
  <1>2. CASE head_block_id = switch.fork
    <2>1. /\ UNCHANGED <<chain, undoable, log, fd, disk, push, failed>>
          /\ switch' = [switch EXCEPT !.todo = switch.second]
          /\ pc = "unwind" /\ pc' = "restore"
      BY <1>2 DEF switch_unwind
    <2>2. ChainOK' /\ BaseStays /\ head_block_id' = head_block_id
      BY <2>1, SameChain DEF IndInv, ChainOK
    <2>3. pc' \in Switching /\ pc' \notin Stopped
      BY <2>1 DEF Switching, Stopped
    <2>4. switch' \in Branches /\ switch'.todo = switch.second
      BY <2>1 DEF IndInv, ControlOK, Branches
    <2>5. ControlOK'
      BY <2>1, <2>3, <2>4 DEF IndInv, ControlOK
    <2>6. SwitchOnBranch'
      BY <1>2, <2>1, <2>2, <2>4 DEF IndInv, SwitchOnBranch, BranchOn
    <2>7. QED BY <2>2, <2>5, <2>6 DEF IndInv
  <1>3. QED BY <1>1, <1>2

LEMMA SwitchRestore ==
  ASSUME IndInv, NEW b \in switch.todo, switch_restore(b)
  PROVE  IndInv' /\ BaseStays
  <1>1. b \in Blocks
    BY DEF IndInv, ControlOK, Branches
  <1>2. ASSUME MayApply(b, set_head(fd, b)), apply_block(b, set_head(fd, b)),
               switch' = [switch EXCEPT !.todo = @ \ {b}],
               UNCHANGED <<pc, failed>>
        PROVE  IndInv' /\ BaseStays
    BY <1>2, Applying DEF switch_restore
  <1>3. ASSUME fd' = set_head(fd, b), Throw, UNCHANGED <<chain, undoable, log>>
        PROVE  IndInv' /\ BaseStays
    <2>1. ChainOK' /\ BaseStays
      BY <1>1, <1>3, SetHeadType, SameChain DEF IndInv, ChainOK
    <2>2. ControlOK' /\ SwitchOnBranch'
      BY <1>3, BackToIdle DEF switch_restore, Throw, IndInv, ControlOK
    <2>3. QED BY <2>1, <2>2 DEF IndInv
  <1>4. QED BY <1>2, <1>3 DEF switch_restore

LEMMA SwitchEnd ==
  ASSUME IndInv, switch_done \/ switch_rethrow
  PROVE  IndInv' /\ BaseStays
  <1>1. ChainOK' /\ BaseStays
    BY SameChain DEF switch_done, switch_rethrow, IndInv, ChainOK
  <1>2. ControlOK' /\ SwitchOnBranch'
    BY BackToIdle
       DEF switch_done, switch_rethrow, Return, Throw, IndInv, ControlOK
  <1>3. QED BY <1>1, <1>2 DEF IndInv

-----------------------------------------------------------------------------
(* Shutdown, crash and start.                                              *)

LEMMA FlushState ==
  ASSUME IndInv, flush_state
  PROVE  IndInv' /\ BaseStays
  <1>1. ChainOK' /\ BaseStays /\ head_block_id' = head_block_id
    BY SameChain DEF flush_state, IndInv, ChainOK
  <1>2. ControlOK'
    BY DEF flush_state, IndInv, ControlOK, ChainOK, NumbersMatch
  <1>3. SwitchOnBranch'
    BY <1>1 DEF flush_state, IndInv, SwitchOnBranch, BranchOn
  <1>4. QED BY <1>1, <1>2, <1>3 DEF IndInv

(* A stopped node has no session and no switch under way. *)
LEMMA Stopping ==
  ASSUME ControlOK, pc' \in Stopped, undoable' = 0, switch' \in Branches,
         failed' \in BOOLEAN, UNCHANGED push,
         disk' \in Seq(Blocks), \A n \in 1 .. Len(disk') : Num[disk'[n]] = n
  PROVE  ControlOK' /\ SwitchOnBranch'
  <1>1. ControlOK'
    BY DEF ControlOK
  <1>2. SwitchOnBranch'
    BY DEF SwitchOnBranch, Stopped
  <1>3. QED BY <1>1, <1>2

LEMMA Closed ==
  ASSUME IndInv, close
  PROVE  IndInv'
  <1>1. /\ chain \in Seq(Blocks) /\ Len(chain) \in Nat
        /\ Base \in 0 .. Len(chain)
    BY DEF IndInv, ChainOK, Base
  <1>2. /\ chain' \in Seq(Blocks) /\ Len(chain') = Base
        /\ \A n \in 1 .. Base : chain'[n] = chain[n]
        /\ disk' = chain'
    BY <1>1, PrefixFacts DEF close
  <1>3. undoable' = 0 /\ fd' \in Fork /\ log' = log
    BY NoForkType DEF close
  <1>4. NumbersMatch'
    BY <1>1, <1>2 DEF IndInv, ChainOK, NumbersMatch
  <1>5. LogNumbers'
    BY <1>3 DEF IndInv, ChainOK, LogNumbers
  <1>6. Base' = Base
    BY <1>1, <1>2, <1>3 DEF Base
  <1>7. LogCommitted'
    BY <1>3, <1>6 DEF IndInv, ChainOK, LogCommitted
  <1>8. ChainOK'
    BY <1>1, <1>2, <1>3, <1>4, <1>5, <1>7 DEF IndInv, ChainOK
  <1>9. ControlOK' /\ SwitchOnBranch'
    <2>1. pc' \in Stopped
      BY DEF close, Stopped
    <2>2. /\ switch' \in Branches /\ failed' \in BOOLEAN /\ push' = push
          /\ \A n \in 1 .. Len(disk') : Num[disk'[n]] = n
      BY <1>2, <1>4 DEF close, IndInv, ControlOK, NumbersMatch
    <2>3. QED BY <1>2, <1>3, <2>1, <2>2, Stopping DEF IndInv
  <1>10. QED BY <1>8, <1>9 DEF IndInv

LEMMA Crashed ==
  ASSUME IndInv, crash
  PROVE  IndInv'
  <1>1. /\ chain' = disk /\ undoable' = 0 /\ log' = log /\ disk' = disk
        /\ fd' \in Fork
    BY NoForkType DEF crash
  <1>2. LogCommitted'
    BY DEF crash, LogCommitted
  <1>3. ChainOK'
    BY <1>1, <1>2
       DEF IndInv, ChainOK, ControlOK, NumbersMatch, LogNumbers
  <1>4. ControlOK' /\ SwitchOnBranch'
    <2>1. NoSwitch \in Branches
      BY DEF NoSwitch, Branches
    <2>2. QED BY <1>1, <2>1, Stopping DEF crash, IndInv, ControlOK
  <1>5. QED BY <1>3, <1>4 DEF IndInv

LEMMA Opened ==
  ASSUME IndInv, open
  PROVE  IndInv'
  <1>1. fd' \in Fork
    <2>1. CASE chain = <<>>
      BY <2>1, NoForkType DEF open
    <2>2. CASE chain # <<>>
      BY <2>2, HeadFacts, StartBlockType DEF open, IndInv
    <2>3. QED BY <2>1, <2>2
  <1>2. ChainOK'
    BY <1>1, SameChain DEF open, IndInv
  <1>3. ControlOK'
    BY DEF open, IndInv, ControlOK, Stopped
  <1>4. SwitchOnBranch'
    BY DEF open, SwitchOnBranch
  <1>5. QED BY <1>2, <1>3, <1>4 DEF IndInv

LEMMA Reindexed ==
  ASSUME IndInv, reindex
  PROVE  IndInv'
  <1>1. /\ chain' = log /\ log' = log /\ disk' = log
        /\ undoable' = undoable /\ undoable = 0
        /\ pc' \in {"down", "idle"}
        /\ UNCHANGED <<switch, push, failed>>
    BY DEF reindex, IndInv, ControlOK
  <1>2. fd' \in Fork
    <2>1. CASE log = <<>>
      BY <2>1, NoForkType DEF reindex
    <2>2. CASE log # <<>>
      <3>1. Len(log) \in 1 .. Len(log)
        BY <2>2, EmptySeq DEF IndInv, ChainOK
      <3>2. log[Len(log)] \in Blocks
        BY <3>1, ElementOfSeq DEF IndInv, ChainOK
      <3>3. QED BY <2>2, <3>2, StartBlockType DEF reindex
    <2>3. QED BY <2>1, <2>2
  <1>3. LogCommitted'
    BY <1>1 DEF IndInv, ChainOK, LogCommitted, Base
  <1>4. ChainOK'
    BY <1>1, <1>2, <1>3 DEF IndInv, ChainOK, NumbersMatch, LogNumbers
  <1>5. ControlOK'
    BY <1>1 DEF IndInv, ChainOK, ControlOK, LogNumbers, Stopped
  <1>6. SwitchOnBranch'
    BY <1>1 DEF SwitchOnBranch
  <1>7. QED BY <1>4, <1>5, <1>6 DEF IndInv

-----------------------------------------------------------------------------
(* The theorems.                                                           *)

LEMMA Initially ==
  ASSUME Init
  PROVE  IndInv
  <1> DEFINE n == Len(Trunk)
             kept == {Trunk[k] : k \in {m \in 1 .. n : m >= lib(n) - 1}}
  <1>1. Trunk \in Seq(Blocks) /\ n \in Nat
    BY TrunkAssumption
  <1>2. lib(n) \in 0 .. n
    BY <1>1, LibFacts
  <1>3. /\ log \in Seq(Blocks) /\ Len(log) = lib(n)
        /\ \A k \in 1 .. lib(n) : log[k] = Trunk[k]
    BY <1>1, <1>2, PrefixFacts DEF Init
  <1>4. chain = Trunk /\ undoable = n - lib(n)
    BY DEF Init
  <1>5. fd \in Fork
    <2>1. \A k \in 1 .. n : Trunk[k] \in Blocks
      BY <1>1, ElementOfSeq
    <2>2. kept \subseteq Blocks
      BY <2>1
    <2>3. CASE n = 0
      BY <2>3, NoForkType DEF Init
    <2>4. CASE n # 0
      <3>1. Trunk[n] \in Blocks
        BY <1>1, <2>1, <2>4
      <3>2. (Parent[Trunk[n]] \in kept) \in BOOLEAN
        OBVIOUS
      <3>3. fd = [index |-> kept,
                  linked |-> {b \in kept : Parent[b] \in kept},
                  unlinked |-> {},
                  head |-> Trunk[n],
                  head_linked |-> Parent[Trunk[n]] \in kept]
        BY <2>4 DEF Init
      <3> HIDE DEF kept
      <3>4. QED BY <2>2, <3>1, <3>2, <3>3 DEF Fork
    <2>5. QED BY <2>3, <2>4
  <1>6. LogCommitted
    BY <1>1, <1>2, <1>3, <1>4 DEF LogCommitted, Base
  <1>7. NumbersMatch /\ LogNumbers
    <2>1. \A k \in 1 .. n : Num[Trunk[k]] = k
      BY TrunkAssumption
    <2>2. QED BY <1>1, <1>2, <1>3, <1>4, <2>1 DEF NumbersMatch, LogNumbers
  <1>8. ChainOK
    BY <1>1, <1>2, <1>3, <1>4, <1>5, <1>6, <1>7 DEF ChainOK
  <1>9. ControlOK
    <2>1. NoSwitch \in Branches
      BY DEF NoSwitch, Branches
    <2>2. disk \in Seq(Blocks) /\ \A k \in 1 .. Len(disk) : Num[disk[k]] = k
      BY DEF Init
    <2>3. push \in Pushes
      BY <1>1 DEF Init, Pushes
    <2>4. QED BY <1>1, <2>1, <2>2, <2>3 DEF Init, ControlOK, Stopped
  <1>10. SwitchOnBranch
    BY DEF Init, SwitchOnBranch
  <1>11. QED BY <1>8, <1>9, <1>10 DEF IndInv

LEMMA Stutters ==
  ASSUME IndInv, UNCHANGED vars
  PROVE  IndInv' /\ BaseStays
  <1>1. ChainOK' /\ BaseStays /\ head_block_id' = head_block_id
    BY SameChain DEF vars, IndInv, ChainOK
  <1>2. ControlOK'
    BY DEF vars, IndInv, ControlOK
  <1>3. SwitchOnBranch'
    BY <1>1 DEF vars, IndInv, SwitchOnBranch, BranchOn
  <1>4. QED BY <1>1, <1>2, <1>3 DEF IndInv

(* One step per action. *)
LEMMA Steps ==
  ASSUME IndInv, [Next]_vars
  PROVE  IndInv' /\ CommittedStays
  <1>1. ASSUME BaseStays PROVE CommittedStays
    BY <1>1 DEF BaseStays, CommittedStays
  <1>2. ASSUME NEW b \in Blocks, push_refused(b)
        PROVE  IndInv' /\ BaseStays
    BY <1>2, Refused
  <1>3. ASSUME NEW b \in Blocks, push_direct(b)
        PROVE  IndInv' /\ BaseStays
    BY <1>3, Direct
  <1>4. ASSUME NEW b \in Blocks, push_kept(b)
        PROVE  IndInv' /\ BaseStays
    BY <1>4, Kept
  <1>5. ASSUME NEW b \in Blocks, push_switch(b)
        PROVE  IndInv' /\ BaseStays
    BY <1>5, Switched
  <1>6. CASE switch_pop
    BY <1>1, <1>6, SwitchPop
  <1>7. ASSUME NEW b \in switch.todo, switch_apply(b)
        PROVE  IndInv' /\ BaseStays
    BY <1>7, SwitchApply
  <1>8. CASE switch_done \/ switch_rethrow
    BY <1>1, <1>8, SwitchEnd
  <1>9. CASE switch_unwind
    BY <1>1, <1>9, SwitchUnwind
  <1>10. ASSUME NEW b \in switch.todo, switch_restore(b)
         PROVE  IndInv' /\ BaseStays
    BY <1>10, SwitchRestore
  <1>11. CASE flush_state
    BY <1>1, <1>11, FlushState
  <1>12. CASE close
    <2>1. pc' \in Stopped
      BY <1>12 DEF close, Stopped
    <2>2. QED BY <1>12, <2>1, Closed DEF CommittedStays
  <1>13. CASE crash
    <2>1. pc' \in Stopped
      BY <1>13 DEF crash
    <2>2. QED BY <1>13, <2>1, Crashed DEF CommittedStays
  <1>14. CASE open
    <2>1. pc \in Stopped
      BY <1>14 DEF open, Stopped
    <2>2. QED BY <1>14, <2>1, Opened DEF CommittedStays
  <1>15. CASE reindex
    <2>1. pc \in Stopped
      BY <1>15 DEF reindex
    <2>2. QED BY <1>15, <2>1, Reindexed DEF CommittedStays
  <1>16. CASE UNCHANGED vars
    BY <1>1, <1>16, Stutters
  <1>17. QED BY <1>1, <1>2, <1>3, <1>4, <1>5, <1>6, <1>7, <1>8, <1>9, <1>10,
                <1>11, <1>12, <1>13, <1>14, <1>15, <1>16 DEF Next

(* The inductive invariant holds in every state that pushes, switches,     *)
(* shutdowns, crashes and starts can reach.                                *)
THEOREM Invariance == Spec => []IndInv
  <1>1. Init => IndInv
    BY Initially
  <1>2. IndInv /\ [Next]_vars => IndInv'
    BY Steps
  <1>3. QED BY <1>1, <1>2, PTL DEF Spec

(* Type correctness: every variable of the node keeps its type. *)
THEOREM TypeCorrect == Spec => []TypeOK
  <1>1. IndInv => TypeOK
    BY DEF IndInv, ChainOK, ControlOK, TypeOK
  <1>2. QED BY <1>1, Invariance, PTL

(* The n-th applied block has number n, whatever arrives, fails, is popped *)
(* or is lost in a crash, although _apply_block never looks at previous.   *)
THEOREM NumbersAlwaysMatch == Spec => []NumbersMatch
  <1>1. IndInv => NumbersMatch
    BY DEF IndInv, ChainOK
  <1>2. QED BY <1>1, Invariance, PTL

(* The blocks a switch has left to apply are a branch on the head. *)
THEOREM SwitchAlwaysOnBranch == Spec => []SwitchOnBranch
  <1>1. IndInv => SwitchOnBranch
    BY DEF IndInv
  <1>2. QED BY <1>1, Invariance, PTL

(* Without crashes the block log never runs ahead of the committed state:  *)
(* migrate_irreversible_state and commit() go together.                    *)
THEOREM LogAlwaysCommitted == Spec => []LogCommitted
  <1>1. IndInv => LogCommitted
    BY DEF IndInv, ChainOK
  <1>2. QED BY <1>1, Invariance, PTL

(* No step of a running node takes back or replaces a block below the      *)
(* oldest undo session, and that point never moves down.                   *)
THEOREM CommittedIsFinal == Spec => CommittedNeverUndone
  <1>1. IndInv /\ [Next]_vars => [CommittedStays]_vars
    BY Steps
  <1>2. QED BY <1>1, Invariance, PTL DEF Spec, CommittedNeverUndone

-----------------------------------------------------------------------------
(* The plugins that observe the chain (BlockObservers).                    *)

Earliest(n) == get_earliest_tracked_block_num(n)

(* wallet_history has the irreversible blocks of the state in memory and   *)
(* of the one that a crash would leave behind.  What reindex() has applied *)
(* makes no volatile operations and must stay below the undo stack.        *)
HistoryInv ==
    /\ replayed \in Nat
    /\ replayed <= Base /\ replayed <= Len(disk)
    /\ \A n \in 1 .. replayed : chain[n] \in stored /\ disk[n] \in stored
    /\ \A n \in 1 .. lib(Len(chain)) : chain[n] \in stored
    /\ \A n \in 1 .. lib(Len(disk)) : disk[n] \in stored

(* Pops do not go below Base, so the range that a later, shorter chain may *)
(* ask for begins at Earliest(Base).                                       *)
StatusInv ==
    /\ statused \in [state : SUBSET Blocks, disk : SUBSET Blocks]
    /\ tracking \in BOOLEAN
    /\ TrackAfter <= Len(chain) => tracking
    /\ \A n \in Earliest(Base) .. Len(chain) : chain[n] \in statused.state
    /\ \A n \in Earliest(Len(disk)) .. Len(disk) : disk[n] \in statused.disk
    /\ pc \in Stopped => CanClose \/ CanCrash

(* The step takes blocks off the chain, or none. *)
Shortens == /\ Len(chain') <= Len(chain)
            /\ \A n \in 1 .. Len(chain') : chain'[n] = chain[n]

LEMMA ChainFacts ==
  ASSUME IndInv
  PROVE  /\ chain \in Seq(Blocks) /\ Len(chain) \in Nat
         /\ Base \in 0 .. Len(chain) /\ lib(Len(chain)) \in 0 .. Len(chain)
         /\ disk \in Seq(Blocks) /\ Len(disk) \in Nat
         /\ lib(Len(disk)) \in 0 .. Len(disk)
         /\ log \in Seq(Blocks) /\ Len(log) \in Nat
  <1>1. /\ chain \in Seq(Blocks) /\ Len(chain) \in Nat
        /\ disk \in Seq(Blocks) /\ Len(disk) \in Nat
        /\ log \in Seq(Blocks) /\ Len(log) \in Nat
        /\ undoable \in 0 .. Len(chain)
    BY DEF IndInv, ChainOK, ControlOK
  <1>2. Base \in 0 .. Len(chain)
    BY <1>1 DEF Base
  <1>3. QED BY <1>1, <1>2, LibFacts

LEMMA NextFacts ==
  ASSUME IndInv'
  PROVE  /\ chain' \in Seq(Blocks) /\ Len(chain') \in Nat
         /\ Base' \in 0 .. Len(chain') /\ lib(Len(chain')) \in 0 .. Len(chain')
         /\ disk' \in Seq(Blocks) /\ Len(disk') \in Nat
         /\ lib(Len(disk')) \in 0 .. Len(disk')
  <1>1. /\ chain' \in Seq(Blocks) /\ Len(chain') \in Nat
        /\ disk' \in Seq(Blocks) /\ Len(disk') \in Nat
        /\ undoable' \in 0 .. Len(chain')
    BY DEF IndInv, ChainOK, ControlOK
  <1>2. Base' \in 0 .. Len(chain')
    BY <1>1 DEF Base
  <1>3. QED BY <1>1, <1>2, LibFacts

LEMMA LibMonotone ==
  ASSUME NEW m \in Nat, NEW n \in Nat, m <= n
  PROVE  lib(m) <= lib(n)
  BY LibDepthAssumption DEF lib, Max0

LEMMA EarliestFacts ==
  ASSUME NEW m \in Nat, NEW n \in Nat, m <= n
  PROVE  /\ Earliest(m) \in Nat /\ Earliest(n) \in Nat
         /\ Earliest(m) <= Earliest(n)
         /\ Earliest(m) > TrackAfter /\ Earliest(m) > 0
  BY StatusAssumption DEF Earliest, get_earliest_tracked_block_num, Max0

(* A block that is applied has the next number. *)
LEMMA AppendedFacts ==
  ASSUME IndInv, IndInv', NEW b \in Blocks, chain' = Append(chain, b)
  PROVE  /\ Len(chain') = Len(chain) + 1
         /\ \A n \in 1 .. Len(chain) : chain'[n] = chain[n]
         /\ chain'[Len(chain) + 1] = b
         /\ Num[b] = Len(chain')
  <1>1. chain \in Seq(Blocks) /\ Len(chain) \in Nat
    BY ChainFacts
  <1>2. /\ Len(chain') = Len(chain) + 1
        /\ \A n \in 1 .. Len(chain) : chain'[n] = chain[n]
        /\ chain'[Len(chain) + 1] = b
    BY <1>1, AppendProperties
  <1>3. Len(chain') \in 1 .. Len(chain')
    BY <1>1, <1>2
  <1>4. QED BY <1>2, <1>3 DEF IndInv, ChainOK, NumbersMatch

(* What pops and failures leave of the operations. *)
LEMMA HistoryShortened ==
  ASSUME IndInv, IndInv', HistoryInv, BaseStays, Shortens,
         stored \subseteq stored', UNCHANGED <<replayed, disk>>
  PROVE  HistoryInv'
  <1>1. lib(Len(chain')) <= lib(Len(chain)) /\ lib(Len(chain')) <= Len(chain')
    BY ChainFacts, NextFacts, LibMonotone DEF Shortens
  <1>2. Base \in Nat /\ Base' \in Nat /\ Base' >= Base /\ Base' <= Len(chain')
    BY ChainFacts, NextFacts DEF BaseStays
  <1>3. replayed' = replayed /\ replayed \in Nat /\ replayed <= Base
    BY DEF HistoryInv
  <1>4. \A n \in 1 .. replayed : chain'[n] \in stored'
    BY <1>2, <1>3, ChainFacts DEF HistoryInv, BaseStays
  <1>5. \A n \in 1 .. lib(Len(chain')) : chain'[n] \in stored'
    <2>1. \A n \in 1 .. lib(Len(chain')) : n \in 1 .. lib(Len(chain)) /\ n \in 1 .. Len(chain')
      BY <1>1, ChainFacts, NextFacts
    <2>2. QED BY <2>1 DEF HistoryInv, Shortens
  <1>6. QED BY <1>2, <1>3, <1>4, <1>5 DEF HistoryInv

(* Applying a block imports exactly what becomes irreversible with it. *)
LEMMA HistoryApplied ==
  ASSUME IndInv, IndInv', HistoryInv, BaseStays, NEW b \in Blocks,
         chain' = Append(chain, b), on_irreversible_block(b), UNCHANGED disk
  PROVE  HistoryInv'
  <1>1. /\ Len(chain') = Len(chain) + 1
        /\ \A n \in 1 .. Len(chain) : chain'[n] = chain[n]
        /\ Num[b] = Len(chain')
    BY AppendedFacts
  <1>2. /\ Base \in Nat /\ Base' \in Nat /\ Base' >= Base
        /\ Base <= Len(chain) /\ Len(chain) \in Nat
    BY ChainFacts, NextFacts DEF BaseStays
  <1>3. /\ replayed' = replayed /\ replayed \in Nat /\ replayed <= Base
        /\ stored' = stored \cup Imported(b)
    BY DEF HistoryInv, on_irreversible_block
  <1>4. \A n \in 1 .. replayed : chain'[n] \in stored'
    BY <1>1, <1>2, <1>3 DEF HistoryInv
  <1>5. ASSUME NEW n \in 1 .. lib(Len(chain'))
        PROVE  chain'[n] \in stored'
    <2>1. lib(Len(chain')) \in 0 .. Len(chain') /\ lib(Len(chain)) \in 0 .. Len(chain)
      BY ChainFacts, NextFacts
    <2>2. n \in 1 .. Len(chain')
      BY <2>1
    <2>3. CASE n <= replayed
      BY <1>3, <1>4, <2>2, <2>3
    <2>4. CASE n <= lib(Len(chain))
      BY <1>1, <1>3, <2>1, <2>2, <2>4 DEF HistoryInv
    <2>5. CASE n > replayed /\ n > lib(Len(chain))
      <3>1. n <= lib(Num[b])
        BY <1>1, <2>1
      <3>2. chain'[n] \in Imported(b)
        BY <2>2, <2>5, <3>1 DEF Imported
      <3>3. QED BY <1>3, <3>2
    <2>6. QED BY <1>3, <2>1, <2>2, <2>3, <2>4, <2>5
  <1>6. \A n \in 1 .. replayed : disk'[n] \in stored'
    BY <1>3 DEF HistoryInv
  <1>7. \A n \in 1 .. lib(Len(disk')) : disk'[n] \in stored'
    BY <1>3 DEF HistoryInv
  <1>8. replayed' <= Base' /\ replayed' <= Len(disk')
    BY <1>2, <1>3 DEF HistoryInv
  <1>9. QED BY <1>3, <1>4, <1>5, <1>6, <1>7, <1>8 DEF HistoryInv, lib, Max0

-----------------------------------------------------------------------------
(* The same for the table of statuses.                                     *)

LEMMA StatusShortened ==
  ASSUME IndInv, IndInv', StatusInv, BaseStays, Shortens,
         statused'.disk = statused.disk,
         statused' \in [state : SUBSET Blocks, disk : SUBSET Blocks],
         statused.state \cap BlocksOf(chain') \subseteq statused'.state,
         tracking' \in BOOLEAN, tracking => tracking',
         pc' \notin Stopped, UNCHANGED disk
  PROVE  StatusInv'
  <1>1. /\ Base \in Nat /\ Base' \in Nat /\ Base' >= Base
        /\ Len(chain) \in Nat /\ Len(chain') \in Nat
        /\ Len(chain') <= Len(chain)
    BY ChainFacts, NextFacts DEF BaseStays, Shortens
  <1>2. ASSUME NEW n \in Earliest(Base') .. Len(chain')
        PROVE  chain'[n] \in statused'.state
    <2>0. /\ Earliest(Base) \in Nat /\ Earliest(Base') \in Nat
          /\ Earliest(Base) <= Earliest(Base') /\ Earliest(Base) > 0
      BY <1>1, EarliestFacts
    <2>1. n \in Earliest(Base) .. Len(chain) /\ n \in 1 .. Len(chain')
      BY <1>1, <2>0
    <2>2. chain'[n] \in statused.state /\ chain'[n] \in BlocksOf(chain')
      BY <2>1 DEF StatusInv, Shortens, BlocksOf
    <2>3. QED BY <2>2
  <1>3. TrackAfter <= Len(chain') => tracking'
    BY <1>1, StatusAssumption DEF StatusInv
  <1>4. Earliest(Base)' = Earliest(Base')
    BY DEF Earliest, get_earliest_tracked_block_num
  <1>5. QED BY <1>2, <1>3, <1>4 DEF StatusInv, Earliest, get_earliest_tracked_block_num

LEMMA StatusApplied ==
  ASSUME IndInv, IndInv', StatusInv, BaseStays, NEW b \in Blocks,
         chain' = Append(chain, b), on_post_apply_block(b),
         pc' \notin Stopped, UNCHANGED disk
  PROVE  StatusInv'
  <1>1. /\ Len(chain') = Len(chain) + 1
        /\ \A n \in 1 .. Len(chain) : chain'[n] = chain[n]
        /\ chain'[Len(chain) + 1] = b
        /\ Num[b] = Len(chain')
    BY AppendedFacts
  <1>2. /\ Base \in Nat /\ Base' \in Nat /\ Base' >= Base /\ Len(chain) \in Nat
    BY ChainFacts, NextFacts DEF BaseStays
  <1>3. /\ statused' \in [state : SUBSET Blocks, disk : SUBSET Blocks]
        /\ statused'.disk = statused.disk
        /\ statused'.state = IF tracking THEN statused.state \cup {b}
                             ELSE statused.state \ {b}
    BY DEF StatusInv, on_post_apply_block
  <1>4. tracking \in BOOLEAN /\ tracking' \in BOOLEAN
    BY DEF StatusInv, on_post_apply_block, Activates
  <1>5. TrackAfter <= Len(chain') => tracking'
    BY <1>1 DEF on_post_apply_block, Activates
  <1>6. ASSUME NEW n \in Earliest(Base') .. Len(chain')
        PROVE  chain'[n] \in statused'.state
    <2>0. /\ Earliest(Base) \in Nat /\ Earliest(Base') \in Nat
          /\ Earliest(Base) <= Earliest(Base') /\ Earliest(Base) > 0
          /\ Earliest(Base) > TrackAfter /\ TrackAfter \in Nat
      BY <1>2, EarliestFacts, StatusAssumption
    <2>1. n > TrackAfter /\ n \in Earliest(Base) .. Len(chain') /\ n \in 1 .. Len(chain')
      BY <1>1, <1>2, <2>0
    <2>2. tracking
      BY <1>1, <1>2, <2>1, StatusAssumption DEF StatusInv
    <2>3. statused'.state = statused.state \cup {b}
      BY <1>3, <2>2
    <2>4. CASE n = Len(chain')
      BY <1>1, <1>2, <2>3, <2>4
    <2>5. CASE n # Len(chain')
      <3>1. n \in 1 .. Len(chain) /\ n \in Earliest(Base) .. Len(chain)
        BY <1>1, <1>2, <2>0, <2>1, <2>5
      <3>2. QED BY <1>1, <2>3, <3>1 DEF StatusInv
    <2>6. QED BY <2>4, <2>5
  <1>7. QED BY <1>3, <1>4, <1>5, <1>6
            DEF StatusInv, Earliest, get_earliest_tracked_block_num

-----------------------------------------------------------------------------
(* The steps of the chain as the observers see them.                       *)

LEMMA SameShortens ==
  ASSUME UNCHANGED chain, Len(chain) \in Nat
  PROVE  Shortens
  BY DEF Shortens

LEMMA PopShortens ==
  ASSUME IndInv, pop_head, pc \in {"pop", "unwind"}
  PROVE  Shortens /\ pc' \notin Stopped
  <1>1. chain \in Seq(Blocks) /\ Len(chain) \in Nat /\ undoable \in 0 .. Len(chain)
    BY DEF IndInv, ChainOK
  <1>2. CASE CanPopBlock /\ undoable > 0
    <2>1. Len(chain) - 1 \in 0 .. Len(chain)
      BY <1>1, <1>2
    <2>2. QED BY <1>1, <1>2, <2>1, PrefixFacts DEF pop_head, Undone, Shortens, Stopped
  <1>3. CASE CanPopBlock /\ ~ (undoable > 0)
    BY <1>1, <1>3, SameShortens DEF pop_head, Undone, Stopped
  <1>4. CASE ~ CanPopBlock
    BY <1>1, <1>4, SameShortens DEF pop_head, Throw, Stopped
  <1>5. QED BY <1>2, <1>3, <1>4

(* A step that no observer is told of, but for what an undo takes along. *)
LEMMA UnobservedSteps ==
  ASSUME IndInv, unobserved
  PROVE  IndInv' /\ BaseStays /\ Shortens /\ pc' \notin Stopped /\ UNCHANGED disk
  <1>1. Len(chain) \in Nat
    BY ChainFacts
  <1>2. ASSUME NEW b \in Blocks, push_refused(b)
        PROVE  IndInv' /\ BaseStays /\ Shortens /\ pc' \notin Stopped /\ UNCHANGED disk
    BY <1>1, <1>2, Refused, SameShortens DEF push_refused, Throw, Stopped
  <1>3. ASSUME NEW b \in Blocks, push_kept(b)
        PROVE  IndInv' /\ BaseStays /\ Shortens /\ pc' \notin Stopped /\ UNCHANGED disk
    BY <1>1, <1>3, Kept, SameShortens DEF push_kept, Return, Stopped
  <1>4. ASSUME NEW b \in Blocks, push_switch(b)
        PROVE  IndInv' /\ BaseStays /\ Shortens /\ pc' \notin Stopped /\ UNCHANGED disk
    <2>1. pc' \in {"pop", "idle"} /\ UNCHANGED <<chain, disk>>
      BY <1>4 DEF push_switch, Throw
    <2>2. QED BY <1>1, <1>4, <2>1, Switched, SameShortens DEF Stopped
  <1>5. CASE switch_pop
    <2>1. IndInv' /\ BaseStays
      BY <1>5, SwitchPop
    <2>2. UNCHANGED disk
      BY <1>5 DEF switch_pop
    <2>3. CASE head_block_id # switch.fork
      BY <1>5, <2>1, <2>2, <2>3, PopShortens DEF switch_pop
    <2>4. CASE head_block_id = switch.fork
      BY <1>1, <1>5, <2>1, <2>2, <2>4, SameShortens DEF switch_pop, Stopped
    <2>5. QED BY <2>3, <2>4
  <1>6. CASE switch_unwind
    <2>1. IndInv' /\ BaseStays
      BY <1>6, SwitchUnwind
    <2>2. UNCHANGED disk
      BY <1>6 DEF switch_unwind
    <2>3. CASE head_block_id # switch.fork
      BY <1>6, <2>1, <2>2, <2>3, PopShortens DEF switch_unwind
    <2>4. CASE head_block_id = switch.fork
      BY <1>1, <1>6, <2>1, <2>2, <2>4, SameShortens DEF switch_unwind, Stopped
    <2>5. QED BY <2>3, <2>4
  <1>7. CASE switch_done \/ switch_rethrow
    BY <1>1, <1>7, SwitchEnd, SameShortens
       DEF switch_done, switch_rethrow, Return, Throw, Stopped
  <1>8. QED BY <1>2, <1>3, <1>4, <1>5, <1>6, <1>7 DEF unobserved

(* A step that applies a block or fails to. *)
ObservedStep(b) == \/ push_observed(b)
                   \/ b \in switch.todo /\ apply_observed(b)
                   \/ b \in switch.todo /\ restore_observed(b)

LEMMA ObservedSteps ==
  ASSUME IndInv, NEW b \in Blocks, ObservedStep(b)
  PROVE  /\ IndInv' /\ BaseStays /\ pc' \notin Stopped /\ UNCHANGED disk
         /\ Observed(b)
  <1>1. CASE push_observed(b)
    <2>1. push_direct(b) /\ Observed(b)
      BY <1>1 DEF push_observed
    <2>2. pc' = "idle" /\ UNCHANGED disk
      BY <2>1 DEF push_direct, Return, Throw
    <2>3. QED BY <2>1, <2>2, Direct DEF Stopped
  <1>2. CASE b \in switch.todo /\ apply_observed(b)
    <2>1. switch_apply(b) /\ Observed(b)
      BY <1>2 DEF apply_observed
    <2>2. pc' \in {"apply", "unwind"} /\ UNCHANGED disk
      BY <2>1 DEF switch_apply
    <2>3. QED BY <1>2, <2>1, <2>2, SwitchApply DEF Stopped
  <1>3. CASE b \in switch.todo /\ restore_observed(b)
    <2>1. switch_restore(b) /\ Observed(b)
      BY <1>3 DEF restore_observed
    <2>2. pc' \in {"restore", "idle"} /\ UNCHANGED disk
      BY <2>1 DEF switch_restore, Throw
    <2>3. QED BY <1>3, <2>1, <2>2, SwitchRestore DEF Stopped
  <1>4. QED BY <1>1, <1>2, <1>3 DEF ObservedStep

(* The steps of the observers are steps of the chain. *)
LEMMA ObserverSteps ==
  ASSUME IndInv, [ObserverNext]_observed_vars
  PROVE  IndInv'
  <1>1. CASE unobserved
    BY <1>1, UnobservedSteps
  <1>2. ASSUME NEW b \in Blocks, push_observed(b)
        PROVE  IndInv'
    BY <1>2, ObservedSteps DEF ObservedStep
  <1>3. ASSUME NEW b \in switch.todo, apply_observed(b)
        PROVE  IndInv'
    BY <1>3, SwitchApply DEF apply_observed
  <1>4. ASSUME NEW b \in switch.todo, restore_observed(b)
        PROVE  IndInv'
    BY <1>4, SwitchRestore DEF restore_observed
  <1>5. CASE flush_observed
    BY <1>5, FlushState DEF flush_observed
  <1>6. CASE close_observed
    BY <1>6, Closed DEF close_observed
  <1>7. CASE crash_observed
    BY <1>7, Crashed DEF crash_observed
  <1>8. CASE open_observed
    BY <1>8, Opened DEF open_observed
  <1>9. CASE reindex_observed
    BY <1>9, Reindexed DEF reindex_observed
  <1>10. CASE UNCHANGED observed_vars
    BY <1>10, Stutters DEF observed_vars
  <1>11. QED BY <1>1, <1>2, <1>3, <1>4, <1>5, <1>6, <1>7, <1>8, <1>9, <1>10
             DEF ObserverNext

LEMMA ObserverInvariance == ObserverSpec => []IndInv
  <1>1. ObserverInit => IndInv
    BY Initially DEF ObserverInit
  <1>2. IndInv /\ [ObserverNext]_observed_vars => IndInv'
    BY ObserverSteps
  <1>3. QED BY <1>1, <1>2, PTL DEF ObserverSpec

-----------------------------------------------------------------------------
(* wallet_history.                                                         *)

LEMMA HistoryObserved ==
  ASSUME IndInv, IndInv', HistoryInv, BaseStays, UNCHANGED disk,
         NEW b \in Blocks, Observed(b)
  PROVE  HistoryInv'
  <1>1. CASE chain' = Append(chain, b) /\ on_irreversible_block(b)
    BY <1>1, HistoryApplied
  <1>2. CASE /\ chain' = chain
             /\ UNCHANGED history_vars \/ on_irreversible_block(b)
    <2>1. stored \subseteq stored' /\ UNCHANGED replayed
      BY <1>2 DEF history_vars, on_irreversible_block
    <2>2. Shortens
      BY <1>2, ChainFacts, SameShortens
    <2>3. QED BY <2>1, <2>2, HistoryShortened
  <1>3. QED BY <1>1, <1>2 DEF Observed

(* The state that starts again is one whose blocks were imported. *)
LEMMA HistoryRestarts ==
  ASSUME IndInv, IndInv', HistoryInv, UNCHANGED history_vars,
         chain' \in {chain, SubSeq(chain, 1, Base), disk},
         disk' \in {disk, chain'},
         chain' = chain => Base' = Base,
         chain' # chain => undoable' = 0
  PROVE  HistoryInv'
  <1>1. UNCHANGED <<stored, replayed>>
    BY DEF history_vars
  <1>2. /\ Base \in 0 .. Len(chain) /\ Len(chain) \in Nat /\ Len(disk) \in Nat
        /\ lib(Len(chain)) \in 0 .. Len(chain)
    BY ChainFacts
  <1>3. /\ replayed <= Base'
        /\ replayed <= Len(chain')
        /\ \A n \in 1 .. replayed : chain'[n] \in stored
        /\ \A n \in 1 .. lib(Len(chain')) : chain'[n] \in stored
    <2>1. CASE chain' = chain
      BY <1>2, <2>1 DEF HistoryInv
    <2>2. CASE chain' # chain /\ chain' = SubSeq(chain, 1, Base)
      <3>1. Len(chain') = Base /\ \A k \in 1 .. Base : chain'[k] = chain[k]
        BY <1>2, <2>2, ChainFacts, PrefixFacts
      <3>2. Base' = Base
        BY <1>2, <2>2, <3>1 DEF Base
      <3>3. lib(Base) \in 0 .. Base /\ lib(Base) <= lib(Len(chain))
        BY <1>2, LibFacts, LibMonotone
      <3>4. \A n \in 1 .. lib(Base) : n \in 1 .. lib(Len(chain)) /\ n \in 1 .. Base
        BY <1>2, <3>3
      <3>5. replayed \in Nat /\ replayed <= Base
        BY DEF HistoryInv
      <3>6. \A n \in 1 .. replayed : n \in 1 .. Base
        BY <1>2, <3>5
      <3>7. QED BY <3>1, <3>2, <3>4, <3>5, <3>6 DEF HistoryInv
    <2>3. CASE chain' # chain /\ chain' = disk
      <3>1. Base' = Len(disk)
        BY <1>2, <2>3 DEF Base
      <3>2. QED BY <2>3, <3>1 DEF HistoryInv
    <2>4. QED BY <2>1, <2>2, <2>3
  <1>4. /\ replayed <= Len(disk')
        /\ \A n \in 1 .. replayed : disk'[n] \in stored
        /\ \A n \in 1 .. lib(Len(disk')) : disk'[n] \in stored
    <2>1. CASE disk' = disk
      BY <2>1 DEF HistoryInv
    <2>2. CASE disk' = chain'
      BY <1>3, <2>2
    <2>3. QED BY <2>1, <2>2
  <1>5. QED BY <1>1, <1>3, <1>4 DEF HistoryInv, lib, Max0

LEMMA HistoryReindexed ==
  ASSUME IndInv, IndInv', reindex, history_reindexed
  PROVE  HistoryInv'
  <1>1. /\ chain' = log /\ disk' = log /\ undoable' = 0
        /\ stored' = BlocksOf(log) /\ replayed' = Len(log)
    BY DEF reindex, history_reindexed, IndInv, ControlOK
  <1>2. log \in Seq(Blocks) /\ Len(log) \in Nat /\ lib(Len(log)) \in 0 .. Len(log)
    BY ChainFacts, LibFacts
  <1>3. \A n \in 1 .. Len(log) : log[n] \in stored'
    BY <1>1 DEF BlocksOf
  <1>4. \A n \in 1 .. lib(Len(log)) : log[n] \in stored'
    BY <1>2, <1>3
  <1>5. Base' = Len(log)
    BY <1>1, <1>2 DEF Base
  <1>6. QED BY <1>1, <1>2, <1>3, <1>4, <1>5 DEF HistoryInv

LEMMA HistorySteps ==
  ASSUME IndInv, IndInv', HistoryInv, [ObserverNext]_observed_vars
  PROVE  HistoryInv'
  <1>1. CASE unobserved
    BY <1>1, UnobservedSteps, HistoryShortened DEF unobserved, history_vars
  <1>2. ASSUME NEW b \in Blocks, ObservedStep(b)
        PROVE  HistoryInv'
    BY <1>2, ObservedSteps, HistoryObserved
  <1>3. CASE flush_observed
    <2>1. UNCHANGED <<chain, undoable>> /\ disk' = chain' /\ UNCHANGED history_vars
      BY <1>3 DEF flush_observed, flush_state
    <2>2. QED BY <2>1, HistoryRestarts DEF Base
  <1>4. CASE close_observed
    <2>1. /\ chain' = SubSeq(chain, 1, Base) /\ undoable' = 0 /\ disk' = chain'
          /\ UNCHANGED history_vars
      BY <1>4 DEF close_observed, close
    <2>2. chain' = chain => Base' = Base
      <3>1. Len(chain') = Base
        BY <2>1, ChainFacts, PrefixFacts
      <3>2. QED BY <2>1, <3>1, ChainFacts DEF Base
    <2>3. QED BY <2>1, <2>2, HistoryRestarts
  <1>5. CASE crash_observed
    <2>1. chain' = disk /\ undoable' = 0 /\ UNCHANGED <<disk, history_vars>>
      BY <1>5 DEF crash_observed, crash
    <2>2. CASE chain' = chain
      <3>1. Base' = Len(disk)
        BY <2>1, ChainFacts DEF Base
      <3>2. QED BY <2>1, <2>2, <3>1 DEF HistoryInv, history_vars, lib, Max0
    <2>3. CASE chain' # chain
      BY <2>1, <2>3, HistoryRestarts
    <2>4. QED BY <2>2, <2>3
  <1>6. CASE open_observed
    <2>1. UNCHANGED <<chain, undoable, disk>> /\ UNCHANGED history_vars
      BY <1>6 DEF open_observed, open
    <2>2. QED BY <2>1, HistoryRestarts DEF Base
  <1>7. CASE reindex_observed
    BY <1>7, HistoryReindexed DEF reindex_observed
  <1>8. CASE UNCHANGED observed_vars
    BY <1>8, HistoryRestarts DEF observed_vars, vars, Base
  <1>9. switch.todo \subseteq Blocks
    BY DEF IndInv, ControlOK, Branches
  <1>10. QED BY <1>1, <1>2, <1>3, <1>4, <1>5, <1>6, <1>7, <1>8, <1>9
             DEF ObserverNext, ObservedStep

(* The operations of every irreversible block of the chain are in the      *)
(* database of wallet_history, for every tree of blocks and every depth,   *)
(* through fork switches, blocks that fail, shutdowns, crashes and         *)
(* replays, although it imports a block only once, while the one that      *)
(* makes it irreversible is applied.                                       *)
THEOREM HistoryAlwaysComplete == ObserverSpec => []HistoryComplete
  <1>1. ObserverInit => HistoryInv
    <2>1. ASSUME ObserverInit PROVE HistoryInv
      <3>1. /\ chain = Trunk /\ disk = <<>> /\ undoable = Len(Trunk) - lib(Len(Trunk))
            /\ replayed = 0
            /\ stored = {Trunk[k] : k \in 1 .. lib(Len(Trunk))}
        BY <2>1 DEF ObserverInit, Init
      <3>2. Len(Trunk) \in Nat /\ lib(Len(Trunk)) \in 0 .. Len(Trunk) /\ lib(0) = 0
        BY TrunkAssumption, LibFacts
      <3>3. Base = lib(Len(Trunk)) /\ Len(disk) = 0
        BY <3>1, <3>2 DEF Base
      <3>4. QED BY <3>1, <3>2, <3>3 DEF HistoryInv
    <2>2. QED BY <2>1
  <1>2. IndInv /\ IndInv' /\ HistoryInv /\ [ObserverNext]_observed_vars => HistoryInv'
    BY HistorySteps
  <1>3. HistoryInv => HistoryComplete
    BY DEF HistoryInv, HistoryComplete
  <1>4. QED BY <1>1, <1>2, <1>3, ObserverInvariance, PTL DEF ObserverSpec

-----------------------------------------------------------------------------
(* transaction_status.  The flag is in memory only: a start puts it back   *)
(* to off unless tracking begins with the first block.                     *)

StatusOption == TrackAfter = 0 \/ (~ CanClose /\ ~ CanCrash)

Statuses == [state : SUBSET Blocks, disk : SUBSET Blocks]

LEMMA StatusObserved ==
  ASSUME IndInv, IndInv', StatusInv, BaseStays, UNCHANGED disk,
         pc' \notin Stopped, NEW b \in Blocks, Observed(b)
  PROVE  StatusInv'
  <1>1. CASE chain' = Append(chain, b) /\ on_post_apply_block(b)
    BY <1>1, StatusApplied
  <1>2. CASE /\ chain' = chain
             /\ UNCHANGED statused
             /\ UNCHANGED tracking \/ tracking' = Activates(b)
    <2>1. tracking' \in BOOLEAN /\ (tracking => tracking')
      BY <1>2 DEF StatusInv, Activates
    <2>2. Shortens
      BY <1>2, ChainFacts, SameShortens
    <2>3. /\ statused' \in Statuses /\ statused'.disk = statused.disk
          /\ statused.state \cap BlocksOf(chain') \subseteq statused'.state
      BY <1>2 DEF StatusInv, Statuses
    <2>4. QED BY <2>1, <2>2, <2>3, StatusShortened DEF Statuses
  <1>3. QED BY <1>1, <1>2 DEF Observed

(* RocksDB's flush: the statuses of the blocks of the flushed state. *)
LEMMA StatusFlushed ==
  ASSUME IndInv, IndInv', StatusInv, Flushed, UNCHANGED tracking,
         chain' \in {chain, SubSeq(chain, 1, Base)}, Base' = Base, disk' = chain',
         pc' \in Stopped => CanClose \/ CanCrash
  PROVE  StatusInv'
  <1>1. /\ Base \in 0 .. Len(chain) /\ Len(chain) \in Nat /\ chain \in Seq(Blocks)
        /\ Base' \in 0 .. Len(chain') /\ Len(chain') \in Nat
    BY ChainFacts, NextFacts
  <1>2. /\ Len(chain') <= Len(chain)
        /\ \A k \in 1 .. Len(chain') : chain'[k] = chain[k]
    <2>1. CASE chain' = chain
      BY <1>1, <2>1
    <2>2. CASE chain' = SubSeq(chain, 1, Base)
      BY <1>1, <2>2, PrefixFacts
    <2>3. QED BY <2>1, <2>2
  <1>3. /\ statused' \in Statuses
        /\ statused'.state = statused.state \cap BlocksOf(chain')
        /\ statused'.disk = statused.state \cap BlocksOf(chain')
    BY DEF Flushed, StatusInv, Statuses
  <1>4. /\ Earliest(Base) \in Nat /\ Earliest(Len(chain')) \in Nat
        /\ Earliest(Base) <= Earliest(Len(chain')) /\ Earliest(Base) > 0
    BY <1>1, EarliestFacts
  <1>5. ASSUME NEW n \in Earliest(Base) .. Len(chain')
        PROVE  chain'[n] \in statused.state \cap BlocksOf(chain')
    <2>1. n \in 1 .. Len(chain') /\ n \in Earliest(Base) .. Len(chain)
      BY <1>1, <1>2, <1>4
    <2>2. QED BY <1>2, <2>1 DEF StatusInv, BlocksOf
  <1>6. \A n \in Earliest(Len(chain')) .. Len(chain') : n \in Earliest(Base) .. Len(chain')
    BY <1>1, <1>4
  <1>7. TrackAfter <= Len(chain') => tracking'
    BY <1>1, <1>2, StatusAssumption DEF StatusInv
  <1>8. /\ \A n \in Earliest(Base') .. Len(chain') : chain'[n] \in statused'.state
        /\ \A n \in Earliest(Len(disk')) .. Len(disk') : disk'[n] \in statused'.disk
    BY <1>3, <1>5, <1>6
  <1>9. tracking' \in BOOLEAN
    BY DEF StatusInv
  <1>10. QED BY <1>3, <1>7, <1>8, <1>9
             DEF StatusInv, Statuses, Earliest, get_earliest_tracked_block_num

LEMMA StatusCrashed ==
  ASSUME IndInv, IndInv', StatusInv, StatusOption, crash_observed
  PROVE  StatusInv'
  <1>1. /\ chain' = disk /\ undoable' = 0 /\ disk' = disk
        /\ UNCHANGED tracking /\ CanCrash
        /\ statused' = [statused EXCEPT !.state = statused.disk]
    BY DEF crash_observed, crash
  <1>2. statused' \in Statuses /\ statused'.state = statused.disk /\ statused'.disk = statused.disk
    BY <1>1 DEF StatusInv, Statuses
  <1>3. Base' = Len(disk)
    BY <1>1, ChainFacts DEF Base
  <1>4. tracking
    BY <1>1, ChainFacts DEF StatusOption, StatusInv
  <1>5. QED BY <1>1, <1>2, <1>3, <1>4
            DEF StatusInv, Statuses, Earliest, get_earliest_tracked_block_num

LEMMA RebuiltFacts ==
  ASSUME NEW c \in Seq(Blocks)
  PROVE  /\ Rebuilt(c) \subseteq Blocks
         /\ \A n \in Earliest(Len(c)) .. Len(c) : c[n] \in Rebuilt(c)
  <1>1. Len(c) \in Nat
    OBVIOUS
  <1>2. Earliest(Len(c)) \in Nat /\ Earliest(Len(c)) > 0
    BY <1>1, EarliestFacts
  <1>3. \A n \in Earliest(Len(c)) .. Len(c) : n \in 1 .. Len(c)
    BY <1>1, <1>2
  <1>4. \A n \in Earliest(Len(c)) .. Len(c) : c[n] \in Blocks
    BY <1>3, ElementOfSeq
  <1>5. QED BY <1>4 DEF Rebuilt, Earliest

LEMMA StatusOpened ==
  ASSUME IndInv, IndInv', StatusInv, StatusOption, open_observed
  PROVE  StatusInv'
  <1>1. /\ UNCHANGED <<chain, undoable, disk>> /\ pc = "down" /\ pc' = "idle"
        /\ tracking' = (TrackAfter = 0)
        /\ statused' = statused \/ statused' = [statused EXCEPT !.state = Rebuilt(chain)]
    BY DEF open_observed, open
  <1>2. pc \in Stopped /\ pc' \notin Stopped
    BY <1>1 DEF Stopped
  <1>3. undoable = 0 /\ TrackAfter = 0
    BY <1>2 DEF IndInv, ControlOK, StatusInv, StatusOption
  <1>4. Base = Len(chain) /\ Base' = Len(chain)
    BY <1>1, <1>3, ChainFacts DEF Base
  <1>5. /\ Rebuilt(chain) \subseteq Blocks
        /\ \A n \in Earliest(Len(chain)) .. Len(chain) : chain[n] \in Rebuilt(chain)
    BY ChainFacts, RebuiltFacts
  <1>6. /\ statused' \in Statuses /\ statused'.disk = statused.disk
        /\ \A n \in Earliest(Len(chain)) .. Len(chain) : chain[n] \in statused'.state
    BY <1>1, <1>4, <1>5 DEF StatusInv, Statuses
  <1>7. tracking' \in BOOLEAN /\ tracking'
    BY <1>1, <1>3
  <1>8. QED BY <1>1, <1>2, <1>4, <1>6, <1>7
            DEF StatusInv, Statuses, Earliest, get_earliest_tracked_block_num

LEMMA StatusReindexed ==
  ASSUME IndInv, IndInv', StatusInv, reindex_observed
  PROVE  StatusInv'
  <1>1. /\ chain' = log /\ disk' = log /\ undoable' = 0 /\ tracking' = TRUE
        /\ statused' = [state |-> Rebuilt(log), disk |-> Rebuilt(log)]
        /\ pc \in Stopped
    BY DEF reindex_observed, reindex, IndInv, ControlOK
  <1>2. log \in Seq(Blocks) /\ Len(log) \in Nat
    BY ChainFacts
  <1>3. /\ Rebuilt(log) \subseteq Blocks
        /\ \A n \in Earliest(Len(log)) .. Len(log) : log[n] \in Rebuilt(log)
    BY <1>2, RebuiltFacts
  <1>4. Base' = Len(log)
    BY <1>1, <1>2 DEF Base
  <1>5. /\ statused' \in Statuses
        /\ statused'.state = Rebuilt(log) /\ statused'.disk = Rebuilt(log)
    BY <1>1, <1>3 DEF Statuses
  <1>6. CanClose \/ CanCrash
    BY <1>1 DEF StatusInv
  <1>7. QED BY <1>1, <1>3, <1>4, <1>5, <1>6
            DEF StatusInv, Statuses, Earliest, get_earliest_tracked_block_num

LEMMA StatusSteps ==
  ASSUME IndInv, IndInv', StatusInv, StatusOption, [ObserverNext]_observed_vars
  PROVE  StatusInv'
  <1>1. CASE unobserved
    <2>1. /\ statused' = [statused EXCEPT !.state = @ \cap BlocksOf(chain')]
          /\ UNCHANGED tracking
      BY <1>1 DEF unobserved, Popped
    <2>2. /\ statused' \in Statuses /\ statused'.disk = statused.disk
          /\ statused'.state = statused.state \cap BlocksOf(chain')
      BY <2>1 DEF StatusInv, Statuses
    <2>3. tracking' \in BOOLEAN /\ (tracking => tracking')
      BY <2>1 DEF StatusInv
    <2>4. QED BY <1>1, <2>2, <2>3, UnobservedSteps, StatusShortened DEF Statuses
  <1>2. ASSUME NEW b \in Blocks, ObservedStep(b)
        PROVE  StatusInv'
    BY <1>2, ObservedSteps, StatusObserved
  <1>3. CASE flush_observed
    <2>1. /\ UNCHANGED <<chain, undoable, pc, tracking>> /\ disk' = chain'
          /\ Flushed
      BY <1>3 DEF flush_observed, flush_state
    <2>2. QED BY <2>1, StatusFlushed DEF Base, StatusInv
  <1>4. CASE close_observed
    <2>1. /\ chain' = SubSeq(chain, 1, Base) /\ undoable' = 0 /\ disk' = chain'
          /\ UNCHANGED tracking /\ CanClose /\ Flushed
      BY <1>4 DEF close_observed, close
    <2>2. Base' = Base
      <3>1. Len(chain') = Base
        BY <2>1, ChainFacts, PrefixFacts
      <3>2. QED BY <2>1, <3>1, ChainFacts DEF Base
    <2>3. QED BY <2>1, <2>2, StatusFlushed
  <1>5. CASE crash_observed
    BY <1>5, StatusCrashed
  <1>6. CASE open_observed
    BY <1>6, StatusOpened
  <1>7. CASE reindex_observed
    BY <1>7, StatusReindexed
  <1>8. CASE UNCHANGED observed_vars
    BY <1>8 DEF observed_vars, vars, Base, StatusInv, Earliest, get_earliest_tracked_block_num
  <1>9. switch.todo \subseteq Blocks
    BY DEF IndInv, ControlOK, Branches
  <1>10. QED BY <1>1, <1>2, <1>3, <1>4, <1>5, <1>6, <1>7, <1>8, <1>9
             DEF ObserverNext, ObservedStep

LEMMA StatusInitially ==
  ASSUME ObserverInit
  PROVE  StatusInv
  <1>1. /\ chain = Trunk /\ disk = <<>> /\ undoable = Len(Trunk) - lib(Len(Trunk))
        /\ tracking = (TrackAfter <= Len(Trunk)) /\ pc = "idle"
        /\ statused = [state |-> {Trunk[k] : k \in TrackAfter + 1 .. Len(Trunk)},
                       disk |-> {}]
    BY DEF ObserverInit, Init
  <1>2. /\ Trunk \in Seq(Blocks) /\ Len(Trunk) \in Nat
        /\ lib(Len(Trunk)) \in 0 .. Len(Trunk) /\ TrackAfter \in Nat
    BY TrunkAssumption, LibFacts, StatusAssumption
  <1>3. Base \in Nat /\ Len(disk) = 0
    BY <1>1, <1>2 DEF Base
  <1>4. \A k \in TrackAfter + 1 .. Len(Trunk) : Trunk[k] \in Blocks
    <2>1. \A k \in TrackAfter + 1 .. Len(Trunk) : k \in 1 .. Len(Trunk)
      BY <1>2
    <2>2. QED BY <1>2, <2>1, ElementOfSeq
  <1>5. statused \in Statuses
    BY <1>1, <1>4 DEF Statuses
  <1>6. /\ Earliest(Base) \in Nat /\ Earliest(Base) > TrackAfter
        /\ Earliest(Len(disk)) \in Nat /\ Earliest(Len(disk)) > 0
    BY <1>3, EarliestFacts
  <1>7. \A n \in Earliest(Base) .. Len(chain) : chain[n] \in statused.state
    <2>1. \A n \in Earliest(Base) .. Len(chain) : n \in TrackAfter + 1 .. Len(Trunk)
      BY <1>1, <1>2, <1>6
    <2>2. QED BY <1>1, <2>1
  <1>8. \A n \in Earliest(Len(disk)) .. Len(disk) : FALSE
    BY <1>3, <1>6
  <1>9. tracking \in BOOLEAN /\ (TrackAfter <= Len(chain) => tracking)
    <2>1. (TrackAfter <= Len(Trunk)) \in BOOLEAN
      BY <1>2
    <2>2. tracking \in BOOLEAN
      BY <1>1, <2>1, Zenon
    <2>3. QED BY <1>1, <2>2, Zenon
  <1>10. pc \notin Stopped
    BY <1>1 DEF Stopped
  <1>11. QED BY <1>5, <1>7, <1>8, <1>9, <1>10 DEF StatusInv, Statuses

(* What both plugins promise, for every tree of blocks, every depth and    *)
(* every choice of blocks that fail: after any start that succeeds         *)
(* wallet_history has every irreversible block and transaction_status      *)
(* every one of its range, if tracking begins with the first block (the    *)
(* default) or, wherever it begins, as long as the node is not restarted.  *)
THEOREM ObserversAlwaysComplete ==
  ASSUME StatusOption
  PROVE  ObserverSpec => []ObserversComplete
  <1>1. ObserverInit => StatusInv
    BY StatusInitially
  <1>2. IndInv /\ IndInv' /\ StatusInv /\ [ObserverNext]_observed_vars => StatusInv'
    BY StatusSteps
  <1>3. ASSUME IndInv, StatusInv
        PROVE  StatusTracked
    <2>1. Base \in 0 .. Len(chain) /\ Len(chain) \in Nat
      BY <1>3, ChainFacts
    <2>2. /\ Earliest(Base) \in Nat /\ Earliest(Len(chain)) \in Nat
          /\ Earliest(Base) <= Earliest(Len(chain))
      BY <2>1, EarliestFacts
    <2>3. \A n \in Earliest(Len(chain)) .. Len(chain) : n \in Earliest(Base) .. Len(chain)
      BY <2>1, <2>2
    <2>4. QED BY <1>3, <2>3 DEF StatusInv, StatusTracked, Earliest
  <1>4. IndInv /\ StatusInv => StatusTracked
    BY <1>3
  <1>5. ObserverSpec => []StatusTracked
    BY <1>1, <1>2, <1>4, ObserverInvariance, PTL DEF ObserverSpec
  <1>6. StatusTracked /\ HistoryComplete => ObserversComplete
    BY DEF ObserversComplete
  <1>7. QED BY <1>5, <1>6, HistoryAlwaysComplete, PTL

-----------------------------------------------------------------------------
(* Where a block can come from: the items of the fork database, those that *)
(* a live prev pointer holds included.                                     *)

Items(f) == f.index \cup f.unlinked \cup f.linked \cup {Parent[x] : x \in f.linked}

LEMMA EraseItemsShrinks ==
  ASSUME NEW f \in Fork, NEW gone
  PROVE  /\ Items(EraseItems(f, gone)) \subseteq Items(f)
         /\ EraseItems(f, gone) \in Fork
  <1>1. /\ EraseItems(f, gone).index \subseteq f.index
        /\ EraseItems(f, gone).unlinked = f.unlinked
        /\ EraseItems(f, gone).linked \subseteq f.linked
    BY DEF EraseItems, Fork
  <1>2. EraseItems(f, gone) \in Fork
    BY EraseType
  <1>3. QED BY <1>1, <1>2 DEF Items

LEMMA RemoveShrinks ==
  ASSUME NEW f \in Fork, NEW gone
  PROVE  Items(remove(f, gone)) \subseteq Items(f)
  BY EraseItemsShrinks DEF remove

LEMMA SetMaxSizeShrinks ==
  ASSUME NEW f \in Fork, NEW n
  PROVE  Items(set_max_size(f, n)) \subseteq Items(f)
  <1>1. CASE f.head = Zero
    BY <1>1 DEF set_max_size
  <1>2. CASE f.head # Zero
    <2> DEFINE old(S) == {x \in S : Num[x] < Max0(Num[f.head] - n)}
               g == EraseItems(f, old(f.index))
    <2>1. g \in Fork /\ Items(g) \subseteq Items(f)
      BY EraseItemsShrinks
    <2>2. set_max_size(f, n) = [g EXCEPT !.unlinked = @ \ old(@)]
      BY <1>2 DEF set_max_size
    <2> HIDE DEF g
    <2>3. /\ set_max_size(f, n).index = g.index
          /\ set_max_size(f, n).linked = g.linked
          /\ set_max_size(f, n).unlinked \subseteq g.unlinked
      BY <2>1, <2>2 DEF Fork
    <2>4. QED BY <2>1, <2>3 DEF Items
  <1>3. QED BY <1>1, <1>2

LEMMA SetHeadKeeps ==
  ASSUME NEW f \in Fork, NEW b
  PROVE  Items(set_head(f, b)) = Items(f)
  <1>1. /\ set_head(f, b).index = f.index /\ set_head(f, b).unlinked = f.unlinked
        /\ set_head(f, b).linked = f.linked
    BY DEF set_head, Fork
  <1>2. QED BY <1>1 DEF Items

LEMMA CacheAdds ==
  ASSUME NEW f \in Fork, NEW b
  PROVE  Items(cache_unlinked(f, b)) \subseteq Items(f) \cup {b}
  <1>1. /\ cache_unlinked(f, b).index = f.index
        /\ cache_unlinked(f, b).unlinked = f.unlinked \cup {b}
        /\ cache_unlinked(f, b).linked = f.linked
    BY DEF cache_unlinked, Fork
  <1>2. QED BY <1>1 DEF Items

(* A cached block is adopted behind a block that is adopted or cached. *)
LEMMA FoundPreviousParent ==
  ASSUME NEW f \in Fork, NEW b \in Blocks, Links(f, b), NEW x \in FoundPrevious(f, b)
  PROVE  x \in f.unlinked \cup {b} /\ Parent[x] \in f.index \cup f.unlinked \cup {b}
  <1>1. /\ x \in Adopted(f, b) /\ Parent[x] # Zero /\ (x = b => f.head # Zero)
        /\ x \in f.unlinked \cup {b} /\ x \in Blocks
    BY AdoptedType DEF FoundPrevious, Adopted
  <1>2. CASE x = b
    BY <1>1, <1>2 DEF Links
  <1>3. CASE x # b
    <2>1. /\ b \in Path[x] /\ x \in Path[x]
          /\ \A y \in Path[x] : Num[y] > Num[b] => y \in f.unlinked
      BY <1>1, <1>3, PathFacts DEF Adopted
    <2>2. Num[b] <= Num[x] /\ Num[x] # Num[b] /\ Num[x] \in Nat /\ Num[b] \in Nat
      BY <1>1, <1>3, <2>1, PathFacts, NumNat
    <2>3. Parent[x] \in Path[x] /\ Parent[x] \in Blocks
      BY <1>1, <2>1, PathFacts
    <2>4. Num[x] = Num[Parent[x]] + 1 /\ Num[Parent[x]] \in Nat
      BY <1>1, <2>3, ParentNumber, NumNat
    <2>5. CASE Num[Parent[x]] = Num[b]
      BY <1>1, <2>1, <2>3, <2>5, PathFacts
    <2>6. CASE Num[Parent[x]] > Num[b]
      <3>1. Parent[x] \in f.unlinked
        BY <2>1, <2>2, <2>3, <2>4, <2>6
      <3>2. QED BY <1>1, <3>1
    <2>7. QED BY <2>2, <2>4, <2>5, <2>6
  <1>4. QED BY <1>2, <1>3

LEMMA PushAdds ==
  ASSUME NEW f \in Fork, NEW b \in Blocks, Links(f, b), NEW g \in push_block(f, b)
  PROVE  Items(g) \subseteq Items(f) \cup {b}
  <1>1. /\ g.index = f.index \cup Adopted(f, b)
        /\ g.linked = f.linked \cup (FoundPrevious(f, b) \ f.index)
        /\ g.unlinked = f.unlinked \ (Adopted(f, b) \ {b})
    BY DEF push_block
  <1>2. Adopted(f, b) \subseteq f.unlinked \cup {b}
    BY DEF Adopted
  <1>3. \A x \in FoundPrevious(f, b) :
            x \in f.unlinked \cup {b} /\ Parent[x] \in f.index \cup f.unlinked \cup {b}
    BY FoundPreviousParent
  <1>4. QED BY <1>1, <1>2, <1>3 DEF Items

-----------------------------------------------------------------------------
(* The branches of a switch are made of such items.                        *)

LEMMA LeastNumber ==
  ASSUME NEW S \in SUBSET Nat, S # {}
  PROVE  \E m \in S : \A k \in S : m <= k
  <1>1. IsWellFoundedOn(OpToRel(<, Nat), Nat)
    BY NatLessThanWellFounded
  <1>2. PICK m \in S : \A k \in S : ~ (<<k, m>> \in OpToRel(<, Nat))
    BY <1>1, WFMin
  <1>3. ASSUME NEW k \in S, k < m PROVE FALSE
    <2>1. <<k, m>> \in OpToRel(<, Nat)
      BY <1>3 DEF OpToRel
    <2>2. QED BY <1>2, <2>1
  <1>4. QED BY <1>3

(* The lowest block of a branch is the previous of the next one. *)
LEMMA BranchOfItems ==
  ASSUME NEW f \in Fork, NEW a \in f.index, NEW y \in Path[a],
         \A w \in Branch(a, Num[y]) : Num[w] > Num[y] => w \in f.linked
  PROVE  Branch(a, Num[y]) \subseteq Items(f)
  <1>1. a \in Blocks /\ Path[a] \subseteq Blocks /\ a \in Path[a] /\ y \in Blocks
    BY PathFacts DEF Fork
  <1>2. SUFFICES ASSUME NEW w \in Branch(a, Num[y]) PROVE w \in Items(f)
    OBVIOUS
  <1>3. w \in Path[a] /\ w \in Blocks /\ Num[w] >= Num[y]
    BY <1>1 DEF Branch
  <1>4. CASE Num[w] > Num[y]
    BY <1>4 DEF Items
  <1>5. CASE Num[w] = Num[y] /\ w = a
    BY <1>5 DEF Items
  <1>6. CASE Num[w] = Num[y] /\ w # a
    <2> DEFINE above == {x \in Path[a] : Num[x] > Num[y]}
    <2>1. Num[a] > Num[y]
      BY <1>1, <1>3, <1>6, PathFacts, NumNat
    <2>2. {Num[x] : x \in above} \subseteq Nat /\ {Num[x] : x \in above} # {}
      BY <1>1, <2>1, NumNat
    <2>3. PICK m \in {Num[x] : x \in above} : \A k \in {Num[x] : x \in above} : m <= k
      BY <2>2, LeastNumber
    <2>4. PICK x \in above : m = Num[x]
      BY <2>3
    <2>5. x \in Path[a] /\ x \in Blocks /\ Num[x] > Num[y] /\ x \in f.linked
      BY <1>1, <2>4, NumNat DEF Branch
    <2>6. Parent[x] # Zero
      <3>1. Num[y] >= 1
        BY <1>1, NumAssumption, ParentAssumption
      <3>2. QED BY <1>1, <2>5, <3>1, NumAssumption
    <2>7. Parent[x] \in Path[a] /\ Parent[x] \in Blocks
      BY <1>1, <2>5, <2>6, PathFacts
    <2>8. Num[x] = Num[Parent[x]] + 1 /\ Num[Parent[x]] \in Nat /\ Num[y] \in Nat
      BY <1>1, <2>5, <2>7, ParentNumber, NumNat
    <2>9. ~ (Num[Parent[x]] > Num[y])
      <3>1. SUFFICES ASSUME Num[Parent[x]] > Num[y] PROVE FALSE
        OBVIOUS
      <3>2. Num[Parent[x]] \in {Num[v] : v \in above}
        BY <2>7, <3>1
      <3>3. m <= Num[Parent[x]]
        BY <2>3, <3>2
      <3>4. QED BY <2>4, <2>8, <3>3
    <2>10. Num[Parent[x]] = Num[w]
      BY <1>6, <2>5, <2>8, <2>9
    <2>11. Parent[x] = w
      BY <1>1, <1>3, <2>7, <2>10, PathFacts
    <2>12. QED BY <2>5, <2>11 DEF Items
  <1>7. QED BY <1>1, <1>3, <1>4, <1>5, <1>6, NumNat

LEMMA FetchedItems ==
  ASSUME NEW f \in Fork, NEW a, NEW b, NEW br \in fetch_branch_from(f, a, b)
  PROVE  br.first \subseteq Items(f) /\ br.second \subseteq Items(f)
  <1>1. PICK x \in Path[b] :
            /\ {a, b} \subseteq f.index
            /\ Meets(a, x)
            /\ \A w \in Branch(a, Num[x]) \cup Branch(b, Num[x]) :
                  Num[w] > Num[x] => w \in f.linked
            /\ br = [fork   |-> Parent[x],
                     first  |-> Branch(a, Num[x]),
                     second |-> Branch(b, Num[x])]
    BY DEF fetch_branch_from
  <1>2. PICK y \in Path[a] : Num[y] = Num[x]
    BY <1>1 DEF Meets
  <1>3. Branch(a, Num[y]) \subseteq Items(f)
    BY <1>1, <1>2, BranchOfItems
  <1>4. Branch(b, Num[x]) \subseteq Items(f)
    BY <1>1, BranchOfItems
  <1>5. QED BY <1>1, <1>2, <1>3, <1>4

-----------------------------------------------------------------------------
(* A push brings the node one block, and no step applies a bad one.        *)

Present == BlocksOf(chain) \cup Items(fd) \cup switch.todo \cup switch.second

NewBlocksGood == \A x \in BlocksOf(chain') : x \in BlocksOf(chain) \/ x \notin Bad

LEMMA AppliedPresent ==
  ASSUME IndInv, NEW b \in Blocks, NEW f \in Fork, MayApply(b, f), apply_block(b, f),
         NEW S, Items(f) \subseteq S, BlocksOf(chain) \subseteq S, b \in S
  PROVE  BlocksOf(chain') \subseteq S /\ Items(fd') \subseteq S /\ NewBlocksGood
  <1>1. chain \in Seq(Blocks) /\ Len(chain) \in Nat
    BY ChainFacts
  <1>2. /\ Len(chain') = Len(chain) + 1
        /\ \A n \in 1 .. Len(chain) : chain'[n] = chain[n]
        /\ chain'[Len(chain) + 1] = b
    BY <1>1, AppendProperties DEF apply_block
  <1>3. BlocksOf(chain') \subseteq BlocksOf(chain) \cup {b}
    BY <1>1, <1>2 DEF BlocksOf
  <1>4. set_max_size(f, Num[b] - lib(Num[b]) + 1) \in Fork
    BY SetMaxSizeType
  <1>5. Items(fd') \subseteq Items(f)
    BY <1>4, SetMaxSizeShrinks DEF apply_block
  <1>6. b \notin Bad
    BY DEF MayApply
  <1>7. QED BY <1>3, <1>5, <1>6 DEF NewBlocksGood

LEMMA PushPresent ==
  ASSUME IndInv, NEW b \in Blocks, push_any(b)
  PROVE  Present' \subseteq Present \cup {b} /\ NewBlocksGood
  <1>1. fd \in Fork /\ Items(fd) \subseteq Present /\ BlocksOf(chain) \subseteq Present
    BY DEF IndInv, ChainOK, Present
  <1>2. ASSUME NEW f \in push_block(fd, b), Accepted(b, f)
        PROVE  f \in Fork /\ Items(f) \subseteq Present \cup {b}
    BY <1>1, <1>2, PushBlockType, PushAdds DEF Accepted
  <1>3. ASSUME UNCHANGED chain, Items(fd') \subseteq Present \cup {b},
               switch'.todo \subseteq Present \cup {b},
               switch'.second \subseteq Present \cup {b}
        PROVE  Present' \subseteq Present \cup {b} /\ NewBlocksGood
    BY <1>1, <1>3 DEF Present, NewBlocksGood, BlocksOf, Items
  <1>4. NoSwitch.todo = {} /\ NoSwitch.second = {}
    BY DEF NoSwitch
  <1>5. CASE push_refused(b)
    <2>1. fd' = fd \/ fd' = cache_unlinked(fd, b)
      BY <1>5 DEF push_refused
    <2>2. Items(fd') \subseteq Present \cup {b}
      BY <1>1, <2>1, CacheAdds
    <2>3. UNCHANGED chain /\ switch' = NoSwitch
      BY <1>5 DEF push_refused, Throw
    <2>4. QED BY <1>3, <1>4, <2>2, <2>3
  <1>6. CASE push_direct(b)
    <2>1. PICK f \in push_block(fd, b) :
             /\ Accepted(b, f)
             /\ \/ MayApply(b, f) /\ apply_block(b, f)
                \/ fd' = remove(f, {b}) /\ UNCHANGED chain
             /\ switch' = NoSwitch
      BY <1>6 DEF push_direct, Return, Throw
    <2>2. f \in Fork /\ Items(f) \subseteq Present \cup {b}
      BY <1>2, <2>1
    <2>3. CASE MayApply(b, f) /\ apply_block(b, f)
      <3> DEFINE S == Present \cup {b}
      <3>1. Items(f) \subseteq S /\ BlocksOf(chain) \subseteq S /\ b \in S
        BY <1>1, <2>2
      <3> HIDE DEF S
      <3>2. BlocksOf(chain') \subseteq S /\ Items(fd') \subseteq S /\ NewBlocksGood
        BY <2>2, <2>3, <3>1, AppliedPresent
      <3>3. Present' = BlocksOf(chain') \cup Items(fd') \cup switch'.todo \cup switch'.second
        BY DEF Present, BlocksOf, Items
      <3>4. Present' \subseteq S
        BY <1>4, <2>1, <3>2, <3>3
      <3>5. QED BY <3>2, <3>4 DEF S
    <2>4. CASE fd' = remove(f, {b}) /\ UNCHANGED chain
      <3>1. Items(fd') \subseteq Present \cup {b}
        BY <2>2, <2>4, RemoveShrinks
      <3>2. QED BY <1>3, <1>4, <2>1, <2>4, <3>1
    <2>5. QED BY <2>1, <2>3, <2>4
  <1>7. CASE push_kept(b)
    <2>1. /\ Items(fd') \subseteq Present \cup {b}
          /\ UNCHANGED chain /\ switch' = NoSwitch
      BY <1>2, <1>7 DEF push_kept, Return
    <2>2. QED BY <1>3, <1>4, <2>1
  <1>8. CASE push_switch(b)
    <2>1. PICK f \in push_block(fd, b) :
             /\ Accepted(b, f) /\ fd' = f
             /\ \/ \E br \in fetch_branch_from(f, f.head, head_block_id) :
                      switch' = [fork |-> br.fork, second |-> br.second, todo |-> br.first]
                \/ switch' = NoSwitch
      BY <1>8 DEF push_switch, Throw
    <2>2. f \in Fork /\ Items(f) \subseteq Present \cup {b}
      BY <1>2, <2>1
    <2>3. switch'.todo \subseteq Present \cup {b} /\ switch'.second \subseteq Present \cup {b}
      <3>1. CASE switch' = NoSwitch
        BY <1>4, <3>1
      <3>2. ASSUME NEW br \in fetch_branch_from(f, f.head, head_block_id),
                   switch' = [fork |-> br.fork, second |-> br.second, todo |-> br.first]
            PROVE  switch'.todo \subseteq Present \cup {b}
                   /\ switch'.second \subseteq Present \cup {b}
        BY <2>2, <3>2, FetchedItems
      <3>3. QED BY <2>1, <3>1, <3>2
    <2>4. UNCHANGED chain
      BY <1>8 DEF push_switch
    <2>5. QED BY <1>3, <2>1, <2>2, <2>3, <2>4
  <1>9. QED BY <1>5, <1>6, <1>7, <1>8 DEF push_any

LEMMA PopPresent ==
  ASSUME IndInv, pop_head, pc \in {"pop", "unwind"}
  PROVE  Present' \subseteq Present /\ NewBlocksGood
  <1>1. Shortens /\ fd \in Fork
    BY PopShortens DEF IndInv, ChainOK
  <1>2. Len(chain) \in Nat /\ Len(chain') \in Nat
    <2>1. chain' \in Seq(Blocks)
      <3>1. chain \in Seq(Blocks) /\ undoable \in 0 .. Len(chain) /\ Len(chain) \in Nat
        BY DEF IndInv, ChainOK
      <3>2. CASE undoable > 0
        <4>1. Len(chain) - 1 \in 0 .. Len(chain)
          BY <3>1, <3>2
        <4>2. SubSeq(chain, 1, Len(chain) - 1) \in Seq(Blocks)
          BY <3>1, <4>1, PrefixFacts
        <4>3. QED BY <3>1, <4>2 DEF pop_head, Undone
      <3>3. CASE ~ (undoable > 0)
        BY <3>1, <3>3 DEF pop_head, Undone
      <3>4. QED BY <3>2, <3>3
    <2>2. QED BY <2>1, ChainFacts
  <1>3. BlocksOf(chain') \subseteq BlocksOf(chain)
    BY <1>1, <1>2 DEF BlocksOf, Shortens
  <1>4. Items(fd') = Items(fd)
    BY <1>1, SetHeadKeeps DEF pop_head, pop_block
  <1>5. switch' \in {switch, NoSwitch}
    BY DEF pop_head, Throw
  <1>6. NoSwitch.todo = {} /\ NoSwitch.second = {}
    BY DEF NoSwitch
  <1>7. Present' = BlocksOf(chain') \cup Items(fd') \cup switch'.todo \cup switch'.second
    BY DEF Present, BlocksOf, Items
  <1>8. QED BY <1>3, <1>4, <1>5, <1>6, <1>7 DEF Present, NewBlocksGood

LEMMA SwitchPresent ==
  ASSUME IndInv, switch_step
  PROVE  Present' \subseteq Present /\ NewBlocksGood
  <1>1. /\ fd \in Fork /\ Items(fd) \subseteq Present /\ BlocksOf(chain) \subseteq Present
        /\ switch.todo \subseteq Present /\ switch.second \subseteq Present
        /\ switch \in Branches /\ switch.todo \subseteq Blocks
    BY DEF IndInv, ChainOK, ControlOK, Branches, Present
  <1>2. Present' = BlocksOf(chain') \cup Items(fd') \cup switch'.todo \cup switch'.second
    BY DEF Present, BlocksOf, Items
  <1>3. NoSwitch.todo = {} /\ NoSwitch.second = {}
    BY DEF NoSwitch
  <1>4. ASSUME UNCHANGED chain, Items(fd') \subseteq Items(fd),
               switch'.todo \subseteq Present, switch'.second \subseteq Present
        PROVE  Present' \subseteq Present /\ NewBlocksGood
    BY <1>1, <1>2, <1>4 DEF NewBlocksGood, BlocksOf
  <1>5. CASE switch_pop
    <2>1. CASE head_block_id # switch.fork
      BY <1>5, <2>1, PopPresent DEF switch_pop
    <2>2. CASE head_block_id = switch.fork
      BY <1>1, <1>4, <1>5, <2>2 DEF switch_pop
    <2>3. QED BY <2>1, <2>2
  <1>6. CASE switch_unwind
    <2>1. CASE head_block_id # switch.fork
      BY <1>6, <2>1, PopPresent DEF switch_unwind
    <2>2. CASE head_block_id = switch.fork
      <3>1. /\ UNCHANGED <<chain, fd>>
            /\ switch' = [switch EXCEPT !.todo = switch.second]
        BY <1>6, <2>2 DEF switch_unwind
      <3>2. switch'.todo = switch.second /\ switch'.second = switch.second
        BY <1>1, <3>1 DEF Branches
      <3>3. QED BY <1>1, <1>4, <3>1, <3>2
    <2>3. QED BY <2>1, <2>2
  <1>7. CASE switch_done \/ switch_rethrow
    BY <1>1, <1>3, <1>4, <1>7 DEF switch_done, switch_rethrow, Return, Throw
  <1>8. ASSUME NEW b \in switch.todo, switch_apply(b) \/ switch_restore(b)
        PROVE  Present' \subseteq Present /\ NewBlocksGood
    <2> DEFINE f == set_head(fd, b)
    <2>1. f \in Fork /\ Items(f) = Items(fd) /\ b \in Blocks
      BY <1>1, SetHeadType, SetHeadKeeps
    <2>2. \/ /\ MayApply(b, f) /\ apply_block(b, f)
             /\ switch' = [switch EXCEPT !.todo = @ \ {b}]
          \/ /\ UNCHANGED chain
             /\ fd' \in {f, remove(f, switch.todo)}
             /\ switch' \in {switch, NoSwitch}
      BY <1>8 DEF switch_apply, switch_restore, Throw
    <2> HIDE DEF f
    <2>3. CASE /\ MayApply(b, f) /\ apply_block(b, f)
               /\ switch' = [switch EXCEPT !.todo = @ \ {b}]
      <3>1. BlocksOf(chain') \subseteq Present /\ Items(fd') \subseteq Present /\ NewBlocksGood
        BY <1>1, <2>1, <2>3, AppliedPresent
      <3>2. switch'.todo \subseteq switch.todo /\ switch'.second = switch.second
        BY <1>1, <2>3 DEF Branches
      <3>3. QED BY <1>1, <1>2, <3>1, <3>2
    <2>4. CASE /\ UNCHANGED chain
               /\ fd' \in {f, remove(f, switch.todo)}
               /\ switch' \in {switch, NoSwitch}
      <3>1. Items(fd') \subseteq Items(fd)
        BY <2>1, <2>4, RemoveShrinks
      <3>2. QED BY <1>1, <1>3, <1>4, <2>4, <3>1
    <2>5. QED BY <2>2, <2>3, <2>4
  <1>9. QED BY <1>5, <1>6, <1>7, <1>8 DEF switch_step

-----------------------------------------------------------------------------
(* The mining loop.                                                        *)

(* A block of the miner is generated before it is anywhere, and one with   *)
(* stale work is bad.                                                      *)
MinerInv ==
    /\ DOMAIN worked \subseteq Mine
    /\ broadcast \subseteq DOMAIN worked
    /\ loop \in {"generating", "generated", "accepting"} => mined \in DOMAIN worked
    /\ \A b \in DOMAIN worked : b \notin Bad => worked[b] = Parent[b]
    /\ \A b \in Present : b \in Mine => b \in DOMAIN worked
    /\ \A b \in BlocksOf(chain) : b \in Mine => b \notin Bad

(* A step of the chain with a block that is generated or not the miner's. *)
LEMMA MinerKeeps ==
  ASSUME MinerInv, NewBlocksGood,
         Present' \subseteq Present \/ \E b : /\ Present' \subseteq Present \cup {b}
                                              /\ b \in Mine => b \in DOMAIN worked,
         UNCHANGED <<worked, broadcast>>,
         loop' \in {"generating", "generated", "accepting"} => mined' \in DOMAIN worked
  PROVE  MinerInv'
  <1>1. \A b \in Present' : b \in Mine => b \in DOMAIN worked'
    BY DEF MinerInv
  <1>2. \A b \in BlocksOf(chain') : b \in Mine => b \notin Bad
    BY DEF MinerInv, NewBlocksGood
  <1>3. BlocksOf(chain)' = BlocksOf(chain')
    BY DEF BlocksOf
  <1>4. QED BY <1>1, <1>2, <1>3 DEF MinerInv

LEMMA MinerIdles ==
  ASSUME MinerInv, UNCHANGED vars, UNCHANGED worked,
         broadcast' \subseteq DOMAIN worked,
         loop' \in {"generating", "generated", "accepting"} => mined' \in DOMAIN worked
  PROVE  MinerInv'
  <1>1. Present' = Present /\ BlocksOf(chain)' = BlocksOf(chain)
    BY DEF vars, Present, BlocksOf, Items
  <1>2. QED BY <1>1 DEF MinerInv

LEMMA PushIsNext ==
  ASSUME IndInv, NEW b \in Blocks, push_any(b)
  PROVE  IndInv'
  BY Refused, Direct, Kept, Switched DEF push_any

LEMMA SwitchIsNext ==
  ASSUME IndInv, switch_step
  PROVE  IndInv'
  BY SwitchPop, SwitchApply, SwitchUnwind, SwitchRestore, SwitchEnd DEF switch_step

LEMMA MinerGenerates ==
  ASSUME IndInv, MinerInv, NEW b \in Mine, generate_block(b)
  PROVE  IndInv' /\ MinerInv'
  <1>1. /\ b \in Blocks /\ push_any(b) /\ b \notin DOMAIN worked
        /\ (b \notin Bad => block_id = Parent[b])
        /\ worked' = [x \in DOMAIN worked \cup {b} |-> IF x = b THEN block_id ELSE worked[x]]
        /\ mined' = b /\ UNCHANGED broadcast
    BY MineAssumption DEF generate_block, WorkFits
  <1>2. Present' \subseteq Present \cup {b} /\ NewBlocksGood
    BY <1>1, PushPresent
  <1>3. DOMAIN worked' = DOMAIN worked \cup {b}
    BY <1>1
  <1>4. \A x \in DOMAIN worked' : x \notin Bad => worked'[x] = Parent[x]
    BY <1>1, <1>3 DEF MinerInv
  <1>5. \A x \in Present' : x \in Mine => x \in DOMAIN worked'
    BY <1>2, <1>3 DEF MinerInv
  <1>6. \A x \in BlocksOf(chain') : x \in Mine => x \notin Bad
    BY <1>2 DEF MinerInv, NewBlocksGood
  <1>7. BlocksOf(chain)' = BlocksOf(chain')
    BY DEF BlocksOf
  <1>8. MinerInv'
    BY <1>1, <1>3, <1>4, <1>5, <1>6, <1>7 DEF MinerInv
  <1>9. QED BY <1>1, <1>8, PushIsNext

LEMMA MinerSteps ==
  ASSUME IndInv, MinerInv, [MinerNext]_all_vars
  PROVE  IndInv' /\ MinerInv'
  <1>1. CASE chain_step
    <2>1. UNCHANGED <<loop, mined, worked, broadcast>>
      BY <1>1 DEF chain_step, miner_vars
    <2>2. ASSUME NEW b \in Arriving, push_any(b)
          PROVE  IndInv' /\ MinerInv'
      <3>1. b \in Blocks /\ (b \in Mine => b \in DOMAIN worked)
        BY <2>2, MineAssumption DEF Arriving, MinerInv
      <3>2. Present' \subseteq Present \cup {b} /\ NewBlocksGood
        BY <2>2, <3>1, PushPresent
      <3>3. QED BY <2>1, <2>2, <3>1, <3>2, PushIsNext, MinerKeeps DEF MinerInv
    <2>3. CASE switch_step
      BY <2>1, <2>3, SwitchPresent, SwitchIsNext, MinerKeeps DEF MinerInv
    <2>4. QED BY <1>1, <2>2, <2>3 DEF chain_step
  <1>2. ASSUME NEW b \in Mine, generate_block(b)
        PROVE  IndInv' /\ MinerInv'
    BY <1>2, MinerGenerates
  <1>3. CASE accept_block
    <2>1. /\ mined \in DOMAIN worked /\ push_any(mined)
          /\ UNCHANGED <<mined, worked, broadcast>>
      BY <1>3 DEF accept_block, MinerInv
    <2>2. mined \in Blocks
      BY <2>1, MineAssumption DEF MinerInv
    <2>3. Present' \subseteq Present \cup {mined} /\ NewBlocksGood
      BY <2>1, <2>2, PushPresent
    <2>4. QED BY <2>1, <2>2, <2>3, PushIsNext, MinerKeeps
  <1>4. CASE \/ read_id \/ read_num \/ generate_fails \/ generate_returns
             \/ accept_returns \/ check_head \/ brake \/ UNCHANGED all_vars
    <2>1. UNCHANGED <<vars, worked, mined>>
      BY <1>4 DEF read_id, read_num, generate_fails, generate_returns, accept_returns,
                  check_head, brake, all_vars, miner_vars
    <2>2. broadcast' \subseteq DOMAIN worked
      BY <1>4 DEF read_id, read_num, generate_fails, generate_returns, accept_returns,
                  check_head, brake, all_vars, miner_vars, MinerInv
    <2>3. loop' \in {"generating", "generated", "accepting"} => mined' \in DOMAIN worked
      BY <1>4, <2>1
         DEF read_id, read_num, generate_fails, generate_returns, accept_returns,
             check_head, brake, all_vars, miner_vars, MinerInv
    <2>4. QED BY <2>1, <2>2, <2>3, Stutters, MinerIdles
  <1>5. QED BY <1>1, <1>2, <1>3, <1>4 DEF MinerNext

LEMMA MinerInitially ==
  ASSUME MinerInit
  PROVE  IndInv /\ MinerInv
  <1> DEFINE n == Len(Trunk)
             kept == {Trunk[k] : k \in {m \in 1 .. n : m >= lib(n) - 1}}
  <1>1. /\ Init /\ chain = Trunk /\ switch = NoSwitch
        /\ loop = "wait" /\ worked = <<>> /\ broadcast = {}
    BY DEF MinerInit, Init
  <1>2. DOMAIN worked = {}
    BY <1>1
  <1>3. BlocksOf(chain) \cap Mine = {}
    BY <1>1, MineAssumption DEF BlocksOf
  <1>4. kept \cap Mine = {}
    BY MineAssumption
  <1>5. Items(fd) \cap Mine = {}
    <2>1. CASE n = 0
      BY <1>1, <2>1 DEF Init, NoFork, Items
    <2>2. CASE n # 0
      <3>1. /\ fd.index = kept /\ fd.unlinked = {}
            /\ fd.linked = {b \in kept : Parent[b] \in kept}
        BY <1>1, <2>2 DEF Init
      <3> HIDE DEF kept
      <3>2. QED BY <1>4, <3>1 DEF Items
    <2>3. QED BY <2>1, <2>2
  <1>6. Present \cap Mine = {}
    BY <1>1, <1>3, <1>5 DEF Present, NoSwitch
  <1>7. QED BY <1>1, <1>2, <1>3, <1>6, Initially DEF MinerInv

(* Whatever arrives between the reads of the miner and wherever the chain  *)
(* moves, no block of the miner joins the chain with work that was done on *)
(* another block than its previous one, for every tree of blocks.          *)
THEOREM MinedWorkFits == MinerSpec => []WorkOnPrevious
  <1>1. MinerInit => IndInv /\ MinerInv
    BY MinerInitially
  <1>2. IndInv /\ MinerInv /\ [MinerNext]_all_vars => IndInv' /\ MinerInv'
    BY MinerSteps
  <1>3. MinerInv => WorkOnPrevious
    <2>1. ASSUME MinerInv, NEW n \in 1 .. Len(chain), chain[n] \in Mine
          PROVE  worked[chain[n]] = Parent[chain[n]]
      <3>1. chain[n] \in BlocksOf(chain) /\ chain[n] \in Present
        BY DEF BlocksOf, Present
      <3>2. QED BY <2>1, <3>1 DEF MinerInv
    <2>2. QED BY <2>1 DEF WorkOnPrevious
  <1>4. QED BY <1>1, <1>2, <1>3, PTL DEF MinerSpec

-----------------------------------------------------------------------------
(* The chain is linked, unless a block fails to apply or the process dies. *)
(* The fork database alone keeps pushes on their parents: apply_block      *)
(* compares heights, not ids.  What follows is how it does.                *)

(* No block fails to apply, there is no crash, and the fork database keeps *)
(* what is reversible (1024 blocks against 10).                            *)
Regular == Bad = {} /\ ~ CanCrash /\ LibDepth <= MaxSize

(* Live pointers lead to items, and a cached block waits for its parent.   *)
ForkLinked(f) ==
    /\ f.linked \subseteq f.index
    /\ \A x \in f.linked : Parent[x] \in f.index
    /\ f.head_linked => Parent[f.head] \in f.index
    /\ \A x \in f.unlinked : Parent[x] # Zero /\ Parent[x] \notin f.index
    /\ f.head = Zero => f = NoFork

(* No pointer of an item above number n has expired. *)
LinkedAbove(f, n) ==
    /\ \A x \in f.index : Num[x] > n => Parent[x] = Zero \/ x \in f.linked
    /\ Num[f.head] > n => Parent[f.head] = Zero \/ f.head_linked

(* The fork database holds the reversible part of the chain, and every     *)
(* pointer above the block log.                                            *)
HoldsChain(f) ==
    /\ f.head # Zero
    /\ ForkLinked(f)
    /\ LinkedAbove(f, Len(log))
    /\ \A m \in 1 .. Len(chain) : m >= Len(log) => chain[m] \in f.index

LogIsPrefix == /\ Len(log) <= Len(chain)
               /\ \A n \in 1 .. Len(log) : log[n] = chain[n]

(* Between pushes the head of the fork database is no child of the head of *)
(* the chain: a block that is pushed beside such a child would be applied  *)
(* in its place.                                                           *)
NoChildLeft ==
    pc = "idle" => fd.head = Zero \/ Parent[fd.head] # head_block_id

SwitchHeld ==
    /\ pc \notin {"unwind", "restore"}
    /\ pc \in {"pop", "apply"} => switch.todo \subseteq fd.index
    /\ pc = "pop" => /\ switch.todo # {}
                     /\ \/ switch.fork = Zero
                        \/ \E m \in 1 .. Len(chain) : chain[m] = switch.fork
    /\ pc = "apply" /\ switch.todo = {} =>
          chain # <<>> /\ fd.head = head_block_id

LinkInv ==
    /\ Linked(chain)
    /\ LogIsPrefix
    /\ ForkLinked(fd)
    /\ pc \notin Stopped /\ (chain # <<>> \/ pc # "idle") => HoldsChain(fd)
    /\ NoChildLeft
    /\ SwitchHeld

-----------------------------------------------------------------------------
(* Paths.                                                                  *)

(* A block of a path that is not its end is the parent of another. *)
LEMMA StepUp ==
  ASSUME NEW a \in Blocks, NEW y \in Path[a], y # a
  PROVE  \E w \in Path[a] : Parent[w] = y
  <1> DEFINE above == {x \in Path[a] : Num[x] > Num[y]}
  <1>1. Path[a] \subseteq Blocks /\ a \in Path[a] /\ y \in Blocks
    BY PathFacts
  <1>2. Num[a] > Num[y]
    BY <1>1, PathFacts, NumNat
  <1>3. {Num[x] : x \in above} \subseteq Nat /\ {Num[x] : x \in above} # {}
    BY <1>1, <1>2, NumNat
  <1>4. PICK m \in {Num[x] : x \in above} : \A k \in {Num[x] : x \in above} : m <= k
    BY <1>3, LeastNumber
  <1>5. PICK x \in above : m = Num[x]
    BY <1>4
  <1>6. x \in Path[a] /\ x \in Blocks /\ Num[x] > Num[y]
    BY <1>1, <1>5
  <1>7. Num[y] >= 1
    BY <1>1, NumAssumption, ParentAssumption
  <1>8. Parent[x] # Zero
    BY <1>1, <1>6, <1>7, NumAssumption
  <1>9. Parent[x] \in Path[a] /\ Parent[x] \in Blocks
    BY <1>1, <1>6, <1>8, PathFacts
  <1>10. Num[x] = Num[Parent[x]] + 1 /\ Num[Parent[x]] \in Nat /\ Num[y] \in Nat
    BY <1>1, <1>6, <1>9, ParentNumber, NumNat
  <1>11. ~ (Num[Parent[x]] > Num[y])
    <2>1. SUFFICES ASSUME Num[Parent[x]] > Num[y] PROVE FALSE
      OBVIOUS
    <2>2. Num[Parent[x]] \in {Num[v] : v \in above}
      BY <1>9, <2>1
    <2>3. m <= Num[Parent[x]]
      BY <1>4, <2>2
    <2>4. QED BY <1>5, <1>10, <2>3
  <1>12. Num[Parent[x]] = Num[y]
    BY <1>6, <1>10, <1>11
  <1>13. Parent[x] = y
    BY <1>1, <1>9, <1>12, PathFacts
  <1>14. QED BY <1>6, <1>13

(* A set with the end of a path and the parents of its blocks holds all    *)
(* of the path.                                                            *)
LEMMA PathInside ==
  ASSUME NEW a \in Blocks, NEW S, a \in S,
         \A w \in Path[a] : w \in S /\ Parent[w] # Zero => Parent[w] \in S
  PROVE  Path[a] \subseteq S
  <1> DEFINE out == Path[a] \ S
             gap == {Num[a] - Num[x] : x \in out}
  <1>1. Path[a] \subseteq Blocks /\ Num[a] \in Nat
    BY PathFacts, NumNat
  <1>2. SUFFICES ASSUME out # {} PROVE FALSE
    OBVIOUS
  <1>3. \A x \in out : Num[a] - Num[x] \in Nat
    BY <1>1, PathFacts, NumNat
  <1>4. gap \in SUBSET Nat /\ gap # {}
    BY <1>2, <1>3
  <1>5. PICK m \in gap : \A k \in gap : m <= k
    BY <1>4, LeastNumber
  <1>6. PICK y \in out : m = Num[a] - Num[y]
    BY <1>5
  <1>7. PICK w \in Path[a] : Parent[w] = y
    BY <1>6, StepUp
  <1>8. w \in Blocks /\ y \in Blocks /\ y # Zero
    BY <1>1, <1>6, ZeroAssumption
  <1>9. Num[w] = Num[y] + 1
    BY <1>7, <1>8, ParentNumber
  <1>10. w \in S
    <2>1. SUFFICES ASSUME w \notin S PROVE FALSE
      OBVIOUS
    <2>2. m <= Num[a] - Num[w]
      BY <1>5, <2>1
    <2>3. QED BY <1>1, <1>6, <1>8, <1>9, <2>2, NumNat
  <1>11. QED BY <1>6, <1>7, <1>8, <1>10

(* The path of a block is that of its parent and the block itself. *)
LEMMA PathStep ==
  ASSUME NEW x \in Blocks, Parent[x] \in Blocks
  PROVE  Path[x] = Path[Parent[x]] \cup {x} /\ x \notin Path[Parent[x]]
  <1> DEFINE p == Parent[x]
  <1>1. p # Zero /\ x \in Path[x] /\ p \in Path[x] /\ p \in Path[p]
    BY PathFacts, ZeroAssumption
  <1>2. Num[x] = Num[p] + 1 /\ Num[p] \in Nat
    BY ParentNumber, NumNat
  <1>3. x \notin Path[p]
    BY <1>2, PathFacts, NumNat
  <1>4. Path[p] \subseteq Path[x]
    <2>1. \A w \in Path[p] : w \in Path[x] /\ Parent[w] # Zero => Parent[w] \in Path[x]
      BY PathFacts
    <2>2. QED BY <1>1, <2>1, PathInside
  <1>5. Path[x] \subseteq Path[p] \cup {x}
    <2>1. PICK S : S = Path[p] \cup {x}
      OBVIOUS
    <2>2. x \in S /\ \A w \in Path[x] : w \in S /\ Parent[w] # Zero => Parent[w] \in S
      BY <1>1, <2>1, PathFacts
    <2>3. Path[x] \subseteq S
      BY <2>2, PathInside
    <2>4. QED BY <2>1, <2>3
  <1>6. QED BY <1>1, <1>3, <1>4, <1>5

(* The blocks that a chain with head b is made of. *)
Block(b, n) == IF n = Len(chain) + 1 THEN b ELSE chain[n]

LEMMA PathOfChain ==
  ASSUME ChainOK, Linked(chain), NEW b \in Blocks, Parent[b] = head_block_id
  PROVE  /\ \A n \in 1 .. Len(chain) + 1 :
               Block(b, n) \in Path[b] /\ Num[Block(b, n)] = n
         /\ \A x \in Path[b] : /\ Num[x] \in 1 .. Len(chain) + 1
                               /\ x = Block(b, Num[x])
  <1>1. /\ chain \in Seq(Blocks) /\ Len(chain) \in Nat /\ Num[b] = Len(chain) + 1
        /\ \A n \in 1 .. Len(chain) : chain[n] \in Blocks /\ Num[chain[n]] = n
    BY NextNumber, ElementOfSeq DEF ChainOK, NumbersMatch
  <1> DEFINE S == {Block(b, n) : n \in 1 .. Len(chain) + 1}
  <1>2. \A n \in 1 .. Len(chain) + 1 : Block(b, n) \in Blocks /\ Num[Block(b, n)] = n
    BY <1>1 DEF Block
  <1>3. ASSUME NEW n \in 1 .. Len(chain) + 1, n > 1
        PROVE  Parent[Block(b, n)] = Block(b, n - 1)
    <2>1. CASE n = Len(chain) + 1
      <3>1. chain # <<>>
        BY <1>1, <1>3, <2>1
      <3>2. QED BY <1>1, <1>3, <2>1, <3>1 DEF Block, head_block_id
    <2>2. CASE n # Len(chain) + 1
      BY <1>1, <1>3, <2>2 DEF Block, Linked
    <2>3. QED BY <2>1, <2>2
  <1>4. Parent[Block(b, 1)] = Zero
    <2>1. CASE Len(chain) = 0
      <3>1. chain = <<>>
        BY <1>1, <2>1
      <3>2. QED BY <2>1, <3>1 DEF Block, head_block_id
    <2>2. CASE Len(chain) # 0
      BY <1>1, <2>2 DEF Block, Linked
    <2>3. QED BY <2>1, <2>2
  <1>5. b \in S
    <2>1. Block(b, Len(chain) + 1) = b /\ Len(chain) + 1 \in 1 .. Len(chain) + 1
      BY <1>1 DEF Block
    <2>2. QED BY <2>1
  <1>6. ASSUME NEW w \in Path[b], w \in S, Parent[w] # Zero
        PROVE  Parent[w] \in S
    <2>1. PICK n \in 1 .. Len(chain) + 1 : w = Block(b, n)
      BY <1>6
    <2>2. n > 1
      BY <1>1, <1>4, <1>6, <2>1
    <2>3. Parent[w] = Block(b, n - 1) /\ n - 1 \in 1 .. Len(chain) + 1
      BY <1>1, <1>3, <2>1, <2>2
    <2>4. QED BY <2>3
  <1>7. Path[b] \subseteq S
    <2> HIDE DEF S
    <2>1. QED BY <1>5, <1>6, PathInside
  <1>8. ASSUME NEW x \in Path[b]
        PROVE  Num[x] \in 1 .. Len(chain) + 1 /\ x = Block(b, Num[x])
    <2>1. PICK n \in 1 .. Len(chain) + 1 : x = Block(b, n)
      BY <1>7
    <2>2. QED BY <1>2, <2>1
  <1>9. ASSUME NEW n \in 1 .. Len(chain) + 1
        PROVE  Block(b, n) \in Path[b]
    <2> DEFINE miss == {k \in 0 .. Len(chain) : Block(b, Len(chain) + 1 - k) \notin Path[b]}
    <2>1. SUFFICES ASSUME miss # {} PROVE FALSE
      <3>1. Len(chain) + 1 - n \in 0 .. Len(chain)
        BY <1>1
      <3>2. Len(chain) + 1 - (Len(chain) + 1 - n) = n
        BY <1>1
      <3>3. QED BY <3>1, <3>2
    <2>2. miss \in SUBSET Nat
      BY <1>1
    <2>3. PICK k \in miss : \A j \in miss : k <= j
      BY <2>1, <2>2, LeastNumber
    <2>4. k # 0
      <3>1. Block(b, Len(chain) + 1 - 0) = b
        BY <1>1 DEF Block
      <3>2. QED BY <3>1, PathFacts
    <2>5. k \in 1 .. Len(chain) /\ k - 1 \in 0 .. Len(chain)
      BY <1>1, <2>4
    <2>6. k - 1 \notin miss
      <3> HIDE DEF miss
      <3>1. SUFFICES ASSUME k - 1 \in miss PROVE FALSE
        OBVIOUS
      <3>2. k <= k - 1 /\ k \in Nat
        BY <2>2, <2>3, <3>1
      <3>3. QED BY <3>2
    <2>7. Block(b, Len(chain) + 1 - (k - 1)) \in Path[b]
      BY <2>5, <2>6
    <2> DEFINE u == Len(chain) + 1 - (k - 1)
    <2>8. u \in 1 .. Len(chain) + 1 /\ u > 1 /\ u - 1 = Len(chain) + 1 - k
      BY <1>1, <2>5
    <2>9. Parent[Block(b, u)] = Block(b, u - 1)
      BY <1>3, <2>8
    <2>10. Block(b, u - 1) \in Blocks
      BY <1>1, <1>2, <2>8
    <2>11. Block(b, u - 1) \in Path[b]
      BY <2>7, <2>9, <2>10, PathFacts, ZeroAssumption
    <2>12. QED BY <2>3, <2>8, <2>11
  <1>10. QED BY <1>2, <1>8, <1>9

-----------------------------------------------------------------------------
(* The operations of the fork database.                                    *)

(* push_block adopts a cached block if and only if it adopts its parent. *)
LEMMA AdoptedParents ==
  ASSUME NEW f \in Fork, NEW b \in Blocks, NEW x \in f.unlinked, x # b,
         Parent[x] # Zero
  PROVE  x \in Adopted(f, b) <=> Parent[x] \in Adopted(f, b)
  <1> DEFINE p == Parent[x]
  <1>1. x \in Blocks /\ p \in Blocks /\ p # x
    <2>1. x \in Blocks /\ p \in Blocks
      BY ParentAssumption DEF Fork
    <2>2. QED BY <2>1, ParentNumber, NumNat
  <1>2. /\ Path[x] = Path[p] \cup {x} /\ x \notin Path[p]
        /\ Num[x] = Num[p] + 1 /\ Num[p] \in Nat /\ Num[b] \in Nat
        /\ p \in Path[p] /\ x \in Path[x] /\ b \in Path[b]
    BY <1>1, PathStep, ParentNumber, NumNat, PathFacts
  <1>3. ASSUME x \in Adopted(f, b) PROVE p \in Adopted(f, b)
    <2>1. b \in Path[x] /\ \A y \in Path[x] : Num[y] > Num[b] => y \in f.unlinked
      BY <1>3 DEF Adopted
    <2>2. b \in Path[p]
      BY <1>2, <2>1
    <2>3. Num[b] <= Num[p] /\ (Num[b] = Num[p] => b = p)
      BY <1>1, <1>2, <2>2, PathFacts
    <2>4. CASE b = p
      BY <2>4 DEF Adopted
    <2>5. CASE b # p
      <3>1. p \in f.unlinked
        BY <1>2, <2>1, <2>3, <2>5
      <3>2. \A y \in Path[p] : Num[y] > Num[b] => y \in f.unlinked
        BY <1>2, <2>1
      <3>3. QED BY <2>2, <2>5, <3>1, <3>2 DEF Adopted
    <2>6. QED BY <2>4, <2>5
  <1>4. ASSUME p \in Adopted(f, b) PROVE x \in Adopted(f, b)
    <2>1. b \in Path[p]
      BY <1>2, <1>4 DEF Adopted
    <2>2. \A y \in Path[p] : Num[y] > Num[b] => y \in f.unlinked
      <3>1. CASE p = b
        BY <1>1, <1>2, <3>1, PathFacts, NumNat
      <3>2. CASE p # b
        BY <1>4, <3>2 DEF Adopted
      <3>3. QED BY <3>1, <3>2
    <2>3. \A y \in Path[x] : Num[y] > Num[b] => y \in f.unlinked
      BY <1>2, <2>2
    <2>4. b \in Path[x]
      BY <1>2, <2>1
    <2>5. QED BY <2>3, <2>4 DEF Adopted
  <1>5. QED BY <1>3, <1>4

(* The fields of what push_block returns. *)
LEMMA PushFields ==
  ASSUME NEW f \in Fork, NEW b \in Blocks, NEW g \in push_block(f, b)
  PROVE  /\ g \in Fork /\ g.head \in Blocks
         /\ g.index = f.index \cup Adopted(f, b)
         /\ g.linked = f.linked \cup (FoundPrevious(f, b) \ f.index)
         /\ g.unlinked = f.unlinked \ (Adopted(f, b) \ {b})
         /\ \/ g.head = f.head /\ g.head_linked = f.head_linked
            \/ /\ g.head \in Adopted(f, b)
               /\ f.head = Zero \/ Num[g.head] > Num[f.head]
               /\ g.head_linked <=> g.head \in FoundPrevious(f, b)
  <1>1. g \in Fork /\ g.head \in Blocks
    BY PushBlockType
  <1>2. PICK h \in NewHeads(f, b) :
           g = [index    |-> f.index \cup Adopted(f, b),
                linked   |-> f.linked \cup (FoundPrevious(f, b) \ f.index),
                unlinked |-> f.unlinked \ (Adopted(f, b) \ {b}),
                head     |-> h,
                head_linked |-> IF h \in Adopted(f, b) /\ h # f.head
                                THEN h \in FoundPrevious(f, b)
                                ELSE f.head_linked]
    BY DEF push_block
  <1>3. /\ g.index = f.index \cup Adopted(f, b)
        /\ g.linked = f.linked \cup (FoundPrevious(f, b) \ f.index)
        /\ g.unlinked = f.unlinked \ (Adopted(f, b) \ {b})
        /\ g.head = h
        /\ g.head_linked = IF h \in Adopted(f, b) /\ h # f.head
                           THEN h \in FoundPrevious(f, b)
                           ELSE f.head_linked
    BY <1>2
  <1>4. \/ h = f.head
        \/ h \in Adopted(f, b) /\ (f.head = Zero \/ Num[h] > Num[f.head])
    BY DEF NewHeads
  <1>5. CASE h = f.head
    BY <1>1, <1>3, <1>5
  <1>6. CASE h # f.head
    <2>1. g.head_linked = (h \in FoundPrevious(f, b))
      BY <1>3, <1>4, <1>6
    <2>2. QED BY <1>1, <1>3, <1>4, <1>6, <2>1
  <1>7. QED BY <1>5, <1>6

(* A block that links is not cached. *)
LEMMA LinksNotCached ==
  ASSUME NEW f \in Fork, NEW b \in Blocks, ForkLinked(f), Links(f, b)
  PROVE  b \notin f.unlinked
  BY DEF ForkLinked, Links, NoFork

LEMMA PushLinked ==
  ASSUME NEW f \in Fork, NEW b \in Blocks, ForkLinked(f), Links(f, b),
         NEW g \in push_block(f, b)
  PROVE  /\ ForkLinked(g)
         /\ f.index \subseteq g.index /\ b \in g.index
         /\ \A n \in Nat : f.head # Zero /\ LinkedAbove(f, n) => LinkedAbove(g, n)
  <1>1. /\ g \in Fork /\ g.head \in Blocks
        /\ g.index = f.index \cup Adopted(f, b)
        /\ g.linked = f.linked \cup (FoundPrevious(f, b) \ f.index)
        /\ g.unlinked = f.unlinked \ (Adopted(f, b) \ {b})
        /\ \/ g.head = f.head /\ g.head_linked = f.head_linked
           \/ /\ g.head \in Adopted(f, b)
              /\ g.head_linked <=> g.head \in FoundPrevious(f, b)
    BY PushFields
  <1>2. b \in Adopted(f, b) /\ Adopted(f, b) \subseteq f.unlinked \cup {b}
    BY DEF Adopted
  <1>3. b \notin f.unlinked
    BY LinksNotCached
  <1>4. \A x \in f.unlinked : Parent[x] # Zero /\ Parent[x] \notin f.index
    BY DEF ForkLinked
  <1>5. \A x \in f.unlinked : x \in Adopted(f, b) <=> Parent[x] \in Adopted(f, b)
    BY <1>3, <1>4, AdoptedParents
  <1>6. ASSUME NEW x \in FoundPrevious(f, b) PROVE Parent[x] \in g.index
    <2>1. x \in Adopted(f, b) /\ Parent[x] # Zero /\ (x = b => f.head # Zero)
      BY DEF FoundPrevious
    <2>2. CASE x = b
      BY <1>1, <2>1, <2>2 DEF Links
    <2>3. CASE x # b
      BY <1>1, <1>2, <1>5, <2>1, <2>3
    <2>4. QED BY <2>2, <2>3
  <1>7. FoundPrevious(f, b) \subseteq Adopted(f, b)
    BY DEF FoundPrevious
  <1>8. g.linked \subseteq g.index /\ \A x \in g.linked : Parent[x] \in g.index
    BY <1>1, <1>6, <1>7 DEF ForkLinked
  <1>9. g.head_linked => Parent[g.head] \in g.index
    BY <1>1, <1>6 DEF ForkLinked
  <1>10. \A x \in g.unlinked : Parent[x] # Zero /\ Parent[x] \notin g.index
    BY <1>1, <1>3, <1>4, <1>5
  <1>11. g.head # Zero
    BY <1>1, ZeroAssumption
  <1>12. ForkLinked(g)
    BY <1>8, <1>9, <1>10, <1>11 DEF ForkLinked
  <1>13. ASSUME NEW n \in Nat, f.head # Zero, LinkedAbove(f, n)
         PROVE  LinkedAbove(g, n)
    <2>1. \A x \in Adopted(f, b) : Parent[x] = Zero \/ x \in FoundPrevious(f, b)
      BY <1>13 DEF FoundPrevious
    <2>2. \A x \in g.index : Num[x] > n => Parent[x] = Zero \/ x \in g.linked
      BY <1>1, <1>13, <2>1 DEF LinkedAbove
    <2>3. Num[g.head] > n => Parent[g.head] = Zero \/ g.head_linked
      BY <1>1, <1>13, <2>1 DEF LinkedAbove
    <2>4. QED BY <2>2, <2>3 DEF LinkedAbove
  <1>14. QED BY <1>1, <1>2, <1>12, <1>13

LEMMA CacheLinked ==
  ASSUME NEW f \in Fork, NEW b \in Blocks, ForkLinked(f), ~ Links(f, b)
  PROVE  /\ ForkLinked(cache_unlinked(f, b))
         /\ cache_unlinked(f, b).head = f.head
         /\ cache_unlinked(f, b).index = f.index
         /\ \A n : LinkedAbove(f, n) => LinkedAbove(cache_unlinked(f, b), n)
  <1>1. PICK g : g = cache_unlinked(f, b)
    OBVIOUS
  <1>2. /\ g.index = f.index /\ g.linked = f.linked /\ g.head = f.head
        /\ g.head_linked = f.head_linked /\ g.unlinked = f.unlinked \cup {b}
    BY <1>1 DEF cache_unlinked, Fork
  <1>3. f.head # Zero /\ Parent[b] # Zero /\ Parent[b] \notin f.index
    BY DEF Links
  <1>4. ForkLinked(g)
    BY <1>2, <1>3 DEF ForkLinked
  <1>5. \A n : LinkedAbove(f, n) => LinkedAbove(g, n)
    BY <1>2 DEF LinkedAbove
  <1>6. QED BY <1>1, <1>2, <1>4, <1>5

LEMMA SetHeadLinked ==
  ASSUME NEW f \in Fork, NEW b \in f.index, ForkLinked(f), NEW n, LinkedAbove(f, n)
  PROVE  /\ ForkLinked(set_head(f, b)) /\ LinkedAbove(set_head(f, b), n)
         /\ set_head(f, b).index = f.index /\ set_head(f, b).head = b
         /\ set_head(f, b) \in Fork /\ b \in Blocks /\ b # Zero
  <1>1. PICK g : g = set_head(f, b)
    OBVIOUS
  <1>2. /\ g.index = f.index /\ g.linked = f.linked /\ g.head = b
        /\ g.head_linked = (b \in f.linked) /\ g.unlinked = f.unlinked
    BY <1>1 DEF set_head, Fork
  <1>3. b \in Blocks /\ b # Zero
    BY ZeroAssumption DEF Fork
  <1>4. ForkLinked(g)
    BY <1>2, <1>3 DEF ForkLinked
  <1>5. LinkedAbove(g, n)
    BY <1>2 DEF LinkedAbove
  <1>6. g \in Fork
    BY <1>1, <1>3, SetHeadType
  <1>7. QED BY <1>1, <1>2, <1>3, <1>4, <1>5, <1>6

(* Trimming below number n leaves the pointers above n alone. *)
LEMMA TrimLinked ==
  ASSUME NEW f \in Fork, f.head # Zero, ForkLinked(f), NEW s \in Int,
         NEW n \in Nat, LinkedAbove(f, n), Num[f.head] - s <= n
  PROVE  /\ ForkLinked(set_max_size(f, s)) /\ LinkedAbove(set_max_size(f, s), n)
         /\ set_max_size(f, s) \in Fork /\ set_max_size(f, s).head = f.head
         /\ \A x \in f.index : Num[x] >= n => x \in set_max_size(f, s).index
  <1>1. PICK gone : gone = {x \in f.index : Num[x] < Max0(Num[f.head] - s)}
    OBVIOUS
  <1>2. PICK e : e = EraseItems(f, gone)
    OBVIOUS
  <1>3. PICK g : g = set_max_size(f, s)
    OBVIOUS
  <1>4. e \in Fork
    BY <1>2, EraseType
  <1>5. /\ e.index = f.index \ gone
        /\ e.linked = {x \in f.linked \ gone : Parent[x] \notin gone}
        /\ e.unlinked = f.unlinked
        /\ e.head = f.head
        /\ e.head_linked = (f.head_linked /\ Parent[f.head] \notin gone)
    BY <1>2 DEF EraseItems, Fork
  <1>6. \E u : u \subseteq e.unlinked /\ g = [e EXCEPT !.unlinked = u]
    BY <1>1, <1>2, <1>3 DEF set_max_size
  <1>7. PICK u : u \subseteq e.unlinked /\ g = [e EXCEPT !.unlinked = u]
    BY <1>6
  <1>8. /\ g.index = e.index /\ g.linked = e.linked /\ g.head = e.head
        /\ g.head_linked = e.head_linked /\ g.unlinked \subseteq f.unlinked
    BY <1>4, <1>5, <1>7 DEF Fork
  <1>9. g \in Fork
    BY <1>3, SetMaxSizeType
  <1>10. f.head \in Blocks /\ f.index \subseteq Blocks
    BY DEF Fork
  <1>11. Max0(Num[f.head] - s) <= n /\ Max0(Num[f.head] - s) \in Int
    BY <1>10, NumNat DEF Max0
  <1>12. \A x \in gone : Num[x] < n
    BY <1>1, <1>10, <1>11, NumNat
  <1>13. ForkLinked(g)
    <2>1. g.linked \subseteq g.index /\ \A x \in g.linked : Parent[x] \in g.index
      BY <1>5, <1>8 DEF ForkLinked
    <2>2. g.head_linked => f.head_linked /\ Parent[f.head] \notin gone
      BY <1>5, <1>8
    <2>3. g.head_linked => Parent[g.head] \in g.index
      BY <1>5, <1>8, <2>2 DEF ForkLinked
    <2>4. \A x \in g.unlinked : Parent[x] # Zero /\ Parent[x] \notin g.index
      BY <1>5, <1>8 DEF ForkLinked
    <2>5. g.head # Zero
      BY <1>5, <1>8
    <2>6. QED BY <2>1, <2>3, <2>4, <2>5 DEF ForkLinked
  <1>14. ASSUME NEW x \in Blocks, Num[x] > n, Parent[x] # Zero
         PROVE  Parent[x] \notin gone /\ x \notin gone
    <2>1. Parent[x] \in Blocks
      BY <1>14, ParentAssumption
    <2>2. Num[x] = Num[Parent[x]] + 1 /\ Num[Parent[x]] \in Nat
      BY <2>1, ParentNumber, NumNat
    <2>3. QED BY <1>12, <1>14, <2>1, <2>2
  <1>15. ASSUME NEW x \in g.index, Num[x] > n, Parent[x] # Zero
         PROVE  x \in g.linked
    <2>1. x \in f.index /\ x \in Blocks
      BY <1>5, <1>8, <1>10, <1>15
    <2>2. x \in f.linked
      BY <1>15, <2>1 DEF LinkedAbove
    <2>3. QED BY <1>5, <1>8, <1>14, <1>15, <2>1, <2>2
  <1>16. ASSUME Num[g.head] > n, Parent[g.head] # Zero
         PROVE  g.head_linked
    <2>1. Num[f.head] > n /\ Parent[f.head] # Zero
      BY <1>5, <1>8, <1>16
    <2>2. f.head_linked
      BY <2>1 DEF LinkedAbove
    <2>3. Parent[f.head] \notin gone
      BY <1>10, <1>14, <2>1
    <2>4. QED BY <1>5, <1>8, <2>2, <2>3
  <1>17. LinkedAbove(g, n)
    BY <1>15, <1>16 DEF LinkedAbove
  <1>18. \A x \in f.index : Num[x] >= n => x \in g.index
    BY <1>5, <1>8, <1>10, <1>12, NumNat
  <1>19. QED BY <1>3, <1>5, <1>8, <1>9, <1>13, <1>17, <1>18

-----------------------------------------------------------------------------
(* apply_block on the head of the chain.                                   *)

(* b is the next block, and f is ready for it. *)
NextBlock(b, f) ==
    /\ b \in f.index /\ Parent[b] = head_block_id
    /\ f \in Fork /\ f.head = b
    /\ HoldsChain(f)

(* The main branch of the fork database is the chain with the new block,   *)
(* from the end of the block log on.                                       *)
LEMMA MainBranch ==
  ASSUME ChainOK, Linked(chain), LogIsPrefix, NEW b, NEW f, NextBlock(b, f),
         NEW n \in Len(log) + 1 .. Len(chain) + 1
  PROVE  fetch_main(f, n) = {Block(b, n)}
  <1>1. /\ b \in Blocks /\ b \in f.index /\ f.head = b /\ b # Zero
        /\ Num[b] = Len(chain) + 1 /\ Len(chain) \in Nat /\ Len(log) \in Nat
        /\ f.index \subseteq Blocks
    BY NextNumber, ZeroAssumption DEF NextBlock, Fork, ChainOK
  <1>2. /\ \A k \in 1 .. Len(chain) + 1 : Block(b, k) \in Path[b] /\ Num[Block(b, k)] = k
        /\ \A x \in Path[b] : Num[x] \in 1 .. Len(chain) + 1 /\ x = Block(b, Num[x])
    BY <1>1, PathOfChain DEF NextBlock
  <1>3. n \in 1 .. Len(chain) + 1 /\ n \in Nat /\ ~ (n > Num[b])
    BY <1>1
  <1>4. ASSUME NEW k \in n .. Len(chain) + 1 PROVE Block(b, k) \in f.index
    BY <1>1, <1>3, <1>4 DEF Block, NextBlock, HoldsChain
  <1>5. Block(b, n) \in f.index /\ Num[Block(b, n)] = n
    BY <1>2, <1>3, <1>4
  <1> DEFINE at == fetch_block_by_number(f, n)
  <1>6. Block(b, n) \in at
    BY <1>5 DEF fetch_block_by_number
  <1>7. walk_main_branch_to_num(f, n) = {Block(b, n)}
    <2>1. ASSUME NEW y \in Path[b], Num[y] > n
          PROVE  IF y = b THEN f.head_linked ELSE y \in f.linked
      <3>1. Num[y] \in n .. Len(chain) + 1 /\ y = Block(b, Num[y]) /\ y \in Blocks
        BY <1>1, <1>2, <1>3, <2>1, PathFacts
      <3>2. y \in f.index /\ Num[y] > Len(log) /\ Num[y] > 1
        BY <1>1, <1>3, <1>4, <2>1, <3>1
      <3>3. Parent[y] # Zero
        BY <3>1, <3>2, NumAssumption
      <3>4. QED BY <1>1, <3>2, <3>3 DEF NextBlock, HoldsChain, LinkedAbove
    <2>2. \A x \in Path[b] : Num[x] = n <=> x = Block(b, n)
      BY <1>2, <1>3
    <2>3. Block(b, n) \in Path[b]
      BY <1>2, <1>3
    <2>4. QED BY <1>1, <2>1, <2>2, <2>3 DEF walk_main_branch_to_num
  <1>8. fetch_main(f, n) = IF \A x, y \in at : x = y THEN at
                           ELSE walk_main_branch_to_num(f, n)
    BY <1>1, <1>3 DEF fetch_main
  <1>9. QED BY <1>6, <1>7, <1>8

(* No block fails to apply, and what becomes irreversible is the chain. *)
LEMMA NextMigrates ==
  ASSUME ChainOK, Linked(chain), LogIsPrefix, Regular, NEW b, NEW f, NextBlock(b, f)
  PROVE  /\ MayApply(b, f)
         /\ Len(MigratedLog(b, f)) \in Nat
         /\ Len(MigratedLog(b, f)) >= lib(Num[b]) /\ Len(MigratedLog(b, f)) >= Len(log)
         /\ Len(MigratedLog(b, f)) <= Len(chain) + 1
         /\ \A n \in 1 .. Len(MigratedLog(b, f)) : MigratedLog(b, f)[n] = Block(b, n)
  <1>1. /\ b \in Blocks /\ f.head = b /\ f \in Fork
        /\ Num[b] = Len(chain) + 1 /\ Len(chain) \in Nat /\ Len(log) \in Nat
        /\ log \in Seq(Blocks) /\ Len(log) <= Len(chain)
        /\ \A n \in 1 .. Len(log) : log[n] = chain[n]
    BY NextNumber DEF NextBlock, Fork, ChainOK, LogIsPrefix
  <1>2. lib(Num[b]) \in 0 .. Len(chain) + 1
    BY <1>1, LibFacts
  <1>3. ASSUME NEW n \in Len(log) + 1 .. lib(Num[b])
        PROVE  fetch_main(f, n) = {Block(b, n)}
    <2>1. n \in Len(log) + 1 .. Len(chain) + 1
      BY <1>1, <1>2
    <2>2. QED BY <2>1, MainBranch
  <1>4. Migrates(b, f)
    BY <1>1, <1>3 DEF Migrates
  <1>5. MayApply(b, f)
    BY <1>4 DEF MayApply, Regular
  <1> DEFINE k == Max0(lib(Num[b]) - Len(log))
             t == [i \in 1 .. k |-> CHOOSE x \in fetch_main(f, Len(log) + i) : TRUE]
  <1>6. k \in Nat /\ (k > 0 => Len(log) + k = lib(Num[b])) /\ Len(log) + k >= lib(Num[b])
    BY <1>1, <1>2 DEF Max0
  <1>7. ASSUME NEW i \in 1 .. k PROVE t[i] = Block(b, Len(log) + i) /\ t[i] \in Blocks
    <2>1. Len(log) + i \in Len(log) + 1 .. lib(Num[b])
      BY <1>1, <1>2, <1>6
    <2>2. fetch_main(f, Len(log) + i) = {Block(b, Len(log) + i)}
      BY <1>3, <2>1
    <2>3. t[i] = CHOOSE x \in fetch_main(f, Len(log) + i) : TRUE
      BY <1>7
    <2>4. t[i] = Block(b, Len(log) + i)
      BY <2>2, <2>3
    <2>5. Len(log) + i \in Nat
      BY <1>1, <1>6
    <2>6. Block(b, Len(log) + i) \in Blocks
      BY <1>1, <2>2, <2>5, FetchMainFacts
    <2>7. QED BY <2>4, <2>6
  <1> HIDE DEF k
  <1>8. t \in [1 .. k -> Blocks]
    BY <1>7
  <1>9. t \in Seq(Blocks) /\ Len(t) = k
    BY <1>6, <1>8, FunctionIsSeq
  <1>10. MigratedLog(b, f) = log \o t
    BY DEF MigratedLog, k
  <1> HIDE DEF t
  <1>11. /\ Len(log \o t) = Len(log) + k
         /\ \A n \in 1 .. Len(log) + k :
              (log \o t)[n] = IF n <= Len(log) THEN log[n] ELSE t[n - Len(log)]
    <2>1. log \in Seq(Blocks) /\ t \in Seq(Blocks) /\ Len(t) = k
      BY <1>1, <1>9
    <2>2. Len(log \o t) = Len(log) + Len(t)
      BY <2>1, ConcatProperties
    <2>3. \A n \in 1 .. Len(log) + Len(t) :
             (log \o t)[n] = IF n <= Len(log) THEN log[n] ELSE t[n - Len(log)]
      BY <2>1, ConcatProperties
    <2>4. QED BY <2>1, <2>2, <2>3
  <1>12. ASSUME NEW n \in 1 .. Len(log) + k PROVE (log \o t)[n] = Block(b, n)
    <2>1. CASE n <= Len(log)
      BY <1>1, <1>6, <1>11, <2>1 DEF Block
    <2>2. CASE n > Len(log)
      <3>1. n - Len(log) \in 1 .. k /\ Len(log) + (n - Len(log)) = n
        BY <1>1, <1>6, <2>2
      <3>2. QED BY <1>1, <1>6, <1>7, <1>11, <2>2, <3>1
    <2>3. n <= Len(log) \/ n > Len(log)
      BY <1>1, <1>6
    <2>4. QED BY <2>1, <2>2, <2>3, Zenon
  <1>13. Len(log) + k <= Len(chain) + 1
    BY <1>1, <1>2, <1>6
  <1>14. QED BY <1>1, <1>5, <1>6, <1>10, <1>11, <1>12, <1>13

LEMMA NextApplied ==
  ASSUME ChainOK, Linked(chain), LogIsPrefix, Regular, NEW b, NEW f, NextBlock(b, f),
         apply_block(b, f)
  PROVE  /\ Linked(chain)' /\ LogIsPrefix' /\ HoldsChain(fd)' /\ ForkLinked(fd)'
         /\ fd'.head = b /\ head_block_id' = b /\ chain' # <<>>
         /\ \A x \in f.index : Num[x] > Len(chain) => x \in fd'.index
  <1>1. /\ b \in Blocks /\ f.head = b /\ f \in Fork /\ b # Zero /\ b \in f.index
        /\ Num[b] = Len(chain) + 1 /\ Len(chain) \in Nat /\ Len(log) \in Nat
        /\ chain \in Seq(Blocks) /\ Parent[b] = head_block_id
    BY NextNumber, ZeroAssumption DEF NextBlock, Fork, ChainOK
  <1>2. /\ Len(log') \in Nat
        /\ Len(log') >= lib(Num[b]) /\ Len(log') >= Len(log) /\ Len(log') <= Len(chain) + 1
        /\ \A n \in 1 .. Len(log') : log'[n] = Block(b, n)
    BY NextMigrates DEF apply_block
  <1>3. /\ chain' \in Seq(Blocks) /\ chain' # <<>>
        /\ Len(chain') = Len(chain) + 1
        /\ \A k \in 1 .. Len(chain) : chain'[k] = chain[k]
        /\ chain'[Len(chain) + 1] = b
    BY <1>1, AppendProperties DEF apply_block
  <1>4. \A n \in 1 .. Len(chain) + 1 : chain'[n] = Block(b, n)
    BY <1>1, <1>3 DEF Block
  <1>5. LogIsPrefix'
    BY <1>1, <1>2, <1>3, <1>4 DEF LogIsPrefix
  <1>6. Linked(chain)'
    <2>1. ASSUME NEW n \in 1 .. Len(chain) + 1
          PROVE  Parent[chain'[n]] = IF n = 1 THEN Zero ELSE chain'[n - 1]
      <3>1. CASE n = Len(chain) + 1
        <4>1. CASE Len(chain) = 0
          BY <1>1, <1>3, <3>1, <4>1 DEF head_block_id
        <4>2. CASE Len(chain) # 0
          <5>1. chain # <<>> /\ n # 1 /\ n - 1 = Len(chain) /\ Len(chain) \in 1 .. Len(chain)
            BY <1>1, <3>1, <4>2
          <5>2. QED BY <1>1, <1>3, <3>1, <5>1 DEF head_block_id
        <4>3. QED BY <4>1, <4>2
      <3>2. CASE n # Len(chain) + 1
        <4>1. n \in 1 .. Len(chain) /\ (n # 1 => n - 1 \in 1 .. Len(chain))
          BY <1>1, <3>2
        <4>2. Parent[chain[n]] = IF n = 1 THEN Zero ELSE chain[n - 1]
          BY <4>1 DEF Linked
        <4>3. QED BY <1>3, <4>1, <4>2
      <3>3. QED BY <3>1, <3>2
    <2>2. QED BY <1>3, <2>1 DEF Linked
  <1>7. head_block_id' = b
    BY <1>3 DEF head_block_id
  <1>8. LinkedAbove(f, Len(log'))
    BY <1>1, <1>2, NumNat DEF NextBlock, HoldsChain, LinkedAbove, Fork
  <1>9. ForkLinked(f) /\ \A m \in 1 .. Len(chain) : m >= Len(log) => chain[m] \in f.index
    BY DEF NextBlock, HoldsChain
  <1> DEFINE s == Num[b] - lib(Num[b]) + 1
             g == set_max_size(f, s)
             h == set_max_size(g, MaxSize)
  <1>10. /\ lib(Num[b]) \in Nat /\ s \in Int /\ Num[f.head] - s <= Len(log')
         /\ MaxSize \in Int /\ Num[f.head] - MaxSize <= Len(log')
    <2>1. /\ lib(Num[b]) \in Nat /\ lib(Num[b]) >= Num[b] - LibDepth
          /\ LibDepth \in Nat /\ MaxSize \in Nat
      BY <1>1, LibDepthAssumption, MaxSizeAssumption DEF lib, Max0
    <2>2. LibDepth <= MaxSize
      BY DEF Regular
    <2>3. QED BY <1>1, <1>2, <2>1, <2>2
  <1>11. fd' = h
    BY DEF apply_block
  <1> HIDE DEF s
  <1>12. /\ ForkLinked(g) /\ LinkedAbove(g, Len(log')) /\ g \in Fork /\ g.head = b
         /\ \A x \in f.index : Num[x] >= Len(log') => x \in g.index
    BY <1>1, <1>2, <1>8, <1>9, <1>10, TrimLinked
  <1> HIDE DEF g
  <1>13. /\ ForkLinked(h) /\ LinkedAbove(h, Len(log')) /\ h.head = b
         /\ \A x \in g.index : Num[x] >= Len(log') => x \in h.index
    BY <1>1, <1>2, <1>10, <1>12, TrimLinked
  <1> HIDE DEF h
  <1>14. \A x \in f.index : Num[x] >= Len(log') => x \in fd'.index
    BY <1>11, <1>12, <1>13
  <1>15. ASSUME NEW m \in 1 .. Len(chain'), m >= Len(log') PROVE chain'[m] \in fd'.index
    <2>1. Num[chain'[m]] = m
      BY <1>1, <1>3, <1>15 DEF ChainOK, NumbersMatch
    <2>2. chain'[m] \in f.index
      BY <1>1, <1>2, <1>3, <1>9, <1>15
    <2>3. QED BY <1>14, <1>15, <2>1, <2>2
  <1>16. ForkLinked(fd)' /\ LinkedAbove(fd', Len(log')) /\ fd'.head = b
    BY <1>11, <1>13
  <1>17. HoldsChain(fd)'
    BY <1>1, <1>15, <1>16 DEF HoldsChain
  <1>18. \A x \in f.index : Num[x] > Len(chain) => x \in fd'.index
    <2>1. f.index \subseteq Blocks
      BY <1>1 DEF Fork
    <2>2. QED BY <1>1, <1>2, <1>14, <2>1, NumNat
  <1>19. QED BY <1>3, <1>5, <1>6, <1>7, <1>16, <1>17, <1>18

-----------------------------------------------------------------------------
(* One step per action.                                                    *)

LEMMA NotOwnParent ==
  ASSUME NEW b \in Blocks
  PROVE  Parent[b] # b
  <1>1. SUFFICES ASSUME Parent[b] = b PROVE FALSE
    OBVIOUS
  <1>2. Num[b] = Num[b] + 1
    BY <1>1, ParentNumber
  <1>3. QED BY <1>2, NumNat

LEMMA NoForkLinked == ForkLinked(NoFork)
  BY DEF ForkLinked, NoFork

(* The head of the chain is an item of the fork database. *)
LEMMA HeadHeld ==
  ASSUME ChainOK, LogIsPrefix, chain # <<>>, NEW f, HoldsChain(f)
  PROVE  head_block_id \in f.index
  <1>1. Len(chain) \in 1 .. Len(chain) /\ Len(chain) >= Len(log)
    BY EmptySeq DEF ChainOK, LogIsPrefix
  <1>2. QED BY <1>1 DEF HoldsChain, head_block_id

(* A push that does not touch the chain. *)
LEMMA PushHolds ==
  ASSUME ChainOK, LinkInv, pc = "idle", NEW b \in Blocks, Links(fd, b),
         NEW f \in push_block(fd, b)
  PROVE  /\ ForkLinked(f) /\ f \in Fork /\ f.head \in Blocks /\ b \in f.index
         /\ chain # <<>> => HoldsChain(f)
  <1>1. fd \in Fork /\ ForkLinked(fd) /\ Len(log) \in Nat
    BY DEF ChainOK, LinkInv
  <1>2. /\ ForkLinked(f) /\ fd.index \subseteq f.index /\ b \in f.index
        /\ \A n \in Nat : fd.head # Zero /\ LinkedAbove(fd, n) => LinkedAbove(f, n)
    BY <1>1, PushLinked
  <1>3. f \in Fork /\ f.head \in Blocks
    BY <1>1, PushBlockType
  <1>4. ASSUME chain # <<>> PROVE HoldsChain(f)
    <2>1. HoldsChain(fd)
      BY <1>4 DEF LinkInv, Stopped
    <2>2. QED BY <1>1, <1>2, <1>3, <2>1, ZeroAssumption DEF HoldsChain
  <1>5. QED BY <1>2, <1>3, <1>4

(* push_block returns or throws, and the chain is as it was. *)
LEMMA IdleAgain ==
  ASSUME LinkInv, UNCHANGED <<chain, log>>, pc' = "idle", ForkLinked(fd'),
         chain # <<>> => HoldsChain(fd'),
         fd'.head = Zero \/ Parent[fd'.head] # head_block_id
  PROVE  LinkInv'
  <1>1. Linked(chain)' /\ LogIsPrefix'
    BY DEF LinkInv, Linked, LogIsPrefix
  <1>2. chain' # <<>> => HoldsChain(fd)'
    BY DEF HoldsChain
  <1>3. NoChildLeft'
    BY DEF NoChildLeft, head_block_id
  <1>4. SwitchHeld'
    BY DEF SwitchHeld
  <1>5. QED BY <1>1, <1>2, <1>3, <1>4 DEF LinkInv

LEMMA LinkRefused ==
  ASSUME IndInv, LinkInv, NEW b \in Blocks, push_refused(b)
  PROVE  LinkInv'
  <1>1. pc = "idle" /\ pc' = "idle" /\ UNCHANGED <<chain, log>>
    BY DEF push_refused, Throw
  <1>2. fd \in Fork /\ ForkLinked(fd) /\ (chain # <<>> => HoldsChain(fd))
    BY <1>1 DEF IndInv, ChainOK, LinkInv, Stopped
  <1>3. fd.head = Zero \/ Parent[fd.head] # head_block_id
    BY <1>1 DEF LinkInv, NoChildLeft
  <1>4. CASE fd' = fd
    BY <1>1, <1>2, <1>3, <1>4, IdleAgain
  <1>5. CASE ~ Links(fd, b) /\ fd' = cache_unlinked(fd, b)
    <2>1. /\ ForkLinked(fd') /\ fd'.head = fd.head /\ fd'.index = fd.index
          /\ \A n : LinkedAbove(fd, n) => LinkedAbove(fd', n)
      BY <1>2, <1>5, CacheLinked
    <2>2. chain # <<>> => HoldsChain(fd')
      BY <1>2, <2>1 DEF HoldsChain
    <2>3. QED BY <1>1, <1>3, <2>1, <2>2, IdleAgain
  <1>6. QED BY <1>4, <1>5 DEF push_refused

(* If the head of the fork database builds on ours, it is the block that   *)
(* was pushed.                                                             *)
LEMMA DirectNext ==
  ASSUME IndInv, LinkInv, pc = "idle", NEW b \in Blocks, Links(fd, b),
         NEW f \in push_block(fd, b), Parent[f.head] = head_block_id
  PROVE  NextBlock(b, f)
  <1>1. fd \in Fork /\ ForkLinked(fd) /\ ChainOK /\ LogIsPrefix
    BY DEF IndInv, ChainOK, LinkInv
  <1>2. fd.head = Zero \/ Parent[fd.head] # head_block_id
    BY DEF LinkInv, NoChildLeft
  <1>3. /\ f.head \in Blocks /\ f \in Fork
        /\ f.index = fd.index \cup Adopted(fd, b)
        /\ \/ f.head = fd.head
           \/ /\ f.head \in Adopted(fd, b)
              /\ fd.head = Zero \/ Num[f.head] > Num[fd.head]
    BY <1>1, PushFields
  <1>4. /\ f.head \in Adopted(fd, b)
        /\ fd.head = Zero \/ Num[f.head] > Num[fd.head]
    BY <1>2, <1>3, ZeroAssumption
  <1>5. /\ ForkLinked(f) /\ b \in f.index
        /\ chain # <<>> => HoldsChain(f)
    BY <1>1, PushHolds
  <1>6. f.head = b
    <2>1. SUFFICES ASSUME f.head # b PROVE FALSE
      OBVIOUS
    <2>2. f.head \in fd.unlinked
      BY <1>4, <2>1 DEF Adopted
    <2>3. head_block_id # Zero /\ head_block_id \notin fd.index
      BY <1>1, <2>2 DEF ForkLinked
    <2>4. chain # <<>>
      BY <2>3 DEF head_block_id
    <2>5. HoldsChain(fd)
      BY <2>4 DEF LinkInv, Stopped
    <2>6. QED BY <1>1, <2>3, <2>4, <2>5, HeadHeld
  <1>7. ASSUME chain = <<>> PROVE HoldsChain(f)
    <2>1. head_block_id = Zero /\ Len(chain) = 0 /\ Len(log) = 0
      BY <1>1, <1>7 DEF head_block_id, LogIsPrefix, ChainOK
    <2>2. Parent[b] = Zero /\ Num[b] = 1
      BY <1>6, <2>1, NumAssumption
    <2>3. fd.head = Zero
      <3>1. SUFFICES ASSUME fd.head # Zero PROVE FALSE
        OBVIOUS
      <3>2. fd.head \in Blocks /\ 1 > Num[fd.head]
        BY <1>1, <1>4, <1>6, <2>2, <3>1 DEF Fork
      <3>3. QED BY <3>2, NumAssumption, ParentAssumption
    <2>4. fd.index = {} /\ fd.unlinked = {}
      BY <1>1, <2>3 DEF ForkLinked, NoFork
    <2>5. f.index = {b}
      BY <1>3, <2>4 DEF Adopted
    <2>6. LinkedAbove(f, Len(log))
      BY <1>6, <2>2, <2>5 DEF LinkedAbove
    <2>7. f.head # Zero
      BY <1>3, ZeroAssumption
    <2>8. QED BY <1>5, <2>1, <2>6, <2>7 DEF HoldsChain
  <1>8. QED BY <1>3, <1>5, <1>6, <1>7 DEF NextBlock

LEMMA LinkDirect ==
  ASSUME Regular, IndInv, LinkInv, NEW b \in Blocks, push_direct(b)
  PROVE  LinkInv'
  <1>1. PICK f \in push_block(fd, b) :
           /\ Accepted(b, f)
           /\ Parent[f.head] = head_block_id
           /\ \/ MayApply(b, f) /\ apply_block(b, f) /\ Return
              \/ MayFail(b, f)
    BY DEF push_direct
  <1>2. NextBlock(b, f)
    BY <1>1, DirectNext DEF Accepted
  <1>3. ChainOK /\ Linked(chain) /\ LogIsPrefix
    BY DEF IndInv, LinkInv
  <1>4. ~ MayFail(b, f)
    BY <1>2, <1>3, NextMigrates DEF MayFail, NextBlock
  <1>5. apply_block(b, f) /\ pc' = "idle"
    BY <1>1, <1>4 DEF Return
  <1>6. /\ Linked(chain)' /\ LogIsPrefix' /\ HoldsChain(fd)' /\ ForkLinked(fd)'
        /\ fd'.head = b /\ head_block_id' = b
    BY <1>2, <1>3, <1>5, NextApplied
  <1>7. NoChildLeft'
    BY <1>6, NotOwnParent DEF NoChildLeft
  <1>8. SwitchHeld'
    BY <1>5 DEF SwitchHeld
  <1>9. QED BY <1>6, <1>7, <1>8 DEF LinkInv

LEMMA LinkKept ==
  ASSUME IndInv, LinkInv, NEW b \in Blocks, push_kept(b)
  PROVE  LinkInv'
  <1>1. PICK f \in push_block(fd, b) :
           Accepted(b, f) /\ Parent[f.head] # head_block_id /\ fd' = f /\ pc' = "idle"
    BY DEF push_kept, Return
  <1>2. ForkLinked(f) /\ (chain # <<>> => HoldsChain(f))
    BY <1>1, PushHolds DEF Accepted, IndInv
  <1>3. UNCHANGED <<chain, log>>
    BY DEF push_kept
  <1>4. QED BY <1>1, <1>2, <1>3, IdleAgain

-----------------------------------------------------------------------------
(* Fork switches.                                                          *)

(* The blocks to apply are items of the index. *)
LEMMA BranchInIndex ==
  ASSUME NEW f \in Fork, ForkLinked(f), NEW a \in f.index, NEW y \in Path[a],
         \A w \in Branch(a, Num[y]) : Num[w] > Num[y] => w \in f.linked
  PROVE  Branch(a, Num[y]) \subseteq f.index
  <1>1. a \in Blocks /\ Path[a] \subseteq Blocks /\ y \in Blocks
    BY PathFacts DEF Fork
  <1>2. SUFFICES ASSUME NEW w \in Branch(a, Num[y]) PROVE w \in f.index
    OBVIOUS
  <1>3. w \in Path[a] /\ w \in Blocks /\ Num[w] >= Num[y]
    BY <1>1 DEF Branch
  <1>4. CASE Num[w] > Num[y]
    BY <1>4 DEF ForkLinked
  <1>5. CASE Num[w] = Num[y] /\ w # a
    <2>1. PICK v \in Path[a] : Parent[v] = w
      BY <1>1, <1>3, <1>5, StepUp
    <2>2. v \in Blocks /\ Num[v] = Num[w] + 1 /\ Num[w] \in Nat
      BY <1>1, <1>3, <2>1, ParentNumber, NumNat
    <2>3. v \in Branch(a, Num[y]) /\ Num[v] > Num[y]
      BY <1>5, <2>2 DEF Branch
    <2>4. QED BY <2>1, <2>3 DEF ForkLinked
  <1>6. QED BY <1>1, <1>3, <1>4, <1>5, NumNat

(* The ancestors of the head are the blocks of the chain. *)
LEMMA AncestorsOnChain ==
  ASSUME ChainOK, Linked(chain), chain # <<>>, NEW x \in Path[head_block_id]
  PROVE  \E m \in 1 .. Len(chain) : chain[m] = x
  <1>1. /\ chain \in Seq(Blocks) /\ Len(chain) \in Nat /\ Len(chain) \in 1 .. Len(chain)
        /\ head_block_id \in Blocks /\ head_block_id = chain[Len(chain)]
    BY HeadFacts, EmptySeq DEF ChainOK, head_block_id
  <1>2. PICK S : S = {chain[m] : m \in 1 .. Len(chain)}
    OBVIOUS
  <1>3. head_block_id \in S
    BY <1>1, <1>2
  <1>4. ASSUME NEW w \in S, Parent[w] # Zero PROVE Parent[w] \in S
    <2>1. PICK m \in 1 .. Len(chain) : w = chain[m]
      BY <1>2
    <2>2. Parent[chain[m]] = IF m = 1 THEN Zero ELSE chain[m - 1]
      BY DEF Linked
    <2>3. m - 1 \in 1 .. Len(chain) /\ Parent[w] = chain[m - 1]
      BY <1>1, <1>4, <2>1, <2>2
    <2>4. QED BY <1>2, <2>3
  <1>5. Path[head_block_id] \subseteq S
    BY <1>1, <1>3, <1>4, PathInside
  <1>6. QED BY <1>2, <1>5

LEMMA FetchedHeld ==
  ASSUME ChainOK, Linked(chain), chain # <<>>, NEW f \in Fork, ForkLinked(f),
         NEW br \in fetch_branch_from(f, f.head, head_block_id)
  PROVE  /\ br.first \subseteq f.index /\ br.first # {}
         /\ br.fork = Zero \/ \E m \in 1 .. Len(chain) : chain[m] = br.fork
  <1> DEFINE a == f.head
  <1>1. PICK x \in Path[head_block_id] :
            /\ {a, head_block_id} \subseteq f.index
            /\ Meets(a, x)
            /\ \A w \in Branch(a, Num[x]) \cup Branch(head_block_id, Num[x]) :
                  Num[w] > Num[x] => w \in f.linked
            /\ br = [fork   |-> Parent[x],
                     first  |-> Branch(a, Num[x]),
                     second |-> Branch(head_block_id, Num[x])]
    BY DEF fetch_branch_from
  <1>2. PICK y \in Path[a] : Num[y] = Num[x]
    BY <1>1 DEF Meets
  <1>3. br.first = Branch(a, Num[y]) /\ br.fork = Parent[x]
    BY <1>1, <1>2
  <1>4. br.first \subseteq f.index
    BY <1>1, <1>2, <1>3, BranchInIndex
  <1>5. y \in br.first
    <2>1. y \in Blocks
      BY <1>1, PathFacts DEF Fork
    <2>2. QED BY <1>3, <2>1, NumNat DEF Branch
  <1>6. PICK m \in 1 .. Len(chain) : chain[m] = x
    BY AncestorsOnChain
  <1>7. Parent[x] = IF m = 1 THEN Zero ELSE chain[m - 1]
    BY <1>6 DEF Linked
  <1>8. m # 1 => m - 1 \in 1 .. Len(chain)
    BY DEF ChainOK
  <1>9. br.fork = Zero \/ \E k \in 1 .. Len(chain) : chain[k] = br.fork
    BY <1>3, <1>7, <1>8
  <1>10. QED BY <1>4, <1>5, <1>9

LEMMA LinkSwitched ==
  ASSUME IndInv, LinkInv, NEW b \in Blocks, push_switch(b)
  PROVE  LinkInv'
  <1>1. PICK f \in push_block(fd, b) :
           /\ Accepted(b, f) /\ Parent[f.head] # head_block_id
           /\ fd' = f
           /\ \/ \E br \in fetch_branch_from(f, f.head, head_block_id) :
                    /\ head_block_id # Zero
                    /\ switch' = [fork |-> br.fork, second |-> br.second,
                                  todo |-> br.first]
                    /\ pc' = "pop"
              \/ pc' = "idle"
    BY DEF push_switch, Throw
  <1>2. /\ ForkLinked(f) /\ f \in Fork /\ (chain # <<>> => HoldsChain(f))
        /\ ChainOK /\ Linked(chain) /\ LogIsPrefix
    BY <1>1, PushHolds DEF Accepted, IndInv, LinkInv
  <1>3. UNCHANGED <<chain, log>>
    BY DEF push_switch
  <1>4. CASE pc' = "idle"
    BY <1>1, <1>2, <1>3, <1>4, IdleAgain
  <1>5. ASSUME NEW br \in fetch_branch_from(f, f.head, head_block_id),
               head_block_id # Zero,
               switch' = [fork |-> br.fork, second |-> br.second, todo |-> br.first],
               pc' = "pop"
        PROVE  LinkInv'
    <2>1. chain # <<>>
      BY <1>5 DEF head_block_id
    <2>2. /\ br.first \subseteq f.index /\ br.first # {}
          /\ br.fork = Zero \/ \E m \in 1 .. Len(chain) : chain[m] = br.fork
      BY <1>2, <2>1, FetchedHeld
    <2>3. switch'.todo = br.first /\ switch'.fork = br.fork
      BY <1>5
    <2>4. SwitchHeld'
      BY <1>1, <1>3, <1>5, <2>2, <2>3 DEF SwitchHeld
    <2>5. Linked(chain)' /\ LogIsPrefix' /\ HoldsChain(fd)' /\ ForkLinked(fd)'
      BY <1>1, <1>2, <1>3, <2>1 DEF Linked, LogIsPrefix, HoldsChain
    <2>6. NoChildLeft'
      BY <1>5 DEF NoChildLeft
    <2>7. QED BY <2>4, <2>5, <2>6 DEF LinkInv
  <1>6. QED BY <1>1, <1>4, <1>5

(* What a chain loses at its end takes nothing from the rest. *)
LEMMA PrefixLinked ==
  ASSUME ChainOK, ChainOK', Regular, Linked(chain), LogIsPrefix, log' = log,
         Len(chain') <= Len(chain), \A k \in 1 .. Len(chain') : chain'[k] = chain[k]
  PROVE  Linked(chain)' /\ LogIsPrefix'
  <1>1. /\ Len(chain) \in Nat /\ Len(chain') \in Nat /\ Len(log) \in Nat
        /\ undoable' \in 0 .. Len(chain')
    BY DEF ChainOK
  <1>2. Len(log) <= Len(chain')
    BY <1>1 DEF ChainOK, LogCommitted, Base, Regular
  <1>3. LogIsPrefix'
    BY <1>1, <1>2 DEF LogIsPrefix
  <1>4. ASSUME NEW n \in 1 .. Len(chain')
        PROVE  Parent[chain'[n]] = IF n = 1 THEN Zero ELSE chain'[n - 1]
    <2>1. n \in 1 .. Len(chain) /\ (n # 1 => n - 1 \in 1 .. Len(chain'))
      BY <1>1
    <2>2. Parent[chain[n]] = IF n = 1 THEN Zero ELSE chain[n - 1]
      BY <2>1 DEF Linked
    <2>3. QED BY <2>1, <2>2
  <1>5. QED BY <1>3, <1>4 DEF Linked

LEMMA LinkPop ==
  ASSUME Regular, IndInv, IndInv', LinkInv, switch_pop
  PROVE  LinkInv'
  <1>1. /\ pc = "pop" /\ ChainOK /\ ChainOK' /\ Linked(chain) /\ LogIsPrefix
        /\ fd \in Fork /\ log' = log
    BY DEF switch_pop, IndInv, ChainOK, LinkInv
  <1>2. /\ HoldsChain(fd) /\ ForkLinked(fd)
        /\ switch.todo \subseteq fd.index /\ switch.todo # {}
        /\ \/ switch.fork = Zero
           \/ \E m \in 1 .. Len(chain) : chain[m] = switch.fork
    BY <1>1 DEF LinkInv, SwitchHeld, Stopped
  <1>3. CASE head_block_id = switch.fork
    <2>1. UNCHANGED <<chain, log, fd, switch>> /\ pc' = "apply"
      BY <1>3 DEF switch_pop
    <2>2. SwitchHeld'
      BY <1>2, <2>1 DEF SwitchHeld
    <2>3. Linked(chain)' /\ LogIsPrefix' /\ HoldsChain(fd)' /\ ForkLinked(fd)'
      BY <1>1, <1>2, <2>1 DEF Linked, LogIsPrefix, HoldsChain
    <2>4. NoChildLeft'
      BY <2>1 DEF NoChildLeft
    <2>5. QED BY <2>2, <2>3, <2>4 DEF LinkInv
  <1>4. CASE head_block_id # switch.fork
    <2>1. pop_head
      BY <1>4 DEF switch_pop
    <2>2. chain # <<>> /\ head_block_id \in Blocks /\ Num[head_block_id] = Len(chain)
      <3>1. chain # <<>>
        BY <1>1, <1>2, <1>4 DEF head_block_id
      <3>2. QED BY <1>1, <3>1, HeadFacts
    <2>3. CASE CanPopBlock
      <3>1. /\ fd' = set_head(fd, Parent[fd.head]) /\ chain' = Undone
            /\ UNCHANGED <<pc, switch>>
        BY <2>1, <2>3 DEF pop_head, pop_block
      <3>2. Parent[fd.head] \in fd.index
        BY <1>2, <2>3 DEF CanPopBlock, CanPop, ForkLinked
      <3>3. /\ ForkLinked(fd') /\ LinkedAbove(fd', Len(log))
            /\ fd'.index = fd.index /\ fd'.head # Zero
        BY <1>1, <1>2, <3>1, <3>2, SetHeadLinked DEF HoldsChain
      <3>4. /\ chain \in Seq(Blocks) /\ Len(chain) \in Nat /\ Len(chain) >= 1
            /\ undoable \in Nat
        BY <1>1, <2>2, EmptySeq DEF ChainOK
      <3>5. /\ Len(chain') \in Nat /\ Len(chain') <= Len(chain)
            /\ \A k \in 1 .. Len(chain') : chain'[k] = chain[k]
            /\ Len(chain') >= Len(chain) - 1
        <4>1. CASE undoable > 0
          <5>1. Len(chain) - 1 \in 0 .. Len(chain)
            BY <3>4
          <5>2. chain' = SubSeq(chain, 1, Len(chain) - 1)
            BY <3>1, <4>1 DEF Undone
          <5>3. /\ Len(chain') = Len(chain) - 1
                /\ \A k \in 1 .. Len(chain) - 1 : chain'[k] = chain[k]
            BY <3>4, <5>1, <5>2, PrefixFacts
          <5>4. QED BY <3>4, <5>3
        <4>2. CASE ~ (undoable > 0)
          BY <3>1, <3>4, <4>2 DEF Undone
        <4>3. QED BY <4>1, <4>2
      <3>6. Linked(chain)' /\ LogIsPrefix'
        BY <1>1, <3>5, PrefixLinked
      <3>7. \A m \in 1 .. Len(chain') : m >= Len(log) => chain'[m] \in fd'.index
        BY <1>2, <3>3, <3>4, <3>5 DEF HoldsChain
      <3>8. HoldsChain(fd)'
        BY <1>1, <3>3, <3>7 DEF HoldsChain
      <3>9. \/ switch.fork = Zero
            \/ \E m \in 1 .. Len(chain') : chain'[m] = switch.fork
        <4>1. SUFFICES ASSUME NEW m \in 1 .. Len(chain), chain[m] = switch.fork
                       PROVE  \E k \in 1 .. Len(chain') : chain'[k] = switch.fork
          BY <1>2
        <4>2. m # Len(chain)
          BY <1>4, <2>2, <4>1 DEF head_block_id
        <4>3. m \in 1 .. Len(chain')
          BY <3>4, <3>5, <4>2
        <4>4. QED BY <3>5, <4>1, <4>3
      <3>10. SwitchHeld'
        BY <1>1, <1>2, <3>1, <3>3, <3>9 DEF SwitchHeld
      <3>11. NoChildLeft'
        BY <1>1, <3>1 DEF NoChildLeft
      <3>12. QED BY <3>3, <3>6, <3>8, <3>10, <3>11 DEF LinkInv
    <2>4. CASE ~ CanPopBlock
      <3>1. UNCHANGED <<chain, log, fd>> /\ pc' = "idle"
        BY <1>1, <2>1, <2>4 DEF pop_head, Throw
      <3>2. head_block_id \in fd.index
        BY <1>1, <1>2, <2>2, HeadHeld
      <3>3. fd.head # Zero /\ ~ fd.head_linked
        BY <1>2, <2>4, <3>2 DEF CanPopBlock, CanPop, fetch_block, HoldsChain
      <3>4. ASSUME Parent[fd.head] = head_block_id PROVE FALSE
        <4>1. fd.head \in Blocks
          BY <1>1, <3>3 DEF Fork
        <4>2. Num[fd.head] = Len(chain) + 1
          BY <1>1, <3>4, <4>1, NextNumber
        <4>3. Num[fd.head] > Len(log)
          BY <1>1, <4>2 DEF LogIsPrefix, ChainOK
        <4>4. Parent[fd.head] = Zero
          BY <1>2, <3>3, <4>3 DEF HoldsChain, LinkedAbove
        <4>5. QED BY <2>2, <3>4, <4>4, ZeroAssumption
      <3>5. QED BY <1>2, <3>1, <3>4, IdleAgain
    <2>5. QED BY <2>3, <2>4
  <1>5. QED BY <1>3, <1>4

LEMMA LinkApply ==
  ASSUME Regular, IndInv, LinkInv, NEW b \in switch.todo, switch_apply(b)
  PROVE  LinkInv'
  <1>1. /\ pc = "apply" /\ ChainOK /\ Linked(chain) /\ LogIsPrefix
        /\ fd \in Fork /\ Lowest(b)
    BY DEF switch_apply, IndInv, ChainOK, LinkInv
  <1>2. HoldsChain(fd) /\ switch.todo \subseteq fd.index
    BY <1>1 DEF LinkInv, SwitchHeld, Stopped
  <1>3. /\ switch.todo \in SUBSET Blocks /\ b \in Blocks
        /\ BranchOn(switch.todo, head_block_id) /\ switch \in Branches
    BY <1>1 DEF IndInv, ControlOK, SwitchOnBranch, Branches
  <1>4. Parent[b] = head_block_id
    BY <1>1, <1>3, LowestOnBase DEF Lowest
  <1>5. PICK f : f = set_head(fd, b)
    OBVIOUS
  <1>6. /\ ForkLinked(f) /\ LinkedAbove(f, Len(log)) /\ f.index = fd.index
        /\ f.head = b /\ f \in Fork /\ b # Zero
    BY <1>1, <1>2, <1>5, SetHeadLinked DEF HoldsChain
  <1>7. NextBlock(b, f)
    BY <1>2, <1>4, <1>6 DEF NextBlock, HoldsChain
  <1>8. ~ MayFail(b, f)
    BY <1>1, <1>4, <1>7, NextMigrates DEF MayFail
  <1>9. /\ apply_block(b, f) /\ pc' = "apply"
        /\ switch' = [switch EXCEPT !.todo = @ \ {b}]
    BY <1>1, <1>5, <1>8 DEF switch_apply
  <1>10. /\ Linked(chain)' /\ LogIsPrefix' /\ HoldsChain(fd)' /\ ForkLinked(fd)'
         /\ fd'.head = b /\ head_block_id' = b /\ chain' # <<>>
         /\ \A x \in f.index : Num[x] > Len(chain) => x \in fd'.index
    BY <1>1, <1>7, <1>9, NextApplied
  <1>11. switch'.todo = switch.todo \ {b}
    BY <1>3, <1>9 DEF Branches
  <1>12. \A x \in switch.todo : Num[x] > Len(chain)
    <2>1. Num[b] = Len(chain) + 1 /\ Len(chain) \in Nat
      BY <1>1, <1>3, <1>4, NextNumber DEF ChainOK
    <2>2. QED BY <1>1, <1>3, <2>1, NumNat DEF Lowest
  <1>13. switch'.todo \subseteq fd'.index
    BY <1>2, <1>6, <1>10, <1>11, <1>12
  <1>14. SwitchHeld'
    BY <1>9, <1>10, <1>13 DEF SwitchHeld
  <1>15. NoChildLeft'
    BY <1>9 DEF NoChildLeft
  <1>16. QED BY <1>10, <1>14, <1>15 DEF LinkInv

LEMMA LinkDone ==
  ASSUME IndInv, LinkInv, switch_done
  PROVE  LinkInv'
  <1>1. pc = "apply" /\ switch.todo = {} /\ pc' = "idle" /\ UNCHANGED <<chain, log, fd>>
    BY DEF switch_done, Return
  <1>2. HoldsChain(fd) /\ ForkLinked(fd) /\ chain # <<>> /\ fd.head = head_block_id
    BY <1>1 DEF LinkInv, SwitchHeld, Stopped
  <1>3. Parent[fd.head] # head_block_id
    BY <1>2, HeadFacts, NotOwnParent DEF IndInv
  <1>4. QED BY <1>1, <1>2, <1>3, IdleAgain

LEMMA LinkClosed ==
  ASSUME Regular, IndInv, IndInv', LinkInv, close
  PROVE  LinkInv'
  <1>1. /\ chain \in Seq(Blocks) /\ Len(chain) \in Nat /\ Base \in 0 .. Len(chain)
        /\ ChainOK /\ ChainOK' /\ Linked(chain) /\ LogIsPrefix
    BY DEF IndInv, ChainOK, Base, LinkInv
  <1>2. /\ Len(chain') = Base /\ \A n \in 1 .. Base : chain'[n] = chain[n]
        /\ log' = log /\ fd' = NoFork /\ pc' = "down"
    BY <1>1, PrefixFacts DEF close
  <1>3. Linked(chain)' /\ LogIsPrefix'
    BY <1>1, <1>2, PrefixLinked
  <1>4. ForkLinked(fd)'
    BY <1>2, NoForkLinked
  <1>5. pc' \in Stopped /\ NoChildLeft' /\ SwitchHeld'
    BY <1>2 DEF Stopped, NoChildLeft, SwitchHeld
  <1>6. QED BY <1>3, <1>4, <1>5 DEF LinkInv

(* A node that starts with the end of its block log as the only item. *)
LEMMA LinkStarted ==
  ASSUME ChainOK', Linked(chain)', LogIsPrefix', chain' # <<>>,
         Len(chain') <= Len(log'), fd' = start_block(NoFork, head_block_id'),
         pc' = "idle"
  PROVE  LinkInv'
  <1>1. /\ head_block_id' \in Blocks /\ Num[head_block_id'] = Len(chain')
        /\ Len(chain') \in Nat /\ Len(log') \in Nat
    <2>1. ChainOK' => /\ chain' # <<>> => /\ head_block_id' \in Blocks
                                         /\ Num[head_block_id'] = Len(chain')
      <3>1. SUFFICES ASSUME chain' # <<>>
                     PROVE  /\ head_block_id' \in Blocks
                            /\ Num[head_block_id'] = Len(chain')
        OBVIOUS
      <3>2. Len(chain') \in 1 .. Len(chain')
        BY EmptySeq DEF ChainOK
      <3>3. QED BY <3>2, ElementOfSeq DEF ChainOK, NumbersMatch, head_block_id
    <2>2. QED BY <2>1 DEF ChainOK
  <1>2. Len(log') = Len(chain')
    BY <1>1 DEF LogIsPrefix
  <1>3. PICK h : h = head_block_id'
    OBVIOUS
  <1>4. /\ fd'.index = {h} /\ fd'.linked = {} /\ fd'.unlinked = {}
        /\ fd'.head = h /\ fd'.head_linked = FALSE
    BY <1>3 DEF start_block, NoFork
  <1>5. h \in Blocks /\ h # Zero /\ Num[h] = Len(log')
    BY <1>1, <1>2, <1>3, ZeroAssumption
  <1>6. ForkLinked(fd)'
    BY <1>4, <1>5 DEF ForkLinked
  <1>7. LinkedAbove(fd', Len(log'))
    BY <1>1, <1>4, <1>5 DEF LinkedAbove
  <1>8. \A m \in 1 .. Len(chain') : m >= Len(log') => chain'[m] \in fd'.index
    <2>1. chain'[Len(chain')] = h
      BY <1>3 DEF head_block_id
    <2>2. QED BY <1>1, <1>2, <1>4, <2>1
  <1>9. HoldsChain(fd)'
    BY <1>4, <1>5, <1>6, <1>7, <1>8 DEF HoldsChain
  <1>10. NoChildLeft' /\ SwitchHeld'
    BY <1>3, <1>4, <1>5, NotOwnParent DEF NoChildLeft, SwitchHeld
  <1>11. QED BY <1>6, <1>9, <1>10 DEF LinkInv

(* A node that starts or stops with nothing. *)
LEMMA LinkEmpty ==
  ASSUME Linked(chain)', LogIsPrefix', chain' = <<>>, fd' = NoFork,
         pc' \in {"idle", "down"}
  PROVE  LinkInv'
  <1>1. ForkLinked(fd)'
    BY NoForkLinked
  <1>2. NoChildLeft' /\ SwitchHeld'
    BY DEF NoChildLeft, SwitchHeld, NoFork
  <1>3. pc' \in Stopped \/ pc' = "idle"
    BY DEF Stopped
  <1>4. QED BY <1>1, <1>2, <1>3 DEF LinkInv

LEMMA LinkOpened ==
  ASSUME IndInv, IndInv', LinkInv, open
  PROVE  LinkInv'
  <1>1. UNCHANGED <<chain, log>> /\ pc' = "idle" /\ ChainOK'
    BY DEF open, IndInv
  <1>2. Linked(chain)' /\ LogIsPrefix' /\ head_block_id' = head_block_id
    BY <1>1 DEF LinkInv, Linked, LogIsPrefix, head_block_id
  <1>3. CASE chain = <<>>
    BY <1>1, <1>2, <1>3, LinkEmpty DEF open
  <1>4. CASE chain # <<>>
    <2>1. fd' = start_block(NoFork, head_block_id') /\ Len(chain') <= Len(log')
      BY <1>1, <1>2, <1>4 DEF open
    <2>2. QED BY <1>1, <1>2, <1>4, <2>1, LinkStarted
  <1>5. QED BY <1>3, <1>4

LEMMA LinkReindexed ==
  ASSUME IndInv, IndInv', LinkInv, reindex
  PROVE  LinkInv'
  <1>1. chain' = log /\ log' = log /\ ChainOK' /\ ChainOK
    BY DEF reindex, IndInv
  <1>2. /\ Len(log) \in Nat /\ Len(chain) \in Nat /\ Len(log) <= Len(chain)
        /\ \A n \in 1 .. Len(log) : log[n] = chain[n]
    BY <1>1 DEF LinkInv, LogIsPrefix, ChainOK
  <1>3. Linked(chain)'
    <2>1. ASSUME NEW n \in 1 .. Len(log)
          PROVE  Parent[log[n]] = IF n = 1 THEN Zero ELSE log[n - 1]
      <3>1. n \in 1 .. Len(chain) /\ (n # 1 => n - 1 \in 1 .. Len(log))
        BY <1>2
      <3>2. Parent[chain[n]] = IF n = 1 THEN Zero ELSE chain[n - 1]
        BY <3>1 DEF Linked, LinkInv
      <3>3. QED BY <1>2, <3>1, <3>2
    <2>2. QED BY <1>1, <2>1 DEF Linked
  <1>4. LogIsPrefix'
    BY <1>1, <1>2 DEF LogIsPrefix
  <1>5. CASE log = <<>>
    BY <1>1, <1>3, <1>4, <1>5, LinkEmpty DEF reindex
  <1>6. CASE log # <<>>
    <2>1. fd' = start_block(NoFork, log[Len(log)]) /\ pc' = "idle"
      BY <1>6 DEF reindex
    <2>2. head_block_id' = log[Len(log)]
      BY <1>1, <1>6 DEF head_block_id
    <2>3. Len(chain') <= Len(log')
      BY <1>1, <1>2
    <2>4. QED BY <1>1, <1>3, <1>4, <1>6, <2>1, <2>2, <2>3, LinkStarted
  <1>7. QED BY <1>5, <1>6

-----------------------------------------------------------------------------
(* The theorems.                                                           *)

LEMMA LinkInitially ==
  ASSUME Init
  PROVE  LinkInv
  <1> DEFINE n == Len(Trunk)
  <1>1. PICK kept : kept = {Trunk[k] : k \in {m \in 1 .. n : m >= lib(n) - 1}}
    OBVIOUS
  <1>2. /\ Trunk \in Seq(Blocks) /\ n \in Nat /\ lib(n) \in 0 .. n
        /\ \A k \in 1 .. n : /\ Trunk[k] \in Blocks /\ Num[Trunk[k]] = k
                             /\ Parent[Trunk[k]] = IF k = 1 THEN Zero ELSE Trunk[k - 1]
    <2>1. Trunk \in Seq(Blocks) /\ n \in Nat
      BY TrunkAssumption
    <2>2. QED BY <2>1, TrunkAssumption, LibFacts, ElementOfSeq
  <1>3. /\ Len(log) = lib(n) /\ \A k \in 1 .. lib(n) : log[k] = Trunk[k]
        /\ chain = Trunk /\ pc = "idle"
    BY <1>2, PrefixFacts DEF Init
  <1>4. Linked(chain) /\ LogIsPrefix
    BY <1>2, <1>3 DEF Linked, LogIsPrefix
  <1>5. SwitchHeld
    BY <1>3 DEF SwitchHeld
  <1>6. CASE n = 0
    <2>1. fd = NoFork /\ chain = <<>>
      BY <1>2, <1>3, <1>6, EmptySeq DEF Init
    <2>2. ForkLinked(fd) /\ NoChildLeft
      BY <2>1, NoForkLinked DEF NoChildLeft, NoFork
    <2>3. QED BY <1>3, <1>4, <1>5, <2>1, <2>2 DEF LinkInv
  <1>7. CASE n # 0
    <2>1. fd = [index |-> kept,
                linked |-> {b \in kept : Parent[b] \in kept},
                unlinked |-> {},
                head |-> Trunk[n],
                head_linked |-> Parent[Trunk[n]] \in kept]
      BY <1>1, <1>7 DEF Init
    <2>2. /\ fd.index = kept /\ fd.linked = {b \in kept : Parent[b] \in kept}
          /\ fd.unlinked = {} /\ fd.head = Trunk[n]
          /\ fd.head_linked <=> Parent[Trunk[n]] \in kept
      BY <2>1
    <2>3. n \in 1 .. n /\ Trunk[n] \in Blocks /\ Trunk[n] # Zero
      BY <1>2, <1>7, ZeroAssumption
    <2>4. ForkLinked(fd)
      BY <2>2, <2>3 DEF ForkLinked
    <2>5. ASSUME NEW k \in 1 .. n, k > lib(n)
          PROVE  Parent[Trunk[k]] = Zero \/ Parent[Trunk[k]] \in kept
      <3>1. CASE k = 1
        BY <1>2, <3>1
      <3>2. CASE k # 1
        <4>1. k - 1 \in {m \in 1 .. n : m >= lib(n) - 1}
          BY <1>2, <2>5, <3>2
        <4>2. QED BY <1>1, <1>2, <3>2, <4>1
      <3>3. QED BY <3>1, <3>2
    <2>6. \A x \in fd.index : Num[x] > Len(log) => Parent[x] = Zero \/ x \in fd.linked
      <3>1. SUFFICES ASSUME NEW x \in kept, Num[x] > lib(n)
                     PROVE  Parent[x] = Zero \/ Parent[x] \in kept
        BY <1>3, <2>2
      <3>2. PICK k \in 1 .. n : x = Trunk[k]
        BY <1>1
      <3>3. QED BY <1>2, <2>5, <3>1, <3>2
    <2>7. Num[fd.head] > Len(log) => Parent[fd.head] = Zero \/ fd.head_linked
      BY <1>2, <1>3, <2>2, <2>3, <2>5
    <2>8. \A m \in 1 .. Len(chain) : m >= Len(log) => chain[m] \in fd.index
      <3>1. ASSUME NEW m \in 1 .. n, m >= lib(n) PROVE Trunk[m] \in kept
        <4>1. m \in {k \in 1 .. n : k >= lib(n) - 1}
          BY <1>2, <3>1
        <4>2. QED BY <1>1, <4>1
      <3>2. QED BY <1>3, <2>2, <3>1
    <2>9. HoldsChain(fd)
      BY <2>2, <2>3, <2>4, <2>6, <2>7, <2>8 DEF HoldsChain, LinkedAbove
    <2>10. head_block_id = Trunk[n]
      <3>1. chain # <<>>
        BY <1>2, <1>3, <1>7
      <3>2. QED BY <1>3, <3>1 DEF head_block_id
    <2>11. NoChildLeft
      BY <2>2, <2>3, <2>10, NotOwnParent DEF NoChildLeft
    <2>12. QED BY <1>4, <1>5, <2>4, <2>9, <2>11 DEF LinkInv
  <1>8. QED BY <1>6, <1>7

LEMMA LinkSteps ==
  ASSUME Regular, IndInv, IndInv', LinkInv, [Next]_vars
  PROVE  LinkInv'
  <1>1. ASSUME NEW b \in Blocks, push_refused(b) PROVE LinkInv'
    BY <1>1, LinkRefused
  <1>2. ASSUME NEW b \in Blocks, push_direct(b) PROVE LinkInv'
    BY <1>2, LinkDirect
  <1>3. ASSUME NEW b \in Blocks, push_kept(b) PROVE LinkInv'
    BY <1>3, LinkKept
  <1>4. ASSUME NEW b \in Blocks, push_switch(b) PROVE LinkInv'
    BY <1>4, LinkSwitched
  <1>5. CASE switch_pop
    BY <1>5, LinkPop
  <1>6. ASSUME NEW b \in switch.todo, switch_apply(b) PROVE LinkInv'
    BY <1>6, LinkApply
  <1>7. CASE switch_done
    BY <1>7, LinkDone
  <1>8. pc \notin {"unwind", "restore"} /\ ~ CanCrash
    BY DEF LinkInv, SwitchHeld, Regular
  <1>9. ~ switch_unwind /\ ~ switch_rethrow /\ \A b : ~ switch_restore(b)
    BY <1>8 DEF switch_unwind, switch_rethrow, switch_restore
  <1>10. ~ flush_state /\ ~ crash
    BY <1>8 DEF flush_state, crash
  <1>11. CASE close
    BY <1>11, LinkClosed
  <1>12. CASE open
    BY <1>12, LinkOpened
  <1>13. CASE reindex
    BY <1>13, LinkReindexed
  <1>14. CASE UNCHANGED vars
    BY <1>14 DEF vars, LinkInv, Linked, LogIsPrefix, HoldsChain, NoChildLeft,
                 SwitchHeld, head_block_id
  <1>15. QED BY <1>1, <1>2, <1>3, <1>4, <1>5, <1>6, <1>7, <1>9, <1>10, <1>11,
                <1>12, <1>13, <1>14 DEF Next

LEMMA LinkInvariance ==
  ASSUME Regular
  PROVE  Spec => []LinkInv
  <1>1. Init => LinkInv
    BY LinkInitially
  <1>2. IndInv /\ IndInv' /\ LinkInv /\ [Next]_vars => LinkInv'
    BY LinkSteps
  <1>3. QED BY <1>1, <1>2, Invariance, PTL DEF Spec

(* Whatever order blocks arrive in and however often, through fork         *)
(* switches of any depth and clean restarts, every block is applied on the *)
(* block its header names, although push_block never compares the two.     *)
(* Only a block that fails to apply or a crash can change that.            *)
THEOREM ChainAlwaysLinked ==
  ASSUME Regular
  PROVE  Spec => []ChainLinked
  <1>1. LinkInv => ChainLinked
    BY DEF LinkInv, ChainLinked
  <1>2. QED BY <1>1, LinkInvariance, PTL

(* Under the same conditions the block log is the beginning of the chain:  *)
(* the main branch that migrate_irreversible_state reads is the chain,     *)
(* whatever branches the fork database holds beside it.                    *)
THEOREM LogAlwaysOnChain ==
  ASSUME Regular
  PROVE  Spec => []LogOnChain
  <1>1. LinkInv => LogOnChain
    BY DEF LinkInv, LogIsPrefix, LogOnChain
  <1>2. QED BY <1>1, LinkInvariance, PTL

(* And no switch is unwound: once both branches are fetched and the old    *)
(* one is popped, every block of the new one applies.                      *)
NeverUnwound == pc \notin {"unwind", "restore"}
THEOREM SwitchesComplete ==
  ASSUME Regular
  PROVE  Spec => []NeverUnwound
  <1>1. LinkInv => NeverUnwound
    BY DEF LinkInv, SwitchHeld, NeverUnwound
  <1>2. QED BY <1>1, LinkInvariance, PTL

-----------------------------------------------------------------------------
(* The longest chain rule.  It needs that forks are shallow: a branch that *)
(* is higher than a block agrees with what that block makes irreversible.  *)
(* A deeper one leads to a switch that throws, and leaves a head of the    *)
(* fork database that is not ours.                                         *)
ShallowForks ==
    \A a, b \in Blocks : Num[a] > Num[b] =>
        \A x \in Path[b] : Num[x] <= lib(Num[b]) => x \in Path[a]

Shallow == /\ Regular /\ ShallowForks
           /\ ~ CanClose /\ LibDepth > 0 /\ Trunk # <<>>

(* What is not reversible any more is what has been written to the log. *)
TopIdle ==
    /\ chain # <<>> /\ fd.head = head_block_id
    /\ \A x \in fd.index : Num[x] <= Len(chain)
    /\ Len(log) = lib(Len(chain))
    /\ failed => push.extension = Zero

(* a is the block that the switch will end with. *)
TargetIs(a) == /\ Len(log) <= lib(Num[a])
               /\ \A x \in fd.index : Num[x] <= Num[a]

TopSwitch ==
    \/ \E a \in switch.todo : TargetIs(a)
    \/ /\ pc = "apply" /\ switch.todo = {}
       /\ Len(log) = lib(Len(chain))
       /\ \A x \in fd.index : Num[x] <= Len(chain)

(* The fork point can be reached by undo(). *)
TopPop ==
    /\ Num[fd.head] > Len(chain)
    /\ \/ switch.fork = Zero /\ Len(log) = 0
       \/ \E m \in 1 .. Len(chain) : m >= Len(log) /\ chain[m] = switch.fork

TopInv ==
    /\ Len(log) = Base
    /\ pc \notin Stopped
    /\ pc = "idle" => TopIdle
    /\ pc \in {"pop", "apply"} => TopSwitch
    /\ pc = "pop" => TopPop

-----------------------------------------------------------------------------
(* The head of the fork database is its highest item. *)
LEMMA PushHighest ==
  ASSUME NEW f \in Fork, f.head # Zero, NEW b \in Blocks, NEW g \in push_block(f, b),
         \A x \in f.index : Num[x] <= Num[f.head]
  PROVE  \A x \in g.index : Num[x] <= Num[g.head]
  <1>1. PICK h \in NewHeads(f, b) :
           g.head = h /\ g.index = f.index \cup Adopted(f, b)
    BY DEF push_block
  <1>2. PICK higher : higher = {x \in Adopted(f, b) : f.head = Zero \/ Num[x] > Num[f.head]}
    OBVIOUS
  <1>3. IF higher = {} THEN h = f.head
        ELSE h \in higher /\ \A y \in higher : Num[y] <= Num[h]
    BY <1>1, <1>2 DEF NewHeads
  <1>4. /\ f.head \in Blocks /\ f.index \subseteq Blocks /\ Adopted(f, b) \subseteq Blocks
    BY AdoptedType DEF Fork
  <1>5. \A x \in Blocks : Num[x] \in Nat
    BY NumNat
  <1>6. ASSUME NEW x \in Adopted(f, b) PROVE Num[x] <= Num[h]
    <2>1. x \notin higher => Num[x] <= Num[f.head]
      BY <1>2, <1>4, <1>5
    <2>2. CASE higher = {}
      BY <1>3, <2>1, <2>2
    <2>3. CASE higher # {}
      <3>1. Num[h] > Num[f.head] /\ h \in Blocks
        BY <1>2, <1>3, <1>4, <2>3
      <3>2. QED BY <1>3, <1>4, <1>5, <2>1, <2>3, <3>1
    <2>4. QED BY <2>2, <2>3
  <1>7. Num[f.head] <= Num[h]
    BY <1>2, <1>3, <1>4, <1>5
  <1>8. h \in Blocks
    BY <1>2, <1>3, <1>4
  <1>9. ASSUME NEW x \in f.index PROVE Num[x] <= Num[h]
    <2>1. /\ x \in Blocks /\ Num[x] \in Nat /\ Num[h] \in Nat
          /\ Num[f.head] \in Nat /\ Num[x] <= Num[f.head]
      BY <1>4, <1>5, <1>8
    <2>2. QED BY <1>7, <2>1
  <1>10. QED BY <1>1, <1>6, <1>9

(* Every path leads to a first block. *)
LEMMA FirstOfPath ==
  ASSUME NEW a \in Blocks
  PROVE  \E x \in Path[a] : Num[x] = 1 /\ Parent[x] = Zero
  <1>1. Path[a] \subseteq Blocks /\ a \in Path[a]
    BY PathFacts
  <1>2. {Num[x] : x \in Path[a]} \in SUBSET Nat /\ {Num[x] : x \in Path[a]} # {}
    BY <1>1, NumNat
  <1>3. PICK m \in {Num[x] : x \in Path[a]} : \A k \in {Num[x] : x \in Path[a]} : m <= k
    BY <1>2, LeastNumber
  <1>4. PICK x \in Path[a] : m = Num[x]
    BY <1>3
  <1>5. Parent[x] = Zero
    <2>1. SUFFICES ASSUME Parent[x] # Zero PROVE FALSE
      OBVIOUS
    <2>2. Parent[x] \in Path[a] /\ Parent[x] \in Blocks /\ x \in Blocks
      BY <1>1, <2>1, PathFacts
    <2>3. m <= Num[Parent[x]] /\ Num[x] = Num[Parent[x]] + 1
      BY <1>3, <2>2, ParentNumber
    <2>4. QED BY <1>4, <2>2, <2>3, NumNat
  <1>6. Num[x] = 1
    BY <1>1, <1>5, NumAssumption
  <1>7. QED BY <1>5, <1>6

(* Down to the end of the log, the branch of an item consists of items. *)
LEMMA BranchLinked ==
  ASSUME NEW f \in Fork, ForkLinked(f), NEW n \in Nat, LinkedAbove(f, n),
         NEW a \in f.index, NEW w \in Path[a], Num[w] > n
  PROVE  w \in f.index
  <1>1. PICK S : S = {x \in Path[a] : x \in f.index \/ Num[x] <= n}
    OBVIOUS
  <1>2. a \in Blocks /\ Path[a] \subseteq Blocks /\ a \in Path[a]
    BY PathFacts DEF Fork
  <1>3. ASSUME NEW x \in Path[a], x \in S, Parent[x] # Zero PROVE Parent[x] \in S
    <2>1. Parent[x] \in Path[a] /\ Parent[x] \in Blocks /\ x \in Blocks
      BY <1>2, <1>3, PathFacts
    <2>2. Num[x] = Num[Parent[x]] + 1 /\ Num[Parent[x]] \in Nat
      BY <2>1, ParentNumber, NumNat
    <2>3. CASE Num[x] <= n
      BY <1>1, <2>1, <2>2, <2>3
    <2>4. CASE Num[x] > n
      <3>1. x \in f.index
        BY <1>1, <1>3, <2>2, <2>4
      <3>2. x \in f.linked
        BY <1>3, <2>4, <3>1 DEF LinkedAbove
      <3>3. QED BY <1>1, <2>1, <3>2 DEF ForkLinked
    <2>5. QED BY <2>2, <2>3, <2>4
  <1>4. a \in S
    BY <1>1, <1>2
  <1>5. Path[a] \subseteq S
    BY <1>2, <1>3, <1>4, PathInside
  <1>6. QED BY <1>1, <1>2, <1>5, NumNat

(* The blocks of the chain are the ancestors of its head. *)
LEMMA ChainOnPath ==
  ASSUME ChainOK, Linked(chain), chain # <<>>
  PROVE  \A m \in 1 .. Len(chain) : chain[m] \in Path[head_block_id]
  <1> DEFINE H == head_block_id
  <1>0. /\ Len(chain) \in Nat /\ Len(chain) >= 1
        /\ \A n \in 1 .. Len(chain) : chain[n] \in Blocks
        /\ H = chain[Len(chain)] /\ H \in Blocks /\ H \in Path[H]
    BY HeadFacts, ElementOfSeq, PathFacts DEF ChainOK, head_block_id
  <1> HIDE DEF H
  <1> DEFINE miss == {k \in 0 .. Len(chain) - 1 : chain[Len(chain) - k] \notin Path[H]}
  <1>1. SUFFICES ASSUME miss # {} PROVE FALSE
    <2>1. ASSUME NEW m \in 1 .. Len(chain), chain[m] \notin Path[H] PROVE miss # {}
      <3>1. Len(chain) - m \in 0 .. Len(chain) - 1 /\ Len(chain) - (Len(chain) - m) = m
        BY <1>0
      <3>2. Len(chain) - m \in miss
        BY <2>1, <3>1
      <3>3. QED BY <3>2
    <2>2. QED BY <2>1 DEF H
  <1>2. miss \in SUBSET Nat
    BY <1>0
  <1>3. PICK k \in miss : \A j \in miss : k <= j
    BY <1>1, <1>2, LeastNumber
  <1>4. k \in 0 .. Len(chain) - 1 /\ chain[Len(chain) - k] \notin Path[H]
    BY <1>3
  <1>5. k # 0
    BY <1>0, <1>4
  <1>6. k - 1 \in 0 .. Len(chain) - 1 /\ k \in Nat
    BY <1>0, <1>4, <1>5
  <1>7. k - 1 \notin miss
    <2> HIDE DEF miss
    <2>1. SUFFICES ASSUME k - 1 \in miss PROVE FALSE
      OBVIOUS
    <2>2. k <= k - 1
      BY <1>3, <2>1
    <2>3. QED BY <1>6, <2>2
  <1>8. chain[Len(chain) - (k - 1)] \in Path[H]
    BY <1>6, <1>7
  <1>9. PICK u : u = Len(chain) - (k - 1)
    OBVIOUS
  <1>10. u \in 1 .. Len(chain) /\ u # 1 /\ u - 1 = Len(chain) - k /\ u - 1 \in 1 .. Len(chain)
    BY <1>0, <1>4, <1>5, <1>9
  <1>11. Parent[chain[u]] = chain[u - 1]
    BY <1>10 DEF Linked
  <1>12. chain[u - 1] \in Path[H]
    BY <1>0, <1>8, <1>9, <1>10, <1>11, PathFacts, ZeroAssumption
  <1>13. QED BY <1>4, <1>10, <1>12

(* The branch of a higher head leaves the chain where undo() can reach. *)
LEMMA ForkFound ==
  ASSUME ChainOK, Linked(chain), LogIsPrefix, Shallow, chain # <<>>,
         Len(log) = lib(Len(chain)), NEW f \in Fork, HoldsChain(f),
         f.head \in f.index, Num[f.head] > Len(chain)
  PROVE  /\ fetch_branch_from(f, f.head, head_block_id) # {}
         /\ \A br \in fetch_branch_from(f, f.head, head_block_id) :
              /\ f.head \in br.first
              /\ \/ br.fork = Zero /\ Len(log) = 0
                 \/ \E m \in 1 .. Len(chain) : m >= Len(log) /\ chain[m] = br.fork
  <1> DEFINE a == f.head
             L == Len(log)
  <1>1. PICK H : H = head_block_id
    OBVIOUS
  <1>2. /\ chain \in Seq(Blocks) /\ Len(chain) \in Nat /\ Len(chain) >= 1 /\ L \in Nat
        /\ \A n \in 1 .. Len(chain) : chain[n] \in Blocks /\ Num[chain[n]] = n
        /\ H = chain[Len(chain)]
    BY <1>1, EmptySeq, ElementOfSeq DEF ChainOK, NumbersMatch, head_block_id
  <1>3. L < Len(chain)
    BY <1>2, LibDepthAssumption DEF Shallow, lib, Max0
  <1>4. H \in Blocks /\ a \in Blocks /\ Num[H] = Len(chain) /\ H \in f.index
    BY <1>1, <1>2, HeadHeld DEF Fork
  <1>5. Path[H] \subseteq Blocks /\ H \in Path[H] /\ Path[a] \subseteq Blocks /\ a \in Path[a]
    BY <1>4, PathFacts
  <1>6. \A x \in Path[H] : \E m \in 1 .. Len(chain) : chain[m] = x
    BY <1>1, AncestorsOnChain
  <1>7. \A m \in 1 .. Len(chain) : chain[m] \in Path[H]
    BY <1>1, ChainOnPath
  <1>8. PICK z0 : z0 = chain[L + 1]
    OBVIOUS
  <1>9. z0 \in Path[H] /\ z0 \in Blocks /\ Num[z0] = L + 1 /\ L + 1 \in 1 .. Len(chain)
    BY <1>2, <1>3, <1>7, <1>8
  <1>10. Meets(a, z0)
    <2>1. CASE L = 0
      <3>1. Parent[z0] = Zero
        BY <1>8, <1>9, <2>1 DEF Linked
      <3>2. PICK y \in Path[a] : Num[y] = 1 /\ Parent[y] = Zero
        BY <1>4, FirstOfPath
      <3>3. QED BY <1>9, <2>1, <3>1, <3>2 DEF Meets
    <2>2. CASE L # 0
      <3>1. PICK x : x = chain[L]
        OBVIOUS
      <3>2. L \in 1 .. Len(chain) /\ x \in Path[H] /\ x \in Blocks /\ Num[x] = L
        BY <1>2, <1>3, <1>7, <2>2, <3>1
      <3>3. Parent[z0] = x
        <4>1. L + 1 # 1 /\ L + 1 - 1 = L
          BY <1>2, <2>2
        <4>2. QED BY <1>8, <1>9, <3>1, <4>1 DEF Linked
      <3>4. x \in Path[a]
        <4>1. Num[x] <= lib(Num[H])
          BY <1>2, <1>4, <3>2
        <4>2. Num[a] > Num[H]
          BY <1>4
        <4>3. QED BY <1>4, <3>2, <4>1, <4>2 DEF Shallow, ShallowForks
      <3>5. x # a
        BY <1>2, <1>3, <3>2
      <3>6. PICK y \in Path[a] : Parent[y] = x
        BY <1>4, <3>4, <3>5, StepUp
      <3>7. Num[y] = L + 1
        BY <1>5, <3>2, <3>6, ParentNumber
      <3>8. QED BY <1>9, <3>3, <3>6, <3>7 DEF Meets
    <2>3. QED BY <2>1, <2>2
  <1>11. ASSUME NEW z \in Path[H], Num[z] >= L + 1,
                NEW w \in Branch(a, Num[z]) \cup Branch(H, Num[z]), Num[w] > Num[z]
         PROVE  w \in f.linked
    <2>1. w \in Blocks /\ z \in Blocks /\ w \in Path[a] \cup Path[H]
      BY <1>5 DEF Branch
    <2>2. Num[w] > L /\ Num[w] > 1 /\ Num[w] \in Nat
      BY <1>2, <1>11, <2>1, NumNat
    <2>3. w \in f.index
      <3>1. ForkLinked(f) /\ LinkedAbove(f, L)
        BY DEF HoldsChain
      <3>2. QED BY <1>2, <1>4, <2>1, <2>2, <3>1, BranchLinked
    <2>4. Parent[w] # Zero
      BY <2>1, <2>2, NumAssumption
    <2>5. QED BY <2>2, <2>3, <2>4 DEF HoldsChain, LinkedAbove
  <1>12. PICK S : S = {w \in Path[H] : Meets(a, w)}
    OBVIOUS
  <1>13. \E z \in S : \A w \in S : Num[w] <= Num[z]
    <2>1. PICK gap : gap = {Num[H] - Num[w] : w \in S}
      OBVIOUS
    <2>2. \A w \in S : w \in Blocks /\ Num[w] <= Num[H] /\ Num[w] \in Nat /\ Num[H] \in Nat
      BY <1>4, <1>5, <1>12, PathFacts, NumNat
    <2>3. z0 \in S
      BY <1>9, <1>10, <1>12
    <2>4. gap \in SUBSET Nat /\ gap # {}
      <3>1. \A w \in S : Num[H] - Num[w] \in Nat
        BY <2>2
      <3>2. QED BY <2>1, <2>3, <3>1
    <2>5. PICK m \in gap : \A k \in gap : m <= k
      BY <2>4, LeastNumber
    <2>6. PICK z \in S : m = Num[H] - Num[z]
      BY <2>1, <2>5
    <2>7. \A w \in S : Num[H] - Num[z] <= Num[H] - Num[w]
      BY <2>1, <2>5, <2>6
    <2>8. \A w \in S : Num[w] <= Num[z]
      BY <2>2, <2>6, <2>7
    <2>9. QED BY <2>8
  <1>14. PICK z \in S : \A w \in S : Num[w] <= Num[z]
    BY <1>13
  <1>15. /\ z \in Path[H] /\ Meets(a, z) /\ Num[z] >= L + 1
         /\ \A w \in Path[H] : Meets(a, w) => Num[w] <= Num[z]
    BY <1>9, <1>10, <1>12, <1>14
  <1>16. /\ {a, H} \subseteq f.index
         /\ \A w \in Branch(a, Num[z]) \cup Branch(H, Num[z]) :
               Num[w] > Num[z] => w \in f.linked
    BY <1>4, <1>11, <1>15
  <1>17. fetch_branch_from(f, a, H) # {}
    <2>1. [fork |-> Parent[z], first |-> Branch(a, Num[z]), second |-> Branch(H, Num[z])]
            \in fetch_branch_from(f, a, H)
      BY <1>15, <1>16 DEF fetch_branch_from
    <2>2. QED BY <2>1
  <1>18. ASSUME NEW br \in fetch_branch_from(f, a, H)
         PROVE  /\ a \in br.first
                /\ \/ br.fork = Zero /\ L = 0
                   \/ \E m \in 1 .. Len(chain) : m >= L /\ chain[m] = br.fork
    <2>1. PICK x \in Path[H] :
             /\ \A w \in Path[H] : Meets(a, w) => Num[w] <= Num[x]
             /\ Meets(a, x)
             /\ br = [fork |-> Parent[x], first |-> Branch(a, Num[x]),
                      second |-> Branch(H, Num[x])]
      BY DEF fetch_branch_from
    <2>2. br.fork = Parent[x] /\ br.first = Branch(a, Num[x])
      BY <2>1
    <2>3. Num[x] >= L + 1 /\ x \in Blocks
      BY <1>5, <1>9, <1>10, <2>1
    <2>4. PICK m \in 1 .. Len(chain) : chain[m] = x
      BY <1>6
    <2>5. Num[x] = m /\ m >= L + 1 /\ m <= Len(chain)
      BY <1>2, <2>3, <2>4
    <2>6. Num[a] >= Num[x]
      BY <1>2, <1>4, <2>5, NumNat
    <2>7. a \in br.first
      BY <1>5, <2>2, <2>6 DEF Branch
    <2>8. Parent[x] = IF m = 1 THEN Zero ELSE chain[m - 1]
      BY <2>4 DEF Linked
    <2>9. CASE m = 1
      BY <1>2, <2>2, <2>5, <2>7, <2>8, <2>9
    <2>10. CASE m # 1
      <3>1. m - 1 \in 1 .. Len(chain) /\ m - 1 >= L
        BY <1>2, <2>5, <2>10
      <3>2. QED BY <2>2, <2>7, <2>8, <2>10, <3>1
    <2>11. QED BY <2>9, <2>10
  <1>19. QED BY <1>1, <1>17, <1>18

LEMMA TrimShrinks ==
  ASSUME NEW f \in Fork, NEW s
  PROVE  set_max_size(f, s).index \subseteq f.index
  <1>1. PICK gone : gone = {x \in f.index : Num[x] < Max0(Num[f.head] - s)}
    OBVIOUS
  <1>2. PICK e : e = EraseItems(f, gone)
    OBVIOUS
  <1>3. e \in Fork
    BY <1>2, EraseType
  <1>4. e.index = f.index \ gone
    BY <1>2 DEF EraseItems, Fork
  <1>5. PICK u : set_max_size(f, s) = f \/ set_max_size(f, s) = [e EXCEPT !.unlinked = u]
    BY <1>1, <1>2 DEF set_max_size
  <1>6. QED BY <1>3, <1>4, <1>5 DEF Fork

(* What an application adds to the log and takes from the undo stack and   *)
(* from the fork database.                                                 *)
LEMMA TopApplied ==
  ASSUME ChainOK, Linked(chain), LogIsPrefix, Regular, NEW b, NEW f, NextBlock(b, f),
         apply_block(b, f), Len(log) = Base
  PROVE  /\ Len(log') = Base' /\ fd'.index \subseteq f.index
         /\ Num[b] = Len(chain) + 1 /\ Len(chain') = Len(chain) + 1
         /\ Len(log') = Len(log) + Max0(lib(Num[b]) - Len(log))
  <1>1. b \in Blocks /\ f \in Fork /\ Parent[b] = head_block_id
    BY DEF NextBlock, Fork
  <1>2. Num[b] = Len(chain) + 1
    BY <1>1, NextNumber
  <1>3. /\ chain \in Seq(Blocks) /\ Len(chain) \in Nat /\ Len(log) \in Nat
        /\ undoable \in Nat /\ undoable <= Len(chain)
        /\ lib(Num[b]) \in Nat /\ lib(Num[b]) <= Len(chain) + 1
    BY <1>1, <1>2, NumNat, LibFacts DEF ChainOK
  <1>4. Len(chain') = Len(chain) + 1
    BY <1>1, <1>3, AppendProperties DEF apply_block
  <1>5. Len(log') = Len(log) + Max0(lib(Num[b]) - Len(log))
    <2>1. Migrates(b, f)
      BY NextMigrates DEF MayApply
    <2>2. QED BY <1>1, <2>1, MigratedLogFacts DEF apply_block
  <1>6. undoable' = IF undoable + 1 <= Len(chain) + 1 - lib(Num[b])
                    THEN undoable + 1 ELSE Max0(Len(chain) + 1 - lib(Num[b]))
    BY DEF apply_block, Committed
  <1>7. Len(log') = Base'
    <2>1. PICK k \in Nat : k = lib(Num[b])
      BY <1>3
    <2>2. PICK n \in Nat, l \in Nat : n = Len(chain) /\ l = Len(log)
      BY <1>3
    <2>3. undoable = n - l /\ k <= n + 1 /\ l <= n
      BY <1>3, <2>1, <2>2 DEF Base
    <2>4. CASE k <= l
      <3>1. undoable' = n - l + 1 /\ Len(log') = l
        BY <1>5, <1>6, <2>1, <2>2, <2>3, <2>4 DEF Max0
      <3>2. QED BY <1>4, <2>2, <2>3, <3>1 DEF Base
    <2>5. CASE ~ (k <= l)
      <3>1. undoable' = n + 1 - k /\ Len(log') = k
        BY <1>5, <1>6, <2>1, <2>2, <2>3, <2>5 DEF Max0
      <3>2. QED BY <1>4, <2>1, <2>2, <2>3, <3>1 DEF Base
    <2>6. QED BY <2>4, <2>5
  <1>8. fd'.index \subseteq f.index
    <2>1. PICK s : s = Num[b] - lib(Num[b]) + 1
      OBVIOUS
    <2>2. PICK g : g = set_max_size(f, s)
      OBVIOUS
    <2>3. g \in Fork /\ g.index \subseteq f.index
      BY <1>1, <2>2, SetMaxSizeType, TrimShrinks
    <2>4. fd' = set_max_size(g, MaxSize)
      BY <2>1, <2>2 DEF apply_block
    <2>5. fd'.index \subseteq g.index
      BY <2>3, <2>4, TrimShrinks
    <2>6. QED BY <2>3, <2>5
  <1>9. QED BY <1>2, <1>4, <1>5, <1>7, <1>8

-----------------------------------------------------------------------------
(* The steps.                                                              *)

LEMMA TopFacts ==
  ASSUME IndInv, LinkInv, TopInv, pc = "idle"
  PROVE  /\ ChainOK /\ Linked(chain) /\ LogIsPrefix /\ HoldsChain(fd) /\ fd \in Fork
         /\ chain # <<>> /\ head_block_id \in Blocks /\ Num[head_block_id] = Len(chain)
         /\ Len(chain) \in Nat /\ Len(chain) >= 1 /\ Len(log) \in Nat
         /\ fd.head = head_block_id /\ head_block_id \in fd.index
         /\ \A x \in fd.index : Num[x] <= Num[fd.head]
         /\ Len(log) = lib(Len(chain)) /\ head_block_num = Len(chain)
  <1>1. /\ ChainOK /\ Linked(chain) /\ LogIsPrefix /\ fd \in Fork /\ chain # <<>>
        /\ fd.head = head_block_id /\ \A x \in fd.index : Num[x] <= Len(chain)
        /\ Len(log) = lib(Len(chain))
    BY DEF IndInv, ChainOK, LinkInv, TopInv, TopIdle
  <1>2. HoldsChain(fd)
    BY <1>1 DEF LinkInv, Stopped
  <1>3. head_block_id \in Blocks /\ Num[head_block_id] = Len(chain) /\ Len(chain) > 0
    BY <1>1, HeadFacts
  <1>4. Len(chain) \in Nat /\ Len(log) \in Nat
    BY <1>1 DEF ChainOK
  <1>5. QED BY <1>1, <1>2, <1>3, <1>4, HeadHeld DEF head_block_num

LEMMA TopRefused ==
  ASSUME IndInv, LinkInv, TopInv, NEW b \in Blocks, push_refused(b)
  PROVE  TopInv'
  <1>1. /\ pc = "idle" /\ pc' = "idle" /\ UNCHANGED <<chain, undoable, log>>
        /\ push' = Pushed(b)
        /\ TooOld(fd, b) \/ ~ Links(fd, b)
    BY DEF push_refused, Throw
  <1>2. /\ ChainOK /\ HoldsChain(fd) /\ fd \in Fork
        /\ chain # <<>> /\ head_block_id \in Blocks /\ Num[head_block_id] = Len(chain)
        /\ Len(chain) \in Nat /\ Len(chain) >= 1
        /\ fd.head = head_block_id /\ head_block_id \in fd.index
    BY <1>1, TopFacts
  <1>3. fd'.head = fd.head /\ fd'.index = fd.index
    <2>1. CASE fd' = fd
      BY <2>1
    <2>2. CASE ~ Links(fd, b) /\ fd' = cache_unlinked(fd, b)
      BY <1>2, <2>2, CacheLinked DEF HoldsChain
    <2>3. QED BY <2>1, <2>2 DEF push_refused
  <1>4. push'.extension = Zero
    <2>1. SUFFICES ASSUME Parent[b] = head_block_id PROVE FALSE
      BY <1>1 DEF Pushed, Extends
    <2>2. Links(fd, b)
      BY <1>2, <2>1 DEF Links
    <2>3. Num[b] = Len(chain) + 1
      BY <1>2, <2>1, NextNumber
    <2>4. ~ TooOld(fd, b)
      BY <1>2, <2>3, MaxSizeAssumption DEF TooOld, Max0
    <2>5. QED BY <1>1, <2>2, <2>4
  <1>5. TopIdle' /\ Len(log') = Base'
    BY <1>1, <1>3, <1>4 DEF TopInv, TopIdle, Base, head_block_id
  <1>6. QED BY <1>1, <1>5 DEF TopInv, Stopped

LEMMA TopDirect ==
  ASSUME Shallow, IndInv, LinkInv, TopInv, NEW b \in Blocks, push_direct(b)
  PROVE  TopInv'
  <1>1. PICK f \in push_block(fd, b) :
           /\ Accepted(b, f)
           /\ Parent[f.head] = head_block_id
           /\ \/ MayApply(b, f) /\ apply_block(b, f) /\ Return
              \/ MayFail(b, f)
    BY DEF push_direct
  <1>2. NextBlock(b, f) /\ pc = "idle" /\ Regular
    BY <1>1, DirectNext DEF Accepted, Shallow
  <1>3. /\ ChainOK /\ Linked(chain) /\ LogIsPrefix /\ fd \in Fork /\ fd.head # Zero
        /\ \A x \in fd.index : Num[x] <= Num[fd.head]
        /\ Len(log) = lib(Len(chain)) /\ Len(chain) \in Nat
    BY <1>2, TopFacts, ZeroAssumption
  <1>4. ~ MayFail(b, f)
    BY <1>2, <1>3, NextMigrates DEF MayFail, NextBlock
  <1>5. apply_block(b, f) /\ pc' = "idle" /\ failed' = FALSE
    BY <1>1, <1>4 DEF Return
  <1>6. fd'.head = b /\ head_block_id' = b /\ chain' # <<>>
    BY <1>2, <1>3, <1>5, NextApplied
  <1>7. /\ Len(log') = Base' /\ fd'.index \subseteq f.index
        /\ Num[b] = Len(chain) + 1 /\ Len(chain') = Len(chain) + 1
        /\ Len(log') = Len(log) + Max0(lib(Num[b]) - Len(log))
    BY <1>2, <1>3, <1>5, TopApplied DEF TopInv
  <1>8. \A x \in f.index : Num[x] <= Num[f.head]
    BY <1>3, PushHighest
  <1>9. f.head = b
    BY <1>2 DEF NextBlock
  <1>10. Len(log') = lib(Len(chain'))
    <2>1. lib(Len(chain)) \in Nat /\ lib(Len(chain)) <= lib(Num[b]) /\ lib(Num[b]) \in Nat
      BY <1>3, <1>7, LibDepthAssumption DEF lib, Max0
    <2>2. Len(log') = lib(Num[b])
      BY <1>3, <1>7, <2>1 DEF Max0
    <2>3. QED BY <1>7, <2>2
  <1>11. \A x \in fd'.index : Num[x] <= Len(chain')
    BY <1>7, <1>8, <1>9
  <1>12. TopIdle'
    BY <1>5, <1>6, <1>10, <1>11 DEF TopIdle
  <1>13. QED BY <1>5, <1>7, <1>12 DEF TopInv, Stopped

LEMMA TopKept ==
  ASSUME IndInv, LinkInv, TopInv, NEW b \in Blocks, push_kept(b)
  PROVE  TopInv'
  <1>1. PICK f \in push_block(fd, b) : pc = "idle" /\ ~ Higher(f) /\ fd' = f
    BY DEF push_kept, Accepted
  <1>2. UNCHANGED <<chain, undoable, log>> /\ pc' = "idle" /\ failed' = FALSE
    BY DEF push_kept, Return
  <1>3. /\ fd \in Fork /\ fd.head # Zero /\ fd.head = head_block_id
        /\ Num[head_block_id] = Len(chain) /\ Len(chain) \in Nat
        /\ \A x \in fd.index : Num[x] <= Num[fd.head]
        /\ head_block_num = Len(chain) /\ head_block_id \in Blocks
    BY <1>1, TopFacts, ZeroAssumption
  <1>4. /\ f.head \in Blocks
        /\ \/ f.head = fd.head
           \/ Num[f.head] > Num[fd.head]
    BY <1>3, PushFields
  <1>5. f.head = fd.head
    BY <1>1, <1>3, <1>4 DEF Higher
  <1>6. \A x \in f.index : Num[x] <= Num[f.head]
    BY <1>3, PushHighest
  <1>7. TopIdle' /\ Len(log') = Base'
    BY <1>1, <1>2, <1>3, <1>5, <1>6 DEF TopInv, TopIdle, Base, head_block_id
  <1>8. QED BY <1>2, <1>7 DEF TopInv, Stopped

LEMMA TopSwitched ==
  ASSUME Shallow, IndInv, LinkInv, TopInv, NEW b \in Blocks, push_switch(b)
  PROVE  TopInv'
  <1>1. PICK f \in push_block(fd, b) :
           /\ Accepted(b, f) /\ Higher(f) /\ fd' = f
           /\ \/ \E br \in fetch_branch_from(f, f.head, head_block_id) :
                    /\ switch' = [fork |-> br.fork, second |-> br.second,
                                  todo |-> br.first]
                    /\ pc' = "pop"
              \/ head_block_id = Zero
              \/ fetch_branch_from(f, f.head, head_block_id) = {}
    BY DEF push_switch
  <1>2. UNCHANGED <<chain, undoable, log>> /\ pc = "idle"
    BY <1>1 DEF push_switch, Accepted
  <1>3. /\ ChainOK /\ Linked(chain) /\ LogIsPrefix /\ fd \in Fork /\ fd.head # Zero
        /\ head_block_id # Zero /\ chain # <<>> /\ fd.head = head_block_id
        /\ Num[head_block_id] = Len(chain) /\ Len(chain) \in Nat
        /\ \A x \in fd.index : Num[x] <= Num[fd.head]
        /\ head_block_num = Len(chain) /\ Len(log) = lib(Len(chain))
    BY <1>2, TopFacts, ZeroAssumption
  <1>4. /\ f \in Fork /\ f.head \in Blocks
        /\ f.index = fd.index \cup Adopted(fd, b)
        /\ f.head = fd.head \/ f.head \in Adopted(fd, b)
    BY <1>3, PushFields
  <1>5. Num[f.head] > Len(chain)
    BY <1>1, <1>3 DEF Higher
  <1>6. f.head \in f.index
    BY <1>3, <1>4, <1>5
  <1>7. HoldsChain(f)
    BY <1>1, <1>2, <1>3, PushHolds DEF Accepted
  <1>8. /\ fetch_branch_from(f, f.head, head_block_id) # {}
        /\ \A br \in fetch_branch_from(f, f.head, head_block_id) :
              /\ f.head \in br.first
              /\ \/ br.fork = Zero /\ Len(log) = 0
                 \/ \E m \in 1 .. Len(chain) : m >= Len(log) /\ chain[m] = br.fork
    BY <1>3, <1>4, <1>5, <1>6, <1>7, ForkFound
  <1>9. PICK br \in fetch_branch_from(f, f.head, head_block_id) :
           /\ switch' = [fork |-> br.fork, second |-> br.second, todo |-> br.first]
           /\ pc' = "pop"
    BY <1>1, <1>3, <1>8
  <1>10. switch'.todo = br.first /\ switch'.fork = br.fork
    BY <1>9
  <1>11. \A x \in f.index : Num[x] <= Num[f.head]
    BY <1>3, PushHighest
  <1>12. Len(log) <= lib(Num[f.head])
    BY <1>3, <1>4, <1>5, NumNat, LibDepthAssumption DEF lib, Max0
  <1>13. TargetIs(f.head)'
    BY <1>1, <1>2, <1>11, <1>12 DEF TargetIs
  <1>14. TopSwitch'
    BY <1>8, <1>10, <1>13 DEF TopSwitch
  <1>15. TopPop'
    BY <1>1, <1>2, <1>5, <1>8, <1>10 DEF TopPop
  <1>16. Len(log') = Base'
    BY <1>2 DEF TopInv, Base
  <1>17. QED BY <1>9, <1>14, <1>15, <1>16 DEF TopInv, Stopped

LEMMA TopPopped ==
  ASSUME IndInv, LinkInv, TopInv, switch_pop
  PROVE  TopInv'
  <1>1. /\ pc = "pop" /\ ChainOK /\ LogIsPrefix /\ fd \in Fork /\ log' = log
        /\ Len(log) = Base
    BY DEF switch_pop, IndInv, ChainOK, LinkInv, TopInv
  <1>2. /\ HoldsChain(fd) /\ Num[fd.head] > Len(chain)
        /\ \/ switch.fork = Zero /\ Len(log) = 0
           \/ \E m \in 1 .. Len(chain) : m >= Len(log) /\ chain[m] = switch.fork
    BY <1>1 DEF LinkInv, Stopped, TopInv, TopPop
  <1>3. PICK a \in switch.todo : TargetIs(a)
    BY <1>1 DEF TopInv, TopSwitch
  <1>4. CASE head_block_id = switch.fork
    <2>1. UNCHANGED <<chain, undoable, fd, switch>> /\ pc' = "apply"
      BY <1>4 DEF switch_pop
    <2>2. TopSwitch'
      BY <1>1, <1>3, <2>1 DEF TopSwitch, TargetIs
    <2>3. QED BY <1>1, <2>1, <2>2 DEF TopInv, Stopped, Base
  <1>5. CASE head_block_id # switch.fork
    <2>1. pop_head
      BY <1>5 DEF switch_pop
    <2>2. /\ chain # <<>> /\ head_block_id \in Blocks /\ Len(chain) >= 1
          /\ chain \in Seq(Blocks) /\ Len(chain) \in Nat /\ Len(log) \in Nat
          /\ undoable \in Nat
      <3>1. chain \in Seq(Blocks) /\ Len(chain) \in Nat /\ Len(log) \in Nat /\ undoable \in Nat
        BY <1>1 DEF ChainOK
      <3>2. chain # <<>>
        BY <1>1, <1>2, <1>5, HeadFacts
      <3>3. QED BY <1>1, <3>1, <3>2, HeadFacts
    <2>3. Len(chain) > Len(log)
      <3>1. CASE switch.fork = Zero /\ Len(log) = 0
        BY <2>2, <3>1
      <3>2. ASSUME NEW m \in 1 .. Len(chain), m >= Len(log), chain[m] = switch.fork
            PROVE  Len(chain) > Len(log)
        <4>1. m # Len(chain)
          BY <1>5, <2>2, <3>2 DEF head_block_id
        <4>2. QED BY <2>2, <3>2, <4>1
      <3>3. QED BY <1>2, <3>1, <3>2
    <2>4. undoable > 0
      BY <1>1, <2>2, <2>3 DEF Base
    <2>5. fd.head \in Blocks /\ fd.head # Zero /\ Num[fd.head] \in Nat
      <3>1. fd.head # Zero
        BY <1>2 DEF HoldsChain
      <3>2. QED BY <1>1, <3>1, NumNat DEF Fork
    <2>6. Parent[fd.head] # Zero /\ Parent[fd.head] \in Blocks
      BY <1>2, <2>2, <2>5, NumAssumption, ParentAssumption
    <2>7. fd.head_linked
      BY <1>2, <2>2, <2>3, <2>5, <2>6 DEF HoldsChain, LinkedAbove
    <2>8. CanPopBlock
      <3>1. head_block_id \in fd.index
        BY <1>1, <1>2, <2>2, HeadHeld
      <3>2. QED BY <2>5, <2>7, <3>1 DEF CanPopBlock, CanPop, fetch_block
    <2>9. /\ fd' = set_head(fd, Parent[fd.head]) /\ chain' = SubSeq(chain, 1, Len(chain) - 1)
          /\ undoable' = undoable - 1 /\ UNCHANGED <<pc, switch>>
      BY <2>1, <2>2, <2>4, <2>8 DEF pop_head, pop_block, Undone, Max0
    <2>10. /\ Len(chain') = Len(chain) - 1
           /\ \A k \in 1 .. Len(chain) - 1 : chain'[k] = chain[k]
      <3>1. Len(chain) - 1 \in 0 .. Len(chain)
        BY <2>2
      <3>2. QED BY <2>2, <2>9, <3>1, PrefixFacts
    <2>11. fd'.head = Parent[fd.head] /\ fd'.index = fd.index
      BY <1>1, <2>9 DEF set_head, Fork
    <2>12. Num[fd'.head] > Len(chain')
      <3>1. Num[fd.head] = Num[Parent[fd.head]] + 1 /\ Num[Parent[fd.head]] \in Nat
        BY <2>5, <2>6, ParentNumber, NumNat
      <3>2. QED BY <1>2, <2>2, <2>10, <2>11, <3>1
    <2>13. \/ switch.fork = Zero /\ Len(log) = 0
           \/ \E m \in 1 .. Len(chain') : m >= Len(log) /\ chain'[m] = switch.fork
      <3>1. SUFFICES ASSUME NEW m \in 1 .. Len(chain), m >= Len(log),
                            chain[m] = switch.fork
                     PROVE  \E k \in 1 .. Len(chain') :
                               k >= Len(log) /\ chain'[k] = switch.fork
        BY <1>2
      <3>2. m # Len(chain)
        BY <1>5, <2>2, <3>1 DEF head_block_id
      <3>3. m \in 1 .. Len(chain') /\ m \in 1 .. Len(chain) - 1
        BY <2>2, <2>10, <3>2
      <3>4. QED BY <2>10, <3>1, <3>3
    <2>14. TopPop'
      BY <1>1, <2>9, <2>12, <2>13 DEF TopPop
    <2>15. TopSwitch'
      BY <1>1, <1>3, <2>9, <2>11 DEF TopSwitch, TargetIs
    <2>16. Len(log') = Base'
      BY <1>1, <2>2, <2>9, <2>10 DEF Base
    <2>17. QED BY <1>1, <2>9, <2>14, <2>15, <2>16 DEF TopInv, Stopped
  <1>6. QED BY <1>4, <1>5

LEMMA TopApply ==
  ASSUME Shallow, IndInv, LinkInv, TopInv, NEW b \in switch.todo, switch_apply(b)
  PROVE  TopInv'
  <1>1. /\ pc = "apply" /\ ChainOK /\ Linked(chain) /\ LogIsPrefix
        /\ fd \in Fork /\ Lowest(b) /\ Regular /\ Len(log) = Base
    BY DEF switch_apply, IndInv, ChainOK, LinkInv, Shallow, TopInv
  <1>2. HoldsChain(fd) /\ switch.todo \subseteq fd.index
    BY <1>1 DEF LinkInv, SwitchHeld, Stopped
  <1>3. /\ switch.todo \in SUBSET Blocks /\ b \in Blocks
        /\ BranchOn(switch.todo, head_block_id) /\ switch \in Branches
    BY <1>1 DEF IndInv, ControlOK, SwitchOnBranch, Branches
  <1>4. Parent[b] = head_block_id
    BY <1>1, <1>3, LowestOnBase DEF Lowest
  <1>5. PICK f : f = set_head(fd, b)
    OBVIOUS
  <1>6. /\ ForkLinked(f) /\ LinkedAbove(f, Len(log)) /\ f.index = fd.index
        /\ f.head = b /\ f \in Fork /\ b # Zero
    BY <1>1, <1>2, <1>5, SetHeadLinked DEF HoldsChain
  <1>7. NextBlock(b, f)
    BY <1>2, <1>4, <1>6 DEF NextBlock, HoldsChain
  <1>8. ~ MayFail(b, f)
    BY <1>1, <1>4, <1>7, NextMigrates DEF MayFail
  <1>9. /\ apply_block(b, f) /\ pc' = "apply"
        /\ switch' = [switch EXCEPT !.todo = @ \ {b}]
    BY <1>1, <1>5, <1>8 DEF switch_apply
  <1>10. /\ Len(log') = Base' /\ fd'.index \subseteq fd.index
         /\ Num[b] = Len(chain) + 1 /\ Len(chain') = Len(chain) + 1
         /\ Len(log') = Len(log) + Max0(lib(Num[b]) - Len(log))
    BY <1>1, <1>6, <1>7, <1>9, TopApplied
  <1>11. switch'.todo = switch.todo \ {b}
    BY <1>3, <1>9 DEF Branches
  <1>12. PICK a \in switch.todo : TargetIs(a)
    BY <1>1 DEF TopInv, TopSwitch
  <1>13. /\ Num[b] <= Num[a] /\ Num[a] \in Nat /\ Num[b] \in Nat /\ Len(log) \in Nat
         /\ Len(log) <= lib(Num[a]) /\ \A x \in fd.index : Num[x] <= Num[a]
    BY <1>1, <1>3, <1>12, NumNat DEF Lowest, TargetIs, ChainOK
  <1>14. lib(Num[b]) <= lib(Num[a]) /\ lib(Num[a]) \in Nat /\ lib(Num[b]) \in Nat
    BY <1>13, LibDepthAssumption DEF lib, Max0
  <1>15. Len(log') <= lib(Num[a])
    BY <1>10, <1>13, <1>14 DEF Max0
  <1>16. TopSwitch'
    <2>1. CASE a # b
      <3>1. TargetIs(a)' /\ a \in switch'.todo
        BY <1>10, <1>11, <1>13, <1>15, <2>1 DEF TargetIs
      <3>2. QED BY <3>1 DEF TopSwitch
    <2>2. CASE a = b
      <3>1. ASSUME NEW x \in switch.todo PROVE x = b
        <4>1. Num[b] <= Num[x] /\ Num[x] <= Num[b] /\ Num[x] \in Nat
          BY <1>1, <1>2, <1>3, <1>13, <2>2, NumNat DEF Lowest
        <4>2. Num[x] = Num[b]
          BY <1>13, <4>1
        <4>3. QED BY <1>3, <4>2 DEF BranchOn
      <3>2. switch'.todo = {}
        BY <1>11, <3>1
      <3>3. Len(log') = lib(Num[b])
        BY <1>10, <1>13, <1>14, <2>2 DEF Max0
      <3>4. QED BY <1>9, <1>10, <1>13, <2>2, <3>2, <3>3 DEF TopSwitch
    <2>3. QED BY <2>1, <2>2
  <1>17. QED BY <1>9, <1>10, <1>16 DEF TopInv, Stopped

LEMMA TopDone ==
  ASSUME LinkInv, TopInv, switch_done
  PROVE  TopInv'
  <1>1. /\ pc = "apply" /\ switch.todo = {} /\ pc' = "idle" /\ failed' = FALSE
        /\ UNCHANGED <<chain, undoable, log, fd>>
    BY DEF switch_done, Return
  <1>2. chain # <<>> /\ fd.head = head_block_id
    BY <1>1 DEF LinkInv, SwitchHeld
  <1>3. Len(log) = lib(Len(chain)) /\ \A x \in fd.index : Num[x] <= Len(chain)
    BY <1>1 DEF TopInv, TopSwitch
  <1>4. TopIdle'
    BY <1>1, <1>2, <1>3 DEF TopIdle, head_block_id
  <1>5. QED BY <1>1, <1>4 DEF TopInv, Stopped, Base

-----------------------------------------------------------------------------
(* The theorems.                                                           *)

LEMMA TopInitially ==
  ASSUME Shallow, Init
  PROVE  TopInv
  <1> DEFINE n == Len(Trunk)
  <1>1. /\ Trunk \in Seq(Blocks) /\ n \in Nat /\ n # 0 /\ lib(n) \in 0 .. n
        /\ \A k \in 1 .. n : Trunk[k] \in Blocks /\ Num[Trunk[k]] = k
    <2>1. Trunk \in Seq(Blocks) /\ n \in Nat /\ n # 0
      BY TrunkAssumption, EmptySeq DEF Shallow
    <2>2. QED BY <2>1, TrunkAssumption, LibFacts, ElementOfSeq
  <1>2. /\ chain = Trunk /\ Len(log) = lib(n) /\ undoable = n - lib(n)
        /\ pc = "idle" /\ failed = FALSE
    BY <1>1, PrefixFacts DEF Init
  <1>3. PICK kept : kept = {Trunk[k] : k \in {m \in 1 .. n : m >= lib(n) - 1}}
    OBVIOUS
  <1>4. fd.index = kept /\ fd.head = Trunk[n]
    BY <1>1, <1>3 DEF Init
  <1>5. \A x \in fd.index : Num[x] <= n
    BY <1>1, <1>3, <1>4
  <1>6. TopIdle
    BY <1>1, <1>2, <1>4, <1>5 DEF TopIdle, head_block_id, Shallow
  <1>7. Len(log) = Base
    BY <1>1, <1>2 DEF Base
  <1>8. QED BY <1>2, <1>6, <1>7 DEF TopInv, Stopped

LEMMA TopSteps ==
  ASSUME Shallow, IndInv, LinkInv, TopInv, [Next]_vars
  PROVE  TopInv'
  <1>1. ASSUME NEW b \in Blocks, push_refused(b) PROVE TopInv'
    BY <1>1, TopRefused
  <1>2. ASSUME NEW b \in Blocks, push_direct(b) PROVE TopInv'
    BY <1>2, TopDirect
  <1>3. ASSUME NEW b \in Blocks, push_kept(b) PROVE TopInv'
    BY <1>3, TopKept
  <1>4. ASSUME NEW b \in Blocks, push_switch(b) PROVE TopInv'
    BY <1>4, TopSwitched
  <1>5. CASE switch_pop
    BY <1>5, TopPopped
  <1>6. ASSUME NEW b \in switch.todo, switch_apply(b) PROVE TopInv'
    BY <1>6, TopApply
  <1>7. CASE switch_done
    BY <1>7, TopDone
  <1>8. pc \notin {"unwind", "restore"} /\ ~ CanCrash /\ ~ CanClose /\ pc \notin Stopped
    BY DEF LinkInv, SwitchHeld, Regular, Shallow, TopInv
  <1>9. ~ switch_unwind /\ ~ switch_rethrow /\ \A b : ~ switch_restore(b)
    BY <1>8 DEF switch_unwind, switch_rethrow, switch_restore
  <1>10. ~ flush_state /\ ~ crash /\ ~ close /\ ~ open /\ ~ reindex
    BY <1>8 DEF flush_state, crash, close, open, reindex, Stopped
  <1>11. CASE UNCHANGED vars
    BY <1>11 DEF vars, TopInv, TopIdle, TopSwitch, TargetIs, TopPop, Base, head_block_id
  <1>12. QED BY <1>1, <1>2, <1>3, <1>4, <1>5, <1>6, <1>7, <1>9, <1>10, <1>11 DEF Next

LEMMA TopInvariance ==
  ASSUME Shallow
  PROVE  Spec => []TopInv
  <1>1. Init => TopInv
    BY TopInitially
  <1>2. IndInv /\ LinkInv /\ TopInv /\ [Next]_vars => TopInv'
    BY TopSteps
  <1>3. Regular
    BY DEF Shallow
  <1>4. Spec => []LinkInv
    BY <1>3, LinkInvariance
  <1>5. QED BY <1>1, <1>2, <1>4, Invariance, PTL DEF Spec

(* The longest chain rule: where no fork goes below what its rival has     *)
(* made irreversible, nothing that the fork database links is higher than  *)
(* the head of the chain once a push is over, whatever the order of        *)
(* arrival: every switch to a higher branch finds the fork point, pops     *)
(* down to it and ends with the highest block.                             *)
THEOREM HeadAlwaysHighest ==
  ASSUME Shallow
  PROVE  Spec => []HeadIsHighest
  <1>1. IndInv /\ LinkInv /\ TopInv => HeadIsHighest
    <2>1. SUFFICES ASSUME IndInv, LinkInv, TopInv, pc = "idle"
                   PROVE  \A x \in fd.index : Num[x] <= head_block_num
      BY DEF HeadIsHighest
    <2>2. QED BY <2>1, TopFacts DEF TopInv, TopIdle
  <1>2. Spec => []LinkInv
    BY LinkInvariance DEF Shallow
  <1>3. QED BY <1>1, <1>2, TopInvariance, Invariance, PTL

(* Where every block applies, ExtensionAccepted holds without its          *)
(* exceptions: the fork database keeps the head of the chain between       *)
(* pushes, and a block that extends it is never turned down.               *)
THEOREM ExtensionsAccepted ==
  ASSUME Shallow
  PROVE  Spec => [](/\ ExtensionAccepted /\ HeadKnown
                    /\ pc = "idle" /\ failed => push.extension = Zero)
  <1>1. IndInv /\ LinkInv /\ TopInv =>
          /\ ExtensionAccepted /\ HeadKnown
          /\ pc = "idle" /\ failed => push.extension = Zero
    <2>1. SUFFICES ASSUME IndInv, LinkInv, TopInv, pc = "idle"
                   PROVE  /\ head_block_id \in fd.index
                          /\ failed => push.extension = Zero
      BY DEF ExtensionAccepted, HeadKnown
    <2>2. QED BY <2>1, TopFacts DEF TopInv, TopIdle
  <1>2. Spec => []LinkInv
    BY LinkInvariance DEF Shallow
  <1>3. QED BY <1>1, <1>2, TopInvariance, Invariance, PTL

(* A fork database whose head is ours: its main branch is the chain, from  *)
(* the end of the block log on.                                            *)
LEMMA MainIsChain ==
  ASSUME ChainOK, Linked(chain), chain # <<>>, fd.head = head_block_id, HoldsChain(fd),
         NEW n \in 1 .. Len(chain), n >= Len(log)
  PROVE  fetch_main(fd, n) = {chain[n]}
  <1>1. PICK H : H = head_block_id
    OBVIOUS
  <1>2. /\ Len(chain) \in Nat /\ Len(log) \in Nat /\ H \in Blocks /\ H # Zero
        /\ Num[H] = Len(chain) /\ Path[H] \subseteq Blocks /\ fd.head = H
        /\ \A k \in 1 .. Len(chain) : Num[chain[k]] = k
    BY <1>1, HeadFacts, ZeroAssumption, PathFacts DEF ChainOK, NumbersMatch
  <1>3. /\ \A k \in 1 .. Len(chain) : chain[k] \in Path[H]
        /\ \A x \in Path[H] : \E k \in 1 .. Len(chain) : chain[k] = x
    BY <1>1, ChainOnPath, AncestorsOnChain
  <1>4. \A k \in n .. Len(chain) : chain[k] \in fd.index
    BY <1>2 DEF HoldsChain
  <1> DEFINE at == fetch_block_by_number(fd, n)
  <1>5. chain[n] \in at
    BY <1>2, <1>4 DEF fetch_block_by_number
  <1>6. walk_main_branch_to_num(fd, n) = {chain[n]}
    <2>1. ASSUME NEW y \in Path[H], Num[y] > n
          PROVE  IF y = H THEN fd.head_linked ELSE y \in fd.linked
      <3>1. PICK k \in 1 .. Len(chain) : chain[k] = y
        BY <1>3
      <3>2. /\ y \in fd.index /\ Num[y] > Len(log) /\ Num[y] > 1 /\ y \in Blocks
        BY <1>2, <1>4, <2>1, <3>1
      <3>3. Parent[y] # Zero
        BY <3>2, NumAssumption
      <3>4. QED BY <1>2, <3>2, <3>3 DEF HoldsChain, LinkedAbove
    <2>2. \A x \in Path[H] : Num[x] = n <=> x = chain[n]
      BY <1>2, <1>3
    <2>3. QED BY <1>2, <1>3, <2>1, <2>2 DEF walk_main_branch_to_num
  <1>7. fetch_main(fd, n) = IF \A x, y \in at : x = y THEN at
                            ELSE walk_main_branch_to_num(fd, n)
    BY <1>2 DEF fetch_main
  <1>8. QED BY <1>5, <1>6, <1>7

(* LookupsOnChain for the numbers that are not below the end of the block  *)
(* log: between pushes fetch_block_by_number returns the block of the      *)
(* chain, whatever other blocks of that number the fork database holds,    *)
(* and nothing for the number after the head.                              *)
RecentLookups ==
    pc = "idle" =>
      \A n \in 1 .. head_block_num + 1 : n >= Len(log) =>
        fetched_by_number(n) = {chain[m] : m \in {n} \cap DOMAIN chain}
THEOREM RecentLookupsOnChain ==
  ASSUME Shallow
  PROVE  Spec => []RecentLookups
  <1>1. IndInv /\ LinkInv /\ TopInv => RecentLookups
    <2>1. SUFFICES ASSUME IndInv, LinkInv, TopInv, pc = "idle",
                          NEW n \in 1 .. head_block_num + 1, n >= Len(log)
                   PROVE  fetched_by_number(n) = {chain[m] : m \in {n} \cap DOMAIN chain}
      BY DEF RecentLookups
    <2>2. /\ ChainOK /\ Linked(chain) /\ LogIsPrefix /\ HoldsChain(fd)
          /\ chain # <<>> /\ fd.head = head_block_id /\ head_block_num = Len(chain)
          /\ Len(chain) \in Nat /\ Len(log) \in Nat /\ Num[fd.head] = Len(chain)
      BY <2>1, TopFacts
    <2>3. /\ DOMAIN chain = 1 .. Len(chain) /\ DOMAIN log = 1 .. Len(log)
          /\ Len(log) <= Len(chain)
      BY <2>2 DEF ChainOK, LogIsPrefix
    <2>4. CASE n <= Len(chain)
      <3>1. n \in 1 .. Len(chain)
        BY <2>2, <2>4
      <3>2. fetch_main(fd, n) = {chain[n]}
        BY <2>1, <2>2, <3>1, MainIsChain
      <3>3. fetched_by_number(n) = {chain[n]}
        BY <3>2 DEF fetched_by_number
      <3>4. {n} \cap DOMAIN chain = {n}
        BY <2>3, <3>1
      <3>5. QED BY <3>3, <3>4
    <2>5. CASE ~ (n <= Len(chain))
      <3>1. n > Num[fd.head] /\ n \notin DOMAIN chain /\ n \notin DOMAIN log
        BY <2>2, <2>3, <2>5
      <3>2. fetch_main(fd, n) = {}
        BY <3>1 DEF fetch_main
      <3>3. QED BY <3>1, <3>2 DEF fetched_by_number
    <2>6. QED BY <2>4, <2>5
  <1>2. Spec => []LinkInv
    BY LinkInvariance DEF Shallow
  <1>3. QED BY <1>1, <1>2, TopInvariance, Invariance, PTL

-----------------------------------------------------------------------------
(* What the longest chain rule gives the observers and the miner.          *)

(* No push or application fails, and what is irreversible then is logged. *)
LEMMA DirectApplies ==
  ASSUME Regular, IndInv, LinkInv, NEW b \in Blocks, push_direct(b)
  PROVE  chain' = Append(chain, b) /\ Len(log') >= lib(Num[b])
  <1>1. PICK f \in push_block(fd, b) :
           /\ Accepted(b, f)
           /\ Parent[f.head] = head_block_id
           /\ \/ MayApply(b, f) /\ apply_block(b, f)
              \/ MayFail(b, f)
    BY DEF push_direct
  <1>2. NextBlock(b, f)
    BY <1>1, DirectNext DEF Accepted
  <1>3. ChainOK /\ Linked(chain) /\ LogIsPrefix
    BY DEF IndInv, LinkInv
  <1>4. ~ MayFail(b, f) /\ Len(MigratedLog(b, f)) >= lib(Num[b])
    BY <1>2, <1>3, NextMigrates DEF MayFail, NextBlock
  <1>5. QED BY <1>1, <1>4 DEF apply_block

LEMMA SwitchApplies ==
  ASSUME Regular, IndInv, LinkInv, NEW b \in switch.todo, switch_apply(b)
  PROVE  /\ chain' = Append(chain, b) /\ Len(log') >= lib(Num[b])
         /\ pc' = "apply" /\ switch'.todo = switch.todo \ {b}
         /\ Num[b] = Len(chain) + 1 /\ Lowest(b) /\ switch.todo \subseteq Blocks
  <1>1. /\ pc = "apply" /\ ChainOK /\ Linked(chain) /\ LogIsPrefix
        /\ fd \in Fork /\ Lowest(b)
    BY DEF switch_apply, IndInv, ChainOK, LinkInv
  <1>2. HoldsChain(fd) /\ switch.todo \subseteq fd.index
    BY <1>1 DEF LinkInv, SwitchHeld, Stopped
  <1>3. /\ switch.todo \in SUBSET Blocks /\ b \in Blocks
        /\ BranchOn(switch.todo, head_block_id) /\ switch \in Branches
    BY <1>1 DEF IndInv, ControlOK, SwitchOnBranch, Branches
  <1>4. Parent[b] = head_block_id
    BY <1>1, <1>3, LowestOnBase DEF Lowest
  <1>5. PICK f : f = set_head(fd, b)
    OBVIOUS
  <1>6. /\ ForkLinked(f) /\ LinkedAbove(f, Len(log)) /\ f.index = fd.index
        /\ f.head = b /\ f \in Fork /\ b # Zero
    BY <1>1, <1>2, <1>5, SetHeadLinked DEF HoldsChain
  <1>7. NextBlock(b, f)
    BY <1>2, <1>4, <1>6 DEF NextBlock, HoldsChain
  <1>8. ~ MayFail(b, f) /\ Len(MigratedLog(b, f)) >= lib(Num[b])
    BY <1>1, <1>4, <1>7, NextMigrates DEF MayFail
  <1>9. /\ apply_block(b, f) /\ pc' = "apply"
        /\ switch' = [switch EXCEPT !.todo = @ \ {b}]
    BY <1>1, <1>5, <1>8 DEF switch_apply
  <1>10. switch'.todo = switch.todo \ {b}
    BY <1>3, <1>9 DEF Branches
  <1>11. QED BY <1>1, <1>3, <1>4, <1>8, <1>9, <1>10, NextNumber DEF apply_block

-----------------------------------------------------------------------------
(* wallet_history.                                                         *)

(* What has been imported is out of the reach of undo(). *)
StoredFinal == \A x \in stored : \E n \in 1 .. Base : chain[n] = x

LEMMA ObserverIsNext ==
  ASSUME [ObserverNext]_observed_vars
  PROVE  [Next]_vars
  <1>1. CASE UNCHANGED observed_vars
    BY <1>1 DEF observed_vars
  <1>2. CASE unobserved
    BY <1>2 DEF unobserved, Next
  <1>3. CASE \/ \E b \in Blocks : push_observed(b)
             \/ \E b \in switch.todo : apply_observed(b)
             \/ \E b \in switch.todo : restore_observed(b)
    BY <1>3 DEF push_observed, apply_observed, restore_observed, Next
  <1>4. CASE \/ flush_observed \/ close_observed \/ crash_observed
             \/ open_observed \/ reindex_observed
    BY <1>4 DEF flush_observed, close_observed, crash_observed, open_observed,
                reindex_observed, Next
  <1>5. QED BY <1>1, <1>2, <1>3, <1>4 DEF ObserverNext

LEMMA StoredKept ==
  ASSUME IndInv, StoredFinal, BaseStays, UNCHANGED stored, Base' \in Int
  PROVE  StoredFinal'
  <1>1. Base \in Nat
    BY ChainFacts
  <1>2. SUFFICES ASSUME NEW x \in stored PROVE \E n \in 1 .. Base' : chain'[n] = x
    BY DEF StoredFinal
  <1>3. PICK n \in 1 .. Base : chain[n] = x
    BY DEF StoredFinal
  <1>4. n \in 1 .. Base' /\ chain'[n] = x
    BY <1>1, <1>3 DEF BaseStays
  <1>5. QED BY <1>4

LEMMA StoredApplied ==
  ASSUME Regular, IndInv, IndInv', StoredFinal, BaseStays, NEW b \in Blocks,
         chain' = Append(chain, b), Observed(b), Len(log') >= lib(Num[b])
  PROVE  StoredFinal'
  <1>1. /\ Len(chain') = Len(chain) + 1 /\ Len(chain) \in Nat
        /\ Base \in Nat /\ Base' \in Nat
    BY AppendedFacts, ChainFacts, NextFacts
  <1>2. stored' = stored \cup Imported(b)
    <2>1. chain' # chain
      BY <1>1
    <2>2. QED BY <2>1 DEF Observed, on_irreversible_block
  <1>3. lib(Num[b]) <= Base' /\ lib(Num[b]) \in Nat
    <2>1. Len(log') <= Base' /\ Len(log') \in Nat
      BY DEF IndInv, ChainOK, LogCommitted, Regular
    <2>2. lib(Num[b]) \in Nat
      BY NumNat, LibFacts
    <2>3. QED BY <1>1, <2>1, <2>2
  <1>4. ASSUME NEW x \in Imported(b) PROVE \E n \in 1 .. Base' : chain'[n] = x
    <2>1. PICK k \in 1 .. Len(chain') : k <= lib(Num[b]) /\ x = chain'[k]
      BY DEF Imported
    <2>2. k \in 1 .. Base'
      BY <1>1, <1>3, <2>1
    <2>3. QED BY <2>1, <2>2
  <1>5. ASSUME NEW x \in stored PROVE \E n \in 1 .. Base' : chain'[n] = x
    <2>1. PICK n \in 1 .. Base : chain[n] = x
      BY DEF StoredFinal
    <2>2. n \in 1 .. Base' /\ chain'[n] = x
      BY <1>1, <2>1 DEF BaseStays
    <2>3. QED BY <2>2
  <1>6. QED BY <1>2, <1>4, <1>5 DEF StoredFinal

LEMMA StoredSteps ==
  ASSUME Regular, IndInv, IndInv', LinkInv, StoredFinal, [ObserverNext]_observed_vars
  PROVE  StoredFinal'
  <1>1. CASE unobserved
    BY <1>1, UnobservedSteps, NextFacts, StoredKept DEF unobserved, history_vars
  <1>2. ASSUME NEW b \in Blocks, push_observed(b) PROVE StoredFinal'
    <2>1. ObservedStep(b) /\ push_direct(b)
      BY <1>2 DEF ObservedStep, push_observed
    <2>2. QED BY <2>1, DirectApplies, ObservedSteps, StoredApplied
  <1>3. ASSUME NEW b \in switch.todo, apply_observed(b) PROVE StoredFinal'
    <2>1. ObservedStep(b) /\ switch_apply(b)
      BY <1>3 DEF ObservedStep, apply_observed
    <2>2. b \in Blocks
      BY <2>1, SwitchApplies
    <2>3. QED BY <2>1, <2>2, SwitchApplies, ObservedSteps, StoredApplied
  <1>4. ~ flush_observed /\ ~ crash_observed /\ \A b : ~ restore_observed(b)
    BY DEF flush_observed, crash_observed, flush_state, crash, Regular, LinkInv,
           SwitchHeld, restore_observed, switch_restore
  <1>5. CASE close_observed
    <2>1. /\ chain' = SubSeq(chain, 1, Base) /\ undoable' = 0 /\ stored' = stored
      BY <1>5 DEF close_observed, close, history_vars
    <2>2. chain \in Seq(Blocks) /\ Base \in 0 .. Len(chain)
      BY ChainFacts
    <2>3. Len(chain') = Base /\ \A n \in 1 .. Base : chain'[n] = chain[n]
      BY <2>1, <2>2, PrefixFacts
    <2>4. Base' = Base /\ BaseStays
      BY <2>1, <2>2, <2>3 DEF Base, BaseStays
    <2>5. QED BY <2>1, <2>4, NextFacts, StoredKept
  <1>6. CASE open_observed \/ UNCHANGED observed_vars
    BY <1>6 DEF open_observed, open, history_vars, observed_vars, vars, StoredFinal, Base
  <1>7. CASE reindex_observed
    <2>1. /\ chain' = log /\ undoable' = undoable /\ stored' = BlocksOf(log)
          /\ pc \in Stopped
      BY <1>7 DEF reindex_observed, reindex, history_reindexed
    <2>2. undoable = 0 /\ Len(log) \in Nat
      BY <2>1 DEF IndInv, ControlOK, ChainOK
    <2>3. Base' = Len(log)
      BY <2>1, <2>2 DEF Base
    <2>4. QED BY <2>1, <2>3 DEF BlocksOf, StoredFinal
  <1>8. QED BY <1>1, <1>2, <1>3, <1>4, <1>5, <1>6, <1>7 DEF ObserverNext

(* wallet_history holds no operation of a block that is not on the chain,  *)
(* and transaction_status finds every transaction of its range, although a *)
(* pop takes back neither store: while no block fails, what is imported is *)
(* below the oldest undo session, for forks of any depth and any clean     *)
(* restarts.                                                               *)
THEOREM ObserversAlwaysOnChain ==
  ASSUME Regular, StatusOption
  PROVE  ObserverSpec => []ObserversOnChain
  <1>1. ObserverInit => LinkInv
    BY LinkInitially DEF ObserverInit
  <1>2. IndInv /\ IndInv' /\ LinkInv /\ [ObserverNext]_observed_vars => LinkInv'
    BY ObserverIsNext, LinkSteps
  <1>3. ObserverSpec => []LinkInv
    BY <1>1, <1>2, ObserverInvariance, PTL DEF ObserverSpec
  <1>4. ObserverInit => StoredFinal
    <2>1. ASSUME ObserverInit PROVE StoredFinal
      <3>1. /\ chain = Trunk /\ undoable = Len(Trunk) - lib(Len(Trunk))
            /\ stored = {Trunk[k] : k \in 1 .. lib(Len(Trunk))}
        BY <2>1 DEF ObserverInit, Init
      <3>2. Len(Trunk) \in Nat /\ lib(Len(Trunk)) \in 0 .. Len(Trunk)
        BY TrunkAssumption, LibFacts
      <3>3. Base = lib(Len(Trunk))
        BY <3>1, <3>2 DEF Base
      <3>4. QED BY <3>1, <3>3 DEF StoredFinal
    <2>2. QED BY <2>1
  <1>5. IndInv /\ IndInv' /\ LinkInv /\ StoredFinal /\ [ObserverNext]_observed_vars
           => StoredFinal'
    BY StoredSteps
  <1>6. ObserverSpec => []StoredFinal
    BY <1>3, <1>4, <1>5, ObserverInvariance, PTL DEF ObserverSpec
  <1>7. StoredFinal /\ ObserversComplete => ObserversOnChain
    BY DEF StoredFinal, ObserversComplete, ObserversOnChain, HistoryOnChain
  <1>8. QED BY <1>6, <1>7, ObserversAlwaysComplete, PTL

-----------------------------------------------------------------------------
(* The miner.                                                              *)

(* The head is the one that the miner has read, or a higher one; a switch  *)
(* under way will end with a higher one.                                   *)
Reading == loop \in {"id", "mine"}

Outgrown == \/ \E a \in switch.todo : Num[a] > Num[block_id]
            \/ switch.todo = {} /\ Len(chain) > Num[block_id]

ReadInv ==
    Reading => /\ block_id \in Blocks
               /\ pc = "idle" => \/ head_block_id = block_id
                                 \/ Len(chain) > Num[block_id]
               /\ pc \in {"pop", "apply"} => Outgrown

LEMMA MinerIsNext ==
  ASSUME MinerInv, [MinerNext]_all_vars
  PROVE  [Next]_vars
  <1>1. \A b \in Blocks : push_any(b) => Next
    BY DEF push_any, Next
  <1>2. switch_step => Next
    BY DEF switch_step, Next
  <1>3. CASE chain_step
    BY <1>1, <1>2, <1>3, MineAssumption DEF chain_step, Arriving, MinerInv
  <1>4. ASSUME NEW b \in Mine, generate_block(b) PROVE Next
    BY <1>1, <1>4, MineAssumption DEF generate_block
  <1>5. CASE accept_block
    <2>1. mined \in Blocks /\ push_any(mined)
      BY <1>5, MineAssumption DEF accept_block, MinerInv
    <2>2. QED BY <1>1, <2>1
  <1>6. CASE \/ read_id \/ read_num \/ generate_fails \/ generate_returns
             \/ accept_returns \/ check_head \/ brake \/ UNCHANGED all_vars
    BY <1>6 DEF read_id, read_num, generate_fails, generate_returns, accept_returns,
                check_head, brake, all_vars
  <1>7. QED BY <1>3, <1>4, <1>5, <1>6 DEF MinerNext

LEMMA ReadPushed ==
  ASSUME Shallow, IndInv, IndInv', LinkInv, TopInv, TopInv', ReadInv,
         NEW b \in Blocks, push_any(b), UNCHANGED <<loop, block_id>>, Reading
  PROVE  ReadInv'
  <1>1. /\ pc = "idle" /\ block_id \in Blocks
        /\ head_block_id = block_id \/ Len(chain) > Num[block_id]
    <2>1. pc = "idle"
      BY DEF push_any, push_refused, push_direct, push_kept, push_switch, Accepted
    <2>2. QED BY <2>1 DEF ReadInv
  <1>2. /\ Len(chain) \in Nat /\ Num[block_id] \in Nat /\ Num[block_id] <= Len(chain)
        /\ head_block_num = Len(chain) /\ fd \in Fork /\ fd.head = head_block_id
        /\ Num[head_block_id] = Len(chain)
    <2>1. /\ Len(chain) \in Nat /\ head_block_num = Len(chain) /\ fd \in Fork
          /\ fd.head = head_block_id /\ Num[head_block_id] = Len(chain)
      BY <1>1, TopFacts
    <2>2. QED BY <1>1, <2>1, NumNat
  <1>3. CASE push_refused(b) \/ push_kept(b)
    <2>1. UNCHANGED chain /\ pc' = "idle"
      BY <1>3 DEF push_refused, push_kept, Throw, Return
    <2>2. QED BY <1>1, <2>1 DEF ReadInv, Reading, head_block_id
  <1>4. CASE push_direct(b)
    <2>1. chain' = Append(chain, b) /\ pc' = "idle"
      BY <1>4, DirectApplies DEF Shallow, push_direct, Return, Throw
    <2>2. Len(chain') = Len(chain) + 1
      BY <2>1, AppendedFacts
    <2>3. Len(chain') > Num[block_id]
      BY <1>2, <2>2
    <2>4. QED BY <1>1, <2>1, <2>3 DEF ReadInv
  <1>5. CASE push_switch(b)
    <2>1. PICK f \in push_block(fd, b) : Higher(f) /\ fd' = f /\ pc' \in {"pop", "idle"}
      BY <1>5 DEF push_switch, Throw
    <2>2. UNCHANGED chain
      BY <1>5 DEF push_switch
    <2>3. Num[fd'.head] > Len(chain)
      BY <1>2, <2>1 DEF Higher
    <2>4. /\ f.index = fd.index \cup Adopted(fd, b)
          /\ f.head = fd.head \/ f.head \in Adopted(fd, b)
      BY <1>2, PushFields
    <2>5. fd'.head \in fd'.index
      BY <1>2, <2>1, <2>3, <2>4
    <2>6. pc' = "pop"
      <3>1. SUFFICES ASSUME pc' = "idle" PROVE FALSE
        BY <2>1
      <3>2. fd'.head = head_block_id'
        BY <3>1 DEF TopInv, TopIdle
      <3>3. head_block_id' = head_block_id
        BY <2>2 DEF head_block_id
      <3>4. QED BY <1>2, <2>3, <3>2, <3>3
    <2>7. PICK a \in switch'.todo : Num[fd'.head] <= Num[a]
      BY <2>5, <2>6 DEF TopInv, TopSwitch, TargetIs
    <2>8. Num[a] > Num[block_id]
      <3>1. a \in Blocks /\ fd'.head \in Blocks
        <4>1. switch' \in Branches /\ fd' \in Fork
          BY DEF IndInv, ControlOK, ChainOK
        <4>2. QED BY <2>5, <4>1 DEF Branches, Fork
      <3>2. Num[a] \in Nat /\ Num[fd'.head] \in Nat
        BY <3>1, NumNat
      <3>3. QED BY <1>2, <2>3, <2>7, <3>2
    <2>9. QED BY <1>1, <2>6, <2>7, <2>8 DEF ReadInv, Outgrown
  <1>6. QED BY <1>3, <1>4, <1>5 DEF push_any

LEMMA ReadSwitched ==
  ASSUME Shallow, IndInv, IndInv', LinkInv, TopInv, TopInv', ReadInv,
         switch_step, UNCHANGED <<loop, block_id>>, Reading
  PROVE  ReadInv'
  <1>1. block_id \in Blocks /\ (pc \in {"pop", "apply"} => Outgrown) /\ Num[block_id] \in Nat
    BY NumNat DEF ReadInv
  <1>2. CASE switch_pop
    <2>1. Outgrown /\ pc = "pop"
      BY <1>1, <1>2 DEF switch_pop
    <2>2. PICK a \in switch.todo : Num[a] > Num[block_id]
      <3>1. switch.todo # {}
        BY <2>1 DEF LinkInv, SwitchHeld
      <3>2. QED BY <2>1, <3>1 DEF Outgrown
    <2>3. pc' # "idle"
      <3>1. SUFFICES ASSUME pc' = "idle" PROVE FALSE
        OBVIOUS
      <3>2. UNCHANGED <<fd, chain>>
        BY <1>2, <2>1, <3>1 DEF switch_pop, pop_head
      <3>3. fd.head = head_block_id /\ chain # <<>>
        <4>1. fd'.head = head_block_id' /\ chain' # <<>>
          BY <3>1 DEF TopInv, TopIdle
        <4>2. QED BY <3>2, <4>1 DEF head_block_id
      <3>4. Num[fd.head] > Len(chain)
        BY <2>1 DEF TopInv, TopPop
      <3>5. Num[head_block_id] = Len(chain) /\ Len(chain) \in Nat
        BY <3>3, HeadFacts DEF IndInv, ChainOK
      <3>6. QED BY <3>3, <3>4, <3>5
    <2>4. switch' = switch
      BY <1>2, <2>1, <2>3 DEF switch_pop, pop_head, Throw
    <2>5. Outgrown'
      BY <2>2, <2>4 DEF Outgrown
    <2>6. QED BY <1>1, <2>3, <2>5 DEF ReadInv
  <1>3. ASSUME NEW b \in switch.todo, switch_apply(b) PROVE ReadInv'
    <2>1. /\ chain' = Append(chain, b) /\ pc = "apply" /\ pc' = "apply"
          /\ switch'.todo = switch.todo \ {b}
          /\ Num[b] = Len(chain) + 1 /\ Lowest(b) /\ switch.todo \subseteq Blocks
      BY <1>3, SwitchApplies DEF Shallow, switch_apply
    <2>2. PICK a \in switch.todo : Num[a] > Num[block_id]
      BY <1>1, <2>1 DEF Outgrown
    <2>3. \A x \in switch.todo : Num[x] \in Nat /\ Num[b] <= Num[x]
      BY <2>1, NumNat DEF Lowest
    <2>4. Len(chain') = Num[b]
      BY <2>1, AppendedFacts
    <2>5. CASE a # b
      <3>1. a \in switch'.todo
        BY <2>1, <2>5
      <3>2. Outgrown'
        BY <2>2, <3>1 DEF Outgrown
      <3>3. QED BY <1>1, <2>1, <3>2 DEF ReadInv
    <2>6. CASE a = b
      <3>1. \A x \in switch'.todo : Num[x] > Num[block_id]
        BY <1>1, <2>1, <2>2, <2>3, <2>6
      <3>2. Outgrown'
        BY <2>2, <2>4, <2>6, <3>1 DEF Outgrown
      <3>3. QED BY <1>1, <2>1, <3>2 DEF ReadInv
    <2>7. QED BY <2>5, <2>6
  <1>4. CASE switch_done
    <2>1. pc = "apply" /\ switch.todo = {} /\ pc' = "idle" /\ UNCHANGED chain
      BY <1>4 DEF switch_done, Return
    <2>2. Len(chain) > Num[block_id]
      BY <1>1, <2>1 DEF Outgrown
    <2>3. QED BY <1>1, <2>1, <2>2 DEF ReadInv
  <1>5. ~ switch_unwind /\ ~ switch_rethrow /\ \A b : ~ switch_restore(b)
    BY DEF switch_unwind, switch_rethrow, switch_restore, LinkInv, SwitchHeld
  <1>6. QED BY <1>2, <1>3, <1>4, <1>5 DEF switch_step

LEMMA ReadSteps ==
  ASSUME Shallow, IndInv, IndInv', LinkInv, TopInv, TopInv', MinerInv, ReadInv,
         [MinerNext]_all_vars
  PROVE  ReadInv'
  <1>1. CASE chain_step
    <2>1. UNCHANGED <<loop, block_id>>
      BY <1>1 DEF chain_step, miner_vars
    <2>2. CASE Reading
      <3>1. ASSUME NEW b \in Arriving, push_any(b) PROVE ReadInv'
        <4>1. b \in Blocks
          BY MineAssumption DEF Arriving, MinerInv
        <4>2. QED BY <2>1, <2>2, <3>1, <4>1, ReadPushed
      <3>2. CASE switch_step
        BY <2>1, <2>2, <3>2, ReadSwitched
      <3>3. QED BY <1>1, <3>1, <3>2 DEF chain_step
    <2>3. CASE ~ Reading
      BY <2>1, <2>3 DEF Reading, ReadInv
    <2>4. QED BY <2>2, <2>3
  <1>2. CASE read_id
    <2>1. /\ pc = "idle" /\ block_id' = head_block_id /\ UNCHANGED <<pc, chain>>
      BY <1>2 DEF read_id, Unlocked, vars
    <2>2. head_block_id \in Blocks
      BY <2>1, TopFacts
    <2>3. QED BY <2>1, <2>2 DEF ReadInv, head_block_id
  <1>3. CASE read_num \/ UNCHANGED all_vars
    <2>1. /\ UNCHANGED <<pc, chain, switch, block_id>> /\ (loop' = loop \/ loop = "id")
      BY <1>3 DEF read_num, all_vars, miner_vars, vars
    <2>2. Reading' => Reading
      BY <2>1 DEF Reading
    <2>3. QED BY <2>1, <2>2 DEF ReadInv, Outgrown, head_block_id
  <1>4. CASE \/ \E b \in Mine : generate_block(b)
             \/ generate_fails \/ generate_returns
             \/ accept_block \/ accept_returns \/ check_head \/ brake
    <2>1. loop' \notin {"id", "mine"}
      BY <1>4 DEF generate_block, generate_fails, generate_returns, accept_block,
                  accept_returns, check_head, brake
    <2>2. QED BY <2>1 DEF ReadInv, Reading
  <1>5. QED BY <1>1, <1>2, <1>3, <1>4 DEF MinerNext

(* The miner compares only numbers to notice that the head has changed.    *)
(* Under the conditions of the longest chain rule this is enough: once a   *)
(* push is over, a head of the number that it read is the block that it    *)
(* read, and no block joins the chain with work for another.               *)
THEOREM StaleReadsAlwaysHarmless ==
  ASSUME Shallow
  PROVE  MinerSpec => []StaleReadsHarmless
  <1>1. MinerInit => IndInv /\ MinerInv /\ LinkInv /\ TopInv /\ ReadInv
    <2>1. MinerInit => IndInv /\ MinerInv
      BY MinerInitially
    <2>2. MinerInit => LinkInv /\ TopInv
      BY LinkInitially, TopInitially DEF MinerInit
    <2>3. MinerInit => ReadInv
      BY DEF MinerInit, ReadInv, Reading
    <2>4. QED BY <2>1, <2>2, <2>3
  <1>2. /\ IndInv /\ MinerInv /\ LinkInv /\ TopInv /\ ReadInv /\ [MinerNext]_all_vars
        => IndInv' /\ MinerInv' /\ LinkInv' /\ TopInv' /\ ReadInv'
    <2>1. SUFFICES ASSUME IndInv, MinerInv, LinkInv, TopInv, ReadInv, [MinerNext]_all_vars
                   PROVE  IndInv' /\ MinerInv' /\ LinkInv' /\ TopInv' /\ ReadInv'
      OBVIOUS
    <2>2. IndInv' /\ MinerInv'
      BY <2>1, MinerSteps
    <2>3. [Next]_vars
      BY <2>1, MinerIsNext
    <2>4. Regular
      BY DEF Shallow
    <2>5. LinkInv'
      BY <2>1, <2>2, <2>3, <2>4, LinkSteps
    <2>6. TopInv'
      BY <2>1, <2>3, TopSteps
    <2>7. ReadInv'
      BY <2>1, <2>2, <2>6, ReadSteps
    <2>8. QED BY <2>2, <2>5, <2>6, <2>7
  <1>3. IndInv /\ LinkInv /\ TopInv /\ ReadInv => NumbersSuffice
    <2>1. SUFFICES ASSUME IndInv, LinkInv, TopInv, ReadInv, loop = "mine", pc = "idle",
                          Num[block_id] = block_num, head_block_num = block_num
                   PROVE  head_block_id = block_id
      BY DEF NumbersSuffice, Unlocked
    <2>2. head_block_num = Len(chain) /\ Len(chain) \in Nat
      BY <2>1, TopFacts
    <2>3. head_block_id = block_id \/ Len(chain) > Num[block_id]
      BY <2>1 DEF ReadInv, Reading
    <2>4. QED BY <2>1, <2>2, <2>3
  <1>4. MinerSpec => []NumbersSuffice
    BY <1>1, <1>2, <1>3, PTL DEF MinerSpec
  <1>5. WorkOnPrevious /\ NumbersSuffice => StaleReadsHarmless
    BY DEF StaleReadsHarmless
  <1>6. QED BY <1>4, <1>5, MinedWorkFits, PTL
=============================================================================
