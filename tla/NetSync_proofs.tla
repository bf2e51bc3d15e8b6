--------------------------- MODULE NetSync_proofs ---------------------------
(***************************************************************************)
(* Proofs about the synchronisation of blocks, for any peers, any tree of  *)
(* blocks, any limits, and any number of timeouts, refusals, connections   *)
(* and moves of the peers' chains.                                         *)
(***************************************************************************)
EXTENDS NetSync, FiniteSetTheorems, WellFoundedInduction, TLAPS

Items == Blocks \ {Genesis}

-----------------------------------------------------------------------------
(* Induction over numbers. *)

Below == {p \in Nat \X Nat : p[1] < p[2]}

LEMMA NatInduct == ASSUME NEW T \in SUBSET Nat, 0 \in T, \A n \in T : n + 1 \in T
                   PROVE  T = Nat
  <1> SUFFICES ASSUME Nat \ T # {} PROVE FALSE
    OBVIOUS
  <1>1. IsWellFoundedOn(Below, Nat)
    BY NatLessThanWellFounded, Zenon DEF Below, OpToRel
  <1>2. PICK x \in Nat \ T : \A y \in Nat \ T : ~ (<<y, x>> \in Below)
    BY <1>1, WFMin
  <1>3. x - 1 \in Nat /\ <<x - 1, x>> \in Below
    BY <1>2 DEF Below
  <1>4. x - 1 \in T /\ (x - 1) + 1 = x
    BY <1>2, <1>3
  <1> QED
    BY <1>2, <1>4

-----------------------------------------------------------------------------
(* Chains *)

LEMMA NumberNat == ASSUME NEW b \in Blocks
                   PROVE  Number(b) \in Nat /\ Path[b] \in Seq(Items) /\ DOMAIN Path[b] = 1 .. Number(b)
  BY ChainsAssumption DEF Number, Items

LEMMA GenesisNumber == Genesis \in Blocks /\ Number(Genesis) = 0
  BY ChainsAssumption DEF Number

(* A block ends its own chain, after its parent's. *)
LEMMA PathEnd == ASSUME NEW b \in Items
                 PROVE  /\ b \in Blocks /\ Parent[b] \in Blocks
                        /\ Number(Parent[b]) \in Nat
                        /\ Number(b) = Number(Parent[b]) + 1
                        /\ Path[b][Number(b)] = b
                        /\ \A i \in 1 .. Number(Parent[b]) : Path[b][i] = Path[Parent[b]][i]
  <1>1. b \in Blocks /\ Parent[b] \in Blocks /\ Path[b] = Append(Path[Parent[b]], b)
    BY ChainsAssumption DEF Items
  <1>2. Path[Parent[b]] \in Seq(Items)
    BY <1>1, NumberNat
  <1> QED
    BY <1>1, <1>2 DEF Number

(* The first i blocks of a chain are the chain of its i-th block. *)
LEMMA PathPrefix == ASSUME NEW h \in Blocks, NEW i \in 1 .. Number(h)
                    PROVE  /\ Path[h][i] \in Items
                           /\ Number(Path[h][i]) = i
                           /\ \A j \in 1 .. i : Path[Path[h][i]][j] = Path[h][j]
  <1> DEFINE P(x, k) == /\ Number(Path[x][k]) = k
                        /\ \A j \in 1 .. k : Path[Path[x][k]][j] = Path[x][j]
             T == {n \in Nat : \A x \in Blocks : Number(x) = n => \A k \in 1 .. n : P(x, k)}
  <1>1. 0 \in T
    OBVIOUS
  <1>2. ASSUME NEW n \in T PROVE n + 1 \in T
    <2> SUFFICES ASSUME NEW x \in Blocks, Number(x) = n + 1, NEW k \in 1 .. n + 1 PROVE P(x, k)
      OBVIOUS
    <2>1. x \in Items
      BY ChainsAssumption DEF Items, Number
    <2>2. Number(Parent[x]) = n /\ Parent[x] \in Blocks
      BY <2>1, PathEnd
    <2>3. CASE k = n + 1
      BY <2>1, <2>3, PathEnd
    <2>4. CASE k # n + 1
      <3>1. k \in 1 .. n /\ \A j \in 1 .. k : j \in 1 .. n
        BY <2>4
      <3>2. P(Parent[x], k)
        BY <2>2, <3>1
      <3>3. Path[x][k] = Path[Parent[x]][k] /\ \A j \in 1 .. k : Path[x][j] = Path[Parent[x]][j]
        BY <2>1, <2>2, <3>1, PathEnd
      <3> QED
        BY <3>2, <3>3
    <2> QED
      BY <2>3, <2>4
  <1>3. T \in SUBSET Nat
    OBVIOUS
  <1>4. T = Nat
    <2> HIDE DEF T
    <2> QED
      BY <1>1, <1>2, <1>3, NatInduct
  <1>5. Number(h) \in T
    BY <1>4, NumberNat
  <1>6. Path[h][i] \in Items
    BY NumberNat
  <1> QED
    BY <1>5, <1>6

(* Blocks that follow each other *)
Line(s) == \A i \in 1 .. Len(s) - 1 : Parent[s[i + 1]] = s[i]

LEMMA PathLine == ASSUME NEW h \in Blocks, NEW i \in 1 .. Number(h) - 1
                  PROVE  Parent[Path[h][i + 1]] = Path[h][i]
  <1> DEFINE x == Path[h][i + 1]
  <1>1. Number(h) \in Nat
    BY NumberNat
  <1>2. i + 1 \in 1 .. Number(h) /\ i \in 1 .. i + 1 /\ i \in Nat
    BY <1>1
  <1>3. x \in Items /\ Number(x) = i + 1 /\ Path[x][i] = Path[h][i]
    BY <1>2, PathPrefix
  <1> HIDE DEF x
  <1>4. Number(Parent[x]) = i /\ Path[x][i] = Path[Parent[x]][i] /\ Parent[x] \in Blocks
    BY <1>2, <1>3, PathEnd
  <1>5. Parent[x] \in Items
    <2>1. Number(Parent[x]) # 0
      BY <1>2, <1>4
    <2> QED
      BY <1>4, <2>1, GenesisNumber DEF Items
  <1>6. Path[Parent[x]][i] = Parent[x]
    BY <1>4, <1>5, PathEnd
  <1> QED
    BY <1>3, <1>4, <1>6 DEF x

(* A block of a chain is at its number. *)
LEMMA OnChainAt == ASSUME NEW h \in Blocks, NEW x \in Items, OnChain(x, h)
                   PROVE  Number(x) \in 1 .. Number(h) /\ Path[h][Number(x)] = x
  <1>1. PICK i \in DOMAIN Path[h] : Path[h][i] = x
    BY DEF OnChain, Range, Items
  <1>2. i \in 1 .. Number(h)
    BY <1>1, NumberNat
  <1> QED
    BY <1>1, <1>2, PathPrefix

LEMMA OnChainPath == ASSUME NEW h \in Blocks, NEW i \in 1 .. Number(h) PROVE OnChain(Path[h][i], h)
  BY NumberNat DEF OnChain, Range

LEMMA OnChainSelf == ASSUME NEW h \in Blocks PROVE OnChain(h, h)
  <1>1. CASE h = Genesis
    BY <1>1 DEF OnChain
  <1>2. CASE h \in Items
    BY <1>2, PathEnd, NumberNat DEF OnChain, Range
  <1> QED
    BY <1>1, <1>2 DEF Items

LEMMA OnChainTrans == ASSUME NEW a \in Blocks, NEW b \in Blocks, NEW c \in Blocks,
                             OnChain(a, b), OnChain(b, c)
                      PROVE  OnChain(a, c)
  <1>1. CASE a = Genesis
    BY <1>1 DEF OnChain
  <1>2. CASE a \in Items
    <2>1. Number(a) \in 1 .. Number(b) /\ Path[b][Number(a)] = a
      BY <1>2, OnChainAt
    <2>2. b \in Items
      BY <2>1, ChainsAssumption DEF Items, Number
    <2>3. Number(b) \in 1 .. Number(c) /\ Path[c][Number(b)] = b
      BY <2>2, OnChainAt
    <2>4. Path[b][Number(a)] = Path[c][Number(a)]
      BY <2>1, <2>3, PathPrefix
    <2>5. Number(a) \in 1 .. Number(c)
      BY <2>1, <2>3, NumberNat
    <2> QED
      BY <2>1, <2>4, <2>5, NumberNat DEF OnChain, Range
  <1> QED
    BY <1>1, <1>2 DEF Items

-----------------------------------------------------------------------------
(* The numbers of a synopsis *)

After(l, th) == l + (th - l + 2) \div 2

LEMMA AfterIs == ASSUME NEW th \in Nat, NEW l \in 1 .. th
                 PROVE  After(l, th) \in l + 1 .. th + 1 /\ (After(l, th) = th + 1 => l = th)
  BY DEF After

Here(l, first) == IF l < first THEN <<>> ELSE <<l>>

(* The recursion of SynopsisNumbers, from m on. *)
Halving(f, first, high, th, m) ==
  f = [l \in m .. th + 1 |-> IF l > high THEN <<>> ELSE Here(l, first) \o f[After(l, th)]]

LEMMA HalvingExists == ASSUME NEW first \in Nat, NEW th \in Nat, NEW high \in 0 .. th
                       PROVE  \E f : Halving(f, first, high, th, 1)
  <1> DEFINE T == {k \in Nat : k <= th => \E f : Halving(f, first, high, th, th + 1 - k)}
  <1>1. 0 \in T
    <2> DEFINE f == [l \in th + 1 .. th + 1 |-> <<>>]
    <2>1. \A l \in th + 1 .. th + 1 : l > high
      OBVIOUS
    <2>2. Halving(f, first, high, th, th + 1)
      BY <2>1 DEF Halving
    <2>3. th + 1 - 0 = th + 1
      OBVIOUS
    <2> QED
      BY <2>2, <2>3
  <1>2. ASSUME NEW k \in T PROVE k + 1 \in T
    <2> SUFFICES ASSUME k + 1 <= th PROVE \E f : Halving(f, first, high, th, th + 1 - (k + 1))
      OBVIOUS
    <2> DEFINE m == th + 1 - (k + 1)
    <2>1. m \in 1 .. th /\ m + 1 = th + 1 - k /\ k <= th
      OBVIOUS
    <2>2. PICK f : Halving(f, first, high, th, m + 1)
      BY <2>1
    <2> HIDE DEF m
    <2> DEFINE g == [l \in m .. th + 1 |->
                       IF l = m THEN IF m > high THEN <<>> ELSE Here(m, first) \o f[After(m, th)] ELSE f[l]]
    <2>3. ASSUME NEW l \in m .. th + 1
          PROVE  g[l] = IF l > high THEN <<>> ELSE Here(l, first) \o g[After(l, th)]
      <3>1. ASSUME l <= high PROVE After(l, th) \in m + 1 .. th + 1 /\ After(l, th) # m
        <4>1. l \in 1 .. th
          BY <2>1, <3>1
        <4>2. After(l, th) \in l + 1 .. th + 1
          BY <4>1, AfterIs
        <4> QED
          BY <2>1, <4>1, <4>2
      <3>2. l <= high => g[After(l, th)] = f[After(l, th)]
        BY <2>1, <3>1
      <3>3. CASE l = m
        <4>1. g[m] = IF m > high THEN <<>> ELSE Here(m, first) \o f[After(m, th)]
          BY <2>1
        <4>2. ~ (m > high) => m <= high
          BY <2>1
        <4> HIDE DEF g
        <4> QED
          BY <3>2, <3>3, <4>1, <4>2
      <3>4. CASE l # m
        <4>1. l \in m + 1 .. th + 1
          BY <2>1, <3>4
        <4>2. f[l] = IF l > high THEN <<>> ELSE Here(l, first) \o f[After(l, th)]
          BY <2>2, <4>1 DEF Halving
        <4> QED
          BY <2>1, <3>2, <3>4, <4>1, <4>2
      <3> QED
        BY <3>3, <3>4
    <2>4. g = [l \in m .. th + 1 |-> g[l]]
      OBVIOUS
    <2>5. Halving(g, first, high, th, m)
      <3> HIDE DEF g
      <3> QED
        BY <2>3, <2>4 DEF Halving
    <2> QED
      BY <2>5 DEF m
  <1>3. T \in SUBSET Nat
    OBVIOUS
  <1>4. T = Nat
    <2> HIDE DEF T
    <2> QED
      BY <1>1, <1>2, <1>3, NatInduct
  <1>5. th \in T /\ th + 1 - th = 1
    BY <1>4
  <1> QED
    BY <1>5

(* They lie between low and high and not before first; the first is low,   *)
(* and if they are to reach true_high, they do.                            *)
NumbersOK(s, low, first, high, th) ==
  /\ s \in Seq(Nat)
  /\ \A i \in 1 .. Len(s) : s[i] >= low /\ s[i] >= first /\ s[i] <= high
  /\ first <= low /\ low <= high => s # <<>> /\ s[1] = low
  /\ high = th /\ low <= th /\ first <= th => s # <<>> /\ s[Len(s)] = th

LEMMA SynopsisNumbersOK == ASSUME NEW first \in Nat, NEW th \in Nat, NEW high \in 0 .. th, NEW low \in 1 .. th + 1
                           PROVE  NumbersOK(SynopsisNumbers(low, first, high, th), low, first, high, th)
  <1> DEFINE F == CHOOSE f : Halving(f, first, high, th, 1)
  <1>1. SynopsisNumbers(low, first, high, th) = F[low]
    BY Zenon DEF SynopsisNumbers, Halving, Here, After
  <1>2. Halving(F, first, high, th, 1)
    BY HalvingExists
  <1> HIDE DEF F
  <1>3. \A l \in 1 .. th + 1 : F[l] = IF l > high THEN <<>> ELSE Here(l, first) \o F[After(l, th)]
    BY <1>2 DEF Halving
  <1> DEFINE P(l) == NumbersOK(F[l], l, first, high, th)
             T == {k \in Nat : \A l \in 1 .. th + 1 : th + 1 - l <= k => P(l)}
  <1>4. ASSUME NEW l \in 1 .. th + 1, l > high PROVE P(l)
    <2>1. F[l] = <<>>
      BY <1>3, <1>4
    <2>2. ~ (l <= high)
      BY <1>4
    <2>3. high = th => ~ (l <= th)
      BY <2>2
    <2> QED
      BY <2>1, <2>2, <2>3 DEF NumbersOK
  <1>5. ASSUME NEW l \in 1 .. th + 1, l <= high, P(After(l, th)) PROVE P(l)
    <2> DEFINE n == After(l, th)
               r == F[n]
    <2>1. n \in l + 1 .. th + 1 /\ (n = th + 1 => l = th)
      BY <1>5, AfterIs
    <2>2. F[l] = Here(l, first) \o r
      <3>1. ~ (l > high)
        BY <1>5
      <3> QED
        BY <1>3, <3>1
    <2>3. NumbersOK(r, n, first, high, th)
      BY <1>5
    <2> HIDE DEF n, r
    <2>4. CASE l < first
      <3>1. F[l] = r
        BY <2>2, <2>3, <2>4 DEF Here, NumbersOK
      <3> QED
        BY <1>5, <2>1, <2>3, <2>4, <3>1 DEF NumbersOK
    <2>5. CASE l >= first
      <3>1. F[l] = <<l>> \o r /\ r \in Seq(Nat)
        BY <2>2, <2>3, <2>5 DEF Here, NumbersOK
      <3>2. /\ F[l] \in Seq(Nat) /\ Len(F[l]) = Len(r) + 1 /\ F[l][1] = l
            /\ \A i \in 2 .. Len(r) + 1 : F[l][i] = r[i - 1]
        BY <3>1
      <3>3. \A i \in 1 .. Len(F[l]) : F[l][i] >= l /\ F[l][i] >= first /\ F[l][i] <= high
        <4> SUFFICES ASSUME NEW i \in 1 .. Len(F[l])
                     PROVE  F[l][i] >= l /\ F[l][i] >= first /\ F[l][i] <= high
          OBVIOUS
        <4>1. CASE i = 1
          BY <1>5, <2>5, <3>2, <4>1
        <4>2. CASE i # 1
          <5>1. i - 1 \in 1 .. Len(r) /\ i \in 2 .. Len(r) + 1
            BY <3>1, <3>2, <4>2
          <5>2. r[i - 1] \in Nat /\ r[i - 1] >= n /\ r[i - 1] >= first /\ r[i - 1] <= high
            BY <2>3, <3>1, <5>1 DEF NumbersOK
          <5>3. F[l][i] = r[i - 1]
            BY <3>2, <5>1
          <5>4. r[i - 1] >= l
            BY <2>1, <5>2
          <5> QED
            BY <5>2, <5>3, <5>4
        <4> QED
          BY <4>1, <4>2
      <3>4. ASSUME high = th PROVE F[l][Len(F[l])] = th
        <4>1. CASE n = th + 1
          <5>1. r = <<>>
            BY <1>3, <3>4, <4>1 DEF r
          <5> QED
            BY <2>1, <3>2, <4>1, <5>1
        <4>2. CASE n # th + 1
          <5>1. r # <<>> /\ r[Len(r)] = th
            BY <1>5, <2>1, <2>3, <2>5, <3>4, <4>2 DEF NumbersOK
          <5>2. Len(r) \in Nat \ {0}
            BY <3>1, <5>1
          <5> QED
            BY <3>2, <5>1, <5>2
        <4> QED
          BY <4>1, <4>2
      <3>5. F[l] # <<>>
        BY <3>2, <3>1
      <3> QED
        BY <3>2, <3>3, <3>4, <3>5 DEF NumbersOK
    <2> QED
      BY <2>4, <2>5
  <1>6. 0 \in T
    <2>1. \A l \in 1 .. th + 1 : th + 1 - l <= 0 => l > high
      OBVIOUS
    <2> QED
      BY <1>4, <2>1
  <1>7. ASSUME NEW k \in T PROVE k + 1 \in T
    <2> SUFFICES ASSUME NEW l \in 1 .. th + 1, th + 1 - l <= k + 1 PROVE P(l)
      OBVIOUS
    <2>1. CASE l > high
      BY <1>4, <2>1
    <2>2. CASE l <= high
      <3>1. After(l, th) \in l + 1 .. th + 1
        BY <2>2, AfterIs
      <3>2. After(l, th) \in 1 .. th + 1 /\ th + 1 - After(l, th) <= k
        BY <3>1
      <3>3. P(After(l, th))
        BY <3>2
      <3> HIDE DEF P
      <3> QED
        BY <1>5, <2>2, <3>3
    <2> QED
      BY <2>1, <2>2
  <1>8. T \in SUBSET Nat
    OBVIOUS
  <1>9. T = Nat
    <2> HIDE DEF T
    <2> QED
      BY <1>6, <1>7, <1>8, NatInduct
  <1>10. th \in T
    BY <1>9
  <1>11. th + 1 - low <= th
    OBVIOUS
  <1>12. P(low)
    BY <1>10, <1>11
  <1> QED
    BY <1>1, <1>12

-----------------------------------------------------------------------------
(* Sequences *)

LEMMA SubSeqIs == ASSUME NEW S, NEW s \in Seq(S), NEW a \in Nat \ {0}, NEW b \in Nat, b <= Len(s)
                  PROVE  /\ SubSeq(s, a, b) \in Seq(S)
                         /\ Len(SubSeq(s, a, b)) = IF a <= b THEN b - a + 1 ELSE 0
                         /\ \A i \in 1 .. Len(SubSeq(s, a, b)) : SubSeq(s, a, b)[i] = s[a + i - 1]
  OBVIOUS

LEMMA ConcatIs == ASSUME NEW S, NEW s \in Seq(S), NEW t \in Seq(S)
                  PROVE  /\ s \o t \in Seq(S) /\ Len(s \o t) = Len(s) + Len(t)
                         /\ \A i \in 1 .. Len(s) : (s \o t)[i] = s[i]
                         /\ \A i \in 1 .. Len(t) : (s \o t)[Len(s) + i] = t[i]
                         /\ \A i \in 1 .. Len(s) + Len(t) :
                              \/ i \in 1 .. Len(s) /\ (s \o t)[i] = s[i]
                              \/ i - Len(s) \in 1 .. Len(t) /\ (s \o t)[i] = t[i - Len(s)]
  OBVIOUS

LEMMA FunctionSeq == ASSUME NEW S, NEW n \in Nat, NEW f \in [1 .. n -> S]
               PROVE  f \in Seq(S) /\ Len(f) = n
  OBVIOUS

LEMMA NotEmpty == ASSUME NEW S, NEW s \in Seq(S)
                  PROVE  /\ s # <<>> => Len(s) \in Nat \ {0} /\ 1 \in 1 .. Len(s) /\ Len(s) \in 1 .. Len(s)
                         /\ Len(s) # 0 => s # <<>>
                         /\ DOMAIN s = 1 .. Len(s) /\ Len(s) \in Nat
  OBVIOUS

(* A set of numbers up to n has a greatest one, which Max returns. *)
LEMMA MaxIn == ASSUME NEW n \in Nat, NEW s \in SUBSET (1 .. n), s # {}
               PROVE  Max(s) \in s /\ \A y \in s : Max(s) >= y
  <1> DEFINE T == {n - x : x \in s}
  <1>1. T \subseteq Nat /\ T # {}
    <2>1. PICK x \in s : TRUE
      OBVIOUS
    <2>2. \A y \in s : n - y \in Nat
      OBVIOUS
    <2> QED
      BY <2>1, <2>2
  <1>2. IsWellFoundedOn(OpToRel(<, Nat), Nat)
    BY NatLessThanWellFounded
  <1>3. PICK m \in T : \A k \in T : ~ (<<k, m>> \in OpToRel(<, Nat))
    <2> HIDE DEF T
    <2> QED
      BY <1>1, <1>2, WFMin
  <1>4. PICK x \in s : m = n - x
    OBVIOUS
  <1>5. \A y \in s : x >= y
    <2> SUFFICES ASSUME NEW y \in s, ~ (x >= y) PROVE FALSE
      OBVIOUS
    <2>1. n - y \in T /\ n - y < m /\ n - y \in Nat /\ m \in Nat
      BY <1>4
    <2>2. <<n - y, m>> \in OpToRel(<, Nat)
      BY <2>1 DEF OpToRel
    <2> QED
      BY <1>3, <2>1, <2>2
  <1> QED
    BY <1>4, <1>5 DEF Max

(* A set of numbers has a least one, which Min returns. *)
LEMMA MinIn == ASSUME NEW s \in SUBSET Nat, s # {} PROVE Min(s) \in s /\ \A y \in s : Min(s) <= y
  <1>1. IsWellFoundedOn(OpToRel(<, Nat), Nat)
    BY NatLessThanWellFounded
  <1>2. PICK m \in s : \A k \in s : ~ (<<k, m>> \in OpToRel(<, Nat))
    BY <1>1, WFMin
  <1>3. \A y \in s : m <= y
    <2> SUFFICES ASSUME NEW y \in s, ~ (m <= y) PROVE FALSE
      OBVIOUS
    <2>1. y < m /\ y \in Nat /\ m \in Nat
      OBVIOUS
    <2>2. <<y, m>> \in OpToRel(<, Nat)
      BY <2>1 DEF OpToRel
    <2> QED
      BY <1>2, <2>2
  <1> QED
    BY <1>2, <1>3 DEF Min

-----------------------------------------------------------------------------
(* Synopses and the replies to them *)

LEMMA LowNumber == ASSUME NEW h \in Blocks PROVE LowBlockNum(h) \in Nat \ {0}
  BY NumberNat, LimitsAssumption DEF LowBlockNum

(* The client's synopsis starts at or before the reference point. *)
LEMMA OwnSynopsis == ASSUME NEW head \in Blocks, NEW reference \in Blocks, NEW after \in Nat,
                            NEW s, s = GetBlockchainSynopsis(head, reference, after), s # None
                     PROVE  /\ s \in Seq(Items)
                            /\ s # <<>> => Number(s[1]) \in Nat \ {0}
                            /\ s # <<>> /\ reference # Genesis => Number(s[1]) <= Number(reference)
  <1> DEFINE top == IF reference = Genesis THEN head ELSE reference
             line == Path[top]
             high == Len(line)
             low  == IF OnChain(reference, head) /\ high < LowBlockNum(head) THEN high ELSE LowBlockNum(head)
             nums == SynopsisNumbers(low, low, high, high + after)
             r == [i \in DOMAIN nums |-> line[nums[i]]]
  <1>1. top \in Blocks
    OBVIOUS
  <1>2. line = IF reference = Genesis THEN Path[head] ELSE Path[reference]
    OBVIOUS
  <1>3. s = IF high = 0 THEN <<>> ELSE IF high < low \/ ~OnChain(line[low], head) THEN None ELSE r
    BY <1>2, Zenon DEF GetBlockchainSynopsis
  <1>4. high \in Nat /\ high = Number(top) /\ line \in Seq(Items)
    BY <1>1, NumberNat DEF Number
  <1>5. CASE high = 0
    <2>1. s = <<>>
      BY <1>3, <1>5
    <2> QED
      BY <2>1
  <1>6. CASE high # 0
    <2>1. s = r /\ high >= low
      <3>1. low \in Nat
        BY <1>4, LowNumber
      <3>2. ~ (high < low)
        <4> HIDE DEF high, low, r, line
        <4> QED
          BY <1>3, <1>6
      <3>3. s = r
        <4> HIDE DEF high, low, r, line
        <4> QED
          BY <1>3, <1>6
      <3> HIDE DEF high, low, r, line
      <3> QED
        BY <1>4, <3>1, <3>2, <3>3
    <2>2. low \in 1 .. high
      BY <1>4, <1>6, <2>1, LowNumber
    <2> HIDE DEF line, high, low
    <2>3. NumbersOK(nums, low, low, high, high + after)
      <3>1. high + after \in Nat /\ high \in 0 .. high + after /\ low \in 1 .. high + after + 1 /\ low \in Nat
        BY <1>4, <2>2
      <3> QED
        BY <3>1, SynopsisNumbersOK
    <2> HIDE DEF nums
    <2>4. nums \in Seq(Nat) /\ nums # <<>> /\ nums[1] = low /\ \A i \in 1 .. Len(nums) : nums[i] \in 1 .. high
      BY <1>4, <2>2, <2>3 DEF NumbersOK
    <2>5. \A i \in 1 .. Len(nums) : line[nums[i]] \in Items
      BY <1>4, <2>4 DEF high
    <2>6. s \in Seq(Items) /\ s[1] = line[low]
      BY <2>1, <2>4, <2>5
    <2>7. Number(line[low]) = low /\ low \in Nat \ {0}
      BY <1>1, <1>4, <2>2, PathPrefix DEF line
    <2>8. reference # Genesis => Number(reference) = high
      BY <1>4
    <2> QED
      BY <1>4, <2>2, <2>6, <2>7, <2>8
  <1> QED
    BY <1>5, <1>6

(* The synopsis for a peer ends in the last id of its list. *)
SynopsisOK(s, ids) == s \in Seq(Items) /\ (ids # <<>> => s # <<>> /\ Last(s) = Last(ids))

LEMMA PeerSynopsis == ASSUME NEW pr, NEW cl, cl.head \in Blocks,
                             pr.ids_of_items_to_get \in Seq(Items), pr.last_block_delegate_has_seen \in Blocks,
                             ~SynopsisFails(pr, cl),
                             NEW s, s = CreateSynopsisForPeer(pr, cl.head), s # None
                      PROVE  SynopsisOK(s, pr.ids_of_items_to_get)
  <1> DEFINE ids == pr.ids_of_items_to_get
             own == GetBlockchainSynopsis(cl.head, pr.last_block_delegate_has_seen, Len(ids))
             low == IF own = <<>> THEN 1 ELSE Number(own[1])
             first == Number(ids[1])
             last == LastNumber(ids)
             nums == SynopsisNumbers(low, first, last, last)
             r == [i \in DOMAIN nums |-> ids[nums[i] - first + 1]]
  <1>1. s = IF own = None \/ ids = <<>> THEN own ELSE own \o r
    BY Zenon DEF CreateSynopsisForPeer
  <1>2. own = <<>> \/ Number(own[1]) <= last \/ ids = <<>> \/ own = None \/ ~ (Number(own[1]) > last)
    BY Zenon DEF SynopsisFails
  <1>3. own # None
    BY <1>1
  <1>4. Len(ids) \in Nat
    BY NotEmpty
  <1>5. own \in Seq(Items) /\ (own # <<>> => Number(own[1]) \in Nat \ {0})
    BY <1>3, <1>4, OwnSynopsis
  <1>6. CASE ids = <<>>
    BY <1>1, <1>5, <1>6 DEF SynopsisOK
  <1>7. CASE ids # <<>>
    <2>1. Len(ids) \in Nat \ {0} /\ ids[1] \in Items /\ ids \in Seq(Items)
      BY <1>7, NotEmpty
    <2>2. first \in Nat \ {0}
      BY <2>1, PathEnd
    <2>3. last = first + Len(ids) - 1
      BY DEF LastNumber
    <2> HIDE DEF ids, own
    <2>4. s = own \o r
      BY <1>1, <1>3, <1>7
    <2> HIDE DEF first, last
    <2>5. last \in Nat /\ first <= last /\ first \in Nat
      BY <2>1, <2>2, <2>3
    <2>6. low \in 1 .. last
      <3>1. CASE own = <<>>
        BY <2>2, <2>5, <3>1
      <3>2. CASE own # <<>>
        BY <1>2, <1>3, <1>5, <1>7, <2>5, <3>2
      <3> QED
        BY <3>1, <3>2
    <2> HIDE DEF low
    <2>7. NumbersOK(nums, low, first, last, last)
      <3>1. last \in 0 .. last /\ low \in 1 .. last + 1
        BY <2>5, <2>6
      <3> QED
        BY <2>5, <3>1, SynopsisNumbersOK
    <2> HIDE DEF nums
    <2>8. /\ nums \in Seq(Nat) /\ nums # <<>> /\ nums[Len(nums)] = last
          /\ \A i \in 1 .. Len(nums) : nums[i] >= first /\ nums[i] <= last
      BY <2>5, <2>6, <2>7 DEF NumbersOK
    <2>9. Len(nums) \in Nat \ {0} /\ DOMAIN nums = 1 .. Len(nums)
      BY <2>8, NotEmpty
    <2>10. ASSUME NEW i \in 1 .. Len(nums) PROVE ids[nums[i] - first + 1] \in Items
      <3>1. nums[i] \in Nat /\ nums[i] >= first /\ nums[i] <= last
        BY <2>8, <2>9
      <3>2. nums[i] - first + 1 \in 1 .. Len(ids)
        BY <2>1, <2>3, <2>5, <3>1
      <3> QED
        BY <2>1, <3>2
    <2>11. r \in Seq(Items) /\ Len(r) = Len(nums) /\ r[Len(nums)] = ids[last - first + 1]
      <3>1. r \in [1 .. Len(nums) -> Items]
        BY <2>9, <2>10
      <3>2. r[Len(nums)] = ids[last - first + 1]
        BY <2>8, <2>9
      <3> HIDE DEF r
      <3> QED
        BY <2>9, <3>1, <3>2, FunctionSeq
    <2> HIDE DEF r
    <2>12. last - first + 1 = Len(ids)
      BY <2>1, <2>3, <2>5
    <2>13. s \in Seq(Items) /\ Len(s) = Len(own) + Len(nums) /\ s[Len(own) + Len(nums)] = r[Len(nums)]
      <3>1. Len(nums) \in 1 .. Len(r)
        BY <2>9, <2>11
      <3>2. own \in Seq(Items) /\ r \in Seq(Items)
        BY <1>5, <2>11
      <3>3. own \o r \in Seq(Items) /\ Len(own \o r) = Len(own) + Len(r)
        BY <3>2, ConcatIs
      <3>4. \A i \in 1 .. Len(r) : (own \o r)[Len(own) + i] = r[i]
        BY <3>2
      <3> QED
        BY <2>4, <2>11, <3>1, <3>3, <3>4
    <2>14. s # <<>> /\ Last(s) = Last(ids)
      <3>1. Len(s) # 0
        BY <1>5, <2>9, <2>13
      <3> QED
        BY <2>11, <2>12, <2>13, <3>1 DEF Last
    <2> QED
      BY <2>13, <2>14 DEF SynopsisOK, ids
  <1> QED
    BY <1>6, <1>7

(* A reply is a line of blocks of the peer's chain.  If the last block of  *)
(* the synopsis is on that chain, the reply starts with it.                *)
ReplyOK(r, s, head) ==
  /\ r.ids \in Seq(Items) /\ Line(r.ids) /\ r.remaining \in Nat
  /\ \A i \in 1 .. Len(r.ids) : OnChain(r.ids[i], head)
  /\ r.ids # <<>> /\ s # <<>> /\ OnChain(Last(s), head) => r.ids[1] = Last(s)

LEMMA PathPart == ASSUME NEW head \in Blocks, NEW a \in Nat \ {0}, NEW n \in Nat, n <= Number(head) + 1 - a, NEW t,
                         t \in Seq(Items), Len(t) = n, \A i \in 1 .. n : t[i] = Path[head][a + i - 1]
                  PROVE  Line(t) /\ \A i \in 1 .. n : OnChain(t[i], head)
  <1>1. Number(head) \in Nat
    BY NumberNat
  <1>2. ASSUME NEW i \in 1 .. n PROVE OnChain(t[i], head)
    <2>1. a + i - 1 \in 1 .. Number(head)
      BY <1>1
    <2> QED
      BY <2>1, OnChainPath
  <1>3. ASSUME NEW i \in 1 .. Len(t) - 1 PROVE Parent[t[i + 1]] = t[i]
    <2>1. a + i - 1 \in 1 .. Number(head) - 1 /\ i \in 1 .. n /\ i + 1 \in 1 .. n
      BY <1>1
    <2>2. Parent[Path[head][(a + i - 1) + 1]] = Path[head][a + i - 1]
      BY <2>1, PathLine
    <2>3. (a + i - 1) + 1 = a + (i + 1) - 1
      BY <2>1
    <2> QED
      BY <2>1, <2>2, <2>3
  <1> QED
    BY <1>2, <1>3 DEF Line

LEMMA Reply == ASSUME NEW s \in Seq(Items), NEW head \in Blocks
               PROVE  ReplyOK(GetBlockIds(s, head), s, head)
  <1> DEFINE known == {i \in DOMAIN s : OnChain(s[i], head)}
             start == IF s = <<>> THEN 1 ELSE Number(s[Max(known)])
             all == SubSeq(Path[head], start, Number(head))
             n == IF Len(all) < Limit THEN Len(all) ELSE Limit
             r == [ids |-> SubSeq(all, 1, n), remaining |-> IF Len(all) > Limit THEN Len(all) - Limit ELSE 0]
  <1>1. GetBlockIds(s, head) = IF s # <<>> /\ known = {} THEN [ids |-> <<>>, remaining |-> 0] ELSE r
    BY Zenon DEF GetBlockIds
  <1>2. CASE s # <<>> /\ known = {}
    BY <1>1, <1>2 DEF ReplyOK, Line
  <1>3. CASE ~ (s # <<>> /\ known = {})
    <2>1. known \subseteq 1 .. Len(s) /\ Len(s) \in Nat
      OBVIOUS
    <2>2. s # <<>> => Max(known) \in known /\ \A y \in known : Max(known) >= y
      BY <1>3, <2>1, MaxIn
    <2>3. /\ start \in Nat \ {0}
          /\ s # <<>> => start \in 1 .. Number(head) /\ Path[head][start] = s[Max(known)]
      <3>1. CASE s = <<>>
        BY <3>1
      <3>2. CASE s # <<>>
        <4>1. s[Max(known)] \in Items /\ OnChain(s[Max(known)], head)
          BY <2>1, <2>2, <3>2
        <4>2. Number(s[Max(known)]) \in 1 .. Number(head) /\ Path[head][Number(s[Max(known)])] = s[Max(known)]
          BY <4>1, OnChainAt
        <4> QED
          BY <3>2, <4>2, NumberNat
      <3> QED
        BY <3>1, <3>2
    <2>4. s # <<>> /\ OnChain(Last(s), head) => s[Max(known)] = Last(s)
      <3> SUFFICES ASSUME s # <<>>, OnChain(Last(s), head) PROVE s[Max(known)] = Last(s)
        OBVIOUS
      <3>1. Len(s) \in known
        BY NotEmpty DEF Last
      <3>2. Max(known) >= Len(s) /\ Max(known) \in 1 .. Len(s)
        BY <2>1, <2>2, <3>1
      <3>3. Max(known) = Len(s)
        <4> HIDE DEF known
        <4> QED
          BY <2>1, <3>2
      <3> QED
        BY <3>3 DEF Last
    <2> HIDE DEF start
    <2>5. Number(head) \in Nat /\ Path[head] \in Seq(Items) /\ Len(Path[head]) = Number(head) /\ Limit \in Nat
      BY NumberNat, LimitsAssumption DEF Number
    <2>6. /\ all \in Seq(Items)
          /\ Len(all) = IF start <= Number(head) THEN Number(head) - start + 1 ELSE 0
          /\ \A i \in 1 .. Len(all) : all[i] = Path[head][start + i - 1]
      <3>1. Number(head) <= Len(Path[head])
        BY <2>5
      <3> QED
        BY <2>3, <2>5, <3>1, SubSeqIs
    <2> HIDE DEF all
    <2>7. n \in Nat /\ n <= Len(all) /\ n <= Limit
      BY <2>5, <2>6
    <2> DEFINE t == SubSeq(all, 1, n)
    <2> HIDE DEF n
    <2>8. t \in Seq(Items) /\ Len(t) = n /\ \A i \in 1 .. n : t[i] = all[i]
      <3>1. /\ t \in Seq(Items)
            /\ Len(t) = IF 1 <= n THEN n - 1 + 1 ELSE 0
            /\ \A i \in 1 .. Len(t) : t[i] = all[1 + i - 1]
        BY <2>6, <2>7, SubSeqIs
      <3>2. Len(t) = n
        BY <2>7, <3>1
      <3>3. \A i \in 1 .. n : 1 + i - 1 = i
        BY <2>7
      <3> QED
        BY <3>1, <3>2, <3>3
    <2> HIDE DEF t
    <2>9. \A i \in 1 .. n : t[i] = Path[head][start + i - 1]
      BY <2>6, <2>7, <2>8
    <2>10. n <= Number(head) + 1 - start \/ n = 0
      BY <2>3, <2>5, <2>6, <2>7
    <2>11. Line(t) /\ \A i \in 1 .. n : OnChain(t[i], head)
      <3>1. CASE n = 0
        BY <2>8, <3>1 DEF Line
      <3>2. CASE n # 0
        BY <2>3, <2>7, <2>8, <2>9, <2>10, <3>2, PathPart
      <3> QED
        BY <3>1, <3>2
    <2>12. t # <<>> => t[1] = Path[head][start]
      <3> SUFFICES ASSUME t # <<>> PROVE t[1] = Path[head][start]
        OBVIOUS
      <3>1. 1 \in 1 .. n
        BY <2>8, NotEmpty
      <3>2. start + 1 - 1 = start
        BY <2>3
      <3> QED
        BY <2>9, <3>1, <3>2
    <2>13. (IF Len(all) > Limit THEN Len(all) - Limit ELSE 0) \in Nat
      BY <2>5, <2>6
    <2>14. GetBlockIds(s, head).ids = t /\ GetBlockIds(s, head).remaining \in Nat
      <3>1. r.ids = t /\ r.remaining \in Nat
        BY <2>13 DEF t
      <3> HIDE DEF r, known
      <3>2. GetBlockIds(s, head) = r
        BY <1>1, <1>3
      <3> QED
        BY <3>1, <3>2
    <2>15. t # <<>> /\ s # <<>> /\ OnChain(Last(s), head) => t[1] = Last(s)
      BY <2>3, <2>4, <2>12
    <2> HIDE DEF r
    <2> QED
      BY <2>8, <2>11, <2>14, <2>15 DEF ReplyOK
  <1> QED
    BY <1>2, <1>3

-----------------------------------------------------------------------------
(* One connection *)

PeerType ==
  [list : {"none", "active", "closing", "terminating"},
   ids_of_items_to_get : Seq(Items), ids_of_items_being_processed : SUBSET Blocks,
   item_ids_requested : {None} \cup Seq(Items), sync_items_requested : SUBSET Blocks,
   number_of_unfetched_item_ids : Nat, we_need : BOOLEAN, peer_needs : BOOLEAN,
   inhibit : BOOLEAN, last_block_delegate_has_seen : Blocks]

(* The list is a line.  A request that is under way ends in the last id of *)
(* the list, if anything is left of it.  If the peer stays on its branch,  *)
(* with the head h, this id is on its chain; and the reference point is    *)
(* one of the known blocks.  Nothing is asked of a peer without connection. *)
PeerOK(pr, p, h, known) ==
  /\ pr \in PeerType
  /\ pr.list = "none" => pr.sync_items_requested = {}
  /\ Line(pr.ids_of_items_to_get)
  /\ pr.item_ids_requested # None => SynopsisOK(pr.item_ids_requested, pr.ids_of_items_to_get)
  /\ Steady(p) => /\ pr.last_block_delegate_has_seen \in known
                  /\ pr.ids_of_items_to_get # <<>> => OnChain(Last(pr.ids_of_items_to_get), h)

ClientOK(cl) == cl \in [known : SUBSET Blocks, head : Blocks] /\ cl.head \in cl.known /\ Genesis \in cl.known

LEMMA LineEmpty == Line(<<>>)
  BY DEF Line

LEMMA NewPeerOK == ASSUME NEW p, NEW h, NEW known, Genesis \in known
                   PROVE  PeerOK(NewPeer, p, h, known) /\ NewPeer.sync_items_requested = {}
  BY LineEmpty, GenesisNumber DEF PeerOK, NewPeer, PeerType

(* What the operations on the list of connections do to a connection. *)
LEMMA ListOK == ASSUME NEW pr, NEW p, NEW h, NEW known, PeerOK(pr, p, h, known),
                       NEW l \in {"active", "closing", "terminating"},
                       NEW new, new = [pr EXCEPT !.list = l]
                PROVE  PeerOK(new, p, h, known) /\ new.sync_items_requested = pr.sync_items_requested
  <1>1. new \in PeerType
    BY DEF PeerOK, PeerType
  <1>2. /\ new.ids_of_items_to_get = pr.ids_of_items_to_get
        /\ new.item_ids_requested = pr.item_ids_requested
        /\ new.sync_items_requested = pr.sync_items_requested
        /\ new.last_block_delegate_has_seen = pr.last_block_delegate_has_seen
        /\ new.list # "none"
    BY DEF PeerOK, PeerType
  <1> QED
    BY <1>1, <1>2 DEF PeerOK

LEMMA ActivePeerOK == ASSUME NEW p, NEW h, NEW known, Genesis \in known
                      PROVE  /\ PeerOK([NewPeer EXCEPT !.list = "active"], p, h, known)
                             /\ [NewPeer EXCEPT !.list = "active"].sync_items_requested = {}
  <1>1. PeerOK(NewPeer, p, h, known) /\ NewPeer.sync_items_requested = {}
    BY NewPeerOK
  <1> QED
    BY <1>1, ListOK

LEMMA DisconnectOK == ASSUME NEW pr, NEW p, NEW h, NEW known, PeerOK(pr, p, h, known)
                      PROVE  /\ PeerOK(disconnect_from_peer(pr), p, h, known)
                             /\ disconnect_from_peer(pr).sync_items_requested = pr.sync_items_requested
  BY ListOK DEF disconnect_from_peer

LEMMA FetchNextOK ==
  ASSUME NEW pr, NEW p, NEW h, NEW known, PeerOK(pr, p, h, known), NEW cl, ClientOK(cl),
         NEW new, new = fetch_next_batch_of_item_ids_from_peer(pr, cl)
  PROVE  PeerOK(new, p, h, known) /\ new.sync_items_requested = pr.sync_items_requested
  <1> DEFINE s == CreateSynopsisForPeer(pr, cl.head)
  <1>1. new = IF pr.item_ids_requested # None \/ SynopsisFails(pr, cl) THEN pr
              ELSE IF s = None THEN disconnect_from_peer(pr)
              ELSE [pr EXCEPT !.item_ids_requested = s]
    BY Zenon DEF fetch_next_batch_of_item_ids_from_peer
  <1> HIDE DEF s
  <1>2. CASE pr.item_ids_requested # None \/ SynopsisFails(pr, cl)
    BY <1>1, <1>2
  <1>3. CASE ~ (pr.item_ids_requested # None \/ SynopsisFails(pr, cl)) /\ s = None
    <2>1. new = disconnect_from_peer(pr)
      BY <1>1, <1>3, Zenon
    <2> QED
      BY <2>1, DisconnectOK
  <1>4. CASE ~ (pr.item_ids_requested # None \/ SynopsisFails(pr, cl)) /\ s # None
    <2>1. new = [pr EXCEPT !.item_ids_requested = s]
      BY <1>1, <1>4, Zenon
    <2>2. pr \in PeerType
      BY DEF PeerOK
    <2>3. pr.ids_of_items_to_get \in Seq(Items) /\ pr.last_block_delegate_has_seen \in Blocks
      BY <2>2 DEF PeerType
    <2>4. SynopsisOK(s, pr.ids_of_items_to_get)
      <3>1. cl.head \in Blocks
        BY DEF ClientOK
      <3> QED
        BY <1>4, <2>3, <3>1, PeerSynopsis DEF s
    <2>5. s \in Seq(Items)
      BY <2>4 DEF SynopsisOK
    <2>6. /\ new \in PeerType
          /\ new.ids_of_items_to_get = pr.ids_of_items_to_get
          /\ new.item_ids_requested = s /\ new.list = pr.list
          /\ new.sync_items_requested = pr.sync_items_requested
          /\ new.last_block_delegate_has_seen = pr.last_block_delegate_has_seen
      BY <2>1, <2>2, <2>5 DEF PeerType
    <2> QED
      BY <2>4, <2>6 DEF PeerOK
  <1> QED
    BY <1>2, <1>3, <1>4

LEMMA StartOK ==
  ASSUME NEW pr \in PeerType, pr.list # "none", NEW p, NEW h, NEW known, Genesis \in known, NEW cl, ClientOK(cl),
         NEW new, new = start_synchronizing_with_peer(pr, cl)
  PROVE  PeerOK(new, p, h, known) /\ new.sync_items_requested = pr.sync_items_requested
  <1> DEFINE r == [pr EXCEPT !.ids_of_items_to_get = <<>>, !.number_of_unfetched_item_ids = 0,
                             !.we_need = TRUE, !.last_block_delegate_has_seen = Genesis, !.inhibit = FALSE]
  <1>1. new = fetch_next_batch_of_item_ids_from_peer(r, cl)
    BY DEF start_synchronizing_with_peer
  <1>2. r \in PeerType /\ r.list = pr.list /\ r.ids_of_items_to_get = <<>> /\ r.last_block_delegate_has_seen = Genesis
        /\ r.item_ids_requested = pr.item_ids_requested /\ r.sync_items_requested = pr.sync_items_requested
    <2>1. PICK c : c = [pr EXCEPT !.ids_of_items_to_get = <<>>]
      OBVIOUS
    <2>2. PICK a : a = [c EXCEPT !.number_of_unfetched_item_ids = 0]
      OBVIOUS
    <2>c. c \in PeerType /\ c.list = pr.list /\ c.ids_of_items_to_get = <<>>
          /\ c.item_ids_requested = pr.item_ids_requested /\ c.sync_items_requested = pr.sync_items_requested
      <3>1. <<>> \in Seq(Items)
        OBVIOUS
      <3> QED
        BY <2>1, <3>1 DEF PeerType
    <2>a. a \in PeerType /\ a.list = pr.list /\ a.ids_of_items_to_get = <<>>
          /\ a.item_ids_requested = pr.item_ids_requested /\ a.sync_items_requested = pr.sync_items_requested
      BY <2>2, <2>c DEF PeerType
    <2>3. PICK b : b = [a EXCEPT !.we_need = TRUE, !.inhibit = FALSE]
      OBVIOUS
    <2>4. b \in PeerType /\ b.list = pr.list /\ b.ids_of_items_to_get = <<>>
          /\ b.item_ids_requested = pr.item_ids_requested /\ b.sync_items_requested = pr.sync_items_requested
      BY <2>a, <2>3 DEF PeerType
    <2>5. r = [b EXCEPT !.last_block_delegate_has_seen = Genesis]
      BY <2>1, <2>2, <2>3 DEF PeerType
    <2> HIDE DEF r
    <2> QED
      BY <2>4, <2>5, GenesisNumber DEF PeerType
  <1> HIDE DEF r
  <1>3. r.item_ids_requested # None => SynopsisOK(r.item_ids_requested, <<>>)
    BY <1>2 DEF PeerType, SynopsisOK
  <1>4. PeerOK(r, p, h, known)
    BY <1>2, <1>3, LineEmpty DEF PeerOK
  <1> QED
    BY <1>1, <1>2, <1>4, FetchNextOK

(* More blocks become known. *)
LEMMA KnowMore == ASSUME NEW pr, NEW p, NEW h, NEW K, NEW L, K \subseteq L, PeerOK(pr, p, h, K)
                  PROVE  PeerOK(pr, p, h, L)
  BY DEF PeerOK

(* The requests for blocks change. *)
LEMMA ItemsOK == ASSUME NEW pr, NEW p, NEW h, NEW K, PeerOK(pr, p, h, K), NEW S \in SUBSET Blocks, pr.list # "none",
                        NEW new, new = [pr EXCEPT !.sync_items_requested = S]
                 PROVE  PeerOK(new, p, h, K) /\ new.sync_items_requested = S
                        /\ new.list = pr.list /\ new.ids_of_items_to_get = pr.ids_of_items_to_get
                        /\ new.item_ids_requested = pr.item_ids_requested
  <1>1. /\ new \in PeerType /\ new.sync_items_requested = S
        /\ new.ids_of_items_to_get = pr.ids_of_items_to_get
        /\ new.item_ids_requested = pr.item_ids_requested
        /\ new.last_block_delegate_has_seen = pr.last_block_delegate_has_seen
        /\ new.list = pr.list
    BY DEF PeerOK, PeerType
  <1> QED
    BY <1>1 DEF PeerOK

-----------------------------------------------------------------------------
(* The reply to a synopsis *)

LEMMA FreshOK == ASSUME NEW p, NEW ids \in Seq(Items), NEW f, f = FirstFresh(p, ids), ids # <<>>
                 PROVE  f \in 1 .. Len(ids) + 1 /\ (f # 1 => ids[f - 1] \in client.known)
  <1> DEFINE n == Len(ids)
             Q(i) == /\ \A j \in 1 .. i - 1 : ids[j] \in client.known
                     /\ i = n + 1 \/ ids[i] \notin client.known
             T == {i \in 1 .. n + 1 : i = n + 1 \/ ids[i] \notin client.known}
  <1>1. n \in Nat
    OBVIOUS
  <1>2. n + 1 \in T /\ T \subseteq 1 .. n + 1 /\ T \subseteq Nat
    BY <1>1
  <1>3. Min(T) \in T /\ \A y \in T : Min(T) <= y
    <2> HIDE DEF T
    <2> QED
      BY <1>2, MinIn
  <1>4. \E i \in 1 .. n + 1 : Q(i)
    <2>1. PICK m : m = Min(T)
      OBVIOUS
    <2>2. m \in 1 .. n + 1 /\ (m = n + 1 \/ ids[m] \notin client.known)
      BY <1>3, <2>1
    <2>3. ASSUME NEW j \in 1 .. m - 1 PROVE ids[j] \in client.known
      <3>1. j \in 1 .. n + 1 /\ j # n + 1 /\ ~ (m <= j)
        BY <1>1, <2>2
      <3> QED
        BY <1>3, <2>1, <3>1
    <2> QED
      BY <2>2, <2>3
  <1>5. f = IF \E q \in Active \ {p} : FrontIs(q, ids[1]) THEN 1 ELSE CHOOSE i \in 1 .. n + 1 : Q(i)
    BY DEF FirstFresh
  <1>6. CASE \E q \in Active \ {p} : FrontIs(q, ids[1])
    BY <1>1, <1>5, <1>6
  <1>7. CASE ~ \E q \in Active \ {p} : FrontIs(q, ids[1])
    <2>1. f = CHOOSE i \in 1 .. n + 1 : Q(i)
      BY <1>5, <1>7
    <2>2. f \in 1 .. n + 1 /\ Q(f)
      <3> HIDE DEF Q
      <3> QED
        BY <1>4, <2>1
    <2>3. f # 1 => f - 1 \in 1 .. f - 1
      BY <1>1, <2>2
    <2> QED
      BY <2>2, <2>3
  <1> QED
    BY <1>6, <1>7

(* A part of a line at its end is a line. *)
LEMMA LineEnd == ASSUME NEW s \in Seq(Items), Line(s), NEW a \in 1 .. Len(s) + 1, NEW t, t = SubSeq(s, a, Len(s))
                 PROVE  /\ t \in Seq(Items) /\ Line(t)
                        /\ t # <<>> => s # <<>> /\ Last(t) = Last(s)
  <1>1. Len(s) \in Nat /\ a \in Nat \ {0} /\ Len(s) <= Len(s)
    OBVIOUS
  <1>2. /\ t \in Seq(Items) /\ Len(t) = IF a <= Len(s) THEN Len(s) - a + 1 ELSE 0
        /\ \A i \in 1 .. Len(t) : t[i] = s[a + i - 1]
    BY <1>1, SubSeqIs
  <1>3. ASSUME NEW i \in 1 .. Len(t) - 1 PROVE Parent[t[i + 1]] = t[i]
    <2>1. a <= Len(s) /\ Len(t) = Len(s) - a + 1
      BY <1>1, <1>2
    <2>2. a + i - 1 \in 1 .. Len(s) - 1 /\ i \in 1 .. Len(t) /\ i + 1 \in 1 .. Len(t)
      BY <1>1, <2>1
    <2>3. Parent[s[(a + i - 1) + 1]] = s[a + i - 1]
      BY <2>2 DEF Line
    <2>4. (a + i - 1) + 1 = a + (i + 1) - 1
      BY <1>1, <2>2
    <2> QED
      BY <1>2, <2>2, <2>3, <2>4
  <1>4. ASSUME t # <<>> PROVE s # <<>> /\ Last(t) = Last(s)
    <2>1. Len(t) \in 1 .. Len(t) /\ Len(t) # 0
      BY <1>2, <1>4, NotEmpty
    <2>2. a + Len(t) - 1 = Len(s) /\ Len(s) # 0
      BY <1>1, <1>2, <2>1
    <2> QED
      BY <1>2, <2>1, <2>2 DEF Last
  <1> QED
    BY <1>2, <1>3, <1>4 DEF Line

LEMMA LineTail == ASSUME NEW s \in Seq(Items), Line(s), s # <<>>
                  PROVE  /\ Tail(s) \in Seq(Items) /\ Line(Tail(s))
                         /\ Tail(s) # <<>> => Last(Tail(s)) = Last(s)
  <1>1. Len(s) \in Nat \ {0} /\ 2 \in 1 .. Len(s) + 1
    BY NotEmpty
  <1>2. Tail(s) = SubSeq(s, 2, Len(s))
    <2>1. /\ Tail(s) \in Seq(Items) /\ Len(Tail(s)) = Len(s) - 1
          /\ \A i \in 1 .. Len(s) - 1 : Tail(s)[i] = s[i + 1]
      OBVIOUS
    <2>2. /\ SubSeq(s, 2, Len(s)) \in Seq(Items)
          /\ Len(SubSeq(s, 2, Len(s))) = Len(s) - 1
          /\ \A i \in 1 .. Len(s) - 1 : SubSeq(s, 2, Len(s))[i] = s[i + 1]
      <3>0. PICK w : w = SubSeq(s, 2, Len(s))
        OBVIOUS
      <3>1. w \in Seq(Items) /\ Len(w) = (IF 2 <= Len(s) THEN Len(s) - 2 + 1 ELSE 0)
            /\ \A i \in 1 .. Len(w) : w[i] = s[2 + i - 1]
        BY <1>1, <3>0, SubSeqIs
      <3>2. Len(w) = Len(s) - 1
        <4>1. PICK n : n = Len(s)
          OBVIOUS
        <4>2. n \in Nat \ {0} /\ Len(w) = IF 2 <= n THEN n - 2 + 1 ELSE 0
          BY <1>1, <3>1, <4>1, Zenon
        <4>3. Len(w) = n - 1
          BY <4>2
        <4> QED
          BY <4>1, <4>3
      <3>3. \A i \in 1 .. Len(s) - 1 : 2 + i - 1 = i + 1
        BY <1>1
      <3>4. w \in Seq(Items) /\ Len(w) = Len(s) - 1 /\ \A i \in 1 .. Len(s) - 1 : w[i] = s[i + 1]
        BY <3>1, <3>2, <3>3
      <3> QED
        BY <3>0, <3>4
    <2> DEFINE t == SubSeq(s, 2, Len(s))
               u == Tail(s)
    <2> HIDE DEF t, u
    <2> QED
      BY <2>1, <2>2 DEF t, u
  <1> QED
    BY <1>1, <1>2, LineEnd

(* A list that is cut before its n-th id, which is the first of the rest. *)
Cut(s, n, t) == SubSeq(s, 1, n - 1) \o t

LEMMA LineJoin == ASSUME NEW s \in Seq(Items), Line(s), NEW t \in Seq(Items), Line(t), t # <<>>,
                         NEW n \in 1 .. Len(s), s[n] = t[1]
                  PROVE  LET u == Cut(s, n, t) IN u \in Seq(Items) /\ Line(u) /\ Last(u) = Last(t) /\ u # <<>>
  <1> DEFINE u == Cut(s, n, t)
  <1> DEFINE a == SubSeq(s, 1, n - 1)
  <1>1. Len(s) \in Nat /\ n - 1 \in Nat /\ n - 1 <= Len(s) /\ Len(t) \in Nat \ {0}
    BY NotEmpty
  <1>2. a \in Seq(Items) /\ Len(a) = n - 1 /\ \A i \in 1 .. n - 1 : a[i] = s[i]
    <2>1. /\ a \in Seq(Items) /\ Len(a) = IF 1 <= n - 1 THEN n - 1 - 1 + 1 ELSE 0
          /\ \A i \in 1 .. Len(a) : a[i] = s[1 + i - 1]
      BY <1>1, SubSeqIs
    <2>2. Len(a) = n - 1 /\ \A i \in 1 .. n - 1 : 1 + i - 1 = i
      BY <1>1, <2>1
    <2> QED
      BY <2>1, <2>2
  <1> HIDE DEF a
  <1>3. u = a \o t
    BY DEF a, Cut
  <1> HIDE DEF u
  <1>4. /\ u \in Seq(Items) /\ Len(u) = (n - 1) + Len(t)
        /\ \A i \in 1 .. n - 1 : u[i] = s[i]
        /\ \A i \in 1 .. Len(t) : u[(n - 1) + i] = t[i]
    <2>1. u \in Seq(Items) /\ Len(u) = Len(a) + Len(t)
      BY <1>2, <1>3, ConcatIs
    <2>2. \A i \in 1 .. Len(a) : (a \o t)[i] = a[i]
      BY <1>2
    <2>3. \A i \in 1 .. Len(t) : (a \o t)[Len(a) + i] = t[i]
      BY <1>2
    <2> QED
      BY <1>2, <1>3, <2>1, <2>2, <2>3
  <1> HIDE DEF a
  <1>5. ASSUME NEW i \in 1 .. Len(u) - 1 PROVE Parent[u[i + 1]] = u[i]
    <2>1. i \in Nat \ {0} /\ i <= (n - 1) + Len(t) - 1
      BY <1>1, <1>4
    <2>2. CASE i < n - 1
      <3>1. i \in 1 .. n - 1 /\ i + 1 \in 1 .. n - 1 /\ i \in 1 .. Len(s) - 1
        BY <1>1, <2>1, <2>2
      <3> QED
        BY <1>4, <3>1 DEF Line
    <2>3. CASE i = n - 1
      <3>1. i \in 1 .. n - 1 /\ i \in 1 .. Len(s) - 1 /\ i + 1 = n /\ 1 \in 1 .. Len(t)
        BY <1>1, <2>1, <2>3
      <3>2. u[i] = s[i] /\ Parent[s[n]] = s[i]
        BY <1>4, <3>1 DEF Line
      <3>3. u[i + 1] = t[1]
        BY <1>4, <2>3, <3>1
      <3> QED
        BY <3>2, <3>3
    <2>4. CASE i > n - 1
      <3>1. PICK j \in 1 .. Len(t) - 1 : i = (n - 1) + j
        <4>1. i - (n - 1) \in 1 .. Len(t) - 1 /\ i = (n - 1) + (i - (n - 1))
          BY <1>1, <2>1, <2>4
        <4> QED
          BY <4>1
      <3>2. j \in 1 .. Len(t) /\ j + 1 \in 1 .. Len(t) /\ i + 1 = (n - 1) + (j + 1)
        BY <1>1, <3>1
      <3>3. u[i] = t[j] /\ u[i + 1] = t[j + 1] /\ Parent[t[j + 1]] = t[j]
        BY <1>4, <3>1, <3>2 DEF Line
      <3> QED
        BY <3>3
    <2> QED
      BY <1>1, <2>1, <2>2, <2>3, <2>4
  <1>6. u # <<>> /\ Last(u) = Last(t)
    <2>1. Len(u) # 0 /\ Len(t) \in 1 .. Len(t)
      BY <1>1, <1>4
    <2> QED
      BY <1>4, <2>1 DEF Last
  <1> QED
    BY <1>4, <1>5, <1>6 DEF Line, u

(* A connection gets a new list and a new reference point, and the request is done. *)
Relisted(pr, L, x) == [pr EXCEPT !.ids_of_items_to_get = L, !.last_block_delegate_has_seen = x]

Listed(pr, L, x, r) ==
  [Relisted(pr, L, x) EXCEPT !.item_ids_requested = None, !.number_of_unfetched_item_ids = r]

LEMMA NewListOK ==
  ASSUME NEW pr \in PeerType, pr.list # "none", NEW L \in Seq(Items), Line(L), NEW x \in Blocks, NEW r \in Nat,
         NEW p, NEW h, NEW known, Steady(p) => x \in known /\ (L # <<>> => OnChain(Last(L), h))
  PROVE  /\ PeerOK(Listed(pr, L, x, r), p, h, known)
         /\ Listed(pr, L, x, r).sync_items_requested = pr.sync_items_requested
  <1> DEFINE a == [pr EXCEPT !.ids_of_items_to_get = L, !.last_block_delegate_has_seen = x]
             new == [a EXCEPT !.item_ids_requested = None, !.number_of_unfetched_item_ids = r]
  <1>1. a \in PeerType /\ a.list = pr.list /\ a.ids_of_items_to_get = L /\ a.last_block_delegate_has_seen = x
        /\ a.sync_items_requested = pr.sync_items_requested
    BY DEF PeerType
  <1> HIDE DEF a
  <1>2. new \in PeerType /\ new.list = pr.list /\ new.ids_of_items_to_get = L /\ new.last_block_delegate_has_seen = x
        /\ new.sync_items_requested = pr.sync_items_requested /\ new.item_ids_requested = None
    BY <1>1 DEF PeerType
  <1>3. Listed(pr, L, x, r) = new
    BY DEF Listed, Relisted, a
  <1> HIDE DEF new
  <1> QED
    BY <1>2, <1>3 DEF PeerOK

(* The list after a reply.  It is joined to the old one at the id that     *)
(* both have; a peer that stays on its branch starts its reply with the    *)
(* last id of the old list.                                                *)
GoodList(L, x, p, h, known) ==
  /\ L \in Seq(Items) /\ Line(L) /\ x \in Blocks
  /\ Steady(p) => x \in known /\ (L # <<>> => OnChain(Last(L), h))

LEMMA NewListsOK ==
  ASSUME NEW p, NEW pr, pr = peer[p], NEW h \in Blocks, PeerOK(pr, p, h, client.known), ClientOK(client),
         pr.item_ids_requested # None, NEW reply, ReplyOK(reply, pr.item_ids_requested, h)
  PROVE  \E L, x : /\ GoodList(L, x, p, h, client.known)
                   /\ NewLists(p, reply.ids) = Relisted(pr, L, x)
  <1> DEFINE ids == reply.ids
             old == pr.ids_of_items_to_get
             fresh == FirstFresh(p, ids)
             common == {i \in DOMAIN old : old[i] = ids[1]}
             a == NewLists(p, ids)
             seen == pr.last_block_delegate_has_seen
             s == pr.item_ids_requested
  <1>1. a = CASE ids = <<>> -> pr
              [] ids # <<>> /\ old = <<>> ->
                   [pr EXCEPT !.ids_of_items_to_get = SubSeq(ids, fresh, Len(ids)),
                              !.last_block_delegate_has_seen = IF fresh = 1 THEN @ ELSE ids[fresh - 1]]
              [] ids # <<>> /\ old # <<>> /\ common = {} ->
                   [pr EXCEPT !.ids_of_items_to_get = Tail(ids), !.last_block_delegate_has_seen = ids[1]]
              [] ids # <<>> /\ old # <<>> /\ common # {} ->
                   [pr EXCEPT !.ids_of_items_to_get = SubSeq(old, 1, Max(common) - 1) \o ids]
    BY Zenon DEF NewLists
  <1>2. pr \in PeerType /\ old \in Seq(Items) /\ Line(old) /\ seen \in Blocks
    BY DEF PeerOK, PeerType
  <1>3. /\ Steady(p) => seen \in client.known /\ (old # <<>> => OnChain(Last(old), h))
        /\ SynopsisOK(s, old)
    BY DEF PeerOK
  <1>4. /\ ids \in Seq(Items) /\ Line(ids) /\ reply.remaining \in Nat
        /\ \A i \in 1 .. Len(ids) : OnChain(ids[i], h)
        /\ ids # <<>> /\ s # <<>> /\ OnChain(Last(s), h) => ids[1] = Last(s)
    BY DEF ReplyOK
  <1>0. pr \in PeerType /\ old \in Seq(Items) /\ Line(old) /\ seen \in Blocks /\ reply.remaining \in Nat
    BY <1>2, <1>4
  <1>6. ids # <<>> => OnChain(Last(ids), h) /\ ids[1] \in Items
    <2> SUFFICES ASSUME ids # <<>> PROVE OnChain(Last(ids), h) /\ ids[1] \in Items
      OBVIOUS
    <2>1. Len(ids) \in 1 .. Len(ids) /\ 1 \in 1 .. Len(ids)
      BY <1>4, NotEmpty
    <2> QED
      BY <1>4, <2>1 DEF Last
  <1> DEFINE G(L, x) == GoodList(L, x, p, h, client.known)
             U(L, x) == [pr EXCEPT !.ids_of_items_to_get = L, !.last_block_delegate_has_seen = x]
  <1> SUFFICES \E L, x : G(L, x) /\ a = U(L, x)
    BY DEF Relisted
  <1> HIDE DEF ids, fresh, common, a, G
  <1>7. CASE ids = <<>>
    <2>1. a = pr
      BY <1>1, <1>7, Zenon
    <2>2. pr = [pr EXCEPT !.ids_of_items_to_get = old, !.last_block_delegate_has_seen = seen]
      BY <1>2 DEF PeerType
    <2> HIDE DEF old, seen
    <2> QED
      <3>1. G(old, seen)
        BY <1>0, <1>3 DEF G, GoodList
      <3>2. a = U(old, seen)
        BY <2>1, <2>2
      <3> QED
        BY <3>1, <3>2, Zenon
  <1>8. CASE ids # <<>> /\ old = <<>>
    <2> DEFINE L == SubSeq(ids, fresh, Len(ids))
               x == IF fresh = 1 THEN seen ELSE ids[fresh - 1]
    <2>1. a = [pr EXCEPT !.ids_of_items_to_get = SubSeq(ids, fresh, Len(ids)),
                         !.last_block_delegate_has_seen = IF fresh = 1 THEN @ ELSE ids[fresh - 1]]
      <3> HIDE DEF old
      <3> QED
        BY <1>1, <1>8, Zenon
    <2>2. a = [pr EXCEPT !.ids_of_items_to_get = L, !.last_block_delegate_has_seen = x]
      BY <1>2, <2>1 DEF PeerType
    <2>3. fresh \in 1 .. Len(ids) + 1 /\ (fresh # 1 => ids[fresh - 1] \in client.known)
      BY <1>4, <1>8, FreshOK DEF fresh
    <2>4. L \in Seq(Items) /\ Line(L) /\ (L # <<>> => Last(L) = Last(ids))
      BY <1>4, <2>3, LineEnd
    <2>5. x \in Blocks /\ (Steady(p) => x \in client.known)
      BY <1>2, <1>3, <2>3 DEF ClientOK
    <2> HIDE DEF L, x, old, seen
    <2>7. Steady(p) => x \in client.known /\ (L # <<>> => OnChain(Last(L), h))
      BY <1>6, <1>8, <2>4, <2>5
    <2> QED
      <3>1. G(L, x)
        BY <2>4, <2>5, <2>7 DEF G, GoodList
      <3>2. a = U(L, x)
        BY <2>2
      <3> QED
        BY <3>1, <3>2, Zenon
  <1>9. CASE ids # <<>> /\ old # <<>> /\ common = {}
    <2>1. a = [pr EXCEPT !.ids_of_items_to_get = Tail(ids), !.last_block_delegate_has_seen = ids[1]]
      <3> HIDE DEF old
      <3> QED
        BY <1>1, <1>9, Zenon
    <2>2. Tail(ids) \in Seq(Items) /\ Line(Tail(ids))
      BY <1>4, <1>9, LineTail
    <2>3. ~Steady(p)
      <3> SUFFICES ASSUME Steady(p) PROVE FALSE
        OBVIOUS
      <3>1. s # <<>> /\ Last(s) = Last(old) /\ OnChain(Last(old), h)
        BY <1>3, <1>9 DEF SynopsisOK
      <3>2. ids[1] = old[Len(old)]
        BY <1>4, <1>9, <3>1 DEF Last
      <3>3. Len(old) \in DOMAIN old
        BY <1>2, <1>9, NotEmpty
      <3> QED
        BY <1>9, <3>2, <3>3 DEF common
    <2>4. ids[1] \in Blocks
      BY <1>6, <1>9 DEF Items
    <2> QED
      <3>1. G(Tail(ids), ids[1])
        BY <2>2, <2>3, <2>4 DEF G, GoodList
      <3>2. a = U(Tail(ids), ids[1])
        BY <2>1
      <3> QED
        BY <3>1, <3>2, Zenon
  <1>10. CASE ids # <<>> /\ old # <<>> /\ common # {}
    <2> DEFINE L == SubSeq(old, 1, Max(common) - 1) \o ids
    <2>1. a = [pr EXCEPT !.ids_of_items_to_get = L]
      <3> HIDE DEF old
      <3> QED
        BY <1>1, <1>10, Zenon
    <2>2. a = [pr EXCEPT !.ids_of_items_to_get = L, !.last_block_delegate_has_seen = seen]
      <3> HIDE DEF L
      <3> QED
        BY <1>2, <2>1 DEF PeerType
    <2>3. Max(common) \in 1 .. Len(old) /\ old[Max(common)] = ids[1]
      <3>1. Len(old) \in Nat /\ common \subseteq 1 .. Len(old)
        BY <1>2 DEF common
      <3>2. Max(common) \in common
        BY <1>10, <3>1, MaxIn
      <3> QED
        BY <3>1, <3>2 DEF common
    <2> HIDE DEF old
    <2>4. L \in Seq(Items) /\ Line(L) /\ Last(L) = Last(ids)
      <3>1. L = Cut(old, Max(common), ids)
        BY DEF Cut
      <3> HIDE DEF L
      <3> QED
        BY <1>0, <1>4, <1>10, <2>3, <3>1, LineJoin
    <2> HIDE DEF L, seen
    <2>6. Steady(p) => seen \in client.known /\ (L # <<>> => OnChain(Last(L), h))
      BY <1>3, <1>6, <1>10, <2>4
    <2> QED
      <3>1. G(L, seen)
        BY <1>0, <2>4, <2>6 DEF G, GoodList
      <3>2. a = U(L, seen)
        BY <2>2
      <3> QED
        BY <3>1, <3>2, Zenon
  <1> QED
    BY <1>7, <1>8, <1>9, <1>10

-----------------------------------------------------------------------------
(* The invariant *)

(* The chain that the next reply of a peer is taken from: the one it had when it answered, if   *)
(* the reply is under way, and its chain now if it is not.                                      *)
Base(r) == IF r.answered = None THEN r.head ELSE r.answered

PeersOK(pe, rem, known) ==
  pe \in [Peers -> PeerType] /\ \A p \in Peers : PeerOK(pe[p], p, Base(rem[p]), known)

(* A block is asked of one peer, or is in one of the two stores, once. *)
FetchOK(pe, active, new, received) ==
  /\ \A p \in Peers : /\ pe[p].sync_items_requested \subseteq active
                      /\ Cardinality(pe[p].sync_items_requested) <= maximum_blocks_per_peer_during_syncing
  /\ \A p, q \in Peers : p # q => pe[p].sync_items_requested \cap pe[q].sync_items_requested = {}
  /\ active \in SUBSET Blocks /\ IsFiniteSet(active)
  /\ new \in Seq(Blocks) /\ IsInjective(new) /\ Range(new) \cap active = {}
  /\ received \in Seq(Blocks) /\ IsInjective(received) /\ Range(received) \cap active = {}
  /\ Range(new) \cap Range(received) = {}
  /\ Cardinality(active) + Len(new) <= maximum_number_of_sync_blocks_to_prefetch + 1

(* One peer's chain.  A peer that stays on its branch has answered from an earlier part of it. *)
RemotePeerOK(p, r) ==
  /\ r \in [head : Blocks, answered : Blocks \cup {None}]
  /\ r.head \in RemoteHeads[p]
  /\ r.answered # None => /\ r.answered \in RemoteHeads[p]
                          /\ Steady(p) => OnChain(r.answered, r.head)

RemoteOK(rem) == /\ rem \in [Peers -> [head : Blocks, answered : Blocks \cup {None}]]
                 /\ \A p \in Peers : RemotePeerOK(p, rem[p])

RecentOK(recent, known) == recent \in Seq(Blocks) /\ Range(recent) \subseteq known /\ Len(recent) <= RecentCapacity

BacklogOK(task) == task \in [state : {"idle", "scheduled", "running"},
                             processed : 0 .. maximum_number_of_blocks_to_handle_at_one_time]

IInv ==
  /\ PeersOK(peer, remote, client.known)
  /\ FetchOK(peer, _active_sync_requests, _new_received_sync_items, _received_sync_items)
  /\ RemoteOK(remote) /\ ClientOK(client)
  /\ RecentOK(_most_recent_blocks_accepted, client.known) /\ BacklogOK(backlog)

LEMMA OnePeer == ASSUME NEW pe, NEW rem, NEW known, PeersOK(pe, rem, known), NEW p \in Peers,
                        NEW new, PeerOK(new, p, Base(rem[p]), known)
                 PROVE  PeersOK([pe EXCEPT ![p] = new], rem, known)
  <1>1. new \in PeerType
    BY DEF PeerOK
  <1> QED
    BY <1>1 DEF PeersOK

LEMMA OneRemote == ASSUME NEW pe, NEW rem, NEW known, PeersOK(pe, rem, known), RemoteOK(rem), NEW p \in Peers,
                          NEW new, NEW r, PeerOK(new, p, Base(r), known), RemotePeerOK(p, r)
                   PROVE  /\ PeersOK([pe EXCEPT ![p] = new], [rem EXCEPT ![p] = r], known)
                          /\ RemoteOK([rem EXCEPT ![p] = r])
  <1> DEFINE rem2 == [rem EXCEPT ![p] = r]
             pe2 == [pe EXCEPT ![p] = new]
  <1>1. new \in PeerType /\ r \in [head : Blocks, answered : Blocks \cup {None}]
    BY DEF PeerOK, RemotePeerOK
  <1>2. rem2[p] = r /\ \A q \in Peers \ {p} : rem2[q] = rem[q]
    BY DEF RemoteOK
  <1>3. pe2[p] = new /\ \A q \in Peers \ {p} : pe2[q] = pe[q]
    BY DEF PeersOK
  <1>4. /\ rem2 \in [Peers -> [head : Blocks, answered : Blocks \cup {None}]]
        /\ pe2 \in [Peers -> PeerType]
    BY <1>1 DEF RemoteOK, PeersOK
  <1> HIDE DEF rem2, pe2
  <1>5. \A q \in Peers : PeerOK(pe2[q], q, Base(rem2[q]), known) /\ RemotePeerOK(q, rem2[q])
    BY <1>2, <1>3 DEF RemoteOK, PeersOK
  <1>6. PeersOK(pe2, rem2, known) /\ RemoteOK(rem2)
    BY <1>4, <1>5 DEF PeersOK, RemoteOK
  <1> QED
    BY <1>6 DEF pe2, rem2

LEMMA SameFetch == ASSUME NEW pe, NEW pe2, NEW active, NEW new, NEW received, FetchOK(pe, active, new, received),
                          \A p \in Peers : pe2[p].sync_items_requested = pe[p].sync_items_requested
                   PROVE  FetchOK(pe2, active, new, received)
  BY DEF FetchOK

(* A step that changes one connection and none of the requests for blocks. *)
LEMMA PeerStep == ASSUME IInv, NEW p \in Peers, NEW new, PeerOK(new, p, Base(remote[p]), client.known),
                         new.sync_items_requested = peer[p].sync_items_requested,
                         peer' = [peer EXCEPT ![p] = new], UNCHANGED <<sync_state, client, remote>>
                  PROVE  IInv'
  <1>1. PeersOK(peer', remote, client.known)
    BY OnePeer DEF IInv
  <1>2. \A q \in Peers : peer'[q].sync_items_requested = peer[q].sync_items_requested
    BY DEF IInv, PeersOK
  <1>3. FetchOK(peer', _active_sync_requests, _new_received_sync_items, _received_sync_items)
    BY <1>2, SameFetch DEF IInv
  <1> QED
    BY <1>1, <1>3 DEF IInv, sync_state

LEMMA OfPeer == ASSUME IInv, NEW p \in Peers
                PROVE  /\ PeerOK(peer[p], p, Base(remote[p]), client.known) /\ peer[p] \in PeerType
                       /\ Base(remote[p]) \in Blocks /\ ClientOK(client) /\ Genesis \in client.known
  BY DEF IInv, PeersOK, RemoteOK, RemotePeerOK, Base, ClientOK

LEMMA OfRemote == ASSUME IInv, NEW p \in Peers
                  PROVE  RemotePeerOK(p, remote[p])
  BY DEF IInv, RemoteOK

(* A step that changes one connection, or none, and one peer's chain or what it has answered. *)
LEMMA MovedStep == ASSUME IInv, NEW p \in Peers, NEW new, NEW r, PeerOK(new, p, Base(r), client.known),
                          RemotePeerOK(p, r),
                          new.sync_items_requested = peer[p].sync_items_requested,
                          peer' = [peer EXCEPT ![p] = new], remote' = [remote EXCEPT ![p] = r],
                          UNCHANGED <<sync_state, client>>
                   PROVE  IInv'
  <1>1. PeersOK(peer', remote', client.known) /\ RemoteOK(remote')
    BY OneRemote DEF IInv
  <1>2. \A q \in Peers : peer'[q].sync_items_requested = peer[q].sync_items_requested
    BY DEF IInv, PeersOK
  <1>3. FetchOK(peer', _active_sync_requests, _new_received_sync_items, _received_sync_items)
    BY <1>2, SameFetch DEF IInv
  <1> QED
    BY <1>1, <1>3 DEF IInv, sync_state

(* What was on a chain is on the chain that continues it. *)
LEMMA HeadMoves == ASSUME NEW pr, NEW p, NEW h \in Blocks, NEW h2 \in Blocks, NEW known, PeerOK(pr, p, h, known),
                          Steady(p) => OnChain(h, h2)
                   PROVE  PeerOK(pr, p, h2, known)
  <1> DEFINE ids == pr.ids_of_items_to_get
  <1>1. ASSUME Steady(p), ids # <<>> PROVE OnChain(Last(ids), h2)
    <2>1. OnChain(Last(ids), h) /\ ids \in Seq(Items)
      BY <1>1 DEF PeerOK, PeerType
    <2>2. Last(ids) \in Blocks
      <3>1. Len(ids) \in 1 .. Len(ids)
        BY <1>1, <2>1, NotEmpty
      <3> QED
        BY <2>1, <3>1 DEF Last, Items
    <2> HIDE DEF ids
    <2> QED
      BY <1>1, <2>1, <2>2, OnChainTrans
  <1> QED
    BY <1>1 DEF PeerOK

LEMMA NewStep == ASSUME IInv, NEW p \in Peers, new_peer_just_added(p) PROVE IInv'
  <1> DEFINE first == [NewPeer EXCEPT !.list = "active"]
             new == start_synchronizing_with_peer(first, client)
  <1>1. PeerOK(first, p, Base(remote[p]), client.known) /\ first.sync_items_requested = {}
    BY OfPeer, ActivePeerOK
  <1>2. first \in PeerType /\ first.list # "none"
    BY <1>1 DEF PeerOK, NewPeer
  <1>0. peer[p].sync_items_requested = {}
    BY OfPeer DEF PeerOK, new_peer_just_added
  <1>3. peer' = [peer EXCEPT ![p] = new] /\ UNCHANGED <<sync_state, client, remote>>
    BY DEF new_peer_just_added
  <1> HIDE DEF first
  <1>4. PeerOK(new, p, Base(remote[p]), client.known) /\ new.sync_items_requested = {}
    BY <1>1, <1>2, OfPeer, StartOK
  <1> HIDE DEF new
  <1> QED
    BY <1>0, <1>3, <1>4, PeerStep

LEMMA TerminateStep == ASSUME IInv, NEW p \in Peers, terminate_inactive_connections_loop(p) PROVE IInv'
  <1>1. peer' = [peer EXCEPT ![p].list = "terminating"] /\ UNCHANGED <<sync_state, client, remote>>
    BY DEF terminate_inactive_connections_loop
  <1>2. PICK new : new = [peer[p] EXCEPT !.list = "terminating"]
    OBVIOUS
  <1>3. peer' = [peer EXCEPT ![p] = new]
    BY <1>1, <1>2
  <1>4. PeerOK(new, p, Base(remote[p]), client.known) /\ new.sync_items_requested = peer[p].sync_items_requested
    BY <1>2, OfPeer, ListOK
  <1> QED
    BY <1>1, <1>3, <1>4, PeerStep

LEMMA UnexpectedStep == ASSUME IInv, NEW p \in Peers, unexpected_message(p) PROVE IInv'
  <1>1. peer' = [peer EXCEPT ![p] = disconnect_from_peer(@)] /\ UNCHANGED <<sync_state, client, remote>>
    BY DEF unexpected_message
  <1>2. PICK new : new = disconnect_from_peer(peer[p])
    OBVIOUS
  <1>3. peer' = [peer EXCEPT ![p] = new]
    BY <1>1, <1>2
  <1>4. PeerOK(new, p, Base(remote[p]), client.known) /\ new.sync_items_requested = peer[p].sync_items_requested
    BY <1>2, OfPeer, DisconnectOK
  <1> QED
    BY <1>1, <1>3, <1>4, PeerStep

(* The end of a connection frees what was asked of it, and nothing else. *)
LEMMA ClosedStep == ASSUME IInv, NEW p \in Peers, on_connection_closed(p) PROVE IInv'
  <1> DEFINE active == _active_sync_requests
             left == active \ peer[p].sync_items_requested
  <1>1. /\ peer' = [peer EXCEPT ![p] = NewPeer] /\ _active_sync_requests' = left
        /\ UNCHANGED <<_new_received_sync_items, _received_sync_items,
                       _most_recent_blocks_accepted, backlog, client>>
    BY DEF on_connection_closed
  <1>0. PICK then : then = [remote[p] EXCEPT !.answered = None]
    OBVIOUS
  <1>9. remote' = [remote EXCEPT ![p] = then] /\ RemotePeerOK(p, then)
    BY <1>0, OfRemote DEF on_connection_closed, RemotePeerOK
  <1>2. PeerOK(NewPeer, p, Base(then), client.known) /\ NewPeer.sync_items_requested = {}
    BY OfPeer, NewPeerOK
  <1>3. PeersOK(peer', remote', client.known) /\ RemoteOK(remote')
    BY <1>1, <1>2, <1>9, OneRemote DEF IInv
  <1>4. peer'[p].sync_items_requested = {} /\ \A q \in Peers \ {p} : peer'[q] = peer[q]
    BY <1>1, <1>2 DEF IInv, PeersOK
  <1>5. FetchOK(peer, active, _new_received_sync_items, _received_sync_items)
    BY DEF IInv
  <1>6. /\ left \subseteq active /\ IsFiniteSet(left)
        /\ Cardinality(left) <= Cardinality(active) /\ Cardinality(left) \in Nat /\ Cardinality(active) \in Nat
    BY <1>5, FS_Subset, FS_CardinalityType DEF FetchOK
  <1>7. Cardinality({}) = 0 /\ maximum_blocks_per_peer_during_syncing \in Nat
    BY FS_EmptySet, LimitsAssumption
  <1>8. FetchOK(peer', left, _new_received_sync_items, _received_sync_items)
    <2>1. ASSUME NEW q \in Peers
          PROVE  /\ peer'[q].sync_items_requested \subseteq left
                 /\ Cardinality(peer'[q].sync_items_requested) <= maximum_blocks_per_peer_during_syncing
      <3>1. CASE q = p
        BY <1>4, <1>7, <3>1
      <3>2. CASE q # p
        BY <1>4, <1>5, <3>2 DEF FetchOK
      <3> QED
        BY <3>1, <3>2
    <2>2. ASSUME NEW q \in Peers, NEW r \in Peers, q # r
          PROVE  peer'[q].sync_items_requested \cap peer'[r].sync_items_requested = {}
      <3>1. CASE q = p \/ r = p
        BY <1>4, <3>1
      <3>2. CASE q # p /\ r # p
        BY <1>4, <1>5, <2>2, <3>2 DEF FetchOK
      <3> QED
        BY <3>1, <3>2
    <2>3. Cardinality(left) + Len(_new_received_sync_items) <= maximum_number_of_sync_blocks_to_prefetch + 1
      <3>1. /\ Len(_new_received_sync_items) \in Nat /\ maximum_number_of_sync_blocks_to_prefetch \in Nat
            /\ Cardinality(active) + Len(_new_received_sync_items) <= maximum_number_of_sync_blocks_to_prefetch + 1
        BY <1>5, LimitsAssumption DEF FetchOK
      <3> HIDE DEF left, active
      <3> QED
        BY <1>6, <3>1
    <2>4. left \in SUBSET Blocks /\ Range(_new_received_sync_items) \cap left = {}
          /\ Range(_received_sync_items) \cap left = {}
      BY <1>5 DEF FetchOK
    <2> HIDE DEF left
    <2> QED
      BY <1>5, <1>6, <2>1, <2>2, <2>3, <2>4 DEF FetchOK
  <1> QED
    BY <1>1, <1>3, <1>8 DEF IInv

LEMMA InventoryStep == ASSUME IInv, NEW p \in Peers, on_blockchain_item_ids_inventory_message(p) PROVE IInv'
  <1>0. Base(remote[p]) = remote[p].answered
    BY DEF on_blockchain_item_ids_inventory_message, Base
  <1>1. PICK pr : pr = peer[p]
    OBVIOUS
  <1>2. PICK reply : reply = GetBlockIds(pr.item_ids_requested, Base(remote[p]))
    OBVIOUS
  <1>3. PICK lists : lists = NewLists(p, reply.ids)
    OBVIOUS
  <1>4. PICK next : next = [lists EXCEPT !.item_ids_requested = None,
                                         !.number_of_unfetched_item_ids = reply.remaining]
    OBVIOUS
  <1>5. PICK done : done = [pr EXCEPT !.item_ids_requested = None, !.we_need = FALSE]
    OBVIOUS
  <1>6. PICK new : new = IF UpToDate(pr, reply) THEN done
                         ELSE IF reply.remaining # 0 THEN fetch_next_batch_of_item_ids_from_peer(next, client)
                         ELSE next
    OBVIOUS
  <1>7. /\ pr.list \in {"active", "closing"} /\ pr.item_ids_requested # None
        /\ peer' = [peer EXCEPT ![p] = new] /\ UNCHANGED <<sync_state, client>>
        /\ remote[p].answered # None /\ remote' = [remote EXCEPT ![p].answered = None]
    BY <1>0, <1>1, <1>2, <1>3, <1>4, <1>5, <1>6, Zenon DEF on_blockchain_item_ids_inventory_message
  <1>8. PeerOK(pr, p, Base(remote[p]), client.known) /\ pr \in PeerType /\ Base(remote[p]) \in Blocks /\ ClientOK(client)
    BY <1>1, OfPeer
  <1>9. ReplyOK(reply, pr.item_ids_requested, Base(remote[p]))
    <2>1. pr.item_ids_requested \in Seq(Items)
      BY <1>7, <1>8 DEF PeerOK, SynopsisOK
    <2> QED
      BY <1>2, <1>8, <2>1, Reply
  <1>10. PeerOK(next, p, Base(remote[p]), client.known) /\ next.sync_items_requested = pr.sync_items_requested
    <2>1. PICK L, x : /\ GoodList(L, x, p, Base(remote[p]), client.known)
                      /\ lists = Relisted(pr, L, x)
      <3>1. \E L, x : /\ GoodList(L, x, p, Base(remote[p]), client.known)
                     /\ NewLists(p, reply.ids) = Relisted(pr, L, x)
        <4>1. pr.item_ids_requested # None
          BY <1>7
        <4>2. PICK h \in Blocks : h = Base(remote[p])
          BY <1>8
        <4>3. PeerOK(pr, p, h, client.known) /\ ClientOK(client) /\ ReplyOK(reply, pr.item_ids_requested, h)
          BY <1>8, <1>9, <4>2
        <4>4. \E L, x : /\ GoodList(L, x, p, h, client.known)
                       /\ NewLists(p, reply.ids) = Relisted(pr, L, x)
          BY <1>1, <4>1, <4>3, <4>2, NewListsOK
        <4> QED
          BY <4>2, <4>4, Zenon
      <3> QED
        BY <1>3, <3>1, Zenon
    <2>2. next = Listed(pr, L, x, reply.remaining)
      BY <1>4, <2>1 DEF Listed
    <2>3. reply.remaining \in Nat /\ pr.list # "none"
      BY <1>7, <1>9 DEF ReplyOK
    <2>4. /\ L \in Seq(Items) /\ Line(L) /\ x \in Blocks
          /\ Steady(p) => x \in client.known /\ (L # <<>> => OnChain(Last(L), Base(remote[p])))
      BY <2>1 DEF GoodList
    <2> QED
      BY <1>8, <2>2, <2>3, <2>4, NewListOK
  <1>11. PeerOK(done, p, Base(remote[p]), client.known) /\ done.sync_items_requested = pr.sync_items_requested
    <2>1. /\ done \in PeerType /\ done.list = pr.list /\ done.ids_of_items_to_get = pr.ids_of_items_to_get
          /\ done.item_ids_requested = None /\ done.sync_items_requested = pr.sync_items_requested
          /\ done.last_block_delegate_has_seen = pr.last_block_delegate_has_seen
      BY <1>5, <1>8 DEF PeerType
    <2> QED
      BY <1>8, <2>1 DEF PeerOK
  <1>12. PeerOK(new, p, Base(remote[p]), client.known) /\ new.sync_items_requested = pr.sync_items_requested
    <2>1. CASE new = done
      BY <1>11, <2>1
    <2>2. CASE new = next
      BY <1>10, <2>2
    <2>3. CASE new = fetch_next_batch_of_item_ids_from_peer(next, client)
      BY <1>8, <1>10, <2>3, FetchNextOK
    <2> QED
      BY <1>6, <2>1, <2>2, <2>3
  <1>13. PICK r : r = [remote[p] EXCEPT !.answered = None]
    OBVIOUS
  <1>14. /\ RemotePeerOK(p, r) /\ Base(r) = remote[p].head /\ remote[p].head \in Blocks
         /\ Steady(p) => OnChain(remote[p].answered, remote[p].head)
    BY <1>7, <1>13, OfRemote DEF RemotePeerOK, Base
  <1>15. PeerOK(new, p, Base(r), client.known)
    BY <1>0, <1>8, <1>12, <1>14, HeadMoves
  <1>16. remote' = [remote EXCEPT ![p] = r]
    BY <1>7, <1>13
  <1> QED
    BY <1>1, <1>7, <1>12, <1>14, <1>15, <1>16, MovedStep

(* The peer's answer is taken from the chain it has. *)
LEMMA AnswerStep == ASSUME IInv, NEW p \in Peers, peer_answers(p) PROVE IInv'
  <1>1. PICK r : r = [remote[p] EXCEPT !.answered = remote[p].head]
    OBVIOUS
  <1>2. /\ remote[p].answered = None /\ remote' = [remote EXCEPT ![p] = r]
        /\ peer' = peer /\ UNCHANGED <<sync_state, client>>
    BY <1>1 DEF peer_answers
  <1>3. RemotePeerOK(p, r) /\ Base(r) = Base(remote[p])
    BY <1>1, <1>2, OfRemote, OnChainSelf DEF RemotePeerOK, Base
  <1>4. peer' = [peer EXCEPT ![p] = peer[p]]
    BY <1>2 DEF IInv, PeersOK
  <1> QED
    BY <1>2, <1>3, <1>4, OfPeer, MovedStep

LEMMA FetchIdsStep == ASSUME IInv, NEW p \in Peers, on_fetch_blockchain_item_ids_message(p) PROVE IInv'
  <1> DEFINE theirs == GetBlockchainSynopsis(remote[p].head, Genesis, 0)
             reply == GetBlockIds(theirs, client.head)
             equal == Len(reply.ids) = 1 /\ theirs # <<>> /\ reply.ids[1] \in Range(theirs)
  <1>1. PICK pr : pr = peer[p]
    OBVIOUS
  <1>2. PICK needs \in BOOLEAN : needs = (reply.ids # <<>> /\ ~equal)
    <2>1. (reply.ids # <<>> /\ ~equal) \in BOOLEAN
      <3> HIDE DEF theirs, reply
      <3> QED
        BY Zenon
    <2> QED
      BY <2>1, Zenon
  <1>3. PICK answered : answered = [pr EXCEPT !.peer_needs = needs]
    OBVIOUS
  <1> DEFINE restart == ~pr.we_need /\ theirs # <<>> /\ remote[p].head \notin client.known
  <1>4. PICK synced : synced = IF restart THEN start_synchronizing_with_peer(answered, client) ELSE answered
    OBVIOUS
  <1>5. PICK new : new = IF equal /\ pr.inhibit THEN disconnect_from_peer(synced) ELSE synced
    OBVIOUS
  <1>6. pr.list = "active" /\ peer' = [peer EXCEPT ![p] = new] /\ UNCHANGED <<sync_state, client, remote>>
    <2> HIDE DEF theirs
    <2> QED
      BY <1>1, <1>2, <1>3, <1>4, <1>5, Zenon DEF on_fetch_blockchain_item_ids_message, theirs
  <1>7. PeerOK(pr, p, Base(remote[p]), client.known) /\ pr \in PeerType /\ ClientOK(client) /\ Genesis \in client.known
    BY <1>1, OfPeer
  <1>8. PeerOK(answered, p, Base(remote[p]), client.known) /\ answered.sync_items_requested = pr.sync_items_requested
        /\ answered \in PeerType /\ answered.list # "none"
    <2>1. /\ answered \in PeerType /\ answered.list = pr.list
          /\ answered.ids_of_items_to_get = pr.ids_of_items_to_get
          /\ answered.item_ids_requested = pr.item_ids_requested
          /\ answered.sync_items_requested = pr.sync_items_requested
          /\ answered.last_block_delegate_has_seen = pr.last_block_delegate_has_seen
      BY <1>3, <1>7 DEF PeerType
    <2> QED
      BY <1>6, <1>7, <2>1 DEF PeerOK
  <1> HIDE DEF restart, equal
  <1>9. PeerOK(synced, p, Base(remote[p]), client.known) /\ synced.sync_items_requested = pr.sync_items_requested
    <2>1. CASE synced = answered
      BY <1>8, <2>1
    <2>2. CASE synced = start_synchronizing_with_peer(answered, client)
      BY <1>7, <1>8, <2>2, StartOK
    <2> QED
      BY <1>4, <2>1, <2>2
  <1>10. PeerOK(new, p, Base(remote[p]), client.known) /\ new.sync_items_requested = pr.sync_items_requested
    <2>1. CASE new = synced
      BY <1>9, <2>1
    <2>2. CASE new = disconnect_from_peer(synced)
      BY <1>9, <2>2, DisconnectOK
    <2> QED
      BY <1>5, <2>1, <2>2
  <1> QED
    BY <1>1, <1>6, <1>10, PeerStep

(* The chain of a peer that stays on its branch only grows. *)
LEMMA RemoteStep == ASSUME IInv, NEW p \in Peers, remote_advances(p) PROVE IInv'
  <1>0. PICK h, a : h = remote[p].head /\ a = remote[p].answered
    OBVIOUS
  <1>1. PICK b \in RemoteHeads[p] : Number(b) > Number(h) /\ remote' = [remote EXCEPT ![p].head = b]
    BY <1>0 DEF remote_advances
  <1>2. UNCHANGED <<peer, sync_state, client>>
    BY DEF remote_advances
  <1>3. /\ b \in Blocks /\ h \in RemoteHeads[p] /\ h \in Blocks
        /\ a # None => a \in Blocks /\ (Steady(p) => OnChain(a, h)) /\ a \in RemoteHeads[p]
    BY <1>0, OfRemote, PeersAssumption DEF RemotePeerOK
  <1>5. Steady(p) => OnChain(h, b)
    <2> SUFFICES ASSUME Steady(p), ~OnChain(h, b) PROVE FALSE
      OBVIOUS
    <2>1. OnChain(b, h)
      BY <1>3 DEF Steady
    <2>2. b \in Items
      <3>1. Number(b) # 0
        BY <1>1, <1>3, NumberNat
      <3> QED
        BY <1>3, <3>1, GenesisNumber DEF Items
    <2>3. Number(b) \in 1 .. Number(h)
      BY <1>3, <2>1, <2>2, OnChainAt
    <2> QED
      BY <1>1, <1>3, <2>3, NumberNat
  <1>6. PICK r : r = [remote[p] EXCEPT !.head = b]
    OBVIOUS
  <1>7. a # None /\ Steady(p) => OnChain(a, b)
    BY <1>3, <1>5, OnChainTrans
  <1>8. r.head = b /\ r.answered = a /\ r \in [head : Blocks, answered : Blocks \cup {None}]
    BY <1>0, <1>3, <1>6, OfRemote DEF RemotePeerOK
  <1>9. RemotePeerOK(p, r)
    BY <1>3, <1>7, <1>8 DEF RemotePeerOK
  <1>10. PeerOK(peer[p], p, Base(remote[p]), client.known)
    BY OfPeer
  <1>11. PeerOK(peer[p], p, Base(r), client.known)
    <2>1. CASE a = None
      <3>1. Base(r) = b /\ Base(remote[p]) = h
        BY <1>0, <1>8, <2>1 DEF Base
      <3> QED
        BY <1>3, <1>5, <1>10, <3>1, HeadMoves
    <2>2. CASE a # None
      <3>1. Base(r) = Base(remote[p])
        BY <1>0, <1>8, <2>2 DEF Base
      <3> QED
        BY <1>10, <3>1
    <2> QED
      BY <2>1, <2>2
  <1>12. peer' = [peer EXCEPT ![p] = peer[p]] /\ remote' = [remote EXCEPT ![p] = r]
    BY <1>1, <1>2, <1>6 DEF IInv, PeersOK
  <1> QED
    BY <1>2, <1>9, <1>11, <1>12, MovedStep

-----------------------------------------------------------------------------
(* The stores of received blocks *)

(* A sequence of blocks that holds each element of a set once. *)
Once(s, S) == s \in Seq(Blocks) /\ IsInjective(s) /\ Range(s) = S

LEMMA OnceJoin == ASSUME NEW s, NEW S, Once(s, S), NEW t, NEW T, Once(t, T), S \cap T = {}
                  PROVE  Once(s \o t, S \cup T)
  <1> DEFINE u == s \o t
  <1>1. s \in Seq(Blocks) /\ t \in Seq(Blocks) /\ Len(s) \in Nat /\ Len(t) \in Nat
        /\ DOMAIN s = 1 .. Len(s) /\ DOMAIN t = 1 .. Len(t)
    BY DEF Once
  <1>2. u \in Seq(Blocks) /\ Len(u) = Len(s) + Len(t) /\ DOMAIN u = 1 .. Len(s) + Len(t)
    BY <1>1, ConcatIs
  <1>3. /\ \A i \in 1 .. Len(s) : u[i] = s[i]
        /\ \A i \in 1 .. Len(t) : u[Len(s) + i] = t[i]
    BY <1>1
  <1> HIDE DEF u
  <1>4. \A i \in 1 .. Len(s) + Len(t) :
          i \in 1 .. Len(s) \/ \E j \in 1 .. Len(t) : i = Len(s) + j
    <2> SUFFICES ASSUME NEW i \in 1 .. Len(s) + Len(t), ~ (i \in 1 .. Len(s))
                 PROVE  \E j \in 1 .. Len(t) : i = Len(s) + j
      OBVIOUS
    <2>1. i - Len(s) \in 1 .. Len(t) /\ i = Len(s) + (i - Len(s))
      BY <1>1
    <2> QED
      BY <2>1
  <1>5. /\ \A i \in 1 .. Len(s) : s[i] \in S
        /\ \A i \in 1 .. Len(t) : t[i] \in T
        /\ \A x \in S : \E i \in 1 .. Len(s) : s[i] = x
        /\ \A x \in T : \E i \in 1 .. Len(t) : t[i] = x
    BY <1>1 DEF Once, Range
  <1>6. Range(u) = S \cup T
    <2>1. ASSUME NEW i \in DOMAIN u PROVE u[i] \in S \cup T
      <3>1. CASE i \in 1 .. Len(s)
        BY <1>3, <1>5, <3>1
      <3>2. CASE \E j \in 1 .. Len(t) : i = Len(s) + j
        BY <1>3, <1>5, <3>2
      <3>3. i \in 1 .. Len(s) + Len(t)
        BY <1>2
      <3> QED
        BY <1>4, <3>1, <3>2, <3>3
    <2>2. ASSUME NEW x \in S PROVE \E i \in DOMAIN u : u[i] = x
      <3>1. PICK i \in 1 .. Len(s) : s[i] = x
        BY <1>5
      <3>2. i \in 1 .. Len(s) + Len(t)
        BY <1>1
      <3> QED
        BY <1>2, <1>3, <3>1, <3>2
    <2>3. ASSUME NEW x \in T PROVE \E i \in DOMAIN u : u[i] = x
      <3>1. PICK i \in 1 .. Len(t) : t[i] = x
        BY <1>5
      <3>2. Len(s) + i \in 1 .. Len(s) + Len(t)
        BY <1>1
      <3> QED
        BY <1>2, <1>3, <3>1, <3>2
    <2> QED
      BY <2>1, <2>2, <2>3 DEF Range
  <1>7. ASSUME NEW i \in DOMAIN u, NEW j \in DOMAIN u, u[i] = u[j] PROVE i = j
    <2>1. (i \in 1 .. Len(s) \/ \E k \in 1 .. Len(t) : i = Len(s) + k)
          /\ (j \in 1 .. Len(s) \/ \E k \in 1 .. Len(t) : j = Len(s) + k)
      BY <1>2, <1>4
    <2>2. CASE i \in 1 .. Len(s) /\ j \in 1 .. Len(s)
      BY <1>1, <1>3, <1>7, <2>2 DEF Once, IsInjective
    <2>3. CASE i \in 1 .. Len(s) /\ ~ (j \in 1 .. Len(s))
      BY <1>3, <1>5, <1>7, <2>1, <2>3
    <2>4. CASE ~ (i \in 1 .. Len(s)) /\ j \in 1 .. Len(s)
      BY <1>3, <1>5, <1>7, <2>1, <2>4
    <2>5. CASE ~ (i \in 1 .. Len(s)) /\ ~ (j \in 1 .. Len(s))
      <3>1. PICK k \in 1 .. Len(t) : i = Len(s) + k
        BY <2>1, <2>5
      <3>2. PICK l \in 1 .. Len(t) : j = Len(s) + l
        BY <2>1, <2>5
      <3>3. t[k] = t[l]
        BY <1>3, <1>7, <3>1, <3>2
      <3>4. k = l
        BY <1>1, <3>3 DEF Once, IsInjective
      <3> QED
        BY <3>1, <3>2, <3>4
    <2> QED
      BY <2>2, <2>3, <2>4, <2>5
  <1> QED
    BY <1>2, <1>6, <1>7 DEF Once, IsInjective, u

LEMMA OnceOne == ASSUME NEW b \in Blocks PROVE Once(<<b>>, {b})
  <1>1. <<b>> \in Seq(Blocks) /\ DOMAIN <<b>> = {1} /\ <<b>>[1] = b
    OBVIOUS
  <1>2. Range(<<b>>) = {b}
    BY <1>1 DEF Range
  <1> QED
    BY <1>1, <1>2 DEF Once, IsInjective

LEMMA OnceReverse == ASSUME NEW s, NEW S, Once(s, S) PROVE Once(Reverse(s), S)
  <1> DEFINE n == Len(s)
             t == Reverse(s)
  <1>1. s \in Seq(Blocks) /\ n \in Nat /\ DOMAIN s = 1 .. n
    BY DEF Once
  <1>2. t = [i \in 1 .. n |-> s[(n - i) + 1]]
    BY DEF Reverse
  <1>3. \A i \in 1 .. n : (n - i) + 1 \in 1 .. n
    BY <1>1
  <1>4. t \in [1 .. n -> Blocks] /\ \A i \in 1 .. n : t[i] = s[(n - i) + 1]
    BY <1>1, <1>2, <1>3
  <1>5. t \in Seq(Blocks) /\ DOMAIN t = 1 .. n
    BY <1>1, <1>4, FunctionSeq
  <1> HIDE DEF t
  <1>6. \A i, j \in DOMAIN t : t[i] = t[j] => i = j
    <2> SUFFICES ASSUME NEW i \in 1 .. n, NEW j \in 1 .. n, t[i] = t[j] PROVE i = j
      BY <1>5
    <2>1. s[(n - i) + 1] = s[(n - j) + 1]
      BY <1>4
    <2>2. (n - i) + 1 = (n - j) + 1
      BY <1>1, <1>3, <2>1 DEF Once, IsInjective
    <2> QED
      BY <1>1, <2>2
  <1>7. Range(t) = Range(s)
    <2>1. ASSUME NEW i \in 1 .. n PROVE \E j \in 1 .. n : t[j] = s[i]
      <3>1. (n - i) + 1 \in 1 .. n /\ (n - ((n - i) + 1)) + 1 = i
        BY <1>1
      <3> QED
        BY <1>4, <3>1
    <2>2. ASSUME NEW i \in 1 .. n PROVE \E j \in 1 .. n : s[j] = t[i]
      BY <1>3, <1>4
    <2>3. Range(t) = {t[j] : j \in 1 .. n} /\ Range(s) = {s[j] : j \in 1 .. n}
      <3> HIDE DEF n
      <3> QED
        BY <1>1, <1>5, Zenon DEF Range
    <2>4. {t[j] : j \in 1 .. n} = {s[j] : j \in 1 .. n}
      <3> HIDE DEF n
      <3>1. ASSUME NEW x \in {t[j] : j \in 1 .. n} PROVE x \in {s[j] : j \in 1 .. n}
        <4>1. PICK i \in 1 .. n : x = t[i]
          BY <3>1
        <4> QED
          BY <2>2, <4>1
      <3>2. ASSUME NEW x \in {s[j] : j \in 1 .. n} PROVE x \in {t[j] : j \in 1 .. n}
        <4>1. PICK i \in 1 .. n : x = s[i]
          BY <3>2
        <4> QED
          BY <2>1, <4>1
      <3> QED
        BY <3>1, <3>2
    <2> QED
      BY <2>3, <2>4
  <1> QED
    BY <1>5, <1>6, <1>7 DEF Once, IsInjective, t

LEMMA OnceRemove == ASSUME NEW s, NEW S, Once(s, S), NEW k \in 1 .. Len(s)
                    PROVE  \E T \in SUBSET S : Once(RemoveAt(s, k), T)
  <1> DEFINE n == Len(s)
             a == SubSeq(s, 1, k - 1)
             b == SubSeq(s, k + 1, n)
  <1>1. s \in Seq(Blocks) /\ n \in Nat /\ DOMAIN s = 1 .. n /\ k \in Nat \ {0} /\ k <= n
    BY DEF Once
  <1>2. a \in Seq(Blocks) /\ DOMAIN a = 1 .. k - 1 /\ \A i \in 1 .. k - 1 : a[i] = s[i]
    <2>1. k - 1 \in Nat /\ k - 1 <= n /\ k - 1 <= Len(s)
      BY <1>1
    <2>2. /\ a \in Seq(Blocks) /\ Len(a) = IF 1 <= k - 1 THEN k - 1 - 1 + 1 ELSE 0
          /\ \A i \in 1 .. Len(a) : a[i] = s[1 + i - 1]
      BY <1>1, <2>1, SubSeqIs
    <2> HIDE DEF a
    <2>3. Len(a) = k - 1
      BY <1>1, <2>2
    <2>4. \A i \in 1 .. k - 1 : 1 + i - 1 = i
      BY <1>1
    <2> QED
      BY <2>2, <2>3, <2>4
  <1>3. b \in Seq(Blocks) /\ DOMAIN b = 1 .. n - k /\ \A i \in 1 .. n - k : b[i] = s[k + i]
    <2>1. k + 1 \in Nat \ {0} /\ n <= Len(s)
      BY <1>1
    <2>2. /\ b \in Seq(Blocks) /\ Len(b) = IF k + 1 <= n THEN n - (k + 1) + 1 ELSE 0
          /\ \A i \in 1 .. Len(b) : b[i] = s[k + 1 + i - 1]
      BY <1>1, <2>1, SubSeqIs
    <2> HIDE DEF b, n
    <2>3. Len(b) = n - k
      BY <1>1, <2>2
    <2>4. \A i \in 1 .. n - k : k + 1 + i - 1 = k + i
      BY <1>1
    <2> QED
      BY <2>2, <2>3, <2>4
  <1>4. RemoveAt(s, k) = a \o b
    BY DEF RemoveAt
  <1> HIDE DEF a, b, n
  <1>5. \A i \in 1 .. k - 1 : i \in 1 .. n
    BY <1>1
  <1>6. \A i \in 1 .. n - k : k + i \in 1 .. n
    BY <1>1
  <1>7. \A i, j \in 1 .. n : s[i] = s[j] => i = j
    BY <1>1 DEF Once, IsInjective
  <1>8. Once(a, Range(a)) /\ Range(a) \subseteq S
    <2>1. \A i, j \in 1 .. k - 1 : a[i] = a[j] => i = j
      BY <1>2, <1>5, <1>7
    <2>2. Range(a) \subseteq Range(s)
      BY <1>1, <1>2, <1>5 DEF Range
    <2> QED
      BY <1>2, <2>1, <2>2 DEF Once, IsInjective
  <1>9. Once(b, Range(b)) /\ Range(b) \subseteq S
    <2>1. ASSUME NEW i \in 1 .. n - k, NEW j \in 1 .. n - k, b[i] = b[j] PROVE i = j
      <3>1. k + i = k + j
        BY <1>3, <1>6, <1>7, <2>1
      <3> QED
        BY <1>1, <3>1
    <2>2. Range(b) \subseteq Range(s)
      BY <1>1, <1>3, <1>6 DEF Range
    <2> QED
      BY <1>3, <2>1, <2>2 DEF Once, IsInjective
  <1>10. Range(a) \cap Range(b) = {}
    <2>1. ASSUME NEW i \in 1 .. k - 1, NEW j \in 1 .. n - k PROVE a[i] # b[j]
      <3>1. i # k + j
        BY <1>1
      <3> QED
        BY <1>2, <1>3, <1>5, <1>6, <1>7, <3>1
    <2> QED
      BY <1>2, <1>3, <2>1 DEF Range
  <1>11. Once(a \o b, Range(a) \cup Range(b))
    BY <1>8, <1>9, <1>10, OnceJoin
  <1> QED
    BY <1>4, <1>8, <1>9, <1>11

-----------------------------------------------------------------------------
(* Requests that are answered *)

LEMMA FewerFetch == ASSUME NEW pe, NEW pe2, NEW active, NEW new, NEW received, FetchOK(pe, active, new, received),
                           \A p \in Peers : pe2[p].sync_items_requested \subseteq pe[p].sync_items_requested
                    PROVE  FetchOK(pe2, active, new, received)
  <1>1. ASSUME NEW p \in Peers
        PROVE  /\ pe2[p].sync_items_requested \subseteq active
               /\ Cardinality(pe2[p].sync_items_requested) <= maximum_blocks_per_peer_during_syncing
    <2> DEFINE A == pe[p].sync_items_requested
               B == pe2[p].sync_items_requested
    <2>1. B \subseteq A /\ A \subseteq active /\ IsFiniteSet(active)
          /\ Cardinality(A) <= maximum_blocks_per_peer_during_syncing
      BY DEF FetchOK
    <2> HIDE DEF A, B
    <2>2. IsFiniteSet(A)
      BY <2>1, FS_Subset
    <2>3. Cardinality(B) <= Cardinality(A) /\ Cardinality(A) \in Nat /\ Cardinality(B) \in Nat
      BY <2>1, <2>2, FS_Subset, FS_CardinalityType
    <2>4. Cardinality(B) <= maximum_blocks_per_peer_during_syncing
      BY <2>1, <2>3, LimitsAssumption
    <2> QED
      BY <2>1, <2>4 DEF B
  <1>2. ASSUME NEW p \in Peers, NEW q \in Peers, p # q
        PROVE  pe2[p].sync_items_requested \cap pe2[q].sync_items_requested = {}
    BY <1>2 DEF FetchOK
  <1> QED
    BY <1>1, <1>2 DEF FetchOK

LEMMA Arrived == ASSUME NEW pe, NEW pe2, NEW active, NEW new, NEW received, FetchOK(pe, active, new, received),
                        NEW p \in Peers, NEW b \in pe[p].sync_items_requested,
                        pe2[p].sync_items_requested = pe[p].sync_items_requested \ {b},
                        \A q \in Peers \ {p} : pe2[q].sync_items_requested = pe[q].sync_items_requested
                 PROVE  FetchOK(pe2, active \ {b}, <<b>> \o new, received)
  <1>1. b \in active /\ b \in Blocks
    BY DEF FetchOK
  <1>2. \A q \in Peers : pe2[q].sync_items_requested \subseteq pe[q].sync_items_requested \ {b}
    <2> SUFFICES ASSUME NEW q \in Peers
                 PROVE  pe2[q].sync_items_requested \subseteq pe[q].sync_items_requested \ {b}
      OBVIOUS
    <2>1. CASE q = p
      BY <2>1
    <2>2. CASE q # p
      <3>1. pe[q].sync_items_requested \cap pe[p].sync_items_requested = {}
        BY <2>2 DEF FetchOK
      <3>2. pe2[q].sync_items_requested = pe[q].sync_items_requested
        BY <2>2
      <3> QED
        BY <3>1, <3>2
    <2> QED
      BY <2>1, <2>2
  <1>3. FetchOK(pe2, active, new, received)
    BY <1>2, FewerFetch
  <1>4. Once(<<b>> \o new, {b} \cup Range(new))
    <2>1. Once(new, Range(new)) /\ {b} \cap Range(new) = {}
      BY <1>1 DEF FetchOK, Once
    <2> QED
      BY <1>1, <2>1, OnceOne, OnceJoin
  <1>5. Len(<<b>> \o new) = 1 + Len(new) /\ Len(new) \in Nat
    <2>1. new \in Seq(Blocks)
      BY DEF FetchOK
    <2> QED
      BY <1>1, <2>1
  <1>6. IsFiniteSet(active \ {b}) /\ Cardinality(active \ {b}) = Cardinality(active) - 1 /\ Cardinality(active) \in Nat
    <2>1. IsFiniteSet(active)
      BY DEF FetchOK
    <2> QED
      BY <1>1, <2>1, FS_RemoveElement, FS_CardinalityType
  <1>7. Cardinality(active \ {b}) + Len(<<b>> \o new) <= maximum_number_of_sync_blocks_to_prefetch + 1
    <2>1. Cardinality(active) + Len(new) <= maximum_number_of_sync_blocks_to_prefetch + 1
      BY DEF FetchOK
    <2> QED
      BY <1>5, <1>6, <2>1, LimitsAssumption
  <1> DEFINE left == active \ {b}
             more == <<b>> \o new
  <1>8. /\ \A q \in Peers : pe2[q].sync_items_requested \subseteq left
        /\ left \in SUBSET Blocks
        /\ Range(received) \cap left = {}
    BY <1>2, <1>3 DEF FetchOK
  <1>9. /\ more \in Seq(Blocks) /\ IsInjective(more) /\ Range(more) = {b} \cup Range(new)
    BY <1>4 DEF Once
  <1>10. Range(more) \cap left = {} /\ Range(more) \cap Range(received) = {}
    BY <1>1, <1>9 DEF FetchOK
  <1> HIDE DEF left, more
  <1>11. IsFiniteSet(left) /\ Cardinality(left) + Len(more) <= maximum_number_of_sync_blocks_to_prefetch + 1
    BY <1>6, <1>7 DEF left, more
  <1>12. FetchOK(pe2, left, more, received)
    BY <1>3, <1>8, <1>9, <1>10, <1>11 DEF FetchOK
  <1> QED
    BY <1>12 DEF left, more

LEMMA NotAvailableStep == ASSUME IInv, NEW p \in Peers, NEW b \in Blocks, on_item_not_available_message(p, b)
                          PROVE  IInv'
  <1>1. PICK pr : pr = [peer[p] EXCEPT !.sync_items_requested = @ \ {b}]
    OBVIOUS
  <1>2. PICK new : new = IF pr.peer_needs THEN [pr EXCEPT !.inhibit = TRUE] ELSE disconnect_from_peer(pr)
    OBVIOUS
  <1>3. /\ peer[p].list \in {"active", "closing"}
        /\ peer' = [peer EXCEPT ![p] = new] /\ UNCHANGED <<sync_state, client, remote>>
    BY <1>1, <1>2, Zenon DEF on_item_not_available_message
  <1>4. PICK S : S = peer[p].sync_items_requested \ {b}
    OBVIOUS
  <1>5. peer[p] \in PeerType /\ PeerOK(peer[p], p, Base(remote[p]), client.known)
    BY OfPeer
  <1>6. S \in SUBSET Blocks /\ pr = [peer[p] EXCEPT !.sync_items_requested = S] /\ peer[p].list # "none"
    BY <1>1, <1>3, <1>4, <1>5 DEF PeerType
  <1>7. PeerOK(pr, p, Base(remote[p]), client.known) /\ pr.sync_items_requested = S /\ pr \in PeerType
        /\ pr.list = peer[p].list
    <2>1. PeerOK(pr, p, Base(remote[p]), client.known) /\ pr.sync_items_requested = S /\ pr.list = peer[p].list
      BY <1>5, <1>6, ItemsOK
    <2> QED
      BY <2>1 DEF PeerOK
  <1>8. PeerOK(new, p, Base(remote[p]), client.known) /\ new.sync_items_requested = S
    <2>1. CASE new = disconnect_from_peer(pr)
      BY <1>7, <2>1, DisconnectOK
    <2>2. CASE new = [pr EXCEPT !.inhibit = TRUE]
      <3>1. /\ new \in PeerType /\ new.list = pr.list /\ new.ids_of_items_to_get = pr.ids_of_items_to_get
            /\ new.item_ids_requested = pr.item_ids_requested /\ new.sync_items_requested = pr.sync_items_requested
            /\ new.last_block_delegate_has_seen = pr.last_block_delegate_has_seen
        BY <1>7, <2>2 DEF PeerType
      <3> QED
        BY <1>7, <3>1 DEF PeerOK
    <2> QED
      BY <1>2, <2>1, <2>2
  <1>9. PeersOK(peer', remote, client.known)
    BY <1>3, <1>8, OnePeer DEF IInv
  <1>10. \A q \in Peers : peer'[q].sync_items_requested \subseteq peer[q].sync_items_requested
    <2> SUFFICES ASSUME NEW q \in Peers
                 PROVE  peer'[q].sync_items_requested \subseteq peer[q].sync_items_requested
      OBVIOUS
    <2>1. peer'[q] = IF q = p THEN new ELSE peer[q]
      BY <1>3 DEF IInv, PeersOK
    <2> QED
      BY <1>4, <1>8, <2>1
  <1>11. FetchOK(peer', _active_sync_requests, _new_received_sync_items, _received_sync_items)
    BY <1>10, FewerFetch DEF IInv
  <1> QED
    BY <1>3, <1>9, <1>11 DEF IInv, sync_state

LEMMA BlockStep == ASSUME IInv, NEW p \in Peers, NEW b \in Blocks, process_block_during_sync(p, b) PROVE IInv'
  <1>1. PICK pr : pr = [peer[p] EXCEPT !.sync_items_requested = @ \ {b}]
    OBVIOUS
  <1> DEFINE more == pr.number_of_unfetched_item_ids > 0
             fails == more /\ pr.item_ids_requested = None /\ SynopsisFails(pr, client)
                      /\ b \notin Range(_most_recent_blocks_accepted)
  <1>2. PICK new : new = IF fails THEN disconnect_from_peer(pr)
                         ELSE IF more THEN fetch_next_batch_of_item_ids_from_peer(pr, client) ELSE pr
    OBVIOUS
  <1>3. /\ peer[p].list \in {"active", "closing"} /\ b \in peer[p].sync_items_requested
        /\ _active_sync_requests' = _active_sync_requests \ {b}
        /\ _new_received_sync_items' = <<b>> \o _new_received_sync_items
        /\ backlog' = Triggered
        /\ peer' = [peer EXCEPT ![p] = new]
        /\ UNCHANGED <<_received_sync_items, _most_recent_blocks_accepted, client, remote>>
    BY <1>1, <1>2, Zenon DEF process_block_during_sync
  <1> HIDE DEF more, fails
  <1>4. PICK S : S = peer[p].sync_items_requested \ {b}
    OBVIOUS
  <1>5. peer[p] \in PeerType /\ PeerOK(peer[p], p, Base(remote[p]), client.known) /\ ClientOK(client)
    BY OfPeer
  <1>6. S \in SUBSET Blocks /\ pr = [peer[p] EXCEPT !.sync_items_requested = S] /\ peer[p].list # "none"
    BY <1>1, <1>3, <1>4, <1>5 DEF PeerType
  <1>7. PeerOK(pr, p, Base(remote[p]), client.known) /\ pr.sync_items_requested = S
    BY <1>5, <1>6, ItemsOK
  <1>8. PeerOK(new, p, Base(remote[p]), client.known) /\ new.sync_items_requested = S
    <2>1. CASE new = disconnect_from_peer(pr)
      BY <1>7, <2>1, DisconnectOK
    <2>2. CASE new = fetch_next_batch_of_item_ids_from_peer(pr, client)
      BY <1>5, <1>7, <2>2, FetchNextOK
    <2>3. CASE new = pr
      BY <1>7, <2>3
    <2> QED
      BY <1>2, <2>1, <2>2, <2>3
  <1>9. PeersOK(peer', remote, client.known)
    BY <1>3, <1>8, OnePeer DEF IInv
  <1>10. peer'[p] = new /\ \A q \in Peers \ {p} : peer'[q] = peer[q]
    BY <1>3 DEF IInv, PeersOK
  <1>11. FetchOK(peer', _active_sync_requests', _new_received_sync_items', _received_sync_items)
    <2>1. FetchOK(peer, _active_sync_requests, _new_received_sync_items, _received_sync_items)
      BY DEF IInv
    <2>2. /\ peer'[p].sync_items_requested = peer[p].sync_items_requested \ {b}
          /\ \A q \in Peers \ {p} : peer'[q].sync_items_requested = peer[q].sync_items_requested
      BY <1>4, <1>8, <1>10
    <2>3. FetchOK(peer', _active_sync_requests \ {b}, <<b>> \o _new_received_sync_items, _received_sync_items)
      BY <1>3, <2>1, <2>2, Arrived
    <2> QED
      BY <1>3, <2>3
  <1>12. BacklogOK(backlog')
    BY <1>3 DEF IInv, BacklogOK, Triggered
  <1> QED
    BY <1>3, <1>9, <1>11, <1>12 DEF IInv

(* What has arrived moves to the store that the backlog works on. *)
LEMMA TakeStep == ASSUME IInv, process_backlog_of_sync_blocks PROVE IInv'
  <1> DEFINE new == _new_received_sync_items
             received == _received_sync_items
             all == Reverse(new) \o received
  <1>1. /\ _received_sync_items' = all /\ _new_received_sync_items' = <<>>
        /\ backlog' = [state |-> "running", processed |-> 0]
        /\ UNCHANGED <<peer, _active_sync_requests, _most_recent_blocks_accepted, client, remote>>
    BY DEF process_backlog_of_sync_blocks
  <1>2. FetchOK(peer, _active_sync_requests, new, received)
    BY DEF IInv
  <1>3. Once(all, Range(new) \cup Range(received))
    <2>1. Once(new, Range(new)) /\ Once(received, Range(received)) /\ Range(new) \cap Range(received) = {}
      BY <1>2 DEF FetchOK, Once
    <2> HIDE DEF new, received
    <2>2. Once(Reverse(new), Range(new))
      BY <2>1, OnceReverse
    <2> QED
      BY <2>1, <2>2, OnceJoin
  <1>4. /\ <<>> \in Seq(Blocks) /\ IsInjective(<<>>) /\ Range(<<>>) = {} /\ Len(<<>>) = 0
    BY DEF IsInjective, Range
  <1>5. Cardinality(_active_sync_requests) <= maximum_number_of_sync_blocks_to_prefetch + 1
    <2>1. /\ Cardinality(_active_sync_requests) + Len(new) <= maximum_number_of_sync_blocks_to_prefetch + 1
          /\ Cardinality(_active_sync_requests) \in Nat /\ Len(new) \in Nat
      BY <1>2, FS_CardinalityType DEF FetchOK
    <2> QED
      BY <2>1, LimitsAssumption
  <1>6. Cardinality(_active_sync_requests) + 0 = Cardinality(_active_sync_requests)
    <2>1. Cardinality(_active_sync_requests) \in Nat
      BY <1>2, FS_CardinalityType DEF FetchOK
    <2> QED
      BY <2>1
  <1> HIDE DEF all
  <1>7. all \in Seq(Blocks) /\ IsInjective(all) /\ Range(all) = Range(new) \cup Range(received)
    BY <1>3 DEF Once
  <1>8. Range(all) \cap _active_sync_requests = {}
    BY <1>2, <1>7 DEF FetchOK
  <1>9. FetchOK(peer, _active_sync_requests, <<>>, all)
    <2> HIDE DEF new, received
    <2>1. Range(<<>>) \cap _active_sync_requests = {} /\ Range(<<>>) \cap Range(all) = {}
      BY <1>4
    <2> QED
      BY <1>2, <1>4, <1>5, <1>6, <1>7, <1>8, <2>1 DEF FetchOK
  <1>10. BacklogOK(backlog')
    BY <1>1, LimitsAssumption DEF BacklogOK
  <1> QED
    BY <1>1, <1>9, <1>10 DEF IInv

LEMMA EndsStep == ASSUME IInv, backlog_ends PROVE IInv'
  <1>1. BacklogOK(backlog')
    BY LimitsAssumption DEF BacklogOK, backlog_ends
  <1> QED
    BY <1>1 DEF IInv, backlog_ends

-----------------------------------------------------------------------------
(* Blocks for the client *)

(* A block is pushed on the circular buffer. *)
LEMMA PushOK == ASSUME NEW s, NEW K, RecentOK(s, K), NEW K2, K \subseteq K2, NEW b \in Blocks, b \in K2,
                       NEW all, all = Append(s, b), NEW new, new = IF Len(all) > RecentCapacity THEN Tail(all) ELSE all
                PROVE  RecentOK(new, K2)
  <1>1. s \in Seq(Blocks) /\ Len(s) \in Nat /\ Len(s) <= RecentCapacity /\ RecentCapacity \in Nat
        /\ \A i \in 1 .. Len(s) : s[i] \in K
    BY LimitsAssumption DEF RecentOK, Range
  <1>2. all \in Seq(Blocks) /\ Len(all) = Len(s) + 1
        /\ \A i \in 1 .. Len(s) + 1 : all[i] = IF i = Len(s) + 1 THEN b ELSE s[i]
    BY <1>1
  <1>3. \A i \in 1 .. Len(s) + 1 : all[i] \in K2
    <2> SUFFICES ASSUME NEW i \in 1 .. Len(s) + 1 PROVE all[i] \in K2
      OBVIOUS
    <2>1. CASE i = Len(s) + 1
      BY <1>2, <2>1
    <2>2. CASE i # Len(s) + 1
      <3>1. i \in 1 .. Len(s)
        BY <1>1, <2>2
      <3> QED
        BY <1>1, <1>2, <2>2, <3>1
    <2> QED
      BY <2>1, <2>2
  <1>4. CASE Len(all) > RecentCapacity
    <2>1. new = Tail(all) /\ all # <<>>
      BY <1>1, <1>2, <1>4
    <2>2. new \in Seq(Blocks) /\ Len(new) = Len(s) /\ \A i \in 1 .. Len(s) : new[i] = all[i + 1]
      BY <1>1, <1>2, <2>1
    <2>3. \A i \in 1 .. Len(s) : i + 1 \in 1 .. Len(s) + 1
      BY <1>1
    <2>4. DOMAIN new = 1 .. Len(s)
      BY <2>2
    <2>5. \A i \in DOMAIN new : new[i] \in K2
      BY <1>3, <2>2, <2>3, <2>4
    <2> QED
      BY <1>1, <2>2, <2>5 DEF RecentOK, Range
  <1>5. CASE ~ (Len(all) > RecentCapacity)
    <2>1. new = all
      BY <1>5
    <2>2. DOMAIN new = 1 .. Len(s) + 1 /\ Len(new) <= RecentCapacity
      BY <1>1, <1>2, <1>5, <2>1
    <2> QED
      BY <1>2, <1>3, <2>1, <2>2 DEF RecentOK, Range
  <1> QED
    BY <1>4, <1>5

LEMMA RecentKeeps ==
  ASSUME IInv, NEW K, client.known \subseteq K, NEW b \in Blocks, b \in K
  PROVE  RecentOK(Recent(b), K)
  <1>1. PICK all : all = Append(_most_recent_blocks_accepted, b)
    OBVIOUS
  <1>2. Recent(b) = IF Len(all) > RecentCapacity THEN Tail(all) ELSE all
    BY <1>1, Zenon DEF Recent
  <1>3. PICK new : new = Recent(b)
    OBVIOUS
  <1>4. RecentOK(_most_recent_blocks_accepted, client.known)
    BY DEF IInv
  <1>5. RecentOK(new, K)
    BY <1>1, <1>2, <1>3, <1>4, PushOK
  <1> QED
    BY <1>3, <1>5

LEMMA ClientKeeps == ASSUME IInv, NEW b \in Blocks, NEW cl, cl = ClientAfter(b)
                     PROVE  ClientOK(cl) /\ client.known \subseteq cl.known /\ b \in cl.known
  <1>1. ClientOK(client)
    BY DEF IInv
  <1>2. cl.known = client.known \cup {b} /\ cl.head \in {b, client.head}
        /\ cl = [known |-> cl.known, head |-> cl.head]
    BY DEF ClientAfter
  <1>3. cl.known \in SUBSET Blocks /\ cl.head \in Blocks /\ cl.head \in cl.known /\ Genesis \in cl.known
    BY <1>1, <1>2 DEF ClientOK
  <1>4. cl \in [known : SUBSET Blocks, head : Blocks]
    BY <1>2, <1>3
  <1> QED
    BY <1>2, <1>3, <1>4 DEF ClientOK

(* The first item of a list is given to the client. *)
LEMMA PoppedOK == ASSUME IInv, NEW p \in Peers, NEW b \in Blocks, NEW new, new = Popped(p, b)
                  PROVE  /\ PeerOK(new, p, Base(remote[p]), client.known)
                         /\ new.sync_items_requested = peer[p].sync_items_requested
  <1>1. PICK pr : pr = peer[p]
    OBVIOUS
  <1>2. PeerOK(pr, p, Base(remote[p]), client.known) /\ pr \in PeerType
    BY <1>1, OfPeer
  <1>3. CASE ~ (p \in Active /\ FrontIs(p, b))
    <2>1. new = pr
      BY <1>1, <1>3 DEF Popped
    <2> QED
      BY <1>1, <1>2, <2>1
  <1>4. CASE p \in Active /\ FrontIs(p, b)
    <2>1. new = [pr EXCEPT !.ids_of_items_to_get = Tail(@),
                           !.ids_of_items_being_processed = @ \cup {b}]
      BY <1>1, <1>4 DEF Popped
    <2>2. PICK ids : ids = pr.ids_of_items_to_get
      OBVIOUS
    <2>3. ids # <<>> /\ ids \in Seq(Items) /\ Line(ids) /\ pr.list = "active"
      BY <1>1, <1>2, <1>4, <2>2 DEF FrontIs, PeerOK, PeerType, Active
    <2>4. PICK L : L = Tail(ids)
      OBVIOUS
    <2>5. L \in Seq(Items) /\ Line(L) /\ (L # <<>> => Last(L) = Last(ids))
      BY <2>3, <2>4, LineTail
    <2>6. new = [pr EXCEPT !.ids_of_items_to_get = L,
                           !.ids_of_items_being_processed = pr.ids_of_items_being_processed \cup {b}]
      BY <1>2, <2>1, <2>2, <2>4 DEF PeerType
    <2>7. pr.ids_of_items_being_processed \cup {b} \in SUBSET Blocks
      BY <1>2 DEF PeerType
    <2>8. /\ new \in PeerType /\ new.list = pr.list /\ new.ids_of_items_to_get = L
          /\ new.item_ids_requested = pr.item_ids_requested /\ new.sync_items_requested = pr.sync_items_requested
          /\ new.last_block_delegate_has_seen = pr.last_block_delegate_has_seen
      BY <1>2, <2>5, <2>6, <2>7 DEF PeerType
    <2>9. new.item_ids_requested # None => SynopsisOK(new.item_ids_requested, L)
      BY <1>2, <2>2, <2>3, <2>5, <2>8 DEF PeerOK, SynopsisOK
    <2>10. Steady(p) => /\ new.last_block_delegate_has_seen \in client.known
                        /\ L # <<>> => OnChain(Last(L), Base(remote[p]))
      BY <1>2, <2>2, <2>3, <2>5, <2>8 DEF PeerOK
    <2>11. PeerOK(new, p, Base(remote[p]), client.known)
      BY <2>3, <2>5, <2>8, <2>9, <2>10 DEF PeerOK
    <2> QED
      BY <1>1, <2>8, <2>11
  <1> QED
    BY <1>3, <1>4

(* A block that the client has becomes the reference point. *)
Seen(pr, left, x) == [pr EXCEPT !.ids_of_items_being_processed = left, !.last_block_delegate_has_seen = x]

LEMMA SeenOK == ASSUME NEW pr, NEW p, NEW h, NEW K, PeerOK(pr, p, h, K), NEW left \in SUBSET Blocks,
                       NEW x \in Blocks, x \in K \/ x = pr.last_block_delegate_has_seen
                PROVE  /\ PeerOK(Seen(pr, left, x), p, h, K)
                       /\ Seen(pr, left, x).sync_items_requested = pr.sync_items_requested
                       /\ Seen(pr, left, x).list = pr.list
                       /\ Seen(pr, left, x) \in PeerType
  <1> DEFINE new == Seen(pr, left, x)
  <1>1. /\ new \in PeerType /\ new.list = pr.list /\ new.ids_of_items_to_get = pr.ids_of_items_to_get
        /\ new.item_ids_requested = pr.item_ids_requested /\ new.sync_items_requested = pr.sync_items_requested
        /\ new.last_block_delegate_has_seen = x
    BY DEF PeerOK, PeerType, Seen
  <1> HIDE DEF new
  <1>2. Steady(p) => x \in K
    BY DEF PeerOK
  <1>3. PeerOK(new, p, h, K)
    BY <1>1, <1>2 DEF PeerOK
  <1> QED
    BY <1>1, <1>3 DEF new

LEMMA ListStays == ASSUME NEW pr \in PeerType, pr.list # "none", NEW cl
                   PROVE  fetch_next_batch_of_item_ids_from_peer(pr, cl).list # "none"
  <1> DEFINE s == CreateSynopsisForPeer(pr, cl.head)
  <1>1. PICK new : new = fetch_next_batch_of_item_ids_from_peer(pr, cl)
    OBVIOUS
  <1>2. new \in {pr, disconnect_from_peer(pr), [pr EXCEPT !.item_ids_requested = s]}
    <2>1. new = IF pr.item_ids_requested # None \/ SynopsisFails(pr, cl) THEN pr
                ELSE IF s = None THEN disconnect_from_peer(pr)
                ELSE [pr EXCEPT !.item_ids_requested = s]
      BY <1>1, Zenon DEF fetch_next_batch_of_item_ids_from_peer
    <2> HIDE DEF s
    <2> QED
      BY <2>1, Zenon
  <1> HIDE DEF s
  <1>3. disconnect_from_peer(pr).list # "none" /\ [pr EXCEPT !.item_ids_requested = s].list # "none"
    BY DEF disconnect_from_peer, PeerType
  <1> QED
    BY <1>1, <1>2, <1>3

LEMMA AfterOK == ASSUME NEW pr, NEW p, NEW h, NEW K, PeerOK(pr, p, h, K), NEW cl, ClientOK(cl), K \subseteq cl.known,
                        NEW b \in Blocks, b \in cl.known, NEW new, new = AfterSyncBlock(pr, b, cl)
                 PROVE  PeerOK(new, p, h, cl.known) /\ new.sync_items_requested = pr.sync_items_requested
  <1>1. PICK left : left = pr.ids_of_items_being_processed \ {b}
    OBVIOUS
  <1>2. PICK x : x = IF b \in pr.ids_of_items_being_processed THEN b ELSE pr.last_block_delegate_has_seen
    OBVIOUS
  <1>3. PICK seen : seen = [pr EXCEPT !.ids_of_items_being_processed = left,
                                      !.last_block_delegate_has_seen = x]
    OBVIOUS
  <1> DEFINE mine == b \in pr.ids_of_items_being_processed
  <1>4. PICK next : next = IF mine /\ left = {} THEN fetch_next_batch_of_item_ids_from_peer(seen, cl) ELSE seen
    OBVIOUS
  <1>5. PeerOK(pr, p, h, cl.known) /\ pr \in PeerType
    BY KnowMore DEF PeerOK
  <1>6. seen = [pr EXCEPT !.ids_of_items_being_processed = left,
                          !.last_block_delegate_has_seen = IF mine THEN b ELSE @]
    BY <1>2, <1>3, <1>5 DEF PeerType
  <1>7. new = IF pr.list # "active" THEN pr
              ELSE IF pr.ids_of_items_to_get = <<>> /\ left = {} /\ ~pr.peer_needs /\ ~pr.we_need
              THEN start_synchronizing_with_peer(next, cl)
              ELSE next
    BY <1>1, <1>4, <1>6, Zenon DEF AfterSyncBlock
  <1>8. PeerOK(seen, p, h, cl.known) /\ seen.sync_items_requested = pr.sync_items_requested
        /\ seen.list = pr.list /\ seen \in PeerType
    <2>1. left \in SUBSET Blocks /\ x \in Blocks /\ (x \in cl.known \/ x = pr.last_block_delegate_has_seen)
      BY <1>1, <1>2, <1>5 DEF PeerType
    <2> QED
      <3>1. seen = Seen(pr, left, x)
        BY <1>3 DEF Seen
      <3>2. PICK L : L = cl.known
        OBVIOUS
      <3>3. PeerOK(pr, p, h, L) /\ (x \in L \/ x = pr.last_block_delegate_has_seen)
        BY <1>5, <2>1, <3>2
      <3>4. left \in SUBSET Blocks /\ x \in Blocks
        BY <2>1
      <3>5. PeerOK(Seen(pr, left, x), p, h, L) /\ Seen(pr, left, x).sync_items_requested = pr.sync_items_requested
            /\ Seen(pr, left, x).list = pr.list /\ Seen(pr, left, x) \in PeerType
        BY <3>3, <3>4, SeenOK
      <3> QED
        BY <3>1, <3>2, <3>5
  <1>9. CASE pr.list # "active"
    BY <1>5, <1>7, <1>9
  <1>10. CASE pr.list = "active"
    <2> HIDE DEF mine
    <2>1. PeerOK(next, p, h, cl.known) /\ next.sync_items_requested = pr.sync_items_requested /\ next.list # "none"
      <3>1. CASE next = seen
        BY <1>8, <1>10, <3>1
      <3>2. CASE next = fetch_next_batch_of_item_ids_from_peer(seen, cl)
        <4>1. PeerOK(next, p, h, cl.known) /\ next.sync_items_requested = pr.sync_items_requested
          BY <1>8, <3>2, FetchNextOK
        <4>2. next.list # "none"
          BY <1>8, <1>10, <3>2, ListStays
        <4> QED
          BY <4>1, <4>2
      <3> QED
        BY <1>4, <3>1, <3>2
    <2>2. CASE new = next
      BY <2>1, <2>2
    <2>3. CASE new = start_synchronizing_with_peer(next, cl)
      <3>1. next \in PeerType /\ Genesis \in cl.known
        BY <2>1 DEF PeerOK, ClientOK
      <3> QED
        BY <2>1, <2>3, <3>1, StartOK
    <2> QED
      BY <1>7, <1>10, <2>2, <2>3
  <1> QED
    BY <1>9, <1>10

LEMMA AllPeers ==
  ASSUME NEW pe, NEW rem, NEW K, pe = [p \in Peers |-> pe[p]],
         \A p \in Peers : PeerOK(pe[p], p, Base(rem[p]), K)
                  PROVE  PeersOK(pe, rem, K)
  <1>1. \A p \in Peers : pe[p] \in PeerType
    BY DEF PeerOK
  <1> QED
    BY <1>1 DEF PeersOK

LEMMA RemoveFetch == ASSUME NEW pe, NEW active, NEW new, NEW received, FetchOK(pe, active, new, received),
                            NEW k \in 1 .. Len(received)
                     PROVE  FetchOK(pe, active, new, RemoveAt(received, k))
  <1>1. Once(received, Range(received))
    BY DEF FetchOK, Once
  <1>2. PICK T \in SUBSET Range(received) : Once(RemoveAt(received, k), T)
    BY <1>1, OnceRemove
  <1>3. PICK left : left = RemoveAt(received, k)
    OBVIOUS
  <1>4. left \in Seq(Blocks) /\ IsInjective(left) /\ Range(left) \subseteq Range(received)
    BY <1>2, <1>3 DEF Once
  <1>5. Range(left) \cap active = {} /\ Range(new) \cap Range(left) = {}
    BY <1>4 DEF FetchOK
  <1>6. FetchOK(pe, active, new, left)
    BY <1>4, <1>5 DEF FetchOK
  <1> QED
    BY <1>3, <1>6

(* The next block is given to the client, which refuses or accepts it. *)
LEMMA NextBlockStep == ASSUME IInv, next_sync_block PROVE IInv'
  <1>1. PICK k : k = Min(NextItems)
    OBVIOUS
  <1>2. PICK b : b = _received_sync_items[k]
    OBVIOUS
  <1>3. PICK popped : popped = [p \in Peers |-> Popped(p, b)]
    OBVIOUS
  <1>4. /\ backlog.state = "running" /\ backlog.processed < maximum_number_of_blocks_to_handle_at_one_time
        /\ NextItems # {}
        /\ \/ peer' = popped /\ UNCHANGED <<client, _most_recent_blocks_accepted>>
           \/ /\ client' = ClientAfter(b) /\ _most_recent_blocks_accepted' = Recent(b)
              /\ peer' = [p \in Peers |-> AfterSyncBlock(popped[p], b, client')]
        /\ _received_sync_items' = RemoveAt(_received_sync_items, k)
        /\ backlog' = [backlog EXCEPT !.processed = @ + 1]
        /\ UNCHANGED <<_active_sync_requests, _new_received_sync_items, remote>>
    BY <1>1, <1>2, <1>3, Zenon DEF next_sync_block
  <1>5. FetchOK(peer, _active_sync_requests, _new_received_sync_items, _received_sync_items)
    BY DEF IInv
  <1>6. k \in 1 .. Len(_received_sync_items) /\ b \in Blocks
    <2>1. _received_sync_items \in Seq(Blocks)
      BY <1>5 DEF FetchOK
    <2>2. NextItems \subseteq 1 .. Len(_received_sync_items) /\ NextItems \subseteq Nat
      BY <2>1 DEF NextItems
    <2>3. k \in NextItems
      BY <1>1, <1>4, <2>2, MinIn
    <2> QED
      BY <1>2, <2>1, <2>2, <2>3
  <1>7. \A p \in Peers : /\ PeerOK(popped[p], p, Base(remote[p]), client.known)
                         /\ popped[p].sync_items_requested = peer[p].sync_items_requested
    BY <1>3, <1>6, PoppedOK
  <1>8. BacklogOK(backlog')
    <2>1. backlog \in [state : {"idle", "scheduled", "running"},
                       processed : 0 .. maximum_number_of_blocks_to_handle_at_one_time]
      BY DEF IInv, BacklogOK
    <2>2. backlog.processed + 1 \in 0 .. maximum_number_of_blocks_to_handle_at_one_time
      BY <1>4, <2>1, LimitsAssumption
    <2> QED
      BY <1>4, <2>1, <2>2 DEF BacklogOK
  <1>9. FetchOK(peer, _active_sync_requests, _new_received_sync_items, _received_sync_items')
    BY <1>4, <1>5, <1>6, RemoveFetch
  <1>10. CASE peer' = popped /\ UNCHANGED <<client, _most_recent_blocks_accepted>>
    <2>1. PeersOK(popped, remote, client.known)
      BY <1>3, <1>7, AllPeers
    <2>2. FetchOK(popped, _active_sync_requests, _new_received_sync_items, _received_sync_items')
      BY <1>7, <1>9, SameFetch
    <2> QED
      BY <1>4, <1>8, <1>10, <2>1, <2>2 DEF IInv
  <1>11. CASE /\ client' = ClientAfter(b) /\ _most_recent_blocks_accepted' = Recent(b)
              /\ peer' = [p \in Peers |-> AfterSyncBlock(popped[p], b, client')]
    <2>1. PICK cl : cl = client'
      OBVIOUS
    <2>2. ClientOK(cl) /\ client.known \subseteq cl.known /\ b \in cl.known
      BY <1>6, <1>11, <2>1, ClientKeeps
    <2>3. RecentOK(_most_recent_blocks_accepted', cl.known)
      BY <1>6, <1>11, <2>2, RecentKeeps
    <2>4. PICK pe : pe = [p \in Peers |-> AfterSyncBlock(popped[p], b, cl)]
      OBVIOUS
    <2>5. peer' = pe
      BY <1>11, <2>1, <2>4
    <2>6. ASSUME NEW p \in Peers
          PROVE  /\ PeerOK(pe[p], p, Base(remote[p]), cl.known)
                 /\ pe[p].sync_items_requested = peer[p].sync_items_requested
      <3>1. PICK pr : pr = popped[p]
        OBVIOUS
      <3>2. PICK K : K = client.known
        OBVIOUS
      <3>3. /\ PeerOK(pr, p, Base(remote[p]), K)
            /\ pr.sync_items_requested = peer[p].sync_items_requested
            /\ K \subseteq cl.known
        BY <1>7, <2>2, <3>1, <3>2
      <3>4. PICK new : new = AfterSyncBlock(pr, b, cl)
        OBVIOUS
      <3>5. PeerOK(new, p, Base(remote[p]), cl.known) /\ new.sync_items_requested = pr.sync_items_requested
        BY <1>6, <2>2, <3>3, <3>4, AfterOK
      <3>6. pe[p] = new
        BY <2>4, <3>1, <3>4
      <3> QED
        BY <3>3, <3>5, <3>6
    <2>7. PeersOK(pe, remote, cl.known)
      BY <2>4, <2>6, AllPeers
    <2>8. FetchOK(pe, _active_sync_requests, _new_received_sync_items, _received_sync_items')
      BY <1>9, <2>6, SameFetch
    <2> QED
      BY <1>4, <1>8, <2>1, <2>2, <2>3, <2>5, <2>7, <2>8 DEF IInv
  <1> QED
    BY <1>4, <1>10, <1>11

-----------------------------------------------------------------------------
(* Blocks in normal operation *)

(* Connections change, more blocks are known, and no request for a block. *)
LEMMA PeersStep == ASSUME IInv, NEW pe, peer' = pe, NEW cl, client' = cl, ClientOK(cl),
                          PeersOK(pe, remote, cl.known), RecentOK(_most_recent_blocks_accepted', cl.known),
                          \A q \in Peers : pe[q].sync_items_requested = peer[q].sync_items_requested,
                          UNCHANGED <<_active_sync_requests, _new_received_sync_items, _received_sync_items,
                                      backlog, remote>>
                   PROVE  IInv'
  <1>1. FetchOK(pe, _active_sync_requests, _new_received_sync_items, _received_sync_items)
    BY SameFetch DEF IInv
  <1> QED
    BY <1>1 DEF IInv

(* The announced block becomes the reference point of who announced it. *)
Announced(Q, b) ==
  [q \in Peers |-> IF q \in Q THEN [peer[q] EXCEPT !.last_block_delegate_has_seen = b] ELSE peer[q]]

LEMMA AnnouncedOK ==
  ASSUME IInv, NEW b \in Blocks, NEW cl, ClientOK(cl), client.known \subseteq cl.known, b \in cl.known,
                            NEW Q \in SUBSET Peers, \A q \in Q : peer[q].list = "active", NEW pe,
                            pe = Announced(Q, b)
                     PROVE  /\ PeersOK(pe, remote, cl.known)
                            /\ \A q \in Peers : pe[q].sync_items_requested = peer[q].sync_items_requested
  <1>1. ASSUME NEW q \in Peers
        PROVE  /\ PeerOK(pe[q], q, Base(remote[q]), cl.known)
               /\ pe[q].sync_items_requested = peer[q].sync_items_requested
    <2>1. PICK pr : pr = peer[q]
      OBVIOUS
    <2>2. PeerOK(pr, q, Base(remote[q]), cl.known) /\ pr \in PeerType
      <3>1. PeerOK(pr, q, Base(remote[q]), client.known)
        BY <2>1, OfPeer
      <3> QED
        BY <3>1 DEF PeerOK
    <2>3. CASE q \notin Q
      BY <2>1, <2>2, <2>3 DEF Announced
    <2>4. CASE q \in Q
      <3>1. PICK new : new = [pr EXCEPT !.last_block_delegate_has_seen = b]
        OBVIOUS
      <3>2. /\ new \in PeerType /\ new.list = pr.list /\ new.ids_of_items_to_get = pr.ids_of_items_to_get
            /\ new.item_ids_requested = pr.item_ids_requested /\ new.sync_items_requested = pr.sync_items_requested
            /\ new.last_block_delegate_has_seen = b
        BY <2>2, <3>1 DEF PeerType
      <3>3. PeerOK(new, q, Base(remote[q]), cl.known)
        BY <2>2, <3>2 DEF PeerOK
      <3>4. pe[q] = new
        BY <2>1, <2>4, <3>1 DEF Announced
      <3> QED
        BY <2>1, <3>2, <3>3, <3>4
    <2> QED
      BY <2>3, <2>4
  <1>2. pe = [q \in Peers |-> pe[q]]
    BY DEF Announced
  <1>3. PICK K : K = cl.known
    OBVIOUS
  <1>4. \A q \in Peers : PeerOK(pe[q], q, Base(remote[q]), K)
    BY <1>1, <1>3
  <1>5. PeersOK(pe, remote, K)
    BY <1>2, <1>4, AllPeers
  <1> QED
    BY <1>1, <1>3, <1>5

LEMMA AcceptedStep == ASSUME IInv, NEW p \in Peers, NEW b \in Blocks, normal_block_accepted(p, b),
                             UNCHANGED <<_active_sync_requests, _new_received_sync_items, _received_sync_items,
                                         backlog, remote>>
                      PROVE  IInv'
  <1>1. PICK Q \in SUBSET {q \in Active : OnChain(b, remote[q].head)} :
          peer' = [q \in Peers |->
                     IF q \in Q THEN [peer[q] EXCEPT !.last_block_delegate_has_seen = b] ELSE peer[q]]
    BY DEF normal_block_accepted, AnnouncedBy
  <1>2. Q \in SUBSET Peers /\ \A q \in Q : peer[q].list = "active"
    BY <1>1 DEF Active
  <1>3. PICK cl : cl = client'
    OBVIOUS
  <1>4. ClientOK(cl) /\ client.known \subseteq cl.known /\ b \in cl.known
        /\ RecentOK(_most_recent_blocks_accepted', cl.known)
    <2>1. CASE b \in Range(_most_recent_blocks_accepted)
      <3>1. _most_recent_blocks_accepted' = Recent(b) /\ client' = client
        BY <2>1 DEF normal_block_accepted
      <3>2. b \in client.known /\ ClientOK(client)
        BY <2>1 DEF IInv, RecentOK
      <3>3. RecentOK(Recent(b), client.known)
        BY <3>2, RecentKeeps
      <3> QED
        BY <1>3, <3>1, <3>2, <3>3
    <2>2. CASE b \notin Range(_most_recent_blocks_accepted)
      <3>1. PICK s : s = Recent(b)
        OBVIOUS
      <3>2. PICK all : all = s \o <<b>>
        OBVIOUS
      <3>3. /\ client' = ClientAfter(b)
            /\ _most_recent_blocks_accepted' = IF Len(all) > RecentCapacity THEN Tail(all) ELSE all
        BY <2>2, <3>1, <3>2, Zenon DEF normal_block_accepted
      <3>4. ClientOK(cl) /\ client.known \subseteq cl.known /\ b \in cl.known
        BY <1>3, <3>3, ClientKeeps
      <3>5. PICK K : K = cl.known
        OBVIOUS
      <3>6. RecentOK(s, K)
        BY <3>1, <3>4, <3>5, RecentKeeps
      <3>7. all = Append(s, b)
        <4>1. s \in Seq(Blocks)
          BY <3>6 DEF RecentOK
        <4> QED
          BY <3>2, <4>1
      <3>8. PICK new : new = _most_recent_blocks_accepted'
        OBVIOUS
      <3>9. RecentOK(new, K)
        <4>1. new = IF Len(all) > RecentCapacity THEN Tail(all) ELSE all
          BY <3>3, <3>8
        <4> QED
          BY <3>4, <3>5, <3>6, <3>7, <4>1, PushOK
      <3> QED
        BY <3>4, <3>5, <3>8, <3>9
    <2> QED
      BY <2>1, <2>2
  <1>5. PICK pe : pe = peer'
    OBVIOUS
  <1>6. pe = Announced(Q, b)
    BY <1>1, <1>5 DEF Announced
  <1>7. PeersOK(pe, remote, cl.known) /\ \A q \in Peers : pe[q].sync_items_requested = peer[q].sync_items_requested
    BY <1>2, <1>4, <1>6, AnnouncedOK
  <1> QED
    BY <1>3, <1>4, <1>5, <1>7, PeersStep

LEMMA UnlinkableStep == ASSUME IInv, NEW p \in Peers, NEW b \in Blocks, normal_block_unlinkable(p, b),
                               peer[p].list = "active",
                               UNCHANGED <<_active_sync_requests, _new_received_sync_items, _received_sync_items,
                                           backlog, remote>>
                        PROVE  IInv'
  <1>1. PICK new : new = start_synchronizing_with_peer(peer[p], client)
    OBVIOUS
  <1>2. /\ peer' = [peer EXCEPT ![p] = new] /\ UNCHANGED <<client, _most_recent_blocks_accepted>>
    BY <1>1 DEF normal_block_unlinkable
  <1>3. PeerOK(new, p, Base(remote[p]), client.known) /\ new.sync_items_requested = peer[p].sync_items_requested
    <2>1. PICK pr : pr = peer[p]
      OBVIOUS
    <2>2. pr \in PeerType /\ pr.list # "none" /\ ClientOK(client) /\ Genesis \in client.known
      BY <2>1, OfPeer
    <2>3. PeerOK(new, p, Base(remote[p]), client.known) /\ new.sync_items_requested = pr.sync_items_requested
      BY <1>1, <2>1, <2>2, StartOK
    <2> QED
      BY <2>1, <2>3
  <1>4. UNCHANGED <<sync_state, client, remote>>
    BY <1>2 DEF sync_state
  <1> QED
    BY <1>2, <1>3, <1>4, PeerStep

LEMMA RejectedStep == ASSUME IInv, NEW p \in Peers, NEW b \in Blocks, normal_block_rejected(p, b),
                             UNCHANGED <<_active_sync_requests, _new_received_sync_items, _received_sync_items,
                                         backlog, remote>>
                      PROVE  IInv'
  <1>1. PICK pe : pe = peer'
    OBVIOUS
  <1>2. /\ pe = [q \in Peers |-> IF q = p \/ (q \in Active /\ FrontIs(q, b))
                                 THEN disconnect_from_peer(peer[q]) ELSE peer[q]]
        /\ UNCHANGED <<client, _most_recent_blocks_accepted>>
    BY <1>1 DEF normal_block_rejected
  <1>3. ASSUME NEW q \in Peers
        PROVE  /\ PeerOK(pe[q], q, Base(remote[q]), client.known)
               /\ pe[q].sync_items_requested = peer[q].sync_items_requested
    <2>1. PeerOK(peer[q], q, Base(remote[q]), client.known)
      BY OfPeer
    <2>2. /\ PeerOK(disconnect_from_peer(peer[q]), q, Base(remote[q]), client.known)
          /\ disconnect_from_peer(peer[q]).sync_items_requested = peer[q].sync_items_requested
      BY <2>1, DisconnectOK
    <2>3. pe[q] = disconnect_from_peer(peer[q]) \/ pe[q] = peer[q]
      BY <1>2
    <2> QED
      BY <2>1, <2>2, <2>3
  <1>4. pe = [q \in Peers |-> pe[q]]
    BY <1>2
  <1>5. PeersOK(pe, remote, client.known)
    BY <1>3, <1>4, AllPeers
  <1>6. PICK cl : cl = client
    OBVIOUS
  <1>7. /\ client' = cl /\ ClientOK(cl) /\ PeersOK(pe, remote, cl.known)
        /\ RecentOK(_most_recent_blocks_accepted', cl.known)
    BY <1>2, <1>5, <1>6 DEF IInv
  <1> QED
    BY <1>1, <1>3, <1>7, PeersStep

LEMMA NormalStep == ASSUME IInv, NEW p \in Peers, NEW b \in Blocks, process_block_during_normal_operation(p, b)
                    PROVE  IInv'
  <1>1. /\ peer[p].list = "active"
        /\ UNCHANGED <<_active_sync_requests, _new_received_sync_items, _received_sync_items, backlog, remote>>
        /\ \/ normal_block_accepted(p, b) \/ normal_block_unlinkable(p, b) \/ normal_block_rejected(p, b)
    BY DEF process_block_during_normal_operation
  <1> QED
    BY <1>1, AcceptedStep, UnlinkableStep, RejectedStep

-----------------------------------------------------------------------------
(* A pass of fetch_sync_items_loop *)

(* No more positions than there is room for. *)
LEMMA FirstFew == ASSUME NEW n \in Nat, NEW wanted \in SUBSET (1 .. n), NEW room \in Nat,
                         NEW few, few = {j \in wanted : Cardinality(wanted \cap 1 .. j) <= room}
                  PROVE  IsFiniteSet(few) /\ Cardinality(few) <= room /\ few \subseteq wanted
  <1>1. IsFiniteSet(1 .. n)
    BY FS_Interval
  <1>2. IsFiniteSet(wanted) /\ few \subseteq wanted
    BY <1>1, FS_Subset
  <1>3. IsFiniteSet(few)
    BY <1>2, FS_Subset
  <1>4. CASE few = {}
    <2>1. Cardinality(few) = 0
      BY <1>4, FS_EmptySet
    <2>2. Cardinality(few) <= room
      BY <2>1
    <2> QED
      BY <1>2, <1>3, <2>2
  <1>5. CASE few # {}
    <2>1. PICK m : m = Max(few)
      OBVIOUS
    <2>2. m \in few /\ \A y \in few : m >= y
      <3>1. few \in SUBSET (1 .. n)
        BY <1>2
      <3> QED
        BY <1>5, <2>1, <3>1, MaxIn
    <2>3. PICK part : part = wanted \cap 1 .. m
      OBVIOUS
    <2>4. few \subseteq part
      <3> SUFFICES ASSUME NEW y \in few PROVE y \in wanted /\ y \in 1 .. m
        BY <2>3
      <3>1. y \in wanted /\ m \in wanted /\ m >= y
        BY <1>2, <2>2
      <3>2. y \in 1 .. n /\ m \in 1 .. n
        BY <3>1
      <3>3. y \in 1 .. m
        BY <3>1, <3>2
      <3> QED
        BY <3>1, <3>3
    <2>5. Cardinality(part) <= room
      BY <2>2, <2>3
    <2>6. IsFiniteSet(part)
      BY <1>2, <2>3, FS_Subset
    <2>7. Cardinality(few) <= Cardinality(part) /\ Cardinality(few) \in Nat /\ Cardinality(part) \in Nat
      BY <1>3, <2>4, <2>6, FS_Subset, FS_CardinalityType
    <2> QED
      BY <1>2, <1>3, <2>5, <2>7
  <1> QED
    BY <1>4, <1>5

LEMMA ItemsOf == ASSUME NEW ids \in Seq(Items), NEW few \in SUBSET (1 .. Len(ids)), IsFiniteSet(few),
                        NEW room \in Nat, Cardinality(few) <= room, NEW items, items = {ids[i] : i \in few}
                 PROVE  IsFiniteSet(items) /\ Cardinality(items) <= room /\ items \in SUBSET Blocks
  <1>1. PICK f : f = [i \in few |-> ids[i]]
    OBVIOUS
  <1>2. f \in Surjection(few, items)
    BY <1>1 DEF Surjection
  <1>3. IsFiniteSet(items) /\ Cardinality(items) <= Cardinality(few)
    BY <1>2, FS_Surjection
  <1>4. items \in SUBSET Blocks
    BY DEF Items
  <1> QED
    BY <1>3, <1>4, FS_CardinalityType

LEMMA MinOfTwo == ASSUME NEW a \in Nat, NEW b \in Nat
                  PROVE  Min({a, b}) \in Nat /\ Min({a, b}) <= a /\ Min({a, b}) <= b
  <1>1. {a, b} \in SUBSET Nat /\ {a, b} # {}
    OBVIOUS
  <1> QED
    BY <1>1, MinIn

(* What holds between the shares of the peers *)
Pass(acc) ==
  /\ acc = [peer |-> acc.peer, items |-> acc.items]
  /\ PeersOK(acc.peer, remote, client.known)
  /\ \A p \in Peers : acc.peer[p].list = peer[p].list
  /\ acc.items \in SUBSET Blocks /\ IsFiniteSet(acc.items) /\ acc.items \cap _active_sync_requests = {}
  /\ FetchOK(acc.peer, _active_sync_requests \cup acc.items, _new_received_sync_items, _received_sync_items)

(* More is asked of one peer. *)
LEMMA AskMore ==
  ASSUME NEW pe, NEW active, NEW new, NEW received, FetchOK(pe, active, new, received), NEW p \in Peers,
         NEW items \in SUBSET Blocks, IsFiniteSet(items), items \cap active = {},
         items \cap (Range(new) \cup Range(received)) = {},
         Cardinality(items) <= maximum_blocks_per_peer_during_syncing - Cardinality(pe[p].sync_items_requested),
         Cardinality(items) <= maximum_number_of_sync_blocks_to_prefetch + 1 - Cardinality(active) - Len(new),
         NEW pe2, pe2[p].sync_items_requested = pe[p].sync_items_requested \cup items,
         \A q \in Peers \ {p} : pe2[q].sync_items_requested = pe[q].sync_items_requested
  PROVE  FetchOK(pe2, active \cup items, new, received)
  <1> DEFINE mine == pe[p].sync_items_requested
             all == active \cup items
  <1>1. mine \subseteq active /\ IsFiniteSet(active) /\ mine \cap items = {}
    BY DEF FetchOK
  <1>2. IsFiniteSet(mine)
    BY <1>1, FS_Subset
  <1>3. /\ Cardinality(mine) \in Nat /\ Cardinality(active) \in Nat /\ Cardinality(items) \in Nat
        /\ Len(new) \in Nat
    BY <1>1, <1>2, FS_CardinalityType DEF FetchOK
  <1> HIDE DEF mine
  <1>4. /\ IsFiniteSet(mine \cup items) /\ Cardinality(mine \cup items) = Cardinality(mine) + Cardinality(items)
        /\ IsFiniteSet(all) /\ Cardinality(all) = Cardinality(active) + Cardinality(items)
    <2>1. Cardinality(mine \cap items) = 0 /\ Cardinality(active \cap items) = 0
      <3>1. active \cap items = {}
        OBVIOUS
      <3> QED
        BY <1>1, <3>1, FS_EmptySet
    <2>2. Cardinality(mine \cup items) = Cardinality(mine) + Cardinality(items) - Cardinality(mine \cap items)
      BY <1>2, FS_Union
    <2>3. Cardinality(all) = Cardinality(active) + Cardinality(items) - Cardinality(active \cap items)
      BY <1>1, FS_Union
    <2>4. IsFiniteSet(mine \cup items) /\ IsFiniteSet(all)
      BY <1>1, <1>2, FS_Union
    <2> QED
      BY <1>3, <2>1, <2>2, <2>3, <2>4
  <1>5. /\ Cardinality(mine \cup items) <= maximum_blocks_per_peer_during_syncing
        /\ Cardinality(all) + Len(new) <= maximum_number_of_sync_blocks_to_prefetch + 1
    <2> HIDE DEF all
    <2>1. Cardinality(items) <= maximum_blocks_per_peer_during_syncing - Cardinality(mine)
      BY DEF mine
    <2> QED
      BY <1>3, <1>4, <2>1, LimitsAssumption
  <1>6. ASSUME NEW q \in Peers
        PROVE  /\ pe2[q].sync_items_requested \subseteq all
               /\ Cardinality(pe2[q].sync_items_requested) <= maximum_blocks_per_peer_during_syncing
    <2>1. CASE q = p
      <3>1. pe2[q].sync_items_requested = mine \cup items
        BY <2>1 DEF mine
      <3> QED
        BY <1>1, <1>5, <3>1
    <2>2. CASE q # p
      <3>1. pe2[q].sync_items_requested = pe[q].sync_items_requested
        BY <2>2
      <3> QED
        BY <3>1 DEF FetchOK
    <2> QED
      BY <2>1, <2>2
  <1>7. ASSUME NEW q \in Peers, NEW r \in Peers, q # r
        PROVE  pe2[q].sync_items_requested \cap pe2[r].sync_items_requested = {}
    <2>1. /\ pe[q].sync_items_requested \cap pe[r].sync_items_requested = {}
          /\ pe[q].sync_items_requested \cap items = {} /\ pe[r].sync_items_requested \cap items = {}
      BY <1>7 DEF FetchOK
    <2>2. CASE q = p
      <3>1. pe2[q].sync_items_requested = pe[q].sync_items_requested \cup items
            /\ pe2[r].sync_items_requested = pe[r].sync_items_requested
        BY <1>7, <2>2
      <3> QED
        BY <2>1, <3>1
    <2>3. CASE r = p
      <3>1. pe2[r].sync_items_requested = pe[r].sync_items_requested \cup items
            /\ pe2[q].sync_items_requested = pe[q].sync_items_requested
        BY <1>7, <2>3
      <3> QED
        BY <2>1, <3>1
    <2>4. CASE q # p /\ r # p
      <3>1. pe2[r].sync_items_requested = pe[r].sync_items_requested
            /\ pe2[q].sync_items_requested = pe[q].sync_items_requested
        BY <2>4
      <3> QED
        BY <2>1, <3>1
    <2> QED
      BY <2>2, <2>3, <2>4
  <1>8. all \in SUBSET Blocks /\ Range(new) \cap all = {} /\ Range(received) \cap all = {}
    BY DEF FetchOK
  <1> HIDE DEF all
  <1>9. FetchOK(pe2, all, new, received)
    BY <1>4, <1>5, <1>6, <1>7, <1>8 DEF FetchOK
  <1> QED
    BY <1>9 DEF all

LEMMA RequestKeeps == ASSUME NEW acc, Pass(acc), NEW p \in Active PROVE Pass(RequestFrom(acc, p))
  <1> DEFINE Wanted(x) == {i \in DOMAIN x : /\ x[i] \notin acc.items \cup _active_sync_requests
                                            /\ ~Received(x[i])}
             A == maximum_blocks_per_peer_during_syncing - Cardinality(acc.peer[p].sync_items_requested)
             B == maximum_number_of_sync_blocks_to_prefetch + 1 - Cardinality(acc.items)
                    - Cardinality(_active_sync_requests) - Len(_new_received_sync_items)
             Few(w) == {j \in w : Cardinality(w \cap 1 .. j) <= Min({A, B})}
             I == {acc.peer[p].ids_of_items_to_get[i] : i \in Few(Wanted(acc.peer[p].ids_of_items_to_get))}
             P == [acc.peer EXCEPT ![p].sync_items_requested = @ \cup I]
  <1>0. RequestFrom(acc, p) = IF acc.peer[p].inhibit \/ ~acc.peer[p].we_need THEN acc
                              ELSE [peer |-> P, items |-> acc.items \cup I]
    BY Zenon DEF RequestFrom
  <1>1. PICK pe : pe = acc.peer
    OBVIOUS
  <1>2. PICK given : given = acc.items
    OBVIOUS
  <1>3. PICK pr : pr = pe[p]
    OBVIOUS
  <1>4. PICK ids : ids = pr.ids_of_items_to_get
    OBVIOUS
  <1>w. PICK wanted : wanted = Wanted(ids)
    OBVIOUS
  <1>5. wanted = {i \in DOMAIN ids : ids[i] \notin given \cup _active_sync_requests /\ ~Received(ids[i])}
    BY <1>2, <1>w
  <1>6. PICK a : a = maximum_blocks_per_peer_during_syncing - Cardinality(pr.sync_items_requested)
    OBVIOUS
  <1>7. PICK b : b = maximum_number_of_sync_blocks_to_prefetch + 1 - Cardinality(given)
                       - Cardinality(_active_sync_requests) - Len(_new_received_sync_items)
    OBVIOUS
  <1>8. PICK room : room = Min({a, b})
    OBVIOUS
  <1>c. A = a /\ B = b
    BY <1>1, <1>2, <1>3, <1>6, <1>7
  <1>f. PICK few : few = Few(wanted)
    OBVIOUS
  <1>9. few = {j \in wanted : Cardinality(wanted \cap 1 .. j) <= room}
    <2> HIDE DEF A, B
    <2> QED
      BY <1>8, <1>c, <1>f
  <1>10. PICK items : items = {ids[i] : i \in few}
    OBVIOUS
  <1>11. PICK pe2 : pe2 = [pe EXCEPT ![p].sync_items_requested = @ \cup items]
    OBVIOUS
  <1>i. I = items /\ P = pe2
    <2> HIDE DEF Wanted, Few
    <2>1. I = items
      BY <1>1, <1>3, <1>4, <1>w, <1>f, <1>10
    <2> HIDE DEF I
    <2> QED
      BY <1>1, <1>11, <2>1
  <1> HIDE DEF A, B, Wanted, Few, I, P
  <1>12. RequestFrom(acc, p) = IF pr.inhibit \/ ~pr.we_need THEN acc
                               ELSE [peer |-> pe2, items |-> given \cup items]
    BY <1>0, <1>1, <1>2, <1>3, <1>i
  <1> DEFINE active == _active_sync_requests
             new == _new_received_sync_items
             received == _received_sync_items
             all == active \cup given
  <1>13. /\ PeersOK(pe, remote, client.known) /\ \A q \in Peers : pe[q].list = peer[q].list
         /\ given \in SUBSET Blocks /\ IsFiniteSet(given) /\ given \cap active = {}
         /\ FetchOK(pe, all, new, received)
    BY <1>1, <1>2 DEF Pass
  <1>14. p \in Peers /\ peer[p].list = "active"
    BY DEF Active
  <1>15. pr \in PeerType /\ PeerOK(pr, p, Base(remote[p]), client.known) /\ pr.list # "none"
    BY <1>3, <1>13, <1>14 DEF PeersOK
  <1>16. ids \in Seq(Items) /\ DOMAIN ids = 1 .. Len(ids) /\ Len(ids) \in Nat
    BY <1>4, <1>15 DEF PeerType
  <1>17. wanted \in SUBSET (1 .. Len(ids))
    BY <1>5, <1>16
  <1>18. /\ IsFiniteSet(active) /\ Cardinality(active) \in Nat /\ Cardinality(given) \in Nat
         /\ Cardinality(all) = Cardinality(active) + Cardinality(given)
    <2>1. IsFiniteSet(all)
      BY <1>13 DEF FetchOK
    <2>2. IsFiniteSet(active)
      BY <2>1, FS_Subset
    <2>3. Cardinality(active) \in Nat /\ Cardinality(given) \in Nat
      BY <1>13, <2>2, FS_CardinalityType
    <2>4. Cardinality(active \cap given) = 0
      <3>1. active \cap given = {}
        BY <1>13
      <3> QED
        BY <3>1, FS_EmptySet
    <2> HIDE DEF active
    <2>5. Cardinality(active \cup given) = Cardinality(active) + Cardinality(given) - Cardinality(active \cap given)
      BY <1>13, <2>2, FS_Union
    <2> QED
      BY <2>2, <2>3, <2>4, <2>5
  <1>19. a \in Nat /\ b \in Nat /\ b = maximum_number_of_sync_blocks_to_prefetch + 1 - Cardinality(all) - Len(new)
    <2>1. /\ Cardinality(pr.sync_items_requested) <= maximum_blocks_per_peer_during_syncing
          /\ pr.sync_items_requested \subseteq all /\ IsFiniteSet(all)
          /\ Cardinality(all) + Len(new) <= maximum_number_of_sync_blocks_to_prefetch + 1
          /\ Len(new) \in Nat
      BY <1>3, <1>13, <1>14 DEF FetchOK
    <2> HIDE DEF all, new, active
    <2>2. Cardinality(pr.sync_items_requested) \in Nat
      BY <2>1, FS_Subset, FS_CardinalityType
    <2>3. b = maximum_number_of_sync_blocks_to_prefetch + 1 - Cardinality(given) - Cardinality(active) - Len(new)
      BY <1>7 DEF active, new
    <2> QED
      BY <1>6, <1>18, <2>1, <2>2, <2>3, LimitsAssumption
  <1>20. room \in Nat /\ room <= a /\ room <= b
    BY <1>8, <1>19, MinOfTwo
  <1>21. IsFiniteSet(few) /\ Cardinality(few) <= room /\ few \subseteq wanted
    BY <1>9, <1>16, <1>17, <1>20, FirstFew
  <1>22. IsFiniteSet(items) /\ Cardinality(items) <= room /\ items \in SUBSET Blocks
    <2>1. few \in SUBSET (1 .. Len(ids))
      BY <1>17, <1>21
    <2> QED
      BY <1>10, <1>16, <1>20, <1>21, <2>1, ItemsOf
  <1>23. items \cap all = {} /\ items \cap (Range(new) \cup Range(received)) = {}
    BY <1>5, <1>10, <1>21 DEF Received
  <1>24. CASE pr.inhibit \/ ~pr.we_need
    BY <1>12, <1>24
  <1>25. CASE ~ (pr.inhibit \/ ~pr.we_need)
    <2>1. RequestFrom(acc, p) = [peer |-> pe2, items |-> given \cup items]
      BY <1>12, <1>25
    <2>2. PICK S : S = pr.sync_items_requested \cup items
      OBVIOUS
    <2>3. PICK npr : npr = [pr EXCEPT !.sync_items_requested = S]
      OBVIOUS
    <2>4. pe2 = [pe EXCEPT ![p] = npr]
      BY <1>3, <1>11, <2>2, <2>3
    <2>5. S \in SUBSET Blocks
      BY <1>15, <1>22, <2>2 DEF PeerType
    <2>6. PeerOK(npr, p, Base(remote[p]), client.known) /\ npr.sync_items_requested = S /\ npr.list = pr.list
      BY <1>15, <2>3, <2>5, ItemsOK
    <2>7. PeersOK(pe2, remote, client.known)
      BY <1>13, <1>14, <2>4, <2>6, OnePeer
    <2>8. pe2[p] = npr /\ \A q \in Peers \ {p} : pe2[q] = pe[q]
      BY <1>13, <1>14, <2>4 DEF PeersOK
    <2>9. \A q \in Peers : pe2[q].list = peer[q].list
      BY <1>3, <1>13, <2>6, <2>8
    <2> HIDE DEF all, new, received
    <2>10. FetchOK(pe2, all \cup items, new, received)
      <3>1. Cardinality(items) \in Nat /\ Cardinality(all) \in Nat
        BY <1>18, <1>22, FS_CardinalityType
      <3>2. /\ Cardinality(items) <= maximum_blocks_per_peer_during_syncing - Cardinality(pe[p].sync_items_requested)
            /\ Cardinality(items) <= maximum_number_of_sync_blocks_to_prefetch + 1 - Cardinality(all) - Len(new)
        <4>1. Cardinality(items) <= a /\ Cardinality(items) <= b
          BY <1>19, <1>20, <1>22, <3>1
        <4> QED
          BY <1>3, <1>6, <1>19, <4>1
      <3>3. /\ pe2[p].sync_items_requested = pe[p].sync_items_requested \cup items
            /\ \A q \in Peers \ {p} : pe2[q].sync_items_requested = pe[q].sync_items_requested
        BY <1>3, <2>2, <2>6, <2>8
      <3> QED
        BY <1>13, <1>14, <1>22, <1>23, <3>2, <3>3, AskMore
    <2>11. PICK more : more = given \cup items
      OBVIOUS
    <2>12. more \in SUBSET Blocks /\ IsFiniteSet(more) /\ more \cap active = {} /\ active \cup more = all \cup items
      <3>1. IsFiniteSet(more)
        BY <1>13, <1>22, <2>11, FS_Union
      <3> QED
        BY <1>13, <1>22, <1>23, <2>11, <3>1 DEF all
    <2>13. PICK next : next = [peer |-> pe2, items |-> more]
      OBVIOUS
    <2>14. next.peer = pe2 /\ next.items = more /\ next = [peer |-> next.peer, items |-> next.items]
      BY <2>13
    <2>15. Pass(next)
      BY <2>7, <2>9, <2>10, <2>12, <2>14 DEF Pass, new, received
    <2> QED
      BY <2>1, <2>11, <2>13, <2>15
  <1> QED
    BY <1>24, <1>25

(* Induction over the subsets of a finite set *)
LEMMA SubsetInduct == ASSUME NEW S, IsFiniteSet(S), NEW T \in SUBSET (SUBSET S),
                             \A s \in SUBSET S : (\A t \in SUBSET s : t # s => t \in T) => s \in T
                      PROVE  T = SUBSET S
  <1> SUFFICES ASSUME (SUBSET S) \ T # {} PROVE FALSE
    OBVIOUS
  <1>1. IsWellFoundedOn(StrictSubsetOrdering(S), SUBSET S)
    BY FS_StrictSubsetOrderingWellFounded, FS_FiniteSubsetsOfFinite
  <1> DEFINE Rest == (SUBSET S) \ T
  <1>0. Rest \subseteq SUBSET S /\ Rest # {}
    OBVIOUS
  <1> HIDE DEF Rest
  <1>2. PICK s \in Rest : \A t \in Rest : ~ (<<t, s>> \in StrictSubsetOrdering(S))
    BY <1>0, <1>1, WFMin
  <1> USE DEF Rest
  <1>3. ASSUME NEW t \in SUBSET s, t # s PROVE t \in T
    <2>1. <<t, s>> \in StrictSubsetOrdering(S)
      BY <1>3 DEF StrictSubsetOrdering
    <2> QED
      BY <1>2, <2>1
  <1> QED
    BY <1>2, <1>3

(* The recursive function that FoldLeft uses for the order of the peers *)
Iter(g, start, order, S) ==
  g = [s \in SUBSET S |-> IF s = {} THEN start ELSE RequestFrom(g[s \ {Max(s)}], order[Max(s)])]

RequestAll(start, order) == FoldLeft(RequestFrom, start, order)

LEMMA FoldIs == ASSUME NEW start, NEW order
                PROVE  RequestAll(start, order) = (CHOOSE g : Iter(g, start, order, DOMAIN order))[DOMAIN order]
  BY Zenon DEF RequestAll, FoldLeft, MapThenFoldSet, Iter

LEMMA IterStart == ASSUME NEW start, NEW order, NEW S, NEW g, Iter(g, start, order, S) PROVE g[{}] = start
  BY DEF Iter

LEMMA IterNext == ASSUME NEW start, NEW order, NEW S, NEW g, Iter(g, start, order, S), NEW s \in SUBSET S, s # {}
                  PROVE  g[s] = RequestFrom(g[s \ {Max(s)}], order[Max(s)])
  BY DEF Iter

(* It does not depend on the set that it is defined on. *)
LEMMA IterAgree == ASSUME NEW start, NEW order, NEW T, IsFiniteSet(T), \A s \in SUBSET T : s # {} => Max(s) \in s,
                          NEW h, Iter(h, start, order, T),
                          NEW S, S \subseteq T, NEW g, Iter(g, start, order, S)
                   PROVE  g[S] = h[S]
  <1> DEFINE U == {u \in SUBSET S : g[u] = h[u]}
  <1>1. ASSUME NEW t \in SUBSET S, \A u \in SUBSET t : u # t => u \in U PROVE t \in U
    <2>1. t \in SUBSET S /\ t \in SUBSET T
      OBVIOUS
    <2>2. CASE t = {}
      BY <2>2, IterStart
    <2>3. CASE t # {}
      <3>1. Max(t) \in t
        BY <2>1, <2>3
      <3>2. t \ {Max(t)} \in U
        BY <1>1, <3>1
      <3>3. g[t \ {Max(t)}] = h[t \ {Max(t)}]
        BY <3>2
      <3>4. g[t] = RequestFrom(g[t \ {Max(t)}], order[Max(t)])
        BY <2>1, <2>3 DEF Iter
      <3>5. h[t] = RequestFrom(h[t \ {Max(t)}], order[Max(t)])
        BY <2>1, <2>3 DEF Iter
      <3> QED
        BY <3>3, <3>4, <3>5
    <2> QED
      BY <2>2, <2>3
  <1>2. U \in SUBSET (SUBSET S) /\ IsFiniteSet(S)
    BY FS_Subset
  <1>3. U = SUBSET S
    <2> HIDE DEF U
    <2> QED
      BY <1>1, <1>2, SubsetInduct
  <1> QED
    BY <1>3

(* The recursion defines a function. *)
LEMMA IterExists == ASSUME NEW start, NEW order, NEW n \in Nat PROVE \E g : Iter(g, start, order, 1 .. n)
  <1> DEFINE S == 1 .. n
             T == {t \in SUBSET S : \E g : Iter(g, start, order, t)}
  <1>1. ASSUME NEW t \in SUBSET S, \A u \in SUBSET t : u # t => u \in T PROVE t \in T
    <2> DEFINE less(s) == s \ {Max(s)}
               part(s) == CHOOSE g : Iter(g, start, order, s)
               next(s) == IF s = {} THEN start ELSE RequestFrom(part(less(s))[less(s)], order[Max(s)])
               g == [s \in SUBSET t |-> next(s)]
    <2>1. \A s \in SUBSET t : s # {} => Max(s) \in s
      BY MaxIn
    <2>2. ASSUME NEW s \in SUBSET t, s # t PROVE Iter(part(s), start, order, s)
      BY <1>1, <2>2
    <2>3. ASSUME NEW s \in SUBSET t, s # {} PROVE g[less(s)] = part(less(s))[less(s)]
      <3> DEFINE u == less(s)
      <3>1. u \in SUBSET t /\ u # t /\ Iter(part(u), start, order, u)
        BY <2>1, <2>2, <2>3
      <3>2. CASE u = {}
        <4>1. part(u)[u] = start
          <5> HIDE DEF part, u
          <5> QED
            BY <3>1, <3>2, IterStart
        <4> QED
          BY <3>1, <3>2, <4>1
      <3>3. CASE u # {}
        <4>1. less(u) \in SUBSET u /\ less(u) # t /\ Iter(part(less(u)), start, order, less(u))
          BY <2>1, <2>2, <3>1, <3>3
        <4>2. IsFiniteSet(u) /\ \A x \in SUBSET u : x # {} => Max(x) \in x
          <5> HIDE DEF u
          <5>1. u \in SUBSET (1 .. n)
            BY <3>1
          <5>2. IsFiniteSet(1 .. n)
            BY FS_Interval
          <5> QED
            BY <5>1, <5>2, FS_Subset, MaxIn
        <4>3. part(less(u))[less(u)] = part(u)[less(u)]
          <5> DEFINE v == less(u)
                     a == part(u)
                     b == part(v)
          <5>1. v \subseteq u /\ Iter(b, start, order, v) /\ Iter(a, start, order, u)
            BY <3>1, <4>1
          <5> HIDE DEF a, b, v, u
          <5>2. b[v] = a[v]
            BY <4>2, <5>1, IterAgree
          <5> QED
            BY <5>2 DEF a, b, v
        <4>4. part(u)[u] = RequestFrom(part(u)[less(u)], order[Max(u)])
          <5> HIDE DEF part, u
          <5> QED
            BY <3>1, <3>3, IterNext
        <4> QED
          BY <3>1, <3>3, <4>3, <4>4
      <3> QED
        BY <3>2, <3>3
    <2>4. ASSUME NEW s \in SUBSET t, s # {} PROVE g[s] = RequestFrom(g[less(s)], order[Max(s)])
      BY <2>3, <2>4
    <2>5. g = [s \in SUBSET t |-> g[s]]
      <3> HIDE DEF next
      <3> QED
        OBVIOUS
    <2>6. g[{}] = start
      OBVIOUS
    <2>7. Iter(g, start, order, t)
      <3> HIDE DEF g
      <3> QED
        BY <2>4, <2>5, <2>6 DEF Iter
    <2> QED
      BY <2>7
  <1>2. T \in SUBSET (SUBSET S) /\ IsFiniteSet(S)
    BY FS_Interval
  <1>3. T = SUBSET S
    <2> HIDE DEF T, S
    <2> QED
      BY <1>1, <1>2, SubsetInduct
  <1> QED
    BY <1>3

LEMMA RequestAllKeeps == ASSUME NEW start, Pass(start), NEW order \in Seq(Active) PROVE Pass(RequestAll(start, order))
  <1> DEFINE n == Len(order)
  <1>1. n \in Nat /\ DOMAIN order = 1 .. n
    OBVIOUS
  <1>2. PICK g : Iter(g, start, order, 1 .. n) /\ RequestAll(start, order) = g[1 .. n]
    BY <1>1, FoldIs, IterExists
  <1> DEFINE T == {t \in SUBSET (1 .. n) : Pass(g[t])}
  <1>3. ASSUME NEW t \in SUBSET (1 .. n), \A u \in SUBSET t : u # t => u \in T PROVE t \in T
    <2>1. CASE t = {}
      BY <1>2, <2>1, IterStart
    <2>2. CASE t # {}
      <3>1. Max(t) \in t
        BY <1>1, <2>2, MaxIn
      <3>2. t \ {Max(t)} \in T
        BY <1>3, <3>1
      <3>3. Pass(g[t \ {Max(t)}])
        BY <3>2
      <3>4. order[Max(t)] \in Active
        <4>1. Max(t) \in DOMAIN order
          BY <1>1, <3>1
        <4> QED
          BY <4>1
      <3>5. g[t] = RequestFrom(g[t \ {Max(t)}], order[Max(t)])
        BY <1>2, <2>2 DEF Iter
      <3> QED
        BY <3>3, <3>4, <3>5, RequestKeeps
    <2> QED
      BY <2>1, <2>2
  <1>4. T \in SUBSET (SUBSET (1 .. n)) /\ IsFiniteSet(1 .. n)
    BY <1>1, FS_Interval
  <1>5. T = SUBSET (1 .. n)
    <2> HIDE DEF T
    <2> QED
      BY <1>3, <1>4, SubsetInduct
  <1> QED
    BY <1>2, <1>5

LEMMA FetchLoopStep == ASSUME IInv, fetch_sync_items_loop PROVE IInv'
  <1>1. PICK order \in SetToSeqs(Active) :
          LET pass == FoldLeft(RequestFrom, [peer |-> peer, items |-> {}], order)
          IN  /\ peer' = pass.peer
              /\ _active_sync_requests' = _active_sync_requests \cup pass.items
              /\ UNCHANGED <<_new_received_sync_items, _received_sync_items,
                             _most_recent_blocks_accepted, backlog, client, remote>>
    BY Zenon DEF fetch_sync_items_loop
  <1>2. PICK start : start = [peer |-> peer, items |-> {}]
    OBVIOUS
  <1>3. PICK pass : pass = RequestAll(start, order)
    OBVIOUS
  <1>4. /\ peer' = pass.peer /\ _active_sync_requests' = _active_sync_requests \cup pass.items
        /\ UNCHANGED <<_new_received_sync_items, _received_sync_items,
                       _most_recent_blocks_accepted, backlog, client, remote>>
    BY <1>1, <1>2, <1>3, Zenon DEF RequestAll
  <1>5. order \in Seq(Active)
    <2>1. IsFiniteSet(Active)
      <3>1. Active \subseteq Peers
        BY DEF Active
      <3> QED
        BY <3>1, PeersAssumption, FS_Subset
    <2>2. Cardinality(Active) \in Nat
      BY <2>1, FS_CardinalityType
    <2>3. order \in [1 .. Cardinality(Active) -> Active]
      BY DEF SetToSeqs
    <2> QED
      BY <2>2, <2>3, FunctionSeq
  <1>6. Pass(start)
    <2>1. start.peer = peer /\ start.items = {} /\ start = [peer |-> start.peer, items |-> start.items]
      BY <1>2
    <2>2. _active_sync_requests \cup {} = _active_sync_requests /\ IsFiniteSet({}) /\ {} \cap _active_sync_requests = {}
      BY FS_EmptySet
    <2> QED
      BY <2>1, <2>2 DEF Pass, IInv
  <1>7. Pass(pass)
    BY <1>3, <1>5, <1>6, RequestAllKeeps
  <1> QED
    BY <1>4, <1>7 DEF Pass, IInv

-----------------------------------------------------------------------------
(* The theorems *)

LEMMA InitIInv == Init => IInv
  <1> SUFFICES ASSUME Init PROVE IInv
    OBVIOUS
  <1>1. Genesis \in Blocks /\ client = [known |-> {Genesis}, head |-> Genesis]
    BY ChainsAssumption DEF Init
  <1>2. ClientOK(client) /\ Genesis \in client.known /\ client.known = {Genesis}
    BY <1>1 DEF ClientOK
  <1>3. PeersOK(peer, remote, client.known)
    <2>1. \A p \in Peers : PeerOK(NewPeer, p, Base(remote[p]), client.known)
      BY <1>2, NewPeerOK
    <2>2. peer = [p \in Peers |-> NewPeer]
      BY DEF Init
    <2>3. peer = [p \in Peers |-> peer[p]] /\ \A p \in Peers : PeerOK(peer[p], p, Base(remote[p]), client.known)
      BY <2>1, <2>2
    <2> QED
      BY <2>3, AllPeers
  <1>4. RecentOK(_most_recent_blocks_accepted, client.known)
    <2>1. _most_recent_blocks_accepted = <<Genesis>>
      BY DEF Init
    <2>2. Once(<<Genesis>>, {Genesis}) /\ Len(<<Genesis>>) = 1
      BY <1>1, OnceOne
    <2> QED
      BY <1>2, <2>1, <2>2, LimitsAssumption DEF RecentOK, Once
  <1>5. BacklogOK(backlog)
    BY LimitsAssumption DEF Init, BacklogOK
  <1>6. RemoteOK(remote)
    <2>1. \A p \in Peers : remote[p] \in [head : Blocks, answered : {None}]
      BY DEF Init
    <2>2. \A p \in Peers : remote[p].answered = None
      BY <2>1
    <2>3. \A p \in Peers : remote[p] \in [head : Blocks, answered : Blocks \cup {None}]
      BY <2>1
    <2>4. remote \in [Peers -> [head : Blocks, answered : Blocks \cup {None}]]
      BY <2>3 DEF Init
    <2>5. \A p \in Peers : remote[p].head \in RemoteHeads[p]
      BY DEF Init
    <2> QED
      BY <2>2, <2>3, <2>4, <2>5 DEF RemoteOK, RemotePeerOK
  <1>7. FetchOK(peer, {}, <<>>, <<>>)
    <2>1. NewPeer.sync_items_requested = {}
      BY DEF NewPeer
    <2>2. \A p \in Peers : peer[p].sync_items_requested = {}
      BY <2>1 DEF Init
    <2>3. IsFiniteSet({}) /\ Cardinality({}) = 0
      BY FS_EmptySet
    <2>4. <<>> \in Seq(Blocks) /\ IsInjective(<<>>) /\ Range(<<>>) = {} /\ Len(<<>>) = 0
      BY DEF IsInjective, Range
    <2>5. Cardinality({}) + Len(<<>>) <= maximum_number_of_sync_blocks_to_prefetch + 1
          /\ Cardinality({}) <= maximum_blocks_per_peer_during_syncing
      BY <2>3, <2>4, LimitsAssumption
    <2> QED
      BY <2>2, <2>3, <2>4, <2>5 DEF FetchOK
  <1> QED
    BY <1>2, <1>3, <1>4, <1>5, <1>6, <1>7 DEF Init, IInv

LEMMA NextIInv == IInv /\ [Next]_vars => IInv'
  <1> SUFFICES ASSUME IInv, [Next]_vars PROVE IInv'
    OBVIOUS
  <1>1. CASE backlog_step
    BY <1>1, TakeStep, NextBlockStep, EndsStep DEF backlog_step
  <1>2. CASE fetch_sync_items_loop
    BY <1>2, FetchLoopStep
  <1>3. ASSUME NEW p \in Peers, handler(p) PROVE IInv'
    BY <1>3, NewStep, ClosedStep, TerminateStep, InventoryStep, UnexpectedStep, FetchIdsStep,
       BlockStep, NotAvailableStep, NormalStep DEF handler
  <1>4. ASSUME NEW p \in Peers, remote_advances(p) \/ peer_answers(p) PROVE IInv'
    BY <1>4, RemoteStep, AnswerStep
  <1>5. CASE UNCHANGED vars
    BY <1>5 DEF vars, IInv
  <1> QED
    BY <1>1, <1>2, <1>3, <1>4, <1>5 DEF Next

(* Through any sequence of connections, replies, blocks, timeouts and      *)
(* moves of the peers' chains, the invariant above holds.                  *)
THEOREM Invariance == Spec => []IInv
  BY InitIInv, NextIInv, PTL DEF Spec

(* Node: a block is asked of one peer at a time and stored once, and the   *)
(* limits on the requests, on the prefetched blocks and on the backlog are *)
(* kept, for any number of peers, any tree of blocks and any limits.       *)
THEOREM RequestsSoundTheorem == Spec => []RequestsSound
  <1>1. IInv => RequestsSound
    <2> SUFFICES ASSUME IInv PROVE RequestsSound
      OBVIOUS
    <2> DEFINE new == _new_received_sync_items
               received == _received_sync_items
               active == _active_sync_requests
    <2>1. FetchOK(peer, active, new, received)
      BY DEF IInv
    <2>2. TypeOK
      <3>1. ASSUME NEW p \in Peers
            PROVE  /\ peer[p].list \in {"none", "active", "closing", "terminating"}
                   /\ peer[p].ids_of_items_to_get \in Seq(Blocks)
                   /\ peer[p].ids_of_items_being_processed \subseteq Blocks
                   /\ peer[p].sync_items_requested \subseteq Blocks
                   /\ peer[p].number_of_unfetched_item_ids \in Nat
                   /\ peer[p].last_block_delegate_has_seen \in Blocks
        <4>1. peer[p] \in PeerType
          BY OfPeer
        <4>2. \A ids \in Seq(Items) : ids \in Seq(Blocks)
          BY DEF Items
        <4> QED
          BY <4>1, <4>2 DEF PeerType
      <3>2. active \subseteq Blocks
        BY <2>1 DEF FetchOK
      <3>3. /\ backlog.state \in {"idle", "scheduled", "running"}
            /\ backlog.processed \in 0 .. maximum_number_of_blocks_to_handle_at_one_time
        BY DEF IInv, BacklogOK
      <3>4. Len(_most_recent_blocks_accepted) <= RecentCapacity /\ client.head \in client.known
        BY DEF IInv, RecentOK, ClientOK
      <3> QED
        BY <3>1, <3>2, <3>3, <3>4 DEF TypeOK
    <2>3. OneFetchPerBlock
      BY <2>1 DEF FetchOK, OneFetchPerBlock
    <2>4. ReceivedOnce
      <3>1. Once(new, Range(new)) /\ Once(received, Range(received)) /\ Range(new) \cap Range(received) = {}
        BY <2>1 DEF FetchOK, Once
      <3> HIDE DEF new, received
      <3>2. Once(new \o received, Range(new) \cup Range(received))
        BY <3>1, OnceJoin
      <3> USE DEF new, received
      <3>3. Range(new \o received) \cap active = {} /\ IsInjective(new \o received)
        BY <2>1, <3>2 DEF FetchOK, Once
      <3> QED
        BY <3>3 DEF ReceivedOnce
    <2>5. PrefetchBounded
      BY <2>1 DEF FetchOK, PrefetchBounded
    <2> QED
      BY <2>2, <2>3, <2>4, <2>5 DEF RequestsSound
  <1> QED
    BY <1>1, Invariance, PTL

(* Node: the list of a peer is one line of blocks, put together from any   *)
(* number of replies, wherever the peer's chain goes meanwhile; and the    *)
(* next synopsis for a peer that stays on its branch can be made.          *)
THEOREM ListsSoundTheorem == Spec => []ListsSound
  <1>1. IInv => ListsSound
    <2> SUFFICES ASSUME IInv PROVE ListsSound
      OBVIOUS
    <2>1. ReferenceKnown
      BY OfPeer DEF ReferenceKnown, PeerOK
    <2>2. ListIsLine
      <3>1. \A p \in Active : p \in Peers
        BY DEF Active
      <3>2. \A p \in Active : Line(peer[p].ids_of_items_to_get)
        BY <3>1, OfPeer DEF PeerOK
      <3> QED
        BY <3>2 DEF ListIsLine, Line
    <2> QED
      BY <2>1, <2>2 DEF ListsSound
  <1> QED
    BY <1>1, Invariance, PTL

=============================================================================
