-------------------------- MODULE NetGossip_proofs --------------------------
(***************************************************************************)
(* Proofs about the spreading of items, for any peers, items, lifetimes    *)
(* and limits, any number of inventory messages, faults and passages of    *)
(* time.                                                                   *)
(*                                                                         *)
(* The invariant has a part for each connection (PeerOK), one for the      *)
(* queue (QueueOK), one for what relates requests, queue and failed items  *)
(* (FetchOK), and the rest (RestOK).  The handler of an inventory message  *)
(* is a fold over ids; the first three parts speak of any peers and queue  *)
(* so that they can be said of its intermediate states.                    *)
(***************************************************************************)
EXTENDS NetGossip, FiniteSetTheorems, WellFoundedInduction, TLAPS

Bad == Rejected \cup Unlinkable

PeerType == [list : {"none", "active", "closing"}, requested : SUBSET Items,
             advertised : Inventories, heard : Inventories,
             needs : BOOLEAN, syncing : BOOLEAN]

(* A connection, when the items of o are orphaned and those of j judged:   *)
(* it has one request at most; one that is being closed has only orphaned  *)
(* ones.                                                                   *)
PeerOK(pr, o, j) ==
  /\ pr \in PeerType
  /\ \A x, y \in pr.requested : x = y
  /\ pr.list = "none" => pr.requested = {}
  /\ pr.list = "closing" => pr.requested \subseteq o
  /\ pr.list = "active" => DOMAIN pr.advertised \cap DOMAIN pr.heard = {}
  /\ DOMAIN pr.advertised \subseteq j \ Bad
  /\ IsFiniteSet(DOMAIN pr.heard)
  /\ Cardinality(DOMAIN pr.heard) <= MaxInventory + 1

PeersOK(peers, o, j) == peers \in [Peers -> PeerType] /\ \A p \in Peers : PeerOK(peers[p], o, j)

QueueOK(queue, age) ==
  /\ queue \in Seq(Items)
  /\ IsInjective(queue)
  /\ age \in [Range(queue) -> 0 .. MaxAge]

(* An item that is not orphaned is requested once, or queued, or failed.   *)
FetchOK(peers, queue, failed, o) ==
  \A i \in Items \ o :
    /\ \A p, q \in Peers : i \in peers[p].requested /\ i \in peers[q].requested => p = q
    /\ i \in Range(queue) => \A p \in Peers : i \notin peers[p].requested
    /\ i \in DOMAIN failed => i \notin Range(queue) /\ \A p \in Peers : i \notin peers[p].requested

RestOK ==
  /\ _recently_failed_items \in Inventories
  /\ _new_inventory \subseteq (judged \cap Items) \ Bad
  /\ DOMAIN _message_cache \subseteq Items
  /\ _most_recent_blocks_accepted \subseteq BlockItems \ Bad
  /\ _message_ids_currently_being_processed \subseteq BlockItems
  /\ fetch_loop \in BOOLEAN /\ advertise_loop \in BOOLEAN
  /\ judged \subseteq Items /\ orphaned \subseteq Items

IInv ==
  /\ PeersOK(peer, orphaned, judged)
  /\ QueueOK(_items_to_fetch, fetch_age)
  /\ FetchOK(peer, _items_to_fetch, _recently_failed_items, orphaned)
  /\ RestOK

-----------------------------------------------------------------------------
(* Inventories *)

LEMMA AgeNat == MaxAge \in Nat /\ 0 \in 0 .. MaxAge
  BY LifetimeAssumption DEF MaxAge

(* An inventory is a function from some items to ages. *)
LEMMA InvIs == ASSUME NEW inv
               PROVE  inv \in Inventories <=> /\ DOMAIN inv \subseteq Items
                                              /\ inv \in [DOMAIN inv -> 0 .. MaxAge]
  <1>1. ASSUME inv \in Inventories PROVE DOMAIN inv \subseteq Items /\ inv \in [DOMAIN inv -> 0 .. MaxAge]
    <2>1. PICK S \in SUBSET Items : inv \in [S -> 0 .. MaxAge]
      BY <1>1 DEF Inventories
    <2> QED
      BY <2>1
  <1>2. ASSUME DOMAIN inv \subseteq Items, inv \in [DOMAIN inv -> 0 .. MaxAge] PROVE inv \in Inventories
    BY <1>2 DEF Inventories
  <1> QED
    BY <1>1, <1>2

LEMMA InvEmpty == Empty \in Inventories /\ DOMAIN Empty = {}
  BY InvIs DEF Empty

(* An insertion adds the item. *)
LEMMA InvInserted == ASSUME NEW inv \in Inventories, NEW i \in Items
                     PROVE  Inserted(inv, i) \in Inventories /\ DOMAIN Inserted(inv, i) = DOMAIN inv \cup {i}
  <1>1. DOMAIN inv \subseteq Items /\ inv \in [DOMAIN inv -> 0 .. MaxAge]
    BY InvIs
  <1>2. CASE i \in DOMAIN inv
    BY <1>2 DEF Inserted
  <1>3. CASE i \notin DOMAIN inv
    <2> DEFINE f == [j \in DOMAIN inv \cup {i} |-> IF j = i THEN 0 ELSE inv[j]]
    <2>1. DOMAIN f = DOMAIN inv \cup {i} /\ f \in [DOMAIN inv \cup {i} -> 0 .. MaxAge]
      BY <1>1, AgeNat
    <2>2. Inserted(inv, i) = f
      BY <1>3 DEF Inserted, Fresh
    <2> HIDE DEF f
    <2> QED
      BY <1>1, <2>1, <2>2, InvIs
  <1> QED
    BY <1>2, <1>3

(* What removals and the passing of time make of an inventory. *)
LEMMA InvWithout == ASSUME NEW inv \in Inventories, NEW S
                    PROVE  Without(inv, S) \in Inventories /\ DOMAIN Without(inv, S) = DOMAIN inv \ S
  BY InvIs DEF Without

LEMMA InvExpire == ASSUME NEW inv \in Inventories, NEW t
                   PROVE  Expire(inv, t) \in Inventories /\ DOMAIN Expire(inv, t) \subseteq DOMAIN inv
  BY InvWithout DEF Expire

LEMMA InvOlder == ASSUME NEW inv \in Inventories, NEW d \in Nat
                  PROVE  Older(inv, d) \in Inventories /\ DOMAIN Older(inv, d) = DOMAIN inv
  <1>1. DOMAIN inv \subseteq Items /\ inv \in [DOMAIN inv -> 0 .. MaxAge]
    BY InvIs
  <1>2. Older(inv, d) \in [DOMAIN inv -> 0 .. MaxAge]
    BY <1>1, AgeNat DEF Older
  <1> QED
    BY <1>1, <1>2, InvIs

-----------------------------------------------------------------------------
(* Connections *)

(* A connection stays as it should be when more is orphaned or judged. *)
LEMMA PeerMore == ASSUME NEW pr, NEW o, NEW j, PeerOK(pr, o, j), NEW o2, NEW j2, o \subseteq o2, j \subseteq j2
                  PROVE  PeerOK(pr, o2, j2)
  BY DEF PeerOK

(* It stays so too when it loses requests, advertised items and heard items, *)
(* and is not opened again. *)
LEMMA PeerLess == ASSUME NEW pr, NEW o, NEW j, PeerOK(pr, o, j), NEW qr \in PeerType,
                         qr.requested \subseteq pr.requested,
                         DOMAIN qr.advertised \subseteq DOMAIN pr.advertised,
                         DOMAIN qr.heard \subseteq DOMAIN pr.heard,
                         qr.list = pr.list
                  PROVE  PeerOK(qr, o, j)
  <1>1. IsFiniteSet(DOMAIN qr.heard) /\ Cardinality(DOMAIN qr.heard) <= Cardinality(DOMAIN pr.heard)
    BY FS_Subset DEF PeerOK
  <1>2. Cardinality(DOMAIN qr.heard) \in Nat /\ Cardinality(DOMAIN pr.heard) \in Nat
    BY <1>1, FS_CardinalityType DEF PeerOK
  <1>3. Cardinality(DOMAIN qr.heard) <= MaxInventory + 1
    BY <1>1, <1>2, ItemAssumption DEF PeerOK
  <1> QED
    BY <1>1, <1>3 DEF PeerOK

LEMMA PeerCleared == ASSUME NEW pr, NEW o, NEW j, PeerOK(pr, o, j)
                     PROVE  /\ PeerOK(clear_old_inventory(pr), o, j)
                            /\ clear_old_inventory(pr) \in PeerType
                            /\ clear_old_inventory(pr).list = pr.list
                            /\ clear_old_inventory(pr).requested = pr.requested
  <1> DEFINE qr == clear_old_inventory(pr)
             a == Expire(pr.advertised, InventoryLifetime)
             h == Expire(pr.heard, InventoryLifetime)
  <1>1. pr \in PeerType
    BY DEF PeerOK
  <1>2. /\ a \in Inventories /\ DOMAIN a \subseteq DOMAIN pr.advertised
        /\ h \in Inventories /\ DOMAIN h \subseteq DOMAIN pr.heard
    BY <1>1, InvExpire DEF PeerType
  <1>3. qr = [pr EXCEPT !.advertised = a, !.heard = h]
    BY DEF clear_old_inventory
  <1> HIDE DEF a, h, qr
  <1>4. /\ qr \in PeerType /\ qr.list = pr.list /\ qr.requested = pr.requested
        /\ qr.advertised = a /\ qr.heard = h
    BY <1>1, <1>2, <1>3 DEF PeerType
  <1>5. PeerOK(qr, o, j)
    BY <1>2, <1>4, PeerLess
  <1> QED
    BY <1>4, <1>5 DEF qr

LEMMA PeerLeaves == ASSUME NEW pr, NEW o, NEW j, PeerOK(pr, o, j), NEW o2, o \subseteq o2,
                           pr.requested \subseteq o2
                    PROVE  /\ PeerOK(Leave(pr), o2, j) /\ Leave(pr) \in PeerType
                           /\ Leave(pr).requested = pr.requested
  <1> DEFINE qr == Leave(pr)
  <1>1. pr \in PeerType
    BY DEF PeerOK
  <1>2. /\ qr \in PeerType /\ qr.list = "closing" /\ qr.requested = pr.requested
        /\ qr.advertised = pr.advertised /\ qr.heard = pr.heard
    BY <1>1 DEF Leave, PeerType
  <1> HIDE DEF qr
  <1>3. PeerOK(qr, o2, j)
    BY <1>2 DEF PeerOK
  <1> QED
    BY <1>2, <1>3 DEF qr

(* A connection that is new. *)
LEMMA PeerNew == ASSUME NEW l \in {"none", "active"}, NEW n \in BOOLEAN, NEW s \in BOOLEAN, NEW o, NEW j,
                        NEW pr, pr = [NewPeer EXCEPT !.list = l, !.needs = n, !.syncing = s]
                 PROVE  PeerOK(pr, o, j) /\ pr \in PeerType /\ pr.requested = {}
  <1>1. /\ pr \in PeerType /\ pr.requested = {} /\ pr.list = l
        /\ pr.advertised = Empty /\ pr.heard = Empty
    BY InvEmpty DEF NewPeer, PeerType
  <1>2. IsFiniteSet(DOMAIN pr.heard) /\ Cardinality(DOMAIN pr.heard) = 0
    BY <1>1, InvEmpty, FS_EmptySet
  <1> QED
    BY <1>1, <1>2, InvEmpty, ItemAssumption DEF PeerOK

-----------------------------------------------------------------------------
(* The queue *)

(* A sequence from SetToSeqs has each element of the set once. *)
LEMMA SeqsAll == ASSUME NEW T, IsFiniteSet(T), NEW f \in SetToSeqs(T)
                 PROVE  f \in Seq(T) /\ IsInjective(f) /\ Range(f) = T /\ Len(f) = Cardinality(T)
  <1> DEFINE n == Cardinality(T)
  <1>1. n \in Nat
    BY FS_CardinalityType
  <1>2. f \in [1 .. n -> T] /\ IsInjective(f)
    BY DEF SetToSeqs, IsInjective
  <1>3. IsFiniteSet(1 .. n) /\ Cardinality(1 .. n) = n
    BY <1>1, FS_Interval
  <1>4. f \in Injection(1 .. n, T)
    BY <1>2 DEF Injection
  <1>5. f \in Surjection(1 .. n, T)
    BY <1>3, <1>4, FS_Injection
  <1>6. Range(f) = T
    BY <1>2, <1>5 DEF Surjection, Range
  <1>7. f \in Seq(T) /\ Len(f) = n
    BY <1>1, <1>2
  <1> QED
    BY <1>2, <1>6, <1>7

(* A queue holds finitely many items. *)
LEMMA QueueFinite == ASSUME NEW q \in Seq(Items) PROVE IsFiniteSet(Range(q))
  <1>1. q \in Surjection(1 .. Len(q), Range(q))
    BY DEF Surjection, Range
  <1>2. IsFiniteSet(1 .. Len(q))
    BY FS_Interval
  <1> QED
    BY <1>1, <1>2, FS_Surjection

LEMMA QueueGrows == ASSUME NEW q, NEW a, QueueOK(q, a), NEW T \in SUBSET Items, IsFiniteSet(T), NEW q2, NEW a2,
                           Queued(T, q, a, q2, a2)
                    PROVE  QueueOK(q2, a2) /\ Range(q2) = Range(q) \cup T
  <1> DEFINE more == T \ Range(q)
  <1>1. IsFiniteSet(more)
    BY FS_Subset
  <1>2. PICK order \in SetToSeqs(more) : q2 = q \o order
    BY DEF Queued
  <1>3. a2 = [x \in DOMAIN a \cup T |-> IF x \in DOMAIN a THEN a[x] ELSE 0]
    BY DEF Queued
  <1>4. order \in Seq(more) /\ IsInjective(order) /\ Range(order) = more
    BY <1>1, SeqsAll
  <1>5. q \in Seq(Items) /\ IsInjective(q) /\ a \in [Range(q) -> 0 .. MaxAge]
    BY DEF QueueOK
  <1>6. order \in Seq(Items)
    BY <1>4
  <1>7. /\ q2 \in Seq(Items) /\ Len(q2) = Len(q) + Len(order)
        /\ \A m \in 1 .. Len(q2) : q2[m] = IF m <= Len(q) THEN q[m] ELSE order[m - Len(q)]
    BY <1>2, <1>5, <1>6
  <1>8. Range(q2) = Range(q) \cup T
    <2>1. \A m \in 1 .. Len(q2) : q2[m] \in Range(q) \cup T
      <3> SUFFICES ASSUME NEW m \in 1 .. Len(q2) PROVE q2[m] \in Range(q) \cup T
        OBVIOUS
      <3>1. CASE m <= Len(q)
        BY <1>5, <1>7, <3>1 DEF Range
      <3>2. CASE ~ (m <= Len(q))
        <4>1. m - Len(q) \in 1 .. Len(order)
          BY <1>5, <1>6, <1>7, <3>2
        <4> QED
          BY <1>4, <1>7, <3>2, <4>1 DEF Range
      <3> QED
        BY <3>1, <3>2
    <2>2. \A m \in 1 .. Len(q) : q[m] \in Range(q2)
      <3> SUFFICES ASSUME NEW m \in 1 .. Len(q) PROVE q[m] \in Range(q2)
        OBVIOUS
      <3>1. m \in 1 .. Len(q2) /\ q2[m] = q[m]
        BY <1>5, <1>6, <1>7
      <3>2. m \in DOMAIN q2
        BY <1>7, <3>1
      <3> QED
        BY <3>1, <3>2 DEF Range
    <2>3. \A m \in 1 .. Len(order) : order[m] \in Range(q2)
      <3> SUFFICES ASSUME NEW m \in 1 .. Len(order) PROVE order[m] \in Range(q2)
        OBVIOUS
      <3>0. m + Len(q) \in 1 .. Len(q2) /\ ~ (m + Len(q) <= Len(q)) /\ (m + Len(q)) - Len(q) = m
        BY <1>5, <1>6, <1>7
      <3>1. m + Len(q) \in 1 .. Len(q2) /\ q2[m + Len(q)] = order[m]
        BY <1>7, <3>0
      <3>2. m + Len(q) \in DOMAIN q2
        BY <1>7, <3>1
      <3> QED
        BY <3>1, <3>2 DEF Range
    <2>4. Range(q2) \subseteq Range(q) \cup T
      BY <1>7, <2>1 DEF Range
    <2>5. Range(q) \subseteq Range(q2) /\ Range(order) \subseteq Range(q2)
      BY <1>5, <1>6, <2>2, <2>3 DEF Range
    <2> QED
      BY <1>4, <2>4, <2>5
  <1>9. IsInjective(q2)
    <2> SUFFICES ASSUME NEW m \in 1 .. Len(q2), NEW k \in 1 .. Len(q2), q2[m] = q2[k] PROVE m = k
      BY <1>7 DEF IsInjective
    <2>1. \A x \in 1 .. Len(q2) : x <= Len(q) => x \in DOMAIN q /\ q2[x] = q[x] /\ q[x] \in Range(q)
      BY <1>5, <1>7 DEF Range
    <2>2. \A x \in 1 .. Len(q2) : ~ (x <= Len(q)) => /\ x - Len(q) \in DOMAIN order
                                                     /\ q2[x] = order[x - Len(q)] /\ q2[x] \notin Range(q)
      <3> SUFFICES ASSUME NEW x \in 1 .. Len(q2), ~ (x <= Len(q))
                   PROVE  x - Len(q) \in DOMAIN order /\ q2[x] = order[x - Len(q)] /\ q2[x] \notin Range(q)
        OBVIOUS
      <3>1. x - Len(q) \in 1 .. Len(order) /\ q2[x] = order[x - Len(q)]
        BY <1>5, <1>6, <1>7
      <3>2. order[x - Len(q)] \in more
        BY <1>4, <3>1
      <3> QED
        BY <1>6, <3>1, <3>2
    <2>3. CASE m <= Len(q) /\ k <= Len(q)
      BY <1>5, <2>1, <2>3 DEF IsInjective
    <2>4. CASE ~ (m <= Len(q)) /\ ~ (k <= Len(q))
      <3>1. m - Len(q) = k - Len(q)
        BY <1>4, <2>2, <2>4 DEF IsInjective
      <3> QED
        BY <1>5, <3>1
    <2> QED
      BY <2>1, <2>2, <2>3, <2>4
  <1>10. a2 \in [Range(q2) -> 0 .. MaxAge]
    BY <1>3, <1>5, <1>8, AgeNat
  <1> QED
    BY <1>7, <1>8, <1>9, <1>10 DEF QueueOK

(* The items of T stay in the queue. *)
LEMMA QueueLess == ASSUME NEW q, NEW a, QueueOK(q, a), NEW T \in SUBSET Range(q), NEW rest \in SetToSeqs(T)
                   PROVE  QueueOK(rest, [x \in T |-> a[x]]) /\ Range(rest) = T
  <1>1. IsFiniteSet(T)
    BY QueueFinite, FS_Subset DEF QueueOK
  <1>2. T \subseteq Items
    BY DEF QueueOK, Range
  <1>3. rest \in Seq(T) /\ IsInjective(rest) /\ Range(rest) = T
    BY <1>1, SeqsAll
  <1>4. rest \in Seq(Items)
    BY <1>2, <1>3
  <1> QED
    BY <1>3, <1>4 DEF QueueOK

-----------------------------------------------------------------------------
(* Requests, queue and failed items *)

(* Less requested, queued or failed, and more orphaned. *)
LEMMA FetchLess == ASSUME NEW P, NEW q, NEW f, NEW o, FetchOK(P, q, f, o), NEW P2, NEW q2, NEW f2, NEW o2,
                          \A p \in Peers : P2[p].requested \subseteq P[p].requested,
                          Range(q2) \subseteq Range(q), DOMAIN f2 \subseteq DOMAIN f, o \subseteq o2
                   PROVE  FetchOK(P2, q2, f2, o2)
  BY DEF FetchOK

(* The same connections with more that is judged. *)
LEMMA PeersMore == ASSUME NEW P, NEW o, NEW j, PeersOK(P, o, j), NEW o2, NEW j2, o \subseteq o2, j \subseteq j2
                   PROVE  PeersOK(P, o2, j2)
  BY PeerMore DEF PeersOK

(* One connection changes. *)
LEMMA PeersOne == ASSUME NEW P, NEW o, NEW j, PeersOK(P, o, j), NEW p \in Peers, NEW pr, PeerOK(pr, o, j)
                  PROVE  PeersOK([P EXCEPT ![p] = pr], o, j)
  BY DEF PeersOK, PeerOK

-----------------------------------------------------------------------------
(* One id of an inventory message *)

IsState(st) ==
  st = [peer |-> st.peer, queue |-> st.queue, age |-> st.age, wake |-> st.wake, full |-> st.full]

(* The states of the handler: nobody leaves and nothing is requested. *)
Handling(st) ==
  /\ IsState(st)
  /\ PeersOK(st.peer, orphaned, judged)
  /\ QueueOK(st.queue, st.age)
  /\ FetchOK(st.peer, st.queue, _recently_failed_items, orphaned)
  /\ st.wake \in BOOLEAN /\ st.full \in BOOLEAN
  /\ \A q \in Peers : st.peer[q].list = peer[q].list /\ st.peer[q].requested = peer[q].requested

(* The item is noted as the peer's. *)
Noted(st, p, i) == [st EXCEPT !.peer[p].heard = Inserted(@, i)]

(* The item is queued. *)
Wanted(st, i) == [st EXCEPT !.queue = Append(@, i), !.age = Fresh(@, i), !.wake = TRUE]

(* What an update makes of a state of the handler. *)
LEMMA StateFull == ASSUME NEW st, IsState(st), NEW t, NEW e, e = [st EXCEPT !.full = t]
                   PROVE  /\ IsState(e) /\ e.peer = st.peer /\ e.queue = st.queue /\ e.age = st.age
                          /\ e.wake = st.wake /\ e.full = t
  BY DEF IsState

LEMMA HandlingNoted == ASSUME NEW st, Handling(st), NEW p \in Peers, NEW i \in Items,
                              \A q \in Active : i \notin DOMAIN st.peer[q].advertised,
                              ~ is_inventory_advertised_to_us_list_full(st.peer[p])
                       PROVE  /\ Handling(Noted(st, p, i))
                              /\ Noted(st, p, i).queue = st.queue /\ Noted(st, p, i).age = st.age
                              /\ \A q \in Peers : Noted(st, p, i).peer[q].requested = st.peer[q].requested
  <1> DEFINE pr == st.peer[p]
             qr == [pr EXCEPT !.heard = Inserted(@, i)]
             nt == Noted(st, p, i)
  <1>1. PeerOK(pr, orphaned, judged) /\ pr \in PeerType /\ st.peer \in [Peers -> PeerType]
    BY DEF Handling, PeersOK
  <1>2. Inserted(pr.heard, i) \in Inventories /\ DOMAIN Inserted(pr.heard, i) = DOMAIN pr.heard \cup {i}
    BY <1>1, InvInserted DEF PeerType
  <1>3. /\ qr \in PeerType /\ qr.list = pr.list /\ qr.requested = pr.requested
        /\ qr.advertised = pr.advertised /\ qr.heard = Inserted(pr.heard, i)
    BY <1>1, <1>2 DEF PeerType
  <1>4. IsFiniteSet(DOMAIN qr.heard) /\ Cardinality(DOMAIN qr.heard) <= MaxInventory + 1
    <2>1. IsFiniteSet(DOMAIN pr.heard) /\ Cardinality(DOMAIN pr.heard) \in Nat
      BY <1>1, FS_CardinalityType DEF PeerOK
    <2>2. Cardinality(DOMAIN pr.heard) <= MaxInventory
      BY <2>1, ItemAssumption DEF is_inventory_advertised_to_us_list_full
    <2>3. DOMAIN qr.heard = DOMAIN pr.heard \cup {i}
      BY <1>2, <1>3
    <2>4. /\ IsFiniteSet(DOMAIN pr.heard \cup {i})
          /\ Cardinality(DOMAIN pr.heard \cup {i})
               = IF i \in DOMAIN pr.heard THEN Cardinality(DOMAIN pr.heard) ELSE Cardinality(DOMAIN pr.heard) + 1
      BY <2>1, FS_AddElement
    <2> HIDE DEF pr, qr
    <2> QED
      BY <2>1, <2>2, <2>3, <2>4, ItemAssumption
  <1>5. qr.list = "active" => DOMAIN qr.advertised \cap DOMAIN qr.heard = {}
    <2> SUFFICES ASSUME qr.list = "active" PROVE DOMAIN qr.advertised \cap DOMAIN qr.heard = {}
      OBVIOUS
    <2>1. p \in Active
      BY <1>3 DEF Handling, Active
    <2>2. i \notin DOMAIN pr.advertised /\ DOMAIN pr.advertised \cap DOMAIN pr.heard = {}
      BY <1>1, <1>3, <2>1 DEF PeerOK
    <2> QED
      BY <1>2, <1>3, <2>2
  <1>6. PeerOK(qr, orphaned, judged)
    BY <1>1, <1>3, <1>4, <1>5 DEF PeerOK
  <1>7. /\ IsState(nt)
        /\ nt.queue = st.queue /\ nt.age = st.age /\ nt.wake = st.wake /\ nt.full = st.full
        /\ nt.peer = [st.peer EXCEPT ![p] = qr]
    BY DEF Handling, IsState, Noted
  <1> HIDE DEF nt, qr
  <1>8. \A q \in Peers : nt.peer[q].list = st.peer[q].list /\ nt.peer[q].requested = st.peer[q].requested
    BY <1>1, <1>3, <1>7
  <1>9. PeersOK(nt.peer, orphaned, judged)
    BY <1>6, <1>7, PeersOne DEF Handling
  <1>10. FetchOK(nt.peer, nt.queue, _recently_failed_items, orphaned)
    <2>1. FetchOK(st.peer, st.queue, _recently_failed_items, orphaned)
      BY DEF Handling
    <2>2. \A q \in Peers : nt.peer[q].requested \subseteq st.peer[q].requested
      BY <1>8
    <2>3. Range(nt.queue) \subseteq Range(st.queue)
      BY <1>7
    <2> HIDE DEF pr
    <2> QED
      BY <2>1, <2>2, <2>3, FetchLess
  <1>11. Handling(nt)
    BY <1>7, <1>8, <1>9, <1>10 DEF Handling
  <1> QED
    BY <1>7, <1>8, <1>11 DEF nt

(* One item more at the end of the queue. *)
LEMMA QueueOneMore == ASSUME NEW q, NEW a, QueueOK(q, a), NEW i \in Items, i \notin Range(q)
                      PROVE  QueueOK(Append(q, i), Fresh(a, i)) /\ Range(Append(q, i)) = Range(q) \cup {i}
  <1> DEFINE q2 == Append(q, i)
  <1>1. q \in Seq(Items) /\ IsInjective(q) /\ a \in [Range(q) -> 0 .. MaxAge]
    BY DEF QueueOK
  <1>2. /\ q2 \in Seq(Items) /\ DOMAIN q2 = 1 .. Len(q) + 1 /\ DOMAIN q = 1 .. Len(q)
        /\ Len(q) \in Nat /\ q2[Len(q) + 1] = i
        /\ \A m \in 1 .. Len(q) : q2[m] = q[m]
    BY <1>1
  <1> HIDE DEF q2
  <1>3. Range(q2) = Range(q) \cup {i}
    <2>1. \A m \in DOMAIN q2 : m \in DOMAIN q \/ m = Len(q) + 1
      BY <1>2
    <2>2. \A m \in DOMAIN q : m \in DOMAIN q2 /\ q2[m] = q[m]
      BY <1>2
    <2>3. Len(q) + 1 \in DOMAIN q2
      BY <1>2
    <2> QED
      BY <1>2, <2>1, <2>2, <2>3 DEF Range
  <1>4. IsInjective(q2)
    <2> SUFFICES ASSUME NEW m \in DOMAIN q2, NEW k \in DOMAIN q2, q2[m] = q2[k] PROVE m = k
      BY DEF IsInjective
    <2>1. \A x \in DOMAIN q2 : \/ x \in DOMAIN q /\ q2[x] = q[x] /\ q2[x] # i
                               \/ x = Len(q) + 1 /\ q2[x] = i
      BY <1>2 DEF Range
    <2> QED
      BY <1>1, <2>1 DEF IsInjective
  <1>5. Fresh(a, i) \in [Range(q2) -> 0 .. MaxAge]
    BY <1>1, <1>3, AgeNat DEF Fresh
  <1> QED
    BY <1>2, <1>3, <1>4, <1>5 DEF QueueOK, q2

LEMMA HandlingWanted == ASSUME NEW st, Handling(st), NEW i \in Items, i \notin Range(st.queue),
                               ~ NotWanted(st.peer, i)
                        PROVE  Handling(Wanted(st, i))
  <1> DEFINE w == Wanted(st, i)
  <1>1. /\ IsState(w) /\ w.queue = Append(st.queue, i) /\ w.age = Fresh(st.age, i) /\ w.wake = TRUE
        /\ w.full = st.full /\ w.peer = st.peer
    <2>1. IsState(st)
      BY DEF Handling
    <2> DEFINE t == TRUE
    <2>2. w = [st EXCEPT !.queue = Append(@, i), !.age = Fresh(@, i), !.wake = t]
      BY DEF Wanted
    <2>3. t = TRUE
      OBVIOUS
    <2> HIDE DEF t, w
    <2>4. /\ IsState(w) /\ w.queue = Append(st.queue, i) /\ w.age = Fresh(st.age, i) /\ w.wake = t
          /\ w.full = st.full /\ w.peer = st.peer
      BY <2>1, <2>2 DEF IsState
    <2> QED
      BY <2>3, <2>4, Zenon
  <1> HIDE DEF w
  <1>2. QueueOK(w.queue, w.age) /\ Range(w.queue) = Range(st.queue) \cup {i}
    BY <1>1, QueueOneMore DEF Handling
  <1>3. i \notin DOMAIN _recently_failed_items
    BY DEF NotWanted
  <1>4. i \notin orphaned => \A q \in Peers : i \notin st.peer[q].requested
    <2> SUFFICES ASSUME i \notin orphaned, NEW q \in Peers PROVE i \notin st.peer[q].requested
      OBVIOUS
    <2>1. PeerOK(st.peer[q], orphaned, judged) /\ st.peer[q].list = peer[q].list
      BY DEF Handling, PeersOK
    <2>2. CASE st.peer[q].list = "active"
      BY <2>1, <2>2 DEF NotWanted, Active
    <2>3. CASE st.peer[q].list \in {"none", "closing"}
      BY <2>1, <2>3 DEF PeerOK
    <2> QED
      BY <2>1, <2>2, <2>3 DEF PeerOK, PeerType
  <1>5. FetchOK(w.peer, w.queue, _recently_failed_items, orphaned)
    BY <1>1, <1>2, <1>3, <1>4 DEF Handling, FetchOK
  <1>6. Handling(w)
    BY <1>1, <1>2, <1>5 DEF Handling
  <1> QED
    BY <1>6 DEF w

LEMMA HeardKeeps == ASSUME NEW st, Handling(st), NEW p \in Peers, NEW i \in Items
                    PROVE  Handling(Heard(st, p, i))
  <1> DEFINE pr == st.peer[p]
             known == \/ i \in _message_ids_currently_being_processed
                      \/ i \in _new_inventory
                      \/ \E q \in Active : i \in DOMAIN st.peer[q].advertised
             full == \/ i \in TrxItems /\ is_inventory_advertised_to_us_list_full_for_transactions(pr)
                     \/ is_inventory_advertised_to_us_list_full(pr)
             noted == Noted(st, p, i)
  <1>0. Heard(st, p, i) =
          IF st.full \/ known THEN st
          ELSE IF full THEN [st EXCEPT !.full = TRUE]
          ELSE IF NotWanted(st.peer, i) THEN noted
          ELSE IF i \in Range(st.queue) THEN [noted EXCEPT !.age[i] = 0]
          ELSE Wanted(noted, i)
    BY Zenon DEF Heard, Noted, Wanted
  <1>1. CASE st.full \/ known
    BY <1>0, <1>1
  <1>2. CASE ~ (st.full \/ known) /\ full
    <2> DEFINE e == [st EXCEPT !.full = TRUE]
    <2>1. /\ IsState(e) /\ e.peer = st.peer /\ e.queue = st.queue /\ e.age = st.age
          /\ e.wake = st.wake /\ e.full = TRUE
      <3>1. IsState(st)
        BY DEF Handling
      <3> DEFINE t == TRUE
      <3>2. e = [st EXCEPT !.full = t]
        OBVIOUS
      <3>3. t = TRUE
        OBVIOUS
      <3> HIDE DEF t, e
      <3> QED
        BY <3>1, <3>2, <3>3, StateFull
    <2>2. Heard(st, p, i) = e
      BY <1>0, <1>2
    <2> HIDE DEF e
    <2> QED
      BY <2>1, <2>2 DEF Handling
  <1>3. CASE ~ (st.full \/ known) /\ ~ full
    <2>1. /\ Handling(noted) /\ noted.queue = st.queue /\ noted.age = st.age
          /\ \A q \in Peers : noted.peer[q].requested = st.peer[q].requested
      BY <1>3, HandlingNoted
    <2> HIDE DEF known, full, noted, pr
    <2>2. CASE NotWanted(st.peer, i)
      BY <1>0, <1>3, <2>1, <2>2
    <2>3. CASE ~ NotWanted(st.peer, i) /\ i \in Range(st.queue)
      <3> DEFINE e == [noted EXCEPT !.age[i] = 0]
      <3>1. /\ IsState(e)
            /\ e.peer = noted.peer /\ e.queue = noted.queue /\ e.age = [noted.age EXCEPT ![i] = 0]
            /\ e.wake = noted.wake /\ e.full = noted.full
        BY <2>1 DEF Handling, IsState
      <3>2. Heard(st, p, i) = e
        BY <1>0, <1>3, <2>3
      <3> HIDE DEF e
      <3>3. QueueOK(e.queue, e.age)
        BY <2>1, <3>1, AgeNat DEF Handling, QueueOK
      <3> QED
        BY <2>1, <3>1, <3>2, <3>3 DEF Handling
    <2>4. CASE ~ NotWanted(st.peer, i) /\ i \notin Range(st.queue)
      <3>1. ~ NotWanted(noted.peer, i)
        BY <2>1, <2>4 DEF NotWanted, Active
      <3>2. Heard(st, p, i) = Wanted(noted, i)
        BY <1>0, <1>3, <2>4
      <3> QED
        BY <2>1, <2>4, <3>1, <3>2, HandlingWanted
    <2> QED
      BY <2>2, <2>3, <2>4
  <1> QED
    BY <1>1, <1>2, <1>3

-----------------------------------------------------------------------------
(* The fold over the ids of a message *)

(* Induction over the subsets of a finite set. *)
LEMMA SubsetInduct == ASSUME NEW S, IsFiniteSet(S), NEW T \in SUBSET (SUBSET S),
                             \A s \in SUBSET S : (\A t \in SUBSET s : t # s => t \in T) => s \in T
                      PROVE  T = SUBSET S
  <1> SUFFICES ASSUME (SUBSET S) \ T # {} PROVE FALSE
    OBVIOUS
  <1>1. IsWellFoundedOn(StrictSubsetOrdering(S), SUBSET S)
    BY FS_StrictSubsetOrderingWellFounded, FS_FiniteSubsetsOfFinite
  <1> DEFINE Rest == (SUBSET S) \ T
  <1>0. Rest \subseteq SUBSET S /\ Rest # {}
    OBVIOUS
  <1> HIDE DEF Rest
  <1>2. PICK s \in Rest : \A t \in Rest : ~ (<<t, s>> \in StrictSubsetOrdering(S))
    BY <1>0, <1>1, WFMin
  <1> USE DEF Rest
  <1>3. ASSUME NEW t \in SUBSET s, t # s PROVE t \in T
    <2>1. <<t, s>> \in StrictSubsetOrdering(S)
      BY <1>3 DEF StrictSubsetOrdering
    <2> QED
      BY <1>2, <2>1
  <1> QED
    BY <1>2, <1>3

(* A set of numbers up to n has a greatest one, which Max returns. *)
LEMMA MaxIn == ASSUME NEW n \in Nat, NEW s \in SUBSET (1 .. n), s # {} PROVE Max(s) \in s
  <1> DEFINE T == {n - x : x \in s}
  <1>1. T \subseteq Nat /\ T # {}
    <2>1. PICK x \in s : TRUE
      OBVIOUS
    <2>2. \A y \in s : n - y \in Nat
      OBVIOUS
    <2> QED
      BY <2>1, <2>2
  <1>2. IsWellFoundedOn(OpToRel(<, Nat), Nat)
    BY NatLessThanWellFounded
  <1>3. PICK m \in T : \A k \in T : ~ (<<k, m>> \in OpToRel(<, Nat))
    <2> HIDE DEF T
    <2> QED
      BY <1>1, <1>2, WFMin
  <1>4. PICK x \in s : m = n - x
    OBVIOUS
  <1>5. \A y \in s : x >= y
    <2> SUFFICES ASSUME NEW y \in s, ~ (x >= y) PROVE FALSE
      OBVIOUS
    <2>1. n - y \in T /\ n - y < m /\ n - y \in Nat /\ m \in Nat
      BY <1>4
    <2>2. <<n - y, m>> \in OpToRel(<, Nat)
      BY <2>1 DEF OpToRel
    <2> QED
      BY <1>3, <2>1, <2>2
  <1> QED
    BY <1>4, <1>5 DEF Max

(* The recursive function that FoldLeft uses for the ids. *)
Iter(g, start, p, ids, S) ==
  g = [s \in SUBSET S |-> IF s = {} THEN start ELSE Heard(g[s \ {Max(s)}], p, ids[Max(s)])]

HeardAll(start, p, ids) == FoldLeft(LAMBDA st, i : Heard(st, p, i), start, ids)

LEMMA FoldIs == ASSUME NEW start, NEW p, NEW ids
                PROVE  HeardAll(start, p, ids) = (CHOOSE g : Iter(g, start, p, ids, DOMAIN ids))[DOMAIN ids]
  BY Zenon DEF HeardAll, FoldLeft, MapThenFoldSet, Iter

LEMMA IterStart == ASSUME NEW start, NEW p, NEW ids, NEW S, NEW g, Iter(g, start, p, ids, S)
                   PROVE  g[{}] = start
  BY DEF Iter

LEMMA IterNext == ASSUME NEW start, NEW p, NEW ids, NEW S, NEW g, Iter(g, start, p, ids, S),
                         NEW s \in SUBSET S, s # {}
                  PROVE  g[s] = Heard(g[s \ {Max(s)}], p, ids[Max(s)])
  BY DEF Iter

(* It does not depend on the set that it is defined on. *)
LEMMA IterAgree == ASSUME NEW start, NEW p, NEW ids, NEW T, IsFiniteSet(T),
                          \A s \in SUBSET T : s # {} => Max(s) \in s,
                          NEW h, Iter(h, start, p, ids, T),
                          NEW S, S \subseteq T, NEW g, Iter(g, start, p, ids, S)
                   PROVE  g[S] = h[S]
  <1> DEFINE s == S
             U == {u \in SUBSET s : g[u] = h[u]}
  <1>1. ASSUME NEW t \in SUBSET s, \A u \in SUBSET t : u # t => u \in U PROVE t \in U
    <2>1. t \in SUBSET S /\ t \in SUBSET T
      OBVIOUS
    <2>2. CASE t = {}
      BY <2>2, IterStart
    <2>3. CASE t # {}
      <3>1. Max(t) \in t
        BY <2>1, <2>3
      <3>2. t \ {Max(t)} \in U
        BY <1>1, <3>1
      <3>3. g[t \ {Max(t)}] = h[t \ {Max(t)}]
        BY <3>2
      <3>4. g[t] = Heard(g[t \ {Max(t)}], p, ids[Max(t)])
        BY <2>1, <2>3 DEF Iter
      <3>5. h[t] = Heard(h[t \ {Max(t)}], p, ids[Max(t)])
        BY <2>1, <2>3 DEF Iter
      <3> QED
        BY <3>3, <3>4, <3>5
    <2> QED
      BY <2>2, <2>3
  <1>2. U \in SUBSET (SUBSET s) /\ IsFiniteSet(s)
    BY FS_Subset
  <1>3. U = SUBSET s
    <2> HIDE DEF U
    <2> QED
      BY <1>1, <1>2, SubsetInduct
  <1> QED
    BY <1>3

(* The recursion defines a function. *)
LEMMA IterExists == ASSUME NEW start, NEW p, NEW ids, NEW n \in Nat
                    PROVE  \E g : Iter(g, start, p, ids, 1 .. n)
  <1> DEFINE S == 1 .. n
             T == {t \in SUBSET S : \E g : Iter(g, start, p, ids, t)}
  <1>1. ASSUME NEW t \in SUBSET S, \A u \in SUBSET t : u # t => u \in T PROVE t \in T
    <2> DEFINE less(s) == s \ {Max(s)}
               part(s) == CHOOSE g : Iter(g, start, p, ids, s)
               next(s) == IF s = {} THEN start ELSE Heard(part(less(s))[less(s)], p, ids[Max(s)])
               g == [s \in SUBSET t |-> next(s)]
    <2>1. \A s \in SUBSET t : s # {} => Max(s) \in s
      BY MaxIn
    <2>2. ASSUME NEW s \in SUBSET t, s # t PROVE Iter(part(s), start, p, ids, s)
      BY <1>1, <2>2
    <2>3. ASSUME NEW s \in SUBSET t, s # {} PROVE g[less(s)] = part(less(s))[less(s)]
      <3> DEFINE u == less(s)
      <3>1. u \in SUBSET t /\ u # t /\ Iter(part(u), start, p, ids, u)
        BY <2>1, <2>2, <2>3
      <3>2. CASE u = {}
        <4>1. part(u)[u] = start
          <5> HIDE DEF part, u
          <5> QED
            BY <3>1, <3>2, IterStart
        <4> QED
          BY <3>1, <3>2, <4>1
      <3>3. CASE u # {}
        <4>1. less(u) \in SUBSET u /\ less(u) # t /\ Iter(part(less(u)), start, p, ids, less(u))
          BY <2>1, <2>2, <3>1, <3>3
        <4>2. IsFiniteSet(u) /\ \A x \in SUBSET u : x # {} => Max(x) \in x
          <5> HIDE DEF u
          <5>1. u \in SUBSET (1 .. n)
            BY <3>1
          <5>2. IsFiniteSet(1 .. n)
            BY FS_Interval
          <5> QED
            BY <5>1, <5>2, FS_Subset, MaxIn
        <4>3. part(less(u))[less(u)] = part(u)[less(u)]
          <5> DEFINE v == less(u)
                     a == part(u)
                     b == part(v)
          <5>1. /\ v \subseteq u
                /\ Iter(b, start, p, ids, v) /\ Iter(a, start, p, ids, u)
            BY <3>1, <4>1
          <5> HIDE DEF a, b, v, u
          <5>2. b[v] = a[v]
            BY <4>2, <5>1, IterAgree
          <5> QED
            BY <5>2 DEF a, b, v
        <4>4. part(u)[u] = Heard(part(u)[less(u)], p, ids[Max(u)])
          <5> HIDE DEF part, u
          <5> QED
            BY <3>1, <3>3, IterNext
        <4> QED
          BY <3>1, <3>3, <4>3, <4>4
      <3> QED
        BY <3>2, <3>3
    <2>4. ASSUME NEW s \in SUBSET t, s # {} PROVE g[s] = Heard(g[less(s)], p, ids[Max(s)])
      BY <2>3, <2>4
    <2>5. g = [s \in SUBSET t |-> g[s]]
      <3> HIDE DEF next
      <3> QED
        OBVIOUS
    <2>7. g[{}] = start
      OBVIOUS
    <2>6. Iter(g, start, p, ids, t)
      <3> HIDE DEF g
      <3> QED
        BY <2>4, <2>5, <2>7 DEF Iter
    <2> QED
      BY <2>6
  <1>2. T \in SUBSET (SUBSET S) /\ IsFiniteSet(S)
    BY FS_Interval
  <1>3. T = SUBSET S
    <2> HIDE DEF T, S
    <2> QED
      BY <1>1, <1>2, SubsetInduct
  <1> QED
    BY <1>3

(* The handler goes from one of its states to another. *)
LEMMA HeardAllKeeps == ASSUME NEW start, Handling(start), NEW p \in Peers, NEW ids \in Seq(Items)
                       PROVE  Handling(HeardAll(start, p, ids))
  <1> DEFINE n == Len(ids)
  <1>1. n \in Nat /\ DOMAIN ids = 1 .. n
    OBVIOUS
  <1>2. PICK g : Iter(g, start, p, ids, 1 .. n) /\ HeardAll(start, p, ids) = g[1 .. n]
    BY <1>1, FoldIs, IterExists
  <1> DEFINE T == {t \in SUBSET (1 .. n) : Handling(g[t])}
  <1>3. ASSUME NEW t \in SUBSET (1 .. n), \A u \in SUBSET t : u # t => u \in T PROVE t \in T
    <2>1. CASE t = {}
      BY <1>2, <2>1, IterStart
    <2>2. CASE t # {}
      <3>1. Max(t) \in t
        BY <1>1, <2>2, MaxIn
      <3>2. t \ {Max(t)} \in T
        BY <1>3, <3>1
      <3>4. Handling(g[t \ {Max(t)}]) /\ ids[Max(t)] \in Items
        <4>1. Handling(g[t \ {Max(t)}])
          BY <3>2
        <4>2. Max(t) \in DOMAIN ids
          BY <1>1, <3>1
        <4>3. ids[Max(t)] \in Items
          BY <4>2
        <4> QED
          BY <4>1, <4>3
      <3>3. g[t] = Heard(g[t \ {Max(t)}], p, ids[Max(t)])
        BY <1>2, <2>2 DEF Iter
      <3> QED
        BY <3>4, <3>3, HeardKeeps
    <2> QED
      BY <2>1, <2>2
  <1>4. T \in SUBSET (SUBSET (1 .. n)) /\ IsFiniteSet(1 .. n)
    BY <1>1, FS_Interval
  <1>5. T = SUBSET (1 .. n)
    <2> HIDE DEF T
    <2> QED
      BY <1>3, <1>4, SubsetInduct
  <1> QED
    BY <1>2, <1>5

-----------------------------------------------------------------------------
(* The steps *)

LEMMA InitIInv == Init => IInv
  <1> SUFFICES ASSUME Init PROVE IInv
    OBVIOUS
  <1>1. PICK S \in SUBSET Syncing :
          peer = [p \in Peers |-> [NewPeer EXCEPT !.list = "active", !.syncing = p \in S, !.needs = p \in S]]
    BY DEF Init
  <1>2. \A p \in Peers : PeerOK(peer[p], orphaned, judged) /\ peer[p] \in PeerType /\ peer[p].requested = {}
    <2> SUFFICES ASSUME NEW p \in Peers
                 PROVE  PeerOK(peer[p], orphaned, judged) /\ peer[p] \in PeerType /\ peer[p].requested = {}
      OBVIOUS
    <2>1. peer[p] = [NewPeer EXCEPT !.list = "active", !.syncing = p \in S, !.needs = p \in S]
      BY <1>1
    <2> DEFINE b == p \in S
    <2>2. b \in BOOLEAN
      OBVIOUS
    <2>3. peer[p] = [NewPeer EXCEPT !.list = "active", !.syncing = b, !.needs = b]
      BY <2>1
    <2> HIDE DEF b
    <2>4. peer[p] = [NewPeer EXCEPT !.list = "active", !.needs = b, !.syncing = b]
      BY <2>3 DEF NewPeer
    <2> QED
      BY <2>2, <2>4, PeerNew
  <1>3. PeersOK(peer, orphaned, judged)
    BY <1>1, <1>2 DEF PeersOK
  <1>4. Range(_items_to_fetch) = {} /\ QueueOK(_items_to_fetch, fetch_age)
    <2>1. _items_to_fetch = <<>> /\ fetch_age = [i \in {} |-> 0]
      BY Zenon DEF Init, Empty
    <2>2. Range(_items_to_fetch) = {}
      BY <2>1 DEF Range
    <2>3. _items_to_fetch \in Seq(Items) /\ IsInjective(_items_to_fetch)
      BY <2>1 DEF IsInjective
    <2>4. fetch_age \in [{} -> 0 .. MaxAge]
      BY <2>1
    <2> QED
      BY <2>2, <2>3, <2>4 DEF QueueOK
  <1>5. FetchOK(peer, _items_to_fetch, _recently_failed_items, orphaned)
    BY <1>2, <1>4, InvEmpty DEF FetchOK, Init
  <1>6. RestOK
    BY InvEmpty DEF RestOK, Init
  <1> QED
    BY <1>3, <1>4, <1>5, <1>6 DEF IInv

(* An id of a message is that of an item. *)
LEMMA MessageIds == ASSUME NEW ids \in InventoryMessages PROVE ids \in Seq(Items)
  <1>1. ids \in SeqOf(BlockItems, MaxIds) \cup SeqOf(TrxItems, MaxIds)
    BY DEF InventoryMessages
  <1>2. PICK m \in 0 .. MaxIds : ids \in [1 .. m -> Items]
    BY <1>1 DEF SeqOf, Items
  <1> QED
    BY <1>2

LEMMA StepInventory == ASSUME IInv, NEW p \in Peers, NEW ids \in InventoryMessages,
                              on_item_ids_inventory_message(p, ids)
                       PROVE  IInv'
  <1> DEFINE first == [peer EXCEPT ![p] = clear_old_inventory(@)]
             start == [peer |-> first, queue |-> _items_to_fetch,
                       age |-> fetch_age, wake |-> fetch_loop, full |-> FALSE]
             end == HeardAll(start, p, ids)
  <1>1. /\ peer' = end.peer /\ _items_to_fetch' = end.queue /\ fetch_age' = end.age /\ fetch_loop' = end.wake
        /\ UNCHANGED <<_recently_failed_items, _new_inventory, _message_cache,
                       _most_recent_blocks_accepted, _message_ids_currently_being_processed,
                       advertise_loop, judged, orphaned>>
    BY Zenon DEF on_item_ids_inventory_message, HeardAll
  <1>2. PeersOK(peer, orphaned, judged) /\ PeerOK(peer[p], orphaned, judged) /\ peer \in [Peers -> PeerType]
    BY DEF IInv, PeersOK
  <1>3. /\ PeerOK(clear_old_inventory(peer[p]), orphaned, judged)
        /\ clear_old_inventory(peer[p]).list = peer[p].list
        /\ clear_old_inventory(peer[p]).requested = peer[p].requested
    BY <1>2, PeerCleared
  <1>4. PeersOK(first, orphaned, judged)
    BY <1>2, <1>3, PeersOne
  <1>5. \A q \in Peers : first[q].list = peer[q].list /\ first[q].requested = peer[q].requested
    BY <1>2, <1>3
  <1> HIDE DEF first
  <1>6. FetchOK(first, _items_to_fetch, _recently_failed_items, orphaned)
    BY <1>5, FetchLess DEF IInv
  <1>7. /\ IsState(start) /\ start.peer = first /\ start.queue = _items_to_fetch /\ start.age = fetch_age
        /\ start.wake = fetch_loop /\ start.full = FALSE
    BY DEF IsState
  <1> HIDE DEF start
  <1>8. Handling(start)
    BY <1>4, <1>5, <1>6, <1>7 DEF Handling, IInv, RestOK
  <1>9. Handling(end)
    BY <1>8, MessageIds, HeardAllKeeps
  <1> HIDE DEF end
  <1> QED
    BY <1>1, <1>9 DEF Handling, IInv, RestOK

(* Of two items in the queue one comes first. *)
LEMMA BeforeTotal == ASSUME NEW q \in Seq(Items), NEW i \in Range(q), NEW j \in Range(q), i # j
                     PROVE  Before(i, j, q) \/ Before(j, i, q)
  <1>1. PICK m \in DOMAIN q : q[m] = i
    BY DEF Range
  <1>2. PICK k \in DOMAIN q : q[k] = j
    BY DEF Range
  <1>3. m \in Nat /\ k \in Nat /\ m # k
    BY <1>1, <1>2
  <1>4. CASE (i \in BlockItems) = (j \in BlockItems)
    BY <1>1, <1>2, <1>3, <1>4 DEF Before
  <1>5. CASE (i \in BlockItems) # (j \in BlockItems)
    BY <1>5 DEF Before
  <1> QED
    BY <1>4, <1>5

LEMMA StepFetch == ASSUME IInv, fetch_items_loop PROVE IInv'
  <1> DEFINE alive == {i \in Range(_items_to_fetch) : fetch_age[i] <= FetchLifetime}
  <1>0. PICK S \in SUBSET alive : \E asked \in [S -> Active] :
           /\ Asked(asked, alive)
           /\ peer' = [p \in Peers |->
                         [peer[p] EXCEPT !.requested = @ \cup {i \in S : asked[i] = p}]]
           /\ \E rest \in SetToSeqs(alive \ S) : InOrder(rest, _items_to_fetch) /\ _items_to_fetch' = rest
           /\ fetch_age' = [i \in alive \ S |-> fetch_age[i]]
    BY Zenon DEF fetch_items_loop
  <1>1. PICK asked \in [S -> Active] :
           /\ Asked(asked, alive)
           /\ peer' = [p \in Peers |->
                         [peer[p] EXCEPT !.requested = @ \cup {i \in S : asked[i] = p}]]
           /\ \E rest \in SetToSeqs(alive \ S) : InOrder(rest, _items_to_fetch) /\ _items_to_fetch' = rest
           /\ fetch_age' = [i \in alive \ S |-> fetch_age[i]]
    BY <1>0, Zenon
  <1>2. /\ fetch_loop' = FALSE
        /\ UNCHANGED <<_recently_failed_items, _new_inventory, _message_cache,
                       _most_recent_blocks_accepted, _message_ids_currently_being_processed,
                       advertise_loop, judged, orphaned>>
    BY DEF fetch_items_loop
  <1>3. alive \subseteq Range(_items_to_fetch) /\ Range(_items_to_fetch) \subseteq Items
    BY DEF IInv, QueueOK, Range
  <1>4. QueueOK(_items_to_fetch', fetch_age') /\ Range(_items_to_fetch') = alive \ S
    <2>1. QueueOK(_items_to_fetch, fetch_age) /\ alive \ S \in SUBSET Range(_items_to_fetch)
      BY DEF IInv
    <2>2. PICK rest \in SetToSeqs(alive \ S) : _items_to_fetch' = rest
      BY <1>1
    <2> DEFINE T == alive \ S
    <2>3. fetch_age' = [x \in T |-> fetch_age[x]] /\ rest \in SetToSeqs(T) /\ T \in SUBSET Range(_items_to_fetch)
      BY <1>1, <2>1, <2>2
    <2> HIDE DEF T
    <2>4. QueueOK(rest, [x \in T |-> fetch_age[x]]) /\ Range(rest) = T
      BY <2>1, <2>3, QueueLess
    <2> QED
      BY <2>2, <2>3, <2>4 DEF T
  <1>5. ASSUME NEW p \in Peers, NEW i \in S, asked[i] = p
        PROVE  p \in Active /\ idle(peer[p]) /\ \A j \in S : Before(j, i, _items_to_fetch) => asked[j] # p
    BY <1>1, <1>5 DEF Asked
  <1>6. ASSUME NEW i \in S, NEW j \in S, asked[i] = asked[j] PROVE i = j
    <2>1. asked[i] \in Peers /\ i \in Range(_items_to_fetch) /\ j \in Range(_items_to_fetch)
      BY <1>1, <1>3 DEF Active
    <2> SUFFICES ASSUME i # j PROVE FALSE
      OBVIOUS
    <2>2. Before(i, j, _items_to_fetch) \/ Before(j, i, _items_to_fetch)
      BY <2>1, BeforeTotal DEF IInv, QueueOK
    <2> QED
      BY <1>5, <1>6, <2>1, <2>2
  <1> HIDE DEF alive
  <1>7. peer \in [Peers -> PeerType] /\ \A p \in Peers : PeerOK(peer[p], orphaned, judged)
    BY DEF IInv, PeersOK
  <1> DEFINE new(p) == {i \in S : asked[i] = p}
  <1>8. ASSUME NEW p \in Peers
        PROVE  /\ PeerOK(peer'[p], orphaned, judged) /\ peer'[p] \in PeerType
               /\ peer'[p].requested = peer[p].requested \cup new(p)
               /\ new(p) # {} => peer[p].requested = {}
    <2>1. peer'[p] = [peer[p] EXCEPT !.requested = @ \cup new(p)]
      BY <1>1
    <2>2. new(p) \subseteq Items
      BY <1>3
    <2>3. new(p) # {} => peer[p].requested = {} /\ peer[p].list = "active"
      BY <1>5 DEF idle, Active
    <2>4. \A x, y \in new(p) : x = y
      BY <1>6
    <2> HIDE DEF new
    <2>5. peer[p] \in PeerType /\ PeerOK(peer[p], orphaned, judged)
      BY <1>7
    <2>6. /\ peer'[p] \in PeerType /\ peer'[p].requested = peer[p].requested \cup new(p)
          /\ peer'[p].list = peer[p].list /\ peer'[p].advertised = peer[p].advertised
          /\ peer'[p].heard = peer[p].heard
      BY <2>1, <2>2, <2>5 DEF PeerType
    <2>7. PeerOK(peer'[p], orphaned, judged)
      <3>1. CASE new(p) = {}
        BY <2>5, <2>6, <3>1 DEF PeerOK
      <3>2. CASE new(p) # {}
        BY <2>3, <2>4, <2>5, <2>6, <3>2 DEF PeerOK
      <3> QED
        BY <3>1, <3>2
    <2> QED
      BY <2>3, <2>6, <2>7
  <1>9. PeersOK(peer', orphaned, judged)
    BY <1>1, <1>8 DEF PeersOK
  <1>10. FetchOK(peer', _items_to_fetch', _recently_failed_items, orphaned)
    <2> SUFFICES ASSUME NEW i \in Items \ orphaned
                 PROVE  /\ \A p, q \in Peers : i \in peer'[p].requested /\ i \in peer'[q].requested => p = q
                        /\ i \in Range(_items_to_fetch') => \A p \in Peers : i \notin peer'[p].requested
                        /\ i \in DOMAIN _recently_failed_items =>
                             i \notin Range(_items_to_fetch') /\ \A p \in Peers : i \notin peer'[p].requested
      BY DEF FetchOK
    <2>1. /\ \A p, q \in Peers : i \in peer[p].requested /\ i \in peer[q].requested => p = q
          /\ i \in Range(_items_to_fetch) => \A p \in Peers : i \notin peer[p].requested
          /\ i \in DOMAIN _recently_failed_items =>
               i \notin Range(_items_to_fetch) /\ \A p \in Peers : i \notin peer[p].requested
      BY DEF IInv, FetchOK
    <2>2. CASE i \in S
      <3>1. i \in Range(_items_to_fetch) /\ i \notin Range(_items_to_fetch')
        BY <1>3, <1>4, <2>2
      <3>2. \A p \in Peers : i \in peer'[p].requested => asked[i] = p
        BY <1>8, <2>1, <3>1
      <3> QED
        BY <2>1, <3>1, <3>2
    <2>3. CASE i \notin S
      <3>1. \A p \in Peers : i \in peer'[p].requested => i \in peer[p].requested
        BY <1>8, <2>3
      <3>2. Range(_items_to_fetch') \subseteq Range(_items_to_fetch)
        BY <1>3, <1>4
      <3> QED
        BY <2>1, <3>1, <3>2
    <2> QED
      BY <2>2, <2>3
  <1>11. RestOK'
    BY <1>2 DEF IInv, RestOK
  <1> QED
    BY <1>2, <1>4, <1>9, <1>10, <1>11 DEF IInv

(* A step that requests, queues and fails nothing. *)
LEMMA PeersStep == ASSUME IInv, DOMAIN peer' = Peers, peer' = [q \in Peers |-> peer'[q]],
                          \A q \in Peers : /\ PeerOK(peer'[q], orphaned', judged')
                                           /\ peer'[q].requested \subseteq peer[q].requested,
                          Range(_items_to_fetch') \subseteq Range(_items_to_fetch),
                          DOMAIN _recently_failed_items' \subseteq DOMAIN _recently_failed_items,
                          orphaned \subseteq orphaned'
                   PROVE  /\ PeersOK(peer', orphaned', judged')
                          /\ FetchOK(peer', _items_to_fetch', _recently_failed_items', orphaned')
  <1>1. PeersOK(peer', orphaned', judged')
    BY DEF PeersOK, PeerOK
  <1>2. FetchOK(peer, _items_to_fetch, _recently_failed_items, orphaned)
    BY DEF IInv
  <1> QED
    BY <1>1, <1>2, FetchLess

(* One of its kind that changes one connection. *)
LEMMA PeerStep == ASSUME IInv, NEW p \in Peers, NEW pr, peer' = [peer EXCEPT ![p] = pr],
                         PeerOK(pr, orphaned', judged'), pr.requested \subseteq peer[p].requested,
                         Range(_items_to_fetch') \subseteq Range(_items_to_fetch),
                         DOMAIN _recently_failed_items' \subseteq DOMAIN _recently_failed_items,
                         orphaned \subseteq orphaned', judged \subseteq judged'
                  PROVE  /\ PeersOK(peer', orphaned', judged')
                         /\ FetchOK(peer', _items_to_fetch', _recently_failed_items', orphaned')
  <1>1. peer \in [Peers -> PeerType] /\ \A q \in Peers : PeerOK(peer[q], orphaned, judged)
    BY DEF IInv, PeersOK
  <1>2. \A q \in Peers : PeerOK(peer[q], orphaned', judged')
    BY <1>1, PeerMore
  <1>3. DOMAIN peer' = Peers /\ peer' = [q \in Peers |-> peer'[q]]
    BY <1>1
  <1>4. \A q \in Peers : /\ PeerOK(peer'[q], orphaned', judged')
                         /\ peer'[q].requested \subseteq peer[q].requested
    BY <1>1, <1>2
  <1> QED
    BY <1>3, <1>4, PeersStep

(* A request that is over. *)
Answered(pr, i) == [pr EXCEPT !.requested = @ \ {i}]

LEMMA PeerAnswered == ASSUME NEW pr, NEW o, NEW j, PeerOK(pr, o, j), NEW i
                      PROVE  /\ PeerOK(Answered(pr, i), o, j) /\ Answered(pr, i) \in PeerType
                             /\ Answered(pr, i).requested = pr.requested \ {i}
                             /\ Answered(pr, i).list = pr.list
  <1> DEFINE qr == Answered(pr, i)
  <1>1. pr \in PeerType
    BY DEF PeerOK
  <1>2. /\ qr \in PeerType /\ qr.list = pr.list /\ qr.requested = pr.requested \ {i}
        /\ qr.advertised = pr.advertised /\ qr.heard = pr.heard
    BY <1>1 DEF Answered, PeerType
  <1> HIDE DEF qr
  <1>3. PeerOK(qr, o, j)
    BY <1>2, PeerLess
  <1> QED
    BY <1>2, <1>3 DEF qr

(* Only that peer was asked for it, and it is not queued. *)
LEMMA RequestedOnce == ASSUME IInv, NEW p \in Peers, NEW i, i \in peer[p].requested
                       PROVE  /\ i \in Items
                              /\ i \notin orphaned => /\ i \notin Range(_items_to_fetch)
                                                      /\ i \notin DOMAIN _recently_failed_items
                                                      /\ \A q \in Peers \ {p} : i \notin peer[q].requested
  <1>1. i \in Items
    BY DEF IInv, PeersOK, PeerType
  <1> QED
    BY <1>1 DEF IInv, FetchOK

LEMMA StepTransaction == ASSUME IInv, NEW p \in Peers, NEW i \in Items, process_ordinary_message(p, i)
                         PROVE  IInv'
  <1> DEFINE pr == Answered(peer[p], i)
  <1>1. i \in peer[p].requested /\ i \in TrxItems /\ peer' = [peer EXCEPT ![p] = pr]
    BY DEF process_ordinary_message, Answered
  <1>2. /\ fetch_loop' \in BOOLEAN /\ judged' = judged \cup {i}
        /\ UNCHANGED <<_items_to_fetch, fetch_age, _message_ids_currently_being_processed, orphaned>>
    BY DEF process_ordinary_message
  <1>3. PeerOK(peer[p], orphaned, judged) /\ peer \in [Peers -> PeerType]
    BY DEF IInv, PeersOK
  <1>4. PeerOK(pr, orphaned', judged') /\ pr.requested = peer[p].requested \ {i}
    <2>1. PeerOK(pr, orphaned, judged) /\ pr.requested = peer[p].requested \ {i}
      BY <1>3, PeerAnswered
    <2> QED
      BY <1>2, <2>1, PeerMore
  <1> HIDE DEF pr
  <1>5. i \notin Bad \/ i \in Rejected
    BY <1>1, ItemAssumption DEF Bad
  <1>6. CASE i \notin Rejected
    <2>1. /\ _new_inventory' = _new_inventory \cup {i} /\ advertise_loop' = TRUE
          /\ _most_recent_blocks_accepted' = _most_recent_blocks_accepted \cup ({i} \cap BlockItems)
          /\ _message_cache' = Inserted(_message_cache, i)
          /\ UNCHANGED _recently_failed_items
      BY <1>6 DEF process_ordinary_message, broadcast, Cached
    <2>2. PeersOK(peer', orphaned', judged') /\ FetchOK(peer', _items_to_fetch', _recently_failed_items', orphaned')
      BY <1>1, <1>2, <1>4, <2>1, PeerStep
    <2>3. DOMAIN _message_cache' \subseteq DOMAIN _message_cache \cup {i}
      BY <2>1 DEF Inserted, Fresh
    <2>4. RestOK'
      BY <1>1, <1>2, <1>5, <1>6, <2>1, <2>3, ItemAssumption DEF IInv, RestOK
    <2> QED
      BY <1>2, <2>2, <2>4 DEF IInv
  <1>7. CASE i \in Rejected
    <2>1. /\ _recently_failed_items' = Inserted(_recently_failed_items, i)
          /\ UNCHANGED <<_new_inventory, _message_cache, _most_recent_blocks_accepted, advertise_loop>>
      BY <1>7 DEF process_ordinary_message
    <2>2. /\ _recently_failed_items' \in Inventories
          /\ DOMAIN _recently_failed_items' = DOMAIN _recently_failed_items \cup {i}
      BY <2>1, InvInserted DEF IInv, RestOK
    <2>3. PeersOK(peer', orphaned', judged')
      <3>1. PeersOK(peer, orphaned', judged')
        BY <1>2, PeersMore DEF IInv
      <3> QED
        BY <1>1, <1>4, <3>1, PeersOne
    <2>4. \A q \in Peers : peer'[q].requested \subseteq peer[q].requested \ {x \in {i} : q = p}
      BY <1>1, <1>3, <1>4
    <2>5. FetchOK(peer', _items_to_fetch', _recently_failed_items', orphaned')
      <3>1. FetchOK(peer, _items_to_fetch, _recently_failed_items, orphaned)
        BY DEF IInv
      <3>2. i \notin orphaned => /\ i \notin Range(_items_to_fetch)
                                 /\ \A q \in Peers \ {p} : i \notin peer[q].requested
        BY <1>1, RequestedOnce
      <3>3. i \notin orphaned => \A q \in Peers : i \notin peer'[q].requested
        BY <2>4, <3>2
      <3>4. \A q \in Peers : peer'[q].requested \subseteq peer[q].requested
        BY <2>4
      <3> QED
        BY <1>2, <2>2, <3>1, <3>2, <3>3, <3>4 DEF FetchOK
    <2>6. RestOK'
      BY <1>2, <2>1, <2>2 DEF IInv, RestOK
    <2> QED
      BY <1>2, <2>3, <2>5, <2>6 DEF IInv
  <1> QED
    BY <1>6, <1>7

(* What the client accepts is not what it refuses. *)
LEMMA AcceptedGood == ASSUME IInv, NEW i \in Items, "accepted" \in Outcomes(i) PROVE i \notin Bad
  BY DEF Outcomes, Bad, IInv, RestOK

LEMMA StepAccepted == ASSUME IInv, NEW p \in Peers, NEW i \in Items, process_block_accepted(p, i)
                      PROVE  IInv'
  <1> DEFINE part(q) == IF q = p THEN Answered(peer[q], i) ELSE peer[q]
             new(q) == IF q \in Active THEN clear_old_inventory(part(q)) ELSE part(q)
  <1>1. peer' = [q \in Peers |-> new(q)]
    BY Zenon DEF process_block_accepted, Answered
  <1>2. /\ i \in BlockItems /\ "accepted" \in Outcomes(i) /\ fetch_loop' \in BOOLEAN /\ judged' = judged \cup {i}
        /\ _new_inventory' = _new_inventory \cup {i} /\ advertise_loop' = TRUE
        /\ _most_recent_blocks_accepted' = _most_recent_blocks_accepted \cup ({i} \cap BlockItems)
        /\ _message_cache' = block_accepted(Inserted(_message_cache, i))
        /\ UNCHANGED <<_items_to_fetch, fetch_age, _recently_failed_items,
                       _message_ids_currently_being_processed, orphaned>>
    BY DEF process_block_accepted, broadcast, Cached
  <1>3. i \notin Bad
    BY <1>2, AcceptedGood
  <1>4. ASSUME NEW q \in Peers
        PROVE  PeerOK(new(q), orphaned', judged') /\ new(q).requested \subseteq peer[q].requested
    <2>1. PeerOK(peer[q], orphaned', judged')
      BY <1>2, PeerMore DEF IInv, PeersOK
    <2>2. PeerOK(part(q), orphaned', judged') /\ part(q).requested \subseteq peer[q].requested
      BY <2>1, PeerAnswered
    <2> HIDE DEF part
    <2> QED
      BY <2>2, PeerCleared
  <1>5. /\ DOMAIN peer' = Peers /\ peer' = [q \in Peers |-> peer'[q]]
        /\ \A q \in Peers : PeerOK(peer'[q], orphaned', judged') /\ peer'[q].requested \subseteq peer[q].requested
    <2> HIDE DEF new
    <2> QED
      BY <1>1, <1>4
  <1>6. PeersOK(peer', orphaned', judged') /\ FetchOK(peer', _items_to_fetch', _recently_failed_items', orphaned')
    BY <1>2, <1>5, PeersStep
  <1>7. DOMAIN _message_cache' \subseteq DOMAIN _message_cache \cup {i}
    BY <1>2 DEF Inserted, Fresh, block_accepted
  <1>8. RestOK'
    BY <1>2, <1>3, <1>7 DEF IInv, RestOK
  <1> QED
    BY <1>2, <1>6, <1>8 DEF IInv

LEMMA StepUnlinkable == ASSUME IInv, NEW p \in Peers, NEW i \in Items, process_block_unlinkable(p, i)
                        PROVE  IInv'
  <1> DEFINE pr == [peer[p] EXCEPT !.requested = @ \ {i}, !.syncing = TRUE]
  <1>1. peer' = [peer EXCEPT ![p] = pr]
    BY DEF process_block_unlinkable
  <1>2. /\ i \in BlockItems /\ judged' = judged \cup {i}
        /\ _message_ids_currently_being_processed' = _message_ids_currently_being_processed \cup {i}
        /\ UNCHANGED <<_items_to_fetch, fetch_age, _recently_failed_items, _new_inventory, _message_cache,
                       _most_recent_blocks_accepted, fetch_loop, advertise_loop, orphaned>>
    BY DEF process_block_unlinkable
  <1>3. PeerOK(peer[p], orphaned', judged') /\ peer[p] \in PeerType
    BY <1>2, PeerMore DEF IInv, PeersOK
  <1>4. /\ pr \in PeerType /\ pr.list = peer[p].list /\ pr.requested = peer[p].requested \ {i}
        /\ pr.advertised = peer[p].advertised /\ pr.heard = peer[p].heard
    BY <1>3 DEF PeerType
  <1> HIDE DEF pr
  <1>5. PeerOK(pr, orphaned', judged')
    BY <1>3, <1>4, PeerLess
  <1>6. PeersOK(peer', orphaned', judged') /\ FetchOK(peer', _items_to_fetch', _recently_failed_items', orphaned')
    BY <1>1, <1>2, <1>4, <1>5, PeerStep
  <1>7. RestOK'
    BY <1>2 DEF IInv, RestOK
  <1> QED
    BY <1>2, <1>6, <1>7 DEF IInv

LEMMA StepRejected == ASSUME IInv, NEW p \in Peers, NEW i \in Items, process_block_rejected(p, i)
                      PROVE  IInv'
  <1> DEFINE part(q) == IF q = p THEN Answered(peer[q], i) ELSE peer[q]
  <1>1. PICK also \in SUBSET {q \in Active : peer[q].syncing} :
          /\ peer' = [q \in Peers |-> IF q \in also \cup {p} THEN Leave(part(q)) ELSE part(q)]
          /\ orphaned' = orphaned \cup UNION {peer'[q].requested : q \in also \cup {p}}
    BY Zenon DEF process_block_rejected, Answered
  <1>2. /\ i \in BlockItems /\ fetch_loop' \in BOOLEAN /\ judged' = judged \cup {i}
        /\ _message_ids_currently_being_processed' = _message_ids_currently_being_processed \cup {i}
        /\ UNCHANGED <<_items_to_fetch, fetch_age, _recently_failed_items, _new_inventory, _message_cache,
                       _most_recent_blocks_accepted, advertise_loop>>
    BY DEF process_block_rejected
  <1> DEFINE out == also \cup {p}
             new(q) == IF q \in out THEN Leave(part(q)) ELSE part(q)
  <1>3. orphaned \subseteq orphaned' /\ out \subseteq Peers
    BY <1>1 DEF Active
  <1>4. ASSUME NEW q \in Peers
        PROVE  /\ PeerOK(new(q), orphaned', judged') /\ new(q) \in PeerType
               /\ new(q).requested \subseteq peer[q].requested
    <2>1. PeerOK(peer[q], orphaned', judged')
      BY <1>2, <1>3, PeerMore DEF IInv, PeersOK
    <2>2. PeerOK(part(q), orphaned', judged') /\ part(q).requested \subseteq peer[q].requested
      BY <2>1, PeerAnswered
    <2>3. peer'[q] = new(q)
      BY <1>1
    <2> HIDE DEF part
    <2>4. Leave(part(q)).requested = part(q).requested
      BY DEF Leave
    <2>5. q \in out => part(q).requested \subseteq orphaned'
      <3> SUFFICES ASSUME q \in out PROVE part(q).requested \subseteq orphaned'
        OBVIOUS
      <3>1. peer'[q].requested = part(q).requested
        BY <2>3, <2>4
      <3> QED
        BY <1>1, <3>1
    <2>6. q \in out => /\ PeerOK(Leave(part(q)), orphaned', judged')
                       /\ Leave(part(q)).requested = part(q).requested
      BY <2>2, <2>5, PeerLeaves
    <2> QED
      BY <2>2, <2>6 DEF PeerOK
  <1>5. /\ DOMAIN peer' = Peers /\ peer' = [q \in Peers |-> peer'[q]]
        /\ \A q \in Peers : PeerOK(peer'[q], orphaned', judged') /\ peer'[q].requested \subseteq peer[q].requested
    <2>1. peer' = [q \in Peers |-> new(q)]
      BY <1>1
    <2> HIDE DEF new
    <2> QED
      BY <2>1, <1>4
  <1>6. PeersOK(peer', orphaned', judged') /\ FetchOK(peer', _items_to_fetch', _recently_failed_items', orphaned')
    BY <1>2, <1>3, <1>5, PeersStep
  <1>7. orphaned' \subseteq Items
    <2>1. \A q \in Peers : peer'[q].requested \subseteq Items
      BY <1>5 DEF PeerOK, PeerType
    <2> QED
      BY <1>1, <1>3, <2>1 DEF IInv, RestOK
  <1>8. RestOK'
    BY <1>2, <1>7 DEF IInv, RestOK
  <1> QED
    BY <1>2, <1>6, <1>8 DEF IInv

(* A peer is dropped. *)
LEMMA StepLeave == ASSUME IInv, NEW p \in Peers, peer' = [peer EXCEPT ![p] = Leave(@)],
                          orphaned' = orphaned \cup peer[p].requested,
                          UNCHANGED <<_items_to_fetch, fetch_age, _recently_failed_items, _new_inventory,
                                      _message_cache, _most_recent_blocks_accepted,
                                      _message_ids_currently_being_processed, fetch_loop, advertise_loop, judged>>
                   PROVE  IInv'
  <1>1. PeerOK(peer[p], orphaned, judged) /\ peer[p].requested \subseteq Items
    BY DEF IInv, PeersOK, PeerOK, PeerType
  <1>2. PeerOK(Leave(peer[p]), orphaned', judged') /\ Leave(peer[p]).requested \subseteq peer[p].requested
    BY <1>1, PeerLeaves
  <1>3. peer' = [peer EXCEPT ![p] = Leave(peer[p])]
    OBVIOUS
  <1>4. PeersOK(peer', orphaned', judged') /\ FetchOK(peer', _items_to_fetch', _recently_failed_items', orphaned')
    BY <1>2, <1>3, PeerStep
  <1>5. RestOK'
    BY <1>1 DEF IInv, RestOK
  <1> QED
    BY <1>4, <1>5 DEF IInv

LEMMA StepClient == ASSUME IInv, NEW i \in Items, client_broadcasts(i) PROVE IInv'
  <1>1. /\ i \in Own /\ judged' = judged \cup {i}
        /\ _new_inventory' = _new_inventory \cup {i} /\ advertise_loop' = TRUE
        /\ _most_recent_blocks_accepted' = _most_recent_blocks_accepted \cup ({i} \cap BlockItems)
        /\ _message_cache' = Inserted(_message_cache, i)
        /\ UNCHANGED <<peer, _items_to_fetch, fetch_age, _recently_failed_items,
                       _message_ids_currently_being_processed, fetch_loop, orphaned>>
    BY DEF client_broadcasts, broadcast, Cached
  <1>2. i \notin Bad
    BY <1>1, ItemAssumption DEF Bad
  <1>3. DOMAIN _message_cache' \subseteq DOMAIN _message_cache \cup {i}
    BY <1>1 DEF Inserted, Fresh
  <1>4. PeersOK(peer', orphaned', judged')
    BY <1>1, PeersMore DEF IInv
  <1>5. RestOK'
    BY <1>1, <1>2, <1>3 DEF IInv, RestOK
  <1> QED
    BY <1>1, <1>4, <1>5 DEF IInv

(* A peer is told of items. *)
Told(pr, N) == [pr EXCEPT !.advertised = [i \in DOMAIN @ \cup N |-> IF i \in DOMAIN @ THEN @[i] ELSE 0]]

LEMMA PeerTold == ASSUME NEW pr, NEW o, NEW j, PeerOK(pr, o, j), NEW N, N \subseteq (j \cap Items) \ Bad,
                         N \cap DOMAIN pr.heard = {}
                  PROVE  PeerOK(Told(pr, N), o, j) /\ Told(pr, N).requested = pr.requested
  <1> DEFINE a == [i \in DOMAIN pr.advertised \cup N |-> IF i \in DOMAIN pr.advertised THEN pr.advertised[i] ELSE 0]
             qr == Told(pr, N)
  <1>1. pr \in PeerType
    BY DEF PeerOK
  <1>2. pr.advertised \in [DOMAIN pr.advertised -> 0 .. MaxAge] /\ DOMAIN pr.advertised \subseteq Items
    BY <1>1, InvIs DEF PeerType
  <1>3. a \in [DOMAIN pr.advertised \cup N -> 0 .. MaxAge] /\ DOMAIN a = DOMAIN pr.advertised \cup N
    BY <1>2, AgeNat
  <1>4. qr = [pr EXCEPT !.advertised = a]
    BY DEF Told
  <1> HIDE DEF a, qr
  <1>5. a \in Inventories
    BY <1>2, <1>3, InvIs
  <1>6. /\ qr \in PeerType /\ qr.list = pr.list /\ qr.requested = pr.requested
        /\ qr.advertised = a /\ qr.heard = pr.heard
    BY <1>1, <1>4, <1>5 DEF PeerType
  <1>7. PeerOK(qr, o, j)
    BY <1>3, <1>6 DEF PeerOK
  <1> QED
    BY <1>6, <1>7 DEF qr

LEMMA StepAdvertise == ASSUME IInv, advertise_inventory_loop PROVE IInv'
  <1> DEFINE new(q) == IF q \notin Active THEN peer[q] ELSE clear_old_inventory(Told(peer[q], News(peer[q])))
  <1>1. peer' = [q \in Peers |-> new(q)]
    BY Zenon DEF advertise_inventory_loop, Told
  <1>2. /\ _new_inventory' = {} /\ advertise_loop' = FALSE
        /\ UNCHANGED <<_items_to_fetch, fetch_age, _recently_failed_items, _message_cache,
                       _most_recent_blocks_accepted, _message_ids_currently_being_processed,
                       fetch_loop, judged, orphaned>>
    BY DEF advertise_inventory_loop
  <1>3. ASSUME NEW q \in Peers
        PROVE  PeerOK(new(q), orphaned', judged') /\ new(q).requested \subseteq peer[q].requested
    <2>1. PeerOK(peer[q], orphaned', judged')
      BY <1>2 DEF IInv, PeersOK
    <2> DEFINE N == News(peer[q])
    <2>2. N \subseteq (judged' \cap Items) \ Bad /\ N \cap DOMAIN peer[q].heard = {}
      BY <1>2 DEF News, IInv, RestOK
    <2> HIDE DEF N
    <2>3. PeerOK(Told(peer[q], N), orphaned', judged') /\ Told(peer[q], N).requested = peer[q].requested
      BY <2>1, <2>2, PeerTold
    <2>4. /\ PeerOK(clear_old_inventory(Told(peer[q], N)), orphaned', judged')
          /\ clear_old_inventory(Told(peer[q], N)).requested = peer[q].requested
      BY <2>3, PeerCleared
    <2> QED
      BY <2>1, <2>4 DEF N
  <1>4. /\ DOMAIN peer' = Peers /\ peer' = [q \in Peers |-> peer'[q]]
        /\ \A q \in Peers : PeerOK(peer'[q], orphaned', judged') /\ peer'[q].requested \subseteq peer[q].requested
    <2> HIDE DEF new
    <2> QED
      BY <1>1, <1>3
  <1>5. PeersOK(peer', orphaned', judged') /\ FetchOK(peer', _items_to_fetch', _recently_failed_items', orphaned')
    BY <1>2, <1>4, PeersStep
  <1>6. RestOK'
    BY <1>2 DEF IInv, RestOK
  <1> QED
    BY <1>2, <1>5, <1>6 DEF IInv

(* Requests of a peer are given up and queued again. *)
LEMMA Requeued == ASSUME IInv, NEW p \in Peers, NEW T \in SUBSET peer[p].requested, NEW pr,
                         peer' = [peer EXCEPT ![p] = pr], PeerOK(pr, orphaned, judged),
                         pr.requested \subseteq peer[p].requested \ T,
                         Queued(T, _items_to_fetch, fetch_age, _items_to_fetch', fetch_age'),
                         UNCHANGED <<_recently_failed_items, judged, orphaned>>
                  PROVE  /\ PeersOK(peer', orphaned', judged') /\ QueueOK(_items_to_fetch', fetch_age')
                         /\ FetchOK(peer', _items_to_fetch', _recently_failed_items', orphaned')
  <1>1. PeerOK(peer[p], orphaned, judged) /\ peer \in [Peers -> PeerType] /\ peer[p].requested \subseteq Items
    BY DEF IInv, PeersOK, PeerType
  <1>2. IsFiniteSet(T)
    <2>1. CASE T = {}
      BY <2>1, FS_EmptySet
    <2>2. CASE T # {}
      <3>1. PICK x \in T : TRUE
        BY <2>2
      <3>2. T = {x}
        BY <1>1, <3>1 DEF PeerOK
      <3> QED
        BY <3>2, FS_Singleton
    <2> QED
      BY <2>1, <2>2
  <1>3. QueueOK(_items_to_fetch', fetch_age') /\ Range(_items_to_fetch') = Range(_items_to_fetch) \cup T
    BY <1>1, <1>2, QueueGrows DEF IInv
  <1>4. PeersOK(peer', orphaned', judged')
    BY PeersOne DEF IInv
  <1>5. FetchOK(peer', _items_to_fetch', _recently_failed_items', orphaned')
    <2>1. \A q \in Peers : peer'[q].requested \subseteq peer[q].requested
      BY <1>1
    <2>2. peer'[p].requested \cap T = {}
      BY <1>1
    <2>3. \A i \in T \ orphaned : /\ i \notin DOMAIN _recently_failed_items
                                  /\ \A q \in Peers \ {p} : i \notin peer[q].requested
      BY RequestedOnce
    <2>4. \A i \in T \ orphaned : /\ i \notin DOMAIN _recently_failed_items'
                                  /\ \A q \in Peers : i \notin peer'[q].requested
      BY <2>1, <2>2, <2>3
    <2>5. FetchOK(peer, _items_to_fetch, _recently_failed_items, orphaned)
      BY DEF IInv
    <2> QED
      BY <1>3, <2>1, <2>4, <2>5 DEF FetchOK
  <1> QED
    BY <1>3, <1>4, <1>5

LEMMA StepNotAvailable == ASSUME IInv, NEW p \in Peers, NEW i \in Items, on_item_not_available_message(p, i)
                          PROVE  IInv'
  <1> DEFINE pr == [peer[p] EXCEPT !.requested = @ \ {i}, !.heard = Without(@, {i})]
             T == IF is_item_in_any_peers_inventory(i, peer') THEN {i} ELSE {}
  <1>1. /\ i \in peer[p].requested /\ peer' = [peer EXCEPT ![p] = pr] /\ fetch_loop' = TRUE
        /\ UNCHANGED <<_recently_failed_items, _new_inventory, _message_cache,
                       _most_recent_blocks_accepted, _message_ids_currently_being_processed,
                       advertise_loop, judged, orphaned>>
    BY DEF on_item_not_available_message
  <1>2. Queued(T, _items_to_fetch, fetch_age, _items_to_fetch', fetch_age')
    BY Zenon DEF on_item_not_available_message
  <1>3. PeerOK(peer[p], orphaned, judged) /\ peer[p] \in PeerType
    BY DEF IInv, PeersOK
  <1>4. Without(peer[p].heard, {i}) \in Inventories /\ DOMAIN Without(peer[p].heard, {i}) \subseteq DOMAIN peer[p].heard
    BY <1>3, InvWithout DEF PeerType
  <1>5. /\ pr \in PeerType /\ pr.list = peer[p].list /\ pr.requested = peer[p].requested \ {i}
        /\ pr.advertised = peer[p].advertised /\ pr.heard = Without(peer[p].heard, {i})
    BY <1>3, <1>4 DEF PeerType
  <1> HIDE DEF pr
  <1>6. PeerOK(pr, orphaned, judged)
    BY <1>3, <1>4, <1>5, PeerLess
  <1>7. T \in SUBSET peer[p].requested /\ pr.requested \subseteq peer[p].requested \ T
    BY <1>1, <1>5
  <1> HIDE DEF T
  <1>8. /\ PeersOK(peer', orphaned', judged') /\ QueueOK(_items_to_fetch', fetch_age')
        /\ FetchOK(peer', _items_to_fetch', _recently_failed_items', orphaned')
    BY <1>1, <1>2, <1>6, <1>7, Requeued
  <1>9. RestOK'
    BY <1>1 DEF IInv, RestOK
  <1> QED
    BY <1>8, <1>9 DEF IInv

LEMMA StepClosed == ASSUME IInv, NEW p \in Peers, connection_closed(p) PROVE IInv'
  <1> DEFINE pr == [NewPeer EXCEPT !.syncing = FALSE]
             T == {i \in peer[p].requested : is_item_in_any_peers_inventory(i, peer')}
  <1>1. /\ peer' = [peer EXCEPT ![p] = pr] /\ fetch_loop' \in BOOLEAN
        /\ UNCHANGED <<_recently_failed_items, _new_inventory, _message_cache,
                       _most_recent_blocks_accepted, _message_ids_currently_being_processed,
                       advertise_loop, judged, orphaned>>
    BY DEF connection_closed
  <1>2. Queued(T, _items_to_fetch, fetch_age, _items_to_fetch', fetch_age')
    BY Zenon DEF connection_closed
  <1>3. PeerOK(pr, orphaned, judged) /\ pr.requested = {}
    <2>1. /\ pr \in PeerType /\ pr.requested = {} /\ pr.list = "none"
          /\ pr.advertised = Empty /\ pr.heard = Empty
      BY InvEmpty DEF NewPeer, PeerType
    <2> HIDE DEF pr
    <2>2. IsFiniteSet(DOMAIN pr.heard) /\ Cardinality(DOMAIN pr.heard) = 0
      BY <2>1, InvEmpty, FS_EmptySet
    <2> QED
      BY <2>1, <2>2, InvEmpty, ItemAssumption DEF PeerOK
  <1> HIDE DEF pr
  <1>4. T \in SUBSET peer[p].requested /\ pr.requested \subseteq peer[p].requested \ T
    BY <1>3
  <1> HIDE DEF T
  <1>5. /\ PeersOK(peer', orphaned', judged') /\ QueueOK(_items_to_fetch', fetch_age')
        /\ FetchOK(peer', _items_to_fetch', _recently_failed_items', orphaned')
    BY <1>1, <1>2, <1>3, <1>4, Requeued
  <1>6. RestOK'
    BY <1>1 DEF IInv, RestOK
  <1> QED
    BY <1>5, <1>6 DEF IInv

(* Only one connection changes, and nothing is requested from it. *)
LEMMA StepPeer == ASSUME IInv, NEW p \in Peers, NEW pr, peer' = [peer EXCEPT ![p] = pr],
                         PeerOK(pr, orphaned, judged), pr.requested \subseteq peer[p].requested,
                         UNCHANGED <<_items_to_fetch, fetch_age, _recently_failed_items, _new_inventory,
                                     _message_cache, _most_recent_blocks_accepted,
                                     _message_ids_currently_being_processed, fetch_loop, advertise_loop,
                                     judged, orphaned>>
                  PROVE  IInv'
  <1>1. PeersOK(peer', orphaned', judged') /\ FetchOK(peer', _items_to_fetch', _recently_failed_items', orphaned')
    BY PeerStep
  <1>2. RestOK'
    BY DEF IInv, RestOK
  <1> QED
    BY <1>1, <1>2 DEF IInv

LEMMA StepNewPeer == ASSUME IInv, NEW p \in Peers, new_peer_just_added(p) PROVE IInv'
  <1> DEFINE pr == [NewPeer EXCEPT !.list = "active"]
  <1>1. /\ pr \in PeerType /\ pr.requested = {} /\ pr.list = "active"
        /\ pr.advertised = Empty /\ pr.heard = Empty
    BY InvEmpty DEF NewPeer, PeerType
  <1>2. peer' = [peer EXCEPT ![p] = pr]
    BY DEF new_peer_just_added
  <1> HIDE DEF pr
  <1>3. IsFiniteSet(DOMAIN pr.heard) /\ Cardinality(DOMAIN pr.heard) = 0
    BY <1>1, InvEmpty, FS_EmptySet
  <1>4. PeerOK(pr, orphaned, judged) /\ pr.requested \subseteq peer[p].requested
    BY <1>1, <1>3, InvEmpty, ItemAssumption DEF PeerOK
  <1> QED
    BY <1>2, <1>4, StepPeer DEF new_peer_just_added

LEMMA StepSyncEnds == ASSUME IInv, NEW p \in Peers, sync_ends(p) PROVE IInv'
  <1> DEFINE pr == [peer[p] EXCEPT !.syncing = FALSE]
  <1>1. PeerOK(peer[p], orphaned, judged) /\ peer[p] \in PeerType
    BY DEF IInv, PeersOK
  <1>2. /\ pr \in PeerType /\ pr.list = peer[p].list /\ pr.requested = peer[p].requested
        /\ pr.advertised = peer[p].advertised /\ pr.heard = peer[p].heard
    BY <1>1 DEF PeerType
  <1>3. peer' = [peer EXCEPT ![p] = pr]
    BY DEF sync_ends
  <1> HIDE DEF pr
  <1>4. PeerOK(pr, orphaned, judged)
    BY <1>1, <1>2, PeerLess
  <1> QED
    BY <1>2, <1>3, <1>4, StepPeer DEF sync_ends

LEMMA StepFetchIds == ASSUME IInv, NEW p \in Peers, on_fetch_blockchain_item_ids_message(p) PROVE IInv'
  <1>1. PeerOK(peer[p], orphaned, judged) /\ peer[p] \in PeerType
    BY DEF IInv, PeersOK
  <1>0. PICK behind \in BOOLEAN, restart \in BOOLEAN :
          peer' = [peer EXCEPT ![p].needs = behind, ![p].syncing = @ \/ restart]
    BY DEF on_fetch_blockchain_item_ids_message
  <1>5. PICK busy \in BOOLEAN : busy = (peer[p].syncing \/ restart)
    OBVIOUS
  <1> DEFINE pr == [peer[p] EXCEPT !.needs = behind, !.syncing = busy]
  <1>2. /\ pr \in PeerType /\ pr.list = peer[p].list /\ pr.requested = peer[p].requested
        /\ pr.advertised = peer[p].advertised /\ pr.heard = peer[p].heard
    BY <1>1 DEF PeerType
  <1>3. peer' = [peer EXCEPT ![p] = pr]
    BY <1>0, <1>5 DEF IInv, PeersOK
  <1> HIDE DEF pr
  <1>4. PeerOK(pr, orphaned, judged)
    BY <1>1, <1>2, PeerLess
  <1> QED
    BY <1>2, <1>3, <1>4, StepPeer DEF on_fetch_blockchain_item_ids_message

LEMMA StepPrune == ASSUME IInv, fetch_updated_peer_lists_loop PROVE IInv'
  <1>1. /\ _recently_failed_items' = Expire(_recently_failed_items, FailedLifetime)
        /\ UNCHANGED <<peer, _items_to_fetch, fetch_age, _new_inventory, _message_cache,
                       _most_recent_blocks_accepted, _message_ids_currently_being_processed,
                       fetch_loop, advertise_loop, judged, orphaned>>
    BY DEF fetch_updated_peer_lists_loop
  <1>2. /\ _recently_failed_items' \in Inventories
        /\ DOMAIN _recently_failed_items' \subseteq DOMAIN _recently_failed_items
    BY <1>1, InvExpire DEF IInv, RestOK
  <1>3. FetchOK(peer', _items_to_fetch', _recently_failed_items', orphaned')
    <2>1. FetchOK(peer, _items_to_fetch, _recently_failed_items, orphaned)
      BY DEF IInv
    <2> QED
      BY <1>1, <1>2, <2>1 DEF FetchOK
  <1>4. RestOK'
    BY <1>1, <1>2 DEF IInv, RestOK
  <1> QED
    BY <1>1, <1>3, <1>4 DEF IInv

LEMMA StepTime == ASSUME IInv, time_passes PROVE IInv'
  <1>1. PICK d \in 1 .. MaxAge :
          /\ peer' = [p \in Peers |-> [peer[p] EXCEPT !.advertised = Older(@, d), !.heard = Older(@, d)]]
          /\ fetch_age' = Older(fetch_age, d)
          /\ _recently_failed_items' = Older(_recently_failed_items, d)
    BY Zenon DEF time_passes
  <1>2. UNCHANGED <<_items_to_fetch, _new_inventory, _message_cache, _most_recent_blocks_accepted,
                    _message_ids_currently_being_processed, fetch_loop, advertise_loop, judged, orphaned>>
    BY DEF time_passes
  <1>3. d \in Nat
    BY AgeNat
  <1>4. /\ _recently_failed_items' \in Inventories
        /\ DOMAIN _recently_failed_items' = DOMAIN _recently_failed_items
    BY <1>1, <1>3, InvOlder DEF IInv, RestOK
  <1>5. QueueOK(_items_to_fetch', fetch_age')
    <2>1. fetch_age \in [Range(_items_to_fetch) -> 0 .. MaxAge] /\ Range(_items_to_fetch) \subseteq Items
      BY DEF IInv, QueueOK, Range
    <2>2. fetch_age' \in [Range(_items_to_fetch) -> 0 .. MaxAge]
      <3>1. fetch_age \in Inventories /\ DOMAIN fetch_age = Range(_items_to_fetch)
        BY <2>1, InvIs
      <3>2. fetch_age' \in Inventories /\ DOMAIN fetch_age' = Range(_items_to_fetch)
        BY <1>1, <1>3, <3>1, InvOlder
      <3> QED
        BY <3>2, InvIs
    <2> QED
      BY <1>2, <2>2 DEF IInv, QueueOK
  <1> DEFINE new(p) == [peer[p] EXCEPT !.advertised = Older(@, d), !.heard = Older(@, d)]
  <1>6. ASSUME NEW p \in Peers
        PROVE  PeerOK(new(p), orphaned', judged') /\ new(p).requested \subseteq peer[p].requested
    <2>1. PeerOK(peer[p], orphaned', judged') /\ peer[p] \in PeerType
      BY <1>2 DEF IInv, PeersOK
    <2> DEFINE a == Older(peer[p].advertised, d)
               h == Older(peer[p].heard, d)
               qr == new(p)
    <2>2. /\ a \in Inventories /\ DOMAIN a = DOMAIN peer[p].advertised
          /\ h \in Inventories /\ DOMAIN h = DOMAIN peer[p].heard
      BY <1>3, <2>1, InvOlder DEF PeerType
    <2>3. qr = [peer[p] EXCEPT !.advertised = a, !.heard = h]
      OBVIOUS
    <2> HIDE DEF a, h, qr
    <2>4. /\ qr \in PeerType /\ qr.list = peer[p].list /\ qr.requested = peer[p].requested
          /\ qr.advertised = a /\ qr.heard = h
      BY <2>1, <2>2, <2>3 DEF PeerType
    <2>5. PeerOK(qr, orphaned', judged')
      BY <2>1, <2>2, <2>4, PeerLess
    <2> QED
      BY <2>4, <2>5 DEF qr
  <1>7. /\ DOMAIN peer' = Peers /\ peer' = [q \in Peers |-> peer'[q]]
        /\ \A q \in Peers : PeerOK(peer'[q], orphaned', judged') /\ peer'[q].requested \subseteq peer[q].requested
    <2>1. peer' = [p \in Peers |-> new(p)]
      BY <1>1
    <2> HIDE DEF new
    <2> QED
      BY <1>6, <2>1
  <1>8. PeersOK(peer', orphaned', judged') /\ FetchOK(peer', _items_to_fetch', _recently_failed_items', orphaned')
    BY <1>2, <1>4, <1>7, PeersStep
  <1>9. RestOK'
    BY <1>2, <1>4 DEF IInv, RestOK
  <1> QED
    BY <1>5, <1>8, <1>9 DEF IInv

-----------------------------------------------------------------------------
(* The invariant and what follows from it *)

LEMMA NextIInv == IInv /\ [Next]_vars => IInv'
  <1> SUFFICES ASSUME IInv, [Next]_vars PROVE IInv'
    OBVIOUS
  <1>1. ASSUME NEW p \in Peers, NEW i \in Items, item_arrives(p, i) PROVE IInv'
    BY <1>1, StepTransaction, StepAccepted, StepUnlinkable, StepRejected DEF item_arrives
  <1>2. ASSUME NEW p \in Peers, NEW i \in Items, unrequested_item(p, i) PROVE IInv'
    BY <1>2, StepLeave DEF unrequested_item
  <1>3. ASSUME NEW p \in Peers, terminate_inactive_connections_loop(p) PROVE IInv'
    BY <1>3, StepLeave DEF terminate_inactive_connections_loop
  <1>4. ASSUME NEW p \in Peers, request_ends(p) PROVE IInv'
    BY <1>1, <1>3, <1>4, StepNotAvailable DEF request_ends
  <1>5. ASSUME NEW p \in Peers, NEW i \in Items, on_fetch_items_message(p, i) PROVE IInv'
    BY <1>5, StepClosed DEF on_fetch_items_message
  <1>6. ASSUME NEW p \in Peers, on_connection_closed(p) PROVE IInv'
    BY <1>6, StepClosed DEF on_connection_closed
  <1>7. CASE UNCHANGED vars
    BY <1>7 DEF vars, IInv, RestOK
  <1>8. ASSUME Next PROVE IInv'
    BY <1>2, <1>4, <1>5, <1>6, <1>8, StepInventory, StepFetch, StepClient, StepAdvertise, StepNewPeer,
       StepSyncEnds, StepFetchIds, StepPrune, StepTime DEF Next
  <1> QED
    BY <1>7, <1>8

(* A set in which all elements are the same has one at most. *)
LEMMA AtMostOne == ASSUME NEW S, \A x, y \in S : x = y
                   PROVE  Cardinality(S) \in 0 .. 1 /\ (S = {} => Cardinality(S) = 0)
  <1>1. CASE S = {}
    BY <1>1, FS_EmptySet
  <1>2. CASE S # {}
    <2>1. PICK x \in S : TRUE
      BY <1>2
    <2>2. S = {x}
      BY <2>1
    <2> QED
      BY <1>2, <2>2, FS_Singleton
  <1> QED
    BY <1>1, <1>2

LEMMA SoundFollows == IInv => InventoriesSound
  <1> SUFFICES ASSUME IInv PROVE InventoriesSound
    OBVIOUS
  <1>1. \A p \in Peers : PeerOK(peer[p], orphaned, judged)
    BY DEF IInv, PeersOK
  <1>2. TypeOK
    <2>1. \A p \in Peers : Cardinality(peer[p].requested) <= 1
      BY <1>1, AtMostOne DEF PeerOK
    <2> QED
      BY <2>1 DEF IInv, PeersOK, PeerType, QueueOK, RestOK, TypeOK
  <1>3. OneFetch
    <2> SUFFICES ASSUME NEW i \in Items \ orphaned
                 PROVE  LET asked == {p \in Peers : i \in peer[p].requested}
                        IN  Cardinality(asked) + (IF i \in Range(_items_to_fetch) THEN 1 ELSE 0) <= 1
      BY DEF OneFetch
    <2> DEFINE asked == {p \in Peers : i \in peer[p].requested}
    <2>1. (\A x, y \in asked : x = y) /\ (i \in Range(_items_to_fetch) => asked = {})
      BY DEF IInv, FetchOK
    <2> HIDE DEF asked
    <2>2. Cardinality(asked) \in 0 .. 1 /\ (asked = {} => Cardinality(asked) = 0)
      BY <2>1, AtMostOne
    <2>3. Cardinality(asked) + (IF i \in Range(_items_to_fetch) THEN 1 ELSE 0) <= 1
      BY <2>1, <2>2
    <2> QED
      BY <2>3 DEF asked
  <1>4. FailedNotFetched
    <2>1. DOMAIN _recently_failed_items \subseteq Items
      BY InvIs DEF IInv, RestOK
    <2> QED
      BY <2>1 DEF IInv, FetchOK, FailedNotFetched
  <1>5. NoEcho
    BY <1>1 DEF NoEcho, PeerOK, Active
  <1>6. AdvertisedAccepted
    <2>1. \A p \in Peers : DOMAIN peer[p].advertised \subseteq judged \ Bad
      BY <1>1 DEF PeerOK
    <2>2. _new_inventory \subseteq judged \ Bad
      BY DEF IInv, RestOK
    <2> QED
      BY <2>1, <2>2 DEF AdvertisedAccepted, Bad
  <1>7. InventoryBounded
    BY <1>1 DEF InventoryBounded, PeerOK
  <1> QED
    BY <1>2, <1>3, <1>4, <1>5, <1>6, <1>7 DEF InventoriesSound

(* For any peers and items the inventories are sound: a connection has one *)
(* request at most; an item is waiting or requested once, unless its peer  *)
(* was dropped; one that failed is not fetched while that is remembered;   *)
(* nothing is told to a peer that told us; only what the client accepted   *)
(* is told; and what is kept of a peer is bounded.                         *)
THEOREM InventoriesSoundTheorem == Spec => []InventoriesSound
  <1>1. Init => IInv
    BY InitIInv
  <1>2. IInv /\ [Next]_vars => IInv'
    BY NextIInv
  <1>3. IInv => InventoriesSound
    BY SoundFollows
  <1> QED
    BY <1>1, <1>2, <1>3, PTL DEF Spec
=============================================================================
