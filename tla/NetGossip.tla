------------------------------ MODULE NetGossip ------------------------------
(***************************************************************************)
(* How a node in sync spreads blocks and transactions (libraries/net,      *)
(* node.cpp and peer_connection.cpp): peers advertise the ids of items,    *)
(* the node asks one of them for each item it does not know, hands it to   *)
(* the client, caches it and advertises it in turn.  Two loops, one that   *)
(* asks for items and one that advertises them, sleep until a handler      *)
(* wakes them.  Handlers and passes of the loops do not yield: each is one *)
(* action.                                                                 *)
(*                                                                         *)
(* An inventory is a function from the items in it to their age; ages grow *)
(* when time passes and stop growing when they no longer matter.  What the *)
(* synchronisation does with a connection is reduced to the fact that it   *)
(* keeps it busy (module NetSync has the rest).                            *)
(***************************************************************************)
EXTENDS Integers, FiniteSets, SequencesExt

CONSTANTS Peers,
          Syncing,               \* peers that may be in synchronisation at first
          BlockItems, TrxItems,  \* items that peers and the client may know
          Rejected,              \* items that the client rejects
          Unlinkable,            \* blocks that may not link to the client's chain
          Own,                   \* items that the client may broadcast itself
          FetchLifetime,         \* block interval * GRAPHENE_NET_MESSAGE_CACHE_DURATION_IN_BLOCKS
          InventoryLifetime,     \* GRAPHENE_NET_MAX_INVENTORY_SIZE_IN_MINUTES
          FailedLifetime,        \* GRAPHENE_NET_PRUNE_FAILED_IDS_MINUTES
          MaxInventoryTrx,       \* inventory size above which transactions are ignored
          MaxInventory,          \* inventory size above which everything is ignored
          CacheDuration,         \* cache_duration_in_blocks
          MaxIds,                \* ids in one inventory message
          MaxInventories,        \* inventory messages in a behaviour
          MaxDisturbances        \* faults, refusals, passages of time and peers found behind
                                 \* or ahead in a behaviour

Items == BlockItems \cup TrxItems

\* The lifetimes are ordered like the constants of config.hpp: 100 s, 120 s, 15 min.
ASSUME LifetimeAssumption == /\ FetchLifetime \in Nat /\ InventoryLifetime \in Nat
                             /\ FailedLifetime \in Nat
                             /\ FetchLifetime < InventoryLifetime
                             /\ InventoryLifetime <= FailedLifetime

\* Blocks and transactions differ; only a block may not link; the client takes what it made.
ASSUME ItemAssumption == /\ BlockItems \cap TrxItems = {}
                         /\ Unlinkable \subseteq BlockItems
                         /\ Own \cap (Rejected \cup Unlinkable) = {}
                         /\ MaxInventory \in Nat

MaxAge == FailedLifetime + 1

VARIABLES peer,                     \* peer_connection of each peer
          _items_to_fetch,          \* ids in the order they were inserted
          fetch_age,                \* prioritized_item_id::timestamp, as an age
          _recently_failed_items,   \* id -> age
          _new_inventory,
          _message_cache,           \* id -> number of blocks accepted since it was cached
          _most_recent_blocks_accepted,
          _message_ids_currently_being_processed,
          fetch_loop, advertise_loop, \* is a pass of the loop due?
          judged,                   \* items that the client has accepted, rejected or made
          orphaned,                 \* items requested from a peer when it left the active list
          inventories, disturbances

vars == <<peer, _items_to_fetch, fetch_age, _recently_failed_items, _new_inventory, _message_cache,
          _most_recent_blocks_accepted, _message_ids_currently_being_processed,
          fetch_loop, advertise_loop, judged, orphaned, inventories, disturbances>>

-----------------------------------------------------------------------------
(* Aged sets *)

Inventories == UNION {[S -> 0 .. MaxAge] : S \in SUBSET Items}

Empty == [i \in {} |-> 0]

Fresh(inv, i) == [j \in DOMAIN inv \cup {i} |-> IF j = i THEN 0 ELSE inv[j]]

Without(inv, S) == [j \in DOMAIN inv \ S |-> inv[j]]

\* An insertion into a set that has the item already does nothing.
Inserted(inv, i) == IF i \in DOMAIN inv THEN inv ELSE Fresh(inv, i)

Older(inv, d) == [i \in DOMAIN inv |-> IF inv[i] + d < MaxAge THEN inv[i] + d ELSE MaxAge]

Expire(inv, lifetime) == Without(inv, {i \in DOMAIN inv : inv[i] > lifetime})

-----------------------------------------------------------------------------
(* Operators on one peer_connection *)

NewPeer == [list |-> "none", requested |-> {}, advertised |-> Empty, heard |-> Empty,
            needs |-> TRUE, syncing |-> TRUE]

Active == {p \in Peers : peer[p].list = "active"}

idle(pr) == pr.requested = {} /\ ~pr.syncing

clear_old_inventory(pr) ==
  [pr EXCEPT !.advertised = Expire(@, InventoryLifetime), !.heard = Expire(@, InventoryLifetime)]

is_inventory_advertised_to_us_list_full_for_transactions(pr) ==
  Cardinality(DOMAIN pr.heard) > MaxInventoryTrx

is_inventory_advertised_to_us_list_full(pr) == Cardinality(DOMAIN pr.heard) > MaxInventory

is_item_in_any_peers_inventory(i, peers) ==
  \E p \in Peers : peers[p].list = "active" /\ i \in DOMAIN peers[p].heard

\* disconnect_from_peer and move_peer_to_terminating_list: the peer leaves the active list and
\* its requests stay until the connection is closed.
Leave(pr) == [pr EXCEPT !.list = "closing"]

Disturbed == disturbances < MaxDisturbances /\ disturbances' = disturbances + 1

-----------------------------------------------------------------------------
(* The items to fetch *)

\* prioritized_item_id::operator<: blocks first, then in the order of insertion.
Before(i, j, queue) ==
  IF (i \in BlockItems) = (j \in BlockItems)
  THEN \E m, n \in DOMAIN queue : queue[m] = i /\ queue[n] = j /\ m < n
  ELSE i \in BlockItems

\* Adds ids to the queue with a fresh timestamp, in any order; ids that are in it stay.
Queued(S, queue, age, newQueue, newAge) ==
  \E order \in SetToSeqs(S \ Range(queue)) :
    /\ newQueue = queue \o order
    /\ newAge = [j \in DOMAIN age \cup S |-> IF j \in DOMAIN age THEN age[j] ELSE 0]

\* The items of rest are in the order that they have in the queue.
InOrder(rest, queue) ==
  \A m, n \in DOMAIN rest : m < n =>
    \E k, l \in DOMAIN queue : k < l /\ queue[k] = rest[m] /\ queue[l] = rest[n]

-----------------------------------------------------------------------------
(* Messages about items *)

\* Seeded fault: an item is queued although it is requested already.
NotWantedIfFailed(peers, i) == i \in DOMAIN _recently_failed_items

\* Items that are not queued: requested from an active peer already, or failed lately.
NotWanted(peers, i) == \/ \E q \in Active : i \in peers[q].requested
                       \/ i \in DOMAIN _recently_failed_items

\* One id of an inventory message, after the state st of the handler.
Heard(st, p, i) ==
  LET pr == st.peer[p]
      known == \/ i \in _message_ids_currently_being_processed
               \/ i \in _new_inventory
               \/ \E q \in Active : i \in DOMAIN st.peer[q].advertised
      full == \/ i \in TrxItems /\ is_inventory_advertised_to_us_list_full_for_transactions(pr)
              \/ is_inventory_advertised_to_us_list_full(pr)
      noted == [st EXCEPT !.peer[p].heard = Inserted(@, i)]
  IN  IF st.full \/ known THEN st
      ELSE IF full THEN [st EXCEPT !.full = TRUE]
      ELSE IF NotWanted(st.peer, i) THEN noted
      ELSE IF i \in Range(st.queue) THEN [noted EXCEPT !.age[i] = 0]
      ELSE [noted EXCEPT !.queue = Append(@, i), !.age = Fresh(@, i), !.wake = TRUE]

\* The ids of an inventory message: different ids of one type.
InventoryMessages == {s \in SeqOf(BlockItems, MaxIds) \cup SeqOf(TrxItems, MaxIds) :
                        s # <<>> /\ IsInjective(s)}

on_item_ids_inventory_message(p, ids) ==
  /\ inventories < MaxInventories
  /\ inventories' = inventories + 1
  /\ peer[p].list # "none"
  /\ LET start == [peer |-> [peer EXCEPT ![p] = clear_old_inventory(@)], queue |-> _items_to_fetch,
                   age |-> fetch_age, wake |-> fetch_loop, full |-> FALSE]
         end == FoldLeft(LAMBDA st, i : Heard(st, p, i), start, ids)
     IN  /\ peer' = end.peer
         /\ _items_to_fetch' = end.queue
         /\ fetch_age' = end.age
         /\ fetch_loop' = end.wake
  /\ UNCHANGED <<_recently_failed_items, _new_inventory, _message_cache,
                 _most_recent_blocks_accepted, _message_ids_currently_being_processed,
                 advertise_loop, judged, orphaned, disturbances>>

\* The peers that a pass of the loop asks: asked[i] is the peer asked for item i.  Items are
\* taken in order, each goes to an idle peer that has it and is not asked for another one
\* (GRAPHENE_NET_MAX_ITEMS_PER_PEER_DURING_NORMAL_OPERATION is 1).
Asked(asked, items) ==
  \A i \in items :
    LET free == {p \in Active : /\ idle(peer[p]) /\ i \in DOMAIN peer[p].heard
                                /\ \A j \in DOMAIN asked : Before(j, i, _items_to_fetch) => asked[j] # p}
    IN  IF free = {} THEN i \notin DOMAIN asked ELSE i \in DOMAIN asked /\ asked[i] \in free

fetch_items_loop ==
  /\ fetch_loop
  /\ LET alive == {i \in Range(_items_to_fetch) : fetch_age[i] <= FetchLifetime}
     IN  \E S \in SUBSET alive : \E asked \in [S -> Active] :
           /\ Asked(asked, alive)
           /\ peer' = [p \in Peers |->
                         [peer[p] EXCEPT !.requested = @ \cup {i \in S : asked[i] = p}]]
           /\ \E rest \in SetToSeqs(alive \ S) : InOrder(rest, _items_to_fetch) /\ _items_to_fetch' = rest
           /\ fetch_age' = [i \in alive \ S |-> fetch_age[i]]
  /\ fetch_loop' = FALSE
  /\ UNCHANGED <<_recently_failed_items, _new_inventory, _message_cache,
                 _most_recent_blocks_accepted, _message_ids_currently_being_processed,
                 advertise_loop, judged, orphaned, inventories, disturbances>>

on_item_not_available_message(p, i) ==
  /\ Disturbed
  /\ peer[p].list # "none" /\ i \in peer[p].requested
  /\ peer' = [peer EXCEPT ![p].requested = @ \ {i}, ![p].heard = Without(@, {i})]
  /\ Queued(IF is_item_in_any_peers_inventory(i, peer') THEN {i} ELSE {}, _items_to_fetch, fetch_age,
            _items_to_fetch', fetch_age')
  /\ fetch_loop' = TRUE
  /\ UNCHANGED <<_recently_failed_items, _new_inventory, _message_cache,
                 _most_recent_blocks_accepted, _message_ids_currently_being_processed,
                 advertise_loop, judged, orphaned, inventories>>

-----------------------------------------------------------------------------
(* Items that arrive *)

\* broadcast(): the cache keeps the entry it has
Cached(cache, i) == Inserted(cache, i)

\* blockchain_tied_message_cache::block_accepted
block_accepted(cache) ==
  [i \in {j \in DOMAIN cache : cache[j] + 1 <= CacheDuration} |-> cache[i] + 1]

\* Seeded fault: the task is not woken.
broadcast_quietly(i) ==
  /\ _new_inventory' = _new_inventory \cup {i}
  /\ UNCHANGED advertise_loop
  /\ _most_recent_blocks_accepted' = _most_recent_blocks_accepted \cup ({i} \cap BlockItems)

broadcast(i) ==
  /\ _new_inventory' = _new_inventory \cup {i}
  /\ advertise_loop' = TRUE
  /\ _most_recent_blocks_accepted' = _most_recent_blocks_accepted \cup ({i} \cap BlockItems)

\* process_ordinary_message for a transaction that was asked for
process_ordinary_message(p, i) ==
  /\ peer[p].list # "none" /\ i \in peer[p].requested \cap TrxItems
  /\ peer' = [peer EXCEPT ![p].requested = @ \ {i}]
  /\ fetch_loop' = (fetch_loop \/ idle(peer'[p]))
  /\ judged' = judged \cup {i}
  /\ IF i \in Rejected
     THEN /\ _recently_failed_items' = Inserted(_recently_failed_items, i)
          /\ UNCHANGED <<_new_inventory, _message_cache, _most_recent_blocks_accepted, advertise_loop>>
     ELSE /\ broadcast(i)
          /\ _message_cache' = Cached(_message_cache, i)
          /\ UNCHANGED _recently_failed_items
  /\ UNCHANGED <<_items_to_fetch, fetch_age, _message_ids_currently_being_processed,
                 orphaned, inventories, disturbances>>

\* What the client may say of a block: a block accepted lately is not handed to it again.
Outcomes(i) == IF i \in _most_recent_blocks_accepted \/ i \notin Rejected \cup Unlinkable
               THEN {"accepted"}
               ELSE (IF i \in Unlinkable THEN {"unlinkable"} ELSE {})
                      \cup (IF i \in Rejected THEN {"rejected"} ELSE {})

\* process_block_message and process_block_during_normal_operation.  A block that the client
\* does not take stays among the ids being processed: the erasure is skipped by the exception.
process_block_accepted(p, i) ==
  /\ peer[p].list # "none" /\ i \in peer[p].requested \cap BlockItems
  /\ "accepted" \in Outcomes(i)
  /\ peer' = [q \in Peers |->
                LET pr == IF q = p THEN [peer[q] EXCEPT !.requested = @ \ {i}] ELSE peer[q]
                IN  IF q \in Active THEN clear_old_inventory(pr) ELSE pr]
  /\ fetch_loop' = (fetch_loop \/ idle(peer'[p]))
  /\ judged' = judged \cup {i}
  /\ broadcast(i)
  /\ _message_cache' = block_accepted(Cached(_message_cache, i))
  /\ UNCHANGED <<_items_to_fetch, fetch_age, _recently_failed_items,
                 _message_ids_currently_being_processed, orphaned, inventories, disturbances>>

process_block_unlinkable(p, i) ==
  /\ peer[p].list # "none" /\ i \in peer[p].requested \cap BlockItems
  /\ "unlinkable" \in Outcomes(i)
  \* start_synchronizing_with_peer
  /\ peer' = [peer EXCEPT ![p].requested = @ \ {i}, ![p].syncing = TRUE]
  /\ _message_ids_currently_being_processed' = _message_ids_currently_being_processed \cup {i}
  /\ judged' = judged \cup {i}
  /\ UNCHANGED <<_items_to_fetch, fetch_age, _recently_failed_items, _new_inventory, _message_cache,
                 _most_recent_blocks_accepted, fetch_loop, advertise_loop,
                 orphaned, inventories, disturbances>>

\* The peer, and the peers whose next block in synchronisation it is, are disconnected.
process_block_rejected(p, i) ==
  /\ peer[p].list # "none" /\ i \in peer[p].requested \cap BlockItems
  /\ "rejected" \in Outcomes(i)
  /\ \E also \in SUBSET {q \in Active : peer[q].syncing} :
       LET out == also \cup {p}
       IN  /\ peer' = [q \in Peers |->
                         LET pr == IF q = p THEN [peer[q] EXCEPT !.requested = @ \ {i}] ELSE peer[q]
                         IN  IF q \in out THEN Leave(pr) ELSE pr]
           /\ orphaned' = orphaned \cup UNION {peer'[q].requested : q \in out}
  /\ fetch_loop' = (fetch_loop \/ idle(peer'[p]))
  /\ _message_ids_currently_being_processed' = _message_ids_currently_being_processed \cup {i}
  /\ judged' = judged \cup {i}
  /\ UNCHANGED <<_items_to_fetch, fetch_age, _recently_failed_items, _new_inventory, _message_cache,
                 _most_recent_blocks_accepted, advertise_loop, inventories, disturbances>>

\* A block or a transaction that was not asked for; a recent block is let pass.
unrequested_item(p, i) ==
  /\ Disturbed
  /\ peer[p].list # "none" /\ i \notin peer[p].requested
  /\ i \notin _most_recent_blocks_accepted
  /\ peer' = [peer EXCEPT ![p] = Leave(@)]
  /\ orphaned' = orphaned \cup peer[p].requested
  /\ UNCHANGED <<_items_to_fetch, fetch_age, _recently_failed_items, _new_inventory, _message_cache,
                 _most_recent_blocks_accepted, _message_ids_currently_being_processed,
                 fetch_loop, advertise_loop, judged, inventories>>

-----------------------------------------------------------------------------
(* Advertising and serving *)

\* The client hands the node an item of its own (p2p_plugin::broadcast_block and
\* broadcast_transaction).
client_broadcasts(i) ==
  /\ i \in Own \ judged
  /\ judged' = judged \cup {i}
  /\ broadcast(i)
  /\ _message_cache' = Cached(_message_cache, i)
  /\ UNCHANGED <<peer, _items_to_fetch, fetch_age, _recently_failed_items,
                 _message_ids_currently_being_processed, fetch_loop, orphaned,
                 inventories, disturbances>>

\* What a pass of the loop tells the peer: what neither has told the other.
News(pr) == IF pr.needs THEN {}
            ELSE _new_inventory \ (DOMAIN pr.advertised \cup DOMAIN pr.heard)

advertise_inventory_loop ==
  /\ advertise_loop
  /\ peer' = [p \in Peers |->
                IF p \notin Active THEN peer[p]
                ELSE clear_old_inventory(
                       [peer[p] EXCEPT !.advertised =
                          [i \in DOMAIN @ \cup News(peer[p]) |-> IF i \in DOMAIN @ THEN @[i] ELSE 0]])]
  /\ _new_inventory' = {}
  /\ advertise_loop' = FALSE
  /\ UNCHANGED <<_items_to_fetch, fetch_age, _recently_failed_items, _message_cache,
                 _most_recent_blocks_accepted, _message_ids_currently_being_processed,
                 fetch_loop, judged, orphaned, inventories, disturbances>>

\* Seeded fault: the requests of a closed connection are forgotten.
connection_closed_forgetful(p) ==
  /\ peer' = [peer EXCEPT ![p] = [NewPeer EXCEPT !.syncing = FALSE]]
  /\ UNCHANGED <<_items_to_fetch, fetch_age, fetch_loop, _recently_failed_items, _new_inventory,
                 _message_cache, _most_recent_blocks_accepted,
                 _message_ids_currently_being_processed, advertise_loop, judged, orphaned, inventories>>

\* The effect of on_connection_closed: requests are rescheduled if another peer has the item.
connection_closed(p) ==
  /\ peer' = [peer EXCEPT ![p] = [NewPeer EXCEPT !.syncing = FALSE]]
  /\ Queued({i \in peer[p].requested : is_item_in_any_peers_inventory(i, peer')},
            _items_to_fetch, fetch_age, _items_to_fetch', fetch_age')
  /\ fetch_loop' = (fetch_loop \/ peer[p].requested # {})
  /\ UNCHANGED <<_recently_failed_items, _new_inventory, _message_cache,
                 _most_recent_blocks_accepted, _message_ids_currently_being_processed,
                 advertise_loop, judged, orphaned, inventories>>

\* A request for an item that is no longer cached: the client looks for a block or transaction
\* whose id is the id of the message, finds none and throws, and the read loop closes the
\* connection.  A request for a cached item is answered and changes nothing here.
on_fetch_items_message(p, i) ==
  /\ Disturbed
  /\ peer[p].list # "none"
  /\ i \notin DOMAIN _message_cache
  /\ connection_closed(p)

\* The peer or the network closes the connection.
on_connection_closed(p) ==
  /\ peer[p].list # "none"
  /\ IF peer[p].list = "closing" THEN UNCHANGED disturbances ELSE Disturbed
  /\ connection_closed(p)

\* terminate_inactive_connections_loop: a request was not answered in time.
terminate_inactive_connections_loop(p) ==
  /\ Disturbed
  /\ peer[p].list = "active"
  /\ ~idle(peer[p])
  /\ peer' = [peer EXCEPT ![p] = Leave(@)]
  /\ orphaned' = orphaned \cup peer[p].requested
  /\ UNCHANGED <<_items_to_fetch, fetch_age, _recently_failed_items, _new_inventory, _message_cache,
                 _most_recent_blocks_accepted, _message_ids_currently_being_processed,
                 fetch_loop, advertise_loop, judged, inventories>>

new_peer_just_added(p) ==
  /\ Disturbed
  /\ peer[p].list = "none"
  /\ peer' = [peer EXCEPT ![p] = [NewPeer EXCEPT !.list = "active"]]
  /\ UNCHANGED <<_items_to_fetch, fetch_age, _recently_failed_items, _new_inventory, _message_cache,
                 _most_recent_blocks_accepted, _message_ids_currently_being_processed,
                 fetch_loop, advertise_loop, judged, orphaned, inventories>>

\* Synchronisation with the peer makes no more requests of it; nothing wakes the fetch loop.
sync_ends(p) ==
  /\ peer[p].list = "active" /\ peer[p].syncing
  /\ peer' = [peer EXCEPT ![p].syncing = FALSE]
  /\ UNCHANGED <<_items_to_fetch, fetch_age, _recently_failed_items, _new_inventory, _message_cache,
                 _most_recent_blocks_accepted, _message_ids_currently_being_processed,
                 fetch_loop, advertise_loop, judged, orphaned, inventories, disturbances>>

\* The peer has sent a synopsis of its chain: it needs items of us if there are blocks after
\* it, and we need items of it if the client does not have its head.  A peer may ask at any
\* time, and a peer that was in sync may be found to be behind.
on_fetch_blockchain_item_ids_message(p) ==
  /\ peer[p].list = "active"
  /\ \E behind, restart \in BOOLEAN :
       /\ IF (behind /\ ~peer[p].needs) \/ restart THEN Disturbed ELSE UNCHANGED disturbances
       /\ peer' = [peer EXCEPT ![p].needs = behind, ![p].syncing = @ \/ restart]
  /\ UNCHANGED <<_items_to_fetch, fetch_age, _recently_failed_items, _new_inventory, _message_cache,
                 _most_recent_blocks_accepted, _message_ids_currently_being_processed,
                 fetch_loop, advertise_loop, judged, orphaned, inventories>>

\* fetch_updated_peer_lists_loop, which also prunes the failed items
fetch_updated_peer_lists_loop ==
  /\ _recently_failed_items' = Expire(_recently_failed_items, FailedLifetime)
  /\ _recently_failed_items' # _recently_failed_items
  /\ UNCHANGED <<peer, _items_to_fetch, fetch_age, _new_inventory, _message_cache,
                 _most_recent_blocks_accepted, _message_ids_currently_being_processed,
                 fetch_loop, advertise_loop, judged, orphaned, inventories, disturbances>>

\* A step of time is longer than the timeouts of requests and of closing connections.
time_passes ==
  /\ Disturbed
  /\ ~fetch_loop /\ ~advertise_loop
  /\ \A p \in Peers : peer[p].list # "closing" /\ peer[p].requested = {}
  /\ \E d \in 1 .. MaxAge :
       /\ peer' = [p \in Peers |-> [peer[p] EXCEPT !.advertised = Older(@, d), !.heard = Older(@, d)]]
       /\ fetch_age' = Older(fetch_age, d)
       /\ _recently_failed_items' = Older(_recently_failed_items, d)
  /\ UNCHANGED <<_items_to_fetch, _new_inventory, _message_cache, _most_recent_blocks_accepted,
                 _message_ids_currently_being_processed, fetch_loop, advertise_loop,
                 judged, orphaned, inventories>>

-----------------------------------------------------------------------------
\* Connected peers, some of them still in synchronisation; nothing was advertised yet and the
\* loops wait after their first pass.
Init ==
  /\ \E S \in SUBSET Syncing :
       peer = [p \in Peers |-> [NewPeer EXCEPT !.list = "active", !.syncing = p \in S, !.needs = p \in S]]
  /\ _items_to_fetch = <<>> /\ fetch_age = Empty
  /\ _recently_failed_items = Empty
  /\ _new_inventory = {} /\ _message_cache = Empty
  /\ _most_recent_blocks_accepted = {} /\ _message_ids_currently_being_processed = {}
  /\ fetch_loop = FALSE /\ advertise_loop = FALSE
  /\ judged = {} /\ orphaned = {}
  /\ inventories = 0 /\ disturbances = 0

item_arrives(p, i) ==
  \/ process_ordinary_message(p, i) \/ process_block_accepted(p, i)
  \/ process_block_unlinkable(p, i) \/ process_block_rejected(p, i)

\* What ends a request of the peer.
request_ends(p) ==
  \/ \E i \in Items : item_arrives(p, i) \/ on_item_not_available_message(p, i)
  \/ terminate_inactive_connections_loop(p)

Next ==
  \/ fetch_items_loop \/ advertise_inventory_loop
  \/ fetch_updated_peer_lists_loop \/ time_passes
  \/ \E i \in Items : client_broadcasts(i)
  \/ \E p \in Peers :
       \/ \E ids \in InventoryMessages : on_item_ids_inventory_message(p, ids)
       \/ \E i \in Items : unrequested_item(p, i) \/ on_fetch_items_message(p, i)
       \/ request_ends(p)
       \/ on_connection_closed(p) \/ new_peer_just_added(p) \/ sync_ends(p)
       \/ on_fetch_blockchain_item_ids_message(p)

\* Tasks that were woken run; a request is answered or times out; a connection that the node
\* has closed ends.
Fairness ==
  /\ WF_vars(fetch_items_loop) /\ WF_vars(advertise_inventory_loop)
  /\ \A p \in Peers : /\ WF_vars(request_ends(p))
                      /\ WF_vars(peer[p].list = "closing" /\ on_connection_closed(p))

Spec == Init /\ [][Next]_vars /\ Fairness

-----------------------------------------------------------------------------
(* Properties *)

\* The state is well formed: in particular a connection never has more requests than
\* GRAPHENE_NET_MAX_ITEMS_PER_PEER_DURING_NORMAL_OPERATION, and ids to fetch are unique and
\* have a timestamp.
TypeOK ==
  /\ peer \in [Peers -> [list : {"none", "active", "closing"}, requested : SUBSET Items,
                         advertised : Inventories, heard : Inventories,
                         needs : BOOLEAN, syncing : BOOLEAN]]
  /\ \A p \in Peers : Cardinality(peer[p].requested) <= 1
  /\ IsInjective(_items_to_fetch)
  /\ fetch_age \in [Range(_items_to_fetch) -> 0 .. MaxAge]
  /\ _recently_failed_items \in Inventories
  /\ _new_inventory \subseteq Items
  /\ DOMAIN _message_cache \subseteq Items
  /\ _most_recent_blocks_accepted \subseteq BlockItems
  /\ _message_ids_currently_being_processed \subseteq BlockItems
  /\ fetch_loop \in BOOLEAN /\ advertise_loop \in BOOLEAN
  /\ judged \subseteq Items /\ orphaned \subseteq Items

\* An item is fetched once: it is not both waiting to be requested and requested, nor requested
\* from two peers, except that the request of a peer that was dropped is not seen any more
\* by on_item_ids_inventory_message.
OneFetch ==
  \A i \in Items \ orphaned :
    LET asked == {p \in Peers : i \in peer[p].requested}
    IN  Cardinality(asked) + (IF i \in Range(_items_to_fetch) THEN 1 ELSE 0) <= 1

\* A transaction that the client rejected is not fetched again while it is remembered ("record
\* it so we don't try to fetch this item again", node.cpp:3776), with the same exception.
FailedNotFetched ==
  \A i \in DOMAIN _recently_failed_items \ orphaned :
    i \notin Range(_items_to_fetch) /\ \A p \in Peers : i \notin peer[p].requested

\* No item travels both ways over a connection: what a peer told us is not told to it, and
\* what we told it is not noted as its news, so that the loop does not ask it for that.
NoEcho == \A p \in Active : DOMAIN peer[p].advertised \cap DOMAIN peer[p].heard = {}

\* Only items that the client accepted or made are advertised ("if we have already advertised
\* it to a peer, we must have it", node.cpp:2852).
AdvertisedAccepted ==
  LET advertised == _new_inventory \cup UNION {DOMAIN peer[p].advertised : p \in Peers}
  IN  advertised \cap (Rejected \cup Unlinkable) = {} /\ advertised \subseteq judged

\* The inventory kept of a peer is bounded, one above the limit that is tested.
InventoryBounded == \A p \in Peers : Cardinality(DOMAIN peer[p].heard) <= MaxInventory + 1

\* A request is answered, or "we give up and ask another peer for the item" (node.cpp:1324):
\* while no connection is in synchronisation, an item that is requested, or queued for the loop
\* that was woken, and that peer q has announced lately is judged by the client, unless q leaves
\* or the announcement gets too old.
GivenUpAskedElsewhere ==
  [](\A p \in Peers : ~peer[p].syncing) =>
    \A q \in Peers, i \in Items :
      LET announced == q \in Active /\ i \in DOMAIN peer[q].heard /\ peer[q].heard[i] <= FetchLifetime
          wanted == \/ \E p \in Peers : i \in peer[p].requested
                    \/ fetch_loop /\ i \in Range(_items_to_fetch)
      IN  (announced /\ wanted) ~> (i \in judged \/ ~announced)

\* The safety of the inventories as a whole: items are fetched once, refused ones not again,
\* and only what the client accepted goes out, to those who do not have it.
InventoriesSound ==
  TypeOK /\ OneFetch /\ FailedNotFetched /\ NoEcho /\ AdvertisedAccepted /\ InventoryBounded

\* What the client accepted reaches every connected peer that is in sync: it is advertised to
\* it, or the peer told us first, or it has left, or it has asked for block ids meanwhile and is
\* behind.  Such a peer is passed over for good: the ids of the blocks are in the reply to it,
\* but a transaction is not told to it any more.
NewsSpreads ==
  \A p \in Peers, i \in Items :
    (p \in Active /\ ~peer[p].needs /\ i \in _new_inventory) ~>
      (p \notin Active \/ peer[p].needs \/ i \in DOMAIN peer[p].advertised \cup DOMAIN peer[p].heard)
=============================================================================
