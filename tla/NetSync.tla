------------------------------- MODULE NetSync -------------------------------
(***************************************************************************)
(* How a node catches up with its peers (libraries/net/node.cpp): it asks  *)
(* a peer for the ids after a synopsis of its own chain, fetches the       *)
(* blocks from several peers at once, and hands them to the client (the    *)
(* chain plugin) in order.  All handlers run as tasks of one thread and    *)
(* give way to each other only where they wait for the network; the call   *)
(* of the client's handle_block blocks the thread.  A handler is therefore *)
(* one action, but for the loop over the received blocks, whose rounds are *)
(* steps during which nothing else runs.                                   *)
(*                                                                         *)
(* A block is a name with a parent and a number.  A peer computes its      *)
(* reply to a synopsis when it answers, and the reply may be old when it   *)
(* arrives; requests of one peer for blocks may be answered in any order.  *)
(* Times are left out: a timeout may happen at any moment at which         *)
(* something is outstanding.                                               *)
(***************************************************************************)
EXTENDS Integers, FiniteSets, SequencesExt

CONSTANTS Peers, Blocks, Genesis,
          Parent,      \* Parent[b] is the block before b
          Path,        \* Path[b] is the chain that ends in b, without the genesis block
          Bad,         \* blocks that the client rejects
          RemoteHeads, \* RemoteHeads[p]: the heads that peer p's chain may have
          Depth,       \* number of blocks that can be undone
          Limit,       \* ids in one reply (p2p_plugin: limit)
          maximum_blocks_per_peer_during_syncing,
          maximum_number_of_sync_blocks_to_prefetch,
          maximum_number_of_blocks_to_handle_at_one_time,
          RecentCapacity, \* size of the circular buffer _most_recent_blocks_accepted
          MaxDisturbances, \* timeouts, refusals, announcements and moves of a peer's chain
          None

ASSUME ChainsAssumption ==
  /\ Genesis \in Blocks
  /\ Parent \in [Blocks -> Blocks]
  /\ Path \in [Blocks -> Seq(Blocks \ {Genesis})]
  /\ Path[Genesis] = <<>>
  /\ \A b \in Blocks \ {Genesis} : Path[b] = Append(Path[Parent[b]], b)

ASSUME PeersAssumption ==
  IsFiniteSet(Peers) /\ RemoteHeads \in [Peers -> SUBSET Blocks]

ASSUME LimitsAssumption ==
  /\ Depth \in Nat /\ Limit \in Nat
  /\ maximum_blocks_per_peer_during_syncing \in Nat
  /\ maximum_number_of_sync_blocks_to_prefetch \in Nat
  /\ maximum_number_of_blocks_to_handle_at_one_time \in Nat
  /\ RecentCapacity \in Nat \ {0}

VARIABLES peer,                         \* peer_connection of each peer
          _active_sync_requests,
          _new_received_sync_items, _received_sync_items,
          _most_recent_blocks_accepted,
          backlog,                      \* the task process_backlog_of_sync_blocks
          client,                       \* the blocks and the head of the client
          remote,                       \* the head of each peer's own chain, and the head it had
                                        \* when it answered a synopsis (None: no reply is under way)
          disturbances                  \* how many happened

vars == <<peer, _active_sync_requests, _new_received_sync_items, _received_sync_items,
          _most_recent_blocks_accepted, backlog, client, remote, disturbances>>

-----------------------------------------------------------------------------
(* Blocks *)

Number(b) == Len(Path[b])

\* last_non_undoable_block_num(), at least one
LowBlockNum(head) == IF Number(head) - Depth > 1 THEN Number(head) - Depth ELSE 1

\* is_included_block
OnChain(b, head) == b \in Range(Path[head]) \cup {Genesis}

\* The numbers of a synopsis: halving steps from low up to high, without the ones before first.
SynopsisNumbers(low, first, high, true_high) ==
  LET From[l \in 1 .. true_high + 1] ==
        IF l > high THEN <<>>
        ELSE (IF l < first THEN <<>> ELSE <<l>>) \o From[l + (true_high - l + 2) \div 2]
  IN  From[low]

\* p2p_plugin_impl::get_blockchain_synopsis of a node whose head is given; None if the
\* reference point lies on a fork that leaves the chain below the blocks that can be undone.
GetBlockchainSynopsis(head, reference, after) ==
  LET line == IF reference = Genesis THEN Path[head] ELSE Path[reference]
      high == Len(line)
      low  == IF OnChain(reference, head) /\ high < LowBlockNum(head)
              THEN high ELSE LowBlockNum(head)
      nums == SynopsisNumbers(low, low, high, high + after)
  IN  IF high = 0 THEN <<>>
      ELSE IF high < low \/ ~OnChain(line[low], head) THEN None
      ELSE [i \in DOMAIN nums |-> line[nums[i]]]

\* The last number of a list of ids
LastNumber(ids) == Number(ids[1]) + Len(ids) - 1

\* node_impl::create_blockchain_synopsis_for_peer; ids that are not in the client's chain yet
\* are added to its synopsis.
CreateSynopsisForPeer(pr, head) ==
  LET ids == pr.ids_of_items_to_get
      own == GetBlockchainSynopsis(head, pr.last_block_delegate_has_seen, Len(ids))
      low == IF own = <<>> THEN 1 ELSE Number(own[1])
      nums == SynopsisNumbers(low, Number(ids[1]), LastNumber(ids), LastNumber(ids))
  IN  IF own = None \/ ids = <<>> THEN own
      ELSE own \o [i \in DOMAIN nums |-> ids[nums[i] - Number(ids[1]) + 1]]

\* It throws what the caller does not catch: the client does not know the reference point, or
\* the ids end before the first number of the synopsis (FC_ASSERT).
SynopsisFails(pr, cl) ==
  LET ids == pr.ids_of_items_to_get
      own == GetBlockchainSynopsis(cl.head, pr.last_block_delegate_has_seen, Len(ids))
  IN  \/ pr.last_block_delegate_has_seen \notin cl.known
      \/ ids # <<>> /\ own \notin {None, <<>>} /\ Number(own[1]) > LastNumber(ids)

\* p2p_plugin_impl::get_block_ids at the other end: the ids from the last block of the
\* synopsis that is on its chain.
GetBlockIds(synopsis, head) ==
  LET known == {i \in DOMAIN synopsis : OnChain(synopsis[i], head)}
      start == IF synopsis = <<>> THEN 1 ELSE Number(synopsis[Max(known)])
      all   == SubSeq(Path[head], start, Number(head))
  IN  IF synopsis # <<>> /\ known = {} THEN [ids |-> <<>>, remaining |-> 0]
      ELSE [ids |-> SubSeq(all, 1, IF Len(all) < Limit THEN Len(all) ELSE Limit),
            remaining |-> IF Len(all) > Limit THEN Len(all) - Limit ELSE 0]

-----------------------------------------------------------------------------
(* Operators on one peer_connection *)

NewPeer == [list |-> "none", ids_of_items_to_get |-> <<>>, ids_of_items_being_processed |-> {},
            item_ids_requested |-> None, sync_items_requested |-> {},
            number_of_unfetched_item_ids |-> 0, we_need |-> TRUE, peer_needs |-> TRUE,
            inhibit |-> FALSE, last_block_delegate_has_seen |-> Genesis]

disconnect_from_peer(pr) == [pr EXCEPT !.list = "closing"]

\* Nothing is requested if the synopsis fails: the exception is logged where it is caught.
fetch_next_batch_of_item_ids_from_peer(pr, cl) ==
  LET synopsis == CreateSynopsisForPeer(pr, cl.head)
  IN  IF pr.item_ids_requested # None \/ SynopsisFails(pr, cl) THEN pr
      ELSE IF synopsis = None THEN disconnect_from_peer(pr)
      ELSE [pr EXCEPT !.item_ids_requested = synopsis]

start_synchronizing_with_peer(pr, cl) ==
  fetch_next_batch_of_item_ids_from_peer(
    [pr EXCEPT !.ids_of_items_to_get = <<>>, !.number_of_unfetched_item_ids = 0,
               !.we_need = TRUE, !.last_block_delegate_has_seen = Genesis, !.inhibit = FALSE], cl)

\* The bound on disturbances.
Disturbed == disturbances < MaxDisturbances /\ disturbances' = disturbances + 1

Active == {p \in Peers : peer[p].list = "active"}

\* Seeded fault: nothing is scheduled while blocks are waiting for an earlier one.
TriggeredIfNone == IF backlog.state = "idle" /\ _received_sync_items = <<>>
                   THEN [backlog EXCEPT !.state = "scheduled"] ELSE backlog

\* trigger_process_backlog_of_sync_blocks: only if the task is not under way
Triggered == IF backlog.state = "idle" THEN [backlog EXCEPT !.state = "scheduled"] ELSE backlog

FrontIs(p, b) == peer[p].ids_of_items_to_get # <<>> /\ Head(peer[p].ids_of_items_to_get) = b

\* have_already_received_sync_item
Received(b) == \/ b \in Range(_received_sync_items) \cup Range(_new_received_sync_items)
               \/ b \in Range(_most_recent_blocks_accepted)

sync_state == <<_active_sync_requests, _new_received_sync_items, _received_sync_items,
                _most_recent_blocks_accepted, backlog>>

-----------------------------------------------------------------------------
(* Connections *)

\* new_peer_just_added: an active connection starts with a synchronisation.
new_peer_just_added(p) ==
  /\ peer[p].list = "none"
  /\ peer' = [peer EXCEPT ![p] =
                start_synchronizing_with_peer([NewPeer EXCEPT !.list = "active"], client)]
  /\ UNCHANGED <<sync_state, client, remote, disturbances>>

\* on_connection_closed: what was asked of this peer may be asked of another one.
on_connection_closed(p) ==
  /\ peer[p].list \in {"closing", "terminating"}
  /\ _active_sync_requests' = _active_sync_requests \ peer[p].sync_items_requested
  /\ peer' = [peer EXCEPT ![p] = NewPeer]
  /\ remote' = [remote EXCEPT ![p].answered = None]
  /\ UNCHANGED <<_new_received_sync_items, _received_sync_items,
                 _most_recent_blocks_accepted, backlog, client, disturbances>>

\* terminate_inactive_connections_loop: a request that takes too long, or a peer that we
\* need items from and have no request at.
terminate_inactive_connections_loop(p) ==
  /\ Disturbed
  /\ peer[p].list = "active"
  /\ \/ peer[p].sync_items_requested # {}
     \/ peer[p].item_ids_requested # None
     \/ peer[p].we_need /\ peer[p].ids_of_items_to_get = <<>>
  /\ peer' = [peer EXCEPT ![p].list = "terminating"]
  /\ UNCHANGED <<sync_state, client, remote>>

-----------------------------------------------------------------------------
(* Lists of ids *)

\* Where the items start that have to be fetched: after the ones that the client has seen,
\* unless the first is the next item of another peer.
FirstFresh(p, ids) ==
  IF \E q \in Active \ {p} : FrontIs(q, ids[1]) THEN 1
  ELSE CHOOSE i \in 1 .. Len(ids) + 1 :
         /\ \A j \in 1 .. i - 1 : ids[j] \in client.known
         /\ i = Len(ids) + 1 \/ ids[i] \notin client.known

\* Seeded fault: the first id, which both lists have, is appended again.
NewListsTwice(p, ids) ==
  LET pr    == peer[p]
      old   == pr.ids_of_items_to_get
      fresh == FirstFresh(p, ids)
      common == {i \in DOMAIN old : old[i] = ids[1]}
  IN  CASE ids = <<>> -> pr
        [] ids # <<>> /\ old = <<>> ->
             [pr EXCEPT !.ids_of_items_to_get = SubSeq(ids, fresh, Len(ids)),
                        !.last_block_delegate_has_seen = IF fresh = 1 THEN @ ELSE ids[fresh - 1]]
        [] ids # <<>> /\ old # <<>> /\ common = {} ->
             [pr EXCEPT !.ids_of_items_to_get = Tail(ids), !.last_block_delegate_has_seen = ids[1]]
        [] ids # <<>> /\ old # <<>> /\ common # {} ->
             [pr EXCEPT !.ids_of_items_to_get = old \o ids]

\* The peer's list after the ids of a reply (on_blockchain_item_ids_inventory_message).
NewLists(p, ids) ==
  LET pr    == peer[p]
      old   == pr.ids_of_items_to_get
      fresh == FirstFresh(p, ids)
      common == {i \in DOMAIN old : old[i] = ids[1]}
  IN  CASE ids = <<>> -> pr
        [] ids # <<>> /\ old = <<>> ->
             [pr EXCEPT !.ids_of_items_to_get = SubSeq(ids, fresh, Len(ids)),
                        !.last_block_delegate_has_seen = IF fresh = 1 THEN @ ELSE ids[fresh - 1]]
        [] ids # <<>> /\ old # <<>> /\ common = {} ->
             [pr EXCEPT !.ids_of_items_to_get = Tail(ids), !.last_block_delegate_has_seen = ids[1]]
        [] ids # <<>> /\ old # <<>> /\ common # {} ->
             [pr EXCEPT !.ids_of_items_to_get = SubSeq(old, 1, Max(common) - 1) \o ids]

\* Seeded fault: one id that is left is taken for the last item of our synopsis.
UpToDateUnlessMany(pr, reply) ==
  /\ reply.remaining = 0 /\ Len(reply.ids) <= 1
  /\ pr.ids_of_items_to_get = <<>> /\ pr.number_of_unfetched_item_ids = 0

\* The peer has no items after the one we asked for.
UpToDate(pr, reply) ==
  /\ reply.remaining = 0
  /\ reply.ids = <<>> \/ (Len(reply.ids) = 1 /\ reply.ids[1] \in client.known)
  /\ pr.ids_of_items_to_get = <<>> /\ pr.number_of_unfetched_item_ids = 0

\* The peer answers our synopsis.
peer_answers(p) ==
  /\ peer[p].list \in {"active", "closing"} /\ peer[p].item_ids_requested # None
  /\ remote[p].answered = None
  /\ remote' = [remote EXCEPT ![p].answered = remote[p].head]
  /\ UNCHANGED <<peer, sync_state, client, disturbances>>

on_blockchain_item_ids_inventory_message(p) ==
  LET pr    == peer[p]
      reply == GetBlockIds(pr.item_ids_requested, remote[p].answered)
      next  == [NewLists(p, reply.ids) EXCEPT !.item_ids_requested = None,
                                              !.number_of_unfetched_item_ids = reply.remaining]
  IN  /\ pr.list \in {"active", "closing"} /\ pr.item_ids_requested # None
      /\ remote[p].answered # None
      /\ peer' = [peer EXCEPT ![p] =
                    IF UpToDate(pr, reply) THEN [pr EXCEPT !.item_ids_requested = None, !.we_need = FALSE]
                    ELSE IF reply.remaining # 0 THEN fetch_next_batch_of_item_ids_from_peer(next, client)
                    ELSE next]
      /\ remote' = [remote EXCEPT ![p].answered = None]
      /\ UNCHANGED <<sync_state, client, disturbances>>

\* A reply that is not sequential or does not start in our synopsis, or a block that
\* nobody asked for: the peer is disconnected.
unexpected_message(p) ==
  /\ Disturbed
  /\ peer[p].list = "active"
  /\ peer' = [peer EXCEPT ![p] = disconnect_from_peer(@)]
  /\ UNCHANGED <<sync_state, client, remote>>

\* on_fetch_blockchain_item_ids_message: the peer synchronises with us.  It has sent a
\* synopsis of its chain.
on_fetch_blockchain_item_ids_message(p) ==
  LET pr    == peer[p]
      theirs == GetBlockchainSynopsis(remote[p].head, Genesis, 0)
      reply == GetBlockIds(theirs, client.head)
      equal == Len(reply.ids) = 1 /\ theirs # <<>> /\ reply.ids[1] \in Range(theirs)
      restart == ~pr.we_need /\ theirs # <<>> /\ remote[p].head \notin client.known
      answered == [pr EXCEPT !.peer_needs = reply.ids # <<>> /\ ~equal]
      synced == IF restart THEN start_synchronizing_with_peer(answered, client) ELSE answered
  IN  /\ pr.list = "active"
      /\ peer' = [peer EXCEPT ![p] =
                    IF equal /\ pr.inhibit THEN disconnect_from_peer(synced) ELSE synced]
      /\ UNCHANGED <<sync_state, client, remote, disturbances>>

-----------------------------------------------------------------------------
(* Fetching blocks *)

\* Seeded fault: what the pass before this one has requested may be requested again.
RequestFromAgain(acc, p) ==
  LET pr == acc.peer[p]
      ids == pr.ids_of_items_to_get
      wanted == {i \in DOMAIN ids : ids[i] \notin acc.items /\ ~Received(ids[i])}
      room == Min({maximum_blocks_per_peer_during_syncing - Cardinality(pr.sync_items_requested),
                   maximum_number_of_sync_blocks_to_prefetch + 1 - Cardinality(acc.items)
                     - Cardinality(_active_sync_requests) - Len(_new_received_sync_items)})
      items == {ids[i] : i \in {j \in wanted : Cardinality(wanted \cap 1 .. j) <= room}}
  IN  IF pr.inhibit \/ ~pr.we_need THEN acc
      ELSE [peer |-> [acc.peer EXCEPT ![p].sync_items_requested = @ \cup items],
            items |-> acc.items \cup items]

\* The share of one peer in a pass of fetch_sync_items_loop; acc.items are the items that
\* the pass has given to the peers before it.
RequestFrom(acc, p) ==
  LET pr == acc.peer[p]
      ids == pr.ids_of_items_to_get
      wanted == {i \in DOMAIN ids : ids[i] \notin acc.items \cup _active_sync_requests /\ ~Received(ids[i])}
      room == Min({maximum_blocks_per_peer_during_syncing - Cardinality(pr.sync_items_requested),
                   maximum_number_of_sync_blocks_to_prefetch + 1 - Cardinality(acc.items)
                     - Cardinality(_active_sync_requests) - Len(_new_received_sync_items)})
      items == {ids[i] : i \in {j \in wanted : Cardinality(wanted \cap 1 .. j) <= room}}
  IN  IF pr.inhibit \/ ~pr.we_need THEN acc
      ELSE [peer |-> [acc.peer EXCEPT ![p].sync_items_requested = @ \cup items],
            items |-> acc.items \cup items]

\* One pass over the active connections in whatever order, and request_sync_items_from_peer.
fetch_sync_items_loop ==
  \E order \in SetToSeqs(Active) :
    LET pass == FoldLeft(RequestFrom, [peer |-> peer, items |-> {}], order)
    IN  /\ pass.items # {}
        /\ peer' = pass.peer
        /\ _active_sync_requests' = _active_sync_requests \cup pass.items
        /\ UNCHANGED <<_new_received_sync_items, _received_sync_items,
                       _most_recent_blocks_accepted, backlog, client, remote, disturbances>>

\* process_block_message and process_block_during_sync: a block that was asked for.  If the
\* next request fails, the block is taken for one that nobody has asked for.
process_block_during_sync(p, b) ==
  /\ peer[p].list \in {"active", "closing"}
  /\ b \in peer[p].sync_items_requested
  /\ _active_sync_requests' = _active_sync_requests \ {b}
  /\ _new_received_sync_items' = <<b>> \o _new_received_sync_items
  /\ backlog' = Triggered
  /\ LET pr == [peer[p] EXCEPT !.sync_items_requested = @ \ {b}]
         more == pr.number_of_unfetched_item_ids > 0
     IN  peer' = [peer EXCEPT ![p] =
                    IF more /\ pr.item_ids_requested = None /\ SynopsisFails(pr, client)
                         /\ b \notin Range(_most_recent_blocks_accepted)
                    THEN disconnect_from_peer(pr)
                    ELSE IF more THEN fetch_next_batch_of_item_ids_from_peer(pr, client) ELSE pr]
  /\ UNCHANGED <<_received_sync_items, _most_recent_blocks_accepted, client, remote, disturbances>>

\* on_item_not_available_message
on_item_not_available_message(p, b) ==
  /\ Disturbed
  /\ peer[p].list \in {"active", "closing"}
  /\ b \in peer[p].sync_items_requested
  /\ LET pr == [peer[p] EXCEPT !.sync_items_requested = @ \ {b}]
     IN  peer' = [peer EXCEPT ![p] = IF pr.peer_needs THEN [pr EXCEPT !.inhibit = TRUE]
                                     ELSE disconnect_from_peer(pr)]
  /\ UNCHANGED <<sync_state, client, remote>>

-----------------------------------------------------------------------------
(* The backlog: blocks that wait to be handed to the client in order *)

\* What the client answers: handle_block of the p2p plugin, over the chain plugin.
Accepts(b) == Parent[b] \in client.known /\ b \notin Bad

ClientAfter(b) ==
  [known |-> client.known \cup {b},
   head  |-> IF Number(b) > Number(client.head) THEN b ELSE client.head]

\* push_back on the circular buffer
Recent(b) == LET all == Append(_most_recent_blocks_accepted, b)
             IN  IF Len(all) > RecentCapacity THEN Tail(all) ELSE all

\* process_backlog_of_sync_blocks starts: take what has arrived until now.
process_backlog_of_sync_blocks ==
  /\ backlog.state = "scheduled"
  /\ _received_sync_items' = Reverse(_new_received_sync_items) \o _received_sync_items
  /\ _new_received_sync_items' = <<>>
  /\ backlog' = [state |-> "running", processed |-> 0]
  /\ UNCHANGED <<peer, _active_sync_requests, _most_recent_blocks_accepted,
                 client, remote, disturbances>>

\* The received blocks that are next on the list of some peer.
NextItems == {i \in DOMAIN _received_sync_items :
                \E p \in Active : FrontIs(p, _received_sync_items[i])}

\* The block that is next moves from the lists of the peers to what is being processed.
Popped(p, b) ==
  IF p \in Active /\ FrontIs(p, b)
  THEN [peer[p] EXCEPT !.ids_of_items_to_get = Tail(@),
                       !.ids_of_items_being_processed = @ \cup {b}]
  ELSE peer[p]

\* A peer after the client has accepted a sync block (send_sync_block_to_node_delegate).
AfterSyncBlock(pr, b, cl) ==
  LET mine == b \in pr.ids_of_items_being_processed
      left == pr.ids_of_items_being_processed \ {b}
      seen == [pr EXCEPT !.ids_of_items_being_processed = left,
                         !.last_block_delegate_has_seen = IF mine THEN b ELSE @]
      next == IF mine /\ left = {} THEN fetch_next_batch_of_item_ids_from_peer(seen, cl)
              ELSE seen
  IN  IF pr.list # "active" THEN pr
      ELSE IF pr.ids_of_items_to_get = <<>> /\ left = {} /\ ~pr.peer_needs /\ ~pr.we_need
      THEN start_synchronizing_with_peer(next, cl)
      ELSE next

\* One round of its loop: the first block that is next.  If the client refuses it, the
\* peers keep it as being processed.
next_sync_block ==
  LET b == _received_sync_items[Min(NextItems)]
      popped == [p \in Peers |-> Popped(p, b)]
  IN  /\ backlog.state = "running"
      /\ backlog.processed < maximum_number_of_blocks_to_handle_at_one_time
      /\ NextItems # {}
      /\ \/ /\ b \in Range(_most_recent_blocks_accepted) \/ ~Accepts(b)
            /\ peer' = popped
            /\ UNCHANGED <<client, _most_recent_blocks_accepted>>
         \/ /\ b \notin Range(_most_recent_blocks_accepted) /\ Accepts(b)
            /\ client' = ClientAfter(b)
            /\ _most_recent_blocks_accepted' = Recent(b)
            /\ peer' = [p \in Peers |-> AfterSyncBlock(popped[p], b, client')]
      /\ _received_sync_items' = RemoveAt(_received_sync_items, Min(NextItems))
      /\ backlog' = [backlog EXCEPT !.processed = @ + 1]
      /\ UNCHANGED <<_active_sync_requests, _new_received_sync_items, remote, disturbances>>

\* The loop ends when no block is next, or after a number of blocks.
backlog_ends ==
  /\ backlog.state = "running"
  /\ NextItems = {} \/ backlog.processed >= maximum_number_of_blocks_to_handle_at_one_time
  /\ backlog' = [state |-> "idle", processed |-> 0]
  /\ UNCHANGED <<peer, _active_sync_requests, _new_received_sync_items, _received_sync_items,
                 _most_recent_blocks_accepted, client, remote, disturbances>>

-----------------------------------------------------------------------------
(* Blocks that peers announce in normal operation; see NetGossip for how they are fetched *)

\* The peers that have announced the block are known to have it.
AnnouncedBy(b) ==
  \E Q \in SUBSET {q \in Active : OnChain(b, remote[q].head)} :
    peer' = [q \in Peers |->
               IF q \in Q THEN [peer[q] EXCEPT !.last_block_delegate_has_seen = b] ELSE peer[q]]

\* A new block, or one that came in through the sync mechanism before.  Both this handler
\* and broadcast, which it calls, push it on the buffer.
normal_block_accepted(p, b) ==
  /\ IF b \in Range(_most_recent_blocks_accepted)
     THEN _most_recent_blocks_accepted' = Recent(b) /\ UNCHANGED client
     ELSE /\ Accepts(b)
          /\ client' = ClientAfter(b)
          /\ _most_recent_blocks_accepted' =
               LET all == Recent(b) \o <<b>>
               IN  IF Len(all) > RecentCapacity THEN Tail(all) ELSE all
  /\ AnnouncedBy(b)

\* The block does not link: synchronise with the peer.
normal_block_unlinkable(p, b) ==
  /\ b \notin Range(_most_recent_blocks_accepted) /\ Parent[b] \notin client.known
  /\ peer' = [peer EXCEPT ![p] = start_synchronizing_with_peer(@, client)]
  /\ UNCHANGED <<client, _most_recent_blocks_accepted>>

\* The client has rejected the block: disconnect all who offer it.
normal_block_rejected(p, b) ==
  /\ b \notin Range(_most_recent_blocks_accepted) /\ Parent[b] \in client.known /\ b \in Bad
  /\ peer' = [q \in Peers |-> IF q = p \/ (q \in Active /\ FrontIs(q, b))
                              THEN disconnect_from_peer(peer[q]) ELSE peer[q]]
  /\ UNCHANGED <<client, _most_recent_blocks_accepted>>

process_block_during_normal_operation(p, b) ==
  /\ Disturbed
  /\ peer[p].list = "active" /\ OnChain(b, remote[p].head) /\ b # Genesis
  /\ \/ normal_block_accepted(p, b)
     \/ normal_block_unlinkable(p, b)
     \/ normal_block_rejected(p, b)
  /\ UNCHANGED <<_active_sync_requests, _new_received_sync_items, _received_sync_items,
                 backlog, remote>>

\* The chain of a peer grows or moves to another branch.
remote_advances(p) ==
  /\ Disturbed
  /\ \E b \in RemoteHeads[p] :
       Number(b) > Number(remote[p].head) /\ remote' = [remote EXCEPT ![p].head = b]
  /\ UNCHANGED <<peer, sync_state, client>>

-----------------------------------------------------------------------------
\* sync_from has put the client's head into the buffer.
Init ==
  /\ peer = [p \in Peers |-> NewPeer]
  /\ _active_sync_requests = {}
  /\ _new_received_sync_items = <<>>
  /\ _received_sync_items = <<>>
  /\ _most_recent_blocks_accepted = <<Genesis>>
  /\ backlog = [state |-> "idle", processed |-> 0]
  /\ client = [known |-> {Genesis}, head |-> Genesis]
  /\ remote \in [Peers -> [head : Blocks, answered : {None}]]
  /\ \A p \in Peers : remote[p].head \in RemoteHeads[p]
  /\ disturbances = 0

backlog_step ==
  \/ process_backlog_of_sync_blocks
  \/ next_sync_block
  \/ backlog_ends

handler(p) ==
  \/ new_peer_just_added(p)
  \/ on_connection_closed(p)
  \/ terminate_inactive_connections_loop(p)
  \/ on_blockchain_item_ids_inventory_message(p)
  \/ unexpected_message(p)
  \/ on_fetch_blockchain_item_ids_message(p)
  \/ \E b \in Blocks :
       \/ process_block_during_sync(p, b)
       \/ on_item_not_available_message(p, b)
       \/ process_block_during_normal_operation(p, b)

Next ==
  \/ backlog_step
  \/ backlog.state # "running" /\ fetch_sync_items_loop
  \/ \E p \in Peers : backlog.state # "running" /\ handler(p)
  \/ \E p \in Peers : remote_advances(p) \/ peer_answers(p)

\* The thread runs a task that is scheduled.
Spec == Init /\ [][Next]_vars /\ WF_vars(backlog_step)

-----------------------------------------------------------------------------
(* Properties *)

\* The variables keep their types, and the two limits on the backlog are kept: one run of
\* the task handles a bounded number of blocks, and the buffer of ids is circular.
TypeOK ==
  /\ \A p \in Peers :
       /\ peer[p].list \in {"none", "active", "closing", "terminating"}
       /\ peer[p].ids_of_items_to_get \in Seq(Blocks)
       /\ peer[p].ids_of_items_being_processed \subseteq Blocks
       /\ peer[p].sync_items_requested \subseteq Blocks
       /\ peer[p].number_of_unfetched_item_ids \in Nat
       /\ peer[p].last_block_delegate_has_seen \in Blocks
  /\ _active_sync_requests \subseteq Blocks
  /\ backlog.state \in {"idle", "scheduled", "running"}
  /\ backlog.processed \in 0 .. maximum_number_of_blocks_to_handle_at_one_time
  /\ Len(_most_recent_blocks_accepted) <= RecentCapacity
  /\ client.head \in client.known

\* A block is asked of one peer at a time, through timeouts, refusals, new lists and new
\* connections; and what a peer owes us is on the common list.
OneFetchPerBlock ==
  /\ \A p, q \in Peers : p # q =>
       peer[p].sync_items_requested \cap peer[q].sync_items_requested = {}
  /\ UNION {peer[p].sync_items_requested : p \in Peers} \subseteq _active_sync_requests

\* A block that has arrived is stored once and is not requested again while it is stored.
ReceivedOnce ==
  /\ IsInjective(_new_received_sync_items \o _received_sync_items)
  /\ Range(_new_received_sync_items \o _received_sync_items) \cap _active_sync_requests = {}

\* At most one block more than the limit is requested or waits for the backlog, and no
\* peer has more requests than the limit per peer.
PrefetchBounded ==
  /\ Cardinality(_active_sync_requests) + Len(_new_received_sync_items)
       <= maximum_number_of_sync_blocks_to_prefetch + 1
  /\ \A p \in Peers :
       Cardinality(peer[p].sync_items_requested) <= maximum_blocks_per_peer_during_syncing

\* The safety of the requests as a whole: a block is on its way or in store once, within the
\* limits, whatever peers come and go.
RequestsSound == TypeOK /\ OneFetchPerBlock /\ ReceivedOnce /\ PrefetchBounded

\* The chain of the peer grows and never moves to another branch.
Steady(p) == \A a, b \in RemoteHeads[p] : OnChain(a, b) \/ OnChain(b, a)

\* The reference point of the next synopsis is a block of the client: otherwise no synopsis
\* can be made, and the synchronisation with this peer stands still.  This includes the
\* assertion that the first id of a reply from another fork is one of our items, which may
\* fail if the client has refused an item and the peer has then moved to another branch.
ReferenceKnown ==
  \A p \in Peers : Steady(p) => peer[p].last_block_delegate_has_seen \in client.known

\* The list of a peer is one line of blocks, although it is put together from replies to
\* several synopses, while the peer may have moved to another fork in between.
ListIsLine ==
  \A p \in Active : \A i \in 1 .. Len(peer[p].ids_of_items_to_get) - 1 :
    Parent[peer[p].ids_of_items_to_get[i + 1]] = peer[p].ids_of_items_to_get[i]

\* The lists can be followed: a line of blocks, and a reference point to ask from.
ListsSound == ReferenceKnown /\ ListIsLine

\* What the peer notes when it answers: we need no items of it, and it announces the blocks
\* that it gets from now on.
WillAnnounce(synopsis, head) ==
  LET ids == GetBlockIds(synopsis, head).ids
  IN  ids = <<>> \/ (Len(ids) = 1 /\ synopsis # <<>> /\ ids[1] \in Range(synopsis))

\* The node stops to synchronise with a peer, on a reply that may be older than the peer's
\* chain, only if it has the head that the peer had when it answered, or if the peer was on a
\* fork that no block of our synopsis is on; and if the peer then announces what it got since,
\* unless our chain was empty when we asked.
InSyncKnowsHead ==
  [][\A p \in Peers :
       peer[p].we_need /\ peer[p].list = "active" /\ ~peer'[p].we_need /\ peer'[p].list = "active"
         => /\ \/ remote[p].answered \in client.known
               \/ ~OnChain(Path[client.head][LowBlockNum(client.head)], remote[p].answered)
            /\ \/ WillAnnounce(peer[p].item_ids_requested, remote[p].answered)
               \/ peer[p].item_ids_requested = <<>>]_vars

\* No wake-up is lost: a block that arrives while the task that hands blocks to the client
\* is under way or waits for its turn is taken over by it or by the next one.
ArrivedBlocksTaken == _new_received_sync_items # <<>> ~> _new_received_sync_items = <<>>

=============================================================================
