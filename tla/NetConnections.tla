--------------------------- MODULE NetConnections ---------------------------
(***************************************************************************)
(* The connections of a node (libraries/net/node.cpp, peer_connection.cpp, *)
(* peer_database.cpp): the connect loop and the accept loop, the handshake *)
(* of hello, accepted or rejected and address messages, the four lists a   *)
(* connection moves through, the timeouts, the database of potential peers *)
(* and the relayed firewall checks.                                        *)
(*                                                                         *)
(* A connection object is a slot of Conns; a peer is the name of a node,   *)
(* which also stands for its endpoint.  Peers follow the protocol: a node  *)
(* says hello first, answers ours next and sends addresses when asked; but *)
(* they may stop, reject, reconnect and close at any moment.  Timeouts are *)
(* events that may happen whenever the code tests for them.                *)
(***************************************************************************)
EXTENDS Integers, FiniteSets

CONSTANTS Conns,           \* connection objects that may exist at a time
          Nodes, Self,     \* the other nodes, and this one
          Strangers,       \* nodes that may be found to be of another chain or outdated
          Firewalled,      \* nodes that cannot be connected to
          Seeds,           \* nodes the operator configured
          Gossip,          \* nodes whose addresses the peers send
          Callers,         \* nodes that connect to this one
          desired_number_of_connections, maximum_number_of_connections,
          MaxInbound,      \* inbound connections in a behaviour
          MaxChecks,       \* firewall checks in a behaviour
          MaxDisturbances, \* failures of the network and messages out of order in a behaviour
          None

ASSUME ConnectionAssumption ==
  /\ Strangers \subseteq Nodes /\ Firewalled \subseteq Nodes /\ Self \notin Nodes
  /\ Seeds \cup Gossip \cup Callers \subseteq Nodes \cup {Self}
  /\ None \notin Nodes \cup {Self, "hello", "reply", "address"}
  /\ desired_number_of_connections \in Nat /\ maximum_number_of_connections \in Nat

VARIABLES conn,               \* the peer_connection in each slot
          _potential_peer_db, \* last_connection_disposition of the endpoints in it
          _add_once_node_list,
          connect_loop,       \* "retry": a pass is due within seconds; "forever": it waits
          _is_firewalled,
          inbound, checks, disturbances

vars == <<conn, _potential_peer_db, _add_once_node_list, connect_loop, _is_firewalled,
          inbound, checks, disturbances>>

-----------------------------------------------------------------------------
(* Connection objects *)

\* complete: negotiation_status = negotiation_complete
NoConn == [list |-> "none", dir |-> None, remote |-> None, node_id |-> None,
           socket |-> "closed", our |-> "disconnected", their |-> "disconnected", next |-> None,
           complete |-> FALSE, we_close |-> FALSE, they_close |-> FALSE, check |-> None]

On(l) == {c \in Conns : conn[c].list = l}

Free == On("none")

get_number_of_connections == Cardinality(On("handshaking") \cup On("active"))

\* The connection that asks is counted itself.
is_accepting_new_connections == get_number_of_connections <= maximum_number_of_connections

is_wanting_new_connections(n) == n < desired_number_of_connections

Connected == On("handshaking") \cup On("active")

\* Seeded fault: connections in the handshake are not looked at.
is_already_connected_to_id_active(n) == n = Self \/ \E c \in On("active") : conn[c].node_id = n

is_already_connected_to_id(n) == n = Self \/ \E c \in Connected : conn[c].node_id = n

\* get_connection_to_endpoint: an inbound connection comes from a port of its own.
is_connection_to_endpoint_in_progress(n) ==
  \E c \in Connected : conn[c].dir = "outbound" /\ conn[c].remote = n

\* Objects in use are taken in a fixed order.
FreeConn == CHOOSE c \in Free : TRUE

Outbound(n, check) == [NoConn EXCEPT !.list = "handshaking", !.dir = "outbound", !.remote = n,
                                     !.socket = "negotiating", !.check = check]

Inbound(n) == [NoConn EXCEPT !.list = "handshaking", !.dir = "inbound", !.remote = n,
                             !.socket = "negotiating"]

\* close_connection: a read loop notices that the socket was closed; a negotiation fails.  No
\* message comes any more, and what the handshake found out is not looked at again.
close_connection(k) ==
  [k EXCEPT !.socket = IF @ = "open" THEN "shut" ELSE @, !.node_id = None, !.next = None,
            !.our = "disconnected", !.their = "disconnected", !.complete = FALSE,
            !.we_close = FALSE, !.they_close = FALSE]

disconnect_from_peer(k) ==
  IF k.they_close THEN close_connection([k EXCEPT !.list = "closing"])
  ELSE [k EXCEPT !.list = "closing", !.we_close = TRUE]

Terminated(k) == close_connection([k EXCEPT !.list = "terminating"])

Disturbed == disturbances < MaxDisturbances /\ disturbances' = disturbances + 1

\* The socket is read: messages of the peer are handled, whatever list the connection is on.
Reads(c) == conn[c].list # "none" /\ conn[c].socket = "open"

\* lookup_or_create_entry_for_endpoint followed by update_entry
WithDisposition(db, n, d) == [m \in DOMAIN db \cup {n} |-> IF m = n THEN d ELSE db[m]]

Known(db, S) == [m \in DOMAIN db \cup S |-> IF m \in DOMAIN db THEN db[m] ELSE "never_attempted"]

\* get_endpoint_for_connecting and an update of the record if there is one
Marked(db, n, d) == IF n \in DOMAIN db THEN [db EXCEPT ![n] = d] ELSE db

-----------------------------------------------------------------------------
(* Firewall checks *)

\* A check whose requesting_peer is not set is taken for this node's own.
Check(requester) == [kind |-> IF requester = None THEN "own" ELSE "relay",
                     requester |-> requester, tested |-> {}]

\* The connections that forward_firewall_check_to_next_available_peer may pick; the protocol
\* version it asks for is known from the hello message.
Helpers(conns, check) ==
  {d \in Conns : /\ conns[d].list = "active" /\ conns[d].check = None /\ conns[d].node_id # None
                 /\ conns[d].node_id # check.requester
                 /\ conns[d].node_id \notin check.tested}

\* The check goes to a helper, or it is dropped and its requester told so.
forward_firewall_check_to_next_available_peer(conns, check) ==
  IF Helpers(conns, check) = {} THEN conn' = conns
  ELSE \E d \in Helpers(conns, check) :
         conn' = [conns EXCEPT ![d].check = [check EXCEPT !.tested = @ \cup {conns[d].node_id}]]

\* An active peer asks whether it is firewalled.
on_check_firewall_request(c) ==
  /\ checks < MaxChecks /\ checks' = checks + 1
  /\ Reads(c) /\ conn[c].list = "active"
  /\ forward_firewall_check_to_next_available_peer(conn, Check(conn[c].node_id))
  /\ UNCHANGED <<_potential_peer_db, _add_once_node_list, connect_loop, _is_firewalled,
                 inbound, disturbances>>

\* A peer asks to connect to another node.
on_check_firewall_message(c, n) ==
  /\ checks < MaxChecks /\ checks' = checks + 1
  /\ Reads(c) /\ conn[c].list = "active" /\ conn[c].node_id # n
  /\ ~is_already_connected_to_id(n) /\ ~is_connection_to_endpoint_in_progress(n)
  /\ Free # {}
  /\ conn' = [conn EXCEPT ![FreeConn] =
                Outbound(n, [kind |-> "test", requester |-> conn[c].node_id, tested |-> {}])]
  /\ UNCHANGED <<_potential_peer_db, _add_once_node_list, connect_loop, _is_firewalled,
                 inbound, disturbances>>

on_check_firewall_reply_message(c, result) ==
  /\ Reads(c) /\ conn[c].check # None
  /\ LET check == conn[c].check
         cleared == [conn EXCEPT ![c].check = None]
     IN  IF check.kind = "relay"
         THEN /\ IF result = "unable_to_check"
                 THEN /\ forward_firewall_check_to_next_available_peer(cleared, check)
                      /\ UNCHANGED _potential_peer_db
                 ELSE /\ conn' = cleared
                      \* the record made is the helper's, not the requester's
                      /\ _potential_peer_db' =
                           IF result = "connection_successful" /\ check.requester \in Firewalled
                              /\ (\E d \in Connected : conn[d].node_id = check.requester)
                           THEN Known(_potential_peer_db, {conn[c].remote} \ Firewalled)
                           ELSE _potential_peer_db
              /\ UNCHANGED _is_firewalled
         ELSE /\ conn' = cleared
              /\ _is_firewalled' = CASE result = "connection_successful" -> FALSE
                                     [] result = "unable_to_connect" -> TRUE
                                     [] OTHER -> _is_firewalled
              /\ UNCHANGED _potential_peer_db
  /\ UNCHANGED <<_add_once_node_list, connect_loop, inbound, checks, disturbances>>

-----------------------------------------------------------------------------
(* Connecting and accepting *)

\* New connection objects for the endpoints in S.
connect_to_endpoints(S) ==
  LET slots == CHOOSE f \in [S -> Free] : \A m, n \in S : f[m] = f[n] => m = n
  IN  [c \in Conns |-> IF \E n \in S : slots[n] = c
                       THEN Outbound(CHOOSE n \in S : slots[n] = c, None) ELSE conn[c]]

\* One pass of the loop.  "Add once" nodes are always connected to; others while connections
\* are wanted, if the last attempt did not fail or is long ago (retry).
p2p_network_connect_loop ==
  /\ connect_loop = "retry"
  /\ \E retry \in SUBSET DOMAIN _potential_peer_db :
       LET once == {n \in _add_once_node_list : ~is_connection_to_endpoint_in_progress(n)}
           candidates == {n \in DOMAIN _potential_peer_db \ once :
                            /\ ~is_connection_to_endpoint_in_progress(n)
                            /\ \/ _potential_peer_db[n] \in {"never_attempted", "succeeded"}
                               \/ n \in retry}
           number == get_number_of_connections + Cardinality(once)
           room == IF is_wanting_new_connections(number)
                   THEN desired_number_of_connections - number ELSE 0
           size == IF Cardinality(candidates) < room THEN Cardinality(candidates) ELSE room
       IN  /\ Cardinality(Free) >= Cardinality(once) + size
           /\ \E chosen \in {S \in SUBSET candidates : Cardinality(S) = size} :
                LET to == chosen \cup once
                IN  /\ conn' = connect_to_endpoints(to)
                    \* connect_to_task starts by recording a failure
                    /\ _potential_peer_db' = [m \in DOMAIN _potential_peer_db \cup to |->
                                                IF m \in to THEN "failed" ELSE _potential_peer_db[m]]
                    /\ connect_loop' = IF is_wanting_new_connections(number + size)
                                       THEN "retry" ELSE "forever"
           /\ _add_once_node_list' = {}
  /\ UNCHANGED <<_is_firewalled, inbound, checks, disturbances>>

\* connect_to_task when the negotiation succeeded
connect_to_task_connected(c) ==
  /\ conn[c].list = "handshaking" /\ conn[c].dir = "outbound" /\ conn[c].socket = "negotiating"
  /\ conn[c].remote \notin Firewalled
  /\ _potential_peer_db' = WithDisposition(_potential_peer_db, conn[c].remote, "handshaking_failed")
  /\ conn' = [conn EXCEPT ![c] = IF @.check # None THEN NoConn
                                 ELSE [@ EXCEPT !.socket = "open", !.our = "just_connected",
                                                !.their = "just_connected", !.next = "hello"]]
  /\ UNCHANGED <<_add_once_node_list, connect_loop, _is_firewalled, inbound, checks, disturbances>>

\* connect_to_task when it failed, or when the connection was terminated meanwhile
connect_to_task_failed(c) ==
  /\ conn[c].dir = "outbound" /\ conn[c].socket = "negotiating"
  /\ _potential_peer_db' = IF conn[c].check # None THEN _potential_peer_db
                           ELSE WithDisposition(_potential_peer_db, conn[c].remote, "failed")
  /\ conn' = [conn EXCEPT ![c] = NoConn]
  /\ UNCHANGED <<_add_once_node_list, connect_loop, _is_firewalled, inbound, checks, disturbances>>

\* A connection of this node to itself comes from an attempt it made.
accept_loop(n) ==
  /\ n \in Callers \/ (n = Self /\ is_connection_to_endpoint_in_progress(n))
  /\ inbound < MaxInbound /\ inbound' = inbound + 1
  /\ Free # {}
  /\ conn' = [conn EXCEPT ![FreeConn] = Inbound(n)]
  /\ UNCHANGED <<_potential_peer_db, _add_once_node_list, connect_loop, _is_firewalled,
                 checks, disturbances>>

\* accept_connection_task; when it fails nothing takes the connection off its list and there is
\* no read loop to notice.
accept_connection_task(c, ok) ==
  /\ conn[c].dir = "inbound" /\ conn[c].socket = "negotiating"
  /\ ok => conn[c].list = "handshaking"
  /\ conn' = [conn EXCEPT ![c] = IF ok THEN [@ EXCEPT !.socket = "open", !.our = "just_connected",
                                                      !.their = "just_connected", !.next = "hello"]
                                 ELSE [@ EXCEPT !.socket = "failed"]]
  /\ UNCHANGED <<_potential_peer_db, _add_once_node_list, connect_loop, _is_firewalled,
                 inbound, checks, disturbances>>

-----------------------------------------------------------------------------
(* The handshake *)

on_hello_message(c) ==
  /\ Reads(c) /\ conn[c].next = "hello"
  /\ LET n == conn[c].remote
         told == [conn[c] EXCEPT !.node_id = n, !.next = "reply"]
         rejected == [told EXCEPT !.their = "connection_rejected"]
     IN  \/ /\ n \in Strangers
            /\ conn' = [conn EXCEPT ![c] = disconnect_from_peer(rejected)]
            /\ UNCHANGED _potential_peer_db
         \/ /\ is_already_connected_to_id(n)
            /\ conn' = [conn EXCEPT ![c] = rejected]
            /\ UNCHANGED _potential_peer_db
         \/ /\ ~is_already_connected_to_id(n)
            /\ conn' = [conn EXCEPT ![c] = IF is_accepting_new_connections
                                           THEN [told EXCEPT !.their = "connection_accepted"]
                                           ELSE rejected]
            /\ _potential_peer_db' = Known(_potential_peer_db, {n} \ Firewalled)
  /\ UNCHANGED <<_add_once_node_list, connect_loop, _is_firewalled, inbound, checks, disturbances>>

\* A second hello.
on_unexpected_hello_message(c) ==
  /\ Disturbed
  /\ Reads(c) /\ conn[c].their # "just_connected"
  /\ conn' = [conn EXCEPT ![c] = disconnect_from_peer(@)]
  /\ UNCHANGED <<_potential_peer_db, _add_once_node_list, connect_loop, _is_firewalled,
                 inbound, checks>>

\* The node may also ask this peer whether it is firewalled itself, when it does not know.
on_connection_accepted_message(c) ==
  /\ Reads(c) /\ conn[c].next = "reply" /\ conn[c].remote # Self
  /\ \E ask \in (IF _is_firewalled = None /\ checks < MaxChecks THEN BOOLEAN ELSE {FALSE}) :
       /\ conn' = [conn EXCEPT ![c].our = "connection_accepted", ![c].next = "address",
                               ![c].check = IF ask THEN Check(None) ELSE @]
       /\ checks' = IF ask THEN checks + 1 ELSE checks
  /\ UNCHANGED <<_potential_peer_db, _add_once_node_list, connect_loop, _is_firewalled,
                 inbound, disturbances>>

\* The peer rejects the connection: because it is this node, or for any other reason.
on_connection_rejected_message(c) ==
  /\ Reads(c) /\ conn[c].next = "reply"
  /\ LET n == conn[c].remote
         rejected == [conn[c] EXCEPT !.our = "connection_rejected", !.next = "address"]
         mine == conn[c].dir = "outbound"
     IN  IF n = Self
         THEN /\ conn' = [conn EXCEPT ![c] = close_connection([rejected EXCEPT !.list = "closing"])]
              /\ _potential_peer_db' =
                   [m \in DOMAIN _potential_peer_db \ (IF mine THEN {n} ELSE {}) |-> _potential_peer_db[m]]
         ELSE /\ conn' = [conn EXCEPT ![c] = rejected]
              /\ _potential_peer_db' = IF mine THEN Marked(_potential_peer_db, n, "rejected")
                                       ELSE _potential_peer_db
  /\ UNCHANGED <<_add_once_node_list, connect_loop, _is_firewalled, inbound, checks, disturbances>>

\* What the address message leads to while handshaking.
AfterAddresses(k) ==
  IF k.list # "handshaking" THEN k
  ELSE IF k.our = "connection_rejected" \/ k.their = "connection_rejected" THEN disconnect_from_peer(k)
  ELSE [k EXCEPT !.list = "active", !.complete = TRUE]

\* The peer sends the addresses of nodes it is connected to.
on_address_message(c) ==
  /\ Reads(c) /\ conn[c].next = "address"
  /\ LET k == AfterAddresses([conn[c] EXCEPT !.next = None])
         db == Known(_potential_peer_db, Gossip \ Firewalled)
     IN  /\ conn' = [conn EXCEPT ![c] = k]
         /\ _potential_peer_db' = IF conn[c].list # k.list /\ k.list = "active"
                                  THEN Marked(db, conn[c].remote, "succeeded") ELSE db
  /\ UNCHANGED <<_add_once_node_list, connect_loop, _is_firewalled, inbound, checks, disturbances>>

Accepted(k) == k.our = "connection_accepted" /\ k.their = "connection_accepted"

\* The second way to the active list: a peer that connected to this node starts to synchronise.
\* Its state is not looked at; a peer that follows the protocol does so when both have accepted.
\* Before its hello the endpoint noted for it is the one that it connected to, this node's.
on_fetch_blockchain_item_ids_message(c) ==
  /\ Reads(c) /\ conn[c].list = "handshaking" /\ conn[c].dir = "inbound"
  /\ IF Accepted(conn[c]) THEN UNCHANGED disturbances ELSE Disturbed
  /\ conn' = [conn EXCEPT ![c].list = "active"]
  /\ _potential_peer_db' = WithDisposition(_potential_peer_db,
                              IF conn[c].node_id = None THEN Self ELSE conn[c].remote, "succeeded")
  /\ UNCHANGED <<_add_once_node_list, connect_loop, _is_firewalled, inbound, checks>>

-----------------------------------------------------------------------------
(* The end of a connection *)

on_closing_connection_message(c) ==
  /\ Reads(c) /\ ~conn[c].they_close
  /\ IF conn[c].we_close THEN UNCHANGED disturbances ELSE Disturbed
  /\ conn' = [conn EXCEPT ![c] = LET k == [@ EXCEPT !.they_close = TRUE]
                                 IN  IF k.we_close THEN close_connection(k) ELSE k]
  /\ UNCHANGED <<_potential_peer_db, _add_once_node_list, connect_loop, _is_firewalled,
                 inbound, checks>>

\* The read loop ends: the socket was shut, or the peer or the network closed it.  A check
\* that was relayed to the peer goes to another one.
on_connection_closed(c) ==
  /\ conn[c].list # "none"
  /\ \/ conn[c].socket = "shut" /\ UNCHANGED disturbances
     \/ conn[c].socket = "open" /\ Disturbed
  /\ LET gone == [conn EXCEPT ![c] = NoConn]
         check == conn[c].check
     IN  IF check # None /\ check.kind = "relay"
         THEN forward_firewall_check_to_next_available_peer(gone, check)
         ELSE conn' = gone
  /\ UNCHANGED <<_potential_peer_db, _add_once_node_list, connect_loop, _is_firewalled,
                 inbound, checks>>

\* Seeded fault: a connection whose accept failed is left alone.
terminate_inactive_unless_failed(c) ==
  /\ conn[c].list \in {"handshaking", "active", "closing"} /\ conn[c].socket # "failed"
  /\ IF conn[c].list = "active" THEN Disturbed ELSE UNCHANGED disturbances
  /\ \/ conn[c].list = "active" /\ conn' = [conn EXCEPT ![c] = disconnect_from_peer(@)]
     \/ conn' = [conn EXCEPT ![c] = Terminated(@)]
  /\ UNCHANGED <<_potential_peer_db, _add_once_node_list, connect_loop, _is_firewalled,
                 inbound, checks>>

\* terminate_inactive_connections_loop, for a connection whose timeout passed: a handshake, a
\* closing connection and one that ignored a request are cut off, an idle one is asked to close.
\* The loop never deletes a connection that was cut off: get_connection_terminated_time is min()
\* for ever, since close_connection sets it only when it already differs from min().
terminate_inactive_connections_loop(c) ==
  /\ conn[c].list \in {"handshaking", "active", "closing"}
  /\ IF conn[c].list = "active" THEN Disturbed ELSE UNCHANGED disturbances
  /\ \/ conn[c].list = "active" /\ conn' = [conn EXCEPT ![c] = disconnect_from_peer(@)]
     \/ conn' = [conn EXCEPT ![c] = Terminated(@)]
  /\ UNCHANGED <<_potential_peer_db, _add_once_node_list, connect_loop, _is_firewalled,
                 inbound, checks>>

-----------------------------------------------------------------------------
\* Before the first pass of the connect loop; the operator has named the seeds.
Init ==
  /\ conn = [c \in Conns |-> NoConn]
  /\ _potential_peer_db = [n \in Seeds |-> "never_attempted"]
  /\ _add_once_node_list = Seeds
  /\ connect_loop = "retry"
  /\ _is_firewalled = None
  /\ inbound = 0 /\ checks = 0 /\ disturbances = 0

Results == {"unable_to_check", "unable_to_connect", "connection_successful"}

Handshake(c) ==
  \/ on_hello_message(c) \/ on_connection_accepted_message(c) \/ on_connection_rejected_message(c)
  \/ on_address_message(c) \/ on_fetch_blockchain_item_ids_message(c)

Ends(c) ==
  \/ on_connection_closed(c) \/ on_closing_connection_message(c)
  \/ terminate_inactive_connections_loop(c)

Next ==
  \/ p2p_network_connect_loop
  \/ \E n \in Nodes \cup {Self} : accept_loop(n)
  \/ \E c \in Conns :
       \/ connect_to_task_connected(c) \/ connect_to_task_failed(c)
       \/ \E ok \in BOOLEAN : accept_connection_task(c, ok)
       \/ Handshake(c) \/ on_unexpected_hello_message(c) \/ Ends(c)
       \/ on_check_firewall_request(c)
       \/ \E n \in Nodes : on_check_firewall_message(c, n)
       \/ \E r \in Results : on_check_firewall_reply_message(c, r)

\* The loop that looks for inactive connections runs every second, and a handshake that is not
\* continued by the peer times out; a read loop notices that its socket was shut, and a task
\* that negotiates fails when the socket is closed.
Fairness ==
  \A c \in Conns :
    /\ WF_vars(conn[c].list \in {"handshaking", "closing"} /\ terminate_inactive_connections_loop(c))
    /\ WF_vars(conn[c].socket = "shut" /\ on_connection_closed(c))
    /\ WF_vars(conn[c].list = "terminating" /\ connect_to_task_failed(c))
    /\ WF_vars(conn[c].list = "terminating" /\ accept_connection_task(c, FALSE))

Spec == Init /\ [][Next]_vars /\ Fairness

-----------------------------------------------------------------------------
(* Properties *)

Dispositions == {"never_attempted", "failed", "rejected", "handshaking_failed", "succeeded"}

States == {"disconnected", "just_connected", "connection_accepted", "connection_rejected"}

\* The state is well formed; in particular schedule_peer_for_deletion's assertions hold: a
\* deleted connection is on no list.
TypeOK ==
  /\ \A c \in Conns :
       /\ conn[c].list \in {"none", "handshaking", "active", "closing", "terminating"}
       /\ conn[c].remote \in Nodes \cup {Self, None}
       /\ conn[c].node_id \in {None, conn[c].remote}
       /\ conn[c].our \in States /\ conn[c].their \in States
       /\ conn[c].socket \in {"closed", "negotiating", "open", "shut", "failed"}
       /\ conn[c].list = "none" => conn[c] = NoConn
  /\ DOMAIN _potential_peer_db \subseteq Nodes \cup {Self}
  /\ \A n \in DOMAIN _potential_peer_db : _potential_peer_db[n] \in Dispositions
  /\ _add_once_node_list \subseteq Nodes \cup {Self}
  /\ connect_loop \in {"retry", "forever"}
  /\ _is_firewalled \in BOOLEAN \cup {None}

\* A connection whose negotiation is complete, and every connection that this node made, is
\* active only after both sides have accepted it: no rejection, timeout or reconnection in
\* between lets it through.  An inbound connection may have asked its way in (HandshakeDone).
ActiveAccepted ==
  \A c \in On("active") :
    conn[c].complete \/ conn[c].dir = "outbound" => Accepted(conn[c]) /\ conn[c].node_id \in Nodes

\* Two nodes that connect to each other at the same time, or a peer that reconnects, never end
\* up with two connections that this node accepted ("I'm already connected to you",
\* node.cpp:1985); one of them may have been moved to the active list before its hello.
OneConnectionPerNode ==
  \A c, d \in Connected :
    c # d /\ conn[c].their = "connection_accepted" /\ conn[d].their = "connection_accepted"
    => conn[c].node_id # conn[d].node_id

\* No endpoint is connected to twice, by the connect loop and for a firewall check.
OneOutbound ==
  \A c, d \in Connected :
    c # d /\ conn[c].dir = "outbound" /\ conn[d].dir = "outbound" => conn[c].remote # conn[d].remote

\* A firewall check is relayed to a node other than the one to be checked, and by one
\* connection at a time (two relays at once come from two requests).
ChecksRelayedOnce ==
  /\ \A c \in Conns : conn[c].check # None /\ conn[c].check.kind = "relay" =>
                        conn[c].node_id # conn[c].check.requester
  /\ \A c, d \in Conns : /\ c # d /\ conn[c].check # None /\ conn[d].check # None
                         /\ conn[c].check.kind = "relay" /\ conn[d].check.kind = "relay"
                         => checks >= 2

\* The safety of the connections as a whole: whatever connects, rejects, times out and
\* reconnects, there is one accepted connection per node and one attempt per endpoint.
ConnectionsSound == TypeOK /\ ActiveAccepted /\ OneConnectionPerNode /\ OneOutbound /\ ChecksRelayedOnce

\* A handshake that a peer or a lost socket left hanging, and a connection that is being
\* closed, do not stay: the connection gets active or is deleted ("Disconnect peers that
\* haven't sent us any data recently", node.cpp:1282).  A connection whose accept failed is
\* taken from the handshaking list, and then nothing deletes it (AllSettle).
Settles ==
  \A c \in Conns : conn[c].list \in {"handshaking", "closing", "terminating"}
                     ~> \/ conn[c].list \in {"active", "none"}
                        \/ conn[c].list = "terminating" /\ conn[c].socket = "failed"

\* "handshaking is done, move the connection to fully active status" (node.cpp:2317): of every
\* active connection.
HandshakeDone == \A c \in On("active") : Accepted(conn[c])

\* The terminating list "stores connections we've closed, but are still waiting for the OS to
\* notify us that the socket is really closed" (node.cpp:473), and a connection for which
\* closing "didn't work" is deleted (node.cpp:1431): no connection stays on it.
AllSettle == \A c \in Conns : conn[c].list = "terminating" ~> conn[c].list = "none"
=============================================================================
