----------------------- MODULE NetConnections_proofs -----------------------
(***************************************************************************)
(* Proofs about the connections of a node, for any number of connection    *)
(* objects, nodes, inbound connections, firewall checks and failures.      *)
(*                                                                         *)
(* The invariant has a part about each connection (ConnOK), a part about   *)
(* pairs of connections (Apart) and one about the other variables.         *)
(***************************************************************************)
EXTENDS NetConnections, TLAPS

(* A connection that counts as one: it holds its node, or its endpoint. *)
Counts(k) == k.list \in {"handshaking", "active"}
Claims(k) == Counts(k) /\ k.their = "connection_accepted"
Dials(k) == Counts(k) /\ k.dir = "outbound"
Relays(k) == k.check # None /\ k.check.kind = "relay"

Judged == {"connection_accepted", "connection_rejected"}

(* The fields of a connection object. *)
Fields(k) ==
  /\ DOMAIN k = {"list", "dir", "remote", "node_id", "socket", "our", "their", "next",
                 "complete", "we_close", "they_close", "check"}
  /\ k.list \in {"none", "handshaking", "active", "closing", "terminating"}
  /\ k.remote \in Nodes \cup {Self, None}
  /\ k.node_id \in {None, k.remote}
  /\ k.our \in States /\ k.their \in States
  /\ k.socket \in {"closed", "negotiating", "open", "shut", "failed"}
  /\ k.list = "none" => k = NoConn
  /\ k.list # "none" => k.remote # None

(* How far its handshake is, and what it may relay.  Only an inbound      *)
(* connection is active before its handshake is over (Early). *)
Early(k) == k.dir # "outbound" /\ ~ k.complete

Stage(k) ==
  /\ k.next = "hello" \/ k.socket = "negotiating" => k.node_id = None
  /\ k.next = "reply" => k.their \in Judged
  /\ k.next = "address" => k.our \in Judged /\ k.their \in Judged
  /\ k.list = "handshaking" => ~ k.complete
  /\ k.list = "active" => \/ Early(k)
                          \/ /\ k.next = None /\ k.our = "connection_accepted"
                             /\ k.their = "connection_accepted"
  /\ Claims(k) => k.node_id \in Nodes
  /\ Counts(k) => ~ k.we_close
  /\ Relays(k) => /\ k.list # "handshaking" /\ k.next # "hello"
                  /\ k.node_id # k.check.requester /\ k.check.requester # None
                  /\ DOMAIN k.check = {"kind", "requester", "tested"}

ConnOK(k) == Fields(k) /\ Stage(k)

(* Two connections: not to one node, not to one endpoint, and not two      *)
(* relays unless there were two checks (of n). *)
Apart(k, l, n) ==
  /\ Claims(k) /\ Claims(l) => k.node_id # l.node_id
  /\ Dials(k) /\ Dials(l) => k.remote # l.remote
  /\ Relays(k) /\ Relays(l) => n >= 2

Sound(conns, n) ==
  /\ conns = [c \in Conns |-> conns[c]]
  /\ \A c \in Conns : ConnOK(conns[c])
  /\ \A c, d \in Conns : c # d => Apart(conns[c], conns[d], n)
  /\ n \in Nat
  /\ n = 0 => \A c \in Conns : ~ Relays(conns[c])

ConnsInv == Sound(conn, checks)

(* The database of potential peers, and the other variables. *)
DbOK(db) ==
  /\ DOMAIN db \subseteq Nodes \cup {Self}
  /\ \A n \in DOMAIN db : db[n] \in Dispositions

PeersInv ==
  /\ DbOK(_potential_peer_db)
  /\ _add_once_node_list \subseteq Nodes \cup {Self}
  /\ connect_loop \in {"retry", "forever"}
  /\ _is_firewalled \in BOOLEAN \cup {None}

-----------------------------------------------------------------------------
(* Connection objects.                                                     *)

(* An unused object. *)
LEMMA NoConnOK == /\ ConnOK(NoConn) /\ ~ Counts(NoConn) /\ ~ Relays(NoConn)
  BY ConnectionAssumption DEF ConnOK, Fields, Stage, NoConn, Claims, Counts, Relays, States, Judged

(* An object for a new connection claims no node and relays nothing. *)
LEMMA OutboundOK ==
  ASSUME NEW n \in Nodes \cup {Self}, NEW check, check # None => check.kind = "test"
  PROVE  LET k == Outbound(n, check)
         IN  ConnOK(k) /\ ~ Claims(k) /\ ~ Relays(k) /\ k.remote = n
  <1> DEFINE k == Outbound(n, check)
  <1>1. /\ DOMAIN k = DOMAIN NoConn /\ k.list = "handshaking" /\ k.dir = "outbound" /\ k.remote = n
        /\ k.node_id = None /\ k.socket = "negotiating" /\ k.our = "disconnected"
        /\ k.their = "disconnected" /\ k.next = None /\ k.check = check /\ ~ k.we_close
        /\ ~ k.complete
    BY DEF Outbound, NoConn
  <1> HIDE DEF k
  <1>2. Fields(k) /\ ~ Claims(k) /\ ~ Relays(k)
    BY <1>1, ConnectionAssumption DEF Fields, NoConn, States, Claims, Counts, Relays
  <1>3. Stage(k)
    BY <1>1, <1>2, ConnectionAssumption DEF Stage, Counts
  <1> QED
    BY <1>1, <1>2, <1>3 DEF ConnOK, k

(* The same for one that was accepted. *)
LEMMA InboundOK ==
  ASSUME NEW n \in Nodes \cup {Self}
  PROVE  LET k == Inbound(n) IN ConnOK(k) /\ ~ Claims(k) /\ ~ Relays(k) /\ ~ Dials(k)
  <1> DEFINE k == Inbound(n)
  <1>1. /\ DOMAIN k = DOMAIN NoConn /\ k.list = "handshaking" /\ k.dir = "inbound" /\ k.remote = n
        /\ k.node_id = None /\ k.socket = "negotiating" /\ k.our = "disconnected"
        /\ k.their = "disconnected" /\ k.next = None /\ k.check = None /\ ~ k.we_close
        /\ ~ k.complete
    BY DEF Inbound, NoConn
  <1> HIDE DEF k
  <1>2. Fields(k) /\ ~ Claims(k) /\ ~ Relays(k) /\ ~ Dials(k)
    BY <1>1, ConnectionAssumption DEF Fields, NoConn, States, Claims, Counts, Relays, Dials
  <1>3. Stage(k)
    BY <1>1, <1>2, ConnectionAssumption DEF Stage, Counts
  <1> QED
    BY <1>1, <1>2, <1>3 DEF ConnOK, k

(* What a change of a connection may not add. *)
Weaker(k, old) ==
  /\ Claims(k) => Claims(old) /\ k.node_id = old.node_id
  /\ Dials(k) => Dials(old) /\ k.remote = old.remote
  /\ Relays(k) => Relays(old)

(* Closing a connection that does not count keeps what is known of it. *)
LEMMA CloseOK ==
  ASSUME NEW old, ConnOK(old), NEW mid, DOMAIN mid = DOMAIN old,
         mid.list \in {"closing", "terminating"}, mid.remote = old.remote, mid.remote # None,
         mid.socket = old.socket, mid.check = old.check
  PROVE  LET k == close_connection(mid) IN ConnOK(k) /\ Weaker(k, old)
  <1> DEFINE k == close_connection(mid)
  <1>1. /\ DOMAIN k = DOMAIN old /\ k.list = mid.list /\ k.remote = old.remote
        /\ k.node_id = None /\ k.socket \in {"shut", old.socket} /\ k.our = "disconnected"
        /\ k.their = "disconnected" /\ k.next = None /\ k.check = old.check
    BY DEF close_connection, ConnOK, Fields
  <1> HIDE DEF k
  <1>2. Fields(k)
    BY <1>1 DEF ConnOK, Fields, States
  <1>3. ~ Counts(k) /\ (Relays(k) <=> Relays(old))
    BY <1>1 DEF Counts, Relays
  <1>4. Stage(k)
    BY <1>1, <1>3, ConnectionAssumption DEF ConnOK, Stage, Claims, Counts
  <1>5. Weaker(k, old)
    BY <1>3 DEF Weaker, Claims, Dials
  <1> QED
    BY <1>2, <1>4, <1>5 DEF ConnOK, k

(* terminate_inactive_connections_loop cuts a connection off. *)
LEMMA TerminatedOK == ASSUME NEW old, ConnOK(old), old.list # "none"
                      PROVE  ConnOK(Terminated(old)) /\ Weaker(Terminated(old), old)
  <1> DEFINE mid == [old EXCEPT !.list = "terminating"]
  <1>1. /\ DOMAIN mid = DOMAIN old /\ mid.list = "terminating" /\ mid.remote = old.remote
        /\ mid.remote # None /\ mid.socket = old.socket /\ mid.check = old.check
    BY DEF ConnOK, Fields
  <1>2. Terminated(old) = close_connection(mid)
    BY DEF Terminated
  <1> HIDE DEF mid
  <1> QED
    BY <1>1, <1>2, CloseOK

(* A connection that is asked to close is no longer one of the node's. *)
LEMMA DisconnectOK == ASSUME NEW old, ConnOK(old), old.list # "none"
                      PROVE  ConnOK(disconnect_from_peer(old)) /\ Weaker(disconnect_from_peer(old), old)
  <1> DEFINE mid == [old EXCEPT !.list = "closing"]
             asked == [old EXCEPT !.list = "closing", !.we_close = TRUE]
  <1>1. /\ DOMAIN mid = DOMAIN old /\ mid.list = "closing" /\ mid.remote = old.remote
        /\ mid.remote # None /\ mid.socket = old.socket /\ mid.check = old.check
    BY DEF ConnOK, Fields
  <1>2. /\ DOMAIN asked = DOMAIN old /\ asked.list = "closing" /\ asked.remote = old.remote
        /\ asked.node_id = old.node_id /\ asked.socket = old.socket /\ asked.our = old.our
        /\ asked.their = old.their /\ asked.next = old.next /\ asked.check = old.check
    BY DEF ConnOK, Fields
  <1>3. disconnect_from_peer(old) = IF old.they_close THEN close_connection(mid) ELSE asked
    BY DEF disconnect_from_peer
  <1> HIDE DEF mid, asked
  <1>4. ConnOK(asked) /\ Weaker(asked, old)
    <2>1. Fields(asked)
      BY <1>2 DEF ConnOK, Fields
    <2>2. ~ Counts(asked) /\ (Relays(asked) <=> Relays(old))
      BY <1>2 DEF Counts, Relays
    <2>3. Stage(asked)
      BY <1>2, <2>2 DEF ConnOK, Stage, Claims, Counts
    <2> QED
      BY <2>1, <2>2, <2>3 DEF ConnOK, Weaker, Claims, Dials
  <1>5. ConnOK(close_connection(mid)) /\ Weaker(close_connection(mid), old)
    BY <1>1, CloseOK
  <1> QED
    BY <1>3, <1>4, <1>5

-----------------------------------------------------------------------------
(* Steps.                                                                  *)

(* A change that adds nothing to what a connection holds. *)
LEMMA Weakened ==
  ASSUME NEW conns, NEW n, Sound(conns, n), NEW m \in {n, n + 1},
         NEW c \in Conns, NEW k, ConnOK(k), Weaker(k, conns[c])
  PROVE  Sound([conns EXCEPT ![c] = k], m)
  <1> DEFINE new == [conns EXCEPT ![c] = k]
  <1>1. /\ new = [d \in Conns |-> new[d]] /\ new[c] = k
        /\ \A d \in Conns \ {c} : new[d] = conns[d]
    BY DEF Sound
  <1> HIDE DEF new
  <1>2. \A d \in Conns : ConnOK(new[d]) /\ Weaker(new[d], conns[d])
    <2>1. \A d \in Conns : Weaker(conns[d], conns[d])
      BY DEF Weaker
    <2> QED
      BY <1>1, <2>1 DEF Sound
  <1>3. m \in Nat /\ m >= n /\ n \in Nat
    BY DEF Sound
  <1>4. ASSUME NEW d \in Conns, NEW e \in Conns, d # e PROVE Apart(new[d], new[e], m)
    <2>1. Apart(conns[d], conns[e], n) /\ Weaker(new[d], conns[d]) /\ Weaker(new[e], conns[e])
      BY <1>2, <1>4 DEF Sound
    <2>2. n >= 2 => m >= 2
      BY <1>3
    <2> QED
      BY <2>1, <2>2 DEF Apart, Weaker
  <1>5. ASSUME m = 0, NEW d \in Conns PROVE ~ Relays(new[d])
    <2>1. n = 0
      BY <1>3, <1>5
    <2> QED
      BY <1>2, <2>1 DEF Sound, Weaker
  <1> QED
    BY <1>1, <1>2, <1>3, <1>4, <1>5 DEF Sound, new

(* New connections, each to an endpoint of its own. *)
LEMMA Opened ==
  ASSUME NEW conns, NEW n, Sound(conns, n), NEW m \in {n, n + 1},
         NEW new, new = [c \in Conns |-> new[c]], NEW S \in SUBSET Conns,
         \A c \in Conns \ S : new[c] = conns[c],
         \A c \in S : ConnOK(new[c]) /\ ~ Claims(new[c]) /\ ~ Relays(new[c]),
         \A c \in S, d \in Conns : c # d /\ Dials(new[c]) /\ Dials(new[d]) => new[c].remote # new[d].remote
  PROVE  Sound(new, m)
  <1>1. m \in Nat /\ m >= n /\ n \in Nat
    BY DEF Sound
  <1>2. \A c \in Conns : ConnOK(new[c])
    BY DEF Sound
  <1>3. ASSUME NEW c \in Conns, NEW d \in Conns, c # d PROVE Apart(new[c], new[d], m)
    <2>1. CASE c \notin S /\ d \notin S
      <3>1. Apart(conns[c], conns[d], n) /\ new[c] = conns[c] /\ new[d] = conns[d]
        BY <1>3, <2>1 DEF Sound
      <3> QED
        BY <1>1, <3>1 DEF Apart
    <2>2. CASE c \in S \/ d \in S
      BY <1>3, <2>2 DEF Apart
    <2> QED
      BY <2>1, <2>2
  <1>4. ASSUME m = 0, NEW c \in Conns PROVE ~ Relays(new[c])
    <2>1. n = 0
      BY <1>1, <1>4
    <2> QED
      BY <2>1 DEF Sound
  <1> QED
    BY <1>1, <1>2, <1>3, <1>4 DEF Sound

(* A check is given to an active connection that has none. *)
LEMMA Forwarded ==
  ASSUME NEW conns, NEW n, Sound(conns, n), NEW m \in {n, n + 1}, m >= 1,
         NEW check, DOMAIN check = {"kind", "requester", "tested"}, check.kind = "relay",
         check.requester # None,
         m >= 2 \/ \A c \in Conns : ~ Relays(conns[c]),
         forward_firewall_check_to_next_available_peer(conns, check)
  PROVE  Sound(conn', m)
  <1>0. m \in Nat /\ m >= n /\ n \in Nat
    BY DEF Sound
  <1>1. CASE conn' = conns
    BY <1>0, <1>1 DEF Sound, Apart
  <1>2. CASE conn' # conns
    <2>1. PICK d \in Helpers(conns, check) :
            conn' = [conns EXCEPT ![d].check = [check EXCEPT !.tested = @ \cup {conns[d].node_id}]]
      BY <1>2 DEF forward_firewall_check_to_next_available_peer
    <2> DEFINE relayed == [check EXCEPT !.tested = @ \cup {conns[d].node_id}]
               k == [conns[d] EXCEPT !.check = relayed]
    <2>2. /\ d \in Conns /\ conns[d].list = "active" /\ conns[d].check = None
          /\ conns[d].node_id # check.requester /\ ConnOK(conns[d]) /\ conns[d].node_id # None
      BY DEF Helpers, Sound
    <2>3. /\ relayed.kind = "relay" /\ relayed.requester = check.requester
          /\ DOMAIN relayed = {"kind", "requester", "tested"}
      OBVIOUS
    <2> HIDE DEF relayed
    <2>4. conn' = [conns EXCEPT ![d] = k]
      BY <2>1, <2>2 DEF Sound, relayed
    <2>5. /\ DOMAIN k = DOMAIN conns[d] /\ k.list = conns[d].list /\ k.dir = conns[d].dir
          /\ k.remote = conns[d].remote /\ k.we_close = conns[d].we_close
          /\ k.node_id = conns[d].node_id /\ k.socket = conns[d].socket /\ k.our = conns[d].our
          /\ k.their = conns[d].their /\ k.next = conns[d].next /\ k.check = relayed
          /\ k.complete = conns[d].complete
      BY <2>2 DEF ConnOK, Fields
    <2> HIDE DEF k
    <2>6. ConnOK(k)
      <3>1. Fields(k)
        BY <2>2, <2>5 DEF ConnOK, Fields
      <3>2. Claims(k) <=> Claims(conns[d])
        BY <2>5 DEF Claims, Counts
      <3>3. Stage(k)
        BY <2>2, <2>3, <2>5, <3>2 DEF ConnOK, Stage, Counts, Early
      <3> QED
        BY <3>1, <3>3 DEF ConnOK
    <2>7. /\ conn' = [c \in Conns |-> conn'[c]] /\ conn'[d] = k
          /\ \A c \in Conns \ {d} : conn'[c] = conns[c]
      BY <2>2, <2>4 DEF Sound
    <2>8. ASSUME NEW c \in Conns, NEW e \in Conns, c # e PROVE Apart(conn'[c], conn'[e], m)
      <3>1. Apart(conns[c], conns[e], n) /\ (n >= 2 => m >= 2)
        BY <1>0, <2>8 DEF Sound
      <3>2. (Claims(k) <=> Claims(conns[d])) /\ (Dials(k) <=> Dials(conns[d]))
        BY <2>5 DEF Claims, Dials, Counts
      <3> QED
        BY <2>2, <2>5, <2>7, <2>8, <3>1, <3>2 DEF Apart
    <2> QED
      BY <1>0, <2>6, <2>7, <2>8 DEF Sound
  <1> QED
    BY <1>1, <1>2

(* A check of nobody's is taken for this node's own: it is no relay. *)
LEMMA ForwardedOwn ==
  ASSUME NEW conns, NEW n, Sound(conns, n), NEW m \in {n, n + 1},
         NEW check, DOMAIN check = {"kind", "requester", "tested"}, check.kind = "own",
         forward_firewall_check_to_next_available_peer(conns, check)
  PROVE  Sound(conn', m)
  <1>0. m \in Nat /\ m >= n /\ n \in Nat
    BY DEF Sound
  <1>1. CASE conn' = conns
    BY <1>0, <1>1 DEF Sound, Apart
  <1>2. CASE conn' # conns
    <2>1. PICK d \in Helpers(conns, check) :
            conn' = [conns EXCEPT ![d].check = [check EXCEPT !.tested = @ \cup {conns[d].node_id}]]
      BY <1>2 DEF forward_firewall_check_to_next_available_peer
    <2> DEFINE given == [check EXCEPT !.tested = @ \cup {conns[d].node_id}]
               k == [conns[d] EXCEPT !.check = given]
    <2>2. d \in Conns /\ conns[d].list = "active" /\ ConnOK(conns[d])
      BY DEF Helpers, Sound
    <2>3. given.kind = "own"
      OBVIOUS
    <2> HIDE DEF given
    <2>4. conn' = [conns EXCEPT ![d] = k]
      BY <2>1, <2>2 DEF Sound, given
    <2>5. /\ DOMAIN k = DOMAIN conns[d] /\ k.list = conns[d].list /\ k.dir = conns[d].dir
          /\ k.remote = conns[d].remote /\ k.we_close = conns[d].we_close
          /\ k.node_id = conns[d].node_id /\ k.socket = conns[d].socket /\ k.our = conns[d].our
          /\ k.their = conns[d].their /\ k.next = conns[d].next /\ k.check = given
          /\ k.complete = conns[d].complete
      BY <2>2 DEF ConnOK, Fields
    <2> HIDE DEF k
    <2>6. Fields(k)
      BY <2>2, <2>5 DEF ConnOK, Fields
    <2>7. (Claims(k) <=> Claims(conns[d])) /\ ~ Relays(k) /\ (Dials(k) <=> Dials(conns[d]))
      BY <2>3, <2>5 DEF Claims, Relays, Dials, Counts
    <2>8. Stage(k)
      BY <2>2, <2>5, <2>7 DEF ConnOK, Stage, Counts, Early
    <2>9. Weaker(k, conns[d])
      BY <2>5, <2>7 DEF Weaker
    <2> QED
      BY <2>2, <2>4, <2>6, <2>8, <2>9, Weakened DEF ConnOK
  <1> QED
    BY <1>1, <1>2

(* A connection that reads is in use. *)
LEMMA ReadsOK == ASSUME ConnsInv, NEW c \in Conns
                 PROVE  ConnOK(conn[c]) /\ checks \in Nat
  BY DEF ConnsInv, Sound

(* The object of a connection that ended is free again. *)
LEMMA Ended == ASSUME ConnsInv, NEW c \in Conns
               PROVE  Sound([conn EXCEPT ![c] = NoConn], checks)
  <1>1. Weaker(NoConn, conn[c])
    BY NoConnOK DEF Weaker, Claims, Dials
  <1> QED
    BY <1>1, NoConnOK, Weakened DEF ConnsInv

(* The connect loop picks endpoints that are not connected to, each once. *)
LEMMA ConnectStep == ASSUME ConnsInv, PeersInv, p2p_network_connect_loop
                     PROVE  ConnsInv'
  <1>1. PICK to : /\ to \subseteq Nodes \cup {Self}
                  /\ \A n \in to : ~ is_connection_to_endpoint_in_progress(n)
                  /\ conn' = connect_to_endpoints(to)
    <2> DEFINE once == {n \in _add_once_node_list : ~ is_connection_to_endpoint_in_progress(n)}
               free == {n \in DOMAIN _potential_peer_db : ~ is_connection_to_endpoint_in_progress(n)}
    <2>1. \E chosen \in SUBSET free : conn' = connect_to_endpoints(chosen \cup once)
      BY Zenon DEF p2p_network_connect_loop
    <2> QED
      BY <2>1 DEF PeersInv, DbOK
  <1> DEFINE slots == CHOOSE f \in [to -> Free] : \A m, n \in to : f[m] = f[n] => m = n
  <1> DEFINE S == {c \in Conns : \E n \in to : slots[n] = c}
             at(c) == CHOOSE n \in to : slots[n] = c
  <1>2. \A c \in S : at(c) \in to /\ slots[at(c)] = c
    OBVIOUS
  <1>3. /\ conn' = [c \in Conns |-> conn'[c]]
        /\ \A c \in S : conn'[c] = Outbound(at(c), None)
        /\ \A c \in Conns \ S : conn'[c] = conn[c]
    BY <1>1 DEF connect_to_endpoints
  <1> HIDE DEF at
  <1>4. \A c \in S : /\ ConnOK(conn'[c]) /\ ~ Claims(conn'[c]) /\ ~ Relays(conn'[c])
                     /\ conn'[c].remote = at(c)
    <2> TAKE c \in S
    <2>1. at(c) \in Nodes \cup {Self} /\ conn'[c] = Outbound(at(c), None)
      BY <1>1, <1>2, <1>3
    <2> QED
      BY <2>1, OutboundOK
  <1>5. ASSUME NEW c \in S, NEW d \in Conns, c # d, Dials(conn'[c]), Dials(conn'[d])
        PROVE  conn'[c].remote # conn'[d].remote
    <2>1. CASE d \in S
      BY <1>2, <1>4, <1>5, <2>1
    <2>2. CASE d \notin S
      <3>1. conn'[d] = conn[d]
        BY <1>3, <2>2
      <3>2. d \in Connected /\ conn[d].dir = "outbound"
        BY <1>5, <3>1 DEF Dials, Counts, Connected, On
      <3>3. conn[d].remote # at(c)
        BY <1>1, <1>2, <3>2 DEF is_connection_to_endpoint_in_progress
      <3> QED
        BY <1>4, <3>1, <3>3
    <2> QED
      BY <2>1, <2>2
  <1>6. checks' = checks
    BY DEF p2p_network_connect_loop
  <1>7. S \in SUBSET Conns
    OBVIOUS
  <1> HIDE DEF S
  <1> QED
    BY <1>3, <1>4, <1>5, <1>6, <1>7, Opened DEF ConnsInv

(* An inbound connection dials nobody. *)
LEMMA AcceptStep == ASSUME ConnsInv, NEW n \in Nodes \cup {Self}, accept_loop(n)
                    PROVE  ConnsInv'
  <1>1. PICK f \in Conns : conn' = [conn EXCEPT ![f] = Inbound(n)]
    BY DEF accept_loop, FreeConn, Free, On
  <1>2. ConnOK(Inbound(n)) /\ Weaker(Inbound(n), conn[f])
    BY InboundOK DEF Weaker
  <1>3. checks' = checks
    BY DEF accept_loop
  <1> QED
    BY <1>1, <1>2, <1>3, Weakened DEF ConnsInv

(* A connection for a firewall check is to an endpoint not connected to. *)
LEMMA CheckStep == ASSUME ConnsInv, NEW c \in Conns, NEW n \in Nodes, on_check_firewall_message(c, n)
                   PROVE  ConnsInv'
  <1> DEFINE check == [kind |-> "test", requester |-> conn[c].node_id, tested |-> {}]
             k == Outbound(n, check)
  <1>1. PICK f \in Conns : conn' = [conn EXCEPT ![f] = k]
    BY DEF on_check_firewall_message, FreeConn, Free, On
  <1>2. ConnOK(k) /\ ~ Claims(k) /\ ~ Relays(k) /\ k.remote = n
    <2>1. check.kind = "test"
      OBVIOUS
    <2> HIDE DEF check
    <2> QED
      BY <2>1, OutboundOK
  <1> HIDE DEF k
  <1>3. /\ conn' = [d \in Conns |-> conn'[d]] /\ conn'[f] = k
        /\ \A d \in Conns \ {f} : conn'[d] = conn[d]
    BY <1>1 DEF ConnsInv, Sound
  <1>4. ASSUME NEW d \in Conns, d # f, Dials(conn'[d]) PROVE conn'[d].remote # n
    <2>1. conn'[d] = conn[d] /\ d \in Connected /\ conn[d].dir = "outbound"
      BY <1>3, <1>4 DEF Dials, Counts, Connected, On
    <2> QED
      BY <2>1 DEF on_check_firewall_message, is_connection_to_endpoint_in_progress
  <1>5. checks' = checks + 1
    BY DEF on_check_firewall_message
  <1>6. PICK S \in SUBSET Conns : S = {f}
    OBVIOUS
  <1>7. /\ \A d \in Conns \ S : conn'[d] = conn[d]
        /\ \A d \in S : ConnOK(conn'[d]) /\ ~ Claims(conn'[d]) /\ ~ Relays(conn'[d])
        /\ \A d \in S, e \in Conns : d # e /\ Dials(conn'[d]) /\ Dials(conn'[e])
                                    => conn'[d].remote # conn'[e].remote
    BY <1>2, <1>3, <1>4, <1>6
  <1> QED
    BY <1>3, <1>5, <1>7, Opened DEF ConnsInv

(* A peer's request to be checked is passed on. *)
LEMMA RequestStep == ASSUME ConnsInv, NEW c \in Conns, on_check_firewall_request(c)
                     PROVE  ConnsInv'
  <1> DEFINE check == Check(conn[c].node_id)
  <1>1. /\ conn[c].list = "active" /\ checks' = checks + 1
        /\ forward_firewall_check_to_next_available_peer(conn, check)
    BY DEF on_check_firewall_request
  <1>2. DOMAIN check = {"kind", "requester", "tested"}
    BY DEF Check
  <1>3. checks \in Nat /\ (checks + 1 >= 2 \/ \A d \in Conns : ~ Relays(conn[d]))
    BY DEF ConnsInv, Sound
  <1>4. CASE conn[c].node_id = None
    <2>1. check.kind = "own"
      BY <1>4 DEF Check
    <2> HIDE DEF check
    <2> QED
      BY <1>1, <1>2, <2>1, ForwardedOwn DEF ConnsInv
  <1>5. CASE conn[c].node_id # None
    <2>1. check.kind = "relay" /\ check.requester # None
      BY <1>5 DEF Check
    <2> HIDE DEF check
    <2> QED
      BY <1>1, <1>2, <1>3, <2>1, Forwarded DEF ConnsInv
  <1> QED
    BY <1>4, <1>5

(* What most steps leave alone in a connection. *)
Same(k, old) == /\ DOMAIN k = DOMAIN old /\ k.list = old.list /\ k.dir = old.dir
                /\ k.remote = old.remote /\ k.check = old.check /\ k.we_close = old.we_close
                /\ k.complete = old.complete

(* The negotiation of an outbound connection succeeds. *)
LEMMA ConnectedStep == ASSUME ConnsInv, NEW c \in Conns, connect_to_task_connected(c)
                       PROVE  ConnsInv'
  <1> DEFINE old == conn[c]
             k == [old EXCEPT !.socket = "open", !.our = "just_connected",
                              !.their = "just_connected", !.next = "hello"]
  <1>1. /\ old.list = "handshaking" /\ checks' = checks /\ old.socket = "negotiating"
        /\ conn' = [conn EXCEPT ![c] = IF old.check # None THEN NoConn ELSE k]
    BY DEF connect_to_task_connected
  <1>2. CASE old.check # None
    BY <1>1, <1>2, Ended DEF ConnsInv
  <1>3. CASE old.check = None
    <2>1. /\ Same(k, old) /\ k.node_id = old.node_id /\ k.socket = "open"
          /\ k.our = "just_connected" /\ k.their = "just_connected" /\ k.next = "hello"
      BY ReadsOK DEF ConnOK, Fields, Same
    <2> HIDE DEF k
    <2>2. Fields(k)
      BY <1>1, <2>1, ReadsOK DEF ConnOK, Fields, Same, States
    <2>3. ~ Claims(k) /\ ~ Relays(k) /\ (Dials(k) <=> Dials(old))
      BY <1>3, <2>1 DEF Claims, Relays, Dials, Counts, Same
    <2>4. Stage(k)
      BY <1>1, <2>1, <2>3, ReadsOK DEF ConnOK, Stage, Same, Counts, Early
    <2>5. Weaker(k, old)
      BY <2>1, <2>3 DEF Weaker, Same
    <2> QED
      BY <1>1, <1>3, <2>2, <2>4, <2>5, Weakened DEF ConnsInv, ConnOK
  <1> QED
    BY <1>2, <1>3

(* An inbound connection is negotiated, or it is not. *)
LEMMA AcceptedStep == ASSUME ConnsInv, NEW c \in Conns, NEW ok \in BOOLEAN, accept_connection_task(c, ok)
                      PROVE  ConnsInv'
  <1> DEFINE old == conn[c]
             k == [old EXCEPT !.socket = "open", !.our = "just_connected",
                              !.their = "just_connected", !.next = "hello"]
             l == [old EXCEPT !.socket = "failed"]
  <1>1. /\ (ok => old.list = "handshaking") /\ checks' = checks /\ old.socket = "negotiating"
        /\ conn' = [conn EXCEPT ![c] = IF ok THEN k ELSE l]
    BY DEF accept_connection_task
  <1>2. CASE ok
    <2>1. /\ Same(k, old) /\ k.node_id = old.node_id /\ k.socket = "open"
          /\ k.our = "just_connected" /\ k.their = "just_connected" /\ k.next = "hello"
      BY ReadsOK DEF ConnOK, Fields, Same
    <2> HIDE DEF k
    <2>2. Fields(k)
      BY <1>1, <1>2, <2>1, ReadsOK DEF ConnOK, Fields, Same, States
    <2>3. ~ Claims(k) /\ ~ Relays(k) /\ (Dials(k) <=> Dials(old))
      BY <1>1, <1>2, <2>1, ReadsOK DEF Claims, Relays, Dials, Counts, Same, ConnOK, Stage
    <2>4. Stage(k)
      BY <1>1, <1>2, <2>1, <2>3, ReadsOK DEF ConnOK, Stage, Same, Counts, Early
    <2>5. Weaker(k, old)
      BY <2>1, <2>3 DEF Weaker, Same
    <2> QED
      BY <1>1, <1>2, <2>2, <2>4, <2>5, Weakened DEF ConnsInv, ConnOK
  <1>3. CASE ~ ok
    <2>1. /\ Same(l, old) /\ l.node_id = old.node_id /\ l.socket = "failed"
          /\ l.our = old.our /\ l.their = old.their /\ l.next = old.next
      BY ReadsOK DEF ConnOK, Fields, Same
    <2> HIDE DEF l
    <2>2. old.list # "none"
      BY <1>1, ReadsOK DEF ConnOK, Fields, NoConn
    <2>3. Fields(l)
      BY <2>1, <2>2, ReadsOK DEF ConnOK, Fields, Same
    <2>4. (Claims(l) <=> Claims(old)) /\ (Relays(l) <=> Relays(old)) /\ (Dials(l) <=> Dials(old))
      BY <2>1 DEF Claims, Relays, Dials, Counts, Same
    <2>5. Stage(l)
      BY <2>1, <2>4, ReadsOK DEF ConnOK, Stage, Same, Counts, Early
    <2>6. Weaker(l, old)
      BY <2>1, <2>4 DEF Weaker, Same
    <2> QED
      BY <1>1, <1>3, <2>3, <2>5, <2>6, Weakened DEF ConnsInv, ConnOK
  <1> QED
    BY <1>2, <1>3

(* A connection whose peer is told yes is the only one that counts with    *)
(* that node's id. *)
LEMMA HelloStep == ASSUME ConnsInv, NEW c \in Conns, on_hello_message(c)
                   PROVE  ConnsInv'
  <1> DEFINE old == conn[c]
             n == old.remote
             told == [old EXCEPT !.node_id = n, !.next = "reply"]
             rejected == [told EXCEPT !.their = "connection_rejected"]
             accepted == [told EXCEPT !.their = "connection_accepted"]
  <1>1. /\ old.list # "none" /\ old.next = "hello" /\ checks' = checks /\ old.socket = "open"
        /\ \/ conn' = [conn EXCEPT ![c] = disconnect_from_peer(rejected)]
           \/ conn' = [conn EXCEPT ![c] = rejected]
           \/ conn' = [conn EXCEPT ![c] = accepted] /\ ~ is_already_connected_to_id(n)
    BY DEF on_hello_message, Reads
  <1>2. ConnOK(old) /\ n \in Nodes \cup {Self} /\ (old.list = "active" => Early(old)) /\ ~ Relays(old)
    BY <1>1, ReadsOK, ConnectionAssumption DEF ConnOK, Fields, Stage
  <1>3. /\ Same(rejected, old) /\ rejected.node_id = n /\ rejected.socket = old.socket
        /\ rejected.our = old.our /\ rejected.their = "connection_rejected" /\ rejected.next = "reply"
    BY <1>2 DEF ConnOK, Fields, Same
  <1>4. /\ Same(accepted, old) /\ accepted.node_id = n /\ accepted.socket = old.socket
        /\ accepted.our = old.our /\ accepted.their = "connection_accepted" /\ accepted.next = "reply"
    BY <1>2 DEF ConnOK, Fields, Same
  <1> HIDE DEF rejected, accepted
  <1>5. ConnOK(rejected) /\ Weaker(rejected, old)
    <2>1. Fields(rejected)
      BY <1>1, <1>2, <1>3 DEF ConnOK, Fields, Same, States
    <2>2. ~ Claims(rejected) /\ ~ Relays(rejected) /\ (Dials(rejected) <=> Dials(old))
      BY <1>2, <1>3 DEF Claims, Relays, Dials, Counts, Same
    <2>3. Stage(rejected)
      BY <1>1, <1>2, <1>3, <2>2, ConnectionAssumption DEF ConnOK, Stage, Same, Judged, Counts, Early
    <2> QED
      BY <1>3, <2>1, <2>2, <2>3 DEF ConnOK, Weaker, Same
  <1>6. CASE conn' = [conn EXCEPT ![c] = rejected]
    BY <1>1, <1>5, <1>6, Weakened DEF ConnsInv
  <1>7. CASE conn' = [conn EXCEPT ![c] = disconnect_from_peer(rejected)]
    <2> DEFINE k == disconnect_from_peer(rejected)
    <2>1. ConnOK(k) /\ Weaker(k, rejected)
      BY <1>1, <1>3, <1>5, DisconnectOK DEF Same
    <2> HIDE DEF k
    <2>2. Weaker(k, old)
      BY <1>5, <2>1 DEF Weaker
    <2> QED
      BY <1>1, <1>7, <2>1, <2>2, Weakened DEF ConnsInv, k
  <1>8. CASE conn' = [conn EXCEPT ![c] = accepted] /\ ~ is_already_connected_to_id(n)
    <2>1. n \in Nodes /\ \A d \in Conns : Counts(conn[d]) => conn[d].node_id # n
      BY <1>2, <1>8 DEF is_already_connected_to_id, Connected, On, Counts
    <2>2. Fields(accepted)
      BY <1>1, <1>2, <1>4 DEF ConnOK, Fields, Same, States
    <2>3. ~ Relays(accepted) /\ (Dials(accepted) <=> Dials(old))
      BY <1>2, <1>4 DEF Relays, Dials, Counts, Same
    <2>4. Stage(accepted)
      BY <1>1, <1>2, <1>4, <2>1, <2>3, ConnectionAssumption DEF ConnOK, Stage, Same, Judged, Counts, Early
    <2>5. /\ conn' = [d \in Conns |-> conn'[d]] /\ conn'[c] = accepted
          /\ \A d \in Conns \ {c} : conn'[d] = conn[d]
      BY <1>8 DEF ConnsInv, Sound
    <2>6. ASSUME NEW d \in Conns, NEW e \in Conns, d # e PROVE Apart(conn'[d], conn'[e], checks)
      <3>1. Apart(conn[d], conn[e], checks)
        BY <2>6 DEF ConnsInv, Sound
      <3>2. ~ Relays(accepted) /\ accepted.remote = old.remote /\ accepted.node_id = n
        BY <1>4, <2>3 DEF Same
      <3> QED
        BY <2>1, <2>3, <2>5, <2>6, <3>1, <3>2 DEF Apart, Claims
    <2> QED
      BY <1>1, <2>2, <2>3, <2>4, <2>5, <2>6 DEF ConnsInv, Sound, ConnOK
  <1> QED
    BY <1>1, <1>6, <1>7, <1>8

(* The peer accepts. *)
LEMMA AcceptedMessageStep == ASSUME ConnsInv, NEW c \in Conns, on_connection_accepted_message(c)
                             PROVE  ConnsInv'
  <1> DEFINE old == conn[c]
             own == Check(None)
             k(ask) == [old EXCEPT !.our = "connection_accepted", !.next = "address",
                                   !.check = IF ask THEN own ELSE @]
  <1>1. /\ old.list # "none" /\ old.next = "reply"
        /\ \E ask \in BOOLEAN : /\ conn' = [conn EXCEPT ![c] = k(ask)]
                               /\ checks' = IF ask THEN checks + 1 ELSE checks
    <2>1. PICK ask \in BOOLEAN :
            /\ conn' = [conn EXCEPT ![c].our = "connection_accepted", ![c].next = "address",
                                    ![c].check = IF ask THEN own ELSE @]
            /\ checks' = IF ask THEN checks + 1 ELSE checks
      BY DEF on_connection_accepted_message
    <2>2. conn' = [conn EXCEPT ![c] = k(ask)]
      BY <2>1 DEF ConnsInv, Sound
    <2> QED
      BY <2>1, <2>2 DEF on_connection_accepted_message, Reads
  <1>2. PICK ask \in BOOLEAN : /\ conn' = [conn EXCEPT ![c] = k(ask)]
                               /\ checks' \in {checks, checks + 1}
    BY <1>1
  <1>3. ConnOK(old) /\ (old.list = "active" => Early(old)) /\ old.their \in Judged
    BY <1>1, ReadsOK, ConnectionAssumption DEF ConnOK, Stage
  <1>4. own.kind = "own"
    BY DEF Check
  <1> HIDE DEF own
  <1>5. /\ DOMAIN k(ask) = DOMAIN old /\ k(ask).list = old.list /\ k(ask).dir = old.dir
        /\ k(ask).remote = old.remote /\ k(ask).node_id = old.node_id /\ k(ask).socket = old.socket
        /\ k(ask).our = "connection_accepted" /\ k(ask).their = old.their
        /\ k(ask).we_close = old.we_close /\ k(ask).next = "address" /\ k(ask).check \in {own, old.check}
        /\ k(ask).complete = old.complete
    BY <1>3 DEF ConnOK, Fields
  <1> HIDE DEF k
  <1>6. Fields(k(ask))
    BY <1>1, <1>3, <1>5 DEF ConnOK, Fields, States
  <1>7. /\ (Claims(k(ask)) <=> Claims(old))
        /\ (Relays(k(ask)) => Relays(old) /\ k(ask).check = old.check)
        /\ (Dials(k(ask)) <=> Dials(old))
    BY <1>3, <1>4, <1>5 DEF Claims, Relays, Dials, Counts
  <1>8. Stage(k(ask))
    BY <1>1, <1>3, <1>5, <1>7 DEF ConnOK, Stage, Judged, Counts, Early
  <1>9. Weaker(k(ask), old)
    BY <1>5, <1>7 DEF Weaker
  <1> QED
    BY <1>2, <1>6, <1>8, <1>9, Weakened DEF ConnsInv, ConnOK

(* The peer rejects, or the peer is this node. *)
LEMMA RejectedMessageStep == ASSUME ConnsInv, NEW c \in Conns, on_connection_rejected_message(c)
                             PROVE  ConnsInv'
  <1> DEFINE old == conn[c]
             k == [old EXCEPT !.our = "connection_rejected", !.next = "address"]
             mid == [k EXCEPT !.list = "closing"]
  <1>1. /\ old.list # "none" /\ old.next = "reply" /\ checks' = checks
        /\ \/ conn' = [conn EXCEPT ![c] = close_connection(mid)]
           \/ conn' = [conn EXCEPT ![c] = k]
    BY DEF on_connection_rejected_message, Reads
  <1>2. /\ ConnOK(old) /\ (old.list = "active" => Early(old)) /\ old.their \in Judged
        /\ old.remote # None
    BY <1>1, ReadsOK, ConnectionAssumption DEF ConnOK, Stage, Fields
  <1>3. /\ Same(k, old) /\ k.node_id = old.node_id /\ k.socket = old.socket
        /\ k.our = "connection_rejected" /\ k.their = old.their /\ k.next = "address"
    BY <1>2 DEF ConnOK, Fields, Same
  <1>4. /\ DOMAIN mid = DOMAIN old /\ mid.list = "closing" /\ mid.remote = old.remote
        /\ mid.socket = old.socket /\ mid.check = old.check
    BY <1>2 DEF ConnOK, Fields
  <1> HIDE DEF k, mid
  <1>5. CASE conn' = [conn EXCEPT ![c] = close_connection(mid)]
    <2>1. ConnOK(close_connection(mid)) /\ Weaker(close_connection(mid), old)
      BY <1>2, <1>4, CloseOK
    <2> QED
      BY <1>1, <1>5, <2>1, Weakened DEF ConnsInv
  <1>6. CASE conn' = [conn EXCEPT ![c] = k]
    <2>1. Fields(k)
      BY <1>1, <1>2, <1>3 DEF ConnOK, Fields, Same, States
    <2>2. (Claims(k) <=> Claims(old)) /\ (Relays(k) <=> Relays(old)) /\ (Dials(k) <=> Dials(old))
      BY <1>2, <1>3 DEF Claims, Relays, Dials, Counts, Same
    <2>3. Stage(k)
      BY <1>1, <1>2, <1>3, <2>2 DEF ConnOK, Stage, Judged, Same, Counts, Early
    <2>4. Weaker(k, old)
      BY <1>3, <2>2 DEF Weaker, Same
    <2> QED
      BY <1>1, <1>6, <2>1, <2>3, <2>4, Weakened DEF ConnsInv, ConnOK
  <1> QED
    BY <1>1, <1>5, <1>6

(* The handshake ends: only a connection that both have accepted becomes   *)
(* active. *)
LEMMA AddressStep == ASSUME ConnsInv, NEW c \in Conns, on_address_message(c)
                     PROVE  ConnsInv'
  <1> DEFINE old == conn[c]
             done == [old EXCEPT !.next = None]
             up == [done EXCEPT !.list = "active", !.complete = TRUE]
  <1>0. checks' \in {checks, checks + 1}
    BY DEF on_address_message
  <1>1. /\ old.list # "none" /\ old.next = "address" /\ checks' = checks
        /\ conn' = [conn EXCEPT ![c] = AfterAddresses(done)]
    BY DEF on_address_message, Reads
  <1>2. /\ ConnOK(old) /\ (old.list = "active" => Early(old))
        /\ old.our \in Judged /\ old.their \in Judged
    BY <1>1, ReadsOK, ConnectionAssumption DEF ConnOK, Stage
  <1>3. /\ Same(done, old) /\ done.node_id = old.node_id /\ done.socket = old.socket
        /\ done.our = old.our /\ done.their = old.their /\ done.next = None
    BY <1>2 DEF ConnOK, Fields, Same
  <1>4. /\ DOMAIN up = DOMAIN old /\ up.list = "active" /\ up.dir = old.dir /\ up.remote = old.remote
        /\ up.check = old.check /\ up.node_id = old.node_id /\ up.socket = old.socket
        /\ up.our = old.our /\ up.their = old.their /\ up.next = None
        /\ up.we_close = old.we_close /\ up.complete
    BY <1>2 DEF ConnOK, Fields
  <1>5. \/ conn' = [conn EXCEPT ![c] = done]
        \/ conn' = [conn EXCEPT ![c] = disconnect_from_peer(done)]
        \/ /\ conn' = [conn EXCEPT ![c] = up] /\ done.list = "handshaking"
           /\ done.our # "connection_rejected" /\ done.their # "connection_rejected"
    BY <1>1 DEF AfterAddresses
  <1> HIDE DEF done, up
  <1>6. ConnOK(done) /\ Weaker(done, old)
    <2>1. Fields(done)
      BY <1>1, <1>2, <1>3 DEF ConnOK, Fields, Same
    <2>2. /\ (Claims(done) <=> Claims(old)) /\ (Relays(done) <=> Relays(old))
          /\ (Dials(done) <=> Dials(old))
      BY <1>2, <1>3 DEF Claims, Relays, Dials, Counts, Same
    <2>3. Stage(done)
      BY <1>2, <1>3, <2>2, ConnectionAssumption DEF ConnOK, Stage, Same, Counts, Early
    <2> QED
      BY <1>3, <2>1, <2>2, <2>3 DEF ConnOK, Weaker, Same
  <1>7. CASE conn' = [conn EXCEPT ![c] = done]
    BY <1>0, <1>6, <1>7, Weakened DEF ConnsInv
  <1>8. CASE conn' = [conn EXCEPT ![c] = disconnect_from_peer(done)]
    <2> DEFINE k == disconnect_from_peer(done)
    <2>1. ConnOK(k) /\ Weaker(k, done)
      BY <1>1, <1>3, <1>6, DisconnectOK DEF Same
    <2> HIDE DEF k
    <2>2. Weaker(k, old)
      BY <1>6, <2>1 DEF Weaker
    <2> QED
      BY <1>0, <1>8, <2>1, <2>2, Weakened DEF ConnsInv, k
  <1>9. CASE /\ conn' = [conn EXCEPT ![c] = up] /\ done.list = "handshaking"
             /\ done.our # "connection_rejected" /\ done.their # "connection_rejected"
    <2>1. up.our = "connection_accepted" /\ up.their = "connection_accepted" /\ Claims(old)
      BY <1>2, <1>3, <1>4, <1>9 DEF Judged, Claims, Counts, Same
    <2>2. old.list = "handshaking"
      BY <1>3, <1>9 DEF Same
    <2>3. Fields(up)
      BY <1>1, <1>2, <1>4 DEF ConnOK, Fields
    <2>4. Claims(up) /\ ~ Relays(up) /\ (Dials(up) <=> Dials(old))
      BY <1>2, <1>4, <2>1, <2>2 DEF Claims, Relays, Dials, Counts, ConnOK, Stage
    <2>5. Stage(up)
      BY <1>2, <1>4, <2>1, <2>2, <2>4, ConnectionAssumption DEF ConnOK, Stage, Claims, Counts
    <2>6. Weaker(up, old)
      BY <1>4, <2>1, <2>4 DEF Weaker
    <2> QED
      BY <1>0, <1>9, <2>3, <2>5, <2>6, Weakened DEF ConnsInv, ConnOK
  <1> QED
    BY <1>5, <1>7, <1>8, <1>9

(* An inbound connection asks its way to the active list: it holds no more *)
(* than it did. *)
LEMMA FetchStep == ASSUME ConnsInv, NEW c \in Conns, on_fetch_blockchain_item_ids_message(c)
                   PROVE  ConnsInv'
  <1> DEFINE old == conn[c]
             k == [old EXCEPT !.list = "active"]
  <1>1. /\ old.list = "handshaking" /\ old.dir = "inbound" /\ checks' = checks
        /\ conn' = [conn EXCEPT ![c] = k]
    BY DEF on_fetch_blockchain_item_ids_message, ConnsInv, Sound
  <1>2. ConnOK(old) /\ ~ Relays(old)
    BY <1>1, ReadsOK DEF ConnOK, Stage
  <1>3. /\ DOMAIN k = DOMAIN old /\ k.list = "active" /\ k.dir = old.dir /\ k.remote = old.remote
        /\ k.check = old.check /\ k.node_id = old.node_id /\ k.socket = old.socket
        /\ k.our = old.our /\ k.their = old.their /\ k.next = old.next
        /\ k.we_close = old.we_close /\ k.complete = old.complete
    BY <1>2 DEF ConnOK, Fields
  <1> HIDE DEF k
  <1>4. Fields(k)
    BY <1>1, <1>2, <1>3 DEF ConnOK, Fields
  <1>5. (Claims(k) <=> Claims(old)) /\ ~ Relays(k) /\ ~ Dials(k)
    BY <1>1, <1>2, <1>3 DEF Claims, Relays, Dials, Counts
  <1>6. Stage(k)
    BY <1>1, <1>2, <1>3, <1>5 DEF ConnOK, Stage, Counts, Early
  <1>7. Weaker(k, old)
    BY <1>3, <1>5 DEF Weaker
  <1> QED
    BY <1>1, <1>4, <1>6, <1>7, Weakened DEF ConnsInv, ConnOK

(* A connection that this node asks to close. *)
LEMMA Asked == ASSUME ConnsInv, NEW c \in Conns, conn[c].list # "none"
               PROVE  Sound([conn EXCEPT ![c] = disconnect_from_peer(@)], checks)
  <1>1. ConnOK(disconnect_from_peer(conn[c])) /\ Weaker(disconnect_from_peer(conn[c]), conn[c])
    BY ReadsOK, DisconnectOK
  <1> QED
    BY <1>1, Weakened DEF ConnsInv

(* The peer closes the connection, or agrees to close it. *)
LEMMA ClosingStep == ASSUME ConnsInv, NEW c \in Conns, on_closing_connection_message(c)
                     PROVE  ConnsInv'
  <1> DEFINE old == conn[c]
             k == [old EXCEPT !.they_close = TRUE]
  <1>0. checks' \in {checks, checks + 1} /\ checks' = checks
    BY DEF on_closing_connection_message
  <1>1. /\ old.list # "none"
        /\ conn' = [conn EXCEPT ![c] = IF k.we_close THEN close_connection(k) ELSE k]
    BY DEF on_closing_connection_message, Reads
  <1>2. ConnOK(old)
    BY ReadsOK
  <1>3. /\ Same(k, old) /\ k.node_id = old.node_id /\ k.socket = old.socket
        /\ k.our = old.our /\ k.their = old.their /\ k.next = old.next
    BY <1>2 DEF ConnOK, Fields, Same
  <1> HIDE DEF k
  <1>4. Fields(k)
    BY <1>1, <1>2, <1>3 DEF ConnOK, Fields, Same
  <1>5. (Claims(k) <=> Claims(old)) /\ (Relays(k) <=> Relays(old)) /\ (Dials(k) <=> Dials(old))
    BY <1>3 DEF Claims, Relays, Dials, Counts, Same
  <1>6. Stage(k)
    BY <1>2, <1>3, <1>5 DEF ConnOK, Stage, Same, Counts, Early
  <1>7. ConnOK(k) /\ Weaker(k, old)
    BY <1>3, <1>4, <1>5, <1>6 DEF ConnOK, Weaker, Same
  <1>8. CASE k.we_close
    <2>1. old.list \in {"closing", "terminating"} /\ old.remote # None
      BY <1>1, <1>2, <1>3, <1>8 DEF ConnOK, Fields, Stage, Counts, Same
    <2>2. ConnOK(close_connection(k)) /\ Weaker(close_connection(k), old)
      BY <1>2, <1>3, <2>1, CloseOK DEF Same
    <2>3. conn' = [conn EXCEPT ![c] = close_connection(k)]
      BY <1>1, <1>8
    <2> QED
      BY <1>0, <2>2, <2>3, Weakened DEF ConnsInv
  <1>9. CASE ~ k.we_close
    <2>1. conn' = [conn EXCEPT ![c] = k]
      BY <1>1, <1>9
    <2> QED
      BY <1>0, <1>7, <2>1, Weakened DEF ConnsInv
  <1> QED
    BY <1>8, <1>9

(* Without its check a connection holds no more than before, and no other  *)
(* connection relays if this one did and there was one check only. *)
LEMMA Cleared == ASSUME ConnsInv, NEW c \in Conns, conn[c].list # "none"
                 PROVE  Sound([conn EXCEPT ![c].check = None], checks)
  <1> DEFINE old == conn[c]
             k == [old EXCEPT !.check = None]
  <1>1. ConnOK(old)
    BY ReadsOK
  <1>2. /\ DOMAIN k = DOMAIN old /\ k.list = old.list /\ k.dir = old.dir /\ k.remote = old.remote
        /\ k.node_id = old.node_id /\ k.socket = old.socket /\ k.our = old.our /\ k.their = old.their
        /\ k.next = old.next /\ k.we_close = old.we_close /\ k.check = None
        /\ k.complete = old.complete
    BY <1>1 DEF ConnOK, Fields
  <1>3. [conn EXCEPT ![c].check = None] = [conn EXCEPT ![c] = k]
    BY DEF ConnsInv, Sound
  <1> HIDE DEF k
  <1>4. Fields(k)
    BY <1>1, <1>2 DEF ConnOK, Fields
  <1>5. (Claims(k) <=> Claims(old)) /\ ~ Relays(k) /\ (Dials(k) <=> Dials(old))
    BY <1>2 DEF Claims, Relays, Dials, Counts
  <1>6. Stage(k)
    BY <1>1, <1>2, <1>5 DEF ConnOK, Stage, Counts, Early
  <1>7. Weaker(k, old)
    BY <1>2, <1>5 DEF Weaker
  <1> QED
    BY <1>3, <1>4, <1>6, <1>7, Weakened DEF ConnsInv, ConnOK

(* A check that one connection gives up goes to one other at most. *)
LEMMA PassedOn ==
  ASSUME ConnsInv, NEW c \in Conns, Relays(conn[c]),
         NEW k, ~ Relays(k), NEW conns, conns = [conn EXCEPT ![c] = k], Sound(conns, checks),
         forward_firewall_check_to_next_available_peer(conns, conn[c].check)
  PROVE  Sound(conn', checks)
  <1> DEFINE check == conn[c].check
  <1>1. /\ check.kind = "relay" /\ check.requester # None
        /\ DOMAIN check = {"kind", "requester", "tested"}
    BY ReadsOK DEF Relays, ConnOK, Stage
  <1>2. checks \in Nat /\ checks # 0
    BY DEF ConnsInv, Sound
  <1>3. checks >= 2 \/ \A d \in Conns : ~ Relays(conns[d])
    <2> SUFFICES ASSUME ~ (checks >= 2), NEW d \in Conns PROVE ~ Relays(conns[d])
      OBVIOUS
    <2>1. CASE d = c
      BY <2>1 DEF ConnsInv, Sound
    <2>2. CASE d # c
      <3>1. conns[d] = conn[d] /\ Apart(conn[c], conn[d], checks)
        BY <2>2 DEF ConnsInv, Sound
      <3> QED
        BY <3>1 DEF Apart
    <2> QED
      BY <2>1, <2>2
  <1>4. checks >= 1
    BY <1>2
  <1> HIDE DEF check
  <1>5. Sound(conn', checks)
    BY <1>1, <1>3, <1>4, Forwarded DEF check
  <1> QED
    BY <1>5

(* The answer to a check ends it, or sends it to another connection. *)
LEMMA ReplyStep == ASSUME ConnsInv, NEW c \in Conns, NEW r, on_check_firewall_reply_message(c, r)
                   PROVE  ConnsInv'
  <1> DEFINE check == conn[c].check
             cleared == [conn EXCEPT ![c].check = None]
             k == [conn[c] EXCEPT !.check = None]
  <1>1. /\ conn[c].list # "none" /\ check # None /\ checks' = checks
        /\ \/ conn' = cleared
           \/ check.kind = "relay" /\ forward_firewall_check_to_next_available_peer(cleared, check)
    BY DEF on_check_firewall_reply_message, Reads
  <1>2. Sound(cleared, checks)
    BY <1>1, Cleared
  <1>3. cleared = [conn EXCEPT ![c] = k]
    BY DEF ConnsInv, Sound
  <1>4. ~ Relays(k)
    BY ReadsOK DEF Relays, ConnOK, Fields
  <1> HIDE DEF cleared, k
  <1>5. CASE conn' = cleared
    BY <1>1, <1>2, <1>5 DEF ConnsInv
  <1>6. CASE check.kind = "relay" /\ forward_firewall_check_to_next_available_peer(cleared, check)
    <2>1. Relays(conn[c])
      BY <1>1, <1>6 DEF Relays
    <2>2. Sound(conn', checks)
      BY <1>2, <1>3, <1>4, <1>6, <2>1, PassedOn
    <2> QED
      BY <1>1, <2>2 DEF ConnsInv
  <1> QED
    BY <1>1, <1>5, <1>6

(* When a connection ends, the check that it relayed goes on. *)
LEMMA ClosedStep == ASSUME ConnsInv, NEW c \in Conns, on_connection_closed(c)
                    PROVE  ConnsInv'
  <1> DEFINE check == conn[c].check
             gone == [conn EXCEPT ![c] = NoConn]
  <1>1. /\ checks' = checks
        /\ \/ conn' = gone
           \/ /\ check # None /\ check.kind = "relay"
              /\ forward_firewall_check_to_next_available_peer(gone, check)
    BY DEF on_connection_closed
  <1>2. Sound(gone, checks)
    BY Ended
  <1> HIDE DEF gone
  <1>3. CASE conn' = gone
    BY <1>1, <1>2, <1>3 DEF ConnsInv
  <1>4. CASE /\ check # None /\ check.kind = "relay"
             /\ forward_firewall_check_to_next_available_peer(gone, check)
    <2>1. Relays(conn[c])
      BY <1>4 DEF Relays
    <2>2. Sound(conn', checks)
      BY <1>2, <1>4, <2>1, NoConnOK, PassedOn DEF gone
    <2> QED
      BY <1>1, <2>2 DEF ConnsInv
  <1> QED
    BY <1>1, <1>3, <1>4

(* The loop that looks for inactive connections. *)
LEMMA TerminateStep == ASSUME ConnsInv, NEW c \in Conns, terminate_inactive_connections_loop(c)
                       PROVE  ConnsInv'
  <1>1. /\ conn[c].list # "none" /\ checks' = checks
        /\ \/ conn' = [conn EXCEPT ![c] = disconnect_from_peer(@)]
           \/ conn' = [conn EXCEPT ![c] = Terminated(conn[c])]
    BY DEF terminate_inactive_connections_loop
  <1>2. ConnOK(Terminated(conn[c])) /\ Weaker(Terminated(conn[c]), conn[c])
    BY <1>1, ReadsOK, TerminatedOK
  <1>3. Sound([conn EXCEPT ![c] = Terminated(conn[c])], checks)
    BY <1>2, Weakened DEF ConnsInv
  <1>4. Sound(conn', checks)
    BY <1>1, <1>3, Asked
  <1> QED
    BY <1>1, <1>4 DEF ConnsInv

(* One case for each action. *)
LEMMA ConnsStep == ConnsInv /\ PeersInv /\ [Next]_vars => ConnsInv'
  <1> SUFFICES ASSUME ConnsInv, PeersInv, [Next]_vars PROVE ConnsInv'
    OBVIOUS
  <1>1. ASSUME NEW c \in Conns, connect_to_task_failed(c) PROVE ConnsInv'
    <2>1. conn' = [conn EXCEPT ![c] = NoConn] /\ checks' = checks
      BY <1>1 DEF connect_to_task_failed
    <2> QED
      BY <2>1, Ended DEF ConnsInv
  <1>2. ASSUME NEW c \in Conns, on_unexpected_hello_message(c) PROVE ConnsInv'
    <2>1. /\ conn' = [conn EXCEPT ![c] = disconnect_from_peer(@)] /\ checks' = checks
          /\ conn[c].list # "none"
      BY <1>2 DEF on_unexpected_hello_message, Reads
    <2> QED
      BY <2>1, Asked DEF ConnsInv
  <1>3. ASSUME NEW c \in Conns, Handshake(c) PROVE ConnsInv'
    BY <1>3, HelloStep, AcceptedMessageStep, RejectedMessageStep, AddressStep, FetchStep DEF Handshake
  <1>4. ASSUME NEW c \in Conns, Ends(c) PROVE ConnsInv'
    BY <1>4, ClosedStep, ClosingStep, TerminateStep DEF Ends
  <1>5. CASE UNCHANGED vars
    BY <1>5 DEF vars, ConnsInv
  <1>6. CASE Next
    BY <1>1, <1>2, <1>3, <1>4, <1>6, ConnectStep, AcceptStep, ConnectedStep, AcceptedStep,
       RequestStep, CheckStep, ReplyStep DEF Next
  <1> QED
    BY <1>5, <1>6

-----------------------------------------------------------------------------
(* The database of potential peers.                                        *)

(* Updates of the database keep its records well formed. *)
LEMMA DbKept ==
  ASSUME NEW db, DbOK(db), NEW n \in Nodes \cup {Self}, NEW d \in Dispositions,
         NEW S \in SUBSET (Nodes \cup {Self})
  PROVE  DbOK(WithDisposition(db, n, d)) /\ DbOK(Known(db, S)) /\ DbOK(Marked(db, n, d))
  BY DEF DbOK, WithDisposition, Known, Marked, Dispositions

(* A connection in use has an endpoint. *)
LEMMA RemoteKnown == ASSUME ConnsInv, NEW c \in Conns, conn[c].list # "none" \/ conn[c].socket = "negotiating"
                     PROVE  conn[c].remote \in Nodes \cup {Self}
  BY ReadsOK DEF ConnOK, Fields, NoConn

(* Whatever a step writes into the database is a record of a node. *)
LEMMA DbStep == ASSUME ConnsInv, PeersInv, Next PROVE DbOK(_potential_peer_db')
  <1> DEFINE db == _potential_peer_db
  <1>0. DbOK(db)
    BY DEF PeersInv
  <1>1. CASE p2p_network_connect_loop
    <2> DEFINE new(to) == [m \in DOMAIN db \cup to |-> IF m \in to THEN "failed" ELSE db[m]]
    <2>1. \E to \in SUBSET (DOMAIN db \cup _add_once_node_list) : db' = new(to)
      <3> DEFINE once == {n \in _add_once_node_list : ~ is_connection_to_endpoint_in_progress(n)}
      <3>1. \E chosen \in SUBSET DOMAIN db : db' = new(chosen \cup once)
        BY <1>1, Zenon DEF p2p_network_connect_loop
      <3> QED
        BY <3>1
    <2> QED
      BY <1>0, <2>1 DEF DbOK, PeersInv, Dispositions
  <1>2. ASSUME NEW c \in Conns, connect_to_task_connected(c) \/ connect_to_task_failed(c)
        PROVE  DbOK(db')
    <2>1. \/ db' = db
          \/ \E d \in Dispositions : db' = WithDisposition(db, conn[c].remote, d)
      BY <1>2 DEF connect_to_task_connected, connect_to_task_failed, Dispositions
    <2>2. conn[c].remote \in Nodes \cup {Self}
      BY <1>2, RemoteKnown DEF connect_to_task_connected, connect_to_task_failed
    <2> QED
      BY <1>0, <2>1, <2>2, DbKept
  <1>3. ASSUME NEW c \in Conns, on_hello_message(c) PROVE DbOK(db')
    <2>1. db' = db \/ db' = Known(db, {conn[c].remote} \ Firewalled)
      BY <1>3 DEF on_hello_message
    <2>2. {conn[c].remote} \ Firewalled \in SUBSET (Nodes \cup {Self})
      BY <1>3, RemoteKnown DEF on_hello_message, Reads
    <2> QED
      BY <1>0, <2>1, <2>2, DbKept DEF Dispositions
  <1>4. ASSUME NEW c \in Conns, on_connection_rejected_message(c) PROVE DbOK(db')
    <2>1. conn[c].remote \in Nodes \cup {Self}
      BY <1>4, RemoteKnown DEF on_connection_rejected_message, Reads
    <2>2. \/ \E S : db' = [m \in DOMAIN db \ S |-> db[m]]
          \/ db' = db
          \/ db' = Marked(db, conn[c].remote, "rejected")
      BY <1>4 DEF on_connection_rejected_message
    <2>3. CASE \E S : db' = [m \in DOMAIN db \ S |-> db[m]]
      BY <1>0, <2>3 DEF DbOK
    <2>4. "rejected" \in Dispositions
      BY DEF Dispositions
    <2> QED
      BY <1>0, <2>1, <2>2, <2>3, <2>4, DbKept
  <1>5. ASSUME NEW c \in Conns, on_address_message(c) PROVE DbOK(db')
    <2> DEFINE known == Known(db, Gossip \ Firewalled)
    <2>1. conn[c].remote \in Nodes \cup {Self} /\ "succeeded" \in Dispositions
      BY <1>5, RemoteKnown DEF on_address_message, Reads, Dispositions
    <2>2. db' = known \/ db' = Marked(known, conn[c].remote, "succeeded")
      BY <1>5 DEF on_address_message
    <2>3. Gossip \ Firewalled \in SUBSET (Nodes \cup {Self})
      BY ConnectionAssumption
    <2>4. DbOK(known)
      BY <1>0, <2>1, <2>3, DbKept
    <2> HIDE DEF known
    <2> QED
      BY <2>1, <2>2, <2>3, <2>4, DbKept
  <1>9. ASSUME NEW c \in Conns, on_fetch_blockchain_item_ids_message(c) PROVE DbOK(db')
    <2> DEFINE n == IF conn[c].node_id = None THEN Self ELSE conn[c].remote
    <2>1. db' = WithDisposition(db, n, "succeeded")
      BY <1>9 DEF on_fetch_blockchain_item_ids_message
    <2>2. n \in Nodes \cup {Self} /\ "succeeded" \in Dispositions
      BY <1>9, RemoteKnown DEF on_fetch_blockchain_item_ids_message, Reads, Dispositions
    <2> QED
      BY <1>0, <2>1, <2>2, DbKept
  <1>6. ASSUME NEW c \in Conns, NEW r, on_check_firewall_reply_message(c, r) PROVE DbOK(db')
    <2>1. db' = db \/ db' = Known(db, {conn[c].remote} \ Firewalled)
      BY <1>6 DEF on_check_firewall_reply_message
    <2>2. {conn[c].remote} \ Firewalled \in SUBSET (Nodes \cup {Self})
      BY <1>6, RemoteKnown DEF on_check_firewall_reply_message, Reads
    <2> QED
      BY <1>0, <2>1, <2>2, DbKept DEF Dispositions
  <1>7. ASSUME NEW n, accept_loop(n) PROVE db' = db
    BY <1>7 DEF accept_loop
  <1>8. ASSUME NEW c, \/ \E ok \in BOOLEAN : accept_connection_task(c, ok)
                     \/ on_connection_accepted_message(c) \/ on_unexpected_hello_message(c)
                     \/ Ends(c) \/ on_check_firewall_request(c)
                     \/ \E n \in Nodes : on_check_firewall_message(c, n)
        PROVE  db' = db
    BY <1>8 DEF accept_connection_task, on_connection_accepted_message, on_unexpected_hello_message,
       Ends, on_connection_closed, on_closing_connection_message, terminate_inactive_connections_loop,
       on_check_firewall_request, on_check_firewall_message
  <1> QED
    BY <1>0, <1>1, <1>2, <1>3, <1>4, <1>5, <1>6, <1>7, <1>8, <1>9 DEF Next, Handshake

(* The connect loop and the answers to this node's own checks. *)
LEMMA PeersStep == ConnsInv /\ PeersInv /\ [Next]_vars => PeersInv'
  <1> SUFFICES ASSUME ConnsInv, PeersInv, [Next]_vars PROVE PeersInv'
    OBVIOUS
  <1>1. CASE UNCHANGED vars
    BY <1>1 DEF vars, PeersInv
  <1>2. CASE Next
    <2>1. CASE p2p_network_connect_loop
      <3>1. _add_once_node_list' = {} /\ _is_firewalled' = _is_firewalled
        BY <2>1 DEF p2p_network_connect_loop
      <3>2. connect_loop' \in {"retry", "forever"}
        BY <2>1 DEF p2p_network_connect_loop
      <3> QED
        BY <1>2, <3>1, <3>2, DbStep DEF PeersInv
    <2>2. ASSUME NEW c \in Conns, NEW r, on_check_firewall_reply_message(c, r) PROVE PeersInv'
      <3>1. _add_once_node_list' = _add_once_node_list /\ connect_loop' = connect_loop
        BY <2>2 DEF on_check_firewall_reply_message
      <3>2. _is_firewalled' = _is_firewalled \/ _is_firewalled' = FALSE \/ _is_firewalled' = TRUE
        BY <2>2, Zenon DEF on_check_firewall_reply_message
      <3>3. _is_firewalled' \in BOOLEAN \cup {None}
        BY <3>2, Zenon DEF PeersInv
      <3> QED
        BY <1>2, <3>1, <3>3, DbStep DEF PeersInv
    <2>3. ASSUME UNCHANGED <<_add_once_node_list, connect_loop, _is_firewalled>> PROVE PeersInv'
      BY <1>2, <2>3, DbStep DEF PeersInv
    <2>4. ASSUME NEW n, accept_loop(n) PROVE PeersInv'
      BY <2>3, <2>4 DEF accept_loop
    <2>5. ASSUME NEW c, \/ connect_to_task_connected(c) \/ connect_to_task_failed(c)
                       \/ \E ok \in BOOLEAN : accept_connection_task(c, ok)
                       \/ on_unexpected_hello_message(c) \/ on_check_firewall_request(c)
                       \/ \E n \in Nodes : on_check_firewall_message(c, n)
          PROVE  PeersInv'
      BY <2>3, <2>5 DEF connect_to_task_connected, connect_to_task_failed, accept_connection_task,
         on_unexpected_hello_message, on_check_firewall_request, on_check_firewall_message
    <2>6. ASSUME NEW c, Handshake(c) PROVE PeersInv'
      BY <2>3, <2>6 DEF Handshake, on_hello_message, on_connection_accepted_message,
         on_connection_rejected_message, on_address_message, on_fetch_blockchain_item_ids_message
    <2>7. ASSUME NEW c, Ends(c) PROVE PeersInv'
      BY <2>3, <2>7 DEF Ends, on_connection_closed, on_closing_connection_message,
         terminate_inactive_connections_loop
    <2> QED
      BY <1>2, <2>1, <2>2, <2>4, <2>5, <2>6, <2>7 DEF Next
  <1> QED
    BY <1>1, <1>2

-----------------------------------------------------------------------------
(* Before the first pass of the connect loop no object is in use. *)
LEMMA InitOK == Init => ConnsInv /\ PeersInv
  <1> SUFFICES ASSUME Init PROVE ConnsInv /\ PeersInv
    OBVIOUS
  <1>1. ConnsInv
    <2>1. conn = [c \in Conns |-> conn[c]] /\ \A c \in Conns : conn[c] = NoConn
      BY DEF Init
    <2>2. checks = 0
      BY DEF Init
    <2> QED
      BY <2>1, <2>2, NoConnOK DEF ConnsInv, Sound, Apart, Claims, Dials
  <1>2. DbOK(_potential_peer_db) /\ _add_once_node_list \subseteq Nodes \cup {Self}
    BY ConnectionAssumption DEF Init, DbOK, Dispositions
  <1>3. _is_firewalled \in BOOLEAN \cup {None} /\ connect_loop \in {"retry", "forever"}
    BY Zenon DEF Init
  <1> QED
    BY <1>1, <1>2, <1>3 DEF PeersInv

(* The invariants say what ConnectionsSound says. *)
LEMMA InvSound == ConnsInv /\ PeersInv => ConnectionsSound
  <1> SUFFICES ASSUME ConnsInv, PeersInv PROVE ConnectionsSound
    OBVIOUS
  <1>0. \A c \in Conns : ConnOK(conn[c])
    BY DEF ConnsInv, Sound
  <1>1. TypeOK
    <2>1. \A c \in Conns : Fields(conn[c])
      BY <1>0 DEF ConnOK
    <2> QED
      BY <2>1 DEF TypeOK, Fields, PeersInv, DbOK
  <1>2. ActiveAccepted
    BY <1>0 DEF ActiveAccepted, Accepted, On, ConnOK, Stage, Claims, Counts, Early
  <1>3. OneConnectionPerNode
    <2> SUFFICES ASSUME NEW c \in Conns, NEW d \in Conns, c # d, Claims(conn[c]), Claims(conn[d])
                 PROVE  conn[c].node_id # conn[d].node_id
      BY DEF OneConnectionPerNode, Connected, On, Claims, Counts
    <2> QED
      BY DEF ConnsInv, Sound, Apart
  <1>4. OneOutbound
    <2> SUFFICES ASSUME NEW c \in Conns, NEW d \in Conns, c # d, Dials(conn[c]), Dials(conn[d])
                 PROVE  conn[c].remote # conn[d].remote
      BY DEF OneOutbound, Connected, On, Dials, Counts
    <2> QED
      BY DEF ConnsInv, Sound, Apart
  <1>5. ChecksRelayedOnce
    <2>1. \A c \in Conns : Relays(conn[c]) => conn[c].node_id # conn[c].check.requester
      BY <1>0 DEF ConnOK, Stage
    <2>2. \A c, d \in Conns : c # d /\ Relays(conn[c]) /\ Relays(conn[d]) => checks >= 2
      BY DEF ConnsInv, Sound, Apart
    <2> QED
      BY <2>1, <2>2 DEF ChecksRelayedOnce, Relays
  <1> QED
    BY <1>1, <1>2, <1>3, <1>4, <1>5 DEF ConnectionsSound

(* Whatever connects, rejects, times out, disconnects, reconnects and asks *)
(* to synchronise, in any order: a connection that this node made, or      *)
(* whose negotiation is complete, is active only when both sides have      *)
(* accepted it; this node accepts one connection per node at a time, on    *)
(* whichever list it is; there is one outbound connection per endpoint,    *)
(* and a firewall check has one helper (node.cpp's handshake handlers,     *)
(* both ways to the active list, and the connection loops). *)
THEOREM ConnectionsSoundTheorem == Spec => []ConnectionsSound
  <1> QED
    BY InitOK, ConnsStep, PeersStep, InvSound, PTL DEF Spec
=============================================================================
