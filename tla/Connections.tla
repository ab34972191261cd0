---------------------------- MODULE Connections -----------------------------
(***************************************************************************)
(* Which peers a node believes it is connected to: the ConnectionManager   *)
(* (network/connection_manager.rs) and the connection events of the actor  *)
(* (network/swarm.rs, handle_swarm_event), on both ends of every link.     *)
(*                                                                         *)
(* The transport is libp2p's: a connection is offered to the listener, is  *)
(* established at either end in any order, and closes at both ends once    *)
(* one of them, or the network, has shut it.                               *)
(***************************************************************************)
EXTENDS Naturals, FiniteSets

CONSTANTS
    Nodes,          \* numbers: the order of the peer identities' bytes
    Conns,          \* connection identifiers
    Routes,         \* the addresses both ends see: [dialer, listener]
    NoPrefix,       \* an address without an IP
    NoLink,         \* a connection that was never dialed
    NoAddress,      \* a peer that is not tracked
    MaxPerPrefix,   \* MAX_CONNECTIONS_PER_IP_PREFIX
    MaxRelayed,     \* MAX_RELAY_ONLY_CONNECTIONS
    MaxPerPeer,     \* MAX_CONNECTIONS_PER_PEER
    MaxDials,       \* bound: how often a node dials another
    Upsets          \* bound: the disturbances of a run, see UpsetKinds

UpsetKinds == {"break", "block", "deny"}

Addresses == {r.dialer : r \in Routes} \cup {r.listener : r \in Routes}

Links == [from : Nodes, to : Nodes, route : Routes]

ASSUME ConnectionsAssumption ==
    /\ Nodes \subseteq Nat
    /\ IsFiniteSet(Nodes) /\ IsFiniteSet(Conns)
    /\ \A a \in Addresses : a.relayed \in BOOLEAN
    /\ NoAddress \notin Addresses /\ NoLink \notin Links
    /\ MaxPerPrefix \in Nat /\ MaxRelayed \in Nat
    /\ MaxPerPeer \in Nat \ {0}
    /\ MaxDials \in Nat
    /\ Upsets \subseteq UpsetKinds

VARIABLES
    link,       \* who dialed whom, over which route
    stage,      \* of each connection, at each of its ends
    shut,       \* connections that an end or the network has closed
    count,      \* connection_count of each tracked peer, 0 where untracked
    address,    \* the address of the peer's first connection
    denied,     \* denied_connections: refused before they were established
    blocked,    \* blocked peers
    counted,    \* the connections that ConnectionManager.connected was told of
    dropped     \* history: the connections an end closed as a duplicate

linkVars == <<link, stage, shut>>
tableVars == <<count, address, counted>>
vars == <<linkVars, tableVars, denied, blocked, dropped>>

Stages == {"none", "offered", "pending", "up", "gone"}

TypeOK ==
    /\ link \in [Conns -> Links \cup {NoLink}]
    /\ stage \in [Conns -> [Nodes -> Stages]]
    /\ shut \subseteq Conns
    /\ count \in [Nodes -> [Nodes -> Nat]]
    /\ address \in [Nodes -> [Nodes -> Addresses \cup {NoAddress}]]
    /\ denied \in [Nodes -> SUBSET Conns]
    /\ blocked \in [Nodes -> SUBSET Nodes]
    /\ counted \in [Nodes -> SUBSET Conns]
    /\ dropped \subseteq Conns

Init ==
    /\ link = [c \in Conns |-> NoLink]
    /\ stage = [c \in Conns |-> [n \in Nodes |-> "none"]]
    /\ shut = {}
    /\ count = [n \in Nodes |-> [p \in Nodes |-> 0]]
    /\ address = [n \in Nodes |-> [p \in Nodes |-> NoAddress]]
    /\ denied = [n \in Nodes |-> {}]
    /\ blocked = [n \in Nodes |-> {}]
    /\ counted = [n \in Nodes |-> {}]
    /\ dropped = {}

-----------------------------------------------------------------------------
Dialed == {c \in Conns : link[c] # NoLink}
Ends(c) == {link[c].from, link[c].to}
PeerOf(n, c) == IF link[c].from = n THEN link[c].to ELSE link[c].from
IsDialer(n, c) == link[c].from = n

\* The multiaddress of the connection as this end sees it.
AddressOf(n, c) == IF IsDialer(n, c) THEN link[c].route.listener
                                     ELSE link[c].route.dialer

\* The connections of n that were established with p and not yet closed.
Up(n, p) == {c \in Dialed : n \in Ends(c) /\ PeerOf(n, c) = p /\ stage[c][n] = "up"}

Tracked(n) == {p \in Nodes : count[n][p] > 0}

\* Libp2p's side of it: dials, offers, failures, breaks.

Dial(n, p, r) ==
    /\ n # p
    /\ Cardinality({c \in Dialed : link[c].from = n /\ link[c].to = p}) < MaxDials
    /\ \E c \in Conns \ Dialed :
        /\ link' = [link EXCEPT ![c] = [from |-> n, to |-> p, route |-> r]]
        /\ stage' = [stage EXCEPT ![c] = [@ EXCEPT ![n] = "pending", ![p] = "offered"]]
    /\ UNCHANGED <<shut, tableVars, denied, blocked, dropped>>

\* The IncomingConnection event.  When the attempts from the source are too
\* many the connection is noted as denied; close_connection has no effect on
\* one that is not established.
IncomingConnection(n, c) ==
    /\ stage[c][n] = "offered"
    /\ stage' = [stage EXCEPT ![c][n] = "pending"]
    /\ \/ UNCHANGED denied
       \/ "deny" \in Upsets /\ denied' = [denied EXCEPT ![n] = @ \cup {c}]
    /\ UNCHANGED <<link, shut, tableVars, blocked, dropped>>

\* Mistake: a failed connection stays in the table of denied ones.
FailsDenied(n, c) ==
    /\ stage[c][n] = "pending"
    /\ \/ c \in shut
       \/ Cardinality(Up(n, PeerOf(n, c))) >= MaxPerPeer
       \/ "break" \in Upsets
    /\ stage' = [stage EXCEPT ![c][n] = "gone"]
    /\ shut' = shut \cup {c}
    /\ UNCHANGED <<link, tableVars, denied, blocked, dropped>>

\* The connection is not established at this end: IncomingConnectionError or
\* OutgoingConnectionError.
Fails(n, c) ==
    /\ stage[c][n] = "pending"
    /\ \/ c \in shut
       \/ Cardinality(Up(n, PeerOf(n, c))) >= MaxPerPeer
       \/ "break" \in Upsets
    /\ stage' = [stage EXCEPT ![c][n] = "gone"]
    /\ shut' = shut \cup {c}
    /\ denied' = [denied EXCEPT ![n] = @ \ {c}]
    /\ UNCHANGED <<link, tableVars, blocked, dropped>>

Break(c) ==
    /\ "break" \in Upsets
    /\ c \in Dialed
    /\ shut' = shut \cup {c}
    /\ UNCHANGED <<link, stage, tableVars, denied, blocked, dropped>>

-----------------------------------------------------------------------------
(* ConnectionEstablished: one action for each way the handler ends.         *)

Establish(n, c) ==
    /\ stage[c][n] = "pending"
    /\ Cardinality(Up(n, PeerOf(n, c))) < MaxPerPeer
    /\ stage' = [stage EXCEPT ![c][n] = "up"]
    /\ UNCHANGED <<link, blocked>>

\* The tracked peers of n under the condition P of their address.
TrackedAt(n, S) == {p \in Tracked(n) : address[n][p] \in S}

CanAccept(n, a) ==
    /\ a.relayed => Cardinality(TrackedAt(n, {b \in Addresses : b.relayed})) < MaxRelayed
    /\ IF a.prefix = NoPrefix THEN a.relayed
       ELSE Cardinality(TrackedAt(n, {b \in Addresses : b.prefix = a.prefix})) < MaxPerPrefix

\* Mistake: the tie-break closes the connection this end dialed.
IsOwnDuplicate(n, c) ==
    /\ Up(n, PeerOf(n, c)) # {}
    /\ IsDialer(n, c)

\* Of two connections between a pair the one dialed by the smaller identity
\* is preferred; only a connection that comes second is ever closed for it.
IsUnwanted(n, c) ==
    /\ Up(n, PeerOf(n, c)) # {}
    /\ IsDialer(n, c) # (n < PeerOf(n, c))

EstablishDenied(n, c) ==
    /\ Establish(n, c)
    /\ c \in denied[n]
    /\ denied' = [denied EXCEPT ![n] = @ \ {c}]
    /\ shut' = shut \cup {c}
    /\ UNCHANGED <<tableVars, dropped>>

Allowed(n, c) == c \notin denied[n] /\ PeerOf(n, c) \notin blocked[n]

\* disconnect_peer_id closes every connection of the peer.
EstablishBlocked(n, c) ==
    /\ Establish(n, c)
    /\ c \notin denied[n] /\ PeerOf(n, c) \in blocked[n]
    /\ shut' = shut \cup Up(n, PeerOf(n, c)) \cup {c}
    /\ UNCHANGED <<tableVars, denied, dropped>>

EstablishRefused(n, c) ==
    /\ Establish(n, c)
    /\ Allowed(n, c)
    /\ \/ ~CanAccept(n, AddressOf(n, c)) /\ UNCHANGED dropped
       \/ /\ CanAccept(n, AddressOf(n, c)) /\ IsUnwanted(n, c)
          /\ dropped' = dropped \cup {c}
    /\ shut' = shut \cup {c}
    /\ UNCHANGED <<tableVars, denied>>

\* ConnectionManager.connected.
Connected(n, p, a) ==
    /\ count' = [count EXCEPT ![n][p] = @ + 1]
    /\ address' = [address EXCEPT ![n][p] = IF count[n][p] = 0 THEN a ELSE @]

\* Mistake: the limits are not looked at for a second connection.
CountAny(n, c) ==
    /\ Establish(n, c)
    /\ Allowed(n, c)
    /\ Connected(n, PeerOf(n, c), AddressOf(n, c))
    /\ counted' = [counted EXCEPT ![n] = @ \cup {c}]
    /\ UNCHANGED <<shut, denied, dropped>>

EstablishCounted(n, c) ==
    /\ Establish(n, c)
    /\ Allowed(n, c)
    /\ CanAccept(n, AddressOf(n, c)) /\ ~IsUnwanted(n, c)
    /\ Connected(n, PeerOf(n, c), AddressOf(n, c))
    /\ counted' = [counted EXCEPT ![n] = @ \cup {c}]
    /\ UNCHANGED <<shut, denied, dropped>>

-----------------------------------------------------------------------------
\* Mistake: a peer leaves the table when its count was zero before.
DisconnectedLate(n, p) ==
    /\ count' = [count EXCEPT ![n][p] = IF @ <= 1 THEN @ ELSE @ - 1]
    /\ UNCHANGED address

\* ConnectionManager.disconnected: the saturating decrement, for a connection
\* that was counted and for one that was not.
Disconnected(n, p) ==
    /\ count' = [count EXCEPT ![n][p] = IF @ = 0 THEN 0 ELSE @ - 1]
    /\ address' = [address EXCEPT ![n][p] = IF count[n][p] <= 1 THEN NoAddress ELSE @]

\* The ConnectionClosed event.
ConnectionClosed(n, c) ==
    /\ stage[c][n] = "up" /\ c \in shut
    /\ stage' = [stage EXCEPT ![c][n] = "gone"]
    /\ denied' = [denied EXCEPT ![n] = @ \ {c}]
    /\ Disconnected(n, PeerOf(n, c))
    /\ UNCHANGED <<link, shut, blocked, counted, dropped>>

\* The Disconnect command, the Identify timeout, a violation.
Disconnect(n, p) ==
    /\ "break" \in Upsets
    /\ Up(n, p) # {}
    /\ shut' = shut \cup Up(n, p)
    /\ UNCHANGED <<link, stage, tableVars, denied, blocked, dropped>>

\* A peer is blocked, with or without closing its connections.
Block(n, p) ==
    /\ "block" \in Upsets
    /\ p \notin blocked[n] /\ Up(n, p) # {}
    /\ blocked' = [blocked EXCEPT ![n] = @ \cup {p}]
    /\ shut' \in {shut, shut \cup Up(n, p)}
    /\ UNCHANGED <<link, stage, tableVars, denied, dropped>>

BlockExpires(n, p) ==
    /\ p \in blocked[n]
    /\ blocked' = [blocked EXCEPT ![n] = @ \ {p}]
    /\ UNCHANGED <<linkVars, tableVars, denied, dropped>>

\* DENIED_CONNECTION_TTL, or the bound of the table.
ForgetDenied(n, c) ==
    /\ c \in denied[n]
    /\ denied' = [denied EXCEPT ![n] = @ \ {c}]
    /\ UNCHANGED <<linkVars, tableVars, blocked, dropped>>

-----------------------------------------------------------------------------
AtEnd(n, c) ==
    \/ IncomingConnection(n, c)
    \/ Fails(n, c)
    \/ EstablishDenied(n, c)
    \/ EstablishBlocked(n, c)
    \/ EstablishRefused(n, c)
    \/ EstablishCounted(n, c)
    \/ ConnectionClosed(n, c)
    \/ ForgetDenied(n, c)

Next ==
    \/ \E n, p \in Nodes, r \in Routes : Dial(n, p, r)
    \/ \E c \in Dialed : \E n \in Ends(c) : AtEnd(n, c)
    \/ \E c \in Conns : Break(c)
    \/ \E n, p \in Nodes : Disconnect(n, p) \/ Block(n, p) \/ BlockExpires(n, p)

Spec == Init /\ [][Next]_vars

-----------------------------------------------------------------------------
(* Properties.                                                               *)

Between(n, p) == {c \in Dialed : Ends(c) = {n, p}}

\* No ghosts: a peer never counts more connections than it has live ones that
\* were counted, so one whose connections are all closed leaves the table and
\* its synchronisation session ends with it.
NoGhost ==
    \A n, p \in Nodes : count[n][p] <= Cardinality(Up(n, p) \cap counted[n])

\* The diversity limits hold in the table at every moment, in whatever order
\* connections come and go: no IP prefix and no relay fills it.
LimitsHold ==
    \A n \in Nodes :
        /\ Cardinality(TrackedAt(n, {b \in Addresses : b.relayed})) <= MaxRelayed
        /\ \A a \in Addresses : a.prefix # NoPrefix =>
            Cardinality(TrackedAt(n, {b \in Addresses : b.prefix = a.prefix}))
                <= MaxPerPrefix

\* The table of connections: its shape and its limits.
TableInv == TypeOK /\ LimitsHold

\* The table of denied connections holds no dead entry: each is of a
\* connection that may still be established.
DeniedIsPending ==
    \A n \in Nodes : \A c \in denied[n] : stage[c][n] = "pending"

\* Two nodes that dial each other at the same time do not both close the
\* other's connection: the tie-break leaves a pair at least one of its
\* connections, in whatever order they come up at either end and whatever else
\* is refused, breaks or is blocked meanwhile.  The one exception is a pair
\* whose connections were all dialed by the larger identity, two or more, as
\* it dials every address of a peer at once: each end keeps the one that came
\* up first there and closes the others.
StaysLinked ==
    \A n, p \in Nodes :
        Between(n, p) # {} /\ Between(n, p) \subseteq dropped =>
            /\ \A c \in Between(n, p) : link[c].from > link[c].to
            /\ \E c, d \in Between(n, p) : c # d

\* A peer with a live connection that was counted is in the table.  The
\* topology window says "no authenticated peers connected" when the table is
\* empty (topology.rs:377-381).
LiveIsTracked ==
    \A n, p \in Nodes : (Up(n, p) \cap counted[n]) \ shut # {} => p \in Tracked(n)
=============================================================================
