--------------------------- MODULE Connections_proofs ---------------------------
(***************************************************************************)
(* What every node's table of peers keeps, for any nodes, connections,     *)
(* routes, limits, dials and disturbances.                                 *)
(***************************************************************************)
EXTENDS Connections, FiniteSetTheorems, TLAPS

\* A connection that was never dialed is nowhere.
FreshIsNowhere ==
    \A c \in Conns : link[c] = NoLink => \A n \in Nodes : stage[c][n] = "none"

\* The invariant of the tables of peers and of denied connections.
TableIsTrue ==
    /\ TypeOK /\ FreshIsNowhere
    /\ LimitsHold /\ NoGhost /\ DeniedIsPending

\* The live connections of n to p that were counted.
Live(n, p) == Up(n, p) \cap counted[n]

-----------------------------------------------------------------------------
(* Counting.                                                                 *)

\* The sets whose sizes the properties compare are finite.
LEMMA LiveFinite ==
    ASSUME NEW n, NEW p
    PROVE  /\ IsFiniteSet(Live(n, p)) /\ Cardinality(Live(n, p)) \in Nat
           /\ Live(n, p) \subseteq Conns
<1>1. Live(n, p) \subseteq Conns
  BY DEF Live, Up, Dialed
<1> QED
  BY <1>1, ConnectionsAssumption, FS_Subset, FS_CardinalityType

LEMMA TrackedFinite ==
    ASSUME NEW n, NEW S
    PROVE  /\ IsFiniteSet(TrackedAt(n, S)) /\ Cardinality(TrackedAt(n, S)) \in Nat
           /\ TrackedAt(n, S) \subseteq Nodes
<1>1. TrackedAt(n, S) \subseteq Nodes
  BY DEF TrackedAt, Tracked
<1> QED
  BY <1>1, ConnectionsAssumption, FS_Subset, FS_CardinalityType

\* Limits are not exceeded when no peer is added under any address.
LEMMA FewerTracked ==
    ASSUME LimitsHold,
           \A n \in Nodes, S \in SUBSET Addresses : TrackedAt(n, S)' \subseteq TrackedAt(n, S)
    PROVE  LimitsHold'
<1>1. ASSUME NEW n \in Nodes, NEW S \in SUBSET Addresses
      PROVE  /\ Cardinality(TrackedAt(n, S)') <= Cardinality(TrackedAt(n, S))
             /\ Cardinality(TrackedAt(n, S)) \in Nat
             /\ Cardinality(TrackedAt(n, S)') \in Nat
  BY TrackedFinite, FS_Subset, FS_CardinalityType
<1>2. ASSUME NEW n \in Nodes
      PROVE  Cardinality(TrackedAt(n, {b \in Addresses : b.relayed})') <= MaxRelayed
  <2> DEFINE S == {b \in Addresses : b.relayed}
  <2>1. S \in SUBSET Addresses
    OBVIOUS
  <2>2. Cardinality(TrackedAt(n, S)) <= MaxRelayed
    BY DEF LimitsHold
  <2> QED
    BY <1>1, <2>1, <2>2, ConnectionsAssumption
<1>3. ASSUME NEW n \in Nodes, NEW a \in Addresses, a.prefix # NoPrefix
      PROVE  Cardinality(TrackedAt(n, {b \in Addresses : b.prefix = a.prefix})') <= MaxPerPrefix
  <2> DEFINE S == {b \in Addresses : b.prefix = a.prefix}
  <2>1. S \in SUBSET Addresses
    OBVIOUS
  <2>2. Cardinality(TrackedAt(n, S)) <= MaxPerPrefix
    BY <1>3 DEF LimitsHold
  <2> QED
    BY <1>1, <2>1, <2>2, ConnectionsAssumption
<1> QED
  BY <1>2, <1>3 DEF LimitsHold

\* No ghost appears where counts stay and no live counted connection goes.
LEMMA MoreLive ==
    ASSUME NoGhost, TypeOK, UNCHANGED count,
           \A n, p \in Nodes : Live(n, p) \subseteq Live(n, p)'
    PROVE  NoGhost'
<1>1. ASSUME NEW n \in Nodes, NEW p \in Nodes
      PROVE  count'[n][p] <= Cardinality(Live(n, p)')
  <2>1. count[n][p] <= Cardinality(Live(n, p)) /\ count[n][p] \in Nat
    BY DEF NoGhost, Live, TypeOK
  <2>2. IsFiniteSet(Live(n, p)') /\ Cardinality(Live(n, p)') \in Nat
    <3>1. Live(n, p)' \subseteq Conns
      BY DEF Live, Up, Dialed
    <3> QED
      BY <3>1, ConnectionsAssumption, FS_Subset, FS_CardinalityType
  <2>3. Cardinality(Live(n, p)) <= Cardinality(Live(n, p)') /\ Cardinality(Live(n, p)) \in Nat
    BY <2>2, LiveFinite, FS_Subset
  <2> QED
    BY <2>1, <2>2, <2>3
<1> QED
  BY <1>1 DEF NoGhost, Live

-----------------------------------------------------------------------------
(* Types.                                                                    *)

LEMMA LinkType ==
    ASSUME TypeOK, NEW c \in Dialed
    PROVE  /\ c \in Conns /\ link[c] \in Links /\ Ends(c) \subseteq Nodes
           /\ \A n \in Nodes : PeerOf(n, c) \in Nodes /\ AddressOf(n, c) \in Addresses
<1>1. c \in Conns /\ link[c] \in Links
  BY DEF TypeOK, Dialed
<1>2. link[c].from \in Nodes /\ link[c].to \in Nodes /\ link[c].route \in Routes
  BY <1>1 DEF Links
<1> QED
  BY <1>1, <1>2 DEF Ends, PeerOf, AddressOf, Addresses

LEMMA DialType ==
    ASSUME TypeOK, NEW n \in Nodes, NEW p \in Nodes, NEW r \in Routes, Dial(n, p, r)
    PROVE  TypeOK'
<1>1. PICK c \in Conns \ Dialed :
        /\ link' = [link EXCEPT ![c] = [from |-> n, to |-> p, route |-> r]]
        /\ stage' = [stage EXCEPT ![c] = [@ EXCEPT ![n] = "pending", ![p] = "offered"]]
  BY DEF Dial
<1>2. link' \in [Conns -> Links \cup {NoLink}]
  BY <1>1 DEF TypeOK, Links
<1>3. stage' \in [Conns -> [Nodes -> Stages]]
  BY <1>1 DEF TypeOK, Stages
<1> QED
  BY <1>2, <1>3 DEF Dial, TypeOK, tableVars

LEMMA EndType ==
    ASSUME TypeOK, NEW c \in Dialed, NEW n \in Ends(c), AtEnd(n, c)
    PROVE  TypeOK'
<1>1. /\ c \in Conns /\ n \in Nodes /\ PeerOf(n, c) \in Nodes
      /\ AddressOf(n, c) \in Addresses
  BY LinkType
<1>2. \A p \in Nodes : Up(n, p) \subseteq Conns
  BY DEF Up, Dialed
<1>3. /\ [stage EXCEPT ![c][n] = "pending"] \in [Conns -> [Nodes -> Stages]]
      /\ [stage EXCEPT ![c][n] = "up"] \in [Conns -> [Nodes -> Stages]]
      /\ [stage EXCEPT ![c][n] = "gone"] \in [Conns -> [Nodes -> Stages]]
  BY <1>1 DEF TypeOK, Stages
<1>4. /\ denied \in [Nodes -> SUBSET Conns] /\ counted \in [Nodes -> SUBSET Conns]
      /\ [denied EXCEPT ![n] = @ \cup {c}] \in [Nodes -> SUBSET Conns]
      /\ [denied EXCEPT ![n] = @ \ {c}] \in [Nodes -> SUBSET Conns]
      /\ [counted EXCEPT ![n] = @ \cup {c}] \in [Nodes -> SUBSET Conns]
  BY <1>1 DEF TypeOK
<1>5. CASE IncomingConnection(n, c)
  BY <1>3, <1>4, <1>5 DEF TypeOK, IncomingConnection, tableVars
<1>6. CASE Fails(n, c)
  <2>1. shut' \subseteq Conns
    BY <1>1, <1>6 DEF TypeOK, Fails
  <2> QED
    BY <1>3, <1>4, <1>6, <2>1 DEF TypeOK, Fails, tableVars
<1>7. CASE EstablishDenied(n, c) \/ EstablishBlocked(n, c) \/ EstablishRefused(n, c)
  <2>1. shut' \subseteq Conns /\ dropped' \subseteq Conns
    BY <1>1, <1>2, <1>7 DEF TypeOK, EstablishDenied, EstablishBlocked, EstablishRefused
  <2>2. denied' \in [Nodes -> SUBSET Conns]
    BY <1>4, <1>7 DEF EstablishDenied, EstablishBlocked, EstablishRefused
  <2>3. stage' \in [Conns -> [Nodes -> Stages]] /\ UNCHANGED <<link, blocked, tableVars>>
    BY <1>3, <1>7 DEF Establish, EstablishDenied, EstablishBlocked, EstablishRefused
  <2> QED
    BY <2>1, <2>2, <2>3 DEF TypeOK, tableVars
<1>8. CASE EstablishCounted(n, c)
  <2>1. count' \in [Nodes -> [Nodes -> Nat]]
    BY <1>1, <1>8 DEF TypeOK, EstablishCounted, Connected
  <2>2. address' \in [Nodes -> [Nodes -> Addresses \cup {NoAddress}]]
    BY <1>1, <1>8 DEF TypeOK, EstablishCounted, Connected
  <2> QED
    BY <1>1, <1>3, <1>4, <1>8, <2>1, <2>2 DEF TypeOK, EstablishCounted, Establish
<1>9. CASE ConnectionClosed(n, c)
  <2>1. count' \in [Nodes -> [Nodes -> Nat]]
    <3> DEFINE p == PeerOf(n, c)
               less == IF count[n][p] = 0 THEN 0 ELSE count[n][p] - 1
    <3>1. count \in [Nodes -> [Nodes -> Nat]] /\ less \in Nat
      BY <1>1 DEF TypeOK
    <3>2. count' = [count EXCEPT ![n][p] = less]
      BY <1>1, <1>9, <3>1 DEF ConnectionClosed, Disconnected
    <3> HIDE DEF p, less
    <3> QED
      BY <1>1, <3>1, <3>2
  <2>2. address' \in [Nodes -> [Nodes -> Addresses \cup {NoAddress}]]
    BY <1>1, <1>9 DEF TypeOK, ConnectionClosed, Disconnected
  <2> QED
    BY <1>1, <1>3, <1>4, <1>9, <2>1, <2>2 DEF TypeOK, ConnectionClosed
<1>10. CASE ForgetDenied(n, c)
  BY <1>1, <1>4, <1>10 DEF TypeOK, ForgetDenied, linkVars, tableVars
<1> QED
  BY <1>5, <1>6, <1>7, <1>8, <1>9, <1>10 DEF AtEnd

LEMMA BreakType ==
    ASSUME TypeOK,
           \/ \E c \in Conns : Break(c)
           \/ \E n, p \in Nodes : Disconnect(n, p) \/ Block(n, p) \/ BlockExpires(n, p)
    PROVE  TypeOK'
<1>1. ASSUME NEW c \in Conns, Break(c) PROVE TypeOK'
  BY <1>1 DEF TypeOK, Break, tableVars
<1>2. ASSUME NEW n \in Nodes, NEW p \in Nodes, Disconnect(n, p) PROVE TypeOK'
  BY <1>2 DEF TypeOK, Disconnect, Up, Dialed, tableVars
<1>3. ASSUME NEW n \in Nodes, NEW p \in Nodes, Block(n, p) PROVE TypeOK'
  <2>1. blocked' \in [Nodes -> SUBSET Nodes]
    BY <1>3 DEF TypeOK, Block
  <2>2. shut' \subseteq Conns
    BY <1>3 DEF TypeOK, Block, Up, Dialed
  <2> QED
    BY <1>3, <2>1, <2>2 DEF TypeOK, Block, tableVars
<1>4. ASSUME NEW n \in Nodes, NEW p \in Nodes, BlockExpires(n, p) PROVE TypeOK'
  BY <1>4 DEF TypeOK, BlockExpires, linkVars, tableVars
<1> QED
  BY <1>1, <1>2, <1>3, <1>4

-----------------------------------------------------------------------------
(* Steps at one end of a connection.                                         *)

\* One end of one connection changes its stage, and no other.
LEMMA StageMoves ==
    ASSUME TypeOK, NEW c \in Conns, NEW n \in Nodes, NEW s,
           stage' = [stage EXCEPT ![c][n] = s]
    PROVE  /\ stage'[c][n] = s
           /\ \A d \in Conns, m \in Nodes : d # c \/ m # n => stage'[d][m] = stage[d][m]
BY DEF TypeOK

\* An end that does not touch the table: the connection is not counted, and
\* its denied entry, if any, goes when it stops being pending.
LEMMA UncountedStep ==
    ASSUME TableIsTrue, TypeOK', NEW c \in Dialed, NEW n \in Ends(c),
           \/ IncomingConnection(n, c) \/ Fails(n, c) \/ ForgetDenied(n, c)
           \/ EstablishDenied(n, c) \/ EstablishBlocked(n, c) \/ EstablishRefused(n, c)
    PROVE  TableIsTrue'
<1>1. /\ TypeOK /\ c \in Conns /\ n \in Nodes /\ link[c] # NoLink
      /\ UNCHANGED <<link, count, address, counted>>
  BY LinkType
     DEF TableIsTrue, Dialed, IncomingConnection, Fails, ForgetDenied, Establish,
         EstablishDenied, EstablishBlocked, EstablishRefused, tableVars, linkVars
<1>2. /\ \A d \in Conns, m \in Nodes : d # c \/ m # n => stage'[d][m] = stage[d][m]
      /\ stage[c][n] = "up" => stage'[c][n] = "up"
      /\ stage[c][n] = "pending" =>
            stage'[c][n] = "pending" \/ c \notin denied'[n]
  <2>1. CASE IncomingConnection(n, c)
    BY <1>1, <2>1, StageMoves DEF IncomingConnection
  <2>2. CASE Fails(n, c)
    BY <1>1, <2>2, StageMoves DEF Fails, TypeOK
  <2>3. CASE ForgetDenied(n, c)
    BY <1>1, <2>3 DEF ForgetDenied, linkVars
  <2>4. CASE EstablishDenied(n, c) \/ EstablishBlocked(n, c) \/ EstablishRefused(n, c)
    <3>1. stage' = [stage EXCEPT ![c][n] = "up"] /\ c \notin denied'[n]
      BY <1>1, <2>4
         DEF Establish, EstablishDenied, EstablishBlocked, EstablishRefused, Allowed, TypeOK
    <3> QED
      BY <1>1, <3>1, StageMoves
  <2> QED
    BY <2>1, <2>2, <2>3, <2>4
<1>3. \A m \in Nodes : \A d \in denied'[m] : d \in denied[m] \/ (d = c /\ m = n /\ stage'[c][n] = "pending")
  <2>1. CASE IncomingConnection(n, c)
    BY <1>1, <2>1, StageMoves DEF IncomingConnection, TypeOK
  <2>2. CASE ~ IncomingConnection(n, c)
    BY <1>1, <2>2
       DEF Fails, ForgetDenied, EstablishDenied, EstablishBlocked, EstablishRefused, TypeOK
  <2> QED
    BY <2>1, <2>2
<1>4. FreshIsNowhere'
  BY <1>1, <1>2 DEF TableIsTrue, FreshIsNowhere
<1>5. LimitsHold'
  <2>1. \A m \in Nodes, S \in SUBSET Addresses : TrackedAt(m, S)' = TrackedAt(m, S)
    BY <1>1 DEF TrackedAt, Tracked
  <2> QED
    BY <2>1, FewerTracked DEF TableIsTrue
<1>6. NoGhost'
  <2>1. \A m, p \in Nodes : Live(m, p) \subseteq Live(m, p)'
    BY <1>1, <1>2 DEF Live, Up, Dialed, Ends, PeerOf
  <2> QED
    BY <1>1, <2>1, MoreLive DEF TableIsTrue
<1>7. DeniedIsPending'
  <2> SUFFICES ASSUME NEW m \in Nodes, NEW d \in denied'[m] PROVE stage'[d][m] = "pending"
    BY DEF DeniedIsPending
  <2>1. d \in Conns
    BY DEF TypeOK
  <2>2. CASE d = c /\ m = n
    BY <1>2, <1>3, <2>2 DEF TableIsTrue, DeniedIsPending
  <2>3. CASE d # c \/ m # n
    BY <1>2, <1>3, <2>1, <2>3 DEF TableIsTrue, DeniedIsPending
  <2> QED
    BY <2>2, <2>3
<1> QED
  BY <1>4, <1>5, <1>6, <1>7 DEF TableIsTrue

\* What EstablishCounted and ConnectionClosed do to stages and denied entries.
LEMMA StepFrame ==
    ASSUME TableIsTrue, TypeOK', NEW c \in Dialed, NEW n \in Ends(c),
           EstablishCounted(n, c) \/ ConnectionClosed(n, c)
    PROVE  /\ c \in Conns /\ n \in Nodes /\ PeerOf(n, c) \in Nodes
           /\ link[c] # NoLink /\ link' = link
           /\ \A d \in Conns, m \in Nodes : d # c \/ m # n => stage'[d][m] = stage[d][m]
           /\ FreshIsNowhere' /\ DeniedIsPending'
<1>1. /\ TypeOK /\ c \in Conns /\ n \in Nodes /\ PeerOf(n, c) \in Nodes
      /\ link[c] # NoLink /\ link' = link
  BY LinkType DEF TableIsTrue, Dialed, EstablishCounted, Establish, ConnectionClosed
<1>2. \A d \in Conns, m \in Nodes : d # c \/ m # n => stage'[d][m] = stage[d][m]
  BY <1>1, StageMoves DEF EstablishCounted, Establish, ConnectionClosed
<1>3. \A m \in Nodes : \A d \in denied'[m] : d \in denied[m] /\ (d # c \/ m # n)
  BY <1>1 DEF EstablishCounted, Allowed, ConnectionClosed, TypeOK
<1>4. FreshIsNowhere'
  BY <1>1, <1>2 DEF TableIsTrue, FreshIsNowhere
<1>5. DeniedIsPending'
  BY <1>1, <1>2, <1>3 DEF TableIsTrue, DeniedIsPending, TypeOK
<1> QED
  BY <1>1, <1>2, <1>4, <1>5

\* A set of tracked peers with room takes one more.
LEMMA OneMoreTracked ==
    ASSUME NEW n, NEW S, NEW p, NEW limit \in Nat,
           TrackedAt(n, S)' \subseteq TrackedAt(n, S) \cup {p},
           Cardinality(TrackedAt(n, S)) < limit
    PROVE  Cardinality(TrackedAt(n, S)') <= limit
<1>1. /\ IsFiniteSet(TrackedAt(n, S)) /\ Cardinality(TrackedAt(n, S)) \in Nat
  BY TrackedFinite
<1>2. /\ IsFiniteSet(TrackedAt(n, S) \cup {p})
      /\ Cardinality(TrackedAt(n, S) \cup {p}) <= Cardinality(TrackedAt(n, S)) + 1
      /\ Cardinality(TrackedAt(n, S) \cup {p}) \in Nat
  <2> DEFINE T == TrackedAt(n, S)
  <2>1. IsFiniteSet(T) /\ Cardinality(T) \in Nat
    BY <1>1
  <2> HIDE DEF T
  <2>2. /\ IsFiniteSet(T \cup {p})
        /\ Cardinality(T \cup {p}) = IF p \in T THEN Cardinality(T) ELSE Cardinality(T) + 1
    BY <2>1, FS_AddElement
  <2>3. Cardinality(T \cup {p}) <= Cardinality(T) + 1 /\ Cardinality(T \cup {p}) \in Nat
    BY <2>1, <2>2
  <2> QED
    BY <2>2, <2>3 DEF T
<1>3. /\ Cardinality(TrackedAt(n, S)') <= Cardinality(TrackedAt(n, S) \cup {p})
      /\ Cardinality(TrackedAt(n, S)') \in Nat
  BY <1>2, FS_Subset, FS_CardinalityType
<1> QED
  BY <1>1, <1>2, <1>3

\* A peer that is counted first has an address that the limits admit; one that
\* is tracked keeps its own.
LEMMA CountedLimits ==
    ASSUME TableIsTrue, TypeOK', NEW c \in Dialed, NEW n \in Ends(c), EstablishCounted(n, c)
    PROVE  LimitsHold'
<1> DEFINE p == PeerOf(n, c)
           a == AddressOf(n, c)
<1>1. TypeOK /\ n \in Nodes /\ p \in Nodes /\ a \in Addresses
  BY LinkType DEF TableIsTrue
<1>2. /\ count' = [count EXCEPT ![n][p] = @ + 1]
      /\ address' = [address EXCEPT ![n][p] = IF count[n][p] = 0 THEN a ELSE @]
      /\ CanAccept(n, a)
  BY DEF EstablishCounted, Connected
<1> HIDE DEF p, a
<1>3. \A m \in Nodes, q \in Nodes : m # n \/ q # p =>
        count'[m][q] = count[m][q] /\ address'[m][q] = address[m][q]
  BY <1>1, <1>2 DEF TypeOK
<1>4. count[n][p] > 0 => address'[n][p] = address[n][p]
  BY <1>1, <1>2 DEF TypeOK
<1>5. ~ (count[n][p] > 0) => address'[n][p] = a
  BY <1>1, <1>2 DEF TypeOK
<1>6. ASSUME NEW m \in Nodes, NEW S \in SUBSET Addresses, m # n \/ a \notin S
      PROVE  TrackedAt(m, S)' \subseteq TrackedAt(m, S)
  BY <1>3, <1>4, <1>5, <1>6 DEF TrackedAt, Tracked
<1>7. ASSUME NEW S \in SUBSET Addresses
      PROVE  TrackedAt(n, S)' \subseteq TrackedAt(n, S) \cup {p}
  BY <1>1, <1>3 DEF TrackedAt, Tracked
<1>8. ASSUME NEW m \in Nodes, NEW S \in SUBSET Addresses, NEW limit \in Nat,
             Cardinality(TrackedAt(m, S)) <= limit,
             m = n /\ a \in S => Cardinality(TrackedAt(m, S)) < limit
      PROVE  Cardinality(TrackedAt(m, S)') <= limit
  <2>1. CASE m = n /\ a \in S
    BY <1>7, <1>8, <2>1, OneMoreTracked
  <2>2. CASE ~ (m = n /\ a \in S)
    <3>1. TrackedAt(m, S)' \subseteq TrackedAt(m, S)
      BY <1>6, <2>2
    <3>2. /\ Cardinality(TrackedAt(m, S)') <= Cardinality(TrackedAt(m, S))
          /\ Cardinality(TrackedAt(m, S)) \in Nat /\ Cardinality(TrackedAt(m, S)') \in Nat
      BY <3>1, TrackedFinite, FS_Subset, FS_CardinalityType
    <3> QED
      BY <1>8, <3>2
  <2> QED
    BY <2>1, <2>2
<1>9. ASSUME NEW m \in Nodes
      PROVE  Cardinality(TrackedAt(m, {b \in Addresses : b.relayed})') <= MaxRelayed
  <2> DEFINE S == {b \in Addresses : b.relayed}
  <2>1. S \in SUBSET Addresses /\ MaxRelayed \in Nat
    BY ConnectionsAssumption
  <2>2. Cardinality(TrackedAt(m, S)) <= MaxRelayed
    BY DEF TableIsTrue, LimitsHold
  <2>3. m = n /\ a \in S => Cardinality(TrackedAt(m, S)) < MaxRelayed
    BY <1>2 DEF CanAccept
  <2> HIDE DEF S
  <2>4. Cardinality(TrackedAt(m, S)') <= MaxRelayed
    BY <1>8, <2>1, <2>2, <2>3
  <2> QED
    BY <2>4 DEF S
<1>10. ASSUME NEW m \in Nodes, NEW d \in Addresses, d.prefix # NoPrefix
      PROVE  Cardinality(TrackedAt(m, {b \in Addresses : b.prefix = d.prefix})') <= MaxPerPrefix
  <2> DEFINE S == {b \in Addresses : b.prefix = d.prefix}
  <2>1. S \in SUBSET Addresses /\ MaxPerPrefix \in Nat
    BY ConnectionsAssumption
  <2>2. Cardinality(TrackedAt(m, S)) <= MaxPerPrefix
    BY <1>10 DEF TableIsTrue, LimitsHold
  <2>3. m = n /\ a \in S => Cardinality(TrackedAt(m, S)) < MaxPerPrefix
    <3> SUFFICES ASSUME m = n, a \in S PROVE Cardinality(TrackedAt(m, S)) < MaxPerPrefix
      OBVIOUS
    <3>1. a.prefix = d.prefix
      OBVIOUS
    <3> QED
      BY <1>2, <1>10, <3>1 DEF CanAccept
  <2> HIDE DEF S
  <2>4. Cardinality(TrackedAt(m, S)') <= MaxPerPrefix
    BY <1>8, <2>1, <2>2, <2>3
  <2> QED
    BY <2>4 DEF S
<1> QED
  BY <1>9, <1>10 DEF LimitsHold

\* A counted connection adds one to the count and to the live ones.
LEMMA CountedStep ==
    ASSUME TableIsTrue, TypeOK', NEW c \in Dialed, NEW n \in Ends(c), EstablishCounted(n, c)
    PROVE  TableIsTrue'
<1> DEFINE p == PeerOf(n, c)
<1>1. /\ TypeOK /\ c \in Conns /\ n \in Nodes /\ p \in Nodes /\ link' = link
      /\ \A d \in Conns, m \in Nodes : d # c \/ m # n => stage'[d][m] = stage[d][m]
  BY StepFrame DEF TableIsTrue
<1>2. /\ stage[c][n] = "pending" /\ stage'[c][n] = "up"
      /\ count' = [count EXCEPT ![n][p] = @ + 1]
      /\ counted' = [counted EXCEPT ![n] = @ \cup {c}]
  <2>1. /\ stage[c][n] = "pending"
        /\ stage' = [stage EXCEPT ![c][n] = "up"]
        /\ counted' = [counted EXCEPT ![n] = @ \cup {c}]
    BY DEF EstablishCounted, Establish
  <2>2. stage'[c][n] = "up"
    BY <1>1, <2>1 DEF TypeOK
  <2>3. count' = [count EXCEPT ![n][p] = @ + 1]
    BY DEF EstablishCounted, Connected
  <2> QED
    BY <2>1, <2>2, <2>3
<1>3. NoGhost'
  <2> SUFFICES ASSUME NEW m \in Nodes, NEW q \in Nodes
               PROVE  count'[m][q] <= Cardinality(Live(m, q)')
    BY DEF NoGhost, Live
  <2>1. count[m][q] <= Cardinality(Live(m, q)) /\ count[m][q] \in Nat
    BY <1>1 DEF TableIsTrue, NoGhost, Live, TypeOK
  <2>2. IsFiniteSet(Live(m, q)) /\ Cardinality(Live(m, q)) \in Nat
    BY LiveFinite
  <2>3. CASE m = n /\ q = p
    <3>1. Live(m, q)' = Live(m, q) \cup {c} /\ c \notin Live(m, q)
      BY <1>1, <1>2, <2>3 DEF Live, Up, Dialed, Ends, PeerOf, TypeOK
    <3>2. Cardinality(Live(m, q)') = Cardinality(Live(m, q)) + 1
      BY <2>2, <3>1, FS_AddElement
    <3>3. count'[m][q] = count[m][q] + 1
      BY <1>1, <1>2, <2>3 DEF TypeOK
    <3> QED
      BY <2>1, <2>2, <3>2, <3>3
  <2>4. CASE ~ (m = n /\ q = p)
    <3>1. Live(m, q)' = Live(m, q)
      BY <1>1, <1>2, <2>4 DEF Live, Up, Dialed, Ends, PeerOf, TypeOK
    <3>2. count'[m][q] = count[m][q]
      BY <1>1, <1>2, <2>4 DEF TypeOK
    <3> QED
      BY <2>1, <3>1, <3>2
  <2> QED
    BY <2>3, <2>4
<1> QED
  BY <1>3, CountedLimits, StepFrame DEF TableIsTrue

\* A close takes one from the count, whether the connection was counted or not.
LEMMA ClosedStep ==
    ASSUME TableIsTrue, TypeOK', NEW c \in Dialed, NEW n \in Ends(c), ConnectionClosed(n, c)
    PROVE  TableIsTrue'
<1> DEFINE p == PeerOf(n, c)
<1>1. /\ TypeOK /\ c \in Conns /\ n \in Nodes /\ p \in Nodes /\ link' = link
      /\ \A d \in Conns, m \in Nodes : d # c \/ m # n => stage'[d][m] = stage[d][m]
  BY StepFrame DEF TableIsTrue
<1>2. /\ stage[c][n] = "up" /\ stage'[c][n] = "gone" /\ counted' = counted
      /\ count' = [count EXCEPT ![n][p] = IF @ = 0 THEN 0 ELSE @ - 1]
      /\ address' = [address EXCEPT ![n][p] = IF count[n][p] <= 1 THEN NoAddress ELSE @]
  <2>1. /\ stage[c][n] = "up" /\ counted' = counted
        /\ stage' = [stage EXCEPT ![c][n] = "gone"]
    BY DEF ConnectionClosed
  <2>2. stage'[c][n] = "gone"
    BY <1>1, <2>1 DEF TypeOK
  <2>3. /\ count' = [count EXCEPT ![n][p] = IF @ = 0 THEN 0 ELSE @ - 1]
        /\ address' = [address EXCEPT ![n][p] = IF count[n][p] <= 1 THEN NoAddress ELSE @]
    BY DEF ConnectionClosed, Disconnected
  <2> QED
    BY <2>1, <2>2, <2>3
<1>3. \A m \in Nodes, q \in Nodes : m # n \/ q # p =>
        count'[m][q] = count[m][q] /\ address'[m][q] = address[m][q]
  BY <1>1, <1>2 DEF TypeOK
<1>4. /\ count'[n][p] = IF count[n][p] = 0 THEN 0 ELSE count[n][p] - 1
      /\ address'[n][p] = IF count[n][p] <= 1 THEN NoAddress ELSE address[n][p]
  BY <1>1, <1>2 DEF TypeOK
<1>5. LimitsHold'
  <2>1. ASSUME NEW m \in Nodes, NEW S \in SUBSET Addresses
        PROVE  TrackedAt(m, S)' \subseteq TrackedAt(m, S)
    <3>1. count[n][p] \in Nat
      BY <1>1 DEF TypeOK
    <3>2. count'[n][p] > 0 => count[n][p] > 0 /\ address'[n][p] = address[n][p]
      BY <1>4, <3>1
    <3> QED
      BY <1>3, <3>2 DEF TrackedAt, Tracked
  <2> QED
    BY <2>1, FewerTracked DEF TableIsTrue
<1>6. NoGhost'
  <2> SUFFICES ASSUME NEW m \in Nodes, NEW q \in Nodes
               PROVE  count'[m][q] <= Cardinality(Live(m, q)')
    BY DEF NoGhost, Live
  <2>1. count[m][q] <= Cardinality(Live(m, q)) /\ count[m][q] \in Nat
    BY <1>1 DEF TableIsTrue, NoGhost, Live, TypeOK
  <2>2. IsFiniteSet(Live(m, q)) /\ Cardinality(Live(m, q)) \in Nat
    BY LiveFinite
  <2>3. CASE m = n /\ q = p
    <3>1. Live(m, q)' = Live(m, q) \ {c}
      BY <1>1, <1>2, <2>3 DEF Live, Up, Dialed, Ends, PeerOf, TypeOK
    <3>2. /\ Cardinality(Live(m, q)') >= Cardinality(Live(m, q)) - 1
          /\ Cardinality(Live(m, q)') \in Nat
      <4>1. /\ IsFiniteSet(Live(m, q) \ {c})
            /\ Cardinality(Live(m, q) \ {c}) =
                 IF c \in Live(m, q) THEN Cardinality(Live(m, q)) - 1
                                     ELSE Cardinality(Live(m, q))
        BY <2>2, FS_RemoveElement
      <4>2. Cardinality(Live(m, q) \ {c}) \in Nat
        BY <4>1, FS_CardinalityType
      <4> QED
        BY <2>2, <3>1, <4>1, <4>2
    <3> QED
      BY <1>4, <2>1, <2>2, <2>3, <3>2
  <2>4. CASE ~ (m = n /\ q = p)
    <3>1. Live(m, q)' = Live(m, q)
      BY <1>1, <1>2, <2>4 DEF Live, Up, Dialed, Ends, PeerOf, TypeOK
    <3> QED
      BY <1>3, <2>1, <2>4, <3>1
  <2> QED
    BY <2>3, <2>4
<1> QED
  BY <1>5, <1>6, StepFrame DEF TableIsTrue

-----------------------------------------------------------------------------
(* Libp2p's steps and the invariant.                                         *)

LEMMA DialStep ==
    ASSUME TableIsTrue, TypeOK',
           NEW n \in Nodes, NEW p \in Nodes, NEW r \in Routes, Dial(n, p, r)
    PROVE  TableIsTrue'
<1>1. PICK c \in Conns \ Dialed :
        /\ link' = [link EXCEPT ![c] = [from |-> n, to |-> p, route |-> r]]
        /\ stage' = [stage EXCEPT ![c] = [@ EXCEPT ![n] = "pending", ![p] = "offered"]]
  BY DEF Dial
<1>2. /\ TypeOK /\ UNCHANGED <<count, address, counted, denied>>
      /\ link[c] = NoLink /\ link'[c] # NoLink
      /\ \A d \in Conns \ {c} : link'[d] = link[d] /\ stage'[d] = stage[d]
      /\ \A m \in Nodes : stage[c][m] = "none" /\ stage'[c][m] # "up"
  <2>1. TypeOK /\ UNCHANGED <<count, address, counted, denied>>
    BY DEF TableIsTrue, Dial, tableVars
  <2>2. link[c] = NoLink /\ link'[c] = [from |-> n, to |-> p, route |-> r]
    BY <1>1, <2>1 DEF Dialed, TypeOK
  <2>3. link'[c] # NoLink
    <3>1. [from |-> n, to |-> p, route |-> r] \in Links
      BY DEF Links
    <3> QED
      BY <2>2, <3>1, ConnectionsAssumption
  <2>4. \A m \in Nodes : stage[c][m] = "none"
    BY <2>2 DEF TableIsTrue, FreshIsNowhere
  <2>5. \A m \in Nodes : stage'[c][m] # "up"
    BY <1>1, <2>1, <2>4, ZenonT(60) DEF TypeOK
  <2> QED
    BY <1>1, <2>1, <2>2, <2>3, <2>4, <2>5 DEF TypeOK
<1>3. FreshIsNowhere'
  BY <1>2 DEF TableIsTrue, FreshIsNowhere
<1>4. LimitsHold'
  <2>1. \A m \in Nodes, S \in SUBSET Addresses : TrackedAt(m, S)' = TrackedAt(m, S)
    BY <1>2 DEF TrackedAt, Tracked
  <2> QED
    BY <2>1, FewerTracked DEF TableIsTrue
<1>5. NoGhost'
  <2>1. \A m, q \in Nodes : Live(m, q) \subseteq Live(m, q)'
    BY <1>2 DEF Live, Up, Dialed, Ends, PeerOf
  <2> QED
    BY <1>2, <2>1, MoreLive DEF TableIsTrue
<1>6. DeniedIsPending'
  <2>1. \A m \in Nodes : c \notin denied[m]
    BY <1>2 DEF TableIsTrue, DeniedIsPending
  <2> QED
    BY <1>2, <2>1, ZenonT(60) DEF TableIsTrue, DeniedIsPending, TypeOK
<1> QED
  BY <1>3, <1>4, <1>5, <1>6 DEF TableIsTrue

\* Nothing else changes stages, tables or denied entries.
LEMMA QuietStep ==
    ASSUME TableIsTrue, TypeOK', UNCHANGED <<link, stage, tableVars, denied>>
    PROVE  TableIsTrue'
<1>1. UNCHANGED <<count, address, counted>>
  BY DEF tableVars
<1>2. LimitsHold'
  <2>1. \A m \in Nodes, S \in SUBSET Addresses : TrackedAt(m, S)' = TrackedAt(m, S)
    BY <1>1 DEF TrackedAt, Tracked
  <2> QED
    BY <2>1, FewerTracked DEF TableIsTrue
<1>3. NoGhost'
  <2>1. \A m, q \in Nodes : Live(m, q) \subseteq Live(m, q)'
    BY <1>1 DEF Live, Up, Dialed, Ends, PeerOf
  <2> QED
    BY <1>1, <2>1, MoreLive DEF TableIsTrue
<1> QED
  BY <1>2, <1>3 DEF TableIsTrue, FreshIsNowhere, DeniedIsPending

LEMMA TablesStart == Init => TableIsTrue
<1> SUFFICES ASSUME Init PROVE TableIsTrue
  OBVIOUS
<1>1. TypeOK /\ FreshIsNowhere /\ DeniedIsPending
  BY DEF Init, TypeOK, FreshIsNowhere, DeniedIsPending, Stages
<1>2. LimitsHold
  <2>1. \A n \in Nodes, S \in SUBSET Addresses : TrackedAt(n, S) = {}
    BY DEF Init, TrackedAt, Tracked
  <2>2. \A n \in Nodes, S \in SUBSET Addresses : Cardinality(TrackedAt(n, S)) = 0
    BY <2>1, FS_EmptySet
  <2>3. /\ {b \in Addresses : b.relayed} \in SUBSET Addresses
        /\ \A a \in Addresses : {b \in Addresses : b.prefix = a.prefix} \in SUBSET Addresses
    OBVIOUS
  <2> QED
    BY <2>2, <2>3, ConnectionsAssumption DEF LimitsHold
<1>3. NoGhost
  <2>1. \A n, p \in Nodes : count[n][p] = 0
    BY DEF Init
  <2>2. \A n, p \in Nodes : Cardinality(Live(n, p)) \in Nat
    BY LiveFinite
  <2> QED
    BY <2>1, <2>2 DEF NoGhost, Live
<1> QED
  BY <1>1, <1>2, <1>3 DEF TableIsTrue

LEMMA TablesStep == TableIsTrue /\ [Next]_vars => TableIsTrue'
<1> SUFFICES ASSUME TableIsTrue, [Next]_vars PROVE TableIsTrue'
  OBVIOUS
<1>0. TypeOK
  BY DEF TableIsTrue
<1>1. ASSUME NEW n \in Nodes, NEW p \in Nodes, NEW r \in Routes, Dial(n, p, r)
      PROVE  TableIsTrue'
  BY <1>0, <1>1, DialType, DialStep
<1>2. ASSUME NEW c \in Dialed, NEW n \in Ends(c), AtEnd(n, c)
      PROVE  TableIsTrue'
  <2>1. TypeOK'
    BY <1>0, <1>2, EndType
  <2> QED
    BY <1>2, <2>1, UncountedStep, CountedStep, ClosedStep DEF AtEnd
<1>3. ASSUME NEW c \in Conns, Break(c)
      PROVE  TableIsTrue'
  BY <1>0, <1>3, BreakType, QuietStep DEF Break
<1>4. ASSUME NEW n \in Nodes, NEW p \in Nodes,
             Disconnect(n, p) \/ Block(n, p) \/ BlockExpires(n, p)
      PROVE  TableIsTrue'
  <2>1. TypeOK'
    BY <1>0, <1>4, BreakType
  <2>2. UNCHANGED <<link, stage, tableVars, denied>>
    BY <1>4 DEF Disconnect, Block, BlockExpires, linkVars
  <2> QED
    BY <2>1, <2>2, QuietStep
<1>5. CASE UNCHANGED vars
  <2>1. TypeOK'
    BY <1>0, <1>5 DEF TypeOK, vars, linkVars, tableVars
  <2> QED
    BY <1>5, <2>1, QuietStep DEF vars, linkVars
<1> QED
  BY <1>1, <1>2, <1>3, <1>4, <1>5 DEF Next

\* The tables stay true through every order of dials, offers, establishments,
\* refusals, blocks, breaks and closes.
THEOREM Tables == Spec => []TableIsTrue
BY TablesStart, TablesStep, PTL DEF Spec

\* Tables have their shape and the diversity limits hold in them, in whatever
\* order connections come up at either end, break and close.
THEOREM Limits == Spec => []TableInv
<1>1. TableIsTrue => TableInv
  BY DEF TableIsTrue, TableInv
<1> QED
  BY <1>1, Tables, PTL

\* A peer never counts more connections than it has live ones that were counted,
\* although closes of others are taken from its count as well.
THEOREM NoGhosts == Spec => []NoGhost
<1>1. TableIsTrue => NoGhost
  BY DEF TableIsTrue
<1> QED
  BY <1>1, Tables, PTL

\* No denied entry outlives its connection.
THEOREM DeniedEnds == Spec => []DeniedIsPending
<1>1. TableIsTrue => DeniedIsPending
  BY DEF TableIsTrue
<1> QED
  BY <1>1, Tables, PTL

-----------------------------------------------------------------------------
(* Duplicates.                                                               *)

\* What an end closes as a duplicate was dialed by the larger identity, and
\* came second to another connection of the pair.
DroppedIsSecond ==
    \A c \in dropped :
        /\ c \in Dialed /\ link[c].from > link[c].to
        /\ \E d \in Dialed \ {c} : Ends(d) = Ends(c)

\* Nobody dials itself.
DialedApart == \A c \in Dialed : link[c].from # link[c].to

PairLine == TypeOK /\ DroppedIsSecond /\ DialedApart

LEMMA UnwantedIsSecond ==
    ASSUME TypeOK, DialedApart, NEW c \in Dialed, NEW n \in Ends(c),
           stage[c][n] = "pending", IsUnwanted(n, c)
    PROVE  /\ link[c].from > link[c].to
           /\ \E d \in Dialed \ {c} : Ends(d) = Ends(c)
<1>1. /\ link[c].from \in Nat /\ link[c].to \in Nat /\ link[c].from # link[c].to
  BY LinkType, ConnectionsAssumption DEF DialedApart, Links
<1>2. link[c].from > link[c].to
  <2>1. CASE n = link[c].from
    <3>1. IsDialer(n, c) /\ PeerOf(n, c) = link[c].to
      BY <2>1 DEF IsDialer, PeerOf
    <3>2. ~(n < PeerOf(n, c))
      BY <3>1, Zenon DEF IsUnwanted
    <3> QED
      BY <1>1, <2>1, <3>1, <3>2
  <2>2. CASE n # link[c].from
    <3>1. ~IsDialer(n, c) /\ PeerOf(n, c) = link[c].from /\ n = link[c].to
      BY <1>1, <2>2 DEF IsDialer, PeerOf, Ends
    <3>2. ASSUME ~(n < PeerOf(n, c)) PROVE FALSE
      <4>1. (n < PeerOf(n, c)) = FALSE /\ IsDialer(n, c) = FALSE
        BY <3>1, <3>2
      <4> QED
        BY <4>1, Zenon DEF IsUnwanted
    <3> QED
      BY <1>1, <3>1, <3>2
  <2> QED
    BY <2>1, <2>2
<1>3. PICK d \in Up(n, PeerOf(n, c)) : TRUE
  BY DEF IsUnwanted
<1>4. d \in Dialed /\ d # c /\ Ends(d) = {n, PeerOf(n, d)} /\ PeerOf(n, d) = PeerOf(n, c)
  BY <1>3 DEF Up, Ends, PeerOf
<1>5. Ends(c) = {n, PeerOf(n, c)}
  BY DEF Ends, PeerOf
<1> QED
  BY <1>2, <1>4, <1>5

\* Without a new dial nothing is dropped but what comes second.
LEMMA DropStep ==
    ASSUME PairLine, UNCHANGED link, TypeOK',
           \A x \in dropped' \ dropped :
               /\ x \in Dialed /\ link[x].from > link[x].to
               /\ \E d \in Dialed \ {x} : Ends(d) = Ends(x)
    PROVE  PairLine'
BY DEF PairLine, DroppedIsSecond, DialedApart, Dialed, Ends

LEMMA PairDial ==
    ASSUME PairLine, NEW n \in Nodes, NEW p \in Nodes, NEW r \in Routes, Dial(n, p, r)
    PROVE  PairLine'
<1>1. PICK c \in Conns \ Dialed : link' = [link EXCEPT ![c] = [from |-> n, to |-> p, route |-> r]]
  BY DEF Dial
<1>2. TypeOK /\ TypeOK' /\ dropped' = dropped /\ n # p
  BY DialType, ZenonT(60) DEF Dial, PairLine
<1>3. /\ link'[c] = [from |-> n, to |-> p, route |-> r]
      /\ \A d \in Dialed : d # c /\ link'[d] = link[d]
      /\ Dialed' \subseteq Dialed \cup {c} /\ Dialed \subseteq Dialed'
  BY <1>1, <1>2 DEF Dialed, TypeOK
<1>4. link'[c].from = n /\ link'[c].to = p
  BY <1>3
<1>5. \A d \in Dialed : Ends(d)' = Ends(d)
  BY <1>3 DEF Ends
<1>6. DialedApart'
  BY <1>2, <1>3, <1>4 DEF PairLine, DialedApart
<1>7. DroppedIsSecond'
  BY <1>2, <1>3, <1>5 DEF PairLine, DroppedIsSecond
<1> QED
  BY <1>2, <1>6, <1>7 DEF PairLine

LEMMA PairStep ==
    ASSUME PairLine, [Next]_vars
    PROVE  PairLine'
<1>0. TypeOK
  BY DEF PairLine
<1>1. ASSUME NEW n \in Nodes, NEW p \in Nodes, NEW r \in Routes, Dial(n, p, r)
      PROVE  PairLine'
  BY <1>1, PairDial
<1>3. ASSUME NEW c \in Dialed, NEW n \in Ends(c), AtEnd(n, c)
      PROVE  PairLine'
  <2>1. TypeOK'
    BY <1>0, <1>3, EndType
  <2>2. UNCHANGED link
    BY <1>3
       DEF AtEnd, IncomingConnection, Fails, ForgetDenied, Establish, EstablishDenied,
           EstablishBlocked, EstablishRefused, EstablishCounted, ConnectionClosed, linkVars
  <2>3. \/ dropped' = dropped
        \/ /\ dropped' = dropped \cup {c}
           /\ stage[c][n] = "pending" /\ IsUnwanted(n, c)
    BY <1>3
       DEF AtEnd, IncomingConnection, Fails, ForgetDenied, Establish, EstablishDenied,
           EstablishBlocked, EstablishRefused, EstablishCounted, ConnectionClosed
  <2>4. CASE dropped' = dropped
    BY <2>1, <2>2, <2>4, DropStep
  <2>5. CASE dropped' = dropped \cup {c} /\ stage[c][n] = "pending" /\ IsUnwanted(n, c)
    <3>1. link[c].from > link[c].to /\ \E d \in Dialed \ {c} : Ends(d) = Ends(c)
      BY <1>0, <2>5, UnwantedIsSecond DEF PairLine
    <3> QED
      BY <2>1, <2>2, <2>5, <3>1, DropStep
  <2> QED
    BY <2>3, <2>4, <2>5
<1>4. ASSUME NEW c \in Conns, Break(c)
      PROVE  PairLine'
  BY <1>0, <1>4, BreakType, DropStep DEF Break
<1>5. ASSUME NEW n \in Nodes, NEW p \in Nodes,
             Disconnect(n, p) \/ Block(n, p) \/ BlockExpires(n, p)
      PROVE  PairLine'
  <2>1. TypeOK'
    BY <1>0, <1>5, BreakType
  <2>2. UNCHANGED <<link, dropped>>
    BY <1>5 DEF Disconnect, Block, BlockExpires, linkVars
  <2> QED
    BY <2>1, <2>2, DropStep
<1>6. CASE UNCHANGED vars
  <2>1. TypeOK' /\ UNCHANGED <<link, dropped>>
    BY <1>0, <1>6 DEF TypeOK, vars, linkVars, tableVars
  <2> QED
    BY <2>1, DropStep
<1> QED
  BY <1>1, <1>3, <1>4, <1>5, <1>6 DEF Next

LEMMA PairStart == Init => PairLine
<1> SUFFICES ASSUME Init PROVE PairLine
  OBVIOUS
<1>1. Dialed = {} /\ dropped = {}
  BY DEF Init, Dialed
<1>2. TypeOK
  BY TablesStart DEF TableIsTrue
<1> QED
  BY <1>1, <1>2 DEF PairLine, DialedApart, DroppedIsSecond

\* However often the nodes dial, the connection that the smaller identity
\* dialed is never closed as a duplicate, nor the only one of a pair.
THEOREM OnlySecond == Spec => []DroppedIsSecond
<1>1. Init => PairLine
  BY PairStart
<1>2. PairLine /\ [Next]_vars => PairLine'
  BY PairStep
<1>3. PairLine => DroppedIsSecond
  BY DEF PairLine
<1> QED
  BY <1>1, <1>2, <1>3, PTL DEF Spec

\* However often and in whatever order nodes dial each other, the tie-break
\* leaves a pair a connection, unless the larger identity alone dialed, more
\* than once (swarm.rs, ConnectionEstablished).
THEOREM Linked == Spec => []StaysLinked
<1>1. DroppedIsSecond => StaysLinked
  <2> SUFFICES ASSUME DroppedIsSecond, NEW n \in Nodes, NEW p \in Nodes,
                      Between(n, p) # {}, Between(n, p) \subseteq dropped
               PROVE  /\ \A c \in Between(n, p) : link[c].from > link[c].to
                      /\ \E c, d \in Between(n, p) : c # d
    BY DEF StaysLinked
  <2>1. PICK c \in Between(n, p) : TRUE
    OBVIOUS
  <2>2. PICK d \in Dialed \ {c} : Ends(d) = Ends(c)
    BY <2>1 DEF DroppedIsSecond
  <2>3. d \in Between(n, p)
    BY <2>1, <2>2 DEF Between
  <2> QED
    BY <2>1, <2>2, <2>3 DEF DroppedIsSecond
<1> QED
  BY <1>1, OnlySecond, PTL
=============================================================================
