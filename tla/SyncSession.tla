---------------------------- MODULE SyncSession -----------------------------
(***************************************************************************)
(* The requester's bookkeeping of synchronisation: the sessions, their     *)
(* outstanding requests, pending_sync, and the comparisons that run as     *)
(* blocking tasks and come back as DbAction (network/swarm.rs,             *)
(* handle_sync_event to finish_sync).  Peers connect, disconnect, answer   *)
(* wrongly, late or never; what the answers hold is left open (see         *)
(* SyncConvergence).                                                       *)
(*                                                                         *)
(* OutboundRequestId is a counter; here a request is told from others of   *)
(* its kind, peer and bucket by a tag that is reused once nothing refers   *)
(* to it.                                                                  *)
(***************************************************************************)
EXTENDS Naturals, FiniteSets, SequencesExt

CONSTANTS
    Peers,
    Buckets, NoBucket,
    MaxSessions,    \* MAX_SIMULTANEOUS_SYNC_PEERS
    MaxPending,     \* MAX_PENDING_SYNC_REQUESTS_PER_PEER
    MaxLate,        \* bound: requests alive when another session starts
    MaxPages,       \* bound: further pages the peers announce
    Upsets          \* bound: the disturbances of a run, see UpsetKinds

UpsetKinds == {"timeout", "disconnect", "oversized"}

ASSUME SessionAssumption ==
    /\ NoBucket \notin Buckets /\ IsFiniteSet(Buckets)
    /\ MaxSessions \in Nat \ {0}
    /\ MaxPending \in Nat \ {0}
    /\ MaxLate \in Nat /\ MaxPages \in Nat
    /\ Upsets \subseteq UpsetKinds

Requests == [kind : {"Inventory", "Ids", "Records"}, peer : Peers,
             bucket : Buckets \cup {NoBucket}, tag : Nat]

VARIABLES
    connected,  \* peers the connection manager tracks
    closing,    \* peers the actor disconnects and has not yet seen close
    session,    \* sync_sessions: of each peer
    pending,    \* pending_sync
    wire,       \* requests libp2p still owes an event for
    tasks,      \* comparisons that run, or wait in the DbAction channel
    pages       \* further pages announced so far

books == <<session, pending, wire, tasks>>
vars == <<connected, closing, books, pages>>

NoSession == [open |-> FALSE, differing |-> <<>>, outstanding |-> {}]

TypeOK ==
    /\ connected \subseteq Peers
    /\ closing \subseteq connected
    /\ DOMAIN session = Peers
    /\ \A p \in Peers :
        /\ session[p].open \in BOOLEAN
        /\ session[p].differing \in Seq(Buckets)
        /\ session[p].outstanding \subseteq {r \in Requests : r.peer = p}
        /\ ~session[p].open => session[p] = NoSession
    /\ pending \subseteq Requests
    /\ wire \subseteq Requests
    /\ tasks \subseteq {r \in Requests : r.kind # "Records"}
    /\ pages \in 0..MaxPages

Init ==
    /\ connected = {} /\ closing = {}
    /\ session = [p \in Peers |-> NoSession]
    /\ pending = {} /\ wire = {} /\ tasks = {}
    /\ pages = 0

-----------------------------------------------------------------------------
(* A handler works on the books: it takes a request out, sends others, pumps *)
(* the session.  Each helper returns the books it leaves.                    *)

Books == [session |-> session, pending |-> pending, wire |-> wire, tasks |-> tasks]

Keep(b) ==
    /\ session' = b.session
    /\ pending' = b.pending
    /\ wire' = b.wire
    /\ tasks' = b.tasks

\* Everything that still refers to a request.
Alive(b) == b.wire \cup b.pending \cup b.tasks
              \cup UNION {b.session[p].outstanding : p \in Peers}

\* New requests of one kind to p, one for each of the buckets.
Fresh(b, kind, p, buckets) ==
    LET n == Len(buckets)
        Named(k, t) == [kind |-> kind, peer |-> p, bucket |-> buckets[k], tag |-> t]
        tags == CHOOSE t \in [1..n -> 0..(Cardinality(Alive(b)) + n)] :
                  /\ \A k \in 1..n : Named(k, t[k]) \notin Alive(b)
                  /\ \A j, k \in 1..n : Named(j, t[j]) = Named(k, t[k]) => j = k
    IN  {Named(k, tags[k]) : k \in 1..n}

\* send_request for each of the buckets, with the entry in pending_sync and, if
\* the peer has a session, in its outstanding requests.
Send(b, kind, p, buckets) ==
    LET sent == Fresh(b, kind, p, buckets)
    IN  [b EXCEPT !.wire = @ \cup sent,
                  !.pending = @ \cup sent,
                  !.session[p].outstanding = IF b.session[p].open THEN @ \cup sent ELSE @]

HasRoom(b, p) == b.session[p].open /\ Cardinality(b.session[p].outstanding) < MaxPending

\* The handler is done with a request.
Without(b, r) ==
    [b EXCEPT !.wire = @ \ {r}, !.pending = @ \ {r}, !.tasks = @ \ {r},
              !.session[r.peer].outstanding = @ \ {r}]

Smaller(a, b) == IF a <= b THEN a ELSE b

\* pump_sync and finish_sync.
Pump(b, p) ==
    IF ~HasRoom(b, p) THEN b
    ELSE LET s    == b.session[p]
             n    == Smaller(MaxPending - Cardinality(s.outstanding), Len(s.differing))
             sent == Send(b, "Ids", p, SubSeq(s.differing, 1, n))
             rest == [sent EXCEPT !.session[p].differing = SubSeq(s.differing, n + 1, Len(s.differing))]
         IN  IF rest.session[p].outstanding = {}
             THEN [rest EXCEPT !.session[p] = NoSession]
             ELSE rest

Open == {p \in Peers : session[p].open}

\* start_sync, from books in which p has no session.
Begin(b, p) ==
    Send([b EXCEPT !.session[p].open = TRUE], "Inventory", p, <<NoBucket>>)

MayStart(p) ==
    /\ p \notin Open
    /\ Cardinality(Open) < MaxSessions
    /\ Cardinality(Alive(Books)) <= MaxLate

-----------------------------------------------------------------------------
(* Connections and time.                                                     *)

\* ConnectionEstablished, of a connection that is counted.
Connected(p) ==
    /\ p \notin connected
    /\ connected' = connected \cup {p}
    /\ \/ MayStart(p) /\ Keep(Begin(Books, p))
       \/ ~MayStart(p) /\ UNCHANGED books
    /\ UNCHANGED <<closing, pages>>

\* The pending requests of p are dropped; libp2p still reports on them.
Forgotten(p) == {r \in pending : r.peer # p}

\* ConnectionClosed, of the last connection of p.
Disconnected(p) ==
    /\ p \in connected
    /\ p \in closing \/ "disconnect" \in Upsets
    /\ connected' = connected \ {p}
    /\ closing' = closing \ {p}
    /\ session' = [session EXCEPT ![p] = NoSession]
    /\ pending' = Forgotten(p)
    /\ UNCHANGED <<wire, tasks, pages>>

\* RequestSync, which takes any peer, and start_best_sync_peer.
StartSync(p) ==
    /\ MayStart(p)
    /\ Keep(Begin(Books, p))
    /\ UNCHANGED <<connected, closing, pages>>

\* A snapshot tick finds the session older than MAX_SYNC_DURATION_SECS.
TimeOut(p) ==
    /\ "timeout" \in Upsets
    /\ p \in Open
    /\ session' = [session EXCEPT ![p] = NoSession]
    /\ pending' = Forgotten(p)
    /\ UNCHANGED <<connected, closing, wire, tasks, pages>>

-----------------------------------------------------------------------------
(* handle_sync_event and handle_sync_response.                               *)

\* An answer somebody waits for comes over a connection that is tracked.
Answered(r) == r \in wire \cap pending /\ r.peer \in connected

\* A response nobody waits for any more.
ResponseTooLate(r) ==
    /\ r \in wire \ pending
    /\ wire' = wire \ {r}
    /\ UNCHANGED <<connected, closing, session, pending, tasks, pages>>

\* The request is dropped and the peer disconnected; nothing is pumped.
ResponseOversized(r) ==
    /\ "oversized" \in Upsets
    /\ Answered(r)
    /\ Keep(Without(Books, r))
    /\ closing' = closing \cup {r.peer}
    /\ UNCHANGED <<connected, pages>>

\* An inventory or a page: compared with the database by a blocking task.
ResponseToCompare(r) ==
    /\ Answered(r)
    /\ r.kind # "Records"
    /\ wire' = wire \ {r}
    /\ pending' = pending \ {r}
    /\ tasks' = tasks \cup {r}
    /\ UNCHANGED <<connected, closing, session, pages>>

\* Mistake: a wrong answer does not move the session on.
UnexpectedIsFinal(r) ==
    /\ Answered(r)
    /\ Keep(Without(Books, r))
    /\ UNCHANGED <<connected, closing, pages>>

\* Records, or an answer of another kind than was asked for.
ResponseTaken(r) ==
    /\ Answered(r)
    /\ Keep(Pump(Without(Books, r), r.peer))
    /\ UNCHANGED <<connected, closing, pages>>

\* Mistake: the request stays outstanding in its session.
FailureStaysOutstanding(r) ==
    /\ r \in wire
    /\ Keep(Pump([Books EXCEPT !.wire = @ \ {r}, !.pending = @ \ {r}], r.peer))
    /\ UNCHANGED <<connected, closing, pages>>

\* Mistake: pending_sync is left alone.
FailureStaysPending(r) ==
    /\ r \in wire
    /\ LET b == Without(Books, r) IN Keep(Pump([b EXCEPT !.pending = pending], r.peer))
    /\ UNCHANGED <<connected, closing, pages>>

OutboundFailure(r) ==
    /\ r \in wire
    /\ Keep(Pump(Without(Books, r), r.peer))
    /\ UNCHANGED <<connected, closing, pages>>

-----------------------------------------------------------------------------
(* handle_db_action: the comparison comes back, perhaps to another session   *)
(* of the peer, or to none.                                                  *)

InventoryCompared(r) ==
    /\ r \in tasks /\ r.kind = "Inventory"
    /\ \E S \in SUBSET Buckets :
        LET b == Without(Books, r)
        IN  Keep(Pump(IF r.peer \in Open
                      THEN [b EXCEPT !.session[r.peer].differing = SetToSeq(S)]
                      ELSE b, r.peer))
    /\ UNCHANGED <<connected, closing, pages>>

\* Missing records are asked for in any case, the next page if there is room;
\* else the bucket goes back to the front.
Fetched(b, p, missing) == IF missing THEN Send(b, "Records", p, <<NoBucket>>) ELSE b

\* Mistake: the next page is asked for without a look at the limit.
PageInAnyCase(b, p, bucket) == Send(b, "Ids", p, <<bucket>>)

NextPage(b, p, bucket) ==
    IF HasRoom(b, p) THEN Send(b, "Ids", p, <<bucket>>)
    ELSE IF b.session[p].open
    THEN [b EXCEPT !.session[p].differing = <<bucket>> \o @]
    ELSE b

IdsCompared(r) ==
    /\ r \in tasks /\ r.kind = "Ids"
    /\ \E missing, more \in BOOLEAN :
        LET b == Fetched(Without(Books, r), r.peer, missing)
        IN  /\ more => pages < MaxPages
            /\ pages' = IF more THEN pages + 1 ELSE pages
            /\ Keep(Pump(IF more THEN NextPage(b, r.peer, r.bucket) ELSE b, r.peer))
    /\ UNCHANGED <<connected, closing>>

-----------------------------------------------------------------------------
\* What libp2p does with a request it holds.
Event(r) ==
    \/ ResponseTooLate(r)
    \/ ResponseOversized(r)
    \/ ResponseToCompare(r)
    \/ ResponseTaken(r)
    \/ OutboundFailure(r)

Compared(r) == InventoryCompared(r) \/ IdsCompared(r)

Next ==
    \/ \E p \in Peers : Connected(p) \/ Disconnected(p) \/ StartSync(p) \/ TimeOut(p)
    \/ \E r \in wire : Event(r)
    \/ \E r \in tasks : Compared(r)

\* While there are requests to a peer libp2p goes on reporting on one or the
\* other (it reports on each, which is more than is needed here), blocking
\* tasks end, and a connection that is being closed closes.  Sessions need
\* not start, nor time out.
Fairness ==
    \A p \in Peers :
        /\ WF_vars(\E r \in wire : r.peer = p /\ Event(r))
        /\ WF_vars(\E r \in tasks : r.peer = p /\ Compared(r))
        /\ WF_vars(p \in closing /\ Disconnected(p))

Spec == Init /\ [][Next]_vars

FairSpec == Spec /\ Fairness

-----------------------------------------------------------------------------
(* Properties.                                                               *)

\* A session always waits for something that will come: it has an outstanding
\* request, and libp2p still owes the event of each, or the comparison of its
\* answer is on its way.  Only while its peer is being disconnected may it
\* wait for that alone.  A session that waits for nothing would hold one of
\* the few places until it times out.
SessionAdvances ==
    \A p \in Open :
        /\ session[p].outstanding # {} \/ p \in closing
        /\ \A r \in session[p].outstanding : r \in wire \cap pending \/ r \in tasks

\* pending_sync has no leak: libp2p owes an event for every entry, whatever
\* became of the session that sent it.
PendingIsOwed == pending \subseteq wire

\* The limits hold: simultaneous sessions, and the listings of a peer that
\* are outstanding together.  (Requests for records are sent beyond it.)
WithinLimits ==
    /\ Cardinality(Open) <= MaxSessions
    /\ \A p \in Open :
        Cardinality({r \in session[p].outstanding : r.kind # "Records"}) <= MaxPending

\* The books of the sessions: their shape and their limits.
SessionInv == TypeOK /\ WithinLimits

\* Every session comes to its end, and its place becomes free, through the
\* answers or failures of its requests: the time-out is not needed for a peer
\* that answers or goes away.
SessionEnds == \A p \in Peers : p \in Open ~> p \notin Open
=============================================================================
