----------------------------- MODULE RateLimits -----------------------------
(***************************************************************************)
(* The limits of the network actor on what its peers send and ask for:     *)
(* the token buckets of RateLimiter (network/rate_limit.rs), which refill  *)
(* lazily at the next call, the WindowCounters of swarm.rs, the blocks     *)
(* that a refusal brings, and the responder of the synchronisation, which  *)
(* is limited before it works and again before it answers.                 *)
(*                                                                         *)
(* Tokens are counted in units of 1/Period, so a bucket of Capacity gains  *)
(* Capacity units a tick and a call for n costs n * Period of them.  A     *)
(* bucket that the LRU map does not hold is a full one.                    *)
(***************************************************************************)
EXTENDS Integers

CONSTANTS
    Callers,        \* remote peers
    Source,         \* Source[p]: the ip and prefix ConnectionManager.source_keys has
    NoSource,       \*   of p, or NoSource when p has no counted connection
    Capacity,       \* Capacity[kind]: the limit per Period of a kind of bucket
    WindowLimit,    \* WindowLimit[kind]: the same of a kind of WindowCounter
    Period,         \* bound: ticks of the minute (or hour) a limit is given for
    Sizes,          \* bound: sizes of messages and responses
    BlockTicks,     \* bound: ticks of a block
    MaxTasks,       \* bound: responses of one peer in preparation
    MaxForgets      \* bound: evictions of a caller, and of a window, that matter
                    \*   at once; no other caller's in the meantime

PeerKinds == {"gossip_records", "gossip_bytes", "sync_requests",
              "sync_response_bytes", "invalid"}
SourceKinds == {"ip", "prefix"}
WindowKinds == {"global_records", "attempts"}

Sources == {Source[p] : p \in Callers} \ {NoSource}
Keys == (PeerKinds \X Callers) \cup {<<k, s[k]>> : k \in SourceKinds, s \in Sources}
WindowKeys == {<<"global_records", "all">>} \cup {<<"attempts", s.ip>> : s \in Sources}

ASSUME RateAssumption ==
    /\ Period \in Nat \ {0} /\ BlockTicks \in Nat \ {0} /\ MaxTasks \in Nat
    /\ MaxForgets \in Nat
    /\ Capacity \in [PeerKinds \cup SourceKinds -> Nat]
    /\ WindowLimit \in [WindowKinds -> Nat]
    /\ Sizes \subseteq Nat

VARIABLES
    bucket,         \* Bucket of each key: tokens when updated, ticks since
    window,         \* WindowCounter of each key: calls used, ticks since its start
    blocked,        \* ticks a peer stays in `blocked`
    preparing,      \* tasks that read the database for a response to a peer
    traffic,        \* bound: the only traffic of a behaviour, see Traffics
    debt,           \* history: what a meter that leaks every tick would hold
    forgot,         \* history: evictions of a bucket since its meter was empty
    passed,         \* history: calls a window let pass in this tick and the last t
    forgotten       \* history: evictions of a running window in the same time

metering == <<bucket, debt, forgot>>
windowing == <<window, passed, forgotten>>
rateVars == <<metering, windowing, blocked, preparing, traffic>>

\* Gossip and attempts, or what one caller asks of the responder: no two of
\* these share a key.
Traffics == {"gossip", "attempts"} \cup Callers

Full(k) == Capacity[k[1]] * Period
FreshBucket(k) == [tokens |-> Full(k), age |-> 0]

RateInit ==
    /\ bucket = [k \in Keys |-> FreshBucket(k)]
    /\ window = [w \in WindowKeys |->
                    [used |-> 0, age |-> IF w[1] = "attempts" THEN Period ELSE 0]]
    /\ blocked = [p \in Callers |-> 0]
    /\ preparing = [p \in Callers |-> 0]
    /\ traffic \in Traffics
    /\ debt = [k \in Keys |-> 0]
    /\ forgot = [k \in Keys |-> 0]
    /\ passed = [w \in WindowKeys |-> [t \in 0 .. Period - 1 |-> 0]]
    /\ forgotten = passed

-----------------------------------------------------------------------------
(* Bucket.take and WindowCounter.take.                                       *)

Lesser(a, b) == IF a < b THEN a ELSE b

\* Mistake: the refill is not cut off at the capacity.
RefilledFreely(k) == bucket[k].tokens + bucket[k].age * Capacity[k[1]]

Refilled(k) == Lesser(bucket[k].tokens + bucket[k].age * Capacity[k[1]], Full(k))

Affords(k, n) == Refilled(k) >= n * Period

\* A call asks one bucket for n, or two buckets one after the other (:> and @@
\* of TLC, which the provers do not know).
Ask(k, n) == [j \in {k} |-> n]
AskBoth(f, g) == [k \in DOMAIN f \cup DOMAIN g |-> IF k \in DOMAIN f THEN f[k] ELSE g[k]]

\* The buckets in DOMAIN amount are asked for so much each.  One that refuses
\* keeps its refill, and its clock starts again all the same.
Take(amount) ==
    LET Pays(k) == k \in DOMAIN amount /\ Affords(k, amount[k])
        Price(k) == IF Pays(k) THEN amount[k] * Period ELSE 0
    IN  /\ bucket' = [k \in Keys |->
                        IF k \in DOMAIN amount
                        THEN [tokens |-> Refilled(k) - Price(k), age |-> 0]
                        ELSE bucket[k]]
        /\ debt' = [k \in Keys |-> debt[k] + Price(k)]
        /\ UNCHANGED forgot

Expired(w) == window[w].age >= Period
Used(w) == IF Expired(w) THEN 0 ELSE window[w].used
WindowPasses(w) == Used(w) < WindowLimit[w[1]]

OneMore(counts) == [t \in DOMAIN counts |-> counts[t] + 1]

\* Mistake: an expired window gets a new count, but not a new start.
TakeWindowLate(w) ==
    /\ window' = [window EXCEPT ![w] =
                    [used |-> Used(w) + (IF WindowPasses(w) THEN 1 ELSE 0),
                     age |-> window[w].age]]
    /\ passed' = IF WindowPasses(w) THEN [passed EXCEPT ![w] = OneMore(@)] ELSE passed
    /\ UNCHANGED forgotten

TakeWindow(w) ==
    /\ window' = [window EXCEPT ![w] =
                    [used |-> Used(w) + (IF WindowPasses(w) THEN 1 ELSE 0),
                     age |-> IF Expired(w) THEN 0 ELSE @.age]]
    /\ passed' = IF WindowPasses(w) THEN [passed EXCEPT ![w] = OneMore(@)] ELSE passed
    /\ UNCHANGED forgotten

-----------------------------------------------------------------------------
(* Gossip and records of synchronisation.                                    *)

Block(p) == blocked' = [blocked EXCEPT ![p] = BlockTicks]

\* allow_gossip: the bytes are asked for only if the records allow it.
GossipCalls(p, n) ==
    AskBoth(Ask(<<"gossip_records", p>>, 1),
            IF Affords(<<"gossip_records", p>>, 1) THEN Ask(<<"gossip_bytes", p>>, n)
                                                   ELSE <<>>)

AllowGossip(p, n) ==
    /\ Affords(<<"gossip_records", p>>, 1)
    /\ Affords(<<"gossip_bytes", p>>, n)

\* allow_ingestion_source: both are asked for, whatever the first answers.
IngestionCalls(p) ==
    IF Source[p] = NoSource
    THEN <<>>
    ELSE [k \in {<<kind, Source[p][kind]>> : kind \in SourceKinds} |-> 1]

AllowIngestion(p) ==
    Source[p] # NoSource /\ \A k \in DOMAIN IngestionCalls(p) : Affords(k, 1)

All == <<"global_records", "all">>

\* A blocked peer is refused before it is counted, and blocked again.
GossipBlocked(p) ==
    /\ blocked[p] > 0
    /\ Block(p)
    /\ UNCHANGED <<metering, windowing, preparing, traffic>>

\* The buckets of the peer refuse; the node's window is not asked.
GossipRefused(p, n) ==
    /\ blocked[p] = 0
    /\ ~ AllowGossip(p, n)
    /\ Take(GossipCalls(p, n))
    /\ Block(p)
    /\ UNCHANGED <<windowing, preparing, traffic>>

\* The node has had enough for this minute; the peer pays, and is blocked.
GossipOverloads(p, n) ==
    /\ blocked[p] = 0
    /\ AllowGossip(p, n)
    /\ ~ WindowPasses(All)
    /\ Take(GossipCalls(p, n))
    /\ TakeWindow(All)
    /\ Block(p)
    /\ UNCHANGED <<preparing, traffic>>

\* The rest of validate_gossip: an invalid message is noted and blocks its
\* peer when there were too many or the signature was wrong; a new record
\* asks the limits of its source, a known one ends there.
GossipPasses(p, n, is) ==
    /\ blocked[p] = 0
    /\ AllowGossip(p, n)
    /\ WindowPasses(All)
    /\ TakeWindow(All)
    /\ LET note == <<"invalid", p>>
       IN  /\ Take(AskBoth(GossipCalls(p, n),
                   CASE is = "known" -> <<>>
                     [] is = "new" -> IngestionCalls(p)
                     [] OTHER -> Ask(note, 1)))
           /\ IF \/ is = "new" /\ ~ AllowIngestion(p)
                 \/ is = "malformed" /\ ~ Affords(note, 1)
                 \/ is = "badly signed"
              THEN Block(p)
              ELSE UNCHANGED blocked
    /\ UNCHANGED <<preparing, traffic>>

\* accept_sync_records with one new record.
SyncRecord(p) ==
    /\ Take(IngestionCalls(p))
    /\ IF AllowIngestion(p) THEN UNCHANGED blocked ELSE Block(p)
    /\ UNCHANGED <<windowing, preparing, traffic>>

Gossip ==
    /\ traffic = "gossip"
    /\ \E p \in Callers :
        \/ GossipBlocked(p)
        \/ \E n \in Sizes :
            \/ GossipRefused(p, n)
            \/ GossipOverloads(p, n)
            \/ \E is \in {"known", "new", "malformed", "badly signed"} : GossipPasses(p, n, is)
        \/ SyncRecord(p)

-----------------------------------------------------------------------------
(* The responder and inbound connections.                                    *)

\* prepare_sync_response: a request over the limit or out of bounds is
\* answered at once with an error that is not counted against the peer.
PrepareSyncResponse(p, validates) ==
    LET key == <<"sync_requests", p>>
    IN  /\ Take(Ask(key, 1))
        /\ IF Affords(key, 1) /\ validates
           THEN preparing[p] < MaxTasks /\ preparing' = [preparing EXCEPT ![p] = @ + 1]
           ELSE UNCHANGED preparing
        /\ UNCHANGED <<windowing, blocked, traffic>>

\* The task has read the database, or failed to and made an error of it;
\* SendResponse drops what is over the limit, and the channel with it.
SendResponse(p, n) ==
    /\ preparing[p] > 0
    /\ preparing' = [preparing EXCEPT ![p] = @ - 1]
    /\ Take(Ask(<<"sync_response_bytes", p>>, n))
    /\ UNCHANGED <<windowing, blocked, traffic>>

Sync ==
    \E p \in {traffic} \cap Callers :
        \/ \E validates \in BOOLEAN : PrepareSyncResponse(p, validates)
        \/ \E n \in Sizes : SendResponse(p, n)

\* IncomingConnection asks the window of the address it comes from; what a
\* denied connection goes through is in Connections.
Attempt ==
    /\ traffic = "attempts"
    /\ \E w \in {k \in WindowKeys : k[1] = "attempts"} : TakeWindow(w)
    /\ UNCHANGED <<metering, blocked, preparing, traffic>>

-----------------------------------------------------------------------------
\* The LRU maps forget a peer, with all its buckets, or a source for others;
\* what the peer has had stays with the meter.
ForgetBuckets(ks) ==
    /\ \A k \in Keys : IF k \in ks THEN debt[k] > 0 => forgot[k] < MaxForgets
                                   ELSE forgot[k] = 0
    /\ bucket' = [k \in Keys |-> IF k \in ks THEN FreshBucket(k) ELSE bucket[k]]
    /\ forgot' = [k \in Keys |-> IF k \in ks /\ debt[k] > 0 THEN forgot[k] + 1 ELSE forgot[k]]
    /\ UNCHANGED <<debt, windowing>>

\* A window that has run out is as good as none.
ForgetWindow(w) ==
    /\ ~ Expired(w)
    /\ forgotten[w][Period - 1] < MaxForgets
    /\ window' = [window EXCEPT ![w] = [used |-> 0, age |-> Period]]
    /\ forgotten' = [forgotten EXCEPT ![w] = OneMore(@)]
    /\ UNCHANGED <<passed, metering>>

ForgetCaller ==
    /\ \/ \E p \in Callers : ForgetBuckets({k \in Keys : k[1] \in PeerKinds /\ k[2] = p})
       \/ \E k \in Keys : k[1] \in SourceKinds /\ ForgetBuckets({k})
       \/ \E w \in WindowKeys : w[1] = "attempts" /\ ForgetWindow(w)
    /\ UNCHANGED <<blocked, preparing, traffic>>

\* Time passes.  An age beyond Period makes no difference to any take, nor
\* does the age of a full bucket.
Older(b, k) ==
    [b EXCEPT !.age = IF b.tokens = Full(k) THEN 0 ELSE Lesser(@ + 1, Period)]

Leaked(k) == IF debt[k] > Capacity[k[1]] THEN debt[k] - Capacity[k[1]] ELSE 0

OneTickOn(counts) == [t \in 0 .. Period - 1 |-> IF t = 0 THEN 0 ELSE counts[t - 1]]

RateTick ==
    /\ bucket' = [k \in Keys |-> Older(bucket[k], k)]
    /\ window' = [w \in WindowKeys |-> [window[w] EXCEPT !.age = Lesser(@ + 1, Period)]]
    /\ blocked' = [p \in Callers |-> IF blocked[p] = 0 THEN 0 ELSE blocked[p] - 1]
    /\ debt' = [k \in Keys |-> Leaked(k)]
    /\ forgot' = [k \in Keys |-> IF Leaked(k) = 0 THEN 0 ELSE forgot[k]]
    /\ passed' = [w \in WindowKeys |-> OneTickOn(passed[w])]
    /\ forgotten' = [w \in WindowKeys |-> OneTickOn(forgotten[w])]
    /\ UNCHANGED <<preparing, traffic>>

RateNext == Gossip \/ Sync \/ Attempt \/ ForgetCaller \/ RateTick

RateSpec == RateInit /\ [][RateNext]_rateVars

-----------------------------------------------------------------------------
(* Properties.                                                               *)

\* A bucket that looks at the clock only when it is asked and keeps the
\* fraction it could not spend is at every moment the meter that leaks its
\* Capacity in every Period: what it would give is what the meter has room
\* for.  So over any time a peer gets no more than Capacity plus what has
\* leaked since, and is refused no less.  An eviction breaks that: each one
\* since the meter was empty gives the peer at most one Capacity more.
BucketIsMeter ==
    \A k \in Keys :
        /\ Full(k) <= Refilled(k) + debt[k]
        /\ Refilled(k) + debt[k] <= (1 + forgot[k]) * Full(k)

\* A window starts at a call, not at fixed times, so within one Period two of
\* them may meet: never more than twice the limit passes, and no third.  Each
\* eviction of a running window within that Period lets it pass once more.
WindowBound ==
    \A w \in WindowKeys :
        passed[w][Period - 1] <= (2 + forgotten[w][Period - 1]) * WindowLimit[w[1]]
=============================================================================
