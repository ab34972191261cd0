-------------------------- MODULE SyncConvergence ---------------------------
(***************************************************************************)
(* What synchronisation with one honest peer achieves: inventories are     *)
(* compared by daily bucket, differing buckets are listed page by page,    *)
(* missing records are fetched and handed to the writer (network/swarm.rs, *)
(* handle_sync_response to pump_sync; storage/database.rs, inventory,      *)
(* record_ids, records_by_ids).  What may turn a record away on arrival is *)
(* here: safety mode, the validator, the replay memory, the limit of the   *)
(* source, the writer's queue.  The data matters and the connection holds; *)
(* SyncSession has it the other way round, and the time-out of a session.  *)
(*                                                                         *)
(* Identifiers are numbers, in the order the responder lists them.  The    *)
(* node has nothing the responder has not, and nothing expires or is       *)
(* removed meanwhile.  A commit and its event to the actor are one step,   *)
(* and no entry leaves the caches of the replay memory: RecordPipeline and *)
(* ReplayWindow take these apart.                                          *)
(***************************************************************************)
EXTENDS Replay, SequencesExt

CONSTANTS
    Buckets,        \* days, as numbers
    Store,          \* the responder's identifiers in each bucket
    Record,         \* the record of each identifier
    Initial,        \* what the node has to begin with
    MaxBuckets,     \* MAX_BUCKETS
    PageSize,       \* MAX_IDS_PER_RESPONSE
    MaxRequested,   \* MAX_REQUESTED_RECORDS
    MaxPending,     \* MAX_PENDING_SYNC_REQUESTS_PER_PEER
    QueueCap,       \* PERSISTENCE_QUEUE_CAPACITY
    SourceLimit,    \* INGESTION_RECORDS_PER_IP_PER_MINUTE
    MaxErrors       \* bound: requests, reads and commits that fail, records
                    \* that are not valid, tokens spent by others

NoBucket == 0

Ids == UNION {Store[b] : b \in Buckets}

ASSUME ConvergenceAssumption ==
    /\ Buckets \subseteq Nat \ {0} /\ IsFiniteSet(Buckets)
    /\ \A b \in Buckets : Store[b] \subseteq Nat \ {0} /\ IsFiniteSet(Store[b])
    /\ \A a, b \in Buckets : a # b => Store[a] \cap Store[b] = {}
    /\ Record \in [Ids -> Records]
    /\ \A i, j \in Ids : SameKey(Record[i], Record[j]) => i = j
    /\ Initial \subseteq Ids
    /\ MaxBuckets \in Nat \ {0}
    /\ PageSize \in Nat \ {0} /\ MaxRequested \in Nat \ {0}
    /\ MaxPending \in Nat \ {0} /\ QueueCap \in Nat \ {0}
    /\ SourceLimit \in Nat \ {0} /\ MaxErrors \in Nat

VARIABLES
    have,       \* records in the database
    queue,      \* records accepted and waiting for the writer
    replay,     \* the ReplayState
    allowance,  \* tokens of the peer's address and prefix
    safetyMode, \* storage_safety_mode
    open,       \* there is a session with the peer
    differing,  \* differing_buckets
    out,        \* outstanding requests, with the answer once it was compared
    lost,       \* this session lost an answer or a record
    errors

sessionVars == <<open, differing, out, lost>>
vars == <<have, queue, replay, allowance, safetyMode, sessionVars, errors>>

Requests == [kind : {"Inventory", "Listing", "Fetch"}, bucket : Buckets \cup {NoBucket},
             cursor : Ids \cup {0}, ids : SUBSET Ids]

\* found: the buckets that differ, or the identifiers that are missing.
Outstanding == [req : Requests, compared : BOOLEAN,
                found : SUBSET (Ids \cup Buckets), next : Ids \cup {0}]

TypeOK ==
    /\ have \subseteq Ids
    /\ queue \subseteq Ids /\ Cardinality(queue) <= QueueCap
    /\ replay \in ReplayStates
    /\ allowance \in 0..SourceLimit
    /\ safetyMode \in BOOLEAN
    /\ open \in BOOLEAN
    /\ differing \in Seq(Buckets)
    /\ out \in Seq(Outstanding)
    /\ ~open => out = <<>> /\ differing = <<>>
    /\ lost \in BOOLEAN
    /\ errors \in 0..MaxErrors

Asked(kind, b, c, S) ==
    [req |-> [kind |-> kind, bucket |-> b, cursor |-> c, ids |-> S],
     compared |-> FALSE, found |-> {}, next |-> 0]

Listing(b, c) == Asked("Listing", b, c, {})
Fetch(S) == Asked("Fetch", NoBucket, 0, S)

RecordsOf(S) == {Record[i] : i \in S}

Init ==
    /\ have = Initial
    /\ queue = {}
    /\ LET rows == RecordsOf(Initial)
       IN  replay = AcceptSeeds(LoadPersistent([o \in Origins |-> SetMax({0} \cup SeqsOf(rows, o))],
                                               rows), rows)
    /\ allowance = SourceLimit
    /\ safetyMode = FALSE
    /\ open = FALSE
    /\ differing = <<>>
    /\ out = <<>>
    /\ lost = FALSE
    /\ errors = 0

-----------------------------------------------------------------------------
\* The n first identifiers of S in the responder's order.
First(S, n) == {i \in S : Cardinality({j \in S : j < i}) < n}

\* record_ids and the cursor it returns.
After(b, c) == {i \in Store[b] : i > c}
Page(b, c) == First(After(b, c), PageSize)
NextCursor(b, c) ==
    IF After(b, c) = Page(b, c) THEN 0
    ELSE CHOOSE i \in Page(b, c) : \A j \in Page(b, c) : i >= j

\* The comparison asks the local database for the whole page; records_by_ids
\* refuses more than MaxRequested identifiers, and nothing then counts as
\* present, as when it cannot be read.
Existing(S, read) == IF Cardinality(S) > MaxRequested \/ ~read THEN {} ELSE S \cap have

Missing(S, read) == First(S \ Existing(S, read), MaxRequested)

\* inventory: the days of a set of identifiers, the oldest if there are too
\* many.
Inventory(S) == First({b \in Buckets : Store[b] \cap S # {}}, MaxBuckets)

\* Mistake: a day that the local inventory has too is not looked at.
UnknownDays(read) == {b \in Inventory(Ids) : ~read \/ b \notin Inventory(have)}

\* differing_buckets: the days of the remote inventory that are not in the
\* local one, or with another digest.  A local one that cannot be read is
\* empty.
DifferingBuckets(read) ==
    {b \in Inventory(Ids) : ~read \/ b \notin Inventory(have) \/ ~(Store[b] \subseteq have)}

\* A set of numbers in increasing order.
Sorted(S) == CHOOSE s \in [1..Cardinality(S) -> S] : \A i, j \in DOMAIN s : i < j => s[i] < s[j]

-----------------------------------------------------------------------------
Smaller(a, b) == IF a <= b THEN a ELSE b

\* Counts what goes wrong against its bound.
Counting(wrong) ==
    /\ wrong => errors < MaxErrors
    /\ errors' = IF wrong THEN errors + 1 ELSE errors

\* pump_sync, from the requests and buckets the handler leaves: listings go
\* out while there is room, and a session with nothing left to do is over.
Pump(requests, buckets) ==
    LET room  == IF Len(requests) >= MaxPending THEN 0 ELSE MaxPending - Len(requests)
        n     == Smaller(room, Len(buckets))
        asked == requests \o [k \in 1..n |-> Listing(buckets[k], 0)]
        rest  == SubSeq(buckets, n + 1, Len(buckets))
    IN  /\ out' = asked
        /\ differing' = rest
        /\ open' = (asked # <<>> \/ rest # <<>>)

\* start_sync, by the tick or the user.
StartSync ==
    /\ ~open
    /\ open' = TRUE
    /\ out' = <<Asked("Inventory", NoBucket, 0, {})>>
    /\ lost' = FALSE
    /\ UNCHANGED <<have, queue, replay, allowance, safetyMode, differing, errors>>

\* The peer's inventory arrives and a blocking task compares it.
CompareInventory(k) ==
    /\ out[k].req.kind = "Inventory" /\ ~out[k].compared
    /\ \E read \in BOOLEAN :
           /\ Counting(~read)
           /\ out' = [out EXCEPT ![k].compared = TRUE, ![k].found = DifferingBuckets(read)]
    /\ UNCHANGED <<have, queue, replay, allowance, safetyMode, open, differing, lost>>

InventoryCompared(k) ==
    /\ out[k].req.kind = "Inventory" /\ out[k].compared
    /\ Pump(RemoveAt(out, k), Sorted(out[k].found))
    /\ UNCHANGED <<have, queue, replay, allowance, safetyMode, lost, errors>>

\* A page of identifiers arrives and a blocking task compares it.
CompareIds(k) ==
    LET r == out[k].req
    IN  /\ r.kind = "Listing" /\ ~out[k].compared
        /\ \E read \in BOOLEAN :
               /\ Counting(~read)
               /\ out' = [out EXCEPT ![k].compared = TRUE,
                                     ![k].found = Missing(Page(r.bucket, r.cursor), read),
                                     ![k].next = NextCursor(r.bucket, r.cursor)]
        /\ UNCHANGED <<have, queue, replay, allowance, safetyMode, open, differing, lost>>

\* Mistake: records are asked for even when none is missing.
FetchAlways(k) ==
    LET r       == out[k].req
        fetched == Append(RemoveAt(out, k), Fetch(out[k].found))
        more    == out[k].next # 0
        room    == Len(fetched) < MaxPending
    IN  /\ r.kind = "Listing" /\ out[k].compared
        /\ Pump(IF more /\ room THEN Append(fetched, Listing(r.bucket, out[k].next)) ELSE fetched,
                IF more /\ ~room THEN <<r.bucket>> \o differing ELSE differing)
        /\ UNCHANGED <<have, queue, replay, allowance, safetyMode, lost, errors>>

\* Mistake: without room the next page is dropped.
DropNextPage(k) ==
    LET r       == out[k].req
        others  == RemoveAt(out, k)
        fetched == IF out[k].found = {} THEN others ELSE Append(others, Fetch(out[k].found))
        more    == out[k].next # 0
        room    == Len(fetched) < MaxPending
    IN  /\ r.kind = "Listing" /\ out[k].compared
        /\ Pump(IF more /\ room THEN Append(fetched, Listing(r.bucket, out[k].next)) ELSE fetched,
                differing)
        /\ UNCHANGED <<have, queue, replay, allowance, safetyMode, lost, errors>>

\* The missing records are asked for whatever is outstanding; the next page
\* only if there is room, else the bucket is listed again from its start.
IdsCompared(k) ==
    LET r       == out[k].req
        others  == RemoveAt(out, k)
        fetched == IF out[k].found = {} THEN others ELSE Append(others, Fetch(out[k].found))
        more    == out[k].next # 0
        room    == Len(fetched) < MaxPending
    IN  /\ r.kind = "Listing" /\ out[k].compared
        /\ Pump(IF more /\ room THEN Append(fetched, Listing(r.bucket, out[k].next)) ELSE fetched,
                IF more /\ ~room THEN <<r.bucket>> \o differing ELSE differing)
        /\ UNCHANGED <<have, queue, replay, allowance, safetyMode, lost, errors>>

\* accept_sync_records: in safety mode nothing is taken.  Else the valid
\* records that are new to the replay memory are, each for a token of the
\* source, until there is no token or no room for one; a token is spent on
\* the record that finds the queue full too.  A source without a token is
\* blocked as well, which ends neither its connection nor the session.
ReceiveRecords(k) ==
    LET asked == out[k].req.ids
        room  == QueueCap - Cardinality(queue)
    IN  /\ out[k].req.kind = "Fetch"
        /\ \E valid \in SUBSET asked :
               LET new   == {i \in valid : ~safetyMode /\ Check(replay, Record[i]) = "New"}
                   taken == First(new, Smaller(allowance, room))
               IN  /\ Counting(valid # asked)
                   /\ queue' = queue \cup taken
                   /\ replay' = [replay EXCEPT !.recent = @ \cup RecordsOf(taken)]
                   /\ allowance' = allowance - Smaller(allowance,
                                                       Smaller(Cardinality(new), room + 1))
                   /\ lost' = (lost \/ ~(asked \subseteq have \cup queue \cup taken))
        /\ Pump(RemoveAt(out, k), differing)
        /\ UNCHANGED <<have, safetyMode>>

\* OutboundFailure, or an Error or Busy response.
RequestFails(k) ==
    /\ ~out[k].compared
    /\ Counting(TRUE)
    /\ lost' = TRUE
    /\ Pump(RemoveAt(out, k), differing)
    /\ UNCHANGED <<have, queue, replay, allowance, safetyMode>>

\* The writer commits a record and the actor accepts it.
Commit ==
    /\ \E i \in queue :
           /\ have' = have \cup {i} /\ queue' = queue \ {i}
           /\ replay' = Accept(replay, Record[i])
    /\ UNCHANGED <<allowance, safetyMode, sessionVars, errors>>

\* A batch fails: its records are forgotten, and safety mode begins.
BatchFails ==
    /\ Counting(TRUE)
    /\ \E batch \in SUBSET queue :
           /\ batch # {}
           /\ queue' = queue \ batch
           /\ replay' = [replay EXCEPT !.recent = @ \ RecordsOf(batch)]
    /\ safetyMode' = TRUE
    /\ lost' = TRUE
    /\ UNCHANGED <<have, allowance, open, differing, out>>

\* Maintenance finds the storage unsafe, or safe again.
TurnUnsafe ==
    /\ Counting(TRUE)
    /\ safetyMode' = TRUE
    /\ UNCHANGED <<have, queue, replay, allowance, sessionVars>>

TurnSafe ==
    /\ safetyMode' = FALSE
    /\ UNCHANGED <<have, queue, replay, allowance, sessionVars, errors>>

\* The source gains a token; other traffic of the source spends one.
Refill ==
    /\ allowance < SourceLimit
    /\ allowance' = allowance + 1
    /\ UNCHANGED <<have, queue, replay, safetyMode, sessionVars, errors>>

SpendElsewhere ==
    /\ allowance > 0
    /\ Counting(TRUE)
    /\ allowance' = allowance - 1
    /\ UNCHANGED <<have, queue, replay, safetyMode, sessionVars>>

Answer(k) ==
    /\ k \in DOMAIN out
    /\ \/ CompareInventory(k) \/ InventoryCompared(k)
       \/ CompareIds(k) \/ IdsCompared(k)
       \/ ReceiveRecords(k)

Next ==
    \/ StartSync
    \/ \E k \in DOMAIN out : Answer(k) \/ RequestFails(k)
    \/ Commit
    \/ BatchFails
    \/ TurnUnsafe \/ TurnSafe
    \/ Refill \/ SpendElsewhere

\* The sync tick starts sessions, every request is answered or fails, so the
\* oldest is, the writer thread runs, buckets refill with time, and the
\* periodic maintenance finds a storage safe that is so.
Fairness ==
    /\ WF_vars(StartSync) /\ WF_vars(Answer(1)) /\ WF_vars(Commit)
    /\ WF_vars(Refill) /\ WF_vars(TurnSafe)

Spec == Init /\ [][Next]_vars

FairSpec == Spec /\ Fairness

-----------------------------------------------------------------------------
(* Properties.                                                               *)

\* Every request for records can be answered: it names some, and no more than
\* the responder's validate lets through.  One that does not would be refused
\* in every session anew.
WithinLimits ==
    \A k \in DOMAIN out : out[k].req.kind = "Fetch" =>
        Cardinality(out[k].req.ids) \in 1..MaxRequested

\* The exchange: its shape, and requests that can be answered.
ExchangeInv == TypeOK /\ WithinLimits

\* The cursors a bucket is listed from: the least set with 0 and the next
\* of each.
Cursors(b) ==
    {c \in Ids \cup {0} :
        \A C \in SUBSET (Store[b] \cup {0}) :
            0 \in C /\ (\A d \in C : NextCursor(b, d) \in C) => c \in C}

\* The identifiers an inventory offers, and those no session asks for: on
\* their page they come after as many as one request may name.
Offered == UNION {Store[b] : b \in Inventory(Ids)}
Beyond ==
    {i \in Ids : \E b \in Buckets : \E c \in Cursors(b) :
        i \in Page(b, c) \ First(Page(b, c), MaxRequested)}

\* A session that runs to its end, with no answer lost and no record turned
\* away by safety mode, validator, replay memory, source limit, queue or
\* writer, leaves nothing behind of what the responder offers, but for
\* identifiers far down a long page: paging, the limit of outstanding
\* requests and buckets put back do not skip a page.
SessionIsComplete ==
    [][open /\ ~open' /\ ~lost' => Offered \ Beyond \subseteq have' \cup queue']_vars

\* Repeated sessions bring the node what the peer offers and a request may
\* name, except for what the replay memory shuts out for good because later
\* records of its origin came first: failed requests, reads and batches,
\* safety mode, an exhausted source and a full queue only delay it.  This as
\* long as sessions come to an end again and again: each time the next page
\* of a bucket finds no room the bucket is listed again from its start, and
\* if all its pages are long, so that its first is fetched anew, an order of
\* answers exists that repeats this forever.
Converges ==
    []<>(~open) =>
        <>(\A i \in Offered \ Beyond : i \in have \/ Check(replay, Record[i]) = "TooOld")

\* Repeated sessions bring the node everything the peer has, as the tests of
\* synchronisation expect ("did not converge", tests/p2p_integration.rs:420
\* and 502).
BringsEverything == <>(Ids \subseteq have)
=============================================================================
