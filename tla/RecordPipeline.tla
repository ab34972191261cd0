--------------------------- MODULE RecordPipeline ---------------------------
(***************************************************************************)
(* The way of a record through a node: signed locally, or received by      *)
(* gossip or synchronisation, it passes the replay check, waits in the     *)
(* bounded queue of the SQLite writer thread, is committed in a batch, and *)
(* comes back to the network actor as an event.  Only then is it vouched   *)
(* for: a gossip message is accepted, a local record published.            *)
(*                                                                         *)
(* The actor (network/swarm.rs) is one task, so each of its handlers is    *)
(* one action.  The writer thread (storage/worker.rs), the signer task and *)
(* the database run beside it.                                             *)
(***************************************************************************)
EXTENDS Replay, Sequences

CONSTANTS
    Peers, NoPeer,          \* remote peers; no source: the record is local
    Identities, NoIdentity, \* key pairs this node may generate; no key file
    Files,                  \* what the user flags
    RemoteRecords,          \* records that other nodes gossip and serve
    MaxMessages,            \* bound: gossip messages that arrive
    MaxResponse,            \* bound: records of one sync response
    QueueCap,               \* PERSISTENCE_QUEUE_CAPACITY, of queue and events
    MaxBatch,               \* MAX_BATCH
    SignCap,                \* capacity of the signer's two channels
    LoadOutcomes,           \* which start-up reads of the database succeed
    Upsets                  \* bound: the disturbances of a run, see UpsetKinds

\* The environment may do all of these; a model-checking run takes some.
UpsetKinds == {"crash", "reset", "shutdown", "upkeep", "remove", "unblock",
               "evict", "refuse"}

ASSUME PipelineAssumption ==
    /\ NoPeer \notin Peers
    /\ NoIdentity \notin Identities
    /\ Identities \subseteq Origins
    /\ Files \subseteq Bodies
    /\ RemoteRecords \subseteq Records
    /\ MaxMessages \in Nat
    /\ MaxResponse \in Nat
    /\ QueueCap \in Nat \ {0}
    /\ MaxBatch \in Nat \ {0}
    /\ SignCap \in Nat \ {0}
    /\ LoadOutcomes \subseteq SUBSET {"highest", "ids", "seeds"}
    /\ Upsets \subseteq UpsetKinds

Elements(s) == {s[k] : k \in DOMAIN s}

Messages == 1..MaxMessages
NoMessage == 0

\* PersistRequest and PersistEvent: a record, the peer it came from, and the
\* gossip message that waits for its verdict.
Request == [rec : Records, source : Peers \cup {NoPeer},
            msg : Messages \cup {NoMessage}]

Reply == [kind : {"Stored", "Duplicate", "Failed"}, req : Request]

VARIABLES
    phase,      \* of the process and its actor, see Phases
    identity,   \* the key file
    born,       \* identities generated so far
    safety,     \* storage_safety_mode
    blocked,    \* peers the actor has blocked
    replay,     \* ReplayState
    toSign,     \* sign requests waiting for the signer
    signed,     \* signed records waiting for the actor
    queue,      \* persistence queue
    batch,      \* requests the writer has taken and not committed
    replies,    \* outcomes of the committed batch, not yet sent
    events,     \* persistence events waiting for the actor
    db,         \* records table
    highest,    \* origin_sequences table
    localSeq,   \* local sequence counters in the metadata table
    upkeep,     \* result of the maintenance task on its way to the actor
    message,    \* the gossip messages that arrived: the record of each
    verdict,    \* what gossipsub was told of each message
    flag,       \* what became of each file the user flagged
    published,  \* local records handed to gossipsub
    durable     \* every record the database ever committed

actorVars  == <<phase, identity, born, safety, blocked>>
signerVars == <<toSign, signed>>
writerVars == <<queue, batch, replies, events>>
diskVars   == <<db, highest, localSeq>>
netVars    == <<message, verdict, flag, published>>
vars == <<actorVars, replay, signerVars, writerVars, diskVars, upkeep, netVars,
          durable>>

\* clearing: the actor has returned Reset; cleared: clear_identity_state is
\* done and identity_store.reset is not; stopped: run_engine has returned and
\* the process still runs; down: there is no process.
Phases == {"running", "clearing", "cleared", "stopped", "down"}

\* lost: the swarm the message belonged to is gone.
Final == {"Accept", "Ignore", "Reject"}
Verdicts == Final \cup {"none", "pending", "lost"}

\* refused: a ProtocolViolation event said so; orphaned: stored under an
\* identity that was reset meanwhile; swallowed: the database had the key.
FlagOutcomes == {"idle", "asked", "refused", "published", "orphaned",
                 "swallowed", "abandoned"}

TypeOK ==
    /\ phase \in Phases
    /\ identity \in Identities \cup {NoIdentity}
    /\ phase = "running" => identity # NoIdentity
    /\ born \subseteq Identities
    /\ safety \in BOOLEAN
    /\ blocked \subseteq Peers
    /\ replay \in ReplayStates
    /\ toSign \in Seq(Files)
    /\ signed \in Seq(Records)
    /\ queue \in Seq(Request)
    /\ batch \in Seq(Request)
    /\ replies \in Seq(Reply)
    /\ events \in Seq(Reply)
    /\ db \subseteq Records
    /\ highest \in [Origins -> Sequences]
    /\ localSeq \in [Identities -> Sequences]
    /\ upkeep \in {"none", "safe", "unsafe"}
    /\ message \in Seq(Records) /\ Len(message) <= MaxMessages
    /\ verdict \in [Messages -> Verdicts]
    /\ flag \in [Files -> FlagOutcomes]
    /\ published \subseteq Records
    /\ durable \subseteq Records

\* A fresh installation that has not been started.
Init ==
    /\ phase = "down"
    /\ identity = NoIdentity
    /\ born = {}
    /\ safety = FALSE
    /\ blocked = {}
    /\ replay = EmptyReplay
    /\ toSign = <<>> /\ signed = <<>>
    /\ queue = <<>> /\ batch = <<>> /\ replies = <<>> /\ events = <<>>
    /\ db = {}
    /\ highest = [o \in Origins |-> 0]
    /\ localSeq = [i \in Identities |-> 0]
    /\ upkeep = "none"
    /\ message = <<>>
    /\ verdict = [m \in Messages |-> "none"]
    /\ flag = [f \in Files |-> "idle"]
    /\ published = {}
    /\ durable = {}

-----------------------------------------------------------------------------
(* The life of the process: start, identity reset, shutdown, crash.         *)

\* Mistake: only the highest sequences are read back.
LoadedHighestOnly(reads) == LoadPersistent(highest, {})

\* Each of the three reads may fail; `unwrap_or_default` then starts empty.
LoadedReplay(reads) ==
    AcceptSeeds(LoadPersistent(IF "highest" \in reads THEN highest
                                                      ELSE [o \in Origins |-> 0],
                               IF "ids" \in reads THEN db ELSE {}),
                IF "seeds" \in reads THEN db ELSE {})

\* run_swarm up to its loop.
StartSwarm(i) ==
    /\ phase' = "running"
    /\ identity' = i
    /\ born' = born \cup {i}
    /\ safety' \in BOOLEAN
    /\ blocked' = {}
    /\ \E reads \in LoadOutcomes : replay' = LoadedReplay(reads)

\* load_or_create: the stored identity, or a new one.
StoredOrNew == IF identity = NoIdentity THEN Identities \ born ELSE {identity}

Start ==
    /\ phase = "down"
    /\ \E i \in StoredOrNew : StartSwarm(i)
    /\ UNCHANGED <<signerVars, writerVars, diskVars, upkeep, netVars, durable>>

\* What is lost with a swarm: the messages it holds for validation, the
\* signer's queues and the channel of database actions.
DropSwarm ==
    /\ toSign' = <<>> /\ signed' = <<>>
    /\ upkeep' = "none"
    /\ verdict' = [m \in Messages |->
                     IF verdict[m] = "pending" THEN "lost" ELSE verdict[m]]

\* Flags whose record the signer still holds, and every flag not yet answered.
AtSigner == Elements(toSign) \cup {r.body : r \in Elements(signed)}
Unanswered == {f \in Files : flag[f] = "asked"}

Abandon(S) == flag' = [f \in Files |-> IF f \in S THEN "abandoned" ELSE flag[f]]

\* The ResetIdentity command: the loop returns and the actor is dropped; the
\* writer thread keeps its queue.
ResetIdentity ==
    /\ "reset" \in Upsets
    /\ phase = "running"
    /\ phase' = "clearing"
    /\ DropSwarm
    /\ Abandon(AtSigner)
    /\ UNCHANGED <<identity, born, safety, blocked, replay, writerVars,
                   diskVars, message, published, durable>>

ClearIdentityState ==
    /\ phase = "clearing"
    /\ phase' = "cleared"
    /\ localSeq' = [i \in Identities |-> 0]
    /\ UNCHANGED <<identity, born, safety, blocked, replay, signerVars,
                   writerVars, db, highest, upkeep, netVars, durable>>

NewIdentity ==
    /\ phase = "cleared"
    /\ \E i \in Identities \ born : StartSwarm(i)
    /\ UNCHANGED <<signerVars, writerVars, diskVars, upkeep, netVars, durable>>

\* Either step of the reset fails and run_engine returns the error, which the
\* user sees as "network task stopped".  The key file is still the old one,
\* or already removed.
ResetFails ==
    /\ phase \in {"clearing", "cleared"}
    /\ phase' = "stopped"
    /\ \/ identity' = identity
       \/ phase = "cleared" /\ identity' = NoIdentity
    /\ Abandon(Unanswered)
    /\ UNCHANGED <<born, safety, blocked, replay, signerVars, writerVars,
                   diskVars, upkeep, message, verdict, published, durable>>

Shutdown ==
    /\ "shutdown" \in Upsets
    /\ phase = "running"
    /\ phase' = "stopped"
    /\ DropSwarm
    /\ Abandon(Unanswered)
    /\ UNCHANGED <<identity, born, safety, blocked, replay, writerVars,
                   diskVars, message, published, durable>>

\* The process ends, after a shutdown or at any moment: what the database
\* and the key file hold is all that is left.
Crash ==
    /\ "crash" \in Upsets
    /\ phase # "down"
    /\ phase' = "down"
    /\ DropSwarm
    /\ Abandon(Unanswered)
    /\ queue' = <<>> /\ batch' = <<>> /\ replies' = <<>> /\ events' = <<>>
    /\ replay' = EmptyReplay
    /\ blocked' = {}
    /\ \/ identity' = identity
       \/ phase = "cleared" /\ identity' = NoIdentity
    /\ UNCHANGED <<born, safety, diskVars, message, published, durable>>

-----------------------------------------------------------------------------
(* The queue in front of the writer thread.                                 *)

\* try_enqueue succeeds.
HasRoom == Len(queue) < QueueCap
Enqueue(req) == queue' = Append(queue, req)

Report(m, v) ==
    verdict' = IF m = NoMessage \/ verdict[m] = "lost" THEN verdict
               ELSE [verdict EXCEPT ![m] = v]

-----------------------------------------------------------------------------
(* Local records: PublishFile, the signer task, handle_signed_record.       *)

Answer(f, outcome) == flag' = [flag EXCEPT ![f] = outcome]

PublishFile(f) ==
    /\ phase = "running"
    /\ flag[f] = "idle"
    /\ IF safety \/ Len(toSign) >= SignCap
       THEN Answer(f, "refused") /\ UNCHANGED toSign
       ELSE Answer(f, "asked") /\ toSign' = Append(toSign, f)
    /\ UNCHANGED <<actorVars, replay, signed, writerVars, diskVars, upkeep,
                   message, verdict, published, durable>>

\* The signer takes one request at a time: the next sequence number of the
\* identity is committed, the record is signed with it.  Its result waits
\* for room in the second channel.
Sign ==
    /\ phase = "running"
    /\ toSign # <<>> /\ Len(signed) < SignCap
    /\ localSeq[identity] < MaxSeq
    /\ toSign' = Tail(toSign)
    /\ localSeq' = [localSeq EXCEPT ![identity] = @ + 1]
    /\ signed' = Append(signed, [origin |-> identity,
                                 seq    |-> localSeq[identity] + 1,
                                 body   |-> Head(toSign)])
    /\ UNCHANGED <<actorVars, replay, writerVars, db, highest, upkeep, netVars,
                   durable>>

\* Signing or the sequence counter fails; the actor reports it when it gets
\* the result.
SignFails ==
    /\ phase = "running"
    /\ toSign # <<>> /\ Len(signed) < SignCap
    /\ toSign' = Tail(toSign)
    /\ Answer(Head(toSign), "refused")
    /\ UNCHANGED <<actorVars, replay, signed, writerVars, diskVars, upkeep,
                   message, verdict, published, durable>>

\* Mistake: the record goes out while the writer has it.
PublishBeforeCommit ==
    /\ phase = "running"
    /\ signed # <<>>
    /\ HasRoom
    /\ signed' = Tail(signed)
    /\ Enqueue([rec |-> Head(signed), source |-> NoPeer, msg |-> NoMessage])
    /\ published' = published \cup {Head(signed)}
    /\ UNCHANGED <<actorVars, replay, toSign, batch, replies, events, diskVars,
                   upkeep, message, verdict, flag, durable>>

\* Mistake: a full queue drops the record and says nothing.
DropSignedRecord ==
    /\ phase = "running"
    /\ signed # <<>>
    /\ signed' = Tail(signed)
    /\ IF safety \/ ~HasRoom THEN UNCHANGED queue
       ELSE Enqueue([rec |-> Head(signed), source |-> NoPeer, msg |-> NoMessage])
    /\ UNCHANGED <<actorVars, replay, toSign, batch, replies, events, diskVars,
                   upkeep, netVars, durable>>

\* A local record is not marked pending in the replay state.
HandleSignedRecord ==
    /\ phase = "running"
    /\ signed # <<>>
    /\ signed' = Tail(signed)
    /\ LET r == Head(signed)
       IN  IF safety \/ ~HasRoom
           THEN Answer(r.body, "refused") /\ UNCHANGED queue
           ELSE /\ Enqueue([rec |-> r, source |-> NoPeer, msg |-> NoMessage])
                /\ UNCHANGED flag
    /\ UNCHANGED <<actorVars, replay, toSign, batch, replies, events, diskVars,
                   upkeep, message, verdict, published, durable>>

-----------------------------------------------------------------------------
(* Gossip: validate_gossip, one action for each way it ends.  What the rate  *)
(* limiters answer is left open.                                            *)

Arrive(p, r) ==
    /\ phase = "running"
    /\ Len(message) < MaxMessages
    /\ message' = Append(message, r)
    /\ UNCHANGED <<phase, identity, born, safety, signerVars, batch, replies,
                   events, diskVars, upkeep, flag, published, durable>>

This == Len(message) + 1

Gated(p) == safety \/ p \in blocked

\* Safety mode, a blocked source or a rate limit: Reject and block.
GossipGated(p, r) ==
    /\ Gated(p) \/ "refuse" \in Upsets
    /\ Arrive(p, r)
    /\ Report(This, "Reject")
    /\ blocked' = blocked \cup {p}
    /\ UNCHANGED <<replay, queue>>

\* Not a valid record; a bad signature or too many of them block the source.
GossipInvalid(p, r) ==
    /\ "refuse" \in Upsets
    /\ Arrive(p, r)
    /\ ~Gated(p)
    /\ Report(This, "Reject")
    /\ blocked' \in {blocked, blocked \cup {p}}
    /\ UNCHANGED <<replay, queue>>

GossipSeen(p, r) ==
    /\ Arrive(p, r)
    /\ ~Gated(p)
    /\ Check(replay, r) = "Duplicate"
    /\ Report(This, "Ignore")
    /\ UNCHANGED <<blocked, replay, queue>>

GossipTooOld(p, r) ==
    /\ Arrive(p, r)
    /\ ~Gated(p)
    /\ Check(replay, r) = "TooOld"
    /\ Report(This, "Reject")
    /\ UNCHANGED <<blocked, replay, queue>>

\* allow_ingestion_source refuses: the source is blocked, not disconnected.
GossipOverLimit(p, r) ==
    /\ "refuse" \in Upsets
    /\ Arrive(p, r)
    /\ ~Gated(p)
    /\ Check(replay, r) = "New"
    /\ Report(This, "Reject")
    /\ blocked' = blocked \cup {p}
    /\ UNCHANGED <<replay, queue>>

\* Mistake: the message is ignored at once, and accepted after the commit.
AnswerTwice(p, r) ==
    /\ Arrive(p, r)
    /\ ~Gated(p)
    /\ Check(replay, r) = "New"
    /\ HasRoom
    /\ Enqueue([rec |-> r, source |-> p, msg |-> This])
    /\ replay' = MarkPending(replay, r)
    /\ Report(This, "Ignore")
    /\ UNCHANGED blocked

GossipQueued(p, r) ==
    /\ Arrive(p, r)
    /\ ~Gated(p)
    /\ Check(replay, r) = "New"
    /\ HasRoom
    /\ Enqueue([rec |-> r, source |-> p, msg |-> This])
    /\ replay' = MarkPending(replay, r)
    /\ verdict' = [verdict EXCEPT ![This] = "pending"]
    /\ UNCHANGED blocked

\* Mistake: the id is marked pending although the queue is full.
MarkSaturated(p, r) ==
    /\ Arrive(p, r)
    /\ ~Gated(p)
    /\ Check(replay, r) = "New"
    /\ ~HasRoom
    /\ Report(This, "Ignore")
    /\ replay' = MarkPending(replay, r)
    /\ UNCHANGED <<blocked, queue>>

GossipSaturated(p, r) ==
    /\ Arrive(p, r)
    /\ ~Gated(p)
    /\ Check(replay, r) = "New"
    /\ ~HasRoom
    /\ Report(This, "Ignore")
    /\ UNCHANGED <<blocked, replay, queue>>

ValidateGossip(p, r) ==
    \/ GossipGated(p, r)
    \/ GossipInvalid(p, r)
    \/ GossipSeen(p, r)
    \/ GossipTooOld(p, r)
    \/ GossipOverLimit(p, r)
    \/ GossipQueued(p, r)
    \/ GossipSaturated(p, r)

-----------------------------------------------------------------------------
(* Synchronisation: accept_sync_records.  The limiter or a full queue ends   *)
(* the loop over the response, after n of its new records.                   *)

\* A second copy of a record in a response is a duplicate: copies left out.
Responses == UNION {{s \in [1..n -> RemoteRecords] :
                        \A j, k \in 1..n : s[j] = s[k] => j = k} : n \in 1..MaxResponse}

Fresh(resp) == {k \in DOMAIN resp : Check(replay, resp[k]) = "New"}

\* The first n places of the response with a new record, in their order.
Leading(resp, n) ==
    {idx \in [1..n -> Fresh(resp)] :
        \A i \in 1..n : {k \in Fresh(resp) : k < idx[i]} = {idx[j] : j \in 1..(i - 1)}}

AcceptSyncRecords(p, resp) ==
    /\ phase = "running"
    /\ ~safety
    /\ \E n \in 0..Len(resp) : \E idx \in Leading(resp, n) :
        LET taken == {idx[i] : i \in 1..n}
            all   == taken = Fresh(resp)
            full  == Len(queue) + n = QueueCap
        IN  /\ Len(queue) + n <= QueueCap
            /\ queue' = queue \o [i \in 1..n |-> [rec    |-> resp[idx[i]],
                                                 source |-> p,
                                                 msg    |-> NoMessage]]
            /\ replay' = [replay EXCEPT !.recent = @ \cup {resp[k] : k \in taken}]
            /\ \/ (all \/ full) /\ UNCHANGED blocked
               \/ ~all /\ "refuse" \in Upsets /\ blocked' = blocked \cup {p}
    /\ UNCHANGED <<phase, identity, born, safety, signerVars, batch, replies,
                   events, diskVars, upkeep, netVars, durable>>

-----------------------------------------------------------------------------
(* The writer thread and the database.                                       *)

WriterTake ==
    /\ phase # "down"
    /\ queue # <<>> /\ replies = <<>>
    /\ Len(batch) < MaxBatch
    /\ batch' = Append(batch, Head(queue))
    /\ queue' = Tail(queue)
    /\ UNCHANGED <<actorVars, replay, signerVars, replies, events, diskVars,
                   upkeep, netVars, durable>>

\* Mistake: the keys are looked up before the batch, not row by row.
NotInTable(k) == \A s \in db : ~SameKey(s, batch[k].rec)

\* INSERT OR IGNORE, one record of the batch after the other: a row goes in
\* unless the table, or the batch before it, has its key.
Inserted(k) ==
    /\ \A s \in db : ~SameKey(s, batch[k].rec)
    /\ \A j \in 1..(k - 1) : ~SameKey(batch[j].rec, batch[k].rec)

NewRows == {batch[k].rec : k \in {j \in DOMAIN batch : Inserted(j)}}

\* insert_batch commits all of the batch; the batch delay may end it early.
WriterCommit ==
    /\ phase # "down"
    /\ batch # <<>> /\ replies = <<>>
    /\ db' = db \cup NewRows
    /\ durable' = durable \cup NewRows
    /\ highest' = [o \in Origins |-> SetMax({highest[o]} \cup SeqsOf(NewRows, o))]
    /\ replies' = [k \in 1..Len(batch) |->
                     [kind |-> IF Inserted(k) THEN "Stored" ELSE "Duplicate",
                      req  |-> batch[k]]]
    /\ batch' = <<>>
    /\ UNCHANGED <<actorVars, replay, signerVars, queue, events, localSeq,
                   upkeep, netVars>>

\* ensure_capacity or the transaction fails: nothing of the batch is stored.
WriterFail ==
    /\ phase # "down"
    /\ batch # <<>> /\ replies = <<>>
    /\ replies' = [k \in 1..Len(batch) |-> [kind |-> "Failed", req |-> batch[k]]]
    /\ batch' = <<>>
    /\ UNCHANGED <<actorVars, replay, signerVars, queue, events, diskVars,
                   upkeep, netVars, durable>>

\* The events go out one by one and wait for room; once run_engine has
\* returned there is no receiver and the thread ends at its next event.
WriterSend ==
    /\ phase \in {"running", "clearing", "cleared"}
    /\ replies # <<>> /\ Len(events) < QueueCap
    /\ events' = Append(events, Head(replies))
    /\ replies' = Tail(replies)
    /\ UNCHANGED <<actorVars, replay, signerVars, queue, batch, diskVars,
                   upkeep, netVars, durable>>

-----------------------------------------------------------------------------
(* handle_persisted, one action for each kind of event.                      *)

NextEvent(kind) ==
    /\ phase = "running"
    /\ events # <<>> /\ Head(events).kind = kind
    /\ events' = Tail(events)
    /\ UNCHANGED <<phase, identity, born, blocked, signerVars, queue, batch,
                   replies, diskVars, upkeep, message, durable>>

Done == Head(events).req

\* Received from a peer: gossip is accepted, the user is told.
HandleStoredRemote ==
    /\ NextEvent("Stored")
    /\ Done.source # NoPeer
    /\ replay' = Accept(replay, Done.rec)
    /\ Report(Done.msg, "Accept")
    /\ UNCHANGED <<safety, flag, published>>

\* Mistake: published under whatever identity the node has now.
PublishAnyIdentity ==
    /\ NextEvent("Stored")
    /\ Done.source = NoPeer
    /\ replay' = Accept(replay, Done.rec)
    /\ Answer(Done.rec.body, "published")
    /\ published' = published \cup {Done.rec}
    /\ UNCHANGED <<safety, verdict>>

\* Signed here: published, unless the identity has changed meanwhile.
HandleStoredLocal ==
    /\ NextEvent("Stored")
    /\ Done.source = NoPeer
    /\ replay' = Accept(replay, Done.rec)
    /\ \/ /\ Done.rec.origin # identity
          /\ Answer(Done.rec.body, "orphaned")
          /\ UNCHANGED published
       \/ /\ Done.rec.origin = identity
          /\ Answer(Done.rec.body, "published")
          /\ published' = published \cup {Done.rec}
       \/ /\ Done.rec.origin = identity     \* gossipsub refuses it
          /\ Answer(Done.rec.body, "refused")
          /\ UNCHANGED published
    /\ UNCHANGED <<safety, verdict>>

\* Mistake: gossipsub is not told of a duplicate.
DuplicateSilent ==
    /\ NextEvent("Duplicate")
    /\ replay' = Accept(replay, Done.rec)
    /\ IF Done.source = NoPeer THEN Answer(Done.rec.body, "swallowed")
                               ELSE UNCHANGED flag
    /\ UNCHANGED <<safety, verdict, published>>

\* Nobody is told that a local record was a duplicate.
HandleDuplicate ==
    /\ NextEvent("Duplicate")
    /\ replay' = Accept(replay, Done.rec)
    /\ Report(Done.msg, "Ignore")
    /\ IF Done.source = NoPeer THEN Answer(Done.rec.body, "swallowed")
                               ELSE UNCHANGED flag
    /\ UNCHANGED <<safety, published>>

\* Mistake: the id of a record that was not stored stays known.
FailedStaysKnown ==
    /\ NextEvent("Failed")
    /\ safety' = TRUE
    /\ Report(Done.msg, "Ignore")
    /\ IF Done.source = NoPeer THEN Answer(Done.rec.body, "refused")
                               ELSE UNCHANGED flag
    /\ UNCHANGED <<replay, published>>

\* Mistake: the message is forwarded although its record was not stored.
FailedAccepts ==
    /\ NextEvent("Failed")
    /\ replay' = Forget(replay, Done.rec)
    /\ safety' = TRUE
    /\ Report(Done.msg, "Accept")
    /\ IF Done.source = NoPeer THEN Answer(Done.rec.body, "refused")
                               ELSE UNCHANGED flag
    /\ UNCHANGED published

\* Mistake: the message of a record that was not stored is never answered.
FailedSilent ==
    /\ NextEvent("Failed")
    /\ replay' = Forget(replay, Done.rec)
    /\ safety' = TRUE
    /\ IF Done.source = NoPeer THEN Answer(Done.rec.body, "refused")
                               ELSE UNCHANGED flag
    /\ UNCHANGED <<verdict, published>>

HandleFailed ==
    /\ NextEvent("Failed")
    /\ replay' = Forget(replay, Done.rec)
    /\ safety' = TRUE
    /\ Report(Done.msg, "Ignore")
    /\ IF Done.source = NoPeer THEN Answer(Done.rec.body, "refused")
                               ELSE UNCHANGED flag
    /\ UNCHANGED published

HandlePersisted ==
    HandleStoredRemote \/ HandleStoredLocal \/ HandleDuplicate \/ HandleFailed

-----------------------------------------------------------------------------
(* Time and maintenance.                                                     *)

\* schedule_cleanup: a blocking task deletes expired records and reads the
\* storage status; the actor applies it when the result gets to it.
Maintain ==
    /\ "upkeep" \in Upsets
    /\ phase = "running" /\ upkeep = "none"
    /\ \E expired \in SUBSET db : db' = db \ expired
    /\ upkeep' \in {"safe", "unsafe"}
    /\ UNCHANGED <<actorVars, replay, signerVars, writerVars, highest, localSeq,
                   netVars, durable>>

HandleMaintenance ==
    /\ phase = "running" /\ upkeep # "none"
    /\ safety' = (upkeep = "unsafe")
    /\ upkeep' = "none"
    /\ UNCHANGED <<phase, identity, born, blocked, replay, signerVars,
                   writerVars, diskVars, netVars, durable>>

\* The user deletes a stored signature.
RemoveSignature(r) ==
    /\ "remove" \in Upsets
    /\ phase # "down"
    /\ r \in db
    /\ db' = db \ {r}
    /\ UNCHANGED <<actorVars, replay, signerVars, writerVars, highest, localSeq,
                   upkeep, netVars, durable>>

BlockExpires(p) ==
    /\ "unblock" \in Upsets
    /\ phase = "running" /\ p \in blocked
    /\ blocked' = blocked \ {p}
    /\ UNCHANGED <<phase, identity, born, safety, replay, signerVars,
                   writerVars, diskVars, upkeep, netVars, durable>>

\* Time-to-live or capacity of the replay caches.
Evict ==
    /\ "evict" \in Upsets
    /\ phase = "running"
    /\ \/ \E r \in replay.recent : replay' = EvictRecent(replay, r)
       \/ \E o \in Origins : replay' = EvictWindow(replay, o)
    /\ UNCHANGED <<actorVars, signerVars, writerVars, diskVars, upkeep, netVars,
                   durable>>

-----------------------------------------------------------------------------
Heard == RemoteRecords \cup published

Next ==
    \/ Start \/ ResetIdentity \/ ClearIdentityState \/ NewIdentity \/ ResetFails
    \/ Shutdown \/ Crash
    \/ \E f \in Files : PublishFile(f)
    \/ Sign \/ SignFails \/ HandleSignedRecord
    \/ \E p \in Peers, r \in Heard : ValidateGossip(p, r)
    \/ \E p \in Peers, resp \in Responses : AcceptSyncRecords(p, resp)
    \/ WriterTake \/ WriterCommit \/ WriterFail \/ WriterSend
    \/ HandlePersisted
    \/ Maintain \/ HandleMaintenance
    \/ \E r \in db : RemoveSignature(r)
    \/ \E p \in Peers : BlockExpires(p)
    \/ Evict

\* Every ready branch of the actor's select! is taken in the end, and the
\* signer task and the writer thread run.
Fairness ==
    /\ WF_vars(Sign \/ SignFails)
    /\ WF_vars(HandleSignedRecord)
    /\ WF_vars(WriterTake \/ WriterCommit \/ WriterFail)
    /\ WF_vars(WriterSend)
    /\ WF_vars(HandlePersisted)
    /\ WF_vars(ClearIdentityState \/ NewIdentity \/ ResetFails)

Spec == Init /\ [][Next]_vars

FairSpec == Spec /\ Fairness

-----------------------------------------------------------------------------
(* Properties.                                                               *)

\* Outcomes on their way to the actor, and every request that holds a record
\* between try_enqueue and handle_persisted.
Outcomes == Elements(replies) \cup Elements(events)

InFlight == Elements(queue) \cup Elements(batch) \cup {o.req : o \in Outcomes}

\* The line from try_enqueue to handle_persisted, what the actor hears of next
\* at its head, and the places in it where message m waits.
Requests(s) == [k \in DOMAIN s |-> s[k].req]

Line == Requests(events) \o (Requests(replies) \o (batch \o queue))

Places(m) == {k \in DOMAIN Line : Line[k].msg = m}

KeyIsDurable(r) == \E s \in durable : SameKey(s, r)

\* What the node vouches for to its neighbours is on disk: gossipsub forwards
\* a message only on Accept, and publishes a local record, after the commit
\* of the record (handle_persisted), never on the strength of the queue.
VouchedIsDurable ==
    /\ \A m \in DOMAIN message : verdict[m] = "Accept" => message[m] \in durable
    /\ published \subseteq durable

\* No verdict is lost or given twice on the way through the queue, the writer
\* and the event channel: a message without its verdict is in exactly one place
\* of the line, and one that has its verdict is in none.
PendingInFlight ==
    \A m \in Messages :
        /\ verdict[m] = "pending" => \E k \in DOMAIN Line : Places(m) = {k}
        /\ verdict[m] \in Final => Places(m) = {}

\* The replay state never turns away a record for nothing: an id it knows is
\* of a record that reached the disk, that is on its way there, or whose key
\* another record holds.  A saturated queue or a failed batch that left its
\* id behind would make the node ignore that record for good.
SeenIsBacked ==
    \A r \in Records : Known(replay, r) =>
        KeyIsDurable(r) \/ \E q \in InFlight : q.rec = r

\* Parts of DiskInv, which makes VouchedIsDurable and SeenIsBacked inductive.
OutcomesAreTrue ==
    \A o \in Outcomes :
        /\ o.kind = "Stored" => o.req.rec \in durable
        /\ o.kind = "Duplicate" => KeyIsDurable(o.req.rec)

CarriesMessage ==
    \A q \in InFlight : q.msg # NoMessage =>
        q.msg \in DOMAIN message /\ message[q.msg] = q.rec

ActiveIsDurable == \A r \in replay.active : KeyIsDurable(r)

\* What the two invariants around the disk rest on: an outcome on its way to
\* the actor says of the disk what is true of it, a request that waits for a
\* verdict holds the record of its own message, also after a reset, and the
\* filter of stored ids only names keys that reached the disk.
DiskInv ==
    /\ TypeOK
    /\ db \subseteq durable
    /\ OutcomesAreTrue
    /\ CarriesMessage
    /\ ActiveIsDurable
    /\ VouchedIsDurable
    /\ SeenIsBacked

\* What is stored is known: every row of the database is in the filter of the
\* running actor, or the event that will put it there is on its way.  So a
\* commit that races the start of a new swarm is not forgotten.
StoredIsKnown ==
    phase = "running" =>
        \A r \in db :
            \/ r \in replay.active
            \/ \E o \in Outcomes : o.req.rec = r

\* The tables agree: one row per origin and sequence, and the highest
\* sequence of an origin covers every row it ever had, in any batch.
TablesAgree ==
    /\ \A r, s \in db : SameKey(r, s) => r = s
    /\ \A r \in durable : r.seq <= highest[r.origin]

\* gossipsub is told once: a verdict is never revised.
VerdictIsFinal ==
    [][\A m \in Messages : verdict[m] \in Final => verdict'[m] = verdict[m]]_vars

\* A record is published under the identity it was signed with, while that
\* identity is the node's: never after a reset.
PublishedAsSelf ==
    [][\A r \in published' \ published : r.origin = identity /\ phase = "running"]_vars

\* Every gossip message gets its verdict, or its swarm is gone: the bounded
\* channels between the actor and the writer do not wait on each other.
MessageAnswered ==
    \A m \in Messages : verdict[m] = "pending" ~> verdict[m] # "pending"

\* Every file the user flags comes to an end, told to the user or not: a file
\* whose record was swallowed or orphaned, or whose swarm is gone, is not kept
\* waiting, and nobody hears of it.
FlagAnswered ==
    \A f \in Files : flag[f] = "asked" ~> flag[f] # "asked"

\* What the neighbours may rely on, see VouchLedger: the mapping of the
\* pipeline to it.
Vouched == published
      \cup {message[m] : m \in {n \in DOMAIN message : verdict[n] = "Accept"}}

Standing == [m \in Messages |-> CASE verdict[m] = "none"    -> "unheard"
                                  [] verdict[m] = "pending" -> "open"
                                  [] OTHER                  -> "closed"]

Ledger == INSTANCE VouchLedger WITH vouched <- Vouched, standing <- Standing

LedgerSpec == Ledger!Spec

\* A flagged file is stored under a fresh sequence number: the writer never
\* drops it, unannounced, as a duplicate.  The reset promises a new identity
\* together with the cleared sequence state (app.rs:384).
FlagNotSwallowed == \A f \in Files : flag[f] # "swallowed"
=============================================================================
