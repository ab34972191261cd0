----------------------- MODULE RecordPipeline_proofs ------------------------
(***************************************************************************)
(* What holds of RecordPipeline for every value of its constants: its      *)
(* types, its durability invariant, the line in which the messages wait    *)
(* for their verdicts, that it implements VouchLedger, that its tables     *)
(* agree, and that what is stored is known.                                *)
(***************************************************************************)
EXTENDS RecordPipeline, ReplayTheorems, SequenceTheorems

USE DEF NoMessage

LEMMA RequestTyped ==
    ASSUME NEW r \in Records, NEW s \in Peers \cup {NoPeer},
           NEW m \in Messages \cup {NoMessage}
    PROVE  [rec |-> r, source |-> s, msg |-> m] \in Request
BY DEF Request

LEMMA StartSwarmTyped ==
    ASSUME TypeOK, NEW i \in Identities, StartSwarm(i)
    PROVE  /\ phase' \in Phases
           /\ identity' \in Identities
           /\ identity' # NoIdentity
           /\ born' \subseteq Identities
           /\ safety' \in BOOLEAN
           /\ blocked' \subseteq Peers
           /\ replay' \in ReplayStates
<1>. USE PipelineAssumption
<1>1. PICK reads \in LoadOutcomes : replay' = LoadedReplay(reads)
    BY DEF StartSwarm
<1>. DEFINE high == IF "highest" \in reads THEN highest ELSE [o \in Origins |-> 0]
            ids  == IF "ids" \in reads THEN db ELSE {}
            seeds == IF "seeds" \in reads THEN db ELSE {}
<1>2. high \in [Origins -> Sequences] /\ ids \in SUBSET Records /\ seeds \in SUBSET Records
    BY ReplayAssumption DEF TypeOK, Sequences
<1>. HIDE DEF high, ids, seeds
<1>3. AcceptSeeds(LoadPersistent(high, ids), seeds) \in ReplayStates
    BY <1>2, LoadedTyped
<1>4. replay' \in ReplayStates
    BY <1>1, <1>3 DEF LoadedReplay, high, ids, seeds
<1>. QED BY <1>4 DEF StartSwarm, TypeOK, Phases

LEMMA TypeInit == Init => TypeOK
<1>. SUFFICES ASSUME Init PROVE TypeOK
    OBVIOUS
<1>1. replay \in ReplayStates
    BY EmptyReplayTyped DEF Init
<1>2. /\ highest \in [Origins -> Sequences]
      /\ localSeq \in [Identities -> Sequences]
    BY ReplayAssumption DEF Init, Sequences
<1>3. /\ toSign \in Seq(Files) /\ signed \in Seq(Records) /\ message \in Seq(Records)
      /\ queue \in Seq(Request) /\ batch \in Seq(Request)
      /\ replies \in Seq(Reply) /\ events \in Seq(Reply)
    BY DEF Init
<1>4. Len(message) <= MaxMessages
    BY PipelineAssumption DEF Init
<1>. QED BY <1>1, <1>2, <1>3, <1>4 DEF Init, TypeOK, Phases, Verdicts, FlagOutcomes

LEMMA TypeStep == TypeOK /\ [Next]_vars => TypeOK'
<1>. SUFFICES ASSUME TypeOK, [Next]_vars PROVE TypeOK'
    OBVIOUS
<1>. USE PipelineAssumption DEF actorVars, signerVars, writerVars, diskVars, netVars
<1>1. CASE Start
    <2>1. PICK i \in StoredOrNew : StartSwarm(i)
        BY <1>1 DEF Start
    <2>2. i \in Identities
        BY DEF StoredOrNew, TypeOK
    <2>. QED BY <1>1, <2>1, <2>2, StartSwarmTyped DEF Start, TypeOK
<1>2. CASE ResetIdentity
    BY <1>2 DEF ResetIdentity, DropSwarm, Abandon, AtSigner, TypeOK, Phases,
                Verdicts, FlagOutcomes
<1>3. CASE ClearIdentityState
    BY <1>3, ReplayAssumption DEF ClearIdentityState, TypeOK, Phases, Sequences
<1>4. CASE NewIdentity
    <2>1. PICK i \in Identities \ born : StartSwarm(i)
        BY <1>4 DEF NewIdentity
    <2>. QED BY <1>4, <2>1, StartSwarmTyped DEF NewIdentity, TypeOK
<1>5. CASE ResetFails
    BY <1>5 DEF ResetFails, Abandon, Unanswered, TypeOK, Phases, FlagOutcomes
<1>6. CASE Shutdown
    BY <1>6 DEF Shutdown, DropSwarm, Abandon, Unanswered, TypeOK, Phases, Verdicts,
                FlagOutcomes
<1>7. CASE Crash
    BY <1>7, EmptyReplayTyped
    DEF Crash, DropSwarm, Abandon, Unanswered, TypeOK, Phases, Verdicts, FlagOutcomes
<1>8. ASSUME NEW f \in Files, PublishFile(f) PROVE TypeOK'
    <2>1. toSign' \in Seq(Files)
        <3>1. toSign' = toSign \/ toSign' = Append(toSign, f)
            BY <1>8 DEF PublishFile
        <3>2. toSign \in Seq(Files)
            BY DEF TypeOK
        <3>. QED BY <3>1, <3>2
    <2>2. flag' \in [Files -> FlagOutcomes]
        BY <1>8, ZenonT(60) DEF PublishFile, Answer, TypeOK, FlagOutcomes
    <2>. QED BY <1>8, <2>1, <2>2 DEF PublishFile, TypeOK
<1>9. CASE Sign
    <2>1. identity \in Identities /\ localSeq[identity] + 1 \in Sequences
        BY <1>9, ReplayAssumption, SMTT(30) DEF Sign, TypeOK, Sequences
    <2>2. Head(toSign) \in Files
        BY <1>9 DEF Sign, TypeOK
    <2>. QED BY <1>9, <2>1, <2>2 DEF Sign, TypeOK, Records
<1>10. CASE SignFails
    BY <1>10 DEF SignFails, Answer, TypeOK, FlagOutcomes
<1>11. CASE HandleSignedRecord
    <2>1. /\ Head(signed) \in Records
          /\ signed' \in Seq(Records)
        BY <1>11 DEF HandleSignedRecord, TypeOK
    <2>2. queue' \in Seq(Request)
        <3>. DEFINE req == [rec |-> Head(signed), source |-> NoPeer, msg |-> 0]
        <3>1. queue' = queue \/ queue' = Append(queue, req)
            BY <1>11 DEF HandleSignedRecord, Enqueue
        <3>2. req \in Request
            BY <2>1, RequestTyped
        <3>3. queue \in Seq(Request)
            BY DEF TypeOK
        <3>. HIDE DEF req
        <3>. QED BY <3>1, <3>2, <3>3
    <2>3. flag' \in [Files -> FlagOutcomes]
        BY <1>11 DEF HandleSignedRecord, Answer, TypeOK, FlagOutcomes
    <2>. QED BY <1>11, <2>1, <2>2, <2>3 DEF HandleSignedRecord, TypeOK
<1>12. ASSUME NEW p \in Peers, NEW r \in Heard, ValidateGossip(p, r) PROVE TypeOK'
    <2>1. r \in Records
        BY DEF Heard, TypeOK
    <2>2. Arrive(p, r) => /\ This \in Messages
                          /\ message' \in Seq(Records)
        BY <2>1 DEF Arrive, This, Messages, TypeOK
    <2>. USE DEF Arrive, Report, TypeOK, Verdicts, Final
    <2>3. CASE GossipGated(p, r)
        BY <2>2, <2>3 DEF GossipGated
    <2>4. CASE GossipInvalid(p, r)
        BY <2>2, <2>4 DEF GossipInvalid
    <2>5. CASE GossipSeen(p, r)
        BY <2>2, <2>5 DEF GossipSeen
    <2>6. CASE GossipTooOld(p, r)
        BY <2>2, <2>6 DEF GossipTooOld
    <2>7. CASE GossipOverLimit(p, r)
        BY <2>2, <2>7 DEF GossipOverLimit
    <2>8. CASE GossipQueued(p, r)
        <3>1. [rec |-> r, source |-> p, msg |-> This] \in Request
            BY <2>1, <2>2, <2>8, RequestTyped DEF GossipQueued
        <3>2. replay' \in ReplayStates
            BY <2>1, <2>8, MarkOneTyped DEF GossipQueued
        <3>. QED BY <2>2, <2>8, <3>1, <3>2 DEF GossipQueued, Enqueue
    <2>9. CASE GossipSaturated(p, r)
        BY <2>2, <2>9 DEF GossipSaturated
    <2>. QED BY <1>12, <2>3, <2>4, <2>5, <2>6, <2>7, <2>8, <2>9 DEF ValidateGossip
<1>13. ASSUME NEW p \in Peers, NEW resp \in Responses, AcceptSyncRecords(p, resp)
       PROVE  TypeOK'
    <2>. DEFINE Taken(n, idx) ==
            /\ queue' = queue \o [i \in 1..n |-> [rec |-> resp[idx[i]], source |-> p,
                                                msg |-> NoMessage]]
            /\ replay' = [replay EXCEPT !.recent =
                             @ \cup {resp[k] : k \in {idx[i] : i \in 1..n}}]
            /\ blocked' \in {blocked, blocked \cup {p}}
    <2>0. PICK n \in 0..Len(resp) : \E idx \in Leading(resp, n) : Taken(n, idx)
        BY <1>13 DEF AcceptSyncRecords
    <2>1. PICK idx \in Leading(resp, n) : Taken(n, idx)
        BY <2>0
    <2>2. /\ resp \in Seq(Records)
          /\ n \in Nat
        BY DEF Responses
    <2>3. \A i \in 1..n : idx[i] \in DOMAIN resp /\ resp[idx[i]] \in Records
        BY <2>2 DEF Leading, Fresh
    <2>4. queue' \in Seq(Request)
        <3>1. [i \in 1..n |-> [rec |-> resp[idx[i]], source |-> p, msg |-> NoMessage]]
                \in Seq(Request)
            BY <2>2, <2>3, RequestTyped
        <3>. QED BY <2>1, <3>1 DEF TypeOK
    <2>5. replay' \in ReplayStates
        <3>. DEFINE S == {resp[k] : k \in {idx[i] : i \in 1..n}}
        <3>1. S \in SUBSET Records
            BY <2>3
        <3>2. replay' = [replay EXCEPT !.recent = @ \cup S]
            BY <2>1
        <3>. HIDE DEF S
        <3>. QED BY <3>1, <3>2, MarkPendingTyped DEF TypeOK
    <2>. QED BY <1>13, <2>1, <2>4, <2>5 DEF AcceptSyncRecords, TypeOK
<1>14. CASE WriterTake
    BY <1>14 DEF WriterTake, TypeOK
<1>15. CASE WriterCommit
    <2>1. NewRows \subseteq Records
        <3>. batch \in Seq(Request)
            BY DEF TypeOK
        <3>1. ASSUME NEW k \in DOMAIN batch PROVE batch[k].rec \in Records
            <4>1. batch[k] \in Request
                BY ElementOfSeq, LenProperties
            <4>. QED BY <4>1 DEF Request
        <3>. QED BY <3>1 DEF NewRows
    <2>2. highest' \in [Origins -> Sequences]
        <3>1. ASSUME NEW o \in Origins
              PROVE  SetMax({highest[o]} \cup SeqsOf(NewRows, o)) \in Sequences
            <4>1. {highest[o]} \cup SeqsOf(NewRows, o) \in SUBSET Sequences
                BY <2>1, SeqsOfTyped DEF TypeOK
            <4>. QED BY <4>1, SetMaxIsMax
        <3>. QED BY <1>15, <3>1 DEF WriterCommit
    <2>3. replies' \in Seq(Reply)
        BY <1>15 DEF WriterCommit, TypeOK, Reply
    <2>. QED BY <1>15, <2>1, <2>2, <2>3 DEF WriterCommit, TypeOK
<1>16. CASE WriterFail
    <2>1. replies' \in Seq(Reply)
        BY <1>16 DEF WriterFail, TypeOK, Reply
    <2>. QED BY <1>16, <2>1 DEF WriterFail, TypeOK
<1>17. CASE WriterSend
    BY <1>17 DEF WriterSend, TypeOK
<1>18. CASE HandlePersisted
    <2>1. ASSUME NEW kind, NextEvent(kind)
          PROVE  Done \in Request /\ Done.rec \in Records /\ events' \in Seq(Reply)
        <3>1. events # <<>> /\ events \in Seq(Reply) /\ events' = Tail(events)
            BY <2>1 DEF NextEvent, TypeOK
        <3>2. Head(events) \in Reply /\ events' \in Seq(Reply)
            BY <3>1
        <3>. QED BY <3>2 DEF Done, Reply, Request
    <2>2. ASSUME Done.rec \in Records
          PROVE  Accept(replay, Done.rec) \in ReplayStates
                 /\ Forget(replay, Done.rec) \in ReplayStates
        BY <2>2, AcceptTyped DEF TypeOK, Forget, ReplayStates
    <2>. USE DEF Report, Answer, Verdicts, Final, FlagOutcomes
    <2>3. CASE HandleStoredRemote
        BY <2>1, <2>2, <2>3 DEF HandleStoredRemote, NextEvent, TypeOK
    <2>4. CASE HandleStoredLocal
        BY <2>1, <2>2, <2>4, ZenonT(60) DEF HandleStoredLocal, NextEvent, TypeOK
    <2>5. CASE HandleDuplicate
        BY <2>1, <2>2, <2>5, ZenonT(60) DEF HandleDuplicate, NextEvent, TypeOK
    <2>6. CASE HandleFailed
        BY <2>1, <2>2, <2>6 DEF HandleFailed, NextEvent, TypeOK
    <2>. QED BY <1>18, <2>3, <2>4, <2>5, <2>6 DEF HandlePersisted
<1>19. CASE Maintain
    BY <1>19 DEF Maintain, TypeOK
<1>20. CASE HandleMaintenance
    BY <1>20 DEF HandleMaintenance, TypeOK
<1>21. ASSUME NEW r \in db, RemoveSignature(r) PROVE TypeOK'
    BY <1>21 DEF RemoveSignature, TypeOK
<1>22. ASSUME NEW p \in Peers, BlockExpires(p) PROVE TypeOK'
    BY <1>22 DEF BlockExpires, TypeOK
<1>23. CASE Evict
    <2>1. replay' \in ReplayStates
        <3>. replay \in ReplayStates
            BY DEF TypeOK
        <3>1. CASE \E r \in replay.recent : replay' = EvictRecent(replay, r)
            BY <3>1 DEF EvictRecent, ReplayStates
        <3>2. CASE \E o \in Origins : replay' = EvictWindow(replay, o)
            <4>1. NoWindow \in Windows
                BY ReplayAssumption DEF NoWindow, Windows, Sequences
            <4>. QED BY <3>2, <4>1 DEF EvictWindow, ReplayStates
        <3>. QED BY <1>23, <3>1, <3>2 DEF Evict
    <2>. QED BY <1>23, <2>1 DEF Evict, TypeOK
<1>24. CASE UNCHANGED vars
    BY <1>24 DEF vars, TypeOK
<1>. QED BY <1>1, <1>2, <1>3, <1>4, <1>5, <1>6, <1>7, <1>8, <1>9, <1>10, <1>11, <1>12,
            <1>13, <1>14, <1>15, <1>16, <1>17, <1>18, <1>19, <1>20, <1>21, <1>22,
            <1>23, <1>24 DEF Next

\* Every variable of the pipeline keeps its type, and a running node has an
\* identity.
THEOREM TypeCorrect == Spec => []TypeOK
<1>. QED BY TypeInit, TypeStep, PTL DEF Spec

-----------------------------------------------------------------------------
(* The elements of a sequence, under the operations of the queues.           *)

LEMMA ElementsEmpty == Elements(<<>>) = {}
BY DEF Elements

LEMMA ElementsAppend ==
    ASSUME NEW S, NEW s \in Seq(S), NEW x \in S
    PROVE  Elements(Append(s, x)) = Elements(s) \cup {x}
BY AppendProperties DEF Elements

LEMMA ElementsTail ==
    ASSUME NEW S, NEW s \in Seq(S), s # <<>>
    PROVE  /\ Elements(s) = {Head(s)} \cup Elements(Tail(s))
           /\ Elements(Tail(s)) \subseteq Elements(s)
<1>1. /\ Len(s) \in Nat /\ Len(s) # 0
      /\ DOMAIN s = 1..Len(s) /\ DOMAIN Tail(s) = 1..(Len(s) - 1)
      /\ Head(s) = s[1]
      /\ \A k \in 1..(Len(s) - 1) : Tail(s)[k] = s[k + 1]
    BY HeadTailProperties, LenProperties, EmptySeq
<1>2. ASSUME NEW k \in 1..Len(s) PROVE s[k] \in {Head(s)} \cup Elements(Tail(s))
    <2>1. CASE k = 1
        BY <2>1, <1>1
    <2>2. CASE k # 1
        <3>1. k - 1 \in 1..(Len(s) - 1) /\ Tail(s)[k - 1] = s[k]
            BY <1>1, <2>2
        <3>. QED BY <3>1, <1>1 DEF Elements
    <2>. QED BY <2>1, <2>2
<1>3. ASSUME NEW k \in 1..(Len(s) - 1) PROVE Tail(s)[k] \in Elements(s)
    <2>1. k + 1 \in 1..Len(s) /\ Tail(s)[k] = s[k + 1]
        BY <1>1
    <2>. QED BY <2>1, <1>1 DEF Elements
<1>4. Head(s) \in Elements(s)
    BY <1>1 DEF Elements
<1>. QED BY <1>1, <1>2, <1>3, <1>4 DEF Elements

LEMMA ElementsConcat ==
    ASSUME NEW S, NEW s \in Seq(S), NEW t \in Seq(S)
    PROVE  /\ Elements(s) \subseteq Elements(s \o t)
           /\ Elements(s \o t) \subseteq Elements(s) \cup Elements(t)
<1>1. /\ Len(s) \in Nat /\ Len(t) \in Nat /\ Len(s \o t) = Len(s) + Len(t)
      /\ DOMAIN s = 1..Len(s) /\ DOMAIN t = 1..Len(t)
      /\ DOMAIN (s \o t) = 1..(Len(s) + Len(t))
      /\ \A k \in 1..(Len(s) + Len(t)) :
            (s \o t)[k] = IF k <= Len(s) THEN s[k] ELSE t[k - Len(s)]
    BY ConcatProperties, LenProperties
<1>2. ASSUME NEW k \in 1..Len(s) PROVE s[k] \in Elements(s \o t)
    <2>1. k \in 1..(Len(s) + Len(t)) /\ (s \o t)[k] = s[k]
        BY <1>1
    <2>. QED BY <2>1, <1>1 DEF Elements
<1>3. ASSUME NEW k \in 1..(Len(s) + Len(t))
      PROVE  (s \o t)[k] \in Elements(s) \cup Elements(t)
    <2>1. CASE k <= Len(s)
        BY <2>1, <1>1 DEF Elements
    <2>2. CASE ~(k <= Len(s))
        <3>1. k - Len(s) \in 1..Len(t) /\ (s \o t)[k] = t[k - Len(s)]
            BY <2>2, <1>1
        <3>. QED BY <3>1, <1>1 DEF Elements
    <2>. QED BY <2>1, <2>2
<1>. QED BY <1>1, <1>2, <1>3 DEF Elements

-----------------------------------------------------------------------------
(* The disk invariant.                                                       *)

\* A step that keeps what was durable, adds only true outcomes and requests
\* that carry their own message, and vouches for and remembers only what is
\* durable or in flight, keeps the invariant.
LEMMA DiskStep ==
    ASSUME DiskInv, TypeOK',
           db' \subseteq durable', durable \subseteq durable',
           OutcomesAreTrue',
           \A m \in DOMAIN message : m \in DOMAIN message' /\ message'[m] = message[m],
           \A q \in InFlight' : \/ q \in InFlight
                                \/ q.msg # NoMessage =>
                                      q.msg \in DOMAIN message' /\ message'[q.msg] = q.rec,
           \A r \in replay'.active : r \in replay.active \/ KeyIsDurable(r)',
           published' \subseteq published \cup durable',
           \A m \in DOMAIN message' : verdict'[m] = "Accept" =>
                \/ m \in DOMAIN message /\ verdict[m] = "Accept"
                \/ message'[m] \in durable',
           \A r \in Records : Known(replay', r) =>
                \/ KeyIsDurable(r)'
                \/ \E q \in InFlight' : q.rec = r
                \/ Known(replay, r) /\ InFlight \subseteq InFlight'
    PROVE  DiskInv'
<1>1. ASSUME NEW r, KeyIsDurable(r) PROVE KeyIsDurable(r)'
    BY <1>1 DEF KeyIsDurable
<1>2. CarriesMessage'
    <2>. SUFFICES ASSUME NEW q \in InFlight', q.msg # NoMessage
                  PROVE  q.msg \in DOMAIN message' /\ message'[q.msg] = q.rec
        BY DEF CarriesMessage
    <2>. QED BY DEF DiskInv, CarriesMessage
<1>3. ActiveIsDurable'
    BY <1>1 DEF DiskInv, ActiveIsDurable
<1>4. VouchedIsDurable'
    BY DEF DiskInv, VouchedIsDurable
<1>5. SeenIsBacked'
    <2>. SUFFICES ASSUME NEW r \in Records, Known(replay', r)
                  PROVE  KeyIsDurable(r)' \/ \E q \in InFlight' : q.rec = r
        BY DEF SeenIsBacked
    <2>1. CASE Known(replay, r) /\ InFlight \subseteq InFlight'
        <3>1. KeyIsDurable(r) \/ \E q \in InFlight : q.rec = r
            BY <2>1 DEF DiskInv, SeenIsBacked
        <3>. QED BY <3>1, <2>1, <1>1
    <2>. QED BY <2>1
<1>. QED BY <1>2, <1>3, <1>4, <1>5 DEF DiskInv

\* A step away from the queues, the tables and the memory keeps it.
LEMMA FrameStep ==
    ASSUME DiskInv, TypeOK',
           UNCHANGED <<queue, batch, replies, events, durable, published>>,
           db' \subseteq db,
           \A m \in DOMAIN message : m \in DOMAIN message' /\ message'[m] = message[m],
           \A m \in DOMAIN message' : verdict'[m] = "Accept" =>
                m \in DOMAIN message /\ verdict[m] = "Accept",
           replay'.active \subseteq replay.active,
           \A r \in Records : Known(replay', r) => Known(replay, r)
    PROVE  DiskInv'
<1>1. Outcomes' = Outcomes /\ InFlight' = InFlight
    BY DEF Outcomes, InFlight
<1>2. OutcomesAreTrue'
    BY <1>1 DEF DiskInv, OutcomesAreTrue, KeyIsDurable
<1>3. db' \subseteq durable'
    BY DEF DiskInv
<1>. QED BY <1>1, <1>2, <1>3, DiskStep

LEMMA DiskInit == Init => DiskInv
<1>. SUFFICES ASSUME Init PROVE DiskInv
    OBVIOUS
<1>1. TypeOK
    BY TypeInit
<1>2. InFlight = {} /\ Outcomes = {}
    BY ElementsEmpty DEF Init, InFlight, Outcomes
<1>3. \A r : ~Known(replay, r)
    BY DEF Init, EmptyReplay, Known
<1>4. VouchedIsDurable
    BY DEF Init, VouchedIsDurable
<1>5. ActiveIsDurable /\ SeenIsBacked
    BY <1>3 DEF ActiveIsDurable, SeenIsBacked, Known
<1>6. OutcomesAreTrue /\ CarriesMessage
    BY <1>2 DEF OutcomesAreTrue, CarriesMessage
<1>. QED BY <1>1, <1>4, <1>5, <1>6 DEF Init, DiskInv

\* A started swarm knows what it read from the tables.
LEMMA StartSwarmDisk ==
    ASSUME DiskInv, TypeOK', NEW i \in Identities, StartSwarm(i),
           UNCHANGED <<writerVars, diskVars, netVars, durable>>
    PROVE  DiskInv'
<1>. USE DEF writerVars, diskVars, netVars
<1>1. PICK reads \in LoadOutcomes : replay' = LoadedReplay(reads)
    BY DEF StartSwarm
<1>. DEFINE high == IF "highest" \in reads THEN highest ELSE [o \in Origins |-> 0]
            ids  == IF "ids" \in reads THEN db ELSE {}
            seeds == IF "seeds" \in reads THEN db ELSE {}
<1>2. /\ high \in [Origins -> Sequences] /\ ids \in SUBSET Records /\ seeds \in SUBSET Records
      /\ ids \subseteq db /\ seeds \subseteq db
    BY ReplayAssumption DEF DiskInv, TypeOK, Sequences
<1>. HIDE DEF high, ids, seeds
<1>3. \A q : Known(AcceptSeeds(LoadPersistent(high, ids), seeds), q) <=> q \in ids \/ q \in seeds
    BY <1>2, LoadedTyped
<1>4. replay' = AcceptSeeds(LoadPersistent(high, ids), seeds)
    BY <1>1 DEF LoadedReplay, high, ids, seeds
<1>5. \A q : Known(replay', q) => q \in db
    BY <1>2, <1>3, <1>4
<1>6. \A q \in db : KeyIsDurable(q)'
    BY DEF DiskInv, KeyIsDurable, SameKey
<1>7. \A q \in replay'.active : KeyIsDurable(q)'
    BY <1>5, <1>6 DEF Known
<1>8. Outcomes' = Outcomes /\ InFlight' = InFlight
    BY DEF Outcomes, InFlight
<1>9. OutcomesAreTrue' /\ db' \subseteq durable'
    BY <1>8 DEF DiskInv, OutcomesAreTrue, KeyIsDurable
<1>. QED BY <1>5, <1>6, <1>7, <1>8, <1>9, DiskStep

\* A step that only puts requests into the queue, each for a record that the
\* step marks pending, or a local one.
LEMMA QueueStep ==
    ASSUME DiskInv, TypeOK',
           UNCHANGED <<batch, replies, events, db, durable, published>>,
           Elements(queue) \subseteq Elements(queue'),
           \A q \in Elements(queue') : \/ q \in Elements(queue)
                                       \/ q.msg # NoMessage =>
                                            q.msg \in DOMAIN message' /\ message'[q.msg] = q.rec,
           \A m \in DOMAIN message : m \in DOMAIN message' /\ message'[m] = message[m],
           \A m \in DOMAIN message' : verdict'[m] = "Accept" =>
                m \in DOMAIN message /\ verdict[m] = "Accept",
           replay'.active \subseteq replay.active,
           \A r \in Records : Known(replay', r) =>
                Known(replay, r) \/ \E q \in Elements(queue') : q.rec = r
    PROVE  DiskInv'
<1>1. Outcomes' = Outcomes
    BY DEF Outcomes
<1>2. /\ InFlight \subseteq InFlight'
      /\ Elements(queue') \subseteq InFlight'
      /\ Elements(queue) \subseteq InFlight
      /\ InFlight' \subseteq InFlight \cup Elements(queue')
    BY <1>1 DEF InFlight
<1>3. OutcomesAreTrue' /\ db' \subseteq durable'
    BY <1>1 DEF DiskInv, OutcomesAreTrue, KeyIsDurable
<1>. QED BY <1>1, <1>2, <1>3, DiskStep

\* A step that moves requests along the pipeline and drops none.
LEMMA MoveStep ==
    ASSUME DiskInv, TypeOK',
           InFlight' = InFlight, OutcomesAreTrue',
           durable \subseteq durable', db' \subseteq durable',
           UNCHANGED <<replay, message, verdict, published>>
    PROVE  DiskInv'
BY DiskStep DEF Known

\* A step of the actor that takes the first event and remembers its record.
LEMMA EventStep ==
    ASSUME DiskInv, TypeOK', events # <<>>, events' = Tail(events),
           UNCHANGED <<queue, batch, replies, db, durable, message>>,
           published' \subseteq published \cup durable,
           \A m \in DOMAIN message : verdict'[m] = "Accept" =>
                verdict[m] = "Accept" \/ message[m] \in durable,
           \/ /\ Head(events).kind \in {"Stored", "Duplicate"}
              /\ replay' = Accept(replay, Done.rec)
           \/ replay' = Forget(replay, Done.rec)
    PROVE  DiskInv'
<1>1. events \in Seq(Reply) /\ Head(events) \in Reply /\ replay \in ReplayStates
    BY DEF DiskInv, TypeOK
<1>2. /\ Elements(events) = {Head(events)} \cup Elements(events')
      /\ Elements(events') \subseteq Elements(events)
    BY <1>1, ElementsTail
<1>3. /\ Outcomes' \subseteq Outcomes
      /\ Outcomes \subseteq Outcomes' \cup {Head(events)}
      /\ Head(events) \in Outcomes
    BY <1>2 DEF Outcomes
<1>4. /\ InFlight' \subseteq InFlight
      /\ \A q \in InFlight : q = Done \/ q \in InFlight'
    BY <1>3 DEF InFlight, Done
<1>5. PICK d \in Records : d = Done.rec
    BY <1>1 DEF Done, Reply, Request
<1>6. OutcomesAreTrue' /\ db' \subseteq durable'
    BY <1>3 DEF DiskInv, OutcomesAreTrue, KeyIsDurable
<1>7. Head(events).kind \in {"Stored", "Duplicate"} => KeyIsDurable(d)
    BY <1>3, <1>5 DEF DiskInv, OutcomesAreTrue, KeyIsDurable, Done, SameKey
<1>8. /\ \A r \in replay'.active : r \in replay.active \/ KeyIsDurable(r)'
      /\ \A r \in Records : Known(replay', r) =>
            \/ KeyIsDurable(r)'
            \/ Known(replay, r) /\ r # d
    <2>1. CASE /\ Head(events).kind \in {"Stored", "Duplicate"}
               /\ replay' = Accept(replay, Done.rec)
        <3>1. KeyIsDurable(d)'
            BY <1>7, <2>1 DEF KeyIsDurable
        <3>2. replay'.active = replay.active \cup {d}
            BY <1>5, <2>1 DEF Accept
        <3>3. \A r : Known(replay', r) <=> Known(replay, r) \/ r = d
            BY <1>1, <1>5, <2>1, AcceptTyped
        <3>. QED BY <3>1, <3>2, <3>3
    <2>2. CASE replay' = Forget(replay, Done.rec)
        <3>1. replay'.active = replay.active /\ replay'.recent = replay.recent \ {d}
            BY <1>1, <1>5, <2>2 DEF Forget, ReplayStates
        <3>2. \A r \in replay.active : KeyIsDurable(r)'
            BY DEF DiskInv, ActiveIsDurable, KeyIsDurable
        <3>. QED BY <3>1, <3>2 DEF Known
    <2>. QED BY <2>1, <2>2
<1>9. ASSUME NEW r \in Records, Known(replay, r), r # d
      PROVE  KeyIsDurable(r)' \/ \E q \in InFlight' : q.rec = r
    <2>1. KeyIsDurable(r) \/ \E q \in InFlight : q.rec = r
        BY <1>9 DEF DiskInv, SeenIsBacked
    <2>. QED BY <2>1, <1>4, <1>5, <1>9 DEF KeyIsDurable
<1>. QED BY <1>4, <1>6, <1>8, <1>9, DiskStep

\* A message whose verdict is Accept keeps it when the swarm is dropped, and
\* no message gets one.
LEMMA DropSwarmAccepts ==
    ASSUME TypeOK, DropSwarm, NEW m \in DOMAIN message, verdict'[m] = "Accept"
    PROVE  verdict[m] = "Accept"
<1>1. m \in Messages
    BY LenProperties, PipelineAssumption DEF TypeOK, Messages
<1>. QED BY <1>1 DEF DropSwarm

\* A record that INSERT OR IGNORE leaves out has its key in the table, or in
\* a row of the batch that goes in: the first of the batch with that key.
LEMMA IgnoredHasKey ==
    ASSUME TypeOK, NEW k \in DOMAIN batch, ~Inserted(k)
    PROVE  \E s \in db \cup NewRows : SameKey(s, batch[k].rec)
<1>. DEFINE T == {j \in 1..k : SameKey(batch[j].rec, batch[k].rec)}
<1>1. k \in Nat /\ 1 <= k /\ DOMAIN batch = 1..Len(batch) /\ Len(batch) \in Nat
    BY LenProperties DEF TypeOK
<1>2. k \in T /\ T \subseteq Nat
    BY <1>1 DEF SameKey
<1>3. PICK j \in T : \A n \in T : j <= n
    <2>. HIDE DEF T
    <2>. QED BY <1>2, LeastNat
<1>4. j \in DOMAIN batch /\ j \in Nat /\ SameKey(batch[j].rec, batch[k].rec)
    BY <1>1
<1>5. CASE \E s \in db : SameKey(s, batch[j].rec)
    BY <1>4, <1>5 DEF SameKey
<1>6. CASE \A s \in db : ~SameKey(s, batch[j].rec)
    <2>1. ASSUME NEW n \in 1..(j - 1), SameKey(batch[n].rec, batch[j].rec) PROVE FALSE
        <3>1. n \in 1..k /\ n \in Nat /\ n < j
            BY <1>1, <1>4
        <3>2. n \in T
            BY <2>1, <3>1, <1>4 DEF SameKey
        <3>. QED BY <1>3, <1>4, <3>1, <3>2
    <2>2. Inserted(j)
        BY <1>6, <2>1 DEF Inserted
    <2>. QED BY <1>4, <2>2 DEF NewRows
<1>. QED BY <1>5, <1>6

LEMMA DiskNext == DiskInv /\ [Next]_vars => DiskInv'
<1>. SUFFICES ASSUME DiskInv, [Next]_vars PROVE DiskInv'
    OBVIOUS
<1>0. TypeOK /\ TypeOK'
    BY TypeStep DEF DiskInv
<1>. USE PipelineAssumption DEF actorVars, signerVars, writerVars, diskVars, netVars
<1>1. CASE Start
    <2>1. PICK i \in Identities : StartSwarm(i)
        BY <1>1 DEF Start, StoredOrNew, DiskInv, TypeOK
    <2>. QED BY <1>0, <1>1, <2>1, StartSwarmDisk DEF Start
<1>2. CASE ResetIdentity
    <2>. \A m \in DOMAIN message : verdict'[m] = "Accept" => verdict[m] = "Accept"
        BY <1>0, <1>2, DropSwarmAccepts DEF ResetIdentity
    <2>. QED BY <1>0, <1>2, FrameStep DEF ResetIdentity
<1>3. CASE ClearIdentityState
    BY <1>0, <1>3, FrameStep DEF ClearIdentityState
<1>4. CASE NewIdentity
    <2>1. PICK i \in Identities : StartSwarm(i)
        BY <1>4 DEF NewIdentity
    <2>. QED BY <1>0, <1>4, <2>1, StartSwarmDisk DEF NewIdentity
<1>5. CASE ResetFails
    BY <1>0, <1>5, FrameStep DEF ResetFails
<1>6. CASE Shutdown
    <2>. \A m \in DOMAIN message : verdict'[m] = "Accept" => verdict[m] = "Accept"
        BY <1>0, <1>6, DropSwarmAccepts DEF Shutdown
    <2>. QED BY <1>0, <1>6, FrameStep DEF Shutdown
<1>7. CASE Crash
    <2>1. Outcomes' = {} /\ InFlight' = {}
        BY <1>7, ElementsEmpty DEF Crash, Outcomes, InFlight
    <2>2. OutcomesAreTrue' /\ db' \subseteq durable'
        BY <1>7, <2>1 DEF Crash, DiskInv, OutcomesAreTrue
    <2>3. replay'.active = {} /\ \A r : ~Known(replay', r)
        BY <1>7 DEF Crash, EmptyReplay, Known
    <2>4. \A m \in DOMAIN message : verdict'[m] = "Accept" => verdict[m] = "Accept"
        BY <1>0, <1>7, DropSwarmAccepts DEF Crash
    <2>. QED BY <1>0, <1>7, <2>1, <2>2, <2>3, <2>4, DiskStep DEF Crash
<1>8. ASSUME NEW f \in Files, PublishFile(f) PROVE DiskInv'
    BY <1>0, <1>8, FrameStep DEF PublishFile
<1>9. CASE Sign
    BY <1>0, <1>9, FrameStep DEF Sign
<1>10. CASE SignFails
    BY <1>0, <1>10, FrameStep DEF SignFails
<1>11. CASE HandleSignedRecord
    <2>1. CASE UNCHANGED queue
        BY <1>0, <1>11, <2>1, FrameStep DEF HandleSignedRecord
    <2>2. CASE ~UNCHANGED queue
        <3>. DEFINE req == [rec |-> Head(signed), source |-> NoPeer, msg |-> NoMessage]
        <3>1. queue' = Append(queue, req)
            BY <1>11, <2>2 DEF HandleSignedRecord, Enqueue
        <3>2. req \in Request /\ queue \in Seq(Request)
            BY <1>0, <1>11, RequestTyped DEF HandleSignedRecord, TypeOK
        <3>3. req.msg = NoMessage
            OBVIOUS
        <3>. HIDE DEF req
        <3>4. Elements(queue') = Elements(queue) \cup {req}
            BY <3>1, <3>2, ElementsAppend
        <3>. QED BY <1>0, <1>11, <3>3, <3>4, QueueStep DEF HandleSignedRecord
    <2>. QED BY <2>1, <2>2
<1>12. ASSUME NEW p \in Peers, NEW r \in Heard, ValidateGossip(p, r) PROVE DiskInv'
    <2>1. Arrive(p, r)
        BY <1>12 DEF ValidateGossip, GossipGated, GossipInvalid, GossipSeen, GossipTooOld,
                     GossipOverLimit, GossipQueued, GossipSaturated
    <2>2. /\ message \in Seq(Records) /\ r \in Records
          /\ message' = Append(message, r)
        BY <1>0, <2>1 DEF Arrive, Heard, TypeOK
    <2>3. /\ This \in DOMAIN message' /\ message'[This] = r /\ This # NoMessage
          /\ \A m \in DOMAIN message : m \in DOMAIN message' /\ message'[m] = message[m]
          /\ \A m \in DOMAIN message' : m = This \/ m \in DOMAIN message
        BY <2>2, AppendProperties, LenProperties DEF This
    <2>4. This \in Messages
        BY <2>1, <2>2 DEF Arrive, This, Messages
    <2>5. CASE GossipQueued(p, r)
        <3>. DEFINE req == [rec |-> r, source |-> p, msg |-> This]
        <3>1. queue' = Append(queue, req) /\ queue \in Seq(Request)
            BY <1>0, <2>5 DEF GossipQueued, Enqueue, TypeOK
        <3>2. req \in Request
            BY <2>2, <2>4, RequestTyped
        <3>3. req.msg = This /\ req.rec = r
            OBVIOUS
        <3>. HIDE DEF req
        <3>4. Elements(queue') = Elements(queue) \cup {req}
            BY <3>1, <3>2, ElementsAppend
        <3>5. \A m \in DOMAIN message' : verdict'[m] = "Accept" =>
                m \in DOMAIN message /\ verdict[m] = "Accept"
            BY <1>0, <2>3, <2>4, <2>5, SMTT(30) DEF GossipQueued, TypeOK
        <3>6. \A q : Known(replay', q) <=> Known(replay, q) \/ q = r
            BY <1>0, <2>2, <2>5, MarkOneTyped DEF GossipQueued, TypeOK
        <3>7. replay'.active = replay.active
            BY <1>0, <2>5 DEF GossipQueued, MarkPending, TypeOK, ReplayStates
        <3>. QED BY <1>0, <2>1, <2>3, <2>5, <3>3, <3>4, <3>5, <3>6, <3>7, QueueStep
                 DEF GossipQueued, Arrive
    <2>6. CASE ~GossipQueued(p, r)
        <3>1. \E v \in {"Reject", "Ignore"} : Report(This, v)
            BY <1>12, <2>6 DEF ValidateGossip, GossipGated, GossipInvalid, GossipSeen,
                     GossipTooOld, GossipOverLimit, GossipSaturated
        <3>2. \A m \in DOMAIN message' : verdict'[m] = "Accept" =>
                m \in DOMAIN message /\ verdict[m] = "Accept"
            BY <1>0, <2>3, <2>4, <3>1, SMTT(30) DEF Report, TypeOK
        <3>3. UNCHANGED <<replay, queue>>
            BY <1>12, <2>6 DEF ValidateGossip, GossipGated, GossipInvalid, GossipSeen,
                     GossipTooOld, GossipOverLimit, GossipSaturated
        <3>. QED BY <1>0, <2>1, <2>3, <3>2, <3>3, FrameStep DEF Arrive
    <2>. QED BY <2>5, <2>6
<1>13. ASSUME NEW p \in Peers, NEW resp \in Responses, AcceptSyncRecords(p, resp)
       PROVE  DiskInv'
    <2>. DEFINE reqs(n, idx) == [i \in 1..n |-> [rec |-> resp[idx[i]], source |-> p,
                                                msg |-> NoMessage]]
                Taken(n, idx) ==
                  /\ queue' = queue \o reqs(n, idx)
                  /\ replay' = [replay EXCEPT !.recent =
                                   @ \cup {resp[k] : k \in {idx[i] : i \in 1..n}}]
    <2>1. PICK n \in 0..Len(resp) : \E idx \in Leading(resp, n) : Taken(n, idx)
        BY <1>13 DEF AcceptSyncRecords
    <2>2. PICK idx \in Leading(resp, n) : Taken(n, idx)
        BY <2>1
    <2>3. resp \in Seq(Records) /\ n \in Nat /\ queue \in Seq(Request)
        BY <1>0 DEF Responses, TypeOK
    <2>4. \A i \in 1..n : idx[i] \in DOMAIN resp /\ resp[idx[i]] \in Records
        BY <2>3 DEF Leading, Fresh
    <2>5. reqs(n, idx) \in Seq(Request)
        BY <2>3, <2>4, RequestTyped
    <2>6. /\ \A q \in Elements(reqs(n, idx)) : q.msg = NoMessage
          /\ \A i \in 1..n : \E q \in Elements(reqs(n, idx)) : q.rec = resp[idx[i]]
        <3>1. \A i \in 1..n : /\ i \in DOMAIN reqs(n, idx)
                              /\ reqs(n, idx)[i].rec = resp[idx[i]]
                              /\ reqs(n, idx)[i].msg = NoMessage
            OBVIOUS
        <3>2. DOMAIN reqs(n, idx) = 1..n
            OBVIOUS
        <3>. HIDE DEF reqs
        <3>. QED BY <3>1, <3>2 DEF Elements
    <2>. DEFINE S == {resp[k] : k \in {idx[i] : i \in 1..n}}
    <2>7. /\ S \in SUBSET Records
          /\ \A q \in S : \E e \in Elements(reqs(n, idx)) : e.rec = q
        <3>. HIDE DEF reqs
        <3>. QED BY <2>4, <2>6
    <2>8. queue' = queue \o reqs(n, idx) /\ replay' = [replay EXCEPT !.recent = @ \cup S]
        BY <2>2
    <2>. HIDE DEF S, reqs
    <2>9. /\ Elements(queue) \subseteq Elements(queue')
          /\ Elements(queue') \subseteq Elements(queue) \cup Elements(reqs(n, idx))
        BY <2>3, <2>5, <2>8, ElementsConcat
    <2>10. /\ \A q : Known(replay', q) <=> Known(replay, q) \/ q \in S
           /\ replay'.active = replay.active
        BY <1>0, <2>7, <2>8, MarkPendingTyped DEF TypeOK, ReplayStates
    <2>11. Elements(reqs(n, idx)) \subseteq Elements(queue')
        <3>1. \A j \in 1..Len(reqs(n, idx)) :
                /\ Len(queue) + j \in 1..Len(queue')
                /\ queue'[Len(queue) + j] = reqs(n, idx)[j]
            BY <2>3, <2>5, <2>8, ConcatProperties, LenProperties
        <3>2. queue' \in Seq(Request)
            BY <1>0 DEF TypeOK
        <3>. QED BY <2>5, <3>1, <3>2, LenProperties DEF Elements
    <2>. QED BY <1>0, <1>13, <2>6, <2>7, <2>9, <2>10, <2>11, QueueStep DEF AcceptSyncRecords
<1>14. CASE WriterTake
    <2>1. /\ Elements(queue) = {Head(queue)} \cup Elements(queue')
          /\ Elements(batch') = Elements(batch) \cup {Head(queue)}
        BY <1>0, <1>14, ElementsTail, ElementsAppend DEF WriterTake, TypeOK
    <2>2. Outcomes' = Outcomes
        BY <1>14 DEF WriterTake, Outcomes
    <2>3. InFlight' = InFlight
        BY <2>1, <2>2 DEF InFlight
    <2>4. OutcomesAreTrue'
        BY <1>14, <2>2 DEF WriterTake, DiskInv, OutcomesAreTrue, KeyIsDurable
    <2>. QED BY <1>0, <1>14, <2>3, <2>4, MoveStep DEF WriterTake, DiskInv
<1>15. CASE WriterCommit
    <2>1. Elements(replies') =
            {[kind |-> IF Inserted(k) THEN "Stored" ELSE "Duplicate", req |-> batch[k]] :
                k \in DOMAIN batch}
        BY <1>0, <1>15 DEF WriterCommit, Elements, TypeOK
    <2>2. /\ Elements(batch') = {} /\ Elements(replies) = {}
        BY <1>15, ElementsEmpty DEF WriterCommit
    <2>3. InFlight' = InFlight
        <3>1. \A o \in Elements(replies') : o.req \in Elements(batch)
            BY <2>1 DEF Elements
        <3>2. \A q \in Elements(batch) : \E o \in Elements(replies') : o.req = q
            <4>. SUFFICES ASSUME NEW k \in DOMAIN batch
                          PROVE  \E o \in Elements(replies') : o.req = batch[k]
                BY DEF Elements
            <4>1. [kind |-> IF Inserted(k) THEN "Stored" ELSE "Duplicate", req |-> batch[k]] \in Elements(replies')
                BY <2>1
            <4>. QED BY <4>1
        <3>3. {o.req : o \in Outcomes'} = Elements(batch) \cup {o.req : o \in Outcomes}
            <4>1. Outcomes' = Elements(replies') \cup Outcomes
                BY <1>15, <2>2 DEF WriterCommit, Outcomes
            <4>. QED BY <4>1, <3>1, <3>2
        <3>. QED BY <1>15, <2>2, <3>3 DEF WriterCommit, InFlight
    <2>4. \A k \in DOMAIN batch : Inserted(k) => batch[k].rec \in durable'
        BY <1>15 DEF WriterCommit, NewRows
    <2>5. \A k \in DOMAIN batch : ~Inserted(k) => \E s \in durable' : SameKey(s, batch[k].rec)
        BY <1>0, <1>15, IgnoredHasKey DEF WriterCommit, DiskInv
    <2>6. \A o \in Outcomes' : \/ o \in Outcomes
                              \/ \E k \in DOMAIN batch :
                                    o = [kind |-> IF Inserted(k) THEN "Stored" ELSE "Duplicate",
                                         req |-> batch[k]]
        BY <1>15, <2>1 DEF WriterCommit, Outcomes
    <2>7. OutcomesAreTrue'
        BY <1>15, <2>4, <2>5, <2>6 DEF WriterCommit, DiskInv, OutcomesAreTrue, KeyIsDurable
    <2>. QED BY <1>0, <1>15, <2>3, <2>7, MoveStep DEF WriterCommit, DiskInv
<1>16. CASE WriterFail
    <2>1. Elements(replies') = {[kind |-> "Failed", req |-> batch[k]] : k \in DOMAIN batch}
        BY <1>0, <1>16 DEF WriterFail, Elements, TypeOK
    <2>2. /\ Elements(batch') = {} /\ Elements(replies) = {}
        BY <1>16, ElementsEmpty DEF WriterFail
    <2>3. InFlight' = InFlight
        <3>1. \A o \in Elements(replies') : o.req \in Elements(batch)
            BY <2>1 DEF Elements
        <3>2. \A q \in Elements(batch) : \E o \in Elements(replies') : o.req = q
            <4>. SUFFICES ASSUME NEW k \in DOMAIN batch
                          PROVE  \E o \in Elements(replies') : o.req = batch[k]
                BY DEF Elements
            <4>1. [kind |-> "Failed", req |-> batch[k]] \in Elements(replies')
                BY <2>1
            <4>. QED BY <4>1
        <3>3. {o.req : o \in Outcomes'} = Elements(batch) \cup {o.req : o \in Outcomes}
            <4>1. Outcomes' = Elements(replies') \cup Outcomes
                BY <1>16, <2>2 DEF WriterFail, Outcomes
            <4>. QED BY <4>1, <3>1, <3>2
        <3>. QED BY <1>16, <2>2, <3>3 DEF WriterFail, InFlight
    <2>4. \A o \in Outcomes' : o \in Outcomes \/ o.kind = "Failed"
        BY <1>16, <2>1 DEF WriterFail, Outcomes
    <2>5. OutcomesAreTrue'
        BY <1>16, <2>4 DEF WriterFail, DiskInv, OutcomesAreTrue, KeyIsDurable
    <2>. QED BY <1>0, <1>16, <2>3, <2>5, MoveStep DEF WriterFail, DiskInv
<1>17. CASE WriterSend
    <2>1. /\ Elements(replies) = {Head(replies)} \cup Elements(replies')
          /\ Elements(events') = Elements(events) \cup {Head(replies)}
        BY <1>0, <1>17, ElementsTail, ElementsAppend DEF WriterSend, TypeOK
    <2>2. Outcomes' = Outcomes
        BY <2>1 DEF Outcomes
    <2>3. InFlight' = InFlight
        BY <1>17, <2>2 DEF WriterSend, InFlight
    <2>4. OutcomesAreTrue'
        BY <1>17, <2>2 DEF WriterSend, DiskInv, OutcomesAreTrue, KeyIsDurable
    <2>. QED BY <1>0, <1>17, <2>3, <2>4, MoveStep DEF WriterSend, DiskInv
<1>18. CASE HandlePersisted
    <2>1. /\ events \in Seq(Reply) /\ verdict \in [Messages -> Verdicts]
          /\ message \in Seq(Records)
        BY <1>0 DEF TypeOK
    <2>2. events # <<>> => Head(events) \in Outcomes /\ Done \in InFlight
        BY <2>1, ElementsTail DEF Outcomes, InFlight, Done
    <2>3. CASE HandleStoredRemote
        <3>1. Done.rec \in durable
            BY <2>2, <2>3 DEF HandleStoredRemote, NextEvent, DiskInv, OutcomesAreTrue, Done
        <3>2. Done.msg # NoMessage => Done.msg \in DOMAIN message /\ message[Done.msg] = Done.rec
            BY <2>2, <2>3 DEF HandleStoredRemote, NextEvent, DiskInv, CarriesMessage
        <3>3. \A m \in DOMAIN message : verdict'[m] = "Accept" =>
                verdict[m] = "Accept" \/ message[m] \in durable
            BY <2>1, <2>3, <3>1, <3>2 DEF HandleStoredRemote, Report
        <3>. QED BY <1>0, <2>3, <3>3, EventStep DEF HandleStoredRemote, NextEvent
    <2>4. CASE HandleStoredLocal
        <3>1. Done.rec \in durable
            BY <2>2, <2>4 DEF HandleStoredLocal, NextEvent, DiskInv, OutcomesAreTrue, Done
        <3>2. published' \subseteq published \cup durable
            BY <2>4, <3>1 DEF HandleStoredLocal
        <3>. QED BY <1>0, <2>4, <3>2, EventStep DEF HandleStoredLocal, NextEvent
    <2>5. CASE HandleDuplicate
        <3>1. \A m \in DOMAIN message : verdict'[m] = "Accept" => verdict[m] = "Accept"
            BY <2>1, <2>5 DEF HandleDuplicate, Report
        <3>. QED BY <1>0, <2>5, <3>1, EventStep DEF HandleDuplicate, NextEvent
    <2>6. CASE HandleFailed
        <3>1. \A m \in DOMAIN message : verdict'[m] = "Accept" => verdict[m] = "Accept"
            BY <2>1, <2>6 DEF HandleFailed, Report
        <3>. QED BY <1>0, <2>6, <3>1, EventStep DEF HandleFailed, NextEvent
    <2>. QED BY <1>18, <2>3, <2>4, <2>5, <2>6 DEF HandlePersisted
<1>19. CASE Maintain
    BY <1>0, <1>19, FrameStep DEF Maintain
<1>20. CASE HandleMaintenance
    BY <1>0, <1>20, FrameStep DEF HandleMaintenance
<1>21. ASSUME NEW r \in db, RemoveSignature(r) PROVE DiskInv'
    BY <1>0, <1>21, FrameStep DEF RemoveSignature
<1>22. ASSUME NEW p \in Peers, BlockExpires(p) PROVE DiskInv'
    BY <1>0, <1>22, FrameStep DEF BlockExpires
<1>23. CASE Evict
    <2>1. /\ replay'.active \subseteq replay.active
          /\ \A r \in Records : Known(replay', r) => Known(replay, r)
        <3>. replay \in ReplayStates
            BY <1>0 DEF TypeOK
        <3>1. CASE \E r \in replay.recent : replay' = EvictRecent(replay, r)
            BY <3>1 DEF EvictRecent, ReplayStates, Known
        <3>2. CASE \E o \in Origins : replay' = EvictWindow(replay, o)
            BY <3>2 DEF EvictWindow, ReplayStates, Known
        <3>. QED BY <1>23, <3>1, <3>2 DEF Evict
    <2>. QED BY <1>0, <1>23, <2>1, FrameStep DEF Evict
<1>24. CASE UNCHANGED vars
    BY <1>0, <1>24, FrameStep DEF vars
<1>. QED BY <1>1, <1>2, <1>3, <1>4, <1>5, <1>6, <1>7, <1>8, <1>9, <1>10, <1>11, <1>12,
            <1>13, <1>14, <1>15, <1>16, <1>17, <1>18, <1>19, <1>20, <1>21, <1>22,
            <1>23, <1>24 DEF Next

\* The durability invariant: vouchers and the replay memory rest on the disk.
THEOREM DiskInvariant == Spec => []DiskInv
<1>. QED BY DiskInit, DiskNext, PTL DEF Spec

\* A gossip message is accepted, and a local record published, only after
\* its commit: whatever the number of peers, the capacity of the queue, the
\* batch size, and wherever a crash or an identity reset falls.
THEOREM Vouching == Spec => []VouchedIsDurable
<1>1. DiskInv => VouchedIsDurable
    BY DEF DiskInv
<1>. QED BY <1>1, DiskInvariant, PTL

\* The replay memory turns no record away for nothing: one it knows is on
\* disk, on its way there, or kept out by another record with its key.
THEOREM Remembering == Spec => []SeenIsBacked
<1>1. DiskInv => SeenIsBacked
    BY DEF DiskInv
<1>. QED BY <1>1, DiskInvariant, PTL

-----------------------------------------------------------------------------
(* The line of requests.                                                     *)

\* No message is twice in the line, one that is in it has no verdict yet, one
\* that is pending is in it, and a local record answers no message.
LineInv ==
    /\ \A j, k \in DOMAIN Line : Line[j].msg = Line[k].msg => j = k \/ Line[j].msg = NoMessage
    /\ \A k \in DOMAIN Line : Line[k].source = NoPeer => Line[k].msg = NoMessage
    /\ \A m \in Messages : verdict[m] = "pending" => \E k \in DOMAIN Line : Line[k].msg = m
    /\ \A m \in Messages : verdict[m] \in Final => \A k \in DOMAIN Line : Line[k].msg # m
    /\ \A m \in Messages : verdict[m] = "none" <=> m \notin DOMAIN message

\* Moving the head of one queue to the end of the one before it.
LEMMA MoveHead ==
    ASSUME NEW S, NEW s \in Seq(S), NEW t \in Seq(S), t # <<>>
    PROVE  Append(s, Head(t)) \o Tail(t) = s \o t
<1>1. /\ Head(t) \in S /\ Tail(t) \in Seq(S) /\ Head(t) = t[1]
      /\ Len(Tail(t)) = Len(t) - 1 /\ \A i \in 1..Len(Tail(t)) : Tail(t)[i] = t[i + 1]
      /\ Len(t) \in Nat /\ Len(t) # 0 /\ Len(s) \in Nat
    BY HeadTailProperties, LenProperties, EmptySeq
<1>2. /\ Append(s, Head(t)) \in Seq(S) /\ Len(Append(s, Head(t))) = Len(s) + 1
      /\ \A i \in 1..Len(s) : Append(s, Head(t))[i] = s[i]
      /\ Append(s, Head(t))[Len(s) + 1] = t[1]
    BY <1>1, AppendProperties
<1>. DEFINE u == Append(s, Head(t))
            v == Tail(t)
<1>3. /\ u \in Seq(S) /\ v \in Seq(S) /\ Len(u) = Len(s) + 1 /\ Len(v) = Len(t) - 1
      /\ \A i \in 1..Len(s) : u[i] = s[i]
      /\ u[Len(s) + 1] = t[1] /\ \A i \in 1..(Len(t) - 1) : v[i] = t[i + 1]
    BY <1>1, <1>2
<1>. HIDE DEF u, v
<1>4. /\ u \o v \in Seq(S) /\ Len(u \o v) = Len(s) + Len(t)
      /\ \A i \in 1..(Len(s) + Len(t)) : (u \o v)[i] = IF i <= Len(u) THEN u[i] ELSE v[i - Len(u)]
    <2>1. Len(u) + Len(v) = Len(s) + Len(t)
        BY <1>1, <1>3
    <2>2. /\ u \o v \in Seq(S) /\ Len(u \o v) = Len(u) + Len(v)
          /\ \A i \in 1..(Len(u) + Len(v)) : (u \o v)[i] = IF i <= Len(u) THEN u[i] ELSE v[i - Len(u)]
        BY <1>3, ConcatProperties
    <2>. QED BY <2>1, <2>2
<1>5. /\ s \o t \in Seq(S) /\ Len(s \o t) = Len(s) + Len(t)
      /\ \A i \in 1..(Len(s) + Len(t)) : (s \o t)[i] = IF i <= Len(s) THEN s[i] ELSE t[i - Len(s)]
    BY ConcatProperties
<1>6. ASSUME NEW i \in 1..(Len(s) + Len(t)) PROVE (u \o v)[i] = (s \o t)[i]
    <2>1. CASE i <= Len(s)
        BY <1>1, <1>3, <1>4, <1>5, <2>1
    <2>2. CASE i = Len(s) + 1
        BY <1>1, <1>3, <1>4, <1>5, <2>2
    <2>3. CASE i > Len(s) + 1
        <3>1. i - Len(u) \in 1..(Len(t) - 1)
            BY <1>1, <1>3, <2>3
        <3>3. v[i - Len(u)] = t[(i - Len(u)) + 1]
            BY <1>3, <3>1
        <3>2. (i - Len(u)) + 1 = i - Len(s)
            BY <1>1, <1>3
        <3>4. ~(i <= Len(u)) /\ ~(i <= Len(s))
            BY <1>1, <1>3, <2>3
        <3>. QED BY <1>4, <1>5, <3>2, <3>3, <3>4
    <2>4. i <= Len(s) \/ i = Len(s) + 1 \/ i > Len(s) + 1
        BY <1>1
    <2>. QED BY <2>1, <2>2, <2>3, <2>4
<1>7. u \o v = s \o t
    BY <1>1, <1>4, <1>5, <1>6, SeqEqual
<1>. QED BY <1>7 DEF u, v

\* The tail of a concatenation.
LEMMA TailOfConcat ==
    ASSUME NEW S, NEW s \in Seq(S), NEW t \in Seq(S), s # <<>>
    PROVE  Head(s \o t) = Head(s) /\ Tail(s \o t) = Tail(s) \o t /\ s \o t # <<>>
<1>1. /\ s \o t \in Seq(S) /\ Len(s \o t) = Len(s) + Len(t)
      /\ \A i \in 1..(Len(s) + Len(t)) : (s \o t)[i] = IF i <= Len(s) THEN s[i] ELSE t[i - Len(s)]
      /\ Len(s) \in Nat /\ Len(s) # 0 /\ Len(t) \in Nat
    BY ConcatProperties, LenProperties, EmptySeq
<1>2. s \o t # <<>>
    BY <1>1, EmptySeq
<1>. DEFINE u == s \o t
            a == Tail(u)
            b == Tail(s)
<1>3. /\ a \in Seq(S) /\ Len(a) = Len(s) + Len(t) - 1 /\ \A i \in 1..Len(a) : a[i] = u[i + 1]
      /\ b \in Seq(S) /\ Len(b) = Len(s) - 1 /\ \A i \in 1..Len(b) : b[i] = s[i + 1]
    BY <1>1, <1>2, HeadTailProperties
<1>4. \A i \in 1..(Len(s) + Len(t)) : u[i] = IF i <= Len(s) THEN s[i] ELSE t[i - Len(s)]
    BY <1>1
<1>5. Head(u) = u[1] /\ Head(s) = s[1]
    OBVIOUS
<1>. HIDE DEF u, a, b
<1>6. /\ b \o t \in Seq(S) /\ Len(b \o t) = Len(s) - 1 + Len(t)
      /\ \A i \in 1..(Len(b) + Len(t)) : (b \o t)[i] = IF i <= Len(b) THEN b[i] ELSE t[i - Len(b)]
    BY <1>1, <1>3, ConcatProperties
<1>7. ASSUME NEW i \in 1..Len(a) PROVE a[i] = (b \o t)[i]
    <2>1. i + 1 \in 1..(Len(s) + Len(t)) /\ i \in 1..(Len(b) + Len(t)) /\ i \in Nat
        BY <1>1, <1>3
    <2>2. a[i] = u[i + 1]
        BY <1>3
    <2>3. CASE i <= Len(b)
        <3>1. i \in 1..Len(b) /\ b[i] = s[i + 1] /\ i + 1 <= Len(s)
            BY <1>1, <1>3, <2>1, <2>3
        <3>. QED BY <1>4, <1>6, <2>1, <2>2, <2>3, <3>1
    <2>4. CASE ~(i <= Len(b))
        <3>1. i + 1 - Len(s) = i - Len(b)
            BY <1>1, <1>3, <2>1
        <3>. QED BY <1>1, <1>3, <1>4, <1>6, <2>1, <2>2, <2>4, <3>1
    <2>. QED BY <2>3, <2>4
<1>8. a = b \o t
    <2>1. Len(a) = Len(b \o t)
        BY <1>1, <1>3, <1>6
    <2>. QED BY <1>3, <1>6, <1>7, <2>1, SeqEqual
<1>9. u[1] = s[1]
    BY <1>1, <1>4
<1>. QED BY <1>2, <1>5, <1>8, <1>9 DEF u, a, b

\* The requests that a sequence of outcomes answers.
LEMMA RequestsProperties ==
    ASSUME NEW s \in Seq(Reply)
    PROVE  /\ Requests(s) \in Seq(Request)
           /\ Len(Requests(s)) = Len(s) /\ DOMAIN Requests(s) = DOMAIN s
           /\ \A o \in Reply : Requests(Append(s, o)) = Append(Requests(s), o.req)
           /\ s # <<>> => /\ Requests(s) # <<>>
                          /\ Requests(Tail(s)) = Tail(Requests(s))
                          /\ Head(Requests(s)) = Head(s).req
<1>1. /\ Len(s) \in Nat /\ DOMAIN s = 1..Len(s)
      /\ \A k \in 1..Len(s) : s[k] \in Reply
    BY LenProperties
<1>0. \A o \in Reply : o.req \in Request
    BY DEF Reply
<1>2. /\ Requests(s) \in Seq(Request) /\ Len(Requests(s)) = Len(s)
      /\ \A k \in 1..Len(s) : Requests(s)[k] = s[k].req
    BY <1>0, <1>1 DEF Requests
<1>3. ASSUME NEW o \in Reply PROVE Requests(Append(s, o)) = Append(Requests(s), o.req)
    <2>1. o.req \in Request
        BY DEF Reply
    <2>. DEFINE u == Append(s, o)
                v == Append(Requests(s), o.req)
    <2>2. /\ u \in Seq(Reply) /\ Len(u) = Len(s) + 1 /\ DOMAIN u = 1..(Len(s) + 1)
          /\ \A i \in 1..Len(s) : u[i] = s[i]
          /\ u[Len(s) + 1] = o
        BY AppendProperties, LenProperties
    <2>3. /\ v \in Seq(Request) /\ Len(v) = Len(s) + 1
          /\ \A i \in 1..Len(s) : v[i] = s[i].req
          /\ v[Len(s) + 1] = o.req
        BY <1>2, <2>1, AppendProperties
    <2>. HIDE DEF u, v
    <2>4. Requests(u) \in Seq(Request) /\ Len(Requests(u)) = Len(s) + 1
          /\ \A k \in 1..(Len(s) + 1) : Requests(u)[k] = u[k].req
        <3>1. \A k \in 1..(Len(s) + 1) : u[k].req \in Request
            BY <1>0, <1>1, <2>2, LenProperties
        <3>. QED BY <1>1, <2>2, <3>1 DEF Requests
    <2>5. \A k \in 1..(Len(s) + 1) : Requests(u)[k] = v[k]
        BY <1>1, <2>2, <2>3, <2>4
    <2>6. Requests(u) = v
        BY <2>3, <2>4, <2>5, SeqEqual
    <2>. QED BY <2>6 DEF u, v
<1>4. ASSUME s # <<>>
      PROVE  /\ Requests(s) # <<>>
             /\ Requests(Tail(s)) = Tail(Requests(s))
             /\ Head(Requests(s)) = Head(s).req
    <2>1. Len(s) # 0 /\ Requests(s) # <<>>
        BY <1>2, <1>4, EmptySeq
    <2>. DEFINE u == Tail(s)
                v == Tail(Requests(s))
    <2>2. /\ u \in Seq(Reply) /\ Len(u) = Len(s) - 1 /\ DOMAIN u = 1..(Len(s) - 1)
          /\ \A i \in 1..(Len(s) - 1) : u[i] = s[i + 1]
        BY <1>1, <1>4, HeadTailProperties, LenProperties
    <2>3. /\ v \in Seq(Request) /\ Len(v) = Len(s) - 1
          /\ \A i \in 1..(Len(s) - 1) : v[i] = Requests(s)[i + 1]
        BY <1>1, <1>2, <2>1, HeadTailProperties
    <2>4. Head(Requests(s)) = Requests(s)[1] /\ Head(s) = s[1]
        OBVIOUS
    <2>. HIDE DEF u, v
    <2>5. Requests(u) \in Seq(Request) /\ Len(Requests(u)) = Len(s) - 1
          /\ \A k \in 1..(Len(s) - 1) : Requests(u)[k] = u[k].req
        <3>1. \A k \in 1..(Len(s) - 1) : u[k].req \in Request
            BY <1>0, <1>1, <2>2, LenProperties
        <3>. QED BY <1>1, <2>1, <2>2, <3>1 DEF Requests
    <2>6. \A k \in 1..(Len(s) - 1) : Requests(u)[k] = v[k]
        <3>. SUFFICES ASSUME NEW k \in 1..(Len(s) - 1) PROVE Requests(u)[k] = v[k]
            OBVIOUS
        <3>1. k + 1 \in 1..Len(s)
            BY <1>1
        <3>. QED BY <1>2, <2>2, <2>3, <2>5, <3>1
    <2>7. Requests(u) = v
        BY <2>3, <2>5, <2>6, SeqEqual
    <2>. QED BY <1>1, <1>2, <2>1, <2>4, <2>7 DEF u, v
<1>. QED BY <1>1, <1>2, <1>3, <1>4, LenProperties

-----------------------------------------------------------------------------
(* The steps of the line.                                                    *)

LEMMA LineTyped ==
    ASSUME TypeOK
    PROVE  /\ Requests(events) \in Seq(Request) /\ Requests(replies) \in Seq(Request)
           /\ batch \in Seq(Request) /\ queue \in Seq(Request)
           /\ batch \o queue \in Seq(Request)
           /\ Requests(replies) \o (batch \o queue) \in Seq(Request)
           /\ Line \in Seq(Request)
<1>1. /\ Requests(events) \in Seq(Request) /\ Requests(replies) \in Seq(Request)
      /\ batch \in Seq(Request) /\ queue \in Seq(Request)
    BY RequestsProperties DEF TypeOK
<1>. DEFINE E == Requests(events)
            R == Requests(replies)
            Y == batch \o queue
<1>2. E \in Seq(Request) /\ R \in Seq(Request) /\ Y \in Seq(Request)
    BY <1>1, ConcatProperties
<1>3. R \o Y \in Seq(Request)
    <2>. HIDE DEF R, Y
    <2>. QED BY <1>2, ConcatProperties
<1>. DEFINE X == R \o Y
<1>4. E \o X \in Seq(Request)
    <2>1. X \in Seq(Request)
        BY <1>3
    <2>. HIDE DEF E, X
    <2>. QED BY <1>2, <2>1, ConcatProperties
<1>. QED BY <1>1, <1>2, <1>3, <1>4 DEF Line

\* A place of the line holds a request that is in flight.
LEMMA LineInFlight ==
    ASSUME TypeOK, NEW k \in DOMAIN Line
    PROVE  Line[k] \in InFlight
<1>. DEFINE E == Requests(events)
            R == Requests(replies)
            Y == batch \o queue
            X == R \o Y
<1>1. /\ E \in Seq(Request) /\ R \in Seq(Request) /\ batch \in Seq(Request) /\ queue \in Seq(Request)
      /\ Y \in Seq(Request) /\ X \in Seq(Request)
      /\ Line = E \o X
    BY LineTyped DEF Line
<1>2. Elements(E) \subseteq InFlight /\ Elements(R) \subseteq InFlight
    BY RequestsProperties DEF TypeOK, Elements, Requests, InFlight, Outcomes
<1>3. Elements(batch) \subseteq InFlight /\ Elements(queue) \subseteq InFlight
    BY DEF InFlight
<1>4. Elements(Y) \subseteq Elements(batch) \cup Elements(queue)
    BY <1>1, ElementsConcat
<1>5. Elements(X) \subseteq Elements(R) \cup Elements(Y)
    <2>. HIDE DEF R, Y
    <2>. QED BY <1>1, ElementsConcat
<1>6. Elements(Line) \subseteq Elements(E) \cup Elements(X)
    <2>. HIDE DEF E, X
    <2>. QED BY <1>1, ElementsConcat
<1>7. Line[k] \in Elements(Line)
    BY DEF Elements
<1>. HIDE DEF E, R, Y, X
<1>. QED BY <1>2, <1>3, <1>4, <1>5, <1>6, <1>7

\* WriterTake moves a request within the line.
LEMMA LineTake ==
    ASSUME TypeOK, WriterTake
    PROVE  Line' = Line
<1>1. /\ batch' = Append(batch, Head(queue)) /\ queue' = Tail(queue) /\ queue # <<>>
      /\ Requests(events)' = Requests(events) /\ Requests(replies)' = Requests(replies)
    BY DEF WriterTake, Requests
<1>2. batch' \o queue' = batch \o queue
    BY <1>1, MoveHead DEF TypeOK
<1>. QED BY <1>1, <1>2 DEF Line

\* The outcomes of a batch take its place.
LEMMA LineOutcome ==
    ASSUME TypeOK, replies = <<>>, batch' = <<>>,
           Requests(replies') = batch, UNCHANGED <<events, queue>>
    PROVE  Line' = Line
<1>1. batch \in Seq(Request) /\ queue \in Seq(Request) /\ batch \o queue \in Seq(Request)
    BY LineTyped
<1>2. Requests(replies) = <<>>
    BY DEF Requests
<1>3. <<>> \o (batch \o queue) = batch \o queue /\ <<>> \o queue = queue
    BY <1>1, ConcatEmptySeq
<1>4. Line = Requests(events) \o (batch \o queue)
    BY <1>2, <1>3 DEF Line
<1>5. Line' = Requests(events) \o (batch \o queue)
    BY <1>3 DEF Line, Requests
<1>. QED BY <1>4, <1>5

LEMMA LineSend ==
    ASSUME TypeOK, WriterSend
    PROVE  Line' = Line
<1>1. /\ events' = Append(events, Head(replies)) /\ replies' = Tail(replies) /\ replies # <<>>
      /\ batch' = batch /\ queue' = queue
      /\ events \in Seq(Reply) /\ replies \in Seq(Reply) /\ Head(replies) \in Reply
    BY HeadTailProperties DEF WriterSend, TypeOK
<1>2. /\ Requests(events') = Append(Requests(events), Head(Requests(replies)))
      /\ Requests(replies') = Tail(Requests(replies)) /\ Requests(replies) # <<>>
    BY <1>1, RequestsProperties
<1>. DEFINE E == Requests(events)
            R == Requests(replies)
            Y == batch \o queue
            F == Append(E, Head(R))
            T == Tail(R)
<1>3. /\ E \in Seq(Request) /\ R \in Seq(Request) /\ R # <<>> /\ Y \in Seq(Request)
      /\ F \in Seq(Request) /\ T \in Seq(Request)
    BY <1>2, LineTyped, HeadTailProperties, AppendProperties
<1>4. F \o T = E \o R
    <2>. HIDE DEF E, R
    <2>. QED BY <1>3, MoveHead
<1>5. Line' = F \o (T \o Y) /\ Line = E \o (R \o Y)
    BY <1>1, <1>2 DEF Line, Requests
<1>. HIDE DEF E, R, Y, F, T
<1>6. F \o (T \o Y) = (F \o T) \o Y
    <2>1. F \in Seq(Request) /\ T \in Seq(Request) /\ Y \in Seq(Request)
        BY <1>3
    <2>. QED BY <2>1, ConcatAssociative, SMTT(30)
<1>7. E \o (R \o Y) = (E \o R) \o Y
    <2>1. E \in Seq(Request) /\ R \in Seq(Request) /\ Y \in Seq(Request)
        BY <1>3
    <2>. QED BY <2>1, ConcatAssociative
<1>. QED BY <1>4, <1>5, <1>6, <1>7

\* The actor takes the head of the line.
LEMMA LineHandled ==
    ASSUME TypeOK, events # <<>>, events' = Tail(events),
           UNCHANGED <<replies, batch, queue>>
    PROVE  Line # <<>> /\ Done = Head(Line) /\ Line' = Tail(Line)
<1>. DEFINE X == Requests(replies) \o (batch \o queue)
<1>1. X \in Seq(Request) /\ Line = Requests(events) \o X
    BY LineTyped DEF Line
<1>2. /\ Requests(events) # <<>> /\ Requests(events) \in Seq(Request)
      /\ Requests(events') = Tail(Requests(events))
      /\ Head(Requests(events)) = Done
    BY RequestsProperties DEF TypeOK, Done
<1>3. Line' = Requests(events') \o X
    BY DEF Line, Requests
<1>. HIDE DEF X
<1>. QED BY <1>1, <1>2, <1>3, TailOfConcat

\* Requests join the line at its end.
LEMMA LineJoined ==
    ASSUME TypeOK, NEW t \in Seq(Request), queue' = queue \o t,
           UNCHANGED <<events, replies, batch>>
    PROVE  Line' = Line \o t
<1>. DEFINE E == Requests(events)
            R == Requests(replies)
            Y == batch \o queue
            X == R \o Y
<1>1. /\ E \in Seq(Request) /\ R \in Seq(Request) /\ batch \in Seq(Request) /\ queue \in Seq(Request)
      /\ Y \in Seq(Request) /\ X \in Seq(Request)
      /\ Line = E \o X
    BY LineTyped DEF Line
<1>2. batch \o (queue \o t) = Y \o t
    <2>1. batch \in Seq(Request) /\ queue \in Seq(Request)
        BY <1>1
    <2>. QED BY <2>1, ConcatAssociative, SMTT(30)
<1>3. R \o (Y \o t) = X \o t
    <2>1. R \in Seq(Request) /\ Y \in Seq(Request)
        BY <1>1
    <2>. HIDE DEF R, Y
    <2>. QED BY <2>1, ConcatAssociative, SMTT(30)
<1>4. E \o (X \o t) = (E \o X) \o t
    <2>1. E \in Seq(Request) /\ X \in Seq(Request)
        BY <1>1
    <2>. HIDE DEF E, X
    <2>. QED BY <2>1, ConcatAssociative
<1>5. Line' = E \o (R \o (batch \o (queue \o t)))
    BY DEF Line, Requests
<1>. QED BY <1>1, <1>2, <1>3, <1>4, <1>5


-----------------------------------------------------------------------------
(* What a step does to the line and to the verdicts.                         *)

Stays ==
    /\ Line' = Line
    /\ UNCHANGED <<message, verdict, published>>
    /\ durable \subseteq durable'

Joins ==
    /\ \E t \in Seq(Request) : /\ Line' = Line \o t
                               /\ \A k \in DOMAIN t : t[k].msg = NoMessage
    /\ UNCHANGED <<message, verdict, published, durable>>

Comes(r) ==
    /\ Len(message) < MaxMessages
    /\ message' = Append(message, r)
    /\ UNCHANGED <<published, durable>>

Refused(r) ==
    /\ Comes(r)
    /\ Line' = Line
    /\ \E v \in {"Ignore", "Reject"} : verdict' = [verdict EXCEPT ![This] = v]

Queued(r) ==
    /\ Comes(r)
    /\ \E q \in Request : /\ q.msg = This /\ q.source # NoPeer
                          /\ Line' = Append(Line, q)
    /\ verdict' = [verdict EXCEPT ![This] = "pending"]

Answered(v) ==
    /\ Line # <<>> /\ Line' = Tail(Line)
    /\ Report(Head(Line).msg, v)
    /\ v = "Accept" => Head(Line).rec \in durable
    /\ \/ UNCHANGED published
       \/ /\ Head(Line).msg = NoMessage /\ Head(Line).rec \in durable
          /\ published' = published \cup {Head(Line).rec}
    /\ UNCHANGED <<message, durable>>

Dropped ==
    /\ Line' = Line \/ Line' = <<>>
    /\ verdict' = [m \in Messages |->
                     IF verdict[m] = "pending" THEN "lost" ELSE verdict[m]]
    /\ UNCHANGED <<message, published, durable>>

LineMove ==
    \/ Stays \/ Joins \/ Dropped
    \/ \E r \in Records : Refused(r) \/ Queued(r)
    \/ \E v \in {"Accept", "Ignore"} : Answered(v)

LEMMA LineSame ==
    ASSUME UNCHANGED <<queue, batch, replies, events>>
    PROVE  Line' = Line
BY DEF Line, Requests

LEMMA LineMoves ==
    ASSUME DiskInv, LineInv, [Next]_vars
    PROVE  LineMove
<1>0. TypeOK
    BY DEF DiskInv
<1>. USE DEF actorVars, signerVars, writerVars, diskVars, netVars
<1>1. CASE Start
    BY <1>1, LineSame DEF Start, LineMove, Stays
<1>2. CASE ResetIdentity
    BY <1>2, LineSame DEF ResetIdentity, DropSwarm, LineMove, Dropped
<1>3. CASE ClearIdentityState
    BY <1>3, LineSame DEF ClearIdentityState, LineMove, Stays
<1>4. CASE NewIdentity
    BY <1>4, LineSame DEF NewIdentity, LineMove, Stays
<1>5. CASE ResetFails
    BY <1>5, LineSame DEF ResetFails, LineMove, Stays
<1>6. CASE Shutdown
    BY <1>6, LineSame DEF Shutdown, DropSwarm, LineMove, Dropped
<1>7. CASE Crash
    <2>1. queue' = <<>> /\ batch' = <<>> /\ replies' = <<>> /\ events' = <<>>
        BY <1>7 DEF Crash
    <2>2. Line' = <<>>
        <3>1. Requests(events') = <<>> /\ Requests(replies') = <<>>
            BY <2>1 DEF Requests
        <3>2. Line' = <<>> \o (<<>> \o (<<>> \o <<>>))
            BY <2>1, <3>1 DEF Line, Requests
        <3>. QED BY <3>2, ConcatEmptySeq
    <2>. QED BY <1>7, <2>2 DEF Crash, DropSwarm, LineMove, Dropped
<1>8. ASSUME NEW f \in Files, PublishFile(f) PROVE LineMove
    BY <1>8, LineSame DEF PublishFile, LineMove, Stays
<1>9. CASE Sign
    BY <1>9, LineSame DEF Sign, LineMove, Stays
<1>10. CASE SignFails
    BY <1>10, LineSame DEF SignFails, LineMove, Stays
<1>11. CASE HandleSignedRecord
    <2>1. CASE UNCHANGED queue
        BY <1>11, <2>1, LineSame DEF HandleSignedRecord, LineMove, Stays
    <2>2. CASE ~UNCHANGED queue
        <3>. DEFINE req == [rec |-> Head(signed), source |-> NoPeer, msg |-> NoMessage]
        <3>1. queue' = Append(queue, req)
            BY <1>11, <2>2 DEF HandleSignedRecord, Enqueue
        <3>2. req \in Request /\ queue \in Seq(Request)
            <4>1. signed \in Seq(Records) /\ signed # <<>> /\ queue \in Seq(Request)
                BY <1>0, <1>11 DEF HandleSignedRecord, TypeOK
            <4>2. Head(signed) \in Records
                BY <4>1, HeadTailProperties
            <4>. QED BY <4>1, <4>2, RequestTyped
        <3>3. req.msg = NoMessage
            OBVIOUS
        <3>. HIDE DEF req
        <3>4. queue' = queue \o <<req>> /\ <<req>> \in Seq(Request)
            BY <3>1, <3>2, AppendIsConcat
        <3>5. UNCHANGED <<batch, replies, events, message, verdict, published, durable>>
            BY <1>11 DEF HandleSignedRecord
        <3>6. Line' = Line \o <<req>>
            BY <1>0, <3>4, <3>5, LineJoined
        <3>7. \A k \in DOMAIN <<req>> : <<req>>[k].msg = NoMessage
            BY <3>3
        <3>. QED BY <3>4, <3>5, <3>6, <3>7 DEF LineMove, Joins
    <2>. QED BY <2>1, <2>2
<1>12. ASSUME NEW p \in Peers, NEW r \in Heard, ValidateGossip(p, r) PROVE LineMove
    <2>1. Arrive(p, r)
        BY <1>12 DEF ValidateGossip, GossipGated, GossipInvalid, GossipSeen, GossipTooOld,
                     GossipOverLimit, GossipQueued, GossipSaturated
    <2>2. r \in Records /\ Comes(r)
        BY <1>0, <2>1, PipelineAssumption DEF Arrive, Heard, TypeOK, Comes
    <2>3. This \in Messages /\ This # NoMessage
        <3>1. Len(message) \in Nat /\ MaxMessages \in Nat
            BY <1>0, PipelineAssumption, LenProperties DEF TypeOK
        <3>. QED BY <2>1, <3>1 DEF Arrive, This, Messages
    <2>4. CASE GossipQueued(p, r)
        <3>. DEFINE req == [rec |-> r, source |-> p, msg |-> This]
        <3>1. queue' = Append(queue, req)
            BY <2>4 DEF GossipQueued, Enqueue
        <3>2. req \in Request /\ queue \in Seq(Request)
            BY <1>0, <2>2, <2>3, RequestTyped DEF TypeOK
        <3>3. req.msg = This /\ req.source # NoPeer
            BY PipelineAssumption
        <3>. HIDE DEF req
        <3>4. queue' = queue \o <<req>> /\ <<req>> \in Seq(Request)
            BY <3>1, <3>2, AppendIsConcat
        <3>5. UNCHANGED <<batch, replies, events>>
            BY <2>4 DEF GossipQueued, Arrive
        <3>6. Line' = Line \o <<req>>
            BY <1>0, <3>4, <3>5, LineJoined
        <3>7. Line' = Append(Line, req)
            BY <1>0, <3>2, <3>6, LineTyped, AppendIsConcat
        <3>8. verdict' = [verdict EXCEPT ![This] = "pending"]
            BY <2>4 DEF GossipQueued
        <3>. QED BY <2>2, <3>2, <3>3, <3>7, <3>8 DEF LineMove, Queued
    <2>5. CASE ~GossipQueued(p, r)
        <3>1. \E v \in {"Reject", "Ignore"} : Report(This, v)
            BY <1>12, <2>5 DEF ValidateGossip, GossipGated, GossipInvalid, GossipSeen,
                     GossipTooOld, GossipOverLimit, GossipSaturated
        <3>2. UNCHANGED <<queue, batch, replies, events>>
            BY <1>12, <2>5 DEF ValidateGossip, GossipGated, GossipInvalid, GossipSeen,
                     GossipTooOld, GossipOverLimit, GossipSaturated, Arrive
        <3>3. verdict[This] # "lost"
            <4>1. This \notin DOMAIN message
                BY <1>0, LenProperties DEF TypeOK, This
            <4>. QED BY <2>3, <4>1 DEF LineInv
        <3>. QED BY <2>2, <2>3, <3>1, <3>2, <3>3, LineSame DEF LineMove, Refused, Report
    <2>. QED BY <2>4, <2>5
<1>13. ASSUME NEW p \in Peers, NEW resp \in Responses, AcceptSyncRecords(p, resp)
       PROVE  LineMove
    <2>. DEFINE reqs(n, idx) == [i \in 1..n |-> [rec |-> resp[idx[i]], source |-> p,
                                                msg |-> NoMessage]]
    <2>1. PICK n \in 0..Len(resp) : \E idx \in Leading(resp, n) : queue' = queue \o reqs(n, idx)
        BY <1>13 DEF AcceptSyncRecords
    <2>2. PICK idx \in Leading(resp, n) : queue' = queue \o reqs(n, idx)
        BY <2>1
    <2>3. resp \in Seq(Records) /\ n \in Nat /\ queue \in Seq(Request)
        BY <1>0, PipelineAssumption DEF Responses, TypeOK
    <2>4. \A i \in 1..n : idx[i] \in DOMAIN resp /\ resp[idx[i]] \in Records
        BY <2>3 DEF Leading, Fresh
    <2>5. reqs(n, idx) \in Seq(Request)
        BY <2>3, <2>4, RequestTyped
    <2>6. \A k \in DOMAIN reqs(n, idx) : reqs(n, idx)[k].msg = NoMessage
        OBVIOUS
    <2>. HIDE DEF reqs
    <2>7. UNCHANGED <<batch, replies, events, message, verdict, published, durable>>
        BY <1>13 DEF AcceptSyncRecords
    <2>8. Line' = Line \o reqs(n, idx)
        BY <1>0, <2>2, <2>5, <2>7, LineJoined
    <2>. QED BY <2>5, <2>6, <2>7, <2>8 DEF LineMove, Joins
<1>14. CASE WriterTake
    BY <1>0, <1>14, LineTake DEF WriterTake, LineMove, Stays
<1>15. CASE WriterCommit
    <2>1. Requests(replies') = batch
        BY <1>0, <1>15, LenProperties DEF WriterCommit, Requests, TypeOK
    <2>. QED BY <1>0, <1>15, <2>1, LineOutcome DEF WriterCommit, LineMove, Stays
<1>16. CASE WriterFail
    <2>1. Requests(replies') = batch
        BY <1>0, <1>16, LenProperties DEF WriterFail, Requests, TypeOK
    <2>. QED BY <1>0, <1>16, <2>1, LineOutcome DEF WriterFail, LineMove, Stays
<1>17. CASE WriterSend
    BY <1>0, <1>17, LineSend DEF WriterSend, LineMove, Stays
<1>18. CASE HandlePersisted
    <2>1. /\ events # <<>> /\ events' = Tail(events)
          /\ UNCHANGED <<replies, batch, queue, message, durable>>
        BY <1>18 DEF HandlePersisted, HandleStoredRemote, HandleStoredLocal,
                     HandleDuplicate, HandleFailed, NextEvent
    <2>2. Line # <<>> /\ Done = Head(Line) /\ Line' = Tail(Line)
        BY <1>0, <2>1, LineHandled
    <2>3. Head(events) \in Outcomes
        BY <1>0, <2>1, ElementsTail DEF Outcomes, TypeOK
    <2>4. 1 \in DOMAIN Line /\ Head(Line) = Line[1]
        BY <1>0, <2>2, LineTyped, LenProperties, EmptySeq
    <2>5. CASE HandleStoredRemote
        <3>1. Done.rec \in durable
            BY <2>3, <2>5 DEF HandleStoredRemote, NextEvent, DiskInv, OutcomesAreTrue, Done
        <3>. QED BY <2>1, <2>2, <2>5, <3>1 DEF HandleStoredRemote, LineMove, Answered
    <2>6. CASE HandleStoredLocal
        <3>1. Done.rec \in durable
            BY <2>3, <2>6 DEF HandleStoredLocal, NextEvent, DiskInv, OutcomesAreTrue, Done
        <3>2. Done.msg = NoMessage
            BY <2>2, <2>4, <2>6 DEF HandleStoredLocal, LineInv
        <3>3. Report(Done.msg, "Ignore")
            BY <2>6, <3>2 DEF HandleStoredLocal, Report
        <3>4. published' = published \/ published' = published \cup {Done.rec}
            BY <2>6 DEF HandleStoredLocal
        <3>5. Answered("Ignore")
            BY <2>1, <2>2, <3>1, <3>2, <3>3, <3>4 DEF Answered
        <3>. QED BY <3>5 DEF LineMove
    <2>7. CASE HandleDuplicate
        BY <2>1, <2>2, <2>7 DEF HandleDuplicate, LineMove, Answered
    <2>8. CASE HandleFailed
        BY <2>1, <2>2, <2>8 DEF HandleFailed, LineMove, Answered
    <2>. QED BY <1>18, <2>5, <2>6, <2>7, <2>8 DEF HandlePersisted
<1>19. CASE Maintain
    BY <1>19, LineSame DEF Maintain, LineMove, Stays
<1>20. CASE HandleMaintenance
    BY <1>20, LineSame DEF HandleMaintenance, LineMove, Stays
<1>21. ASSUME NEW r \in db, RemoveSignature(r) PROVE LineMove
    BY <1>21, LineSame DEF RemoveSignature, LineMove, Stays
<1>22. ASSUME NEW p \in Peers, BlockExpires(p) PROVE LineMove
    BY <1>22, LineSame DEF BlockExpires, LineMove, Stays
<1>23. CASE Evict
    BY <1>23, LineSame DEF Evict, LineMove, Stays
<1>24. CASE UNCHANGED vars
    BY <1>24, LineSame DEF vars, LineMove, Stays
<1>. QED BY <1>1, <1>2, <1>3, <1>4, <1>5, <1>6, <1>7, <1>8, <1>9, <1>10, <1>11, <1>12,
            <1>13, <1>14, <1>15, <1>16, <1>17, <1>18, <1>19, <1>20, <1>21, <1>22,
            <1>23, <1>24 DEF Next


\* A message that arrives has no verdict yet, and no place in the line.
LEMMA NewMessage ==
    ASSUME DiskInv, LineInv, NEW r \in Records, Comes(r)
    PROVE  /\ This \in Messages /\ This # NoMessage /\ This \notin DOMAIN message
           /\ DOMAIN message' = DOMAIN message \cup {This}
           /\ \A m \in DOMAIN message : message'[m] = message[m]
           /\ \A k \in DOMAIN Line : Line[k].msg # This
           /\ verdict[This] = "none" /\ verdict \in [Messages -> Verdicts]
<1>1. message \in Seq(Records) /\ verdict \in [Messages -> Verdicts]
      /\ MaxMessages \in Nat
    BY PipelineAssumption DEF DiskInv, TypeOK
<1>2. /\ Len(message) \in Nat /\ DOMAIN message = 1..Len(message)
      /\ DOMAIN message' = 1..(Len(message) + 1) /\ Len(message) < MaxMessages
      /\ \A m \in DOMAIN message : message'[m] = message[m]
    BY <1>1, LenProperties, AppendProperties DEF Comes
<1>3. This \in Messages /\ This # NoMessage /\ This \notin DOMAIN message
      /\ DOMAIN message' = DOMAIN message \cup {This}
    BY <1>1, <1>2 DEF This, Messages
<1>4. ASSUME NEW k \in DOMAIN Line PROVE Line[k].msg # This
    <2>1. Line[k] \in InFlight
        BY LineInFlight DEF DiskInv
    <2>. QED BY <1>3, <2>1 DEF DiskInv, CarriesMessage
<1>. QED BY <1>1, <1>2, <1>3, <1>4 DEF LineInv

\* The request at the head of the line waits for its verdict or needs none.
LEMMA HeadOfLine ==
    ASSUME DiskInv, LineInv, Line # <<>>
    PROVE  /\ Head(Line) = Line[1] /\ 1 \in DOMAIN Line
           /\ Head(Line).msg \in Messages \cup {NoMessage}
           /\ Head(Line).msg # NoMessage =>
                /\ Head(Line).msg \in Messages
                /\ Head(Line).msg \in DOMAIN message
                /\ message[Head(Line).msg] = Head(Line).rec
                /\ verdict[Head(Line).msg] \in {"pending", "lost"}
<1>1. Line \in Seq(Request) /\ verdict \in [Messages -> Verdicts]
    BY LineTyped DEF DiskInv, TypeOK
<1>2. Head(Line) = Line[1] /\ 1 \in DOMAIN Line
    BY <1>1, LenProperties, EmptySeq
<1>3. Line[1] \in Request /\ Line[1] \in InFlight
    BY <1>1, <1>2, ElementOfSeq, LenProperties, LineInFlight DEF DiskInv
<1>4. Line[1].msg \in Messages \cup {NoMessage}
    BY <1>3 DEF Request
<1>5. Line[1].msg # NoMessage => Line[1].msg \in DOMAIN message /\ message[Line[1].msg] = Line[1].rec
    BY <1>3 DEF DiskInv, CarriesMessage
<1>6. ASSUME Line[1].msg # NoMessage
      PROVE  verdict[Line[1].msg] \in {"pending", "lost"}
    <2>1. verdict[Line[1].msg] \notin Final /\ verdict[Line[1].msg] # "none"
        BY <1>2, <1>4, <1>5, <1>6 DEF LineInv
    <2>. QED BY <1>1, <1>4, <1>6, <2>1 DEF Verdicts
<1>. QED BY <1>2, <1>4, <1>5, <1>6

LEMMA LineNext ==
    ASSUME DiskInv, DiskInv', LineInv, LineMove
    PROVE  LineInv'
<1>1. /\ Line \in Seq(Request) /\ Line' \in Seq(Request)
      /\ Len(Line) \in Nat /\ DOMAIN Line = 1..Len(Line)
      /\ Len(Line') \in Nat /\ DOMAIN Line' = 1..Len(Line')
    <2>1. TypeOK /\ TypeOK'
        BY DEF DiskInv
    <2>2. Line \in Seq(Request)
        BY <2>1, LineTyped
    <2>3. Line' \in Seq(Request)
        <3>1. Stays \/ Dropped \/ (\E r \in Records : Refused(r)) => Line' = Line \/ Line' = <<>>
            BY DEF Stays, Dropped, Refused
        <3>2. Joins => Line' \in Seq(Request)
            BY <2>2, ConcatProperties DEF Joins
        <3>3. ASSUME NEW r \in Records, Queued(r) PROVE Line' \in Seq(Request)
            BY <2>2, <3>3, AppendProperties DEF Queued
        <3>4. ASSUME NEW v, Answered(v) PROVE Line' \in Seq(Request)
            BY <2>2, <3>4, HeadTailProperties DEF Answered
        <3>5. <<>> \in Seq(Request)
            OBVIOUS
        <3>6. Stays \/ Joins \/ Dropped \/ (\E r \in Records : Refused(r))
                \/ (\E r \in Records : Queued(r)) \/ (\E v : Answered(v))
            BY DEF LineMove
        <3>. QED BY <2>2, <3>1, <3>2, <3>3, <3>4, <3>5, <3>6
    <2>. QED BY <2>2, <2>3, LenProperties
<1>2. \A k \in DOMAIN Line : Line[k].msg \in Messages \cup {NoMessage}
    <2>1. \A k \in DOMAIN Line : Line[k] \in Request
        BY <1>1, ElementOfSeq
    <2>. QED BY <2>1 DEF Request
<1>3. \A k \in DOMAIN Line : Line[k].msg # NoMessage => Line[k].msg \in DOMAIN message
    <2>1. ASSUME NEW k \in DOMAIN Line PROVE Line[k] \in InFlight
        BY LineInFlight DEF DiskInv
    <2>. QED BY <2>1 DEF DiskInv, CarriesMessage
<1>4. CASE Stays
    BY <1>4 DEF Stays, LineInv
<1>5. CASE Joins
    <2>1. PICK t \in Seq(Request) : /\ Line' = Line \o t
                                    /\ \A k \in DOMAIN t : t[k].msg = NoMessage
        BY <1>5 DEF Joins
    <2>2. /\ Len(t) \in Nat /\ DOMAIN t = 1..Len(t)
          /\ Len(Line') = Len(Line) + Len(t)
          /\ \A k \in 1..(Len(Line) + Len(t)) :
                Line'[k] = IF k <= Len(Line) THEN Line[k] ELSE t[k - Len(Line)]
        BY <1>1, <2>1, ConcatProperties, LenProperties
    <2>3. /\ \A k \in DOMAIN Line : k \in DOMAIN Line' /\ Line'[k] = Line[k]
          /\ \A k \in DOMAIN Line' : k \in DOMAIN Line \/ Line'[k].msg = NoMessage
        BY <1>1, <2>1, <2>2
    <2>4. \A m \in Messages : m # NoMessage
        BY DEF Messages
    <2>. QED BY <1>1, <1>5, <2>3, <2>4 DEF Joins, LineInv
<1>6. CASE Dropped
    <2>1. /\ verdict \in [Messages -> Verdicts] /\ message' = message
          /\ \A m \in Messages : verdict'[m] = IF verdict[m] = "pending" THEN "lost" ELSE verdict[m]
        BY <1>6 DEF Dropped, DiskInv, TypeOK
    <2>2. \A m \in Messages : /\ verdict'[m] # "pending"
                              /\ verdict'[m] \in Final => verdict[m] \in Final
                              /\ verdict'[m] = "none" <=> verdict[m] = "none"
        BY <2>1 DEF Final
    <2>3. Line' = Line \/ DOMAIN Line' = {}
        BY <1>6 DEF Dropped
    <2>4. \A m \in Messages : verdict'[m] = "none" <=> m \notin DOMAIN message'
        BY <2>1, <2>2 DEF LineInv, Final
    <2>5. CASE Line' = Line
        <3>1. \A m \in Messages : verdict'[m] \in Final => \A k \in DOMAIN Line' : Line'[k].msg # m
            BY <2>2, <2>5 DEF LineInv, Final
        <3>2. /\ \A j, k \in DOMAIN Line' :
                    Line'[j].msg = Line'[k].msg => j = k \/ Line'[j].msg = NoMessage
              /\ \A k \in DOMAIN Line' : Line'[k].source = NoPeer => Line'[k].msg = NoMessage
            BY <2>5 DEF LineInv, Final
        <3>. QED BY <2>2, <2>4, <3>1, <3>2 DEF LineInv, Final
    <2>6. CASE DOMAIN Line' = {}
        BY <2>2, <2>4, <2>6 DEF LineInv, Final
    <2>. QED BY <2>3, <2>5, <2>6
<1>7. ASSUME NEW r \in Records, Comes(r)
      PROVE  /\ This \in Messages /\ This # NoMessage /\ This \notin DOMAIN message
             /\ DOMAIN message' = DOMAIN message \cup {This}
             /\ \A k \in DOMAIN Line : Line[k].msg # This
             /\ verdict[This] = "none" /\ verdict \in [Messages -> Verdicts]
    BY <1>7, NewMessage
<1>8. ASSUME NEW r \in Records, Refused(r) PROVE LineInv'
    <2>1. Comes(r)
        BY <1>8 DEF Refused
    <2>. QED BY <1>7, <1>8, <2>1 DEF Refused, LineInv, Final, Verdicts
<1>9. ASSUME NEW r \in Records, Queued(r) PROVE LineInv'
    <2>1. Comes(r)
        BY <1>9 DEF Queued
    <2>2. PICK q \in Request : /\ q.msg = This /\ q.source # NoPeer
                               /\ Line' = Append(Line, q)
        BY <1>9 DEF Queued
    <2>3. /\ DOMAIN Line' = DOMAIN Line \cup {Len(Line) + 1}
          /\ \A k \in DOMAIN Line : Line'[k] = Line[k]
          /\ Line'[Len(Line) + 1] = q /\ Len(Line) + 1 \notin DOMAIN Line
        BY <1>1, <2>2, AppendProperties, LenProperties
    <2>4. \A m \in Messages : verdict'[m] = IF m = This THEN "pending" ELSE verdict[m]
        BY <1>7, <1>9, <2>1 DEF Queued
    <2>5. /\ \A j, k \in DOMAIN Line' :
                Line'[j].msg = Line'[k].msg => j = k \/ Line'[j].msg = NoMessage
          /\ \A k \in DOMAIN Line' : Line'[k].source = NoPeer => Line'[k].msg = NoMessage
        BY <1>7, <2>1, <2>2, <2>3 DEF LineInv
    <2>6. /\ \A m \in Messages : verdict'[m] = "pending" => \E k \in DOMAIN Line' : Line'[k].msg = m
          /\ \A m \in Messages : verdict'[m] \in Final => \A k \in DOMAIN Line' : Line'[k].msg # m
        BY <1>7, <2>1, <2>2, <2>3, <2>4 DEF LineInv, Final
    <2>7. \A m \in Messages : verdict'[m] = "none" <=> m \notin DOMAIN message'
        BY <1>7, <2>1, <2>4 DEF LineInv
    <2>. QED BY <2>5, <2>6, <2>7 DEF LineInv
<1>10. ASSUME NEW v \in {"Accept", "Ignore"}, Answered(v) PROVE LineInv'
    <2>1. /\ Head(Line) = Line[1] /\ 1 \in DOMAIN Line
          /\ Len(Line') = Len(Line) - 1
          /\ \A k \in DOMAIN Line' : k + 1 \in DOMAIN Line /\ k + 1 # 1 /\ Line'[k] = Line[k + 1]
          /\ \A k \in DOMAIN Line : k # 1 => k - 1 \in DOMAIN Line' /\ Line'[k - 1] = Line[k]
        <3>1. Len(Line) # 0 /\ Line' = Tail(Line) /\ Line # <<>>
            BY <1>1, <1>10, EmptySeq DEF Answered
        <3>2. /\ Head(Line) = Line[1] /\ Len(Line') = Len(Line) - 1
              /\ \A k \in 1..(Len(Line) - 1) : Line'[k] = Line[k + 1]
            BY <1>1, <3>1, HeadTailProperties
        <3>3. ASSUME NEW k \in DOMAIN Line, k # 1
              PROVE  k - 1 \in DOMAIN Line' /\ Line'[k - 1] = Line[k]
            <4>1. k - 1 \in 1..(Len(Line) - 1) /\ (k - 1) + 1 = k
                BY <1>1, <3>3
            <4>. QED BY <1>1, <3>2, <4>1
        <3>. QED BY <1>1, <3>1, <3>2, <3>3
    <2>2. DEFINE h == Head(Line).msg
    <2>3. h \in Messages \cup {NoMessage} /\ verdict \in [Messages -> Verdicts]
        BY <1>2, <2>1 DEF DiskInv, TypeOK
    <2>4. \A m \in Messages : m # NoMessage
        BY DEF Messages
    <2>5. \A m \in Messages : verdict'[m] = verdict[m] \/ (m = h /\ verdict'[m] = v)
        BY <1>10, <2>3 DEF Answered, Report
    <2>6. ASSUME NEW m \in Messages, verdict'[m] = "pending"
          PROVE  \E k \in DOMAIN Line' : Line'[k].msg = m
        <3>1. verdict[m] = "pending" /\ m # h
            <4>1. verdict[m] = "pending"
                BY <2>5, <2>6
            <4>2. m = h => verdict' = [verdict EXCEPT ![m] = v]
                BY <1>10, <2>4, <4>1 DEF Answered, Report
            <4>. QED BY <2>3, <2>6, <4>1, <4>2
        <3>2. PICK k \in DOMAIN Line : Line[k].msg = m
            BY <3>1 DEF LineInv
        <3>. QED BY <2>1, <3>1, <3>2
    <2>7. ASSUME NEW m \in Messages, verdict'[m] \in Final, NEW k \in DOMAIN Line'
          PROVE  Line'[k].msg # m
        <3>1. Line'[k] = Line[k + 1] /\ k + 1 \in DOMAIN Line /\ k + 1 # 1
            BY <2>1
        <3>2. CASE m = h
            <4>1. Line[k + 1].msg = Line[1].msg => Line[1].msg = NoMessage
                BY <2>1, <3>1 DEF LineInv
            <4>. QED BY <2>1, <2>4, <3>1, <3>2, <4>1
        <3>3. CASE m # h
            BY <2>5, <2>7, <3>1, <3>3 DEF LineInv
        <3>. QED BY <3>2, <3>3
    <2>8. \A m \in Messages : verdict'[m] = "none" <=> m \notin DOMAIN message'
        <3>1. message' = message
            BY <1>10 DEF Answered
        <3>2. h \in Messages => h \in DOMAIN message
            BY <1>3, <2>1, <2>4
        <3>. QED BY <2>5, <3>1, <3>2 DEF LineInv
    <2>9. /\ \A j, k \in DOMAIN Line' :
                Line'[j].msg = Line'[k].msg => j = k \/ Line'[j].msg = NoMessage
          /\ \A k \in DOMAIN Line' : Line'[k].source = NoPeer => Line'[k].msg = NoMessage
        <3>1. ASSUME NEW j \in DOMAIN Line', NEW k \in DOMAIN Line', Line'[j].msg = Line'[k].msg
              PROVE  j = k \/ Line'[j].msg = NoMessage
            <4>1. j + 1 \in DOMAIN Line /\ k + 1 \in DOMAIN Line
                  /\ Line'[j] = Line[j + 1] /\ Line'[k] = Line[k + 1]
                BY <2>1
            <4>2. j + 1 = k + 1 \/ Line'[j].msg = NoMessage
                BY <3>1, <4>1 DEF LineInv
            <4>. QED BY <1>1, <4>2
        <3>. QED BY <2>1, <3>1 DEF LineInv
    <2>. QED BY <2>6, <2>7, <2>8, <2>9 DEF LineInv
<1>. QED BY <1>4, <1>5, <1>6, <1>8, <1>9, <1>10 DEF LineMove

LEMMA LineInit == Init => LineInv
<1>. SUFFICES ASSUME Init PROVE LineInv
    OBVIOUS
<1>1. Line = <<>>
    <2>1. Requests(events) = <<>> /\ Requests(replies) = <<>> /\ batch = <<>> /\ queue = <<>>
        BY DEF Init, Requests
    <2>2. Line = <<>> \o (<<>> \o (<<>> \o <<>>))
        BY <2>1 DEF Line
    <2>. QED BY <2>2, ConcatEmptySeq
<1>. QED BY <1>1 DEF Init, LineInv, Final


LEMMA VerdictKept ==
    ASSUME DiskInv, LineInv, LineMove
    PROVE  \A m \in Messages : verdict[m] \in Final => verdict'[m] = verdict[m]
<1>0. verdict \in [Messages -> Verdicts]
    BY DEF DiskInv, TypeOK
<1>1. CASE Stays \/ Joins
    BY <1>1 DEF Stays, Joins
<1>2. CASE Dropped
    BY <1>0, <1>2 DEF Dropped, Final
<1>3. ASSUME NEW r \in Records, Refused(r) \/ Queued(r)
      PROVE  \A m \in Messages : verdict[m] \in Final => verdict'[m] = verdict[m]
    <2>1. verdict[This] \notin Final
        BY <1>3, NewMessage DEF Refused, Queued, Final
    <2>. QED BY <1>0, <1>3, <2>1 DEF Refused, Queued
<1>4. ASSUME NEW v, Answered(v)
      PROVE  \A m \in Messages : verdict[m] \in Final => verdict'[m] = verdict[m]
    <2>1. Head(Line).msg # NoMessage => verdict[Head(Line).msg] \notin Final
        BY <1>4, HeadOfLine DEF Answered, Final
    <2>. QED BY <1>0, <1>4, <2>1 DEF Answered, Report
<1>5. Stays \/ Joins \/ Dropped \/ (\E r \in Records : Refused(r) \/ Queued(r))
        \/ (\E v : Answered(v))
    BY DEF LineMove
<1>. QED BY <1>1, <1>2, <1>3, <1>4, <1>5

\* Lines and disk together: every state has both.
THEOREM LineInvariant == Spec => [](DiskInv /\ LineInv)
<1>1. Init => DiskInv /\ LineInv
    BY DiskInit, LineInit
<1>2. DiskInv /\ LineInv /\ [Next]_vars => DiskInv' /\ LineInv'
    BY DiskNext, LineMoves, LineNext
<1>. QED BY <1>1, <1>2, PTL DEF Spec

\* Every message that has no verdict yet waits in exactly one place between
\* try_enqueue and handle_persisted, and none waits that has one: no verdict is
\* lost or given twice on the way through the queue, the writer and the events.
THEOREM Waiting == Spec => []PendingInFlight
<1>1. DiskInv /\ LineInv => PendingInFlight
    <2>. SUFFICES ASSUME DiskInv, LineInv, NEW m \in Messages
                  PROVE  /\ verdict[m] = "pending" => \E k \in DOMAIN Line : Places(m) = {k}
                         /\ verdict[m] \in Final => Places(m) = {}
        BY DEF PendingInFlight
    <2>1. m # NoMessage
        BY DEF Messages
    <2>2. ASSUME NEW k \in DOMAIN Line, Line[k].msg = m PROVE Places(m) = {k}
        BY <2>1, <2>2 DEF LineInv, Places
    <2>. QED BY <2>2 DEF LineInv, Places
<1>. QED BY <1>1, LineInvariant, PTL

\* gossipsub is told once of each message, in any order of commits, resets and
\* crashes: handle_persisted finds no message that has its verdict.
THEOREM ToldOnce == Spec => VerdictIsFinal
<1>1. DiskInv /\ LineInv /\ [Next]_vars =>
        [\A m \in Messages : verdict[m] \in Final => verdict'[m] = verdict[m]]_vars
    BY LineMoves, VerdictKept
<1>. QED BY <1>1, LineInvariant, PTL DEF Spec, VerdictIsFinal


-----------------------------------------------------------------------------
(* The ledger.                                                               *)

LEMMA LedgerTyped == DiskInv => Vouched \subseteq durable /\ durable \subseteq Records
BY DEF DiskInv, TypeOK, VouchedIsDurable, Vouched

\* A record is vouched for when it is published, or a message that holds it
\* is accepted.
LEMMA VouchedAre ==
    \A r : r \in Vouched <=> \/ r \in published
                             \/ \E m \in DOMAIN message : verdict[m] = "Accept" /\ message[m] = r
BY DEF Vouched

LEMMA LedgerStep ==
    ASSUME DiskInv, DiskInv', LineInv, LineMove
    PROVE  Ledger!Next \/ UNCHANGED <<durable, Vouched, Standing>>
<1>0. /\ verdict \in [Messages -> Verdicts] /\ verdict' \in [Messages -> Verdicts]
      /\ message \in Seq(Records) /\ DOMAIN message \subseteq Messages
    <2>1. /\ verdict \in [Messages -> Verdicts] /\ verdict' \in [Messages -> Verdicts]
          /\ message \in Seq(Records)
        BY DEF DiskInv, TypeOK
    <2>2. DOMAIN message \subseteq Messages
        BY <2>1, PipelineAssumption, LenProperties DEF DiskInv, TypeOK, Messages
    <2>. QED BY <2>1, <2>2
<1>. DEFINE Of(v) == CASE v = "none"    -> "unheard"
                       [] v = "pending" -> "open"
                       [] OTHER         -> "closed"
<1>1. /\ Standing = [m \in Messages |-> Of(verdict[m])]
      /\ Standing' = [m \in Messages |-> Of(verdict'[m])]
    BY DEF Standing
<1>2. /\ Of("none") = "unheard" /\ Of("pending") = "open" /\ Of("lost") = "closed"
      /\ Of("Accept") = "closed" /\ Of("Ignore") = "closed" /\ Of("Reject") = "closed"
    OBVIOUS
<1>. HIDE DEF Of
<1>3. CASE Stays
    <2>1. Vouched' = Vouched /\ Standing' = Standing
        BY <1>3, <1>1 DEF Stays, Vouched
    <2>2. durable \subseteq durable' /\ durable' \subseteq Records
        BY <1>3 DEF Stays, DiskInv, TypeOK
    <2>. QED BY <2>1, <2>2 DEF Ledger!Next, Ledger!Commit
<1>4. CASE Joins
    <2>1. Vouched' = Vouched /\ Standing' = Standing /\ durable' = durable
        BY <1>4, <1>1 DEF Joins, Vouched
    <2>. QED BY <2>1
<1>5. CASE Dropped
    <2>. DEFINE S == {m \in Messages : verdict[m] = "pending"}
    <2>1. S \in SUBSET {m \in Messages : Standing[m] = "open"}
        BY <1>1, <1>2
    <2>2. \A m \in Messages : verdict'[m] = IF m \in S THEN "lost" ELSE verdict[m]
        BY <1>0, <1>5 DEF Dropped
    <2>3. Standing' = [m \in Messages |-> IF m \in S THEN "closed" ELSE Standing[m]]
        <3>. HIDE DEF S
        <3>. QED BY <1>1, <1>2, <2>2
    <2>4. \A m \in DOMAIN message : verdict'[m] = "Accept" <=> verdict[m] = "Accept"
        BY <1>0, <2>2
    <2>5. Vouched' = Vouched /\ durable' = durable
        BY <1>5, <2>4 DEF Dropped, Vouched
    <2>. HIDE DEF S
    <2>. QED BY <2>1, <2>3, <2>5 DEF Ledger!Next, Ledger!Close
<1>6. ASSUME NEW r \in Records, Comes(r), NEW v \in {"Ignore", "Reject", "pending"},
             verdict' = [verdict EXCEPT ![This] = v]
      PROVE  Ledger!Next
    <2>1. This \in Messages /\ Standing[This] = "unheard" /\ This \notin DOMAIN message
          /\ DOMAIN message' = DOMAIN message \cup {This}
          /\ \A m \in DOMAIN message : message'[m] = message[m]
        BY <1>1, <1>2, <1>6, NewMessage
    <2>2. \A m \in Messages : verdict'[m] = IF m = This THEN v ELSE verdict[m]
        BY <1>0, <1>6
    <2>3. Of(v) \in {"open", "closed"}
        BY <1>2
    <2>4. Standing' = [Standing EXCEPT ![This] = Of(v)]
        BY <1>1, <2>1, <2>2
    <2>5. published' = published /\ durable' = durable
        BY <1>6 DEF Comes
    <2>6. \A m \in DOMAIN message' : verdict'[m] = "Accept" <=>
            m \in DOMAIN message /\ verdict[m] = "Accept"
        BY <1>0, <2>1, <2>2
    <2>7. Vouched' = Vouched
        BY <2>1, <2>5, <2>6 DEF Vouched
    <2>. QED BY <2>1, <2>3, <2>4, <2>5, <2>7 DEF Ledger!Next, Ledger!Hear
<1>7. ASSUME NEW v \in {"Accept", "Ignore"}, Answered(v)
      PROVE  Ledger!Next \/ UNCHANGED <<durable, Vouched, Standing>>
    <2>. DEFINE h == Head(Line).msg
                d == Head(Line).rec
    <2>1. /\ h \in Messages \cup {NoMessage}
          /\ h # NoMessage => /\ h \in Messages /\ h \in DOMAIN message /\ message[h] = d
                              /\ verdict[h] \in {"pending", "lost"}
        BY <1>7, HeadOfLine DEF Answered
    <2>2. /\ durable' = durable /\ message' = message
          /\ verdict' = IF h = NoMessage \/ verdict[h] = "lost" THEN verdict
                        ELSE [verdict EXCEPT ![h] = v]
          /\ v = "Accept" => d \in durable
          /\ \/ published' = published
             \/ h = NoMessage /\ d \in durable /\ published' = published \cup {d}
        BY <1>7 DEF Answered, Report
    <2>. HIDE DEF h, d
    <2>3. CASE h = NoMessage \/ verdict[h] = "lost"
        <3>1. Standing' = Standing
            BY <1>1, <2>2, <2>3
        <3>2. CASE published' = published
            BY <2>2, <2>3, <3>1, <3>2 DEF Vouched
        <3>3. CASE d \in durable /\ published' = published \cup {d}
            <4>1. Vouched' = Vouched \cup {d}
                BY <2>2, <2>3, <3>3 DEF Vouched
            <4>. QED BY <2>2, <3>1, <3>3, <4>1 DEF Ledger!Next, Ledger!Vouch
        <3>. QED BY <2>2, <3>2, <3>3
    <2>4. CASE h # NoMessage /\ verdict[h] # "lost"
        <3>1. /\ h \in Messages /\ h \in DOMAIN message /\ message[h] = d
              /\ verdict[h] = "pending" /\ published' = published
              /\ verdict' = [verdict EXCEPT ![h] = v]
            BY <2>1, <2>2, <2>4
        <3>2. Standing[h] = "open"
            BY <1>1, <1>2, <3>1
        <3>3. \A m \in Messages : verdict'[m] = IF m = h THEN v ELSE verdict[m]
            BY <1>0, <3>1
        <3>4. Standing' = [Standing EXCEPT ![h] = "closed"]
            BY <1>1, <1>2, <3>1, <3>3
        <3>5. CASE v = "Accept"
            <4>1. Vouched' = Vouched \cup {d}
                <5>1. \A m \in DOMAIN message : verdict'[m] = "Accept" <=>
                        verdict[m] = "Accept" \/ m = h
                    BY <1>0, <3>3, <3>5
                <5>. QED BY <2>2, <3>1, <5>1 DEF Vouched
            <4>. QED BY <2>2, <3>1, <3>2, <3>4, <3>5, <4>1 DEF Ledger!Next, Ledger!Vouch
        <3>6. CASE v = "Ignore"
            <4>1. Vouched' = Vouched
                <5>1. \A m \in DOMAIN message : verdict'[m] = "Accept" <=> verdict[m] = "Accept"
                    BY <1>0, <3>1, <3>3, <3>6
                <5>. QED BY <2>2, <3>1, <5>1 DEF Vouched
            <4>2. {h} \in SUBSET {m \in Messages : Standing[m] = "open"}
                BY <3>1, <3>2
            <4>3. Standing' = [m \in Messages |-> IF m \in {h} THEN "closed" ELSE Standing[m]]
                BY <1>1, <3>4
            <4>. QED BY <2>2, <4>1, <4>2, <4>3 DEF Ledger!Next, Ledger!Close
        <3>. QED BY <3>5, <3>6
    <2>. QED BY <2>3, <2>4
<1>8. ASSUME NEW r \in Records, Refused(r) PROVE Ledger!Next
    BY <1>6, <1>8 DEF Refused
<1>9. ASSUME NEW r \in Records, Queued(r) PROVE Ledger!Next
    BY <1>6, <1>9 DEF Queued
<1>. QED BY <1>3, <1>4, <1>5, <1>7, <1>8, <1>9 DEF LineMove

\* The pipeline keeps the promise of VouchLedger: what it accepts and publishes
\* is on disk by then, no voucher is taken back, and each message it lets in is
\* closed once.
THEOREM Promise == Spec => LedgerSpec
<1>1. Init => Ledger!Init
    <2>. SUFFICES ASSUME Init PROVE Ledger!Init
        OBVIOUS
    <2>1. Vouched = {} /\ durable = {}
        BY DEF Init, Vouched
    <2>2. Standing = [m \in Messages |-> "unheard"]
        BY DEF Init, Standing
    <2>. QED BY <2>1, <2>2 DEF Ledger!Init
<1>2. (DiskInv /\ LineInv) /\ (DiskInv /\ LineInv)' /\ [Next]_vars => [Ledger!Next]_(Ledger!ledgerVars)
    BY LineMoves, LedgerStep DEF Ledger!ledgerVars
<1>. QED BY <1>1, <1>2, LineInvariant, PTL DEF Spec, LedgerSpec, Ledger!Spec

\* A record goes to gossipsub only under the identity that signed it, while a
\* running node has that identity: handle_persisted looks before it publishes.
THEOREM OwnName == Spec => PublishedAsSelf
<1>1. [Next]_vars => [\A r \in published' \ published : r.origin = identity /\ phase = "running"]_vars
    BY ZenonT(60) DEF Next, vars, actorVars, signerVars, writerVars, diskVars, netVars, Start, ResetIdentity, ClearIdentityState, NewIdentity, ResetFails, Shutdown,
           Crash, PublishFile, Sign, SignFails, HandleSignedRecord, ValidateGossip,
           GossipGated, GossipInvalid, GossipSeen, GossipTooOld, GossipOverLimit,
           GossipQueued, GossipSaturated, Arrive, AcceptSyncRecords, WriterTake,
           WriterCommit, WriterFail, WriterSend, HandlePersisted, HandleStoredRemote,
           HandleStoredLocal, HandleDuplicate, HandleFailed, NextEvent, Maintain,
           HandleMaintenance, RemoveSignature, BlockExpires, Evict
<1>. QED BY <1>1, PTL DEF Spec, PublishedAsSelf

-----------------------------------------------------------------------------
(* The tables.                                                               *)

LEMMA NewRowsTyped == TypeOK => NewRows \subseteq Records
<1>. SUFFICES ASSUME TypeOK, NEW k \in DOMAIN batch PROVE batch[k].rec \in Records
    BY DEF NewRows
<1>1. batch[k] \in Request
    BY ElementOfSeq, LenProperties DEF TypeOK
<1>. QED BY <1>1 DEF Request

\* The rows of a batch have keys of their own, which no row of the table has.
LEMMA NewRowsDiffer ==
    ASSUME TypeOK
    PROVE  /\ \A r, s \in NewRows : SameKey(r, s) => r = s
           /\ \A r \in NewRows, s \in db : ~SameKey(r, s)
<1>1. DOMAIN batch = 1..Len(batch) /\ Len(batch) \in Nat
    BY LenProperties DEF TypeOK
<1>2. ASSUME NEW j \in DOMAIN batch, NEW k \in DOMAIN batch, Inserted(j), Inserted(k),
             SameKey(batch[j].rec, batch[k].rec)
      PROVE  j = k
    <2>1. SameKey(batch[k].rec, batch[j].rec)
        BY <1>2 DEF SameKey
    <2>2. ~(j < k) /\ ~(k < j)
        BY <1>1, <1>2, <2>1 DEF Inserted
    <2>. QED BY <1>1, <2>2
<1>3. ASSUME NEW r \in NewRows, NEW s \in NewRows, SameKey(r, s) PROVE r = s
    <2>1. PICK j \in DOMAIN batch : Inserted(j) /\ r = batch[j].rec
        BY DEF NewRows
    <2>2. PICK k \in DOMAIN batch : Inserted(k) /\ s = batch[k].rec
        BY DEF NewRows
    <2>. QED BY <1>2, <1>3, <2>1, <2>2
<1>4. \A r \in NewRows, s \in db : ~SameKey(r, s)
    BY DEF NewRows, Inserted, SameKey
<1>. QED BY <1>3, <1>4

LEMMA TablesCommit ==
    ASSUME DiskInv, TablesAgree, WriterCommit
    PROVE  TablesAgree'
<1>1. TypeOK /\ db \subseteq durable /\ durable \subseteq Records
    BY DEF DiskInv, TypeOK
<1>2. /\ db' = db \cup NewRows /\ durable' = durable \cup NewRows
      /\ highest' = [o \in Origins |-> SetMax({highest[o]} \cup SeqsOf(NewRows, o))]
    BY DEF WriterCommit
<1>3. ASSUME NEW r \in db', NEW s \in db', SameKey(r, s) PROVE r = s
    <2>1. SameKey(s, r)
        BY <1>3 DEF SameKey
    <2>. QED BY <1>1, <1>2, <1>3, <2>1, NewRowsDiffer DEF TablesAgree
<1>4. ASSUME NEW r \in durable' PROVE r.seq <= highest'[r.origin]
    <2>. DEFINE o == r.origin
                S == {highest[o]} \cup SeqsOf(NewRows, o)
    <2>1. r \in Records /\ o \in Origins /\ r.seq \in Sequences
        BY <1>1, <1>2, NewRowsTyped DEF Records
    <2>2. S \in SUBSET Sequences /\ S # {}
        BY <1>1, <2>1, NewRowsTyped, SeqsOfTyped DEF TypeOK
    <2>3. highest'[o] = SetMax(S)
        BY <1>2, <2>1
    <2>4. \A n \in S : SetMax(S) >= n
        <3>. HIDE DEF S
        <3>. QED BY <2>2, SetMaxIsMax
    <2>5. SetMax(S) \in S
        <3>. HIDE DEF S
        <3>. QED BY <2>2, SetMaxIsMax
    <2>6. \A n \in S : n \in Int
        BY <2>2, ReplayAssumption DEF Sequences
    <2>7. CASE r \in durable
        <3>1. r.seq <= highest[o] /\ highest[o] \in S
            BY <2>7 DEF TablesAgree
        <3>2. r.seq \in Int
            BY <2>1, ReplayAssumption DEF Sequences
        <3>. HIDE DEF S, o
        <3>. QED BY <2>3, <2>4, <2>5, <2>6, <3>1, <3>2 DEF o
    <2>8. CASE r \in NewRows
        <3>1. r.seq \in S
            BY <2>8 DEF SeqsOf
        <3>. HIDE DEF S, o
        <3>. QED BY <2>3, <2>4, <2>5, <2>6, <3>1 DEF o
    <2>. QED BY <1>2, <2>7, <2>8
<1>. QED BY <1>3, <1>4 DEF TablesAgree

LEMMA TablesNext ==
    ASSUME DiskInv, TablesAgree, [Next]_vars
    PROVE  TablesAgree'
<1>1. CASE WriterCommit
    BY <1>1, TablesCommit
<1>2. CASE ~WriterCommit
    <2>1. db' \subseteq db /\ durable' = durable /\ highest' = highest
        BY <1>2, ZenonT(60) DEF Next, vars, actorVars, signerVars, writerVars, diskVars, netVars, Start,
           ResetIdentity, ClearIdentityState, NewIdentity, ResetFails, Shutdown,
           Crash, PublishFile, Sign, SignFails, HandleSignedRecord, ValidateGossip,
           GossipGated, GossipInvalid, GossipSeen, GossipTooOld, GossipOverLimit,
           GossipQueued, GossipSaturated, Arrive, AcceptSyncRecords, WriterTake,
           WriterFail, WriterSend, HandlePersisted, HandleStoredRemote,
           HandleStoredLocal, HandleDuplicate, HandleFailed, NextEvent, Maintain,
           HandleMaintenance, RemoveSignature, BlockExpires, Evict
    <2>. QED BY <2>1 DEF TablesAgree
<1>. QED BY <1>1, <1>2

\* insert_batch looks at the rows of its own batch too: no key gets two rows,
\* and the highest sequence of an origin covers all it ever had, whatever the
\* size of the batches and the order of the records in them.
THEOREM Tables == Spec => []TablesAgree
<1>1. Init => TablesAgree
    BY DEF Init, TablesAgree
<1>2. DiskInv /\ TablesAgree /\ [Next]_vars => TablesAgree'
    BY TablesNext
<1>. QED BY <1>1, <1>2, DiskInvariant, PTL DEF Spec

-----------------------------------------------------------------------------
(* What is stored is known.                                                  *)

\* An outcome that failed puts no id into the filter.
KnownInv ==
    phase = "running" =>
        \A r \in db : \/ r \in replay.active
                      \/ \E o \in Outcomes : o.kind # "Failed" /\ o.req.rec = r

LEMMA KnownFrame ==
    ASSUME KnownInv,
           phase' = "running" => /\ phase = "running" /\ db' \subseteq db
                                 /\ replay.active \subseteq replay'.active
                                 /\ Outcomes \subseteq Outcomes'
    PROVE  KnownInv'
BY DEF KnownInv

\* A swarm that starts has read the ids of all stored records.
LEMMA KnownStart ==
    ASSUME \A reads \in LoadOutcomes : "ids" \in reads,
           TypeOK, NEW i \in Identities, StartSwarm(i), db' = db
    PROVE  KnownInv'
<1>1. PICK reads \in LoadOutcomes : replay' = LoadedReplay(reads)
    BY DEF StartSwarm
<1>2. db \subseteq replay'.active
    BY <1>1 DEF LoadedReplay, AcceptSeeds, LoadPersistent, EmptyReplay
<1>. QED BY <1>2 DEF KnownInv

LEMMA KnownNext ==
    ASSUME \A reads \in LoadOutcomes : "ids" \in reads,
           DiskInv, KnownInv, [Next]_vars
    PROVE  KnownInv'
<1>0. TypeOK
    BY DEF DiskInv
<1>. USE DEF actorVars, signerVars, writerVars, diskVars, netVars
<1>1. CASE Start
    <2>1. PICK i \in StoredOrNew : StartSwarm(i)
        BY <1>1 DEF Start
    <2>2. i \in Identities
        BY <1>0 DEF StoredOrNew, TypeOK
    <2>. QED BY <1>0, <1>1, <2>1, <2>2, KnownStart DEF Start
<1>2. CASE NewIdentity
    BY <1>0, <1>2, KnownStart DEF NewIdentity
<1>3. CASE ResetIdentity \/ ClearIdentityState \/ ResetFails \/ Shutdown \/ Crash
    <2>1. phase' # "running"
        BY <1>3 DEF ResetIdentity, ClearIdentityState, ResetFails, Shutdown, Crash
    <2>. QED BY <2>1 DEF KnownInv
<1>4. ASSUME UNCHANGED <<phase, replies, events>>, db' \subseteq db,
             replay.active \subseteq replay'.active
      PROVE  KnownInv'
    BY <1>4, KnownFrame DEF Outcomes
<1>5. ASSUME NEW f \in Files, PublishFile(f) PROVE KnownInv'
    BY <1>4, <1>5 DEF PublishFile
<1>6. CASE Sign \/ SignFails \/ HandleSignedRecord
    BY <1>4, <1>6 DEF Sign, SignFails, HandleSignedRecord
<1>7. ASSUME NEW p \in Peers, NEW r \in Heard, ValidateGossip(p, r) PROVE KnownInv'
    <2>1. UNCHANGED <<phase, replies, events, db>>
        BY <1>7 DEF ValidateGossip, GossipGated, GossipInvalid, GossipSeen, GossipTooOld,
                    GossipOverLimit, GossipQueued, GossipSaturated, Arrive
    <2>2. replay' = replay \/ replay' = MarkPending(replay, r)
        BY <1>7 DEF ValidateGossip, GossipGated, GossipInvalid, GossipSeen, GossipTooOld,
                    GossipOverLimit, GossipQueued, GossipSaturated
    <2>3. replay.active \subseteq replay'.active
        BY <1>0, <2>2 DEF MarkPending, TypeOK, ReplayStates
    <2>. QED BY <1>4, <2>1, <2>3
<1>8. ASSUME NEW p \in Peers, NEW resp \in Responses, AcceptSyncRecords(p, resp)
      PROVE  KnownInv'
    <2>1. replay'.active = replay.active
        BY <1>0, <1>8 DEF AcceptSyncRecords, TypeOK, ReplayStates
    <2>. QED BY <1>4, <1>8, <2>1 DEF AcceptSyncRecords
<1>9. CASE WriterTake
    BY <1>4, <1>9 DEF WriterTake
<1>10. CASE WriterCommit
    <2>. SUFFICES ASSUME phase' = "running", NEW r \in db'
                  PROVE  \/ r \in replay'.active
                         \/ \E o \in Outcomes' : o.kind # "Failed" /\ o.req.rec = r
        BY DEF KnownInv
    <2>1. phase = "running" /\ replay' = replay /\ events' = events /\ replies = <<>>
          /\ db' = db \cup NewRows /\ batch \in Seq(Request)
        BY <1>0, <1>10 DEF WriterCommit, TypeOK
    <2>2. CASE r \in db
        <3>1. Outcomes \subseteq Outcomes'
            BY <2>1 DEF Outcomes, Elements
        <3>. QED BY <2>1, <2>2, <3>1 DEF KnownInv
    <2>3. CASE r \in NewRows
        <3>1. PICK k \in DOMAIN batch : Inserted(k) /\ r = batch[k].rec
            BY <2>3 DEF NewRows
        <3>. DEFINE o == [kind |-> "Stored", req |-> batch[k]]
        <3>2. k \in DOMAIN replies' /\ replies'[k] = o
            BY <1>10, <2>1, <3>1, LenProperties DEF WriterCommit
        <3>3. o \in Outcomes'
            BY <3>2 DEF Outcomes, Elements
        <3>. QED BY <3>1, <3>3
    <2>. QED BY <2>1, <2>2, <2>3
<1>11. CASE WriterFail
    <2>1. Outcomes \subseteq Outcomes'
        BY <1>11 DEF WriterFail, Outcomes, Elements
    <2>. QED BY <1>11, <2>1, KnownFrame DEF WriterFail
<1>12. CASE WriterSend
    <2>1. /\ Elements(replies) = {Head(replies)} \cup Elements(replies')
          /\ Elements(events') = Elements(events) \cup {Head(replies)}
        BY <1>0, <1>12, ElementsTail, ElementsAppend DEF WriterSend, TypeOK
    <2>. QED BY <1>12, <2>1, KnownFrame DEF WriterSend, Outcomes
<1>13. CASE HandlePersisted
    <2>0. /\ events # <<>> /\ events' = Tail(events) /\ events \in Seq(Reply)
          /\ UNCHANGED <<phase, db, replies>> /\ phase = "running"
        BY <1>0, <1>13 DEF HandlePersisted, HandleStoredRemote, HandleStoredLocal,
                     HandleDuplicate, HandleFailed, NextEvent, TypeOK
    <2>1. Outcomes \subseteq Outcomes' \cup {Head(events)}
        BY <2>0, ElementsTail DEF Outcomes
    <2>2. \/ replay' = Accept(replay, Done.rec)
          \/ Head(events).kind = "Failed" /\ replay' = Forget(replay, Done.rec)
        BY <1>13 DEF HandlePersisted, HandleStoredRemote, HandleStoredLocal,
                     HandleDuplicate, HandleFailed, NextEvent
    <2>3. /\ replay.active \subseteq replay'.active
          /\ Head(events).kind # "Failed" => Head(events).req.rec \in replay'.active
        <3>1. CASE replay' = Accept(replay, Done.rec)
            BY <3>1 DEF Accept, Done
        <3>2. CASE Head(events).kind = "Failed" /\ replay' = Forget(replay, Done.rec)
            BY <1>0, <3>2 DEF Forget, TypeOK, ReplayStates
        <3>. QED BY <2>2, <3>1, <3>2
    <2>. QED BY <2>0, <2>1, <2>3 DEF KnownInv
<1>14. CASE Maintain
    <2>1. db' \subseteq db
        BY <1>14 DEF Maintain
    <2>. QED BY <1>4, <1>14, <2>1 DEF Maintain
<1>15. CASE HandleMaintenance
    BY <1>4, <1>15 DEF HandleMaintenance
<1>16. ASSUME NEW r \in db, RemoveSignature(r) PROVE KnownInv'
    BY <1>4, <1>16 DEF RemoveSignature
<1>17. ASSUME NEW p \in Peers, BlockExpires(p) PROVE KnownInv'
    BY <1>4, <1>17 DEF BlockExpires
<1>18. CASE Evict
    <2>1. replay'.active = replay.active
        BY <1>0, <1>18 DEF Evict, EvictRecent, EvictWindow, TypeOK, ReplayStates
    <2>. QED BY <1>4, <1>18, <2>1 DEF Evict
<1>19. CASE UNCHANGED vars
    BY <1>4, <1>19 DEF vars
<1>. QED BY <1>1, <1>2, <1>3, <1>5, <1>6, <1>7, <1>8, <1>9, <1>10, <1>11, <1>12,
            <1>13, <1>14, <1>15, <1>16, <1>17, <1>18, <1>19 DEF Next

\* Where the read of the stored ids succeeds at every start, a running node
\* knows every record it has stored, or hears of it next: also of one that a
\* batch of the last swarm commits while a new swarm starts.
THEOREM StoredKnown ==
    ASSUME \A reads \in LoadOutcomes : "ids" \in reads
    PROVE  Spec => []StoredIsKnown
<1>1. Init => KnownInv
    BY DEF Init, KnownInv
<1>2. DiskInv /\ KnownInv /\ [Next]_vars => KnownInv'
    BY KnownNext
<1>3. KnownInv => StoredIsKnown
    BY DEF KnownInv, StoredIsKnown
<1>. QED BY <1>1, <1>2, <1>3, DiskInvariant, PTL DEF Spec
=============================================================================
