--------------------------- MODULE StorageLimits ---------------------------
(***************************************************************************)
(* How the database stays within its limits, and the safety mode of the    *)
(* actor that follows from them: ensure_capacity and insert_batch          *)
(* (storage/database.rs), the writer thread (storage/worker.rs), and the   *)
(* maintenance that the actor schedules (network/swarm.rs).                *)
(*                                                                         *)
(* RecordPipeline leaves open when a batch fails and what a maintenance    *)
(* finds; here both are computed, from a clock, rows that expire after the *)
(* lifetime the validator let them have (protocol/record.rs) and a count   *)
(* of rows per day.  Keys, messages and restarts are left to it.           *)
(***************************************************************************)
EXTENDS Integers, Sequences, FiniteSets

CONSTANTS
    Records,
    Created,        \* created_at of each record, as it claims
    Expires,        \* and its expires_at
    MaxLifetime,    \* MAX_LIFETIME_MS
    Skew,           \* CLOCK_SKEW_MS
    Width,          \* bits of a time: 64
    DayLength,      \* DAY_MS
    MaxActive,      \* MAX_ACTIVE_RECORDS
    MaxDaily,       \* MAX_DAILY_NEW_RECORDS
    KeptDays,       \* the days that ingestion_daily goes back
    QueueSize,      \* PERSISTENCE_QUEUE_CAPACITY, of requests and of events
    MaxBatch,
    MaxTime,        \* bound: the clock stops here
    MaxFaults       \* bound: database calls that fail

ASSUME StorageAssumption ==
    /\ IsFiniteSet(Records)
    /\ Created \in [Records -> Int] /\ Expires \in [Records -> Int]
    /\ MaxLifetime \in Nat /\ Skew \in Nat /\ Width \in Nat \ {0}
    /\ {DayLength, QueueSize, MaxBatch} \subseteq Nat \ {0}
    /\ {MaxActive, MaxDaily, KeptDays, MaxTime, MaxFaults} \subseteq Nat

VARIABLES
    now,        \* unix_time_ms
    rows,       \* the records table
    daily,      \* ingestion_daily: the rows added on each day
    full,       \* too little free disk, or too large a file
    queue,      \* requests for the writer
    batch,      \* what the writer works on
    step,       \* and how far it is with it
    failed,     \* PersistEvent::Failed on their way to the actor
    safety,     \* storage_safety_mode
    task,       \* the maintenance task, or the finding it has sent
    faults      \* database calls that failed

diskVars == <<rows, daily>>
writerVars == <<queue, batch, step>>
actorVars == <<safety, task>>
vars == <<now, diskVars, full, writerVars, failed, actorVars, faults>>

Day(t) == t \div DayLength
Days == 0 .. Day(MaxTime)

TypeOK ==
    /\ now \in 0 .. MaxTime
    /\ rows \subseteq Records
    /\ daily \in [Days -> Nat]
    /\ full \in BOOLEAN
    /\ queue \in Seq(Records) /\ Len(queue) <= QueueSize
    /\ batch \in Seq(Records) /\ Len(batch) <= MaxBatch
    /\ step \in {"collect", "checked", "failed"}
    /\ step # "collect" => batch # << >>
    /\ failed \in 0 .. QueueSize
    /\ safety \in BOOLEAN
    /\ task \in {"none", "started", "cleaned", "safe", "unsafe"}
    /\ faults \in 0 .. MaxFaults

Init ==
    /\ now = 0
    /\ rows = {}
    /\ daily = [d \in Days |-> 0]
    /\ full = FALSE
    /\ queue = << >> /\ batch = << >> /\ step = "collect"
    /\ failed = 0
    /\ safety = FALSE
    /\ task = "none"
    /\ faults = 0

-----------------------------------------------------------------------------
Tick ==
    /\ now < MaxTime
    /\ now' = now + 1
    /\ UNCHANGED <<diskVars, full, writerVars, failed, actorVars, faults>>

\* Free space is the business of the whole machine.
DiskChanges ==
    /\ full' = ~full
    /\ UNCHANGED <<now, diskVars, writerVars, failed, actorVars, faults>>

\* What a subtraction of two i64 leaves of x in a release build.
Wrapped(x) == ((x + 2 ^ (Width - 1)) % 2 ^ Width) - 2 ^ (Width - 1)

\* Mistake: a record may be as new as its lifetime allows.
ValidNotFuture(r) ==
    /\ Expires[r] >= Created[r]
    /\ Wrapped(Expires[r] - Created[r]) <= MaxLifetime
    /\ Expires[r] > now

\* RecordValidator.validate, and create, whose records are of this moment.
\* What it finds in sizes, ids, keys and signatures is left to RecordPipeline.
Valid(r) ==
    /\ Expires[r] >= Created[r]
    /\ Wrapped(Expires[r] - Created[r]) <= MaxLifetime
    /\ Expires[r] > now
    /\ Created[r] <= now + Skew

\* A valid record is signed here or received, and queued.
Enqueue(r) ==
    /\ ~safety
    /\ Valid(r)
    /\ Len(queue) < QueueSize
    /\ queue' = Append(queue, r)
    /\ UNCHANGED <<now, diskVars, full, batch, step, failed, actorVars, faults>>

-----------------------------------------------------------------------------
(* The writer.  insert_batch holds the lock from its check to its commit,    *)
(* which reads the clock for itself.                                         *)

Collect ==
    /\ step = "collect" /\ queue # << >> /\ Len(batch) < MaxBatch
    /\ queue' = Tail(queue)
    /\ batch' = Append(batch, Head(queue))
    /\ UNCHANGED <<now, diskVars, full, step, failed, actorVars, faults>>

\* active_count: the rows that have not expired.
Active == {r \in rows : Expires[r] > now}

\* Mistake: there is room as long as the limits are not reached.
NotYetFull ==
    /\ Cardinality(Active) < MaxActive
    /\ ~full
    /\ daily[Day(now)] < MaxDaily

\* ensure_capacity: each record of the batch counts as one more, also one
\* that is stored already.
HasCapacity ==
    /\ Cardinality(Active) + Len(batch) <= MaxActive
    /\ ~full
    /\ daily[Day(now)] + Len(batch) <= MaxDaily

CheckPasses ==
    /\ step = "collect" /\ batch # << >>
    /\ HasCapacity
    /\ step' = "checked"
    /\ UNCHANGED <<now, diskVars, full, queue, batch, failed, actorVars, faults>>

CheckFails ==
    /\ step = "collect" /\ batch # << >>
    /\ ~HasCapacity
    /\ step' = "failed"
    /\ UNCHANGED <<now, diskVars, full, queue, batch, failed, actorVars, faults>>

\* The transaction: INSERT OR IGNORE for each record, and the count of the
\* day on which it ends.
Insert ==
    /\ step = "checked"
    /\ LET new == {batch[i] : i \in 1 .. Len(batch)} \ rows IN
        /\ rows' = rows \cup new
        /\ daily' = [daily EXCEPT ![Day(now)] = @ + Cardinality(new)]
    /\ batch' = << >> /\ step' = "collect"
    /\ UNCHANGED <<now, full, queue, failed, actorVars, faults>>

\* A database call fails: the whole batch is rolled back.
InsertFails ==
    /\ step = "checked" /\ faults < MaxFaults
    /\ step' = "failed"
    /\ faults' = faults + 1
    /\ UNCHANGED <<now, diskVars, full, queue, batch, failed, actorVars>>

\* One event for each record; blocking_send waits for room.
SendFailed ==
    /\ step = "failed" /\ failed < QueueSize
    /\ failed' = failed + 1
    /\ batch' = Tail(batch)
    /\ step' = IF Len(batch) = 1 THEN "collect" ELSE "failed"
    /\ UNCHANGED <<now, diskVars, full, queue, actorVars, faults>>

-----------------------------------------------------------------------------
(* The actor.                                                                *)

HandleFailed ==
    /\ failed > 0
    /\ failed' = failed - 1
    /\ safety' = TRUE
    /\ UNCHANGED <<now, diskVars, full, writerVars, task, faults>>

\* The interval of the actor's loop.  One task at a time.
ScheduleCleanup ==
    /\ task = "none"
    /\ task' = "started"
    /\ UNCHANGED <<now, diskVars, full, writerVars, failed, safety, faults>>

Unlocked == step # "checked"

\* cleanup_expired.  That it fails, before or after the rows are gone, is
\* ignored.
CleanupExpired ==
    /\ task = "started" /\ Unlocked
    /\ rows' = Active
    /\ daily' = [d \in Days |-> IF d + KeptDays < Day(now) THEN 0 ELSE daily[d]]
    /\ task' = "cleaned"
    /\ UNCHANGED <<now, full, writerVars, failed, safety, faults>>

CleanupFails ==
    /\ task = "started" /\ Unlocked /\ faults < MaxFaults
    /\ faults' = faults + 1
    /\ rows' \in {rows, Active}
    /\ task' = "cleaned"
    /\ UNCHANGED <<now, daily, full, writerVars, failed, safety>>

\* storage_safety_status, which knows nothing of the daily limit.
StorageSafetyStatus ==
    /\ task = "cleaned" /\ Unlocked
    /\ task' = IF full \/ Cardinality(Active) >= MaxActive THEN "unsafe" ELSE "safe"
    /\ UNCHANGED <<now, diskVars, full, writerVars, failed, safety, faults>>

\* A status that cannot be read counts as unsafe.
StatusFails ==
    /\ task = "cleaned" /\ Unlocked /\ faults < MaxFaults
    /\ task' = "unsafe"
    /\ faults' = faults + 1
    /\ UNCHANGED <<now, diskVars, full, writerVars, failed, safety>>

\* Mistake: the finding of a maintenance can only raise the safety mode.
MaintenanceRaises ==
    /\ task \in {"safe", "unsafe"}
    /\ safety' = (safety \/ task = "unsafe")
    /\ task' = "none"
    /\ UNCHANGED <<now, diskVars, full, writerVars, failed, faults>>

HandleMaintenance ==
    /\ task \in {"safe", "unsafe"}
    /\ safety' = (task = "unsafe")
    /\ task' = "none"
    /\ UNCHANGED <<now, diskVars, full, writerVars, failed, faults>>

\* The user removes a signature.
Remove(r) ==
    /\ r \in rows /\ Unlocked
    /\ rows' = rows \ {r}
    /\ UNCHANGED <<now, daily, full, writerVars, failed, actorVars, faults>>

-----------------------------------------------------------------------------
Writer == Collect \/ CheckPasses \/ CheckFails \/ Insert \/ InsertFails \/ SendFailed
Maintenance == CleanupExpired \/ CleanupFails \/ StorageSafetyStatus \/ StatusFails

Next ==
    \/ Tick \/ DiskChanges
    \/ \E r \in Records : Enqueue(r) \/ Remove(r)
    \/ Writer
    \/ HandleFailed \/ ScheduleCleanup \/ HandleMaintenance
    \/ Maintenance

\* Time passes, threads run, and the actor's loop takes each ready branch.
Fairness ==
    /\ WF_vars(Tick)
    /\ WF_vars(Writer)
    /\ WF_vars(Maintenance)
    /\ WF_vars(HandleFailed)
    /\ WF_vars(ScheduleCleanup)
    /\ WF_vars(HandleMaintenance)

Spec == Init /\ [][Next]_vars /\ Fairness

-----------------------------------------------------------------------------
(* Properties.                                                               *)

\* The database never holds more records that are active, and never takes
\* more new ones on a day, than it may: not when midnight comes between the
\* check of a batch and its commit, nor when rows expire, are cleaned up or
\* are removed and come again.
WithinCapacity ==
    /\ Cardinality(Active) <= MaxActive
    /\ \A d \in Days : daily[d] <= MaxDaily

\* What keeps WithinCapacity true: a batch that was checked still fits when it
\* is committed, on the day of its check and on every later one, since rows
\* only expire and a day that has not begun is empty.
CapacityInv ==
    /\ WithinCapacity
    /\ \A d \in Days : d > Day(now) => daily[d] = 0
    /\ step = "checked" =>
        /\ Cardinality(Active) + Len(batch) <= MaxActive
        /\ \A d \in Days : d >= Day(now) => daily[d] + Len(batch) <= MaxDaily

\* No record stays for longer than it may: what it claims of its creation and
\* its lifetime was checked when it came, so a stored record is gone at the
\* latest when the longest lifetime and the skew have passed from now, however
\* long it waited in the queue and however often its batch failed.
LifeBounded == \A r \in rows : Expires[r] <= now + Skew + MaxLifetime

\* The safety mode does not last: when the disk has room for good, the actor
\* takes records again and again, whatever batches fail on the way.
SafetyLifts == <>[]~full => []<>~safety
=============================================================================
