----------------------- MODULE StorageLimits_proofs ------------------------
(***************************************************************************)
(* That the database stays within its limits, for any records, days and    *)
(* limits: proofs about StorageLimits.                                     *)
(***************************************************************************)
EXTENDS StorageLimits, FiniteSetTheorems, TLAPS

\* Days do not go backwards while the clock goes on.
LEMMA DivMonotone ==
    ASSUME NEW s \in Nat, NEW t \in Nat, NEW d \in Nat \ {0}, s <= t
    PROVE  s \div d \in Nat /\ s \div d <= t \div d
<1>. DEFINE q == s \div d
            r == t \div d
<1>1. q \in Nat /\ r \in Nat /\ d * q <= s /\ t < d * (r + 1)
    OBVIOUS
<1>2. d * q < d * (r + 1)
    BY <1>1
<1>. HIDE DEF q, r
<1>3. q < r + 1
    BY <1>1, <1>2
<1>4. q <= r
    BY <1>1, <1>3
<1>. QED BY <1>1, <1>4 DEF q, r

\* The day of the clock is one of the days that are counted.
LEMMA DaysOrdered ==
    ASSUME NEW s \in 0 .. MaxTime, NEW t \in 0 .. MaxTime, s <= t
    PROVE  Day(s) \in Days /\ Day(t) \in Days /\ Day(s) <= Day(t)
<1>1. DayLength \in Nat \ {0} /\ MaxTime \in Nat /\ s \in Nat /\ t \in Nat
    BY StorageAssumption
<1>2. /\ s \div DayLength \in Nat /\ s \div DayLength <= t \div DayLength
      /\ t \div DayLength \in Nat /\ t \div DayLength <= MaxTime \div DayLength
      /\ MaxTime \div DayLength \in Nat
    BY <1>1, DivMonotone
<1>. DEFINE ds == s \div DayLength
            dt == t \div DayLength
            dm == MaxTime \div DayLength
<1>3. ds \in 0 .. dm /\ dt \in 0 .. dm /\ ds <= dt
    <2>. HIDE DEF ds, dt, dm
    <2>. SUFFICES ds \in Nat /\ ds <= dt /\ dt \in Nat /\ dt <= dm /\ dm \in Nat
        OBVIOUS
    <2>. QED BY <1>2 DEF ds, dt, dm
<1>. QED BY <1>3 DEF Day, Days

\* A batch has no more records than places.
LEMMA BatchBound ==
    ASSUME NEW b \in Seq(Records)
    PROVE  LET S == {b[i] : i \in 1 .. Len(b)} IN
             /\ S \subseteq Records /\ IsFiniteSet(S)
             /\ Cardinality(S) \in Nat /\ Cardinality(S) <= Len(b)
<1>. DEFINE S == {b[i] : i \in 1 .. Len(b)}
<1>1. S \subseteq Records
    OBVIOUS
<1>2. IsFiniteSet(S)
    BY <1>1, StorageAssumption, FS_Subset
<1>3. ExistsSurjection(1 .. Len(b), S)
    <2>1. b \in Surjection(1 .. Len(b), S)
        BY DEF Surjection
    <2>. QED BY <2>1 DEF ExistsSurjection
<1>4. Len(b) \in Nat
    OBVIOUS
<1>5. Cardinality(S) <= Len(b)
    BY <1>3, <1>4, FS_SurjCardinalityBound
<1>. QED BY <1>1, <1>2, <1>5, FS_CardinalityType

\* A set of records is finite, and a part of it has no more of them.
LEMMA RecordSets ==
    ASSUME NEW S \in SUBSET Records, NEW T \in SUBSET S
    PROVE  /\ IsFiniteSet(S) /\ IsFiniteSet(T)
           /\ Cardinality(S) \in Nat /\ Cardinality(T) \in Nat
           /\ Cardinality(T) <= Cardinality(S)
BY StorageAssumption, FS_Subset, FS_CardinalityType

-----------------------------------------------------------------------------
(* Types.                                                                    *)

LEMMA TypeInit == Init => TypeOK
<1>. SUFFICES ASSUME Init PROVE TypeOK
    OBVIOUS
<1>1. /\ 0 \in 0 .. MaxTime /\ 0 \in 0 .. QueueSize /\ 0 \in 0 .. MaxFaults
      /\ QueueSize \in Nat /\ MaxBatch \in Nat
    BY StorageAssumption
<1>2. << >> \in Seq(Records) /\ Len(<< >>) = 0
    OBVIOUS
<1>3. daily \in [Days -> Nat]
    BY DEF Init
<1>4. /\ queue \in Seq(Records) /\ Len(queue) <= QueueSize
      /\ batch \in Seq(Records) /\ Len(batch) <= MaxBatch
    BY <1>1, <1>2 DEF Init
<1>5. /\ now \in 0 .. MaxTime /\ rows \subseteq Records /\ failed \in 0 .. QueueSize
      /\ faults \in 0 .. MaxFaults /\ step = "collect" /\ task = "none"
      /\ full = FALSE /\ safety = FALSE
    BY <1>1 DEF Init
<1>. QED BY <1>3, <1>4, <1>5 DEF TypeOK

LEMMA TypeStep == TypeOK /\ [Next]_vars => TypeOK'
<1>. SUFFICES ASSUME TypeOK, [Next]_vars PROVE TypeOK'
    OBVIOUS
<1>0. /\ QueueSize \in Nat \ {0} /\ MaxBatch \in Nat \ {0}
      /\ MaxTime \in Nat /\ MaxFaults \in Nat
    BY StorageAssumption
<1>. USE <1>0
<1>1. CASE Tick
    BY <1>1 DEF TypeOK, Tick, diskVars, writerVars, actorVars
<1>2. CASE DiskChanges
    BY <1>2 DEF TypeOK, DiskChanges, diskVars, writerVars, actorVars
<1>3. ASSUME NEW r \in Records, Enqueue(r) PROVE TypeOK'
    <2>1. /\ Len(queue) < QueueSize /\ queue' = Append(queue, r)
          /\ UNCHANGED <<now, rows, daily, full, batch, step, failed, safety, task, faults>>
        BY <1>3, Zenon DEF Enqueue, diskVars, actorVars
    <2>. QED BY <2>1 DEF TypeOK
<1>4. ASSUME NEW r \in Records, Remove(r) PROVE TypeOK'
    BY <1>4 DEF TypeOK, Remove, writerVars, actorVars
<1>5. CASE Collect
    BY <1>5 DEF TypeOK, Collect, diskVars, actorVars
<1>6. CASE CheckPasses
    BY <1>6 DEF TypeOK, CheckPasses, diskVars, actorVars
<1>7. CASE CheckFails
    BY <1>7 DEF TypeOK, CheckFails, diskVars, actorVars
<1>8. CASE Insert
    <2>. DEFINE S == {batch[i] : i \in 1 .. Len(batch)}
    <2>1. batch \in Seq(Records) /\ rows \subseteq Records /\ now \in 0 .. MaxTime
        BY DEF TypeOK
    <2>2. S \subseteq Records /\ Cardinality(S \ rows) \in Nat
        <3>1. S \subseteq Records
            BY <2>1, BatchBound
        <3>. QED BY <3>1, RecordSets
    <2>3. Day(now) \in Days
        BY <2>1, DaysOrdered
    <2>. HIDE DEF S
    <2>4. rows' = rows \cup (S \ rows)
          /\ daily' = [daily EXCEPT ![Day(now)] = @ + Cardinality(S \ rows)]
        BY <1>8 DEF Insert, S
    <2>5. rows' \subseteq Records /\ daily' \in [Days -> Nat]
        BY <2>1, <2>2, <2>3, <2>4 DEF TypeOK
    <2>. QED BY <1>8, <2>5 DEF TypeOK, Insert, actorVars
<1>9. CASE InsertFails
    BY <1>9 DEF TypeOK, InsertFails, diskVars, actorVars
<1>10. CASE SendFailed
    <2>1. /\ batch \in Seq(Records) /\ batch # << >> /\ Len(batch) <= MaxBatch
          /\ batch' = Tail(batch)
        BY <1>10 DEF TypeOK, SendFailed
    <2>2. /\ Tail(batch) \in Seq(Records) /\ Len(Tail(batch)) = Len(batch) - 1
          /\ Len(batch) \in Nat \ {0} /\ MaxBatch \in Nat
        BY <2>1
    <2>3. Len(batch) # 1 => Tail(batch) # << >>
        <3>1. Len(batch) # 1 => Len(Tail(batch)) # 0
            BY <2>2
        <3>2. Len(<< >>) = 0
            OBVIOUS
        <3>. QED BY <3>1, <3>2
    <2>4. /\ batch' \in Seq(Records) /\ Len(batch') <= MaxBatch
          /\ Len(batch) # 1 => batch' # << >>
        BY <2>1, <2>2, <2>3
    <2>5. failed' \in 0 .. QueueSize
        BY <1>10 DEF TypeOK, SendFailed
    <2>6. step' \in {"collect", "failed"} /\ (step' # "collect" => batch' # << >>)
        BY <1>10, <2>4 DEF SendFailed
    <2>7. UNCHANGED <<now, rows, daily, full, queue, safety, task, faults>>
        BY <1>10 DEF SendFailed, diskVars, actorVars
    <2>. QED BY <2>4, <2>5, <2>6, <2>7 DEF TypeOK
<1>11. CASE HandleFailed
    BY <1>11 DEF TypeOK, HandleFailed, diskVars, writerVars
<1>12. CASE ScheduleCleanup
    BY <1>12 DEF TypeOK, ScheduleCleanup, diskVars, writerVars
<1>13. CASE HandleMaintenance
    BY <1>13 DEF TypeOK, HandleMaintenance, diskVars, writerVars
<1>14. CASE CleanupExpired
    BY <1>14 DEF TypeOK, CleanupExpired, Active, writerVars
<1>15. CASE CleanupFails
    BY <1>15 DEF TypeOK, CleanupFails, Active, writerVars
<1>16. CASE StorageSafetyStatus
    BY <1>16 DEF TypeOK, StorageSafetyStatus, diskVars, writerVars
<1>17. CASE StatusFails
    BY <1>17 DEF TypeOK, StatusFails, diskVars, writerVars
<1>18. CASE UNCHANGED vars
    BY <1>18 DEF TypeOK, vars, diskVars, writerVars, actorVars
<1>. QED
    BY <1>1, <1>2, <1>3, <1>4, <1>5, <1>6, <1>7, <1>8, <1>9, <1>10, <1>11,
       <1>12, <1>13, <1>14, <1>15, <1>16, <1>17, <1>18
       DEF Next, Writer, Maintenance

\* Every state has its type, for any records, limits and capacities: queue
\* and batch stay within their bounds.
THEOREM TypeCorrect == Spec => []TypeOK
<1>. QED BY TypeInit, TypeStep, PTL DEF Spec

-----------------------------------------------------------------------------
(* Limits.                                                                   *)

LEMMA CapacityInit == Init => CapacityInv
<1>. SUFFICES ASSUME Init PROVE CapacityInv
    OBVIOUS
<1>1. Active = {} /\ Cardinality(Active) = 0
    BY FS_EmptySet DEF Init, Active
<1>2. MaxActive \in Nat /\ MaxDaily \in Nat
    BY StorageAssumption
<1>3. step = "collect" /\ \A d \in Days : daily[d] = 0
    BY DEF Init
<1>. QED BY <1>1, <1>2, <1>3 DEF CapacityInv, WithinCapacity

\* A step that adds no row, changes no count and checks no batch leaves the
\* limits alone, whatever the clock does meanwhile.
LEMMA CapacityFrame ==
    ASSUME TypeOK, TypeOK', CapacityInv, now <= now', Active' \subseteq Active,
           \A d \in Days : daily'[d] = daily[d] \/ daily'[d] = 0,
           step' = "checked" => step = "checked" /\ batch' = batch
    PROVE  CapacityInv'
<1>1. /\ Active \subseteq Records /\ IsFiniteSet(Active)
      /\ Cardinality(Active') \in Nat /\ Cardinality(Active) \in Nat
      /\ Cardinality(Active') <= Cardinality(Active)
    <2>1. Active \in SUBSET Records
        BY DEF TypeOK, Active
    <2>. QED BY <2>1, RecordSets
<1>2. /\ Day(now) \in Days /\ Day(now') \in Days /\ Day(now) <= Day(now')
      /\ Days \subseteq Nat
    <2>1. now \in 0 .. MaxTime /\ now' \in 0 .. MaxTime
        BY DEF TypeOK
    <2>2. Days \subseteq Nat
        BY DEF Days
    <2>. QED BY <2>1, <2>2, DaysOrdered
<1>3. /\ MaxActive \in Nat /\ MaxDaily \in Nat /\ Len(batch) \in Nat
      /\ \A d \in Days : daily[d] \in Nat
    <2>1. batch \in Seq(Records) /\ daily \in [Days -> Nat]
        BY DEF TypeOK
    <2>. QED BY <2>1, StorageAssumption
<1>. DEFINE today == Day(now)
            later == Day(now')
<1>7. ASSUME NEW d \in Days
      PROVE  /\ d > later => d > today
             /\ d >= later => d >= today
    <2>1. d \in Nat /\ today \in Nat /\ later \in Nat /\ today <= later
        BY <1>2
    <2>. HIDE DEF today, later
    <2>. QED BY <2>1
<1>4. WithinCapacity'
    BY <1>1, <1>3 DEF CapacityInv, WithinCapacity
<1>5. \A d \in Days : d > Day(now') => daily'[d] = 0
    <2>1. \A d \in Days : d > today => daily[d] = 0
        BY DEF CapacityInv
    <2>. QED BY <1>7, <2>1
<1>6. ASSUME step' = "checked"
      PROVE  /\ Cardinality(Active') + Len(batch') <= MaxActive
             /\ \A d \in Days : d >= Day(now') => daily'[d] + Len(batch') <= MaxDaily
    <2>1. step = "checked" /\ batch' = batch
        BY <1>6
    <2>2. /\ Cardinality(Active) + Len(batch) <= MaxActive
          /\ \A d \in Days : d >= Day(now) => daily[d] + Len(batch) <= MaxDaily
        BY <2>1 DEF CapacityInv
    <2>3. Cardinality(Active') + Len(batch') <= MaxActive
        BY <1>1, <1>3, <2>1, <2>2
    <2>4. ASSUME NEW d \in Days, d >= later
          PROVE  daily'[d] + Len(batch') <= MaxDaily
        <3>1. daily[d] + Len(batch) <= MaxDaily
            BY <1>7, <2>2, <2>4
        <3>2. daily'[d] = daily[d] \/ daily'[d] = 0
            OBVIOUS
        <3>3. daily[d] \in Nat /\ Len(batch) \in Nat /\ MaxDaily \in Nat
            BY <1>3
        <3>. QED BY <2>1, <3>1, <3>2, <3>3
    <2>. QED BY <2>3, <2>4
<1>. QED BY <1>4, <1>5, <1>6 DEF CapacityInv, Day

\* A batch that passes the check fits on every day from now on.
LEMMA CheckedFits ==
    ASSUME TypeOK, CapacityInv, CheckPasses
    PROVE  CapacityInv'
<1>1. UNCHANGED <<now, rows, daily, batch>> /\ HasCapacity
    BY DEF CheckPasses, diskVars
<1>2. Cardinality(Active) + Len(batch) <= MaxActive
    BY <1>1 DEF HasCapacity
<1>3. ASSUME NEW d \in Days, d >= Day(now)
      PROVE  daily[d] + Len(batch) <= MaxDaily
    <2>1. /\ Day(now) \in Days /\ d \in Nat /\ Day(now) \in Nat
          /\ daily[Day(now)] \in Nat /\ Len(batch) \in Nat /\ MaxDaily \in Nat
        <3>1. now \in 0 .. MaxTime /\ now <= now
            BY StorageAssumption DEF TypeOK
        <3>2. Day(now) \in Days
            BY <3>1, DaysOrdered
        <3>. QED BY <3>2, StorageAssumption DEF TypeOK, Days
    <2>2. daily[Day(now)] + Len(batch) <= MaxDaily
        BY <1>1 DEF HasCapacity
    <2>3. d > Day(now) => daily[d] = 0
        BY DEF CapacityInv
    <2>. QED BY <1>3, <2>1, <2>2, <2>3
<1>4. WithinCapacity /\ \A d \in Days : d > Day(now) => daily[d] = 0
    BY DEF CapacityInv
<1>. QED BY <1>1, <1>2, <1>3, <1>4 DEF CapacityInv, WithinCapacity, Active

\* The commit adds no more rows than the batch has records.
LEMMA InsertFits ==
    ASSUME TypeOK, CapacityInv, Insert
    PROVE  CapacityInv'
<1>. DEFINE S == {batch[i] : i \in 1 .. Len(batch)}
            new == S \ rows
            fresh == {r \in new : Expires[r] > now}
<1>1. /\ rows \subseteq Records /\ batch \in Seq(Records) /\ Len(batch) \in Nat
      /\ MaxActive \in Nat /\ MaxDaily \in Nat
      /\ \A d \in Days : daily[d] \in Nat
    BY StorageAssumption, SMTT(30) DEF TypeOK
<1>2. Day(now) \in Days /\ Days \subseteq Nat
    <2>1. now \in 0 .. MaxTime /\ now <= now
        BY StorageAssumption DEF TypeOK
    <2>. QED BY <2>1, DaysOrdered DEF Days
<1>3. /\ S \subseteq Records /\ IsFiniteSet(S) /\ Cardinality(S) \in Nat
      /\ Cardinality(S) <= Len(batch)
    BY <1>1, BatchBound
<1>4. /\ Cardinality(new) \in Nat /\ Cardinality(new) <= Len(batch)
      /\ Cardinality(fresh) \in Nat /\ Cardinality(fresh) <= Len(batch)
    <2>. HIDE DEF S
    <2>1. new \in SUBSET S /\ fresh \in SUBSET S
        OBVIOUS
    <2>2. Cardinality(new) \in Nat /\ Cardinality(new) <= Cardinality(S)
        BY <1>3, <2>1, RecordSets
    <2>3. Cardinality(fresh) \in Nat /\ Cardinality(fresh) <= Cardinality(S)
        BY <1>3, <2>1, RecordSets
    <2>. QED BY <1>1, <1>3, <2>2, <2>3
<1>5. /\ UNCHANGED now /\ step' = "collect" /\ step = "checked"
      /\ rows' = rows \cup new
      /\ daily' = [daily EXCEPT ![Day(now)] = @ + Cardinality(new)]
    BY DEF Insert
<1>. HIDE DEF S
<1>6. Active' = Active \cup fresh
    BY <1>5 DEF Active
<1>. HIDE DEF new, fresh
<1>7. /\ Cardinality(Active) + Len(batch) <= MaxActive
      /\ \A d \in Days : d >= Day(now) => daily[d] + Len(batch) <= MaxDaily
    BY <1>5 DEF CapacityInv
<1>8. Cardinality(Active') \in Nat /\ Cardinality(Active') <= Cardinality(Active) + Cardinality(fresh)
    <2>1. fresh \in SUBSET Records /\ Active \in SUBSET Records
        BY <1>1, <1>3 DEF fresh, new, Active
    <2>2. IsFiniteSet(fresh) /\ IsFiniteSet(Active) /\ Cardinality(Active) \in Nat
        BY <2>1, RecordSets
    <2>3. /\ IsFiniteSet(Active \cap fresh) /\ Cardinality(Active \cap fresh) \in Nat
        <3>1. Active \cap fresh \in SUBSET Records
            BY <2>1
        <3>. QED BY <3>1, RecordSets
    <2>4. Cardinality(Active \cup fresh)
            = Cardinality(Active) + Cardinality(fresh) - Cardinality(Active \cap fresh)
        BY <2>2, FS_Union
    <2>5. Cardinality(Active \cup fresh) \in Nat
        <3>1. Active \cup fresh \in SUBSET Records
            BY <2>1
        <3>. QED BY <3>1, RecordSets
    <2>. QED BY <1>4, <1>6, <2>2, <2>3, <2>4, <2>5
<1>9. Cardinality(Active') <= MaxActive
    <2>1. Cardinality(Active) \in Nat
        <3>1. Active \in SUBSET Records
            BY <1>1 DEF Active
        <3>. QED BY <3>1, RecordSets
    <2>. QED BY <1>1, <1>4, <1>7, <1>8, <2>1
<1>10. \A d \in Days : daily'[d] = IF d = Day(now) THEN daily[d] + Cardinality(new)
                                                   ELSE daily[d]
    BY <1>2, <1>5 DEF TypeOK
<1>11. \A d \in Days : daily'[d] <= MaxDaily
    <2>1. daily[Day(now)] + Len(batch) <= MaxDaily
        <3>0. Day(now) \in Nat
            BY <1>2, Zenon
        <3>1. Day(now) >= Day(now)
            BY <3>0
        <3>. QED BY <1>2, <1>7, <3>1
    <2>. QED BY <1>1, <1>2, <1>4, <1>10, <2>1 DEF CapacityInv, WithinCapacity
<1>12. \A d \in Days : d > Day(now) => daily'[d] = 0
    BY <1>2, <1>10 DEF CapacityInv
<1>. QED BY <1>5, <1>9, <1>11, <1>12 DEF CapacityInv, WithinCapacity

LEMMA CapacityStep ==
    TypeOK /\ TypeOK' /\ CapacityInv /\ [Next]_vars => CapacityInv'
<1>. SUFFICES ASSUME TypeOK, TypeOK', CapacityInv, [Next]_vars PROVE CapacityInv'
    OBVIOUS
<1>1. now \in Nat /\ now' \in Nat
    BY StorageAssumption DEF TypeOK
<1>2. CASE CheckPasses
    BY <1>2, CheckedFits
<1>3. CASE Insert
    BY <1>3, InsertFits
\* Every other step is one of CapacityFrame.
<1>. DEFINE Frame ==
        /\ now <= now' /\ rows' \subseteq rows
        /\ \A d \in Days : daily'[d] = daily[d] \/ daily'[d] = 0
        /\ step' = "checked" => step = "checked" /\ batch' = batch
<1>4. ASSUME Frame PROVE CapacityInv'
    <2>1. Active' \subseteq Active
        <3>. SUFFICES ASSUME NEW r \in rows', Expires[r] > now'
                      PROVE  r \in rows /\ Expires[r] > now
            BY DEF Active
        <3>1. r \in rows /\ now <= now'
            BY <1>4
        <3>2. Expires[r] \in Int
            BY <3>1, StorageAssumption DEF TypeOK
        <3>. QED BY <1>1, <3>1, <3>2
    <2>. QED BY <1>4, <2>1, CapacityFrame
<1>5. CASE Tick
    BY <1>1, <1>4, <1>5 DEF Tick, diskVars, writerVars
<1>6. CASE DiskChanges
    BY <1>1, <1>4, <1>6 DEF DiskChanges, diskVars, writerVars
<1>7. ASSUME NEW r \in Records, Enqueue(r) PROVE CapacityInv'
    BY <1>1, <1>4, <1>7 DEF Enqueue, diskVars
<1>8. ASSUME NEW r \in Records, Remove(r) PROVE CapacityInv'
    BY <1>1, <1>4, <1>8 DEF Remove, writerVars
<1>9. CASE Collect
    BY <1>1, <1>4, <1>9 DEF Collect, diskVars
<1>10. CASE CheckFails
    BY <1>1, <1>4, <1>10 DEF CheckFails, diskVars
<1>11. CASE InsertFails
    BY <1>1, <1>4, <1>11 DEF InsertFails, diskVars
<1>12. CASE SendFailed
    BY <1>1, <1>4, <1>12 DEF SendFailed, diskVars
<1>13. CASE HandleFailed \/ ScheduleCleanup \/ HandleMaintenance
    BY <1>1, <1>4, <1>13
       DEF HandleFailed, ScheduleCleanup, HandleMaintenance, diskVars, writerVars
<1>14. CASE CleanupExpired
    BY <1>1, <1>4, <1>14 DEF CleanupExpired, Active, writerVars
<1>15. CASE CleanupFails
    BY <1>1, <1>4, <1>15 DEF CleanupFails, Active, writerVars
<1>16. CASE StorageSafetyStatus \/ StatusFails
    BY <1>1, <1>4, <1>16 DEF StorageSafetyStatus, StatusFails, diskVars, writerVars
<1>17. CASE UNCHANGED vars
    BY <1>1, <1>4, <1>17 DEF vars, diskVars, writerVars
<1>. QED
    BY <1>2, <1>3, <1>5, <1>6, <1>7, <1>8, <1>9, <1>10, <1>11, <1>12, <1>13,
       <1>14, <1>15, <1>16, <1>17 DEF Next, Writer, Maintenance

\* The database keeps its limits on active records and on new records of a
\* day, for any limits, records, expiry times and length of the day.
THEOREM Capacity == Spec => []WithinCapacity
<1>1. TypeOK /\ CapacityInv /\ [Next]_vars => (TypeOK /\ CapacityInv)'
    BY TypeStep, CapacityStep
<1>2. CapacityInv => WithinCapacity
    BY DEF CapacityInv
<1>. QED BY TypeInit, CapacityInit, <1>1, <1>2, PTL DEF Spec

-----------------------------------------------------------------------------
(* Lifetimes.                                                                *)

\* No record's lifetime is too long for a time to hold: the wrapping of
\* Valid's subtraction changes nothing.
NoWrap == \A r \in Records : Wrapped(Expires[r] - Created[r]) = Expires[r] - Created[r]

Near(r) == Expires[r] <= now + Skew + MaxLifetime

\* LifeBounded also of what has passed the validator and is not stored yet.
LifeInv ==
    /\ \A r \in rows : Near(r)
    /\ \A i \in 1 .. Len(queue) : Near(queue[i])
    /\ \A i \in 1 .. Len(batch) : Near(batch[i])

\* What the validator lets pass does not expire too late.
LEMMA ValidIsNear ==
    ASSUME NoWrap, TypeOK, NEW r \in Records, Valid(r)
    PROVE  Near(r)
<1>1. Wrapped(Expires[r] - Created[r]) = Expires[r] - Created[r]
    BY DEF NoWrap
<1>2. Wrapped(Expires[r] - Created[r]) <= MaxLifetime /\ Created[r] <= now + Skew
    BY DEF Valid
<1>3. /\ Expires[r] \in Int /\ Created[r] \in Int /\ now \in Int
      /\ MaxLifetime \in Int /\ Skew \in Int
    BY StorageAssumption DEF TypeOK
<1>. QED BY <1>1, <1>2, <1>3 DEF Near

\* What is near stays so while the clock goes on.
LEMMA NearStays ==
    ASSUME TypeOK, TypeOK', now <= now', NEW r \in Records, Near(r)
    PROVE  Near(r)'
<1>1. /\ Expires[r] \in Int /\ now \in Int /\ now' \in Int
      /\ MaxLifetime \in Int /\ Skew \in Int
    BY StorageAssumption DEF TypeOK
<1>. QED BY <1>1 DEF Near

\* A step that brings no record into rows, queue or batch.
LEMMA LifeFrame ==
    ASSUME TypeOK, TypeOK', LifeInv, now <= now', rows' \subseteq rows,
           queue' = queue, batch' = batch
    PROVE  LifeInv'
<1>1. /\ rows \subseteq Records
      /\ \A i \in 1 .. Len(queue) : queue[i] \in Records
      /\ \A i \in 1 .. Len(batch) : batch[i] \in Records
    BY DEF TypeOK
<1>2. \A r \in Records : Near(r) => Near(r)'
    BY NearStays
<1>3. \A r \in rows' : Near(r)'
    BY <1>1, <1>2 DEF LifeInv
<1>4. \A i \in 1 .. Len(queue') : Near(queue[i])'
    BY <1>1, <1>2 DEF LifeInv, Near
<1>5. \A i \in 1 .. Len(batch') : Near(batch[i])'
    BY <1>1, <1>2 DEF LifeInv, Near
<1>. QED BY <1>3, <1>4, <1>5 DEF LifeInv, Near

LEMMA LifeStep ==
    ASSUME NoWrap
    PROVE  TypeOK /\ TypeOK' /\ LifeInv /\ [Next]_vars => LifeInv'
<1>. SUFFICES ASSUME TypeOK, TypeOK', LifeInv, [Next]_vars PROVE LifeInv'
    OBVIOUS
<1>1. /\ now \in Nat /\ now <= now
      /\ queue \in Seq(Records) /\ batch \in Seq(Records)
    BY StorageAssumption DEF TypeOK
<1>2. ASSUME NEW r \in Records, Enqueue(r) PROVE LifeInv'
    <2>1. UNCHANGED <<now, rows, batch>> /\ queue' = Append(queue, r) /\ Valid(r)
        BY <1>2, Zenon DEF Enqueue, diskVars
    <2>2. Near(r)
        BY <2>1, ValidIsNear
    <2>3. ASSUME NEW i \in 1 .. Len(queue') PROVE Near(queue[i])'
        <3>1. (i \in 1 .. Len(queue) /\ queue'[i] = queue[i]) \/ queue'[i] = r
            BY <1>1, <2>1
        <3>. QED BY <2>1, <2>2, <3>1 DEF LifeInv, Near
    <2>. QED BY <2>1, <2>3 DEF LifeInv, Near
<1>3. CASE Collect
    <2>1. /\ UNCHANGED <<now, rows>> /\ queue # << >>
          /\ queue' = Tail(queue) /\ batch' = Append(batch, Head(queue))
        BY <1>3 DEF Collect, diskVars
    <2>2. ASSUME NEW i \in 1 .. Len(queue') PROVE Near(queue[i])'
        <3>1. i + 1 \in 1 .. Len(queue) /\ queue'[i] = queue[i + 1]
            BY <1>1, <2>1
        <3>. QED BY <2>1, <3>1 DEF LifeInv, Near
    <2>3. ASSUME NEW i \in 1 .. Len(batch') PROVE Near(batch[i])'
        <3>1. \/ i \in 1 .. Len(batch) /\ batch'[i] = batch[i]
              \/ batch'[i] = queue[1] /\ 1 \in 1 .. Len(queue)
            BY <1>1, <2>1
        <3>. QED BY <2>1, <3>1 DEF LifeInv, Near
    <2>. QED BY <2>1, <2>2, <2>3 DEF LifeInv, Near
<1>4. CASE Insert
    <2>1. /\ UNCHANGED <<now, queue>> /\ batch' = << >>
          /\ rows' = rows \cup {batch[i] : i \in 1 .. Len(batch)}
        BY <1>4 DEF Insert
    <2>2. \A r \in rows' : Near(r)
        BY <2>1 DEF LifeInv
    <2>. QED BY <2>1, <2>2 DEF LifeInv, Near
<1>5. CASE SendFailed
    <2>1. UNCHANGED <<now, rows, queue>> /\ batch # << >> /\ batch' = Tail(batch)
        BY <1>5 DEF SendFailed, TypeOK, diskVars
    <2>2. ASSUME NEW i \in 1 .. Len(batch') PROVE Near(batch[i])'
        <3>1. i + 1 \in 1 .. Len(batch) /\ batch'[i] = batch[i + 1]
            BY <1>1, <2>1
        <3>. QED BY <2>1, <3>1 DEF LifeInv, Near
    <2>. QED BY <2>1, <2>2 DEF LifeInv, Near
<1>6. CASE Tick
    BY <1>1, <1>6, LifeFrame DEF Tick, diskVars, writerVars
<1>7. ASSUME NEW r \in Records, Remove(r) PROVE LifeInv'
    BY <1>1, <1>7, LifeFrame DEF Remove, writerVars
<1>8. CASE DiskChanges \/ CheckPasses \/ CheckFails \/ InsertFails
    BY <1>1, <1>8, LifeFrame
       DEF DiskChanges, CheckPasses, CheckFails, InsertFails, diskVars, writerVars
<1>9. CASE HandleFailed \/ ScheduleCleanup \/ HandleMaintenance
    BY <1>1, <1>9, LifeFrame
       DEF HandleFailed, ScheduleCleanup, HandleMaintenance, diskVars, writerVars
<1>10. CASE CleanupExpired
    BY <1>1, <1>10, LifeFrame DEF CleanupExpired, Active, writerVars
<1>11. CASE CleanupFails
    BY <1>1, <1>11, LifeFrame DEF CleanupFails, Active, writerVars
<1>12. CASE StorageSafetyStatus \/ StatusFails
    BY <1>1, <1>12, LifeFrame DEF StorageSafetyStatus, StatusFails, diskVars, writerVars
<1>13. CASE UNCHANGED vars
    BY <1>1, <1>13, LifeFrame DEF vars, diskVars, writerVars
<1>. QED
    BY <1>2, <1>3, <1>4, <1>5, <1>6, <1>7, <1>8, <1>9, <1>10, <1>11, <1>12, <1>13
       DEF Next, Writer, Maintenance

\* No stored record outlives the longest lifetime and the clock skew from any
\* moment on, for any records whose lifetime a time can hold; without that
\* hypothesis the storage_lifetimes run refutes it.
THEOREM Lifetimes ==
    ASSUME NoWrap
    PROVE  Spec => []LifeBounded
<1>1. Init => LifeInv
    BY DEF Init, LifeInv
<1>2. TypeOK /\ TypeOK' /\ LifeInv /\ [Next]_vars => LifeInv'
    BY LifeStep
<1>3. LifeInv => LifeBounded
    BY DEF LifeInv, LifeBounded, Near
<1>. QED BY TypeCorrect, <1>1, <1>2, <1>3, PTL DEF Spec
=============================================================================
