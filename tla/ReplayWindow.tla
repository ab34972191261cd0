---------------------------- MODULE ReplayWindow ----------------------------
(***************************************************************************)
(* The sequence windows of ReplayState (network/replay.rs) over a long     *)
(* life: records that arrive out of order, pass the check and are accepted *)
(* only after their commit, while others are accepted before them, rows    *)
(* expire, caches evict and the node restarts.                             *)
(*                                                                         *)
(* RecordPipeline has what lies between the check and the commit; here it  *)
(* is one step, and the sequences are many.                                *)
(***************************************************************************)
EXTENDS Replay

CONSTANT Upsets     \* bound: the disturbances of a run, see UpsetKinds

UpsetKinds == {"evict", "remove", "restart"}

ASSUME WindowAssumption == Upsets \subseteq UpsetKinds

VARIABLES
    replay,     \* ReplayState
    inFlight,   \* marked pending, not yet committed
    db,         \* records table
    highest     \* origin_sequences table

vars == <<replay, inFlight, db, highest>>

TypeOK ==
    /\ replay \in ReplayStates
    /\ inFlight \subseteq Records
    /\ db \subseteq Records
    /\ highest \in [Origins -> Sequences]

Init ==
    /\ replay = EmptyReplay
    /\ inFlight = {}
    /\ db = {}
    /\ highest = [o \in Origins |-> 0]

-----------------------------------------------------------------------------
\* Mistake: the record is accepted before the writer has stored it.
AcceptAtOnce(r) ==
    /\ Check(replay, r) = "New"
    /\ replay' = Accept(replay, r)
    /\ inFlight' = inFlight \cup {r}
    /\ UNCHANGED <<db, highest>>

\* A record from gossip or synchronisation passes the check and is queued.
Receive(r) ==
    /\ Check(replay, r) = "New"
    /\ replay' = MarkPending(replay, r)
    /\ inFlight' = inFlight \cup {r}
    /\ UNCHANGED <<db, highest>>

\* It is committed, or its key is taken; both events accept it.
Persisted(r) ==
    /\ r \in inFlight
    /\ inFlight' = inFlight \ {r}
    /\ replay' = Accept(replay, r)
    /\ IF \E s \in db : SameKey(s, r)
       THEN UNCHANGED <<db, highest>>
       ELSE /\ db' = db \cup {r}
            /\ highest' = [highest EXCEPT ![r.origin] = Larger(@, r.seq)]

NotPersisted(r) ==
    /\ r \in inFlight
    /\ inFlight' = inFlight \ {r}
    /\ replay' = Forget(replay, r)
    /\ UNCHANGED <<db, highest>>

\* A row expires or is deleted by the user.
Remove(r) ==
    /\ "remove" \in Upsets
    /\ r \in db
    /\ db' = db \ {r}
    /\ UNCHANGED <<replay, inFlight, highest>>

\* Capacity or time-to-live of the caches.
Evict ==
    /\ "evict" \in Upsets
    /\ \/ \E r \in replay.recent : replay' = EvictRecent(replay, r)
       \/ \E o \in Origins : replay' = EvictWindow(replay, o)
    /\ UNCHANGED <<inFlight, db, highest>>

\* The reads of the start-up; one that fails counts as empty.
Reads == {"highest", "ids", "seeds"}

Loaded(reads) ==
    AcceptSeeds(LoadPersistent(IF "highest" \in reads THEN highest
                                                      ELSE [o \in Origins |-> 0],
                               IF "ids" \in reads THEN db ELSE {}),
                IF "seeds" \in reads THEN db ELSE {})

\* A new swarm loads what it can read of the database.
Restart(reads) ==
    /\ "restart" \in Upsets
    /\ replay' = Loaded(reads)
    /\ inFlight' = {}
    /\ UNCHANGED <<db, highest>>

Next ==
    \/ \E r \in Records : Receive(r) \/ Persisted(r) \/ NotPersisted(r) \/ Remove(r)
    \/ Evict
    \/ \E reads \in SUBSET Reads : Restart(reads)

Spec == Init /\ [][Next]_vars

-----------------------------------------------------------------------------
(* Properties.                                                               *)

\* A window stays well formed and small in whatever order its records come:
\* its highest sequence is one it accepted, and none it holds is above it or
\* more than Window below, so it has no more than Window + 1 elements.
WindowIsSound ==
    \A o \in Origins :
        LET w == replay.window[o]
        IN  w # NoWindow =>
                /\ w.highest \in w.accepted
                /\ \A s \in w.accepted : s <= w.highest /\ s >= w.highest - Window

\* What memory claims of an origin is on the disk: no window is ahead of the
\* highest sequence in memory, nor that of the one on disk, so a crash never
\* loses how far an origin has come.  It says nothing of the windows that a
\* restart builds: these come from the rows, so one that was evicted and began
\* anew from an older record comes back higher, and turns away what was new.
MemoryBehindDisk ==
    \A o \in Origins :
        /\ replay.window[o].highest <= replay.highest[o]
        /\ replay.highest[o] <= highest[o]

\* A start-up that knows less of an origin than its window did: the rows it
\* reads are all older, or it reads none and not the highest sequence either.
KnowsLess(reads, o) ==
    LET seeds == IF "seeds" \in reads THEN SeqsOf(db, o) ELSE {}
    IN  /\ \A s \in seeds : s < replay.window[o].highest
        /\ seeds = {} => "highest" \notin reads

\* TooOld stands: while an origin has a window no step, neither the eviction
\* of that window nor a restart, makes a record new that was too old.  The
\* exception is a restart that knows less, because the rows at the top of the
\* window were removed or a read failed.  (An origin without a window gets its
\* next one from whatever is accepted, which may be older.)
JudgementStands ==
    [][\A r \in {q \in Records : replay.window[q.origin] # NoWindow} :
        Check(replay, r) = "TooOld" =>
            \/ Check(replay', r) # "New"
            \/ \E reads \in SUBSET Reads : Restart(reads) /\ KnowsLess(reads, r.origin)]_vars
=============================================================================
