------------------------------- MODULE Replay -------------------------------
(***************************************************************************)
(* network/replay.rs: what a node remembers of the records it has seen.    *)
(* The functions of `ReplayState` as operators on one record value, so     *)
(* that the machines that hold a ReplayState (ReplayWindow,                *)
(* RecordPipeline) share one translation of the code.                      *)
(*                                                                         *)
(* A flagged-file record is identified by its content: its record_id is    *)
(* the hash of it, so the record stands for its own identifier.            *)
(***************************************************************************)
EXTENDS Integers, FiniteSets

CONSTANTS
    Origins,    \* peer identities that sign records
    Bodies,     \* what else distinguishes two records (file hashes, time)
    MaxSeq,     \* bound: the highest sequence number a record carries
    Window      \* SEQUENCE_WINDOW

ASSUME ReplayAssumption == MaxSeq \in Nat /\ Window \in Nat \ {0}

Sequences == 0..MaxSeq

Records == [origin : Origins, seq : Sequences, body : Bodies]

\* The UNIQUE index of the records table: one row per origin and sequence.
SameKey(r, s) == r.origin = s.origin /\ r.seq = s.seq

Larger(a, b) == IF a >= b THEN a ELSE b

-----------------------------------------------------------------------------
(* ReplayState.  recent is the LRU cache of recently seen ids, active the   *)
(* filter of stored ids (taken as exact), highest the highest sequence ever *)
(* accepted from each origin (0 where the map has no entry: a missing entry *)
(* and 0 decide alike, since Window > 0), and window the bounded LRU of     *)
(* origin windows (NoWindow where it has none: a window that exists always  *)
(* contains its own highest sequence).                                      *)

NoWindow == [highest |-> 0, accepted |-> {}]

Windows == [highest : Sequences, accepted : SUBSET Sequences]

ReplayStates == [recent  : SUBSET Records,
                 active  : SUBSET Records,
                 highest : [Origins -> Sequences],
                 window  : [Origins -> Windows]]

EmptyReplay == [recent  |-> {},
                active  |-> {},
                highest |-> [o \in Origins |-> 0],
                window  |-> [o \in Origins |-> NoWindow]]

Known(rs, r) == r \in rs.recent \/ r \in rs.active

\* The origin part of `check`: the in-memory window decides alone when there
\* is one, and the persistent highest sequence only when there is none.
OutsideWindow(rs, r) ==
    LET w == rs.window[r.origin]
    IN  IF w.accepted = {} THEN r.seq + Window <= rs.highest[r.origin]
                           ELSE r.seq + Window <= w.highest

Check(rs, r) ==
    IF Known(rs, r) \/ r.seq \in rs.window[r.origin].accepted THEN "Duplicate"
    ELSE IF OutsideWindow(rs, r) THEN "TooOld"
    ELSE "New"

\* Mistake: the sequences below the floor are kept.
WindowUnpruned(w, n) ==
    LET top == IF w.accepted = {} THEN n ELSE Larger(w.highest, n)
    IN  [highest |-> top, accepted |-> w.accepted \cup {n}]

\* `accept`: a new window starts at the accepted sequence, whatever the
\* persistent highest is; sequences below the floor are pruned.
WindowWith(w, n) ==
    LET top == IF w.accepted = {} THEN n ELSE Larger(w.highest, n)
    IN  [highest  |-> top,
         accepted |-> {s \in w.accepted \cup {n} : s >= top - Window}]

\* Mistake: the highest sequence is that of the last record.
AcceptLatest(rs, r) ==
    [recent  |-> rs.recent \cup {r},
     active  |-> rs.active \cup {r},
     highest |-> [rs.highest EXCEPT ![r.origin] = r.seq],
     window  |-> [rs.window EXCEPT ![r.origin] = WindowWith(@, r.seq)]]

Accept(rs, r) ==
    [recent  |-> rs.recent \cup {r},
     active  |-> rs.active \cup {r},
     highest |-> [rs.highest EXCEPT ![r.origin] = Larger(@, r.seq)],
     window  |-> [rs.window EXCEPT ![r.origin] = WindowWith(@, r.seq)]]

MarkPending(rs, r) == [rs EXCEPT !.recent = @ \cup {r}]

Forget(rs, r) == [rs EXCEPT !.recent = @ \ {r}]

\* The bounds of the two LRU caches and the TTL of the first: an id leaves
\* the recently seen cache, or an origin loses its window.
EvictRecent(rs, r) == [rs EXCEPT !.recent = @ \ {r}]
EvictWindow(rs, o) == [rs EXCEPT !.window[o] = NoWindow]

-----------------------------------------------------------------------------
(* Start-up: load_persistent_state, then accept of every recent record of   *)
(* the database.  Accepting a set of records is one step here: the result   *)
(* does not depend on their order.                                          *)

LoadPersistent(highest, ids) ==
    [EmptyReplay EXCEPT !.highest = highest, !.active = ids]

SeqsOf(S, o) == {r.seq : r \in {q \in S : q.origin = o}}

SetMax(S) == CHOOSE n \in S : \A m \in S : n >= m

AcceptSeeds(rs, S) ==
    [recent  |-> rs.recent \cup S,
     active  |-> rs.active \cup S,
     highest |-> [o \in Origins |-> SetMax({rs.highest[o]} \cup SeqsOf(S, o))],
     window  |-> [o \in Origins |->
                    IF SeqsOf(S, o) = {} THEN NoWindow
                    ELSE LET top == SetMax(SeqsOf(S, o))
                         IN  [highest  |-> top,
                              accepted |-> {s \in SeqsOf(S, o) : s >= top - Window}]]]
=============================================================================
