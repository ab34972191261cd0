--------------------------- MODULE ReplayTheorems ---------------------------
(***************************************************************************)
(* Lemmas on the operators of Replay: they stay within their types, and    *)
(* what they make of the set of known records.                             *)
(***************************************************************************)
EXTENDS Replay, TLAPS, WellFoundedInduction

\* A non-empty set of natural numbers has a least element.
LEMMA LeastNat ==
    ASSUME NEW T, T \subseteq Nat, T # {}
    PROVE  \E m \in T : \A n \in T : m <= n
<1>1. PICK m \in T : \A n \in T : ~(<<n, m>> \in OpToRel(<, Nat))
    BY NatLessThanWellFounded, WFMin, Zenon
<1>. SUFFICES ASSUME NEW n \in T PROVE m <= n
    OBVIOUS
<1>2. n \in Nat /\ m \in Nat
    OBVIOUS
<1>3. n < m => <<n, m>> \in OpToRel(<, Nat)
    BY <1>2 DEF OpToRel
<1>4. ~(n < m)
    BY <1>1, <1>3
<1>. QED BY <1>2, <1>4

\* A non-empty set of sequence numbers has a largest element, and SetMax is
\* it: the maxima over rows and seeds in the start-up and in insert_one are
\* well defined.
LEMMA SetMaxIsMax ==
    ASSUME NEW S \in SUBSET Sequences, S # {}
    PROVE  SetMax(S) \in S /\ \A n \in S : SetMax(S) >= n
<1>. DEFINE T == {MaxSeq - n : n \in S}
<1>1. T \subseteq Nat /\ T # {}
    BY ReplayAssumption DEF Sequences
<1>2. PICK m \in T : \A n \in T : m <= n
    <2>. HIDE DEF T
    <2>. QED BY <1>1, LeastNat
<1>4. PICK s \in S : m = MaxSeq - s
    OBVIOUS
<1>5. \A n \in S : s >= n
    <2>. SUFFICES ASSUME NEW n \in S PROVE s >= n
        OBVIOUS
    <2>1. m <= MaxSeq - n
        BY <1>2
    <2>. QED BY <2>1, <1>4, ReplayAssumption DEF Sequences
<1>. QED BY <1>5 DEF SetMax

LEMMA SeqsOfTyped ==
    ASSUME NEW S \in SUBSET Records, NEW o \in Origins
    PROVE  SeqsOf(S, o) \in SUBSET Sequences
BY DEF SeqsOf, Records

LEMMA EmptyReplayTyped == EmptyReplay \in ReplayStates
BY ReplayAssumption DEF EmptyReplay, ReplayStates, NoWindow, Windows, Sequences

\* `accept` keeps the type of the state, and every id it knew, and adds one.
LEMMA AcceptTyped ==
    ASSUME NEW rs \in ReplayStates, NEW r \in Records
    PROVE  /\ Accept(rs, r) \in ReplayStates
           /\ \A q : Known(Accept(rs, r), q) <=> Known(rs, q) \/ q = r
<1>1. r.origin \in Origins /\ r.seq \in Sequences
    BY DEF Records
<1>2. WindowWith(rs.window[r.origin], r.seq) \in Windows
    BY <1>1 DEF ReplayStates, WindowWith, Windows, Larger, Sequences
<1>3. Larger(rs.highest[r.origin], r.seq) \in Sequences
    BY <1>1 DEF ReplayStates, Larger
<1>4. Accept(rs, r) \in ReplayStates
    BY <1>1, <1>2, <1>3 DEF ReplayStates, Accept
<1>. QED BY <1>4 DEF Accept, Known

LEMMA MarkOneTyped ==
    ASSUME NEW rs \in ReplayStates, NEW r \in Records
    PROVE  /\ MarkPending(rs, r) \in ReplayStates
           /\ \A q : Known(MarkPending(rs, r), q) <=> Known(rs, q) \/ q = r
BY DEF ReplayStates, Known, MarkPending

\* mark_pending adds ids; forget and the evictions add none.
LEMMA MarkPendingTyped ==
    ASSUME NEW rs \in ReplayStates, NEW S \in SUBSET Records
    PROVE  LET next == [rs EXCEPT !.recent = @ \cup S]
           IN  /\ next \in ReplayStates
               /\ \A q : Known(next, q) <=> Known(rs, q) \/ q \in S
BY DEF ReplayStates, Known

LEMMA ForgetTyped ==
    ASSUME NEW rs \in ReplayStates, NEW r \in Records, NEW o \in Origins
    PROVE  /\ Forget(rs, r) \in ReplayStates
           /\ EvictWindow(rs, o) \in ReplayStates
           /\ \A q : Known(Forget(rs, r), q) => Known(rs, q)
           /\ \A q : Known(EvictWindow(rs, o), q) => Known(rs, q)
<1>1. NoWindow \in Windows
    BY ReplayAssumption DEF NoWindow, Windows, Sequences
<1>2. EvictWindow(rs, o) \in ReplayStates
    BY <1>1 DEF EvictWindow, ReplayStates
<1>3. Forget(rs, r) \in ReplayStates
    BY DEF Forget, ReplayStates
<1>. QED BY <1>2, <1>3 DEF Forget, EvictWindow, ReplayStates, Known

\* The start-up knows exactly the ids it was given.
LEMMA LoadedTyped ==
    ASSUME NEW high \in [Origins -> Sequences],
           NEW ids \in SUBSET Records, NEW seeds \in SUBSET Records
    PROVE  LET rs == AcceptSeeds(LoadPersistent(high, ids), seeds)
           IN  /\ rs \in ReplayStates
               /\ \A q : Known(rs, q) <=> q \in ids \/ q \in seeds
<1>. DEFINE base == LoadPersistent(high, ids)
<1>1. base \in ReplayStates /\ base.recent = {} /\ base.active = ids
    BY EmptyReplayTyped DEF LoadPersistent, ReplayStates, EmptyReplay
<1>. HIDE DEF base
<1>2. ASSUME NEW o \in Origins
      PROVE  SetMax({base.highest[o]} \cup SeqsOf(seeds, o)) \in Sequences
    <2>1. {base.highest[o]} \cup SeqsOf(seeds, o) \in SUBSET Sequences
        BY <1>1, SeqsOfTyped DEF ReplayStates
    <2>. QED BY <2>1, SetMaxIsMax
<1>3. ASSUME NEW o \in Origins, SeqsOf(seeds, o) # {}
      PROVE  SetMax(SeqsOf(seeds, o)) \in Sequences
    BY <1>3, SeqsOfTyped, SetMaxIsMax
<1>. DEFINE win(o) == IF SeqsOf(seeds, o) = {} THEN NoWindow
                      ELSE LET top == SetMax(SeqsOf(seeds, o))
                           IN  [highest  |-> top,
                                accepted |-> {s \in SeqsOf(seeds, o) : s >= top - Window}]
<1>4. ASSUME NEW o \in Origins PROVE win(o) \in Windows
    BY <1>3, SeqsOfTyped, ReplayAssumption DEF NoWindow, Windows, Sequences
<1>. HIDE DEF win
<1>5. AcceptSeeds(base, seeds) =
        [recent  |-> base.recent \cup seeds,
         active  |-> base.active \cup seeds,
         highest |-> [o \in Origins |-> SetMax({base.highest[o]} \cup SeqsOf(seeds, o))],
         window  |-> [o \in Origins |-> win(o)]]
    BY DEF AcceptSeeds, win
<1>6. AcceptSeeds(base, seeds) \in ReplayStates
    BY <1>1, <1>2, <1>4, <1>5 DEF ReplayStates
<1>. QED BY <1>1, <1>5, <1>6 DEF base, Known
=============================================================================
