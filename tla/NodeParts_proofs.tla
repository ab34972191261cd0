-------------------------- MODULE NodeParts_proofs --------------------------
(***************************************************************************)
(* What holds of the four parts of NodeParts, each by its own              *)
(* specification: the windows stay sound and behind the disk, a token      *)
(* bucket is a leaky meter, an external address has its confirmation, and  *)
(* the processes that share an identity directory agree on the identity.   *)
(* Last, that a behaviour of NodeParts is one of each part.                *)
(***************************************************************************)
EXTENDS NodeParts, ReplayTheorems, TLAPS

-----------------------------------------------------------------------------
(* The sequence windows of the replay state.                                  *)

Sound(w) ==
    w # NoWindow =>
        /\ w.highest \in w.accepted
        /\ \A s \in w.accepted : s <= w.highest /\ s >= w.highest - Window

\* The highest sequence on disk covers every row.
RowsCovered == \A r \in db : r.seq <= highest[r.origin]

\* The inductive invariant: a restart builds windows from the rows and the
\* highest sequences of the disk, so these have to agree.
WindowInv ==
    /\ TypeOK
    /\ WindowIsSound
    /\ MemoryBehindDisk
    /\ RowsCovered

-----------------------------------------------------------------------------
\* A sequence more makes a sound window a sound one that is not lower.
LEMMA WindowGrows ==
    ASSUME NEW w \in Windows, Sound(w), NEW n \in Sequences
    PROVE  /\ Sound(WindowWith(w, n))
           /\ WindowWith(w, n).accepted # {}
           /\ WindowWith(w, n).highest >= w.highest
           /\ WindowWith(w, n).highest \in {n, w.highest}
<1>. DEFINE top == IF w.accepted = {} THEN n ELSE Larger(w.highest, n)
<1>1. w.accepted = {} => w.highest = 0
    BY DEF Sound, NoWindow
<1>2. \A s \in w.accepted : s <= w.highest /\ s \in Nat
    BY DEF Sound, NoWindow, Windows, Sequences
<1>3. w.highest \in Nat /\ n \in Nat /\ Window \in Nat
    BY ReplayAssumption DEF Windows, Sequences
<1>4. w.accepted # {} => w.highest \in w.accepted
    BY DEF Sound, NoWindow
<1>5. top \in Nat /\ top >= w.highest /\ top >= n /\ top \in {n, w.highest}
    BY <1>1, <1>3 DEF Larger
<1>6. top \in w.accepted \cup {n}
    BY <1>4, <1>5 DEF Larger
<1>7. WindowWith(w, n) = [highest  |-> top,
                          accepted |-> {s \in w.accepted \cup {n} : s >= top - Window}]
    BY DEF WindowWith
<1>. HIDE DEF top
<1>8. top >= top - Window
    BY <1>3, <1>5
<1>9. top \in WindowWith(w, n).accepted
    BY <1>6, <1>7, <1>8
<1>10. \A s \in WindowWith(w, n).accepted : s <= top /\ s >= top - Window
    BY <1>2, <1>3, <1>5, <1>7
<1>11. WindowWith(w, n).highest = top
    BY <1>7
<1>12. Sound(WindowWith(w, n))
    BY <1>9, <1>10, <1>11 DEF Sound
<1>13. WindowWith(w, n).accepted # {}
    BY <1>9
<1>. QED BY <1>5, <1>11, <1>12, <1>13

LEMMA SoundInState ==
    ASSUME TypeOK, WindowIsSound, NEW o \in Origins
    PROVE  replay.window[o] \in Windows /\ Sound(replay.window[o])
BY DEF TypeOK, ReplayStates, WindowIsSound, Sound

\* `accept` of a record that the disk covers.
LEMMA AcceptKeepsWindows ==
    ASSUME TypeOK, WindowIsSound, MemoryBehindDisk,
           NEW r \in Records,
           replay' = Accept(replay, r),
           highest' \in [Origins -> Sequences],
           \A o \in Origins : highest[o] <= highest'[o],
           r.seq <= highest'[r.origin]
    PROVE  WindowIsSound' /\ MemoryBehindDisk'
<1>1. r.origin \in Origins /\ r.seq \in Sequences
    BY DEF Records
<1>2. \A o \in Origins : /\ replay.window[o] \in Windows
                         /\ replay.highest[o] \in Nat
                         /\ replay.window[o].highest \in Nat
                         /\ highest[o] \in Nat /\ highest'[o] \in Nat
    BY DEF TypeOK, ReplayStates, Windows, Sequences
<1>3. \A o \in Origins :
        replay'.window[o] = IF o = r.origin THEN WindowWith(replay.window[o], r.seq)
                                            ELSE replay.window[o]
    BY DEF Accept, TypeOK, ReplayStates
<1>4. \A o \in Origins :
        replay'.highest[o] = IF o = r.origin THEN Larger(replay.highest[o], r.seq)
                                             ELSE replay.highest[o]
    BY DEF Accept, TypeOK, ReplayStates
<1>5. ASSUME NEW o \in Origins PROVE Sound(replay'.window[o])
    BY <1>1, <1>3, SoundInState, WindowGrows
<1>6. WindowIsSound'
    BY <1>5 DEF WindowIsSound, Sound
<1>7. ASSUME NEW o \in Origins
      PROVE  /\ replay'.window[o].highest <= replay'.highest[o]
             /\ replay'.highest[o] <= highest'[o]
    <2>1. CASE o # r.origin
        BY <2>1, <1>2, <1>3, <1>4 DEF MemoryBehindDisk
    <2>2. CASE o = r.origin
        <3>1. replay'.window[o].highest \in {r.seq, replay.window[o].highest}
            BY <2>2, <1>1, <1>3, SoundInState, WindowGrows
        <3>2. replay.window[o].highest <= replay.highest[o] /\ replay.highest[o] <= highest[o]
            BY DEF MemoryBehindDisk
        <3>3. r.seq \in Nat
            BY <1>1 DEF Sequences
        <3>. QED BY <2>2, <3>1, <3>2, <3>3, <1>2, <1>4 DEF Larger
    <2>. QED BY <2>1, <2>2
<1>. QED BY <1>6, <1>7 DEF MemoryBehindDisk

\* The start-up: windows from the rows, highest sequences from the disk, as
\* far as they are read.
LEMMA LoadKeepsWindows ==
    ASSUME TypeOK, RowsCovered, NEW reads \in SUBSET Reads, Restart(reads)
    PROVE  WindowIsSound' /\ MemoryBehindDisk'
<1>. DEFINE rows == IF "seeds" \in reads THEN db ELSE {}
            high == IF "highest" \in reads THEN highest ELSE [o \in Origins |-> 0]
<1>1. highest' = highest /\ rows \subseteq db
    BY DEF Restart
<1>2. ASSUME NEW o \in Origins
      PROVE  /\ SeqsOf(rows, o) \in SUBSET Sequences
             /\ \A s \in SeqsOf(rows, o) : s <= highest[o]
             /\ highest[o] \in Sequences /\ high[o] \in {0, highest[o]}
    <2>1. rows \in SUBSET Records
        BY <1>1 DEF TypeOK
    <2>. QED BY <1>1, <2>1, SeqsOfTyped DEF TypeOK, RowsCovered, SeqsOf
<1>3. ASSUME NEW o \in Origins
      PROVE  /\ replay'.highest[o] = SetMax({high[o]} \cup SeqsOf(rows, o))
             /\ replay'.window[o] =
                    IF SeqsOf(rows, o) = {} THEN NoWindow
                    ELSE LET top == SetMax(SeqsOf(rows, o))
                         IN  [highest  |-> top,
                              accepted |-> {s \in SeqsOf(rows, o) : s >= top - Window}]
    BY DEF Restart, Loaded, AcceptSeeds, LoadPersistent, EmptyReplay
<1>. HIDE DEF rows, high
<1>4. ASSUME NEW o \in Origins
      PROVE  /\ Sound(replay'.window[o])
             /\ replay'.window[o].highest <= replay'.highest[o]
             /\ replay'.highest[o] <= highest[o]
    <2>. DEFINE S == SeqsOf(rows, o)
                all == {high[o]} \cup S
    <2>1. highest[o] \in Nat /\ 0 \in Sequences /\ Window \in Nat
        BY <1>2, ReplayAssumption DEF Sequences
    <2>2. all \in SUBSET Sequences /\ high[o] \in all /\ \A s \in all : s <= highest[o]
        BY <1>2, <2>1
    <2>3. replay'.highest[o] = SetMax(all)
        BY <1>3
    <2>. HIDE DEF all
    <2>4. /\ SetMax(all) \in Nat /\ SetMax(all) <= highest[o]
          /\ \A s \in all : SetMax(all) >= s
        <3>1. SetMax(all) \in all /\ \A s \in all : SetMax(all) >= s
            BY <2>2, SetMaxIsMax
        <3>2. SetMax(all) \in Sequences /\ SetMax(all) <= highest[o]
            BY <2>2, <3>1
        <3>. QED BY <3>1, <3>2 DEF Sequences
    <2>5. CASE S = {}
        <3>1. replay'.window[o] = NoWindow
            BY <1>3, <2>5
        <3>. QED BY <2>3, <2>4, <3>1 DEF Sound, NoWindow
    <2>6. CASE S # {}
        <3>. DEFINE top == SetMax(S)
                    w   == replay'.window[o]
        <3>1. w = [highest |-> top, accepted |-> {s \in S : s >= top - Window}]
            BY <1>3, <2>6
        <3>2. S \in SUBSET Sequences /\ S \subseteq all
            BY <1>2 DEF all
        <3>. HIDE DEF S
        <3>3. top \in S /\ \A s \in S : top >= s
            BY <2>6, <3>2, SetMaxIsMax
        <3>. HIDE DEF top
        <3>4. top \in Nat /\ top <= SetMax(all) /\ top >= top - Window
            BY <2>1, <2>4, <3>2, <3>3 DEF Sequences
        <3>5. \A s \in S : s \in Nat /\ s <= top
            BY <3>2, <3>3, <3>4 DEF Sequences
        <3>6. w.highest = top /\ w.accepted = {s \in S : s >= top - Window}
            BY <3>1
        <3>. HIDE DEF w
        <3>7. Sound(w)
            BY <3>3, <3>4, <3>5, <3>6 DEF Sound
        <3>8. w.highest <= replay'.highest[o] /\ replay'.highest[o] <= highest[o]
            BY <2>3, <2>4, <3>4, <3>6
        <3>. QED BY <3>7, <3>8 DEF w
    <2>. QED BY <2>5, <2>6
<1>5. WindowIsSound'
    BY <1>4 DEF WindowIsSound, Sound
<1>6. MemoryBehindDisk'
    BY <1>1, <1>4 DEF MemoryBehindDisk
<1>. QED BY <1>5, <1>6

-----------------------------------------------------------------------------
\* Every operation keeps the type.
LEMMA NextTyped == ASSUME TypeOK, [Next]_vars PROVE TypeOK'
<1>. USE DEF TypeOK
<1>1. ASSUME NEW r \in Records, Receive(r) PROVE TypeOK'
    BY <1>1, MarkOneTyped DEF Receive
<1>2. ASSUME NEW r \in Records, Persisted(r) PROVE TypeOK'
    <2>1. r.origin \in Origins /\ r.seq \in Sequences
        BY DEF Records
    <2>2. Larger(highest[r.origin], r.seq) \in Sequences
        BY <2>1 DEF Larger
    <2>3. highest' \in [Origins -> Sequences] /\ db' \subseteq Records
        BY <1>2, <2>1, <2>2 DEF Persisted
    <2>. QED BY <1>2, <2>3, AcceptTyped DEF Persisted
<1>3. ASSUME NEW r \in Records, NotPersisted(r) PROVE TypeOK'
    <2>1. Forget(replay, r) \in ReplayStates
        BY <1>3 DEF Forget, ReplayStates
    <2>. QED BY <1>3, <2>1 DEF NotPersisted
<1>4. ASSUME NEW r \in Records, Remove(r) PROVE TypeOK'
    BY <1>4 DEF Remove
<1>5. ASSUME Evict PROVE TypeOK'
    <2>1. \A r : EvictRecent(replay, r) \in ReplayStates
        BY DEF EvictRecent, ReplayStates
    <2>2. NoWindow \in Windows
        BY ReplayAssumption DEF NoWindow, Windows, Sequences
    <2>3. \A o \in Origins : EvictWindow(replay, o) \in ReplayStates
        BY <2>2 DEF EvictWindow, ReplayStates
    <2>. QED BY <1>5, <2>1, <2>3 DEF Evict
<1>6. ASSUME NEW reads \in SUBSET Reads, Restart(reads) PROVE TypeOK'
    <2>. DEFINE high == IF "highest" \in reads THEN highest ELSE [o \in Origins |-> 0]
                ids  == IF "ids" \in reads THEN db ELSE {}
                rows == IF "seeds" \in reads THEN db ELSE {}
    <2>1. high \in [Origins -> Sequences] /\ ids \in SUBSET Records /\ rows \in SUBSET Records
        BY ReplayAssumption DEF Sequences
    <2>2. replay' = AcceptSeeds(LoadPersistent(high, ids), rows)
        BY <1>6 DEF Restart, Loaded
    <2>. HIDE DEF high, ids, rows
    <2>3. replay' \in ReplayStates
        BY <2>1, <2>2, LoadedTyped
    <2>. QED BY <1>6, <2>3 DEF Restart
<1>7. CASE UNCHANGED vars
    BY <1>7 DEF vars
<1>. QED BY <1>1, <1>2, <1>3, <1>4, <1>5, <1>6, <1>7 DEF Next

\* Every operation keeps the invariant.
LEMMA NextInvariant == ASSUME WindowInv, [Next]_vars PROVE WindowInv'
<1>. USE DEF WindowInv
<1>1. TypeOK'
    BY NextTyped
<1>2. \A o \in Origins : highest[o] \in Nat
    BY DEF TypeOK, Sequences
<1>3. ASSUME NEW r \in Records, Receive(r) \/ NotPersisted(r) \/ Remove(r)
      PROVE  WindowInv'
    <2>1. replay'.window = replay.window /\ replay'.highest = replay.highest
        BY <1>3 DEF Receive, NotPersisted, Remove, MarkPending, Forget, TypeOK, ReplayStates
    <2>2. highest' = highest /\ db' \subseteq db
        BY <1>3 DEF Receive, NotPersisted, Remove
    <2>. QED BY <1>1, <2>1, <2>2 DEF WindowIsSound, MemoryBehindDisk, RowsCovered
<1>4. ASSUME NEW r \in Records, Persisted(r) PROVE WindowInv'
    <2>1. r.origin \in Origins /\ r.seq \in Nat
        BY DEF Records, Sequences
    <2>2. replay' = Accept(replay, r)
        BY <1>4 DEF Persisted
    <2>3. CASE \E s \in db : SameKey(s, r)
        <3>1. highest' = highest /\ db' = db
            BY <1>4, <2>3 DEF Persisted
        <3>2. r.seq <= highest[r.origin]
            BY <2>3 DEF RowsCovered, SameKey
        <3>3. WindowIsSound' /\ MemoryBehindDisk'
            BY <1>1, <1>2, <2>2, <3>1, <3>2, AcceptKeepsWindows DEF TypeOK
        <3>. QED BY <1>1, <3>1, <3>3 DEF RowsCovered
    <2>4. CASE ~\E s \in db : SameKey(s, r)
        <3>1. /\ db' = db \cup {r}
              /\ highest' = [highest EXCEPT ![r.origin] = Larger(@, r.seq)]
            BY <1>4, <2>4 DEF Persisted
        <3>2. \A o \in Origins : highest[o] <= highest'[o]
            BY <1>2, <2>1, <3>1 DEF Larger, TypeOK
        <3>3. r.seq <= highest'[r.origin]
            BY <1>2, <2>1, <3>1 DEF Larger, TypeOK
        <3>4. WindowIsSound' /\ MemoryBehindDisk'
            BY <1>1, <2>2, <3>2, <3>3, AcceptKeepsWindows DEF TypeOK
        <3>5. RowsCovered'
            <4>1. ASSUME NEW q \in db PROVE q.seq <= highest'[q.origin]
                <5>1. q.origin \in Origins /\ q.seq \in Nat
                    BY DEF TypeOK, Records, Sequences
                <5>2. highest'[q.origin] \in Nat /\ highest[q.origin] \in Nat
                    BY <5>1, <1>1 DEF TypeOK, Sequences
                <5>. QED BY <5>1, <5>2, <3>2 DEF RowsCovered
            <4>. QED BY <3>1, <3>3, <4>1 DEF RowsCovered
        <3>. QED BY <1>1, <3>4, <3>5
    <2>. QED BY <2>3, <2>4
<1>5. ASSUME Evict PROVE WindowInv'
    <2>1. highest' = highest /\ db' = db /\ replay'.highest = replay.highest
        BY <1>5 DEF Evict, EvictRecent, EvictWindow, TypeOK, ReplayStates
    <2>2. \A o \in Origins : replay'.window[o] \in {replay.window[o], NoWindow}
        BY <1>5 DEF Evict, EvictRecent, EvictWindow, TypeOK, ReplayStates
    <2>3. NoWindow.highest = 0 /\ \A o \in Origins : replay.highest[o] \in Nat
        BY DEF NoWindow, TypeOK, ReplayStates, Sequences
    <2>4. WindowIsSound'
        BY <2>2 DEF WindowIsSound
    <2>5. MemoryBehindDisk'
        BY <2>1, <2>2, <2>3 DEF MemoryBehindDisk
    <2>. QED BY <1>1, <2>1, <2>4, <2>5 DEF RowsCovered
<1>6. ASSUME NEW reads \in SUBSET Reads, Restart(reads) PROVE WindowInv'
    <2>1. WindowIsSound' /\ MemoryBehindDisk'
        BY <1>6, LoadKeepsWindows
    <2>. QED BY <1>1, <1>6, <2>1 DEF Restart, RowsCovered
<1>7. CASE UNCHANGED vars
    BY <1>1, <1>7 DEF vars, WindowIsSound, MemoryBehindDisk, RowsCovered
<1>. QED BY <1>3, <1>4, <1>5, <1>6, <1>7 DEF Next

LEMMA InitInvariant == Init => WindowInv
<1>. SUFFICES ASSUME Init PROVE WindowInv
    OBVIOUS
<1>1. TypeOK
    BY EmptyReplayTyped, ReplayAssumption DEF Init, TypeOK, Sequences
<1>2. WindowIsSound /\ MemoryBehindDisk /\ RowsCovered
    BY DEF Init, WindowIsSound, MemoryBehindDisk, RowsCovered, EmptyReplay, NoWindow
<1>. QED BY <1>1, <1>2 DEF WindowInv

\* The invariant holds throughout: replay.rs and the tables it is loaded from
\* stay in agreement.
THEOREM WindowInvariant == Spec => []WindowInv
BY InitInvariant, NextInvariant, PTL DEF Spec

\* The windows are sound and bounded at every moment (replay.rs, accept).
THEOREM SoundWindows == Spec => []WindowIsSound
<1>1. WindowInv => WindowIsSound
    BY DEF WindowInv
<1>. QED BY <1>1, WindowInvariant, PTL

\* Memory never claims a sequence of an origin above the highest one on disk
\* (replay.rs, accept and load_persistent_state).
THEOREM BehindDisk == Spec => []MemoryBehindDisk
<1>1. WindowInv => MemoryBehindDisk
    BY DEF WindowInv
<1>. QED BY <1>1, WindowInvariant, PTL

-----------------------------------------------------------------------------
\* A judgement of a window, and what can become of it in a step.
LEMMA NextKeepsJudgement ==
    ASSUME WindowInv, Next,
           NEW r \in Records,
           replay.window[r.origin] # NoWindow,
           Check(replay, r) = "TooOld",
           \A reads \in SUBSET Reads : Restart(reads) => ~KnowsLess(reads, r.origin)
    PROVE  Check(replay', r) # "New"
<1>. DEFINE o == r.origin
<1>. USE DEF WindowInv
<1>1. o \in Origins /\ r.seq \in Nat /\ Window \in Nat
    BY ReplayAssumption DEF Records, Sequences
<1>2. /\ replay.window[o] \in Windows
      /\ Sound(replay.window[o])
      /\ replay.window[o].highest \in Nat
      /\ replay.highest[o] \in Nat
    BY <1>1, SoundInState DEF TypeOK, ReplayStates, Windows, Sequences
<1>3. replay.window[o].accepted # {}
    BY <1>2 DEF Sound
<1>4. r.seq + Window <= replay.window[o].highest
    BY <1>3 DEF Check, OutsideWindow
<1>. SUFFICES \/ Check(replay', r) = "Duplicate"
              \/ OutsideWindow(replay', r)
    BY DEF Check
<1>5. CASE replay'.window[o] = replay.window[o]
    BY <1>3, <1>4, <1>5 DEF OutsideWindow
<1>6. ASSUME NEW q \in Records, Persisted(q), q.origin = o
      PROVE  OutsideWindow(replay', r)
    <2>. DEFINE w == replay'.window[o]
    <2>1. w = WindowWith(replay.window[o], q.seq)
        BY <1>1, <1>6 DEF Persisted, Accept, TypeOK, ReplayStates
    <2>2. q.seq \in Sequences
        BY DEF Records
    <2>3. /\ w.accepted # {}
          /\ w.highest >= replay.window[o].highest
          /\ w.highest \in {q.seq, replay.window[o].highest}
        BY <1>2, <2>1, <2>2, WindowGrows
    <2>4. w.highest \in Nat
        BY <1>2, <2>2, <2>3 DEF Sequences
    <2>5. r.seq + Window <= w.highest
        BY <1>1, <1>2, <1>4, <2>3, <2>4
    <2>. QED BY <2>3, <2>5 DEF OutsideWindow
<1>7. ASSUME NEW q \in Records, Persisted(q), q.origin # o
      PROVE  replay'.window[o] = replay.window[o]
    BY <1>1, <1>7 DEF Persisted, Accept, TypeOK, ReplayStates
<1>8. ASSUME NEW q \in Records, Receive(q) \/ NotPersisted(q) \/ Remove(q)
      PROVE  replay'.window[o] = replay.window[o]
    BY <1>8 DEF Receive, NotPersisted, Remove, MarkPending, Forget, TypeOK, ReplayStates
<1>9. ASSUME Evict, replay'.window[o] # replay.window[o]
      PROVE  OutsideWindow(replay', r)
    <2>1. replay'.window[o] = NoWindow /\ replay'.highest = replay.highest
        BY <1>1, <1>9 DEF Evict, EvictRecent, EvictWindow, TypeOK, ReplayStates
    <2>2. replay.window[o].highest <= replay.highest[o]
        BY <1>1 DEF MemoryBehindDisk
    <2>3. r.seq + Window <= replay'.highest[o]
        BY <1>1, <1>2, <1>4, <2>1, <2>2
    <2>. QED BY <2>1, <2>3 DEF OutsideWindow, NoWindow
<1>10. ASSUME NEW reads \in SUBSET Reads, Restart(reads) PROVE OutsideWindow(replay', r)
    <2>. DEFINE rows == IF "seeds" \in reads THEN db ELSE {}
                high == IF "highest" \in reads THEN highest ELSE [p \in Origins |-> 0]
                S    == SeqsOf(rows, o)
    <2>1. rows \in SUBSET Records
        BY DEF TypeOK
    <2>2. S \in SUBSET Sequences
        BY <1>1, <2>1, SeqsOfTyped
    <2>3. /\ replay'.highest[o] = SetMax({high[o]} \cup S)
          /\ replay'.window[o] =
                IF S = {} THEN NoWindow
                ELSE [highest |-> SetMax(S), accepted |-> {s \in S : s >= SetMax(S) - Window}]
        BY <1>1, <1>10 DEF Restart, Loaded, AcceptSeeds, LoadPersistent, EmptyReplay
    <2>4. ~KnowsLess(reads, o)
        BY <1>10
    <2>5. S = IF "seeds" \in reads THEN SeqsOf(db, o) ELSE {}
        BY DEF SeqsOf
    <2>6. S = {} => high = highest
        BY <2>4, <2>5 DEF KnowsLess
    <2>7. S # {} => \E s \in S : ~(s < replay.window[o].highest)
        BY <2>4, <2>5 DEF KnowsLess
    <2>. HIDE DEF S
    <2>8. CASE S = {}
        <3>1. {high[o]} \cup S = {highest[o]} /\ highest[o] \in Sequences
            BY <1>1, <2>6, <2>8 DEF TypeOK
        <3>2. SetMax({high[o]} \cup S) = highest[o]
            BY <3>1, SetMaxIsMax
        <3>3. replay.window[o].highest <= highest[o] /\ highest[o] \in Nat
            BY <1>1, <1>2, <3>1 DEF MemoryBehindDisk, Sequences
        <3>4. r.seq + Window <= replay'.highest[o]
            BY <1>1, <1>2, <1>4, <2>3, <3>2, <3>3
        <3>. QED BY <2>3, <2>8, <3>4 DEF OutsideWindow, NoWindow
    <2>9. CASE S # {}
        <3>. DEFINE top == SetMax(S)
        <3>1. PICK s \in S : ~(s < replay.window[o].highest)
            BY <2>7, <2>9
        <3>2. top \in S /\ \A q \in S : top >= q
            BY <2>2, <2>9, SetMaxIsMax
        <3>3. /\ replay'.window[o].highest = top
              /\ replay'.window[o].accepted = {q \in S : q >= top - Window}
            BY <2>3, <2>9
        <3>. HIDE DEF top
        <3>4. top \in Nat /\ s \in Nat
            <4>1. top \in Sequences /\ s \in Sequences
                BY <2>2, <3>2
            <4>. QED BY <4>1 DEF Sequences
        <3>5. top >= replay.window[o].highest /\ top >= top - Window
            BY <1>1, <1>2, <3>1, <3>2, <3>4
        <3>6. top \in replay'.window[o].accepted
            BY <3>2, <3>3, <3>5
        <3>7. r.seq + Window <= top
            BY <1>1, <1>2, <1>4, <3>4, <3>5
        <3>. QED BY <3>3, <3>6, <3>7 DEF OutsideWindow
    <2>. QED BY <2>8, <2>9
<1>. QED BY <1>5, <1>6, <1>7, <1>8, <1>9, <1>10 DEF Next

\* A record that a window has judged too old is not judged new after the next
\* step, nor after a restart that knows as much of its origin (replay.rs, check
\* and load_persistent_state).
THEOREM JudgementsStand == Spec => JudgementStands
<1>. DEFINE Stands == \A r \in {q \in Records : replay.window[q.origin] # NoWindow} :
                        Check(replay, r) = "TooOld" =>
                            \/ Check(replay', r) # "New"
                            \/ \E reads \in SUBSET Reads :
                                  Restart(reads) /\ KnowsLess(reads, r.origin)
<1>1. WindowInv /\ [Next]_vars => [Stands]_vars
    <2>. SUFFICES ASSUME WindowInv, Next PROVE Stands
        OBVIOUS
    <2>. QED BY NextKeepsJudgement
<1>2. JudgementStands <=> [][Stands]_vars
    BY PTL DEF JudgementStands
<1>. QED BY <1>1, <1>2, WindowInvariant, PTL DEF Spec

-----------------------------------------------------------------------------
(* The token buckets.                                                         *)

\* What a bucket would give, r, and the debt d of its meter, with the capacity
\* F and n evictions since the meter was empty.
Agrees(r, d, n, F) == F <= r + d /\ r + d <= (1 + n) * F

\* A bucket holds no more than its capacity, its age is counted up to Period,
\* and it agrees with its meter.
RateInv ==
    /\ bucket \in [Keys -> [tokens : Nat, age : Nat]]
    /\ \A k \in Keys : bucket[k].tokens <= Full(k) /\ bucket[k].age <= Period
    /\ debt \in [Keys -> Nat]
    /\ forgot \in [Keys -> Nat]
    /\ BucketIsMeter

-----------------------------------------------------------------------------
(* Arithmetic of one bucket: t tokens, a ticks old, of capacity c a period.  *)

\* A refill adds nothing negative, and all of it after a whole period.
LEMMA Refill ==
    ASSUME NEW c \in Nat, NEW a \in Nat, NEW P \in Nat
    PROVE  /\ a * c \in Nat /\ c * P \in Nat
           /\ 0 * c = 0
           /\ (a + 1) * c = a * c + c
           /\ P * c = c * P
OBVIOUS

\* A capacity more for every eviction.
LEMMA Allowance ==
    ASSUME NEW F \in Nat, NEW n \in Nat
    PROVE  /\ (1 + n) * F \in Nat /\ (1 + n) * F >= F
           /\ (1 + 0) * F = F
           /\ (1 + (n + 1)) * F = (1 + n) * F + F
<1>1. n * F \in Nat /\ (n + 1) * F = n * F + F /\ ((n + 1) + 1) * F = (n + 1) * F + F
  BY Refill
<1>2. 1 + n = n + 1 /\ 1 + (n + 1) = (n + 1) + 1 /\ (1 + 0) * F = F
  OBVIOUS
<1> QED
  BY <1>1, <1>2

\* What a bucket gives, and the same after a tick: more by c, up to its
\* capacity.  Neither the age of a full bucket nor one beyond a period makes a
\* difference.
Gives(c, t, a) == Lesser(t + a * c, c * Period)
TickedAge(c, t, a) == IF t = c * Period THEN 0 ELSE Lesser(a + 1, Period)
TickedDebt(c, d) == IF d > c THEN d - c ELSE 0

LEMMA GivesTick ==
    ASSUME NEW c \in Nat, NEW t \in Nat, NEW a \in Nat, t <= c * Period, a <= Period
    PROVE  /\ TickedAge(c, t, a) \in Nat /\ TickedAge(c, t, a) <= Period
           /\ Gives(c, t, a) \in Nat /\ Gives(c, t, a) <= c * Period
           /\ Gives(c, t, TickedAge(c, t, a)) = Lesser(Gives(c, t, a) + c, c * Period)
<1> DEFINE P == Period
           b == TickedAge(c, t, a)
           F == c * P
           g == a * c
           h == b * c
<1>0. /\ P \in Nat \ {0} /\ t <= F /\ a <= P
      /\ b = IF t = F THEN 0 ELSE Lesser(a + 1, P)
  BY RateAssumption DEF TickedAge
<1> HIDE DEF P, b
<1>1. /\ F \in Nat /\ g \in Nat /\ 0 * c = 0
      /\ (a + 1) * c = g + c /\ P * c = F
  BY <1>0, Refill
<1>2. b \in Nat /\ b <= P
  BY <1>0 DEF Lesser
<1>3. \/ t = F /\ h = 0
      \/ h = g + c
      \/ g = F /\ h = F
  <2>1. CASE t = F
    <3>1. b = 0
      BY <1>0, <2>1
    <3> QED
      BY <1>1, <2>1, <3>1
  <2>2. CASE t # F /\ a + 1 <= P
    <3>1. b = a + 1
      BY <1>0, <2>2 DEF Lesser
    <3> QED
      BY <1>1, <3>1
  <2>3. CASE t # F /\ ~ (a + 1 <= P)
    <3>1. a = P /\ b = P
      BY <1>0, <2>3 DEF Lesser
    <3> QED
      BY <1>1, <3>1
  <2> QED
    BY <2>1, <2>2, <2>3
<1>4. /\ Gives(c, t, a) = Lesser(t + g, F)
      /\ Gives(c, t, b) = Lesser(t + h, F)
  BY DEF Gives, P
<1> HIDE DEF F, g, h
<1>5. /\ Lesser(t + g, F) \in Nat /\ Lesser(t + g, F) <= F
      /\ Lesser(t + h, F) = Lesser(Lesser(t + g, F) + c, F)
  BY <1>0, <1>1, <1>3 DEF Lesser
<1> QED
  BY <1>2, <1>4, <1>5 DEF b, F, P

\* The meter leaks c in a tick, down to nothing; then it forgives evictions.
LEMMA AgreesTick ==
    ASSUME NEW c \in Nat, NEW F \in Nat, NEW r \in Nat, NEW d \in Nat, NEW n \in Nat,
           r <= F, Agrees(r, d, n, F)
    PROVE  LET e == TickedDebt(c, d)
           IN  e \in Nat /\ Agrees(Lesser(r + c, F), e, IF e = 0 THEN 0 ELSE n, F)
<1> DEFINE X == (1 + n) * F
           e == TickedDebt(c, d)
           m == IF e = 0 THEN 0 ELSE n
<1>1. X \in Nat /\ F <= r + d /\ r + d <= X /\ (1 + 0) * F = F
  BY Allowance DEF Agrees
<1>2. (1 + m) * F = IF e = 0 THEN F ELSE X
  BY <1>1
<1> HIDE DEF X, m
<1>3. e \in Nat
  BY DEF TickedDebt
<1>4. /\ F <= Lesser(r + c, F) + e
      /\ Lesser(r + c, F) + e <= IF e = 0 THEN F ELSE X
  BY <1>1 DEF Lesser, TickedDebt
<1>5. Agrees(Lesser(r + c, F), e, m, F)
  BY <1>2, <1>4 DEF Agrees
<1> QED
  BY <1>3, <1>5 DEF m

-----------------------------------------------------------------------------
(* What is asked of the buckets.                                             *)

\* Every key is of a kind that has a capacity.
LEMMA FullNat ==
    ASSUME NEW k \in Keys
    PROVE  Capacity[k[1]] \in Nat /\ Period \in Nat \ {0} /\ Full(k) \in Nat
<1>1. k[1] \in PeerKinds \cup SourceKinds
  BY DEF Keys
<1> QED
  BY <1>1, RateAssumption, Refill DEF Full

\* Amounts are natural numbers.
Natural(amount) == \A k \in DOMAIN amount : amount[k] \in Nat

LEMMA SingleNatural ==
    ASSUME NEW k, NEW n \in Nat
    PROVE  Natural(Ask(k, n))
BY DEF Natural, Ask

LEMMA NoneNatural == Natural(<<>>)
BY DEF Natural

LEMMA BothNatural ==
    ASSUME NEW f, NEW g, Natural(f), Natural(g)
    PROVE  Natural(AskBoth(f, g))
BY DEF Natural, AskBoth

LEMMA GossipNatural ==
    ASSUME NEW p, NEW n \in Nat
    PROVE  Natural(GossipCalls(p, n))
BY SingleNatural, NoneNatural, BothNatural DEF GossipCalls

LEMMA IngestionNatural ==
    ASSUME NEW p
    PROVE  Natural(IngestionCalls(p))
BY DEF IngestionCalls, Natural

\* What is known of one bucket.
LEMMA BucketFacts ==
    ASSUME RateInv, NEW k \in Keys
    PROVE  /\ bucket[k] \in [tokens : Nat, age : Nat]
           /\ bucket[k].tokens \in Nat /\ bucket[k].age \in Nat
           /\ bucket[k].tokens <= Full(k) /\ bucket[k].age <= Period
           /\ debt[k] \in Nat /\ forgot[k] \in Nat
           /\ Refilled(k) \in Nat /\ Refilled(k) <= Full(k)
           /\ Refilled(k) = Gives(Capacity[k[1]], bucket[k].tokens, bucket[k].age)
           /\ Agrees(Refilled(k), debt[k], forgot[k], Full(k))
<1>1. /\ bucket[k] \in [tokens : Nat, age : Nat]
      /\ bucket[k].tokens \in Nat /\ bucket[k].age \in Nat
      /\ bucket[k].tokens <= Full(k) /\ bucket[k].age <= Period
      /\ debt[k] \in Nat /\ forgot[k] \in Nat
  BY DEF RateInv
<1>2. Refilled(k) = Gives(Capacity[k[1]], bucket[k].tokens, bucket[k].age)
  BY DEF Refilled, Gives, Full
<1>3. Gives(Capacity[k[1]], bucket[k].tokens, bucket[k].age) \in 0 .. Full(k)
  BY <1>1, FullNat, GivesTick DEF Full
<1>4. Agrees(Refilled(k), debt[k], forgot[k], Full(k))
  BY DEF RateInv, BucketIsMeter, Agrees
<1> QED
  BY <1>1, <1>2, <1>3, <1>4, FullNat

\* A bucket that has just been asked or made holds what it gives.
LEMMA YoungBucket ==
    ASSUME NEW k \in Keys, NEW n \in Nat, n <= Full(k),
           bucket'[k] = [tokens |-> n, age |-> 0]
    PROVE  Refilled(k)' = n
<1>1. bucket'[k].tokens = n /\ bucket'[k].age * Capacity[k[1]] = 0
  BY FullNat, Refill
<1> QED
  BY <1>1, FullNat DEF Refilled, Lesser, Full

\* The invariant after a step, bucket by bucket.
LEMMA BucketByBucket ==
    ASSUME /\ bucket' \in [Keys -> [tokens : Nat, age : Nat]]
           /\ debt' \in [Keys -> Nat]
           /\ forgot' \in [Keys -> Nat],
           \A k \in Keys : /\ bucket'[k].tokens <= Full(k) /\ bucket'[k].age <= Period
                           /\ Agrees(Refilled(k)', debt'[k], forgot'[k], Full(k))
    PROVE  RateInv'
BY DEF RateInv, BucketIsMeter, Agrees, Full

\* Whatever is asked, a bucket gives what it has and its meter takes it in.
LEMMA Taking ==
    ASSUME RateInv, NEW amount, Natural(amount), Take(amount)
    PROVE  RateInv'
<1> DEFINE Pays(k) == k \in DOMAIN amount /\ Affords(k, amount[k])
           Price(k) == IF Pays(k) THEN amount[k] * Period ELSE 0
<1>1. /\ bucket' = [k \in Keys |->
                      IF k \in DOMAIN amount
                      THEN [tokens |-> Refilled(k) - Price(k), age |-> 0]
                      ELSE bucket[k]]
      /\ debt' = [k \in Keys |-> debt[k] + Price(k)]
      /\ forgot' = forgot
  BY DEF Take
<1>2. ASSUME NEW k \in Keys PROVE Price(k) \in Nat /\ Price(k) <= Refilled(k)
  <2>1. CASE Pays(k)
    <3>1. amount[k] \in Nat
      BY <2>1 DEF Natural
    <3>2. amount[k] * Period \in Nat
      BY FullNat, <3>1, Refill
    <3> QED
      BY <2>1, <3>2, BucketFacts DEF Affords
  <2>2. CASE ~ Pays(k)
    BY <2>2, BucketFacts
  <2> QED
    BY <2>1, <2>2
<1> HIDE DEF Price
<1>3. ASSUME NEW k \in Keys
      PROVE  /\ bucket'[k] \in [tokens : Nat, age : Nat]
             /\ bucket'[k].tokens <= Full(k) /\ bucket'[k].age <= Period
             /\ debt'[k] \in Nat /\ forgot'[k] \in Nat
             /\ Agrees(Refilled(k)', debt'[k], forgot'[k], Full(k))
  <2>1. CASE k \in DOMAIN amount
    <3> DEFINE left == Refilled(k) - Price(k)
    <3>1. bucket'[k] = [tokens |-> left, age |-> 0]
      BY <1>1, <2>1
    <3>2. left \in Nat /\ left <= Full(k)
      BY <1>2, FullNat, BucketFacts
    <3>3. Refilled(k)' = left
      BY <3>1, <3>2, YoungBucket
    <3>4. debt'[k] \in Nat /\ Refilled(k)' + debt'[k] = Refilled(k) + debt[k]
      BY <1>1, <1>2, <3>3, BucketFacts
    <3> QED
      BY <1>1, <3>1, <3>2, <3>4, BucketFacts, FullNat DEF Agrees
  <2>2. CASE k \notin DOMAIN amount
    <3>1. bucket'[k] = bucket[k] /\ Price(k) = 0
      BY <1>1, <2>2 DEF Price
    <3>2. Refilled(k)' = Refilled(k)
      BY <3>1 DEF Refilled, Full
    <3>3. debt'[k] = debt[k]
      BY <1>1, <3>1, BucketFacts
    <3> QED
      BY <1>1, <3>1, <3>2, <3>3, BucketFacts
  <2> QED
    BY <2>1, <2>2
<1>4. /\ bucket' \in [Keys -> [tokens : Nat, age : Nat]]
      /\ debt' \in [Keys -> Nat]
      /\ forgot' \in [Keys -> Nat]
  BY <1>1, <1>3 DEF RateInv
<1> QED
  BY <1>3, <1>4, BucketByBucket

\* A bucket that is forgotten is full again, while its meter is not empty.
LEMMA Forgetting ==
    ASSUME RateInv, NEW ks \in SUBSET Keys, ForgetBuckets(ks)
    PROVE  RateInv'
<1>1. /\ bucket' = [k \in Keys |-> IF k \in ks THEN FreshBucket(k) ELSE bucket[k]]
      /\ debt' = debt
      /\ forgot' = [k \in Keys |-> IF k \in ks /\ debt[k] > 0 THEN forgot[k] + 1 ELSE forgot[k]]
  BY DEF ForgetBuckets
<1>2. ASSUME NEW k \in Keys
      PROVE  /\ bucket'[k] \in [tokens : Nat, age : Nat]
             /\ bucket'[k].tokens <= Full(k) /\ bucket'[k].age <= Period
             /\ forgot'[k] \in Nat
             /\ Agrees(Refilled(k)', debt'[k], forgot'[k], Full(k))
  <2>1. CASE k \in ks
    <3> DEFINE F == Full(k)
               X == (1 + forgot[k]) * F
    <3>1. bucket'[k] = [tokens |-> F, age |-> 0]
      BY <1>1, <2>1 DEF FreshBucket
    <3>2. Refilled(k)' = F
      BY <3>1, FullNat, YoungBucket
    <3>3. /\ X \in Nat /\ X >= F
          /\ (1 + (forgot[k] + 1)) * F = X + F
      BY BucketFacts, FullNat, Allowance
    <3>4. debt[k] <= X
      BY <3>3, BucketFacts DEF Agrees
    <3> HIDE DEF X
    <3>5. F + debt[k] <= (1 + forgot'[k]) * F
      <4>1. CASE debt[k] > 0
        BY <1>1, <2>1, <3>3, <3>4, <4>1, BucketFacts, FullNat
      <4>2. CASE ~ (debt[k] > 0)
        BY <1>1, <2>1, <3>3, <4>2, BucketFacts, FullNat DEF X
      <4> QED
        BY <4>1, <4>2
    <3>6. forgot'[k] \in Nat
      BY <1>1, BucketFacts
    <3> QED
      BY <1>1, <3>1, <3>2, <3>5, <3>6, BucketFacts, FullNat DEF Agrees
  <2>2. CASE k \notin ks
    <3>1. bucket'[k] = bucket[k] /\ debt'[k] = debt[k] /\ forgot'[k] = forgot[k]
      BY <1>1, <2>2
    <3>2. Refilled(k)' = Refilled(k)
      BY <3>1 DEF Refilled, Full
    <3> QED
      BY <3>1, <3>2, BucketFacts
  <2> QED
    BY <2>1, <2>2
<1>3. /\ bucket' \in [Keys -> [tokens : Nat, age : Nat]]
      /\ debt' \in [Keys -> Nat]
      /\ forgot' \in [Keys -> Nat]
  BY <1>1, <1>2 DEF RateInv
<1> QED
  BY <1>2, <1>3, BucketByBucket

\* A tick of the clock.
LEMMA Ticking ==
    ASSUME RateInv, RateTick
    PROVE  RateInv'
<1>1. /\ bucket' = [k \in Keys |-> Older(bucket[k], k)]
      /\ debt' = [k \in Keys |-> Leaked(k)]
      /\ forgot' = [k \in Keys |-> IF Leaked(k) = 0 THEN 0 ELSE forgot[k]]
  BY DEF RateTick
<1>2. ASSUME NEW k \in Keys
      PROVE  /\ bucket'[k] \in [tokens : Nat, age : Nat]
             /\ bucket'[k].tokens <= Full(k) /\ bucket'[k].age <= Period
             /\ debt'[k] \in Nat /\ forgot'[k] \in Nat
             /\ Agrees(Refilled(k)', debt'[k], forgot'[k], Full(k))
  <2> DEFINE c == Capacity[k[1]]
             t == bucket[k].tokens
             b == TickedAge(c, t, bucket[k].age)
             e == TickedDebt(c, debt[k])
  <2>1. c \in Nat /\ Full(k) = c * Period /\ Full(k) \in Nat
    BY FullNat DEF Full
  <2>2. /\ bucket'[k] = [tokens |-> t, age |-> b] /\ debt'[k] = e
        /\ forgot'[k] = IF e = 0 THEN 0 ELSE forgot[k]
    BY <1>1, BucketFacts DEF Older, Full, TickedAge, TickedDebt, Leaked
  <2>3. /\ b \in Nat /\ b <= Period
        /\ Gives(c, t, b) = Lesser(Refilled(k) + c, Full(k))
    BY <2>1, BucketFacts, GivesTick
  <2>4. Refilled(k)' = Gives(c, t, b)
    BY <2>2 DEF Refilled, Gives, Full
  <2>5. e \in Nat /\ Agrees(Lesser(Refilled(k) + c, Full(k)), e,
                            IF e = 0 THEN 0 ELSE forgot[k], Full(k))
    BY <2>1, BucketFacts, AgreesTick
  <2> HIDE DEF b, e
  <2> QED
    BY <2>2, <2>3, <2>4, <2>5, BucketFacts
<1>3. /\ bucket' \in [Keys -> [tokens : Nat, age : Nat]]
      /\ debt' \in [Keys -> Nat]
      /\ forgot' \in [Keys -> Nat]
  BY <1>1, <1>2
<1> QED
  BY <1>2, <1>3, BucketByBucket

\* The windows, the blocks and the tasks are no concern of the buckets.
LEMMA RateFrame ==
    ASSUME RateInv, UNCHANGED metering
    PROVE  RateInv'
BY DEF RateInv, BucketIsMeter, Refilled, Full, metering

-----------------------------------------------------------------------------
LEMMA RateStart == RateInit => RateInv
<1> SUFFICES ASSUME RateInit PROVE RateInv
  OBVIOUS
<1>1. ASSUME NEW k \in Keys
      PROVE  /\ bucket[k] \in [tokens : Nat, age : Nat]
             /\ bucket[k].tokens <= Full(k) /\ bucket[k].age <= Period
             /\ Full(k) <= Refilled(k) + debt[k]
             /\ Refilled(k) + debt[k] <= (1 + forgot[k]) * Full(k)
  <2>1. Full(k) \in Nat /\ Capacity[k[1]] \in Nat /\ Period \in Nat \ {0}
    BY FullNat
  <2>2. bucket[k] = [tokens |-> Full(k), age |-> 0] /\ debt[k] = 0 /\ forgot[k] = 0
    BY DEF RateInit, FreshBucket
  <2>3. bucket[k].tokens = Full(k) /\ bucket[k].age = 0
    BY <2>2
  <2>4. bucket[k].age * Capacity[k[1]] = 0
    BY <2>1, <2>3, Refill
  <2>5. Refilled(k) = Full(k)
    BY <2>1, <2>3, <2>4 DEF Refilled, Lesser
  <2>6. (1 + forgot[k]) * Full(k) = Full(k)
    BY <2>1, <2>2, Allowance
  <2> QED
    BY <2>1, <2>2, <2>3, <2>5, <2>6
<1> QED
  BY <1>1 DEF RateInv, BucketIsMeter, RateInit

LEMMA GossipStep ==
    ASSUME RateInv, Gossip
    PROVE  RateInv'
<1>1. PICK p \in Callers :
        \/ GossipBlocked(p)
        \/ \E n \in Sizes :
            \/ GossipRefused(p, n)
            \/ GossipOverloads(p, n)
            \/ \E is \in {"known", "new", "malformed", "badly signed"} : GossipPasses(p, n, is)
        \/ SyncRecord(p)
  BY DEF Gossip
<1>2. CASE GossipBlocked(p)
  BY <1>2, RateFrame DEF GossipBlocked
<1>3. ASSUME NEW n \in Sizes, GossipRefused(p, n) \/ GossipOverloads(p, n)
      PROVE  RateInv'
  <2>1. n \in Nat
    BY RateAssumption
  <2> QED
    BY <1>3, <2>1, GossipNatural, Taking DEF GossipRefused, GossipOverloads
<1>4. ASSUME NEW n \in Sizes, NEW is \in {"known", "new", "malformed", "badly signed"},
             GossipPasses(p, n, is)
      PROVE  RateInv'
  <2> DEFINE rest == CASE is = "known" -> <<>>
                       [] is = "new" -> IngestionCalls(p)
                       [] OTHER -> Ask(<<"invalid", p>>, 1)
  <2>1. Natural(GossipCalls(p, n))
    BY GossipNatural, RateAssumption
  <2>2. Natural(rest)
    BY NoneNatural, IngestionNatural, SingleNatural
  <2>3. Natural(AskBoth(GossipCalls(p, n), rest))
    BY <2>1, <2>2, BothNatural
  <2>4. Take(AskBoth(GossipCalls(p, n), rest))
    BY <1>4 DEF GossipPasses
  <2> QED
    BY <2>3, <2>4, Taking
<1>5. CASE SyncRecord(p)
  BY <1>5, IngestionNatural, Taking DEF SyncRecord
<1> QED
  BY <1>1, <1>2, <1>3, <1>4, <1>5

LEMMA SyncStep ==
    ASSUME RateInv, Sync
    PROVE  RateInv'
<1>1. PICK p \in Callers :
        \/ \E validates \in BOOLEAN : PrepareSyncResponse(p, validates)
        \/ \E n \in Sizes : SendResponse(p, n)
  BY DEF Sync
<1>2. ASSUME NEW validates \in BOOLEAN, PrepareSyncResponse(p, validates)
      PROVE  RateInv'
  BY <1>2, SingleNatural, Taking DEF PrepareSyncResponse
<1>3. ASSUME NEW n \in Sizes, SendResponse(p, n)
      PROVE  RateInv'
  BY <1>3, SingleNatural, Taking, RateAssumption DEF SendResponse
<1> QED
  BY <1>1, <1>2, <1>3

LEMMA ForgetStep ==
    ASSUME RateInv, ForgetCaller
    PROVE  RateInv'
<1>1. \/ \E ks \in SUBSET Keys : ForgetBuckets(ks)
      \/ UNCHANGED metering
  <2>1. ASSUME NEW p \in Callers, ForgetBuckets({k \in Keys : k[1] \in PeerKinds /\ k[2] = p})
        PROVE  \E ks \in SUBSET Keys : ForgetBuckets(ks)
    <3>1. {k \in Keys : k[1] \in PeerKinds /\ k[2] = p} \in SUBSET Keys
      OBVIOUS
    <3> QED
      BY <2>1, <3>1
  <2>2. ASSUME NEW k \in Keys, ForgetBuckets({k})
        PROVE  \E ks \in SUBSET Keys : ForgetBuckets(ks)
    <3>1. {k} \in SUBSET Keys
      OBVIOUS
    <3> QED
      BY <2>2, <3>1
  <2> QED
    BY <2>1, <2>2 DEF ForgetCaller, ForgetWindow
<1> QED
  BY <1>1, Forgetting, RateFrame

LEMMA RateStep ==
    ASSUME RateInv, [RateNext]_rateVars
    PROVE  RateInv'
<1>1. CASE Attempt
  BY <1>1, RateFrame DEF Attempt, metering
<1>2. CASE UNCHANGED rateVars
  BY <1>2, RateFrame DEF rateVars
<1> QED
  BY <1>1, <1>2, GossipStep, SyncStep, ForgetStep, Ticking DEF RateNext

\* Over any time a caller gets its capacity and what has leaked since, and is
\* refused no less, however its calls and refusals lie; every eviction of its
\* bucket while the meter runs gives it at most one capacity more
\* (rate_limit.rs, Bucket.take and the LRU maps).
THEOREM Metering == RateSpec => []BucketIsMeter
<1>1. RateInit => RateInv
  BY RateStart
<1>2. RateInv /\ [RateNext]_rateVars => RateInv'
  BY RateStep
<1>3. RateInv => BucketIsMeter
  BY DEF RateInv
<1> QED
  BY <1>1, <1>2, <1>3, PTL DEF RateSpec

-----------------------------------------------------------------------------
(* The windows of calls.                                                     *)

Tallies == [0 .. Period - 1 -> Nat]

\* Of the calls of a tick and the last t, x passed, and n evictions fell into
\* the same time.  A running window of limit L that is a ticks old counted u;
\* before it there was at most one more that was not evicted.
Tally(L, u, a, t, x, n) == x <= u + n * L + (IF t <= a THEN 0 ELSE L)

\* The same of all t; a window that has run out is one that begins now.
Counted(L, u, a, f, g) ==
    /\ u <= L /\ a <= Period
    /\ \A t \in 0 .. Period - 1 :
        IF a < Period THEN Tally(L, u, a, t, f[t], g[t]) ELSE Tally(L, 0, 0, t, f[t], g[t])

WindowLine ==
    /\ window \in [WindowKeys -> [used : Nat, age : Nat]]
    /\ passed \in [WindowKeys -> Tallies]
    /\ forgotten \in [WindowKeys -> Tallies]
    /\ \A w \in WindowKeys :
        Counted(WindowLimit[w[1]], window[w].used, window[w].age, passed[w], forgotten[w])

LEMMA PeriodNat == Period \in Nat /\ Period >= 1 /\ Period - 1 \in 0 .. Period - 1
BY RateAssumption

LEMMA LimitNat ==
    ASSUME NEW w \in WindowKeys
    PROVE  WindowLimit[w[1]] \in Nat
<1>1. w[1] \in WindowKinds
  BY DEF WindowKeys, WindowKinds
<1> QED
  BY <1>1, RateAssumption

\* A tick moves a tally on by one.
LEMMA TickTally ==
    ASSUME NEW f \in Tallies
    PROVE  /\ OneTickOn(f) \in Tallies /\ OneTickOn(f)[0] = 0
           /\ \A t \in 1 .. Period - 1 :
                t - 1 \in 0 .. Period - 1 /\ OneTickOn(f)[t] = f[t - 1]
<1>0. Period \in Nat /\ Period >= 1
  BY PeriodNat
<1>1. \A t \in 1 .. Period - 1 : t - 1 \in 0 .. Period - 1 /\ t \in 0 .. Period - 1 /\ t # 0
  BY <1>0
<1>2. \A t \in 0 .. Period - 1 : t # 0 => t - 1 \in 0 .. Period - 1
  BY <1>0
<1>3. \A t \in 0 .. Period - 1 : (IF t = 0 THEN 0 ELSE f[t - 1]) \in Nat
  BY <1>2 DEF Tallies
<1>4. 0 \in 0 .. Period - 1
  BY <1>0
<1> QED
  BY <1>1, <1>3, <1>4 DEF OneTickOn, Tallies

\* One more in every tally.
LEMMA MoreTally ==
    ASSUME NEW f \in Tallies
    PROVE  OneMore(f) \in Tallies /\ \A t \in 0 .. Period - 1 : OneMore(f)[t] = f[t] + 1
BY DEF OneMore, Tallies

\* A tick ends a window that is a Period old.
LEMMA CountedTick ==
    ASSUME NEW L \in Nat, NEW u \in Nat, NEW a \in Nat, NEW f \in Tallies, NEW g \in Tallies,
           Counted(L, u, a, f, g)
    PROVE  Counted(L, u, Lesser(a + 1, Period), OneTickOn(f), OneTickOn(g))
<1> DEFINE b == Lesser(a + 1, Period)
<1>0. Period \in Nat /\ Period >= 1 /\ u <= L /\ a <= Period
  BY PeriodNat DEF Counted
<1>1. /\ b \in Nat /\ b <= Period
      /\ b < Period => b = a + 1
      /\ b = Period => a = Period \/ a + 1 = Period
  BY <1>0 DEF Lesser
<1> HIDE DEF b
<1>2. ASSUME NEW t \in 0 .. Period - 1
      PROVE  IF b < Period THEN Tally(L, u, b, t, OneTickOn(f)[t], OneTickOn(g)[t])
                           ELSE Tally(L, 0, 0, t, OneTickOn(f)[t], OneTickOn(g)[t])
  <2>1. CASE t = 0
    <3>1. OneTickOn(f)[t] = 0 /\ OneTickOn(g)[t] = 0 /\ 0 * L = 0
      BY <2>1, TickTally, Refill
    <3> QED
      BY <1>0, <1>1, <2>1, <3>1 DEF Tally
  <2>2. CASE t # 0
    <3> DEFINE s == t - 1
               x == f[s]
               y == g[s] * L
    <3>1. t \in 1 .. Period - 1 /\ s \in Nat /\ t = s + 1
      BY <1>0, <2>2
    <3>2. s \in 0 .. Period - 1 /\ OneTickOn(f)[t] = x /\ OneTickOn(g)[t] = g[s]
      BY <3>1, TickTally
    <3>3. x \in Nat /\ y \in Nat
      BY <3>2, Refill DEF Tallies
    <3>4. IF a < Period THEN x <= u + y + (IF s <= a THEN 0 ELSE L)
                        ELSE x <= 0 + y + (IF s <= 0 THEN 0 ELSE L)
      BY <3>2 DEF Counted, Tally
    <3>5. s + 1 < Period
      BY <1>0, <3>1
    <3> HIDE DEF s, x, y
    <3>6. IF b < Period THEN x <= u + y + (IF t <= b THEN 0 ELSE L)
                        ELSE x <= 0 + y + (IF t <= 0 THEN 0 ELSE L)
      BY <1>0, <1>1, <3>1, <3>3, <3>4, <3>5
    <3> QED
      BY <3>2, <3>6 DEF Tally, y
  <2> QED
    BY <2>1, <2>2
<1> QED
  BY <1>0, <1>1, <1>2 DEF Counted, b

\* A call that passes is one more in every tally.
LEMMA CountedPass ==
    ASSUME NEW L \in Nat, NEW u \in Nat, NEW a \in Nat, NEW f \in Tallies, NEW g \in Tallies,
           Counted(L, u, a, f, g), a < Period, u < L
    PROVE  Counted(L, u + 1, a, OneMore(f), g)
<1>1. ASSUME NEW t \in 0 .. Period - 1
      PROVE  Tally(L, u + 1, a, t, OneMore(f)[t], g[t])
  <2> DEFINE y == g[t] * L
             z == IF t <= a THEN 0 ELSE L
  <2>1. f[t] \in Nat /\ y \in Nat /\ z \in Nat
    BY Refill DEF Tallies
  <2>2. f[t] <= u + y + z
    BY DEF Counted, Tally
  <2>3. OneMore(f)[t] = f[t] + 1
    BY MoreTally
  <2> HIDE DEF y, z
  <2>4. OneMore(f)[t] <= (u + 1) + y + z
    BY <2>1, <2>2, <2>3
  <2> QED
    BY <2>4 DEF Tally, y, z
<1>2. u + 1 <= L /\ a <= Period
  BY PeriodNat
<1> QED
  BY <1>1, <1>2 DEF Counted

\* A call that finds the window run out starts another.
LEMMA CountedAnew ==
    ASSUME NEW L \in Nat, NEW u \in Nat, NEW f, NEW g, Counted(L, u, Period, f, g)
    PROVE  Counted(L, 0, 0, f, g)
BY PeriodNat DEF Counted

\* A running window that is evicted may count up to its limit once more.
LEMMA CountedForgotten ==
    ASSUME NEW L \in Nat, NEW u \in Nat, NEW a \in Nat, NEW f \in Tallies, NEW g \in Tallies,
           Counted(L, u, a, f, g), a < Period
    PROVE  Counted(L, 0, Period, f, OneMore(g))
<1>1. ASSUME NEW t \in 0 .. Period - 1
      PROVE  Tally(L, 0, 0, t, f[t], OneMore(g)[t])
  <2> DEFINE y == g[t] * L
  <2>1. f[t] \in Nat /\ y \in Nat /\ t \in Nat /\ u <= L
    BY Refill, PeriodNat DEF Tallies, Counted
  <2>2. f[t] <= u + y + (IF t <= a THEN 0 ELSE L)
    BY DEF Counted, Tally
  <2>3. OneMore(g)[t] = g[t] + 1 /\ (g[t] + 1) * L = y + L
    BY MoreTally, Refill DEF Tallies
  <2> HIDE DEF y
  <2>4. f[t] <= 0 + (y + L) + (IF t <= 0 THEN 0 ELSE L)
    BY <2>1, <2>2
  <2> QED
    BY <2>3, <2>4 DEF Tally
<1> QED
  BY <1>1, PeriodNat DEF Counted

\* One window changes, the others stay.
LEMMA WindowChanged ==
    ASSUME WindowLine, NEW w \in WindowKeys,
           NEW v \in Nat, NEW b \in Nat, NEW f \in Tallies, NEW g \in Tallies,
           Counted(WindowLimit[w[1]], v, b, f, g),
           window' = [window EXCEPT ![w] = [used |-> v, age |-> b]],
           passed' = [passed EXCEPT ![w] = f],
           forgotten' = [forgotten EXCEPT ![w] = g]
    PROVE  WindowLine'
<1>1. /\ window' \in [WindowKeys -> [used : Nat, age : Nat]]
      /\ passed' \in [WindowKeys -> Tallies]
      /\ forgotten' \in [WindowKeys -> Tallies]
  BY DEF WindowLine
<1>2. ASSUME NEW x \in WindowKeys
      PROVE  Counted(WindowLimit[x[1]], window'[x].used, window'[x].age, passed'[x], forgotten'[x])
  <2>1. CASE x = w
    <3>1. window'[x].used = v /\ window'[x].age = b /\ passed'[x] = f /\ forgotten'[x] = g
      BY <2>1 DEF WindowLine
    <3> QED
      BY <2>1, <3>1
  <2>2. CASE x # w
    <3>1. window'[x] = window[x] /\ passed'[x] = passed[x] /\ forgotten'[x] = forgotten[x]
      BY <2>2 DEF WindowLine
    <3> QED
      BY <3>1 DEF WindowLine
  <2> QED
    BY <2>1, <2>2
<1> QED
  BY <1>1, <1>2 DEF WindowLine, Counted, Tally

\* What is known of one window.
LEMMA WindowFacts ==
    ASSUME WindowLine, NEW w \in WindowKeys
    PROVE  /\ WindowLimit[w[1]] \in Nat
           /\ window[w] \in [used : Nat, age : Nat]
           /\ window[w].used \in Nat /\ window[w].age \in Nat
           /\ passed[w] \in Tallies /\ forgotten[w] \in Tallies
           /\ Counted(WindowLimit[w[1]], window[w].used, window[w].age, passed[w], forgotten[w])
BY LimitNat DEF WindowLine

LEMMA Windowing ==
    ASSUME WindowLine, NEW w \in WindowKeys, TakeWindow(w)
    PROVE  WindowLine'
<1> DEFINE L == WindowLimit[w[1]]
           u == Used(w)
           a == IF Expired(w) THEN 0 ELSE window[w].age
           f == passed[w]
           g == forgotten[w]
           v == IF u < L THEN u + 1 ELSE u
           h == IF u < L THEN OneMore(f) ELSE f
<1>0. /\ L \in Nat /\ f \in Tallies /\ g \in Tallies /\ Period \in Nat /\ Period >= 1
      /\ window[w].used \in Nat /\ window[w].age \in Nat
      /\ Counted(L, window[w].used, window[w].age, f, g)
  BY WindowFacts, PeriodNat
<1>1. Counted(L, u, a, f, g) /\ u \in Nat /\ a \in Nat /\ a < Period
  <2>1. CASE Expired(w)
    <3>1. window[w].age = Period
      BY <1>0, <2>1 DEF Expired, Counted
    <3>2. Counted(L, 0, 0, f, g)
      BY <1>0, <3>1, CountedAnew
    <3> QED
      BY <1>0, <2>1, <3>2 DEF Used
  <2>2. CASE ~ Expired(w)
    BY <1>0, <2>2 DEF Used, Expired
  <2> QED
    BY <2>1, <2>2
<1>2. /\ window' = [window EXCEPT ![w] = [used |-> v, age |-> a]]
      /\ passed' = [passed EXCEPT ![w] = h]
      /\ forgotten' = [forgotten EXCEPT ![w] = g]
  <2>1. window'= [window EXCEPT ![w] = [used |-> u + (IF u < L THEN 1 ELSE 0), age |-> a]]
    BY DEF TakeWindow, WindowPasses
  <2>2. u + (IF u < L THEN 1 ELSE 0) = v
    BY <1>1
  <2>3. passed' = IF u < L THEN [passed EXCEPT ![w] = OneMore(f)] ELSE passed
    BY DEF TakeWindow, WindowPasses
  <2>4. passed' = [passed EXCEPT ![w] = h]
    BY <2>3 DEF WindowLine
  <2>5. forgotten' = [forgotten EXCEPT ![w] = g]
    BY DEF TakeWindow, WindowLine
  <2> QED
    BY <2>1, <2>2, <2>4, <2>5
<1> HIDE DEF L, u, a, f, g
<1>3. Counted(L, v, a, h, g) /\ v \in Nat /\ h \in Tallies
  <2>1. CASE u < L
    BY <1>0, <1>1, <2>1, CountedPass, MoreTally
  <2>2. CASE ~(u < L)
    BY <1>0, <1>1, <2>2
  <2> QED
    BY <2>1, <2>2
<1> HIDE DEF v, h
<1>4. Counted(WindowLimit[w[1]], v, a, h, g)
  BY <1>3 DEF L
<1> QED
  BY <1>0, <1>1, <1>2, <1>3, <1>4, WindowChanged

LEMMA WindowTick ==
    ASSUME WindowLine, RateTick
    PROVE  WindowLine'
<1>1. /\ window' = [w \in WindowKeys |-> [window[w] EXCEPT !.age = Lesser(@ + 1, Period)]]
      /\ passed' = [w \in WindowKeys |-> OneTickOn(passed[w])]
      /\ forgotten' = [w \in WindowKeys |-> OneTickOn(forgotten[w])]
  BY DEF RateTick
<1>2. ASSUME NEW w \in WindowKeys
      PROVE  /\ window'[w] \in [used : Nat, age : Nat]
             /\ passed'[w] \in Tallies /\ forgotten'[w] \in Tallies
             /\ Counted(WindowLimit[w[1]], window'[w].used, window'[w].age,
                        passed'[w], forgotten'[w])
  <2>1. Lesser(window[w].age + 1, Period) \in Nat
    BY WindowFacts, PeriodNat DEF Lesser
  <2>2. /\ window'[w] \in [used : Nat, age : Nat]
        /\ window'[w].used = window[w].used
        /\ window'[w].age = Lesser(window[w].age + 1, Period)
    BY <1>1, <2>1, WindowFacts
  <2>3. passed'[w] = OneTickOn(passed[w]) /\ forgotten'[w] = OneTickOn(forgotten[w])
    BY <1>1
  <2>4. Counted(WindowLimit[w[1]], window[w].used, Lesser(window[w].age + 1, Period),
                OneTickOn(passed[w]), OneTickOn(forgotten[w]))
    BY WindowFacts, CountedTick
  <2> QED
    BY <2>2, <2>3, <2>4, WindowFacts, TickTally
<1>3. /\ window' \in [WindowKeys -> [used : Nat, age : Nat]]
      /\ passed' \in [WindowKeys -> Tallies]
      /\ forgotten' \in [WindowKeys -> Tallies]
  BY <1>1, <1>2
<1> QED
  BY <1>2, <1>3 DEF WindowLine, Counted, Tally

LEMMA WindowFrame ==
    ASSUME WindowLine, UNCHANGED windowing
    PROVE  WindowLine'
BY DEF WindowLine, Counted, Tally, windowing

LEMMA WindowForgotten ==
    ASSUME WindowLine, NEW w \in WindowKeys, ForgetWindow(w)
    PROVE  WindowLine'
<1>1. Period \in Nat /\ window[w].age < Period
  BY WindowFacts, PeriodNat DEF ForgetWindow, Expired
<1>2. Counted(WindowLimit[w[1]], 0, Period, passed[w], OneMore(forgotten[w]))
  BY <1>1, WindowFacts, CountedForgotten
<1>3. OneMore(forgotten[w]) \in Tallies /\ passed[w] \in Tallies
  BY WindowFacts, MoreTally
<1>4. /\ window' = [window EXCEPT ![w] = [used |-> 0, age |-> Period]]
      /\ passed' = [passed EXCEPT ![w] = passed[w]]
      /\ forgotten' = [forgotten EXCEPT ![w] = OneMore(forgotten[w])]
  BY DEF ForgetWindow, WindowLine
<1> QED
  BY <1>1, <1>2, <1>3, <1>4, WindowChanged

LEMMA WindowStart == RateInit => WindowLine
<1> SUFFICES ASSUME RateInit PROVE WindowLine
  OBVIOUS
<1>1. ASSUME NEW w \in WindowKeys
      PROVE  /\ window[w] \in [used : Nat, age : Nat]
             /\ passed[w] \in Tallies /\ forgotten[w] = passed[w]
             /\ Counted(WindowLimit[w[1]], window[w].used, window[w].age, passed[w], passed[w])
  <2> DEFINE L == WindowLimit[w[1]]
  <2>1. window[w] = [used |-> 0, age |-> IF w[1] = "attempts" THEN Period ELSE 0]
    BY DEF RateInit
  <2>2. window[w].used = 0 /\ window[w].age \in {0, Period}
    BY <2>1
  <2>3. passed[w] \in Tallies /\ \A t \in 0 .. Period - 1 : passed[w][t] = 0
    BY DEF RateInit, Tallies
  <2>4. L \in Nat /\ 0 * L = 0
    BY LimitNat, Refill
  <2> HIDE DEF L
  <2>5. \A a \in Nat, t \in Nat : Tally(L, 0, a, t, 0, 0)
    BY <2>4 DEF Tally
  <2>6. Counted(L, 0, window[w].age, passed[w], passed[w])
    BY <2>2, <2>3, <2>4, <2>5, PeriodNat DEF Counted
  <2> QED
    BY <2>1, <2>2, <2>3, <2>6, PeriodNat DEF L, RateInit
<1> QED
  BY <1>1 DEF WindowLine, RateInit

LEMMA WindowStep ==
    ASSUME WindowLine, [RateNext]_rateVars
    PROVE  WindowLine'
<1>1. CASE Gossip
  <2>1. All \in WindowKeys
    BY DEF All, WindowKeys
  <2>2. TakeWindow(All) \/ UNCHANGED windowing
    BY <1>1 DEF Gossip, GossipBlocked, GossipRefused, GossipOverloads, GossipPasses, SyncRecord
  <2> QED
    BY <2>1, <2>2, Windowing, WindowFrame
<1>2. CASE Sync
  BY <1>2, WindowFrame DEF Sync, PrepareSyncResponse, SendResponse
<1>3. CASE Attempt
  BY <1>3, Windowing DEF Attempt
<1>4. CASE ForgetCaller
  BY <1>4, WindowForgotten, WindowFrame DEF ForgetCaller, ForgetBuckets
<1>5. CASE RateTick
  BY <1>5, WindowTick
<1>6. CASE UNCHANGED rateVars
  BY <1>6, WindowFrame DEF rateVars
<1> QED
  BY <1>1, <1>2, <1>3, <1>4, <1>5, <1>6 DEF RateNext

LEMMA WindowMeans == WindowLine => WindowBound
<1> SUFFICES ASSUME WindowLine, NEW w \in WindowKeys
             PROVE  passed[w][Period - 1] <=
                        (2 + forgotten[w][Period - 1]) * WindowLimit[w[1]]
  BY DEF WindowBound
<1> DEFINE L == WindowLimit[w[1]]
           u == window[w].used
           a == window[w].age
           t == Period - 1
           x == passed[w][t]
           n == forgotten[w][t]
           y == n * L
<1>1. /\ L \in Nat /\ u \in Nat /\ a \in Nat /\ x \in Nat /\ n \in Nat /\ y \in Nat
      /\ Counted(L, u, a, passed[w], forgotten[w])
  BY WindowFacts, PeriodNat, Refill DEF Tallies
<1>2. /\ u <= L
      /\ IF a < Period THEN x <= u + y + (IF t <= a THEN 0 ELSE L)
                       ELSE x <= 0 + y + (IF t <= 0 THEN 0 ELSE L)
  BY <1>1, PeriodNat DEF Counted, Tally
<1>3. (n + 1) * L = y + L /\ ((n + 1) + 1) * L = (n + 1) * L + L /\ (n + 1) + 1 = 2 + n
  BY <1>1, Refill
<1>4. (2 + n) * L = y + L + L
  BY <1>1, <1>3
<1> HIDE DEF L, u, a, t, x, n, y
<1>5. x <= y + L + L
  BY <1>1, <1>2
<1>6. x <= (2 + n) * L
  BY <1>4, <1>5
<1> QED
  BY <1>6 DEF L, t, x, n

\* Within one Period never more than twice the limit of a WindowCounter
\* passes, and once more for each time a running window was evicted in it,
\* whenever its windows start (rate_limit.rs, and WindowCounter of swarm.rs).
THEOREM WindowsMeet == RateSpec => []WindowBound
<1>1. RateInit => WindowLine
  BY WindowStart
<1>2. WindowLine /\ [RateNext]_rateVars => WindowLine'
  BY WindowStep
<1> QED
  BY <1>1, <1>2, WindowMeans, PTL DEF RateSpec

-----------------------------------------------------------------------------
(* The table of external addresses.                                           *)

\* The ages of promoted addresses, and what ExternalIsBacked says of them.
AddressInv ==
    /\ testNetwork \in BOOLEAN
    /\ promoted \in [Addresses -> Nat \cup {Absent}]
    /\ ExternalIsBacked

-----------------------------------------------------------------------------
(* Ages.                                                                     *)

\* What is not in the table has no age, and what is has one after a tick, a
\* larger one while it may be kept.
LEMMA AgedAge ==
    ASSUME NEW age \in Nat \cup {Absent}
    PROVE  /\ Aged(age) \in Nat \cup {Absent}
           /\ Aged(age) = Absent <=> age = Absent
           /\ ~ (Aged(Absent) > Ttl)
BY AddressAssumption DEF Aged, Absent

-----------------------------------------------------------------------------
(* The steps that change the table.                                          *)

\* A promotion puts an address of age zero into the table and the Swarm's set.
LEMMA Promoting ==
    ASSUME AddressInv, NEW a \in Addresses, a \in PublicAddresses,
           Promote(a), UNCHANGED <<testNetwork, confirmed>>
    PROVE  AddressInv'
<1>1. promoted' \in [Addresses -> Nat \cup {Absent}]
  BY DEF AddressInv, Promote
<1>2. \A b \in Addresses : promoted'[b] = IF b = a THEN 0 ELSE promoted[b]
  BY DEF AddressInv, Promote
<1>3. ExternalIsBacked'
  <2> SUFFICES ASSUME ~ testNetwork
               PROVE  /\ \A b \in external' \ confirmed : b \in PublicAddresses /\ promoted'[b] \in 0 .. Ttl
                      /\ \A b \in Addresses : promoted'[b] # Absent =>
                            promoted'[b] <= Ttl /\ b \in external' \cup CircuitAddresses
    BY DEF ExternalIsBacked
  <2>1. /\ \A b \in external \ confirmed : b \in PublicAddresses /\ promoted[b] \in 0 .. Ttl
        /\ \A b \in Addresses : promoted[b] # Absent =>
                promoted[b] <= Ttl /\ b \in external \cup CircuitAddresses
    BY DEF AddressInv, ExternalIsBacked
  <2>2. external' = external \cup {a} /\ 0 \in 0 .. Ttl
    BY AddressAssumption DEF Promote
  <2>3. PublicAddresses \subseteq Addresses
    BY AddressAssumption
  <2> QED
    BY <1>2, <2>1, <2>2, <2>3
<1> QED
  BY <1>1, <1>3 DEF AddressInv

\* What leaves the table leaves the Swarm's set with it.
LEMMA Clearing ==
    ASSUME AddressInv, ClearPromoted, UNCHANGED testNetwork
    PROVE  AddressInv'
<1>1. promoted' \in [Addresses -> Nat \cup {Absent}]
  BY DEF ClearPromoted
<1>2. \A a \in Addresses : promoted'[a] = Absent
  BY DEF ClearPromoted
<1>3. ASSUME ~ testNetwork, NEW a \in external' \ confirmed' PROVE FALSE
  <2>1. a \in external \ confirmed /\ a \notin {b \in Addresses : promoted[b] # Absent}
    BY <1>3 DEF ClearPromoted, Withdraw
  <2>2. a \in PublicAddresses /\ promoted[a] \in 0 .. Ttl
    BY <1>3, <2>1 DEF AddressInv, ExternalIsBacked
  <2> QED
    BY <2>1, <2>2, AddressAssumption DEF Absent
<1> QED
  BY <1>1, <1>2, <1>3 DEF AddressInv, ExternalIsBacked

LEMMA Expiring ==
    ASSUME AddressInv, ExpireExternal
    PROVE  AddressInv'
<1>1. \A a \in Addresses : Aged(promoted[a]) \in Nat \cup {Absent}
                           /\ (Aged(promoted[a]) = Absent <=> promoted[a] = Absent)
  BY AgedAge DEF AddressInv
<1>2. promoted' \in [Addresses -> Nat \cup {Absent}]
  BY <1>1 DEF ExpireExternal
<1>3. \A a \in Addresses :
        promoted'[a] = IF a \in StalePromoted THEN Absent ELSE Aged(promoted[a])
  BY DEF ExpireExternal
<1>4. \A a \in Addresses :
        promoted'[a] # Absent =>
            /\ promoted[a] # Absent /\ a \notin StalePromoted
            /\ promoted'[a] \in Nat /\ promoted'[a] <= Ttl
  <2> SUFFICES ASSUME NEW a \in Addresses, promoted'[a] # Absent
               PROVE  /\ promoted[a] # Absent /\ a \notin StalePromoted
                      /\ promoted'[a] \in Nat /\ promoted'[a] <= Ttl
    OBVIOUS
  <2>1. a \notin StalePromoted /\ promoted'[a] = Aged(promoted[a])
    BY <1>3
  <2>2. ~ (Aged(promoted[a]) > Ttl) /\ Aged(promoted[a]) \in Nat
    BY <1>1, <2>1 DEF StalePromoted
  <2> QED
    BY <1>1, <2>1, <2>2, AddressAssumption
<1>5. external' = external \ StalePromoted /\ confirmed' = confirmed \ StalePromoted
  BY DEF ExpireExternal, Withdraw
<1>6. ASSUME ~ testNetwork, NEW a \in external' \ confirmed'
      PROVE  a \in PublicAddresses /\ promoted'[a] \in 0 .. Ttl
  <2>1. a \in external \ confirmed /\ a \notin StalePromoted
    BY <1>5
  <2>2. a \in PublicAddresses /\ promoted[a] \in 0 .. Ttl
    BY <1>6, <2>1 DEF AddressInv, ExternalIsBacked
  <2>3. promoted[a] # Absent /\ a \in Addresses
    BY <2>2, AddressAssumption DEF Absent
  <2>4. promoted'[a] # Absent
    BY <1>1, <1>3, <2>1, <2>3
  <2> QED
    BY <1>4, <2>2, <2>3, <2>4, AddressAssumption
<1>7. ASSUME ~ testNetwork, NEW a \in Addresses, promoted'[a] # Absent
      PROVE  promoted'[a] <= Ttl /\ a \in external' \cup CircuitAddresses
  BY <1>4, <1>5, <1>7 DEF AddressInv, ExternalIsBacked
<1> QED
  BY <1>2, <1>6, <1>7 DEF AddressInv, ExternalIsBacked, ExpireExternal

\* libp2p confirms an address, and withdraws a circuit.
LEMMA Confirming ==
    ASSUME AddressInv, NEW a \in Addresses,
           ExternalAddrConfirmed(a) \/ ExternalAddrExpired(a)
    PROVE  AddressInv'
<1>1. UNCHANGED <<testNetwork, promoted>>
  BY DEF ExternalAddrConfirmed, ExternalAddrExpired
<1>2. \/ external' = external \cup {a} /\ confirmed' = confirmed \cup {a}
      \/ external' = external \ {a} /\ confirmed' = confirmed \ {a} /\ a \in CircuitAddresses
  BY DEF ExternalAddrConfirmed, ExternalAddrExpired, Withdraw
<1>3. external' \ confirmed' \subseteq external \ confirmed
  BY <1>2
<1>4. external \cup CircuitAddresses \subseteq external' \cup CircuitAddresses
  BY <1>2
<1> QED
  BY <1>1, <1>3, <1>4 DEF AddressInv, ExternalIsBacked

\* Nothing else changes the table outside a test network.
LEMMA AddressFrame ==
    ASSUME AddressInv, UNCHANGED <<testNetwork, promoted>>,
           ~ testNetwork => UNCHANGED <<external, confirmed>>
    PROVE  AddressInv'
BY DEF AddressInv, ExternalIsBacked

-----------------------------------------------------------------------------
LEMMA AddressStart == AddressInit => AddressInv
BY DEF AddressInit, AddressInv, ExternalIsBacked

LEMMA AddressStep ==
    ASSUME AddressInv, [AddressNext]_addressVars
    PROVE  AddressInv'
<1>1. ASSUME NEW a \in Addresses, NEW p \in Observers, Identify(p, a)
      PROVE  AddressInv'
  <2>1. CASE testNetwork /\ a \in PrivateAddresses
    BY <1>1, <2>1, AddressFrame DEF Identify
  <2>2. CASE ~ (testNetwork /\ a \in PrivateAddresses) /\ a \notin PublicAddresses
    BY <1>1, <2>2, AddressFrame DEF Identify, ObserveExternal
  <2>3. CASE ~ (testNetwork /\ a \in PrivateAddresses) /\ a \in PublicAddresses
    <3>1. /\ UNCHANGED <<testNetwork, confirmed>>
          /\ Promote(a) \/ UNCHANGED <<promoted, external>>
      BY <1>1, <2>3 DEF Identify, ObserveExternal
    <3> QED
      BY <2>3, <3>1, Promoting, AddressFrame
  <2> QED
    BY <2>1, <2>2, <2>3
<1>2. ASSUME NEW a \in Addresses, AutonatPublic(a)
      PROVE  AddressInv'
  <2>1. CASE a \in PublicAddresses
    BY <1>2, <2>1, Promoting DEF AutonatPublic
  <2>2. CASE a \notin PublicAddresses
    BY <1>2, <2>2, AddressFrame DEF AutonatPublic
  <2> QED
    BY <2>1, <2>2
<1>3. ASSUME NEW a \in Addresses, NewListenAddr(a)
      PROVE  AddressInv'
  BY <1>3, AddressFrame DEF NewListenAddr
<1>4. ASSUME NEW a \in Addresses,
             ExpiredListenAddr(a) \/ ExternalAddrConfirmed(a) \/ ExternalAddrExpired(a)
      PROVE  AddressInv'
  BY <1>4, AddressFrame, Confirming DEF ExpiredListenAddr
<1>5. ASSUME NEW a \in Addresses, ForgetCandidate(a)
      PROVE  AddressInv'
  BY <1>5, AddressFrame DEF ForgetCandidate
<1>6. CASE AutonatPrivate
  BY <1>6, Clearing DEF AutonatPrivate
<1>7. CASE AutonatUnknown
  BY <1>7, AddressFrame DEF AutonatUnknown
<1>8. CASE ExpireExternal
  BY <1>8, Expiring
<1>9. CASE UNCHANGED addressVars
  BY <1>9, AddressFrame DEF addressVars
<1> QED
  BY <1>1, <1>2, <1>3, <1>4, <1>5, <1>6, <1>7, <1>8, <1>9 DEF AddressNext

\* The Swarm's external addresses are those libp2p confirmed by itself and the
\* public ones of the table, and no older than the time to live, whatever
\* peers observe and AutoNAT finds, in any order (swarm.rs,
\* observe_external_address to clear_promoted_external).
THEOREM Advertising == AddressSpec => []ExternalIsBacked
<1>1. AddressInit => AddressInv
  BY AddressStart
<1>2. AddressInv /\ [AddressNext]_addressVars => AddressInv'
  BY AddressStep
<1>3. AddressInv => ExternalIsBacked
  BY DEF AddressInv
<1> QED
  BY <1>1, <1>2, <1>3, PTL DEF AddressSpec

-----------------------------------------------------------------------------
(* The identity file.                                                         *)

\* The file holds a keypair that was made and never removed.
FileIsCurrent == file \in 0 .. made /\ file \notin removed

\* Who writes a keypair is the only one to put a file, and finds none.
WriterAlone ==
    \A p \in Procs : at[p] = "writing" =>
        file = NoKey /\ key[p] \in 1 .. made /\ key[p] \notin removed

\* What a reset began with is still the file, or was removed by somebody; and
\* it was removed once the reset has gone past its removal.
ResetRemoves ==
    \A p \in Procs : replaced[p] # NoKey =>
        /\ at[p] # "loading"
        /\ replaced[p] \in removed \cup {file}
        /\ at[p] \in {"locking", "holding", "yielding", "writing"}
            => replaced[p] \in removed

\* Who returned has a keypair.
DoneHasKey == \A p \in Procs : at[p] = "done" => key[p] # NoKey

IdentityInv ==
    /\ StoreTypeOK
    /\ FileIsCurrent /\ WriterAlone /\ ResetRemoves /\ DoneHasKey
    /\ OneIdentity /\ ResetIsNew

USE DEF Keypairs, NoKey

-----------------------------------------------------------------------------
(* One lemma for each kind of step.                                          *)

\* The types, and the lock of those who work under it.
LEMMA StoreType ==
    ASSUME StoreTypeOK, FileIsCurrent, NEW p \in Procs,
           LoadOrCreate(p) \/ Reset(p) \/ Call(p) \/ Mishap(p)
    PROVE  StoreTypeOK'
<1> USE StoreAssumption
<1>1. CASE LoadOrCreate(p)
  BY <1>1 DEF StoreTypeOK, LoadOrCreate, Begin, Go, Steps
<1>2. CASE Reset(p)
  BY <1>2 DEF StoreTypeOK, Reset, Begin, Go, Steps
<1>3. CASE Load(p)
  BY <1>3 DEF StoreTypeOK, Load, Return, Release, Go, Steps
<1>4. CASE RemoveFile(p)
  BY <1>4 DEF StoreTypeOK, FileIsCurrent, RemoveFile, Go, Steps
<1>5. CASE Acquire(p)
  BY <1>5 DEF StoreTypeOK, Acquire, Go, Steps
<1>6. CASE Yield(p)
  BY <1>6 DEF StoreTypeOK, Yield, Go, Steps
<1>7. CASE YieldLoad(p)
  BY <1>7 DEF StoreTypeOK, YieldLoad, Return, Release, Go, Steps
<1>8. CASE Generate(p)
  BY <1>8 DEF StoreTypeOK, Generate, Go, Steps
<1>9. CASE Rename(p)
  BY <1>9 DEF StoreTypeOK, Rename, Return, Release, Go, Steps
<1>10. CASE Fail(p)
  BY <1>10 DEF StoreTypeOK, Fail, Release, Go, Steps
<1>11. CASE AcquireFails(p)
  BY <1>11 DEF StoreTypeOK, AcquireFails, Go, Steps
<1>12. CASE IoFails(p)
  BY <1>12 DEF StoreTypeOK, IoFails, Release, Go, Steps
<1>13. CASE TimeOut(p)
  BY <1>13 DEF StoreTypeOK, TimeOut, Go, Steps
<1>14. CASE Crash(p)
  BY <1>14 DEF StoreTypeOK, Crash, Go, Steps
<1> QED
  BY <1>1, <1>2, <1>3, <1>4, <1>5, <1>6, <1>7, <1>8, <1>9, <1>10, <1>11, <1>12,
     <1>13, <1>14 DEF Call, Mishap

\* The calls that touch nothing but their own process and the lock.
LEMMA CallBegins ==
    ASSUME IdentityInv, NEW p \in Procs, LoadOrCreate(p) \/ Reset(p)
    PROVE  IdentityInv'
<1>1. StoreTypeOK'
  BY StoreType DEF IdentityInv
<1>2. UNCHANGED <<file, made, removed>> /\ key'[p] = NoKey
  BY DEF IdentityInv, StoreTypeOK, LoadOrCreate, Reset, Begin
<1>3. /\ at'[p] \in {"loading", "removing", "locking"}
      /\ replaced'[p] # NoKey => /\ replaced'[p] = file
                                 /\ at'[p] = "removing"
  BY DEF IdentityInv, StoreTypeOK, LoadOrCreate, Reset, Begin, Go
<1>4. \A q \in Procs \ {p} : UNCHANGED <<at[q], key[q], replaced[q]>>
  BY DEF IdentityInv, StoreTypeOK, LoadOrCreate, Reset, Begin, Go
<1>5. FileIsCurrent' /\ WriterAlone'
  BY <1>2, <1>3, <1>4 DEF IdentityInv, FileIsCurrent, WriterAlone
<1>6. ResetRemoves'
  BY <1>2, <1>3, <1>4 DEF IdentityInv, ResetRemoves
<1>7. DoneHasKey' /\ OneIdentity' /\ ResetIsNew'
  BY <1>2, <1>3, <1>4 DEF IdentityInv, DoneHasKey, OneIdentity, ResetIsNew
<1> QED
  BY <1>1, <1>5, <1>6, <1>7 DEF IdentityInv

\* Who finds a file returns its keypair.
LEMMA CallReturns ==
    ASSUME IdentityInv, NEW p \in Procs, Load(p) \/ YieldLoad(p)
    PROVE  IdentityInv'
<1>1. StoreTypeOK'
  BY StoreType DEF IdentityInv, Call
<1>2. UNCHANGED <<file, made, removed, replaced>> /\ file # NoKey
  BY DEF Load, YieldLoad
<1>3. /\ at'[p] = "done" /\ key'[p] = file
      /\ at[p] \in {"loading", "yielding"}
      /\ \A q \in Procs \ {p} : UNCHANGED <<at[q], key[q]>>
  BY DEF IdentityInv, StoreTypeOK, Load, YieldLoad, Return, Go
<1>4. FileIsCurrent' /\ WriterAlone'
  BY <1>2, <1>3 DEF IdentityInv, FileIsCurrent, WriterAlone
<1>5. ResetRemoves'
  BY <1>2, <1>3 DEF IdentityInv, ResetRemoves
<1>6. DoneHasKey' /\ OneIdentity'
  BY <1>2, <1>3 DEF IdentityInv, DoneHasKey, OneIdentity
<1>7. ResetIsNew'
  <2>1. replaced[p] # NoKey => replaced[p] \in removed
    BY <1>3 DEF IdentityInv, ResetRemoves
  <2> QED
    BY <1>2, <1>3, <2>1 DEF IdentityInv, ResetIsNew, FileIsCurrent
<1> QED
  BY <1>1, <1>4, <1>5, <1>6, <1>7 DEF IdentityInv

\* Who removes the file leaves its keypair among the removed ones, where those
\* who returned it find it.
LEMMA FileRemoved ==
    ASSUME IdentityInv, NEW p \in Procs, RemoveFile(p)
    PROVE  IdentityInv'
<1>1. StoreTypeOK'
  BY StoreType DEF IdentityInv, Call
<1>2. /\ file # NoKey /\ file' = NoKey /\ removed' = removed \cup {file}
      /\ UNCHANGED <<made, key, replaced>>
  BY DEF RemoveFile
<1>3. /\ at[p] = "removing" /\ at'[p] = "locking"
      /\ \A q \in Procs \ {p} : at'[q] = at[q]
  BY DEF IdentityInv, StoreTypeOK, RemoveFile, Go
<1>4. FileIsCurrent'
  BY <1>2 DEF IdentityInv, StoreTypeOK, FileIsCurrent
<1>5. WriterAlone'
  BY <1>2, <1>3 DEF IdentityInv, WriterAlone
<1>6. ResetRemoves'
  BY <1>2, <1>3 DEF IdentityInv, ResetRemoves
<1>7. DoneHasKey' /\ OneIdentity' /\ ResetIsNew'
  BY <1>2, <1>3 DEF IdentityInv, DoneHasKey, OneIdentity, ResetIsNew
<1> QED
  BY <1>1, <1>4, <1>5, <1>6, <1>7 DEF IdentityInv

\* A keypair is made under the lock, which no other who writes can have.
LEMMA KeyMade ==
    ASSUME IdentityInv, NEW p \in Procs, Generate(p)
    PROVE  IdentityInv'
<1>1. StoreTypeOK'
  BY StoreType DEF IdentityInv, Call
<1>2. /\ file = NoKey /\ made' = made + 1
      /\ UNCHANGED <<file, removed, replaced>>
  BY DEF Generate
<1>3. /\ at[p] = "holding" /\ at'[p] = "writing" /\ key'[p] = made + 1
      /\ \A q \in Procs \ {p} : UNCHANGED <<at[q], key[q]>>
  BY DEF IdentityInv, StoreTypeOK, Generate, Go
<1>4. made \in Nat /\ removed \subseteq 1 .. made
  BY StoreAssumption DEF IdentityInv, StoreTypeOK
<1>5. FileIsCurrent'
  BY <1>2, <1>4 DEF IdentityInv, FileIsCurrent
<1>6. WriterAlone'
  BY <1>2, <1>3, <1>4 DEF IdentityInv, WriterAlone
<1>7. ResetRemoves'
  BY <1>2, <1>3 DEF IdentityInv, ResetRemoves
<1>8. DoneHasKey' /\ OneIdentity' /\ ResetIsNew'
  BY <1>2, <1>3 DEF IdentityInv, DoneHasKey, OneIdentity, ResetIsNew
<1> QED
  BY <1>1, <1>5, <1>6, <1>7, <1>8 DEF IdentityInv

\* The rename finds no file, although nothing keeps it from replacing one: the
\* identity of those who returned was removed already.
LEMMA KeyStored ==
    ASSUME IdentityInv, NEW p \in Procs, Rename(p)
    PROVE  IdentityInv'
<1>1. StoreTypeOK'
  BY StoreType DEF IdentityInv, Call
<1>2. /\ file' = key[p] /\ key'[p] = key[p]
      /\ UNCHANGED <<made, removed, replaced>>
  BY DEF IdentityInv, StoreTypeOK, Rename, Return
<1>3. /\ at[p] = "writing" /\ at'[p] = "done"
      /\ \A q \in Procs \ {p} : UNCHANGED <<at[q], key[q]>>
  BY DEF IdentityInv, StoreTypeOK, Rename, Return, Go
<1>4. file = NoKey /\ key[p] \in 1 .. made /\ key[p] \notin removed /\ made \in Nat
  BY <1>3, StoreAssumption DEF IdentityInv, WriterAlone, StoreTypeOK
<1>5. \A q \in Procs \ {p} : at[q] # "writing"
  BY <1>3 DEF IdentityInv, StoreTypeOK
<1>6. FileIsCurrent'
  BY <1>2, <1>4 DEF FileIsCurrent
<1>7. WriterAlone'
  BY <1>3, <1>5 DEF WriterAlone
<1>8. ResetRemoves'
  BY <1>2, <1>3, <1>4 DEF IdentityInv, ResetRemoves
<1>9. DoneHasKey' /\ OneIdentity'
  BY <1>2, <1>3, <1>4 DEF IdentityInv, DoneHasKey, OneIdentity
<1>10. ResetIsNew'
  <2>1. replaced[p] # NoKey => replaced[p] \in removed
    BY <1>3 DEF IdentityInv, ResetRemoves
  <2> QED
    BY <1>2, <1>3, <1>4, <2>1 DEF IdentityInv, ResetIsNew
<1> QED
  BY <1>1, <1>6, <1>7, <1>8, <1>9, <1>10 DEF IdentityInv

\* A call goes on to the lock, or ends without a keypair.
LEMMA CallMoves ==
    ASSUME IdentityInv, NEW p \in Procs,
           Acquire(p) \/ Yield(p) \/ Fail(p) \/ Mishap(p)
    PROVE  IdentityInv'
<1>1. StoreTypeOK'
  BY StoreType DEF IdentityInv, Call
<1>2. UNCHANGED <<file, made, removed, replaced>>
  BY DEF Acquire, Yield, Fail, Mishap, AcquireFails, IoFails, TimeOut, Crash
<1>3. /\ \/ at[p] \in {"locking", "holding"} /\ at'[p] \in {"holding", "yielding"}
         \/ at'[p] \in {"failed", "gone"}
      /\ \A q \in Procs \ {p} : UNCHANGED <<at[q], key[q]>>
  BY DEF IdentityInv, StoreTypeOK, Go,
         Acquire, Yield, Fail, Mishap, AcquireFails, IoFails, TimeOut, Crash
<1>4. FileIsCurrent' /\ WriterAlone'
  BY <1>2, <1>3 DEF IdentityInv, FileIsCurrent, WriterAlone
<1>5. ResetRemoves'
  BY <1>2, <1>3 DEF IdentityInv, ResetRemoves
<1>6. DoneHasKey' /\ OneIdentity' /\ ResetIsNew'
  BY <1>2, <1>3 DEF IdentityInv, DoneHasKey, OneIdentity, ResetIsNew
<1> QED
  BY <1>1, <1>4, <1>5, <1>6 DEF IdentityInv

-----------------------------------------------------------------------------
LEMMA StoreStart == StoreInit => IdentityInv
BY StoreAssumption
   DEF StoreInit, IdentityInv, StoreTypeOK, Steps, FileIsCurrent, WriterAlone,
       ResetRemoves, DoneHasKey, OneIdentity, ResetIsNew

LEMMA StoreStep == IdentityInv /\ [StoreNext]_storeVars => IdentityInv'
<1> SUFFICES ASSUME IdentityInv, [StoreNext]_storeVars PROVE IdentityInv'
  OBVIOUS
<1>1. CASE UNCHANGED storeVars
  BY <1>1 DEF storeVars, IdentityInv, StoreTypeOK, FileIsCurrent, WriterAlone,
              ResetRemoves, DoneHasKey, OneIdentity, ResetIsNew
<1>2. CASE StoreNext
  BY <1>2, CallBegins, CallReturns, FileRemoved, KeyMade, KeyStored, CallMoves
     DEF StoreNext, Call
<1> QED
  BY <1>1, <1>2

\* The invariant of the identity directory: what was removed stays removed, a
\* writer finds no file, and the lock belongs to who works under it.
THEOREM IdentityInvariant == StoreSpec => []IdentityInv
BY StoreStart, StoreStep, PTL DEF StoreSpec

\* The processes are well typed, and those under the lock hold it.
THEOREM StoreTypes == StoreSpec => []StoreTypeOK
<1>1. IdentityInv => StoreTypeOK
  BY DEF IdentityInv
<1> QED
  BY <1>1, IdentityInvariant, PTL

\* Who has an identity that no reset has removed has the one in the file.
THEOREM Agreement == StoreSpec => []OneIdentity
<1>1. IdentityInv => OneIdentity
  BY DEF IdentityInv
<1> QED
  BY <1>1, IdentityInvariant, PTL

\* A reset returns another identity than the one it began with.
THEOREM Renewal == StoreSpec => []ResetIsNew
<1>1. IdentityInv => ResetIsNew
  BY DEF IdentityInv
<1> QED
  BY <1>1, IdentityInvariant, PTL

-----------------------------------------------------------------------------
(* The parts together.                                                       *)

\* No part of a node touches the state of another: a behaviour of NodeParts is
\* a behaviour of each part, so what is proved of a part holds beside the others.
THEOREM PartsAreApart == PartsSpec => Spec /\ RateSpec /\ AddressSpec /\ StoreSpec
<1>1. PartsInit => Init /\ RateInit /\ AddressInit /\ StoreInit
  BY DEF PartsInit
<1>2. [PartsNext]_partsVars =>
        [Next]_vars /\ [RateNext]_rateVars /\ [AddressNext]_addressVars /\ [StoreNext]_storeVars
  BY DEF PartsNext, SequenceWindows, TrafficLimits, AddressTable, IdentityFile, partsVars
<1>3. PartsSpec => PartsInit /\ [][PartsNext]_partsVars
  BY PTL DEF PartsSpec
<1> QED
  BY <1>1, <1>2, <1>3, PTL DEF Spec, RateSpec, AddressSpec, StoreSpec
=============================================================================
