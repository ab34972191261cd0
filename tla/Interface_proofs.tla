-------------------------- MODULE Interface_proofs ---------------------------
(***************************************************************************)
(* What holds of Interface for any files, page size and channels: one      *)
(* verdict on each scan that was wanted and none behind an alert, a log    *)
(* that keeps up with the safety mode, and a page that shows nothing that  *)
(* was removed.                                                            *)
(***************************************************************************)
EXTENDS Interface, FiniteSetTheorems, FunctionTheorems, SequenceTheorems,
        NaturalsInduction, WellFoundedInduction, TLAPS

Frames == {"events", "hash", "publish", "draw", "tab", "picker", "page", "list", "dialog"}

Scan == [file : Files, cancelled : BOOLEAN,
         state : {"reading", "hashed", "failed", "taken"}]

-----------------------------------------------------------------------------
(* Sequences.                                                                *)

LEMMA SeqElements ==
    ASSUME NEW S, NEW s \in Seq(S)
    PROVE  /\ Len(s) \in Nat /\ DOMAIN s = 1..Len(s) /\ \A i \in 1..Len(s) : s[i] \in S
           /\ ToSet(s) \subseteq S /\ s \in [1..Len(s) -> S]
<1>1. Len(s) \in Nat /\ DOMAIN s = 1..Len(s)
    BY LenProperties
<1>2. \A i \in 1..Len(s) : s[i] \in S
    BY <1>1, ElementOfSeq
<1>3. s \in [1..Len(s) -> S]
    BY LenProperties
<1>4. ToSet(s) \subseteq S
    BY <1>1, <1>2 DEF ToSet
<1>. QED BY <1>1, <1>2, <1>3, <1>4

LEMMA AppendElements ==
    ASSUME NEW S, NEW s \in Seq(S), NEW x \in S
    PROVE  /\ Append(s, x) \in Seq(S) /\ Len(Append(s, x)) = Len(s) + 1
           /\ DOMAIN Append(s, x) = 1..(Len(s) + 1)
           /\ \A i \in 1..Len(s) : Append(s, x)[i] = s[i]
           /\ Append(s, x)[Len(s) + 1] = x
BY AppendProperties, LenProperties

LEMMA TailElements ==
    ASSUME NEW S, NEW s \in Seq(S), s # <<>>
    PROVE  /\ Tail(s) \in Seq(S) /\ Len(Tail(s)) = Len(s) - 1 /\ Len(s) # 0
           /\ DOMAIN Tail(s) = 1..(Len(s) - 1)
           /\ \A i \in 1..(Len(s) - 1) : Tail(s)[i] = s[i + 1]
           /\ Head(s) = s[1] /\ Head(s) \in S
<1>1. /\ Tail(s) \in Seq(S) /\ Len(Tail(s)) = Len(s) - 1
      /\ \A i \in 1..Len(Tail(s)) : Tail(s)[i] = s[i + 1]
      /\ Head(s) \in S
    BY HeadTailProperties
<1>2. DOMAIN Tail(s) = 1..(Len(s) - 1)
    BY <1>1, LenProperties
<1>3. Len(s) # 0
    BY EmptySeq
<1>4. Head(s) = s[1]
    OBVIOUS
<1>. QED BY <1>1, <1>2, <1>3, <1>4

LEMMA SomeOf ==
    ASSUME NEW S, NEW s \in Seq(S), NEW m \in Int, m >= 1, NEW n \in Int, n <= Len(s)
    PROVE  /\ SubSeq(s, m, n) \in Seq(S) /\ ToSet(SubSeq(s, m, n)) \subseteq ToSet(s)
           /\ Len(SubSeq(s, m, n)) = IF m <= n THEN n - m + 1 ELSE 0
<1>1. Len(s) \in Nat /\ DOMAIN s = 1..Len(s) /\ \A i \in 1..Len(s) : s[i] \in S
    BY SeqElements
<1>2. \A i \in m..n : i \in 1..Len(s) /\ s[i] \in S
    BY <1>1
<1>3. /\ SubSeq(s, m, n) \in Seq(S)
      /\ Len(SubSeq(s, m, n)) = IF m <= n THEN n - m + 1 ELSE 0
      /\ \A i \in 1..(n - m + 1) : SubSeq(s, m, n)[i] = s[m + i - 1]
    BY <1>2, SubSeqProperties
<1>. DEFINE t == SubSeq(s, m, n)
<1>. HIDE DEF t
<1>4. ASSUME NEW i \in DOMAIN t PROVE t[i] \in ToSet(s)
    <2>1. DOMAIN t = 1..Len(t) /\ i \in 1..Len(t)
        BY <1>3, LenProperties DEF t
    <2>2. i \in 1..(n - m + 1) /\ m + i - 1 \in m..n
        BY <1>3, <2>1 DEF t
    <2>3. t[i] = s[m + i - 1] /\ m + i - 1 \in 1..Len(s)
        BY <1>2, <1>3, <2>2 DEF t
    <2>. QED BY <1>1, <2>3 DEF ToSet
<1>5. ToSet(t) \subseteq ToSet(s)
    BY <1>4 DEF ToSet
<1>. QED BY <1>3, <1>5 DEF t

LEMMA Joined ==
    ASSUME NEW S, NEW s \in Seq(S), NEW t \in Seq(S)
    PROVE  s \o t \in Seq(S) /\ ToSet(s \o t) \subseteq ToSet(s) \cup ToSet(t)
<1>1. /\ s \o t \in Seq(S) /\ Len(s \o t) = Len(s) + Len(t)
      /\ \A i \in 1..(Len(s) + Len(t)) : (s \o t)[i] = IF i <= Len(s) THEN s[i] ELSE t[i - Len(s)]
    BY ConcatProperties
<1>2. /\ Len(s) \in Nat /\ DOMAIN s = 1..Len(s) /\ Len(t) \in Nat /\ DOMAIN t = 1..Len(t)
      /\ DOMAIN (s \o t) = 1..(Len(s) + Len(t))
    BY <1>1, LenProperties
<1>3. ASSUME NEW i \in 1..(Len(s) + Len(t)) PROVE (s \o t)[i] \in ToSet(s) \cup ToSet(t)
    <2>1. CASE i <= Len(s)
        <3>1. i \in DOMAIN s /\ (s \o t)[i] = s[i]
            BY <1>1, <1>2, <2>1
        <3>. QED BY <3>1 DEF ToSet
    <2>2. CASE ~(i <= Len(s))
        <3>1. i - Len(s) \in DOMAIN t /\ (s \o t)[i] = t[i - Len(s)]
            BY <1>1, <1>2, <2>2
        <3>. QED BY <3>1 DEF ToSet
    <2>. QED BY <2>1, <2>2
<1>4. ToSet(s \o t) \subseteq ToSet(s) \cup ToSet(t)
    BY <1>2, <1>3 DEF ToSet
<1>. QED BY <1>1, <1>4

LEMMA Inserted ==
    ASSUME NEW S, NEW s \in Seq(S), NEW i \in 1 .. Len(s) + 1, NEW x \in S
    PROVE  InsertAt(s, i, x) \in Seq(S) /\ ToSet(InsertAt(s, i, x)) \subseteq ToSet(s) \cup {x}
<1>. DEFINE a == SubSeq(s, 1, i - 1)
            b == <<x>>
            c == SubSeq(s, i, Len(s))
<1>1. Len(s) \in Nat /\ i \in Int /\ i >= 1 /\ i - 1 \in Int /\ i - 1 <= Len(s)
    BY SeqElements
<1>2. a \in Seq(S) /\ ToSet(a) \subseteq ToSet(s) /\ c \in Seq(S) /\ ToSet(c) \subseteq ToSet(s)
    BY <1>1, SomeOf
<1>3. b \in Seq(S) /\ ToSet(b) = {x}
    BY DEF ToSet
<1>4. InsertAt(s, i, x) = (a \o b) \o c
    BY DEF InsertAt
<1>. HIDE DEF a, b, c
<1>5. a \o b \in Seq(S) /\ ToSet(a \o b) \subseteq ToSet(s) \cup {x}
    BY <1>2, <1>3, Joined
<1>. DEFINE d == a \o b
<1>. HIDE DEF d
<1>6. d \o c \in Seq(S) /\ ToSet(d \o c) \subseteq ToSet(s) \cup {x}
    BY <1>2, <1>5, Joined, ZenonT(60) DEF d
<1>. QED BY <1>4, <1>6 DEF d

LEMMA Removed ==
    ASSUME NEW S, NEW s \in Seq(S), NEW i \in 1 .. Len(s)
    PROVE  RemoveAt(s, i) \in Seq(S) /\ ToSet(RemoveAt(s, i)) \subseteq ToSet(s)
<1>. DEFINE a == SubSeq(s, 1, i - 1)
            c == SubSeq(s, i + 1, Len(s))
<1>1. Len(s) \in Nat /\ i \in Int /\ i >= 1 /\ i - 1 <= Len(s)
    BY SeqElements
<1>2. i + 1 \in Int /\ i + 1 >= 1 /\ i - 1 \in Int
    BY <1>1
<1>3. a \in Seq(S) /\ ToSet(a) \subseteq ToSet(s)
    BY <1>1, <1>2, SomeOf
<1>4. c \in Seq(S) /\ ToSet(c) \subseteq ToSet(s)
    BY <1>1, <1>2, SomeOf
<1>5. RemoveAt(s, i) = a \o c
    BY DEF RemoveAt
<1>. HIDE DEF a, c
<1>. QED BY <1>3, <1>4, <1>5, Joined

\* The largest of some positions.
LEMMA Latest ==
    ASSUME NEW n \in Nat, NEW T, T \subseteq 1..n, T # {}
    PROVE  Max(T) \in T /\ \A k \in T : k <= Max(T)
<1>. DEFINE D == {n - k : k \in T}
<1>1. D \subseteq Nat /\ D # {}
    <2>1. ASSUME NEW k \in T PROVE n - k \in Nat
        <3>1. k \in 1..n
            OBVIOUS
        <3>. QED BY <3>1
    <2>. QED BY <2>1
<1>. HIDE DEF D
<1>2. PICK d \in D : \A e \in D : ~(<<e, d>> \in OpToRel(<, Nat))
    BY <1>1, NatLessThanWellFounded, WFMin, Zenon
<1>3. PICK m \in T : d = n - m
    BY <1>1, <1>2 DEF D
<1>4. ASSUME NEW k \in T PROVE k <= m
    <2>1. k \in Int /\ m \in Int /\ n - k \in D /\ n - k \in Nat /\ d \in Nat
        <3>1. k \in 1..n /\ m \in 1..n
            OBVIOUS
        <3>2. n - k \in D
            BY DEF D
        <3>3. d \in Nat
            BY <1>1, <1>2
        <3>. QED BY <3>1, <3>2, <3>3
    <2>2. ~(n - k < d)
        BY <1>2, <2>1 DEF OpToRel
    <2>. QED BY <1>3, <2>1, <2>2
<1>5. \E x \in T : \A y \in T : x >= y
    <2>1. \A k \in T : m >= k
        <3>1. ASSUME NEW k \in T PROVE m >= k
            <4>1. k \in Int /\ m \in Int /\ k <= m
                BY <1>4
            <4>. QED BY <4>1
        <3>. QED BY <3>1
    <2>. QED BY <2>1
<1>6. Max(T) \in T /\ \A y \in T : Max(T) >= y
    BY <1>5 DEF Max
<1>7. ASSUME NEW k \in T PROVE k <= Max(T)
    <2>1. k \in 1..n /\ Max(T) \in 1..n /\ Max(T) >= k
        <3>. DEFINE m1 == Max(T)
        <3>1. m1 \in T /\ m1 >= k
            BY <1>6
        <3>. HIDE DEF m1
        <3>2. m1 \in 1..n /\ k \in 1..n
            BY <3>1
        <3>. QED BY <3>1, <3>2 DEF m1
    <2>. QED BY <2>1
<1>. QED BY <1>6, <1>7

-----------------------------------------------------------------------------
(* Positions that are kept.                                                  *)

Below(S, i) == {j \in S : j < i}

Rank(S, i) == Cardinality(Below(S, i))

LEMMA RankTyped ==
    ASSUME NEW S, S \subseteq Nat, IsFiniteSet(S), NEW i \in Nat
    PROVE  /\ IsFiniteSet(Below(S, i)) /\ Below(S, i) \subseteq S
           /\ Rank(S, i) \in Nat /\ Cardinality(S) \in Nat
           /\ Rank(S, i) <= Cardinality(S)
           /\ i \in S => Rank(S, i) < Cardinality(S)
<1>1. Below(S, i) \in SUBSET S
    BY DEF Below
<1>2. /\ IsFiniteSet(Below(S, i)) /\ Cardinality(Below(S, i)) <= Cardinality(S)
      /\ Cardinality(S) = Cardinality(Below(S, i)) => S = Below(S, i)
    BY <1>1, FS_Subset
<1>3. Cardinality(Below(S, i)) \in Nat /\ Cardinality(S) \in Nat
    BY <1>2, FS_CardinalityType
<1>4. i \in S => S # Below(S, i)
    BY DEF Below
<1>. QED BY <1>1, <1>2, <1>3, <1>4 DEF Rank

LEMMA RankGrows ==
    ASSUME NEW S, S \subseteq Nat, IsFiniteSet(S), NEW i \in Nat, NEW j \in Nat, i <= j
    PROVE  /\ Rank(S, i) <= Rank(S, j)
           /\ i \in S /\ i # j => Rank(S, i) < Rank(S, j)
<1>1. /\ IsFiniteSet(Below(S, j)) /\ IsFiniteSet(Below(S, i))
      /\ Rank(S, i) \in Nat /\ Rank(S, j) \in Nat
    BY RankTyped
<1>0. \A x \in S : x \in Nat
    OBVIOUS
<1>2. Below(S, i) \in SUBSET Below(S, j)
    <2>1. ASSUME NEW x \in S, x < i PROVE x < j
        <3>1. x \in Nat
            BY <1>0
        <3>. QED BY <2>1, <3>1
    <2>. QED BY <2>1 DEF Below
<1>3. /\ Cardinality(Below(S, i)) <= Cardinality(Below(S, j))
      /\ Cardinality(Below(S, j)) = Cardinality(Below(S, i)) => Below(S, j) = Below(S, i)
    BY <1>1, <1>2, FS_Subset
<1>4. i \in S /\ i # j => i \in Below(S, j) /\ i \notin Below(S, i)
    BY <1>0 DEF Below
<1>. QED BY <1>1, <1>3, <1>4 DEF Rank

\* Each number of members is that of some member's predecessors.
LEMMA RanksTaken ==
    ASSUME NEW S, S \subseteq Nat, IsFiniteSet(S), NEW k \in 1..Cardinality(S)
    PROVE  \E i \in S : Rank(S, i) = k - 1
<1>. DEFINE n == Cardinality(S)
            rank == [i \in S |-> Rank(S, i)]
            R == 0 .. (n - 1)
<1>0. n \in Nat
    BY FS_CardinalityType
<1>1. rank \in [S -> R]
    <2>1. ASSUME NEW i \in S PROVE Rank(S, i) \in R
        <3>1. i \in Nat
            OBVIOUS
        <3>2. Rank(S, i) \in Nat /\ Rank(S, i) < n
            BY <3>1, RankTyped
        <3>. QED BY <1>0, <3>2
    <2>. QED BY <2>1
<1>2. rank \in Injection(S, R)
    <2>1. ASSUME NEW i \in S, NEW j \in S, rank[i] = rank[j] PROVE i = j
        <3>1. i \in Nat /\ j \in Nat /\ Rank(S, i) = Rank(S, j)
              /\ Rank(S, i) \in Nat /\ Rank(S, j) \in Nat
            BY <2>1, RankTyped
        <3>2. ASSUME i <= j, i # j PROVE FALSE
            <4>1. Rank(S, i) < Rank(S, j)
                BY <3>1, <3>2, RankGrows
            <4>. QED BY <3>1, <4>1
        <3>3. ASSUME j <= i, i # j PROVE FALSE
            <4>1. Rank(S, j) < Rank(S, i)
                BY <3>1, <3>3, RankGrows
            <4>. QED BY <3>1, <4>1
        <3>. QED BY <3>1, <3>2, <3>3
    <2>. QED BY <1>1, <2>1, Fun_IsInj
<1>3. IsFiniteSet(R) /\ Cardinality(R) = n
    <2>1. 0 \in Int /\ n - 1 \in Int /\ (0 > n - 1 => n = 0) /\ n - 1 - 0 + 1 = n
        BY <1>0
    <2>. HIDE DEF n
    <2>. QED BY <2>1, FS_Interval
<1>4. rank \in Surjection(S, R)
    BY <1>2, <1>3, FS_Injection
<1>5. k - 1 \in R
    BY <1>0
<1>. QED BY <1>4, <1>5 DEF Surjection

\* Every row of the file goes, and no other comes.
LEMMA SomeRows ==
    ASSUME rows \in Seq(Files), NEW S \in SUBSET DOMAIN rows
    PROVE  /\ RowsAt(S) \in Seq(Files)
           /\ ToSet(RowsAt(S)) \subseteq {rows[i] : i \in S}
           /\ Len(RowsAt(S)) = Cardinality(S) /\ Cardinality(S) \in Nat /\ IsFiniteSet(S)
<1>. DEFINE at(k) == CHOOSE i \in S : Cardinality({j \in S : j < i}) = k - 1
            n == Cardinality(S)
<1>1. Len(rows) \in Nat /\ DOMAIN rows = 1..Len(rows) /\ \A i \in 1..Len(rows) : rows[i] \in Files
    BY SeqElements
<1>2. S \subseteq Nat /\ IsFiniteSet(S)
    <2>1. S \in SUBSET (1..Len(rows)) /\ IsFiniteSet(1..Len(rows))
        BY <1>1, FS_Interval
    <2>2. S \subseteq Nat
        BY <1>1
    <2>. QED BY <2>1, <2>2, FS_Subset
<1>3. RowsAt(S) = [k \in 1..n |-> rows[at(k)]]
    BY DEF RowsAt
<1>4. \A i \in S : rows[i] \in Files
    BY <1>1
<1>5. ASSUME NEW k \in 1..n PROVE at(k) \in S
    <2>1. \E i \in S : Rank(S, i) = k - 1
        BY <1>2, RanksTaken
    <2>2. \E i \in S : Cardinality({j \in S : j < i}) = k - 1
        BY <2>1 DEF Rank, Below
    <2>. QED BY <2>2
<1>6. n \in Nat
    BY <1>2, FS_CardinalityType
<1>. HIDE DEF at, n
<1>. DEFINE t == [k \in 1..n |-> rows[at(k)]]
<1>7. t \in Seq(Files) /\ DOMAIN t = 1..n /\ Len(t) = n
    BY <1>4, <1>5, <1>6
<1>8. ASSUME NEW k \in 1..n PROVE t[k] \in {rows[i] : i \in S}
    BY <1>4, <1>5
<1>. HIDE DEF t
<1>9. ToSet(t) \subseteq {rows[i] : i \in S}
    BY <1>7, <1>8 DEF ToSet
<1>. QED BY <1>2, <1>3, <1>6, <1>7, <1>9 DEF t, n

LEMMA OthersStay ==
    ASSUME rows \in Seq(Files), NEW file
    PROVE  /\ RowsWithout(file) \in Seq(Files)
           /\ ToSet(RowsWithout(file)) \subseteq ToSet(rows) \ {file}
<1>. DEFINE kept == {i \in DOMAIN rows : rows[i] # file}
<1>1. kept \in SUBSET DOMAIN rows /\ RowsWithout(file) = RowsAt(kept)
    BY DEF RowsWithout
<1>2. {rows[i] : i \in kept} \subseteq ToSet(rows) \ {file}
    BY DEF ToSet
<1>. HIDE DEF kept
<1>. QED BY <1>1, <1>2, SomeRows

-----------------------------------------------------------------------------
(* The scanner.                                                              *)

ScanTypes ==
    /\ frame \in Frames
    /\ scans \in Seq(Scan)
    /\ waiting \in Scans \cup {0}
    /\ judged \in Files \cup {NoFile} /\ alert \in Files \cup {NoFile}

\* A scan that was cancelled is not awaited any more, and has no verdict.
Dropped == \A s \in Scans : scans[s].cancelled => s # waiting /\ scans[s].state # "taken"

\* A scan that is awaited has no verdict yet.
Undecided == waiting # 0 => scans[waiting].state # "taken"

\* Where in the frame there may be a file to publish, and an alert.
Verdicts ==
    /\ frame = "publish" => waiting = 0 /\ alert = NoFile
    /\ judged # NoFile => frame = "publish"
    /\ alert # NoFile => waiting = 0 /\ frame \in {"events", "hash", "draw"}

ScanLine == ScanTypes /\ Dropped /\ Undecided /\ Verdicts

LEMMA ScansTyped ==
    ASSUME ScanTypes
    PROVE  /\ Len(scans) \in Nat /\ Scans = DOMAIN scans /\ scans \in [Scans -> Scan]
           /\ \A s \in Scans : scans[s] \in Scan
BY SeqElements DEF ScanTypes, Scans

\* A frame that moves on, with the scanner as it was.
LEMMA FrameMoves ==
    ASSUME ScanLine, UNCHANGED scanVars, frame' \in Frames,
           \/ frame' = frame
           \/ /\ frame # "publish" /\ frame' # "publish"
              /\ alert # NoFile => frame' \in {"events", "hash", "draw"}
    PROVE  ScanLine'
<1>1. UNCHANGED <<scans, waiting, judged, alert>>
    BY DEF scanVars
<1>2. Scans' = Scans
    BY <1>1 DEF Scans
<1>3. ScanTypes' /\ Dropped' /\ Undecided'
    BY <1>1, <1>2 DEF ScanLine, ScanTypes, Dropped, Undecided
<1>4. Verdicts'
    BY <1>1 DEF ScanLine, Verdicts
<1>. QED BY <1>3, <1>4 DEF ScanLine

LEMMA Cancelled ==
    ASSUME ScanLine, waiting # 0
    PROVE  LET dropped == [scans EXCEPT ![waiting].cancelled = TRUE]
           IN  /\ dropped \in Seq(Scan) /\ Len(dropped) = Len(scans)
               /\ \A s \in Scans : dropped[s].state # "taken" \/ ~dropped[s].cancelled
<1>1. waiting \in Scans
    BY DEF ScanLine, ScanTypes
<1>2. Len(scans) \in Nat /\ scans \in [Scans -> Scan] /\ \A s \in Scans : scans[s] \in Scan
    BY ScansTyped DEF ScanLine
<1>. DEFINE o == [scans[waiting] EXCEPT !.cancelled = TRUE]
            dropped == [scans EXCEPT ![waiting].cancelled = TRUE]
<1>3. o \in Scan /\ o.state = scans[waiting].state
    BY <1>1, <1>2 DEF Scan
<1>4. dropped = [s \in Scans |-> IF s = waiting THEN o ELSE scans[s]]
    BY <1>2
<1>. HIDE DEF o, dropped
<1>5. dropped \in [Scans -> Scan]
    BY <1>2, <1>3, <1>4
<1>6. dropped \in Seq(Scan) /\ Len(dropped) = Len(scans)
    BY <1>2, <1>5 DEF Scans
<1>7. ASSUME NEW s \in Scans PROVE dropped[s].state # "taken" \/ ~dropped[s].cancelled
    <2>1. CASE s = waiting
        BY <1>1, <1>3, <1>4, <2>1 DEF ScanLine, Undecided
    <2>2. CASE s # waiting
        BY <1>4, <2>2 DEF ScanLine, Dropped
    <2>. QED BY <2>1, <2>2
<1>. QED BY <1>6, <1>7 DEF dropped

LEMMA ScanTaken ==
    ASSUME ScanLine, NEW state \in {"hashed", "failed"}, TakeResult(state)
    PROVE  /\ scans' \in Seq(Scan) /\ Len(scans') = Len(scans) /\ waiting' = 0
           /\ Dropped' /\ Undecided' /\ alert = NoFile /\ judged = NoFile
           /\ waiting \in Scans /\ scans[waiting].file \in Files
<1>1. waiting \in Scans /\ waiting # 0 /\ frame = "hash" /\ waiting' = 0
    BY DEF ScanLine, ScanTypes, TakeResult
<1>2. Len(scans) \in Nat /\ scans \in [Scans -> Scan] /\ \A s \in Scans : scans[s] \in Scan
    BY ScansTyped DEF ScanLine
<1>. DEFINE o == [scans[waiting] EXCEPT !.state = "taken"]
<1>3. o \in Scan /\ o.cancelled = scans[waiting].cancelled
    BY <1>1, <1>2 DEF Scan
<1>4. scans' = [s \in Scans |-> IF s = waiting THEN o ELSE scans[s]]
    BY <1>2 DEF TakeResult
<1>. HIDE DEF o
<1>5. scans' \in [Scans -> Scan]
    BY <1>2, <1>3, <1>4
<1>6. scans' \in Seq(Scan) /\ Len(scans') = Len(scans)
    BY <1>2, <1>5 DEF Scans
<1>7. Scans' = Scans
    BY <1>6 DEF Scans
<1>8. ASSUME NEW s \in Scans, scans'[s].cancelled PROVE s # waiting' /\ scans'[s].state # "taken"
    <2>1. s # 0
        BY <1>2 DEF Scans
    <2>2. s # waiting
        BY <1>1, <1>3, <1>4, <1>8 DEF ScanLine, Dropped
    <2>3. scans'[s] = scans[s]
        BY <1>4, <2>2
    <2>. QED BY <1>1, <1>8, <2>1, <2>3 DEF ScanLine, Dropped
<1>9. Dropped'
    BY <1>7, <1>8 DEF Dropped
<1>10. scans[waiting].file \in Files
    BY <1>1, <1>2 DEF Scan
<1>. QED BY <1>1, <1>6, <1>9, <1>10 DEF Undecided, ScanLine, Verdicts

\* What start_hash and cancel_hash make of the scans.
LEMMA ScanCancelled ==
    ASSUME ScanLine, NEW kept, kept = IF waiting = 0 THEN scans
                                     ELSE [scans EXCEPT ![waiting].cancelled = TRUE]
    PROVE  /\ kept \in Seq(Scan) /\ Len(kept) = Len(scans)
           /\ \A s \in Scans : kept[s].cancelled => kept[s].state # "taken"
<1>1. CASE waiting = 0
    BY <1>1 DEF ScanLine, ScanTypes, Dropped
<1>2. CASE waiting # 0
    BY <1>2, Cancelled
<1>. QED BY <1>1, <1>2

LEMMA CancelStep ==
    ASSUME ScanLine, CancelHash
    PROVE  /\ scans' \in Seq(Scan) /\ waiting' = 0 /\ Dropped' /\ Undecided'
<1>1. /\ scans' \in Seq(Scan) /\ Len(scans') = Len(scans)
      /\ \A s \in Scans : scans'[s].cancelled => scans'[s].state # "taken"
    BY ScanCancelled DEF CancelHash
<1>2. waiting' = 0
    BY DEF CancelHash
<1>3. Scans' = Scans /\ \A s \in Scans : s # 0
    BY <1>1, ScansTyped DEF Scans, ScanLine
<1>. QED BY <1>1, <1>2, <1>3 DEF Dropped, Undecided

LEMMA StartStep ==
    ASSUME ScanLine, NEW file \in Files, StartHash(file)
    PROVE  /\ scans' \in Seq(Scan) /\ waiting' \in Scans' /\ waiting' # 0
           /\ Dropped' /\ Undecided'
<1>. DEFINE kept == IF waiting = 0 THEN scans ELSE [scans EXCEPT ![waiting].cancelled = TRUE]
            o    == [file |-> file, state |-> "reading", cancelled |-> FALSE]
<1>1. /\ kept \in Seq(Scan) /\ Len(kept) = Len(scans)
      /\ \A s \in Scans : kept[s].cancelled => kept[s].state # "taken"
    BY ScanCancelled
<1>2. o \in Scan /\ ~o.cancelled /\ o.state # "taken"
    BY DEF Scan
<1>3. scans' = Append(kept, o) /\ waiting' = Len(scans) + 1
    BY DEF StartHash
<1>. HIDE DEF kept, o
<1>4. /\ scans' \in Seq(Scan) /\ Len(scans') = Len(scans) + 1
      /\ \A i \in 1..Len(scans) : scans'[i] = kept[i]
      /\ scans'[Len(scans) + 1] = o
    BY <1>1, <1>2, <1>3, AppendElements
<1>5. Len(scans) \in Nat
    BY ScansTyped DEF ScanLine
<1>6. /\ waiting' \in Scans' /\ waiting' # 0
      /\ \A s \in Scans' : (s \in Scans /\ s # Len(scans) + 1) \/ s = Len(scans) + 1
    BY <1>3, <1>4, <1>5 DEF Scans
<1>7. ASSUME NEW s \in Scans', scans'[s].cancelled PROVE s # waiting' /\ scans'[s].state # "taken"
    <2>1. s # Len(scans) + 1
        BY <1>2, <1>4, <1>7
    <2>2. s \in Scans /\ scans'[s] = kept[s]
        BY <1>4, <1>6, <2>1 DEF Scans
    <2>. QED BY <1>1, <1>3, <1>7, <2>1, <2>2
<1>8. Dropped'
    BY <1>7 DEF Dropped
<1>9. Undecided'
    BY <1>2, <1>3, <1>4 DEF Undecided
<1>. QED BY <1>4, <1>6, <1>8, <1>9

LEMMA HashStep ==
    ASSUME ScanLine, HashFile
    PROVE  ScanLine'
<1>1. /\ waiting # 0 /\ waiting \in Scans /\ scans[waiting].state = "reading"
      /\ UNCHANGED <<frame, waiting, judged, alert>>
    BY DEF ScanLine, ScanTypes, HashFile
<1>2. Len(scans) \in Nat /\ scans \in [Scans -> Scan] /\ \A s \in Scans : scans[s] \in Scan
    BY ScansTyped DEF ScanLine
<1>3. PICK state \in {"hashed", "failed"} : scans' = [scans EXCEPT ![waiting].state = state]
    BY DEF HashFile
<1>. DEFINE o == [scans[waiting] EXCEPT !.state = state]
<1>4. o \in Scan /\ o.cancelled = scans[waiting].cancelled /\ o.state # "taken"
    BY <1>1, <1>2 DEF Scan
<1>5. scans' = [s \in Scans |-> IF s = waiting THEN o ELSE scans[s]]
    BY <1>2, <1>3
<1>. HIDE DEF o
<1>6. scans' \in [Scans -> Scan]
    BY <1>2, <1>4, <1>5
<1>7. scans' \in Seq(Scan) /\ Scans' = Scans
    BY <1>2, <1>6 DEF Scans
<1>8. ~o.cancelled
    BY <1>1, <1>4 DEF ScanLine, Dropped
<1>9. Dropped'
    <2>1. ASSUME NEW s \in Scans, scans'[s].cancelled PROVE s # waiting /\ scans'[s].state # "taken"
        <3>1. s # waiting
            BY <1>5, <1>8, <2>1
        <3>2. scans'[s] = scans[s]
            BY <1>5, <3>1
        <3>. QED BY <2>1, <3>1, <3>2 DEF ScanLine, Dropped
    <2>. QED BY <1>1, <1>7, <2>1 DEF Dropped
<1>10. Undecided'
    BY <1>1, <1>4, <1>5 DEF Undecided
<1>11. ScanTypes' /\ Verdicts'
    BY <1>1, <1>7 DEF ScanLine, ScanTypes, Verdicts
<1>. QED BY <1>9, <1>10, <1>11 DEF ScanLine

LEMMA ScanStart == InterfaceInit => ScanLine
<1>. SUFFICES ASSUME InterfaceInit PROVE ScanLine
    OBVIOUS
<1>1. scans \in Seq(Scan) /\ Scans = {}
    BY DEF InterfaceInit, Scans
<1>2. ScanTypes
    BY <1>1 DEF InterfaceInit, ScanTypes, Frames
<1>. QED BY <1>1, <1>2 DEF InterfaceInit, ScanLine, Dropped, Undecided, Verdicts

LEMMA ScanStep == ScanLine /\ [InterfaceNext]_interfaceVars => ScanLine'
<1>. SUFFICES ASSUME ScanLine, [InterfaceNext]_interfaceVars PROVE ScanLine'
    OBVIOUS
<1>0. ScanTypes /\ frame \in Frames
    BY DEF ScanLine, ScanTypes
<1>1. CASE PollEvent \/ TakePublish \/ TakeReset \/ StoreRecord \/ StoreFails \/ ExpireRow
           \/ Maintenance
    <2>1. frame' = frame /\ UNCHANGED scanVars
        BY <1>1 DEF PollEvent, TakePublish, TakeReset, StoreRecord, StoreFails, ExpireRow,
                    Maintenance
    <2>. QED BY <1>0, <2>1, FrameMoves
<1>2. CASE EventsRead \/ NothingHashed
    <2>1. /\ UNCHANGED scanVars /\ frame # "publish" /\ frame' \in {"hash", "draw"}
        BY <1>2 DEF EventsRead, NothingHashed
    <2>. QED BY <2>1, FrameMoves DEF Frames
<1>3. CASE Header
    <2>1. UNCHANGED scanVars /\ frame # "publish" /\ frame' = "tab" /\ alert = NoFile
        BY <1>3 DEF Header
    <2>. QED BY <2>1, FrameMoves DEF Frames
<1>4. CASE CountRows \/ ReadPage \/ KeepPage \/ TurnPage \/ RemoveFlagged \/ ResetDialog
    <2>1. /\ UNCHANGED scanVars /\ frame \in {"tab", "page", "list", "dialog"}
          /\ frame' \in {"page", "list", "dialog", "events"}
        <3>1. CASE CountRows
            BY <3>1 DEF CountRows
        <3>2. CASE ReadPage
            BY <3>2 DEF ReadPage
        <3>3. CASE KeepPage
            BY <3>3 DEF KeepPage
        <3>4. CASE TurnPage
            BY <3>4 DEF TurnPage
        <3>5. CASE RemoveFlagged
            BY <3>5 DEF RemoveFlagged
        <3>6. CASE ResetDialog
            BY <3>6 DEF ResetDialog
        <3>. QED BY <1>4, <3>1, <3>2, <3>3, <3>4, <3>5, <3>6
    <2>2. alert = NoFile
        BY <2>1 DEF ScanLine, Verdicts
    <2>. QED BY <2>1, <2>2, FrameMoves DEF Frames
<1>5. CASE HashFailed
    <2>1. TakeResult("failed") /\ frame' = "draw" /\ UNCHANGED <<judged, alert>>
        BY <1>5 DEF HashFailed
    <2>2. /\ scans' \in Seq(Scan) /\ waiting' = 0 /\ Dropped' /\ Undecided'
          /\ alert = NoFile /\ judged = NoFile
        BY <2>1, ScanTaken
    <2>. QED BY <1>0, <2>1, <2>2 DEF ScanLine, ScanTypes, Verdicts, Frames
<1>6. CASE FileFlagged \/ FileUnflagged
    <2>1. /\ TakeResult("hashed")
          /\ \/ frame' = "draw" /\ alert' = scans[waiting].file /\ judged' = judged
             \/ frame' = "publish" /\ judged' = scans[waiting].file /\ alert' = alert
        BY <1>6 DEF FileFlagged, FileUnflagged
    <2>2. /\ scans' \in Seq(Scan) /\ waiting' = 0 /\ Dropped' /\ Undecided'
          /\ alert = NoFile /\ judged = NoFile /\ scans[waiting].file \in Files
        BY <2>1, ScanTaken
    <2>. QED BY <1>0, <2>1, <2>2 DEF ScanLine, ScanTypes, Verdicts, Frames
<1>7. CASE PublishFile
    <2>1. /\ frame = "publish" /\ judged' = NoFile /\ frame' = "draw"
          /\ UNCHANGED <<scans, waiting, alert>>
        BY <1>7 DEF PublishFile
    <2>. QED BY <2>1 DEF ScanLine, ScanTypes, Dropped, Undecided, Verdicts, Frames, Scans
<1>8. CASE AlertScreen
    <2>1. /\ frame = "draw" /\ frame' = "events" /\ (alert' = NoFile \/ alert' = alert)
          /\ UNCHANGED <<scans, waiting, judged>>
        BY <1>8 DEF AlertScreen
    <2>. QED BY <2>1 DEF ScanLine, ScanTypes, Dropped, Undecided, Verdicts, Frames, Scans
<1>9. ASSUME frame \in {"tab", "picker"}, frame' \in {"picker", "dialog"},
             scans' \in Seq(Scan), waiting' \in Scans' \cup {0}, Dropped', Undecided',
             UNCHANGED <<judged, alert>>
      PROVE  ScanLine'
    BY <1>9 DEF ScanLine, ScanTypes, Verdicts, Frames
<1>10. CASE ScannerTab
    <2>1. /\ frame = "tab" /\ frame' \in {"picker", "dialog"} /\ UNCHANGED <<judged, alert>>
          /\ CancelHash \/ UNCHANGED <<scans, waiting>>
        BY <1>10 DEF ScannerTab
    <2>2. CASE CancelHash
        BY <1>9, <2>1, <2>2, CancelStep
    <2>3. CASE UNCHANGED <<scans, waiting>>
        <3>1. scans' \in Seq(Scan) /\ waiting' \in Scans' \cup {0} /\ Dropped' /\ Undecided'
            BY <2>3 DEF ScanLine, ScanTypes, Dropped, Undecided, Scans
        <3>. QED BY <1>9, <2>1, <3>1
    <2>. QED BY <2>1, <2>2, <2>3
<1>11. CASE PickFile
    <2>1. /\ frame = "picker" /\ frame' = "dialog" /\ UNCHANGED <<judged, alert>>
          /\ (\E file \in Files : StartHash(file)) \/ UNCHANGED <<scans, waiting>>
        BY <1>11 DEF PickFile
    <2>2. ASSUME NEW file \in Files, StartHash(file) PROVE ScanLine'
        BY <1>9, <2>1, <2>2, StartStep
    <2>3. CASE UNCHANGED <<scans, waiting>>
        <3>1. scans' \in Seq(Scan) /\ waiting' \in Scans' \cup {0} /\ Dropped' /\ Undecided'
            BY <2>3 DEF ScanLine, ScanTypes, Dropped, Undecided, Scans
        <3>. QED BY <1>9, <2>1, <3>1
    <2>. QED BY <2>1, <2>2, <2>3
<1>12. CASE HashFile
    BY <1>12, HashStep
<1>13. CASE UNCHANGED interfaceVars
    <2>1. frame' = frame /\ UNCHANGED scanVars
        BY <1>13 DEF interfaceVars
    <2>. QED BY <1>0, <2>1, FrameMoves
<1>. QED BY <1>1, <1>2, <1>3, <1>4, <1>5, <1>6, <1>7, <1>8, <1>10, <1>11, <1>12, <1>13
        DEF InterfaceNext, Frame

-----------------------------------------------------------------------------
(* The page of flagged files.                                                *)

ManageTypes ==
    /\ rows \in Seq(Files)
    /\ manage \in [page : Nat, total : Nat, shown : Seq(Files), dirty : BOOLEAN]
    /\ Len(manage.shown) <= PageSize

\* What was removed is in no row, nor on a page that is not to be read again;
\* and a page is drawn only when it is not.
NoneGone ==
    /\ ToSet(rows) \cap gone = {}
    /\ ~manage.dirty => ToSet(manage.shown) \cap gone = {}
    /\ frame = "list" => ~manage.dirty

\* A page is read where the count found rows.
OnPage ==
    frame = "page" => manage.page = 0 \/ manage.page * PageSize < manage.total

PageLine == ManageTypes /\ NoneGone /\ OnPage

LEMMA LastPageIsPage ==
    ASSUME NEW total \in Nat
    PROVE  /\ LastPage(total) \in Nat
           /\ \A page \in Nat : page <= LastPage(total) => page = 0 \/ page * PageSize < total
<1>0. PageSize \in Nat /\ PageSize # 0
    BY InterfaceAssumption
<1>1. CASE total = 0
    BY <1>1 DEF LastPage
<1>2. CASE total # 0
    <2>. DEFINE n == total - 1
                q == n \div PageSize
    <2>1. n \in Nat /\ LastPage(total) = q
        BY <1>2 DEF LastPage
    <2>2. n \in Nat /\ total = n + 1
        BY <1>2
    <2>. HIDE DEF n
    <2>3. q \in Nat /\ q * PageSize <= n
        BY <1>0, <2>1
    <2>. HIDE DEF q
    <2>4. ASSUME NEW page \in Nat, page <= q PROVE page * PageSize < total
        <3>1. page * PageSize <= q * PageSize
            BY <1>0, <2>3, <2>4
        <3>2. page * PageSize \in Nat /\ q * PageSize \in Nat
            BY <1>0, <2>3
        <3>. QED BY <2>2, <2>3, <3>1, <3>2
    <2>. QED BY <2>1, <2>3, <2>4
<1>. QED BY <1>1, <1>2

\* Where the frame is, when neither rows nor page change.
LEMMA PageMoves ==
    ASSUME PageLine, UNCHANGED <<manage, rows, gone>>,
           frame' = frame \/ frame' \notin {"list", "page"} \/ (frame' = "list" /\ ~manage.dirty)
    PROVE  PageLine'
BY DEF PageLine, ManageTypes, NoneGone, OnPage

LEMMA RowsMove ==
    ASSUME PageLine, UNCHANGED <<frame, manage>>, rows' \in Seq(Files), gone' \subseteq gone,
           ToSet(rows') \cap gone' = {}
    PROVE  PageLine'
BY DEF PageLine, ManageTypes, NoneGone, OnPage

LEMMA ReadStep ==
    ASSUME PageLine, ReadPage
    PROVE  /\ PageLine'
           /\ manage'.shown = <<>> => rows = <<>> \/ Len(rows) < manage.total \/ unread'
<1>. DEFINE at == manage.page * PageSize
            onPage == {i \in DOMAIN rows : at < i /\ i <= (manage.page + 1) * PageSize}
<1>1. PICK readable \in SUBSET onPage :
          /\ manage' = [manage EXCEPT !.shown = RowsAt(readable), !.dirty = FALSE]
          /\ unread' = (readable # onPage)
    BY DEF ReadPage
<1>2. /\ manage.page \in Nat /\ manage.total \in Nat /\ rows \in Seq(Files)
      /\ Len(rows) \in Nat /\ DOMAIN rows = 1..Len(rows)
      /\ PageSize \in Nat /\ PageSize # 0
    BY InterfaceAssumption, SeqElements DEF PageLine, ManageTypes
<1>3. frame' = "list" /\ UNCHANGED <<rows, gone>>
    BY DEF ReadPage
<1>4. at = 0 \/ at < manage.total
    <2>1. manage.page = 0 \/ at < manage.total
        BY DEF PageLine, OnPage, ReadPage
    <2>2. manage.page = 0 => at = 0
        BY <1>2
    <2>. QED BY <2>1, <2>2
<1>5. at \in Nat /\ (manage.page + 1) * PageSize = at + PageSize
    BY <1>2
<1>6. onPage = {i \in 1..Len(rows) : at < i /\ i <= at + PageSize}
    BY <1>2, <1>5
<1>. HIDE DEF at, onPage
<1>7. readable \in SUBSET DOMAIN rows /\ readable \in SUBSET ((at + 1)..(at + PageSize))
    BY <1>2, <1>5, <1>6
<1>. DEFINE shown == RowsAt(readable)
<1>8. /\ shown \in Seq(Files) /\ ToSet(shown) \subseteq ToSet(rows)
      /\ Len(shown) = Cardinality(readable) /\ Cardinality(readable) \in Nat
      /\ IsFiniteSet(readable)
    <2>1. {rows[i] : i \in readable} \subseteq ToSet(rows)
        BY <1>7 DEF ToSet
    <2>. QED BY <1>2, <1>7, <2>1, SomeRows
<1>. HIDE DEF shown
<1>9. Len(shown) <= PageSize
    <2>. DEFINE span == (at + 1)..(at + PageSize)
    <2>1. IsFiniteSet(span) /\ Cardinality(span) = PageSize
        <3>1. at + 1 \in Int /\ at + PageSize \in Int /\ ~(at + 1 > at + PageSize)
              /\ (at + PageSize) - (at + 1) + 1 = PageSize
            BY <1>2, <1>5
        <3>. QED BY <3>1, FS_Interval
    <2>2. Cardinality(readable) <= Cardinality(span)
        <3>. HIDE DEF span
        <3>1. readable \in SUBSET span
            BY <1>7 DEF span
        <3>. QED BY <2>1, <3>1, FS_Subset
    <2>. QED BY <1>8, <2>1, <2>2
<1>10. ASSUME shown = <<>>, ~unread' PROVE rows = <<>> \/ Len(rows) < manage.total
    <2>1. onPage = {}
        <3>1. Cardinality(readable) = 0
            BY <1>8, <1>10
        <3>. QED BY <1>1, <1>8, <1>10, <3>1, FS_EmptySet
    <2>2. Len(rows) <= at
        <3>1. at < Len(rows) => at + 1 \in onPage
            BY <1>2, <1>5, <1>6
        <3>. QED BY <1>2, <1>5, <2>1, <3>1
    <2>3. CASE at = 0
        <3>1. Len(rows) = 0
            BY <1>2, <2>2, <2>3
        <3>. QED BY <1>2, <3>1, EmptySeq
    <2>4. CASE at < manage.total
        BY <1>2, <1>5, <2>2, <2>4
    <2>. QED BY <1>4, <2>3, <2>4
<1>11. /\ manage' \in [page : Nat, total : Nat, shown : Seq(Files), dirty : BOOLEAN]
       /\ manage'.shown = shown /\ ~manage'.dirty
    <2>. DEFINE m1 == [manage EXCEPT !.shown = shown]
                m2 == [m1 EXCEPT !.dirty = FALSE]
    <2>1. m1 \in [page : Nat, total : Nat, shown : Seq(Files), dirty : BOOLEAN] /\ m1.shown = shown
        BY <1>8 DEF PageLine, ManageTypes
    <2>. HIDE DEF m1
    <2>2. /\ m2 \in [page : Nat, total : Nat, shown : Seq(Files), dirty : BOOLEAN]
          /\ m2.shown = shown /\ ~m2.dirty
        BY <2>1
    <2>. HIDE DEF m2
    <2>3. manage' = m2
        BY <1>1 DEF m1, m2, shown
    <2>. QED BY <2>2, <2>3
<1>12. ManageTypes'
    BY <1>2, <1>3, <1>9, <1>11 DEF ManageTypes
<1>13. NoneGone'
    BY <1>3, <1>8, <1>11 DEF PageLine, NoneGone
<1>. QED BY <1>3, <1>10, <1>11, <1>12, <1>13 DEF PageLine, OnPage

LEMMA CountStep ==
    ASSUME PageLine, CountRows
    PROVE  PageLine'
<1>0. PICK total \in {0, Len(rows)} :
          manage' = [manage EXCEPT !.total = total,
                                   !.page = IF manage.page > LastPage(total)
                                            THEN LastPage(total) ELSE manage.page]
    BY DEF CountRows
<1>. DEFINE page == IF manage.page > LastPage(total) THEN LastPage(total) ELSE manage.page
<1>1. total \in Nat /\ manage.page \in Nat /\ manage.dirty
    BY SeqElements DEF PageLine, ManageTypes, CountRows
<1>2. LastPage(total) \in Nat
    BY <1>1, LastPageIsPage
<1>3. page \in Nat /\ page <= LastPage(total)
    BY <1>1, <1>2
<1>4. /\ frame' = "page" /\ UNCHANGED <<rows, gone>>
      /\ manage' = [[manage EXCEPT !.total = total] EXCEPT !.page = page]
    BY <1>0 DEF CountRows
<1>. HIDE DEF page
<1>5. page = 0 \/ page * PageSize < total
    BY <1>1, <1>3, LastPageIsPage
<1>6. /\ manage' \in [page : Nat, total : Nat, shown : Seq(Files), dirty : BOOLEAN]
      /\ manage'.page = page /\ manage'.total = total /\ manage'.shown = manage.shown
      /\ manage'.dirty = manage.dirty
    <2>. DEFINE m1 == [manage EXCEPT !.total = total]
                m2 == [m1 EXCEPT !.page = page]
    <2>1. /\ m1 \in [page : Nat, total : Nat, shown : Seq(Files), dirty : BOOLEAN]
          /\ m1.total = total /\ m1.shown = manage.shown /\ m1.dirty = manage.dirty
        BY <1>1 DEF PageLine, ManageTypes
    <2>. HIDE DEF m1
    <2>2. /\ m2 \in [page : Nat, total : Nat, shown : Seq(Files), dirty : BOOLEAN]
          /\ m2.total = total /\ m2.shown = manage.shown /\ m2.dirty = manage.dirty
          /\ m2.page = page
        BY <1>3, <2>1
    <2>. HIDE DEF m2
    <2>3. manage' = m2
        BY <1>4 DEF m1, m2
    <2>. QED BY <2>2, <2>3
<1>7. ManageTypes'
    BY <1>4, <1>6 DEF PageLine, ManageTypes
<1>8. NoneGone'
    BY <1>1, <1>4, <1>6 DEF PageLine, NoneGone
<1>9. OnPage'
    BY <1>5, <1>6 DEF OnPage
<1>. QED BY <1>7, <1>8, <1>9 DEF PageLine

\* The user turns the page or has it read again, and removes a file.
LEMMA ListStep ==
    ASSUME PageLine, TurnPage \/ RemoveFlagged
    PROVE  PageLine'
<1>0. manage.page \in Nat /\ ToSet(rows) \cap gone = {} /\ frame = "list" /\ frame' = "dialog"
    BY DEF PageLine, ManageTypes, NoneGone, TurnPage, RemoveFlagged
<1>1. CASE TurnPage
    <2>1. UNCHANGED <<rows, gone>>
        BY <1>1 DEF TurnPage
    <2>2. CASE UNCHANGED manage
        BY <1>0, <2>1, <2>2, PageMoves
    <2>3. ASSUME NEW n \in Nat, manage' = [[manage EXCEPT !.page = n] EXCEPT !.dirty = TRUE]
          PROVE  PageLine'
        <3>. DEFINE m1 == [manage EXCEPT !.page = n]
        <3>1. /\ m1 \in [page : Nat, total : Nat, shown : Seq(Files), dirty : BOOLEAN]
              /\ m1.shown = manage.shown
            BY DEF PageLine, ManageTypes
        <3>2. manage' = [m1 EXCEPT !.dirty = TRUE]
            BY <2>3
        <3>. HIDE DEF m1
        <3>3. /\ manage' \in [page : Nat, total : Nat, shown : Seq(Files), dirty : BOOLEAN]
              /\ manage'.shown = manage.shown /\ manage'.dirty
            BY <3>1, <3>2
        <3>. QED BY <1>0, <2>1, <3>3 DEF PageLine, ManageTypes, NoneGone, OnPage
    <2>4. ASSUME manage' = [manage EXCEPT !.dirty = TRUE] PROVE PageLine'
        <3>1. /\ manage' \in [page : Nat, total : Nat, shown : Seq(Files), dirty : BOOLEAN]
              /\ manage'.shown = manage.shown /\ manage'.dirty
            BY <2>4 DEF PageLine, ManageTypes
        <3>. QED BY <1>0, <2>1, <3>1 DEF PageLine, ManageTypes, NoneGone, OnPage
    <2>5. CASE /\ manage.page > 0
               /\ manage' = [manage EXCEPT !.page = @ - 1, !.dirty = TRUE]
        <3>1. manage.page - 1 \in Nat
            BY <1>0, <2>5
        <3>. QED BY <2>3, <2>5, <3>1
    <2>6. CASE manage' = [manage EXCEPT !.page = @ + 1, !.dirty = TRUE]
        <3>1. manage.page + 1 \in Nat
            BY <1>0
        <3>. QED BY <2>3, <2>6, <3>1
    <2>. QED BY <1>1, <2>2, <2>4, <2>5, <2>6 DEF TurnPage
<1>3. CASE RemoveFlagged /\ UNCHANGED <<rows, manage, gone>>
    BY <1>0, <1>3, PageMoves
<1>2. CASE RemoveFlagged /\ ~UNCHANGED <<rows, manage, gone>>
    <2>1. PICK file \in ToSet(manage.shown) :
              /\ rows' = RowsWithout(file)
              /\ manage' = [manage EXCEPT !.dirty = @ \/ file \in ToSet(rows)]
              /\ gone' = gone \cup ({file} \cap ToSet(rows))
        BY <1>2 DEF RemoveFlagged
    <2>2. rows' \in Seq(Files) /\ ToSet(rows') \subseteq ToSet(rows) \ {file}
        BY <2>1, OthersStay DEF PageLine, ManageTypes
    <2>3. ToSet(rows') \cap gone' = {}
        BY <1>0, <2>1, <2>2
    <2>4. /\ manage' \in [page : Nat, total : Nat, shown : Seq(Files), dirty : BOOLEAN]
          /\ manage'.shown = manage.shown
          /\ manage'.dirty <=> (manage.dirty \/ file \in ToSet(rows))
        BY <2>1 DEF PageLine, ManageTypes
    <2>5. ~manage'.dirty => ToSet(manage'.shown) \cap gone' = {}
        BY <2>1, <2>4 DEF PageLine, NoneGone
    <2>. QED BY <1>0, <2>2, <2>3, <2>4, <2>5 DEF PageLine, ManageTypes, NoneGone, OnPage
<1>. QED BY <1>1, <1>2, <1>3

LEMMA PageStart == InterfaceInit => PageLine
<1>. SUFFICES ASSUME InterfaceInit PROVE PageLine
    OBVIOUS
<1>1. /\ rows \in Seq(Files) /\ rows = <<>> /\ gone = {} /\ frame = "events"
      /\ manage.dirty
    BY DEF InterfaceInit
<1>2. manage \in [page : Nat, total : Nat, shown : Seq(Files), dirty : BOOLEAN]
    <2>1. <<>> \in Seq(Files)
        OBVIOUS
    <2>. QED BY <2>1 DEF InterfaceInit
<1>3. Len(manage.shown) = 0 /\ PageSize \in Nat
    BY InterfaceAssumption DEF InterfaceInit
<1>. QED BY <1>1, <1>2, <1>3 DEF PageLine, ManageTypes, NoneGone, OnPage

LEMMA PageStep == PageLine /\ [InterfaceNext]_interfaceVars => PageLine'
<1>. SUFFICES ASSUME PageLine, [InterfaceNext]_interfaceVars PROVE PageLine'
    OBVIOUS
<1>1. CASE PollEvent \/ TakePublish \/ TakeReset \/ StoreFails \/ Maintenance \/ HashFile
    <2>1. frame' = frame /\ UNCHANGED <<manage, rows, gone>>
        BY <1>1 DEF PollEvent, TakePublish, TakeReset, StoreFails, Maintenance, HashFile,
                    manageVars
    <2>. QED BY <2>1, PageMoves
<1>2. CASE EventsRead \/ NothingHashed \/ HashFailed \/ FileFlagged \/ FileUnflagged
           \/ PublishFile
    <2>1. frame' \in {"hash", "draw", "publish"} /\ UNCHANGED <<manage, rows, gone>>
        BY <1>2 DEF EventsRead, NothingHashed, HashFailed, FileFlagged, FileUnflagged,
                    PublishFile, TakeResult, manageVars
    <2>. QED BY <2>1, PageMoves
<1>3. CASE AlertScreen \/ Header \/ ScannerTab \/ PickFile \/ ResetDialog
    <2>1. frame' \in {"events", "tab", "picker", "dialog"} /\ UNCHANGED <<manage, rows, gone>>
        <3>1. CASE AlertScreen
            BY <3>1 DEF AlertScreen
        <3>2. CASE Header
            BY <3>2 DEF Header
        <3>3. CASE ScannerTab
            BY <3>3 DEF ScannerTab
        <3>4. CASE PickFile
            BY <3>4 DEF PickFile, manageVars
        <3>5. CASE ResetDialog
            BY <3>5 DEF ResetDialog
        <3>. QED BY <1>3, <3>1, <3>2, <3>3, <3>4, <3>5
    <2>. QED BY <2>1, PageMoves
<1>4. CASE KeepPage
    <2>1. frame' = "list" /\ ~manage.dirty /\ UNCHANGED <<manage, rows, gone>>
        BY <1>4 DEF KeepPage, manageVars
    <2>. QED BY <2>1, PageMoves
<1>5. CASE CountRows
    BY <1>5, CountStep
<1>6. CASE ReadPage
    BY <1>6, ReadStep
<1>7. CASE TurnPage \/ RemoveFlagged
    BY <1>7, ListStep
<1>8. CASE StoreRecord
    <2>1. PICK file \in Files, i \in 1 .. Len(rows) + 1 :
              rows' = InsertAt(rows, i, file) /\ gone' = gone \ {file}
        BY <1>8 DEF StoreRecord
    <2>2. frame' = frame /\ manage' = manage
        BY <1>8 DEF StoreRecord, manageVars
    <2>3. rows \in Seq(Files) /\ ToSet(rows) \cap gone = {}
        BY DEF PageLine, ManageTypes, NoneGone
    <2>4. rows' \in Seq(Files) /\ ToSet(rows') \subseteq ToSet(rows) \cup {file}
        BY <2>1, <2>3, Inserted
    <2>5. gone' \subseteq gone /\ ToSet(rows') \cap gone' = {}
        BY <2>1, <2>3, <2>4
    <2>. QED BY <2>2, <2>4, <2>5, RowsMove
<1>9. CASE ExpireRow
    <2>1. PICK i \in 1 .. Len(rows) : rows' = RemoveAt(rows, i)
        BY <1>9 DEF ExpireRow
    <2>2. frame' = frame /\ manage' = manage /\ gone' = gone
        BY <1>9 DEF ExpireRow, manageVars
    <2>3. rows \in Seq(Files) /\ ToSet(rows) \cap gone = {}
        BY DEF PageLine, ManageTypes, NoneGone
    <2>4. rows' \in Seq(Files) /\ ToSet(rows') \subseteq ToSet(rows)
        BY <2>1, <2>3, Removed
    <2>. QED BY <2>2, <2>3, <2>4, RowsMove
<1>10. CASE UNCHANGED interfaceVars
    <2>1. frame' = frame /\ UNCHANGED <<manage, rows, gone>>
        BY <1>10 DEF interfaceVars, manageVars
    <2>. QED BY <2>1, PageMoves
<1>. QED BY <1>1, <1>2, <1>3, <1>4, <1>5, <1>6, <1>7, <1>8, <1>9, <1>10 DEF InterfaceNext, Frame

-----------------------------------------------------------------------------
(* The log and the safety mode.                                              *)

Words == {"on", "off", "line"}

\* The last word of a channel, and of the log when it has none.
Word(channel, log) ==
    LET words == {k \in DOMAIN channel : channel[k] # "line"}
    IN  IF words = {} THEN log ELSE channel[Max(words)] = "on"

LEMMA WordOfLine ==
    ASSUME NEW c \in Seq(Words), NEW t
    PROVE  Word(Append(c, "line"), t) = Word(c, t)
<1>. DEFINE d == Append(c, "line")
            W == {k \in DOMAIN c : c[k] # "line"}
            V == {k \in DOMAIN d : d[k] # "line"}
<1>1. "line" \in Words
    BY DEF Words
<1>2. Len(c) \in Nat /\ DOMAIN c = 1..Len(c)
    BY SeqElements
<1>3. /\ DOMAIN d = 1..(Len(c) + 1) /\ d[Len(c) + 1] = "line"
      /\ \A i \in 1..Len(c) : d[i] = c[i]
    BY <1>1, AppendElements
<1>. HIDE DEF d
<1>4. ASSUME NEW k \in DOMAIN d, d[k] # "line" PROVE k \in DOMAIN c /\ d[k] = c[k]
    <2>1. k # Len(c) + 1
        BY <1>3, <1>4
    <2>2. k \in 1..Len(c)
        BY <1>2, <1>3, <2>1
    <2>. QED BY <1>2, <1>3, <2>2
<1>5. \A k \in 1..Len(c) : k \in 1..(Len(c) + 1)
    BY <1>2
<1>6. V = W
    BY <1>2, <1>3, <1>4, <1>5
<1>7. W # {} => Max(W) \in W /\ d[Max(W)] = c[Max(W)]
    <2>. SUFFICES ASSUME W # {} PROVE Max(W) \in W /\ d[Max(W)] = c[Max(W)]
        OBVIOUS
    <2>1. W \subseteq 1..Len(c)
        BY <1>2
    <2>. HIDE DEF W
    <2>2. Max(W) \in W
        BY <1>2, <2>1, Latest
    <2>. QED BY <1>3, <2>1, <2>2
<1>8. Word(c, t) = IF W = {} THEN t ELSE c[Max(W)] = "on"
    BY DEF Word
<1>9. Word(d, t) = IF V = {} THEN t ELSE d[Max(V)] = "on"
    BY DEF Word
<1>. HIDE DEF V, W
<1>10. CASE W = {}
    <2>1. Word(c, t) = t /\ Word(d, t) = t
        BY <1>6, <1>8, <1>9, <1>10, Zenon
    <2>. QED BY <2>1, Zenon DEF d
<1>11. CASE W # {}
    <2>1. Word(c, t) = (c[Max(W)] = "on") /\ Word(d, t) = (d[Max(W)] = "on")
        BY <1>6, <1>8, <1>9, <1>11, Zenon
    <2>2. d[Max(W)] = c[Max(W)]
        BY <1>7, <1>11
    <2>. QED BY <2>1, <2>2, Zenon DEF d
<1>. QED BY <1>10, <1>11

LEMMA WordOfMode ==
    ASSUME NEW c \in Seq(Words), NEW t, NEW e \in {"on", "off"}
    PROVE  Word(Append(c, e), t) = (e = "on")
<1>. DEFINE d == Append(c, e)
            V == {k \in DOMAIN d : d[k] # "line"}
<1>1. e \in Words /\ e # "line"
    BY DEF Words
<1>2. Len(c) \in Nat /\ DOMAIN c = 1..Len(c)
    BY SeqElements
<1>3. DOMAIN d = 1..(Len(c) + 1) /\ d[Len(c) + 1] = e
    BY <1>1, AppendElements
<1>. HIDE DEF d
<1>4. Len(c) + 1 \in V /\ V \subseteq 1..(Len(c) + 1) /\ Len(c) + 1 \in Nat
    BY <1>1, <1>2, <1>3
<1>5. Word(d, t) = IF V = {} THEN t ELSE d[Max(V)] = "on"
    BY DEF Word
<1>. HIDE DEF V
<1>6. Max(V) \in V /\ Len(c) + 1 <= Max(V)
    BY <1>4, Latest
<1>7. Max(V) = Len(c) + 1
    <2>. DEFINE m == Max(V)
    <2>1. m \in 1..(Len(c) + 1) /\ Len(c) + 1 <= m
        BY <1>4, <1>6
    <2>. HIDE DEF m
    <2>2. m = Len(c) + 1
        BY <1>2, <2>1
    <2>. QED BY <2>2 DEF m
<1>. QED BY <1>3, <1>4, <1>5, <1>7 DEF d

LEMMA WordOfTail ==
    ASSUME NEW c \in Seq(Words), c # <<>>, NEW t
    PROVE  Word(Tail(c), IF Head(c) = "line" THEN t ELSE Head(c) = "on") = Word(c, t)
<1>. DEFINE d == Tail(c)
            u == IF Head(c) = "line" THEN t ELSE Head(c) = "on"
            W == {k \in DOMAIN c : c[k] # "line"}
            V == {k \in DOMAIN d : d[k] # "line"}
<1>1. Len(c) \in Nat /\ DOMAIN c = 1..Len(c) /\ Len(c) # 0 /\ Head(c) = c[1]
    BY SeqElements, TailElements
<1>2. DOMAIN d = 1..(Len(c) - 1) /\ \A i \in 1..(Len(c) - 1) : d[i] = c[i + 1]
    BY TailElements
<1>3. Word(c, t) = IF W = {} THEN t ELSE c[Max(W)] = "on"
    BY DEF Word
<1>4. Word(d, u) = IF V = {} THEN u ELSE d[Max(V)] = "on"
    BY DEF Word
<1>. HIDE DEF d
<1>5. W \subseteq 1..Len(c) /\ V \subseteq 1..(Len(c) - 1) /\ Len(c) - 1 \in Nat
    BY <1>1, <1>2
<1>6. ASSUME NEW k \in V PROVE k + 1 \in W
    <2>1. k \in 1..(Len(c) - 1) /\ d[k] # "line"
        BY <1>2
    <2>2. k + 1 \in DOMAIN c /\ c[k + 1] = d[k]
        BY <1>1, <1>2, <2>1
    <2>. QED BY <2>1, <2>2
<1>7. ASSUME NEW k \in W, k # 1 PROVE k - 1 \in V
    <2>1. k \in 1..Len(c) /\ c[k] # "line"
        BY <1>1
    <2>2. k - 1 \in 1..(Len(c) - 1) /\ (k - 1) + 1 = k
        BY <1>1, <1>7, <2>1
    <2>3. d[k - 1] = c[k] /\ k - 1 \in DOMAIN d
        BY <1>2, <2>2
    <2>. QED BY <2>1, <2>3
<1>8. 1 \in W <=> c[1] # "line"
    BY <1>1
<1>. HIDE DEF V, W
<1>9. CASE V # {}
    <2>. DEFINE m == Max(V)
                n == Max(W)
    <2>1. m \in V /\ \A k \in V : k <= m
        BY <1>5, <1>9, Latest
    <2>2. W # {}
        BY <1>6, <2>1
    <2>3. n \in W /\ \A k \in W : k <= n
        BY <1>1, <1>5, <2>2, Latest
    <2>. HIDE DEF m, n
    <2>4. m \in 1..(Len(c) - 1) /\ n \in 1..Len(c)
        BY <1>5, <2>1, <2>3
    <2>5. m + 1 <= n
        BY <1>6, <2>1, <2>3
    <2>6. n # 1
        BY <2>4, <2>5
    <2>7. n - 1 <= m
        BY <1>7, <2>1, <2>3, <2>6
    <2>8. n = m + 1
        BY <1>1, <2>4, <2>5, <2>7
    <2>9. d[m] = c[n]
        BY <1>2, <2>4, <2>8
    <2>10. Word(c, t) = (c[n] = "on") /\ Word(d, u) = (d[m] = "on")
        BY <1>3, <1>4, <1>9, <2>2, Zenon DEF m, n
    <2>. QED BY <2>9, <2>10, Zenon DEF d
<1>10. CASE V = {}
    <2>1. CASE W = {}
        <3>1. Head(c) = "line"
            BY <1>1, <1>8, <2>1
        <3>2. Word(c, t) = t /\ Word(d, u) = u
            BY <1>3, <1>4, <1>10, <2>1, Zenon
        <3>. QED BY <3>1, <3>2, Zenon DEF d
    <2>2. CASE W # {}
        <3>. DEFINE n == Max(W)
        <3>1. n \in W
            BY <1>1, <1>5, <2>2, Latest
        <3>. HIDE DEF n
        <3>2. n = 1
            BY <1>7, <1>10, <3>1
        <3>3. c[n] # "line" /\ Head(c) = c[n]
            BY <1>1, <1>8, <3>1, <3>2
        <3>4. Word(c, t) = (c[n] = "on") /\ Word(d, u) = (Head(c) = "on")
            BY <1>3, <1>4, <1>10, <2>2, <3>3, Zenon DEF n
        <3>. QED BY <3>3, <3>4, Zenon DEF d
    <2>. QED BY <2>1, <2>2
<1>. QED BY <1>9, <1>10 DEF d

LogTypes == events \in Seq(Words) /\ Len(events) <= EventCap /\ safety \in BOOLEAN

LogLine == LogTypes /\ ToldInStep

LEMMA ToldTyped ==
    ASSUME NEW c \in Seq(Words), Len(c) <= EventCap, NEW e \in Words
    PROVE  Told(c, e) \in Seq(Words) /\ Len(Told(c, e)) <= EventCap
<1>1. Len(c) \in Nat /\ EventCap \in Nat
    BY SeqElements, InterfaceAssumption
<1>2. Append(c, e) \in Seq(Words) /\ Len(Append(c, e)) = Len(c) + 1
    BY AppendElements
<1>3. CASE Len(c) < EventCap
    BY <1>1, <1>2, <1>3 DEF Told
<1>4. CASE ~(Len(c) < EventCap)
    BY <1>4 DEF Told
<1>. QED BY <1>3, <1>4

LEMMA ToldLine ==
    ASSUME NEW c \in Seq(Words), NEW t
    PROVE  Word(Told(c, "line"), t) = Word(c, t)
BY WordOfLine DEF Told

LEMMA ToldMode ==
    ASSUME NEW c \in Seq(Words), NEW t, Len(c) < EventCap, NEW e \in {"on", "off"}
    PROVE  Word(Told(c, e), t) = (e = "on")
BY WordOfMode DEF Told

LEMMA LastWordIs == LastWord = Word(events, told)
BY DEF LastWord, Word

LEMMA LogStart == InterfaceInit => LogLine
<1>. SUFFICES ASSUME InterfaceInit PROVE LogLine
    OBVIOUS
<1>1. events \in Seq(Words) /\ Len(events) = 0 /\ EventCap \in Nat /\ safety \in BOOLEAN
      /\ untold = safety /\ told = FALSE /\ DOMAIN events = {}
    BY InterfaceAssumption DEF InterfaceInit
<1>2. LogTypes
    BY <1>1 DEF LogTypes
<1>3. LastWord = FALSE
    BY <1>1 DEF LastWord
<1>4. ToldInStep
    BY <1>1, <1>3 DEF ToldInStep
<1>. QED BY <1>2, <1>4 DEF LogLine

LEMMA LogStep == LogLine /\ [InterfaceNext]_interfaceVars => LogLine'
<1>. SUFFICES ASSUME LogLine, [InterfaceNext]_interfaceVars PROVE LogLine'
    OBVIOUS
<1>0. /\ events \in Seq(Words) /\ Len(events) <= EventCap /\ safety \in BOOLEAN
      /\ "line" \in Words /\ "on" \in Words /\ "off" \in Words
      /\ ~untold => Word(events, told) = safety
      /\ Len(events) \in Nat /\ EventCap \in Nat
    BY LastWordIs, SeqElements, InterfaceAssumption DEF LogLine, LogTypes, ToldInStep, Words
<1>1. ASSUME events' \in Seq(Words), Len(events') <= EventCap, safety' \in BOOLEAN,
             ~untold' => Word(events', told') = safety'
      PROVE  LogLine'
    BY <1>1, LastWordIs DEF LogLine, LogTypes, ToldInStep, LastWord, Word
<1>2. ASSUME UNCHANGED <<told, safety, untold>>,
             events' = events \/ events' = Told(events, "line")
      PROVE  LogLine'
    <2>1. events' \in Seq(Words) /\ Len(events') <= EventCap
        BY <1>0, <1>2, ToldTyped
    <2>2. Word(events', told') = Word(events, told)
        BY <1>0, <1>2, ToldLine
    <2>. QED BY <1>0, <1>1, <1>2, <2>1, <2>2
<1>3. CASE EventsRead \/ NothingHashed \/ HashFailed \/ FileFlagged \/ FileUnflagged
           \/ PublishFile \/ HashFile \/ ExpireRow
    <2>1. UNCHANGED <<told, safety, untold, events>>
        BY <1>3 DEF EventsRead, NothingHashed, HashFailed, FileFlagged, FileUnflagged,
                    PublishFile, HashFile, ExpireRow, TakeResult, actorVars
    <2>. QED BY <1>2, <2>1
<1>4. CASE AlertScreen \/ Header \/ ScannerTab \/ PickFile \/ ResetDialog
    <2>1. UNCHANGED <<told, safety, untold, events>>
        BY <1>4 DEF AlertScreen, Header, ScannerTab, PickFile, ResetDialog, actorVars
    <2>. QED BY <1>2, <2>1
<1>5. CASE CountRows \/ ReadPage \/ KeepPage \/ TurnPage \/ RemoveFlagged
    <2>1. UNCHANGED <<told, safety, untold, events>>
        BY <1>5 DEF CountRows, ReadPage, KeepPage, TurnPage, RemoveFlagged, actorVars
    <2>. QED BY <1>2, <2>1
<1>6. CASE TakePublish \/ StoreRecord
    <2>1. UNCHANGED <<told, safety, untold>>
        BY <1>6 DEF TakePublish, StoreRecord, actorVars
    <2>2. events' = events \/ events' = Told(events, "line")
        BY <1>6 DEF TakePublish, StoreRecord
    <2>. QED BY <1>2, <2>1, <2>2
<1>7. CASE PollEvent
    <2>1. /\ events # <<>> /\ events' = Tail(events) /\ UNCHANGED <<safety, untold>>
          /\ told' = IF Head(events) = "line" THEN told ELSE Head(events) = "on"
        BY <1>7 DEF PollEvent, actorVars
    <2>2. events' \in Seq(Words) /\ Len(events') = Len(events) - 1
        BY <1>0, <2>1, TailElements
    <2>3. Len(events') <= EventCap
        BY <1>0, <2>2
    <2>4. Word(events', told') = Word(events, told)
        BY <1>0, <2>1, WordOfTail
    <2>. QED BY <1>0, <1>1, <2>1, <2>2, <2>3, <2>4
<1>8. CASE TakeReset
    <2>. DEFINE c == Told(events, "line")
    <2>1. /\ events' = Told(c, "line") /\ safety' \in BOOLEAN /\ told' = told
          /\ untold' = (untold \/ safety' # safety)
        BY <1>8 DEF TakeReset, manageVars
    <2>2. c \in Seq(Words) /\ Len(c) <= EventCap /\ Word(c, told) = Word(events, told)
        BY <1>0, ToldTyped, ToldLine
    <2>. HIDE DEF c
    <2>3. /\ events' \in Seq(Words) /\ Len(events') <= EventCap
          /\ Word(events', told) = Word(events, told)
        BY <1>0, <2>1, <2>2, ToldTyped, ToldLine
    <2>4. ~untold' => ~untold /\ safety' = safety
        BY <2>1
    <2>. QED BY <1>0, <1>1, <2>1, <2>3, <2>4
<1>9. CASE StoreFails
    <2>. DEFINE c == Told(events, "on")
    <2>1. /\ events' = Told(c, "line") /\ safety' = TRUE /\ told' = told
          /\ untold' = (Len(events) >= EventCap)
        BY <1>9 DEF StoreFails, manageVars
    <2>2. c \in Seq(Words) /\ Len(c) <= EventCap
        BY <1>0, ToldTyped
    <2>3. Len(events) < EventCap => Word(c, told) = TRUE
        <3>. SUFFICES ASSUME Len(events) < EventCap PROVE Word(c, told) = TRUE
            OBVIOUS
        <3>1. Word(c, told) = ("on" = "on")
            BY <1>0, ToldMode
        <3>. QED BY <3>1
    <2>. HIDE DEF c
    <2>4. /\ events' \in Seq(Words) /\ Len(events') <= EventCap
          /\ Word(events', told) = Word(c, told)
        BY <1>0, <2>1, <2>2, ToldTyped, ToldLine
    <2>5. ~untold' => Len(events) < EventCap
        <3>1. ~untold' => ~(Len(events) >= EventCap)
            BY <2>1, Zenon
        <3>2. ~(Len(events) >= EventCap) => Len(events) < EventCap
            BY <1>0
        <3>. QED BY <3>1, <3>2
    <2>6. ~untold' => Word(events', told') = safety'
        BY <2>1, <2>3, <2>4, <2>5
    <2>. QED BY <1>1, <2>1, <2>4, <2>6
<1>10. CASE Maintenance
    <2>. DEFINE e == IF safety' THEN "on" ELSE "off"
    <2>1. /\ events' = Told(events, e) /\ safety' \in BOOLEAN /\ told' = told
          /\ untold' = (Len(events) >= EventCap)
        BY <1>10 DEF Maintenance, manageVars
    <2>2. e \in {"on", "off"} /\ e \in Words /\ ((e = "on") = safety')
        BY <2>1 DEF Words
    <2>. HIDE DEF e
    <2>3. events' \in Seq(Words) /\ Len(events') <= EventCap
        BY <1>0, <2>1, <2>2, ToldTyped
    <2>4. Len(events) < EventCap => Word(events', told') = (e = "on")
        BY <1>0, <2>1, <2>2, ToldMode
    <2>5. ~untold' => Len(events) < EventCap
        <3>1. ~untold' => ~(Len(events) >= EventCap)
            BY <2>1, Zenon
        <3>2. ~(Len(events) >= EventCap) => Len(events) < EventCap
            BY <1>0
        <3>. QED BY <3>1, <3>2
    <2>6. ~untold' => Word(events', told') = safety'
        BY <2>2, <2>4, <2>5, Zenon
    <2>. QED BY <1>1, <2>1, <2>3, <2>6
<1>11. CASE UNCHANGED interfaceVars
    <2>1. UNCHANGED <<told, safety, untold, events>>
        BY <1>11 DEF interfaceVars, actorVars
    <2>. QED BY <1>2, <2>1
<1>. QED BY <1>3, <1>4, <1>5, <1>6, <1>7, <1>8, <1>9, <1>10, <1>11 DEF InterfaceNext, Frame

-----------------------------------------------------------------------------
(* The commands, and the theorems.                                           *)

CommandLine ==
    commands \in Seq(Files \cup {NoFile, "reset"}) /\ Len(commands) <= CommandCap

LEMMA CommandStep == CommandLine /\ ScanLine /\ [InterfaceNext]_interfaceVars => CommandLine'
<1>. SUFFICES ASSUME CommandLine, ScanLine, [InterfaceNext]_interfaceVars PROVE CommandLine'
    OBVIOUS
<1>. DEFINE C == Files \cup {NoFile, "reset"}
<1>0. /\ commands \in Seq(C) /\ Len(commands) <= CommandCap
      /\ Len(commands) \in Nat /\ CommandCap \in Nat
    BY SeqElements, InterfaceAssumption DEF CommandLine
<1>1. ASSUME NEW c \in C, Send(c) PROVE CommandLine'
    <2>1. Append(commands, c) \in Seq(C) /\ Len(Append(commands, c)) = Len(commands) + 1
        BY <1>0, AppendElements
    <2>. QED BY <1>0, <1>1, <2>1 DEF Send, CommandLine
<1>2. CASE PublishFile
    <2>1. judged \in C /\ Send(judged)
        BY <1>2 DEF PublishFile, ScanLine, ScanTypes
    <2>. QED BY <1>1, <2>1
<1>3. CASE ResetDialog
    <2>1. Send("reset") \/ UNCHANGED commands
        BY <1>3 DEF ResetDialog
    <2>. QED BY <1>1, <2>1 DEF CommandLine
<1>4. CASE TakePublish \/ TakeReset
    <2>1. commands # <<>> /\ commands' = Tail(commands)
        BY <1>4 DEF TakePublish, TakeReset
    <2>2. Tail(commands) \in Seq(C) /\ Len(Tail(commands)) = Len(commands) - 1
        BY <1>0, <2>1, TailElements
    <2>3. Len(commands') <= CommandCap
        BY <1>0, <2>1, <2>2
    <2>. QED BY <2>1, <2>2, <2>3 DEF CommandLine
<1>5. ASSUME UNCHANGED commands PROVE CommandLine'
    BY <1>5 DEF CommandLine
<1>6. CASE PollEvent \/ EventsRead \/ NothingHashed \/ HashFailed \/ FileFlagged
           \/ FileUnflagged \/ HashFile \/ StoreRecord \/ StoreFails \/ ExpireRow \/ Maintenance
    BY <1>5, <1>6 DEF PollEvent, EventsRead, NothingHashed, HashFailed, FileFlagged,
            FileUnflagged, HashFile, StoreRecord, StoreFails, ExpireRow, Maintenance, TakeResult
<1>7. CASE AlertScreen \/ Header \/ ScannerTab \/ PickFile
    BY <1>5, <1>7 DEF AlertScreen, Header, ScannerTab, PickFile
<1>8. CASE CountRows \/ ReadPage \/ KeepPage \/ TurnPage \/ RemoveFlagged
    BY <1>5, <1>8 DEF CountRows, ReadPage, KeepPage, TurnPage, RemoveFlagged
<1>9. CASE UNCHANGED interfaceVars
    BY <1>5, <1>9 DEF interfaceVars
<1>. QED BY <1>2, <1>3, <1>4, <1>6, <1>7, <1>8, <1>9 DEF InterfaceNext, Frame

LEMMA CommandStart == InterfaceInit => CommandLine
<1>1. ASSUME InterfaceInit PROVE commands \in Seq(Files \cup {NoFile, "reset"}) /\ Len(commands) = 0
    BY <1>1 DEF InterfaceInit
<1>. QED BY <1>1, InterfaceAssumption DEF CommandLine

Whole == ScanLine /\ PageLine /\ LogLine /\ CommandLine

LEMMA Lines == InterfaceSpec => []Whole
<1>1. InterfaceInit => Whole
    BY ScanStart, PageStart, LogStart, CommandStart DEF Whole
<1>2. Whole /\ [InterfaceNext]_interfaceVars => Whole'
    BY ScanStep, PageStep, LogStep, CommandStep DEF Whole
<1>. QED BY <1>1, <1>2, PTL DEF InterfaceSpec

\* One verdict on each scan that was wanted, none on a scan that was cancelled
\* or replaced, and none behind an alert; the channels keep their capacities
\* (start_hash, cancel_hash, poll_hash, try_send).
THEOREM Scanner == InterfaceSpec => []ScannerInv
<1>1. Whole => ScannerInv
    <2>. SUFFICES ASSUME Whole PROVE ScannerInv
        OBVIOUS
    <2>1. \A s \in Scans : scans[s] \in [file : Files, cancelled : BOOLEAN,
                     state : {"reading", "hashed", "failed", "taken"}]
        BY ScansTyped DEF Whole, ScanLine, Scan
    <2>2. /\ frame \in {"events", "hash", "publish", "draw", "tab", "picker", "page",
                          "list", "dialog"}
          /\ waiting \in Scans \cup {0}
          /\ judged \in Files \cup {NoFile} /\ alert \in Files \cup {NoFile}
        BY DEF Whole, ScanLine, ScanTypes, Frames
    <2>3. manage.page \in Nat /\ Len(manage.shown) <= PageSize
        BY DEF Whole, PageLine, ManageTypes
    <2>4. Len(commands) <= CommandCap /\ Len(events) <= EventCap
        BY DEF Whole, CommandLine, LogLine, LogTypes
    <2>5. InterfaceTypeOK
        BY <2>1, <2>2, <2>3, <2>4 DEF InterfaceTypeOK
    <2>6. OnlyTheChosen
        BY DEF Whole, ScanLine, Dropped, OnlyTheChosen
    <2>7. AlertStopsScans
        BY DEF Whole, ScanLine, Verdicts, AlertStopsScans
    <2>. QED BY <2>5, <2>6, <2>7 DEF ScannerInv
<1>. QED BY <1>1, Lines, PTL

\* The log keeps up with the storage safety mode, as long as no announcement
\* met a full channel (StorageSafetyChanged, try_event).
THEOREM InStep == InterfaceSpec => []ToldInStep
<1>1. Whole => ToldInStep
    BY DEF Whole, LogLine
<1>. QED BY <1>1, Lines, PTL

\* A file the user removed is on no page that is drawn, unless it was recorded
\* again (remove_and_save).
THEOREM Gone == InterfaceSpec => []RemovedIsGone
<1>1. Whole => RemovedIsGone
    BY DEF Whole, PageLine, NoneGone, RemovedIsGone
<1>. QED BY <1>1, Lines, PTL

\* A page read as empty, which is drawn as a clean database, was read from an
\* empty one, or from one that lost rows since they were counted, or had rows
\* that could not be read.
THEOREM Clean == InterfaceSpec => EmptyMeansClean
<1>. DEFINE Read == frame = "page" /\ frame' = "list" /\ manage'.shown = <<>>
                      => rows = <<>> \/ Len(rows) < manage.total \/ unread'
<1>1. Whole /\ [InterfaceNext]_interfaceVars => [Read]_interfaceVars
    <2>. SUFFICES ASSUME Whole, InterfaceNext, frame = "page", frame' = "list",
                         manage'.shown = <<>>
                  PROVE  rows = <<>> \/ Len(rows) < manage.total \/ unread'
        OBVIOUS
    <2>1. CASE ReadPage
        BY <2>1, ReadStep DEF Whole
    <2>2. ASSUME frame' = frame \/ frame # "page" PROVE FALSE
        BY <2>2
    <2>3. CASE Frame /\ ~ReadPage
        BY <2>2, <2>3 DEF Frame, PollEvent, EventsRead, NothingHashed, HashFailed, FileFlagged,
            FileUnflagged, TakeResult, PublishFile, AlertScreen, Header, ScannerTab, PickFile,
            CountRows, KeepPage, TurnPage, RemoveFlagged, ResetDialog
    <2>4. CASE HashFile \/ TakePublish \/ TakeReset \/ StoreRecord \/ StoreFails \/ ExpireRow
               \/ Maintenance
        BY <2>2, <2>4 DEF HashFile, TakePublish, TakeReset, StoreRecord, StoreFails, ExpireRow,
            Maintenance
    <2>. QED BY <2>1, <2>3, <2>4 DEF InterfaceNext
<1>. QED BY <1>1, Lines, PTL DEF InterfaceSpec, EmptyMeansClean
=============================================================================
