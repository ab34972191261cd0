----------------------- MODULE SyncConvergence_proofs -----------------------
(***************************************************************************)
(* What holds of SyncConvergence for any days, store, page size and        *)
(* limits: the shape of the exchange, and that a session which loses       *)
(* nothing leaves nothing behind.                                          *)
(***************************************************************************)
EXTENDS SyncConvergence, ReplayTheorems, FiniteSetTheorems, FunctionTheorems,
        SequenceTheorems

-----------------------------------------------------------------------------
(* Identifiers in their order.                                               *)

Below(S, i) == {j \in S : j < i}

Rank(S, i) == Cardinality(Below(S, i))

LEMMA RankTyped ==
    ASSUME NEW S, S \subseteq Nat, IsFiniteSet(S), NEW i \in Nat
    PROVE  /\ IsFiniteSet(Below(S, i)) /\ Below(S, i) \subseteq S
           /\ Rank(S, i) \in Nat /\ Cardinality(S) \in Nat
           /\ Rank(S, i) <= Cardinality(S)
           /\ i \in S => Rank(S, i) < Cardinality(S)
<1>1. Below(S, i) \in SUBSET S
    BY DEF Below
<1>2. /\ IsFiniteSet(Below(S, i)) /\ Cardinality(Below(S, i)) <= Cardinality(S)
      /\ Cardinality(S) = Cardinality(Below(S, i)) => S = Below(S, i)
    BY <1>1, FS_Subset
<1>3. Cardinality(Below(S, i)) \in Nat /\ Cardinality(S) \in Nat
    BY <1>2, FS_CardinalityType
<1>4. i \in S => S # Below(S, i)
    BY DEF Below
<1>. QED BY <1>1, <1>2, <1>3, <1>4 DEF Rank

LEMMA RankGrows ==
    ASSUME NEW S, S \subseteq Nat, IsFiniteSet(S), NEW i \in Nat, NEW j \in Nat, i <= j
    PROVE  /\ Rank(S, i) <= Rank(S, j)
           /\ i \in S /\ i # j => Rank(S, i) < Rank(S, j)
<1>1. /\ IsFiniteSet(Below(S, j)) /\ IsFiniteSet(Below(S, i))
      /\ Rank(S, i) \in Nat /\ Rank(S, j) \in Nat
    BY RankTyped
<1>0. \A x \in S : x \in Nat
    OBVIOUS
<1>2. Below(S, i) \in SUBSET Below(S, j)
    <2>1. ASSUME NEW x \in S, x < i PROVE x < j
        <3>1. x \in Nat
            BY <1>0
        <3>. QED BY <2>1, <3>1
    <2>. QED BY <2>1 DEF Below
<1>3. /\ Cardinality(Below(S, i)) <= Cardinality(Below(S, j))
      /\ Cardinality(Below(S, j)) = Cardinality(Below(S, i)) => Below(S, j) = Below(S, i)
    BY <1>1, <1>2, FS_Subset
<1>4. i \in S /\ i # j => i \in Below(S, j) /\ i \notin Below(S, i)
    BY <1>0 DEF Below
<1>. QED BY <1>1, <1>3, <1>4 DEF Rank

\* A set of few numbers has a largest: one with the most below it.
LEMMA LargestNat ==
    ASSUME NEW S, S \subseteq Nat, IsFiniteSet(S), S # {}
    PROVE  \E m \in S : \A n \in S : m >= n
<1>. DEFINE T == {Cardinality(S) - Rank(S, i) : i \in S}
<1>1. \A i \in S : Rank(S, i) \in Nat /\ Rank(S, i) <= Cardinality(S) /\ Cardinality(S) \in Nat
    BY RankTyped
<1>2. T \subseteq Nat /\ T # {}
    <2>1. \A i \in S : Cardinality(S) - Rank(S, i) \in Nat
        BY <1>1
    <2>. QED BY <2>1
<1>3. PICK t \in T : \A u \in T : t <= u
    <2>. HIDE DEF T
    <2>. QED BY <1>2, LeastNat
<1>4. PICK m \in S : t = Cardinality(S) - Rank(S, m)
    BY <1>3
<1>5. ASSUME NEW n \in S, ~(m >= n) PROVE FALSE
    <2>1. m \in Nat /\ n \in Nat /\ m <= n /\ m # n
        BY <1>5
    <2>2. Rank(S, m) < Rank(S, n)
        BY <2>1, RankGrows
    <2>3. t <= Cardinality(S) - Rank(S, n)
        BY <1>3
    <2>. QED BY <1>1, <1>4, <2>2, <2>3
<1>. QED BY <1>5

\* The n first identifiers of a set: no more than n, none left out before
\* another, all of a set that is small enough, some if there are any.
LEMMA FirstProperties ==
    ASSUME NEW S, S \subseteq Nat, IsFiniteSet(S), NEW n \in Nat
    PROVE  /\ First(S, n) \subseteq S /\ IsFiniteSet(First(S, n))
           /\ Cardinality(First(S, n)) \in Nat /\ Cardinality(First(S, n)) <= n
           /\ \A i \in First(S, n), j \in S : j < i => j \in First(S, n)
           /\ Cardinality(S) <= n => First(S, n) = S
           /\ n # 0 /\ S # {} => First(S, n) # {}
<1>. DEFINE F == First(S, n)
<1>0. \A i \in S : i \in F <=> Rank(S, i) < n
    BY DEF First, Rank, Below
<1>1. F \subseteq S
    BY DEF First
<1>2. IsFiniteSet(F) /\ Cardinality(F) \in Nat /\ Cardinality(S) \in Nat
    BY <1>1, FS_Subset, FS_CardinalityType
<1>3. \A i \in S : Rank(S, i) \in Nat /\ Rank(S, i) < Cardinality(S)
    BY RankTyped
<1>. HIDE DEF F
<1>4. ASSUME NEW i \in F, NEW j \in S, j < i PROVE j \in F
    <2>1. Rank(S, j) <= Rank(S, i) /\ Rank(S, i) < n /\ i \in S
        <3>1. i \in S /\ i \in Nat /\ j \in Nat /\ j <= i
            BY <1>1, <1>4
        <3>. QED BY <1>0, <3>1, RankGrows
    <2>. QED BY <1>0, <1>3, <2>1
<1>5. Cardinality(F) <= n
    <2>1. CASE F = {}
        BY <2>1, FS_EmptySet
    <2>2. CASE F # {}
        <3>1. PICK m \in F : \A i \in F : m >= i
            <4>1. F \subseteq Nat
                BY <1>1
            <4>. QED BY <1>2, <2>2, <4>1, LargestNat
        <3>2. F \ {m} \in SUBSET Below(S, m)
            BY <1>1, <3>1 DEF Below
        <3>3. m \in Nat /\ m \in S
            BY <1>1, <3>1
        <3>4. IsFiniteSet(Below(S, m)) /\ Rank(S, m) \in Nat /\ Rank(S, m) < n
            BY <1>0, <3>1, <3>3, RankTyped
        <3>5. Cardinality(F \ {m}) <= Rank(S, m)
            BY <3>2, <3>4, FS_Subset DEF Rank
        <3>6. Cardinality(F \ {m}) = Cardinality(F) - 1
            BY <1>2, <3>1, FS_RemoveElement
        <3>. QED BY <1>2, <3>4, <3>5, <3>6
    <2>. QED BY <2>1, <2>2
<1>6. ASSUME Cardinality(S) <= n PROVE F = S
    <2>1. \A i \in S : i \in F
        BY <1>0, <1>2, <1>3, <1>6
    <2>. QED BY <1>1, <2>1
<1>7. ASSUME n # 0, S # {} PROVE F # {}
    <2>1. PICK m \in S : \A i \in S : m <= i
        BY <1>7, LeastNat
    <2>2. Below(S, m) = {}
        <3>1. ASSUME NEW i \in S PROVE ~(i < m)
            <4>1. i \in Nat /\ m \in Nat /\ m <= i
                BY <2>1
            <4>. QED BY <4>1
        <3>. QED BY <3>1 DEF Below
    <2>3. Rank(S, m) = 0
        BY <2>2, FS_EmptySet DEF Rank
    <2>. QED BY <1>0, <1>7, <2>1, <2>3
<1>. QED BY <1>1, <1>2, <1>4, <1>5, <1>6, <1>7 DEF F

\* A set can be listed in increasing order, and the list has all of it.
LEMMA SortedLists ==
    ASSUME NEW S, S \subseteq Nat, IsFiniteSet(S)
    PROVE  /\ Sorted(S) \in Seq(S)
           /\ \A x \in S : \E k \in DOMAIN Sorted(S) : Sorted(S)[k] = x
<1>. DEFINE n == Cardinality(S)
            rank == [i \in S |-> Rank(S, i)]
            R == 0 .. (n - 1)
            Lists == {s \in [1..n -> S] : \A i, j \in DOMAIN s : i < j => s[i] < s[j]}
<1>0. n \in Nat
    BY FS_CardinalityType
<1>1. rank \in [S -> R]
    <2>1. ASSUME NEW i \in S PROVE Rank(S, i) \in R
        <3>1. i \in Nat
            OBVIOUS
        <3>2. Rank(S, i) \in Nat /\ Rank(S, i) < n
            BY <3>1, RankTyped
        <3>. QED BY <1>0, <3>2
    <2>. QED BY <2>1
<1>2. rank \in Injection(S, R)
    <2>1. ASSUME NEW i \in S, NEW j \in S, rank[i] = rank[j] PROVE i = j
        <3>1. i \in Nat /\ j \in Nat /\ Rank(S, i) = Rank(S, j)
              /\ Rank(S, i) \in Nat /\ Rank(S, j) \in Nat
            BY <2>1, RankTyped
        <3>2. ASSUME i <= j, i # j PROVE FALSE
            <4>1. Rank(S, i) < Rank(S, j)
                BY <3>1, <3>2, RankGrows
            <4>. QED BY <3>1, <4>1
        <3>3. ASSUME j <= i, i # j PROVE FALSE
            <4>1. Rank(S, j) < Rank(S, i)
                BY <3>1, <3>3, RankGrows
            <4>. QED BY <3>1, <4>1
        <3>. QED BY <3>1, <3>2, <3>3
    <2>. QED BY <1>1, <2>1, Fun_IsInj
<1>3. IsFiniteSet(R) /\ Cardinality(R) = n
    <2>1. 0 \in Int /\ n - 1 \in Int /\ (0 > n - 1 => n = 0) /\ n - 1 - 0 + 1 = n
        BY <1>0
    <2>. HIDE DEF n
    <2>. QED BY <2>1, FS_Interval
<1>4. rank \in Surjection(S, R)
    BY <1>2, <1>3, FS_Injection
<1>5. \A k \in R : \E i \in S : Rank(S, i) = k
    BY <1>4 DEF Surjection
<1>. DEFINE list == [k \in 1..n |-> CHOOSE i \in S : Rank(S, i) = k - 1]
<1>6. \A k \in 1..n : list[k] \in S /\ Rank(S, list[k]) = k - 1
    BY <1>0, <1>5
<1>7. list \in Lists
    <2>. HIDE DEF list
    <2>1. ASSUME NEW i \in 1..n, NEW j \in 1..n, i < j PROVE list[i] < list[j]
        <3>1. ~(list[j] <= list[i])
            <4>1. list[j] <= list[i] => Rank(S, list[j]) <= Rank(S, list[i])
                BY <1>6, RankGrows
            <4>. QED BY <1>0, <1>6, <2>1, <4>1
        <3>2. list[i] \in Nat /\ list[j] \in Nat
            BY <1>6
        <3>. QED BY <3>1, <3>2
    <2>2. list \in [1..n -> S]
        BY <1>6 DEF list
    <2>. QED BY <2>1, <2>2
<1>8. Sorted(S) \in Lists
    <2>1. Sorted(S) = CHOOSE s \in Lists : TRUE
        BY DEF Sorted
    <2>. QED BY <1>7 DEF Sorted
<1>. DEFINE s == Sorted(S)
<1>9. /\ s \in [1..n -> S] /\ DOMAIN s = 1..n
      /\ \A i, j \in 1..n : i < j => s[i] < s[j]
    BY <1>8
<1>. HIDE DEF s, Lists, list, rank
<1>10. s \in Injection(1..n, S)
    <2>1. ASSUME NEW i \in 1..n, NEW j \in 1..n, s[i] = s[j] PROVE i = j
        <3>1. s[i] \in Nat /\ s[j] \in Nat
            BY <1>9
        <3>2. ~(i < j) /\ ~(j < i)
            BY <1>9, <2>1, <3>1
        <3>. QED BY <1>0, <3>2
    <2>. QED BY <1>9, <2>1, Fun_IsInj
<1>11. IsFiniteSet(1..n) /\ Cardinality(1..n) = n
    BY <1>0, FS_Interval
<1>12. s \in Surjection(1..n, S)
    BY <1>10, <1>11, FS_Injection
<1>13. s \in Seq(S)
    BY <1>0, <1>9
<1>. QED BY <1>9, <1>12, <1>13 DEF s, Surjection

-----------------------------------------------------------------------------
(* Pages.                                                                    *)

LEMMA IdsFinite ==
    /\ IsFiniteSet(Ids) /\ Ids \subseteq Nat \ {0}
    /\ \A S \in SUBSET Ids : /\ IsFiniteSet(S) /\ S \subseteq Nat
                             /\ Cardinality(S) \in Nat
    /\ \A b \in Buckets : Store[b] \subseteq Ids
<1>. DEFINE Stores == {Store[b] : b \in Buckets}
            f == [b \in Buckets |-> Store[b]]
<1>1. IsFiniteSet(Buckets) /\ \A T \in Stores : IsFiniteSet(T) /\ T \subseteq Nat \ {0}
    BY ConvergenceAssumption
<1>2. IsFiniteSet(Stores)
    <2>1. f \in Surjection(Buckets, Stores)
        BY Fun_IsSurj
    <2>. HIDE DEF f, Stores
    <2>. QED BY <1>1, <2>1, FS_Surjection
<1>3. Ids = UNION Stores
    BY DEF Ids
<1>4. IsFiniteSet(Ids)
    <2>. HIDE DEF Stores
    <2>. QED BY <1>1, <1>2, <1>3, FS_UNION
<1>5. Ids \subseteq Nat \ {0}
    BY <1>1, <1>3
<1>6. \A S \in SUBSET Ids : IsFiniteSet(S) /\ Cardinality(S) \in Nat
    BY <1>4, FS_Subset, FS_CardinalityType
<1>. QED BY <1>4, <1>5, <1>6 DEF Ids

\* A page holds the identifiers from the cursor on; the rest comes after the
\* cursor that goes with it.
LEMMA PageProperties ==
    ASSUME NEW b \in Buckets, NEW c \in Nat
    PROVE  /\ Page(b, c) \subseteq After(b, c) /\ After(b, c) \subseteq Ids
           /\ NextCursor(b, c) \in Ids \cup {0}
           /\ \A i \in After(b, c) : \/ i \in Page(b, c)
                                     \/ NextCursor(b, c) # 0 /\ i \in After(b, NextCursor(b, c))
<1>. DEFINE A == After(b, c)
            P == Page(b, c)
<1>1. A \subseteq Ids /\ A \subseteq Nat /\ IsFiniteSet(A)
    BY IdsFinite DEF After
<1>2. PageSize \in Nat /\ PageSize # 0
    BY ConvergenceAssumption
<1>3. /\ P \subseteq A /\ IsFiniteSet(P)
      /\ \A i \in P, j \in A : j < i => j \in P
      /\ A # {} => P # {}
    BY <1>1, <1>2, FirstProperties DEF Page
<1>4. NextCursor(b, c) = IF A = P THEN 0 ELSE CHOOSE i \in P : \A j \in P : i >= j
    BY DEF NextCursor
<1>5. \A i \in A : i \in Store[b]
    BY DEF After
<1>. HIDE DEF A, P
<1>6. CASE A = P
    BY <1>1, <1>4, <1>6 DEF A, P
<1>7. CASE A # P
    <2>1. P # {} /\ P \subseteq Nat
        BY <1>1, <1>3, <1>7
    <2>2. \E m \in P : \A j \in P : m >= j
        BY <1>3, <2>1, LargestNat
    <2>. DEFINE m == NextCursor(b, c)
    <2>3. m \in P /\ \A j \in P : m >= j
        BY <1>4, <1>7, <2>2
    <2>. HIDE DEF m
    <2>4. m \in Ids /\ m \in Nat /\ m # 0
        BY <1>1, <1>3, <2>3, IdsFinite
    <2>5. ASSUME NEW i \in A, i \notin P PROVE i \in After(b, m)
        <3>1. i \in Nat /\ i # m
            BY <1>1, <2>3, <2>5
        <3>2. ~(i < m)
            BY <1>3, <2>3, <2>5
        <3>3. i > m
            BY <2>4, <3>1, <3>2
        <3>. QED BY <1>5, <3>3 DEF After
    <2>. QED BY <1>1, <1>3, <2>4, <2>5 DEF A, P, m
<1>. QED BY <1>6, <1>7

\* A bucket is listed from its start, and then from the next cursor of each.
LEMMA CursorsClosed ==
    ASSUME NEW b \in Buckets
    PROVE  /\ 0 \in Cursors(b)
           /\ \A c \in Cursors(b) : NextCursor(b, c) \in Cursors(b)
<1>1. 0 \in Cursors(b)
    BY DEF Cursors
<1>2. ASSUME NEW c \in Cursors(b) PROVE NextCursor(b, c) \in Cursors(b)
    <2>. DEFINE n == NextCursor(b, c)
                Closed(C) == 0 \in C /\ \A d \in C : NextCursor(b, d) \in C
    <2>1. c \in Ids \cup {0} /\ \A C \in SUBSET (Store[b] \cup {0}) : Closed(C) => c \in C
        BY DEF Cursors
    <2>2. c \in Nat
        BY <2>1, IdsFinite
    <2>3. n \in Ids \cup {0}
        BY <2>2, PageProperties
    <2>4. \A C \in SUBSET (Store[b] \cup {0}) : Closed(C) => n \in C
        BY <2>1
    <2>. QED BY <2>3, <2>4 DEF Cursors
<1>. QED BY <1>1, <1>2

\* What a listing finds missing can be asked for in one request, and is all
\* that is missing among as many identifiers as one request may name.
LEMMA MissingProperties ==
    ASSUME have \subseteq Ids, NEW S \in SUBSET Ids, NEW read \in BOOLEAN
    PROVE  /\ Missing(S, read) \subseteq Ids /\ Cardinality(Missing(S, read)) \in Nat
           /\ Cardinality(Missing(S, read)) <= MaxRequested
           /\ \A i \in First(S, MaxRequested) : i \in have \/ i \in Missing(S, read)
<1>. DEFINE D == S \ Existing(S, read)
<1>1. D \in SUBSET S /\ S \subseteq Ids
    OBVIOUS
<1>2. D \subseteq Nat /\ IsFiniteSet(D) /\ S \subseteq Nat /\ IsFiniteSet(S)
      /\ Cardinality(S) \in Nat
    BY <1>1, IdsFinite
<1>3. MaxRequested \in Nat
    BY ConvergenceAssumption
<1>4. Cardinality(D) <= Cardinality(S) /\ Cardinality(D) \in Nat
    BY <1>1, <1>2, FS_Subset, FS_CardinalityType
<1>5. Missing(S, read) = First(D, MaxRequested)
    BY DEF Missing
<1>6. \/ D = S
      \/ Cardinality(S) <= MaxRequested /\ D = S \ have
    BY <1>2, <1>3 DEF Existing
<1>. HIDE DEF D
<1>7. /\ First(D, MaxRequested) \subseteq D
      /\ Cardinality(First(D, MaxRequested)) \in Nat
      /\ Cardinality(First(D, MaxRequested)) <= MaxRequested
      /\ Cardinality(D) <= MaxRequested => First(D, MaxRequested) = D
    BY <1>2, <1>3, FirstProperties
<1>8. Missing(S, read) \subseteq Ids
    BY <1>1, <1>5, <1>7
<1>9. ASSUME NEW i \in First(S, MaxRequested)
      PROVE  i \in have \/ i \in Missing(S, read)
    <2>1. CASE D = S
        BY <1>5, <1>9, <2>1
    <2>2. CASE Cardinality(S) <= MaxRequested /\ D = S \ have
        <3>1. i \in S
            BY DEF First
        <3>2. Cardinality(D) <= MaxRequested
            BY <1>2, <1>3, <1>4, <2>2
        <3>. QED BY <1>5, <1>7, <2>2, <3>1, <3>2
    <2>. QED BY <1>6, <2>1, <2>2
<1>. QED BY <1>5, <1>7, <1>8, <1>9

-----------------------------------------------------------------------------
(* Sequences of requests.                                                    *)

LEMMA Removed ==
    ASSUME NEW S, NEW s \in Seq(S), NEW k \in DOMAIN s
    PROVE  /\ RemoveAt(s, k) \in Seq(S)
           /\ Range(RemoveAt(s, k)) = {s[i] : i \in DOMAIN s \ {k}}
<1>1. Len(s) \in Nat /\ DOMAIN s = 1..Len(s) /\ k \in 1..Len(s)
      /\ \A i \in 1..Len(s) : s[i] \in S
    BY LenProperties, ElementOfSeq
<1>. DEFINE u == SubSeq(s, 1, k - 1)
            v == SubSeq(s, k + 1, Len(s))
<1>2. /\ u \in Seq(S) /\ Len(u) = k - 1
      /\ \A i \in 1..(k - 1) : u[i] = s[i]
    <2>1. 1 \in Int /\ k - 1 \in Int /\ \A i \in 1..(k - 1) : s[i] \in S
        BY <1>1
    <2>2. /\ u \in Seq(S) /\ Len(u) = IF 1 <= k - 1 THEN (k - 1) - 1 + 1 ELSE 0
          /\ \A i \in 1..((k - 1) - 1 + 1) : u[i] = s[1 + i - 1]
        BY <2>1, SubSeqProperties
    <2>3. (k - 1) - 1 + 1 = k - 1 /\ (~(1 <= k - 1) => k - 1 = 0)
          /\ \A i \in 1..(k - 1) : 1 + i - 1 = i
        BY <1>1
    <2>. QED BY <2>2, <2>3
<1>3. /\ v \in Seq(S) /\ Len(v) = Len(s) - k
      /\ \A i \in 1..(Len(s) - k) : v[i] = s[k + i]
    <2>1. k + 1 \in Int /\ Len(s) \in Int /\ \A i \in (k + 1)..Len(s) : s[i] \in S
        BY <1>1
    <2>2. /\ v \in Seq(S) /\ Len(v) = IF k + 1 <= Len(s) THEN Len(s) - (k + 1) + 1 ELSE 0
          /\ \A i \in 1..(Len(s) - (k + 1) + 1) : v[i] = s[k + 1 + i - 1]
        BY <2>1, SubSeqProperties
    <2>3. Len(s) - (k + 1) + 1 = Len(s) - k /\ (~(k + 1 <= Len(s)) => Len(s) - k = 0)
          /\ \A i \in 1..(Len(s) - k) : k + 1 + i - 1 = k + i
        BY <1>1
    <2>. QED BY <2>2, <2>3
<1>. HIDE DEF u, v
<1>4. /\ u \o v \in Seq(S) /\ DOMAIN (u \o v) = 1..(Len(s) - 1)
      /\ \A i \in 1..(Len(s) - 1) : (u \o v)[i] = IF i <= k - 1 THEN s[i] ELSE s[i + 1]
    <2>1. /\ u \o v \in Seq(S) /\ Len(u \o v) = Len(u) + Len(v)
          /\ \A i \in 1..(Len(u) + Len(v)) : (u \o v)[i] = IF i <= Len(u) THEN u[i] ELSE v[i - Len(u)]
        BY <1>2, <1>3, ConcatProperties
    <2>2. Len(u) + Len(v) = Len(s) - 1
        BY <1>1, <1>2, <1>3
    <2>3. ASSUME NEW i \in 1..(Len(s) - 1)
          PROVE  (u \o v)[i] = IF i <= k - 1 THEN s[i] ELSE s[i + 1]
        <3>1. CASE i <= k - 1
            BY <1>1, <1>2, <2>1, <2>2, <3>1
        <3>2. CASE ~(i <= k - 1)
            <4>1. i - (k - 1) \in 1..(Len(s) - k) /\ k + (i - (k - 1)) = i + 1
                BY <1>1, <3>2
            <4>2. v[i - (k - 1)] = s[k + (i - (k - 1))]
                BY <1>3, <4>1
            <4>. QED BY <1>2, <2>1, <2>2, <3>2, <4>1, <4>2
        <3>. QED BY <3>1, <3>2
    <2>. QED BY <2>1, <2>2, <2>3, LenProperties
<1>5. ASSUME NEW i \in 1..(Len(s) - 1)
      PROVE  \E j \in DOMAIN s \ {k} : (u \o v)[i] = s[j]
    <2>1. CASE i <= k - 1
        <3>1. i \in DOMAIN s \ {k}
            BY <1>1, <2>1
        <3>. QED BY <1>4, <2>1, <3>1
    <2>2. CASE ~(i <= k - 1)
        <3>1. i + 1 \in DOMAIN s \ {k}
            BY <1>1, <2>2
        <3>. QED BY <1>4, <2>2, <3>1
    <2>. QED BY <2>1, <2>2
<1>6. ASSUME NEW j \in DOMAIN s \ {k}
      PROVE  \E i \in 1..(Len(s) - 1) : (u \o v)[i] = s[j]
    <2>1. CASE j < k
        <3>1. j \in 1..(Len(s) - 1) /\ j <= k - 1
            BY <1>1, <2>1
        <3>. QED BY <1>4, <3>1
    <2>2. CASE j > k
        <3>1. j - 1 \in 1..(Len(s) - 1) /\ ~(j - 1 <= k - 1) /\ (j - 1) + 1 = j
            BY <1>1, <2>2
        <3>2. (u \o v)[j - 1] = s[(j - 1) + 1]
            BY <1>4, <3>1
        <3>. QED BY <3>1, <3>2
    <2>3. j \in Int /\ k \in Int /\ j # k
        BY <1>1
    <2>4. j < k \/ j > k
        BY <2>3
    <2>. QED BY <2>1, <2>2, <2>4
<1>7. RemoveAt(s, k) = u \o v
    BY DEF RemoveAt, u, v
<1>8. Range(u \o v) = {(u \o v)[i] : i \in 1..(Len(s) - 1)}
    BY <1>4 DEF Range
<1>9. Range(u \o v) \subseteq {s[i] : i \in DOMAIN s \ {k}}
    BY <1>5, <1>8
<1>10. {s[i] : i \in DOMAIN s \ {k}} \subseteq Range(u \o v)
    BY <1>6, <1>8
<1>. QED BY <1>4, <1>7, <1>9, <1>10

LEMMA SeqElements ==
    ASSUME NEW S, NEW s \in Seq(S)
    PROVE  /\ Len(s) \in Nat /\ DOMAIN s = 1..Len(s) /\ \A i \in 1..Len(s) : s[i] \in S
           /\ Range(s) \subseteq S
<1>1. Len(s) \in Nat /\ DOMAIN s = 1..Len(s)
    BY LenProperties
<1>2. \A i \in 1..Len(s) : s[i] \in S
    BY <1>1, ElementOfSeq
<1>. QED BY <1>1, <1>2 DEF Range

LEMMA RangeOfAppend ==
    ASSUME NEW S, NEW s \in Seq(S), NEW x \in S
    PROVE  Range(Append(s, x)) = Range(s) \cup {x} /\ Append(s, x) \in Seq(S)
<1>1. /\ Append(s, x) \in Seq(S) /\ DOMAIN Append(s, x) = 1..(Len(s) + 1)
      /\ \A i \in 1..Len(s) : Append(s, x)[i] = s[i]
      /\ Append(s, x)[Len(s) + 1] = x
    BY AppendProperties, LenProperties
<1>2. \A i \in 1..(Len(s) + 1) : i \in 1..Len(s) \/ i = Len(s) + 1
    BY SeqElements
<1>3. \A i \in 1..Len(s) : i \in 1..(Len(s) + 1)
    BY SeqElements
<1>4. Len(s) + 1 \in 1..(Len(s) + 1)
    BY SeqElements
<1>. QED BY SeqElements, <1>1, <1>2, <1>3, <1>4 DEF Range

LEMMA RangeOfCons ==
    ASSUME NEW S, NEW s \in Seq(S), NEW x \in S
    PROVE  Range(<<x>> \o s) = Range(s) \cup {x} /\ <<x>> \o s \in Seq(S)
<1>. DEFINE t == <<x>>
<1>1. t \in Seq(S) /\ Len(t) = 1 /\ t[1] = x
    OBVIOUS
<1>. HIDE DEF t
<1>2. /\ t \o s \in Seq(S) /\ Len(t \o s) = 1 + Len(s)
      /\ \A i \in 1..(1 + Len(s)) : (t \o s)[i] = IF i <= 1 THEN t[i] ELSE s[i - 1]
    <2>1. /\ t \o s \in Seq(S) /\ Len(t \o s) = Len(t) + Len(s)
          /\ \A i \in 1..(Len(t) + Len(s)) :
                (t \o s)[i] = IF i <= Len(t) THEN t[i] ELSE s[i - Len(t)]
        BY <1>1, ConcatProperties
    <2>. QED BY <1>1, <2>1
<1>3. DOMAIN (t \o s) = 1..(1 + Len(s))
    BY <1>2, LenProperties
<1>4. \A i \in 1..(1 + Len(s)) : (t \o s)[i] \in Range(s) \cup {x}
    <2>. SUFFICES ASSUME NEW i \in 1..(1 + Len(s)) PROVE (t \o s)[i] \in Range(s) \cup {x}
        OBVIOUS
    <2>1. CASE i = 1
        BY <1>1, <1>2, <2>1
    <2>2. CASE i # 1
        <3>1. i - 1 \in 1..Len(s) /\ ~(i <= 1)
            BY SeqElements, <2>2
        <3>. QED BY SeqElements, <1>2, <3>1 DEF Range
    <2>. QED BY <2>1, <2>2
<1>5. \A i \in 1..Len(s) : i + 1 \in 1..(1 + Len(s)) /\ (t \o s)[i + 1] = s[i]
    <2>. SUFFICES ASSUME NEW i \in 1..Len(s)
                  PROVE  i + 1 \in 1..(1 + Len(s)) /\ (t \o s)[i + 1] = s[i]
        OBVIOUS
    <2>1. i + 1 \in 1..(1 + Len(s)) /\ ~(i + 1 <= 1) /\ (i + 1) - 1 = i
        BY SeqElements
    <2>. QED BY <1>2, <2>1
<1>6. 1 \in 1..(1 + Len(s)) /\ (t \o s)[1] = x
    BY SeqElements, <1>1, <1>2
<1>7. Range(t \o s) = {(t \o s)[i] : i \in 1..(1 + Len(s))}
    BY <1>3 DEF Range
<1>8. Range(t \o s) \subseteq Range(s) \cup {x}
    BY <1>4, <1>7
<1>9. ASSUME NEW y \in Range(s) \cup {x} PROVE y \in Range(t \o s)
    <2>1. CASE y = x
        BY <1>6, <1>7, <2>1
    <2>2. CASE y \in Range(s)
        <3>1. PICK i \in 1..Len(s) : y = s[i]
            BY SeqElements, <2>2 DEF Range
        <3>. QED BY <1>5, <1>7, <3>1
    <2>. QED BY <2>1, <2>2
<1>. QED BY <1>2, <1>8, <1>9 DEF t

LEMMA RequestsTyped ==
    /\ \A b \in Buckets, c \in Ids \cup {0} : Listing(b, c) \in Outstanding
    /\ \A S \in SUBSET Ids : Fetch(S) \in Outstanding
    /\ Asked("Inventory", NoBucket, 0, {}) \in Outstanding
<1>1. ASSUME NEW kind \in {"Inventory", "Listing", "Fetch"}, NEW b \in Buckets \cup {NoBucket},
             NEW c \in Ids \cup {0}, NEW S \in SUBSET Ids
      PROVE  Asked(kind, b, c, S) \in Outstanding
    BY DEF Asked, Outstanding, Requests
<1>2. ASSUME NEW b \in Buckets, NEW c \in Ids \cup {0} PROVE Listing(b, c) \in Outstanding
    BY <1>1 DEF Listing
<1>3. ASSUME NEW S \in SUBSET Ids PROVE Fetch(S) \in Outstanding
    BY <1>1 DEF Fetch
<1>4. Asked("Inventory", NoBucket, 0, {}) \in Outstanding
    BY <1>1
<1>. QED BY <1>2, <1>3, <1>4

\* pump_sync keeps the requests it is given, adds listings from the start of
\* a bucket only, and drops no bucket: each is listed or waits.
LEMMA PumpStep ==
    ASSUME NEW R \in Seq(Outstanding), NEW B \in Seq(Buckets), Pump(R, B)
    PROVE  /\ out' \in Seq(Outstanding) /\ differing' \in Seq(Buckets)
           /\ open' \in BOOLEAN /\ (~open' => out' = <<>> /\ differing' = <<>>)
           /\ \A x \in Range(R) : x \in Range(out')
           /\ \A x \in Range(out') : x \in Range(R) \/ \E b \in Buckets : x = Listing(b, 0)
           /\ \A b \in Range(B) : b \in Range(differing') \/ Listing(b, 0) \in Range(out')
<1>. DEFINE room == IF Len(R) >= MaxPending THEN 0 ELSE MaxPending - Len(R)
            n    == Smaller(room, Len(B))
            L    == [k \in 1..n |-> Listing(B[k], 0)]
            rest == SubSeq(B, n + 1, Len(B))
<1>1. out' = R \o L /\ differing' = rest /\ open' = (R \o L # <<>> \/ rest # <<>>)
    BY DEF Pump
<1>2. /\ Len(B) \in Nat /\ DOMAIN B = 1..Len(B) /\ \A i \in 1..Len(B) : B[i] \in Buckets
      /\ Len(R) \in Nat /\ DOMAIN R = 1..Len(R) /\ \A i \in 1..Len(R) : R[i] \in Outstanding
    BY SeqElements
<1>3. n \in Nat /\ n <= Len(B)
    BY <1>2, ConvergenceAssumption DEF Smaller
<1>. HIDE DEF room, n
<1>4. \A k \in 1..n : Listing(B[k], 0) \in Outstanding /\ B[k] \in Buckets
    <2>1. ASSUME NEW k \in 1..n PROVE B[k] \in Buckets
        <3>1. k \in 1..Len(B)
            BY <1>2, <1>3
        <3>. QED BY <1>2, <3>1
    <2>. QED BY <2>1, RequestsTyped
<1>5. L \in Seq(Outstanding) /\ Len(L) = n
    BY <1>3, <1>4
<1>6. \A k \in 1..n : L[k] = Listing(B[k], 0)
    OBVIOUS
<1>. HIDE DEF L
<1>7. /\ rest \in Seq(Buckets) /\ Len(rest) = Len(B) - n
      /\ \A i \in 1..(Len(B) - n) : rest[i] = B[n + i]
    <2>1. n + 1 \in Int /\ Len(B) \in Int /\ \A i \in (n + 1)..Len(B) : B[i] \in Buckets
        BY <1>2, <1>3
    <2>2. /\ rest \in Seq(Buckets)
          /\ Len(rest) = IF n + 1 <= Len(B) THEN Len(B) - (n + 1) + 1 ELSE 0
          /\ \A i \in 1..(Len(B) - (n + 1) + 1) : rest[i] = B[n + 1 + i - 1]
        BY <2>1, SubSeqProperties
    <2>3. n \in Int /\ Len(B) \in Int /\ n <= Len(B)
        BY <1>2, <1>3
    <2>4. Len(B) - (n + 1) + 1 = Len(B) - n /\ (~(n + 1 <= Len(B)) => Len(B) - n = 0)
        BY <2>3
    <2>5. \A i \in 1..(Len(B) - n) : n + 1 + i - 1 = n + i
        BY <2>3
    <2>. QED BY <2>2, <2>4, <2>5
<1>. HIDE DEF rest
<1>8. /\ R \o L \in Seq(Outstanding) /\ Len(R \o L) = Len(R) + n
      /\ \A i \in 1..(Len(R) + n) : (R \o L)[i] = IF i <= Len(R) THEN R[i] ELSE L[i - Len(R)]
    BY <1>5, ConcatProperties
<1>9. /\ DOMAIN (R \o L) = 1..(Len(R) + n)
      /\ \A x : x \in Range(R \o L) <=> \E i \in 1..(Len(R) + n) : x = (R \o L)[i]
      /\ \A x : x \in Range(R) <=> \E i \in 1..Len(R) : x = R[i]
    <2>1. DOMAIN (R \o L) = 1..(Len(R) + n)
        BY <1>8, LenProperties
    <2>. QED BY <1>2, <2>1 DEF Range
<1>10. ASSUME NEW x \in Range(R) PROVE x \in Range(R \o L)
    <2>1. PICK i \in 1..Len(R) : x = R[i]
        BY <1>9
    <2>2. i \in 1..(Len(R) + n) /\ i <= Len(R)
        BY <1>2, <1>3
    <2>. QED BY <1>8, <1>9, <2>1, <2>2
<1>11. ASSUME NEW x \in Range(R \o L)
       PROVE  x \in Range(R) \/ \E b \in Buckets : x = Listing(b, 0)
    <2>1. PICK i \in 1..(Len(R) + n) : x = (R \o L)[i]
        BY <1>9
    <2>2. CASE i <= Len(R)
        <3>1. i \in 1..Len(R) /\ x = R[i]
            BY <1>2, <1>8, <2>1, <2>2
        <3>. QED BY <1>9, <3>1
    <2>3. CASE ~(i <= Len(R))
        <3>1. i - Len(R) \in 1..n
            BY <1>2, <1>3, <2>3
        <3>2. x = L[i - Len(R)]
            BY <1>8, <2>1, <2>3
        <3>3. x = Listing(B[i - Len(R)], 0) /\ B[i - Len(R)] \in Buckets
            BY <1>4, <1>6, <3>1, <3>2
        <3>. QED BY <3>3
    <2>. QED BY <2>2, <2>3
<1>12. ASSUME NEW b \in Range(B)
       PROVE  b \in Range(rest) \/ Listing(b, 0) \in Range(R \o L)
    <2>1. PICK k \in 1..Len(B) : b = B[k]
        BY <1>2 DEF Range
    <2>2. CASE k <= n
        <3>1. k \in 1..n /\ Len(R) + k \in 1..(Len(R) + n) /\ ~(Len(R) + k <= Len(R))
              /\ (Len(R) + k) - Len(R) = k
            BY <1>2, <1>3, <2>2
        <3>2. (R \o L)[Len(R) + k] = L[k]
            BY <1>8, <3>1
        <3>3. L[k] = Listing(b, 0)
            BY <1>6, <2>1, <3>1
        <3>. QED BY <1>9, <3>1, <3>2, <3>3
    <2>3. CASE ~(k <= n)
        <3>1. k - n \in 1..(Len(B) - n) /\ n + (k - n) = k
            BY <1>2, <1>3, <2>3
        <3>2. rest[k - n] = B[k]
            BY <1>7, <3>1
        <3>3. k - n \in DOMAIN rest
            BY <1>7, <3>1, LenProperties
        <3>. QED BY <2>1, <3>2, <3>3 DEF Range
    <2>. QED BY <2>2, <2>3
<1>13. open' \in BOOLEAN /\ (~open' => R \o L = <<>> /\ rest = <<>>)
    BY <1>1
<1>. QED BY <1>1, <1>7, <1>8, <1>10, <1>11, <1>12, <1>13

-----------------------------------------------------------------------------
(* The exchange.                                                             *)

\* What an outstanding request names, once its answer was compared as well.
Fits(o) ==
    /\ o.req.kind = "Fetch" => Cardinality(o.req.ids) \in 1..MaxRequested
    /\ o.req.kind = "Listing" =>
        /\ o.req.bucket \in Buckets
        /\ o.req.cursor \in Cursors(o.req.bucket)
        /\ o.compared => /\ o.found \subseteq Ids
                         /\ Cardinality(o.found) <= MaxRequested
                         /\ o.next \in Cursors(o.req.bucket)
    /\ o.req.kind = "Inventory" /\ o.compared => o.found \subseteq Buckets

AllFit == \A o \in Range(out) : Fits(o)

\* The comparison of the inventory replaces the buckets that wait: there are
\* none, and nothing else is outstanding.
Alone ==
    \A k \in DOMAIN out : out[k].req.kind = "Inventory" => DOMAIN out = {k} /\ differing = <<>>

LineUp == TypeOK /\ AllFit /\ Alone

LEMMA ListingFits ==
    ASSUME NEW b \in Buckets, NEW c \in Cursors(b)
    PROVE  Fits(Listing(b, c)) /\ Listing(b, c).req.kind = "Listing"
BY DEF Fits, Listing, Asked

LEMMA FetchFits ==
    ASSUME NEW S \in SUBSET Ids, S # {}, Cardinality(S) <= MaxRequested
    PROVE  Fits(Fetch(S)) /\ Fetch(S).req.kind = "Fetch" /\ Fetch(S) \in Outstanding
<1>1. Cardinality(S) \in Nat /\ IsFiniteSet(S)
    BY IdsFinite
<1>2. Cardinality(S) # 0
    BY <1>1, FS_EmptySet
<1>3. Cardinality(S) \in 1..MaxRequested
    BY <1>1, <1>2, ConvergenceAssumption
<1>. QED BY <1>3, RequestsTyped DEF Fits, Fetch, Asked

\* A pump over requests that fit, none of them an inventory.
LEMMA PumpKeeps ==
    ASSUME NEW R \in Seq(Outstanding), NEW B \in Seq(Buckets), Pump(R, B),
           \A x \in Range(R) : Fits(x) /\ x.req.kind # "Inventory"
    PROVE  /\ out' \in Seq(Outstanding) /\ differing' \in Seq(Buckets)
           /\ open' \in BOOLEAN /\ (~open' => out' = <<>> /\ differing' = <<>>)
           /\ AllFit' /\ Alone'
<1>1. /\ out' \in Seq(Outstanding) /\ differing' \in Seq(Buckets)
      /\ open' \in BOOLEAN /\ (~open' => out' = <<>> /\ differing' = <<>>)
    BY PumpStep
<1>2. \A x \in Range(out') : x \in Range(R) \/ \E b \in Buckets : x = Listing(b, 0)
    BY PumpStep
<1>3. ASSUME NEW x \in Range(out') PROVE Fits(x) /\ x.req.kind # "Inventory"
    <2>1. CASE x \in Range(R)
        BY <2>1
    <2>2. CASE \E b \in Buckets : x = Listing(b, 0)
        BY <2>2, ListingFits, CursorsClosed
    <2>. QED BY <1>2, <2>1, <2>2
<1>4. AllFit'
    BY <1>3 DEF AllFit, Fits
<1>5. ASSUME NEW k \in DOMAIN out' PROVE out'[k].req.kind # "Inventory"
    BY <1>3 DEF Range
<1>6. Alone'
    BY <1>5 DEF Alone
<1>. QED BY <1>1, <1>4, <1>6

\* The request whose answer is handled is taken out: the others fit, and
\* there is no inventory among them.
LEMMA Others ==
    ASSUME LineUp, NEW k \in DOMAIN out
    PROVE  /\ RemoveAt(out, k) \in Seq(Outstanding)
           /\ \A x \in Range(RemoveAt(out, k)) : Fits(x) /\ x.req.kind # "Inventory"
           /\ \A i \in DOMAIN out : i # k => out[i] \in Range(RemoveAt(out, k))
           /\ out[k] \in Outstanding /\ Fits(out[k])
<1>1. out \in Seq(Outstanding)
    BY DEF LineUp, TypeOK
<1>2. /\ RemoveAt(out, k) \in Seq(Outstanding)
      /\ Range(RemoveAt(out, k)) = {out[i] : i \in DOMAIN out \ {k}}
    BY <1>1, Removed
<1>3. \A i \in DOMAIN out : out[i] \in Outstanding /\ Fits(out[i])
    <2>1. \A i \in DOMAIN out : out[i] \in Range(out)
        BY DEF Range
    <2>. QED BY <1>1, <2>1, SeqElements DEF LineUp, AllFit
<1>4. \A i \in DOMAIN out \ {k} : out[i].req.kind # "Inventory"
    BY DEF LineUp, Alone
<1>. QED BY <1>2, <1>3, <1>4

\* The sequence of requests an answered listing leaves.
LEMMA AfterListing ==
    ASSUME LineUp, NEW k \in DOMAIN out, out[k].req.kind = "Listing", out[k].compared,
           IdsCompared(k)
    PROVE  \E R \in Seq(Outstanding), B \in Seq(Buckets) :
              /\ Pump(R, B)
              /\ \A x \in Range(R) : Fits(x) /\ x.req.kind # "Inventory"
              /\ \A x \in Range(RemoveAt(out, k)) : x \in Range(R)
              /\ \A b \in Range(differing) : b \in Range(B)
              /\ out[k].found # {} => Fetch(out[k].found) \in Range(R)
              /\ out[k].next # 0 => \/ Listing(out[k].req.bucket, out[k].next) \in Range(R)
                                    \/ out[k].req.bucket \in Range(B)
<1>. DEFINE r       == out[k].req
            others  == RemoveAt(out, k)
            fetched == IF out[k].found = {} THEN others ELSE Append(others, Fetch(out[k].found))
            more    == out[k].next # 0
            room    == Len(fetched) < MaxPending
            R       == IF more /\ room THEN Append(fetched, Listing(r.bucket, out[k].next)) ELSE fetched
            B       == IF more /\ ~room THEN <<r.bucket>> \o differing ELSE differing
<1>1. Pump(R, B)
    BY DEF IdsCompared
<1>2. /\ r.bucket \in Buckets /\ out[k].found \in SUBSET Ids
      /\ Cardinality(out[k].found) <= MaxRequested
      /\ out[k].next \in Ids \cup {0} /\ out[k].next \in Cursors(r.bucket)
    <2>1. out[k] \in Outstanding /\ Fits(out[k])
        BY Others
    <2>. QED BY <2>1 DEF Fits, Outstanding
<1>3. /\ others \in Seq(Outstanding)
      /\ \A x \in Range(others) : Fits(x) /\ x.req.kind # "Inventory"
    BY Others
<1>. HIDE DEF others
<1>4. /\ fetched \in Seq(Outstanding)
      /\ \A x \in Range(fetched) : Fits(x) /\ x.req.kind # "Inventory"
      /\ \A x \in Range(others) : x \in Range(fetched)
      /\ out[k].found # {} => Fetch(out[k].found) \in Range(fetched)
    <2>1. CASE out[k].found = {}
        BY <1>3, <2>1
    <2>2. CASE out[k].found # {}
        <3>. DEFINE f == Fetch(out[k].found)
        <3>1. f \in Outstanding /\ Fits(f) /\ f.req.kind = "Fetch"
            BY <1>2, <2>2, FetchFits
        <3>2. fetched = Append(others, f)
            BY <2>2
        <3>. HIDE DEF f, fetched
        <3>3. Range(fetched) = Range(others) \cup {f} /\ fetched \in Seq(Outstanding)
            BY <1>3, <3>1, <3>2, RangeOfAppend
        <3>. QED BY <1>3, <3>1, <3>3 DEF f
    <2>. QED BY <2>1, <2>2
<1>. HIDE DEF fetched, room
<1>5. /\ R \in Seq(Outstanding)
      /\ \A x \in Range(R) : Fits(x) /\ x.req.kind # "Inventory"
      /\ \A x \in Range(fetched) : x \in Range(R)
      /\ more /\ room => Listing(r.bucket, out[k].next) \in Range(R)
    <2>1. CASE ~(more /\ room)
        BY <1>4, <2>1
    <2>2. CASE more /\ room
        <3>. DEFINE l == Listing(r.bucket, out[k].next)
        <3>1. l \in Outstanding /\ Fits(l) /\ l.req.kind = "Listing"
            BY <1>2, ListingFits, RequestsTyped
        <3>2. R = Append(fetched, l)
            BY <2>2
        <3>. HIDE DEF l, R
        <3>3. Range(R) = Range(fetched) \cup {l} /\ R \in Seq(Outstanding)
            BY <1>4, <3>1, <3>2, RangeOfAppend
        <3>. QED BY <1>4, <3>1, <3>3 DEF l
    <2>. QED BY <2>1, <2>2
<1>6. /\ B \in Seq(Buckets) /\ \A b \in Range(differing) : b \in Range(B)
      /\ more /\ ~room => r.bucket \in Range(B)
    <2>0. differing \in Seq(Buckets)
        BY DEF LineUp, TypeOK
    <2>1. CASE ~(more /\ ~room)
        BY <2>0, <2>1
    <2>2. CASE more /\ ~room
        <3>1. B = <<r.bucket>> \o differing
            BY <2>2
        <3>. DEFINE b == r.bucket
        <3>2. b \in Buckets
            BY <1>2
        <3>. HIDE DEF B, b
        <3>3. Range(<<b>> \o differing) = Range(differing) \cup {b} /\ <<b>> \o differing \in Seq(Buckets)
            BY <2>0, <3>2, RangeOfCons
        <3>. QED BY <3>1, <3>3 DEF b
    <2>. QED BY <2>1, <2>2
<1>. HIDE DEF R, B
<1>7. /\ \A x \in Range(others) : x \in Range(R)
      /\ out[k].found # {} => Fetch(out[k].found) \in Range(R)
    BY <1>4, <1>5
<1>. QED BY <1>1, <1>5, <1>6, <1>7 DEF others

-----------------------------------------------------------------------------
(* The shape of the exchange is kept by every step.                          *)

\* The same request with its answer.
Answered(o, p, F, c) ==
    p \in Outstanding /\ p.req = o.req /\ p.compared /\ p.found = F /\ p.next = c

LEMMA FieldsSet ==
    ASSUME NEW o \in Outstanding, NEW F \in SUBSET (Ids \cup Buckets), NEW c \in Ids \cup {0}
    PROVE  /\ Answered(o, [[[o EXCEPT !.compared = TRUE] EXCEPT !.found = F] EXCEPT !.next = c],
                       F, c)
           /\ Answered(o, [[o EXCEPT !.compared = TRUE] EXCEPT !.found = F], F, o.next)
<1>. DEFINE o1 == [o EXCEPT !.compared = TRUE]
            o2 == [o1 EXCEPT !.found = F]
            o3 == [o2 EXCEPT !.next = c]
<1>1. o1 \in Outstanding /\ o1.compared /\ o1.req = o.req /\ o1.next = o.next
    BY DEF Outstanding
<1>. HIDE DEF o1
<1>2. o2 \in Outstanding /\ o2.compared /\ o2.req = o.req /\ o2.next = o.next /\ o2.found = F
    BY <1>1 DEF Outstanding
<1>. HIDE DEF o2
<1>3. o3 \in Outstanding /\ o3.compared /\ o3.req = o.req /\ o3.next = c /\ o3.found = F
    BY <1>2 DEF Outstanding
<1>. HIDE DEF o3
<1>. QED BY <1>2, <1>3 DEF Answered, o1, o2, o3

\* A comparison changes one request and leaves the others.
LEMMA ComparedStep ==
    ASSUME LineUp, NEW k \in DOMAIN out, NEW F, NEW c, NEW o,
           Answered(out[k], o, F, c), out' = [out EXCEPT ![k] = o]
    PROVE  /\ out' \in Seq(Outstanding) /\ DOMAIN out' = DOMAIN out
           /\ \A i \in DOMAIN out : i # k => out'[i] = out[i]
           /\ Answered(out[k], out'[k], F, c)
           /\ Fits(o) => AllFit'
           /\ UNCHANGED differing => Alone'
<1>1. /\ out \in Seq(Outstanding) /\ Len(out) \in Nat /\ DOMAIN out = 1..Len(out)
      /\ \A i \in 1..Len(out) : out[i] \in Outstanding
    BY SeqElements DEF LineUp, TypeOK
<1>2. o \in Outstanding /\ o.req = out[k].req
    BY DEF Answered
<1>3. out' = [i \in DOMAIN out |-> IF i = k THEN o ELSE out[i]]
    BY <1>1
<1>5. /\ DOMAIN out' = DOMAIN out
      /\ \A i \in DOMAIN out : i # k => out'[i] = out[i]
      /\ out'[k] = o
    BY <1>3
<1>6. out' \in Seq(Outstanding)
    <2>1. out' \in [1..Len(out) -> Outstanding]
        BY <1>1, <1>2, <1>3
    <2>. QED BY <1>1, <2>1
<1>7. ASSUME Fits(o) PROVE AllFit'
    <2>1. ASSUME NEW i \in DOMAIN out' PROVE Fits(out'[i])
        <3>1. CASE i = k
            BY <1>5, <1>7, <3>1
        <3>2. CASE i # k
            <4>1. out[i] \in Range(out) /\ out'[i] = out[i]
                BY <1>5, <3>2 DEF Range
            <4>. QED BY <4>1 DEF LineUp, AllFit
        <3>. QED BY <3>1, <3>2
    <2>. QED BY <2>1 DEF AllFit, Fits, Range
<1>8. ASSUME UNCHANGED differing PROVE Alone'
    <2>1. \A i \in DOMAIN out' : out'[i].req = out[i].req
        BY <1>2, <1>5
    <2>. QED BY <1>5, <1>8, <2>1 DEF LineUp, Alone
<1>. QED BY <1>5, <1>6, <1>7, <1>8

LEMMA CursorsAreNat == \A c \in Ids \cup {0} : c \in Nat
<1>1. Ids \subseteq Nat
    BY IdsFinite
<1>. QED BY <1>1

LEMMA ListingTyped ==
    ASSUME LineUp, NEW k \in DOMAIN out, out[k].req.kind = "Listing"
    PROVE  /\ out[k].req.bucket \in Buckets
           /\ out[k].req.cursor \in Ids \cup {0} /\ out[k].req.cursor \in Nat
           /\ out[k].req.cursor \in Cursors(out[k].req.bucket)
<1>1. out[k] \in Outstanding /\ Fits(out[k])
    BY Others
<1>. DEFINE c == out[k].req.cursor
<1>2. out[k].req.bucket \in Buckets /\ c \in Ids \cup {0} /\ c \in Cursors(out[k].req.bucket)
    BY <1>1 DEF Fits, Outstanding, Requests
<1>. HIDE DEF c
<1>3. c \in Nat
    BY <1>2, CursorsAreNat
<1>. QED BY <1>2, <1>3 DEF c

LEMMA Counted ==
    ASSUME TypeOK, NEW wrong \in BOOLEAN, Counting(wrong)
    PROVE  errors' \in 0..MaxErrors
BY ConvergenceAssumption DEF TypeOK, Counting

LEMMA RecordsTyped ==
    /\ \A S \in SUBSET Ids : RecordsOf(S) \in SUBSET Records
    /\ \A i \in Ids : Record[i] \in Records
BY ConvergenceAssumption DEF RecordsOf

LEMMA InventoryStep ==
    ASSUME LineUp, NEW k \in DOMAIN out, CompareInventory(k)
    PROVE  /\ LineUp' /\ k \in DOMAIN out'
           /\ \E read \in BOOLEAN :
                Answered(out[k], out'[k], DifferingBuckets(read), out[k].next)
<1>1. PICK read \in BOOLEAN :
          /\ Counting(~read)
          /\ out' = [out EXCEPT ![k].compared = TRUE, ![k].found = DifferingBuckets(read)]
    BY DEF CompareInventory
<1>. DEFINE F == DifferingBuckets(read)
<1>2. F \in SUBSET (Ids \cup Buckets) /\ F \subseteq Buckets
    BY DEF DifferingBuckets, Inventory, First
<1>3. /\ out[k].req.kind = "Inventory"
      /\ UNCHANGED <<have, queue, replay, allowance, safetyMode, open, differing, lost>>
    BY DEF CompareInventory
<1>4. errors' \in 0..MaxErrors
    BY <1>1, Counted DEF LineUp
<1>. HIDE DEF F
<1>. DEFINE o == [[out[k] EXCEPT !.compared = TRUE] EXCEPT !.found = F]
<1>5. Answered(out[k], o, F, out[k].next)
    <2>1. out[k] \in Outstanding /\ 0 \in Ids \cup {0}
        BY Others
    <2>. QED BY <1>2, <2>1, FieldsSet
<1>6. out' = [out EXCEPT ![k] = o]
    BY <1>1 DEF F
<1>. HIDE DEF o
<1>7. /\ out' \in Seq(Outstanding) /\ DOMAIN out' = DOMAIN out
      /\ Answered(out[k], out'[k], F, out[k].next)
      /\ (Fits(o) => AllFit') /\ (UNCHANGED differing => Alone')
    BY <1>5, <1>6, ComparedStep
<1>8. Fits(o)
    BY <1>2, <1>3, <1>5 DEF Answered, Fits
<1>9. TypeOK'
    BY <1>3, <1>4, <1>7 DEF LineUp, TypeOK
<1>. QED BY <1>3, <1>7, <1>8, <1>9 DEF LineUp, F

LEMMA IdsStep ==
    ASSUME LineUp, NEW k \in DOMAIN out, CompareIds(k)
    PROVE  /\ LineUp'
           /\ DOMAIN out' = DOMAIN out
           /\ \A i \in DOMAIN out : i # k => out'[i] = out[i]
           /\ \E read \in BOOLEAN :
                Answered(out[k], out'[k],
                         Missing(Page(out[k].req.bucket, out[k].req.cursor), read),
                         NextCursor(out[k].req.bucket, out[k].req.cursor))
<1>. DEFINE b == out[k].req.bucket
            c == out[k].req.cursor
            n == NextCursor(b, c)
<1>0. PICK read \in BOOLEAN :
          /\ Counting(~read)
          /\ out' = [out EXCEPT ![k].compared = TRUE, ![k].found = Missing(Page(b, c), read),
                                ![k].next = n]
    BY DEF CompareIds
<1>. DEFINE F == Missing(Page(b, c), read)
            o == [[[out[k] EXCEPT !.compared = TRUE] EXCEPT !.found = F] EXCEPT !.next = n]
<1>1. /\ out[k] \in Outstanding /\ out[k].req.kind = "Listing"
      /\ b \in Buckets /\ c \in Ids \cup {0} /\ c \in Nat /\ c \in Cursors(b)
    <2>1. out[k] \in Outstanding
        BY Others
    <2>2. out[k].req.kind = "Listing"
        BY DEF CompareIds
    <2>. QED BY <2>1, <2>2, ListingTyped
<1>2. out' = [out EXCEPT ![k] = o]
    BY <1>0
<1>10. /\ errors' \in 0..MaxErrors
       /\ UNCHANGED <<have, queue, replay, allowance, safetyMode, open, differing, lost>>
    BY <1>0, Counted DEF LineUp, CompareIds
<1>. HIDE DEF b, c
<1>3. Page(b, c) \in SUBSET Ids /\ n \in Ids \cup {0} /\ n \in Cursors(b)
    BY <1>1, PageProperties, CursorsClosed
<1>4. F \in SUBSET (Ids \cup Buckets) /\ F \subseteq Ids /\ Cardinality(F) <= MaxRequested
    BY <1>3, MissingProperties DEF LineUp, TypeOK
<1>. HIDE DEF F, n
<1>5. Answered(out[k], o, F, n)
    BY <1>1, <1>3, <1>4, FieldsSet
<1>. HIDE DEF o
<1>6. /\ out' \in Seq(Outstanding) /\ DOMAIN out' = DOMAIN out
      /\ \A i \in DOMAIN out : i # k => out'[i] = out[i]
      /\ Answered(out[k], out'[k], F, n)
      /\ (Fits(o) => AllFit') /\ (UNCHANGED differing => Alone')
    BY <1>2, <1>5, ComparedStep
<1>7. Fits(o)
    BY <1>1, <1>3, <1>4, <1>5 DEF Answered, Fits, b, c
<1>8. TypeOK'
    BY <1>6, <1>10 DEF LineUp, TypeOK
<1>9. LineUp'
    BY <1>6, <1>7, <1>8, <1>10 DEF LineUp
<1>. QED BY <1>6, <1>9 DEF F, n, b, c

\* The comparison of the inventory is done: nothing else is outstanding, and
\* the buckets that differ are listed or wait.
LEMMA InventoryDone ==
    ASSUME LineUp, NEW k \in DOMAIN out, InventoryCompared(k)
    PROVE  /\ DOMAIN out = {k} /\ differing = <<>> /\ out[k].found \subseteq Buckets
           /\ RemoveAt(out, k) \in Seq(Outstanding) /\ Sorted(out[k].found) \in Seq(Buckets)
           /\ \A b \in out[k].found : b \in Range(Sorted(out[k].found))
           /\ \A x \in Range(RemoveAt(out, k)) : Fits(x) /\ x.req.kind # "Inventory"
<1>1. DOMAIN out = {k} /\ differing = <<>>
    BY DEF LineUp, Alone, InventoryCompared
<1>. DEFINE D == out[k].found
<1>2. D \in SUBSET Buckets
    <2>1. Fits(out[k])
        BY Others
    <2>. QED BY <2>1 DEF Fits, InventoryCompared
<1>. HIDE DEF D
<1>3. D \subseteq Nat /\ IsFiniteSet(D)
    BY <1>2, FS_Subset, ConvergenceAssumption
<1>4. Sorted(D) \in Seq(D) /\ \A x \in D : \E j \in DOMAIN Sorted(D) : Sorted(D)[j] = x
    BY <1>3, SortedLists
<1>5. Sorted(D) \in Seq(Buckets)
    BY <1>2, <1>4
<1>6. \A x \in D : x \in Range(Sorted(D))
    BY <1>4 DEF Range
<1>7. /\ RemoveAt(out, k) \in Seq(Outstanding)
      /\ \A x \in Range(RemoveAt(out, k)) : Fits(x) /\ x.req.kind # "Inventory"
    BY Others
<1>. QED BY <1>1, <1>2, <1>5, <1>6, <1>7 DEF D

\* What is taken fits the queue.
LEMMA QueueStep ==
    ASSUME TypeOK, NEW new \in SUBSET Ids, NEW n \in Nat, n <= QueueCap - Cardinality(queue),
           queue' = queue \cup First(new, n)
    PROVE  queue' \subseteq Ids /\ Cardinality(queue') <= QueueCap
<1>. DEFINE T == First(new, n)
<1>1. /\ queue \in SUBSET Ids /\ IsFiniteSet(queue) /\ Cardinality(queue) \in Nat
      /\ new \subseteq Nat /\ IsFiniteSet(new)
      /\ QueueCap \in Nat
    BY IdsFinite, ConvergenceAssumption DEF TypeOK
<1>2. T \subseteq new /\ IsFiniteSet(T) /\ Cardinality(T) \in Nat /\ Cardinality(T) <= n
    BY <1>1, FirstProperties
<1>3. queue' = queue \cup T
    OBVIOUS
<1>. HIDE DEF T
<1>4. Cardinality(queue \cup T) <= Cardinality(queue) + Cardinality(T)
    <2>1. /\ Cardinality(queue \cup T)
                 = Cardinality(queue) + Cardinality(T) - Cardinality(queue \cap T)
          /\ IsFiniteSet(queue \cup T)
        BY <1>1, <1>2, FS_Union
    <2>2. Cardinality(queue \cap T) \in Nat
        BY <1>1, FS_Intersection, FS_CardinalityType
    <2>. QED BY <1>1, <1>2, <2>1, <2>2
<1>5. Cardinality(queue \cup T) \in Nat
    BY <1>1, <1>2, FS_Union, FS_CardinalityType
<1>6. queue' \subseteq Ids
    BY <1>1, <1>2, <1>3
<1>7. Cardinality(queue \cup T) <= QueueCap
    BY <1>1, <1>2, <1>4, <1>5
<1>. QED BY <1>3, <1>6, <1>7

LEMMA NewRecords ==
    ASSUME LineUp, NEW k \in DOMAIN out, ReceiveRecords(k)
    PROVE  /\ out[k].req.ids \subseteq Ids
           /\ queue' \subseteq Ids /\ Cardinality(queue') <= QueueCap
           /\ replay' \in ReplayStates /\ allowance' \in 0..SourceLimit
           /\ errors' \in 0..MaxErrors
           /\ lost' \in BOOLEAN
           /\ queue \subseteq queue'
           /\ ~lost' => ~lost /\ out[k].req.ids \subseteq have \cup queue'
<1>. DEFINE asked == out[k].req.ids
            room == QueueCap - Cardinality(queue)
            n == Smaller(allowance, room)
            spent(N) == Smaller(allowance, Smaller(Cardinality(N), room + 1))
<1>0. TypeOK
    BY DEF LineUp
<1>1. PICK valid \in SUBSET asked :
          LET new   == {i \in valid : ~safetyMode /\ Check(replay, Record[i]) = "New"}
              taken == First(new, n)
          IN  /\ Counting(valid # asked)
              /\ queue' = queue \cup taken
              /\ replay' = [replay EXCEPT !.recent = @ \cup RecordsOf(taken)]
              /\ allowance' = allowance - spent(new)
              /\ lost' = (lost \/ ~(asked \subseteq have \cup queue \cup taken))
    BY DEF ReceiveRecords
<1>. DEFINE new   == {i \in valid : ~safetyMode /\ Check(replay, Record[i]) = "New"}
            taken == First(new, n)
<1>2. /\ Counting(valid # asked)
      /\ queue' = queue \cup taken
      /\ replay' = [replay EXCEPT !.recent = @ \cup RecordsOf(taken)]
      /\ allowance' = allowance - spent(new)
      /\ lost' = (lost \/ ~(asked \subseteq have \cup queue \cup taken))
    BY <1>1
<1>3. asked \in SUBSET Ids
    <2>1. out[k] \in Outstanding
        BY Others
    <2>. QED BY <2>1 DEF Outstanding, Requests
<1>4. new \in SUBSET Ids /\ taken \in SUBSET Ids
    BY <1>3 DEF First
<1>5. /\ Cardinality(queue) \in Nat /\ Cardinality(new) \in Nat
      /\ Cardinality(queue) <= QueueCap /\ QueueCap \in Nat
      /\ SourceLimit \in Nat /\ allowance \in 0..SourceLimit
    <2>1. queue \in SUBSET Ids
        BY <1>0 DEF TypeOK
    <2>2. Cardinality(queue) \in Nat
        BY <2>1, IdsFinite
    <2>3. Cardinality(new) \in Nat
        <3>. HIDE DEF new
        <3>. QED BY <1>4, IdsFinite
    <2>. QED BY <1>0, <2>2, <2>3, ConvergenceAssumption DEF TypeOK
<1>6. errors' \in 0..MaxErrors
    <2>1. (valid # asked) \in BOOLEAN
        OBVIOUS
    <2>. QED BY <1>0, <1>2, <2>1, Counted
<1>. HIDE DEF new, asked
<1>7. n \in Nat /\ n <= QueueCap - Cardinality(queue)
    BY <1>5 DEF Smaller
<1>8. allowance' \in 0..SourceLimit
    BY <1>2, <1>5 DEF Smaller
<1>. HIDE DEF n
<1>9. queue' \subseteq Ids /\ Cardinality(queue') <= QueueCap
    BY <1>0, <1>2, <1>4, <1>7, QueueStep
<1>. HIDE DEF taken
<1>10. replay' \in ReplayStates
    BY <1>0, <1>2, <1>4, RecordsTyped, MarkPendingTyped DEF TypeOK
<1>11. lost' \in BOOLEAN /\ (~lost' => ~lost /\ asked \subseteq have \cup queue')
    BY <1>0, <1>2 DEF TypeOK
<1>. QED BY <1>2, <1>3, <1>6, <1>8, <1>9, <1>10, <1>11 DEF asked

LEMMA LineUpStart == Init => LineUp
<1>. SUFFICES ASSUME Init PROVE LineUp
    OBVIOUS
<1>1. Cardinality(queue) = 0 /\ QueueCap \in Nat /\ MaxErrors \in Nat /\ Initial \subseteq Ids
      /\ SourceLimit \in Nat
    BY FS_EmptySet, ConvergenceAssumption DEF Init
<1>4. replay \in ReplayStates
    <2>. DEFINE rows == RecordsOf(Initial)
                high == [o \in Origins |-> SetMax({0} \cup SeqsOf(rows, o))]
    <2>1. rows \in SUBSET Records
        BY <1>1, RecordsTyped
    <2>2. replay = AcceptSeeds(LoadPersistent(high, rows), rows)
        BY DEF Init
    <2>. HIDE DEF rows
    <2>3. ASSUME NEW o \in Origins PROVE SetMax({0} \cup SeqsOf(rows, o)) \in Sequences
        <3>1. {0} \cup SeqsOf(rows, o) \in SUBSET Sequences
            BY <2>1, SeqsOfTyped, ReplayAssumption DEF Sequences
        <3>. QED BY <3>1, SetMaxIsMax
    <2>4. high \in [Origins -> Sequences]
        BY <2>3
    <2>. HIDE DEF high
    <2>. QED BY <2>1, <2>2, <2>4, LoadedTyped
<1>2. TypeOK
    <2>1. differing \in Seq(Buckets)
        BY DEF Init
    <2>2. out \in Seq(Outstanding)
        BY DEF Init
    <2>3. have \subseteq Ids /\ queue \subseteq Ids /\ Cardinality(queue) <= QueueCap
          /\ errors \in 0..MaxErrors
        BY <1>1 DEF Init
    <2>4. open \in BOOLEAN /\ lost \in BOOLEAN /\ (~open => out = <<>> /\ differing = <<>>)
          /\ safetyMode \in BOOLEAN
        BY DEF Init
    <2>5. allowance \in 0..SourceLimit
        BY <1>1 DEF Init
    <2>. QED BY <1>4, <2>5, <2>1, <2>2, <2>3, <2>4 DEF TypeOK
<1>3. AllFit /\ Alone
    BY DEF Init, AllFit, Alone, Range
<1>. QED BY <1>2, <1>3 DEF LineUp

LEMMA LineUpStep == LineUp /\ [Next]_vars => LineUp'
<1>. SUFFICES ASSUME LineUp, [Next]_vars PROVE LineUp'
    OBVIOUS
<1>0. TypeOK
    BY DEF LineUp
<1>1. CASE StartSync
    <2>. DEFINE o == Asked("Inventory", NoBucket, 0, {})
    <2>1. o \in Outstanding /\ ~o.compared /\ o.req.kind = "Inventory"
        BY RequestsTyped DEF Asked
    <2>2. Fits(o)
        BY <2>1 DEF Fits
    <2>3. out' = <<o>> /\ differing = <<>> /\ UNCHANGED <<have, queue, replay, allowance, safetyMode, differing, errors>>
          /\ open' = TRUE /\ lost' = FALSE
        BY <1>0, <1>1 DEF StartSync, TypeOK
    <2>. HIDE DEF o
    <2>4. out' \in Seq(Outstanding) /\ DOMAIN out' = {1} /\ out'[1] = o
        BY <2>1, <2>3
    <2>5. TypeOK'
        BY <1>0, <2>3, <2>4 DEF TypeOK
    <2>6. AllFit'
        BY <2>2, <2>4 DEF AllFit, Range, Fits
    <2>7. Alone'
        BY <2>3, <2>4 DEF Alone
    <2>. QED BY <2>5, <2>6, <2>7 DEF LineUp
<1>2. ASSUME NEW k \in DOMAIN out, CompareInventory(k) PROVE LineUp'
    BY <1>2, InventoryStep
<1>3. ASSUME NEW k \in DOMAIN out, InventoryCompared(k) PROVE LineUp'
    <2>1. /\ RemoveAt(out, k) \in Seq(Outstanding) /\ Sorted(out[k].found) \in Seq(Buckets)
          /\ \A x \in Range(RemoveAt(out, k)) : Fits(x) /\ x.req.kind # "Inventory"
        BY <1>3, InventoryDone
    <2>2. Pump(RemoveAt(out, k), Sorted(out[k].found))
          /\ UNCHANGED <<have, queue, replay, allowance, safetyMode, lost, errors>>
        BY <1>3 DEF InventoryCompared
    <2>3. /\ out' \in Seq(Outstanding) /\ differing' \in Seq(Buckets)
          /\ open' \in BOOLEAN /\ (~open' => out' = <<>> /\ differing' = <<>>)
          /\ AllFit' /\ Alone'
        BY <2>1, <2>2, PumpKeeps
    <2>4. TypeOK'
        BY <1>0, <2>2, <2>3 DEF TypeOK
    <2>. QED BY <2>3, <2>4 DEF LineUp
<1>4. ASSUME NEW k \in DOMAIN out, CompareIds(k) PROVE LineUp'
    BY <1>4, IdsStep
<1>5. ASSUME NEW k \in DOMAIN out, IdsCompared(k) PROVE LineUp'
    <2>1. /\ out[k].req.kind = "Listing" /\ out[k].compared
          /\ UNCHANGED <<have, queue, replay, allowance, safetyMode, lost, errors>>
        BY <1>5 DEF IdsCompared
    <2>2. PICK R \in Seq(Outstanding), B \in Seq(Buckets) :
              Pump(R, B) /\ \A x \in Range(R) : Fits(x) /\ x.req.kind # "Inventory"
        BY <1>5, <2>1, AfterListing
    <2>3. /\ out' \in Seq(Outstanding) /\ differing' \in Seq(Buckets)
          /\ open' \in BOOLEAN /\ (~open' => out' = <<>> /\ differing' = <<>>)
          /\ AllFit' /\ Alone'
        BY <2>2, PumpKeeps
    <2>4. TypeOK'
        BY <1>0, <2>1, <2>3 DEF TypeOK
    <2>. QED BY <2>3, <2>4 DEF LineUp
<1>6. ASSUME NEW k \in DOMAIN out,
             Pump(RemoveAt(out, k), differing)
      PROVE  /\ out' \in Seq(Outstanding) /\ differing' \in Seq(Buckets)
             /\ open' \in BOOLEAN /\ (~open' => out' = <<>> /\ differing' = <<>>)
             /\ AllFit' /\ Alone'
    <2>1. /\ RemoveAt(out, k) \in Seq(Outstanding) /\ differing \in Seq(Buckets)
          /\ \A x \in Range(RemoveAt(out, k)) : Fits(x) /\ x.req.kind # "Inventory"
        BY <1>0, Others DEF TypeOK
    <2>. QED BY <1>6, <2>1, PumpKeeps
<1>7. ASSUME NEW k \in DOMAIN out, ReceiveRecords(k) PROVE LineUp'
    <2>1. Pump(RemoveAt(out, k), differing) /\ UNCHANGED <<have, safetyMode>>
        BY <1>7 DEF ReceiveRecords
    <2>2. /\ queue' \subseteq Ids /\ Cardinality(queue') <= QueueCap /\ lost' \in BOOLEAN
          /\ replay' \in ReplayStates /\ allowance' \in 0..SourceLimit
          /\ errors' \in 0..MaxErrors
        BY <1>7, NewRecords
    <2>3. TypeOK'
        BY <1>0, <1>6, <2>1, <2>2 DEF TypeOK
    <2>. QED BY <1>6, <2>1, <2>3 DEF LineUp
<1>8. ASSUME NEW k \in DOMAIN out, RequestFails(k) PROVE LineUp'
    <2>1. /\ Pump(RemoveAt(out, k), differing)
          /\ UNCHANGED <<have, queue, replay, allowance, safetyMode>>
          /\ lost' = TRUE /\ Counting(TRUE)
        BY <1>8 DEF RequestFails
    <2>2. errors' \in 0..MaxErrors
        BY <1>0, <2>1, Counted
    <2>3. TypeOK'
        BY <1>0, <1>6, <2>1, <2>2 DEF TypeOK
    <2>. QED BY <1>6, <2>1, <2>3 DEF LineUp
<1>9. ASSUME NEW Q \in SUBSET queue, queue' = Q,
             have' \subseteq Ids, replay' \in ReplayStates, allowance' \in 0..SourceLimit,
             safetyMode' \in BOOLEAN, lost' \in BOOLEAN, errors' \in 0..MaxErrors,
             UNCHANGED <<open, differing, out>>
      PROVE  LineUp'
    <2>1. queue' \subseteq Ids /\ Cardinality(queue') <= QueueCap
        <3>1. queue \in SUBSET Ids /\ IsFiniteSet(queue) /\ Cardinality(queue) \in Nat
            BY <1>0, IdsFinite DEF TypeOK
        <3>2. IsFiniteSet(Q) /\ Cardinality(Q) <= Cardinality(queue) /\ Cardinality(Q) \in Nat
            BY <3>1, FS_Subset, FS_CardinalityType
        <3>. QED BY <1>0, <1>9, <3>1, <3>2, ConvergenceAssumption DEF TypeOK
    <2>2. TypeOK'
        BY <1>0, <1>9, <2>1 DEF TypeOK
    <2>. QED BY <1>9, <2>2 DEF LineUp, AllFit, Alone, Range, Fits
<1>10. CASE Commit
    <2>1. PICK i \in queue : /\ have' = have \cup {i} /\ queue' = queue \ {i}
                             /\ replay' = Accept(replay, Record[i])
        BY <1>10 DEF Commit
    <2>2. UNCHANGED <<allowance, safetyMode, open, differing, out, lost, errors>>
        BY <1>10 DEF Commit, sessionVars
    <2>3. replay' \in ReplayStates /\ have' \subseteq Ids
        <3>1. i \in Ids /\ Record[i] \in Records
            BY <1>0, RecordsTyped DEF TypeOK
        <3>. QED BY <1>0, <2>1, <3>1, AcceptTyped DEF TypeOK
    <2>. QED BY <1>0, <1>9, <2>1, <2>2, <2>3 DEF TypeOK
<1>11. CASE BatchFails
    <2>1. PICK batch \in SUBSET queue :
              /\ queue' = queue \ batch
              /\ replay' = [replay EXCEPT !.recent = @ \ RecordsOf(batch)]
        BY <1>11 DEF BatchFails
    <2>2. /\ safetyMode' = TRUE /\ lost' = TRUE /\ Counting(TRUE)
          /\ UNCHANGED <<have, allowance, open, differing, out>>
        BY <1>11 DEF BatchFails
    <2>3. replay' \in ReplayStates
        BY <1>0, <2>1 DEF TypeOK, ReplayStates
    <2>4. errors' \in 0..MaxErrors
        BY <1>0, <2>2, Counted
    <2>5. have' \subseteq Ids /\ allowance' \in 0..SourceLimit
        BY <1>0, <2>2 DEF TypeOK
    <2>. QED BY <1>9, <2>1, <2>2, <2>3, <2>4, <2>5
<1>12. CASE TurnUnsafe \/ TurnSafe \/ Refill \/ SpendElsewhere
    <2>1. UNCHANGED <<have, queue, replay, open, differing, out, lost>>
        BY <1>12 DEF TurnUnsafe, TurnSafe, Refill, SpendElsewhere, sessionVars
    <2>2. safetyMode' \in BOOLEAN
        BY <1>0, <1>12 DEF TurnUnsafe, TurnSafe, Refill, SpendElsewhere, TypeOK
    <2>3. allowance' \in 0..SourceLimit
        <3>1. \/ UNCHANGED allowance
              \/ allowance < SourceLimit /\ allowance' = allowance + 1
              \/ allowance > 0 /\ allowance' = allowance - 1
            BY <1>12 DEF TurnUnsafe, TurnSafe, Refill, SpendElsewhere
        <3>2. allowance \in 0..SourceLimit /\ SourceLimit \in Nat
            BY <1>0, ConvergenceAssumption DEF TypeOK
        <3>. QED BY <3>1, <3>2
    <2>4. errors' \in 0..MaxErrors
        <3>1. Counting(TRUE) \/ UNCHANGED errors
            BY <1>12 DEF TurnUnsafe, TurnSafe, Refill, SpendElsewhere
        <3>. QED BY <1>0, <3>1, Counted DEF TypeOK
    <2>5. have' \subseteq Ids /\ replay' \in ReplayStates /\ lost' \in BOOLEAN
        BY <1>0, <2>1 DEF TypeOK
    <2>. QED BY <1>9, <2>1, <2>2, <2>3, <2>4, <2>5
<1>13. CASE UNCHANGED vars
    <2>1. UNCHANGED <<have, queue, replay, allowance, safetyMode, open, differing, out, lost, errors>>
        BY <1>13 DEF vars, sessionVars
    <2>. QED BY <2>1 DEF LineUp, TypeOK, AllFit, Alone
<1>. QED BY <1>1, <1>2, <1>3, <1>4, <1>5, <1>7, <1>8, <1>10, <1>11, <1>12, <1>13 DEF Next, Answer

\* The exchange keeps its shape: what waits for the writer fits its queue, a
\* closed session leaves nothing outstanding, and a request for records names
\* some and no more than records_by_ids answers.
THEOREM Exchange == Spec => []ExchangeInv
<1>1. LineUp => ExchangeInv
    <2>1. ASSUME LineUp, NEW k \in DOMAIN out, out[k].req.kind = "Fetch"
          PROVE  Cardinality(out[k].req.ids) \in 1..MaxRequested
        BY <2>1, Others DEF Fits
    <2>. QED BY <2>1 DEF LineUp, ExchangeInv, WithinLimits
<1>. QED BY <1>1, LineUpStart, LineUpStep, PTL DEF Spec

-----------------------------------------------------------------------------
(* Nothing is skipped: while a session has lost nothing, a record the node   *)
(* has not yet is owed by an outstanding request or lies in a bucket that    *)
(* waits to be listed.                                                       *)

Owes(o, i) ==
    \/ o.req.kind = "Fetch" /\ i \in o.req.ids
    \/ o.req.kind = "Listing" /\ ~o.compared /\ i \in After(o.req.bucket, o.req.cursor)
    \/ o.req.kind = "Listing" /\ o.compared /\ i \in o.found
    \/ /\ o.req.kind = "Listing" /\ o.compared
       /\ o.next # 0 /\ i \in After(o.req.bucket, o.next)
    \/ o.req.kind = "Inventory" /\ ~o.compared
    \/ o.req.kind = "Inventory" /\ o.compared /\ \E b \in o.found : i \in Store[b]

Covered(i) ==
    \/ \E o \in Range(out) : Owes(o, i)
    \/ \E b \in Range(differing) : i \in Store[b]

Behind == (Offered \ Beyond) \ (have \cup queue)

NothingSkipped == open /\ ~lost => \A i \in Behind : Covered(i)

LEMMA WholeBucket ==
    ASSUME NEW b \in Buckets, NEW i \in Store[b]
    PROVE  Owes(Listing(b, 0), i)
<1>1. i \in Nat \ {0}
    BY ConvergenceAssumption
<1>2. i \in After(b, 0)
    BY <1>1 DEF After
<1>. QED BY <1>2 DEF Owes, Listing, Asked

\* After a pump, what the requests it was given owe and what its buckets hold
\* is covered.
LEMMA PumpCovers ==
    ASSUME NEW R \in Seq(Outstanding), NEW B \in Seq(Buckets), Pump(R, B), NEW i,
           (\E o \in Range(R) : Owes(o, i)) \/ (\E b \in Range(B) : i \in Store[b])
    PROVE  /\ (\E o \in Range(out') : Owes(o, i)) \/ (\E b \in Range(differing') : i \in Store[b])
           /\ open'
<1>1. /\ \A x \in Range(R) : x \in Range(out')
      /\ \A b \in Range(B) : b \in Range(differing') \/ Listing(b, 0) \in Range(out')
      /\ (~open' => out' = <<>> /\ differing' = <<>>)
    BY PumpStep
<1>2. (\E o \in Range(out') : Owes(o, i)) \/ (\E b \in Range(differing') : i \in Store[b])
    <2>1. CASE \E o \in Range(R) : Owes(o, i)
        BY <1>1, <2>1
    <2>2. CASE \E b \in Range(B) : i \in Store[b]
        <3>1. PICK b \in Range(B) : i \in Store[b]
            BY <2>2
        <3>2. b \in Buckets
            BY SeqElements
        <3>3. Owes(Listing(b, 0), i)
            BY <3>1, <3>2, WholeBucket
        <3>. QED BY <1>1, <3>1, <3>3
    <2>. QED BY <2>1, <2>2
<1>3. Range(<<>>) = {}
    BY DEF Range
<1>. QED BY <1>1, <1>2, <1>3

\* The request whose answer is handled, or another, or a bucket, covers i.
LEMMA WhoOwes ==
    ASSUME LineUp, NEW k \in DOMAIN out, NEW i, Covered(i)
    PROVE  \/ Owes(out[k], i)
           \/ \E o \in Range(RemoveAt(out, k)) : Owes(o, i)
           \/ \E b \in Range(differing) : i \in Store[b]
<1>1. CASE \E b \in Range(differing) : i \in Store[b]
    BY <1>1
<1>2. CASE \E o \in Range(out) : Owes(o, i)
    <2>1. PICK j \in DOMAIN out : Owes(out[j], i)
        BY <1>2 DEF Range
    <2>2. j # k => out[j] \in Range(RemoveAt(out, k))
        BY Others
    <2>. QED BY <2>1, <2>2
<1>. QED BY <1>1, <1>2 DEF Covered

\* A step of an open session that loses nothing keeps everything covered; it
\* cannot close the session while something is.
LEMMA CoverStep ==
    ASSUME LineUp, NothingSkipped, Next, open, ~lost', NEW i \in Behind'
    PROVE  Covered(i)' /\ open'
<1>0. /\ TypeOK /\ out \in Seq(Outstanding) /\ differing \in Seq(Buckets)
      /\ i \in Offered /\ i \notin Beyond /\ i \notin have' /\ i \notin queue'
    BY DEF LineUp, TypeOK, Behind
<1>1. ASSUME NEW R \in Seq(Outstanding), NEW B \in Seq(Buckets), Pump(R, B),
             (\E o \in Range(R) : Owes(o, i)) \/ (\E b \in Range(B) : i \in Store[b])
      PROVE  Covered(i)' /\ open'
    <2>1. /\ (\E o \in Range(out') : Owes(o, i)) \/ (\E b \in Range(differing') : i \in Store[b])
          /\ open'
        BY <1>1, PumpCovers
    <2>. QED BY <2>1 DEF Covered, Owes, After
<1>2. ASSUME ~lost, i \notin have, i \notin queue PROVE Covered(i)
    BY <1>0, <1>2 DEF NothingSkipped, Behind
<1>3. ASSUME StartSync PROVE FALSE
    BY <1>3 DEF StartSync
<1>4. ASSUME NEW k \in DOMAIN out, CompareInventory(k) PROVE Covered(i)' /\ open'
    <2>1. out[k].req.kind = "Inventory" /\ UNCHANGED <<have, queue, open, differing, lost>>
        BY <1>4 DEF CompareInventory
    <2>2. PICK read \in BOOLEAN :
              k \in DOMAIN out' /\ Answered(out[k], out'[k], DifferingBuckets(read), out[k].next)
        BY <1>4, InventoryStep
    <2>3. PICK b \in Inventory(Ids) : i \in Store[b]
        BY <1>0 DEF Offered
    <2>4. b \in DifferingBuckets(read)
        BY <1>0, <2>1, <2>3 DEF DifferingBuckets
    <2>5. Owes(out'[k], i)
        BY <2>1, <2>2, <2>3, <2>4 DEF Owes, Answered
    <2>6. out'[k] \in Range(out')
        BY <2>2 DEF Range
    <2>7. Covered(i)'
        BY <2>5, <2>6 DEF Covered, Owes, After
    <2>. QED BY <2>1, <2>7
<1>5. ASSUME NEW k \in DOMAIN out, InventoryCompared(k) PROVE Covered(i)' /\ open'
    <2>1. /\ out[k].req.kind = "Inventory" /\ out[k].compared
          /\ Pump(RemoveAt(out, k), Sorted(out[k].found)) /\ UNCHANGED <<have, queue, lost>>
        BY <1>5 DEF InventoryCompared
    <2>2. /\ DOMAIN out = {k} /\ differing = <<>>
          /\ RemoveAt(out, k) \in Seq(Outstanding) /\ Sorted(out[k].found) \in Seq(Buckets)
          /\ \A b \in out[k].found : b \in Range(Sorted(out[k].found))
        BY <1>5, InventoryDone
    <2>3. Covered(i)
        BY <1>0, <1>2, <2>1
    <2>4. Owes(out[k], i)
        BY <2>2, <2>3 DEF Covered, Range
    <2>5. \E b \in out[k].found : i \in Store[b]
        BY <2>1, <2>4 DEF Owes
    <2>. QED BY <1>1, <2>1, <2>2, <2>5
<1>6. ASSUME NEW k \in DOMAIN out, CompareIds(k) PROVE Covered(i)' /\ open'
    <2>. DEFINE b == out[k].req.bucket
                c == out[k].req.cursor
    <2>1. /\ out[k].req.kind = "Listing" /\ ~out[k].compared
          /\ UNCHANGED <<have, queue, open, differing, lost>>
        BY <1>6 DEF CompareIds
    <2>2. /\ DOMAIN out' = DOMAIN out /\ \A j \in DOMAIN out : j # k => out'[j] = out[j]
          /\ \E read \in BOOLEAN :
                Answered(out[k], out'[k], Missing(Page(b, c), read), NextCursor(b, c))
        BY <1>6, IdsStep
    <2>8. PICK read \in BOOLEAN :
              Answered(out[k], out'[k], Missing(Page(b, c), read), NextCursor(b, c))
        BY <2>2
    <2>3. b \in Buckets /\ c \in Ids \cup {0} /\ c \in Nat /\ c \in Cursors(b)
        BY <2>1, ListingTyped
    <2>. HIDE DEF b, c
    <2>4. Covered(i)
        BY <1>0, <1>2, <2>1
    <2>5. CASE \E d \in Range(differing) : i \in Store[d]
        BY <2>1, <2>5 DEF Covered
    <2>6. ASSUME NEW j \in DOMAIN out, Owes(out[j], i) PROVE Covered(i)'
        <3>1. out'[j] \in Range(out')
            BY <2>2 DEF Range
        <3>2. CASE j # k
            <4>1. Owes(out'[j], i)
                BY <2>2, <2>6, <3>2
            <4>. QED BY <3>1, <4>1 DEF Covered, Owes, After
        <3>3. CASE j = k
            <4>1. i \in After(b, c)
                BY <2>1, <2>6, <3>3 DEF Owes, b, c
            <4>2. /\ Page(b, c) \in SUBSET Ids
                  /\ \/ i \in Page(b, c)
                     \/ NextCursor(b, c) # 0 /\ i \in After(b, NextCursor(b, c))
                BY <2>3, <4>1, PageProperties
            <4>3. i \in Page(b, c) => i \in Missing(Page(b, c), read)
                <5>1. i \in Page(b, c) => i \in First(Page(b, c), MaxRequested)
                    BY <2>3, <4>2, <1>0 DEF Beyond
                <5>2. \A x \in First(Page(b, c), MaxRequested) :
                          x \in have \/ x \in Missing(Page(b, c), read)
                    BY <1>0, <4>2, MissingProperties DEF TypeOK
                <5>. QED BY <1>0, <2>1, <5>1, <5>2
            <4>4. Owes(out'[k], i)
                BY <2>1, <2>8, <4>2, <4>3 DEF Owes, Answered, b
            <4>. QED BY <3>1, <3>3, <4>4 DEF Covered, Owes, After
        <3>. QED BY <3>2, <3>3
    <2>7. Covered(i)'
        BY <2>4, <2>5, <2>6 DEF Covered, Range
    <2>. QED BY <2>1, <2>7
<1>7. ASSUME NEW k \in DOMAIN out, IdsCompared(k) PROVE Covered(i)' /\ open'
    <2>1. out[k].req.kind = "Listing" /\ out[k].compared /\ UNCHANGED <<have, queue, lost>>
        BY <1>7 DEF IdsCompared
    <2>2. PICK R \in Seq(Outstanding), B \in Seq(Buckets) :
              /\ Pump(R, B)
              /\ \A x \in Range(RemoveAt(out, k)) : x \in Range(R)
              /\ \A b \in Range(differing) : b \in Range(B)
              /\ out[k].found # {} => Fetch(out[k].found) \in Range(R)
              /\ out[k].next # 0 => \/ Listing(out[k].req.bucket, out[k].next) \in Range(R)
                                    \/ out[k].req.bucket \in Range(B)
        BY <1>7, <2>1, AfterListing
    <2>3. Covered(i)
        BY <1>0, <1>2, <2>1
    <2>4. CASE \E o \in Range(RemoveAt(out, k)) : Owes(o, i)
        BY <1>1, <2>2, <2>4
    <2>5. CASE \E b \in Range(differing) : i \in Store[b]
        BY <1>1, <2>2, <2>5
    <2>6. CASE Owes(out[k], i)
        <3>1. CASE i \in out[k].found
            <4>1. Owes(Fetch(out[k].found), i) /\ Fetch(out[k].found) \in Range(R)
                BY <2>2, <3>1 DEF Owes, Fetch, Asked
            <4>. QED BY <1>1, <2>2, <4>1
        <3>2. CASE out[k].next # 0 /\ i \in After(out[k].req.bucket, out[k].next)
            <4>1. CASE Listing(out[k].req.bucket, out[k].next) \in Range(R)
                <5>1. Owes(Listing(out[k].req.bucket, out[k].next), i)
                    BY <3>2 DEF Owes, Listing, Asked
                <5>. QED BY <1>1, <2>2, <4>1, <5>1
            <4>2. CASE out[k].req.bucket \in Range(B)
                <5>1. i \in Store[out[k].req.bucket]
                    BY <3>2 DEF After
                <5>. QED BY <1>1, <2>2, <4>2, <5>1
            <4>. QED BY <2>2, <3>2, <4>1, <4>2
        <3>. QED BY <2>1, <2>6, <3>1, <3>2 DEF Owes
    <2>. QED BY <1>7, <2>3, <2>4, <2>5, <2>6, WhoOwes
<1>8. ASSUME NEW k \in DOMAIN out, ReceiveRecords(k) PROVE Covered(i)' /\ open'
    <2>1. /\ out[k].req.kind = "Fetch" /\ UNCHANGED have
          /\ Pump(RemoveAt(out, k), differing)
        BY <1>8 DEF ReceiveRecords
    <2>2. queue \subseteq queue' /\ ~lost /\ out[k].req.ids \subseteq have \cup queue'
        BY <1>8, NewRecords
    <2>3. Covered(i)
        BY <1>0, <1>2, <2>1, <2>2
    <2>4. ~Owes(out[k], i)
        BY <1>0, <2>1, <2>2 DEF Owes
    <2>5. \/ \E o \in Range(RemoveAt(out, k)) : Owes(o, i)
          \/ \E b \in Range(differing) : i \in Store[b]
        BY <1>8, <2>3, <2>4, WhoOwes
    <2>6. RemoveAt(out, k) \in Seq(Outstanding)
        BY <1>8, Others
    <2>. QED BY <1>0, <1>1, <2>1, <2>5, <2>6
<1>9. ASSUME NEW k \in DOMAIN out, RequestFails(k) PROVE FALSE
    BY <1>9 DEF RequestFails
<1>10. CASE Commit
    <2>1. PICK x \in queue : have' = have \cup {x} /\ queue' = queue \ {x}
        BY <1>10 DEF Commit
    <2>2. UNCHANGED <<open, differing, out, lost>>
        BY <1>10 DEF Commit, sessionVars
    <2>3. Covered(i)
        BY <1>0, <1>2, <2>1, <2>2
    <2>. QED BY <2>2, <2>3 DEF Covered, Owes, After
<1>11. CASE BatchFails
    BY <1>11 DEF BatchFails
<1>12. CASE TurnUnsafe \/ TurnSafe \/ Refill \/ SpendElsewhere
    <2>1. UNCHANGED <<have, queue, open, differing, out, lost>>
        BY <1>12 DEF TurnUnsafe, TurnSafe, Refill, SpendElsewhere, sessionVars
    <2>2. Covered(i)
        BY <1>0, <1>2, <2>1
    <2>. QED BY <2>1, <2>2 DEF Covered, Owes, After
<1>. QED BY <1>3, <1>4, <1>5, <1>6, <1>7, <1>8, <1>9, <1>10, <1>11, <1>12 DEF Next, Answer

LEMMA SkipsNothing == LineUp /\ NothingSkipped /\ [Next]_vars => NothingSkipped'
<1>. SUFFICES ASSUME LineUp, NothingSkipped, [Next]_vars, open', ~lost', NEW i \in Behind'
              PROVE  Covered(i)'
    BY DEF NothingSkipped
<1>1. CASE UNCHANGED vars
    <2>1. UNCHANGED <<have, queue, open, differing, out, lost>>
        BY <1>1 DEF vars, sessionVars
    <2>2. Covered(i)
        BY <2>1 DEF NothingSkipped, Behind
    <2>. QED BY <2>1, <2>2 DEF Covered, Owes, After
<1>2. CASE Next /\ open
    BY <1>2, CoverStep
<1>3. CASE Next /\ ~open
    <2>1. DOMAIN out = {}
        BY <1>3 DEF LineUp, TypeOK
    <2>2. CASE StartSync
        <3>1. out' = <<Asked("Inventory", NoBucket, 0, {})>>
            BY <2>2 DEF StartSync
        <3>. DEFINE o == Asked("Inventory", NoBucket, 0, {})
        <3>2. Owes(o, i)
            BY DEF Owes, Asked
        <3>. HIDE DEF o
        <3>3. o \in Range(out')
            <4>1. out' = <<o>>
                BY <3>1 DEF o
            <4>. QED BY <4>1 DEF Range
        <3>. QED BY <3>2, <3>3 DEF Covered, Owes, After
    <2>3. CASE Commit \/ BatchFails \/ TurnUnsafe \/ TurnSafe \/ Refill \/ SpendElsewhere
        BY <1>3, <2>3
           DEF Commit, BatchFails, TurnUnsafe, TurnSafe, Refill, SpendElsewhere, sessionVars
    <2>. QED BY <1>3, <2>1, <2>2, <2>3 DEF Next, Answer
<1>. QED BY <1>1, <1>2, <1>3

\* A session that runs to its end with no answer lost and no record turned
\* away leaves nothing behind of what the responder offers, for any days,
\* store, page size and limits, but for identifiers so far down a page that
\* no request names them.
THEOREM Complete == Spec => SessionIsComplete
<1>. DEFINE Ends == open /\ ~open' /\ ~lost' => Offered \ Beyond \subseteq have' \cup queue'
<1>1. LineUp /\ NothingSkipped /\ [Next]_vars => [Ends]_vars
    <2>. SUFFICES ASSUME LineUp, NothingSkipped, Next, open, ~open', ~lost', NEW i \in Behind'
                  PROVE  FALSE
        BY DEF Behind
    <2>. QED BY CoverStep
<1>2. Init => NothingSkipped
    BY DEF Init, NothingSkipped
<1>3. LineUp /\ NothingSkipped /\ [Next]_vars => NothingSkipped'
    BY SkipsNothing
<1>. QED BY <1>1, <1>2, <1>3, LineUpStart, LineUpStep, PTL DEF Spec, SessionIsComplete
=============================================================================
