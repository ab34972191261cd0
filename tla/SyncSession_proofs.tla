-------------------------- MODULE SyncSession_proofs --------------------------
(***************************************************************************)
(* What holds of the requester's books for any peers, buckets and limits:  *)
(* their shape and limits, that a session never waits for nothing, and     *)
(* that libp2p owes an event for every entry of pending_sync.              *)
(***************************************************************************)
EXTENDS SyncSession, FiniteSetTheorems, FunctionTheorems, SequenceTheorems, TLAPS

-----------------------------------------------------------------------------
(* Finite sets as sequences.                                                 *)

\* Among enough things there are n different ones.
LEMMA Several ==
    ASSUME NEW S, IsFiniteSet(S), NEW n \in Nat, n <= Cardinality(S)
    PROVE  \E f \in [1..n -> S] : \A j, k \in 1..n : f[j] = f[k] => j = k
<1>1. Cardinality(S) \in Nat /\ ExistsBijection(1..Cardinality(S), S)
    BY FS_CardinalityType
<1>2. PICK g \in [1..Cardinality(S) -> S] :
            \A j, k \in 1..Cardinality(S) : g[j] = g[k] => j = k
    BY <1>1 DEF ExistsBijection, Bijection, Injection, IsInjective
<1>3. \A j \in 1..n : j \in 1..Cardinality(S)
    BY <1>1
<1>. DEFINE f == [j \in 1..n |-> g[j]]
<1>4. f \in [1..n -> S]
    BY <1>3
<1>5. \A j, k \in 1..n : f[j] = f[k] => j = k
    BY <1>2, <1>3
<1>. QED BY <1>4, <1>5

\* SetToSeq lists nothing that is not in the set.
LEMMA Listed ==
    ASSUME NEW S, IsFiniteSet(S), NEW T, S \subseteq T
    PROVE  SetToSeq(S) \in Seq(T)
<1>1. Cardinality(S) \in Nat
    BY FS_CardinalityType
<1>2. \E f \in [1..Cardinality(S) -> S] : IsInjective(f)
    <2>1. PICK f \in [1..Cardinality(S) -> S] :
                \A j, k \in 1..Cardinality(S) : f[j] = f[k] => j = k
        BY <1>1, Several
    <2>2. DOMAIN f = 1..Cardinality(S)
        OBVIOUS
    <2>. QED BY <2>1, <2>2 DEF IsInjective
<1>3. SetToSeq(S) \in [1..Cardinality(S) -> S]
    BY <1>2 DEF SetToSeq
<1>4. SetToSeq(S) \in [1..Cardinality(S) -> T]
    BY <1>3
<1>. QED BY <1>1, <1>4, SeqDef

-----------------------------------------------------------------------------
(* The books.                                                                *)

Sessions == [open : BOOLEAN, differing : Seq(Buckets), outstanding : SUBSET Requests]

Ledgers == [session : [Peers -> Sessions], pending : SUBSET Requests,
            wire : SUBSET Requests, tasks : SUBSET Requests]

Listings(b, p) == {r \in b.session[p].outstanding : r.kind # "Records"}

\* The session of p waits for requests to p that libp2p, or a comparison, will
\* end, and for no more listings than it may.
Orderly(b, p) ==
    /\ ~b.session[p].open => b.session[p] = NoSession
    /\ \A r \in b.session[p].outstanding :
        r.peer = p /\ (r \in b.wire \cap b.pending \/ r \in b.tasks)
    /\ Cardinality(Listings(b, p)) <= MaxPending

Balanced(b) ==
    /\ b \in Ledgers
    /\ IsFiniteSet(b.wire) /\ IsFiniteSet(b.tasks)
    /\ b.pending \subseteq b.wire
    /\ \A r \in b.tasks : r.kind # "Records"
    /\ \A r \in b.wire \cup b.tasks : r.kind = "Ids" => r.bucket \in Buckets
    /\ \A p \in Peers : Orderly(b, p)

\* The session of p, if it has one, waits for something.
Waits(b, p) == b.session[p].open => b.session[p].outstanding # {}

OpenIn(b) == {p \in Peers : b.session[p].open}

LEMMA SameSession ==
    ASSUME NEW s \in Sessions, NEW t \in Sessions,
           s.open = t.open, s.differing = t.differing, s.outstanding = t.outstanding
    PROVE  s = t
BY DEF Sessions

LEMMA OutstandingFinite ==
    ASSUME NEW b, Balanced(b), NEW p \in Peers
    PROVE  /\ IsFiniteSet(b.session[p].outstanding)
           /\ Cardinality(b.session[p].outstanding) \in Nat
           /\ b.session[p].outstanding \subseteq b.wire \cup b.tasks
           /\ b.session[p] \in Sessions
<1>1. IsFiniteSet(b.wire \cup b.tasks)
    BY FS_Union DEF Balanced
<1>2. b.session[p].outstanding \in SUBSET (b.wire \cup b.tasks)
    BY DEF Balanced, Orderly
<1>3. b.session[p] \in Sessions
    BY DEF Balanced, Ledgers
<1>. QED BY <1>1, <1>2, <1>3, FS_Subset, FS_CardinalityType

LEMMA AliveFinite ==
    ASSUME NEW b, Balanced(b)
    PROVE  /\ IsFiniteSet(Alive(b)) /\ Cardinality(Alive(b)) \in Nat
           /\ Alive(b) \subseteq Requests
<1>1. Alive(b) = b.wire \cup b.tasks
    <2>1. \A p \in Peers : b.session[p].outstanding \subseteq b.wire \cup b.tasks
        BY OutstandingFinite
    <2>2. b.pending \subseteq b.wire
        BY DEF Balanced
    <2>. QED BY <2>1, <2>2 DEF Alive
<1>2. IsFiniteSet(b.wire) /\ IsFiniteSet(b.tasks) /\ b.wire \subseteq Requests /\ b.tasks \subseteq Requests
    BY DEF Balanced, Ledgers
<1>. QED BY <1>1, <1>2, FS_Union, FS_CardinalityType

Kinds == {"Inventory", "Ids", "Records"}

\* There is always a tag to spare: the requests sent are new and no more than
\* there are buckets.
LEMMA FreshOnes ==
    ASSUME NEW b, Balanced(b), NEW kind \in Kinds, NEW p \in Peers,
           NEW buckets \in Seq(Buckets \cup {NoBucket})
    PROVE  LET sent == Fresh(b, kind, p, buckets)
           IN  /\ sent \subseteq Requests \ Alive(b)
               /\ \A r \in sent : r.kind = kind /\ r.peer = p
               /\ buckets \in Seq(Buckets) => \A r \in sent : r.bucket \in Buckets
               /\ IsFiniteSet(sent)
               /\ Cardinality(sent) \in Nat /\ Cardinality(sent) <= Len(buckets)
               /\ Len(buckets) # 0 => sent # {}
<1>. DEFINE A == Alive(b)
            n == Len(buckets)
            top == Cardinality(A) + n
            Named(k, t) == [kind |-> kind, peer |-> p, bucket |-> buckets[k], tag |-> t]
            Apart(t) == /\ \A k \in 1..n : Named(k, t[k]) \notin A
                        /\ \A j, k \in 1..n : Named(j, t[j]) = Named(k, t[k]) => j = k
            tags == CHOOSE t \in [1..n -> 0..top] : Apart(t)
<1>0. n \in Nat /\ Cardinality(A) \in Nat /\ IsFiniteSet(A) /\ top \in Nat /\ n <= top
    <2>1. n \in Nat
        BY LenProperties
    <2>2. Cardinality(A) \in Nat /\ IsFiniteSet(A)
        BY AliveFinite
    <2>. QED BY <2>1, <2>2
<1>1. \E t \in [1..n -> 0..top] : Apart(t)
    <2>. DEFINE tagOf == [r \in A |-> r.tag]
                used == {tagOf[r] : r \in A}
    <2>1. tagOf \in Surjection(A, used)
        BY DEF Surjection
    <2>2. IsFiniteSet(used) /\ Cardinality(used) <= Cardinality(A) /\ Cardinality(used) \in Nat
        <3>. HIDE DEF tagOf, used, A
        <3>. QED BY <1>0, <2>1, FS_Surjection, FS_CardinalityType
    <2>3. IsFiniteSet(0..top) /\ Cardinality(0..top) = top + 1
        <3>. HIDE DEF top
        <3>. QED BY <1>0, FS_Interval
    <2>. DEFINE tall == 0..top
                free == tall \ used
    <2>4. IsFiniteSet(free) /\ n <= Cardinality(free)
        <3>0. IsFiniteSet(tall) /\ Cardinality(tall) = top + 1
            BY <2>3
        <3>. HIDE DEF used, A, tall
        <3>1. IsFiniteSet(free) /\ Cardinality(free) = Cardinality(tall) - Cardinality(tall \cap used)
            BY <3>0, FS_Difference
        <3>2. Cardinality(used \cap tall) <= Cardinality(used) /\ IsFiniteSet(used \cap tall)
            BY <2>2, FS_Intersection
        <3>3. used \cap tall = tall \cap used
            OBVIOUS
        <3>4. Cardinality(tall \cap used) \in Nat /\ Cardinality(tall \cap used) <= Cardinality(used)
            BY <3>2, <3>3, FS_CardinalityType
        <3>. HIDE DEF free, n
        <3>. QED BY <1>0, <2>2, <3>0, <3>1, <3>4
    <2>5. PICK t \in [1..n -> free] : \A j, k \in 1..n : t[j] = t[k] => j = k
        <3>. HIDE DEF free, A
        <3>. QED BY <1>0, <2>4, Several
    <2>6. t \in [1..n -> 0..top]
        BY <2>5
    <2>7. ASSUME NEW k \in 1..n, Named(k, t[k]) \in A PROVE FALSE
        <3>1. tagOf[Named(k, t[k])] = t[k]
            BY <2>7
        <3>2. t[k] \in used
            BY <2>7, <3>1
        <3>. QED BY <2>5, <3>2
    <2>8. ASSUME NEW j \in 1..n, NEW k \in 1..n, Named(j, t[j]) = Named(k, t[k]) PROVE j = k
        <3>1. Named(j, t[j]).tag = Named(k, t[k]).tag
            BY <2>8
        <3>2. t[j] = t[k]
            BY <3>1
        <3>. QED BY <2>5, <3>2
    <2>9. Apart(t)
        BY <2>7, <2>8
    <2>. QED BY <2>6, <2>9
<1>2. tags \in [1..n -> 0..top] /\ Apart(tags)
    <2>. HIDE DEF Apart, n, top
    <2>. QED BY <1>1
<1>3. Fresh(b, kind, p, buckets) = {Named(k, tags[k]) : k \in 1..n}
    BY DEF Fresh
<1>. HIDE DEF tags
<1>. DEFINE sent == {Named(k, tags[k]) : k \in 1..n}
<1>4. \A k \in 1..n : Named(k, tags[k]) \in Requests \ A
    <2>. SUFFICES ASSUME NEW k \in 1..n PROVE Named(k, tags[k]) \in Requests \ A
        OBVIOUS
    <2>1. buckets[k] \in Buckets \cup {NoBucket}
        BY ElementOfSeq
    <2>2. tags[k] \in Nat
        BY <1>0, <1>2
    <2>3. kind \in {"Inventory", "Ids", "Records"}
        BY DEF Kinds
    <2>4. Named(k, tags[k]) \in Requests
        BY <2>1, <2>2, <2>3 DEF Requests
    <2>. QED BY <1>2, <2>4
<1>5. \A r \in sent : r.kind = kind /\ r.peer = p
    OBVIOUS
<1>10. ASSUME buckets \in Seq(Buckets) PROVE \A r \in sent : r.bucket \in Buckets
    <2>1. \A k \in 1..n : buckets[k] \in Buckets
        BY <1>10, ElementOfSeq
    <2>. QED BY <2>1
<1>6. IsFiniteSet(sent) /\ Cardinality(sent) \in Nat /\ Cardinality(sent) <= n
    <2>. DEFINE f == [k \in 1..n |-> Named(k, tags[k])]
    <2>1. f \in Surjection(1..n, sent)
        BY DEF Surjection
    <2>2. IsFiniteSet(1..n) /\ Cardinality(1..n) = n
        <3>. HIDE DEF n
        <3>1. Cardinality(1..n) = IF 1 > n THEN 0 ELSE n - 1 + 1
            BY <1>0, FS_Interval
        <3>. QED BY <1>0, <3>1, FS_Interval
    <2>. HIDE DEF f, sent, n
    <2>. QED BY <2>1, <2>2, FS_Surjection, FS_CardinalityType
<1>7. n # 0 => sent # {}
    <2>1. n # 0 => 1 \in 1..n
        BY <1>0
    <2>. QED BY <2>1
<1>8. sent \subseteq Requests \ A
    BY <1>4
<1>9. Fresh(b, kind, p, buckets) = sent
    BY <1>3
<1>. HIDE DEF sent, Named
<1>. QED BY <1>5, <1>6, <1>7, <1>8, <1>9, <1>10

-----------------------------------------------------------------------------
(* What each helper does to the books.                                       *)

\* c has b's sessions of all peers but p.
OnlyOf(b, c, p) == \A q \in Peers \ {p} : c.session[q] = b.session[q]

\* A session loses requests, starts or ends; the rest is as it was.
LEMMA SessionOnly ==
    ASSUME NEW b, Balanced(b), NEW p \in Peers, NEW s \in Sessions,
           s.outstanding \subseteq b.session[p].outstanding, ~s.open => s = NoSession
    PROVE  LET c == [b EXCEPT !.session[p] = s]
           IN  Balanced(c) /\ c.session[p] = s /\ OnlyOf(b, c, p)
<1>. DEFINE c == [b EXCEPT !.session[p] = s]
<1>1. b \in Ledgers
    BY DEF Balanced
<1>2. /\ c \in Ledgers
      /\ c.wire = b.wire /\ c.pending = b.pending /\ c.tasks = b.tasks
      /\ c.session[p] = s /\ \A q \in Peers \ {p} : c.session[q] = b.session[q]
    BY <1>1 DEF Ledgers
<1>. HIDE DEF c
<1>3. ASSUME NEW q \in Peers PROVE Orderly(c, q)
    <2>1. CASE q # p
        <3>1. c.session[q] = b.session[q] /\ Listings(c, q) = Listings(b, q)
            BY <1>2, <2>1 DEF Listings
        <3>. QED BY <1>2, <3>1 DEF Balanced, Orderly
    <2>2. CASE q = p
        <3>1. Listings(c, p) \in SUBSET Listings(b, p)
            BY <1>2 DEF Listings
        <3>2. IsFiniteSet(b.session[p].outstanding) /\ Listings(b, p) \in SUBSET b.session[p].outstanding
            BY OutstandingFinite DEF Listings
        <3>3. IsFiniteSet(Listings(b, p)) /\ Cardinality(Listings(b, p)) \in Nat
            BY <3>2, FS_Subset, FS_CardinalityType
        <3>4. Cardinality(Listings(c, p)) <= Cardinality(Listings(b, p)) /\ Cardinality(Listings(c, p)) \in Nat
            BY <3>1, <3>3, FS_Subset, FS_CardinalityType
        <3>5. Cardinality(Listings(b, p)) <= MaxPending
            BY DEF Balanced, Orderly
        <3>6. Cardinality(Listings(c, p)) <= MaxPending
            BY <3>3, <3>4, <3>5, SessionAssumption DEF SessionAssumption
        <3>. QED BY <1>2, <2>2, <3>6 DEF Balanced, Orderly
    <2>. QED BY <2>1, <2>2
<1>4. Balanced(c)
    BY <1>2, <1>3 DEF Balanced
<1>. QED BY <1>2, <1>4 DEF c, OnlyOf

\* The handler is done with a request: nothing refers to it any more.
LEMMA Dropped ==
    ASSUME NEW b, Balanced(b), NEW r \in Requests
    PROVE  LET c == Without(b, r)
           IN  Balanced(c) /\ OnlyOf(b, c, r.peer) /\ OpenIn(c) = OpenIn(b)
<1>. DEFINE c == Without(b, r)
            p == r.peer
            s == [b.session[p] EXCEPT !.outstanding = @ \ {r}]
<1>1. b \in Ledgers /\ p \in Peers /\ b.session[p] \in Sessions
    BY DEF Balanced, Requests, Ledgers
<1>2. /\ s \in Sessions /\ s.outstanding = b.session[p].outstanding \ {r}
      /\ s.open = b.session[p].open /\ s.differing = b.session[p].differing
    BY <1>1 DEF Sessions
<1>3. ~s.open => s = NoSession
    <2>. SUFFICES ASSUME ~b.session[p].open PROVE s = NoSession
        BY <1>2
    <2>1. b.session[p] = NoSession
        BY <1>1 DEF Balanced, Orderly
    <2>2. b.session[p].outstanding = {}
        BY <2>1 DEF NoSession
    <2>3. s = b.session[p]
        BY <1>1, <2>2 DEF Sessions
    <2>. QED BY <2>1, <2>3
<1>. DEFINE d == [b EXCEPT !.session[p] = s]
<1>4. Balanced(d) /\ d.session[p] = s /\ OnlyOf(b, d, p)
    <2>. HIDE DEF s, p
    <2>. QED BY <1>1, <1>2, <1>3, SessionOnly
<1>5. d.wire = b.wire /\ d.pending = b.pending /\ d.tasks = b.tasks
    BY <1>1 DEF Ledgers
<1>6. /\ c \in Ledgers
      /\ c.wire = b.wire \ {r} /\ c.pending = b.pending \ {r} /\ c.tasks = b.tasks \ {r}
      /\ c.session = [b.session EXCEPT ![p] = s]
    BY <1>1, <1>2 DEF Ledgers, Without
<1>7. \A q \in Peers : c.session[q] = d.session[q]
    BY <1>1, <1>6 DEF Ledgers
<1>. HIDE DEF c, d
<1>8. IsFiniteSet(c.wire) /\ IsFiniteSet(c.tasks)
    <2>1. IsFiniteSet(b.wire) /\ IsFiniteSet(b.tasks)
        BY DEF Balanced
    <2>2. IsFiniteSet(b.wire \ {r}) /\ IsFiniteSet(b.tasks \ {r})
        BY <2>1, FS_Difference
    <2>. QED BY <1>6, <2>2
<1>9. ASSUME NEW q \in Peers PROVE Orderly(c, q)
    <2>1. c.session[q] = d.session[q] /\ Listings(c, q) = Listings(d, q)
        BY <1>7 DEF Listings
    <2>2. Orderly(d, q)
        BY <1>4 DEF Balanced
    <2>3. r \notin d.session[q].outstanding
        <3>1. q = p => r \notin d.session[q].outstanding
            BY <1>2, <1>4
        <3>2. q # p => r \notin d.session[q].outstanding
            BY <2>2 DEF Orderly
        <3>. QED BY <3>1, <3>2
    <2>4. \A x \in c.session[q].outstanding :
            x.peer = q /\ (x \in c.wire \cap c.pending \/ x \in c.tasks)
        BY <1>5, <1>6, <2>1, <2>2, <2>3 DEF Orderly
    <2>. QED BY <2>1, <2>2, <2>4 DEF Orderly
<1>10. Balanced(c)
    BY <1>6, <1>8, <1>9 DEF Balanced
<1>11. OnlyOf(b, c, p)
    BY <1>4, <1>7 DEF OnlyOf
<1>12. OpenIn(c) = OpenIn(b)
    <2>1. c.session[p].open = b.session[p].open
        BY <1>1, <1>2, <1>4, <1>7
    <2>2. ASSUME NEW q \in Peers PROVE c.session[q].open = b.session[q].open
        <3>1. CASE q = p
            BY <2>1, <3>1
        <3>2. CASE q # p
            BY <1>11, <3>2 DEF OnlyOf
        <3>. QED BY <3>1, <3>2
    <2>. QED BY <2>2 DEF OpenIn
<1>. QED BY <1>10, <1>11, <1>12 DEF c

\* Requests are sent, as listings only while there is room for all of them.
LEMMA Sent ==
    ASSUME NEW b, Balanced(b), NEW kind \in Kinds, NEW p \in Peers,
           NEW buckets \in Seq(Buckets \cup {NoBucket}),
           kind = "Ids" => buckets \in Seq(Buckets),
           \/ kind = "Records"
           \/ ~b.session[p].open
           \/ Cardinality(b.session[p].outstanding) + Len(buckets) <= MaxPending
    PROVE  LET c == Send(b, kind, p, buckets)
           IN  /\ Balanced(c) /\ OnlyOf(b, c, p) /\ OpenIn(c) = OpenIn(b)
               /\ b.session[p].open /\ Len(buckets) # 0 => c.session[p].outstanding # {}
               /\ c.session[p].open = b.session[p].open
               /\ c.session[p].differing = b.session[p].differing
<1>. DEFINE sent == Fresh(b, kind, p, buckets)
            c == Send(b, kind, p, buckets)
            now == IF b.session[p].open THEN b.session[p].outstanding \cup sent
                                        ELSE b.session[p].outstanding
            s == [b.session[p] EXCEPT !.outstanding = now]
<1>1. /\ sent \subseteq Requests \ Alive(b)
      /\ \A r \in sent : r.kind = kind /\ r.peer = p
      /\ kind = "Ids" => \A r \in sent : r.bucket \in Buckets
      /\ IsFiniteSet(sent)
      /\ Cardinality(sent) \in Nat /\ Cardinality(sent) <= Len(buckets)
      /\ Len(buckets) # 0 => sent # {}
    BY FreshOnes
<1>2. b \in Ledgers /\ b.session[p] \in Sessions /\ sent \subseteq Requests
    BY <1>1 DEF Balanced, Ledgers
<1>3. c = [b EXCEPT !.wire = b.wire \cup sent, !.pending = b.pending \cup sent,
                    !.session[p] = s]
    BY <1>2 DEF Send, Ledgers
<1>. HIDE DEF sent
<1>4. now \subseteq Requests
    BY <1>2 DEF Sessions
<1>. HIDE DEF now
<1>5. /\ s \in Sessions /\ s.outstanding = now
      /\ s.open = b.session[p].open /\ s.differing = b.session[p].differing
    BY <1>2, <1>4 DEF Sessions
<1>6. ~b.session[p].open => s = b.session[p]
    BY <1>2 DEF Sessions, now
<1>. HIDE DEF s, c
<1>7. /\ c \in Ledgers
      /\ c.wire = b.wire \cup sent /\ c.pending = b.pending \cup sent /\ c.tasks = b.tasks
      /\ c.session[p] = s /\ \A q \in Peers \ {p} : c.session[q] = b.session[q]
    BY <1>2, <1>3, <1>5 DEF Ledgers
<1>8. IsFiniteSet(c.wire)
    <2>1. IsFiniteSet(b.wire)
        BY DEF Balanced
    <2>2. IsFiniteSet(b.wire \cup sent)
        BY <1>1, <2>1, FS_Union
    <2>. QED BY <1>7, <2>2
<1>9. ASSUME NEW q \in Peers PROVE Orderly(c, q)
    <2>0. Orderly(b, q)
        BY DEF Balanced
    <2>1. CASE c.session[q] = b.session[q]
        <3>1. Listings(c, q) = Listings(b, q)
            BY <2>1 DEF Listings
        <3>. QED BY <1>7, <2>0, <2>1, <3>1 DEF Orderly
    <2>2. CASE q = p /\ b.session[p].open
        <3>1. now = b.session[p].outstanding \cup sent
            BY <2>2 DEF now
        <3>2. c.session[p].open /\ c.session[p].outstanding = now
            BY <1>5, <1>7, <2>2
        <3>3. \A r \in now : r.peer = p /\ (r \in c.wire \cap c.pending \/ r \in c.tasks)
            BY <1>1, <1>7, <2>0, <2>2, <3>1 DEF Orderly
        <3>4. Cardinality(Listings(c, p)) <= MaxPending
            <4>1. CASE kind = "Records"
                <5>1. Listings(c, p) = Listings(b, p)
                    BY <1>1, <3>1, <3>2, <4>1 DEF Listings
                <5>. QED BY <2>0, <2>2, <5>1 DEF Orderly
            <4>2. CASE Cardinality(b.session[p].outstanding) + Len(buckets) <= MaxPending
                <5>. DEFINE old == b.session[p].outstanding
                <5>1. IsFiniteSet(old) /\ Cardinality(old) \in Nat
                    BY OutstandingFinite
                <5>. HIDE DEF old
                <5>2. /\ IsFiniteSet(old \cup sent)
                      /\ Cardinality(old \cup sent) = Cardinality(old) + Cardinality(sent) - Cardinality(old \cap sent)
                    BY <1>1, <5>1, FS_Union
                <5>3. Cardinality(old \cap sent) \in Nat
                    BY <5>1, FS_Intersection, FS_CardinalityType
                <5>4. Listings(c, p) \in SUBSET (old \cup sent)
                    BY <3>1, <3>2 DEF Listings, old
                <5>5. Cardinality(Listings(c, p)) <= Cardinality(old \cup sent) /\ Cardinality(Listings(c, p)) \in Nat
                    BY <5>2, <5>4, FS_Subset, FS_CardinalityType
                <5>6. Len(buckets) \in Nat /\ Cardinality(old) + Len(buckets) <= MaxPending
                    BY <4>2, LenProperties DEF old
                <5>. QED BY <1>1, <5>1, <5>2, <5>3, <5>5, <5>6, SessionAssumption DEF SessionAssumption
            <4>. QED BY <2>2, <4>1, <4>2
        <3>. QED BY <2>2, <3>2, <3>3, <3>4 DEF Orderly
    <2>. QED BY <1>6, <1>7, <2>1, <2>2
<1>10. Balanced(c)
    BY <1>1, <1>7, <1>8, <1>9 DEF Balanced
<1>11. OnlyOf(b, c, p) /\ OpenIn(c) = OpenIn(b)
    BY <1>5, <1>7 DEF OnlyOf, OpenIn
<1>12. b.session[p].open /\ Len(buckets) # 0 => now # {}
    BY <1>1 DEF now
<1>. QED BY <1>5, <1>7, <1>10, <1>11, <1>12 DEF c

\* pump_sync and finish_sync leave a session that waits for something, or none.
LEMMA Pumped ==
    ASSUME NEW b, Balanced(b), NEW p \in Peers
    PROVE  LET c == Pump(b, p)
           IN  /\ Balanced(c) /\ OnlyOf(b, c, p) /\ OpenIn(c) \subseteq OpenIn(b)
               /\ Waits(c, p)
<1>0. b.session[p] \in Sessions /\ MaxPending \in Nat /\ MaxPending # 0
    BY OutstandingFinite, SessionAssumption DEF SessionAssumption
<1>1. /\ IsFiniteSet(b.session[p].outstanding)
      /\ Cardinality(b.session[p].outstanding) \in Nat
    BY OutstandingFinite
<1>2. CASE ~HasRoom(b, p)
    <2>1. Pump(b, p) = b
        BY <1>2 DEF Pump
    <2>2. b.session[p].outstanding = {} => Cardinality(b.session[p].outstanding) = 0
        BY FS_EmptySet
    <2>3. Waits(b, p)
        BY <1>0, <1>1, <1>2, <2>2 DEF HasRoom, Waits
    <2>. QED BY <2>1, <2>3 DEF OnlyOf
<1>3. CASE HasRoom(b, p)
    <2>. DEFINE s == b.session[p]
                n == Smaller(MaxPending - Cardinality(s.outstanding), Len(s.differing))
                asked == SubSeq(s.differing, 1, n)
                left == SubSeq(s.differing, n + 1, Len(s.differing))
                sent == Send(b, "Ids", p, asked)
                rest == [sent EXCEPT !.session[p].differing = left]
    <2>1. /\ s.open /\ s.differing \in Seq(Buckets) /\ Len(s.differing) \in Nat
          /\ Cardinality(s.outstanding) \in Nat /\ Cardinality(s.outstanding) < MaxPending
        <3>1. s.differing \in Seq(Buckets)
            BY <1>0 DEF Sessions
        <3>. QED BY <1>1, <1>3, <3>1, LenProperties DEF HasRoom
    <2>2. /\ n \in Nat /\ n <= Len(s.differing)
          /\ Cardinality(s.outstanding) + n <= MaxPending
        <3>. HIDE DEF s
        <3>. QED BY <1>0, <2>1 DEF Smaller
    <2>3. asked \in Seq(Buckets \cup {NoBucket}) /\ asked \in Seq(Buckets) /\ Len(asked) = n /\ left \in Seq(Buckets)
        <3>. HIDE DEF n, s
        <3>1. \A i \in 1..Len(s.differing) : s.differing[i] \in Buckets
            BY <2>1, ElementOfSeq
        <3>2. \A i \in 1..n : s.differing[i] \in Buckets \cup {NoBucket}
            BY <2>1, <2>2, <3>1
        <3>3. \A i \in (n + 1)..Len(s.differing) : s.differing[i] \in Buckets
            BY <2>1, <2>2, <3>1
        <3>4. asked \in Seq(Buckets \cup {NoBucket}) /\ Len(asked) = IF 1 <= n THEN n - 1 + 1 ELSE 0
            BY <2>2, <3>2, SubSeqProperties
        <3>6. asked \in Seq(Buckets)
            <4>1. \A i \in 1..n : s.differing[i] \in Buckets
                BY <2>1, <2>2, <3>1
            <4>. QED BY <2>2, <4>1, SubSeqProperties
        <3>5. left \in Seq(Buckets)
            BY <2>1, <2>2, <3>3, SubSeqProperties
        <3>. HIDE DEF asked, left
        <3>. QED BY <2>2, <3>4, <3>5, <3>6
    <2>4. /\ Balanced(sent) /\ OnlyOf(b, sent, p) /\ OpenIn(sent) = OpenIn(b)
          /\ sent.session[p].open
        <3>1. "Ids" \in Kinds
            BY DEF Kinds
        <3>2. Cardinality(b.session[p].outstanding) + Len(asked) <= MaxPending
            <4>. HIDE DEF asked, n
            <4>. QED BY <2>2, <2>3
        <3>. HIDE DEF asked, n
        <3>. QED BY <2>1, <2>3, <3>1, <3>2, Sent
    <2>. HIDE DEF left, sent
    <2>5. sent \in Ledgers /\ sent.session[p] \in Sessions
        BY <2>4 DEF Balanced, Ledgers
    <2>. DEFINE t == [sent.session[p] EXCEPT !.differing = left]
    <2>6. /\ t \in Sessions /\ t.open /\ t.outstanding = sent.session[p].outstanding
        BY <2>3, <2>4, <2>5 DEF Sessions
    <2>7. rest = [sent EXCEPT !.session[p] = t]
        BY <2>5 DEF Ledgers
    <2>. HIDE DEF rest, t
    <2>8. Balanced(rest) /\ rest.session[p] = t /\ OnlyOf(sent, rest, p)
        BY <2>4, <2>6, <2>7, SessionOnly
    <2>9. Pump(b, p) = IF rest.session[p].outstanding = {}
                       THEN [rest EXCEPT !.session[p] = NoSession] ELSE rest
        BY <1>3 DEF Pump, rest, sent, left
    <2>10. OpenIn(rest) = OpenIn(b) /\ OnlyOf(b, rest, p)
        BY <2>1, <2>4, <2>6, <2>8 DEF OpenIn, OnlyOf
    <2>. HIDE DEF s, n, asked
    <2>11. CASE rest.session[p].outstanding # {}
        <3>1. Pump(b, p) = rest
            BY <2>9, <2>11
        <3>. QED BY <2>8, <2>10, <2>11, <3>1 DEF Waits
    <2>12. CASE rest.session[p].outstanding = {}
        <3>. DEFINE c == [rest EXCEPT !.session[p] = NoSession]
        <3>1. NoSession \in Sessions /\ NoSession.outstanding = {} /\ ~NoSession.open
            BY EmptySeq DEF NoSession, Sessions
        <3>2. Balanced(c) /\ c.session[p] = NoSession /\ OnlyOf(rest, c, p)
            BY <2>8, <3>1, SessionOnly
        <3>3. Pump(b, p) = c
            BY <2>9, <2>12
        <3>. HIDE DEF c
        <3>4. Waits(c, p) /\ OpenIn(c) \subseteq OpenIn(rest) /\ OnlyOf(b, c, p)
            BY <2>10, <3>1, <3>2 DEF Waits, OpenIn, OnlyOf
        <3>. QED BY <2>10, <3>2, <3>3, <3>4
    <2>. QED BY <2>11, <2>12
<1>. QED BY <1>2, <1>3

\* start_sync opens a session that waits for the inventory.
LEMMA Begun ==
    ASSUME NEW b, Balanced(b), NEW p \in Peers, ~b.session[p].open
    PROVE  LET c == Begin(b, p)
           IN  /\ Balanced(c) /\ OnlyOf(b, c, p) /\ OpenIn(c) = OpenIn(b) \cup {p}
               /\ Waits(c, p)
<1>. DEFINE s == [open |-> TRUE, differing |-> <<>>, outstanding |-> {}]
            d == [b EXCEPT !.session[p] = s]
<1>1. b \in Ledgers /\ b.session[p] = NoSession
    BY DEF Balanced, Orderly
<1>2. s \in Sessions /\ s.outstanding \subseteq b.session[p].outstanding
    BY EmptySeq DEF Sessions
<1>3. [b EXCEPT !.session[p].open = TRUE] = d
    <2>1. [b.session[p] EXCEPT !.open = TRUE] = s
        <3>1. /\ b.session[p] \in Sessions
              /\ b.session[p].differing = <<>> /\ b.session[p].outstanding = {}
            BY <1>1 DEF NoSession, Ledgers
        <3>. DEFINE r == [b.session[p] EXCEPT !.open = TRUE]
        <3>2. r \in Sessions
            BY <3>1 DEF Sessions
        <3>3. r.open = TRUE /\ s.open = TRUE
            BY <3>1 DEF Sessions
        <3>4. r.differing = <<>> /\ r.outstanding = {}
            BY <3>1 DEF Sessions
        <3>5. s.differing = <<>> /\ s.outstanding = {}
            OBVIOUS
        <3>. HIDE DEF r, s
        <3>6. r = s
            BY <1>2, <3>2, <3>3, <3>4, <3>5, SameSession
        <3>. QED BY <3>6 DEF r
    <2>. HIDE DEF s
    <2>. QED BY <1>1, <2>1 DEF Ledgers
<1>4. Balanced(d) /\ d.session[p] = s /\ OnlyOf(b, d, p)
    <2>. HIDE DEF s
    <2>1. s.open
        BY DEF s
    <2>. QED BY <1>2, <2>1, SessionOnly
<1>. HIDE DEF d
<1>5. /\ d.session[p].open
      /\ Cardinality(d.session[p].outstanding) + Len(<<NoBucket>>) <= MaxPending
    <2>1. Cardinality({}) = 0 /\ Len(<<NoBucket>>) = 1
        BY FS_EmptySet
    <2>. QED BY <1>4, <2>1, SessionAssumption DEF SessionAssumption
<1>6. "Inventory" \in Kinds /\ <<NoBucket>> \in Seq(Buckets \cup {NoBucket})
    BY DEF Kinds
<1>. DEFINE c == Send(d, "Inventory", p, <<NoBucket>>)
<1>7. /\ Balanced(c) /\ OnlyOf(d, c, p) /\ OpenIn(c) = OpenIn(d)
      /\ c.session[p].outstanding # {}
    <2>1. Len(<<NoBucket>>) # 0
        OBVIOUS
    <2>. DEFINE one == <<NoBucket>>
    <2>. HIDE DEF one
    <2>2. one \in Seq(Buckets \cup {NoBucket}) /\ Len(one) # 0
        BY <1>6, <2>1 DEF one
    <2>3. Cardinality(d.session[p].outstanding) + Len(one) <= MaxPending
        BY <1>5 DEF one
    <2>5. \/ "Inventory" = "Records"
          \/ ~d.session[p].open
          \/ Cardinality(d.session[p].outstanding) + Len(one) <= MaxPending
        BY <2>3
    <2>6. Balanced(d) /\ d.session[p].open
        BY <1>4, <1>5
    <2>4. LET e == Send(d, "Inventory", p, one)
          IN  Balanced(e) /\ OnlyOf(d, e, p) /\ OpenIn(e) = OpenIn(d)
        BY <1>6, <2>2, <2>5, <2>6, Sent
    <2>7. Send(d, "Inventory", p, one).session[p].outstanding # {}
        BY <1>6, <2>2, <2>5, <2>6, Sent
    <2>. QED BY <2>4, <2>7 DEF one
<1>8. Begin(b, p) = c
    BY <1>3 DEF Begin
<1>. HIDE DEF c
<1>9. OpenIn(d) = OpenIn(b) \cup {p}
    BY <1>4, <1>5 DEF OpenIn, OnlyOf
<1>. QED BY <1>4, <1>7, <1>8, <1>9 DEF OnlyOf, Waits

\* A comparison may put buckets back, or others in their place.
LEMMA Requeued ==
    ASSUME NEW b, Balanced(b), NEW p \in Peers, b.session[p].open, NEW list \in Seq(Buckets)
    PROVE  LET c == [b EXCEPT !.session[p].differing = list]
           IN  Balanced(c) /\ OnlyOf(b, c, p) /\ OpenIn(c) = OpenIn(b)
<1>. DEFINE s == [b.session[p] EXCEPT !.differing = list]
            c == [b EXCEPT !.session[p] = s]
<1>1. b \in Ledgers /\ b.session[p] \in Sessions
    BY DEF Balanced, Ledgers
<1>2. s \in Sessions /\ s.outstanding = b.session[p].outstanding /\ s.open
    BY <1>1 DEF Sessions
<1>3. [b EXCEPT !.session[p].differing = list] = c
    BY <1>1 DEF Ledgers
<1>. HIDE DEF s
<1>4. Balanced(c) /\ c.session[p] = s /\ OnlyOf(b, c, p)
    BY <1>2, SessionOnly
<1>. HIDE DEF c
<1>5. OpenIn(c) = OpenIn(b)
    BY <1>2, <1>4 DEF OpenIn, OnlyOf
<1>. QED BY <1>3, <1>4, <1>5

\* The records of a page are asked for, whatever is outstanding.
LEMMA FetchedBooks ==
    ASSUME NEW b, Balanced(b), NEW p \in Peers, NEW missing \in BOOLEAN
    PROVE  LET c == Fetched(b, p, missing)
           IN  Balanced(c) /\ OnlyOf(b, c, p) /\ OpenIn(c) = OpenIn(b)
<1>1. "Records" \in Kinds /\ <<NoBucket>> \in Seq(Buckets \cup {NoBucket})
    BY DEF Kinds
<1>2. LET c == Send(b, "Records", p, <<NoBucket>>)
      IN  Balanced(c) /\ OnlyOf(b, c, p) /\ OpenIn(c) = OpenIn(b)
    <2>. DEFINE one == <<NoBucket>>
    <2>. HIDE DEF one
    <2>1. one \in Seq(Buckets \cup {NoBucket})
        BY <1>1 DEF one
    <2>2. LET c == Send(b, "Records", p, one)
          IN  Balanced(c) /\ OnlyOf(b, c, p) /\ OpenIn(c) = OpenIn(b)
        BY <1>1, <2>1, Sent
    <2>. QED BY <2>2 DEF one
<1>3. CASE missing
    BY <1>2, <1>3 DEF Fetched
<1>4. CASE ~missing
    BY <1>4 DEF Fetched, OnlyOf
<1>. QED BY <1>3, <1>4

\* A bucket that has more pages is asked for again, or waits in front.
LEMMA NextPageBooks ==
    ASSUME NEW b, Balanced(b), NEW p \in Peers, NEW bucket \in Buckets
    PROVE  LET c == NextPage(b, p, bucket)
           IN  Balanced(c) /\ OnlyOf(b, c, p) /\ OpenIn(c) = OpenIn(b)
<1>1. CASE HasRoom(b, p)
    <2>. DEFINE one == <<bucket>>
    <2>1. one \in Seq(Buckets \cup {NoBucket}) /\ one \in Seq(Buckets) /\ Len(one) = 1 /\ "Ids" \in Kinds
        BY DEF Kinds
    <2>. HIDE DEF one
    <2>2. Cardinality(b.session[p].outstanding) + Len(one) <= MaxPending
        <3>1. Cardinality(b.session[p].outstanding) \in Nat
            BY OutstandingFinite
        <3>. QED BY <1>1, <2>1, <3>1, SessionAssumption DEF HasRoom, SessionAssumption
    <2>3. LET c == Send(b, "Ids", p, one)
          IN  Balanced(c) /\ OnlyOf(b, c, p) /\ OpenIn(c) = OpenIn(b)
        BY <2>1, <2>2, Sent
    <2>4. NextPage(b, p, bucket) = Send(b, "Ids", p, one)
        BY <1>1 DEF NextPage, one
    <2>. QED BY <2>3, <2>4
<1>2. CASE ~HasRoom(b, p) /\ b.session[p].open
    <2>. DEFINE list == <<bucket>> \o b.session[p].differing
    <2>1. b.session[p].differing \in Seq(Buckets) /\ b \in Ledgers
        BY DEF Balanced, Ledgers, Sessions
    <2>2. list \in Seq(Buckets)
        BY <1>2, <2>1, ConcatProperties
    <2>3. NextPage(b, p, bucket) = [b EXCEPT !.session[p].differing = list]
        BY <1>2, <2>1 DEF NextPage, Ledgers
    <2>. HIDE DEF list
    <2>4. LET c == [b EXCEPT !.session[p].differing = list]
          IN  Balanced(c) /\ OnlyOf(b, c, p) /\ OpenIn(c) = OpenIn(b)
        BY <1>2, <2>2, Requeued
    <2>. QED BY <2>3, <2>4
<1>3. CASE ~HasRoom(b, p) /\ ~b.session[p].open
    BY <1>3 DEF NextPage, OnlyOf
<1>. QED BY <1>1, <1>2, <1>3

-----------------------------------------------------------------------------
(* The line of the books.                                                    *)

\* Inductive: the books balance, no more sessions are open than may be, and
\* one that waits for nothing belongs to a peer that is being disconnected.
BookLine ==
    /\ connected \subseteq Peers /\ closing \subseteq connected
    /\ pages \in 0..MaxPages
    /\ Balanced(Books)
    /\ IsFiniteSet(Open) /\ Cardinality(Open) <= MaxSessions
    /\ \A p \in Peers : Waits(Books, p) \/ p \in closing

LEMMA BooksAre ==
    /\ Books.session = session /\ Books.pending = pending
    /\ Books.wire = wire /\ Books.tasks = tasks
    /\ Open = OpenIn(Books)
BY DEF Books, Open, OpenIn

LEMMA Kept ==
    ASSUME NEW c, c \in Ledgers, Keep(c)
    PROVE  Books' = c
BY DEF Keep, Books, Ledgers

\* The books change for one peer, whose session ends or still waits.
LEMMA Moved ==
    ASSUME BookLine, NEW c, Balanced(c), Keep(c), NEW p \in Peers,
           OnlyOf(Books, c, p), OpenIn(c) \subseteq Open,
           connected' \subseteq Peers, closing' \subseteq connected', pages' \in 0..MaxPages,
           closing \ {p} \subseteq closing', Waits(c, p) \/ p \in closing'
    PROVE  BookLine'
<1>1. Books' = c
    BY Kept DEF Balanced
<1>2. Balanced(Books)'
    BY <1>1 DEF Balanced, Orderly, Listings
<1>3. Open' = OpenIn(c) /\ session' = c.session
    BY <1>1 DEF Open, OpenIn, Keep
<1>4. OpenIn(c) \in SUBSET Open /\ IsFiniteSet(Open) /\ Cardinality(Open) <= MaxSessions
    BY DEF BookLine
<1>5. IsFiniteSet(Open') /\ Cardinality(Open') <= MaxSessions
    <2>1. IsFiniteSet(OpenIn(c)) /\ Cardinality(OpenIn(c)) <= Cardinality(Open)
        BY <1>4, FS_Subset
    <2>2. Cardinality(OpenIn(c)) \in Nat /\ Cardinality(Open) \in Nat
        BY <1>4, <2>1, FS_CardinalityType
    <2>. QED BY <1>3, <1>4, <2>1, <2>2, SessionAssumption DEF SessionAssumption
<1>6. ASSUME NEW q \in Peers PROVE (Waits(Books, q) \/ q \in closing)'
    <2>1. CASE q = p
        BY <1>1, <2>1 DEF Waits
    <2>2. CASE q # p
        <3>1. Books'.session[q] = Books.session[q]
            BY <1>1, <2>2 DEF OnlyOf
        <3>2. Waits(Books, q) \/ q \in closing
            BY DEF BookLine
        <3>. QED BY <2>2, <3>1, <3>2 DEF Waits
    <2>. QED BY <2>1, <2>2
<1>. QED BY <1>2, <1>5, <1>6 DEF BookLine

\* A session begins.
LEMMA Started ==
    ASSUME BookLine, NEW p \in Peers, MayStart(p), Keep(Begin(Books, p)),
           connected' \subseteq Peers, closing \subseteq connected', UNCHANGED <<closing, pages>>
    PROVE  BookLine'
<1>. DEFINE c == Begin(Books, p)
<1>1. Balanced(Books) /\ ~Books.session[p].open
    BY BooksAre DEF BookLine, MayStart, Open
<1>2. /\ Balanced(c) /\ OnlyOf(Books, c, p) /\ OpenIn(c) = OpenIn(Books) \cup {p}
      /\ Waits(c, p)
    BY <1>1, Begun
<1>3. Keep(c)
    OBVIOUS
<1>. HIDE DEF c
<1>4. Books' = c
    BY <1>2, <1>3, Kept DEF Balanced
<1>5. Balanced(Books)'
    BY <1>2, <1>4 DEF Balanced, Orderly, Listings
<1>6. Open' = Open \cup {p}
    <2>1. Open' = OpenIn(c)
        BY <1>3 DEF Open, OpenIn, Keep
    <2>. QED BY <1>2, <2>1, BooksAre
<1>7. IsFiniteSet(Open') /\ Cardinality(Open') <= MaxSessions
    <2>1. IsFiniteSet(Open) /\ Cardinality(Open) \in Nat /\ p \notin Open /\ Cardinality(Open) < MaxSessions
        BY FS_CardinalityType DEF BookLine, MayStart
    <2>2. IsFiniteSet(Open \cup {p}) /\ Cardinality(Open \cup {p}) = Cardinality(Open) + 1
        BY <2>1, FS_AddElement
    <2>. QED BY <1>6, <2>1, <2>2, SessionAssumption DEF SessionAssumption
<1>8. ASSUME NEW q \in Peers PROVE (Waits(Books, q) \/ q \in closing)'
    <2>1. CASE q = p
        BY <1>2, <1>4, <2>1 DEF Waits
    <2>2. CASE q # p
        <3>1. Books'.session[q] = Books.session[q]
            BY <1>2, <1>4, <2>2 DEF OnlyOf
        <3>2. Waits(Books, q) \/ q \in closing
            BY DEF BookLine
        <3>. QED BY <2>2, <3>1, <3>2 DEF Waits
    <2>. QED BY <2>1, <2>2
<1>. QED BY <1>5, <1>7, <1>8 DEF BookLine

\* The books without a session of p and what it had pending.
LEMMA Parted ==
    ASSUME BookLine, NEW p \in Peers, session' = [session EXCEPT ![p] = NoSession],
           pending' = Forgotten(p), UNCHANGED <<wire, tasks, pages>>,
           connected' \subseteq Peers, closing' \subseteq connected', closing \ {p} \subseteq closing'
    PROVE  BookLine'
<1>. DEFINE d == [Books EXCEPT !.session[p] = NoSession]
            c == [session |-> session', pending |-> pending', wire |-> wire, tasks |-> tasks]
<1>1. Balanced(Books) /\ Books \in Ledgers
    BY DEF BookLine, Balanced
<1>2. NoSession \in Sessions /\ NoSession.outstanding = {} /\ ~NoSession.open
    BY EmptySeq DEF NoSession, Sessions
<1>3. Balanced(d) /\ d.session[p] = NoSession /\ OnlyOf(Books, d, p)
    BY <1>1, <1>2, SessionOnly
<1>4. /\ d \in Ledgers /\ d.session = session' /\ d.wire = wire /\ d.tasks = tasks
      /\ d.pending = pending
    BY <1>1, <1>3, BooksAre DEF Balanced, Ledgers
<1>5. /\ c \in Ledgers /\ c.session = d.session /\ c.wire = d.wire /\ c.tasks = d.tasks
      /\ c.pending = {r \in d.pending : r.peer # p}
    BY <1>4 DEF Ledgers, Forgotten
<1>6. Keep(c)
    BY DEF Keep
<1>. HIDE DEF c, d
<1>7. ASSUME NEW q \in Peers PROVE Orderly(c, q)
    <2>1. Orderly(d, q) /\ Listings(c, q) = Listings(d, q)
        BY <1>3, <1>5 DEF Balanced, Listings
    <2>2. \A r \in c.session[q].outstanding :
            r.peer = q /\ (r \in c.wire \cap c.pending \/ r \in c.tasks)
        <3>1. CASE q = p
            BY <1>2, <1>3, <1>5, <3>1
        <3>2. CASE q # p
            BY <1>5, <2>1, <3>2 DEF Orderly
        <3>. QED BY <3>1, <3>2
    <2>. QED BY <1>5, <2>1, <2>2 DEF Orderly
<1>8. Balanced(c)
    BY <1>3, <1>5, <1>7 DEF Balanced
<1>9. /\ OnlyOf(Books, c, p) /\ Waits(c, p) /\ OpenIn(c) \subseteq Open
    BY <1>2, <1>3, <1>5, BooksAre DEF OnlyOf, Waits, OpenIn
<1>. QED BY <1>6, <1>8, <1>9, Moved DEF BookLine

LEMMA TooLateKeeps ==
    ASSUME BookLine, NEW r, ResponseTooLate(r)
    PROVE  BookLine'
<1>. DEFINE c == [session |-> session, pending |-> pending, wire |-> wire \ {r}, tasks |-> tasks]
<1>1. Balanced(Books) /\ Books \in Ledgers
    BY DEF BookLine, Balanced
<1>2. /\ c.session = Books.session /\ c.pending = Books.pending
      /\ c.wire = Books.wire \ {r} /\ c.tasks = Books.tasks
      /\ c \in Ledgers
    BY <1>1, BooksAre DEF Ledgers
<1>3. r \notin Books.pending
    BY BooksAre DEF ResponseTooLate
<1>4. Keep(c)
    BY DEF Keep, ResponseTooLate
<1>. HIDE DEF c
<1>5. ASSUME NEW q \in Peers PROVE Orderly(c, q)
    <2>1. Orderly(Books, q) /\ Listings(c, q) = Listings(Books, q)
        BY <1>1, <1>2 DEF Balanced, Listings
    <2>2. \A x \in c.session[q].outstanding :
            x.peer = q /\ (x \in c.wire \cap c.pending \/ x \in c.tasks)
        BY <1>2, <1>3, <2>1 DEF Orderly
    <2>. QED BY <1>2, <2>1, <2>2 DEF Orderly
<1>6. IsFiniteSet(c.wire) /\ IsFiniteSet(c.tasks)
    <2>1. IsFiniteSet(Books.wire) /\ IsFiniteSet(Books.tasks)
        BY <1>1 DEF Balanced
    <2>. QED BY <1>2, <2>1, FS_Difference, ZenonT(60)
<1>7. Balanced(c)
    BY <1>1, <1>2, <1>3, <1>5, <1>6 DEF Balanced
<1>8. PICK p \in Peers : TRUE
    BY <1>1 DEF ResponseTooLate, BookLine, Balanced, Ledgers, Requests, Books
<1>9. /\ OnlyOf(Books, c, p) /\ OpenIn(c) \subseteq Open
      /\ Waits(c, p) \/ p \in closing
    BY <1>2, BooksAre DEF OnlyOf, OpenIn, Waits, BookLine
<1>. QED BY <1>4, <1>7, <1>9, Moved DEF BookLine, ResponseTooLate

LEMMA ToCompareKeeps ==
    ASSUME BookLine, NEW r, ResponseToCompare(r)
    PROVE  BookLine'
<1>. DEFINE c == [session |-> session, pending |-> pending \ {r}, wire |-> wire \ {r},
                  tasks |-> tasks \cup {r}]
<1>1. Balanced(Books) /\ Books \in Ledgers
    BY DEF BookLine, Balanced
<1>2. r \in Books.wire /\ r \in Requests /\ r.peer \in Peers /\ r.kind # "Records"
    BY <1>1, BooksAre DEF ResponseToCompare, Answered, Ledgers, Requests
<1>3. /\ c.session = Books.session /\ c.pending = Books.pending \ {r}
      /\ c.wire = Books.wire \ {r} /\ c.tasks = Books.tasks \cup {r}
      /\ c \in Ledgers
    BY <1>1, <1>2, BooksAre DEF Ledgers
<1>4. Keep(c)
    BY DEF Keep, ResponseToCompare
<1>. HIDE DEF c
<1>5. ASSUME NEW q \in Peers PROVE Orderly(c, q)
    <2>1. Orderly(Books, q) /\ Listings(c, q) = Listings(Books, q)
        BY <1>1, <1>3 DEF Balanced, Listings
    <2>2. \A x \in c.session[q].outstanding :
            x.peer = q /\ (x \in c.wire \cap c.pending \/ x \in c.tasks)
        BY <1>3, <2>1 DEF Orderly
    <2>. QED BY <1>3, <2>1, <2>2 DEF Orderly
<1>6. IsFiniteSet(c.wire) /\ IsFiniteSet(c.tasks)
    <2>1. IsFiniteSet(Books.wire) /\ IsFiniteSet(Books.tasks)
        BY <1>1 DEF Balanced
    <2>2. IsFiniteSet(Books.wire \ {r})
        BY <2>1, FS_Difference
    <2>3. IsFiniteSet(Books.tasks \cup {r})
        BY <2>1, FS_AddElement
    <2>. QED BY <1>3, <2>2, <2>3
<1>7. Balanced(c)
    BY <1>1, <1>2, <1>3, <1>5, <1>6 DEF Balanced
<1>9. /\ OnlyOf(Books, c, r.peer) /\ OpenIn(c) \subseteq Open
      /\ Waits(c, r.peer) \/ r.peer \in closing
    BY <1>2, <1>3, BooksAre DEF OnlyOf, OpenIn, Waits, BookLine
<1>. QED BY <1>2, <1>4, <1>7, <1>9, Moved DEF BookLine, ResponseToCompare

LEMMA OversizedKeeps ==
    ASSUME BookLine, NEW r, ResponseOversized(r)
    PROVE  BookLine'
<1>. DEFINE c == Without(Books, r)
<1>1. Balanced(Books) /\ r \in Requests /\ r.peer \in Peers /\ r.peer \in connected
    BY BooksAre DEF BookLine, Balanced, ResponseOversized, Answered, Ledgers, Requests
<1>2. Balanced(c) /\ OnlyOf(Books, c, r.peer) /\ OpenIn(c) = OpenIn(Books)
    BY <1>1, Dropped
<1>3. Keep(c)
    BY DEF ResponseOversized
<1>. HIDE DEF c
<1>4. /\ closing' = closing \cup {r.peer} /\ connected' = connected /\ pages' = pages
    BY DEF ResponseOversized
<1>5. OpenIn(c) \subseteq Open
    BY <1>2, BooksAre
<1>6. connected' \subseteq Peers /\ closing' \subseteq connected' /\ pages' \in 0..MaxPages
    BY <1>1, <1>4 DEF BookLine
<1>. QED BY <1>1, <1>2, <1>3, <1>4, <1>5, <1>6, Moved

\* Books from which a request was taken, with whatever was then asked, pumped.
LEMMA PumpedKeeps ==
    ASSUME BookLine, NEW p \in Peers, NEW d, Balanced(d),
           OnlyOf(Books, d, p), OpenIn(d) \subseteq Open, Keep(Pump(d, p)),
           pages' \in 0..MaxPages, UNCHANGED <<connected, closing>>
    PROVE  BookLine'
<1>. DEFINE c == Pump(d, p)
<1>1. Balanced(c) /\ OnlyOf(d, c, p) /\ OpenIn(c) \subseteq OpenIn(d) /\ Waits(c, p)
    BY Pumped
<1>2. Keep(c)
    OBVIOUS
<1>. HIDE DEF c
<1>3. OnlyOf(Books, c, p) /\ OpenIn(c) \subseteq Open
    BY <1>1 DEF OnlyOf
<1>. QED BY <1>1, <1>2, <1>3, Moved DEF BookLine

LEMMA DoneKeeps ==
    ASSUME BookLine, NEW r \in wire, Keep(Pump(Without(Books, r), r.peer)),
           UNCHANGED <<connected, closing, pages>>
    PROVE  BookLine'
<1>. DEFINE d == Without(Books, r)
<1>1. Balanced(Books) /\ r \in Requests /\ r.peer \in Peers
    BY BooksAre DEF BookLine, Balanced, Ledgers, Requests
<1>2. Balanced(d) /\ OnlyOf(Books, d, r.peer) /\ OpenIn(d) \subseteq Open
    BY <1>1, BooksAre, Dropped
<1>3. Keep(Pump(d, r.peer))
    OBVIOUS
<1>. HIDE DEF d
<1>. QED BY <1>1, <1>2, <1>3, PumpedKeeps DEF BookLine

LEMMA InventoryKeeps ==
    ASSUME BookLine, NEW r, InventoryCompared(r)
    PROVE  BookLine'
<1>. DEFINE b == Without(Books, r)
            p == r.peer
<1>1. Balanced(Books) /\ r \in Requests /\ p \in Peers
    BY BooksAre DEF BookLine, Balanced, InventoryCompared, Ledgers, Requests
<1>2. Balanced(b) /\ OnlyOf(Books, b, p) /\ OpenIn(b) = Open
    BY <1>1, BooksAre, Dropped
<1>3. PICK S \in SUBSET Buckets :
        Keep(Pump(IF p \in Open THEN [b EXCEPT !.session[p].differing = SetToSeq(S)] ELSE b, p))
    BY DEF InventoryCompared
<1>. DEFINE d == IF p \in Open THEN [b EXCEPT !.session[p].differing = SetToSeq(S)] ELSE b
<1>4. SetToSeq(S) \in Seq(Buckets)
    <2>1. IsFiniteSet(S)
        BY FS_Subset, SessionAssumption DEF SessionAssumption
    <2>. QED BY <2>1, Listed
<1>. HIDE DEF b, p
<1>5. Balanced(d) /\ OnlyOf(Books, d, p) /\ OpenIn(d) \subseteq Open
    <2>1. CASE p \in Open
        <3>. DEFINE list == SetToSeq(S)
        <3>1. b.session[p].open /\ list \in Seq(Buckets)
            BY <1>1, <1>2, <1>4, <2>1 DEF OpenIn
        <3>. HIDE DEF list
        <3>. DEFINE e == [b EXCEPT !.session[p].differing = list]
        <3>2. Balanced(e) /\ OnlyOf(b, e, p) /\ OpenIn(e) = OpenIn(b)
            BY <1>1, <1>2, <3>1, Requeued
        <3>3. d = e
            BY <2>1 DEF list
        <3>. HIDE DEF d, e
        <3>. QED BY <1>2, <3>2, <3>3 DEF OnlyOf
    <2>2. CASE p \notin Open
        BY <1>2, <2>2
    <2>. QED BY <2>1, <2>2
<1>6. Keep(Pump(d, p))
    BY <1>3
<1>7. UNCHANGED <<connected, closing>> /\ pages' \in 0..MaxPages
    BY DEF InventoryCompared, BookLine
<1>. HIDE DEF d
<1>. QED BY <1>1, <1>5, <1>6, <1>7, PumpedKeeps

LEMMA IdsKeep ==
    ASSUME BookLine, NEW r, IdsCompared(r)
    PROVE  BookLine'
<1>. DEFINE w == Without(Books, r)
            p == r.peer
<1>1. Balanced(Books) /\ r \in Requests /\ p \in Peers
    BY BooksAre DEF BookLine, Balanced, IdsCompared, Ledgers, Requests
<1>2. r.bucket \in Buckets
    BY <1>1, BooksAre DEF IdsCompared, Balanced
<1>3. Balanced(w) /\ OnlyOf(Books, w, p) /\ OpenIn(w) = Open
    BY <1>1, BooksAre, Dropped
<1>4. PICK missing \in BOOLEAN, more \in BOOLEAN :
        LET b == Fetched(w, p, missing)
        IN  /\ more => pages < MaxPages
            /\ pages' = IF more THEN pages + 1 ELSE pages
            /\ Keep(Pump(IF more THEN NextPage(b, p, r.bucket) ELSE b, p))
    BY DEF IdsCompared
<1>. DEFINE b == Fetched(w, p, missing)
            n == NextPage(b, p, r.bucket)
            d == IF more THEN n ELSE b
<1>. HIDE DEF w, p
<1>5. Balanced(b) /\ OnlyOf(w, b, p) /\ OpenIn(b) = OpenIn(w)
    BY <1>1, <1>3, FetchedBooks
<1>6. /\ more => pages < MaxPages
      /\ pages' = IF more THEN pages + 1 ELSE pages
      /\ Keep(Pump(d, p))
    BY <1>4
<1>. HIDE DEF b
<1>7. Balanced(n) /\ OnlyOf(b, n, p) /\ OpenIn(n) = OpenIn(b)
    BY <1>1, <1>2, <1>5, NextPageBooks
<1>. HIDE DEF n
<1>8. Balanced(d) /\ OnlyOf(Books, d, p) /\ OpenIn(d) \subseteq Open
    <2>1. CASE more
        BY <1>3, <1>5, <1>7, <2>1 DEF OnlyOf
    <2>2. CASE ~more
        BY <1>3, <1>5, <2>2 DEF OnlyOf
    <2>. QED BY <2>1, <2>2
<1>9. UNCHANGED <<connected, closing>> /\ pages' \in 0..MaxPages
    <2>1. pages \in 0..MaxPages /\ MaxPages \in Nat
        BY SessionAssumption DEF BookLine, SessionAssumption
    <2>. QED BY <1>6, <2>1 DEF IdsCompared
<1>. HIDE DEF d
<1>. QED BY <1>1, <1>6, <1>8, <1>9, PumpedKeeps

-----------------------------------------------------------------------------
(* The theorems.                                                             *)

LEMMA LineInit == Init => BookLine
<1>. SUFFICES ASSUME Init PROVE BookLine
    OBVIOUS
<1>1. NoSession \in Sessions /\ ~NoSession.open /\ NoSession.outstanding = {}
    BY EmptySeq DEF NoSession, Sessions
<1>2. session = [p \in Peers |-> NoSession] /\ pending = {} /\ wire = {} /\ tasks = {}
    BY DEF Init
<1>3. Books \in Ledgers
    BY <1>1, <1>2 DEF Books, Ledgers
<1>4. IsFiniteSet({}) /\ Cardinality({}) = 0 /\ MaxPending \in Nat /\ MaxSessions \in Nat /\ MaxPages \in Nat
    BY FS_EmptySet, SessionAssumption DEF SessionAssumption
<1>5. ASSUME NEW p \in Peers PROVE Orderly(Books, p) /\ Waits(Books, p)
    <2>1. Books.session[p] = NoSession
        BY <1>2, BooksAre
    <2>2. Listings(Books, p) = {}
        BY <1>1, <2>1 DEF Listings
    <2>. QED BY <1>1, <1>4, <2>1, <2>2 DEF Orderly, Waits
<1>6. Balanced(Books)
    BY <1>2, <1>3, <1>4, <1>5, BooksAre DEF Balanced
<1>7. Open = {}
    BY <1>1, <1>2 DEF Open
<1>. QED BY <1>4, <1>5, <1>6, <1>7 DEF BookLine, Init

LEMMA LineNext == BookLine /\ [Next]_vars => BookLine'
<1>. SUFFICES ASSUME BookLine, [Next]_vars PROVE BookLine'
    OBVIOUS
<1>1. ASSUME NEW p \in Peers, Connected(p) PROVE BookLine'
    <2>1. /\ connected' = connected \cup {p} /\ UNCHANGED <<closing, pages>>
          /\ connected' \subseteq Peers /\ closing \subseteq connected'
        BY <1>1 DEF Connected, BookLine
    <2>2. CASE MayStart(p) /\ Keep(Begin(Books, p))
        BY <2>1, <2>2, Started
    <2>3. CASE UNCHANGED books
        <3>1. Books' = Books /\ Open' = Open
            BY <2>3 DEF books, Books, Open
        <3>2. Balanced(Books)' /\ \A q \in Peers : (Waits(Books, q) \/ q \in closing)'
            BY <2>1, <3>1 DEF BookLine, Balanced, Orderly, Listings, Waits
        <3>. QED BY <2>1, <3>1, <3>2 DEF BookLine
    <2>. QED BY <1>1, <2>2, <2>3 DEF Connected
<1>2. ASSUME NEW p \in Peers, Disconnected(p) PROVE BookLine'
    <2>1. connected' \subseteq Peers /\ closing' \subseteq connected' /\ closing \ {p} \subseteq closing'
        BY <1>2 DEF Disconnected, BookLine
    <2>. QED BY <1>2, <2>1, Parted DEF Disconnected
<1>3. ASSUME NEW p \in Peers, StartSync(p) PROVE BookLine'
    BY <1>3, Started DEF StartSync, BookLine
<1>4. ASSUME NEW p \in Peers, TimeOut(p) PROVE BookLine'
    BY <1>4, Parted DEF TimeOut, BookLine
<1>5. ASSUME NEW r \in wire, Event(r) PROVE BookLine'
    <2>1. CASE ResponseTooLate(r)
        BY <2>1, TooLateKeeps
    <2>2. CASE ResponseOversized(r)
        BY <2>2, OversizedKeeps
    <2>3. CASE ResponseToCompare(r)
        BY <2>3, ToCompareKeeps
    <2>4. CASE ResponseTaken(r)
        BY <2>4, DoneKeeps DEF ResponseTaken
    <2>5. CASE OutboundFailure(r)
        BY <2>5, DoneKeeps DEF OutboundFailure
    <2>. QED BY <1>5, <2>1, <2>2, <2>3, <2>4, <2>5 DEF Event
<1>6. ASSUME NEW r \in tasks, Compared(r) PROVE BookLine'
    BY <1>6, InventoryKeeps, IdsKeep DEF Compared
<1>7. CASE UNCHANGED vars
    <2>1. Books' = Books /\ Open' = Open /\ UNCHANGED <<connected, closing, pages>>
        BY <1>7 DEF vars, books, Books, Open
    <2>2. Balanced(Books)' /\ \A q \in Peers : (Waits(Books, q) \/ q \in closing)'
        BY <2>1 DEF BookLine, Balanced, Orderly, Listings, Waits
    <2>. QED BY <2>1, <2>2 DEF BookLine
<1>. QED BY <1>1, <1>2, <1>3, <1>4, <1>5, <1>6, <1>7 DEF Next

LEMMA LineAlways == Spec => []BookLine
BY LineInit, LineNext, PTL DEF Spec

LEMMA LineMeans == BookLine => SessionInv /\ SessionAdvances /\ PendingIsOwed
<1>. SUFFICES ASSUME BookLine PROVE SessionInv /\ SessionAdvances /\ PendingIsOwed
    OBVIOUS
<1>1. Balanced(Books) /\ Books \in Ledgers
    BY DEF BookLine, Balanced
<1>2. /\ session \in [Peers -> Sessions] /\ pending \subseteq Requests /\ wire \subseteq Requests
      /\ tasks \subseteq Requests /\ pending \subseteq wire /\ \A r \in tasks : r.kind # "Records"
    BY <1>1, BooksAre DEF Balanced, Ledgers
<1>3. ASSUME NEW p \in Peers
      PROVE  /\ session[p] \in Sessions
             /\ ~session[p].open => session[p] = NoSession
             /\ \A r \in session[p].outstanding :
                    r.peer = p /\ (r \in wire \cap pending \/ r \in tasks)
             /\ Cardinality({r \in session[p].outstanding : r.kind # "Records"}) <= MaxPending
    <2>1. Orderly(Books, p)
        BY <1>1 DEF Balanced
    <2>. QED BY <1>2, <2>1, BooksAre DEF Orderly, Listings
<1>4. TypeOK
    <2>1. DOMAIN session = Peers
        BY <1>2
    <2>2. \A p \in Peers :
            /\ session[p].open \in BOOLEAN
            /\ session[p].differing \in Seq(Buckets)
            /\ session[p].outstanding \subseteq {r \in Requests : r.peer = p}
            /\ ~session[p].open => session[p] = NoSession
        BY <1>3 DEF Sessions
    <2>. QED BY <1>2, <2>1, <2>2 DEF TypeOK, BookLine
<1>5. WithinLimits
    BY <1>3 DEF WithinLimits, BookLine, Open
<1>6. SessionAdvances
    <2>1. ASSUME NEW p \in Open PROVE session[p].outstanding # {} \/ p \in closing
        BY <2>1, BooksAre DEF BookLine, Waits, Open
    <2>2. \A p \in Open : \A r \in session[p].outstanding : r \in wire \cap pending \/ r \in tasks
        BY <1>3 DEF Open
    <2>. QED BY <2>1, <2>2 DEF SessionAdvances
<1>. QED BY <1>2, <1>4, <1>5, <1>6 DEF SessionInv, PendingIsOwed

\* The sessions keep their shape and their limits: no more are open together
\* than MAX_SIMULTANEOUS_SYNC_PEERS, and of none are more listings outstanding
\* than MAX_PENDING_SYNC_REQUESTS_PER_PEER, whatever is late, lost or refused.
THEOREM Limits == Spec => []SessionInv
BY LineAlways, LineMeans, PTL

\* An open session waits for a request that libp2p reports on or a comparison
\* that returns, unless its peer is being disconnected: pump_sync never leaves
\* one that waits for nothing.
THEOREM Advances == Spec => []SessionAdvances
BY LineAlways, LineMeans, PTL

\* pending_sync has no entry libp2p has already reported on.
THEOREM NoLeak == Spec => []PendingIsOwed
BY LineAlways, LineMeans, PTL
=============================================================================
