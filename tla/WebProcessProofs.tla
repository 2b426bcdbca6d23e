-------------------------- MODULE WebProcessProofs --------------------------
(***************************************************************************)
(* Proofs about WebProcess and its parts, for any threads, callers, hosts, *)
(* documents, rows, limits and bounds: types, that a walk through a        *)
(* changing listing misses nothing and repeats what was set back, that a   *)
(* heartbeat lasts as long as was answered, and that both limiters keep    *)
(* their rates.                                                            *)
(***************************************************************************)
EXTENDS WebProcess, FiniteSetTheorems, SequenceTheorems, NaturalsInduction,
        WellFoundedInduction, TLAPS

-----------------------------------------------------------------------------
(* The order of a listing and its pages.                                   *)

\* Row j comes in front of row i.
Before(k, j, i) == k[i] < k[j] \/ (k[i] = k[j] /\ i < j)
Front(k, rows, i) == {j \in rows : Before(k, j, i)}

\* Every set of naturals has a least element.
LEMMA LeastNatural ==
  ASSUME NEW T \in SUBSET Nat, T # {}
  PROVE  \E m \in T : \A n \in T : m <= n
<1>1. PICK m \in T : \A n \in T : ~(<<n, m>> \in OpToRel(<, Nat))
  BY NatLessThanWellFounded, WFMin
<1>2. ASSUME NEW n \in T PROVE m <= n
  <2>1. n \in Nat /\ m \in Nat
    OBVIOUS
  <2>2. n < m => <<n, m>> \in OpToRel(<, Nat)
    BY <2>1 DEF OpToRel
  <2>3. ~(n < m)
    BY <1>1, <2>2
  <2>4. QED
    BY <2>1, <2>3
<1>3. QED
  BY <1>2

\* (sort key, id) DESC orders any rows: two rows with one timestamp have two ids.
LEMMA Order ==
  ASSUME NEW rows \in SUBSET Nat, NEW k, \A i \in rows : k[i] \in Nat
  PROVE  /\ \A i \in rows : ~Before(k, i, i)
         /\ \A i, j \in rows : i = j \/ Before(k, i, j) \/ Before(k, j, i)
         /\ \A i, j, x \in rows : Before(k, i, j) /\ Before(k, j, x) => Before(k, i, x)
BY DEF Before

\* The rows in front of a row, and fewer in front of each of those.
LEMMA Fronts ==
  ASSUME NEW rows \in SUBSET Nat, IsFiniteSet(rows), NEW k, \A i \in rows : k[i] \in Nat, NEW i \in rows
  PROVE  /\ IsFiniteSet(Front(k, rows, i)) /\ Cardinality(Front(k, rows, i)) \in Nat
         /\ Cardinality(Front(k, rows, i)) <= Cardinality(rows)
         /\ \A j \in Front(k, rows, i) :
              Cardinality(Front(k, rows, j)) < Cardinality(Front(k, rows, i))
<1>1. ASSUME NEW j \in rows
      PROVE  /\ IsFiniteSet(Front(k, rows, j)) /\ Cardinality(Front(k, rows, j)) \in Nat
             /\ Cardinality(Front(k, rows, j)) <= Cardinality(rows)
  <2>1. Front(k, rows, j) \subseteq rows
    BY DEF Front
  <2>2. QED
    BY <2>1, FS_Subset, FS_CardinalityType
<1>2. ASSUME NEW j \in Front(k, rows, i)
      PROVE  Cardinality(Front(k, rows, j)) < Cardinality(Front(k, rows, i))
  <2> DEFINE rest == Front(k, rows, i) \ {j}
  <2>1. j \in rows /\ Before(k, j, i)
    BY DEF Front
  <2>2. Front(k, rows, j) \subseteq rest
    <3>1. ASSUME NEW x \in Front(k, rows, j) PROVE x \in rest
      <4>1. x \in rows /\ Before(k, x, j)
        BY DEF Front
      <4>2. Before(k, x, i) /\ x # j
        BY <2>1, <4>1, Order
      <4>3. QED
        BY <4>1, <4>2 DEF Front
    <3>2. QED
      BY <3>1
  <2>3. IsFiniteSet(rest) /\ Cardinality(rest) = Cardinality(Front(k, rows, i)) - 1
    BY <1>1, FS_RemoveElement
  <2>4. Cardinality(Front(k, rows, j)) <= Cardinality(rest)
    BY <2>2, <2>3, FS_Subset
  <2>5. Cardinality(Front(k, rows, j)) \in Nat /\ Cardinality(Front(k, rows, i)) \in Nat
    BY <1>1, <2>1
  <2> HIDE DEF rest
  <2>6. QED
    BY <2>3, <2>4, <2>5
<1>3. QED
  BY <1>1, <1>2

\* Of some rows one comes first,
LEMMA Foremost ==
  ASSUME NEW rows \in SUBSET Nat, IsFiniteSet(rows), NEW k, \A i \in rows : k[i] \in Nat,
         NEW T \in SUBSET rows, T # {}
  PROVE  \E i \in T : \A j \in T : ~Before(k, j, i)
<1> DEFINE Sizes == {Cardinality(Front(k, rows, i)) : i \in T}
<1>1. Sizes \subseteq Nat /\ Sizes # {}
  BY Fronts
<1>2. PICK m \in Sizes : \A n \in Sizes : m <= n
  BY <1>1, LeastNatural
<1>3. PICK i \in T : m = Cardinality(Front(k, rows, i))
  OBVIOUS
<1>4. ASSUME NEW j \in T, Before(k, j, i) PROVE FALSE
  <2>1. j \in Front(k, rows, i)
    BY <1>4 DEF Front
  <2>2. Cardinality(Front(k, rows, j)) < m
    BY <1>3, <2>1, Fronts
  <2>3. m <= Cardinality(Front(k, rows, j))
    BY <1>2
  <2>4. m \in Nat /\ Cardinality(Front(k, rows, j)) \in Nat
    BY <1>1, Fronts
  <2>5. QED
    BY <2>2, <2>3, <2>4
<1>5. QED
  BY <1>4

\* and one comes last.
LEMMA Hindmost ==
  ASSUME NEW rows \in SUBSET Nat, IsFiniteSet(rows), NEW k, \A i \in rows : k[i] \in Nat,
         NEW T \in SUBSET rows, T # {}
  PROVE  \E i \in T : \A j \in T \ {i} : Before(k, j, i)
<1> DEFINE size(i) == Cardinality(rows) - Cardinality(Front(k, rows, i))
           Sizes == {size(i) : i \in T}
<1>1. \A i \in rows : size(i) \in Nat /\ Cardinality(Front(k, rows, i)) \in Nat
  BY Fronts, FS_CardinalityType
<1>2. PICK m \in Sizes : \A n \in Sizes : m <= n
  <2>1. Sizes \subseteq Nat /\ Sizes # {}
    BY <1>1
  <2>2. QED
    BY <2>1, LeastNatural
<1>3. PICK i \in T : m = size(i)
  OBVIOUS
<1>4. ASSUME NEW j \in T \ {i} PROVE Before(k, j, i)
  <2>1. SUFFICES ASSUME Before(k, i, j) PROVE FALSE
    BY Order
  <2>2. i \in Front(k, rows, j)
    BY <2>1 DEF Front
  <2>3. Cardinality(Front(k, rows, i)) < Cardinality(Front(k, rows, j))
    BY <2>2, Fronts
  <2>4. size(i) <= size(j)
    BY <1>2, <1>3
  <2>5. Cardinality(rows) \in Nat
    BY FS_CardinalityType
  <2>6. QED
    BY <1>1, <2>3, <2>4, <2>5
<1>5. QED
  BY <1>4

\* A page as its rows in front: what is in front of a row of the page is in it.
LEMMA FirstRows ==
  ASSUME NEW rows \in SUBSET Nat, IsFiniteSet(rows), NEW k, \A i \in rows : k[i] \in Nat, NEW n \in Nat
  PROVE  /\ First(k, rows, n) = {i \in rows : Cardinality(Front(k, rows, i)) < n}
         /\ First(k, rows, n) \subseteq rows
         /\ \A i \in First(k, rows, n), j \in rows : Before(k, j, i) => j \in First(k, rows, n)
<1>1. First(k, rows, n) = {i \in rows : Cardinality(Front(k, rows, i)) < n}
  BY DEF First, Front, Before, Behind
<1>2. ASSUME NEW i \in First(k, rows, n), NEW j \in rows, Before(k, j, i)
      PROVE  j \in First(k, rows, n)
  <2>1. i \in rows /\ Cardinality(Front(k, rows, i)) < n /\ j \in Front(k, rows, i)
    BY <1>1, <1>2 DEF Front
  <2>2. /\ Cardinality(Front(k, rows, j)) < Cardinality(Front(k, rows, i))
        /\ Cardinality(Front(k, rows, i)) \in Nat /\ Cardinality(Front(k, rows, j)) \in Nat
    BY <2>1, Fronts
  <2>3. Cardinality(Front(k, rows, j)) < n
    BY <2>1, <2>2
  <2>4. QED
    BY <1>1, <2>3
<1>3. QED
  BY <1>1, <1>2

\* limit + 1: when one row more makes no difference, nothing is left; and a page
\* of something is not empty.
LEMMA NothingLeft ==
  ASSUME NEW rows \in SUBSET Nat, IsFiniteSet(rows), NEW k, \A i \in rows : k[i] \in Nat,
         NEW n \in Nat \ {0}
  PROVE  /\ First(k, rows, n + 1) = First(k, rows, n) => First(k, rows, n) = rows
         /\ First(k, rows, n) = {} => rows = {}
<1> DEFINE page == First(k, rows, n)
<1>1. /\ page = {i \in rows : Cardinality(Front(k, rows, i)) < n} /\ page \subseteq rows
      /\ First(k, rows, n + 1) = {i \in rows : Cardinality(Front(k, rows, i)) < n + 1}
  BY FirstRows
<1> HIDE DEF page
<1>2. IsFiniteSet(page)
  BY <1>1, FS_Subset
<1>3. Cardinality(page) \in Nat /\ Cardinality(page) <= n
  <2>1. CASE page = {}
    BY <2>1, FS_EmptySet
  <2>2. CASE page # {}
    <3>1. PICK m \in page : \A j \in page \ {m} : Before(k, j, m)
      BY <1>1, <2>2, Hindmost
    <3> DEFINE F == Front(k, rows, m)
    <3>2. page \subseteq F \cup {m}
      BY <1>1, <3>1 DEF Front
    <3>3. IsFiniteSet(F) /\ Cardinality(F) \in Nat /\ Cardinality(F) < n /\ m \notin F
      BY <1>1, Fronts, Order DEF Front
    <3> HIDE DEF F
    <3>4. IsFiniteSet(F \cup {m}) /\ Cardinality(F \cup {m}) = Cardinality(F) + 1
      BY <3>3, FS_AddElement
    <3>5. Cardinality(page) \in Nat /\ Cardinality(page) <= Cardinality(F \cup {m})
      BY <3>2, <3>4, FS_Subset, FS_CardinalityType, <1>2
    <3>6. QED
      BY <3>3, <3>4, <3>5
  <2>3. QED
    BY <2>1, <2>2
<1>4. ASSUME page # rows
      PROVE  \E j \in rows \ page : Front(k, rows, j) \subseteq page
  <2>1. PICK j \in rows \ page : \A x \in rows \ page : ~Before(k, x, j)
    BY <1>1, <1>4, Foremost
  <2>2. QED
    BY <2>1 DEF Front
<1>5. ASSUME NEW j \in rows \ page, Front(k, rows, j) \subseteq page
      PROVE  Cardinality(Front(k, rows, j)) \in Nat
             /\ Cardinality(Front(k, rows, j)) <= Cardinality(page)
  BY <1>2, <1>5, FS_Subset, Fronts
<1>6. First(k, rows, n + 1) = page => page = rows
  <2> SUFFICES ASSUME page # rows PROVE First(k, rows, n + 1) # page
    OBVIOUS
  <2>1. PICK j \in rows \ page : Front(k, rows, j) \subseteq page
    BY <1>4
  <2>2. Cardinality(Front(k, rows, j)) < n + 1
    BY <1>3, <1>5, <2>1
  <2>3. QED
    BY <1>1, <2>1, <2>2
<1>7. page = {} => rows = {}
  <2> SUFFICES ASSUME page = {}, rows # {} PROVE FALSE
    OBVIOUS
  <2>1. PICK j \in rows \ page : Front(k, rows, j) \subseteq page
    BY <1>4
  <2>2. Cardinality(Front(k, rows, j)) = 0
    BY <2>1, FS_EmptySet
  <2>3. QED
    BY <1>1, <2>1, <2>2
<1>8. QED
  BY <1>6, <1>7 DEF page


-----------------------------------------------------------------------------
(* The inductive invariant.                                                *)

Jobs == [who : Principals \cup {Nobody}, doc : Documents \cup {Nobody}, host : Hosts \cup {Nobody},
         at : 0..MaxTime, stale : SUBSET Hosts, lost : BOOLEAN]
Labels == {"idle"} \cup WindowLabels \cup PresenceLabels

PoolTypes == now \in 1..MaxTime /\ pc \in [Handlers -> Labels] /\ job \in [Handlers -> Jobs]

\* What a handler that is about to take a step was called with, and the time it
\* has read.
Held(label, j) ==
    /\ label \in PresenceLabels => j.doc \in Documents /\ j.who \in Principals
    /\ label \in WindowLabels => j.host \in Hosts
    /\ label \in Checking \cup {"upsert"} => j.at \in 1..now
    /\ j.lost => label \in Checking

PoolTrue == PoolTypes /\ \A t \in Handlers : Held(pc[t], job[t])

\* A row has been given once at most, and once more for each time it was set back;
\* one behind the cursor is still to come, and was set back as often as it was given.
\* Of the rows that were there from the first page, those behind the cursor were
\* not given and the others once.
PagesTrue ==
    /\ \A i \in Ids : seen[i] <= 1 + setBack[i]
    /\ walk = NoWalk \/ walk.open \/ walk.done
    /\ walk = NoWalk => \A i \in Ids : seen[i] = 0
    /\ walk.open => /\ \A i \in Ids : Behind(key, i, walk) => seen[i] <= setBack[i]
                    /\ \A i \in steady : seen[i] = IF Behind(key, i, walk) THEN 0 ELSE 1
    /\ walk.done => \A i \in steady : seen[i] = 1

\* The heartbeats of a principal for a document that are about to be written.
Beats(d, p) == {t \in Handlers : pc[t] = "upsert" /\ job[t].doc = d /\ job[t].who = p}

\* What was answered is in the row; the one heartbeat about to be written
\* answers no less.
BeatTrue(d, p) ==
    /\ promised[d][p] > now => expires[d][p] >= promised[d][p]
    /\ \A t \in Beats(d, p) :
         promised[d][p] <= job[t].at + TTL /\ \A u \in Beats(d, p) : u = t

PresenceTrue ==
    /\ sweptAt <= now
    /\ \A d \in Documents, p \in Principals :
         /\ promised[d][p] <= now + TTL
         /\ <<d, p>> \in crossed \/ BeatTrue(d, p)

\* A bucket holds what is left of Capacity since any time its caller was let in.
BucketTrue(k, b) ==
    /\ \A i \in DOMAIN passed[k] :
         /\ passed[k][i] <= b.last
         /\ (Len(passed[k]) - i + 1) * Period + b.tokens
              <= Capacity[k] * (Period + b.last - passed[k][i])
    /\ told[k] > 0 =>
         told[k] >= b.last /\ b.tokens + (told[k] - b.last) * Capacity[k] >= Period

Spaced(k) ==
    \A i, j \in DOMAIN passed[k] :
        i <= j => (j - i + 1) * Period <= Capacity[k] * (Period + passed[k][j] - passed[k][i])

Buckets == [key : Callers, tokens : Nat, last : Nat]

\* Whoever is behind a bucket has been checked since; so a bucket is dropped when
\* as many others have been.
LimiterTrue ==
    /\ buckets \in Seq(Buckets)
    /\ \A i, j \in DOMAIN buckets : i < j =>
         buckets[i].key # buckets[j].key /\ buckets[j].key \in others[buckets[i].key]
    /\ \A k \in Callers :
         /\ IsFiniteSet(others[k]) /\ Spaced(k)
         /\ Places(k) = {} => passed[k] = <<>> \/ Cardinality(others[k]) >= MaxKeys
         /\ \A b \in OfCaller(k) : BucketTrue(k, b)

\* A host's deque is the end of what it was let through; what is not in it any
\* more is older than the window, also for the check under way.
HostTrue(h) ==
    LET n == Len(passes[h])
        m == Len(hits[h])
    IN
    /\ m <= n
    /\ \A i \in 1..m : hits[h][i] = passes[h][n - m + i]
    /\ \A i, j \in 1..n : i <= j => passes[h][i] <= passes[h][j]
    /\ \A i \in 1..n : i + Limit <= n => passes[h][i] + Window < passes[h][i + Limit]
    /\ \A i \in 1..(n - m) : passes[h][i] + Window < now
    /\ \A t \in In(h) :
         /\ ~job[t].lost /\ \A u \in In(h) : u = t
         /\ \A i \in 1..n : passes[h][i] <= job[t].at
         /\ \A i \in 1..(n - m) : passes[h][i] + Window < job[t].at
         /\ pc[t] = "pop" => 0 < m /\ hits[h][1] + Window < job[t].at
         /\ pc[t] = "hit" => m < Limit

\* All of that but for the hosts whose checks ran into each other.
WindowTrue == \A h \in Hosts \ raced : HostTrue(h)

IInv ==
    /\ PoolTrue /\ calls \in 0..MaxCalls[mix] /\ mix \in DOMAIN MaxCalls
    /\ PagesTypeOK /\ PagesTrue
    /\ PresenceTypeOK /\ PresenceTrue
    /\ LimiterTypeOK /\ LimiterTrue
    /\ WindowTypeOK /\ WindowTrue

-----------------------------------------------------------------------------
(* A walk through a listing.                                               *)

\* The caller has been given a page.
Gave(page) == seen' = [i \in Ids |-> seen[i] + (IF i \in page THEN 1 ELSE 0)]

\* What the walk is after a page: over, with nothing left, or open, at the row last.
Over(changes) ==
    walk' = [open |-> FALSE, done |-> TRUE, changes |-> changes, key |-> 0, id |-> 0]
OpenAt(changes, k, last) ==
    walk' = [open |-> TRUE, done |-> FALSE, changes |-> changes, key |-> k[last], id |-> last]

\* A page takes the first rows of what is left; its last row is the cursor, and
\* what it leaves is behind that.
LEMMA Served ==
  ASSUME NEW left \in SUBSET Ids, NEW k, \A i \in left : k[i] \in Nat, NEW n \in Asked,
         NEW changes, Serve(k, left, n, changes)
  PROVE  \E page \in SUBSET left :
           /\ Gave(page)
           /\ \/ Over(changes) /\ page = left
              \/ \E last \in page :
                   /\ OpenAt(changes, k, last)
                   /\ \A i \in page : ~Behind(k, i, walk')
                   /\ \A i \in left \ page : Behind(k, i, walk')
<1> DEFINE c == Clamp(n)
           page == First(k, left, c)
           last == CHOOSE i \in page : \A j \in page \ {i} : Behind(k, i, [key |-> k[j], id |-> j])
           more == First(k, left, c + 1) # page
<1>1. left \in SUBSET Nat /\ IsFiniteSet(left) /\ c \in Nat \ {0}
  <2>1. n \in Nat /\ Cap \in Nat \ {0}
    BY PagesAssumption
  <2>2. left \in SUBSET Nat
    BY PagesAssumption
  <2>3. IsFiniteSet(left)
    BY PagesAssumption, FS_Subset
  <2>4. c \in Nat \ {0}
    BY <2>1 DEF Clamp
  <2>5. QED
    BY <2>2, <2>3, <2>4
<1>2. /\ walk' = [open |-> more, done |-> ~more, changes |-> changes,
                  key |-> IF more THEN k[last] ELSE 0, id |-> IF more THEN last ELSE 0]
      /\ Gave(page)
  BY DEF Serve, Gave
<1>3. page \in SUBSET left /\ \A i \in page, j \in left : Before(k, j, i) => j \in page
  BY <1>1, FirstRows
<1>4. ~more => page = left
  BY <1>1, NothingLeft
<1>5. more => page # {}
  <2>1. page = {} => left = {}
    BY <1>1, NothingLeft
  <2>2. c + 1 \in Nat
    BY <1>1
  <2>3. First(k, left, c + 1) \subseteq left
    BY <1>1, <2>2, FirstRows
  <2>4. QED
    BY <2>1, <2>3
<1>6. ASSUME page # {}
      PROVE  last \in page /\ \A j \in page \ {last} : Before(k, j, last)
  <2>1. \E i \in page : \A j \in page \ {i} : Before(k, j, i)
    BY <1>1, <1>3, <1>6, Hindmost
  <2>2. \A i, j : Before(k, j, i) <=> Behind(k, i, [key |-> k[j], id |-> j])
    BY DEF Before, Behind
  <2> HIDE DEF page
  <2>3. QED
    BY <2>1, <2>2
<1>0. more \in BOOLEAN
  OBVIOUS
<1> HIDE DEF page, last, more, c
<1>7. CASE ~more
  <2>1. Over(changes)
    BY <1>0, <1>2, <1>7 DEF Over
  <2>2. page \in SUBSET left /\ page = left
    BY <1>3, <1>4, <1>7
  <2>3. QED
    BY <1>2, <2>1, <2>2
<1>8. CASE more
  <2>1. OpenAt(changes, k, last)
    BY <1>0, <1>2, <1>8 DEF OpenAt
  <2>2. last \in page /\ last \in left
    BY <1>3, <1>5, <1>6, <1>8
  <2>3. \A i : Behind(k, i, walk') <=> Before(k, last, i)
    BY <2>1 DEF OpenAt, Behind, Before
  <2>4. ASSUME NEW i \in page PROVE ~Before(k, last, i)
    <3>1. i = last \/ Before(k, i, last)
      BY <1>5, <1>6, <1>8
    <3>2. i \in left
      BY <1>3
    <3>3. QED
      BY <1>1, <2>2, <3>1, <3>2, Order
  <2>5. ASSUME NEW i \in left \ page PROVE Before(k, last, i)
    BY <1>1, <1>3, <2>2, Order
  <2>6. QED
    BY <1>2, <1>3, <2>1, <2>2, <2>3, <2>4, <2>5
<1>9. QED
  BY <1>7, <1>8


\* Cursors are cursors.
LEMMA CursorTypes ==
  ASSUME NEW changes \in {{}} \cup Listings, NEW k \in [Ids -> 0..now'], now' \in Nat,
         Over(changes) \/ \E last \in Ids : OpenAt(changes, k, last)
  PROVE  /\ walk' \in [open : BOOLEAN, done : BOOLEAN, changes : {{}} \cup Listings,
                       key : 0..now', id : {0} \cup Ids]
         /\ ~(walk'.open /\ walk'.done) /\ (walk'.open \/ walk'.done)
<1>1. CASE Over(changes)
  BY <1>1 DEF Over
<1>2. CASE \E last \in Ids : OpenAt(changes, k, last)
  BY <1>2 DEF OpenAt
<1>3. QED
  BY <1>1, <1>2

\* What has been given, and how often.
LEMMA GivenMore ==
  ASSUME PagesTypeOK, NEW page \in SUBSET Ids, Gave(page)
  PROVE  /\ seen' \in [Ids -> Nat]
         /\ \A i \in page : seen'[i] = seen[i] + 1
         /\ \A i \in Ids \ page : seen'[i] = seen[i]
<1>1. /\ seen \in [Ids -> Nat]
      /\ seen' = [i \in Ids |-> seen[i] + (IF i \in page THEN 1 ELSE 0)]
  BY DEF PagesTypeOK, Gave
<1>2. \A i \in Ids : seen[i] + (IF i \in page THEN 1 ELSE 0) \in Nat
  BY <1>1
<1>3. seen' \in [Ids -> Nat]
  BY <1>1, <1>2
<1>4. \A i \in Ids : seen'[i] = seen[i] + (IF i \in page THEN 1 ELSE 0)
  BY <1>1
<1>5. QED
  BY <1>1, <1>3, <1>4

\* The first page of a listing.
LEMMA FirstPageKeeps ==
  ASSUME PagesTypeOK, PagesTrue, now \in Nat, now' = now, FirstPage
  PROVE  PagesTypeOK' /\ PagesTrue'
<1>1. PICK changes \in Listings, n \in Asked, rows \in SUBSET Ids, k \in [Ids -> 1..now] :
        /\ walk = NoWalk /\ listed' = rows /\ key' = k /\ steady' = rows
        /\ Serve(k, rows, n, changes) /\ UNCHANGED setBack
  BY DEF FirstPage
<1>2. k \in [Ids -> 0..now] /\ \A i \in Ids : k[i] \in Nat
  OBVIOUS
<1>3. PICK page \in SUBSET rows :
        /\ Gave(page)
        /\ \/ Over(changes) /\ page = rows
           \/ \E last \in page :
                /\ OpenAt(changes, k, last)
                /\ \A i \in page : ~Behind(k, i, walk')
                /\ \A i \in rows \ page : Behind(k, i, walk')
  BY <1>1, <1>2, Served
<1>4. \A i \in Ids : seen[i] = 0
  BY <1>1 DEF PagesTrue
<1>5. /\ seen' \in [Ids -> Nat]
      /\ \A i \in page : seen'[i] = 1
      /\ \A i \in Ids \ page : seen'[i] = 0
  <2>1. page \in SUBSET Ids
    OBVIOUS
  <2>2. /\ seen' \in [Ids -> Nat]
        /\ \A i \in page : seen'[i] = seen[i] + 1
        /\ \A i \in Ids \ page : seen'[i] = seen[i]
    BY <1>3, <2>1, GivenMore
  <2>3. QED
    BY <1>4, <2>1, <2>2
<1>6. setBack' \in [Ids -> Nat] /\ \A i \in Ids : seen'[i] <= 1 + setBack'[i]
  <2>1. setBack' = setBack /\ setBack \in [Ids -> Nat]
    BY <1>1 DEF PagesTypeOK
  <2>2. \A i \in Ids : setBack'[i] \in Nat /\ seen'[i] \in 0..1
    BY <1>5, <2>1
  <2>3. QED
    BY <2>1, <2>2
<1>7. /\ walk' \in [open : BOOLEAN, done : BOOLEAN, changes : {{}} \cup Listings,
                    key : 0..now', id : {0} \cup Ids]
      /\ ~(walk'.open /\ walk'.done) /\ (walk'.open \/ walk'.done)
  BY <1>2, <1>3, CursorTypes
<1>8. walk' # NoWalk
  BY <1>7 DEF NoWalk
<1>9. CASE Over(changes) /\ page = rows
  <2>1. ~walk'.open
    BY <1>9 DEF Over
  <2>2. QED
    BY <1>1, <1>2, <1>5, <1>7, <1>8, <1>9, <1>6, <2>1 DEF PagesTypeOK, PagesTrue
<1>10. ASSUME NEW last \in page, OpenAt(changes, k, last),
             \A i \in page : ~Behind(k, i, walk'), \A i \in rows \ page : Behind(k, i, walk')
      PROVE  PagesTypeOK' /\ PagesTrue'
  <2>1. ~walk'.done
    BY <1>10 DEF OpenAt
  <2>2. \A i \in Ids : Behind(k, i, walk') => seen'[i] <= setBack'[i]
    <3>1. \A i \in Ids : Behind(k, i, walk') => seen'[i] = 0
      BY <1>5, <1>10
    <3>2. \A i \in Ids : setBack'[i] \in Nat
      BY <1>6
    <3>3. QED
      BY <3>1, <3>2
  <2>3. \A i \in rows : seen'[i] = IF Behind(k, i, walk') THEN 0 ELSE 1
    BY <1>5, <1>10
  <2>4. QED
    BY <1>1, <1>2, <1>5, <1>7, <1>8, <1>6, <2>1, <2>2, <2>3 DEF PagesTypeOK, PagesTrue
<1>11. QED
  BY <1>3, <1>9, <1>10

\* The rows and the cursor.
LEMMA CursorNow ==
  ASSUME PagesTypeOK, now \in Nat
  PROVE  /\ key \in [Ids -> 0..now] /\ \A i \in Ids : key[i] \in Nat
         /\ walk.changes \in {{}} \cup Listings /\ steady \subseteq listed /\ listed \subseteq Ids
         /\ walk.key \in 0..now /\ walk.key \in Nat /\ walk.id \in Nat
<1>1. key \in [Ids -> 0..now] /\ steady \subseteq listed /\ listed \subseteq Ids
  BY DEF PagesTypeOK
<1>2. walk.changes \in {{}} \cup Listings
  BY DEF PagesTypeOK
<1>3. walk.key \in 0..now /\ walk.id \in {0} \cup Ids
  BY DEF PagesTypeOK
<1>4. \A i \in Ids : key[i] \in Nat
  BY <1>1
<1>5. walk.key \in Nat /\ walk.id \in Nat
  <2>1. {0} \cup Ids \subseteq Nat
    BY PagesAssumption
  <2>2. walk.key \in Nat
    BY <1>3
  <2>3. walk.id \in Nat
    BY <1>3, <2>1
  <2>4. QED
    BY <2>2, <2>3
<1>6. QED
  BY <1>1, <1>2, <1>3, <1>4, <1>5

\* Row j is further back than row i, as seen from any cursor.
LEMMA BehindOn ==
  ASSUME NEW k, NEW i \in Nat, NEW j \in Nat, NEW c, k[i] \in Nat, k[j] \in Nat,
         c.key \in Nat, c.id \in Nat, NEW d, d.key = k[j], d.id = j,
         Behind(k, j, c), Behind(k, i, d)
  PROVE  Behind(k, i, c)
BY DEF Behind

\* The next page: it gives what is behind the cursor, which nobody was given
\* since it was last set back.
LEMMA NextPageKeeps ==
  ASSUME PagesTypeOK, PagesTrue, now \in Nat, now' = now, NextPage
  PROVE  PagesTypeOK' /\ PagesTrue'
<1> DEFINE left == {i \in listed : Behind(key, i, walk)}
<1>1. PICK n \in Asked :
        /\ walk.open /\ Serve(key, left, n, walk.changes)
        /\ UNCHANGED <<listed, key, setBack, steady>>
  BY DEF NextPage
<1>2. /\ key \in [Ids -> 0..now] /\ \A i \in Ids : key[i] \in Nat
      /\ walk.changes \in {{}} \cup Listings /\ steady \subseteq listed /\ listed \subseteq Ids
      /\ walk.key \in Nat /\ walk.id \in Nat
  BY CursorNow
<1>3. left \in SUBSET Ids /\ \A i \in left : Behind(key, i, walk)
  BY <1>2
<1>4. \A i \in steady : Behind(key, i, walk) => i \in left
  BY <1>2
<1>5. /\ \A i \in Ids : seen[i] \in Nat /\ setBack[i] \in Nat /\ seen[i] <= 1 + setBack[i]
      /\ \A i \in Ids : Behind(key, i, walk) => seen[i] <= setBack[i]
      /\ \A i \in steady : seen[i] = IF Behind(key, i, walk) THEN 0 ELSE 1
  BY <1>1 DEF PagesTypeOK, PagesTrue
<1> HIDE DEF left
<1>6. PICK page \in SUBSET left :
        /\ Gave(page)
        /\ \/ Over(walk.changes) /\ page = left
           \/ \E last \in page :
                /\ OpenAt(walk.changes, key, last)
                /\ \A i \in page : ~Behind(key, i, walk')
                /\ \A i \in left \ page : Behind(key, i, walk')
  BY <1>1, <1>2, <1>3, Served
<1>7. page \in SUBSET Ids /\ \A i \in page : Behind(key, i, walk)
  BY <1>3
<1>8. /\ seen' \in [Ids -> Nat]
      /\ \A i \in page : seen'[i] = seen[i] + 1
      /\ \A i \in Ids \ page : seen'[i] = seen[i]
  BY <1>6, <1>7, GivenMore
<1>9. /\ walk' \in [open : BOOLEAN, done : BOOLEAN, changes : {{}} \cup Listings,
                    key : 0..now', id : {0} \cup Ids]
      /\ ~(walk'.open /\ walk'.done) /\ (walk'.open \/ walk'.done)
  BY <1>2, <1>6, <1>7, CursorTypes
<1>10. walk' # NoWalk
  BY <1>9 DEF NoWalk
<1>11. PagesTypeOK' /\ setBack' = setBack
  BY <1>1, <1>2, <1>8, <1>9 DEF PagesTypeOK
<1>12. \A i \in Ids : seen'[i] <= 1 + setBack[i]
  BY <1>5, <1>7, <1>8
<1>13. CASE Over(walk.changes) /\ page = left
  <2>1. ~walk'.open
    BY <1>13 DEF Over
  <2>2. ASSUME NEW i \in steady PROVE seen'[i] = 1
    <3>1. i \in Ids
      BY <1>2
    <3>2. CASE Behind(key, i, walk)
      BY <1>4, <1>5, <1>8, <1>13, <3>1, <3>2
    <3>3. CASE ~Behind(key, i, walk)
      BY <1>5, <1>7, <1>8, <3>1, <3>3
    <3>4. QED
      BY <3>2, <3>3
  <2>3. QED
    BY <1>1, <1>9, <1>10, <1>11, <1>12, <2>1, <2>2 DEF PagesTrue
<1>14. ASSUME NEW last \in page, OpenAt(walk.changes, key, last),
              \A i \in page : ~Behind(key, i, walk'),
              \A i \in left \ page : Behind(key, i, walk')
       PROVE  PagesTypeOK' /\ PagesTrue'
  <2>1. ~walk'.done /\ walk'.key = key[last] /\ walk'.id = last
    BY <1>14 DEF OpenAt
  <2>2. last \in Ids /\ Behind(key, last, walk)
    BY <1>7
  <2>3. ASSUME NEW i \in Ids, Behind(key, i, walk')
        PROVE  Behind(key, i, walk) /\ i \notin page
    <3>1. i \in Nat /\ last \in Nat /\ key[i] \in Nat /\ key[last] \in Nat
      BY <1>2, <2>2, PagesAssumption
    <3>2. QED
      BY <1>2, <1>14, <2>1, <2>2, <2>3, <3>1, BehindOn
  <2>4. \A i \in Ids : Behind(key, i, walk') => seen'[i] <= setBack[i]
    BY <1>5, <1>8, <2>3
  <2>5. ASSUME NEW i \in steady
        PROVE  seen'[i] = IF Behind(key, i, walk') THEN 0 ELSE 1
    <3>1. i \in Ids
      BY <1>2
    <3>2. CASE i \in page
      BY <1>5, <1>7, <1>8, <1>14, <3>2
    <3>3. CASE i \notin page /\ Behind(key, i, walk)
      BY <1>4, <1>5, <1>8, <1>14, <3>1, <3>3
    <3>4. CASE i \notin page /\ ~Behind(key, i, walk)
      BY <1>5, <1>8, <2>3, <3>1, <3>4
    <3>5. QED
      BY <3>2, <3>3, <3>4
  <2>6. QED
    BY <1>1, <1>9, <1>10, <1>11, <1>12, <2>1, <2>4, <2>5 DEF PagesTrue
<1>15. QED
  BY <1>6, <1>13, <1>14

\* A stamp puts a row somewhere else.  If that is behind the cursor and a page
\* had the row, it was in front before, and so set back.
LEMMA StampSets ==
  ASSUME PagesTypeOK, PagesTrue, now \in Nat, walk.open, UNCHANGED <<walk, seen>>,
         NEW i \in Ids, Stamp(i)
  PROVE  /\ key' \in [Ids -> 0..now] /\ \A j \in Ids \ {i} : key'[j] = key[j]
         /\ setBack' \in [Ids -> Nat] /\ \A j \in Ids : seen[j] <= 1 + setBack'[j]
         /\ \A j \in Ids : Behind(key', j, walk) => seen[j] <= setBack'[j]
<1>1. PICK at \in 1..now :
        /\ key' = [key EXCEPT ![i] = at]
        /\ setBack' = [setBack EXCEPT ![i] = IF seen[i] > 0 /\ at < key[i] THEN @ + 1 ELSE @]
  BY DEF Stamp
<1>2. /\ key \in [Ids -> 0..now] /\ walk.key \in Nat /\ walk.id \in Nat
      /\ seen \in [Ids -> Nat] /\ setBack \in [Ids -> Nat] /\ Ids \subseteq Nat
  BY CursorNow, PagesAssumption DEF PagesTypeOK
<1>3. /\ \A j \in Ids : seen[j] <= 1 + setBack[j]
      /\ \A j \in Ids : Behind(key, j, walk) => seen[j] <= setBack[j]
  BY DEF PagesTrue
<1>4. /\ key' \in [Ids -> 0..now] /\ key'[i] = at
      /\ \A j \in Ids \ {i} : key'[j] = key[j]
  BY <1>1, <1>2
<1>5. /\ setBack' \in [Ids -> Nat]
      /\ setBack'[i] = IF seen[i] > 0 /\ at < key[i] THEN setBack[i] + 1 ELSE setBack[i]
      /\ \A j \in Ids \ {i} : setBack'[j] = setBack[j]
  <2>1. setBack[i] \in Nat /\ setBack[i] + 1 \in Nat
    BY <1>2
  <2>2. QED
    BY <1>1, <1>2, <2>1
<1>6. /\ seen[i] \in Nat /\ setBack[i] \in Nat /\ key[i] \in Nat /\ at \in Nat /\ i \in Nat
      /\ seen[i] <= 1 + setBack[i]
  BY <1>2, <1>3
<1>7. \A j \in Ids : seen[j] <= 1 + setBack'[j]
  BY <1>3, <1>5, <1>6
<1>8. ASSUME Behind(key', i, walk) PROVE seen[i] <= setBack'[i]
  <2>1. CASE at < key[i]
    BY <1>5, <1>6, <2>1
  <2>2. CASE ~(at < key[i])
    <3>1. at < walk.key \/ (at = walk.key /\ i < walk.id)
      BY <1>4, <1>8 DEF Behind
    <3>2. key[i] < walk.key \/ (key[i] = walk.key /\ i < walk.id)
      BY <1>2, <1>6, <2>2, <3>1
    <3>3. Behind(key, i, walk)
      BY <3>2 DEF Behind
    <3>4. QED
      BY <1>3, <1>5, <1>6, <2>2, <3>3
  <2>3. QED
    BY <2>1, <2>2
<1>9. ASSUME NEW j \in Ids \ {i}, Behind(key', j, walk) PROVE seen[j] <= setBack'[j]
  <2>1. Behind(key, j, walk)
    BY <1>4, <1>9 DEF Behind
  <2>2. QED
    BY <1>3, <1>5, <2>1
<1>10. QED
  BY <1>4, <1>5, <1>7, <1>8, <1>9

\* The rows that were there from the first page are where they were.
LEMMA SteadyStays ==
  ASSUME PagesTypeOK, PagesTrue, now \in Nat, walk.open, UNCHANGED <<walk, seen>>, NEW i \in Ids,
         \A j \in Ids \ {i} : key'[j] = key[j], steady' \subseteq steady \ {i}
  PROVE  \A j \in steady' : seen[j] = IF Behind(key', j, walk) THEN 0 ELSE 1
<1>1. ASSUME NEW j \in steady'
      PROVE  seen[j] = IF Behind(key', j, walk) THEN 0 ELSE 1
  <2>1. j \in steady /\ key'[j] = key[j]
    BY <1>1, CursorNow
  <2>2. seen[j] = IF Behind(key, j, walk) THEN 0 ELSE 1
    BY <2>1 DEF PagesTrue
  <2>3. Behind(key', j, walk) <=> Behind(key, j, walk)
    BY <2>1 DEF Behind
  <2>4. QED
    BY <2>2, <2>3
<1>2. QED
  BY <1>1

\* A row that is renewed goes where its stamp puts it.
LEMMA RenewRowKeeps ==
  ASSUME PagesTypeOK, PagesTrue, now \in Nat, now' = now, NEW i \in Ids, RenewRow(i)
  PROVE  PagesTypeOK' /\ PagesTrue'
<1>1. /\ walk.open /\ Stamp(i) /\ steady' = steady \ {i} /\ UNCHANGED <<walk, seen>>
      /\ listed' = listed \/ listed' = listed \cup {i}
  BY DEF RenewRow
<1>2. /\ key' \in [Ids -> 0..now] /\ \A j \in Ids \ {i} : key'[j] = key[j]
      /\ setBack' \in [Ids -> Nat] /\ \A j \in Ids : seen[j] <= 1 + setBack'[j]
      /\ \A j \in Ids : Behind(key', j, walk) => seen[j] <= setBack'[j]
  BY <1>1, StampSets
<1>3. \A j \in steady' : seen[j] = IF Behind(key', j, walk) THEN 0 ELSE 1
  BY <1>1, <1>2, SteadyStays
<1>4. PagesTypeOK' /\ ~walk.done
  BY <1>1, <1>2 DEF PagesTypeOK
<1>5. QED
  BY <1>1, <1>2, <1>3, <1>4 DEF PagesTrue

\* A row that joins has the place it had.
LEMMA JoinRowKeeps ==
  ASSUME PagesTypeOK, PagesTrue, NEW i \in Ids, now' = now, JoinRow(i)
  PROVE  PagesTypeOK' /\ PagesTrue'
BY DEF JoinRow, PagesTypeOK, PagesTrue

\* A row that is new was on no page.
LEMMA NewRowKeeps ==
  ASSUME PagesTypeOK, PagesTrue, now \in Nat, now' = now, NEW i \in Ids, NewRow(i)
  PROVE  PagesTypeOK' /\ PagesTrue'
<1>1. /\ walk.open /\ Stamp(i) /\ i \notin listed /\ seen[i] = 0
      /\ listed' = listed \cup {i} /\ UNCHANGED <<walk, seen, steady>>
  BY DEF NewRow
<1>2. /\ key' \in [Ids -> 0..now] /\ \A j \in Ids \ {i} : key'[j] = key[j]
      /\ setBack' \in [Ids -> Nat] /\ \A j \in Ids : seen[j] <= 1 + setBack'[j]
      /\ \A j \in Ids : Behind(key', j, walk) => seen[j] <= setBack'[j]
  BY <1>1, StampSets
<1>3. \A j \in steady' : seen[j] = IF Behind(key', j, walk) THEN 0 ELSE 1
  <2>1. steady' \subseteq steady \ {i}
    BY <1>1, CursorNow
  <2>2. QED
    BY <1>1, <1>2, <2>1, SteadyStays
<1>4. PagesTypeOK' /\ ~walk.done
  BY <1>1, <1>2 DEF PagesTypeOK
<1>5. QED
  BY <1>1, <1>2, <1>3, <1>4 DEF PagesTrue

\* A row that leaves need not be given.
LEMMA LeaveRowKeeps ==
  ASSUME PagesTypeOK, PagesTrue, NEW i \in Ids, now' = now, LeaveRow(i)
  PROVE  PagesTypeOK' /\ PagesTrue'
BY DEF LeaveRow, PagesTypeOK, PagesTrue

\* A step that leaves listing and walk alone.
LEMMA PagesAlone ==
  ASSUME PagesTypeOK, PagesTrue, now \in Nat, now' \in Nat, now <= now', UNCHANGED pagesVars
  PROVE  PagesTypeOK' /\ PagesTrue'
<1>1. UNCHANGED <<listed, key, walk, seen, setBack, steady>>
  BY DEF pagesVars
<1>2. PagesTypeOK'
  <2> DEFINE Kinds == {{}} \cup Listings
             Positions == {0} \cup Ids
  <2>1. /\ listed \subseteq Ids /\ key \in [Ids -> 0..now]
        /\ walk \in [open : BOOLEAN, done : BOOLEAN, changes : Kinds, key : 0..now, id : Positions]
        /\ ~(walk.open /\ walk.done) /\ seen \in [Ids -> Nat] /\ setBack \in [Ids -> Nat]
        /\ steady \subseteq listed
    BY DEF PagesTypeOK
  <2> HIDE DEF Kinds, Positions
  <2>2. 0..now \subseteq 0..now'
    OBVIOUS
  <2>3. key \in [Ids -> 0..now']
    BY <2>1, <2>2
  <2>4. walk \in [open : BOOLEAN, done : BOOLEAN, changes : Kinds, key : 0..now', id : Positions]
    BY <2>1, <2>2
  <2>5. QED
    BY <1>1, <2>1, <2>3, <2>4 DEF PagesTypeOK, Kinds, Positions
<1>3. PagesTrue'
  BY <1>1 DEF PagesTrue, Behind
<1>4. QED
  BY <1>2, <1>3

\* Every step of a walk and of the rows under it.
LEMMA PagesKeeps ==
  ASSUME PagesTypeOK, PagesTrue, now \in Nat, now' = now, FirstPage \/ NextPage \/ RowChange
  PROVE  PagesTypeOK' /\ PagesTrue'
BY FirstPageKeeps, NextPageKeeps, RenewRowKeeps, JoinRowKeeps, NewRowKeeps, LeaveRowKeeps
   DEF RowChange

\* The walk before its first page.
LEMMA PagesStart ==
  ASSUME PagesInit, now \in Nat
  PROVE  PagesTypeOK /\ PagesTrue
BY PagesAssumption DEF PagesInit, PagesTypeOK, PagesTrue, NoWalk


-----------------------------------------------------------------------------
(* Threads.                                                                *)

\* A thread takes a step to a label and a job, and no other thread does.
Steps(t, label, j) ==
    /\ pc' = [pc EXCEPT ![t] = label] /\ job' = [job EXCEPT ![t] = j]
    /\ now' = now

\* What a thread has in hand.
LEMMA InHand ==
  ASSUME PoolTrue, NEW t \in Handlers
  PROVE  /\ pc[t] \in Labels /\ job[t] \in Jobs /\ Held(pc[t], job[t])
         /\ now \in Nat /\ now >= 1 /\ now <= MaxTime
BY PoolAssumption DEF PoolTrue, PoolTypes

\* A thread with no handler has no job.
LEMMA NoJobTrue ==
  /\ NoJob \in Jobs /\ NoJob.who = Nobody /\ NoJob.doc = Nobody /\ NoJob.host = Nobody
  /\ NoJob.at = 0 /\ NoJob.stale = {} /\ NoJob.lost = FALSE
BY PoolAssumption DEF NoJob, Jobs

\* And it may be so at any time.
LEMMA IdleTrue == Held("idle", NoJob)
BY NoJobTrue DEF Held, PresenceLabels, WindowLabels, Checking

\* Whatever a thread goes to with a job that may be there keeps the pool's invariant.
LEMMA PoolSteps ==
  ASSUME PoolTrue, NEW t \in Handlers, NEW label \in Labels, NEW j \in Jobs,
         Steps(t, label, j), Held(label, j)
  PROVE  /\ PoolTrue' /\ pc'[t] = label /\ job'[t] = j
         /\ \A u \in Handlers \ {t} : pc'[u] = pc[u] /\ job'[u] = job[u]
<1>1. /\ pc'[t] = label /\ job'[t] = j
      /\ \A u \in Handlers \ {t} : pc'[u] = pc[u] /\ job'[u] = job[u]
      /\ PoolTypes'
  BY DEF PoolTrue, PoolTypes, Steps
<1>2. now' = now
  BY DEF Steps
<1>3. ASSUME NEW u \in Handlers PROVE Held(pc[u], job[u])'
  <2>1. CASE u = t
    BY <1>1, <1>2, <2>1 DEF Held
  <2>2. CASE u # t
    <3>1. Held(pc[u], job[u])
      BY DEF PoolTrue
    <3>2. pc'[u] = pc[u] /\ job'[u] = job[u]
      BY <1>1, <2>2
    <3>3. QED
      BY <1>2, <3>1, <3>2 DEF Held
  <2>3. QED
    BY <2>1, <2>2
<1>4. QED
  BY <1>1, <1>3 DEF PoolTrue

\* A handler that returns.
LEMMA Returns ==
  ASSUME PoolTrue, NEW t \in Handlers, Return(t), now' = now
  PROVE  /\ PoolTrue' /\ pc'[t] = "idle" /\ job'[t] = NoJob
         /\ \A u \in Handlers \ {t} : pc'[u] = pc[u] /\ job'[u] = job[u]
<1>1. Steps(t, "idle", NoJob) /\ "idle" \in Labels
  BY DEF Return, Goto, Steps, Labels
<1>2. QED
  BY <1>1, NoJobTrue, IdleTrue, PoolSteps

\* Time passes, and no thread takes a step.
LEMMA PoolAlone ==
  ASSUME PoolTrue, UNCHANGED <<pc, job>>, now' \in 1..MaxTime, now <= now'
  PROVE  PoolTrue'
<1>1. PoolTypes'
  BY DEF PoolTrue, PoolTypes
<1>2. ASSUME NEW t \in Handlers PROVE Held(pc[t], job[t])'
  <2>1. PICK label, j : label = pc[t] /\ j = job[t]
    OBVIOUS
  <2>2. Held(label, j) /\ 1..now \subseteq 1..now'
    BY <2>1, PoolAssumption DEF PoolTrue, PoolTypes
  <2>3. Held(label, j)'
    BY <2>2 DEF Held
  <2>4. pc'[t] = label /\ job'[t] = j
    BY <2>1
  <2>5. QED
    BY <2>3, <2>4 DEF Held
<1>3. QED
  BY <1>1, <1>2 DEF PoolTrue


-----------------------------------------------------------------------------
(* Heartbeats.                                                             *)

\* Nothing is about to be written that was not already.
NoNewBeats ==
    \A t \in Handlers : pc'[t] = "upsert" => pc[t] = "upsert" /\ job'[t] = job[t]

\* The types of rows and times.
LEMMA RowTypes ==
  ASSUME PresenceTypeOK
  PROVE  /\ expires \in [Documents -> [Principals -> 0..MaxTime + TTL]]
         /\ promised \in [Documents -> [Principals -> 0..MaxTime + TTL]]
         /\ \A d \in Documents, p \in Principals :
              expires[d][p] \in Nat /\ promised[d][p] \in Nat
         /\ sweptAt \in Nat /\ MaxTime \in Nat /\ TTL \in Nat
<1>1. /\ expires \in [Documents -> [Principals -> 0..MaxTime + TTL]]
      /\ promised \in [Documents -> [Principals -> 0..MaxTime + TTL]]
      /\ sweptAt \in 0..MaxTime
  BY DEF PresenceTypeOK
<1>2. MaxTime \in Nat /\ TTL \in Nat
  BY PoolAssumption, PresenceAssumption
<1>3. 0..MaxTime + TTL \subseteq Nat
  BY <1>2
<1>4. ASSUME NEW d \in Documents, NEW p \in Principals
      PROVE  expires[d][p] \in Nat /\ promised[d][p] \in Nat
  BY <1>1, <1>3
<1>5. QED
  BY <1>1, <1>2, <1>4

\* A step that leaves the rows and what was answered alone.
LEMMA BeatsStay ==
  ASSUME PoolTrue, PresenceTypeOK, PresenceTrue, UNCHANGED <<expires, promised, crossed>>,
         now' \in Nat, now <= now', sweptAt' <= now', NoNewBeats
  PROVE  PresenceTrue'
<1>1. ASSUME NEW d \in Documents, NEW p \in Principals
      PROVE  promised'[d][p] <= now' + TTL /\ (<<d, p>> \in crossed' \/ BeatTrue(d, p)')
  <2>1. promised[d][p] <= now + TTL /\ (<<d, p>> \in crossed \/ BeatTrue(d, p))
    BY DEF PresenceTrue
  <2>2. now \in Nat /\ TTL \in Nat /\ promised[d][p] \in Nat
    BY InHand, RowTypes, PoolAssumption DEF PoolTrue, PoolTypes
  <2>3. \A t \in Beats(d, p)' : t \in Beats(d, p) /\ job'[t] = job[t]
    BY DEF Beats, NoNewBeats
  <2>4. BeatTrue(d, p) => BeatTrue(d, p)'
    BY <2>2, <2>3 DEF BeatTrue
  <2>5. QED
    BY <2>1, <2>2, <2>4
<1>2. QED
  BY <1>1 DEF PresenceTrue

\* set_status has seen the document and reads the time.
LEMMA DocExistsKeeps ==
  ASSUME PoolTrue, PresenceTypeOK, PresenceTrue, NEW t \in Handlers, DocExists(t)
  PROVE  PoolTrue' /\ PresenceTypeOK' /\ PresenceTrue'
<1> DEFINE d == job[t].doc
           p == job[t].who
           j == [job[t] EXCEPT !.at = now]
           twin == \E u \in Handlers \ {t} :
                     pc[u] = "upsert" /\ job[u].doc = d /\ job[u].who = job[t].who
<1>1. /\ pc[t] = "exists" /\ now' = now
      /\ UNCHANGED <<there, expires, sweeper, sweptAt, promised>>
  BY DEF DocExists, At
<1>2. d \in Documents /\ p \in Principals /\ job[t] \in Jobs
  BY <1>1, InHand DEF Held, PresenceLabels
<1>3. now \in Nat /\ now \in 1..now /\ now \in 0..MaxTime
  BY InHand
<1>4. sweptAt \in Nat /\ sweptAt <= now
  BY RowTypes DEF PresenceTrue
<1>5. CASE d \in there
  <2>1. /\ Steps(t, "upsert", j)
        /\ crossed' = IF twin THEN crossed \cup {<<d, p>>} ELSE crossed
    BY <1>1, <1>5 DEF DocExists, At, Goto, Steps
  <2>2. /\ j \in Jobs /\ j.at = now /\ j.doc = d /\ j.who = p /\ j.lost = job[t].lost
        /\ j.host = job[t].host
    BY <1>2, <1>3 DEF Jobs
  <2>3. ~job[t].lost
    BY <1>1, InHand DEF Held, Checking
  <2> HIDE DEF j
  <2>4. "upsert" \in Labels /\ Held("upsert", j)
    BY <1>2, <1>3, <2>2, <2>3 DEF Held, Labels, PresenceLabels, WindowLabels, Checking
  <2>5. /\ PoolTrue' /\ pc'[t] = "upsert" /\ job'[t] = j
        /\ \A u \in Handlers \ {t} : pc'[u] = pc[u] /\ job'[u] = job[u]
    BY <2>1, <2>2, <2>4, PoolSteps
  <2>6. PresenceTypeOK'
    BY <1>1, <1>2, <2>1 DEF PresenceTypeOK, Pairs
  <2>7. ASSUME NEW e \in Documents, NEW q \in Principals
        PROVE  promised'[e][q] <= now' + TTL /\ (<<e, q>> \in crossed' \/ BeatTrue(e, q)')
    <3>1. promised[e][q] <= now + TTL /\ (<<e, q>> \in crossed \/ BeatTrue(e, q))
      BY DEF PresenceTrue
    <3>2. <<e, q>> \in crossed => <<e, q>> \in crossed'
      BY <2>1
    <3>3. ASSUME e # d \/ q # p PROVE Beats(e, q)' = Beats(e, q)
      BY <1>1, <2>2, <2>5, <3>3 DEF Beats
    <3>4. CASE BeatTrue(e, q) /\ (e # d \/ q # p)
      <4>1. \A u \in Beats(e, q) : job'[u] = job[u]
        BY <1>1, <2>5, <3>4 DEF Beats
      <4>2. QED
        BY <1>1, <3>1, <3>3, <3>4, <4>1 DEF BeatTrue
    <3>5. CASE e = d /\ q = p /\ twin
      BY <1>1, <2>1, <3>1, <3>5
    <3>6. CASE BeatTrue(e, q) /\ e = d /\ q = p /\ ~twin
      <4>1. Beats(e, q)' \subseteq {t}
        BY <2>5, <3>6 DEF Beats
      <4>2. promised'[e][q] <= job'[t].at + TTL
        BY <1>1, <2>2, <2>5, <3>1
      <4>3. BeatTrue(e, q)'
        BY <1>1, <3>6, <4>1, <4>2 DEF BeatTrue
      <4>4. QED
        BY <1>1, <3>1, <4>3
    <3>7. QED
      BY <1>1, <3>1, <3>2, <3>4, <3>5, <3>6
  <2>8. QED
    BY <1>1, <1>4, <2>5, <2>6, <2>7 DEF PresenceTrue
<1>6. CASE d \notin there
  <2>1. Return(t) /\ UNCHANGED crossed
    BY <1>6 DEF DocExists
  <2>2. /\ PoolTrue' /\ pc'[t] = "idle"
        /\ \A u \in Handlers \ {t} : pc'[u] = pc[u] /\ job'[u] = job[u]
    BY <1>1, <2>1, Returns
  <2>3. NoNewBeats
    BY <2>2 DEF NoNewBeats
  <2>4. PresenceTypeOK'
    BY <1>1, <2>1 DEF PresenceTypeOK
  <2>5. PresenceTrue'
    BY <1>1, <1>3, <1>4, <2>1, <2>3, BeatsStay
  <2>6. QED
    BY <2>2, <2>4, <2>5
<1>7. QED
  BY <1>5, <1>6


\* set_status writes the row, unless the document went meanwhile.
LEMMA WriteBeatKeeps ==
  ASSUME PoolTrue, PresenceTypeOK, PresenceTrue, NEW t \in Handlers, WriteBeat(t)
  PROVE  PoolTrue' /\ PresenceTypeOK' /\ PresenceTrue'
<1> DEFINE d == job[t].doc
           p == job[t].who
           until == job[t].at + TTL
<1>1. /\ pc[t] = "upsert" /\ now' = now /\ Return(t)
      /\ UNCHANGED <<there, sweeper, sweptAt, crossed>>
  BY DEF WriteBeat, At
<1>2. d \in Documents /\ p \in Principals /\ job[t].at \in 1..now
  BY <1>1, InHand DEF Held, PresenceLabels
<1>3. now \in Nat /\ now <= MaxTime /\ MaxTime \in Nat /\ TTL \in Nat
  BY InHand, RowTypes
<1>4. sweptAt \in Nat /\ sweptAt <= now
  BY RowTypes DEF PresenceTrue
<1>5. /\ PoolTrue' /\ pc'[t] = "idle"
      /\ \A u \in Handlers \ {t} : pc'[u] = pc[u] /\ job'[u] = job[u]
  BY <1>1, Returns
<1>6. NoNewBeats
  BY <1>5 DEF NoNewBeats
<1>7. CASE d \in there
  <2>1. /\ expires' = [expires EXCEPT ![d][p] = until]
        /\ promised' = [promised EXCEPT ![d][p] = IF until > @ THEN until ELSE @]
    BY <1>7 DEF WriteBeat
  <2>2. until \in 0..MaxTime + TTL /\ until <= now + TTL /\ until \in Nat
    BY <1>2, <1>3
  <2> HIDE DEF until
  <2>3. promised[d][p] \in 0..MaxTime + TTL /\ promised[d][p] \in Nat
    BY <1>2, RowTypes
  <2>4. /\ expires' \in [Documents -> [Principals -> 0..MaxTime + TTL]]
        /\ promised' \in [Documents -> [Principals -> 0..MaxTime + TTL]]
    BY <1>2, <2>1, <2>2, <2>3, RowTypes
  <2>5. PresenceTypeOK'
    BY <1>1, <2>4 DEF PresenceTypeOK
  <2>6. /\ expires'[d][p] = until
        /\ promised'[d][p] = IF until > promised[d][p] THEN until ELSE promised[d][p]
        /\ \A e \in Documents, q \in Principals : (e # d \/ q # p) =>
             expires'[e][q] = expires[e][q] /\ promised'[e][q] = promised[e][q]
    BY <1>2, <2>1, RowTypes
  <2>7. ASSUME NEW e \in Documents, NEW q \in Principals
        PROVE  promised'[e][q] <= now' + TTL /\ (<<e, q>> \in crossed' \/ BeatTrue(e, q)')
    <3>1. promised[e][q] <= now + TTL /\ (<<e, q>> \in crossed \/ BeatTrue(e, q))
      BY DEF PresenceTrue
    <3>2. CASE e # d \/ q # p
      <4>1. Beats(e, q)' \subseteq Beats(e, q) /\ \A u \in Beats(e, q)' : job'[u] = job[u]
        BY <1>6 DEF Beats, NoNewBeats
      <4>2. BeatTrue(e, q) => BeatTrue(e, q)'
        BY <1>1, <2>6, <3>2, <4>1 DEF BeatTrue
      <4>3. QED
        BY <1>1, <2>6, <3>1, <3>2, <4>2
    <3>3. CASE e = d /\ q = p
      <4>1. promised'[e][q] <= now' + TTL
        BY <1>1, <2>2, <2>6, <3>1, <3>3
      <4>2. ASSUME BeatTrue(e, q) PROVE BeatTrue(e, q)'
        <5>1. t \in Beats(e, q)
          BY <1>1, <3>3 DEF Beats
        <5>2. promised[e][q] <= until /\ \A u \in Beats(e, q) : u = t
          BY <4>2, <5>1 DEF BeatTrue, until
        <5>3. promised'[e][q] = until
          BY <2>2, <2>3, <2>6, <3>3, <5>2
        <5>4. Beats(e, q)' = {}
          BY <1>5, <1>6, <5>2 DEF Beats, NoNewBeats
        <5>5. QED
          BY <2>2, <2>6, <3>3, <5>3, <5>4 DEF BeatTrue
      <4>3. QED
        BY <1>1, <3>1, <4>1, <4>2
    <3>4. QED
      BY <3>2, <3>3
  <2>8. QED
    BY <1>1, <1>4, <1>5, <2>5, <2>7 DEF PresenceTrue
<1>8. CASE d \notin there
  <2>1. UNCHANGED <<expires, promised>>
    BY <1>8 DEF WriteBeat
  <2>2. PresenceTypeOK'
    BY <1>1, <2>1 DEF PresenceTypeOK
  <2>3. PresenceTrue'
    BY <1>1, <1>3, <1>4, <1>6, <2>1, BeatsStay
  <2>4. QED
    BY <1>5, <2>2, <2>3
<1>9. QED
  BY <1>7, <1>8

\* Rows that go, by a call or with their document: nothing is promised any more.
LEMMA RowsGo ==
  ASSUME PoolTrue, PresenceTypeOK, PresenceTrue, NoNewBeats, now' = now,
         UNCHANGED <<sweeper, sweptAt, crossed>>, there' \subseteq Documents,
         expires' \in [Documents -> [Principals -> 0..MaxTime + TTL]],
         promised' \in [Documents -> [Principals -> 0..MaxTime + TTL]],
         \A d \in Documents, p \in Principals :
           promised'[d][p] = 0
             \/ (promised'[d][p] = promised[d][p] /\ expires'[d][p] = expires[d][p])
  PROVE  PresenceTypeOK' /\ PresenceTrue'
<1>1. PresenceTypeOK'
  BY DEF PresenceTypeOK
<1>2. now \in Nat /\ TTL \in Nat
  BY InHand, RowTypes, PoolAssumption DEF PoolTrue, PoolTypes
<1>3. ASSUME NEW d \in Documents, NEW p \in Principals
      PROVE  promised'[d][p] <= now' + TTL /\ (<<d, p>> \in crossed' \/ BeatTrue(d, p)')
  <2>1. promised[d][p] <= now + TTL /\ (<<d, p>> \in crossed \/ BeatTrue(d, p))
    BY DEF PresenceTrue
  <2>2. Beats(d, p)' \subseteq Beats(d, p) /\ \A u \in Beats(d, p)' : job'[u] = job[u]
    BY DEF Beats, NoNewBeats
  <2>3. \A u \in Beats(d, p)' : job[u].at \in Nat
    BY <2>2, InHand DEF Beats, Held
  <2>4. CASE promised'[d][p] = 0
    <3>1. BeatTrue(d, p) => BeatTrue(d, p)'
      <4>1. \A u \in Beats(d, p)' : 0 <= job'[u].at + TTL
        BY <1>2, <2>2, <2>3
      <4>2. QED
        BY <1>2, <2>2, <2>4, <4>1 DEF BeatTrue
    <3>2. QED
      BY <1>2, <2>1, <2>4, <3>1
  <2>5. CASE promised'[d][p] = promised[d][p] /\ expires'[d][p] = expires[d][p]
    <3>1. BeatTrue(d, p) => BeatTrue(d, p)'
      BY <2>2, <2>5 DEF BeatTrue
    <3>2. QED
      BY <2>1, <2>5, <3>1
  <2>6. QED
    BY <2>4, <2>5
<1>4. sweptAt <= now
  BY DEF PresenceTrue
<1>5. QED
  BY <1>1, <1>3, <1>4 DEF PresenceTrue

\* clear_status
LEMMA ClearRowKeeps ==
  ASSUME PoolTrue, PresenceTypeOK, PresenceTrue, NEW t \in Handlers, ClearRow(t)
  PROVE  PoolTrue' /\ PresenceTypeOK' /\ PresenceTrue'
<1> DEFINE d == job[t].doc
           p == job[t].who
<1>1. /\ pc[t] = "clear" /\ now' = now /\ Return(t)
      /\ expires' = [expires EXCEPT ![d][p] = 0] /\ promised' = [promised EXCEPT ![d][p] = 0]
      /\ UNCHANGED <<there, sweeper, sweptAt, crossed>>
  BY DEF ClearRow, At
<1>2. d \in Documents /\ p \in Principals
  BY <1>1, InHand DEF Held, PresenceLabels
<1>3. /\ PoolTrue' /\ pc'[t] = "idle"
      /\ \A u \in Handlers \ {t} : pc'[u] = pc[u] /\ job'[u] = job[u]
  BY <1>1, Returns
<1>4. NoNewBeats
  BY <1>3 DEF NoNewBeats
<1>5. 0 \in 0..MaxTime + TTL
  BY RowTypes
<1>6. /\ expires' \in [Documents -> [Principals -> 0..MaxTime + TTL]]
      /\ promised' \in [Documents -> [Principals -> 0..MaxTime + TTL]]
  BY <1>1, <1>2, <1>5, RowTypes
<1>7. \A e \in Documents, q \in Principals :
        promised'[e][q] = 0
          \/ (promised'[e][q] = promised[e][q] /\ expires'[e][q] = expires[e][q])
  BY <1>1, <1>2, RowTypes
<1>8. there' \subseteq Documents
  BY <1>1 DEF PresenceTypeOK
<1>9. QED
  BY <1>1, <1>3, <1>4, <1>6, <1>7, <1>8, RowsGo

\* ON DELETE CASCADE
LEMMA RemoveDocumentKeeps ==
  ASSUME PoolTrue, PresenceTypeOK, PresenceTrue, NEW d \in Documents, RemoveDocument(d),
         UNCHANGED <<pc, job, now>>
  PROVE  PresenceTypeOK' /\ PresenceTrue'
<1> DEFINE none == [p \in Principals |-> 0]
<1>1. /\ expires' = [expires EXCEPT ![d] = none] /\ promised' = [promised EXCEPT ![d] = none]
      /\ UNCHANGED <<sweeper, sweptAt, crossed>> /\ there' \subseteq Documents
  BY DEF RemoveDocument, PresenceTypeOK
<1>2. none \in [Principals -> 0..MaxTime + TTL] /\ \A p \in Principals : none[p] = 0
  BY RowTypes
<1> HIDE DEF none
<1>3. /\ expires' \in [Documents -> [Principals -> 0..MaxTime + TTL]]
      /\ promised' \in [Documents -> [Principals -> 0..MaxTime + TTL]]
  BY <1>1, <1>2, RowTypes
<1>4. \A e \in Documents, q \in Principals :
        promised'[e][q] = 0
          \/ (promised'[e][q] = promised[e][q] /\ expires'[e][q] = expires[e][q])
  BY <1>1, <1>2, RowTypes
<1>5. NoNewBeats
  BY DEF NoNewBeats
<1>6. QED
  BY <1>1, <1>3, <1>4, <1>5, RowsGo

\* presence_gc: the sweep takes what had expired when it read the time, and so
\* nothing that somebody has been promised.
LEMMA SweepDeleteKeeps ==
  ASSUME PoolTrue, PresenceTypeOK, PresenceTrue, SweepDelete, UNCHANGED <<pc, job, now>>
  PROVE  PresenceTypeOK' /\ PresenceTrue'
<1>1. /\ expires' = [d \in Documents |-> [p \in Principals |->
                       IF expires[d][p] <= sweptAt THEN 0 ELSE expires[d][p]]]
      /\ sweeper' = "asleep" /\ UNCHANGED <<there, sweptAt, promised, crossed>>
  BY DEF SweepDelete
<1>2. \A d \in Documents, p \in Principals :
        /\ expires'[d][p] = IF expires[d][p] <= sweptAt THEN 0 ELSE expires[d][p]
        /\ expires'[d][p] \in 0..MaxTime + TTL
  BY <1>1, RowTypes
<1>3. expires' \in [Documents -> [Principals -> 0..MaxTime + TTL]]
  BY <1>1, <1>2
<1>4. PresenceTypeOK'
  BY <1>1, <1>3 DEF PresenceTypeOK
<1>5. sweptAt <= now /\ sweptAt \in Nat /\ now \in Nat
  BY RowTypes, PoolAssumption DEF PresenceTrue, PoolTrue, PoolTypes
<1>6. ASSUME NEW d \in Documents, NEW p \in Principals
      PROVE  promised'[d][p] <= now' + TTL /\ (<<d, p>> \in crossed' \/ BeatTrue(d, p)')
  <2>1. promised[d][p] <= now + TTL /\ (<<d, p>> \in crossed \/ BeatTrue(d, p))
    BY DEF PresenceTrue
  <2>2. Beats(d, p)' = Beats(d, p)
    BY DEF Beats
  <2>3. promised[d][p] > now /\ expires[d][p] >= promised[d][p] => expires'[d][p] = expires[d][p]
    BY <1>2, <1>5, RowTypes
  <2>4. BeatTrue(d, p) => BeatTrue(d, p)'
    BY <1>1, <2>2, <2>3 DEF BeatTrue
  <2>5. QED
    BY <1>1, <2>1, <2>4
<1>7. QED
  BY <1>1, <1>4, <1>5, <1>6 DEF PresenceTrue

\* The other steps of the sweeping task.
LEMMA SweeperKeeps ==
  ASSUME PoolTrue, PresenceTypeOK, PresenceTrue, NoNewBeats, now' = now,
         SweepBegin \/ SweepFails \/ SweepWake \/ SweepStop \/ SweepStart
  PROVE  PresenceTypeOK' /\ PresenceTrue'
<1>1. /\ UNCHANGED <<there, expires, promised, crossed>> /\ sweptAt' \in {sweptAt, now, 0}
      /\ sweeper' \in {"ready", "deleting", "asleep", "stopped"}
  BY DEF SweepBegin, SweepFails, SweepWake, SweepStop, SweepStart
<1>2. now \in 0..MaxTime /\ now \in Nat /\ MaxTime \in Nat
  BY PoolAssumption DEF PoolTrue, PoolTypes
<1>3. sweptAt \in 0..MaxTime /\ sweptAt <= now
  BY DEF PresenceTypeOK, PresenceTrue
<1>4. sweptAt' <= now' /\ sweptAt' \in 0..MaxTime
  BY <1>1, <1>2, <1>3
<1>5. PresenceTypeOK'
  BY <1>1, <1>4 DEF PresenceTypeOK
<1>6. QED
  BY <1>1, <1>2, <1>4, <1>5, BeatsStay

\* A heartbeat or a clearing that begins.
LEMMA PresenceBegins ==
  ASSUME PoolTrue, PresenceTypeOK, PresenceTrue, NEW t \in Handlers, NEW p \in Principals,
         StartBeat(t, p) \/ StartClear(t, p), now' = now
  PROVE  PoolTrue' /\ PresenceTypeOK' /\ PresenceTrue'
<1>1. PICK d \in Documents, label \in {"exists", "clear"} :
        Begin(t, label, [NoJob EXCEPT !.who = p, !.doc = d]) /\ UNCHANGED presenceVars
  BY DEF StartBeat, StartClear
<1> DEFINE j == [NoJob EXCEPT !.who = p, !.doc = d]
<1>2. j \in Jobs /\ j.who = p /\ j.doc = d /\ j.lost = FALSE
  BY NoJobTrue DEF Jobs
<1> HIDE DEF j
<1>3. Steps(t, label, j)
  BY <1>1 DEF Begin, Goto, Steps, j
<1>4. label \in Labels /\ Held(label, j)
  BY <1>2 DEF Held, Labels, PresenceLabels, WindowLabels, Checking
<1>5. /\ PoolTrue' /\ pc'[t] = label
      /\ \A u \in Handlers \ {t} : pc'[u] = pc[u] /\ job'[u] = job[u]
  BY <1>2, <1>3, <1>4, PoolSteps
<1>6. NoNewBeats
  BY <1>5 DEF NoNewBeats
<1>7. PresenceTypeOK'
  BY <1>1 DEF presenceVars, PresenceTypeOK
<1>8. now \in Nat /\ sweptAt <= now
  BY PoolAssumption DEF PresenceTrue, PoolTrue, PoolTypes
<1>9. QED
  BY <1>1, <1>5, <1>6, <1>7, <1>8, BeatsStay DEF presenceVars

\* What was answered is listed until then.
LEMMA PromisesListed ==
  ASSUME PoolTrue, PresenceTypeOK, PresenceTrue
  PROVE  HeartbeatKept
<1> SUFFICES ASSUME NEW d \in Documents, NEW p \in Principals,
                    promised[d][p] > now, <<d, p>> \notin crossed
             PROVE  expires[d][p] > now
  BY DEF HeartbeatKept, ListActive
<1>1. expires[d][p] >= promised[d][p]
  BY DEF PresenceTrue, BeatTrue
<1>2. expires[d][p] \in Nat /\ promised[d][p] \in Nat /\ now \in Nat
  BY RowTypes, PoolAssumption DEF PoolTrue, PoolTypes
<1>3. QED
  BY <1>1, <1>2

\* At the start nobody is there.
LEMMA PresenceStart ==
  ASSUME PoolInit, PresenceInit
  PROVE  PoolTrue /\ PresenceTypeOK /\ PresenceTrue
<1>1. /\ now = 1 /\ pc = [t \in Handlers |-> "idle"] /\ job = [t \in Handlers |-> NoJob]
  BY DEF PoolInit
<1>2. MaxTime \in Nat \ {0} /\ TTL \in Nat
  BY PoolAssumption, PresenceAssumption
<1>3. PoolTrue
  BY <1>1, <1>2, NoJobTrue, IdleTrue DEF PoolTrue, PoolTypes, Labels
<1>4. /\ there = Documents /\ sweeper = "ready" /\ sweptAt = 0 /\ crossed = {}
      /\ \A d \in Documents, p \in Principals : expires[d][p] = 0 /\ promised[d][p] = 0
      /\ expires \in [Documents -> [Principals -> {0}]]
      /\ promised \in [Documents -> [Principals -> {0}]]
  BY DEF PresenceInit, NoRows
<1>5. {0} \subseteq 0..MaxTime + TTL
  BY <1>2
<1>6. /\ expires \in [Documents -> [Principals -> 0..MaxTime + TTL]]
      /\ promised \in [Documents -> [Principals -> 0..MaxTime + TTL]]
  BY <1>4, <1>5
<1>7. PresenceTypeOK
  BY <1>2, <1>4, <1>6 DEF PresenceTypeOK
<1>8. \A d \in Documents, p \in Principals : Beats(d, p) = {}
  BY <1>1 DEF Beats
<1>9. PresenceTrue
  BY <1>1, <1>2, <1>4, <1>8 DEF PresenceTrue, BeatTrue
<1>10. QED
  BY <1>3, <1>7, <1>9


-----------------------------------------------------------------------------
(* Token buckets.                                                          *)

\* As many different values as places.
LEMMA Distinct ==
  ASSUME NEW T, IsFiniteSet(T), NEW m \in Nat, NEW f \in [1..m -> T],
         \A i, j \in 1..m : i < j => f[i] # f[j]
  PROVE  Cardinality(T) >= m
<1> SUFFICES ASSUME Cardinality(T) < m PROVE FALSE
  BY FS_CardinalityType
<1>1. IsFiniteSet(1..m) /\ Cardinality(1..m) = m
  BY FS_Interval
<1>2. PICK x, y \in 1..m : x # y /\ f[x] = f[y]
  BY <1>1, FS_PigeonHole
<1>3. x < y \/ y < x
  BY <1>2
<1>4. QED
  BY <1>2, <1>3

\* Refill: what flows in during a time is Capacity for each second of it.
LEMMA Refill ==
  ASSUME NEW c \in Nat, NEW p \in Nat, NEW last \in Nat, NEW n \in Nat, NEW x \in Nat,
         x <= last, last <= n
  PROVE  c * (p + last - x) + (n - last) * c = c * (p + n - x)
OBVIOUS

\* One more request is one more token.
LEMMA OneMore ==
  ASSUME NEW len \in Nat, NEW i \in Nat, NEW p \in Nat
  PROVE  ((len + 1) - i + 1) * p = (len - i + 1) * p + p
OBVIOUS

\* retry_after is rounded up.
LEMMA RoundedUp ==
  ASSUME NEW a \in Nat, NEW c \in Nat \ {0}
  PROVE  (a + c - 1) \div c \in Nat /\ ((a + c - 1) \div c) * c >= a
OBVIOUS

\* The limits.
LEMMA LimiterConstants ==
  ASSUME NEW k \in Callers
  PROVE  /\ Capacity[k] \in Nat \ {0} /\ Period \in Nat \ {0} /\ MaxKeys \in Nat \ {0}
         /\ Full(k) \in Nat /\ Full(k) = Capacity[k] * Period /\ Full(k) >= Period
<1>1. Capacity[k] \in Nat \ {0} /\ Period \in Nat \ {0} /\ MaxKeys \in Nat \ {0}
  BY LimiterAssumption
<1>2. \A c, p \in Nat \ {0} : c * p \in Nat /\ c * p >= p
  OBVIOUS
<1>3. QED
  BY <1>1, <1>2 DEF Full

\* A caller's bucket is one of the buckets, in the caller's place.
LEMMA BucketTypes ==
  ASSUME LimiterTypeOK, LimiterTrue, now \in Nat, NEW k \in Callers
  PROVE  /\ \A b \in OfCaller(k) :
              /\ b.key = k /\ b.tokens \in Nat /\ b.tokens <= Full(k)
              /\ b.last \in Nat /\ b.last <= now
         /\ \A i, j \in Places(k) : i = j
         /\ Places(k) = {} <=> OfCaller(k) = {}
         /\ Places(k) \subseteq 1..Len(buckets)
<1>1. buckets \in Seq(Buckets) /\ DOMAIN buckets = 1..Len(buckets)
  BY DEF LimiterTrue
<1>2. ASSUME NEW i \in Places(k)
      PROVE  /\ buckets[i].key = k /\ buckets[i].tokens \in Nat /\ buckets[i].tokens <= Full(k)
             /\ buckets[i].last \in Nat /\ buckets[i].last <= now /\ i \in 1..Len(buckets)
  <2>1. i \in DOMAIN buckets /\ buckets[i].key = k
    BY DEF Places
  <2>2. buckets[i].last \in 1..now /\ buckets[i].tokens \in 0..Full(k)
    BY <2>1 DEF LimiterTypeOK
  <2>3. Full(k) \in Nat
    BY LimiterConstants
  <2>4. QED
    BY <1>1, <2>1, <2>2, <2>3
<1>3. \A i, j \in Places(k) : i = j
  <2> SUFFICES ASSUME NEW i \in Places(k), NEW j \in Places(k), i # j PROVE FALSE
    OBVIOUS
  <2>1. i \in DOMAIN buckets /\ j \in DOMAIN buckets /\ buckets[i].key = buckets[j].key
    BY <1>2 DEF Places
  <2>2. i < j \/ j < i
    BY <1>2
  <2>3. QED
    BY <2>1, <2>2 DEF LimiterTrue
<1>4. QED
  BY <1>2, <1>3 DEF OfCaller

\* What a caller has, at most what its bucket had and what flowed in since.
LEMMA TokenBounds ==
  ASSUME LimiterTypeOK, LimiterTrue, now \in Nat, NEW k \in Callers
  PROVE  /\ Tokens(k) \in Nat /\ Tokens(k) <= Full(k)
         /\ OfCaller(k) = {} => Tokens(k) = Full(k)
         /\ OfCaller(k) # {} =>
              \E b \in OfCaller(k) :
                LET tokens == b.tokens + (now - b.last) * Capacity[k] IN
                Tokens(k) = IF tokens > Full(k) THEN Full(k) ELSE tokens
<1>1. Full(k) \in Nat /\ Capacity[k] \in Nat
  BY LimiterConstants
<1>2. CASE OfCaller(k) = {}
  BY <1>1, <1>2 DEF Tokens
<1>3. CASE OfCaller(k) # {}
  <2> DEFINE c == CHOOSE x \in OfCaller(k) : TRUE
             tokens == c.tokens + (now - c.last) * Capacity[k]
  <2>1. c \in OfCaller(k)
    BY <1>3
  <2>2. Tokens(k) = IF tokens > Full(k) THEN Full(k) ELSE tokens
    BY <1>3 DEF Tokens
  <2> HIDE DEF c
  <2>3. c.tokens \in Nat /\ c.last \in Nat /\ c.last <= now
    BY <2>1, BucketTypes
  <2>4. now - c.last \in Nat
    BY <2>3
  <2>5. (now - c.last) * Capacity[k] \in Nat
    BY <1>1, <2>4
  <2>6. tokens \in Nat
    BY <2>3, <2>5
  <2> HIDE DEF tokens
  <2>7. Tokens(k) \in Nat /\ Tokens(k) <= Full(k)
    BY <1>1, <2>2, <2>6
  <2>8. QED
    BY <1>3, <2>1, <2>2, <2>7 DEF tokens
<1>4. QED
  BY <1>2, <1>3


\* f tells where the buckets r were: all but k's.
Picks(k, r, f) ==
    /\ f \in [1..Len(r) -> 1..Len(buckets)]
    /\ \A i \in 1..Len(r) : r[i] = buckets[f[i]] /\ buckets[f[i]].key # k
    /\ \A i, j \in 1..Len(r) : i < j => f[i] < f[j]
    /\ \A x \in 1..Len(buckets) : buckets[x].key = k \/ \E i \in 1..Len(r) : f[i] = x

\* move_to_end: the buckets of the others stay in their order.
LEMMA OthersInOrder ==
  ASSUME LimiterTypeOK, LimiterTrue, now \in Nat, NEW k \in Callers
  PROVE  /\ OfOthers(k) \in Seq(Buckets)
         /\ IF Places(k) = {} THEN Len(OfOthers(k)) = Len(buckets)
                              ELSE Len(OfOthers(k)) = Len(buckets) - 1
         /\ \E f : Picks(k, OfOthers(k), f)
<1> DEFINE n == Len(buckets)
           r == OfOthers(k)
<1>1. buckets \in Seq(Buckets) /\ n \in Nat /\ DOMAIN buckets = 1..n
  BY DEF LimiterTrue
<1>2. \A x \in 1..n : x \notin Places(k) => buckets[x].key # k
  BY <1>1 DEF Places
<1>3. CASE Places(k) = {}
  <2> DEFINE f == [i \in 1..n |-> i]
  <2>1. r = buckets
    BY <1>3 DEF OfOthers
  <2>2. f \in [1..Len(r) -> 1..n]
    BY <2>1
  <2>3. /\ \A i \in 1..Len(r) : r[i] = buckets[f[i]] /\ buckets[f[i]].key # k
        /\ \A i, j \in 1..Len(r) : i < j => f[i] < f[j]
        /\ \A x \in 1..n : \E i \in 1..Len(r) : f[i] = x
    BY <1>1, <1>2, <1>3, <2>1
  <2> HIDE DEF f, r
  <2>4. Picks(k, r, f)
    BY <2>2, <2>3 DEF Picks
  <2>5. r \in Seq(Buckets) /\ Len(r) = Len(buckets)
    BY <1>1, <2>1
  <2>6. QED
    BY <1>3, <2>4, <2>5 DEF r
<1>4. CASE Places(k) # {}
  <2>1. PICK q \in Places(k) : q = CHOOSE j \in Places(k) : TRUE
    BY <1>4
  <2>2. q \in 1..n /\ buckets[q].key = k /\ \A x \in Places(k) : x = q
    BY BucketTypes, <1>1 DEF Places
  <2> DEFINE a == SubSeq(buckets, 1, q - 1)
             b == SubSeq(buckets, q + 1, n)
  <2>3. r = a \o b
    BY <1>4, <2>1 DEF OfOthers
  <2>4. /\ a \in Seq(Buckets) /\ Len(a) = q - 1 /\ \A i \in 1..(q - 1) : a[i] = buckets[i]
        /\ b \in Seq(Buckets) /\ Len(b) = n - q /\ \A i \in 1..(n - q) : b[i] = buckets[i + q]
    BY <1>1, <2>2
  <2> HIDE DEF a, b, r
  <2>5. /\ r \in Seq(Buckets) /\ Len(r) = n - 1
        /\ \A i \in 1..(n - 1) : r[i] = IF i < q THEN buckets[i] ELSE buckets[i + 1]
    <3>1. r \in Seq(Buckets) /\ Len(r) = n - 1
      <4>1. r \in Seq(Buckets) /\ Len(r) = Len(a) + Len(b)
        BY <2>3, <2>4, ConcatProperties
      <4>2. QED
        BY <1>1, <2>2, <2>4, <4>1
    <3>2. ASSUME NEW i \in 1..(n - 1) PROVE r[i] = IF i < q THEN buckets[i] ELSE buckets[i + 1]
      <4>1. CASE i < q
        <5>1. i \in 1..Len(a) /\ r[i] = a[i]
          BY <1>1, <2>2, <2>3, <2>4, <4>1
        <5>2. QED
          BY <2>4, <4>1, <5>1
      <4>2. CASE i >= q
        <5>1. r[i] = b[i - (q - 1)] /\ i - (q - 1) \in 1..(n - q)
          BY <1>1, <2>2, <2>3, <2>4, <4>2
        <5>2. b[i - (q - 1)] = buckets[i - (q - 1) + q] /\ i - (q - 1) + q = i + 1
          BY <2>2, <2>4, <5>1
        <5>3. QED
          BY <2>2, <4>2, <5>1, <5>2
      <4>3. QED
        BY <2>2, <4>1, <4>2
    <3>3. QED
      BY <3>1, <3>2
  <2> DEFINE f == [i \in 1..(n - 1) |-> IF i < q THEN i ELSE i + 1]
  <2>6. /\ f \in [1..Len(r) -> 1..n]
        /\ \A i \in 1..(n - 1) : f[i] = IF i < q THEN i ELSE i + 1
    BY <1>1, <2>2, <2>5
  <2> HIDE DEF f
  <2>7. \A i \in 1..(n - 1) : r[i] = buckets[f[i]] /\ f[i] # q
    BY <1>1, <2>2, <2>5, <2>6
  <2>8. \A i \in 1..(n - 1) : buckets[f[i]].key # k
    BY <1>2, <2>2, <2>5, <2>6, <2>7
  <2>9. \A i, j \in 1..(n - 1) : i < j => f[i] < f[j]
    BY <2>2, <2>6
  <2>10. ASSUME NEW x \in 1..n, x # q PROVE \E i \in 1..(n - 1) : f[i] = x
    <3>1. CASE x < q
      <4>1. x \in 1..(n - 1) /\ f[x] = x
        BY <1>1, <2>2, <2>6, <3>1
      <4>2. QED
        BY <4>1
    <3>2. CASE x > q
      <4>1. x - 1 \in 1..(n - 1) /\ f[x - 1] = x
        BY <1>1, <2>2, <2>6, <3>2
      <4>2. QED
        BY <4>1
    <3>3. QED
      BY <2>2, <2>10, <3>1, <3>2
  <2>11. \A x \in 1..n : buckets[x].key = k \/ \E i \in 1..(n - 1) : f[i] = x
    BY <2>2, <2>10
  <2>12. Picks(k, r, f)
    BY <2>5, <2>6, <2>7, <2>8, <2>9, <2>11 DEF Picks
  <2>13. QED
    BY <1>4, <2>5, <2>12 DEF r
<1>5. QED
  BY <1>3, <1>4


\* What a check has to go by: no time, or all that the caller's bucket tells of,
\* and with its tokens nothing has been let in too early.
LEMMA ChargeBase ==
  ASSUME LimiterTypeOK, LimiterTrue, now \in Nat, NEW k \in Callers,
         NEW base, base = IF Cardinality(others[k]) >= MaxKeys THEN <<>> ELSE passed[k]
  PROVE  /\ base = <<>> \/ base = passed[k]
         /\ \A i \in DOMAIN base :
              /\ base[i] <= now
              /\ (Len(base) - i + 1) * Period + Tokens(k) <= Capacity[k] * (Period + now - base[i])
<1>1. CASE base = <<>>
  BY <1>1
<1>2. CASE base # <<>>
  <2>1. base = passed[k] /\ Cardinality(others[k]) < MaxKeys /\ base \in Seq(1..MaxTime)
    <3>1. IsFiniteSet(others[k])
      BY DEF LimiterTrue
    <3>2. Cardinality(others[k]) \in Nat /\ MaxKeys \in Nat
      BY <3>1, FS_CardinalityType, LimiterConstants
    <3>3. passed[k] \in Seq(1..MaxTime)
      BY DEF LimiterTypeOK
    <3>4. QED
      BY <1>2, <3>2, <3>3
  <2>2. Places(k) # {}
    <3>1. Places(k) = {} => passed[k] = <<>> \/ Cardinality(others[k]) >= MaxKeys
      BY DEF LimiterTrue
    <3>2. IsFiniteSet(others[k])
      BY DEF LimiterTrue
    <3>3. Cardinality(others[k]) \in Nat /\ MaxKeys \in Nat
      BY <3>2, FS_CardinalityType, LimiterConstants
    <3>4. QED
      BY <1>2, <2>1, <3>1, <3>3
  <2>3. OfCaller(k) # {}
    BY <2>2, BucketTypes
  <2>4. PICK b \in OfCaller(k) :
          LET tokens == b.tokens + (now - b.last) * Capacity[k] IN
          Tokens(k) = IF tokens > Full(k) THEN Full(k) ELSE tokens
    BY <2>3, TokenBounds
  <2>5. PICK last, own, cap, full, tok, at \in Nat :
          /\ last = b.last /\ own = b.tokens /\ cap = Capacity[k] /\ full = Full(k)
          /\ tok = Tokens(k) /\ at = now /\ last <= at
    <3>1. b.tokens \in Nat /\ b.last \in Nat /\ b.last <= now
      BY BucketTypes
    <3>2. Capacity[k] \in Nat /\ Full(k) \in Nat /\ Tokens(k) \in Nat
      BY LimiterConstants, TokenBounds
    <3>3. QED
      BY <3>1, <3>2
  <2>6. tok <= own + (at - last) * cap
    <3>1. (at - last) * cap \in Nat
      <4>1. at - last \in Nat
        BY <2>5
      <4>2. QED
        BY <4>1
    <3>2. QED
      BY <2>4, <2>5, <3>1
  <2>7. ASSUME NEW i \in DOMAIN base
        PROVE  /\ base[i] <= now
               /\ (Len(base) - i + 1) * Period + Tokens(k) <= Capacity[k] * (Period + now - base[i])
    <3>1. /\ base[i] <= last
          /\ (Len(base) - i + 1) * Period + own <= cap * (Period + last - base[i])
      BY <2>1, <2>5 DEF LimiterTrue, BucketTrue
    <3>2. PICK x \in Nat : x = base[i]
      <4>1. base[i] \in 1..MaxTime
        BY <2>1, <2>7, ElementOfSeq, LenProperties
      <4>2. QED
        BY <4>1
    <3>0. x <= last /\ last <= at
      BY <2>5, <3>1, <3>2
    <3>3. PICK used \in Nat : used = (Len(base) - i + 1) * Period
      <4>1. i \in 1..Len(base) /\ Len(base) \in Nat
        BY <2>1, <2>7
      <4>2. Len(base) - i + 1 \in Nat /\ Period \in Nat
        BY <4>1, LimiterConstants
      <4>3. QED
        BY <4>2
    <3>4. Period \in Nat
      BY LimiterConstants
    <3>5. cap * (Period + last - x) + (at - last) * cap = cap * (Period + at - x)
      BY <3>0, <3>4, Refill
    <3>6. cap * (Period + last - x) \in Nat /\ (at - last) * cap \in Nat
      <4>1. Period + last - x \in Nat /\ at - last \in Nat
        BY <3>0, <3>4
      <4>2. QED
        BY <4>1
    <3>7. used + own <= cap * (Period + last - x)
      BY <3>1, <3>2, <3>3
    <3>8. used + tok <= cap * (Period + at - x)
      BY <2>6, <3>5, <3>6, <3>7
    <3>9. base[i] <= at
      BY <2>5, <3>1, <3>2
    <3>10. QED
      BY <2>5, <3>2, <3>3, <3>8, <3>9
  <2>8. QED
    BY <2>1, <2>7
<1>3. QED
  BY <1>1, <1>2

\* A check that lets the caller in takes one token, and the times are as far
\* apart as the rate says; one that does not tells when there will be a token.
LEMMA ChargeOne ==
  ASSUME PoolTypes, LimiterTypeOK, LimiterTrue, NEW k \in Callers, Charge(k)
  PROVE  \E new \in Buckets :
           /\ new.key = k /\ new.last = now /\ new.tokens <= Full(k)
           /\ buckets' = Evict(Append(OfOthers(k), new))
           /\ passed'[k] \in Seq(1..MaxTime) /\ told'[k] \in Nat
           /\ Spaced(k)' /\ BucketTrue(k, new)'
<1> DEFINE base == IF Cardinality(others[k]) >= MaxKeys THEN <<>> ELSE passed[k]
<1>1. now \in 1..MaxTime /\ now \in Nat
  BY PoolAssumption DEF PoolTypes
<1>2. base \in Seq(1..MaxTime) /\ passed[k] \in Seq(1..MaxTime)
  <2>1. passed[k] \in Seq(1..MaxTime)
    BY DEF LimiterTypeOK
  <2>2. <<>> \in Seq(1..MaxTime)
    BY EmptySeq
  <2>3. QED
    BY <2>1, <2>2
<1>3. PICK tok \in Nat : tok = Tokens(k) /\ tok <= Full(k)
  BY <1>1, TokenBounds
<1>4. PICK full, cap, p, at \in Nat :
        /\ full = Full(k) /\ cap = Capacity[k] /\ p = Period /\ at = now
        /\ full = cap * p /\ full >= p /\ cap # 0 /\ p # 0
  BY <1>1, LimiterConstants
<1>5. /\ base = <<>> \/ base = passed[k]
      /\ \A i \in DOMAIN base :
           base[i] <= at /\ (Len(base) - i + 1) * p + tok <= cap * (p + at - base[i])
  BY <1>1, <1>3, <1>4, ChargeBase
<1>6. /\ buckets' = Evict(Append(OfOthers(k),
                      [key |-> k, tokens |-> tok - (IF Admits(k) THEN p ELSE 0), last |-> now]))
      /\ passed'[k] = base \o (IF Admits(k) THEN <<at>> ELSE <<>>)
      /\ told'[k] = IF Admits(k) THEN 0 ELSE at + RetryAfter(k)
  BY <1>3, <1>4 DEF Charge, LimiterTypeOK
<1>7. Admits(k) <=> tok >= p
  BY <1>3, <1>4 DEF Admits
<1>8. \A i, j \in DOMAIN base :
        i <= j => (j - i + 1) * p <= cap * (p + base[j] - base[i])
  BY <1>4, <1>5 DEF LimiterTrue, Spaced
<1> HIDE DEF base
<1>9. PICK len \in Nat : len = Len(base) /\ DOMAIN base = 1..len /\ \A i \in 1..len : base[i] \in Nat
  <2>1. Len(base) \in Nat /\ DOMAIN base = 1..Len(base)
    BY <1>2, LenProperties
  <2>2. \A i \in 1..Len(base) : base[i] \in 1..MaxTime
    BY <1>2, ElementOfSeq
  <2>3. \A i \in 1..Len(base) : base[i] \in Nat
    BY <2>2
  <2>4. QED
    BY <2>1, <2>3
<1>10. CASE Admits(k)
  <2>1. PICK left \in Nat : left = tok - p /\ left <= full
    BY <1>3, <1>4, <1>7, <1>10
  <2> DEFINE now1 == passed'[k]
  <2>0. PICK new \in Buckets : new = [key |-> k, tokens |-> left, last |-> at]
    BY DEF Buckets
  <2>2. /\ now1 = Append(base, at) /\ told'[k] = 0
        /\ buckets' = Evict(Append(OfOthers(k), new))
    BY <1>2, <1>4, <1>6, <1>10, <2>0, <2>1
  <2>3. /\ now1 \in Seq(1..MaxTime) /\ Len(now1) = len + 1 /\ DOMAIN now1 = 1..(len + 1)
        /\ now1[len + 1] = at /\ \A i \in 1..len : now1[i] = base[i]
    BY <1>1, <1>2, <1>4, <1>9, <2>2, AppendProperties
  <2> HIDE DEF now1
  <2>4. ASSUME NEW i \in 1..(len + 1)
        PROVE  /\ now1[i] <= at
               /\ ((len + 1) - i + 1) * p + left <= cap * (p + at - now1[i])
               /\ ((len + 1) - i + 1) * p <= cap * (p + at - now1[i])
    <3>1. CASE i = len + 1
      <4>1. ((len + 1) - i + 1) * p = p /\ p + at - now1[i] = p
        BY <2>3, <3>1
      <4>2. QED
        BY <1>3, <1>4, <2>1, <2>3, <3>1, <4>1
    <3>2. CASE i # len + 1
      <4>1. i \in 1..len /\ now1[i] = base[i] /\ i \in Nat
        BY <2>3, <3>2
      <4>2. base[i] <= at /\ (len - i + 1) * p + tok <= cap * (p + at - base[i])
        BY <1>5, <1>9, <4>1
      <4>3. ((len + 1) - i + 1) * p = (len - i + 1) * p + p
        BY <4>1, OneMore
      <4>4. (len - i + 1) * p \in Nat
        <5>1. len - i + 1 \in Nat
          BY <4>1
        <5>2. QED
          BY <5>1
      <4>5. cap * (p + at - base[i]) \in Int
        <5>1. p + at - base[i] \in Int
          BY <1>9, <4>1
        <5>2. QED
          BY <5>1
      <4>6. QED
        BY <2>1, <4>1, <4>2, <4>3, <4>4, <4>5
    <3>3. QED
      BY <3>1, <3>2
  <2>5. \A i, j \in 1..(len + 1) :
          i <= j => (j - i + 1) * p <= cap * (p + now1[j] - now1[i])
    <3> SUFFICES ASSUME NEW i \in 1..(len + 1), NEW j \in 1..(len + 1), i <= j
                 PROVE  (j - i + 1) * p <= cap * (p + now1[j] - now1[i])
      OBVIOUS
    <3>1. CASE j = len + 1
      BY <2>3, <2>4, <3>1
    <3>2. CASE j # len + 1
      <4>1. i \in 1..len /\ j \in 1..len
        BY <3>2
      <4>2. QED
        BY <1>8, <1>9, <2>3, <4>1
    <3>3. QED
      BY <3>1, <3>2
  <2>6. Spaced(k)'
    BY <1>4, <2>3, <2>5 DEF Spaced, now1
  <2>8. new.key = k /\ new.last = at /\ new.tokens = left /\ left <= Full(k)
    BY <1>4, <2>0, <2>1
  <2>7. BucketTrue(k, new)'
    <3>1. \A i \in DOMAIN now1 :
            /\ now1[i] <= new.last
            /\ (Len(now1) - i + 1) * Period + new.tokens
                 <= Capacity[k] * (Period + new.last - now1[i])
      BY <1>4, <2>3, <2>4, <2>8
    <3>2. ~(told'[k] > 0)
      BY <2>2
    <3>3. QED
      BY <3>1, <3>2 DEF BucketTrue, now1
  <2>9. QED
    BY <1>4, <2>2, <2>3, <2>6, <2>7, <2>8 DEF now1
<1>11. CASE ~Admits(k)
  <2>0. PICK new \in Buckets : new = [key |-> k, tokens |-> tok, last |-> at]
    BY DEF Buckets
  <2>1. PICK wait \in Nat : wait = RetryAfter(k) /\ wait >= 1 /\ tok + wait * cap >= p
    <3>1. p - tok \in Nat /\ cap \in Nat \ {0}
      BY <1>3, <1>4, <1>7, <1>11
    <3>2. PICK s \in Nat : s = (p - tok + cap - 1) \div cap /\ s * cap >= p - tok
      BY <3>1, RoundedUp
    <3>3. RetryAfter(k) = IF s < 1 THEN 1 ELSE s
      BY <1>3, <1>4, <3>2 DEF RetryAfter
    <3>4. 0 * cap = 0 /\ s * cap \in Nat /\ 1 * cap = cap
      BY <3>1
    <3>5. CASE s = 0
      BY <1>3, <1>4, <3>2, <3>3, <3>4, <3>5
    <3>6. CASE s # 0
      <4>1. s >= 1 /\ RetryAfter(k) = s
        BY <3>3, <3>6
      <4>2. tok + s * cap >= p
        BY <3>1, <3>2, <3>4
      <4>3. QED
        BY <4>1, <4>2
    <3>7. QED
      BY <3>5, <3>6
  <2>2. /\ passed'[k] = base /\ told'[k] = at + wait
        /\ buckets' = Evict(Append(OfOthers(k), new))
    <3>1. base \o <<>> = base
      BY <1>2
    <3>2. tok - 0 = tok
      OBVIOUS
    <3>3. QED
      BY <1>4, <1>6, <1>11, <2>0, <2>1, <3>1, <3>2
  <2>3. Spaced(k)'
    BY <1>4, <1>8, <2>2 DEF Spaced
  <2>4. told'[k] - now = wait /\ told'[k] >= now /\ told'[k] \in Nat
    BY <1>4, <2>1, <2>2
  <2>6. new.key = k /\ new.last = at /\ new.tokens = tok /\ tok <= Full(k)
    BY <1>3, <2>0
  <2>5. BucketTrue(k, new)'
    <3>1. told'[k] - at = wait /\ told'[k] >= at
      BY <1>4, <2>4
    <3>2. tok + (told'[k] - at) * cap >= p
      BY <2>1, <3>1
    <3>3. QED
      BY <1>4, <1>5, <2>2, <2>6, <3>1, <3>2 DEF BucketTrue
  <2>7. QED
    BY <1>4, <1>2, <2>2, <2>3, <2>4, <2>5, <2>6
<1>12. QED
  BY <1>10, <1>11


\* The buckets with k's at the end: behind each are the callers checked since.
Queued(k, all, n, new) ==
    /\ all \in Seq(Buckets) /\ n \in Nat \ {0} /\ all[n] = new
    /\ n <= MaxKeys + 1 /\ (n = MaxKeys + 1 => Places(k) = {})
    /\ \A i \in 1..n : i # n => \E x \in 1..Len(buckets) : all[i] = buckets[x] /\ buckets[x].key # k
    /\ \A x \in 1..Len(buckets) :
         buckets[x].key = k \/ \E i \in 1..n : i # n /\ all[i] = buckets[x]
    /\ \A i, j \in 1..n : i < j =>
         all[i].key # all[j].key /\ all[j].key \in others'[all[i].key]

\* The buckets after a check are all but the first d of those.
Kept(all, n, d) ==
    /\ buckets' \in Seq(Buckets) /\ Len(buckets') = n - d /\ n - d <= MaxKeys /\ n - d \in Nat \ {0}
    /\ \A i \in 1..(n - d) : buckets'[i] = all[i + d] /\ i + d \in 1..n
    /\ d = 1 => \A x \in Callers : all[1].key = x /\ IsFiniteSet(others'[x])
                  => Cardinality(others'[x]) >= MaxKeys

\* move_to_end keeps the buckets in the order of their checks.
LEMMA CheckedOrder ==
  ASSUME LimiterTypeOK, LimiterTrue, now \in Nat, NEW k \in Callers, NEW new \in Buckets,
         new.key = k, Charge(k),
         NEW all, all = Append(OfOthers(k), new), NEW n, n = Len(all)
  PROVE  Queued(k, all, n, new)
<1> DEFINE r == OfOthers(k)
<1>1. r \in Seq(Buckets) /\ Len(r) \in Nat /\ Len(buckets) \in Nat /\ DOMAIN buckets = 1..Len(buckets)
  BY OthersInOrder DEF LimiterTrue
<1>2. Len(buckets) <= MaxKeys /\ MaxKeys \in Nat
  BY LimiterConstants DEF LimiterTypeOK
<1>3. IF Places(k) = {} THEN Len(r) = Len(buckets) ELSE Len(r) = Len(buckets) - 1
  BY OthersInOrder
<1>4. PICK f : Picks(k, r, f)
  BY OthersInOrder
<1> HIDE DEF r
<1>5. /\ all \in Seq(Buckets) /\ n = Len(r) + 1 /\ all[n] = new
      /\ \A i \in 1..Len(r) : all[i] = r[i]
  BY <1>1, AppendProperties DEF r
<1>6. /\ f \in [1..Len(r) -> 1..Len(buckets)]
      /\ \A i \in 1..Len(r) : all[i] = buckets[f[i]] /\ buckets[f[i]].key # k
      /\ \A i, j \in 1..Len(r) : i < j => f[i] < f[j]
      /\ \A x \in 1..Len(buckets) : buckets[x].key = k \/ \E i \in 1..Len(r) : f[i] = x
  BY <1>4, <1>5 DEF Picks
<1>7. \A i \in 1..n : i # n <=> i \in 1..Len(r)
  BY <1>1, <1>5
<1>8. others' = [x \in Callers |-> IF x = k THEN {} ELSE others[x] \cup {k}]
  BY DEF Charge
<1>9. ASSUME NEW i \in 1..n, NEW j \in 1..n, i < j
      PROVE  all[i].key # all[j].key /\ all[j].key \in others'[all[i].key]
  <2>1. i \in 1..Len(r) /\ (j = n \/ j \in 1..Len(r))
    BY <1>1, <1>5, <1>9
  <2>2. all[i].key # k /\ f[i] \in 1..Len(buckets) /\ all[i] = buckets[f[i]]
    BY <1>6, <2>1
  <2>3. all[i].key \in Callers
    BY <1>1, <2>2 DEF LimiterTypeOK
  <2>4. others'[all[i].key] = others[all[i].key] \cup {k}
    BY <1>8, <2>2, <2>3
  <2>5. CASE j = n
    BY <1>5, <2>2, <2>4, <2>5
  <2>6. CASE j \in 1..Len(r)
    <3>1. f[j] \in 1..Len(buckets) /\ f[i] < f[j] /\ all[j] = buckets[f[j]]
      BY <1>6, <1>9, <2>1, <2>6
    <3>2. all[i].key # all[j].key /\ all[j].key \in others[all[i].key]
      BY <1>1, <2>2, <3>1 DEF LimiterTrue
    <3>3. QED
      BY <2>4, <3>2
  <2>7. QED
    BY <2>1, <2>5, <2>6
<1>10. \A i \in 1..n : i # n => \E x \in 1..Len(buckets) : all[i] = buckets[x] /\ buckets[x].key # k
  BY <1>6, <1>7
<1>11. \A x \in 1..Len(buckets) :
         buckets[x].key = k \/ \E i \in 1..n : i # n /\ all[i] = buckets[x]
  <2> SUFFICES ASSUME NEW x \in 1..Len(buckets), buckets[x].key # k
               PROVE  \E i \in 1..n : i # n /\ all[i] = buckets[x]
    OBVIOUS
  <2>1. PICK i \in 1..Len(r) : f[i] = x
    BY <1>6
  <2>2. i \in 1..n /\ i # n /\ all[i] = buckets[x]
    BY <1>1, <1>5, <1>6, <2>1, SMTT(40)
  <2>3. QED
    BY <2>2
<1>12. n \in Nat \ {0} /\ n <= MaxKeys + 1 /\ (n = MaxKeys + 1 => Places(k) = {})
  <2>1. CASE Places(k) = {}
    BY <1>1, <1>2, <1>3, <1>5, <2>1
  <2>2. CASE Places(k) # {}
    <3>1. Len(r) = Len(buckets) - 1
      BY <1>3, <2>2
    <3>2. n \in Nat \ {0} /\ n <= MaxKeys
      BY <1>1, <1>2, <1>5, <3>1
    <3>3. QED
      BY <1>2, <3>2
  <2>3. QED
    BY <2>1, <2>2
<1>13. QED
  BY <1>5, <1>9, <1>10, <1>11, <1>12 DEF Queued

\* What the buckets are after a check: those in order, but for the first when
\* they were one too many, and then as many others have been checked since it was.
LEMMA Evicted ==
  ASSUME LimiterTypeOK, LimiterTrue, now \in Nat, NEW k \in Callers, NEW new \in Buckets,
         new.key = k, Charge(k), buckets' = Evict(Append(OfOthers(k), new)),
         NEW all, all = Append(OfOthers(k), new), NEW n, n = Len(all)
  PROVE  \E d \in {0, 1} : Kept(all, n, d)
<1>7. Queued(k, all, n, new)
  BY CheckedOrder
<1>1. /\ all \in Seq(Buckets) /\ n \in Nat \ {0} /\ n <= MaxKeys + 1 /\ MaxKeys \in Nat \ {0}
  BY <1>7, LimiterConstants DEF Queued
<1>0. \A i, j \in 1..n : i < j => all[i].key # all[j].key /\ all[j].key \in others'[all[i].key]
  BY <1>7 DEF Queued
<1>2. buckets' = IF n > MaxKeys THEN Tail(all) ELSE all
  BY DEF Evict
<1>3. CASE n <= MaxKeys
  <2>1. buckets' = all
    BY <1>1, <1>2, <1>3
  <2>2. /\ buckets' \in Seq(Buckets) /\ Len(buckets') = n - 0 /\ n - 0 <= MaxKeys /\ n - 0 \in Nat \ {0}
        /\ \A i \in 1..(n - 0) : buckets'[i] = all[i + 0] /\ i + 0 \in 1..n
    BY <1>1, <1>3, <2>1
  <2>3. Kept(all, n, 0)
    BY <2>2 DEF Kept
  <2>4. QED
    BY <2>3
<1>4. CASE n > MaxKeys
  <2>1. n = MaxKeys + 1 /\ buckets' = Tail(all) /\ all # <<>>
    BY <1>1, <1>2, <1>4
  <2>2. /\ buckets' \in Seq(Buckets) /\ Len(buckets') = n - 1
        /\ \A i \in 1..(n - 1) : buckets'[i] = all[i + 1]
    BY <1>1, <2>1, HeadTailProperties
  <2>3. ASSUME NEW x \in Callers, all[1].key = x, IsFiniteSet(others'[x])
        PROVE  Cardinality(others'[x]) >= MaxKeys
    <3> DEFINE f == [i \in 1..MaxKeys |-> all[i + 1].key]
    <3>1. \A i \in 1..MaxKeys : i + 1 \in 1..n /\ 1 \in 1..n /\ 1 < i + 1
      BY <1>1, <2>1
    <3>2. \A i \in 1..MaxKeys : all[i + 1].key \in others'[x]
      BY <1>0, <2>3, <3>1
    <3>3. f \in [1..MaxKeys -> others'[x]]
      BY <3>2
    <3>4. \A i, j \in 1..MaxKeys : i < j => f[i] # f[j]
      <4> SUFFICES ASSUME NEW i \in 1..MaxKeys, NEW j \in 1..MaxKeys, i < j
                   PROVE  all[i + 1].key # all[j + 1].key
        OBVIOUS
      <4>1. i + 1 \in 1..n /\ j + 1 \in 1..n /\ i + 1 < j + 1
        BY <3>1
      <4>2. QED
        BY <1>0, <4>1
    <3> HIDE DEF f
    <3>5. MaxKeys \in Nat
      BY <1>1
    <3>6. QED
      BY <2>3, <3>3, <3>4, <3>5, Distinct
  <2>4. /\ n - 1 <= MaxKeys /\ n - 1 \in Nat \ {0} /\ \A i \in 1..(n - 1) : i + 1 \in 1..n
    BY <1>1, <2>1
  <2>5. Kept(all, n, 1)
    BY <2>2, <2>3, <2>4 DEF Kept
  <2>6. QED
    BY <2>5
<1>5. n <= MaxKeys \/ n > MaxKeys
  BY <1>1
<1>6. QED
  BY <1>3, <1>4, <1>5, Zenon


\* RateLimiter.check keeps the buckets and what was let in in step.
LEMMA ChargeKeeps ==
  ASSUME PoolTypes, LimiterTypeOK, LimiterTrue, NEW k \in Callers, Charge(k), now' = now
  PROVE  LimiterTypeOK' /\ LimiterTrue'
<1>1. now \in 1..MaxTime /\ now \in Nat
  BY PoolAssumption DEF PoolTypes
<1>2. PICK new \in Buckets :
        /\ new.key = k /\ new.last = now /\ new.tokens <= Full(k)
        /\ buckets' = Evict(Append(OfOthers(k), new))
        /\ passed'[k] \in Seq(1..MaxTime) /\ told'[k] \in Nat
        /\ Spaced(k)' /\ BucketTrue(k, new)'
  BY ChargeOne
<1>3. PICK all : all = Append(OfOthers(k), new)
  OBVIOUS
<1>4. PICK n : n = Len(all)
  OBVIOUS
<1>5. Queued(k, all, n, new)
  BY <1>1, <1>2, <1>3, <1>4, CheckedOrder
<1>6. PICK d \in {0, 1} : Kept(all, n, d)
  BY <1>1, <1>2, <1>3, <1>4, Evicted
<1>7. DOMAIN buckets' = 1..(n - d) /\ DOMAIN buckets = 1..Len(buckets)
  BY <1>6, LenProperties DEF LimiterTrue, Kept
<1>8. /\ others' = [x \in Callers |-> IF x = k THEN {} ELSE others[x] \cup {k}]
      /\ passed' \in [Callers -> Seq(1..MaxTime)] /\ told' \in [Callers -> Nat]
      /\ \A x \in Callers \ {k} : passed'[x] = passed[x] /\ told'[x] = told[x]
  <2>1. /\ others' = [x \in Callers |-> IF x = k THEN {} ELSE others[x] \cup {k}]
        /\ \E v : passed' = [passed EXCEPT ![k] = v]
        /\ \E v : told' = [told EXCEPT ![k] = v]
    BY DEF Charge
  <2>2. passed \in [Callers -> Seq(1..MaxTime)] /\ told \in [Callers -> Nat]
    BY DEF LimiterTypeOK
  <2>3. passed' \in [Callers -> Seq(1..MaxTime)] /\ \A x \in Callers \ {k} : passed'[x] = passed[x]
    BY <1>2, <2>1, <2>2
  <2>4. told' \in [Callers -> Nat] /\ \A x \in Callers \ {k} : told'[x] = told[x]
    BY <1>2, <2>1, <2>2
  <2>5. QED
    BY <2>1, <2>3, <2>4
<1>9. \A x \in Callers : /\ IsFiniteSet(others'[x]) /\ others[x] \subseteq Callers
                         /\ x # k => others'[x] = others[x] \cup {k}
  <2> SUFFICES ASSUME NEW x \in Callers
               PROVE  /\ IsFiniteSet(others'[x]) /\ others[x] \subseteq Callers
                      /\ x # k => others'[x] = others[x] \cup {k}
    OBVIOUS
  <2>1. IsFiniteSet(others[x]) /\ others[x] \subseteq Callers
    BY DEF LimiterTrue, LimiterTypeOK
  <2>2. IsFiniteSet({}) /\ IsFiniteSet(others[x] \cup {k})
    BY <2>1, FS_EmptySet, FS_AddElement
  <2>3. QED
    BY <1>8, <2>1, <2>2
<1>10. ASSUME NEW i \in 1..(n - d)
       PROVE  /\ buckets'[i].key \in Callers /\ buckets'[i].last \in 1..now
              /\ buckets'[i].tokens \in 0..Full(buckets'[i].key)
              /\ buckets'[i].key = k => buckets'[i] = new
              /\ buckets'[i].key # k => \E x \in 1..Len(buckets) : buckets'[i] = buckets[x]
  <2>1. buckets'[i] = all[i + d] /\ i + d \in 1..n
    BY <1>6 DEF Kept
  <2>2. CASE i + d = n
    <3>1. buckets'[i] = new /\ Full(k) \in Nat /\ new.tokens \in Nat
      BY <1>5, <2>1, <2>2, LimiterConstants DEF Buckets, Queued
    <3>2. QED
      BY <1>1, <1>2, <3>1
  <2>3. CASE i + d # n
    <3>1. PICK x \in 1..Len(buckets) : buckets'[i] = buckets[x] /\ buckets[x].key # k
      BY <1>5, <2>1, <2>3 DEF Queued
    <3>2. QED
      BY <1>7, <3>1 DEF LimiterTypeOK
  <2>4. QED
    BY <2>2, <2>3
<1>11. LimiterTypeOK'
  <2>1. others' \in [Callers -> SUBSET Callers]
    BY <1>8, <1>9
  <2>2. QED
    BY <1>6, <1>7, <1>8, <1>10, <2>1 DEF LimiterTypeOK, Full, Kept
<1>12. \A i, j \in DOMAIN buckets' : i < j =>
         buckets'[i].key # buckets'[j].key /\ buckets'[j].key \in others'[buckets'[i].key]
  <2> SUFFICES ASSUME NEW i \in 1..(n - d), NEW j \in 1..(n - d), i < j
               PROVE  buckets'[i].key # buckets'[j].key /\ buckets'[j].key \in others'[buckets'[i].key]
    BY <1>7
  <2>1. i + d \in 1..n /\ j + d \in 1..n /\ i + d < j + d
    BY <1>6 DEF Kept
  <2>2. buckets'[i] = all[i + d] /\ buckets'[j] = all[j + d]
    BY <1>6 DEF Kept
  <2>3. all[i + d].key # all[j + d].key /\ all[j + d].key \in others'[all[i + d].key]
    BY <1>5, <2>1 DEF Queued
  <2>4. QED
    BY <2>2, <2>3
<1>13. ASSUME NEW x \in Callers
       PROVE  /\ IsFiniteSet(others'[x]) /\ Spaced(x)'
              /\ Places(x)' = {} => passed'[x] = <<>> \/ Cardinality(others'[x]) >= MaxKeys
              /\ \A b \in OfCaller(x)' : BucketTrue(x, b)'
  <2>1. OfCaller(x)' = {buckets'[i] : i \in Places(x)'}
        /\ Places(x)' = {i \in 1..(n - d) : buckets'[i].key = x}
    BY <1>7 DEF OfCaller, Places
  <2>2. CASE x = k
    <3>1. \A b \in OfCaller(x)' : b = new
      BY <1>10, <2>1, <2>2
    <3>2. Places(x)' # {}
      <4>1. n - d \in 1..(n - d) /\ n - d + d = n
        BY <1>5, <1>6 DEF Queued, Kept
      <4>2. buckets'[n - d] = new
        BY <1>5, <1>6, <4>1 DEF Queued, Kept
      <4>3. QED
        BY <1>2, <2>1, <2>2, <4>1, <4>2
    <3>3. QED
      BY <1>2, <1>9, <2>2, <3>1, <3>2
  <2>3. CASE x # k
    <3>1. passed'[x] = passed[x] /\ told'[x] = told[x] /\ others'[x] = others[x] \cup {k}
      BY <1>8, <1>9, <2>3
    <3>2. Spaced(x)'
      <4>1. Spaced(x)
        BY DEF LimiterTrue
      <4>2. QED
        BY <3>1, <4>1 DEF Spaced
    <3>3. ASSUME NEW b \in OfCaller(x)' PROVE BucketTrue(x, b)'
      <4>1. PICK i \in 1..(n - d) : b = buckets'[i] /\ buckets'[i].key = x
        BY <2>1
      <4>2. PICK y \in 1..Len(buckets) : b = buckets[y] /\ buckets[y].key = x
        BY <1>10, <2>3, <4>1
      <4>3. b \in OfCaller(x)
        BY <1>7, <4>2 DEF OfCaller, Places
      <4>4. BucketTrue(x, b)
        BY <4>3 DEF LimiterTrue
      <4>5. QED
        BY <3>1, <4>4 DEF BucketTrue
    <3>4. ASSUME Places(x)' = {} PROVE passed'[x] = <<>> \/ Cardinality(others'[x]) >= MaxKeys
      <4>1. CASE Places(x) = {}
        <5>1. passed[x] = <<>> \/ Cardinality(others[x]) >= MaxKeys
          BY <4>1 DEF LimiterTrue
        <5>2. IsFiniteSet(others[x]) /\ IsFiniteSet(others'[x]) /\ others[x] \subseteq others'[x]
          BY <1>9, <3>1 DEF LimiterTrue
        <5>3. /\ Cardinality(others[x]) <= Cardinality(others'[x])
              /\ Cardinality(others[x]) \in Nat /\ Cardinality(others'[x]) \in Nat
          BY <5>2, FS_Subset, FS_CardinalityType
        <5>4. MaxKeys \in Nat
          BY LimiterConstants
        <5>5. QED
          BY <3>1, <5>1, <5>3, <5>4
      <4>2. CASE Places(x) # {}
        <5>1. PICK y \in 1..Len(buckets) : buckets[y].key = x
          BY <1>7, <4>2 DEF Places
        <5>2. PICK i \in 1..n : i # n /\ all[i] = buckets[y]
          BY <1>5, <2>3, <5>1 DEF Queued
        <5>3. i = 1 /\ d = 1
          <6>1. i - d \notin 1..(n - d)
            <7> SUFFICES ASSUME i - d \in 1..(n - d) PROVE FALSE
              OBVIOUS
            <7>1. buckets'[i - d] = all[i - d + d] /\ i - d + d = i
              BY <1>6 DEF Kept
            <7>2. buckets'[i - d].key = x
              BY <5>1, <5>2, <7>1
            <7>3. QED
              BY <2>1, <3>4, <7>2
          <6>2. QED
            BY <1>5, <6>1 DEF Queued
        <5>4. QED
          BY <1>6, <1>9, <5>1, <5>2, <5>3 DEF Kept
      <4>3. QED
        BY <4>1, <4>2
    <3>5. QED
      BY <1>9, <3>2, <3>3, <3>4
  <2>4. QED
    BY <2>2, <2>3
<1>14. QED
  BY <1>6, <1>11, <1>12, <1>13 DEF LimiterTrue, Kept

\* While time passes the buckets stay as they are.
LEMMA LimiterAlone ==
  ASSUME PoolTypes, LimiterTypeOK, LimiterTrue, UNCHANGED limiterVars, now' \in Nat, now' >= now
  PROVE  LimiterTypeOK' /\ LimiterTrue'
<1>1. /\ buckets' = buckets /\ passed' = passed /\ others' = others /\ told' = told
      /\ now \in Nat
  BY PoolAssumption DEF limiterVars, PoolTypes
<1>2. \A i \in DOMAIN buckets' : buckets'[i].last \in 1..now'
  BY <1>1 DEF LimiterTypeOK
<1>3. LimiterTypeOK'
  BY <1>1, <1>2 DEF LimiterTypeOK, Full
<1>4. \A k \in Callers : Spaced(k)' = Spaced(k) /\ Places(k)' = Places(k) /\ OfCaller(k)' = OfCaller(k)
  BY <1>1 DEF Spaced, Places, OfCaller
<1>5. \A k \in Callers : \A b \in OfCaller(k) : BucketTrue(k, b)' = BucketTrue(k, b)
  BY <1>1 DEF BucketTrue
<1>6. QED
  BY <1>1, <1>3, <1>4, <1>5 DEF LimiterTrue

\* The buckets of a process that has just started.
NoBuckets ==
    /\ buckets = <<>> /\ passed = [k \in Callers |-> <<>>]
    /\ others = [k \in Callers |-> {}] /\ told = [k \in Callers |-> 0]
FreshBuckets == NoBuckets => LimiterTypeOK /\ LimiterTrue

\* Without a bucket everything is allowed.
LEMMA LimiterFresh == FreshBuckets
<1> SUFFICES ASSUME NoBuckets PROVE LimiterTypeOK /\ LimiterTrue
  BY DEF FreshBuckets
<1> USE DEF NoBuckets
<1>1. buckets \in Seq(Buckets) /\ Len(buckets) = 0 /\ DOMAIN buckets = {}
  OBVIOUS
<1>2. passed \in [Callers -> Seq(1..MaxTime)]
  BY EmptySeq
<1>3. LimiterTypeOK
  BY <1>1, <1>2, LimiterAssumption DEF LimiterTypeOK
<1>4. \A k \in Callers : Places(k) = {} /\ OfCaller(k) = {} /\ Spaced(k) /\ passed[k] = <<>>
  BY <1>1 DEF Places, OfCaller, Spaced
<1>5. \A k \in Callers : IsFiniteSet(others[k])
  BY FS_EmptySet
<1>6. QED
  BY <1>1, <1>3, <1>4, <1>5 DEF LimiterTrue

\* Whoever comes back as told is let in, and the times are as far apart as the
\* rate says.
LEMMA RatesFollow ==
  ASSUME PoolTypes, LimiterTypeOK, LimiterTrue
  PROVE  RateKept
<1>1. now \in Nat
  BY PoolAssumption DEF PoolTypes
<1>2. ASSUME NEW k \in Callers, told[k] \in 1..now PROVE Admits(k)
  <2>1. PICK full, cap, p, tok, at, then \in Nat :
          /\ full = Full(k) /\ cap = Capacity[k] /\ p = Period /\ tok = Tokens(k) /\ at = now
          /\ then = told[k] /\ full >= p /\ then > 0 /\ then <= at
    <3>1. told[k] \in Nat /\ told[k] > 0 /\ told[k] <= now
      BY <1>1, <1>2
    <3>2. Full(k) \in Nat /\ Capacity[k] \in Nat /\ Period \in Nat /\ Full(k) >= Period
      BY LimiterConstants
    <3>3. Tokens(k) \in Nat
      BY <1>1, TokenBounds
    <3>4. QED
      BY <1>1, <3>1, <3>2, <3>3
  <2>2. CASE OfCaller(k) = {}
    BY <1>1, <2>1, <2>2, TokenBounds DEF Admits
  <2>3. CASE OfCaller(k) # {}
    <3>1. PICK b \in OfCaller(k) :
            LET tokens == b.tokens + (now - b.last) * Capacity[k] IN
            Tokens(k) = IF tokens > Full(k) THEN Full(k) ELSE tokens
      BY <1>1, <2>3, TokenBounds
    <3>2. PICK own, last \in Nat : own = b.tokens /\ last = b.last
      BY <1>1, BucketTypes
    <3>3. then >= last /\ own + (then - last) * cap >= p
      BY <2>1, <3>2 DEF LimiterTrue, BucketTrue
    <3>4. (at - last) * cap >= (then - last) * cap /\ (at - last) * cap \in Nat
          /\ (then - last) * cap \in Nat
      <4>1. PICK wait, more \in Nat : wait = then - last /\ more = at - then /\ at - last = wait + more
        BY <2>1, <3>2, <3>3
      <4>2. (wait + more) * cap = wait * cap + more * cap /\ wait * cap \in Nat /\ more * cap \in Nat
        BY <4>1
      <4>3. QED
        BY <4>1, <4>2
    <3>5. own + (at - last) * cap >= p
      BY <3>2, <3>3, <3>4, <2>1
    <3>6. tok >= p
      BY <2>1, <3>1, <3>2, <3>4, <3>5
    <3>7. QED
      BY <2>1, <3>6 DEF Admits
  <2>4. QED
    BY <2>2, <2>3
<1>3. QED
  BY <1>2 DEF RateKept, LimiterTrue, Spaced



-----------------------------------------------------------------------------
(* Sliding windows.                                                        *)

\* Types of deques and times, and the limits.
LEMMA WindowTypes ==
  ASSUME PoolTrue, WindowTypeOK, NEW h \in Hosts
  PROVE  /\ hits[h] \in Seq(1..now) /\ Len(hits[h]) \in Nat
         /\ passes[h] \in Seq(1..now) /\ Len(passes[h]) \in Nat
         /\ \A i \in 1..Len(hits[h]) : hits[h][i] \in Nat /\ hits[h][i] <= now
         /\ \A i \in 1..Len(passes[h]) : passes[h][i] \in Nat /\ passes[h][i] <= now
         /\ Limit \in Nat \ {0} /\ Window \in Nat /\ now \in Nat
<1>1. hits[h] \in Seq(1..now) /\ passes[h] \in Seq(1..now)
  BY DEF WindowTypeOK
<1>2. Len(hits[h]) \in Nat /\ Len(passes[h]) \in Nat
  BY <1>1, LenProperties
<1>3. /\ \A i \in 1..Len(hits[h]) : hits[h][i] \in 1..now
      /\ \A i \in 1..Len(passes[h]) : passes[h][i] \in 1..now
  BY <1>1, ElementOfSeq
<1>4. now \in Nat /\ Limit \in Nat \ {0} /\ Window \in Nat
  BY WindowAssumption, PoolAssumption DEF PoolTrue, PoolTypes
<1>5. QED
  BY <1>1, <1>2, <1>3, <1>4

\* The check of a host that is under way has its job in hand.
LEMMA InCheck ==
  ASSUME PoolTrue, NEW h \in Hosts, NEW t \in In(h)
  PROVE  /\ t \in Handlers /\ pc[t] \in Checking /\ job[t].host = h
         /\ job[t].at \in Nat /\ job[t].at <= now
<1>1. t \in Handlers /\ pc[t] \in Checking /\ job[t].host = h
  BY DEF In
<1>2. job[t].at \in 1..now /\ now \in Nat
  BY <1>1, InHand DEF Held
<1>3. QED
  BY <1>1, <1>2

\* Nobody begins a check of h or changes its job, and none gets to the pop or
\* the hit.
Calm(h) ==
    \A t \in In(h)' :
        /\ t \in In(h) /\ job'[t] = job[t]
        /\ pc'[t] = pc[t] \/ pc'[t] \in {"look", "decide"}

\* A host that nothing was done to.
LEMMA HostStays ==
  ASSUME PoolTrue, WindowTypeOK, NEW h \in Hosts, HostTrue(h), Calm(h),
         passes'[h] = passes[h], hits'[h] = hits[h], now' \in Nat, now <= now'
  PROVE  HostTrue(h)'
<1>1. /\ Len(hits[h]) \in Nat /\ Len(passes[h]) \in Nat /\ Window \in Nat /\ now \in Nat
      /\ \A i \in 1..Len(passes[h]) : passes[h][i] \in Nat
  BY WindowTypes
<1>2. \A i \in 1..(Len(passes[h]) - Len(hits[h])) : passes[h][i] + Window < now'
  BY <1>1 DEF HostTrue
<1>3. \A t \in In(h)' :
        /\ ~job'[t].lost /\ \A u \in In(h)' : u = t
        /\ \A i \in 1..Len(passes[h]) : passes[h][i] <= job'[t].at
        /\ \A i \in 1..(Len(passes[h]) - Len(hits[h])) : passes[h][i] + Window < job'[t].at
        /\ pc'[t] = "pop" => 0 < Len(hits[h]) /\ hits[h][1] + Window < job'[t].at
        /\ pc'[t] = "hit" => Len(hits[h]) < Limit
  BY DEF HostTrue, Calm
<1>4. QED
  BY <1>2, <1>3 DEF HostTrue

\* No thread gets into a check, or further in one.
NoNewChecks ==
    \A t \in Handlers : pc'[t] \in Checking => pc'[t] = pc[t] /\ job'[t] = job[t]

\* A step of something else.
LEMMA WindowAlone ==
  ASSUME PoolTrue, WindowTypeOK, WindowTrue, UNCHANGED windowVars, NoNewChecks,
         now' \in Nat, now <= now'
  PROVE  WindowTypeOK' /\ WindowTrue'
<1>1. UNCHANGED <<known, hits, sincePrune, passes, raced>> /\ now \in Nat
  BY PoolAssumption DEF windowVars, PoolTrue, PoolTypes
<1>2. WindowTypeOK'
  <2>1. 1..now \subseteq 1..now'
    BY <1>1
  <2>2. \A h \in Hosts : hits[h] \in Seq(1..now') /\ passes[h] \in Seq(1..now')
    BY <2>1, WindowTypes, SeqMonotonic
  <2>3. hits' \in [Hosts -> Seq(1..now')] /\ passes' \in [Hosts -> Seq(1..now')]
    BY <1>1, <2>2 DEF WindowTypeOK
  <2>4. QED
    BY <1>1, <2>3 DEF WindowTypeOK
<1>3. ASSUME NEW h \in Hosts PROVE Calm(h)
  BY DEF Calm, In, NoNewChecks
<1>4. QED
  BY <1>1, <1>2, <1>3, HostStays DEF WindowTrue

\* A handler that goes on with its job, or returns.
LEMMA WindowMoves ==
  ASSUME PoolTrue, NEW t \in Handlers, NEW label \in {"dropStale", "queue", "pop", "decide", "hit"},
         NEW from \in WindowLabels, pc[t] = from, Goto(t, label), UNCHANGED job, now' = now,
         label \in Checking => from \in Checking, from \in Checking => label \in Checking
  PROVE  /\ PoolTrue' /\ NoNewBeats
         /\ pc'[t] = label /\ job'[t] = job[t]
         /\ \A u \in Handlers \ {t} : pc'[u] = pc[u] /\ job'[u] = job[u]
<1>1. job[t] \in Jobs /\ Held(from, job[t]) /\ label \in Labels /\ job = [job EXCEPT ![t] = job[t]]
  BY InHand DEF Labels, WindowLabels, Checking, PoolTrue, PoolTypes
<1>2. Held(label, job[t])
  BY <1>1 DEF Held, WindowLabels, Checking, PresenceLabels
<1>3. Steps(t, label, job[t])
  BY <1>1 DEF Goto, Steps
<1>4. /\ PoolTrue' /\ pc'[t] = label /\ job'[t] = job[t]
      /\ \A u \in Handlers \ {t} : pc'[u] = pc[u] /\ job'[u] = job[u]
  BY <1>1, <1>2, <1>3, PoolSteps
<1>5. label # "upsert"
  OBVIOUS
<1>6. QED
  BY <1>4, <1>5 DEF NoNewBeats

\* A handler that ends its request.
LEMMA WindowReturns ==
  ASSUME PoolTrue, WindowTypeOK, WindowTrue, NEW t \in Handlers, Return(t), now' = now,
         UNCHANGED windowVars
  PROVE  PoolTrue' /\ NoNewBeats /\ WindowTypeOK' /\ WindowTrue'
<1>1. /\ PoolTrue' /\ pc'[t] = "idle"
      /\ \A u \in Handlers \ {t} : pc'[u] = pc[u] /\ job'[u] = job[u]
  BY Returns
<1>2. NoNewBeats /\ NoNewChecks
  BY <1>1 DEF NoNewBeats, NoNewChecks, Checking
<1>3. now \in Nat
  BY PoolAssumption DEF PoolTrue, PoolTypes
<1>4. QED
  BY <1>1, <1>2, <1>3, WindowAlone

\* A check that begins is not in its host's deque yet.
LEMMA StartWindowKeeps ==
  ASSUME PoolTrue, WindowTypeOK, WindowTrue, NEW t \in Handlers, NEW h \in Hosts,
         StartWindow(t, h), now' = now
  PROVE  PoolTrue' /\ NoNewBeats /\ WindowTypeOK' /\ WindowTrue'
<1>1. PICK label \in {"findStale", "queue"} : Begin(t, label, [NoJob EXCEPT !.host = h])
  BY DEF StartWindow
<1>2. UNCHANGED <<known, hits, passes, raced>> /\ sincePrune' = sincePrune + 1
  BY DEF StartWindow
<1> DEFINE j == [NoJob EXCEPT !.host = h]
<1>3. j \in Jobs /\ j.host = h /\ j.lost = FALSE
  BY NoJobTrue DEF Jobs
<1> HIDE DEF j
<1>4. Steps(t, label, j) /\ label \in Labels /\ Held(label, j)
  BY <1>1, <1>3 DEF Begin, Goto, Steps, j, Labels, Held, WindowLabels, Checking, PresenceLabels
<1>5. /\ PoolTrue' /\ pc'[t] = label
      /\ \A u \in Handlers \ {t} : pc'[u] = pc[u] /\ job'[u] = job[u]
  BY <1>3, <1>4, PoolSteps
<1>6. NoNewBeats /\ NoNewChecks
  BY <1>5 DEF NoNewBeats, NoNewChecks, Checking
<1>7. WindowTypeOK'
  BY <1>2 DEF WindowTypeOK
<1>8. \A g \in Hosts : Calm(g)
  BY <1>6 DEF Calm, In, NoNewChecks
<1>9. now \in Nat
  BY PoolAssumption DEF PoolTrue, PoolTypes
<1>10. QED
  BY <1>2, <1>5, <1>6, <1>7, <1>8, <1>9, HostStays DEF WindowTrue

\* The walk over the dict changes nothing but what the collection is about to take.
LEMMA FindStaleKeeps ==
  ASSUME PoolTrue, WindowTypeOK, WindowTrue, NEW t \in Handlers, FindStale(t)
  PROVE  PoolTrue' /\ NoNewBeats /\ WindowTypeOK' /\ WindowTrue'
<1>1. /\ pc[t] = "findStale" /\ Goto(t, "dropStale") /\ now' = now /\ UNCHANGED windowVars
      /\ job' = [job EXCEPT ![t].stale = {h \in known : Stale(h)}]
  BY DEF FindStale, At
<1> DEFINE s == {h \in known : Stale(h)}
<1>2. s \subseteq Hosts
  BY DEF WindowTypeOK
<1> HIDE DEF s
<1>3. PICK j : j = [job[t] EXCEPT !.stale = s]
  OBVIOUS
<1>4. job[t] \in Jobs /\ Held("findStale", job[t])
  BY <1>1, InHand
<1>5. /\ j \in Jobs /\ j.who = job[t].who /\ j.doc = job[t].doc /\ j.host = job[t].host
      /\ j.at = job[t].at /\ j.lost = job[t].lost
  BY <1>2, <1>3, <1>4 DEF Jobs
<1>6. Held("dropStale", j) /\ "dropStale" \in Labels
  BY <1>4, <1>5 DEF Held, Labels, WindowLabels, Checking, PresenceLabels
<1>7. Steps(t, "dropStale", j)
  BY <1>1, <1>3 DEF Steps, Goto, s
<1>8. /\ PoolTrue' /\ pc'[t] = "dropStale"
      /\ \A u \in Handlers \ {t} : pc'[u] = pc[u] /\ job'[u] = job[u]
  BY <1>5, <1>6, <1>7, PoolSteps
<1>9. NoNewBeats /\ NoNewChecks
  BY <1>8 DEF NoNewBeats, NoNewChecks, Checking
<1>10. now \in Nat
  BY PoolAssumption DEF PoolTrue, PoolTypes
<1>11. QED
  BY <1>1, <1>8, <1>9, <1>10, WindowAlone


\* A collection takes the deques gone; raises tells whether it then ends the
\* request.
Takes(t, gone, raises) ==
    /\ known' = known \ gone
    /\ hits' = [h \in Hosts |-> IF h \in gone THEN <<>> ELSE hits[h]]
    /\ raced' = raced \cup {h \in gone : In(h) # {} \/ ~Stale(h)}
    /\ job' = [u \in Handlers |-> IF u = t /\ raises THEN NoJob
                                  ELSE IF \E h \in gone : u \in In(h) THEN [job[u] EXCEPT !.lost = TRUE]
                                  ELSE job[u]]

\* What a collection does to the jobs: its own may end, those whose deque it
\* takes go on without it, and it gets nobody into a check.
LEMMA DropStaleJobs ==
  ASSUME PoolTrue, NEW t \in Handlers, DropStale(t), NEW gone \in SUBSET Hosts, NEW raises \in BOOLEAN,
         job' = [u \in Handlers |-> IF u = t /\ raises THEN NoJob
                                    ELSE IF \E h \in gone : u \in In(h) THEN [job[u] EXCEPT !.lost = TRUE]
                                    ELSE job[u]],
         Goto(t, IF raises THEN "idle" ELSE "queue")
  PROVE  /\ PoolTrue' /\ NoNewBeats
         /\ \A u \in Handlers : pc'[u] \in Checking =>
              /\ pc'[u] = pc[u] /\ job'[u].host = job[u].host
              /\ job'[u] = job[u] \/ job[u].host \in gone
<1>1. pc[t] = "dropStale" /\ now' = now
  BY DEF DropStale, At
<1>2. ASSUME NEW u \in Handlers
      PROVE  /\ pc'[u] \in Labels /\ job'[u] \in Jobs /\ Held(pc[u], job[u])'
             /\ pc'[u] = "upsert" => pc[u] = "upsert" /\ job'[u] = job[u]
             /\ pc'[u] \in Checking =>
                  /\ pc'[u] = pc[u] /\ job'[u].host = job[u].host
                  /\ job'[u] = job[u] \/ job[u].host \in gone
  <2>1. pc[u] \in Labels /\ job[u] \in Jobs /\ Held(pc[u], job[u])
    BY InHand
  <2>2. CASE u = t
    <3>1. t \notin UNION {In(h) : h \in gone}
      BY <1>1 DEF In, Checking
    <3>2. CASE raises
      <4>1. pc'[t] = "idle" /\ job'[t] = NoJob
        BY <3>2 DEF Goto, PoolTrue, PoolTypes
      <4>2. Held("idle", NoJob) /\ NoJob \in Jobs /\ "idle" \in Labels /\ "idle" \notin Checking
        BY IdleTrue, NoJobTrue DEF Labels, Checking
      <4>3. QED
        BY <1>1, <2>2, <4>1, <4>2 DEF Held
    <3>3. CASE ~raises
      <4>1. pc'[t] = "queue" /\ job'[t] = job[t]
        BY <3>1, <3>3 DEF Goto, PoolTrue, PoolTypes
      <4>2. Held("dropStale", job[t]) /\ "queue" \in Labels /\ "queue" \notin Checking
        BY <1>1, <2>1, <2>2 DEF Labels, WindowLabels, Checking
      <4>3. Held("queue", job[t])
        BY <4>2 DEF Held, WindowLabels, Checking, PresenceLabels
      <4>4. QED
        BY <1>1, <2>1, <2>2, <4>1, <4>2, <4>3 DEF Held
    <3>4. QED
      BY <3>2, <3>3
  <2>3. CASE u # t
    <3>1. pc'[u] = pc[u]
      BY <2>3 DEF Goto, PoolTrue, PoolTypes
    <3>2. CASE \E h \in gone : u \in In(h)
      <4>1. PICK j : j = [job[u] EXCEPT !.lost = TRUE]
        OBVIOUS
      <4>2. /\ j \in Jobs /\ j.who = job[u].who /\ j.doc = job[u].doc /\ j.host = job[u].host
            /\ j.at = job[u].at /\ j.lost
        BY <2>1, <4>1 DEF Jobs
      <4>3. job'[u] = j
        BY <2>3, <3>2, <4>1
      <4>4. pc[u] \in Checking /\ job[u].host \in gone
        BY <3>2 DEF In
      <4>5. Held(pc[u], j)
        BY <2>1, <4>2, <4>4 DEF Held
      <4>6. pc[u] # "upsert"
        BY <4>4 DEF Checking
      <4>7. QED
        BY <1>1, <2>1, <3>1, <4>2, <4>3, <4>4, <4>5, <4>6 DEF Held
    <3>3. CASE ~\E h \in gone : u \in In(h)
      <4>1. job'[u] = job[u]
        BY <2>3, <3>3
      <4>2. QED
        BY <1>1, <2>1, <3>1, <4>1 DEF Held
    <3>4. QED
      BY <3>2, <3>3
  <2>4. QED
    BY <2>2, <2>3
<1>3. PoolTypes'
  <2>1. pc' \in [Handlers -> Labels]
    BY <1>2 DEF Goto, PoolTrue, PoolTypes
  <2>2. job' \in [Handlers -> Jobs]
    BY <1>2
  <2>3. now' \in 1..MaxTime
    BY <1>1 DEF PoolTrue, PoolTypes
  <2>4. QED
    BY <2>1, <2>2, <2>3 DEF PoolTypes
<1>4. QED
  BY <1>2, <1>3 DEF PoolTrue, NoNewBeats

\* A collection takes deques whose hits are all older than the window, or the
\* host is counted as raced.
LEMMA DropStaleKeeps ==
  ASSUME PoolTrue, WindowTypeOK, WindowTrue, NEW t \in Handlers, DropStale(t)
  PROVE  PoolTrue' /\ NoNewBeats /\ WindowTypeOK' /\ WindowTrue'
<1> DEFINE there0 == job[t].stale \cap known
           raises0 == there0 # job[t].stale
<1>a. \E gone \in IF raises0 THEN SUBSET there0 ELSE {there0} : Takes(t, gone, raises0)
  BY DEF DropStale, Takes
<1>b. PICK gone, raises : gone \in SUBSET there0 /\ raises \in BOOLEAN /\ raises = raises0
                          /\ Takes(t, gone, raises)
  <2>1. PICK gone \in IF raises0 THEN SUBSET there0 ELSE {there0} : Takes(t, gone, raises0)
    BY <1>a
  <2>2. PICK raises \in BOOLEAN : raises = raises0
    OBVIOUS
  <2> HIDE DEF raises0, there0
  <2>3. gone \in SUBSET there0
    BY <2>1
  <2>4. Takes(t, gone, raises)
    BY <2>1, <2>2 DEF Takes
  <2>5. QED
    BY <2>2, <2>3, <2>4
<1>1. /\ gone \in SUBSET there0 /\ raises \in BOOLEAN
      /\ known' = known \ gone
      /\ hits' = [h \in Hosts |-> IF h \in gone THEN <<>> ELSE hits[h]]
      /\ raced' = raced \cup {h \in gone : In(h) # {} \/ ~Stale(h)}
      /\ job' = [u \in Handlers |-> IF u = t /\ raises THEN NoJob
                                    ELSE IF \E h \in gone : u \in In(h) THEN [job[u] EXCEPT !.lost = TRUE]
                                    ELSE job[u]]
  BY <1>b DEF Takes
<1>2. /\ Goto(t, IF raises THEN "idle" ELSE "queue") /\ pc[t] = "dropStale" /\ now' = now
      /\ passes' = passes /\ sincePrune' \in {sincePrune, 0}
  BY <1>b DEF DropStale, At
<1>3. gone \in SUBSET Hosts /\ now \in Nat
  BY <1>1, PoolAssumption DEF WindowTypeOK, PoolTrue, PoolTypes
<1> HIDE DEF there0, raises0
<1>4. /\ PoolTrue' /\ NoNewBeats
      /\ \A u \in Handlers : pc'[u] \in Checking =>
           /\ pc'[u] = pc[u] /\ job'[u].host = job[u].host
           /\ job'[u] = job[u] \/ job[u].host \in gone
  BY <1>1, <1>2, <1>3, DropStaleJobs, ZenonT(90)
<1>5. WindowTypeOK'
  <2>1. \A h \in Hosts : hits'[h] \in Seq(1..now)
    BY <1>1, WindowTypes, EmptySeq
  <2>2. hits' \in [Hosts -> Seq(1..now)]
    BY <1>1, <2>1
  <2>3. sincePrune' \in Nat
    BY <1>2 DEF WindowTypeOK
  <2>4. known' \subseteq Hosts /\ raced' \subseteq Hosts
    BY <1>1, <1>3 DEF WindowTypeOK
  <2>5. QED
    BY <1>2, <2>2, <2>3, <2>4 DEF WindowTypeOK
<1>6. ASSUME NEW h \in Hosts, h \notin raced', h \notin gone PROVE HostTrue(h)'
  <2>1. h \notin raced /\ hits'[h] = hits[h]
    BY <1>1, <1>6
  <2>2. Calm(h)
    BY <1>4, <1>6 DEF Calm, In
  <2>3. HostTrue(h)
    BY <2>1 DEF WindowTrue
  <2>4. QED
    BY <1>2, <1>3, <2>1, <2>2, <2>3, HostStays
<1>7. ASSUME NEW h \in gone, h \notin raced' PROVE HostTrue(h)'
  <2>1. h \in Hosts /\ h \notin raced /\ In(h) = {} /\ Stale(h) /\ hits'[h] = <<>>
    BY <1>1, <1>3, <1>7
  <2>2. In(h)' = {}
    BY <1>4, <2>1 DEF In
  <2>3. PICK n, m \in Nat :
          /\ n = Len(passes[h]) /\ m = Len(hits[h]) /\ m <= n
          /\ \A i \in 1..n : passes[h][i] \in Nat
          /\ m # 0 => hits[h] # <<>>
    BY <2>1, WindowTypes DEF WindowTrue, HostTrue
  <2>4. /\ \A i \in 1..m : hits[h][i] = passes[h][n - m + i]
        /\ \A i, j \in 1..n : i <= j => passes[h][i] <= passes[h][j]
        /\ \A i \in 1..n : i + Limit <= n => passes[h][i] + Window < passes[h][i + Limit]
        /\ \A i \in 1..(n - m) : passes[h][i] + Window < now
    BY <2>1, <2>3 DEF WindowTrue, HostTrue
  <2>5. Window \in Nat
    BY WindowAssumption
  <2>6. ASSUME NEW i \in 1..n PROVE passes[h][i] + Window < now
    <3>1. CASE m = 0
      BY <2>3, <2>4, <3>1
    <3>2. CASE m # 0
      <4>1. now - hits[h][m] > Window
        BY <2>1, <2>3, <3>2 DEF Stale
      <4>2. m \in 1..m /\ n \in 1..n /\ n - m + m = n
        BY <2>3, <3>2
      <4>3. hits[h][m] = passes[h][n] /\ passes[h][i] <= passes[h][n]
        BY <2>4, <4>2
      <4>4. passes[h][i] \in Nat /\ passes[h][n] \in Nat
        BY <2>3, <4>2
      <4>5. QED
        BY <1>3, <2>5, <4>1, <4>3, <4>4
    <3>3. QED
      BY <3>1, <3>2
  <2>7. Len(hits'[h]) = 0 /\ n - 0 = n /\ 0 <= n
    BY <2>1
  <2>8. QED
    BY <1>2, <2>2, <2>3, <2>4, <2>6, <2>7 DEF HostTrue
<1>8. QED
  BY <1>4, <1>5, <1>6, <1>7 DEF WindowTrue

\* The time is read, and the deque taken in hand, with no other check under way.
LEMMA QueueKeeps ==
  ASSUME PoolTrue, WindowTypeOK, WindowTrue, NEW t \in Handlers, Queue(t)
  PROVE  PoolTrue' /\ NoNewBeats /\ WindowTypeOK' /\ WindowTrue'
<1>1. /\ pc[t] = "queue" /\ Goto(t, "look") /\ now' = now
      /\ job' = [job EXCEPT ![t].at = now] /\ known' = known \cup {job[t].host}
      /\ raced' = IF In(job[t].host) = {} THEN raced ELSE raced \cup {job[t].host}
      /\ UNCHANGED <<hits, sincePrune, passes>>
  BY DEF Queue, At
<1>2. PICK h \in Hosts : h = job[t].host
  BY <1>1, InHand DEF Held, WindowLabels
<1>3. now \in Nat /\ now \in 1..now /\ now \in 0..MaxTime
  BY PoolAssumption DEF PoolTrue, PoolTypes
<1>4. PICK j : j = [job[t] EXCEPT !.at = now]
  OBVIOUS
<1>5. job[t] \in Jobs /\ Held("queue", job[t])
  BY <1>1, InHand
<1>6. /\ j \in Jobs /\ j.who = job[t].who /\ j.doc = job[t].doc /\ j.host = h
      /\ j.at = now /\ j.lost = job[t].lost /\ ~job[t].lost
  BY <1>2, <1>3, <1>4, <1>5 DEF Jobs, Held, Checking
<1>7. Held("look", j) /\ "look" \in Labels
  BY <1>2, <1>3, <1>6 DEF Held, Labels, WindowLabels, Checking, PresenceLabels
<1>8. Steps(t, "look", j)
  BY <1>1, <1>4 DEF Steps, Goto
<1>9. /\ PoolTrue' /\ pc'[t] = "look" /\ job'[t] = j
      /\ \A u \in Handlers \ {t} : pc'[u] = pc[u] /\ job'[u] = job[u]
  BY <1>6, <1>7, <1>8, PoolSteps
<1>10. NoNewBeats
  BY <1>9 DEF NoNewBeats
<1>11. WindowTypeOK'
  BY <1>1, <1>2 DEF WindowTypeOK
<1>12. ASSUME NEW g \in Hosts, g \notin raced', g # h PROVE HostTrue(g)'
  <2>1. Calm(g)
    BY <1>6, <1>9, <1>12 DEF Calm, In
  <2>2. HostTrue(g)
    BY <1>1, <1>12 DEF WindowTrue
  <2>3. QED
    BY <1>1, <1>3, <2>1, <2>2, HostStays
<1>13. ASSUME h \notin raced' PROVE HostTrue(h)'
  <2>1. h \notin raced /\ In(h) = {}
    BY <1>1, <1>2, <1>13
  <2>2. \A u \in In(h)' : u = t
    BY <1>9, <2>1 DEF In
  <2>3. HostTrue(h)
    BY <2>1 DEF WindowTrue
  <2>4. \A i \in 1..Len(passes[h]) : passes[h][i] <= now
    BY WindowTypes
  <2>5. \A i \in 1..(Len(passes[h]) - Len(hits[h])) : passes[h][i] + Window < now
    BY <2>3 DEF HostTrue
  <2>6. \A u \in In(h)' :
          /\ ~job'[u].lost /\ \A w \in In(h)' : w = u
          /\ \A i \in 1..Len(passes[h]) : passes[h][i] <= job'[u].at
          /\ \A i \in 1..(Len(passes[h]) - Len(hits[h])) : passes[h][i] + Window < job'[u].at
          /\ pc'[u] \notin {"pop", "hit"}
    BY <1>6, <1>9, <2>2, <2>4, <2>5
  <2>7. QED
    BY <1>1, <2>3, <2>6 DEF HostTrue
<1>14. QED
  BY <1>9, <1>10, <1>11, <1>12, <1>13 DEF WindowTrue


\* A check that is about to do something has a host, and the deque in hand
\* unless the host is counted as raced; no other check of that host is under way.
LEMMA CheckAlone ==
  ASSUME PoolTrue, WindowTypeOK, WindowTrue, NEW t \in Handlers, pc[t] \in Checking
  PROVE  /\ job[t].host \in Hosts /\ t \in In(job[t].host)
         /\ job[t].host \notin raced =>
              /\ HostTrue(job[t].host) /\ ~job[t].lost
              /\ \A u \in In(job[t].host) : u = t
<1>1. job[t].host \in Hosts /\ t \in In(job[t].host)
  BY InHand DEF Held, WindowLabels, In
<1>2. QED
  BY <1>1 DEF WindowTrue, HostTrue

\* The first hit is looked at.
LEMMA LookKeeps ==
  ASSUME PoolTrue, WindowTypeOK, WindowTrue, NEW t \in Handlers, Look(t)
  PROVE  PoolTrue' /\ NoNewBeats /\ WindowTypeOK' /\ WindowTrue'
<1>1. /\ pc[t] = "look" /\ now' = now /\ UNCHANGED <<job, windowVars>> /\ "look" \in Checking
  BY DEF Look, At, Checking
<1>2. PICK h \in Hosts : h = job[t].host /\ t \in In(h)
  BY <1>1, CheckAlone
<1>3. PICK label \in {"pop", "decide"} :
        /\ Goto(t, label)
        /\ label = "pop" => ~job[t].lost /\ hits[h] # <<>> /\ job[t].at - Head(hits[h]) > Window
  BY <1>1, <1>2 DEF Look
<1>4. label \in Checking /\ "look" \in WindowLabels
  BY DEF Checking, WindowLabels
<1>5. /\ PoolTrue' /\ NoNewBeats /\ pc'[t] = label /\ job' = job
      /\ \A u \in Handlers \ {t} : pc'[u] = pc[u]
  BY <1>1, <1>3, <1>4, WindowMoves
<1>6. now \in Nat /\ UNCHANGED <<known, hits, sincePrune, passes, raced>>
  BY <1>1, PoolAssumption DEF PoolTrue, PoolTypes, windowVars
<1>7. WindowTypeOK'
  BY <1>1, <1>6 DEF WindowTypeOK
<1>8. \A g \in Hosts : In(g)' = In(g)
  BY <1>1, <1>4, <1>5 DEF In
<1>9. ASSUME NEW g \in Hosts, g \notin raced', g # h \/ label = "decide" PROVE HostTrue(g)'
  <2>1. Calm(g)
    BY <1>2, <1>5, <1>8, <1>9 DEF Calm, In
  <2>2. HostTrue(g)
    BY <1>6, <1>9 DEF WindowTrue
  <2>3. QED
    BY <1>1, <1>6, <2>1, <2>2, HostStays
<1>10. ASSUME h \notin raced', label = "pop" PROVE HostTrue(h)'
  <2>1. HostTrue(h) /\ \A u \in In(h) : u = t
    BY <1>1, <1>2, <1>6, <1>10, CheckAlone
  <2>2. 0 < Len(hits[h]) /\ hits[h][1] + Window < job[t].at
    <3>1. hits[h] # <<>> /\ job[t].at - Head(hits[h]) > Window
      BY <1>3, <1>10
    <3>2. Len(hits[h]) \in Nat \ {0} /\ Head(hits[h]) = hits[h][1]
      BY <3>1, WindowTypes, EmptySeq, HeadTailProperties
    <3>3. hits[h][1] \in Nat /\ job[t].at \in Nat /\ Window \in Nat
      BY <1>2, <3>2, WindowTypes, InCheck
    <3>4. QED
      BY <3>1, <3>2, <3>3
  <2>3. /\ Len(hits'[h]) = Len(hits[h]) /\ Len(passes'[h]) = Len(passes[h])
        /\ hits'[h] = hits[h] /\ passes'[h] = passes[h] /\ job'[t] = job[t] /\ pc'[t] # "hit"
        /\ \A u \in In(h)' : u = t
    BY <1>5, <1>6, <1>8, <1>10, <2>1
  <2>4. QED
    BY <1>1, <1>2, <2>1, <2>2, <2>3, ZenonT(40) DEF HostTrue
<1>11. QED
  BY <1>3, <1>5, <1>7, <1>9, <1>10 DEF WindowTrue

\* The answer: full, or one more hit.
LEMMA DecideKeeps ==
  ASSUME PoolTrue, WindowTypeOK, WindowTrue, NEW t \in Handlers, Decide(t)
  PROVE  PoolTrue' /\ NoNewBeats /\ WindowTypeOK' /\ WindowTrue'
<1>1. /\ pc[t] = "decide" /\ now' = now /\ UNCHANGED windowVars /\ "decide" \in Checking
  BY DEF Decide, At, Checking
<1>2. PICK h \in Hosts : h = job[t].host /\ t \in In(h)
  BY <1>1, CheckAlone
<1>3. CASE Return(t)
  BY <1>1, <1>3, WindowReturns
<1>4. CASE Goto(t, "hit") /\ UNCHANGED job /\ (job[t].lost \/ ~(Len(hits[h]) >= Limit))
  <2>1. "hit" \in Checking /\ "decide" \in WindowLabels
    BY DEF Checking, WindowLabels
  <2>2. /\ PoolTrue' /\ NoNewBeats /\ pc'[t] = "hit" /\ job' = job
        /\ \A u \in Handlers \ {t} : pc'[u] = pc[u]
    BY <1>1, <1>4, <2>1, WindowMoves
  <2>3. now \in Nat /\ UNCHANGED <<known, hits, sincePrune, passes, raced>>
    BY <1>1, PoolAssumption DEF PoolTrue, PoolTypes, windowVars
  <2>4. WindowTypeOK'
    BY <1>1, <2>3 DEF WindowTypeOK
  <2>5. \A g \in Hosts : In(g)' = In(g)
    BY <1>1, <2>1, <2>2 DEF In
  <2>6. ASSUME NEW g \in Hosts, g \notin raced', g # h PROVE HostTrue(g)'
    <3>1. Calm(g)
      BY <1>2, <2>2, <2>5, <2>6 DEF Calm, In
    <3>2. HostTrue(g)
      BY <2>3, <2>6 DEF WindowTrue
    <3>3. QED
      BY <1>1, <2>3, <3>1, <3>2, HostStays
  <2>7. ASSUME h \notin raced' PROVE HostTrue(h)'
    <3>1. HostTrue(h) /\ (\A u \in In(h) : u = t) /\ ~job[t].lost
      BY <1>1, <1>2, <2>3, <2>7, CheckAlone
    <3>2. Len(hits[h]) < Limit
      BY <1>4, <3>1, WindowTypes
    <3>3. QED
      BY <1>1, <1>2, <2>2, <2>3, <2>5, <3>1, <3>2, ZenonT(40) DEF HostTrue
  <2>8. QED
    BY <2>2, <2>4, <2>6, <2>7 DEF WindowTrue
<1>5. QED
  BY <1>2, <1>3, <1>4 DEF Decide


\* A hit older than the window is dropped.
LEMMA PopKeeps ==
  ASSUME PoolTrue, WindowTypeOK, WindowTrue, NEW t \in Handlers, Pop(t)
  PROVE  PoolTrue' /\ NoNewBeats /\ WindowTypeOK' /\ WindowTrue'
<1>1. /\ pc[t] = "pop" /\ now' = now /\ UNCHANGED <<known, sincePrune, passes, raced>>
      /\ "pop" \in Checking /\ "pop" \in WindowLabels
  BY DEF Pop, At, Checking, WindowLabels
<1>2. PICK h \in Hosts : h = job[t].host /\ t \in In(h)
  BY <1>1, CheckAlone
<1>3. now \in Nat /\ Window \in Nat
  BY PoolAssumption, WindowAssumption DEF PoolTrue, PoolTypes
<1>4. CASE ~job[t].lost /\ hits[h] = <<>> /\ Return(t) /\ UNCHANGED hits
  BY <1>1, <1>4, WindowReturns DEF windowVars
<1>5. CASE job[t].lost /\ Goto(t, "decide") /\ UNCHANGED <<job, hits>>
  <2>1. /\ PoolTrue' /\ NoNewBeats /\ pc'[t] = "decide" /\ job' = job
        /\ \A u \in Handlers \ {t} : pc'[u] = pc[u]
    BY <1>1, <1>5, WindowMoves DEF Checking
  <2>2. WindowTypeOK'
    BY <1>1, <1>5 DEF WindowTypeOK
  <2>3. ASSUME NEW g \in Hosts, g \notin raced' PROVE HostTrue(g)'
    <3>1. Calm(g)
      BY <1>1, <2>1 DEF Calm, In
    <3>2. HostTrue(g)
      BY <1>1, <2>3 DEF WindowTrue
    <3>3. QED
      BY <1>1, <1>3, <1>5, <3>1, <3>2, HostStays
  <2>4. QED
    BY <2>1, <2>2, <2>3 DEF WindowTrue
<1>6. CASE /\ ~job[t].lost /\ hits[h] # <<>> /\ hits' = [hits EXCEPT ![h] = Tail(@)]
           /\ Goto(t, "look") /\ UNCHANGED job
  <2>1. /\ PoolTrue' /\ NoNewBeats /\ pc'[t] = "look" /\ job' = job
        /\ \A u \in Handlers \ {t} : pc'[u] = pc[u]
    <3>1. job = [job EXCEPT ![t] = job[t]] /\ job[t] \in Jobs /\ Held("pop", job[t])
      BY <1>1, InHand DEF PoolTrue, PoolTypes
    <3>2. Steps(t, "look", job[t]) /\ "look" \in Labels /\ Held("look", job[t])
      BY <1>1, <1>6, <3>1 DEF Steps, Goto, Labels, Held, WindowLabels, Checking, PresenceLabels
    <3>3. /\ PoolTrue' /\ pc'[t] = "look" /\ job' = job
          /\ \A u \in Handlers \ {t} : pc'[u] = pc[u] /\ job'[u] = job[u]
      BY <1>6, <3>1, <3>2, PoolSteps
    <3>4. QED
      BY <3>3 DEF NoNewBeats
  <2>2. PICK n, m \in Nat : n = Len(passes[h]) /\ m = Len(hits[h]) /\ m # 0
    BY <1>6, WindowTypes, EmptySeq
  <2>3. /\ hits'[h] \in Seq(1..now) /\ Len(hits'[h]) = m - 1
        /\ \A i \in 1..(m - 1) : hits'[h][i] = hits[h][i + 1]
        /\ \A g \in Hosts \ {h} : hits'[g] = hits[g]
        /\ hits' \in [Hosts -> Seq(1..now)]
    <3>1. hits'[h] = Tail(hits[h]) /\ \A g \in Hosts \ {h} : hits'[g] = hits[g]
      BY <1>6 DEF WindowTypeOK
    <3>2. /\ hits'[h] \in Seq(1..now) /\ Len(hits'[h]) = m - 1
          /\ \A i \in 1..(m - 1) : hits'[h][i] = hits[h][i + 1]
      <4>1. hits[h] \in Seq(1..now) /\ Len(hits[h]) = m /\ hits[h] # <<>>
        BY <1>6, <2>2, WindowTypes
      <4> DEFINE rest == Tail(hits[h])
      <4>2. /\ rest \in Seq(1..now) /\ Len(rest) = Len(hits[h]) - 1
            /\ \A i \in 1..Len(rest) : rest[i] = hits[h][i + 1]
        BY <4>1, HeadTailProperties
      <4> HIDE DEF rest
      <4>3. Len(rest) = m - 1
        BY <4>1, <4>2
      <4>4. hits'[h] = rest
        BY <3>1 DEF rest
      <4>5. QED
        BY <4>2, <4>3, <4>4
    <3>3. hits' \in [Hosts -> Seq(1..now)]
      BY <1>6, <3>2, <3>1 DEF WindowTypeOK
    <3>4. QED
      BY <3>1, <3>2, <3>3
  <2>4. WindowTypeOK'
    BY <1>1, <2>3 DEF WindowTypeOK
  <2>5. \A g \in Hosts : In(g)' = In(g)
    BY <1>1, <2>1 DEF In, Checking
  <2>6. ASSUME NEW g \in Hosts, g \notin raced', g # h PROVE HostTrue(g)'
    <3>1. Calm(g)
      BY <1>2, <2>1, <2>5, <2>6 DEF Calm, In
    <3>2. HostTrue(g)
      BY <1>1, <2>6 DEF WindowTrue
    <3>3. QED
      BY <1>1, <1>3, <2>3, <2>6, <3>1, <3>2, HostStays
  <2>7. ASSUME h \notin raced' PROVE HostTrue(h)'
    <3>1. HostTrue(h) /\ (\A u \in In(h) : u = t) /\ ~job[t].lost
      BY <1>1, <1>2, <2>7, CheckAlone
    <3>2. /\ m <= n
          /\ \A i \in 1..m : hits[h][i] = passes[h][n - m + i]
          /\ \A i, j \in 1..n : i <= j => passes[h][i] <= passes[h][j]
          /\ \A i \in 1..n : i + Limit <= n => passes[h][i] + Window < passes[h][i + Limit]
          /\ \A i \in 1..(n - m) : passes[h][i] + Window < now
          /\ \A i \in 1..n : passes[h][i] <= job[t].at
          /\ \A i \in 1..(n - m) : passes[h][i] + Window < job[t].at
          /\ hits[h][1] + Window < job[t].at
      BY <1>1, <1>2, <2>2, <3>1 DEF HostTrue
    <3>3. job[t].at \in Nat /\ job[t].at <= now /\ \A i \in 1..n : passes[h][i] \in Nat
      BY <1>2, <2>2, InCheck, WindowTypes
    <3>0. m \in Nat \ {0} /\ m <= n
      BY <2>2, <3>2
    <3>4. \A i \in 1..(n - (m - 1)) : passes[h][i] + Window < job[t].at
      <4>0. 1 \in 1..m /\ n - m + 1 \in 1..n
        BY <3>0
      <4>1. hits[h][1] = passes[h][n - m + 1]
        BY <3>2, <4>0
      <4>2. \A i \in 1..(n - (m - 1)) : i \in 1..(n - m) \/ i = n - m + 1
        BY <3>0
      <4>3. QED
        BY <3>2, <4>1, <4>2
    <3>5. \A i \in 1..(n - (m - 1)) : passes[h][i] + Window < now
      <4>1. \A i \in 1..(n - (m - 1)) : i \in 1..n
        BY <2>2, <3>2
      <4>2. QED
        BY <1>3, <3>3, <3>4, <4>1
    <3>6. \A i \in 1..(m - 1) : hits'[h][i] = passes[h][n - (m - 1) + i]
      <4>1. ASSUME NEW i \in 1..(m - 1) PROVE hits'[h][i] = passes[h][n - (m - 1) + i]
        <5>1. i + 1 \in 1..m /\ n - m + (i + 1) = n - (m - 1) + i
          BY <3>0
        <5>2. QED
          BY <2>3, <3>2, <5>1
      <4>2. QED
        BY <4>1
    <3>7. /\ Len(passes'[h]) = n /\ Len(hits'[h]) = m - 1 /\ m - 1 <= n
          /\ passes'[h] = passes[h] /\ now' = now /\ job'[t] = job[t] /\ pc'[t] = "look"
          /\ \A u \in In(h)' : u = t
      BY <1>1, <2>1, <2>2, <2>3, <2>5, <3>1, <3>2
    <3>8. QED
      BY <3>1, <3>2, <3>4, <3>5, <3>6, <3>7 DEF HostTrue
  <2>8. QED
    BY <2>1, <2>4, <2>6, <2>7 DEF WindowTrue
<1>7. QED
  BY <1>2, <1>4, <1>5, <1>6 DEF Pop

\* A hit is counted; the one Limit earlier is older than the window.
LEMMA HitKeeps ==
  ASSUME PoolTrue, WindowTypeOK, WindowTrue, NEW t \in Handlers, Hit(t)
  PROVE  PoolTrue' /\ NoNewBeats /\ WindowTypeOK' /\ WindowTrue'
<1>1. /\ pc[t] = "hit" /\ now' = now /\ Return(t) /\ UNCHANGED <<known, sincePrune, raced>>
      /\ "hit" \in Checking /\ "hit" \in WindowLabels
  BY DEF Hit, At, Checking, WindowLabels
<1>2. PICK h \in Hosts : h = job[t].host /\ t \in In(h)
  BY <1>1, CheckAlone
<1>3. now \in Nat /\ Window \in Nat /\ Limit \in Nat \ {0}
  BY PoolAssumption, WindowAssumption DEF PoolTrue, PoolTypes
<1>4. PICK at \in 1..now : at = job[t].at
  BY <1>1, InHand DEF Held
<1>5. /\ passes' = [passes EXCEPT ![h] = Append(@, at)]
      /\ hits' = IF job[t].lost THEN hits ELSE [hits EXCEPT ![h] = Append(@, at)]
  BY <1>2, <1>4 DEF Hit
<1>6. /\ PoolTrue' /\ pc'[t] = "idle"
      /\ \A u \in Handlers \ {t} : pc'[u] = pc[u] /\ job'[u] = job[u]
  BY <1>1, Returns
<1>7. NoNewBeats /\ NoNewChecks
  BY <1>6 DEF NoNewBeats, NoNewChecks, Checking
<1>8. PICK n, m \in Nat : n = Len(passes[h]) /\ m = Len(hits[h])
  BY WindowTypes
<1>9. /\ passes'[h] \in Seq(1..now) /\ Len(passes'[h]) = n + 1 /\ passes'[h][n + 1] = at
      /\ \A i \in 1..n : passes'[h][i] = passes[h][i]
      /\ \A g \in Hosts \ {h} : passes'[g] = passes[g] /\ hits'[g] = hits[g]
  <2>1. /\ passes'[h] = Append(passes[h], at)
        /\ \A g \in Hosts \ {h} : passes'[g] = passes[g] /\ hits'[g] = hits[g]
    BY <1>5 DEF WindowTypeOK
  <2>2. QED
    BY <1>8, <2>1, WindowTypes, AppendProperties
<1>10. /\ hits'[h] \in Seq(1..now)
       /\ ~job[t].lost => /\ Len(hits'[h]) = m + 1 /\ hits'[h][m + 1] = at
                          /\ \A i \in 1..m : hits'[h][i] = hits[h][i]
  <2>1. hits'[h] = IF job[t].lost THEN hits[h] ELSE Append(hits[h], at)
    BY <1>5 DEF WindowTypeOK
  <2>2. hits[h] \in Seq(1..now) /\ Len(hits[h]) = m
    BY <1>8, WindowTypes
  <2>3. CASE job[t].lost
    BY <2>1, <2>2, <2>3
  <2>4. CASE ~job[t].lost
    BY <2>1, <2>2, <2>4, AppendProperties
  <2>5. QED
    BY <2>3, <2>4
<1>11. WindowTypeOK'
  <2>1. hits' \in [Hosts -> Seq(1..now)] /\ passes' \in [Hosts -> Seq(1..now)]
    BY <1>5, <1>9, <1>10 DEF WindowTypeOK
  <2>2. QED
    BY <1>1, <2>1 DEF WindowTypeOK
<1>12. ASSUME NEW g \in Hosts, g \notin raced', g # h PROVE HostTrue(g)'
  <2>1. Calm(g)
    BY <1>7 DEF Calm, In, NoNewChecks
  <2>2. HostTrue(g)
    BY <1>1, <1>12 DEF WindowTrue
  <2>3. QED
    BY <1>1, <1>3, <1>9, <1>12, <2>1, <2>2, HostStays
<1>13. ASSUME h \notin raced' PROVE HostTrue(h)'
  <2>1. HostTrue(h) /\ (\A u \in In(h) : u = t) /\ ~job[t].lost
    BY <1>1, <1>2, <1>13, CheckAlone
  <2>2. /\ m <= n /\ m < Limit
        /\ \A i \in 1..m : hits[h][i] = passes[h][n - m + i]
        /\ \A i, j \in 1..n : i <= j => passes[h][i] <= passes[h][j]
        /\ \A i \in 1..n : i + Limit <= n => passes[h][i] + Window < passes[h][i + Limit]
        /\ \A i \in 1..(n - m) : passes[h][i] + Window < now
        /\ \A i \in 1..n : passes[h][i] <= at
        /\ \A i \in 1..(n - m) : passes[h][i] + Window < at
    BY <1>1, <1>2, <1>4, <1>8, <2>1 DEF HostTrue
  <2>3. In(h)' = {}
    <3>1. \A u \in In(h)' : u \in In(h) /\ u # t
      BY <1>6, <1>7 DEF In, NoNewChecks, Checking
    <3>2. QED
      BY <2>1, <3>1
  <2>4. Len(hits'[h]) = m + 1 /\ (n + 1) - (m + 1) = n - m /\ m + 1 <= n + 1
    BY <1>10, <2>1, <2>2
  <2>5. \A i \in 1..(m + 1) : hits'[h][i] = passes'[h][n - m + i]
    <3>1. ASSUME NEW i \in 1..(m + 1) PROVE hits'[h][i] = passes'[h][n - m + i]
      <4>1. CASE i = m + 1
        <5>1. n - m + i = n + 1
          BY <4>1
        <5>2. QED
          BY <1>9, <1>10, <2>1, <4>1, <5>1
      <4>2. CASE i # m + 1
        <5>1. i \in 1..m /\ n - m + i \in 1..n
          BY <2>2, <4>2
        <5>2. QED
          BY <1>9, <1>10, <2>1, <2>2, <5>1
      <4>3. QED
        BY <4>1, <4>2
    <3>2. QED
      BY <3>1
  <2>6. \A i, j \in 1..(n + 1) : i <= j => passes'[h][i] <= passes'[h][j]
    <3> SUFFICES ASSUME NEW i \in 1..(n + 1), NEW j \in 1..(n + 1), i <= j
                 PROVE  passes'[h][i] <= passes'[h][j]
      OBVIOUS
    <3>1. CASE j = n + 1
      <4>1. i \in 1..n \/ i = n + 1
        OBVIOUS
      <4>2. QED
        BY <1>4, <1>9, <2>2, <3>1, <4>1
    <3>2. CASE j # n + 1
      <4>1. i \in 1..n /\ j \in 1..n
        BY <3>2
      <4>2. QED
        BY <1>9, <2>2, <4>1
    <3>3. QED
      BY <3>1, <3>2
  <2>7. \A i \in 1..(n + 1) : i + Limit <= n + 1 => passes'[h][i] + Window < passes'[h][i + Limit]
    <3> SUFFICES ASSUME NEW i \in 1..(n + 1), i + Limit <= n + 1
                 PROVE  passes'[h][i] + Window < passes'[h][i + Limit]
      OBVIOUS
    <3>1. i \in 1..n /\ passes'[h][i] = passes[h][i]
      BY <1>3, <1>9
    <3>2. CASE i + Limit = n + 1
      <4>1. i \in 1..(n - m)
        BY <1>3, <2>2, <3>2
      <4>2. QED
        BY <1>9, <2>2, <3>1, <3>2, <4>1
    <3>3. CASE i + Limit # n + 1
      <4>1. i + Limit \in 1..n /\ i + Limit <= n
        BY <1>3, <3>3
      <4>2. QED
        BY <1>9, <2>2, <3>1, <4>1
    <3>4. QED
      BY <3>2, <3>3
  <2>8. \A i \in 1..(n - m) : passes'[h][i] + Window < now
    <3>1. \A i \in 1..(n - m) : i \in 1..n
      BY <2>2
    <3>2. QED
      BY <1>9, <2>2, <3>1
  <2>9. QED
    BY <1>1, <1>9, <2>3, <2>4, <2>5, <2>6, <2>7, <2>8 DEF HostTrue
<1>14. QED
  BY <1>6, <1>7, <1>11, <1>12, <1>13 DEF WindowTrue

\* Every step of a check.
LEMMA WindowStepKeeps ==
  ASSUME PoolTrue, WindowTypeOK, WindowTrue, NEW t \in Handlers, WindowStep(t)
  PROVE  PoolTrue' /\ NoNewBeats /\ WindowTypeOK' /\ WindowTrue' /\ UNCHANGED <<now, calls>>
<1>1. UNCHANGED <<now, calls>>
  BY DEF WindowStep, At, FindStale, FindStaleRaises, DropStale, Queue, Look, Pop, Decide, Hit
<1>2. CASE FindStaleRaises(t)
  BY <1>1, <1>2, WindowReturns DEF FindStaleRaises
<1>3. CASE FindStale(t) \/ DropStale(t) \/ Queue(t)
  BY <1>1, <1>3, FindStaleKeeps, DropStaleKeeps, QueueKeeps
<1>4. CASE Look(t) \/ Pop(t) \/ Decide(t) \/ Hit(t)
  BY <1>1, <1>4, LookKeeps, PopKeeps, DecideKeeps, HitKeeps
<1>5. QED
  BY <1>2, <1>3, <1>4 DEF WindowStep

\* The deques of a process that has just started.
NoHits ==
    /\ hits = [h \in Hosts |-> <<>>] /\ passes = [h \in Hosts |-> <<>>]
    /\ \A t \in Handlers : pc[t] = "idle"
FreshWindows == NoHits => WindowTrue

\* A host that has not been let through at all.
LEMMA WindowFresh == FreshWindows
<1> SUFFICES ASSUME NoHits PROVE WindowTrue
  BY DEF FreshWindows
<1> USE DEF NoHits
<1>1. ASSUME NEW h \in Hosts PROVE HostTrue(h)
  <2>1. hits[h] = <<>> /\ passes[h] = <<>> /\ In(h) = {}
    BY DEF In, Checking
  <2>2. Len(hits[h]) = 0 /\ Len(passes[h]) = 0
    BY <2>1
  <2>3. QED
    BY <2>1, <2>2 DEF HostTrue
<1>2. QED
  BY <1>1 DEF WindowTrue

\* Of Limit + 1 hits the last comes more than a window after the first.
LEMMA WindowFollows ==
  ASSUME PoolTrue, WindowTypeOK, WindowTrue
  PROVE  WindowKept
<1> SUFFICES ASSUME NEW h \in Hosts \ raced, NEW x \in 1..MaxTime
             PROVE  Cardinality({i \in DOMAIN passes[h] : passes[h][i] \in x..x + Window}) <= Limit
  BY DEF WindowKept
<1>1. Limit \in Nat \ {0} /\ Window \in Nat /\ x \in Nat
  BY WindowAssumption, PoolAssumption
<1>2. PICK n \in Nat : n = Len(passes[h]) /\ DOMAIN passes[h] = 1..n
                       /\ \A i \in 1..n : passes[h][i] \in Nat
  BY WindowTypes, LenProperties
<1>3. /\ \A i, j \in 1..n : i <= j => passes[h][i] <= passes[h][j]
      /\ \A i \in 1..n : i + Limit <= n => passes[h][i] + Window < passes[h][i + Limit]
  BY <1>2 DEF WindowTrue, HostTrue
<1> DEFINE S == {i \in 1..n : passes[h][i] \in x..x + Window}
<1>0. {i \in DOMAIN passes[h] : passes[h][i] \in x..x + Window} = S
  BY <1>2
<1>4. CASE S = {}
  BY <1>0, <1>1, <1>4, FS_EmptySet
<1>5. CASE S # {}
  <2>1. S \in SUBSET Nat
    OBVIOUS
  <2>2. PICK m \in S : \A i \in S : m <= i
    BY <1>5, <2>1, LeastNatural
  <2>3. m \in 1..n /\ x <= passes[h][m]
    BY <1>1, <1>2
  <2>4. ASSUME NEW i \in S PROVE i \in m..(m + Limit - 1)
    <3>1. i \in 1..n /\ passes[h][i] <= x + Window /\ m <= i
      BY <1>1, <1>2, <2>2
    <3>2. SUFFICES ASSUME m + Limit <= i PROVE FALSE
      BY <1>1, <2>3, <3>1
    <3>3. m + Limit \in 1..n /\ m + Limit <= n
      BY <1>1, <2>3, <3>1, <3>2
    <3>4. passes[h][m] + Window < passes[h][m + Limit] /\ passes[h][m + Limit] <= passes[h][i]
      BY <1>3, <2>3, <3>1, <3>2, <3>3
    <3>5. passes[h][m] \in Nat /\ passes[h][m + Limit] \in Nat /\ passes[h][i] \in Nat
      BY <1>2, <2>3, <3>1, <3>3
    <3>6. QED
      BY <1>1, <2>3, <3>1, <3>4, <3>5
  <2> HIDE DEF S
  <2>5. S \subseteq m..(m + Limit - 1)
    BY <2>4
  <2>6. IsFiniteSet(m..(m + Limit - 1)) /\ Cardinality(m..(m + Limit - 1)) = Limit
    <3>1. m \in Int /\ m + Limit - 1 \in Int /\ m <= m + Limit - 1 /\ (m + Limit - 1) - m + 1 = Limit
      BY <1>1, <2>3
    <3>2. QED
      BY <3>1, FS_Interval
  <2>7. Cardinality(S) <= Limit
    BY <2>5, <2>6, FS_Subset
  <2>8. QED
    BY <1>0, <2>7
<1>6. QED
  BY <1>4, <1>5



-----------------------------------------------------------------------------
(* The process.                                                            *)

\* What started afresh is so in the next state as well.
LEMMA FreshNext == FreshBuckets' /\ FreshWindows'
BY LimiterFresh, WindowFresh, PTL

\* Nothing happens on the threads.
LEMMA Unmoved ==
  ASSUME IInv, UNCHANGED <<pc, job>>, now' \in 1..MaxTime, now <= now'
  PROVE  PoolTrue' /\ NoNewBeats /\ NoNewChecks /\ now \in Nat /\ now' \in Nat
<1>1. PoolTrue'
  BY PoolAlone DEF IInv
<1>2. QED
  BY <1>1, PoolAssumption DEF NoNewBeats, NoNewChecks, IInv, PoolTrue, PoolTypes

\* Rows and times stay.
LEMMA PresenceAlone ==
  ASSUME IInv, UNCHANGED presenceVars, NoNewBeats, now' \in Nat, now <= now'
  PROVE  PresenceTypeOK' /\ PresenceTrue'
<1>1. UNCHANGED <<there, expires, sweeper, sweptAt, promised, crossed>>
  BY DEF presenceVars
<1>2. PresenceTypeOK'
  BY <1>1 DEF IInv, PresenceTypeOK
<1>3. sweptAt' <= now'
  <2>1. sweptAt <= now /\ sweptAt \in Nat /\ now \in Nat
    BY RowTypes, InHand, PoolAssumption DEF IInv, PresenceTrue, PoolTrue, PoolTypes
  <2>2. QED
    BY <1>1, <2>1
<1>4. PresenceTrue'
  BY <1>1, <1>3, BeatsStay DEF IInv
<1>5. QED
  BY <1>2, <1>4

\* The clock, and the number of calls.
LEMMA CallCounts ==
  ASSUME IInv, mix' = mix, Call \/ calls' = calls
  PROVE  calls' \in 0..MaxCalls[mix'] /\ mix' \in DOMAIN MaxCalls
<1>1. MaxCalls[mix] \in Nat /\ calls \in 0..MaxCalls[mix]
  BY WebAssumption DEF IInv
<1>2. QED
  BY <1>1 DEF Call, IInv

\* Parts that a step leaves alone.
LEMMA RestAlone ==
  ASSUME IInv, now' \in 1..MaxTime, now <= now'
  PROVE  /\ UNCHANGED limiterVars => LimiterTypeOK' /\ LimiterTrue'
         /\ UNCHANGED pagesVars => PagesTypeOK' /\ PagesTrue'
         /\ UNCHANGED windowVars /\ NoNewChecks => WindowTypeOK' /\ WindowTrue'
         /\ UNCHANGED presenceVars /\ NoNewBeats => PresenceTypeOK' /\ PresenceTrue'
<1>1. now \in Nat /\ now' \in Nat
  BY PoolAssumption DEF IInv, PoolTrue, PoolTypes
<1>2. UNCHANGED limiterVars => LimiterTypeOK' /\ LimiterTrue'
  BY <1>1, LimiterAlone DEF IInv, PoolTrue
<1>3. UNCHANGED pagesVars => PagesTypeOK' /\ PagesTrue'
  BY <1>1, PagesAlone DEF IInv
<1>4. UNCHANGED windowVars /\ NoNewChecks => WindowTypeOK' /\ WindowTrue'
  BY <1>1, WindowAlone DEF IInv
<1>5. UNCHANGED presenceVars /\ NoNewBeats => PresenceTypeOK' /\ PresenceTrue'
  BY <1>1, PresenceAlone
<1>6. QED
  BY <1>2, <1>3, <1>4, <1>5

\* The token bucket in front of a request, and what it does not touch.
LEMMA RequestKeeps ==
  ASSUME IInv, NEW k \in Callers, Request(k)
  PROVE  /\ LimiterTypeOK' /\ LimiterTrue' /\ now' = now /\ now' \in 1..MaxTime /\ now <= now'
         /\ calls' \in 0..MaxCalls[mix'] /\ mix' \in DOMAIN MaxCalls
<1>1. Charge(k) /\ now' = now /\ mix' = mix /\ Call
  BY DEF Request
<1>2. now' \in 1..MaxTime /\ now <= now'
  BY <1>1, PoolAssumption DEF IInv, PoolTrue, PoolTypes
<1>3. QED
  BY <1>1, <1>2, ChargeKeeps, CallCounts DEF IInv, PoolTrue

\* A request that is refused, or one of the rest.
LEMMA BrowseKeeps ==
  ASSUME IInv, NEW k \in Callers, Refuse(k) \/ Browse(k)
  PROVE  IInv'
<1>1. Request(k) /\ UNCHANGED <<pc, job, windowVars, presenceVars, pagesVars>>
  BY DEF Refuse, Browse, Admitted
<1>2. QED
  BY <1>1, RequestKeeps, Unmoved, RestAlone DEF IInv

\* A request for a device code.
LEMMA AskCodeKeeps ==
  ASSUME IInv, NEW k \in Callers, AskCode(k)
  PROVE  IInv'
<1>1. PICK t \in Handlers : StartWindow(t, HostOf[k])
  BY DEF AskCode
<1>2. Request(k) /\ UNCHANGED <<presenceVars, pagesVars>> /\ HostOf[k] \in Hosts
  BY WebAssumption DEF AskCode, Admitted
<1>3. now' = now
  BY <1>2 DEF Request
<1>4. PoolTrue' /\ NoNewBeats /\ WindowTypeOK' /\ WindowTrue'
  BY <1>1, <1>2, <1>3, StartWindowKeeps DEF IInv
<1>5. QED
  BY <1>2, <1>4, RequestKeeps, RestAlone DEF IInv

\* A heartbeat, or a row to be cleared.
LEMMA BeatKeeps ==
  ASSUME IInv, NEW k \in Callers, Beat(k) \/ Clear(k)
  PROVE  IInv'
<1>1. PICK t \in Handlers : StartBeat(t, k) \/ StartClear(t, k)
  BY DEF Beat, Clear
<1>2. Request(k) /\ UNCHANGED <<windowVars, pagesVars>> /\ k \in Principals
  BY DEF Beat, Clear, Admitted
<1>3. now' = now
  BY <1>2 DEF Request
<1>4. PoolTrue' /\ PresenceTypeOK' /\ PresenceTrue'
  BY <1>1, <1>2, <1>3, PresenceBegins DEF IInv
<1>5. NoNewChecks
  <2>1. PICK label \in {"exists", "clear"} : \E j : Begin(t, label, j)
    BY <1>1 DEF StartBeat, StartClear
  <2>2. pc'[t] = label /\ \A u \in Handlers \ {t} : pc'[u] = pc[u] /\ job'[u] = job[u]
    BY <2>1 DEF Begin, Goto, IInv, PoolTrue, PoolTypes
  <2>3. QED
    BY <2>2 DEF NoNewChecks, Checking
<1>6. QED
  BY <1>2, <1>4, <1>5, RequestKeeps, RestAlone DEF IInv

\* A page of a listing.
LEMMA GetPageKeeps ==
  ASSUME IInv, NEW k \in Callers, GetPage(k)
  PROVE  IInv'
<1>1. /\ Request(k) /\ UNCHANGED <<pc, job, windowVars, presenceVars>>
      /\ FirstPage \/ NextPage
  BY DEF GetPage, Admitted
<1>2. now' = now /\ now \in Nat
  BY <1>1, PoolAssumption DEF Request, IInv, PoolTrue, PoolTypes
<1>3. PagesTypeOK' /\ PagesTrue'
  BY <1>1, <1>2, PagesKeeps DEF IInv
<1>4. QED
  BY <1>1, <1>3, RequestKeeps, Unmoved, RestAlone DEF IInv

\* What happens to documents and rows meanwhile.
LEMMA ChangeKeeps ==
  ASSUME IInv, Change
  PROVE  IInv'
<1>1. Call /\ mix' = mix /\ now' = now /\ UNCHANGED <<pc, job, limiterVars, windowVars>>
  BY DEF Change
<1>2. now' \in 1..MaxTime /\ now <= now' /\ now \in Nat
  BY <1>1, PoolAssumption DEF IInv, PoolTrue, PoolTypes
<1>3. PoolTrue' /\ NoNewBeats /\ NoNewChecks
  BY <1>1, <1>2, Unmoved
<1>4. CASE (\E d \in Documents : RemoveDocument(d)) /\ UNCHANGED pagesVars
  <2>1. PresenceTypeOK' /\ PresenceTrue'
    BY <1>1, <1>4, RemoveDocumentKeeps DEF IInv
  <2>2. QED
    BY <1>1, <1>2, <1>3, <1>4, <2>1, CallCounts, RestAlone DEF IInv
<1>5. CASE RowChange /\ UNCHANGED presenceVars
  <2>1. PagesTypeOK' /\ PagesTrue'
    BY <1>1, <1>2, <1>5, PagesKeeps DEF IInv
  <2>2. QED
    BY <1>1, <1>2, <1>3, <1>5, <2>1, CallCounts, RestAlone DEF IInv
<1>6. QED
  BY <1>4, <1>5 DEF Change

\* A step of a handler on its thread.
LEMMA StepKeeps ==
  ASSUME IInv, NEW t \in Handlers, Step(t)
  PROVE  IInv'
<1>1. CASE WindowStep(t) /\ UNCHANGED <<mix, limiterVars, presenceVars, pagesVars>>
  <2>1. PoolTrue' /\ NoNewBeats /\ WindowTypeOK' /\ WindowTrue' /\ now' = now /\ calls' = calls
    BY <1>1, WindowStepKeeps DEF IInv
  <2>2. now' \in 1..MaxTime /\ now <= now'
    BY <2>1, PoolAssumption DEF IInv, PoolTrue, PoolTypes
  <2>3. QED
    BY <1>1, <2>1, <2>2, CallCounts, RestAlone DEF IInv
<1>2. CASE PresenceStep(t) /\ UNCHANGED <<mix, limiterVars, windowVars, pagesVars>>
  <2>1. PoolTrue' /\ PresenceTypeOK' /\ PresenceTrue'
    BY <1>2, DocExistsKeeps, WriteBeatKeeps, ClearRowKeeps DEF IInv, PresenceStep
  <2>2. /\ now' = now /\ calls' = calls
        /\ \E label \in {"upsert", "idle"} : Goto(t, label)
        /\ \E j : job' = [job EXCEPT ![t] = j]
    <3>1. CASE DocExists(t)
      <4>1. /\ now' = now /\ calls' = calls
            /\ Goto(t, "upsert") \/ Goto(t, "idle")
            /\ job' = [job EXCEPT ![t].at = now] \/ job' = [job EXCEPT ![t] = NoJob]
        BY <3>1 DEF DocExists, At, Return
      <4>2. QED
        BY <4>1
    <3>2. CASE WriteBeat(t) \/ ClearRow(t)
      BY <3>2 DEF WriteBeat, ClearRow, At, Return
    <3>3. QED
      BY <1>2, <3>1, <3>2 DEF PresenceStep
  <2>3. NoNewChecks
    BY <2>2 DEF NoNewChecks, Goto, Checking, IInv, PoolTrue, PoolTypes
  <2>4. now' \in 1..MaxTime /\ now <= now'
    BY <2>2, PoolAssumption DEF IInv, PoolTrue, PoolTypes
  <2>5. QED
    BY <1>2, <2>1, <2>2, <2>3, <2>4, CallCounts, RestAlone DEF IInv
<1>3. QED
  BY <1>1, <1>2 DEF Step

\* The sweeping task, also when it is started, and an error of it.
LEMMA SweepingKeeps ==
  ASSUME IInv, Sweeping \/ SweepError \/ Startup
  PROVE  IInv'
<1>1. /\ mix' = mix /\ now' = now
      /\ Call \/ calls' = calls
      /\ UNCHANGED <<pc, job, limiterVars, windowVars, pagesVars>>
      /\ SweepBegin \/ SweepDelete \/ SweepWake \/ SweepFails \/ SweepStart
  BY DEF Sweeping, SweepError, Startup, Sweep, poolVars
<1>2. now' \in 1..MaxTime /\ now <= now'
  BY <1>1, PoolAssumption DEF IInv, PoolTrue, PoolTypes
<1>3. PoolTrue' /\ NoNewBeats /\ NoNewChecks
  BY <1>1, <1>2, Unmoved
<1>4. PresenceTypeOK' /\ PresenceTrue'
  BY <1>1, <1>3, SweepDeleteKeeps, SweeperKeeps DEF IInv
<1>5. QED
  BY <1>1, <1>2, <1>3, <1>4, CallCounts, RestAlone DEF IInv

\* The process stops: threads, buckets and deques are gone.
LEMMA StopKeeps ==
  ASSUME IInv, Stop
  PROVE  IInv'
<1>1. /\ Call /\ mix' = mix /\ now' = now /\ UNCHANGED pagesVars
      /\ pc' = [t \in Handlers |-> "idle"] /\ job' = [t \in Handlers |-> NoJob]
      /\ LimiterStop /\ WindowStop /\ SweepStop
  BY DEF Stop
<1>2. now' \in 1..MaxTime /\ now <= now'
  BY <1>1, PoolAssumption DEF IInv, PoolTrue, PoolTypes
<1>3. PoolTrue' /\ NoNewBeats
  <2>1. pc' \in [Handlers -> Labels] /\ job' \in [Handlers -> Jobs]
    BY <1>1, NoJobTrue DEF Labels
  <2>2. \A t \in Handlers : pc'[t] = "idle" /\ job'[t] = NoJob
    BY <1>1
  <2>3. \A t \in Handlers : Held(pc[t], job[t])'
    BY <2>2, NoJobTrue DEF Held, PresenceLabels, WindowLabels, Checking
  <2>4. QED
    BY <1>2, <2>1, <2>2, <2>3 DEF PoolTrue, PoolTypes, NoNewBeats
<1>4. LimiterTypeOK' /\ LimiterTrue'
  BY <1>1, FreshNext DEF LimiterStop, NoBuckets, FreshBuckets
<1>5. WindowTrue'
  BY <1>1, FreshNext DEF WindowStop, NoHits, FreshWindows
<1>6. WindowTypeOK'
  <2>1. hits' \in [Hosts -> Seq(1..now')] /\ passes' \in [Hosts -> Seq(1..now')]
    BY <1>1, EmptySeq DEF WindowStop
  <2>2. QED
    BY <1>1, <2>1 DEF WindowStop, WindowTypeOK
<1>7. PresenceTypeOK' /\ PresenceTrue'
  BY <1>1, <1>3, SweeperKeeps DEF IInv
<1>8. QED
  BY <1>1, <1>2, <1>3, <1>4, <1>5, <1>6, <1>7, CallCounts, RestAlone DEF IInv

\* Time passes, or nothing happens.
LEMMA TickKeeps ==
  ASSUME IInv, Tick \/ UNCHANGED vars
  PROVE  IInv'
<1>1. /\ mix' = mix /\ calls' = calls
      /\ UNCHANGED <<pc, job, limiterVars, windowVars, presenceVars, pagesVars>>
      /\ now' = now \/ (now < MaxTime /\ now' = now + 1)
  BY DEF Tick, vars, poolVars
<1>2. now' \in 1..MaxTime /\ now <= now'
  BY <1>1, PoolAssumption DEF IInv, PoolTrue, PoolTypes
<1>3. QED
  BY <1>1, <1>2, Unmoved, CallCounts, RestAlone DEF IInv

\* At the start the process has done nothing.
LEMMA InitTrue ==
  ASSUME Init
  PROVE  IInv
<1>1. PoolInit /\ LimiterInit /\ WindowInit /\ PresenceInit /\ PagesInit /\ mix \in DOMAIN MaxCalls
  BY DEF Init
<1>2. PoolTrue /\ PresenceTypeOK /\ PresenceTrue
  BY <1>1, PresenceStart
<1>3. calls \in 0..MaxCalls[mix]
  BY <1>1, WebAssumption DEF PoolInit
<1>4. PagesTypeOK /\ PagesTrue
  BY <1>1, PagesStart DEF PoolInit
<1>5. LimiterTypeOK /\ LimiterTrue
  BY <1>1, LimiterFresh DEF LimiterInit, NoBuckets, FreshBuckets
<1>6. WindowTrue
  BY <1>1, WindowFresh DEF WindowInit, PoolInit, NoHits, FreshWindows
<1>7. WindowTypeOK
  <2>1. hits \in [Hosts -> Seq(1..now)] /\ passes \in [Hosts -> Seq(1..now)]
    BY <1>1, EmptySeq DEF WindowInit
  <2>2. QED
    BY <1>1, <2>1 DEF WindowInit, WindowTypeOK
<1>8. QED
  BY <1>1, <1>2, <1>3, <1>4, <1>5, <1>6, <1>7 DEF IInv

\* Every step of the process keeps the invariant.
LEMMA NextKeeps ==
  ASSUME IInv, [Next]_vars
  PROVE  IInv'
<1>1. ASSUME NEW k \in Callers,
             Refuse(k) \/ Browse(k) \/ AskCode(k) \/ Beat(k) \/ Clear(k) \/ GetPage(k)
      PROVE  IInv'
  BY <1>1, BrowseKeeps, AskCodeKeeps, BeatKeeps, GetPageKeeps
<1>2. ASSUME NEW t \in Handlers, Step(t) PROVE IInv'
  BY <1>2, StepKeeps
<1>3. CASE Change
  BY <1>3, ChangeKeeps
<1>4. CASE Sweeping \/ SweepError \/ Startup
  BY <1>4, SweepingKeeps
<1>5. CASE Stop
  BY <1>5, StopKeeps
<1>6. CASE Tick \/ UNCHANGED vars
  BY <1>6, TickKeeps
<1>7. QED
  BY <1>1, <1>2, <1>3, <1>4, <1>5, <1>6 DEF Next

\* The invariant holds throughout.
THEOREM WebInvariance == Spec => []IInv
<1>1. Init => IInv
  BY InitTrue
<1>2. IInv /\ [Next]_vars => IInv'
  BY NextKeeps
<1>3. QED
  BY <1>1, <1>2, PTL DEF Spec

\* Types; the limiter never keeps more than max_keys buckets, and a handler's job
\* is one it can have.
THEOREM WebTypes == Spec => []TypeOK
<1>1. IInv => TypeOK
  BY DEF IInv, PoolTrue, PoolTypes, TypeOK, Labels, Jobs
<1>2. QED
  BY <1>1, WebInvariance, PTL

\* Listings: however writers cross, a walk from page to page gives a row once, and
\* once more at most for each older stamp that landed on it after a younger; and when
\* it is over it has given every row once that was there all along and kept its place.
THEOREM WalksAreWhole == Spec => []PageWalk
<1>1. IInv => PageWalk
  BY DEF IInv, PagesTrue, PageWalk
<1>2. QED
  BY <1>1, WebInvariance, PTL

\* set_status: who was answered an expiry is listed until then, whatever is swept
\* meanwhile and whenever the process stops and starts.
THEOREM HeartbeatsLast == Spec => []HeartbeatKept
<1>1. IInv => HeartbeatKept
  BY PromisesListed DEF IInv
<1>2. QED
  BY <1>1, WebInvariance, PTL

\* RateLimiter.check: the rate is kept across refills, evictions and refusals, and
\* who waits as long as Retry-After says is let in.
THEOREM RatesHold == Spec => []RateKept
<1>1. IInv => RateKept
  BY RatesFollow DEF IInv, PoolTrue
<1>2. QED
  BY <1>1, WebInvariance, PTL

\* SlidingWindowRateLimiter.check: no host whose checks do not run into each other
\* is let through more than Limit times in a window, also across collections.
THEOREM WindowsHold == Spec => []WindowKept
<1>1. IInv => WindowKept
  BY WindowFollows DEF IInv
<1>2. QED
  BY <1>1, WebInvariance, PTL

=============================================================================
