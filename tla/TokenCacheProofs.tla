-------------------------- MODULE TokenCacheProofs --------------------------
(***************************************************************************)
(* Proofs about TokenCache, for any threads, bearers, rows, principals and *)
(* bounds: types and the bound of the cache, that a bearer opens only its  *)
(* own row, how stale an entry may be, that a revocation reaches the cache *)
(* whatever resolves are under way, and how far an eviction reaches.       *)
(***************************************************************************)
EXTENDS TokenCache, TLAPS, FiniteSetTheorems, WellFoundedInduction

-----------------------------------------------------------------------------
(* The inductive invariant.                                                *)

Holding == {"build", "touch", "put"}             \* a row has been found
Resolving == {"digest", "tokenId", "legacy"} \cup Holding
Built == {"touch", "put"}                         \* and its principal

\* Some revocation for p has yet to run its finally.
Revoker(p) == \E t \in Threads : pc[t] \in {"commit", "evict"} /\ job[t].who = p

\* Rows that were there stay; a digest is that of the row's own plaintext.
RowsTrue ==
    /\ Tokens \ Unminted \subseteq minted
    /\ \A k \in Tokens : digest[k] # NoToken => k \in minted /\ Opens[digest[k]] = k
    /\ \A x \in Tokens \cup Principals : changed[x] <= now

\* What a thread holds, by where it is.
JobTrue(t) ==
    /\ pc[t] \in Resolving \cup {"begin"} => job[t].key \in Bearers
    /\ pc[t] \in Resolving => job[t].generation <= seq /\ job[t].readAt <= now
    /\ pc[t] \in Holding => job[t].row \in minted /\ Opens[job[t].key] = job[t].row
    /\ pc[t] \in Built => job[t].who = Owner[job[t].row]
    /\ pc[t] \in {"commit", "evict"} => job[t].who \in Principals
    /\ pc[t] = "insert" => job[t].row \in Unminted

\* An entry is the owner's of the row its bearer opens, and not from the future.
EntriesTrue ==
    \A e \in entries :
        /\ Opens[e.key] \in minted /\ e.who = Owner[Opens[e.key]]
        /\ e.expires <= now + TTL /\ e.used <= uses

\* What was read of a row or of is_admin was read before it changed.
EntriesFresh ==
    \A e \in entries :
        /\ Opens[e.key] \in revoked => e.expires <= changed[Opens[e.key]] + TTL
        /\ e.admin # (e.who \in admin) => e.expires <= changed[e.who] + TTL
JobFresh(t) ==
    /\ pc[t] \in Holding /\ job[t].row \in revoked => job[t].readAt <= changed[job[t].row]
    /\ pc[t] \in Built /\ job[t].admin # (job[t].who \in admin) =>
         job[t].readAt <= changed[job[t].who]

\* A row that a resolve has found may still be served, or its revocation is
\* known not to reach the cache, or has yet to run its finally, or the
\* resolve's put will be dropped.
Excused(t, k) ==
    k \in elsewhere \/ Revoker(Owner[k]) \/ evictedAt[Owner[k]] > job[t].generation
JobOut(t) ==
    /\ pc[t] = "build" => job[t].row \notin revoked \/ Excused(t, job[t].row)
    /\ pc[t] \in Built => Live(job[t].row) \/ Excused(t, job[t].row)

\* What has been evicted since a resolve began is what its put goes by.
JobScoped(t) ==
    pc[t] \in Resolving =>
        /\ \A p \in Principals : evictedAt[p] > job[t].generation => p \in evicted[t]
        /\ clearedAt > job[t].generation => Principals \subseteq evicted[t]

ThreadTrue(t) == JobTrue(t) /\ JobFresh(t) /\ JobOut(t) /\ JobScoped(t)

IInv ==
    /\ TypeOK /\ RowsTrue
    /\ IsFiniteSet(entries) /\ EntriesTrue /\ EntriesFresh /\ RevokedStaysOut
    /\ \A t \in Threads : ThreadTrue(t)

-----------------------------------------------------------------------------
(* Types, by parts.                                                        *)

DbType ==
    /\ minted \subseteq Tokens
    /\ digest \in [Tokens -> Bearers \cup {NoToken}]
    /\ revoked \subseteq minted /\ elsewhere \subseteq minted
    /\ retired \subseteq Agents
    /\ pending \subseteq Tokens \cup Agents
    /\ admin \subseteq Principals \ Agents
    /\ changed \in [Tokens \cup Principals -> Nat]
CacheType ==
    /\ entries \subseteq Entries /\ Cardinality(entries) <= MaxEntries
    /\ \A e, f \in entries : e.key = f.key \/ e.used = f.used => e = f
    /\ uses \in Nat
    /\ seq \in Nat /\ clearedAt \in 0..seq
    /\ evictedAt \in [Principals -> 0..seq]
ThreadType ==
    /\ now \in Nat /\ calls \in Nat
    /\ pc \in [Threads -> Labels]
    /\ job \in [Threads -> Jobs]
    /\ evicted \in [Threads -> SUBSET Principals]

\* TypeOK is the conjunction of its three parts.
LEMMA TypeParts == TypeOK <=> DbType /\ CacheType /\ ThreadType
  BY DEF TypeOK, DbType, CacheType, ThreadType

\* A thread that has nothing to do has a job all the same.
LEMMA NoJobType == NoJob \in Jobs
  BY DEF NoJob, Jobs

\* Only one bearer opens a row that a bearer opens.
LEMMA OneBearer ==
  ASSUME NEW b \in Bearers, NEW c \in Bearers, Opens[b] = Opens[c], Opens[b] \in Tokens
  PROVE  b = c
  BY HashAssumption, RowAssumption

-----------------------------------------------------------------------------
(* The least recently used entry.                                          *)

\* A set of naturals that is not empty has a least element.
LEMMA LeastNatural ==
  ASSUME NEW T \in SUBSET Nat, T # {}
  PROVE  \E m \in T : \A n \in T : m <= n
<1>1. PICK m \in T : \A n \in T : ~(<<n, m>> \in OpToRel(<, Nat))
  BY NatLessThanWellFounded, WFMin
<1>2. ASSUME NEW n \in T PROVE m <= n
  <2>1. n \in Nat /\ m \in Nat
    OBVIOUS
  <2>2. n < m => <<n, m>> \in OpToRel(<, Nat)
    BY <2>1 DEF OpToRel
  <2>3. ~(n < m)
    BY <1>1, <2>2
  <2>4. QED
    BY <2>1, <2>3
<1>3. QED
  BY <1>2

\* Oldest is an entry that no other was used before.
LEMMA OldestEntry ==
  ASSUME NEW s \in SUBSET Entries, s # {}
  PROVE  Oldest(s) \in s /\ \A f \in s : Oldest(s).used <= f.used
<1>1. {e.used : e \in s} \in SUBSET Nat /\ {e.used : e \in s} # {}
  BY DEF Entries
<1>2. PICK m \in {e.used : e \in s} : \A n \in {e.used : e \in s} : m <= n
  BY <1>1, LeastNatural
<1>3. PICK e \in s : e.used = m
  BY <1>2
<1>4. \A f \in s : e.used <= f.used
  BY <1>2, <1>3
<1>5. QED
  BY <1>4 DEF Oldest

\* popitem drops at most one entry, and then the cache has its bound again.
LEMMA FitsBound ==
  ASSUME NEW s \in SUBSET Entries, IsFiniteSet(s), Cardinality(s) <= MaxEntries + 1
  PROVE  /\ Fits(s) \subseteq s /\ IsFiniteSet(Fits(s)) /\ Cardinality(Fits(s)) <= MaxEntries
<1>1. Cardinality(s) \in Nat /\ MaxEntries \in Nat \ {0}
  BY FS_CardinalityType, CacheAssumption
<1>2. CASE Cardinality(s) > MaxEntries
  <2>1. s # {}
    BY <1>1, <1>2, FS_EmptySet
  <2>2. Oldest(s) \in s
    BY <2>1, OldestEntry
  <2>3. Fits(s) = s \ {Oldest(s)}
    BY <1>2 DEF Fits
  <2>4. IsFiniteSet(Fits(s)) /\ Cardinality(Fits(s)) = Cardinality(s) - 1
    BY <2>2, <2>3, FS_RemoveElement
  <2>5. QED
    BY <1>1, <2>3, <2>4
<1>3. CASE ~(Cardinality(s) > MaxEntries)
  BY <1>1, <1>3 DEF Fits
<1>4. QED
  BY <1>2, <1>3

\* The entry of the last use stays.
LEMMA FitsKeepsNewest ==
  ASSUME NEW s \in SUBSET Entries, IsFiniteSet(s), NEW e \in s,
         \A f \in s \ {e} : f.used < e.used
  PROVE  e \in Fits(s)
<1>1. Cardinality(s) \in Nat /\ MaxEntries \in Nat \ {0}
  BY FS_CardinalityType, CacheAssumption
<1>2. CASE Cardinality(s) > MaxEntries
  <2>1. s # {e}
    BY <1>1, <1>2, FS_Singleton
  <2>2. PICK f \in s : f # e
    BY <2>1
  <2>3. f.used < e.used /\ f.used \in Nat /\ e.used \in Nat
    BY <2>2 DEF Entries
  <2>4. Oldest(s) # e
    <3>1. Oldest(s).used <= f.used
      BY OldestEntry
    <3>2. QED
      BY <2>3, <3>1
  <2>5. QED
    BY <1>2, <2>4 DEF Fits
<1>3. CASE ~(Cardinality(s) > MaxEntries)
  BY <1>3 DEF Fits
<1>4. QED
  BY <1>2, <1>3

\* What is left of the cache when entries are taken out of it has its types.
LEMMA FewerEntries ==
  ASSUME CacheType, IsFiniteSet(entries), NEW s \in SUBSET entries
  PROVE  /\ s \subseteq Entries /\ IsFiniteSet(s) /\ Cardinality(s) <= MaxEntries
         /\ \A e, f \in s : e.key = f.key \/ e.used = f.used => e = f
<1>1. IsFiniteSet(s) /\ Cardinality(s) <= Cardinality(entries)
  BY FS_Subset
<1>2. Cardinality(s) \in Nat /\ Cardinality(entries) \in Nat /\ MaxEntries \in Nat
  BY <1>1, FS_CardinalityType, CacheAssumption
<1>3. QED
  BY <1>1, <1>2 DEF CacheType

-----------------------------------------------------------------------------
(* What a step leaves true of the entries and of the threads that do not   *)
(* take it, when it revokes nothing, evicts nothing and makes no admin.    *)

Quiet ==
    /\ minted \subseteq minted' /\ revoked' \subseteq revoked /\ retired' \subseteq retired
    /\ elsewhere \subseteq elsewhere' /\ now' \in Nat /\ now <= now'
    /\ UNCHANGED <<admin, changed, seq, clearedAt, evictedAt>>

\* Only t moves, and it does not give a revocation up.
Moves(t) ==
    /\ \A u \in Threads \ {t} : pc'[u] = pc[u] /\ job'[u] = job[u] /\ evicted'[u] = evicted[u]
    /\ pc[t] \in {"commit", "evict"} => pc'[t] \in {"commit", "evict"} /\ job'[t] = job[t]

\* A revocation that has yet to run its finally still has.
LEMMA RevokersStay ==
  ASSUME NEW t, Moves(t), NEW p, Revoker(p)
  PROVE  Revoker(p)'
<1>1. PICK u \in Threads : pc[u] \in {"commit", "evict"} /\ job[u].who = p
  BY DEF Revoker
<1>2. pc'[u] \in {"commit", "evict"} /\ job'[u].who = p
  BY <1>1 DEF Moves
<1>3. QED
  BY <1>2 DEF Revoker

\* A thread that does not move holds what it held.
LEMMA ThreadStays ==
  ASSUME TypeOK, NEW u \in Threads, ThreadTrue(u), Quiet,
         pc'[u] = pc[u], job'[u] = job[u], evicted'[u] = evicted[u],
         \A p \in Principals : Revoker(p) => Revoker(p)'
  PROVE  ThreadTrue(u)'
<1>1. job[u] \in Jobs /\ now \in Nat
  BY TypeParts DEF ThreadType
<1>2. pc[u] \in Holding => job[u].row \in Tokens /\ Owner[job[u].row] \in Principals
  BY RowAssumption, TypeParts DEF ThreadTrue, JobTrue, DbType
<1>3. JobTrue(u)'
  BY <1>1 DEF ThreadTrue, JobTrue, Quiet, Holding, Resolving, Built, Jobs
<1>4. JobFresh(u)'
  BY DEF ThreadTrue, JobFresh, Quiet
<1>5. JobOut(u)'
  BY <1>2 DEF ThreadTrue, JobOut, Excused, Live, Quiet, Holding, Built
<1>6. JobScoped(u)'
  BY DEF ThreadTrue, JobScoped, Quiet
<1>7. QED
  BY <1>3, <1>4, <1>5, <1>6 DEF ThreadTrue

\* An entry that differs only in when it was used is as true as it was.
LEMMA EntriesStay ==
  ASSUME IInv, Quiet, uses' \in Nat,
         \A e \in entries' : e.used <= uses' /\ \E d \in entries :
             d.key = e.key /\ d.expires = e.expires /\ d.who = e.who /\ d.admin = e.admin,
         \A p \in Principals : Revoker(p) => Revoker(p)'
  PROVE  EntriesTrue' /\ EntriesFresh' /\ RevokedStaysOut'
<1>0. TypeOK /\ DbType /\ CacheType /\ ThreadType
  BY TypeParts DEF IInv
<1>1. SUFFICES ASSUME NEW e \in entries'
      PROVE  /\ Opens[e.key] \in minted' /\ e.who = Owner[Opens[e.key]]
             /\ e.expires <= now' + TTL /\ e.used <= uses'
             /\ Opens[e.key] \in revoked' => e.expires <= changed'[Opens[e.key]] + TTL
             /\ e.admin # (e.who \in admin') => e.expires <= changed'[e.who] + TTL
             /\ Live(Opens[e.key])' \/ Opens[e.key] \in elsewhere' \/ Revoker(Owner[Opens[e.key]])'
  BY DEF EntriesTrue, EntriesFresh, RevokedStaysOut, Revoker
<1>2. PICK d \in entries :
        d.key = e.key /\ d.expires = e.expires /\ d.who = e.who /\ d.admin = e.admin
  OBVIOUS
<1>3. Opens[d.key] \in minted /\ d.who = Owner[Opens[d.key]] /\ d.expires <= now + TTL
  BY DEF IInv, EntriesTrue
<1>4. Opens[d.key] \in Tokens /\ Owner[Opens[d.key]] \in Principals
  BY <1>0, <1>3, RowAssumption DEF DbType
<1>5. e.expires <= now' + TTL
  BY <1>0, <1>2, <1>3, CacheAssumption DEF Quiet, ThreadType, CacheType, Entries
<1>6. Opens[e.key] \in minted'
  BY <1>2, <1>3 DEF Quiet
<1>7. /\ Opens[e.key] \in revoked' => e.expires <= changed'[Opens[e.key]] + TTL
      /\ e.admin # (e.who \in admin') => e.expires <= changed'[e.who] + TTL
  BY <1>2 DEF IInv, EntriesFresh, Quiet
<1>8. Live(Opens[d.key]) \/ Opens[d.key] \in elsewhere \/ Revoker(Owner[Opens[d.key]])
  BY DEF IInv, RevokedStaysOut, Revoker
<1>9. Live(Opens[e.key])' \/ Opens[e.key] \in elsewhere' \/ Revoker(Owner[Opens[e.key]])'
  BY <1>2, <1>4, <1>8 DEF Live, Quiet
<1>10. QED
  BY <1>2, <1>3, <1>5, <1>6, <1>7, <1>9

\* A quiet step that leaves the entries alone keeps the invariant, if it keeps
\* what the threads that move hold.
LEMMA QuietKeeps ==
  ASSUME IInv, Quiet, UNCHANGED <<entries, uses>>, DbType', ThreadType', RowsTrue',
         \A p \in Principals : Revoker(p) => Revoker(p)',
         \A u \in Threads : \/ ThreadTrue(u)'
                            \/ pc'[u] = pc[u] /\ job'[u] = job[u] /\ evicted'[u] = evicted[u]
  PROVE  IInv'
<1>0. TypeOK /\ DbType /\ CacheType /\ ThreadType
  BY TypeParts DEF IInv
<1>1. \A u \in Threads : ThreadTrue(u)'
  BY <1>0, ThreadStays DEF IInv
<1>2. EntriesTrue' /\ EntriesFresh' /\ RevokedStaysOut'
  BY <1>0, EntriesStay DEF IInv, EntriesTrue, CacheType
<1>3. TypeOK'
  <2>1. CacheType'
    BY <1>0 DEF CacheType, Quiet
  <2>2. QED
    BY <2>1 DEF DbType, CacheType, ThreadType, TypeOK
<1>4. IsFiniteSet(entries)'
  BY DEF IInv
<1>5. QED
  BY <1>1, <1>2, <1>3, <1>4 DEF IInv

\* A step of t alone that touches neither rows nor entries keeps the invariant
\* when it keeps what t holds.
LEMMA ThreadMoves ==
  ASSUME IInv, NEW t \in Threads, Moves(t),
         UNCHANGED <<dbVars, cacheVars, now>>, ThreadType', ThreadTrue(t)'
  PROVE  IInv'
<1>0. TypeOK /\ DbType /\ CacheType /\ ThreadType
  BY TypeParts DEF IInv
<1>1. Quiet /\ UNCHANGED <<entries, uses>>
  BY <1>0 DEF Quiet, dbVars, cacheVars, ThreadType
<1>2. \A p \in Principals : Revoker(p) => Revoker(p)'
  BY RevokersStay
<1>3. DbType' /\ RowsTrue'
  BY <1>0 DEF DbType, dbVars, IInv, RowsTrue
<1>4. \A u \in Threads : \/ ThreadTrue(u)'
                         \/ pc'[u] = pc[u] /\ job'[u] = job[u] /\ evicted'[u] = evicted[u]
  BY DEF Moves
<1>5. QED
  BY <1>1, <1>2, <1>3, <1>4, QuietKeeps

-----------------------------------------------------------------------------
(* The steps of a resolve.                                                 *)

\* A path that misses goes on to the next, or the resolve ends.
LEMMA MissKeeps ==
  ASSUME IInv, NEW t \in Threads, NEW path \in {"none", "digest", "tokenId", "legacy"},
         pc[t] \in {"digest", "tokenId", "legacy", "build"}, Missed(t, path),
         UNCHANGED <<dbVars, cacheVars, now, calls, evicted>>
  PROVE  IInv'
<1>0. ThreadType /\ ThreadTrue(t)
  BY TypeParts DEF IInv
<1>1. /\ pc'[t] \in {"idle", "tokenId", "legacy"}
      /\ pc'[t] # "idle" => job'[t] = [job[t] EXCEPT !.path = path]
      /\ pc'[t] = "idle" => job'[t] = NoJob
      /\ ThreadType' /\ Moves(t)
  <2>1. CASE path = "legacy"
    BY <1>0, <2>1, NoJobType DEF Missed, Return, Goto, ThreadType, Moves, Labels
  <2>2. CASE path # "legacy"
    <3>1. job[t] \in Jobs /\ [job[t] EXCEPT !.path = path] \in Jobs
      BY <1>0 DEF ThreadType, Jobs
    <3>2. job' = [job EXCEPT ![t] = [job[t] EXCEPT !.path = path]]
      BY <1>0, <2>2 DEF Missed, ThreadType
    <3>3. \E l \in {"tokenId", "legacy"} : pc' = [pc EXCEPT ![t] = l]
      BY <2>2 DEF Missed, Goto
    <3>4. QED
      BY <1>0, <3>1, <3>2, <3>3 DEF ThreadType, Moves, Labels
  <2>3. QED
    BY <2>1, <2>2
<1>2. ThreadTrue(t)'
  <2>1. CASE pc'[t] = "idle"
    BY <2>1 DEF ThreadTrue, JobTrue, JobFresh, JobOut, JobScoped, Resolving, Holding, Built
  <2>2. CASE pc'[t] # "idle"
    <3>1. /\ job'[t].key = job[t].key /\ job'[t].generation = job[t].generation
          /\ job'[t].readAt = job[t].readAt
      BY <1>0, <1>1, <2>2 DEF ThreadType, Jobs
    <3>2. QED
      BY <1>0, <1>1, <3>1, <2>2 DEF ThreadTrue, JobTrue, JobFresh, JobOut, JobScoped,
         Resolving, Holding, Built, dbVars, cacheVars
  <2>3. QED
    BY <2>1, <2>2
<1>3. QED
  BY <1>1, <1>2, ThreadMoves DEF dbVars, cacheVars

\* A path finds a row that the bearer opens and that nothing is known against.
LEMMA FoundKeeps ==
  ASSUME IInv, NEW t \in Threads, NEW path \in {"digest", "tokenId", "legacy"},
         pc[t] \in {"digest", "tokenId", "legacy"}, NEW k \in minted, Found(t, k, path),
         k \notin revoked, Opens[job[t].key] = k,
         UNCHANGED <<dbVars, cacheVars, now, calls, evicted>>
  PROVE  IInv'
<1>0. ThreadType /\ ThreadTrue(t) /\ k \in Tokens
  BY TypeParts DEF IInv, DbType
<1>1. job' = [job EXCEPT ![t] = [job[t] EXCEPT !.row = k, !.path = path]]
  BY <1>0 DEF Found, ThreadType
<1>2. job[t] \in Jobs /\ [job[t] EXCEPT !.row = k, !.path = path] \in Jobs
  BY <1>0 DEF ThreadType, Jobs
<1>3. /\ pc'[t] = "build" /\ job'[t].row = k /\ job'[t].key = job[t].key
      /\ job'[t].generation = job[t].generation /\ job'[t].readAt = job[t].readAt
  BY <1>0, <1>1, <1>2 DEF Found, Goto, ThreadType, Jobs
<1>4. ThreadType' /\ Moves(t)
  BY <1>0, <1>1, <1>2 DEF Found, Goto, ThreadType, Moves, Labels
<1>5. ThreadTrue(t)'
  BY <1>0, <1>3 DEF ThreadTrue, JobTrue, JobFresh, JobOut, JobScoped, Resolving, Holding, Built,
     dbVars, cacheVars
<1>6. QED
  BY <1>4, <1>5, ThreadMoves DEF dbVars, cacheVars

\* The search by digest takes the row of the token the bearer opens.
LEMMA ByDigestKeeps ==
  ASSUME IInv, NEW t \in Threads, ResolveByDigest(t)
  PROVE  IInv'
<1>1. job[t].key \in Bearers /\ job[t].key # NoToken
  BY RowAssumption DEF IInv, ThreadTrue, JobTrue, ResolveByDigest, Resolving
<1>2. ASSUME NEW k \in Tokens, digest[k] = job[t].key, k \notin revoked, Found(t, k, "digest")
      PROVE  IInv'
  <2>1. k \in minted /\ Opens[job[t].key] = k
    BY <1>1, <1>2 DEF IInv, RowsTrue
  <2>2. QED
    BY <1>2, <2>1, FoundKeeps DEF ResolveByDigest
<1>3. CASE Missed(t, "digest")
  BY <1>3, MissKeeps DEF ResolveByDigest
<1>4. QED
  BY <1>2, <1>3 DEF ResolveByDigest

\* The search by id finds the row the bearer names and verifies it.
LEMMA ByTokenIdKeeps ==
  ASSUME IInv, NEW t \in Threads, ResolveByTokenId(t)
  PROVE  IInv'
<1>1. CASE Missed(t, "tokenId")
  BY <1>1, MissKeeps DEF ResolveByTokenId
<1>2. ASSUME NEW k, Live(k), Opens[job[t].key] = k, Found(t, k, "tokenId")
      PROVE  IInv'
  BY <1>2, FoundKeeps DEF ResolveByTokenId, Live
<1>3. QED
  BY <1>1, <1>2 DEF ResolveByTokenId

\* The scan of the rows that have no digest verifies the one it takes.
LEMMA ByLegacyKeeps ==
  ASSUME IInv, NEW t \in Threads, ResolveLegacy(t)
  PROVE  IInv'
<1>1. CASE Missed(t, "legacy")
  BY <1>1, MissKeeps DEF ResolveLegacy
<1>2. ASSUME NEW k, Live(k), Opens[job[t].key] = k, Found(t, k, "legacy")
      PROVE  IInv'
  BY <1>2, FoundKeeps DEF ResolveLegacy, Live
<1>3. QED
  BY <1>1, <1>2 DEF ResolveLegacy

\* begin() notes the sequence number and the time before any row is read.
LEMMA BeginKeeps ==
  ASSUME IInv, NEW t \in Threads, BeginResolve(t)
  PROVE  IInv'
<1>0. TypeOK /\ CacheType /\ ThreadType /\ ThreadTrue(t)
  BY TypeParts DEF IInv
<1>1. job' = [job EXCEPT ![t] = [job[t] EXCEPT !.generation = seq, !.readAt = now]]
  BY <1>0 DEF BeginResolve, ThreadType
<1>2. job[t] \in Jobs /\ [job[t] EXCEPT !.generation = seq, !.readAt = now] \in Jobs
  BY <1>0, ZenonT(90) DEF ThreadType, CacheType, Jobs
<1>3. /\ pc[t] = "begin" /\ pc'[t] = "digest" /\ job'[t].key = job[t].key
      /\ job'[t].generation = seq /\ job'[t].readAt = now
  BY <1>0, <1>1, <1>2 DEF BeginResolve, Goto, ThreadType, Jobs
<1>4. ThreadType' /\ Moves(t)
  BY <1>0, <1>1, <1>2 DEF BeginResolve, Goto, ThreadType, Moves, Labels
<1>5. ThreadTrue(t)'
  <2>1. UNCHANGED <<seq, clearedAt, evictedAt, now>>
    BY DEF BeginResolve, cacheVars
  <2>2. \A p \in Principals : ~(evictedAt[p] > seq)
    BY <1>0 DEF CacheType
  <2>3. ~(clearedAt > seq)
    BY <1>0 DEF CacheType
  <2>4. JobScoped(t)'
    BY <1>3, <2>1, <2>2, <2>3 DEF JobScoped
  <2>5. JobTrue(t)'
    BY <1>0, <1>3, <2>1 DEF ThreadTrue, JobTrue, Resolving, Holding, Built, CacheType, ThreadType
  <2>6. QED
    BY <1>3, <2>4, <2>5 DEF ThreadTrue, JobFresh, JobOut, Holding, Built
<1>6. QED
  BY <1>4, <1>5, ThreadMoves DEF BeginResolve

\* A principal is built from the rows as they are committed then.
LEMMA BuildKeeps ==
  ASSUME IInv, NEW t \in Threads, BuildPrincipal(t)
  PROVE  IInv'
<1>0. TypeOK /\ DbType /\ ThreadType /\ ThreadTrue(t) /\ job[t].row \in minted
      /\ job[t].row \in Tokens
  BY TypeParts DEF IInv, ThreadTrue, JobTrue, BuildPrincipal, Holding, DbType
<1> DEFINE p == Owner[job[t].row]
<1>1. p \in Principals
  BY <1>0, RowAssumption
<1>2. CASE p \in retired
  <2>1. job[t].path \in {"none", "digest", "tokenId", "legacy"}
    BY <1>0 DEF ThreadType, Jobs
  <2>2. Missed(t, job[t].path)
    BY <1>2 DEF BuildPrincipal
  <2>3. QED
    BY <2>1, <2>2, MissKeeps DEF BuildPrincipal
<1>3. CASE p \notin retired
  <2>1. job' = [job EXCEPT ![t] = [job[t] EXCEPT !.who = p, !.admin = (p \in admin)]]
    BY <1>0, <1>3 DEF BuildPrincipal, ThreadType
  <2>2. job[t] \in Jobs /\ [job[t] EXCEPT !.who = p, !.admin = (p \in admin)] \in Jobs
    <3>1. \A a \in BOOLEAN : [job[t] EXCEPT !.who = p, !.admin = a] \in Jobs
      BY <1>0, <1>1 DEF ThreadType, Jobs
    <3>2. (p \in admin) \in BOOLEAN
      OBVIOUS
    <3>3. job[t] \in Jobs
      BY <1>0 DEF ThreadType
    <3>4. QED
      BY <3>1, <3>2, <3>3, Zenon
  <2>3. /\ pc[t] = "build" /\ pc'[t] = "touch" /\ job'[t].key = job[t].key
        /\ job'[t].row = job[t].row /\ job'[t].who = p /\ job'[t].admin = (p \in admin)
        /\ job'[t].generation = job[t].generation /\ job'[t].readAt = job[t].readAt
    BY <1>0, <1>3, <2>1, <2>2 DEF BuildPrincipal, Goto, ThreadType, Jobs
  <2>4. ThreadType' /\ Moves(t)
    BY <1>0, <1>3, <2>1, <2>2 DEF BuildPrincipal, Goto, ThreadType, Moves, Labels
  <2>5. UNCHANGED <<dbVars, cacheVars, now>>
    BY DEF BuildPrincipal
  <2>6. ThreadTrue(t)'
    <3>1. JobTrue(t)' /\ JobScoped(t)'
      BY <1>0, <2>3, <2>5 DEF ThreadTrue, JobTrue, JobScoped, Resolving, Holding, Built,
         dbVars, cacheVars, BuildPrincipal
    <3>2. JobFresh(t)'
      <4>1. job'[t].admin = (job'[t].who \in admin')
        <5>1. admin' = admin
          BY <2>5 DEF dbVars
        <5>2. job'[t].who = p /\ job'[t].admin = (p \in admin)
          BY <2>3
        <5>3. QED
          BY <5>1, <5>2, Zenon
      <4>2. pc'[t] \in Holding /\ job'[t].row \in revoked' => job'[t].readAt <= changed'[job'[t].row]
        BY <1>0, <2>3, <2>5 DEF ThreadTrue, JobFresh, Holding, dbVars
      <4>3. QED
        BY <4>1, <4>2, Zenon DEF JobFresh
    <3>3. \A q \in Principals : Revoker(q) => Revoker(q)'
      BY <2>4, RevokersStay
    <3>4. JobOut(t)'
      BY <1>0, <1>1, <1>3, <2>3, <2>5, <3>3 DEF ThreadTrue, JobOut, Excused, Live, Built,
         dbVars, cacheVars
    <3>5. QED
      BY <3>1, <3>2, <3>4 DEF ThreadTrue
  <2>7. QED
    BY <2>4, <2>5, <2>6, ThreadMoves
<1>4. QED
  BY <1>2, <1>3

\* The backfill gives a row the digest of the one bearer that opens it.
LEMMA TouchKeeps ==
  ASSUME IInv, NEW t \in Threads, Touch(t)
  PROVE  IInv'
<1>0. TypeOK /\ DbType /\ ThreadType /\ ThreadTrue(t)
  BY TypeParts DEF IInv
<1>1. /\ job[t].row \in minted /\ Opens[job[t].key] = job[t].row /\ job[t].key \in Bearers
  BY <1>0 DEF ThreadTrue, JobTrue, Touch, Holding, Resolving
<1>2. ThreadType' /\ Moves(t) /\ pc[t] = "touch" /\ pc'[t] = "put"
  BY <1>0 DEF Touch, Goto, ThreadType, Moves, Labels
<1>3. Quiet /\ UNCHANGED <<entries, uses>>
  BY <1>0 DEF Touch, Quiet, cacheVars, ThreadType
<1>4. DbType' /\ RowsTrue'
  <2>1. CASE UNCHANGED <<digest, pending>>
    BY <1>0, <2>1 DEF Touch, DbType, IInv, RowsTrue
  <2>2. CASE /\ digest' = [digest EXCEPT ![job[t].row] = IF @ = NoToken THEN job[t].key ELSE @]
             /\ pending' = {}
    <3>1. DbType'
      BY <1>0, <1>1, <2>2 DEF Touch, DbType
    <3>2. RowsTrue'
      BY <1>0, <1>1, <2>2 DEF Touch, DbType, IInv, RowsTrue
    <3>3. QED
      BY <3>1, <3>2
  <2>3. QED
    BY <2>1, <2>2 DEF Touch
<1>5. \A q \in Principals : Revoker(q) => Revoker(q)'
  BY <1>2, RevokersStay
<1>6. ThreadTrue(t)'
  <2>1. JobTrue(t)' /\ JobScoped(t)' /\ JobFresh(t)'
    BY <1>0, <1>2 DEF Touch, ThreadTrue, JobTrue, JobScoped, JobFresh, Resolving, Holding, Built,
       cacheVars
  <2>2. Owner[job[t].row] \in Principals
    BY <1>0, <1>1, RowAssumption DEF DbType
  <2>3. JobOut(t)'
    BY <1>0, <1>2, <1>5, <2>2 DEF Touch, ThreadTrue, JobOut, Excused, Live, Built, cacheVars
  <2>4. QED
    BY <2>1, <2>3 DEF ThreadTrue
<1>7. QED
  BY <1>2, <1>3, <1>4, <1>5, <1>6, QuietKeeps DEF Moves
\* The other keys' entries and one of now: types, one entry for a key and for a
\* use, and at most one entry too many.
LEMMA WithNewest ==
  ASSUME IInv, NEW x \in Entries, x.used = uses + 1
  PROVE  LET s == Others(x.key) \cup {x} IN
         /\ s \subseteq Entries /\ IsFiniteSet(s) /\ Cardinality(s) <= MaxEntries + 1
         /\ Cardinality(s) <= Cardinality(Others(x.key)) + 1
         /\ \A e, f \in s : e.key = f.key \/ e.used = f.used => e = f
         /\ \A f \in s \ {x} : f.used < x.used
<1> DEFINE o == Others(x.key)
           s == o \cup {x}
<1>0. CacheType /\ IsFiniteSet(entries)
  BY TypeParts DEF IInv
<1>1. o \subseteq entries /\ \A e \in o : e.key # x.key
  BY DEF Others
<1>2. o \subseteq Entries /\ IsFiniteSet(o) /\ Cardinality(o) <= MaxEntries
  BY <1>0, <1>1, FewerEntries
<1>3. IsFiniteSet(s) /\ (Cardinality(s) = Cardinality(o) \/ Cardinality(s) = Cardinality(o) + 1)
  BY <1>2, FS_AddElement
<1>4. Cardinality(o) \in Nat /\ Cardinality(s) \in Nat /\ MaxEntries \in Nat
  BY <1>2, <1>3, FS_CardinalityType, CacheAssumption
<1>5. Cardinality(s) <= MaxEntries + 1 /\ Cardinality(s) <= Cardinality(o) + 1
  BY <1>2, <1>3, <1>4
<1>6. \A f \in o : f.used < x.used
  <2>1. \A f \in o : f.used <= uses /\ f.used \in Nat
    BY <1>1, <1>2 DEF IInv, EntriesTrue, Entries
  <2>2. uses \in Nat
    BY <1>0 DEF CacheType
  <2>3. QED
    BY <2>1, <2>2
<1>7. \A e, f \in s : e.key = f.key \/ e.used = f.used => e = f
  <2>1. \A f \in o : f.used # x.used
    <3>1. \A f \in o : f.used \in Nat
      BY <1>2 DEF Entries
    <3>2. QED
      BY <1>6, <3>1 DEF Entries
  <2>2. \A e, f \in o : e.key = f.key \/ e.used = f.used => e = f
    BY <1>0, <1>1 DEF CacheType
  <2>3. QED
    BY <1>1, <2>1, <2>2
<1>8. QED
  BY <1>2, <1>3, <1>5, <1>6, <1>7

\* A quiet step that lets entries go, or uses them, keeps the invariant, if it
\* keeps types, bound and what the threads that move hold.
LEMMA UseKeeps ==
  ASSUME IInv, Quiet, UNCHANGED dbVars, CacheType', ThreadType', IsFiniteSet(entries)',
         \A e \in entries' : e.used <= uses' /\ \E d \in entries :
             d.key = e.key /\ d.expires = e.expires /\ d.who = e.who /\ d.admin = e.admin,
         \A p \in Principals : Revoker(p) => Revoker(p)',
         \A u \in Threads : \/ ThreadTrue(u)'
                            \/ pc'[u] = pc[u] /\ job'[u] = job[u] /\ evicted'[u] = evicted[u]
  PROVE  IInv'
<1>0. TypeOK /\ DbType /\ CacheType /\ ThreadType
  BY TypeParts DEF IInv
<1>1. \A u \in Threads : ThreadTrue(u)'
  BY <1>0, ThreadStays DEF IInv
<1>2. EntriesTrue' /\ EntriesFresh' /\ RevokedStaysOut'
  BY EntriesStay DEF CacheType
<1>3. DbType' /\ RowsTrue'
  <2>1. DbType'
    BY <1>0 DEF DbType, dbVars
  <2>2. \A x \in Tokens \cup Principals : changed[x] <= now'
    BY <1>0 DEF DbType, ThreadType, Quiet, IInv, RowsTrue
  <2>3. QED
    BY <2>1, <2>2 DEF dbVars, IInv, RowsTrue
<1>4. TypeOK'
  BY <1>3 DEF DbType, CacheType, ThreadType, TypeOK
<1>5. QED
  BY <1>1, <1>2, <1>3, <1>4 DEF IInv

\* A hit only makes its entry the most recently used.
LEMMA LookupKeeps ==
  ASSUME IInv, NEW t \in Threads, Lookup(t)
  PROVE  IInv'
<1>0. TypeOK /\ DbType /\ CacheType /\ ThreadType /\ IsFiniteSet(entries)
  BY TypeParts DEF IInv
<1>1. PICK b \in Bearers :
        \/ /\ \E e \in Cached(b) :
                /\ now < e.expires
                /\ entries' = Others(b) \cup {[e EXCEPT !.used = uses + 1]}
           /\ uses' = uses + 1
           /\ UNCHANGED <<pc, job>>
        \/ /\ \A e \in Cached(b) : now >= e.expires
           /\ entries' = Others(b)
           /\ UNCHANGED uses
           /\ Goto(t, "begin")
           /\ job' = [job EXCEPT ![t].key = b]
  BY DEF Lookup
<1>2. pc[t] = "idle" /\ calls' = calls + 1 /\ UNCHANGED <<dbVars, seq, clearedAt, evictedAt, now, evicted>>
  BY DEF Lookup, Call
<1>3. Quiet
  BY <1>0, <1>2 DEF Quiet, dbVars, ThreadType
<1>4. ASSUME NEW e \in Cached(b), entries' = Others(b) \cup {[e EXCEPT !.used = uses + 1]},
             uses' = uses + 1, UNCHANGED <<pc, job>>
      PROVE  IInv'
  <2> DEFINE x == [e EXCEPT !.used = uses + 1]
  <2>1. e \in entries /\ e.key = b /\ e \in Entries /\ e \notin Others(b)
    BY <1>0 DEF Cached, Others, CacheType
  <2>2. /\ x \in Entries /\ x.key = b /\ x.used = uses + 1
        /\ x.expires = e.expires /\ x.who = e.who /\ x.admin = e.admin
    BY <1>0, <2>1 DEF CacheType, Entries
  <2>3. Others(b) = entries \ {e}
    BY <1>0, <2>1 DEF CacheType, Others
  <2>4. /\ entries' \subseteq Entries /\ IsFiniteSet(entries')
        /\ Cardinality(entries') <= Cardinality(Others(b)) + 1
        /\ \A f, g \in entries' : f.key = g.key \/ f.used = g.used => f = g
    <3>1. entries' = Others(x.key) \cup {x} /\ x \in Entries /\ x.used = uses + 1
      BY <1>4, <2>2
    <3> HIDE DEF x
    <3>2. QED
      BY <3>1, <2>2, WithNewest
  <2>5. Cardinality(entries') <= MaxEntries
    <3>1. IsFiniteSet(Others(b)) /\ Cardinality(Others(b)) = Cardinality(entries) - 1
      BY <1>0, <2>1, <2>3, FS_RemoveElement
    <3>2. /\ Cardinality(entries) \in Nat /\ Cardinality(entries') \in Nat
          /\ Cardinality(entries) <= MaxEntries /\ MaxEntries \in Nat
      BY <1>0, <2>4, FS_CardinalityType, CacheAssumption DEF CacheType
    <3>3. QED
      BY <2>4, <3>1, <3>2
  <2>6. CacheType'
    BY <1>0, <1>2, <1>4, <2>4, <2>5 DEF CacheType
  <2>7. ThreadType'
    BY <1>0, <1>2, <1>4 DEF ThreadType
  <2>8. \A f \in entries' : f.used <= uses' /\ \E d \in entries :
           d.key = f.key /\ d.expires = f.expires /\ d.who = f.who /\ d.admin = f.admin
    <3>1. \A f \in Others(b) : f.used <= uses + 1 /\ f \in entries
      BY <1>0 DEF Others, IInv, EntriesTrue, CacheType, Entries
    <3>2. x.used <= uses + 1
      BY <1>0, <2>2 DEF CacheType
    <3>3. QED
      BY <1>4, <2>1, <2>2, <3>1, <3>2
  <2>9. \A p \in Principals : Revoker(p) => Revoker(p)'
    BY <1>4 DEF Revoker
  <2>10. \A u \in Threads : pc'[u] = pc[u] /\ job'[u] = job[u] /\ evicted'[u] = evicted[u]
    BY <1>2, <1>4
  <2>11. QED
    BY <1>2, <1>3, <2>4, <2>6, <2>7, <2>8, <2>9, <2>10, UseKeeps
<1>5. ASSUME entries' = Others(b), UNCHANGED uses, Goto(t, "begin"),
             job' = [job EXCEPT ![t].key = b]
      PROVE  IInv'
  <2>1. entries' \subseteq entries
    BY <1>5 DEF Others
  <2>2. CacheType' /\ IsFiniteSet(entries')
    BY <1>0, <1>2, <1>5, <2>1, FewerEntries DEF CacheType
  <2>3. job[t] \in Jobs /\ [job[t] EXCEPT !.key = b] \in Jobs
    BY <1>0 DEF ThreadType, Jobs
  <2>4. job' = [job EXCEPT ![t] = [job[t] EXCEPT !.key = b]]
    BY <1>0, <1>5 DEF ThreadType
  <2>5. ThreadType' /\ Moves(t)
    BY <1>0, <1>2, <1>5, <2>3, <2>4 DEF ThreadType, Moves, Goto, Labels
  <2>6. pc'[t] = "begin" /\ job'[t].key \in Bearers
    BY <1>0, <1>5, <2>3, <2>4 DEF Goto, ThreadType, Jobs
  <2>7. ThreadTrue(t)'
    BY <2>6 DEF ThreadTrue, JobTrue, JobFresh, JobOut, JobScoped, Resolving, Holding, Built
  <2>8. \A f \in entries' : f.used <= uses' /\ \E d \in entries :
           d.key = f.key /\ d.expires = f.expires /\ d.who = f.who /\ d.admin = f.admin
    BY <1>5, <2>1 DEF IInv, EntriesTrue
  <2>9. \A p \in Principals : Revoker(p) => Revoker(p)'
    BY <2>5, RevokersStay
  <2>10. QED
    BY <1>2, <1>3, <2>2, <2>5, <2>7, <2>8, <2>9, UseKeeps DEF Moves
<1>6. QED
  BY <1>1, <1>4, <1>5
\* A thread that ends its call holds nothing.
LEMMA ReturnStep ==
  ASSUME IInv, NEW t \in Threads, Return(t), UNCHANGED evicted, calls' \in Nat, UNCHANGED now
  PROVE  /\ pc'[t] = "idle" /\ ThreadType' /\ ThreadTrue(t)'
         /\ pc[t] \notin {"commit", "evict"} => Moves(t)
<1>0. ThreadType
  BY TypeParts DEF IInv
<1>1. pc'[t] = "idle"
  BY <1>0 DEF Return, Goto, ThreadType
<1>2. ThreadType' /\ (pc[t] \notin {"commit", "evict"} => Moves(t))
  BY <1>0, NoJobType DEF Return, Goto, ThreadType, Moves, Labels
<1>3. ThreadTrue(t)'
  BY <1>1 DEF ThreadTrue, JobTrue, JobFresh, JobOut, JobScoped, Resolving, Holding, Built
<1>4. QED
  BY <1>1, <1>2, <1>3

\* What put stores, or has not to store any more, of what the resolve has read.
LEMMA PutKeeps ==
  ASSUME IInv, NEW t \in Threads, Put(t)
  PROVE  IInv'
<1>0. TypeOK /\ DbType /\ CacheType /\ ThreadType /\ ThreadTrue(t) /\ IsFiniteSet(entries)
  BY TypeParts DEF IInv
<1>1. /\ pc[t] = "put" /\ Return(t)
      /\ UNCHANGED <<dbVars, seq, clearedAt, evictedAt, now, calls, evicted>>
  BY DEF Put
<1>2. ThreadType' /\ ThreadTrue(t)' /\ Moves(t)
  BY <1>0, <1>1, ReturnStep DEF ThreadType
<1>3. CASE UNCHANGED <<entries, uses>>
  BY <1>1, <1>2, <1>3, ThreadMoves DEF cacheVars
<1>4. CASE /\ ~(clearedAt > job[t].generation \/ evictedAt[job[t].who] > job[t].generation)
           /\ Store(job[t], job[t].readAt + TTL)
  <2> DEFINE j == job[t]
             x == [key |-> j.key, expires |-> j.readAt + TTL, who |-> j.who,
                   admin |-> j.admin, used |-> uses + 1]
  <2>1. /\ j \in Jobs /\ j.key \in Bearers /\ j.row \in minted /\ j.row \in Tokens
        /\ Opens[j.key] = j.row /\ j.who = Owner[j.row] /\ j.who \in Principals
        /\ j.readAt \in Nat /\ j.readAt <= now
    <3>1. /\ j \in Jobs /\ j.key \in Bearers /\ j.row \in minted
          /\ Opens[j.key] = j.row /\ j.who = Owner[j.row] /\ j.readAt <= now
      BY <1>0, <1>1 DEF ThreadType, ThreadTrue, JobTrue, Resolving, Holding, Built
    <3>2. QED
      BY <1>0, <3>1, RowAssumption DEF DbType, Jobs
  <2>2. x \in Entries /\ x.used = uses + 1 /\ x.key = j.key
    BY <1>0, <2>1, CacheAssumption DEF CacheType, Entries, Jobs
  <2>3. entries' = Fits(Others(x.key) \cup {x}) /\ uses' = uses + 1
    BY <1>4 DEF Store
  <2>4. UNCHANGED <<minted, revoked, retired, elsewhere, admin, changed, now, seq, clearedAt, evictedAt>>
    BY <1>1 DEF dbVars
  <2>5. \A p \in Principals : Revoker(p) => Revoker(p)'
    BY <1>2, RevokersStay
  <2>6. /\ Opens[x.key] \in minted /\ x.who = Owner[Opens[x.key]]
        /\ x.expires <= now + TTL
        /\ Opens[x.key] \in revoked => x.expires <= changed[Opens[x.key]] + TTL
        /\ x.admin # (x.who \in admin) => x.expires <= changed[x.who] + TTL
        /\ Live(Opens[x.key]) \/ Opens[x.key] \in elsewhere \/ Revoker(Owner[Opens[x.key]])
    <3>1. Opens[x.key] \in minted /\ x.who = Owner[Opens[x.key]]
      BY <2>1
    <3>2. x.expires <= now + TTL
      BY <1>0, <2>1, CacheAssumption DEF ThreadType
    <3>3. Opens[x.key] \in revoked => x.expires <= changed[Opens[x.key]] + TTL
      <4>1. j.row \in revoked => j.readAt <= changed[j.row]
        BY <1>0, <1>1 DEF ThreadTrue, JobFresh, Holding
      <4>2. changed[j.row] \in Nat
        BY <1>0, <2>1 DEF DbType
      <4>3. QED
        BY <2>1, <4>1, <4>2, CacheAssumption
    <3>4. x.admin # (x.who \in admin) => x.expires <= changed[x.who] + TTL
      <4>1. j.admin # (j.who \in admin) => j.readAt <= changed[j.who]
        BY <1>0, <1>1, Zenon DEF ThreadTrue, JobFresh, Built
      <4>2. changed[j.who] \in Nat
        BY <1>0, <2>1 DEF DbType
      <4>3. j.readAt <= changed[j.who] => x.expires <= changed[x.who] + TTL
        BY <2>1, <4>2, CacheAssumption
      <4>4. x.admin = j.admin /\ x.who = j.who
        OBVIOUS
      <4>5. QED
        BY <4>1, <4>3, <4>4, Zenon
    <3>5. Live(Opens[x.key]) \/ Opens[x.key] \in elsewhere \/ Revoker(Owner[Opens[x.key]])
      BY <1>0, <1>1, <1>4, <2>1 DEF ThreadTrue, JobOut, Excused, Built
    <3>6. QED
      BY <3>1, <3>2, <3>3, <3>4, <3>5
  <2> HIDE DEF x
  <2>7. LET s == Others(x.key) \cup {x} IN
        /\ s \subseteq Entries /\ IsFiniteSet(s) /\ Cardinality(s) <= MaxEntries + 1
        /\ \A e, f \in s : e.key = f.key \/ e.used = f.used => e = f
    BY <2>2, WithNewest
  <2>8. /\ entries' \subseteq Others(x.key) \cup {x}
        /\ IsFiniteSet(entries') /\ Cardinality(entries') <= MaxEntries
    BY <2>3, <2>7, FitsBound
  <2>9. CacheType'
    <3>1. entries' \subseteq Entries /\ \A e, f \in entries' : e.key = f.key \/ e.used = f.used => e = f
      BY <2>7, <2>8
    <3>2. uses' \in Nat
      BY <1>0, <2>3 DEF CacheType
    <3>3. seq' \in Nat /\ clearedAt' \in 0..seq' /\ evictedAt' \in [Principals -> 0..seq']
      BY <1>0, <2>4 DEF CacheType
    <3>4. QED
      BY <2>8, <3>1, <3>2, <3>3, Zenon DEF CacheType
  <2>10. DbType' /\ RowsTrue'
    BY <1>0, <1>1 DEF DbType, dbVars, IInv, RowsTrue
  <2>11. TypeOK'
    BY <1>2, <2>9, <2>10 DEF DbType, CacheType, ThreadType, TypeOK
  <2>12. ASSUME NEW e \in entries'
         PROVE  /\ Opens[e.key] \in minted /\ e.who = Owner[Opens[e.key]]
                /\ e.expires <= now + TTL /\ e.used <= uses + 1
                /\ Opens[e.key] \in revoked => e.expires <= changed[Opens[e.key]] + TTL
                /\ e.admin # (e.who \in admin) => e.expires <= changed[e.who] + TTL
                /\ Live(Opens[e.key]) \/ Opens[e.key] \in elsewhere \/ Revoker(Owner[Opens[e.key]])
    <3>1. CASE e \in entries
      <4>1. e.used <= uses + 1
        BY <1>0, <3>1 DEF CacheType, Entries, IInv, EntriesTrue
      <4>2. QED
        BY <3>1, <4>1, Zenon DEF IInv, EntriesTrue, EntriesFresh, RevokedStaysOut, Revoker
    <3>2. CASE e = x
      <4>1. e.used <= uses + 1
        BY <1>0, <2>2, <3>2 DEF CacheType
      <4>2. QED
        BY <2>6, <3>2, <4>1, Zenon
    <3>3. QED
      BY <2>8, <3>1, <3>2 DEF Others
  <2>13. EntriesTrue' /\ EntriesFresh' /\ RevokedStaysOut'
    <3>1. EntriesTrue'
      BY <2>3, <2>4, <2>12 DEF EntriesTrue
    <3>2. EntriesFresh'
      BY <2>4, <2>12 DEF EntriesFresh
    <3>3. ASSUME NEW e \in entries'
          PROVE  Live(Opens[e.key])' \/ Opens[e.key] \in elsewhere' \/ Revoker(Owner[Opens[e.key]])'
      <4>1. Opens[e.key] \in Tokens /\ Owner[Opens[e.key]] \in Principals
        BY <1>0, <2>12, RowAssumption DEF DbType
      <4>2. QED
        BY <2>4, <2>5, <2>12, <4>1 DEF Live
    <3>4. RevokedStaysOut'
      BY <3>3 DEF RevokedStaysOut, Revoker
    <3>5. QED
      BY <3>1, <3>2, <3>4
  <2>14. \A u \in Threads : ThreadTrue(u)'
    <3>1. Quiet
      BY <1>0, <2>4 DEF Quiet, ThreadType
    <3>2. ASSUME NEW u \in Threads \ {t} PROVE ThreadTrue(u)'
      BY <1>0, <1>2, <2>5, <3>1, ThreadStays DEF IInv, Moves
    <3>3. QED
      BY <1>2, <3>2
  <2>15. QED
    BY <2>8, <2>10, <2>11, <2>13, <2>14 DEF IInv
<1>5. QED
  BY <1>3, <1>4 DEF Put
-----------------------------------------------------------------------------
(* Revocations, and the other changes a cached entry may lag behind.       *)

\* Rows and principals only become revoked or admins, each at the time noted,
\* and a revocation is another process's or has yet to run its finally.
Changing ==
    /\ UNCHANGED <<minted, digest, cacheVars, now>>
    /\ elsewhere \subseteq elsewhere'
    /\ \A x \in Tokens \cup Principals : changed'[x] \in {changed[x], now}
    /\ \A k \in revoked' \ revoked :
         changed'[k] = now /\ (k \in elsewhere' \/ Revoker(Owner[k])')
    /\ \A p \in retired' \ retired : Revoker(p)'
    /\ \A p \in Principals : changed'[p] = now \/ (p \in admin') = (p \in admin)

\* A revocation, of whatever kind, keeps the invariant if its eviction is still to
\* come, or it was made by another process.
LEMMA ChangeKeeps ==
  ASSUME IInv, Changing, DbType', ThreadType',
         \A p \in Principals : Revoker(p) => Revoker(p)',
         \A u \in Threads : \/ ThreadTrue(u)'
                            \/ pc'[u] = pc[u] /\ job'[u] = job[u] /\ evicted'[u] = evicted[u]
  PROVE  IInv'
<1>0. TypeOK /\ DbType /\ CacheType /\ ThreadType /\ IsFiniteSet(entries)
  BY TypeParts DEF IInv
<1>1. UNCHANGED <<minted, digest, entries, uses, seq, clearedAt, evictedAt, now>>
  BY DEF Changing, cacheVars
<1>2. \A x \in Tokens \cup Principals :
        changed[x] \in Nat /\ changed'[x] \in Nat /\ changed[x] <= changed'[x] /\ changed'[x] <= now
  <2>1. \A x \in Tokens \cup Principals : changed[x] \in Nat /\ changed[x] <= now /\ now \in Nat
    BY <1>0 DEF IInv, RowsTrue, DbType, ThreadType
  <2>2. QED
    BY <2>1 DEF Changing
<1>3. \A k \in Tokens : Owner[k] \in Principals
  BY RowAssumption
<1>4. TypeOK'
  <2>1. CacheType'
    BY <1>0, <1>1 DEF CacheType
  <2>2. QED
    BY <2>1 DEF DbType, CacheType, ThreadType, TypeOK
<1>5. RowsTrue'
  BY <1>1, <1>2 DEF IInv, RowsTrue
<1>6. ASSUME NEW k \in minted, Live(k) \/ k \in elsewhere \/ Revoker(Owner[k])
      PROVE  Live(k)' \/ k \in elsewhere' \/ Revoker(Owner[k])'
  <2>1. Owner[k] \in Principals
    BY <1>0, <1>3 DEF DbType
  <2>2. CASE Live(k)
    BY <1>1, <2>2 DEF Live, Changing
  <2>3. CASE k \in elsewhere \/ Revoker(Owner[k])
    BY <2>1, <2>3 DEF Changing
  <2>4. QED
    BY <1>6, <2>2, <2>3
<1>7. EntriesTrue' /\ EntriesFresh' /\ RevokedStaysOut'
  <2>1. EntriesTrue'
    BY <1>1 DEF IInv, EntriesTrue
  <2>2. ASSUME NEW e \in entries
        PROVE  /\ Opens[e.key] \in revoked' => e.expires <= changed'[Opens[e.key]] + TTL
               /\ e.admin # (e.who \in admin') => e.expires <= changed'[e.who] + TTL
    <3> DEFINE k == Opens[e.key]
    <3>1. k \in Tokens /\ e.who \in Principals /\ e.expires \in Nat /\ e.expires <= now + TTL
      BY <1>0, RowAssumption DEF IInv, EntriesTrue, CacheType, Entries, DbType
    <3>2. changed[k] <= changed'[k] /\ changed[k] \in Nat /\ changed'[k] \in Nat
      BY <1>2, <3>1
    <3>3. changed[e.who] <= changed'[e.who] /\ changed[e.who] \in Nat /\ changed'[e.who] \in Nat
      BY <1>2, <3>1
    <3>4. k \in revoked' => e.expires <= changed'[k] + TTL
      <4>1. k \in revoked => e.expires <= changed[k] + TTL
        BY DEF IInv, EntriesFresh
      <4>2. k \in revoked' \ revoked => changed'[k] = now
        BY DEF Changing
      <4>3. QED
        BY <3>1, <3>2, <4>1, <4>2, CacheAssumption
    <3>5. CASE changed'[e.who] = now
      BY <3>1, <3>4, <3>5
    <3>6. CASE (e.who \in admin') = (e.who \in admin)
      <4>1. e.admin # (e.who \in admin) => e.expires <= changed[e.who] + TTL
        BY Zenon DEF IInv, EntriesFresh
      <4>2. e.expires <= changed[e.who] + TTL => e.expires <= changed'[e.who] + TTL
        BY <3>1, <3>3, CacheAssumption
      <4>3. QED
        BY <3>4, <3>6, <4>1, <4>2, Zenon
    <3>7. QED
      BY <3>1, <3>5, <3>6, Zenon DEF Changing
  <2>3. EntriesFresh'
    BY <1>1, <2>2, Zenon DEF EntriesFresh
  <2>4. ASSUME NEW e \in entries
        PROVE  Live(Opens[e.key])' \/ Opens[e.key] \in elsewhere' \/ Revoker(Owner[Opens[e.key]])'
    <3>1. Opens[e.key] \in minted
      BY DEF IInv, EntriesTrue
    <3>2. Live(Opens[e.key]) \/ Opens[e.key] \in elsewhere \/ Revoker(Owner[Opens[e.key]])
      BY DEF IInv, RevokedStaysOut, Revoker
    <3>3. QED
      BY <1>6, <3>1, <3>2
  <2>5. RevokedStaysOut'
    BY <1>1, <2>4 DEF RevokedStaysOut, Revoker
  <2>6. QED
    BY <2>1, <2>3, <2>5
<1>8. ASSUME NEW u \in Threads, pc'[u] = pc[u], job'[u] = job[u], evicted'[u] = evicted[u]
      PROVE  ThreadTrue(u)'
  <2>1. ThreadTrue(u) /\ job[u] \in Jobs
    BY <1>0 DEF IInv, ThreadType
  <2>2. JobTrue(u)' /\ JobScoped(u)'
    BY <1>1, <1>8, <2>1 DEF ThreadTrue, JobTrue, JobScoped
  <2>3. JobOut(u)'
    <3>1. CASE pc[u] = "build"
      <4> DEFINE k == job[u].row
      <4>1. k \in minted /\ k \in Tokens /\ Owner[k] \in Principals
        BY <1>0, <1>3, <2>1, <3>1 DEF ThreadTrue, JobTrue, Holding, DbType
      <4>2. k \notin revoked \/ Excused(u, k)
        BY <2>1, <3>1 DEF ThreadTrue, JobOut
      <4>3. k \notin revoked' \/ Excused(u, k)'
        BY <1>1, <1>8, <4>1, <4>2 DEF Excused, Changing
      <4>4. QED
        BY <1>8, <3>1, <4>3 DEF JobOut, Built
    <3>2. CASE pc[u] \in Built
      <4> DEFINE k == job[u].row
      <4>1. k \in minted
        BY <2>1, <3>2 DEF ThreadTrue, JobTrue, Holding, Built
      <4>2. Live(k) \/ Excused(u, k)
        BY <2>1, <3>2 DEF ThreadTrue, JobOut
      <4>3. Live(k)' \/ Excused(u, k)'
        <5>1. CASE Live(k) \/ k \in elsewhere \/ Revoker(Owner[k])
          BY <1>6, <1>8, <4>1, <5>1 DEF Excused
        <5>2. CASE evictedAt[Owner[k]] > job[u].generation
          BY <1>1, <1>8, <5>2 DEF Excused
        <5>3. QED
          BY <4>2, <5>1, <5>2 DEF Excused
      <4>4. QED
        BY <1>8, <3>2, <4>3 DEF JobOut, Built
    <3>3. QED
      BY <1>8, <3>1, <3>2 DEF JobOut
  <2>4. JobFresh(u)'
    <3>1. ASSUME pc[u] \in Holding, job[u].row \in revoked'
          PROVE  job[u].readAt <= changed'[job[u].row]
      <4>1. /\ job[u].row \in Tokens /\ job[u].readAt \in Nat /\ job[u].readAt <= now
        BY <1>0, <2>1, <3>1 DEF ThreadTrue, JobTrue, Resolving, Holding, DbType, Jobs
      <4>2. job[u].row \in revoked => job[u].readAt <= changed[job[u].row]
        BY <2>1, <3>1 DEF ThreadTrue, JobFresh
      <4>3. job[u].row \in revoked' \ revoked => changed'[job[u].row] = now
        BY DEF Changing
      <4>4. changed[job[u].row] <= changed'[job[u].row] /\ changed[job[u].row] \in Nat
            /\ changed'[job[u].row] \in Nat
        BY <1>2, <4>1
      <4>5. QED
        BY <3>1, <4>1, <4>2, <4>3, <4>4
    <3>2. ASSUME pc[u] \in Built, job[u].admin # (job[u].who \in admin')
          PROVE  job[u].readAt <= changed'[job[u].who]
      <4>1. /\ job[u].who \in Principals /\ job[u].readAt \in Nat /\ job[u].readAt <= now
        BY <1>0, <1>3, <2>1, <3>2 DEF ThreadTrue, JobTrue, Resolving, Holding, Built, DbType, Jobs
      <4>2. CASE changed'[job[u].who] = now
        BY <4>1, <4>2
      <4>3. CASE (job[u].who \in admin') = (job[u].who \in admin)
        <5>1. job[u].admin # (job[u].who \in admin)
          BY <3>2, <4>3, Zenon
        <5>2. job[u].readAt <= changed[job[u].who]
          BY <2>1, <3>2, <5>1, Zenon DEF ThreadTrue, JobFresh
        <5>3. changed[job[u].who] <= changed'[job[u].who] /\ changed[job[u].who] \in Nat
              /\ changed'[job[u].who] \in Nat
          BY <1>2, <4>1
        <5>4. QED
          BY <4>1, <5>2, <5>3
      <4>4. QED
        BY <4>1, <4>2, <4>3, Zenon DEF Changing
    <3>3. QED
      BY <1>8, <3>1, <3>2, Zenon DEF JobFresh
  <2>5. QED
    BY <2>2, <2>3, <2>4 DEF ThreadTrue
<1>9. QED
  BY <1>0, <1>1, <1>4, <1>5, <1>7, <1>8 DEF IInv
\* Where a handler is once its UPDATE has returned or raised.
LEMMA RevokerStep ==
  ASSUME ThreadType, NEW t \in Threads, pc[t] = "idle", NEW p \in Principals,
         UNCHANGED <<now, evicted>>, calls' \in Nat,
         \/ \E x \in Tokens \cup Agents : Revoking(t, p, x)
         \/ Goto(t, "evict") /\ job' = [job EXCEPT ![t].who = p]
  PROVE  ThreadType' /\ Moves(t) /\ ThreadTrue(t)' /\ Revoker(p)'
<1>1. job[t] \in Jobs
  BY DEF ThreadType
<1>2. PICK j \in Jobs : job' = [job EXCEPT ![t] = j] /\ j.who = p
  <2>1. CASE \E x \in Tokens \cup Agents : Revoking(t, p, x)
    <3>1. PICK x \in Tokens \cup Agents : job' = [job EXCEPT ![t].who = p, ![t].row = x]
      BY <2>1 DEF Revoking
    <3>2. job' = [job EXCEPT ![t] = [job[t] EXCEPT !.who = p, !.row = x]]
      BY <3>1 DEF ThreadType
    <3>3. [job[t] EXCEPT !.who = p, !.row = x] \in Jobs /\ [job[t] EXCEPT !.who = p, !.row = x].who = p
      BY <1>1 DEF Jobs
    <3>4. QED
      BY <3>2, <3>3
  <2>2. CASE job' = [job EXCEPT ![t].who = p]
    <3>1. job' = [job EXCEPT ![t] = [job[t] EXCEPT !.who = p]]
      BY <2>2 DEF ThreadType
    <3>2. [job[t] EXCEPT !.who = p] \in Jobs /\ [job[t] EXCEPT !.who = p].who = p
      BY <1>1 DEF Jobs
    <3>3. QED
      BY <3>1, <3>2
  <2>3. QED
    BY <2>1, <2>2
<1>3. PICK l \in {"commit", "evict"} : pc' = [pc EXCEPT ![t] = l]
  BY DEF Revoking, Goto
<1>4. pc'[t] \in {"commit", "evict"} /\ job'[t].who = p
  BY <1>2, <1>3 DEF ThreadType
<1>5. ThreadType' /\ Moves(t)
  BY <1>2, <1>3 DEF ThreadType, Moves, Labels
<1>6. ThreadTrue(t)'
  BY <1>4 DEF ThreadTrue, JobTrue, JobFresh, JobOut, JobScoped, Resolving, Holding, Built
<1>7. QED
  BY <1>4, <1>5, <1>6 DEF Revoker

\* revoke_token changes one row and goes on to evict its principal.
LEMMA RevokeTokenKeeps ==
  ASSUME IInv, NEW t \in Threads, RevokeToken(t)
  PROVE  IInv'
<1>0. TypeOK /\ DbType /\ CacheType /\ ThreadType
  BY TypeParts DEF IInv
<1>1. /\ pc[t] = "idle" /\ calls' = calls + 1 /\ UNCHANGED <<cacheVars, now, evicted>>
  BY DEF RevokeToken, Call
<1>2. calls' \in Nat
  BY <1>0, <1>1 DEF ThreadType
<1>3. PICK p \in Principals, k \in Tokens :
        \/ /\ Revoking(t, p, k)
           /\ IF Owner[k] = p /\ k \in minted \ revoked
              THEN /\ revoked' = revoked \cup {k}
                   /\ pending' = pending \cup {k}
                   /\ changed' = [changed EXCEPT ![k] = now]
              ELSE UNCHANGED <<revoked, pending, changed>>
           /\ UNCHANGED <<minted, digest, retired, admin, elsewhere>>
        \/ UpdateRaises(t, p)
  BY DEF RevokeToken
<1>4. ThreadType' /\ Moves(t) /\ ThreadTrue(t)' /\ Revoker(p)'
  BY <1>0, <1>1, <1>2, <1>3, RevokerStep DEF UpdateRaises
<1>5. CASE UNCHANGED dbVars
  BY <1>1, <1>4, <1>5, ThreadMoves
<1>6. CASE /\ Owner[k] = p /\ k \in minted /\ revoked' = revoked \cup {k}
           /\ pending' = pending \cup {k} /\ changed' = [changed EXCEPT ![k] = now]
           /\ UNCHANGED <<minted, digest, retired, admin, elsewhere>>
  <2>1. DbType'
    BY <1>0, <1>6 DEF DbType, ThreadType
  <2>2. Changing
    BY <1>0, <1>1, <1>4, <1>6 DEF Changing, DbType
  <2>3. \A q \in Principals : Revoker(q) => Revoker(q)'
    BY <1>4, RevokersStay
  <2>4. QED
    BY <1>4, <2>1, <2>2, <2>3, ChangeKeeps DEF Moves
<1>7. QED
  BY <1>3, <1>5, <1>6 DEF UpdateRaises, dbVars

\* revoke_agent changes the agent and its rows and goes on to evict it.
LEMMA RevokeAgentKeeps ==
  ASSUME IInv, NEW t \in Threads, RevokeAgent(t)
  PROVE  IInv'
<1>0. TypeOK /\ DbType /\ CacheType /\ ThreadType
  BY TypeParts DEF IInv
<1>1. /\ pc[t] = "idle" /\ calls' = calls + 1 /\ UNCHANGED <<cacheVars, now, evicted>>
  BY DEF RevokeAgent, Call
<1>2. calls' \in Nat
  BY <1>0, <1>1 DEF ThreadType
<1>3. PICK p \in Agents :
        \/ /\ Revoking(t, p, p)
           /\ IF p \in retired THEN UNCHANGED <<retired, pending, changed>>
              ELSE /\ retired' = retired \cup {p}
                   /\ pending' = pending \cup {p}
                   /\ changed' = [changed EXCEPT ![p] = now]
           /\ UNCHANGED <<minted, digest, revoked, admin, elsewhere>>
        \/ UpdateRaises(t, p)
  BY DEF RevokeAgent
<1>4. p \in Principals
  BY RowAssumption
<1>5. ThreadType' /\ Moves(t) /\ ThreadTrue(t)' /\ Revoker(p)'
  BY <1>0, <1>1, <1>2, <1>3, <1>4, RevokerStep DEF UpdateRaises
<1>6. CASE UNCHANGED dbVars
  BY <1>1, <1>5, <1>6, ThreadMoves
<1>7. CASE /\ retired' = retired \cup {p}
           /\ pending' = pending \cup {p} /\ changed' = [changed EXCEPT ![p] = now]
           /\ UNCHANGED <<minted, digest, revoked, admin, elsewhere>>
  <2>1. DbType'
    BY <1>0, <1>4, <1>7 DEF DbType, ThreadType
  <2>2. Changing
    BY <1>0, <1>1, <1>5, <1>7 DEF Changing, DbType
  <2>3. \A q \in Principals : Revoker(q) => Revoker(q)'
    BY <1>5, RevokersStay
  <2>4. QED
    BY <1>5, <2>1, <2>2, <2>3, ChangeKeeps DEF Moves
<1>8. QED
  BY <1>3, <1>6, <1>7 DEF UpdateRaises, dbVars

\* Another process revokes, and evicts nothing from this one's cache.
LEMMA ElsewhereKeeps ==
  ASSUME IInv, RevokeElsewhere
  PROVE  IInv'
<1>0. TypeOK /\ DbType /\ ThreadType
  BY TypeParts DEF IInv
<1>1. PICK k \in minted \ revoked :
        /\ revoked' = revoked \cup {k} /\ elsewhere' = elsewhere \cup {k}
        /\ changed' = [changed EXCEPT ![k] = now]
        /\ UNCHANGED <<minted, digest, retired, pending, admin, cacheVars, now, pc, job, calls, evicted>>
  BY DEF RevokeElsewhere
<1>2. DbType' /\ ThreadType'
  BY <1>0, <1>1 DEF DbType, ThreadType
<1>3. Changing
  BY <1>0, <1>1 DEF Changing, DbType
<1>4. \A q \in Principals : Revoker(q) => Revoker(q)'
  BY <1>1 DEF Revoker
<1>5. QED
  BY <1>1, <1>2, <1>3, <1>4, ChangeKeeps

\* The script makes an administrator in the database, and in no entry.
LEMMA MakeAdminKeeps ==
  ASSUME IInv, MakeAdmin
  PROVE  IInv'
<1>0. TypeOK /\ DbType /\ ThreadType
  BY TypeParts DEF IInv
<1>1. PICK p \in Principals \ Agents :
        /\ admin' = admin \cup {p} /\ changed' = [changed EXCEPT ![p] = now]
        /\ UNCHANGED <<minted, digest, revoked, retired, pending, elsewhere, cacheVars, now, pc, job,
                       calls, evicted>>
  BY DEF MakeAdmin
<1>2. DbType' /\ ThreadType'
  BY <1>0, <1>1 DEF DbType, ThreadType
<1>3. Changing
  <2>1. \A q \in Principals : changed'[q] = now \/ (q \in admin') = (q \in admin)
    BY <1>0, <1>1 DEF DbType
  <2>2. QED
    BY <1>0, <1>1, <2>1 DEF Changing, DbType
<1>4. \A q \in Principals : Revoker(q) => Revoker(q)'
  BY <1>1 DEF Revoker
<1>5. QED
  BY <1>1, <1>2, <1>3, <1>4, ChangeKeeps

\* A commit that succeeds or raises: the finally is still to run.
LEMMA CommitKeeps ==
  ASSUME IInv, NEW t \in Threads, CommitRevoke(t)
  PROVE  IInv'
<1>0. TypeOK /\ DbType /\ CacheType /\ ThreadType /\ ThreadTrue(t)
  BY TypeParts DEF IInv
<1>1. /\ pc[t] = "commit" /\ Goto(t, "evict") /\ pending' \subseteq pending
      /\ UNCHANGED <<minted, digest, revoked, retired, admin, elsewhere, changed, cacheVars, now,
                     job, calls, evicted>>
  BY DEF CommitRevoke
<1>2. ThreadType' /\ Moves(t) /\ pc'[t] = "evict"
  BY <1>0, <1>1 DEF Goto, ThreadType, Moves, Labels
<1>3. DbType' /\ RowsTrue'
  BY <1>0, <1>1 DEF DbType, IInv, RowsTrue
<1>4. Quiet /\ UNCHANGED <<entries, uses>>
  BY <1>0, <1>1 DEF Quiet, cacheVars, ThreadType
<1>5. ThreadTrue(t)'
  BY <1>0, <1>1, <1>2 DEF ThreadTrue, JobTrue, JobFresh, JobOut, JobScoped, Resolving, Holding, Built
<1>6. \A q \in Principals : Revoker(q) => Revoker(q)'
  BY <1>2, RevokersStay
<1>7. QED
  BY <1>2, <1>3, <1>4, <1>5, <1>6, QuietKeeps DEF Moves

\* Another handler's rollback takes back a revocation that was not committed.
LEMMA RollbackKeeps ==
  ASSUME IInv, RollbackByOther
  PROVE  IInv'
<1>0. TypeOK /\ DbType /\ ThreadType
  BY TypeParts DEF IInv
<1>1. /\ revoked' = revoked \ pending /\ retired' = retired \ pending /\ pending' = {}
      /\ UNCHANGED <<minted, digest, admin, elsewhere, changed, cacheVars, now, pc, job, calls, evicted>>
  BY DEF RollbackByOther
<1>2. DbType' /\ RowsTrue' /\ ThreadType'
  BY <1>0, <1>1 DEF DbType, IInv, RowsTrue, ThreadType
<1>3. Quiet /\ UNCHANGED <<entries, uses>>
  BY <1>0, <1>1 DEF Quiet, cacheVars, ThreadType
<1>4. \A q \in Principals : Revoker(q) => Revoker(q)'
  BY <1>1 DEF Revoker
<1>5. QED
  BY <1>1, <1>2, <1>3, <1>4, QuietKeeps

\* Time passes, and entries come nearer to their expiry.
LEMMA TickKeeps ==
  ASSUME IInv, Tick
  PROVE  IInv'
<1>0. TypeOK /\ DbType /\ ThreadType
  BY TypeParts DEF IInv
<1>1. /\ now' = now + 1 /\ UNCHANGED <<dbVars, cacheVars, pc, job, calls, evicted>>
  BY DEF Tick
<1>2. now \in Nat /\ now' \in Nat /\ now <= now'
  BY <1>0, <1>1 DEF ThreadType
<1>3. Quiet /\ UNCHANGED <<entries, uses>>
  BY <1>1, <1>2 DEF Quiet, dbVars, cacheVars
<1>4. DbType' /\ ThreadType'
  BY <1>0, <1>1, <1>2 DEF DbType, ThreadType, dbVars
<1>5. RowsTrue'
  <2>1. \A x \in Tokens \cup Principals : changed[x] <= now'
    BY <1>0, <1>1 DEF DbType, ThreadType, IInv, RowsTrue
  <2>2. QED
    BY <1>1, <2>1 DEF dbVars, IInv, RowsTrue
<1>6. \A q \in Principals : Revoker(q) => Revoker(q)'
  BY <1>1 DEF Revoker
<1>7. QED
  BY <1>1, <1>3, <1>4, <1>5, <1>6, QuietKeeps
-----------------------------------------------------------------------------
(* Mints, and the two evictions.                                           *)

\* A minting call picks a token that no row has.
LEMMA StartMintKeeps ==
  ASSUME IInv, NEW t \in Threads, StartMint(t)
  PROVE  IInv'
<1>0. TypeOK /\ DbType /\ ThreadType
  BY TypeParts DEF IInv
<1>1. PICK k \in Tokens \ minted :
        /\ pc[t] = "idle" /\ Goto(t, "insert") /\ job' = [job EXCEPT ![t].row = k]
        /\ calls' = calls + 1 /\ UNCHANGED <<dbVars, cacheVars, now, evicted>>
  BY DEF StartMint, Call
<1>2. k \in Unminted
  BY DEF IInv, RowsTrue
<1>3. job[t] \in Jobs /\ [job[t] EXCEPT !.row = k] \in Jobs /\ [job[t] EXCEPT !.row = k].row = k
  BY <1>0 DEF ThreadType, Jobs
<1>4. job' = [job EXCEPT ![t] = [job[t] EXCEPT !.row = k]]
  BY <1>0, <1>1 DEF ThreadType
<1>5. ThreadType' /\ Moves(t) /\ pc'[t] = "insert" /\ job'[t].row = k
  BY <1>0, <1>1, <1>3, <1>4 DEF Goto, ThreadType, Moves, Labels
<1>6. ThreadTrue(t)'
  BY <1>2, <1>5 DEF ThreadTrue, JobTrue, JobFresh, JobOut, JobScoped, Resolving, Holding, Built
<1>7. QED
  BY <1>1, <1>5, <1>6, ThreadMoves

\* The new row is the only one its bearer opens.
LEMMA InsertKeeps ==
  ASSUME IInv, NEW t \in Threads, InsertToken(t)
  PROVE  IInv'
<1> DEFINE k == job[t].row
           b == CHOOSE c \in Bearers : Opens[c] = k
<1>0. TypeOK /\ DbType /\ ThreadType /\ ThreadTrue(t)
  BY TypeParts DEF IInv
<1>1. /\ pc[t] = "insert" /\ Return(t)
      /\ UNCHANGED <<revoked, retired, admin, elsewhere, changed, cacheVars, now, calls, evicted>>
  BY DEF InsertToken
<1>2. k \in Unminted /\ k \in Tokens
  BY <1>0, <1>1, RowAssumption DEF ThreadTrue, JobTrue
<1>3. b \in Bearers /\ Opens[b] = k
  BY <1>2, MintAssumption
<1>4. /\ minted \subseteq minted' /\ DbType' /\ RowsTrue'
  <2>1. CASE UNCHANGED <<minted, digest, pending>>
    BY <1>0, <1>1, <2>1 DEF DbType, IInv, RowsTrue
  <2>2. CASE minted' = minted \cup {k} /\ digest' = [digest EXCEPT ![k] = b] /\ pending' = {}
    <3> HIDE DEF b, k
    <3>1. DbType'
      BY <1>0, <1>1, <1>2, <1>3, <2>2 DEF DbType
    <3>2. RowsTrue'
      BY <1>0, <1>1, <1>2, <1>3, <2>2 DEF DbType, IInv, RowsTrue
    <3>3. QED
      BY <2>2, <3>1, <3>2
  <2>3. QED
    BY <2>1, <2>2 DEF InsertToken
<1>5. ThreadType' /\ ThreadTrue(t)' /\ Moves(t)
  BY <1>0, <1>1, ReturnStep DEF ThreadType
<1>6. Quiet /\ UNCHANGED <<entries, uses>>
  BY <1>0, <1>1, <1>4 DEF Quiet, cacheVars, ThreadType
<1>7. \A q \in Principals : Revoker(q) => Revoker(q)'
  BY <1>5, RevokersStay
<1>8. QED
  BY <1>4, <1>5, <1>6, <1>7, QuietKeeps DEF Moves

\* What the finally evicts no put of a resolve under way brings back.
LEMMA EvictKeeps ==
  ASSUME IInv, NEW t \in Threads, Evict(t)
  PROVE  IInv'
<1> DEFINE p == job[t].who
<1>0. TypeOK /\ DbType /\ CacheType /\ ThreadType /\ ThreadTrue(t) /\ IsFiniteSet(entries)
  BY TypeParts DEF IInv
<1>1. /\ pc[t] = "evict" /\ seq' = seq + 1
      /\ evictedAt' = [evictedAt EXCEPT ![p] = seq + 1]
      /\ entries' = OthersThan(p)
      /\ evicted' = [u \in Threads |-> evicted[u] \cup {p}]
      /\ Return(t) /\ UNCHANGED <<dbVars, uses, clearedAt, now, calls>>
  BY DEF Evict
<1>2. PICK q \in Principals : q = p
  BY <1>0, <1>1 DEF ThreadTrue, JobTrue
<1>3. entries' \subseteq entries /\ \A e \in entries' : e.who # q
  BY <1>1, <1>2 DEF OthersThan
<1>4. pc'[t] = "idle" /\ ThreadType'
  <2>1. pc' = [pc EXCEPT ![t] = "idle"] /\ job' = [job EXCEPT ![t] = NoJob]
    BY <1>1 DEF Return, Goto
  <2>2. evicted' \in [Threads -> SUBSET Principals]
    BY <1>0, <1>1, <1>2 DEF ThreadType
  <2>3. QED
    BY <1>0, <1>1, <2>1, <2>2, NoJobType DEF ThreadType, Labels
<1>5. \A u \in Threads \ {t} : pc'[u] = pc[u] /\ job'[u] = job[u]
  BY <1>0, <1>1 DEF Return, Goto, ThreadType
<1>6. CacheType' /\ IsFiniteSet(entries')
  <2>1. /\ entries' \subseteq Entries /\ IsFiniteSet(entries') /\ Cardinality(entries') <= MaxEntries
        /\ \A e, f \in entries' : e.key = f.key \/ e.used = f.used => e = f
    BY <1>0, <1>3, FewerEntries
  <2>2. seq' \in Nat /\ clearedAt' \in 0..seq' /\ evictedAt' \in [Principals -> 0..seq']
    BY <1>0, <1>1, <1>2 DEF CacheType
  <2>3. QED
    BY <1>0, <1>1, <2>1, <2>2 DEF CacheType
<1>7. DbType' /\ RowsTrue'
  BY <1>0, <1>1 DEF DbType, dbVars, IInv, RowsTrue
<1>8. TypeOK'
  BY <1>4, <1>6, <1>7 DEF DbType, CacheType, ThreadType, TypeOK
<1>9. ASSUME NEW r \in Principals, r # q, Revoker(r) PROVE Revoker(r)'
  <2>1. PICK u \in Threads : pc[u] \in {"commit", "evict"} /\ job[u].who = r
    BY <1>9 DEF Revoker
  <2>2. u # t
    BY <1>2, <1>9, <2>1
  <2>3. QED
    BY <1>5, <2>1, <2>2 DEF Revoker
<1>10. UNCHANGED <<minted, revoked, retired, elsewhere, admin, changed, now>>
  BY <1>1 DEF dbVars
<1>11. EntriesTrue' /\ EntriesFresh' /\ RevokedStaysOut'
  <2>1. EntriesTrue'
    BY <1>1, <1>3, <1>10 DEF IInv, EntriesTrue
  <2>2. EntriesFresh'
    BY <1>3, <1>10 DEF IInv, EntriesFresh
  <2>3. ASSUME NEW e \in entries'
        PROVE  Live(Opens[e.key])' \/ Opens[e.key] \in elsewhere' \/ Revoker(Owner[Opens[e.key]])'
    <3>1. e.who = Owner[Opens[e.key]] /\ e.who \in Principals /\ e.who # q
      BY <1>0, <1>3 DEF IInv, EntriesTrue, CacheType, Entries
    <3>2. Live(Opens[e.key]) \/ Opens[e.key] \in elsewhere \/ Revoker(Owner[Opens[e.key]])
      BY <1>3 DEF IInv, RevokedStaysOut, Revoker
    <3>3. QED
      BY <1>9, <1>10, <3>1, <3>2 DEF Live
  <2>4. RevokedStaysOut'
    BY <2>3 DEF RevokedStaysOut, Revoker
  <2>5. QED
    BY <2>1, <2>2, <2>4
<1>12. ASSUME NEW u \in Threads \ {t} PROVE ThreadTrue(u)'
  <2>1. ThreadTrue(u) /\ job[u] \in Jobs /\ pc'[u] = pc[u] /\ job'[u] = job[u]
        /\ evicted'[u] = evicted[u] \cup {q}
    BY <1>0, <1>1, <1>2, <1>5 DEF IInv, ThreadType
  <2>2. JobTrue(u)'
    BY <1>0, <1>1, <1>10, <2>1 DEF ThreadTrue, JobTrue, CacheType, ThreadType, Jobs
  <2>3. JobFresh(u)'
    BY <1>10, <2>1 DEF ThreadTrue, JobFresh
  <2>4. ASSUME pc[u] \in Resolving PROVE evictedAt'[q] > job[u].generation
    BY <1>0, <1>1, <1>2, <2>1, <2>4 DEF ThreadTrue, JobTrue, CacheType, Jobs
  <2>5. \A r \in Principals : r # q => evictedAt'[r] = evictedAt[r]
    BY <1>0, <1>1, <1>2 DEF CacheType
  <2>6. ASSUME NEW k \in minted, pc[u] \in Resolving, Excused(u, k) PROVE Excused(u, k)'
    <3>1. Owner[k] \in Principals
      BY <1>0, RowAssumption DEF DbType
    <3>2. CASE Owner[k] = q
      BY <2>1, <2>4, <2>6, <3>2 DEF Excused
    <3>3. CASE Owner[k] # q
      BY <1>9, <1>10, <2>1, <2>5, <2>6, <3>1, <3>3 DEF Excused
    <3>4. QED
      BY <3>2, <3>3
  <2>7. JobOut(u)'
    <3>1. pc[u] \in Holding => job[u].row \in minted
      BY <2>1 DEF ThreadTrue, JobTrue
    <3>2. QED
      BY <1>10, <2>1, <2>6, <3>1 DEF ThreadTrue, JobOut, Live, Holding, Built, Resolving
  <2>8. JobScoped(u)'
    BY <1>1, <2>1, <2>5 DEF ThreadTrue, JobScoped
  <2>9. QED
    BY <2>2, <2>3, <2>7, <2>8 DEF ThreadTrue
<1>13. ThreadTrue(t)'
  BY <1>4 DEF ThreadTrue, JobTrue, JobFresh, JobOut, JobScoped, Resolving, Holding, Built
<1>14. QED
  BY <1>6, <1>7, <1>8, <1>11, <1>12, <1>13 DEF IInv

\* A cache without entries is true of any rows.
LEMMA ClearKeeps ==
  ASSUME IInv, NEW t \in Threads, Clear(t)
  PROVE  IInv'
<1>0. TypeOK /\ DbType /\ CacheType /\ ThreadType
  BY TypeParts DEF IInv
<1>1. /\ entries' = {} /\ seq' = seq + 1 /\ clearedAt' = seq + 1 /\ calls' = calls + 1
      /\ evicted' = [u \in Threads |-> Principals]
      /\ UNCHANGED <<dbVars, uses, evictedAt, now, pc, job>>
  BY DEF Clear, Call
<1>2. CacheType' /\ IsFiniteSet(entries')
  <2>1. IsFiniteSet({}) /\ Cardinality({}) = 0 /\ 0 <= MaxEntries
    BY FS_EmptySet, CacheAssumption
  <2>2. seq' \in Nat /\ clearedAt' \in 0..seq' /\ evictedAt' \in [Principals -> 0..seq']
    BY <1>0, <1>1 DEF CacheType
  <2>3. QED
    BY <1>0, <1>1, <2>1, <2>2 DEF CacheType
<1>3. DbType' /\ RowsTrue' /\ ThreadType'
  BY <1>0, <1>1 DEF DbType, dbVars, IInv, RowsTrue, ThreadType
<1>4. TypeOK'
  BY <1>2, <1>3 DEF DbType, CacheType, ThreadType, TypeOK
<1>5. EntriesTrue' /\ EntriesFresh' /\ RevokedStaysOut'
  BY <1>1 DEF EntriesTrue, EntriesFresh, RevokedStaysOut
<1>6. ASSUME NEW u \in Threads PROVE ThreadTrue(u)'
  <2>1. ThreadTrue(u) /\ job[u] \in Jobs /\ evicted'[u] = Principals
    BY <1>0, <1>1 DEF IInv, ThreadType
  <2>2. JobTrue(u)'
    BY <1>0, <1>1, <2>1 DEF ThreadTrue, JobTrue, CacheType, Jobs, dbVars
  <2>3. JobFresh(u)' /\ JobOut(u)'
    BY <1>1, <2>1 DEF ThreadTrue, JobFresh, JobOut, Excused, Revoker, Live, dbVars
  <2>4. JobScoped(u)'
    BY <2>1 DEF JobScoped
  <2>5. QED
    BY <2>2, <2>3, <2>4 DEF ThreadTrue
<1>7. QED
  BY <1>2, <1>3, <1>4, <1>5, <1>6 DEF IInv
-----------------------------------------------------------------------------
(* The invariant, and what follows from it.                                *)

\* No rows, no entries and no calls.
LEMMA InitInv == Init => IInv
<1> SUFFICES ASSUME Init PROVE IInv
  OBVIOUS
<1>1. DbType
  BY RowAssumption DEF Init, DbType
<1>2. CacheType
  <2>1. Cardinality({}) = 0 /\ 0 <= MaxEntries
    BY FS_EmptySet, CacheAssumption
  <2>2. entries \subseteq Entries /\ Cardinality(entries) <= MaxEntries
        /\ (\A e, f \in entries : e.key = f.key \/ e.used = f.used => e = f)
    BY <2>1 DEF Init
  <2>3. uses \in Nat /\ seq \in Nat /\ 0 \in 0..seq
    BY DEF Init
  <2>4. clearedAt \in 0..seq /\ evictedAt \in [Principals -> 0..seq]
    BY <2>3 DEF Init
  <2>5. QED
    BY <2>2, <2>3, <2>4 DEF CacheType
<1>3. ThreadType
  BY NoJobType DEF Init, ThreadType, Labels
<1>4. TypeOK
  BY <1>1, <1>2, <1>3, TypeParts
<1>5. RowsTrue
  BY DEF Init, RowsTrue
<1>6. IsFiniteSet(entries) /\ EntriesTrue /\ EntriesFresh /\ RevokedStaysOut
  BY FS_EmptySet DEF Init, EntriesTrue, EntriesFresh, RevokedStaysOut
<1>7. \A t \in Threads : pc[t] = "idle"
  BY DEF Init
<1>8. \A t \in Threads : ThreadTrue(t)
  BY <1>7 DEF ThreadTrue, JobTrue, JobFresh, JobOut, JobScoped, Resolving, Holding, Built
<1>9. QED
  BY <1>4, <1>5, <1>6, <1>8 DEF IInv

\* Every step keeps the invariant.
LEMMA NextKeeps == IInv /\ [Next]_vars => IInv'
<1> SUFFICES ASSUME IInv, [Next]_vars PROVE IInv'
  OBVIOUS
<1>1. ASSUME NEW t \in Threads, Step(t) PROVE IInv'
  <2>1. CASE Lookup(t)
    BY <2>1, LookupKeeps
  <2>2. CASE BeginResolve(t)
    BY <2>2, BeginKeeps
  <2>3. CASE ResolveByDigest(t)
    BY <2>3, ByDigestKeeps
  <2>4. CASE ResolveByTokenId(t)
    BY <2>4, ByTokenIdKeeps
  <2>5. CASE ResolveLegacy(t)
    BY <2>5, ByLegacyKeeps
  <2>6. CASE BuildPrincipal(t)
    BY <2>6, BuildKeeps
  <2>7. CASE Touch(t)
    BY <2>7, TouchKeeps
  <2>8. CASE Put(t)
    BY <2>8, PutKeeps
  <2>9. CASE RevokeToken(t)
    BY <2>9, RevokeTokenKeeps
  <2>10. CASE RevokeAgent(t)
    BY <2>10, RevokeAgentKeeps
  <2>11. CASE CommitRevoke(t)
    BY <2>11, CommitKeeps
  <2>12. CASE Evict(t)
    BY <2>12, EvictKeeps
  <2>13. CASE Clear(t)
    BY <2>13, ClearKeeps
  <2>14. CASE StartMint(t)
    BY <2>14, StartMintKeeps
  <2>15. CASE InsertToken(t)
    BY <2>15, InsertKeeps
  <2>16. QED
    BY <1>1, <2>1, <2>2, <2>3, <2>4, <2>5, <2>6, <2>7, <2>8, <2>9, <2>10, <2>11, <2>12,
       <2>13, <2>14, <2>15 DEF Step
<1>2. CASE RollbackByOther
  BY <1>2, RollbackKeeps
<1>3. CASE RevokeElsewhere
  BY <1>3, ElsewhereKeeps
<1>4. CASE MakeAdmin
  BY <1>4, MakeAdminKeeps
<1>5. CASE Tick
  BY <1>5, TickKeeps
<1>6. CASE UNCHANGED vars
  <2>1. UNCHANGED <<dbVars, cacheVars, now, pc, job, calls, evicted>>
    BY <1>6 DEF vars
  <2>2. UNCHANGED <<entries, uses>> /\ Quiet /\ DbType' /\ ThreadType' /\ RowsTrue'
    BY <2>1, TypeParts DEF dbVars, cacheVars, Quiet, IInv, DbType, ThreadType, RowsTrue
  <2>3. \A q \in Principals : Revoker(q) => Revoker(q)'
    BY <2>1 DEF Revoker
  <2>4. QED
    BY <2>1, <2>2, <2>3, QuietKeeps
<1>7. QED
  BY <1>1, <1>2, <1>3, <1>4, <1>5, <1>6 DEF Next

\* The inductive invariant holds in every reachable state.
THEOREM TokenCacheInvariance == Spec => []IInv
  BY InitInv, NextKeeps, PTL DEF Spec

\* Types, the bound of the cache and one entry for a key (_ResolvedTokenCache).
THEOREM TokenCacheTypes == Spec => []TypeOK
<1>1. IInv => TypeOK
  BY DEF IInv
<1>2. QED
  BY <1>1, TokenCacheInvariance, PTL

\* Once a revocation in this process has run its finally, no entry resolves the
\* token, whatever resolves were under way (put, evict_principal).
THEOREM RevocationReachesCache == Spec => []RevokedStaysOut
<1>1. IInv => RevokedStaysOut
  BY DEF IInv
<1>2. QED
  BY <1>1, TokenCacheInvariance, PTL

\* A servable entry lags a revocation or an is_admin change by less than the
\* cache's TTL, in whatever process it was made (put's read_at).
THEOREM StaleEntriesExpire == Spec => []StaleLessThanTTL
<1>1. IInv => StaleLessThanTTL
  <2> SUFFICES ASSUME IInv, NEW e \in entries, now < e.expires
               PROVE  /\ Opens[e.key] \in revoked => now < changed[Opens[e.key]] + TTL
                      /\ e.admin # (e.who \in admin) => now < changed[e.who] + TTL
    BY DEF StaleLessThanTTL
  <2>1. DbType /\ CacheType /\ ThreadType
    BY TypeParts DEF IInv
  <2>2. /\ Opens[e.key] \in Tokens /\ e.who \in Principals /\ e.expires \in Nat /\ now \in Nat
    BY <2>1, RowAssumption DEF IInv, EntriesTrue, DbType, CacheType, Entries, ThreadType
  <2>3. changed[Opens[e.key]] \in Nat /\ changed[e.who] \in Nat
    BY <2>1, <2>2 DEF DbType
  <2>4. Opens[e.key] \in revoked => e.expires <= changed[Opens[e.key]] + TTL
    BY DEF IInv, EntriesFresh
  <2>5. e.admin # (e.who \in admin) => e.expires <= changed[e.who] + TTL
    BY Zenon DEF IInv, EntriesFresh
  <2>6. \A n \in Nat : e.expires <= n + TTL => now < n + TTL
    BY <2>2, CacheAssumption
  <2>7. QED
    BY <2>3, <2>4, <2>5, <2>6, Zenon
<1>2. QED
  BY <1>1, TokenCacheInvariance, PTL

\* A digest, and a cached principal, are those of the row that the bearer's own
\* plaintext opens (the backfill of _build_principal_and_touch).
THEOREM BearersOpenTheirOwn == Spec => []OnlyTheBearerOpens
<1>1. IInv => OnlyTheBearerOpens
  <2> SUFFICES ASSUME IInv PROVE OnlyTheBearerOpens
    OBVIOUS
  <2>1. \A e \in entries : Opens[e.key] \in minted /\ e.who = Owner[Opens[e.key]]
    BY DEF IInv, EntriesTrue
  <2>2. minted \subseteq Tokens
    BY TypeParts DEF IInv, DbType
  <2>3. \A e \in entries : Opens[e.key] # NoToken
    BY <2>1, <2>2, RowAssumption
  <2>4. QED
    BY <2>1, <2>3 DEF IInv, RowsTrue, OnlyTheBearerOpens
<1>2. QED
  BY <1>1, TokenCacheInvariance, PTL

-----------------------------------------------------------------------------
(* Whose steps move a thread.                                              *)

\* A step of another thread, or of none, leaves what a thread is at.
LEMMA OthersLeave ==
  ASSUME IInv, [Next]_vars, NEW t \in Threads, ~Step(t)
  PROVE  pc'[t] = pc[t] /\ job'[t] = job[t]
<1>0. ThreadType
  BY TypeParts DEF IInv
<1>1. ASSUME NEW u \in Threads, u # t, Step(u)
      PROVE  pc'[t] = pc[t] /\ job'[t] = job[t]
  <2>1. CASE Lookup(u) \/ BeginResolve(u)
    BY <1>0, <1>1, <2>1 DEF Lookup, BeginResolve, Goto, ThreadType
  <2>2. CASE ResolveByDigest(u) \/ ResolveByTokenId(u) \/ ResolveLegacy(u)
    BY <1>0, <1>1, <2>2 DEF ResolveByDigest, ResolveByTokenId, ResolveLegacy, Found, Missed,
       Return, Goto, ThreadType
  <2>3. CASE BuildPrincipal(u) \/ Touch(u) \/ Put(u)
    BY <1>0, <1>1, <2>3 DEF BuildPrincipal, Touch, Put, Missed, Return, Goto, ThreadType
  <2>4. CASE RevokeToken(u) \/ RevokeAgent(u) \/ CommitRevoke(u)
    BY <1>0, <1>1, <2>4 DEF RevokeToken, RevokeAgent, CommitRevoke, Revoking, UpdateRaises,
       Goto, ThreadType
  <2>5. CASE Evict(u) \/ Clear(u) \/ StartMint(u) \/ InsertToken(u)
    BY <1>0, <1>1, <2>5 DEF Evict, Clear, StartMint, InsertToken, Return, Goto, ThreadType
  <2>6. QED
    BY <1>1, <2>1, <2>2, <2>3, <2>4, <2>5 DEF Step
<1>2. CASE RollbackByOther \/ RevokeElsewhere \/ MakeAdmin \/ Tick
  BY <1>2 DEF RollbackByOther, RevokeElsewhere, MakeAdmin, Tick
<1>3. CASE UNCHANGED vars
  BY <1>3 DEF vars
<1>4. QED
  BY <1>1, <1>2, <1>3 DEF Next

\* The put that follows a resolve is dropped for an eviction of its own
\* principal or a clear since the resolve began, and for nothing else (put's
\* docstring).
THEOREM PutsOnlyDroppedForTheirOwn == Spec => EvictionIsScoped
<1>1. IInv /\ [Next]_vars =>
        \A t \in Threads :
          pc[t] = "put" /\ pc'[t] = "idle" /\ (\A e \in entries' : e.key # job[t].key)
            => job[t].who \in evicted[t]
  <2> SUFFICES ASSUME IInv, [Next]_vars, NEW t \in Threads, pc[t] = "put", pc'[t] = "idle",
                      \A e \in entries' : e.key # job[t].key
               PROVE  job[t].who \in evicted[t]
    OBVIOUS
  <2>1. Put(t)
    <3>1. Step(t)
      BY OthersLeave
    <3>2. QED
      BY <3>1 DEF Step, Lookup, BeginResolve, ResolveByDigest, ResolveByTokenId, ResolveLegacy,
         BuildPrincipal, Touch, RevokeToken, RevokeAgent, CommitRevoke, Evict, Clear, StartMint,
         InsertToken, Call
  <2>2. DbType /\ CacheType /\ ThreadType /\ ThreadTrue(t) /\ IsFiniteSet(entries)
    BY TypeParts DEF IInv
  <2>3. /\ job[t] \in Jobs /\ job[t].key \in Bearers /\ job[t].who \in Principals
        /\ job[t].readAt \in Nat
    BY <2>2, RowAssumption DEF ThreadType, ThreadTrue, JobTrue, Resolving, Holding, Built, DbType, Jobs
  <2>4. CASE clearedAt > job[t].generation \/ evictedAt[job[t].who] > job[t].generation
    BY <2>2, <2>3, <2>4 DEF ThreadTrue, JobScoped, Resolving, Holding
  <2>5. CASE Store(job[t], job[t].readAt + TTL)
    <3> DEFINE x == [key |-> job[t].key, expires |-> job[t].readAt + TTL, who |-> job[t].who,
                     admin |-> job[t].admin, used |-> uses + 1]
    <3>1. x \in Entries /\ x.used = uses + 1 /\ x.key = job[t].key
      BY <2>2, <2>3, CacheAssumption DEF CacheType, Entries, Jobs
    <3>2. entries' = Fits(Others(x.key) \cup {x})
      BY <2>5 DEF Store
    <3> HIDE DEF x
    <3>3. LET s == Others(x.key) \cup {x} IN
          s \subseteq Entries /\ IsFiniteSet(s) /\ \A f \in s \ {x} : f.used < x.used
      BY <3>1, WithNewest
    <3>4. x \in Fits(Others(x.key) \cup {x})
      BY <3>3, FitsKeepsNewest
    <3>5. QED
      BY <3>1, <3>2, <3>4
  <2>6. QED
    BY <2>1, <2>4, <2>5 DEF Put
<1>2. QED
  BY <1>1, TokenCacheInvariance, PTL DEF Spec, EvictionIsScoped
-----------------------------------------------------------------------------
(* That a live token is found, while bearers are resolved one at a time.   *)

\* A row of the start that neither it nor its owner has been changed.
Never(k) == k \in Tokens \ Unminted /\ changed[k] = 0 /\ changed[Owner[k]] = 0

\* Every revocation is noted, and only the resolvers resolve.
Noted ==
    /\ now # 0
    /\ \A k \in revoked : changed[k] # 0
    /\ \A p \in retired : changed[p] # 0
    /\ \A t \in Threads : pc[t] \in Resolving \cup {"begin"} => t \in Resolvers

\* What the paths that have missed say of a row the bearer opens.
Searching(t) ==
    LET k == Opens[job[t].key] IN
    pc[t] \in {"tokenId", "legacy"} /\ Never(k) =>
        digest[k] = NoToken /\ (pc[t] = "legacy" => Embeds[job[t].key] # k)

SearchInv == Noted /\ \A t \in Threads : Searching(t)

\* Where a step of a thread takes it: only a resolver begins a resolve.
LEMMA ResolversResolve ==
  ASSUME IInv, NEW t \in Threads, Step(t), pc'[t] \in Resolving \cup {"begin"},
         pc[t] \in Resolving \cup {"begin"} => t \in Resolvers
  PROVE  t \in Resolvers
<1>0. ThreadType
  BY TypeParts DEF IInv
<1>1. CASE pc[t] \in Resolving \cup {"begin"}
  BY <1>1
<1>2. CASE Lookup(t)
  BY <1>2 DEF Lookup
<1>3. CASE pc[t] \notin Resolving \cup {"begin"} /\ ~Lookup(t)
  BY <1>0, <1>3 DEF Step, BeginResolve, ResolveByDigest, ResolveByTokenId, ResolveLegacy,
     BuildPrincipal, Touch, Put, RevokeToken, RevokeAgent, CommitRevoke, Evict, Clear, StartMint,
     InsertToken, Revoking, UpdateRaises, Return, Goto, ThreadType, Resolving, Holding
<1>4. QED
  BY <1>1, <1>2, <1>3

\* What a step revokes it notes, and no note is taken back.
LEMMA ChangesNoted ==
  ASSUME IInv, now # 0, [Next]_vars
  PROVE  /\ now' # 0
         /\ \A x \in Tokens \cup Principals : changed'[x] = changed[x] \/ changed'[x] # 0
         /\ \A k \in revoked' \ revoked : changed'[k] # 0
         /\ \A p \in retired' \ retired : changed'[p] # 0
<1>0. DbType /\ ThreadType /\ Agents \subseteq Principals
  BY TypeParts, RowAssumption DEF IInv
<1>1. now' # 0
  <2>1. now' = now \/ now' = now + 1
    BY ZenonT(40) DEF Next, Step, Lookup, BeginResolve, ResolveByDigest, ResolveByTokenId, ResolveLegacy,
       BuildPrincipal, Touch, Put, RevokeToken, RevokeAgent, CommitRevoke, Evict, Clear, StartMint,
       InsertToken, RollbackByOther, RevokeElsewhere, MakeAdmin, Tick, vars
  <2>2. QED
    BY <1>0, <2>1 DEF ThreadType
<1>2. ASSUME NEW t \in Threads, RevokeToken(t)
      PROVE  \/ UNCHANGED <<revoked, retired, changed>>
             \/ \E x \in Tokens : /\ revoked' = revoked \cup {x} /\ retired' = retired
                                  /\ changed' = [changed EXCEPT ![x] = now]
  BY <1>2 DEF RevokeToken, UpdateRaises, dbVars
<1>3. ASSUME NEW t \in Threads, RevokeAgent(t)
      PROVE  \/ UNCHANGED <<revoked, retired, changed>>
             \/ \E x \in Agents : /\ revoked' = revoked /\ retired' = retired \cup {x}
                                  /\ changed' = [changed EXCEPT ![x] = now]
  BY <1>3 DEF RevokeAgent, UpdateRaises, dbVars
<1>4. CASE RevokeElsewhere
  <2>1. PICK x \in Tokens : /\ revoked' = revoked \cup {x} /\ retired' = retired
                            /\ changed' = [changed EXCEPT ![x] = now]
    BY <1>0, <1>4 DEF RevokeElsewhere, DbType
  <2>2. QED
    BY <1>0, <1>1, <2>1 DEF DbType
<1>5. CASE MakeAdmin
  BY <1>0, <1>1, <1>5 DEF MakeAdmin, DbType
<1>6. CASE revoked' \subseteq revoked /\ retired' \subseteq retired /\ changed' = changed
  BY <1>1, <1>6
<1>7. ASSUME NEW t \in Threads, RevokeToken(t) \/ RevokeAgent(t)
      PROVE  /\ \A x \in Tokens \cup Principals : changed'[x] = changed[x] \/ changed'[x] # 0
             /\ \A k \in revoked' \ revoked : changed'[k] # 0
             /\ \A p \in retired' \ retired : changed'[p] # 0
  BY <1>0, <1>2, <1>3, <1>7 DEF DbType
<1>8. \/ \E t \in Threads : RevokeToken(t) \/ RevokeAgent(t)
      \/ RevokeElsewhere \/ MakeAdmin
      \/ revoked' \subseteq revoked /\ retired' \subseteq retired /\ changed' = changed
  BY ZenonT(40) DEF Next, Step, Lookup, BeginResolve, ResolveByDigest, ResolveByTokenId, ResolveLegacy,
     BuildPrincipal, Touch, Put, CommitRevoke, Evict, Clear, StartMint,
     InsertToken, RollbackByOther, Tick, vars, dbVars
<1>9. QED
  BY <1>1, <1>4, <1>5, <1>6, <1>7, <1>8

\* Only resolvers search, build and put.
LEMMA NotedKeeps ==
  ASSUME IInv, Noted, [Next]_vars
  PROVE  Noted'
<1>0. DbType /\ Agents \subseteq Principals
  BY TypeParts, RowAssumption DEF IInv
<1>1. ASSUME NEW t \in Threads, pc'[t] \in Resolving \cup {"begin"} PROVE t \in Resolvers
  BY <1>1, OthersLeave, ResolversResolve DEF Noted
<1>2. QED
  BY <1>0, <1>1, ChangesNoted DEF Noted, DbType

\* While one thread resolves, nothing gives a digest to a row of the start.
LEMMA DigestStays ==
  ASSUME IInv, Noted, \A r, s \in Resolvers : r = s, [Next]_vars,
         NEW t \in Threads, pc[t] \in {"digest", "tokenId", "legacy", "build"},
         NEW k \in Tokens \ Unminted
  PROVE  digest'[k] = digest[k]
<1>0. DbType
  BY TypeParts DEF IInv
<1>1. ASSUME NEW u \in Threads, Touch(u) PROVE FALSE
  BY <1>1 DEF Touch, Noted, Resolving, Holding
<1>2. ASSUME NEW u \in Threads, InsertToken(u) PROVE digest'[k] = digest[k]
  <2>1. job[u].row \in Unminted
    BY <1>2 DEF IInv, ThreadTrue, JobTrue, InsertToken
  <2>2. QED
    BY <1>0, <1>2, <2>1 DEF InsertToken, DbType
<1>3. \/ \E u \in Threads : Touch(u) \/ InsertToken(u)
      \/ digest' = digest
  BY ZenonT(90) DEF Next, Step, Lookup, BeginResolve, ResolveByDigest, ResolveByTokenId, ResolveLegacy,
     BuildPrincipal, Put, RevokeToken, RevokeAgent, UpdateRaises, CommitRevoke, Evict, Clear,
     StartMint, RollbackByOther, RevokeElsewhere, MakeAdmin, Tick, vars, dbVars
<1>4. QED
  BY <1>1, <1>2, <1>3

\* A miss leaves the bearer and goes on as _resolve_uncached does.
LEMMA MissedStep ==
  ASSUME ThreadType, NEW t \in Threads, NEW path, Missed(t, path)
  PROVE  /\ path = "legacy" <=> pc'[t] = "idle"
         /\ path # "legacy" =>
              /\ job'[t].key = job[t].key
              /\ IF path = "digest" /\ Embeds[job[t].key] # NoToken THEN pc'[t] = "tokenId"
                 ELSE pc'[t] = "legacy"
<1>1. CASE path = "legacy"
  BY <1>1 DEF Missed, Return, Goto, ThreadType
<1>2. CASE path # "legacy"
  <2>1. job'[t].key = job[t].key
    BY <1>2 DEF Missed, ThreadType, Jobs
  <2>2. IF path = "digest" /\ Embeds[job[t].key] # NoToken THEN pc'[t] = "tokenId"
        ELSE pc'[t] = "legacy"
    BY <1>2 DEF Missed, Goto, ThreadType
  <2>3. QED
    BY <1>2, <2>1, <2>2
<1>3. QED
  BY <1>1, <1>2

\* A path that passes over the row its bearer opens is right to, if nothing has
\* changed that row.
LEMMA SearchingKeeps ==
  ASSUME IInv, SearchInv, \A r, s \in Resolvers : r = s, [Next]_vars, NEW t \in Threads
  PROVE  Searching(t)'
<1> DEFINE k == Opens[job[t].key]
<1>0. DbType /\ ThreadType /\ ThreadTrue(t) /\ Noted /\ Searching(t)
  BY TypeParts DEF IInv, SearchInv
<1>1. ASSUME NEW r, Never(r)' PROVE Never(r)
  <2>1. r \in Tokens \ Unminted /\ Owner[r] \in Principals
    BY <1>1, RowAssumption DEF Never
  <2>2. QED
    BY <1>0, <1>1, <2>1, ChangesNoted DEF Never, Noted
<1>2. CASE ~Step(t)
  <2>1. pc'[t] = pc[t] /\ job'[t] = job[t]
    BY <1>2, OthersLeave
  <2>2. SUFFICES ASSUME pc[t] \in {"tokenId", "legacy"}, Never(k)'
                 PROVE  digest'[k] = NoToken /\ (pc[t] = "legacy" => Embeds[job[t].key] # k)
    BY <2>1 DEF Searching
  <2>3. PICK r \in Tokens \ Unminted : r = k
    BY <2>1, <2>2 DEF Never
  <2>4. Never(k)
    BY <1>1, <2>1, <2>2, <2>3
  <2>5. digest'[k] = digest[k]
    BY <1>0, <2>2, <2>3, DigestStays
  <2>6. QED
    BY <1>0, <2>2, <2>4, <2>5 DEF Searching
<1>3. CASE ResolveByDigest(t)
  <2>1. SUFFICES ASSUME pc'[t] \in {"tokenId", "legacy"}, NEW r, r = Opens[job'[t].key], Never(r)'
                 PROVE  digest'[r] = NoToken /\ (pc'[t] = "legacy" => Embeds[job'[t].key] # r)
    BY DEF Searching
  <2>2. pc[t] = "digest" /\ job[t].key \in Bearers /\ UNCHANGED dbVars
    BY <1>0, <1>3 DEF ResolveByDigest, ThreadTrue, JobTrue, Resolving
  <2>3. /\ Missed(t, "digest")
        /\ {q \in Tokens : digest[q] = job[t].key /\ q \notin revoked} = {}
    BY <1>0, <1>3, <2>1 DEF ResolveByDigest, Found, Goto, ThreadType
  <2>4. /\ job'[t].key = job[t].key
        /\ pc'[t] = "legacy" => Embeds[job[t].key] = NoToken
    BY <1>0, <2>3, MissedStep
  <2>5. Never(r) /\ r \in Tokens /\ r \notin Unminted
    BY <1>1, <2>1 DEF Never
  <2>6. r \notin revoked /\ r # NoToken
    BY <1>0, <2>5, RowAssumption DEF Never, Noted
  <2>7. digest[r] # job[t].key
    BY <2>3, <2>5, <2>6
  <2>8. digest[r] = NoToken
    <3>1. digest[r] # NoToken => Opens[digest[r]] = r /\ digest[r] \in Bearers
      BY <1>0, <2>5 DEF IInv, RowsTrue, DbType
    <3>2. QED
      BY <2>1, <2>2, <2>4, <2>5, <2>7, <3>1, OneBearer
  <2>9. QED
    BY <2>2, <2>4, <2>6, <2>8, <2>1 DEF dbVars
<1>4. CASE ResolveByTokenId(t)
  <2>1. SUFFICES ASSUME pc'[t] \in {"tokenId", "legacy"}, NEW r, r = Opens[job'[t].key], Never(r)'
                 PROVE  digest'[r] = NoToken /\ (pc'[t] = "legacy" => Embeds[job'[t].key] # r)
    BY DEF Searching
  <2>2. pc[t] = "tokenId" /\ UNCHANGED dbVars
    BY <1>4 DEF ResolveByTokenId
  <2>3. Missed(t, "tokenId")
    BY <1>0, <1>4, <2>1 DEF ResolveByTokenId, Found, Goto, ThreadType
  <2>4. job'[t].key = job[t].key
    BY <1>0, <2>3, MissedStep
  <2>5. Never(r) /\ r \in minted /\ r \notin revoked /\ Owner[r] \notin retired
    BY <1>0, <1>1, <2>1 DEF Never, Noted, IInv, RowsTrue
  <2>6. digest[r] = NoToken
    BY <1>0, <2>1, <2>2, <2>4, <2>5 DEF Searching
  <2>7. Embeds[job[t].key] # r
    <3>1. ASSUME Embeds[job[t].key] = r PROVE Found(t, r, "tokenId")
      BY <1>4, <2>1, <2>4, <2>5, <2>6, <3>1 DEF ResolveByTokenId, Live
    <3>2. ~Found(t, r, "tokenId")
      BY <1>0, <2>1 DEF Found, Goto, ThreadType
    <3>3. QED
      BY <3>1, <3>2
  <2>8. QED
    BY <2>2, <2>4, <2>6, <2>7 DEF dbVars
<1>5. CASE BuildPrincipal(t) /\ pc'[t] \in {"tokenId", "legacy"}
  <2>1. Owner[job[t].row] \in retired /\ Missed(t, job[t].path) /\ Opens[job[t].key] = job[t].row
    BY <1>0, <1>5 DEF BuildPrincipal, Goto, ThreadType, ThreadTrue, JobTrue, Holding
  <2>2. job'[t].key = job[t].key
    BY <1>0, <1>5, <2>1, MissedStep
  <2>3. ASSUME NEW r, r = Opens[job'[t].key], Never(r)' PROVE FALSE
    BY <1>0, <1>1, <2>1, <2>2, <2>3 DEF Never, Noted
  <2>4. QED
    BY <2>3 DEF Searching
<1>6. CASE Step(t) /\ pc'[t] \notin {"tokenId", "legacy"}
  BY <1>6 DEF Searching
<1>7. CASE Step(t) /\ pc'[t] \in {"tokenId", "legacy"}
  <2>1. ResolveByDigest(t) \/ ResolveByTokenId(t) \/ BuildPrincipal(t) \/ ResolveLegacy(t) \/ Clear(t) \/ Lookup(t)
    BY <1>0, <1>7 DEF Step, BeginResolve, Touch, Put, RevokeToken, RevokeAgent, CommitRevoke, Evict,
       StartMint, InsertToken, Revoking, UpdateRaises, Return, Goto, ThreadType
  <2>2. ~ResolveLegacy(t)
    BY <1>0, <1>7 DEF ResolveLegacy, Missed, Found, Return, Goto, ThreadType
  <2>3. ~Clear(t) /\ ~Lookup(t)
    BY <1>0, <1>7 DEF Clear, Lookup, Call, Goto, ThreadType
  <2>4. QED
    BY <1>3, <1>4, <1>5, <1>7, <2>1, <2>2, <2>3
<1>8. QED
  BY <1>2, <1>6, <1>7

\* While bearers are resolved one at a time, a row that was there from the
\* start and was never changed is found by one of the paths, whatever was
\* resolved, and backfilled, before (_resolve_uncached).
THEOREM LiveTokensAreFound ==
  ASSUME \A r, s \in Resolvers : r = s
  PROVE  Spec => LiveTokenAccepted
<1>1. Init => SearchInv
  <2> SUFFICES ASSUME Init PROVE SearchInv
    OBVIOUS
  <2>1. \A t \in Threads : pc[t] = "idle"
    BY DEF Init
  <2>2. now # 0 /\ revoked = {} /\ retired = {}
    BY DEF Init
  <2>3. QED
    BY <2>1, <2>2 DEF SearchInv, Noted, Searching, Resolving, Holding
<1>2. IInv /\ SearchInv /\ [Next]_vars => SearchInv'
  BY NotedKeeps, SearchingKeeps DEF SearchInv
<1>3. IInv /\ SearchInv /\ [Next]_vars =>
        \A t \in Threads :
          LET k == Opens[job[t].key] IN
          pc[t] \in {"tokenId", "legacy", "build"} /\ pc'[t] = "idle" /\ k # NoToken
            => k \in Unminted \/ changed[k] # 0 \/ changed[Owner[k]] # 0
  <2> SUFFICES ASSUME IInv, SearchInv, [Next]_vars, NEW t \in Threads,
                      pc[t] \in {"tokenId", "legacy", "build"}, pc'[t] = "idle",
                      NEW k, k = Opens[job[t].key], k # NoToken,
                      k \notin Unminted, changed[k] = 0, changed[Owner[k]] = 0
               PROVE  FALSE
    BY Zenon
  <2>0. DbType /\ ThreadType /\ ThreadTrue(t) /\ Noted /\ Searching(t) /\ job[t].key \in Bearers
    BY TypeParts DEF IInv, SearchInv, ThreadTrue, JobTrue, Resolving, Holding
  <2>1. Never(k) /\ k \in minted /\ k \notin revoked /\ Owner[k] \notin retired
    BY <2>0, RowAssumption DEF Never, Noted, IInv, RowsTrue
  <2>2. Step(t)
    BY OthersLeave
  <2>3. ResolveByTokenId(t) \/ ResolveLegacy(t) \/ BuildPrincipal(t)
    BY <2>2 DEF Step, Lookup, BeginResolve, ResolveByDigest, Touch, Put,
       RevokeToken, RevokeAgent, CommitRevoke, Evict, Clear, StartMint, InsertToken, Call
  <2>4. ~ResolveByTokenId(t)
    BY <2>0, MissedStep DEF ResolveByTokenId, Found, Goto, ThreadType
  <2>5. ~BuildPrincipal(t)
    <3>1. ASSUME BuildPrincipal(t) PROVE FALSE
      <4>1. Opens[job[t].key] = job[t].row
        BY <2>0, <3>1 DEF BuildPrincipal, ThreadTrue, JobTrue, Holding
      <4>2. pc'[t] = "touch"
        BY <2>0, <2>1, <3>1, <4>1 DEF BuildPrincipal, Goto, ThreadType
      <4>3. QED
        BY <4>2
    <3>2. QED
      BY <3>1
  <2>6. ~ResolveLegacy(t)
    <3>1. ASSUME ResolveLegacy(t) PROVE FALSE
      <4>1. digest[k] = NoToken /\ Embeds[job[t].key] # k
        BY <2>0, <2>1, <3>1 DEF ResolveLegacy, Searching
      <4>2. k \in Legacy
        BY <2>0, <4>1, ShapeAssumption
      <4>3. k \in {q \in Legacy : Live(q) /\ digest[q] = NoToken /\ Opens[job[t].key] = q}
        BY <2>1, <4>1, <4>2 DEF Live
      <4>4. \E q : Found(t, q, "legacy")
        BY <3>1, <4>3 DEF ResolveLegacy
      <4>5. QED
        BY <2>0, <4>4 DEF Found, Goto, ThreadType
    <3>2. QED
      BY <3>1
  <2>7. QED
    BY <2>3, <2>4, <2>5, <2>6
<1>4. QED
  BY <1>1, <1>2, <1>3, TokenCacheInvariance, PTL DEF Spec, LiveTokenAccepted
=============================================================================
