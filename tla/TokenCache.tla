----------------------------- MODULE TokenCache -----------------------------
(***************************************************************************)
(* Bearer tokens (service/auth.py): resolving a bearer to a principal by   *)
(* digest, by embedded token id or by the legacy scan, the cache of        *)
(* resolved tokens in front of it, and the revocations that must reach the *)
(* cache.  A step is one locked section of the cache or one SQL statement. *)
(*                                                                         *)
(* The middleware resolves bearers on the event loop, one at a time and    *)
(* never yielding; handlers on the thread pool mint and revoke between its *)
(* steps.  Resolvers is a set because the cache is written for many.       *)
(*                                                                         *)
(* SHA-256 is injective here: a bearer is its own digest and cache key.    *)
(* Every thread reads and writes through the process's one connection, so  *)
(* an UPDATE is visible to all of them before it is committed.             *)
(***************************************************************************)
EXTENDS Naturals, FiniteSets

CONSTANTS
    Resolvers,    \* threads that resolve bearers: the event loop
    Handlers,     \* threads of the pool
    Bearers,      \* strings a request may present as its bearer token
    Tokens,       \* rows of the tokens table
    Principals,   \* users and agents
    Agents,       \* the principals that are agents
    NoToken,      \* no row; also a digest that is NULL
    Opens,        \* Opens[b]: the row whose Argon2 hash b verifies against
    Embeds,       \* Embeds[b]: the row whose id is spelled in b
    Owner,        \* Owner[k]: the principal of row k
    Legacy,       \* rows created before LEGACY_TOKEN_CUTOFF
    Unminted,     \* rows that do not exist yet; the others have no digest yet
    MaxEntries,   \* _TOKEN_CACHE_MAX_ENTRIES
    TTL,          \* TOKEN_CACHE_TTL_S
    MaxTime,      \* bound: the clock stops there
    MaxCalls      \* bound: calls started in a behaviour

ASSUME ThreadAssumption == Resolvers \cap Handlers = {}
ASSUME RowAssumption ==
    /\ NoToken \notin Tokens \cup Bearers
    /\ Opens \in [Bearers -> Tokens \cup {NoToken}]
    /\ Embeds \in [Bearers -> Tokens \cup {NoToken}]
    /\ Owner \in [Tokens -> Principals]
    /\ Legacy \subseteq Tokens \ Unminted /\ Unminted \subseteq Tokens /\ Agents \subseteq Principals
ASSUME HashAssumption ==  \* a hash is of one plaintext
    \A b, c \in Bearers : Opens[b] = Opens[c] /\ Opens[b] # NoToken => b = c
ASSUME ShapeAssumption ==  \* tokens minted since the cutoff spell their row's id
    \A b \in Bearers : Opens[b] # NoToken => Opens[b] \in Legacy \/ Embeds[b] = Opens[b]
ASSUME MintAssumption ==  \* the plaintexts the program may still mint
    \A k \in Unminted : \E b \in Bearers : Opens[b] = k
ASSUME CacheAssumption ==
    MaxEntries \in Nat \ {0} /\ TTL \in Nat /\ MaxTime \in Nat /\ MaxCalls \in Nat

Threads == Resolvers \cup Handlers

VARIABLES
    minted,      \* rows of the tokens table
    digest,      \* digest[k]: tokens.token_digest
    revoked,     \* rows whose revoked_at is set
    retired,     \* agents whose revoked_at is set
    pending,     \* rows and agents whose revocation is not committed
    admin,       \* users whose is_admin is set
    entries,     \* _entries: [key, expires, who, admin, used]; the order is that of used
    uses,        \* hits and puts so far, the last used of an entry
    seq,         \* _seq
    clearedAt,   \* _cleared_at
    evictedAt,   \* _evicted_at; 0 stands for the default, below every eviction
    now,         \* the monotonic clock
    pc,          \* pc[t]: the next step of thread t
    job,         \* job[t]: what t resolves or revokes, and what it has read
    calls,       \* calls started
    elsewhere,   \* rows revoked by another process
    changed,     \* changed[x]: when row or agent x was revoked or x made an admin; 0: never
    evicted      \* evicted[t]: principals evicted since t began its resolve

dbVars == <<minted, digest, revoked, retired, pending, admin, elsewhere, changed>>
cacheVars == <<entries, uses, seq, clearedAt, evictedAt>>
vars == <<dbVars, cacheVars, now, pc, job, calls, evicted>>

NoJob == [key |-> NoToken, row |-> NoToken, path |-> "none", generation |-> 0,
          readAt |-> 0, who |-> NoToken, admin |-> FALSE]

Init ==
    /\ minted = Tokens \ Unminted
    /\ digest = [k \in Tokens |-> NoToken]
    /\ revoked = {} /\ retired = {} /\ pending = {} /\ admin = {}
    /\ entries = {} /\ uses = 0
    /\ seq = 0 /\ clearedAt = 0
    /\ evictedAt = [p \in Principals |-> 0]
    /\ now = 1
    /\ pc = [t \in Threads |-> "idle"]
    /\ job = [t \in Threads |-> NoJob]
    /\ calls = 0
    /\ elsewhere = {}
    /\ changed = [x \in Tokens \cup Principals |-> 0]
    /\ evicted = [t \in Threads |-> {}]

-----------------------------------------------------------------------------
Goto(t, label) == pc' = [pc EXCEPT ![t] = label]
Return(t) == Goto(t, "idle") /\ job' = [job EXCEPT ![t] = NoJob]

Call(t) == pc[t] = "idle" /\ calls < MaxCalls /\ calls' = calls + 1

Others(key) == {e \in entries : e.key # key}
OthersThan(p) == {e \in entries : e.who # p}
Cached(key) == entries \ Others(key)

\* _NOT_REVOKED_AGENT and revoked_at IS NULL
Live(k) == k \in minted /\ k \notin revoked /\ Owner[k] \notin retired

-----------------------------------------------------------------------------
(* resolve_token                                                           *)

\* _token_cache.get: a hit moves to the end, an expired entry is deleted.
Lookup(t) ==
    \E b \in Bearers :
        /\ t \in Resolvers /\ Call(t)
        /\ \/ /\ \E e \in Cached(b) :
                   /\ now < e.expires
                   /\ entries' = Others(b) \cup {[e EXCEPT !.used = uses + 1]}
              /\ uses' = uses + 1
              /\ UNCHANGED <<pc, job>>
           \/ /\ \A e \in Cached(b) : now >= e.expires
              /\ entries' = Others(b)
              /\ UNCHANGED uses
              /\ Goto(t, "begin")
              /\ job' = [job EXCEPT ![t].key = b]
        /\ UNCHANGED <<dbVars, seq, clearedAt, evictedAt, now, evicted>>

BeginResolve(t) ==
    /\ pc[t] = "begin"
    /\ Goto(t, "digest")
    /\ job' = [job EXCEPT ![t].generation = seq, ![t].readAt = now]
    /\ evicted' = [evicted EXCEPT ![t] = {}]
    /\ UNCHANGED <<dbVars, cacheVars, now, calls>>

Found(t, k, path) == Goto(t, "build") /\ job' = [job EXCEPT ![t].row = k, ![t].path = path]

\* Seeded fault: a bearer that spells a row's id is not looked for by the scan.
MissedForGood(t, path) ==
    IF path \in {"tokenId", "legacy"} THEN Return(t)
    ELSE /\ Goto(t, IF Embeds[job[t].key] # NoToken THEN "tokenId" ELSE "legacy")
         /\ job' = [job EXCEPT ![t].path = path]

Missed(t, path) ==
    IF path = "legacy" THEN Return(t)
    ELSE /\ Goto(t, IF path = "digest" /\ Embeds[job[t].key] # NoToken THEN "tokenId"
                    ELSE "legacy")
         /\ job' = [job EXCEPT ![t].path = path]

\* (a) the unique index on token_digest
ResolveByDigest(t) ==
    LET hits == {k \in Tokens : digest[k] = job[t].key /\ k \notin revoked} IN
    /\ pc[t] = "digest"
    /\ \/ \E k \in hits : Found(t, k, "digest")
       \/ hits = {} /\ Missed(t, "digest")
    /\ UNCHANGED <<dbVars, cacheVars, now, calls, evicted>>

\* Seeded fault: the id alone is trusted.
ResolveByIdAlone(t) ==
    LET k == Embeds[job[t].key] IN
    /\ pc[t] = "tokenId"
    /\ IF Live(k) /\ digest[k] = NoToken THEN Found(t, k, "tokenId") ELSE Missed(t, "tokenId")
    /\ UNCHANGED <<dbVars, cacheVars, now, calls, evicted>>

\* (b) the row whose id is in the bearer, while it has no digest.  A type that
\* does not match misses before the Argon2 verify does.
ResolveByTokenId(t) ==
    LET k == Embeds[job[t].key]
        hit == Live(k) /\ digest[k] = NoToken /\ Opens[job[t].key] = k
    IN
    /\ pc[t] = "tokenId"
    /\ IF hit THEN Found(t, k, "tokenId") ELSE Missed(t, "tokenId")
    /\ UNCHANGED <<dbVars, cacheVars, now, calls, evicted>>

\* (c) an Argon2 verify of every live row from before the cutoff without digest
ResolveLegacy(t) ==
    LET hits == {k \in Legacy : Live(k) /\ digest[k] = NoToken /\ Opens[job[t].key] = k} IN
    /\ pc[t] = "legacy"
    /\ \/ \E k \in hits : Found(t, k, "legacy")
       \/ hits = {} /\ Missed(t, "legacy")
    /\ UNCHANGED <<dbVars, cacheVars, now, calls, evicted>>

\* _build_principal_and_touch reads the user or the agent; a revoked agent is
\* a miss of the path that found the row.
BuildPrincipal(t) ==
    LET p == Owner[job[t].row] IN
    /\ pc[t] = "build"
    /\ IF p \in retired THEN Missed(t, job[t].path)
       ELSE /\ Goto(t, "touch")
            /\ job' = [job EXCEPT ![t].who = p, ![t].admin = (p \in admin)]
    /\ UNCHANGED <<dbVars, cacheVars, now, calls, evicted>>

\* The last_used_at touch with COALESCE(token_digest, ?), and its commit; their
\* failure is ignored.
Touch(t) ==
    LET k == job[t].row IN
    /\ pc[t] = "touch"
    /\ \/ /\ digest' = [digest EXCEPT ![k] = IF @ = NoToken THEN job[t].key ELSE @]
          /\ pending' = {}
       \/ UNCHANGED <<digest, pending>>
    /\ Goto(t, "put")
    /\ UNCHANGED <<minted, revoked, retired, admin, elsewhere, changed, cacheVars,
                   now, job, calls, evicted>>

Oldest(s) == CHOOSE e \in s : \A f \in s : e.used <= f.used

\* Seeded fault: an entry too many.
FitsLoosely(s) == IF Cardinality(s) > MaxEntries + 1 THEN s \ {Oldest(s)} ELSE s

Fits(s) == IF Cardinality(s) > MaxEntries THEN s \ {Oldest(s)} ELSE s

Store(j, expires) ==
    /\ entries' = Fits(Others(j.key) \cup {[key |-> j.key, expires |-> expires, who |-> j.who,
                                           admin |-> j.admin, used |-> uses + 1]})
    /\ uses' = uses + 1

\* Seeded fault: the expiry counts from the end of the resolve.
PutLate(t) ==
    LET j == job[t] IN
    /\ pc[t] = "put"
    /\ IF clearedAt > j.generation \/ evictedAt[j.who] > j.generation
       THEN UNCHANGED <<entries, uses>> ELSE Store(j, now + TTL)
    /\ Return(t)
    /\ UNCHANGED <<dbVars, seq, clearedAt, evictedAt, now, calls, evicted>>

\* Seeded fault: any eviction since the resolve began drops the put.
PutAfterAnyEviction(t) ==
    LET j == job[t] IN
    /\ pc[t] = "put"
    /\ IF seq > j.generation THEN UNCHANGED <<entries, uses>> ELSE Store(j, j.readAt + TTL)
    /\ Return(t)
    /\ UNCHANGED <<dbVars, seq, clearedAt, evictedAt, now, calls, evicted>>

\* Seeded fault: the generation is not compared.
PutAlways(t) ==
    /\ pc[t] = "put"
    /\ Store(job[t], job[t].readAt + TTL)
    /\ Return(t)
    /\ UNCHANGED <<dbVars, seq, clearedAt, evictedAt, now, calls, evicted>>

Put(t) ==
    LET j == job[t] IN
    /\ pc[t] = "put"
    /\ IF clearedAt > j.generation \/ evictedAt[j.who] > j.generation
       THEN UNCHANGED <<entries, uses>> ELSE Store(j, j.readAt + TTL)
    /\ Return(t)
    /\ UNCHANGED <<dbVars, seq, clearedAt, evictedAt, now, calls, evicted>>

-----------------------------------------------------------------------------
(* revoke_token, the agent-token DELETE route and revoke_agent: the UPDATE,*)
(* the commit, and in a finally the eviction.  Either statement may raise. *)

Revoking(t, p, x) ==
    /\ Goto(t, "commit")
    /\ job' = [job EXCEPT ![t].who = p, ![t].row = x]

UpdateRaises(t, p) ==
    /\ Goto(t, "evict")
    /\ job' = [job EXCEPT ![t].who = p]
    /\ UNCHANGED dbVars

\* revoke_token asks for the caller's own row; the route has looked the agent's
\* row up.  Anybody else's row, or one already revoked, is left alone.
RevokeToken(t) ==
    \E p \in Principals, k \in Tokens :
        /\ t \in Handlers /\ Call(t)
        /\ p \in Agents => Owner[k] = p
        /\ \/ /\ Revoking(t, p, k)
              /\ IF Owner[k] = p /\ k \in minted \ revoked
                 THEN /\ revoked' = revoked \cup {k}
                      /\ pending' = pending \cup {k}
                      /\ changed' = [changed EXCEPT ![k] = now]
                 ELSE UNCHANGED <<revoked, pending, changed>>
              /\ UNCHANGED <<minted, digest, retired, admin, elsewhere>>
           \/ UpdateRaises(t, p)
        /\ UNCHANGED <<cacheVars, now, evicted>>

RevokeAgent(t) ==
    \E p \in Agents :
        /\ t \in Handlers /\ Call(t)
        /\ \/ /\ Revoking(t, p, p)
              /\ IF p \in retired THEN UNCHANGED <<retired, pending, changed>>
                 ELSE /\ retired' = retired \cup {p}
                      /\ pending' = pending \cup {p}
                      /\ changed' = [changed EXCEPT ![p] = now]
              /\ UNCHANGED <<minted, digest, revoked, admin, elsewhere>>
           \/ UpdateRaises(t, p)
        /\ UNCHANGED <<cacheVars, now, evicted>>

CommitRevoke(t) ==
    /\ pc[t] = "commit"
    /\ \/ pending' = {}
       \/ UNCHANGED pending
    /\ Goto(t, "evict")
    /\ UNCHANGED <<minted, digest, revoked, retired, admin, elsewhere, changed, cacheVars, now,
                   job, calls, evicted>>

\* evict_cached_principal
Evict(t) ==
    LET p == job[t].who IN
    /\ pc[t] = "evict"
    /\ seq' = seq + 1
    /\ evictedAt' = [evictedAt EXCEPT ![p] = seq + 1]
    /\ entries' = OthersThan(p)
    /\ evicted' = [u \in Threads |-> evicted[u] \cup {p}]
    /\ Return(t)
    /\ UNCHANGED <<dbVars, uses, clearedAt, now, calls>>

\* invalidate_token_cache
Clear(t) ==
    /\ t \in Handlers /\ Call(t)
    /\ entries' = {}
    /\ seq' = seq + 1
    /\ clearedAt' = seq + 1
    /\ evicted' = [u \in Threads |-> Principals]
    /\ UNCHANGED <<dbVars, uses, evictedAt, now, pc, job>>

-----------------------------------------------------------------------------
(* create_user_token and create_agent_token, which looks at the agent first *)

StartMint(t) ==
    \E k \in Tokens \ minted :
        /\ t \in Handlers /\ Call(t)
        /\ Owner[k] \notin retired
        /\ Goto(t, "insert")
        /\ job' = [job EXCEPT ![t].row = k]
        /\ UNCHANGED <<dbVars, cacheVars, now, evicted>>

\* The INSERT and its commit, or neither.
InsertToken(t) ==
    LET k == job[t].row IN
    /\ pc[t] = "insert"
    /\ \/ /\ minted' = minted \cup {k}
          /\ digest' = [digest EXCEPT ![k] = CHOOSE b \in Bearers : Opens[b] = k]
          /\ pending' = {}
       \/ UNCHANGED <<minted, digest, pending>>
    /\ Return(t)
    /\ UNCHANGED <<revoked, retired, admin, elsewhere, changed, cacheVars, now, calls, evicted>>

-----------------------------------------------------------------------------
\* Another handler on the same connection rolls its transaction back, and with
\* it the revocations that had joined it (module DocStore).
RollbackByOther ==
    /\ pending # {}
    /\ revoked' = revoked \ pending
    /\ retired' = retired \ pending
    /\ pending' = {}
    /\ UNCHANGED <<minted, digest, admin, elsewhere, changed, cacheVars, now, pc, job, calls, evicted>>

\* scripts/admin: an operator revokes a row by SQL, or runs make_admin.  No
\* other process can write while a transaction of this one is open.
RevokeElsewhere ==
    \E k \in minted \ revoked :
        /\ pending = {}
        /\ revoked' = revoked \cup {k}
        /\ elsewhere' = elsewhere \cup {k}
        /\ changed' = [changed EXCEPT ![k] = now]
        /\ UNCHANGED <<minted, digest, retired, pending, admin, cacheVars, now, pc, job, calls, evicted>>

MakeAdmin ==
    \E p \in Principals \ Agents :
        /\ pending = {} /\ p \notin admin
        /\ admin' = admin \cup {p}
        /\ changed' = [changed EXCEPT ![p] = now]
        /\ UNCHANGED <<minted, digest, revoked, retired, pending, elsewhere, cacheVars, now, pc, job,
                       calls, evicted>>

Tick ==
    /\ now < MaxTime
    /\ now' = now + 1
    /\ UNCHANGED <<dbVars, cacheVars, pc, job, calls, evicted>>

Step(t) ==
    \/ Lookup(t) \/ BeginResolve(t) \/ ResolveByDigest(t) \/ ResolveByTokenId(t)
    \/ ResolveLegacy(t) \/ BuildPrincipal(t) \/ Touch(t) \/ Put(t)
    \/ RevokeToken(t) \/ RevokeAgent(t) \/ CommitRevoke(t) \/ Evict(t) \/ Clear(t)
    \/ StartMint(t) \/ InsertToken(t)

Next ==
    \/ \E t \in Threads : Step(t)
    \/ RollbackByOther \/ RevokeElsewhere \/ MakeAdmin \/ Tick

Spec == Init /\ [][Next]_vars

-----------------------------------------------------------------------------
Labels == {"idle", "begin", "digest", "tokenId", "legacy", "build", "touch", "put",
           "commit", "evict", "insert"}
Jobs == [key : Bearers \cup {NoToken}, row : Tokens \cup Agents \cup {NoToken},
         path : {"none", "digest", "tokenId", "legacy"}, generation : Nat, readAt : Nat,
         who : Principals \cup {NoToken}, admin : BOOLEAN]
Entries == [key : Bearers, expires : Nat, who : Principals, admin : BOOLEAN, used : Nat]

\* The variables have their types, the cache its bound and one entry for a key.
TypeOK ==
    /\ minted \subseteq Tokens
    /\ digest \in [Tokens -> Bearers \cup {NoToken}]
    /\ revoked \subseteq minted /\ elsewhere \subseteq minted
    /\ retired \subseteq Agents
    /\ pending \subseteq Tokens \cup Agents
    /\ admin \subseteq Principals \ Agents
    /\ entries \subseteq Entries /\ Cardinality(entries) <= MaxEntries
    /\ \A e, f \in entries : e.key = f.key \/ e.used = f.used => e = f
    /\ uses \in Nat
    /\ seq \in Nat /\ clearedAt \in 0..seq
    /\ evictedAt \in [Principals -> 0..seq]
    /\ now \in Nat /\ calls \in Nat
    /\ pc \in [Threads -> Labels]
    /\ job \in [Threads -> Jobs]
    /\ changed \in [Tokens \cup Principals -> Nat]
    /\ evicted \in [Threads -> SUBSET Principals]

\* evict_cached_principal and put: once a revocation in this process has run
\* its finally, no entry resolves the token, whatever resolves were under way.
RevokedStaysOut ==
    \A e \in entries :
        LET k == Opens[e.key] IN
        \/ Live(k)
        \/ k \in elsewhere
        \/ \E t \in Threads : pc[t] \in {"commit", "evict"} /\ job[t].who = Owner[k]

\* put's read_at: an entry that can still be served is less than TTL behind a
\* revocation or an is_admin change, made in this process or in another.
StaleLessThanTTL ==
    \A e \in entries : now < e.expires =>
        /\ Opens[e.key] \in revoked => now < changed[Opens[e.key]] + TTL
        /\ e.admin # (e.who \in admin) => now < changed[e.who] + TTL

\* The digest backfill and the cache: a row's digest, and an entry's principal,
\* are those of the one bearer whose plaintext the row was minted with.
OnlyTheBearerOpens ==
    /\ \A k \in Tokens : digest[k] # NoToken => Opens[digest[k]] = k
    /\ \A e \in entries : Opens[e.key] # NoToken /\ Owner[Opens[e.key]] = e.who

\* put's docstring: a resolve is kept from the cache only by an eviction of its
\* own principal, or by a clear, since it began.
EvictionIsScoped ==
    [][\A t \in Threads :
         pc[t] = "put" /\ pc'[t] = "idle" /\ (\A e \in entries' : e.key # job[t].key)
           => job[t].who \in evicted[t]]_vars

\* _resolve_uncached: while bearers are resolved one at a time, a row that was
\* there from the start and was never revoked is found by one of the paths,
\* before its digest is backfilled, after, and with any other bearer in between.
LiveTokenAccepted ==
    [][\A t \in Threads :
         LET k == Opens[job[t].key] IN
         pc[t] \in {"tokenId", "legacy", "build"} /\ pc'[t] = "idle" /\ k # NoToken
           => k \in Unminted \/ changed[k] # 0 \/ changed[Owner[k]] # 0]_vars
=============================================================================
