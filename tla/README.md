# Markland in TLA+

Markland publishes Markdown documents that people and their agents share: an HTTP application, an MCP
server mounted in it, a stdio MCP server and a few admin scripts, over one SQLite file. This
directory holds TLA+ models of the parts of it whose correctness depends on order: what two
callers do to the same row, what a stop in the middle leaves behind, what a cache still says after
the row has changed. TLC checks each model on a small instance; TLAPS proves for every
instance the safety properties that the runs check.

    tlc -config DocStore.cfg MCDocStore      # a run (the table below names module and config)
    tlapm DocStoreProofs.tla                 # the proofs about DocStore; likewise the other ...Proofs

`PROJECT.json` lists the runs, the source lines behind each definition, a seeded fault for each
property, the findings and the hazards. Paths below are relative to the repository; `markland/`
stands for `src/markland/`.

## 1. Inventory

| component | state it keeps | operations | model |
|---|---|---|---|
| SQLite through `sqlite3` (`db.py:31`, `run_app.py:68`) | committed tables, the transaction of a connection, its snapshot | BEGIN IMMEDIATE, statements with the implicit BEGIN, COMMIT, ROLLBACK | `Sqlite` |
| Documents, revisions, forks (`service/docs.py`, `service/save.py`, `db.py`) | rows with a version, the revision log | publish, update, delete, fork, bookmark | `DocStore`, `Documents` |
| Audit log (`service/audit.py`) | rows; errors are swallowed | record | `DocStore` |
| Bearer tokens and their cache (`service/auth.py`, `service/agents.py`) | tokens with hash, digest, revocation; a bounded cache with generations | resolve by digest, by id, by legacy scan; mint, revoke, evict, clear | `TokenCache` |
| Invites (`service/invites.py`) | uses left, expiry, revocation | create, resolve, accept, revoke | `Invites` |
| Device flow (`service/device_flow.py`) | status, user, polls, consumption, failed confirms | start, poll, authorize | `DeviceFlow` |
| Email dispatcher (`service/email_dispatcher.py`) | asyncio queue, worker, sleeping retries | enqueue, start, stop, send, retry | `EmailDispatcher`, `Outbox` |
| Grants, permissions (`service/grants.py`, `service/permissions.py`) | grants by document and principal | check, grant, revoke, invite for an unknown address | `Sharing`, with `Invites` |
| Visibility and share links (`service/docs.py`, `db.py`) | is_public, share_token | set_visibility, doc_meta, rotate, open by link; feature | `Sharing`, without feature |
| Sessions (`service/sessions.py`) | signed cookies, an epoch per user | issue, read, bump | `SignIn` |
| Magic links, pending intents (`service/magic_link.py`, `service/pending_intent.py`) | consumed link ids | issue, consume, collect; resume | `SignIn`, without resume |
| Rate limiters (`service/rate_limit.py`, `web/device_routes.py`) | token buckets, LRU; hits per host | check | `RateLimiter`, `SlidingWindow` |
| Presence (`service/presence.py`, `web/presence_gc.py`) | heartbeats with expiry, a sweeping task | set, clear, list, sweep | `Presence` |
| Listings (`service/docs.py` and others, `_mcp_envelopes.py`) | none on the server: a cursor with the caller | next page | `Pages`; unpaginated, in `Sharing` |
| HTTP application (`web/app.py`) | the lifespan of what lives in memory | start, stop, every request behind the limiter | `WebProcess` |
| Users, agents (`service/users.py`, `service/agents.py`) | rows | create, revoke_agent | in `SignIn`, `TokenCache`, `Sharing` |
| Admin scripts (`scripts/admin/`) | none of their own | a second process on the file | in `DocStore` and `TokenCache` |
| MCP tools (`server.py`) | none beyond the tables | checks and calls of the services | the calls, in the modules above |
| Rendered pages, metrics, log scrubbing, configuration | none beyond the tables | | not modelled |

How they interact. The hosted process (`run_app.py`) opens **one** connection with
`check_same_thread=False` and hands it to the event loop and to every handler of the thread pool.
There is no lock around it. The stdio server and the admin scripts open their own connection
to the same file. The middleware resolves a bearer on the event loop before a handler runs; a
handler checks permission, changes rows, writes an audit row, and enqueues mail. A device
authorization may carry an invite, which it accepts on the way.

What is hard, component by component, and what makes it correct:

- *Connection.* Python begins a transaction implicitly before a data-changing statement, and
  `commit()` and `ROLLBACK` end whichever transaction the connection has, whoever began it.
  Threads that share it interleave between statements. An error after the implicit BEGIN leaves
  the transaction open.
- *Documents.* An update reads, snapshots, writes and prunes under `BEGIN IMMEDIATE`
  (`docs.py:604`). Correct: an acknowledged update is one version, made on the version its caller
  named, never lost; a revision is the content that version had; the log is the last
  `MAX_REVISIONS_PER_DOC` superseded versions.
- *Token cache.* A resolve reads rows and puts what it read some time later; a revocation
  must reach entries that are not there yet. Correct: after its eviction no revoked bearer is served;
  a change another process made is seen within the TTL; a live bearer is never refused.
- *Device flow and invites.* Each is a read followed by an unconditional write in another
  statement. Correct: one token per code, for somebody who authorized it; one acceptance per
  single-use invite; grants never lowered.
- *Dispatcher.* A mail that failed is in no queue while its retry sleeps; a stop may come in the
  middle of a send; sync routes put mails from pool threads on a queue that takes no lock. Correct: a mail is in one place, is tried a bounded number of times, and is
  settled while the dispatcher runs; drain's count is true.
- *Sharing.* A permission check is three SELECTs; a revocation or a change to private is a check and
  several writes; answers and mails name a link read a moment ago. Correct: an answer was right at some
  instant of the call; only the owner changes anything; whoever is shut out holds no link that works.
- *Sign-in.* A link's record is written after its signature is checked and is collected when the
  signature should have lapsed; a session carries an epoch read in one statement and compared in another.
  Correct: a link opens once; a cookie from before a logout opens nothing after it, every other one
  stays good until it is too old.
- *Limiters.* One runs on the event loop and is atomic, one on the pool without a lock; both forget.
  Correct: nobody exceeds burst and rate except by the eviction or the race that the model names.
- *Presence.* Correct: whoever was answered an expiry is listed until then; what has expired is swept while
  the process runs.
- *Listings.* Rows move, join and leave between two pages, timestamps collide, and a timestamp is read
  before the statement that writes it. Correct: nothing twice but what crossing writers set back,
  and nothing missed that stayed where it was.

`PROJECT.json` lists the hazards at their lines, each with the properties that are about it.

## 2. Modules

    Sqlite <- DocStore <- MCDocStore          Invites <- DeviceFlow <- MCDeviceFlow
                                                 ^------ Sharing <- MCSharing
                                              TokenCache <- MCTokenCache
    Pool <- RateLimiter, SlidingWindow,       SignIn <- MCSignIn
            Presence, Pages                   Outbox <~(refinement)~ EmailDispatcher
               ^--- WebProcess <- MCWebProcess     Documents <~(refinement)~ DocStore

`DocStoreProofs`, `TokenCacheProofs`, `DeviceFlowProofs`, `EmailDispatcherProofs`, `SignInProofs`,
`SharingProofs` and `WebProcessProofs` each extend the module they are about; `DocLogProofs`
extends `DocStoreProofs`.

**Sqlite** is external: SQLite in WAL mode as the code meets it. A step is one SQL statement,
since `sqlite3_step` runs under the connection's mutex. `disk` is the committed tables, `mode[c]` the
state of connection c's transaction (none, open without a snapshot, with a current
snapshot, with an overtaken one, with the write lock), `view[c]` the tables its statements see.
A statement that cannot have the lock within the five-second timeout is refused; the wait itself
is not a state.

**DocStore** runs threads through `docs.publish`, `update`, `delete`, `save.fork_document`,
bookmarks, and a *touch* that stands for every handler of one write and a commit (`last_used_at`,
presence and the like). Every SQL statement is an action, labelled by `pc[t]`, with its success, its
refusal for the lock, its constraint failure, and the `except` clause that follows. `connOf` says
which thread has which connection: one for all as in the hosted process, or one each as in the stdio
server and the scripts. `Crash(c)` ends the process that holds c. `history` and `gone` are
ghosts: what callers were told; `mixed` is a ghost that records whether a thread's statement has met
another thread's transaction. A permission denial precedes the first write of a call, so
callers are permitted. Content is the number of the call that wrote it.

**Documents** is what `DocStore` promises its callers. A call begins (`Call`), takes effect at
one instant (`Publish`, `Update`, `Delete` or `Fork`, each a `Put` of one row) or never, and
ends (`End`, of several calls at once when their process stops); nothing else changes a document.
An update replaces the version it names; a fork has the content of some version of its source, not
always the last, since it may read a snapshot that another commit has overtaken. `Service` in `DocStore` is
the mapping: `docs` are the committed documents, `past` comes from `history`, `request` is `call`,
`known` is `used`, and `stage` follows from the label (`StageAt`): a call is done from the COMMIT that
its operation answers for. Touches and bookmarks are calls that never change a document.

**TokenCache** has the rows of the tokens table, the cache (`entries`, `_seq`,
`_cleared_at`, `_evicted_at`), a clock, and threads. A resolve is: the locked `get`, the
generation and `read_at`, each of the three lookups, the principal, the touch that backfills the
digest, the locked `put`. A revocation is: the UPDATE, the commit, and the eviction in `finally`;
either of the first two may raise. The middleware calls `resolve_token` on the event loop without
an await, so one resolver runs at a time, while pool threads revoke and mint between its steps.
`RollbackByOther` is what the shared connection may do to a revocation not yet
committed. `RevokeElsewhere` and `MakeAdmin` are other processes. A bearer is its own digest:
SHA-256 is taken as injective. The order of `_entries` is kept as `used`, a number that `get` and `put`
draw from the counter `uses`: the least recently used entry has the least (`Oldest`). `MCView` tells
states apart by that order and not by the numbers.

**Invites** and **DeviceFlow**, which extends it. Handlers are pool threads; a call is its reads
and writes in order, and `Crash` clears the threads while the rows stay. `overlapped` is a ghost:
the invites, users and devices for which two calls were both between their read and their write,
or a stop fell between them. Each write commits with its statement here, and audit rows are left
out: what the shared connection adds is `DocStore`'s subject.

**EmailDispatcher** has the queue with its unfinished count, the worker, the mail in its hand,
the sleeping retries. A step is what the loop runs between two awaits. Async handlers enqueue on the
loop (`Enqueue`: the magic link, `web/auth_routes.py:95`), sync routes on a pool thread (an acceptance,
`web/invite_routes.py:226`; a grant, `web/api_grants.py:162`). `asyncio.Queue` takes no lock, so that put is two steps, the append (`EnqueueOff`) and the
count with the wake-up (`CountOff`), and the worker's get is two where a put may come in between: it
finds the queue empty (`LookEmpty`) and registers its future (`Wait`). While the worker is between those,
nothing else runs on the loop (`Loop`). A `task_done` that finds the count at zero raises and ends the worker, which is then `dead`:
`start` returns early and `stop` raises. CPython does not
switch threads inside the one statement that adds to the count. **Outbox** is the abstract
specification: mails are new, accepted, settled or lost; at most `MaxSends` tries; settled is final;
only a stop or the end of the process loses a mail. Delay and jitter are a sleep that ends.

**Sharing**, which extends `Invites`, is one document: its row, the grants of users and agents, the
accounts, the invites made for addresses. `req[t]` is the call thread t is in. A call starts with
the check its tool makes; each SELECT of the check is an action (`CheckRow`, `CheckDirect`,
`CheckInherited`), and `AfterCheck` and `NextReq` say where an allowed call goes on: a tool that
checks and then calls a service that checks again does both. `Standing` and `Verdict` are the
abstract specification of access, on the rows of one instant; `AnswerRight` relates the answers to
it. `Shown` collects what shows somebody that the document is there (lists, searches, bookmarks, the
link to a fork's source). Share tokens are numbers, in order of issue. Writes commit with
their statement, as in `Invites`. Ghosts: `exposed` and `knows` (links), `outside` (whom a
revocation has shut out), `right`, `moved`, `torn`. `Observe` keeps them.

**SignIn** has the tables as every statement sees them (`db`) and as last committed (`disk`), since
the epoch and the record of a link are written and committed in two statements and any other
handler of the process may commit or roll back in between (`CommitByOther`, `RollbackByOther`). A verification
is the signature check, the collection, the INSERT OR IGNORE, its commit, the user, the epoch and
the signature of the cookie. Cookies are records; there is no browser, so every cookie ever handed out
may be presented.

**Pool** has the clock and the threads. **RateLimiter** is one atomic step per check: `check`
holds no await. **SlidingWindow** is a statement per step, on the pool: the collection of stale keys
(`FindStale`, `DropStale`), the deque, and each look, `popleft`, comparison and append, with the
errors that a dict or deque changed by another thread raises. `Queue` reads the clock and looks the deque up in
one step; a collection between the two is one of the races that `WindowKept` excepts. **Presence** has the rows and the
sweeping task, which is between its delete and its sleep, or stopped. **Pages** has the rows of a
listing with their sort keys and one caller's walk; the eight listings differ in what may happen to
their rows meanwhile. A writer reads the clock before its statement (`db.py:570`, `:681`), so what it
writes is any time up to now (`Stamp`); the clock itself only goes forward. **WebProcess** puts them together: a request is charged to its caller's
bucket and begins its handler in one step, `Stop` takes what is in memory, and the tables and the
caller's cursor stay.

Definitions marked *Seeded fault* are plausible bugs of the definition they precede. No
specification uses them; they show that each property can be broken.

## 3. Runs

| run | module, config | what it asks | bounds |
|---|---|---|---|
| `doc_store` | `MCDocStore`, `DocStore.cfg` | acknowledged updates are the committed ones, on the named version; the revision log is theirs; every call is one step of `Documents` | 2 threads, both deployments, 2 documents of which one is published, 3 calls, a log of 1 |
| `token_cache` | `MCTokenCache`, `TokenCache.cfg` | no revoked token served, staleness below the TTL, no live token refused, eviction scoped | 1 resolver, 2 handlers, 3 bearers, 1 entry, TTL 1, clock to 2, 3 calls |
| `device_flow` | `MCDeviceFlow`, `DeviceFlow.cfg` | one token, for an authorizer; invites used once; grants from invites, never lowered | 2 handlers, 2 users, 2 invites, 1 device, clock to 3, 6 calls |
| `email_dispatcher` | `EmailDispatcher`, `EmailDispatcher.cfg` | one place per mail, the count, the outbox, every mail settled unless a put from the pool crossed the worker | 3 mails, 2 retries, 2 stops or crashes |
| `sharing` | `MCSharing`, `Sharing.cfg` | answers right at some instant; owner only; dead links stay dead; lists show what may be seen; one invite per address | 2 handlers, an owner, a user who signs up on the way, an agent of each, 3 invites, 3 calls |
| `sign_in` | `MCSignIn`, `SignIn.cfg` | a link opens once; logged out stays out, signed in stays in; accounts are kept | 2 handlers, 2 links to a new address, a member with a session, ages 1, clock to 3, 3 calls |
| `web_process` | `MCWebProcess`, `WebProcess.cfg` | rates, windows, heartbeats, page walks, the sweep | 2 handlers, 2 callers with rates 2 and 1 from one host, 1 bucket, 1 hit a window, a collection at every 2nd check, 3 rows in pages of 1 or 2, clock to 3, 3 or 4 calls |
| `shared_connection` | `MCDocStore`, `SharedConnection.cfg` | *violated:* `if_version` on one connection | as `doc_store`, updates and touches |
| `audit_lockout` | `MCDocStore`, `AuditLockout.cfg` | *violated:* a failed audit row is harmless | a connection each |
| `fork_seed` | `MCDocStore`, `ForkSeed.cfg` | *violated:* a fork that returned has its seed | forks and touches, 2 calls |
| `token_race` | `MCDeviceFlow`, `TokenRace.cfg` | *violated:* one token per code | as `device_flow` |
| `invite_race` | `MCDeviceFlow`, `InviteRace.cfg` | *violated:* a single-use invite is used once | as `device_flow` |

Why the bounds are enough. Three document calls are the shortest in which an update, a rival
update and a third party's commit meet, or a fork, an update of the fork and another
commit; a log of one is full at the second update, so pruning is exercised at its limit. The
cache instance has the smallest cache that evicts by size, a legacy secret that spells another
row's id (the one case in which the three lookups interfere), that row without a digest, and a row minted
during the run; three calls fit a resolve, a revocation and a rival of either. TTL 1 with a clock to
2 makes an entry live, expire and be renewed. Six invite and device calls let an invite be
created and carried, a device started, authorized, and polled twice; `Window = 1` and `CodeTTL = 2`
put both the slow-down and the expiry inside the clock; `MaxFailed = 1` makes the lock
reachable. Three mails and two retries let a mail be retried behind another, with a third waiting, and
stop twice. Three calls in `sharing` are
a grant or a read, a revocation beside it and whatever comes between; its two agents are one whose
user may be granted access and one whose user is the owner; its states are told apart by
`MCView`, without the ghost of who accepted an invite and without the answers of calls that are over. Three calls in `sign_in` are the two
verifications of one link and a third, or a logout between sign-ins; with ages of 1 and a clock to
3 a record is collected at the second at which its link lapses. In `web_process` one bucket for two
callers evicts at every change of caller; two calls make a collection and a third meets it. Its
behaviours have requests of one kind each -- codes, presence or pages, always with others that
only pass the limiter (`MaxCalls` is a function of the kinds): those parts share the clock,
the threads and the limiter, and no rows. Three calls are a walk of three pages, or of two with a change
between; presence has four, for a heartbeat, its renewal, a failed sweep and a stop. Symmetry is used
for handlers, and in `sign_in` for links, only in configs without a liveness property. Every `CHECK_DEADLOCK FALSE` is because the callers may stop calling.

`NoLostUpdate`, `RevisionsFaithful` and `RevisionWindow` are guarded by `Whole`:
the threads have a connection each, or no transaction has been met by two threads so far. That is
the most the code provides; `shared_connection` shows what happens otherwise. `IsService` has the
same guard, on the state a step leads to (`Whole'`): every step that keeps to it is a step of
`Documents` or changes nothing of it. With `if_version` left uncompared, or `BEGIN` left to the first
write, an update commits on a version its caller did not name, and `Documents` has no such
step. `CasHonoured`, the same of the acknowledged updates in `history`, is part of `IInv` and proved; no run
checks it beside `IsService`. `SingleUse`,
`OneToken` and `NoDowngrade` except the rows in `overlapped` for the same reason, and
`token_race` and `invite_race` show the exception.

The properties of the newer runs name their exceptions in the same way, and TLC finds a violation
when any one of them is taken out:

- `AnswerRight`: access changed twice while the check ran (`moved[t] = 2`). The three SELECTs then
  see a mixture that never was.
- `PrivateLinkRotated`: a rotation was lost to another visibility call or to a stop (`torn`). Then a document is
  private under a link that was public, and nothing rotates it later.
- `RevokedLinkDead`: a call of the principal's own that is under way when the revocation answers does
  not count, for it may still read the new link: `get` reads the row again after its check
  (`service/docs.py:251`).
- `OneInvitePerEmail`: two grants had both found no invite (`overlapped`).
- `LinkOnce`: a verification outlived its signature check by the second in which the link's record
  was collected (`late`), or its record was rolled back by another handler (`undone`). A comment says a
  collected row can never collide with a valid consume (`service/magic_link.py:102`); the first
  exception is when it can.
- `LoggedOutStaysOut` and `SignedInStays`: an epoch was taken back before its commit (`undone`). A
  sign-in that read it holds an epoch that a later logout reaches again.
- `RateKept`: at least `MaxKeys` other keys were checked in between, so the bucket is a new one.
- `WindowKept`: two checks of one host ran at once, or a collection dropped a deque that a check had in
  hand or had filled since the collection looked (`raced`). Nothing locks the windows.
- `HeartbeatKept`: two heartbeats of one principal crossed (`crossed`); the earlier may be
  written last.
- `PageWalk`: an older stamp landed on a row after a younger one (`setBack`), so that the row fell behind
  the cursor: it may be given once more for each such time. The walk still misses nothing.
- `AllSettled`: a put from a pool thread fell between the worker's look at the queue and its wait
  (`missed`), and the mail waits for the next put; or its count came after the `task_done` of its
  own mail, and the worker is `dead`.

`RevisionWindow` lets a fork's log hold the seed version 1 anywhere: the fork does not commit it
(finding 3), so it lands with the next commit on the connection, perhaps after later revisions.

`LiveTokenAccepted` speaks of one resolver at a time: with two, one may backfill the digest
between the other's miss by digest and its scan for rows without one. The middleware rules
that out today; moving resolves to the pool (`docs/FOLLOW-UPS.md:173`) would not.

Fairness is assumed in two runs. In `email_dispatcher`: weak fairness of the worker's steps `LookEmpty \/ Wait \/ Take` (the loop runs ready tasks),
of `Settled \/ Failed` (the HTTP call of the client returns or raises), of each `CountOff(m)` (a pool
thread in the middle of a put goes on), and of each `Wake(m)` (a
sleep ends). Nothing is assumed of enqueueing, starting or stopping, nor that the provider ever
succeeds. A waiting worker is never woken but by a put. A put from a pool thread resolves its
future, if it is registered, without waking the loop's selector; the end of the handler
does that, through the loop's own thread-safe callback, so a resolved worker runs. A put that finds no
future resolves none, and then nothing is assumed: the worker stays in `waiting`. In `web_process`: weak fairness of the sweeping task's own
steps (`Sweeping`): its DELETE returns or raises, and its sleeps end. A sweep that raises
is `SweepError`, of which nothing is assumed but that there are finitely many (the bound);
`ExpiredSwept` makes no promise across a stop, and nothing is assumed of `Startup`. All other runs check safety only and need no fairness.

## 4. Findings

Each is a sentence of the code's own that the code does not keep; the run prints the behaviour.

1. `shared_connection`: "`if_version` is REQUIRED and must equal the current stored version"
   (`markland/service/docs.py:588`). On the one connection of the hosted process another handler's
   `commit()` ends an update's transaction between its SELECT and its UPDATE, a second update begins,
   and both are acknowledged on the same version. `docs/FOLLOW-UPS.md:151` and `:228` know of
   the cause. The model has only the interleaving of statements; the mix-ups inside `sqlite3`
   that those entries also report are not modelled.
2. `audit_lockout`: "Business logic must never fail because auditing failed"
   (`markland/service/audit.py:4`). The swallowed error leaves the implicit transaction open,
   and the caller's next `BEGIN IMMEDIATE` is refused.
3. `fork_seed`: "seed revision 1" (`markland/service/save.py:31`). The seed is never committed by the
   fork.
4. `token_race`: "a single subsequent `poll` mints a user token"
   (`markland/service/device_flow.py:14`). Two polls mint two.
5. `invite_race`: "single_use -> 0 after first use" (`markland/service/invites.py:215`). Two
   acceptances consume it twice.

Five more sentences of the code are not kept, for which there is no run of their own: `markland_delete`
says it removes everything of a document (`markland/server.py:858`), and its invites stay; a link
to an unknown address is reused whatever its level, so a grant to edit may leave an invite to view
(`markland/service/grants.py:363`); an agent with a grant of its own may read a document that
`fork` calls not found for its user; `list_bookmarks_for_user` leaves out the caller's own private
documents (`markland/db.py:773`); and `enqueue` says that it is
safe to call from sync contexts and that the worker picks the mails off the queue
(`markland/service/email_dispatcher.py:199`), but sync routes call it on a pool thread, where a put between the
worker's look at the empty queue and the registration of its future wakes nobody. `AllSettled` without
its exception for `missed` fails on exactly that, within five steps, and holds without either
exception of the pool in a `Next` without `EnqueueOff`, as if the put came by `call_soon_threadsafe`.

## 5. Proofs

Every theorem is for all values of the constants that satisfy the named assumptions of the module it is
about, which TLC evaluates on the instance of each run. In each module the invariant `IInv` is the
property strengthened until every step keeps it, TLC has checked it on the run's instance, each
action has a lemma `...Keeps`, and the theorems combine `Init => IInv` and
`IInv /\ [Next]_vars => IInv'`.

| module | theorem | statement |
|---|---|---|
| `DocStoreProofs` | `Invariance`, `TypeCorrect` | `Spec => []IInv`, `[]TypeOK` |
| | `NoUpdateIsLost` | `Spec => []NoLostUpdate` |
| | `CompareAndSwap` | `Spec => []CasHonoured` |
| | `ServiceInvariance` | `Spec => []ServiceInv` |
| | `DocStoreIsService` | `Spec => IsService` |
| | `SeparateConnections` | with a connection for every thread, `Spec => Service!Spec` |
| `DocLogProofs` | `LogInvariance` | `Spec => []LogInv` |
| | `RevisionsAreTrue`, `WindowIsKept` | `Spec => []RevisionsFaithful`, `[]RevisionWindow` |
| `TokenCacheProofs` | `TokenCacheInvariance`, `TokenCacheTypes` | `Spec => []IInv`, `[]TypeOK` |
| | `RevocationReachesCache` | `Spec => []RevokedStaysOut` |
| | `StaleEntriesExpire` | `Spec => []StaleLessThanTTL` |
| | `BearersOpenTheirOwn` | `Spec => []OnlyTheBearerOpens` |
| | `PutsOnlyDroppedForTheirOwn` | `Spec => EvictionIsScoped` |
| | `LiveTokensAreFound` | with at most one resolver, `Spec => LiveTokenAccepted` |
| `DeviceFlowProofs` | `DeviceFlowInvariance`, `DeviceFlowTypes` | `Spec => []IInv`, `[]TypeOK` |
| | `InvitesServeOnce`, `GrantsComeFromInvites` | `Spec => []SingleUse`, `[]GrantsFromInvites` |
| | `DevicesMintOnce`, `TokensForAuthorizers` | `Spec => []OneToken`, `[]TokenForAuthorizer` |
| | `AuthorizationsHold`, `GrantsNeverFall` | `Spec => AuthorizationKept`, `NoDowngrade` |
| `EmailDispatcherProofs` | `DispatcherInvariance`, `DispatcherTypes` | `Spec => []IInv`, `[]TypeOK` |
| | `MailsInOnePlace`, `DrainCounts` | `Spec => []OnePlace`, `[]DrainIsTrue` |
| | `DispatcherIsOutbox` | `Spec => IsOutbox` |
| `SignInProofs` | `SignInInvariance`, `SignInTypes` | `Spec => []IInv`, `[]TypeOK` |
| | `LinksLetInOnce` | `Spec => []LinkOnce` |
| | `LogoutsReachCookies`, `CookiesStayGood` | `Spec => []LoggedOutStaysOut`, `[]SignedInStays` |
| | `AccountsStay` | `Spec => AccountKept` |
| `SharingProofs` | `SharingInvariance`, `SharingTypes` | `Spec => []IInv`, `[]TypeOK` |
| | `OnlyTheOwnerActs`, `ListsShowWhatIsViewable` | `Spec => []OwnerOnly`, `[]ListedIsViewable` |
| | `PublicLinksRotate`, `RevocationsShutOut` | `Spec => []PrivateLinkRotated`, `[]RevokedLinkDead` |
| | `AddressesHaveOneInvite` | `Spec => []OneInvitePerEmail` |
| | `AnswersWereRight` | `Spec => AnswerRight` |
| `WebProcessProofs` | `WebInvariance`, `WebTypes` | `Spec => []IInv`, `[]TypeOK` |
| | `RatesHold`, `WindowsHold` | `Spec => []RateKept`, `[]WindowKept` |
| | `HeartbeatsLast`, `WalksAreWhole` | `Spec => []HeartbeatKept`, `[]PageWalk` |

**DocStore** (`ThreadAssumption`, `DeploymentAssumption`, `DocAssumption`, `OpAssumption`,
`BoundAssumption`). `NoLostUpdate` is not inductive: it says nothing of an update under way. `IInv` adds

- `OneWriter`: one connection has the write lock; `OpenerKnown`: every transaction has a thread of
  that connection as its opener;
- `PerThread => ~mixed`: threads with a connection each never meet in a transaction. This
  needs `OpenerKnown`;
- and, while `~mixed`: `LockHeld`, a thread from its `BEGIN IMMEDIATE` to its COMMIT is the opener of a
  transaction with the lock; `RowsCurrent`, the row an update goes by is the committed one,
  at the version its caller named; `ViewsTrack`, a connection sees the committed documents, or, with the
  lock, those of its opener's next step (`Pending`); `NewDocsUnknown`, a document being
  created is in nobody's history; and the two properties.

The lock is what carries it: `RowsCurrent` survives another thread's commit because nobody else can hold
the lock in the meantime (`CommitViews`, `CommitSettles`). With `BEGIN` left to the first write
(`BeginUpdateDeferred`), `SelectRow` no longer establishes `LockHeld`, and TLC finds two updates
acknowledged. `mixed` only grows, so a step that ends in `~mixed` began in it; the lemmas go by the kind
of a statement (`WriteStep`, `QuietStep`, `FreeStep`, `CommitSettles`).

`DocStoreIsService` is the refinement: the initial states map to that of `Documents`, and every step to a
step of it or a stutter (`InitRefines`, `NextRefines`). `IInv` gives most of it: only the COMMITs that answer for an
operation change the committed documents (`OnlyCommitsChange`), by the one row of `Pending`, on the version named.
The rest is `ServiceInv`, an invariant of its own on top of `IInv`:

- `OpKnown`: a label belongs to an operation, so that `Stage` can be told from the label;
- `SnapshotsWere`: in a snapshot that a commit has overtaken, every row is one its document has had;
- `SourceWas`: so is the row a fork copies, by the time it inserts it. Before that it may still
  be in another thread's transaction, about to be committed (`Arriving`): on a shared connection a
  SELECT sees it, and a SELECT alone makes no transaction shared. Either the COMMIT comes first, or the fork's own
  INSERT falls into that transaction, which is then `mixed`.

Once a transaction has been shared, `IsService` asks nothing. `SeparateConnections` has no such
exception: it is what a connection for every thread (`docs/FOLLOW-UPS.md:159`) would buy.

The revision logs have an invariant of their own, `LogInv`, which `DocLogProofs` proves on top of
`IInv`. `RevisionWindow` speaks of committed logs only, but an update appends its snapshot, writes
the document and prunes in three statements, and another thread sees none of them until the COMMIT.
So `LogInv` describes, while `~mixed`, the committed logs and those in the transactions:

- `LogRests`: for a row at version n + 1 the log is `Run`, the last `MaxRevisions` of the versions
  1..n in order, or, for a document made by a fork, that or one entry less with the seed among them
  (`Seeded`). An absent row has an empty log;
- `Grown`, for the writer between its snapshot and its prune: at least that many versions, and at
  most all. `LastN` of a `Grown` log rests (`GrownPrunes`), whether the seed is kept or is what the
  prune drops;
- `Faithful`: every entry of every log, committed or not, is a version of `history` with its
  content;
- `SeedAwaited`: a fork that has committed the document and not seeded its log yet. The log has no
  seed, the fork's content is version 1, whatever updates have done since, and no other thread is
  about to seed it.

The `docs` of `IInv` are needed for all of it: the snapshot is of the row read (`RowsCurrent`), so
that the appended version is the one that follows the run. `WindowIsKept` then says that `Run` and
`Seeded` are the sequences `RevisionWindow` compares.

**TokenCache** (`ThreadAssumption`, `RowAssumption`, `HashAssumption`, `ShapeAssumption`,
`MintAssumption`, `CacheAssumption`). A resolve under way will put what it read, so `IInv` says of every
thread in one (`ThreadTrue`) what the properties say of entries. `JobOut` is the heart: a row that a resolve has
found is still live, or *excused*: another process revoked it, or its revoker has yet to run
its finally (`Revoker`), or the owner has been evicted since the resolve began, and then `put` drops
it by the generation. `JobFresh` and `EntriesFresh` bound staleness: what was read was read before the
row changed, and expires a TTL after the reading (`read_at`, not the time of the put: with the latter `EntriesFresh`
fails). `JobScoped` relates `_evicted_at` and `_cleared_at` to the ghost `evicted`. A cache of at most
`MaxEntries` is kept by `FitsBound`, from a well-founded choice of the oldest entry
(`LeastNatural`) and from `used` being another number for each entry.
`LiveTokensAreFound` has the hypothesis that there is at most one resolver, which is what the middleware
provides and what the run has; with two the statement is false (section 3). It adds `SearchInv`: a path
that passed over an unchanged row had a reason to.

**DeviceFlow and Invites** (`InviteAssumption`, `DeviceAssumption`). `JobTrue` says what each call has
read and that it is still enough for what the call will write: an acceptance about to consume a use
of a single-use invite finds it unused unless it is `overlapped`, a poll about to mint has a user
bound to its device, a call about to expire a row has read it past its time. `Alone` carries the
exceptions: two calls between the same read and write are noted as overlapped. `DevicesTrue` says that a
device with a token is marked or has a poll about to mark it. `AuthorizationKept` and `NoDowngrade`
are action properties, from `IInv` and the step.

**EmailDispatcher** (`RetryAssumption`). `OnePlace` needs that a mail is queued once (`QueuedOnce`),
that the queue, the sleepers and the hand are apart (`Apart`), and that together they are the accepted
mails (`Accounted`). `Puts` says that finitely many mails are being put by pool threads, each accepted
once, so that `DrainIsTrue` can count them: it is inductive with the worker that died of a `task_done`
counted as well (`ReleaseKeeps`, `CountedAlike`). `Tries` counts the sends by the attempts, which is what bounds them in the
refinement. `DispatcherIsOutbox` maps initial states to initial states and each step to a step of the
`Outbox` or a stutter (`InitRefines`, `StepRefines`).

**SignIn** (`SignInAssumption`). The tables are there twice, as seen and as committed, so `IInv` starts
with who owns the difference (`WritesOwned`): a row of a user is that of a call about to commit it, a
raised epoch that of a logout about to. So a rollback or a stop takes back only what is noted in `undone`
(`TakenBack`), and for every other user the epoch is the number of logouts (`EpochTrue`), a cookie
carries the number there were when it was issued, and its user has a row (`CookiesTrue`): that is both
`LoggedOutStaysOut` and `SignedInStays`. `LinkTrue` says that whoever was first with a link left its row,
committed if it was let in, or the link is too old (`Spent`); it needs that a row is never older than the link's signature
(`Dated`), which is why a collected row can be missed only by a verification in `late`. `IdsLeft`
counts the verifications under way to show that the model's user ids do not run out.

**Sharing** (`InviteAssumption`, `SharingAssumption`, which since `_grant_via_invite` makes only
single-use invites says that an invite for an address is one). `Held` says what a request is at each
statement: who calls, and that past its check a call that changes access is the owner's, which is `OwnerOnly`.
The other parts are about one thing each.

- Links: `TokensTrue` says that nobody has been shown, and no call has read, a link newer than the row's,
  so a rotation makes one that nobody has. `EdgesTrue` says that a change to private that will not rotate
  found the document private, or somebody published it in between (`torn`): with that,
  `PrivateLinkRotated` is inductive.
- Invites: `InvitesTrue` adds to `OneInvitePerEmail` the calls that have found none and will create one.
- The shut out: `OutsideTrue` says of everybody in `outside` that no grant, invite or publication reaches them,
  that they have not learned the link in force, and that no call of theirs holds it or an old public row. A
  revocation puts somebody there only in its answer, after the rotation, with no call of theirs under way.
- Answers: `Mixed` is what a check that has read the row will answer from the grants as they are now.
  `CheckTrue` says that until access has changed twice it is among the answers that were right at some
  instant of the check: with no change it is right now (`Agrees`), and the first change either leaves the row as it was read,
  so that it is right after, or leaves the grants, so that it was right before. With two changes
  it need not be, which is why `AnswerRight` excuses them.

**WebProcess** (`PoolAssumption`, `LimiterAssumption`, `WindowAssumption`, `PresenceAssumption`,
`PagesAssumption`, which says that a listing has finitely many rows, `WebAssumption`). Its parts share
the clock and the threads, so `IInv` has `PoolTrue`, what each thread has in hand, and one part for each
module; `RestAlone` says what a step that is another module's leaves true.

- Token buckets: `BucketTrue` is `RateKept` with the bucket in it. The requests let in since any time
  a caller was, and the tokens left, are together within a full bucket and its refill since then. The time
  told is late enough for a token, since `retry_after` is rounded up (`RoundedUp`). A bucket may be
  dropped and the caller begin with a full one: whoever is behind a bucket in the order has been
  checked since it was (`Queued`), their keys differ, so by the pigeonhole principle (`Distinct`) a
  bucket is dropped when `MaxKeys` others have been checked since, which is the case `RateKept` excuses.
- Sliding windows: `HostTrue` says that a deque is the end of the times its host was let through, that those
  gone from it are older than the window, also for the check under way, and that a hit comes more than a window
  after the one `Limit` earlier. A host is out of this once two of its checks were under way at once or its
  deque went with a hit in it.
- Presence: `BeatTrue` says that the row has what was answered, and that a heartbeat about to be
  written answers no less. The sweep takes what had expired at `sweptAt`, and `sweptAt <= now`.
- Listings: `PagesTrue` relates the cursor to what was given: rows given are not behind it, rows
  still to come are, unless an older stamp set the row back, and each time it did is counted (`StampSets`).
  `Served` does a page, from the order of the rows (`Order`, `Foremost`, `Hindmost`):
  the page is closed towards the front (`FirstRows`), and `limit + 1` rows being no more than `limit` means
  that nothing is left (`NothingLeft`).

Every safety and action property of a passing run has a theorem. Left to TLC, since TLAPS
does not reach them: liveness under fairness (`AllSettled`, `ExpiredSwept`), anything with
`ENABLED`, and what a recursive definition computes for every input. The runs that expect a violation are counterexamples and have no theorem.

## 6. Not modelled

- The inside of `sqlite3`: the statement cache two threads share, `InterfaceError`, rows of
  another thread's query. It is the C library's behaviour outside its contract, and no property
  of this code survives it.
- Backups, migrations and start-up (`init_db`), which run before handlers do.
- Pending intents (`/resume`): after a sign-in a fork or bookmark as `DocStore` has them; the cookie is
  the browser's, and a resume repeated before its answer forks again.
- A client that hangs up in the middle of an MCP answer (`web/mcp_disconnect.py`), which swallows
  an error of the transport and changes no state.
- `feature`, the admin's bypass in `markland_doc_meta`, the waitlist: flags and rows nothing else
  goes by.
- Rendering, templates, SEO pages, MCP envelopes and error codes, metrics, log scrubbing,
  configuration: they keep no state that another step depends on.
- The text a search matches, and the shape of tokens, codes and ids; Argon2 and signatures are taken
  as perfect.

## 7. Plan

The safety properties of the runs and both refinements are proved. What is left:

- the parts marked partly modelled in `PROJECT.json` as far as they keep state;
- instances with three threads in `DocStore` and `Sharing`, which TLC cannot finish; the theorems cover them.
