---------------------------- MODULE SignInProofs ----------------------------
(***************************************************************************)
(* Proofs about SignIn, for any threads, addresses, links, ages and        *)
(* bounds: types, that a link lets one verification in, that no cookie     *)
(* outlives a logout and every other one stays good, and that accounts     *)
(* stay -- each with the exceptions the property itself names.             *)
(***************************************************************************)
EXTENDS SignIn, FiniteSetTheorems, TLAPS

-----------------------------------------------------------------------------
(* The inductive invariant.                                                *)

Verifying == {"collect", "consume", "commitLink", "findUser", "createUser"}
Entering == {"commitUser", "readEpoch", "sign"}
Leaving == {"bump", "commitBump"}

JobSet == [link : Links \cup {NoLink}, at : 0..MaxTime, first : BOOLEAN,
           user : {0} \cup UserIds, epoch : Nat, out : SUBSET Cookies, logouts : Nat]

Types ==
    /\ db \in Tables /\ disk \in Tables
    /\ issued \in [Links -> 0..MaxTime] /\ \A l \in Links : issued[l] <= now
    /\ cookies \subseteq Cookies /\ \A c \in cookies : c.at <= now
    /\ now \in 1..MaxTime /\ calls \in 0..MaxCalls /\ ids \in UserIds
    /\ pc \in [Handlers -> Labels] /\ job \in [Handlers -> JobSet]
    /\ entered \in [Links -> Nat] /\ logouts \in [UserIds -> Nat]

\* There is an id left for every verification that may still create a user.
Creators == {t \in Handlers : pc[t] \in Verifying}
IdsLeft == IsFiniteSet(Creators) /\ Cardinality(Creators) + ids <= calls + 1

\* The row of a link is not older than its signature.
Dated(tables) ==
    \A l \in Links : tables.consumed[l] # 0 =>
        issued[l] > 0 /\ issued[l] <= tables.consumed[l] /\ tables.consumed[l] <= now

\* What a call under way has read, and what is still true of it.
JobTrue(t) ==
    /\ pc[t] \in Verifying => job[t].link \in Links /\ issued[job[t].link] > 0
    /\ pc[t] = "consume" => issued[job[t].link] <= job[t].at /\ job[t].at <= now
    /\ pc[t] \in Entering \cup Leaving => job[t].user \in UserIds
    /\ pc[t] \in Entering => job[t].user \in undone \/ HasRow(job[t].user)
    /\ pc[t] = "sign" =>
         \/ job[t].user \in undone
         \/ job[t].epoch = job[t].logouts /\ job[t].logouts <= logouts[job[t].user]
    /\ job[t].out \subseteq cookies
    /\ pc[t] \in Leaving => \A c \in job[t].out : c.user = job[t].user
    /\ pc[t] = "commitBump" =>
         job[t].user \in undone \/ \A c \in job[t].out : c.epoch < db.epoch[job[t].user]

\* A verification that was first and is about to be let in.
Holder(t, l) == pc[t] = "commitLink" /\ job[t].first /\ job[t].link = l

\* Nobody else can be first with a link that no verification is late with.
Spent(tables, l) == tables.consumed[l] # 0 \/ now - issued[l] > MaxAge

\* Whoever was first with a link left its row, or the link is too old.
LinkTrue(l) ==
    /\ entered[l] # 0 => issued[l] > 0
    /\ l \notin late \cup undone =>
         /\ entered[l] <= 1
         /\ entered[l] = 1 => Spent(db, l) /\ Spent(disk, l)
         /\ \A t \in Handlers : Holder(t, l) =>
              entered[l] = 0 /\ Spent(db, l) /\ \A u \in Handlers : Holder(u, l) => u = t

\* A write that is not committed is that of a call which is about to commit it.
WritesOwned ==
    /\ \A e \in Emails : db.users[e] # disk.users[e] =>
         disk.users[e] = 0 /\ \E t \in Handlers : pc[t] = "commitUser" /\ job[t].user = db.users[e]
    /\ \A u \in UserIds : db.epoch[u] # disk.epoch[u] =>
         \E t \in Handlers : pc[t] = "commitBump" /\ job[t].user = u

\* Every logout has raised the epoch by one, unless it was taken back.
EpochTrue == \A u \in UserIds : u \in undone \/ db.epoch[u] = logouts[u]

CookiesTrue ==
    /\ \A c \in cookies :
         \/ c.user \in undone
         \/ HasRow(c.user) /\ c.epoch = c.logouts /\ c.logouts <= logouts[c.user]
    /\ loggedOut \subseteq cookies
    /\ \A c \in loggedOut : c.user \in undone \/ c.epoch < db.epoch[c.user]

IInv ==
    /\ Types /\ IdsLeft /\ Dated(db) /\ Dated(disk)
    /\ \A t \in Handlers : JobTrue(t)
    /\ \A l \in Links : LinkTrue(l)
    /\ WritesOwned /\ EpochTrue /\ CookiesTrue

-----------------------------------------------------------------------------
(* What survives a step, whatever it writes.                               *)

\* Types and what a call holds give TypeOK.
LEMMA TypesTypeOK ==
  ASSUME IInv
  PROVE  TypeOK
<1>1. issued \in [Links -> 0..now] /\ \A l \in Links : db.consumed[l] <= now
  <2>1. \A l \in Links : issued[l] \in 0..now
    BY SignInAssumption DEF IInv, Types
  <2>2. \A l \in Links : db.consumed[l] \in 0..MaxTime
    BY DEF IInv, Types, Tables
  <2>3. QED
    BY <2>1, <2>2, SignInAssumption DEF IInv, Types, Dated
<1>2. \A t \in Handlers : job[t] \in [link : Links \cup {NoLink}, at : 0..MaxTime,
                            first : BOOLEAN, user : {0} \cup UserIds, epoch : Nat,
                            out : SUBSET cookies, logouts : Nat]
  <2> SUFFICES ASSUME NEW t \in Handlers
               PROVE  job[t] \in [link : Links \cup {NoLink}, at : 0..MaxTime,
                         first : BOOLEAN, user : {0} \cup UserIds, epoch : Nat,
                         out : SUBSET cookies, logouts : Nat]
    OBVIOUS
  <2>1. job[t] \in JobSet /\ job[t].out \subseteq cookies
    BY DEF IInv, Types, JobTrue
  <2>2. QED
    BY <2>1 DEF JobSet
<1>3. QED
  BY <1>1, <1>2 DEF IInv, Types, TypeOK

\* What other calls, rows and cookies rely on is not taken back unnoticed.
Growing ==
    /\ undone \subseteq undone' /\ late \subseteq late'
    /\ cookies \subseteq cookies' /\ now <= now'
    /\ \A l \in Links : issued[l] > 0 => issued'[l] = issued[l]
    /\ \A u \in UserIds : logouts[u] <= logouts'[u]
    /\ \A u \in UserIds : u \in undone' \/ (HasRow(u) => HasRow(u)')
    /\ \A u \in UserIds : u \in undone' \/ db.epoch[u] <= db'.epoch[u]

Stays(t) == pc'[t] = pc[t] /\ job'[t] = job[t]

\* What a call holds is still true after a step of somebody else.
LEMMA JobStays ==
  ASSUME IInv, Types', Growing, NEW t \in Handlers, Stays(t)
  PROVE  JobTrue(t)'
<1> DEFINE l == job[t].link
<1>0. JobTrue(t) /\ job[t] \in JobSet
  BY DEF IInv, Types
<1>u. PICK u \in {0} \cup UserIds : u = job[t].user
  BY <1>0 DEF JobSet
<1>1. /\ pc[t] \in Verifying => l \in Links /\ issued[l] > 0 /\ issued'[l] = issued[l]
      /\ pc[t] = "consume" => issued[l] <= job[t].at /\ job[t].at <= now'
  <2>1. pc[t] \in Verifying => l \in Links /\ issued[l] > 0 /\ issued'[l] = issued[l]
    BY <1>0 DEF JobTrue, Growing
  <2>2. pc[t] = "consume" => issued[l] <= job[t].at /\ job[t].at <= now
    BY <1>0 DEF JobTrue
  <2>3. job[t].at \in Nat /\ now \in Nat /\ now' \in Nat /\ now <= now'
    BY <1>0, SignInAssumption DEF JobSet, Types, IInv, Growing
  <2>4. QED
    BY <2>1, <2>2, <2>3
<1>2. /\ pc[t] \in Entering \cup Leaving => u \in UserIds
      /\ pc[t] \in Entering => u \in undone' \/ HasRow(u)'
  BY <1>0, <1>u DEF JobTrue, Growing
<1>3. pc[t] = "sign" =>
        u \in undone' \/ (job[t].epoch = job[t].logouts /\ job[t].logouts <= logouts'[u])
  <2>1. SUFFICES ASSUME pc[t] = "sign", u \notin undone'
                 PROVE  job[t].epoch = job[t].logouts /\ job[t].logouts <= logouts'[u]
    OBVIOUS
  <2>2. u \in UserIds /\ job[t].epoch = job[t].logouts /\ job[t].logouts <= logouts[u]
    BY <1>0, <1>u, <2>1 DEF JobTrue, Entering, Growing
  <2>3. job[t].logouts \in Nat /\ logouts[u] \in Nat /\ logouts'[u] \in Nat /\ logouts[u] <= logouts'[u]
    BY <1>0, <2>2 DEF JobSet, Types, IInv, Growing
  <2>4. QED
    BY <2>2, <2>3
<1>4. /\ job[t].out \subseteq cookies'
      /\ pc[t] \in Leaving => \A c \in job[t].out : c.user = u
  BY <1>0, <1>u DEF JobTrue, Growing
<1>5. pc[t] = "commitBump" => u \in undone' \/ \A c \in job[t].out : c.epoch < db'.epoch[u]
  <2>1. SUFFICES ASSUME pc[t] = "commitBump", u \notin undone', NEW c \in job[t].out
                 PROVE  c.epoch < db'.epoch[u]
    OBVIOUS
  <2>2. u \in UserIds /\ c.epoch < db.epoch[u] /\ db.epoch[u] <= db'.epoch[u]
    BY <1>0, <1>u, <2>1 DEF JobTrue, Leaving, Growing
  <2>3. c \in Cookies /\ db.epoch[u] \in Nat /\ db'.epoch[u] \in Nat
    BY <1>0, <2>2 DEF JobSet, Types, IInv, Tables
  <2>4. QED
    BY <2>2, <2>3 DEF Cookies
<1>6. pc[t] \in Entering => u \in undone' \/ \E e \in Emails : db'.users[e] = u
  BY <1>2 DEF HasRow
<1>7. pc'[t] = pc[t] /\ job'[t] = job[t]
  BY DEF Stays
<1>8. /\ pc'[t] \in Entering => job'[t].user \in undone' \/ \E e \in Emails : db'.users[e] = job'[t].user
      /\ pc'[t] \in Entering \cup Leaving => job'[t].user \in UserIds
      /\ pc'[t] \in Leaving => \A c \in job'[t].out : c.user = job'[t].user
  BY <1>u, <1>2, <1>4, <1>6, <1>7
<1>9. /\ pc'[t] \in Verifying => job'[t].link \in Links /\ issued'[job'[t].link] > 0
      /\ pc'[t] = "consume" => issued'[job'[t].link] <= job'[t].at /\ job'[t].at <= now'
  BY <1>1, <1>7 DEF Verifying
<1>10. /\ pc'[t] = "sign" =>
            \/ job'[t].user \in undone'
            \/ job'[t].epoch = job'[t].logouts /\ job'[t].logouts <= logouts'[job'[t].user]
       /\ job'[t].out \subseteq cookies'
  BY <1>u, <1>3, <1>4, <1>7
<1>11. pc'[t] = "commitBump" =>
         job'[t].user \in undone' \/ \A c \in job'[t].out : c.epoch < db'.epoch[job'[t].user]
  BY <1>u, <1>5, <1>7
<1>12. QED
  BY <1>8, <1>9, <1>10, <1>11 DEF JobTrue, HasRow

Moves(t) == \A u \in Handlers \ {t} : Stays(u)

\* All but what the calls hold.
TablesTrue ==
    /\ Types /\ IdsLeft /\ Dated(db) /\ Dated(disk)
    /\ \A l \in Links : LinkTrue(l)
    /\ WritesOwned /\ EpochTrue /\ CookiesTrue

\* A step of one thread keeps the invariant if it keeps the tables' part of it
\* and what the thread itself holds.
LEMMA ThreadKeeps ==
  ASSUME IInv, TablesTrue', Growing, NEW t \in Handlers, Moves(t), JobTrue(t)'
  PROVE  IInv'
<1>1. ASSUME NEW u \in Handlers PROVE JobTrue(u)'
  <2>1. CASE u = t
    BY <2>1 DEF JobTrue, HasRow
  <2>2. CASE u # t
    BY <2>2, JobStays DEF Moves, TablesTrue
  <2>3. QED
    BY <2>1, <2>2
<1>2. QED
  BY <1>1 DEF IInv, TablesTrue

\* And a step of none of them if it keeps the tables' part.
LEMMA OtherKeeps ==
  ASSUME IInv, TablesTrue', Growing, UNCHANGED <<pc, job>>
  PROVE  IInv'
<1>1. ASSUME NEW u \in Handlers PROVE JobTrue(u)'
  BY JobStays DEF Stays, TablesTrue
<1>2. QED
  BY <1>1 DEF IInv, TablesTrue

\* A thread moves, and nothing that the calls share does.
StillTables == UNCHANGED <<db, disk, issued, cookies, now, history>>

\* Then nothing is taken back.
LEMMA StillGrows ==
  ASSUME IInv, StillTables
  PROVE  Growing
<1>1. /\ now \in Nat /\ \A u \in UserIds : logouts[u] \in Nat /\ db.epoch[u] \in Nat
  BY SignInAssumption DEF IInv, Types, Tables
<1>2. \A u \in UserIds : HasRow(u)' <=> HasRow(u)
  BY DEF StillTables, HasRow
<1>3. QED
  BY <1>1, <1>2 DEF StillTables, history, Growing

\* Ids that are left stay so while no call but a new one may draw one.
LEMMA IdsKept ==
  ASSUME IInv, Types', Creators' \subseteq Creators, calls <= calls', ids' = ids
  PROVE  IdsLeft'
<1>1. /\ IsFiniteSet(Creators) /\ Cardinality(Creators) + ids <= calls + 1
      /\ calls \in Nat /\ calls' \in Nat /\ ids \in Nat
  BY SignInAssumption DEF IInv, IdsLeft, Types, UserIds
<1>2. /\ IsFiniteSet(Creators') /\ Cardinality(Creators') <= Cardinality(Creators)
  BY <1>1, FS_Subset
<1>3. Cardinality(Creators) \in Nat /\ Cardinality(Creators') \in Nat
  BY <1>1, <1>2, FS_CardinalityType
<1>4. QED
  BY <1>1, <1>2, <1>3 DEF IdsLeft

\* The rows of links, unless they are written, keep their dates.
LEMMA RowsKept ==
  ASSUME IInv, Types', Growing,
         \A l \in Links : db'.consumed[l] \in {0, db.consumed[l], disk.consumed[l]},
         \A l \in Links : disk'.consumed[l] \in {db.consumed[l], disk.consumed[l]}
  PROVE  Dated(db)' /\ Dated(disk)'
<1>1. ASSUME NEW l \in Links, NEW n \in Nat, n # 0,
             n \in {db.consumed[l], disk.consumed[l]}
      PROVE  issued'[l] > 0 /\ issued'[l] <= n /\ n <= now'
  <2>1. issued[l] > 0 /\ issued[l] <= n /\ n <= now
    BY <1>1 DEF IInv, Dated
  <2>2. issued'[l] = issued[l] /\ now <= now' /\ now \in Nat /\ now' \in Nat
    BY <2>1, SignInAssumption DEF Growing, IInv, Types
  <2>3. QED
    BY <2>1, <2>2
<1>2. \A l \in Links : db.consumed[l] \in Nat /\ disk.consumed[l] \in Nat
  BY SignInAssumption DEF IInv, Types, Tables
<1>3. \A l \in Links : db'.consumed[l] # 0 =>
         issued'[l] > 0 /\ issued'[l] <= db'.consumed[l] /\ db'.consumed[l] <= now'
  BY <1>1, <1>2
<1>4. \A l \in Links : disk'.consumed[l] # 0 =>
         issued'[l] > 0 /\ issued'[l] <= disk'.consumed[l] /\ disk'.consumed[l] <= now'
  BY <1>1, <1>2
<1>5. QED
  BY <1>3, <1>4 DEF Dated

\* A link that is too old stays too old.
LEMMA SpentStays ==
  ASSUME Types, Types', Growing, NEW l \in Links, issued[l] > 0,
         NEW m, NEW n, m # 0 \/ now - issued[l] > MaxAge, n = m \/ n # 0
  PROVE  n # 0 \/ now' - issued'[l] > MaxAge
<1>1. /\ issued[l] \in Nat /\ issued'[l] = issued[l] /\ MaxAge \in Nat
      /\ now \in Nat /\ now' \in Nat /\ now <= now'
  BY SignInAssumption DEF Types, Growing
<1>2. QED
  BY <1>1

\* A step that lets nobody in keeps what is said of a link, if nobody becomes
\* first with it, who is first still has a row or is not needed to, and whoever
\* was let in still has the committed row.
LEMMA LinkStays ==
  ASSUME IInv, Growing, NEW l \in Links, entered'[l] = entered[l],
         l \notin late' \cup undone' =>
           /\ \A t \in Handlers : Holder(t, l)' => Holder(t, l) /\ Spent(db, l)'
           /\ entered[l] = 1 => Spent(db, l)' /\ Spent(disk, l)'
  PROVE  LinkTrue(l)'
<1>1. LinkTrue(l)
  BY DEF IInv
<1>2. (entered[l] # 0 => issued[l] > 0)'
  BY <1>1 DEF LinkTrue, Growing
<1>3. ASSUME l \notin late' \cup undone'
      PROVE  /\ entered[l] <= 1
             /\ entered[l] = 1 => Spent(db, l)' /\ Spent(disk, l)'
             /\ \A t \in Handlers : Holder(t, l)' =>
                  entered[l] = 0 /\ Spent(db, l)' /\ \A u \in Handlers : Holder(u, l)' => u = t
  <2>1. l \notin late \cup undone
    BY <1>3 DEF Growing
  <2>2. QED
    BY <1>1, <1>3, <2>1 DEF LinkTrue
<1>4. QED
  BY <1>2, <1>3 DEF LinkTrue

\* In particular one that touches no row of a link but to commit it.
LEMMA LinksKept ==
  ASSUME IInv, Types', Growing, entered' = entered,
         \A l \in Links : db'.consumed[l] = db.consumed[l],
         \A l \in Links : disk'.consumed[l] \in {db.consumed[l], disk.consumed[l]},
         \A t \in Handlers, l \in Links : Holder(t, l)' => Holder(t, l)
  PROVE  \A l \in Links : LinkTrue(l)'
<1> SUFFICES ASSUME NEW l \in Links PROVE LinkTrue(l)'
  OBVIOUS
<1>1. LinkTrue(l) /\ Types
  BY DEF IInv
<1>2. ASSUME issued[l] > 0, Spent(db, l) PROVE Spent(db, l)'
  BY <1>1, <1>2, SpentStays DEF Spent
<1>3. ASSUME issued[l] > 0, Spent(db, l), Spent(disk, l) PROVE Spent(disk, l)'
  BY <1>1, <1>3, SpentStays DEF Spent
<1>4. ASSUME NEW t \in Handlers, Holder(t, l) PROVE issued[l] > 0
  BY <1>4 DEF IInv, JobTrue, Holder, Verifying
<1>5. ASSUME l \notin late' \cup undone'
      PROVE  /\ \A t \in Handlers : Holder(t, l)' => Holder(t, l) /\ Spent(db, l)'
             /\ entered[l] = 1 => Spent(db, l)' /\ Spent(disk, l)'
  <2>1. l \notin late \cup undone
    BY <1>5 DEF Growing
  <2>2. QED
    BY <1>1, <1>2, <1>3, <1>4, <2>1 DEF LinkTrue
<1>6. QED
  BY <1>5, LinkStays

\* Cookies that nobody adds to.
LEMMA CookiesKept ==
  ASSUME IInv, Types', Growing, cookies' = cookies, loggedOut' = loggedOut
  PROVE  CookiesTrue'
<1>1. CookiesTrue /\ Types
  BY DEF IInv
<1>2. ASSUME NEW c \in cookies, c.user \notin undone'
      PROVE  /\ HasRow(c.user)' /\ c.epoch = c.logouts /\ c.logouts <= logouts'[c.user]
             /\ c \in loggedOut => c.epoch < db'.epoch[c.user]
  <2>1. PICK u \in UserIds : u = c.user
    BY <1>1 DEF Types, Cookies
  <2>2. /\ HasRow(u) /\ c.epoch = c.logouts /\ c.logouts <= logouts[u]
        /\ c \in loggedOut => c.epoch < db.epoch[u]
    BY <1>1, <1>2, <2>1 DEF CookiesTrue, Growing
  <2>3. HasRow(u)' /\ logouts[u] <= logouts'[u] /\ db.epoch[u] <= db'.epoch[u]
    BY <1>2, <2>1, <2>2 DEF Growing
  <2>4. /\ c.epoch \in Nat /\ c.logouts \in Nat /\ logouts[u] \in Nat /\ logouts'[u] \in Nat
        /\ db.epoch[u] \in Nat /\ db'.epoch[u] \in Nat
    BY <1>1 DEF Types, Tables, Cookies
  <2>5. c.logouts <= logouts'[u] /\ (c \in loggedOut => c.epoch < db'.epoch[u])
    BY <2>2, <2>3, <2>4
  <2>6. QED
    BY <2>1, <2>2, <2>3, <2>5 DEF HasRow
<1>3. QED
  BY <1>1, <1>2 DEF CookiesTrue, Growing

\* Epochs that nobody raises or takes back.
LEMMA EpochKept ==
  ASSUME IInv, undone \subseteq undone', logouts' = logouts,
         \A u \in UserIds : u \in undone' \/ db'.epoch[u] = db.epoch[u]
  PROVE  EpochTrue'
  BY DEF IInv, EpochTrue

\* Nothing is open that is committed.
LEMMA WritesCommitted ==
  ASSUME db' = disk'
  PROVE  WritesOwned'
  BY DEF WritesOwned

\* The writes that are open stay their owners'.
LEMMA WritesKept ==
  ASSUME IInv, db'.users = db.users, disk'.users = disk.users,
         db'.epoch = db.epoch, disk'.epoch = disk.epoch,
         \A t \in Handlers : pc[t] \in {"commitUser", "commitBump"} => Stays(t)
  PROVE  WritesOwned'
<1>1. WritesOwned
  BY DEF IInv
<1>2. ASSUME NEW e \in Emails, db'.users[e] # disk'.users[e]
      PROVE  /\ disk'.users[e] = 0
             /\ \E t \in Handlers : pc'[t] = "commitUser" /\ job'[t].user = db'.users[e]
  BY <1>1, <1>2 DEF WritesOwned, Stays
<1>3. ASSUME NEW u \in UserIds, db'.epoch[u] # disk'.epoch[u]
      PROVE  \E t \in Handlers : pc'[t] = "commitBump" /\ job'[t].user = u
  BY <1>1, <1>3 DEF WritesOwned, Stays
<1>4. QED
  BY <1>2, <1>3 DEF WritesOwned

-----------------------------------------------------------------------------
(* Steps of one thread.                                                    *)

\* A thread that reads, and writes nothing.
LEMMA QuietKeeps ==
  ASSUME IInv, Types', IdsLeft', StillTables, NEW t \in Handlers, Moves(t),
         pc[t] \notin {"commitUser", "commitBump"}, pc'[t] # "commitLink", JobTrue(t)'
  PROVE  IInv'
<1>1. Growing
  BY StillGrows
<1>2. /\ entered' = entered /\ logouts' = logouts /\ cookies' = cookies /\ loggedOut' = loggedOut
      /\ db' = db /\ disk' = disk /\ undone' = undone
  BY DEF StillTables, history
<1>3. Dated(db)' /\ Dated(disk)'
  BY <1>1, <1>2, RowsKept
<1>4. \A u \in Handlers, l \in Links : Holder(u, l)' => Holder(u, l)
  BY DEF Holder, Moves, Stays
<1>5. \A l \in Links : LinkTrue(l)'
  BY <1>1, <1>2, <1>4, LinksKept
<1>6. \A u \in Handlers : pc[u] \in {"commitUser", "commitBump"} => Stays(u)
  BY DEF Moves
<1>7. WritesOwned' /\ EpochTrue' /\ CookiesTrue'
  BY <1>1, <1>2, <1>6, WritesKept, EpochKept, CookiesKept
<1>8. QED
  BY <1>1, <1>3, <1>5, <1>7, ThreadKeeps DEF TablesTrue

\* Where Goto takes a thread, and that the others stay.
LEMMA GotoStep ==
  ASSUME Types, NEW t \in Handlers, NEW l \in Labels, Goto(t, l)
  PROVE  /\ pc' \in [Handlers -> Labels] /\ pc'[t] = l
         /\ \A u \in Handlers \ {t} : pc'[u] = pc[u]
  BY DEF Goto, Types

\* A thread that has nothing to do has a job all the same.
LEMMA NoJobType == NoJob \in JobSet
<1>1. 0 \in 0..MaxTime
  BY SignInAssumption
<1>2. QED
  BY <1>1 DEF NoJob, JobSet

\* A thread that has returned has no job left.
LEMMA ReturnStep ==
  ASSUME Types, NEW t \in Handlers, Return(t)
  PROVE  /\ pc' \in [Handlers -> Labels] /\ job' \in [Handlers -> JobSet]
         /\ pc'[t] = "idle" /\ Moves(t) /\ JobTrue(t)'
<1>1. pc' \in [Handlers -> Labels] /\ pc'[t] = "idle" /\ \A u \in Handlers \ {t} : pc'[u] = pc[u]
  BY GotoStep DEF Return, Labels
<1>2. job' \in [Handlers -> JobSet] /\ job'[t] = NoJob /\ \A u \in Handlers \ {t} : job'[u] = job[u]
  BY NoJobType DEF Return, Types
<1>3. job'[t].out = {}
  BY <1>2 DEF NoJob
<1>4. QED
  BY <1>1, <1>2, <1>3 DEF Moves, Stays, JobTrue, Verifying, Entering, Leaving

\* A thread that goes on with another job leaves the others theirs.
LEMMA JobStep ==
  ASSUME Types, NEW t \in Handlers, NEW l \in Labels, NEW j \in JobSet,
         Goto(t, l), job' = [job EXCEPT ![t] = j]
  PROVE  /\ pc' \in [Handlers -> Labels] /\ job' \in [Handlers -> JobSet]
         /\ pc'[t] = l /\ job'[t] = j /\ Moves(t)
  BY GotoStep DEF Types, Moves, Stays

\* The ids that are left, when no verification begins.
LEMMA CreatorsShrink ==
  ASSUME IInv, Types', NEW t \in Handlers, Moves(t),
         pc[t] \in Verifying \/ pc'[t] \notin Verifying, calls <= calls', ids' = ids
  PROVE  IdsLeft'
<1>1. Creators' \subseteq Creators
  BY DEF Creators, Moves, Stays
<1>2. QED
  BY <1>1, IdsKept

\* StartVerify and StartLogout have a call more.
LEMMA CallStep ==
  ASSUME Types, NEW t \in Handlers, NEW l \in Labels, NEW j \in JobSet, Call(t, l, j)
  PROVE  /\ Types' /\ StillTables /\ Moves(t) /\ ids' = ids
         /\ pc[t] = "idle" /\ pc'[t] = l /\ job'[t] = j
         /\ calls \in Nat /\ calls' = calls + 1
<1>1. /\ pc[t] = "idle" /\ calls < MaxCalls /\ calls' = calls + 1
      /\ Goto(t, l) /\ job' = [job EXCEPT ![t] = j]
      /\ StillTables /\ ids' = ids
  BY DEF Call, StillTables
<1>2. calls \in Nat /\ calls' \in 0..MaxCalls
  BY <1>1, SignInAssumption DEF Types
<1>3. /\ pc' \in [Handlers -> Labels] /\ job' \in [Handlers -> JobSet]
      /\ pc'[t] = l /\ job'[t] = j /\ Moves(t)
  BY <1>1, JobStep
<1>4. Types'
  BY <1>1, <1>2, <1>3 DEF Types, StillTables, history
<1>5. QED
  BY <1>1, <1>2, <1>3, <1>4

\* A verification that starts finds an id left for it.
LEMMA StartVerifyKeeps ==
  ASSUME IInv, NEW t \in Handlers, StartVerify(t)
  PROVE  IInv'
<1>1. PICK l \in Links : issued[l] > 0 /\ Call(t, "collect", [NoJob EXCEPT !.link = l])
  BY DEF StartVerify
<1> DEFINE j == [NoJob EXCEPT !.link = l]
<1>2. j \in JobSet /\ j.link = l /\ j.out = {}
  BY NoJobType DEF JobSet, NoJob
<1> HIDE DEF j
<1>3. /\ Types' /\ StillTables /\ Moves(t) /\ ids' = ids
      /\ pc[t] = "idle" /\ pc'[t] = "collect" /\ job'[t] = j
      /\ calls \in Nat /\ calls' = calls + 1
  BY <1>1, <1>2, CallStep DEF IInv, Labels, j
<1>4. IdsLeft'
  <2>1. IsFiniteSet(Creators) /\ Cardinality(Creators) + ids <= calls + 1 /\ t \notin Creators
    BY <1>3 DEF IInv, IdsLeft, Creators, Verifying
  <2>2. Creators' = Creators \cup {t}
    BY <1>3 DEF Creators, Moves, Stays, Verifying
  <2>3. IsFiniteSet(Creators') /\ Cardinality(Creators') = Cardinality(Creators) + 1
    BY <2>1, <2>2, FS_AddElement
  <2>4. Cardinality(Creators) \in Nat /\ ids \in Nat
    BY <2>1, FS_CardinalityType, SignInAssumption DEF IInv, Types, UserIds
  <2>5. QED
    BY <1>3, <2>1, <2>3, <2>4 DEF IdsLeft
<1>5. issued' = issued
  BY <1>3 DEF StillTables
<1>6. JobTrue(t)'
  BY <1>1, <1>2, <1>3, <1>5 DEF JobTrue, Verifying, Entering, Leaving
<1>7. QED
  BY <1>3, <1>4, <1>6, QuietKeeps

\* A logout begins with a cookie that is accepted, and notes its user's cookies.
LEMMA StartLogoutKeeps ==
  ASSUME IInv, NEW t \in Handlers, StartLogout(t)
  PROVE  IInv'
<1>1. PICK c \in cookies :
        Call(t, "bump", [NoJob EXCEPT !.user = c.user, !.out = {d \in cookies : d.user = c.user}])
  BY DEF StartLogout
<1> DEFINE j == [NoJob EXCEPT !.user = c.user, !.out = {d \in cookies : d.user = c.user}]
<1>2. j \in JobSet /\ j.user = c.user /\ j.out = {d \in cookies : d.user = c.user} /\ j.user \in UserIds
  <2>1. c.user \in UserIds /\ {d \in cookies : d.user = c.user} \in SUBSET Cookies
    BY DEF IInv, Types, Cookies
  <2>2. QED
    BY <2>1, NoJobType DEF JobSet, NoJob
<1> HIDE DEF j
<1>3. /\ Types' /\ StillTables /\ Moves(t) /\ ids' = ids
      /\ pc[t] = "idle" /\ pc'[t] = "bump" /\ job'[t] = j
      /\ calls \in Nat /\ calls' = calls + 1
  BY <1>1, <1>2, CallStep DEF IInv, Labels, j
<1>4. IdsLeft'
  BY <1>3, CreatorsShrink DEF Verifying
<1>5. cookies' = cookies
  BY <1>3 DEF StillTables
<1>6. JobTrue(t)'
  BY <1>2, <1>3, <1>5 DEF JobTrue, Verifying, Entering, Leaving
<1>7. QED
  BY <1>3, <1>4, <1>6, QuietKeeps

\* What a write to one table does to the others: nothing.
LEMMA WriteConsumed ==
  ASSUME db \in Tables, NEW f \in [Links -> 0..MaxTime], db' = [db EXCEPT !.consumed = f]
  PROVE  db' \in Tables /\ db'.consumed = f /\ db'.users = db.users /\ db'.epoch = db.epoch
  BY DEF Tables

\* The same for users.
LEMMA WriteUsers ==
  ASSUME db \in Tables, NEW f \in [Emails -> {0} \cup UserIds], db' = [db EXCEPT !.users = f]
  PROVE  db' \in Tables /\ db'.users = f /\ db'.consumed = db.consumed /\ db'.epoch = db.epoch
  BY DEF Tables

\* And for epochs.
LEMMA WriteEpoch ==
  ASSUME db \in Tables, NEW f \in [UserIds -> Nat], db' = [db EXCEPT !.epoch = f]
  PROVE  db' \in Tables /\ db'.epoch = f /\ db'.consumed = db.consumed /\ db'.users = db.users
  BY DEF Tables

\* A write to the links' rows is no concern of users, epochs and cookies.
LEMMA ConsumedGrows ==
  ASSUME IInv, db'.users = db.users, db'.epoch = db.epoch, late \subseteq late',
         UNCHANGED <<issued, cookies, now, undone, logouts>>
  PROVE  Growing
<1>1. /\ now \in Nat /\ \A u \in UserIds : logouts[u] \in Nat /\ db.epoch[u] \in Nat
  BY SignInAssumption DEF IInv, Types, Tables
<1>2. \A u \in UserIds : HasRow(u)' <=> HasRow(u)
  BY DEF HasRow
<1>3. QED
  BY <1>1, <1>2 DEF Growing

\* A row is collected only when its link is too old.
LEMMA CollectKeeps ==
  ASSUME IInv, NEW t \in Handlers, Collect(t)
  PROVE  IInv'
<1> DEFINE f == [l \in Links |-> IF db.consumed[l] + MaxAge < now THEN 0 ELSE db.consumed[l]]
           j == [job[t] EXCEPT !.at = now]
<1>0. Types /\ JobTrue(t) /\ job[t] \in JobSet
  BY DEF IInv, Types
<1>1. /\ pc[t] = "collect" /\ Goto(t, "consume")
      /\ db' = [db EXCEPT !.consumed = f] /\ job' = [job EXCEPT ![t] = j]
      /\ UNCHANGED <<disk, issued, cookies, now, calls, ids, history>>
  BY <1>0 DEF Collect, Types
<1>2. f \in [Links -> 0..MaxTime]
  BY <1>0, SignInAssumption DEF Types, Tables
<1>3. j \in JobSet /\ j.link = job[t].link /\ j.at = now /\ j.out = job[t].out
  <2>1. now \in 0..MaxTime
    BY <1>0, SignInAssumption DEF Types
  <2>2. QED
    BY <1>0, <2>1 DEF JobSet
<1>4. \A l \in Links : f[l] = IF db.consumed[l] + MaxAge < now THEN 0 ELSE db.consumed[l]
  OBVIOUS
<1> HIDE DEF f, j
<1>5. db' \in Tables /\ db'.consumed = f /\ db'.users = db.users /\ db'.epoch = db.epoch
  BY <1>0, <1>1, <1>2, WriteConsumed DEF Types
<1>6. /\ pc' \in [Handlers -> Labels] /\ job' \in [Handlers -> JobSet]
      /\ pc'[t] = "consume" /\ job'[t] = j /\ Moves(t)
  BY <1>0, <1>1, <1>3, JobStep DEF Labels
<1>7. Types'
  BY <1>0, <1>1, <1>5, <1>6 DEF Types, history
<1>8. Growing
  BY <1>1, <1>5, ConsumedGrows DEF history
<1>9. IdsLeft'
  <2>1. calls <= calls'
    BY <1>0, <1>1, SignInAssumption DEF Types
  <2>2. QED
    BY <1>1, <1>6, <1>7, <2>1, CreatorsShrink DEF Verifying
<1>10. Dated(db)' /\ Dated(disk)'
  BY <1>1, <1>4, <1>5, <1>7, <1>8, RowsKept
<1>11. ASSUME NEW l \in Links PROVE LinkTrue(l)'
  <2>1. ASSUME issued[l] > 0, Spent(db, l) PROVE Spent(db, l)'
    <3>1. /\ db.consumed[l] # 0 => issued[l] <= db.consumed[l] /\ db.consumed[l] <= now
          /\ db.consumed[l] \in Nat /\ issued[l] \in Nat /\ now \in Nat /\ MaxAge \in Nat
      BY <1>0, SignInAssumption DEF IInv, Dated, Types, Tables
    <3>2. now' = now /\ issued' = issued
      BY <1>1
    <3>3. QED
      BY <1>4, <1>5, <2>1, <3>1, <3>2 DEF Spent
  <2>2. Spent(disk, l)' <=> Spent(disk, l)
    BY <1>1 DEF Spent
  <2>3. \A u \in Handlers : Holder(u, l)' => Holder(u, l) /\ issued[l] > 0
    <3>1. \A u \in Handlers : Holder(u, l)' => Holder(u, l)
      BY <1>6 DEF Holder, Moves, Stays
    <3>2. \A u \in Handlers : Holder(u, l) => issued[l] > 0
      BY DEF IInv, JobTrue, Holder, Verifying
    <3>3. QED
      BY <3>1, <3>2
  <2>4. LinkTrue(l) /\ entered'[l] = entered[l] /\ late' = late /\ undone' = undone
    BY <1>1 DEF IInv, history
  <2>5. QED
    BY <1>8, <2>1, <2>2, <2>3, <2>4, LinkStays DEF LinkTrue
<1>12. WritesOwned' /\ EpochTrue' /\ CookiesTrue'
  <2>1. \A u \in Handlers : pc[u] \in {"commitUser", "commitBump"} => Stays(u)
    BY <1>1, <1>6 DEF Moves
  <2>2. QED
    BY <1>1, <1>5, <1>7, <1>8, <2>1, WritesKept, EpochKept, CookiesKept DEF history
<1>13. JobTrue(t)'
  <2>1. job[t].link \in Links /\ issued[job[t].link] > 0 /\ job[t].out \subseteq cookies
    BY <1>0, <1>1 DEF JobTrue, Verifying
  <2>2. issued'[job[t].link] <= now' /\ now' <= now' /\ issued' = issued /\ cookies' = cookies
    BY <1>0, <1>1, <2>1, SignInAssumption DEF Types
  <2>3. j.at = now'
    BY <1>1, <1>3
  <2>4. QED
    BY <1>3, <1>6, <2>1, <2>2, <2>3 DEF JobTrue, Verifying, Entering, Leaving
<1>14. QED
  BY <1>6, <1>7, <1>8, <1>9, <1>10, <1>11, <1>12, <1>13, ThreadKeeps DEF TablesTrue

\* INSERT OR IGNORE lets one verification be first, if none was before it and
\* no row was collected while a link could still be used.
LEMMA ConsumeKeeps ==
  ASSUME IInv, NEW t \in Handlers, Consume(t)
  PROVE  IInv'
<1>0. Types /\ JobTrue(t) /\ job[t] \in JobSet
  BY DEF IInv, Types
<1>a. pc[t] = "consume"
  BY DEF Consume
<1>b. PICK l \in Links : l = job[t].link
  BY <1>0, <1>a DEF JobTrue, Verifying
<1>c. PICK first \in BOOLEAN : first <=> db.consumed[l] = 0
  OBVIOUS
<1>d. PICK at \in 0..MaxTime : at = job[t].at
  BY <1>0 DEF JobSet
<1> DEFINE f == IF first THEN [db.consumed EXCEPT ![l] = at] ELSE db.consumed
           j == [job[t] EXCEPT !.first = first]
<1>1. /\ Goto(t, "commitLink")
      /\ db' = [db EXCEPT !.consumed = f] /\ job' = [job EXCEPT ![t] = j]
      /\ late \subseteq late' /\ (now - issued[l] > MaxAge => l \in late')
      /\ UNCHANGED <<disk, issued, cookies, now, calls, ids, entered, undone, loggedOut, logouts>>
  <2>1. db = [db EXCEPT !.consumed = db.consumed]
    BY <1>0 DEF Types, Tables
  <2>2. first = (db.consumed[job[t].link] = 0)
    BY <1>b, <1>c
  <2>3. QED
    BY <1>b, <1>c, <1>d, <2>1, <2>2 DEF Consume
<1>2. f \in [Links -> 0..MaxTime]
  BY <1>0, <1>d DEF Types, Tables
<1>3. j \in JobSet /\ j.link = l /\ j.out = job[t].out /\ (j.first <=> first)
  BY <1>0, <1>b DEF JobSet
<1>4. /\ \A x \in Links \ {l} : f[x] = db.consumed[x]
      /\ f[l] = IF first THEN at ELSE db.consumed[l]
  BY <1>0 DEF Types, Tables
<1> HIDE DEF f, j
<1>5. db' \in Tables /\ db'.consumed = f /\ db'.users = db.users /\ db'.epoch = db.epoch
  BY <1>0, <1>1, <1>2, WriteConsumed DEF Types
<1>6. /\ pc' \in [Handlers -> Labels] /\ job' \in [Handlers -> JobSet]
      /\ pc'[t] = "commitLink" /\ job'[t] = j /\ Moves(t)
  BY <1>0, <1>1, <1>3, JobStep DEF Labels
<1>7. Types'
  BY <1>0, <1>1, <1>5, <1>6 DEF Types
<1>8. Growing
  BY <1>1, <1>5, ConsumedGrows
<1>9. IdsLeft'
  <2>1. calls <= calls'
    BY <1>0, <1>1, SignInAssumption DEF Types
  <2>2. QED
    BY <1>1, <1>a, <1>6, <1>7, <2>1, CreatorsShrink DEF Verifying
<1>10. issued[l] > 0 /\ issued[l] <= at /\ at <= now /\ at # 0 /\ issued[l] \in Nat
  <2>1. issued[l] > 0 /\ issued[l] <= at /\ at <= now
    BY <1>0, <1>a, <1>b, <1>d DEF JobTrue, Verifying
  <2>2. issued[l] \in Nat /\ at \in Nat
    BY <1>0, <1>d, SignInAssumption DEF Types
  <2>3. QED
    BY <2>1, <2>2
<1>11. Dated(db)' /\ Dated(disk)'
  <2>1. Dated(db) /\ Dated(disk) /\ now' = now /\ issued' = issued /\ disk' = disk
    BY <1>1 DEF IInv
  <2>2. QED
    BY <1>4, <1>5, <1>10, <2>1 DEF Dated
<1>12. ASSUME NEW x \in Links, x # l \/ ~first PROVE LinkTrue(x)'
  <2>1. db'.consumed[x] = db.consumed[x]
    BY <1>4, <1>5, <1>12
  <2>2. (Spent(db, x)' <=> Spent(db, x)) /\ (Spent(disk, x)' <=> Spent(disk, x))
    BY <1>1, <2>1 DEF Spent
  <2>3. \A u \in Handlers : Holder(u, x)' => Holder(u, x)
    BY <1>3, <1>6, <1>12 DEF Holder, Moves, Stays
  <2>4. LinkTrue(x) /\ entered'[x] = entered[x]
    BY <1>1 DEF IInv
  <2>5. late \subseteq late' /\ undone' = undone
    BY <1>1
  <2>6. QED
    BY <1>8, <2>2, <2>3, <2>4, <2>5, LinkStays DEF LinkTrue
<1>13. ASSUME first PROVE LinkTrue(l)'
  <2>1. LinkTrue(l) /\ entered'[l] = entered[l] /\ issued' = issued /\ undone' = undone
    BY <1>1 DEF IInv
  <2>2. CASE l \in late' \cup undone'
    BY <1>10, <2>1, <2>2 DEF LinkTrue
  <2>3. CASE l \notin late' \cup undone'
    <3>1. ~Spent(db, l) /\ l \notin late \cup undone
      BY <1>1, <1>c, <1>13, <2>1, <2>3 DEF Spent
    <3>2. entered[l] \in Nat /\ entered[l] <= 1 /\ entered[l] # 1
      BY <1>0, <2>1, <3>1 DEF LinkTrue, Types
    <3>3. entered[l] = 0 /\ \A u \in Handlers : ~Holder(u, l)
      BY <2>1, <3>1, <3>2 DEF LinkTrue
    <3>4. \A u \in Handlers : Holder(u, l)' => u = t
      BY <1>6, <3>3 DEF Holder, Moves, Stays
    <3>5. db'.consumed[l] # 0
      BY <1>4, <1>5, <1>10, <1>13
    <3>6. QED
      BY <2>1, <2>3, <3>3, <3>4, <3>5 DEF LinkTrue, Spent
  <2>4. QED
    BY <2>2, <2>3
<1>14. \A x \in Links : LinkTrue(x)'
  <2>1. ASSUME NEW x \in Links PROVE LinkTrue(x)'
    <3>1. CASE x # l \/ ~first
      BY <1>12, <3>1
    <3>2. CASE x = l /\ first
      <4>1. LinkTrue(l)'
        BY <1>13, <3>2
      <4>2. QED
        BY <3>2, <4>1 DEF LinkTrue, Spent, Holder
    <3>3. QED
      BY <3>1, <3>2
  <2>2. QED
    BY <2>1
<1>15. WritesOwned' /\ EpochTrue' /\ CookiesTrue'
  <2>1. \A u \in Handlers : pc[u] \in {"commitUser", "commitBump"} => Stays(u)
    BY <1>a, <1>6 DEF Moves
  <2>2. QED
    BY <1>1, <1>5, <1>7, <1>8, <2>1, WritesKept, EpochKept, CookiesKept
<1>16. JobTrue(t)'
  <2>1. job[t].out \subseteq cookies /\ cookies' = cookies /\ issued' = issued
    BY <1>0, <1>1 DEF JobTrue
  <2>2. QED
    BY <1>3, <1>6, <1>10, <2>1 DEF JobTrue, Verifying, Entering, Leaving
<1>17. QED
  BY <1>6, <1>7, <1>8, <1>9, <1>11, <1>14, <1>15, <1>16, ThreadKeeps DEF TablesTrue

\* A commit makes what is there last, and takes nothing from anybody.
LEMMA CommitTables ==
  ASSUME IInv, Types', disk' = db, UNCHANGED <<db, issued, cookies, now, late, undone, logouts>>
  PROVE  Growing /\ Dated(db)' /\ Dated(disk)' /\ WritesOwned' /\ EpochTrue'
<1>1. Growing
  BY ConsumedGrows
<1>2. QED
  BY <1>1, RowsKept, WritesCommitted, EpochKept

\* A verification that was first is let in, and leaves a committed row.
LEMMA CommitLinkKeeps ==
  ASSUME IInv, NEW t \in Handlers, CommitLink(t)
  PROVE  IInv'
<1>0. Types /\ JobTrue(t) /\ job[t] \in JobSet
  BY DEF IInv, Types
<1>1. /\ pc[t] = "commitLink" /\ disk' = db
      /\ UNCHANGED <<db, issued, cookies, now, calls, ids, late, undone, loggedOut, logouts>>
  BY DEF CommitLink
<1>2. PICK l \in Links : l = job[t].link
  BY <1>0, <1>1 DEF JobTrue, Verifying
<1>3. /\ pc' \in [Handlers -> Labels] /\ job' \in [Handlers -> JobSet] /\ Moves(t) /\ JobTrue(t)'
      /\ pc'[t] # "commitLink" /\ entered' \in [Links -> Nat]
      /\ \A x \in Links : entered'[x] = IF job[t].first /\ x = l THEN entered[x] + 1 ELSE entered[x]
  <2>1. CASE job[t].first
    <3>1. /\ Goto(t, "findUser") /\ job' = job /\ entered' = [entered EXCEPT ![l] = @ + 1]
      BY <1>2, <2>1 DEF CommitLink
    <3>2. /\ pc' \in [Handlers -> Labels] /\ pc'[t] = "findUser" /\ Moves(t)
      BY <1>0, <3>1, GotoStep DEF Labels, Moves, Stays
    <3>3. entered' \in [Links -> Nat] /\ \A x \in Links : entered'[x] = IF x = l THEN entered[x] + 1 ELSE entered[x]
      BY <1>0, <3>1 DEF Types
    <3>4. JobTrue(t)'
      BY <1>0, <1>1, <3>1, <3>2 DEF JobTrue, Verifying, Entering, Leaving
    <3>5. QED
      BY <1>0, <2>1, <3>1, <3>2, <3>3, <3>4 DEF Types
  <2>2. CASE ~job[t].first
    <3>1. Return(t) /\ entered' = entered
      BY <2>2 DEF CommitLink
    <3>2. QED
      BY <1>0, <2>2, <3>1, ReturnStep DEF Types
  <2>3. QED
    BY <2>1, <2>2
<1>4. Types'
  BY <1>0, <1>1, <1>3 DEF Types
<1>5. Growing /\ Dated(db)' /\ Dated(disk)' /\ WritesOwned' /\ EpochTrue'
  BY <1>1, <1>4, CommitTables
<1>6. IdsLeft'
  <2>1. calls <= calls'
    BY <1>0, <1>1, SignInAssumption DEF Types
  <2>2. QED
    BY <1>1, <1>3, <1>4, <2>1, CreatorsShrink DEF Verifying
<1>7. CookiesTrue'
  BY <1>1, <1>4, <1>5, CookiesKept
<1>8. ASSUME NEW x \in Links PROVE LinkTrue(x)'
  <2>1. (Spent(db, x)' <=> Spent(db, x)) /\ (Spent(disk, x)' <=> Spent(db, x))
    BY <1>1 DEF Spent
  <2>2. LinkTrue(x) /\ \A u \in Handlers : Holder(u, x)' => Holder(u, x) /\ u # t
    BY <1>3 DEF IInv, Holder, Moves, Stays
  <2>3. CASE entered'[x] = entered[x]
    BY <1>1, <1>5, <2>1, <2>2, <2>3, LinkStays DEF LinkTrue
  <2>4. CASE entered'[x] # entered[x]
    <3>1. Holder(t, x) /\ entered'[x] = entered[x] + 1
      BY <1>1, <1>2, <1>3, <2>4 DEF Holder
    <3>2. issued[x] > 0 /\ issued' = issued /\ late' = late /\ undone' = undone
      BY <1>0, <1>1, <3>1 DEF JobTrue, Holder, Verifying
    <3>3. CASE x \in late \cup undone
      BY <3>2, <3>3 DEF LinkTrue
    <3>4. CASE x \notin late \cup undone
      <4>1. entered'[x] = 1 /\ Spent(db, x) /\ \A u \in Handlers : ~(Holder(u, x)')
        BY <2>2, <3>1, <3>4 DEF LinkTrue
      <4>2. QED
        BY <2>1, <3>2, <4>1 DEF LinkTrue
    <3>5. QED
      BY <3>3, <3>4
  <2>5. QED
    BY <2>3, <2>4
<1>9. QED
  BY <1>3, <1>4, <1>5, <1>6, <1>7, <1>8, ThreadKeeps DEF TablesTrue

\* Whoever finds a user finds a row; whoever does not still has its link.
LEMMA FindUserKeeps ==
  ASSUME IInv, NEW t \in Handlers, FindUser(t)
  PROVE  IInv'
<1>0. Types /\ JobTrue(t) /\ job[t] \in JobSet
  BY DEF IInv, Types
<1>1. pc[t] = "findUser" /\ StillTables /\ ids' = ids /\ calls' = calls
  BY DEF FindUser, StillTables
<1>2. PICK e \in Emails : e = EmailOf[job[t].link]
  BY <1>0, <1>1, SignInAssumption DEF JobTrue, Verifying
<1>3. PICK u \in {0} \cup UserIds : u = db.users[e]
  BY <1>0 DEF Types, Tables
<1>4. PICK label \in {"readEpoch", "createUser"} : label = IF u > 0 THEN "readEpoch" ELSE "createUser"
  OBVIOUS
<1> DEFINE j == [job[t] EXCEPT !.user = u]
<1>5. Goto(t, label) /\ job' = [job EXCEPT ![t] = j]
  BY <1>0, <1>2, <1>3, <1>4 DEF FindUser, Types
<1>6. j \in JobSet /\ j.user = u /\ j.link = job[t].link /\ j.out = job[t].out
  BY <1>0 DEF JobSet
<1> HIDE DEF j
<1>7. /\ pc' \in [Handlers -> Labels] /\ job' \in [Handlers -> JobSet]
      /\ pc'[t] = label /\ job'[t] = j /\ Moves(t)
  BY <1>0, <1>4, <1>5, <1>6, JobStep DEF Labels
<1>8. Types'
  BY <1>0, <1>1, <1>7 DEF Types, StillTables, history
<1>9. IdsLeft'
  <2>1. calls <= calls'
    BY <1>0, <1>1, SignInAssumption DEF Types
  <2>2. QED
    BY <1>1, <1>7, <1>8, <2>1, CreatorsShrink DEF Verifying
<1>10. JobTrue(t)'
  <2>1. /\ job[t].link \in Links /\ issued[job[t].link] > 0 /\ job[t].out \subseteq cookies
        /\ issued' = issued /\ cookies' = cookies /\ db' = db
    BY <1>0, <1>1 DEF JobTrue, Verifying, StillTables
  <2>2. label = "readEpoch" => u \in UserIds /\ HasRow(u)'
    BY <1>3, <1>4, <2>1 DEF HasRow
  <2>3. QED
    BY <1>4, <1>6, <1>7, <2>1, <2>2 DEF JobTrue, Verifying, Entering, Leaving, HasRow
<1>11. QED
  BY <1>1, <1>4, <1>7, <1>8, <1>9, <1>10, QuietKeeps

\* A user is created only for an address that has none, with an id left for it.
LEMMA CreateUserKeeps ==
  ASSUME IInv, NEW t \in Handlers, CreateUser(t)
  PROVE  IInv'
<1>0. Types /\ JobTrue(t) /\ job[t] \in JobSet /\ pc[t] = "createUser"
  BY DEF IInv, Types, CreateUser
<1>1. PICK e \in Emails : e = EmailOf[job[t].link]
  BY <1>0, SignInAssumption DEF JobTrue, Verifying
<1>2. CASE db.users[e] > 0
  <2>1. Return(t) /\ StillTables /\ ids' = ids /\ calls' = calls
    BY <1>1, <1>2 DEF CreateUser, StillTables
  <2>2. /\ pc' \in [Handlers -> Labels] /\ job' \in [Handlers -> JobSet]
        /\ pc'[t] = "idle" /\ Moves(t) /\ JobTrue(t)'
    BY <1>0, <2>1, ReturnStep
  <2>3. Types'
    BY <1>0, <2>1, <2>2 DEF Types, StillTables, history
  <2>4. calls <= calls'
    BY <1>0, <2>1, SignInAssumption DEF Types
  <2>5. IdsLeft'
    BY <1>0, <2>1, <2>2, <2>3, <2>4, CreatorsShrink DEF Verifying
  <2>6. QED
    BY <1>0, <2>1, <2>2, <2>3, <2>5, QuietKeeps
<1>3. CASE ~(db.users[e] > 0)
  <2>1. IdsLeft' /\ ids + 1 \in UserIds
    <3>1. /\ IsFiniteSet(Creators) /\ Cardinality(Creators) + ids <= calls + 1 /\ t \in Creators
      BY <1>0 DEF IInv, IdsLeft, Creators, Verifying
    <3>2. Creators' = Creators \ {t}
      <4>1. pc'[t] = "commitUser" /\ \A u \in Handlers \ {t} : pc'[u] = pc[u]
        BY <1>0, <1>1, <1>3, GotoStep DEF CreateUser, Labels
      <4>2. QED
        BY <4>1 DEF Creators, Verifying
    <3>3. IsFiniteSet(Creators') /\ Cardinality(Creators') = Cardinality(Creators) - 1
      BY <3>1, <3>2, FS_RemoveElement
    <3>4. Cardinality(Creators) \in Nat /\ Cardinality(Creators') \in Nat
      BY <3>1, <3>3, FS_CardinalityType
    <3>5. ids \in Nat /\ calls \in Nat /\ calls <= MaxCalls /\ MaxCalls \in Nat
      BY <1>0, SignInAssumption DEF Types, UserIds
    <3>6. ids' = ids + 1 /\ calls' = calls
      BY <1>1, <1>3 DEF CreateUser
    <3>7. ids + 1 \in 1..(MaxCalls + 1)
      BY <3>1, <3>3, <3>4, <3>5
    <3>8. QED
      BY <3>1, <3>3, <3>4, <3>5, <3>6, <3>7 DEF IdsLeft, UserIds
  <2>2. PICK n \in UserIds : n = ids + 1
    BY <2>1
  <2> DEFINE f == [db.users EXCEPT ![e] = n]
             j == [job[t] EXCEPT !.user = n]
  <2>3. /\ Goto(t, "commitUser") /\ ids' = n
        /\ db' = [db EXCEPT !.users = f] /\ job' = [job EXCEPT ![t] = j]
        /\ UNCHANGED <<disk, issued, cookies, now, calls, history>>
    BY <1>0, <1>1, <1>3, <2>2 DEF CreateUser, Types
  <2>4. /\ f \in [Emails -> {0} \cup UserIds] /\ f[e] = n
        /\ \A x \in Emails \ {e} : f[x] = db.users[x]
    BY <1>0 DEF Types, Tables
  <2>5. j \in JobSet /\ j.user = n /\ j.out = job[t].out
    BY <1>0 DEF JobSet
  <2> HIDE DEF f, j
  <2>6. db' \in Tables /\ db'.users = f /\ db'.consumed = db.consumed /\ db'.epoch = db.epoch
    BY <1>0, <2>3, <2>4, WriteUsers DEF Types
  <2>7. /\ pc' \in [Handlers -> Labels] /\ job' \in [Handlers -> JobSet]
        /\ pc'[t] = "commitUser" /\ job'[t] = j /\ Moves(t)
    BY <1>0, <2>3, <2>5, JobStep DEF Labels
  <2>8. Types'
    BY <1>0, <2>3, <2>6, <2>7 DEF Types, history
  <2>9. db.users[e] = 0 /\ disk.users[e] = 0
    <3>1. db.users[e] = 0
      BY <1>0, <1>3 DEF Types, Tables, UserIds
    <3>2. QED
      BY <3>1 DEF IInv, WritesOwned
  <2>10. Growing
    <3>1. /\ now \in Nat /\ \A u \in UserIds : logouts[u] \in Nat /\ db.epoch[u] \in Nat
      BY <1>0, SignInAssumption DEF Types, Tables
    <3>2. \A u \in UserIds : HasRow(u) => HasRow(u)'
      <4>1. ASSUME NEW u \in UserIds, HasRow(u) PROVE HasRow(u)'
        <5>1. PICK x \in Emails : db.users[x] = u
          BY <4>1 DEF HasRow
        <5>2. x # e
          BY <2>9, <5>1 DEF UserIds
        <5>3. QED
          BY <2>4, <2>6, <5>1, <5>2 DEF HasRow
      <4>2. QED
        BY <4>1
    <3>3. QED
      BY <2>3, <2>6, <3>1, <3>2 DEF Growing, history
  <2>11. Dated(db)' /\ Dated(disk)'
    BY <2>3, <2>6, <2>8, <2>10, RowsKept
  <2>12. \A l \in Links : LinkTrue(l)'
    <3>1. \A u \in Handlers, l \in Links : Holder(u, l)' => Holder(u, l)
      BY <2>7 DEF Holder, Moves, Stays
    <3>2. QED
      BY <2>3, <2>6, <2>8, <2>10, <3>1, LinksKept DEF history
  <2>13. WritesOwned'
    <3>1. WritesOwned /\ disk' = disk /\ \A u \in Handlers \ {t} : Stays(u)
      BY <2>3, <2>7 DEF IInv, Moves
    <3>2. ASSUME NEW x \in Emails, db'.users[x] # disk'.users[x]
          PROVE  /\ disk'.users[x] = 0
                 /\ \E u \in Handlers : pc'[u] = "commitUser" /\ job'[u].user = db'.users[x]
      <4>1. CASE x = e
        BY <2>4, <2>5, <2>6, <2>7, <2>9, <3>1, <4>1
      <4>2. CASE x # e
        <5>1. db'.users[x] = db.users[x] /\ db.users[x] # disk.users[x]
          BY <2>4, <2>6, <3>1, <3>2, <4>2
        <5>2. PICK u \in Handlers : pc[u] = "commitUser" /\ job[u].user = db.users[x]
          BY <3>1, <5>1 DEF WritesOwned
        <5>3. u # t
          BY <1>0, <5>2
        <5>4. QED
          BY <3>1, <5>1, <5>2, <5>3 DEF WritesOwned, Stays
      <4>3. QED
        BY <4>1, <4>2
    <3>3. ASSUME NEW u \in UserIds, db'.epoch[u] # disk'.epoch[u]
          PROVE  \E s \in Handlers : pc'[s] = "commitBump" /\ job'[s].user = u
      <4>1. PICK s \in Handlers : pc[s] = "commitBump" /\ job[s].user = u
        BY <2>6, <3>1, <3>3 DEF WritesOwned
      <4>2. s # t
        BY <1>0, <4>1
      <4>3. QED
        BY <3>1, <4>1, <4>2 DEF Stays
    <3>4. QED
      BY <3>2, <3>3 DEF WritesOwned
  <2>14. EpochTrue' /\ CookiesTrue'
    BY <2>3, <2>6, <2>8, <2>10, EpochKept, CookiesKept DEF history
  <2>15. JobTrue(t)'
    <3>1. job[t].out \subseteq cookies'
      BY <1>0, <2>3 DEF JobTrue
    <3>2. HasRow(n)'
      BY <2>4, <2>6 DEF HasRow
    <3>3. QED
      BY <2>5, <2>7, <3>1, <3>2 DEF JobTrue, Verifying, Entering, Leaving, HasRow
  <2>16. QED
    BY <2>1, <2>7, <2>8, <2>10, <2>11, <2>12, <2>13, <2>14, <2>15, ThreadKeeps DEF TablesTrue
<1>4. QED
  BY <1>2, <1>3

\* The commit that ends an upsert leaves its user what it was.
LEMMA CommitUserKeeps ==
  ASSUME IInv, NEW t \in Handlers, CommitUser(t)
  PROVE  IInv'
<1>0. Types /\ JobTrue(t) /\ job[t] \in JobSet
  BY DEF IInv, Types
<1>1. /\ pc[t] = "commitUser" /\ disk' = db /\ Goto(t, "readEpoch")
      /\ UNCHANGED <<db, issued, cookies, now, job, calls, ids, history>>
  BY DEF CommitUser
<1>2. pc' \in [Handlers -> Labels] /\ pc'[t] = "readEpoch" /\ Moves(t)
  BY <1>0, <1>1, GotoStep DEF Labels, Moves, Stays
<1>3. Types'
  BY <1>0, <1>1, <1>2 DEF Types, history
<1>4. Growing /\ Dated(db)' /\ Dated(disk)' /\ WritesOwned' /\ EpochTrue'
  BY <1>1, <1>3, CommitTables DEF history
<1>5. IdsLeft'
  <2>1. calls <= calls'
    BY <1>0, <1>1, SignInAssumption DEF Types
  <2>2. QED
    BY <1>1, <1>2, <1>3, <2>1, CreatorsShrink DEF Verifying
<1>6. \A l \in Links : LinkTrue(l)'
  <2>1. \A u \in Handlers, l \in Links : Holder(u, l)' => Holder(u, l)
    BY <1>2 DEF Holder, Moves, Stays
  <2>2. QED
    BY <1>1, <1>3, <1>4, <2>1, LinksKept DEF history
<1>7. CookiesTrue'
  BY <1>1, <1>3, <1>4, CookiesKept DEF history
<1>8. JobTrue(t)'
  BY <1>0, <1>1, <1>2 DEF JobTrue, Verifying, Entering, Leaving, HasRow, history
<1>9. QED
  BY <1>2, <1>3, <1>4, <1>5, <1>6, <1>7, <1>8, ThreadKeeps DEF TablesTrue

\* The epoch that is read is the number of logouts so far.
LEMMA ReadEpochKeeps ==
  ASSUME IInv, NEW t \in Handlers, ReadEpoch(t)
  PROVE  IInv'
<1>0. Types /\ JobTrue(t) /\ job[t] \in JobSet
  BY DEF IInv, Types
<1>1. /\ pc[t] = "readEpoch" /\ Goto(t, "sign") /\ StillTables /\ ids' = ids /\ calls' = calls
  BY DEF ReadEpoch, StillTables
<1>2. PICK u \in UserIds : u = job[t].user
  BY <1>0, <1>1 DEF JobTrue, Entering
<1>3. PICK n \in Nat : n = IF HasRow(u) THEN db.epoch[u] ELSE 0
  BY <1>0 DEF Types, Tables
<1> DEFINE j == [job[t] EXCEPT !.epoch = n, !.logouts = logouts[u]]
<1>4. job' = [job EXCEPT ![t] = j]
  BY <1>0, <1>2, <1>3 DEF ReadEpoch, Types
<1>5. /\ j \in JobSet /\ j.user = u /\ j.out = job[t].out /\ j.epoch = n /\ j.logouts = logouts[u]
      /\ logouts[u] \in Nat
  BY <1>0, <1>2 DEF JobSet, Types
<1> HIDE DEF j
<1>6. /\ pc' \in [Handlers -> Labels] /\ job' \in [Handlers -> JobSet]
      /\ pc'[t] = "sign" /\ job'[t] = j /\ Moves(t)
  BY <1>0, <1>1, <1>4, <1>5, JobStep DEF Labels
<1>7. Types'
  BY <1>0, <1>1, <1>6 DEF Types, StillTables, history
<1>8. IdsLeft'
  <2>1. calls <= calls'
    BY <1>0, <1>1, SignInAssumption DEF Types
  <2>2. QED
    BY <1>1, <1>6, <1>7, <2>1, CreatorsShrink DEF Verifying
<1>9. JobTrue(t)'
  <2>1. /\ undone' = undone /\ cookies' = cookies /\ logouts' = logouts /\ db' = db
        /\ job[t].out \subseteq cookies
    BY <1>0, <1>1 DEF JobTrue, StillTables, history
  <2>2. u \in undone \/ (HasRow(u)' /\ j.epoch = j.logouts)
    <3>1. u \in undone \/ (HasRow(u) /\ db.epoch[u] = logouts[u])
      BY <1>0, <1>1, <1>2 DEF JobTrue, Entering, IInv, EpochTrue
    <3>2. QED
      BY <1>3, <1>5, <2>1, <3>1 DEF HasRow
  <2>3. j.logouts <= logouts'[u]
    BY <1>5, <2>1
  <2>4. QED
    BY <1>5, <1>6, <2>1, <2>2, <2>3 DEF JobTrue, Verifying, Entering, Leaving, HasRow
<1>10. QED
  BY <1>1, <1>6, <1>7, <1>8, <1>9, QuietKeeps

\* The new cookie has the epoch of a logout count that is not ahead.
LEMMA SignKeeps ==
  ASSUME IInv, NEW t \in Handlers, Sign(t)
  PROVE  IInv'
<1>0. Types /\ JobTrue(t) /\ job[t] \in JobSet
  BY DEF IInv, Types
<1>1. /\ pc[t] = "sign" /\ Return(t)
      /\ UNCHANGED <<db, disk, issued, now, calls, ids, history>>
  BY DEF Sign
<1>2. PICK c : c = Cookie(t, now)
  OBVIOUS
<1>3. /\ c.user = job[t].user /\ c.epoch = job[t].epoch /\ c.at = now /\ c.logouts = job[t].logouts
      /\ c \in Cookies /\ cookies' = cookies \cup {c}
  <2>1. job[t].user \in UserIds
    BY <1>0, <1>1 DEF JobTrue, Entering
  <2>2. QED
    BY <1>0, <1>2, <2>1 DEF Cookie, Cookies, JobSet, Types, Sign
<1>4. /\ pc' \in [Handlers -> Labels] /\ job' \in [Handlers -> JobSet]
      /\ pc'[t] = "idle" /\ Moves(t) /\ JobTrue(t)'
  BY <1>0, <1>1, ReturnStep
<1>5. Types'
  <2>1. now <= now
    BY <1>0, SignInAssumption DEF Types
  <2>2. QED
    BY <1>0, <1>1, <1>3, <1>4, <2>1 DEF Types, history
<1>6. IdsLeft'
  <2>1. calls <= calls'
    BY <1>0, <1>1, SignInAssumption DEF Types
  <2>2. QED
    BY <1>1, <1>4, <1>5, <2>1, CreatorsShrink DEF Verifying
<1>7. Growing
  <2>1. /\ now \in Nat /\ \A u \in UserIds : logouts[u] \in Nat /\ db.epoch[u] \in Nat
    BY <1>0, SignInAssumption DEF Types, Tables
  <2>2. \A u \in UserIds : HasRow(u)' <=> HasRow(u)
    BY <1>1 DEF HasRow
  <2>3. QED
    BY <1>1, <1>3, <2>1, <2>2 DEF Growing, history
<1>8. Dated(db)' /\ Dated(disk)'
  BY <1>1, <1>5, <1>7, RowsKept
<1>9. \A l \in Links : LinkTrue(l)'
  <2>1. \A u \in Handlers, l \in Links : Holder(u, l)' => Holder(u, l)
    BY <1>4 DEF Holder, Moves, Stays
  <2>2. QED
    BY <1>1, <1>5, <1>7, <2>1, LinksKept DEF history
<1>10. WritesOwned' /\ EpochTrue'
  <2>1. \A u \in Handlers : pc[u] \in {"commitUser", "commitBump"} => Stays(u)
    BY <1>1, <1>4 DEF Moves
  <2>2. QED
    BY <1>1, <1>7, <2>1, WritesKept, EpochKept DEF history, Growing
<1>11. CookiesTrue'
  <2>1. \/ c.user \in undone
        \/ HasRow(c.user) /\ c.epoch = c.logouts /\ c.logouts <= logouts[c.user]
    BY <1>0, <1>1, <1>3 DEF JobTrue, Entering, HasRow
  <2>2. CookiesTrue /\ UNCHANGED <<db, undone, logouts, loggedOut>>
    BY <1>1 DEF IInv, history
  <2>3. QED
    BY <1>3, <2>1, <2>2 DEF CookiesTrue, HasRow
<1>12. QED
  BY <1>4, <1>5, <1>6, <1>7, <1>8, <1>9, <1>10, <1>11, ThreadKeeps DEF TablesTrue

\* Raising the epoch shuts out every cookie that was out when the logout began.
LEMMA BumpKeeps ==
  ASSUME IInv, NEW t \in Handlers, Bump(t)
  PROVE  IInv'
<1>0. Types /\ JobTrue(t) /\ job[t] \in JobSet /\ pc[t] = "bump"
  BY DEF IInv, Types, Bump
<1>1. PICK u \in UserIds : u = job[t].user
  BY <1>0 DEF JobTrue, Leaving
<1>2. CASE ~HasRow(u)
  <2>1. Return(t) /\ StillTables /\ ids' = ids /\ calls' = calls
    BY <1>1, <1>2 DEF Bump, StillTables, history
  <2>2. /\ pc' \in [Handlers -> Labels] /\ job' \in [Handlers -> JobSet]
        /\ pc'[t] = "idle" /\ Moves(t) /\ JobTrue(t)'
    BY <1>0, <2>1, ReturnStep
  <2>3. Types'
    BY <1>0, <2>1, <2>2 DEF Types, StillTables, history
  <2>4. calls <= calls'
    BY <1>0, <2>1, SignInAssumption DEF Types
  <2>5. IdsLeft'
    BY <1>0, <2>1, <2>2, <2>3, <2>4, CreatorsShrink DEF Verifying
  <2>6. QED
    BY <1>0, <2>1, <2>2, <2>3, <2>5, QuietKeeps
<1>3. CASE HasRow(u)
  <2> DEFINE f == [db.epoch EXCEPT ![u] = @ + 1]
  <2>1. /\ Goto(t, "commitBump") /\ db' = [db EXCEPT !.epoch = f] /\ job' = job
        /\ logouts' = [logouts EXCEPT ![u] = @ + 1]
        /\ UNCHANGED <<disk, issued, cookies, now, calls, ids, entered, late, undone, loggedOut>>
    BY <1>1, <1>3 DEF Bump
  <2>2. /\ f \in [UserIds -> Nat] /\ f[u] = db.epoch[u] + 1
        /\ \A x \in UserIds \ {u} : f[x] = db.epoch[x]
        /\ \A x \in UserIds : db.epoch[x] \in Nat
    BY <1>0 DEF Types, Tables
  <2>3. /\ logouts' \in [UserIds -> Nat] /\ logouts'[u] = logouts[u] + 1
        /\ \A x \in UserIds \ {u} : logouts'[x] = logouts[x]
        /\ \A x \in UserIds : logouts[x] \in Nat
    BY <1>0, <2>1 DEF Types
  <2> HIDE DEF f
  <2>4. db' \in Tables /\ db'.epoch = f /\ db'.consumed = db.consumed /\ db'.users = db.users
    BY <1>0, <2>1, <2>2, WriteEpoch DEF Types
  <2>5. /\ pc' \in [Handlers -> Labels] /\ pc'[t] = "commitBump" /\ Moves(t)
    BY <1>0, <2>1, GotoStep DEF Labels, Moves, Stays
  <2>6. Types'
    BY <1>0, <2>1, <2>3, <2>4, <2>5 DEF Types
  <2>7. IdsLeft'
    <3>1. calls <= calls'
      BY <1>0, <2>1, SignInAssumption DEF Types
    <3>2. QED
      BY <1>0, <2>1, <2>5, <2>6, <3>1, CreatorsShrink DEF Verifying
  <2>8. Growing
    <3>1. \A x \in UserIds : logouts[x] <= logouts'[x] /\ db.epoch[x] <= db'.epoch[x]
      BY <2>2, <2>3, <2>4
    <3>2. \A x \in UserIds : HasRow(x)' <=> HasRow(x)
      BY <2>4 DEF HasRow
    <3>3. now \in Nat
      BY <1>0, SignInAssumption DEF Types
    <3>4. QED
      BY <2>1, <3>1, <3>2, <3>3 DEF Growing
  <2>9. Dated(db)' /\ Dated(disk)'
    BY <2>1, <2>4, <2>6, <2>8, RowsKept
  <2>10. \A l \in Links : LinkTrue(l)'
    <3>1. \A x \in Handlers, l \in Links : Holder(x, l)' => Holder(x, l)
      BY <2>5 DEF Holder, Moves, Stays
    <3>2. QED
      BY <2>1, <2>4, <2>6, <2>8, <3>1, LinksKept
  <2>11. WritesOwned'
    <3>1. WritesOwned /\ disk' = disk /\ \A s \in Handlers \ {t} : Stays(s)
      BY <2>1, <2>5 DEF IInv, Moves
    <3>2. ASSUME NEW x \in Emails, db'.users[x] # disk'.users[x]
          PROVE  /\ disk'.users[x] = 0
                 /\ \E s \in Handlers : pc'[s] = "commitUser" /\ job'[s].user = db'.users[x]
      <4>1. disk.users[x] = 0 /\ \E s \in Handlers : pc[s] = "commitUser" /\ job[s].user = db.users[x]
        BY <2>4, <3>1, <3>2 DEF WritesOwned
      <4>2. PICK s \in Handlers : pc[s] = "commitUser" /\ job[s].user = db.users[x]
        BY <4>1
      <4>3. s # t
        BY <1>0, <4>2
      <4>4. QED
        BY <2>4, <3>1, <4>1, <4>2, <4>3 DEF Stays
    <3>3. ASSUME NEW x \in UserIds, db'.epoch[x] # disk'.epoch[x]
          PROVE  \E s \in Handlers : pc'[s] = "commitBump" /\ job'[s].user = x
      <4>1. CASE x = u
        BY <1>1, <2>1, <2>5, <4>1
      <4>2. CASE x # u
        <5>1. PICK s \in Handlers : pc[s] = "commitBump" /\ job[s].user = x
          BY <2>2, <2>4, <3>1, <3>3, <4>2 DEF WritesOwned
        <5>2. s # t
          BY <1>0, <5>1
        <5>3. QED
          BY <3>1, <5>1, <5>2 DEF Stays
      <4>3. QED
        BY <4>1, <4>2
    <3>4. QED
      BY <3>2, <3>3 DEF WritesOwned
  <2>12. EpochTrue'
    <3>1. EpochTrue /\ undone' = undone
      BY <2>1 DEF IInv
    <3>2. ASSUME NEW x \in UserIds, x \notin undone PROVE db'.epoch[x] = logouts'[x]
      <4>1. db.epoch[x] = logouts[x]
        BY <3>1, <3>2 DEF EpochTrue
      <4>2. QED
        BY <2>2, <2>3, <2>4, <4>1
    <3>3. QED
      BY <3>1, <3>2 DEF EpochTrue
  <2>13. CookiesTrue'
    BY <2>1, <2>6, <2>8, CookiesKept
  <2>14. JobTrue(t)'
    <3>1. /\ job[t].out \subseteq cookies /\ \A c \in job[t].out : c.user = u
      BY <1>0, <1>1 DEF JobTrue, Leaving
    <3>2. ASSUME u \notin undone, NEW c \in job[t].out PROVE c.epoch < db'.epoch[u]
      <4>1. c.epoch <= logouts[u] /\ c \in Cookies
        BY <1>0, <3>1, <3>2 DEF IInv, CookiesTrue, Types
      <4>2. logouts[u] = db.epoch[u]
        BY <3>2 DEF IInv, EpochTrue
      <4>3. c.epoch \in Nat
        BY <4>1 DEF Cookies
      <4>4. QED
        BY <2>2, <2>4, <4>1, <4>2, <4>3
    <3>3. undone' = undone /\ cookies' = cookies /\ job'[t] = job[t]
      BY <2>1
    <3>4. QED
      BY <1>1, <2>5, <3>1, <3>2, <3>3 DEF JobTrue, Verifying, Entering, Leaving
  <2>15. QED
    BY <2>5, <2>6, <2>7, <2>8, <2>9, <2>10, <2>11, <2>12, <2>13, <2>14, ThreadKeeps DEF TablesTrue
<1>4. QED
  BY <1>2, <1>3

\* A logout that answers adds only cookies that it has shut out.
LEMMA CommitBumpKeeps ==
  ASSUME IInv, NEW t \in Handlers, CommitBump(t)
  PROVE  IInv'
<1>0. Types /\ JobTrue(t) /\ job[t] \in JobSet /\ CookiesTrue
  BY DEF IInv, Types
<1>1. /\ pc[t] = "commitBump" /\ disk' = db /\ Return(t)
      /\ loggedOut' = loggedOut \cup job[t].out
      /\ UNCHANGED <<db, issued, cookies, now, calls, ids, entered, late, undone, logouts>>
  BY DEF CommitBump
<1>2. /\ pc' \in [Handlers -> Labels] /\ job' \in [Handlers -> JobSet]
      /\ pc'[t] = "idle" /\ Moves(t) /\ JobTrue(t)'
  BY <1>0, <1>1, ReturnStep
<1>3. Types'
  BY <1>0, <1>1, <1>2 DEF Types
<1>4. Growing /\ Dated(db)' /\ Dated(disk)' /\ WritesOwned' /\ EpochTrue'
  BY <1>1, <1>3, CommitTables
<1>5. IdsLeft'
  <2>1. calls <= calls'
    BY <1>0, <1>1, SignInAssumption DEF Types
  <2>2. QED
    BY <1>1, <1>2, <1>3, <2>1, CreatorsShrink DEF Verifying
<1>6. \A l \in Links : LinkTrue(l)'
  <2>1. \A u \in Handlers, l \in Links : Holder(u, l)' => Holder(u, l)
    BY <1>2 DEF Holder, Moves, Stays
  <2>2. QED
    BY <1>1, <1>3, <1>4, <2>1, LinksKept
<1>7. CookiesTrue'
  <2>1. job[t].out \subseteq cookies /\ \A c \in job[t].out : c.user \in undone \/ c.epoch < db.epoch[c.user]
    BY <1>0, <1>1 DEF JobTrue, Leaving
  <2>2. QED
    BY <1>0, <1>1, <2>1 DEF CookiesTrue, HasRow
<1>8. QED
  BY <1>2, <1>3, <1>4, <1>5, <1>6, <1>7, ThreadKeeps DEF TablesTrue

-----------------------------------------------------------------------------
(* Steps of others than the calls.                                         *)

\* A link that is mailed had no verification and no row.
LEMMA IssueLinkKeeps ==
  ASSUME IInv, NEW l \in Links, IssueLink(l)
  PROVE  IInv'
<1>0. Types
  BY DEF IInv
<1>1. /\ issued[l] = 0 /\ issued' = [issued EXCEPT ![l] = now]
      /\ UNCHANGED <<db, disk, cookies, now, pc, job, calls, ids, history>>
  BY DEF IssueLink
<1>2. /\ issued' \in [Links -> 0..MaxTime] /\ issued'[l] = now
      /\ \A x \in Links \ {l} : issued'[x] = issued[x]
      /\ now \in Nat /\ calls \in Nat
  BY <1>0, <1>1, SignInAssumption DEF Types
<1>3. Types'
  BY <1>0, <1>1, <1>2 DEF Types, history
<1>4. Growing
  <2>1. \A u \in UserIds : logouts[u] \in Nat /\ db.epoch[u] \in Nat
    BY <1>0 DEF Types, Tables
  <2>2. \A u \in UserIds : HasRow(u)' <=> HasRow(u)
    BY <1>1 DEF HasRow
  <2>3. \A x \in Links : issued[x] > 0 => issued'[x] = issued[x]
    BY <1>1, <1>2
  <2>4. QED
    BY <1>1, <1>2, <2>1, <2>2, <2>3 DEF Growing, history
<1>5. IdsLeft'
  BY <1>1, <1>2, <1>3, IdsKept DEF Creators
<1>6. Dated(db)' /\ Dated(disk)'
  BY <1>1, <1>3, <1>4, RowsKept
<1>7. \A x \in Links : LinkTrue(x)'
  <2>1. \A u \in Handlers, x \in Links : Holder(u, x)' => Holder(u, x)
    BY <1>1 DEF Holder
  <2>2. QED
    BY <1>1, <1>3, <1>4, <2>1, LinksKept DEF history
<1>8. WritesOwned' /\ EpochTrue' /\ CookiesTrue'
  <2>1. \A u \in Handlers : Stays(u)
    BY <1>1 DEF Stays
  <2>2. QED
    BY <1>1, <1>3, <1>4, <2>1, WritesKept, EpochKept, CookiesKept DEF history, Growing
<1>9. QED
  BY <1>1, <1>3, <1>4, <1>5, <1>6, <1>7, <1>8, OtherKeeps DEF TablesTrue

\* A commit by another handler takes along what is pending on the connection.
LEMMA CommitByOtherKeeps ==
  ASSUME IInv, CommitByOther
  PROVE  IInv'
<1>0. Types
  BY DEF IInv
<1>1. disk' = db /\ UNCHANGED <<db, issued, cookies, now, pc, job, calls, ids, history>>
  BY DEF CommitByOther
<1>2. Types'
  BY <1>0, <1>1 DEF Types, history
<1>3. Growing /\ Dated(db)' /\ Dated(disk)' /\ WritesOwned' /\ EpochTrue'
  BY <1>1, <1>2, CommitTables DEF history
<1>4. IdsLeft'
  <2>1. calls <= calls'
    BY <1>0, <1>1, SignInAssumption DEF Types
  <2>2. QED
    BY <1>1, <1>2, <2>1, IdsKept DEF Creators
<1>5. \A l \in Links : LinkTrue(l)'
  <2>1. \A u \in Handlers, l \in Links : Holder(u, l)' => Holder(u, l)
    BY <1>1 DEF Holder
  <2>2. QED
    BY <1>1, <1>2, <1>3, <2>1, LinksKept DEF history
<1>6. CookiesTrue'
  BY <1>1, <1>2, <1>3, CookiesKept DEF history
<1>7. QED
  BY <1>1, <1>2, <1>3, <1>4, <1>5, <1>6, OtherKeeps DEF TablesTrue

\* What a return to the committed tables takes back is noted as undone.
LEMMA TakenBack ==
  ASSUME IInv, db' = disk, undone \cup UsersAtRisk \subseteq undone',
         UNCHANGED <<issued, cookies, now, late, logouts>>
  PROVE  /\ Growing
         /\ \A u \in UserIds : u \in undone' \/ db'.epoch[u] = db.epoch[u]
<1>0. Types /\ WritesOwned
  BY DEF IInv
<1>1. ASSUME NEW u \in UserIds, u \notin undone', HasRow(u) PROVE HasRow(u)'
  <2>1. PICK e \in Emails : db.users[e] = u
    BY <1>1 DEF HasRow
  <2>2. CASE disk.users[e] = u
    BY <2>2 DEF HasRow
  <2>3. CASE disk.users[e] # u
    <3>1. PICK t \in Handlers : pc[t] = "commitUser" /\ job[t].user = u
      BY <1>0, <2>1, <2>3 DEF WritesOwned
    <3>2. u \in UsersAtRisk
      BY <3>1 DEF UsersAtRisk, Uncommitted
    <3>3. QED
      BY <1>1, <3>2
  <2>4. QED
    BY <2>2, <2>3
<1>2. ASSUME NEW u \in UserIds, u \notin undone' PROVE db'.epoch[u] = db.epoch[u]
  <2>1. SUFFICES ASSUME db.epoch[u] # disk.epoch[u] PROVE FALSE
    OBVIOUS
  <2>2. PICK t \in Handlers : pc[t] = "commitBump" /\ job[t].user = u
    BY <1>0, <2>1 DEF WritesOwned
  <2>3. u \in UsersAtRisk
    BY <2>2 DEF UsersAtRisk, Uncommitted
  <2>4. QED
    BY <1>2, <2>3
<1>3. now \in Nat /\ \A u \in UserIds : logouts[u] \in Nat /\ db.epoch[u] \in Nat
  BY <1>0, SignInAssumption DEF Types, Tables
<1>4. \A u \in UserIds : u \in undone' \/ db.epoch[u] <= db'.epoch[u]
  BY <1>2, <1>3
<1>5. QED
  BY <1>1, <1>2, <1>3, <1>4 DEF Growing

\* Who was let in has a committed row, so a link that nobody is first with
\* is as it was.
LEMMA LinkTakenBack ==
  ASSUME IInv, Growing, db' = disk, disk' = disk, now' = now, issued' = issued, entered' = entered,
         NEW l \in Links, l \notin late' \cup undone' => \A t \in Handlers : ~(Holder(t, l)')
  PROVE  LinkTrue(l)'
<1>1. LinkTrue(l)
  BY DEF IInv
<1>2. (Spent(db, l)' <=> Spent(disk, l)) /\ (Spent(disk, l)' <=> Spent(disk, l))
  BY DEF Spent
<1>3. l \notin late' \cup undone' => l \notin late \cup undone
  BY DEF Growing
<1>4. QED
  BY <1>1, <1>2, <1>3, LinkStays DEF LinkTrue

\* Another handler's rollback takes back only what is not committed.
LEMMA RollbackByOtherKeeps ==
  ASSUME IInv, RollbackByOther
  PROVE  IInv'
<1>0. Types
  BY DEF IInv
<1>1. /\ db' = disk /\ undone' = undone \cup UsersAtRisk \cup LinksAtRisk
      /\ UNCHANGED <<disk, issued, cookies, now, pc, job, calls, ids, entered, late, loggedOut, logouts>>
  BY DEF RollbackByOther
<1>2. Types'
  BY <1>0, <1>1 DEF Types
<1>3. Growing /\ \A u \in UserIds : u \in undone' \/ db'.epoch[u] = db.epoch[u]
  BY <1>1, TakenBack
<1>4. IdsLeft'
  <2>1. calls <= calls'
    BY <1>0, <1>1, SignInAssumption DEF Types
  <2>2. QED
    BY <1>1, <1>2, <2>1, IdsKept DEF Creators
<1>5. Dated(db)' /\ Dated(disk)'
  BY <1>1, <1>2, <1>3, RowsKept
<1>6. ASSUME NEW l \in Links PROVE LinkTrue(l)'
  <2>1. ASSUME NEW t \in Handlers, Holder(t, l)' PROVE l \in undone'
    BY <1>1, <2>1 DEF Holder, LinksAtRisk, Uncommitted
  <2>2. QED
    BY <1>1, <1>3, <2>1, LinkTakenBack
<1>7. WritesOwned' /\ EpochTrue' /\ CookiesTrue'
  BY <1>1, <1>2, <1>3, WritesCommitted, EpochKept, CookiesKept DEF Growing
<1>8. QED
  BY <1>1, <1>2, <1>3, <1>4, <1>5, <1>6, <1>7, OtherKeeps DEF TablesTrue

\* The end of the process loses the calls under way and what is not committed.
LEMMA CrashKeeps ==
  ASSUME IInv, Crash
  PROVE  IInv'
<1>0. Types
  BY DEF IInv
<1>1. /\ calls < MaxCalls /\ calls' = calls + 1
      /\ db' = disk /\ undone' = undone \cup UsersAtRisk
      /\ pc' = [t \in Handlers |-> "idle"] /\ job' = [t \in Handlers |-> NoJob]
      /\ UNCHANGED <<disk, issued, cookies, now, ids, entered, late, loggedOut, logouts>>
  BY DEF Crash
<1>2. Types'
  <2>1. calls' \in 0..MaxCalls
    BY <1>0, <1>1, SignInAssumption DEF Types
  <2>2. QED
    BY <1>0, <1>1, <2>1, NoJobType DEF Types, Labels
<1>3. Growing /\ \A u \in UserIds : u \in undone' \/ db'.epoch[u] = db.epoch[u]
  BY <1>1, TakenBack
<1>4. IdsLeft'
  <2>1. calls <= calls'
    BY <1>0, <1>1, SignInAssumption DEF Types
  <2>2. Creators' \subseteq Creators
    BY <1>1 DEF Creators, Verifying
  <2>3. QED
    BY <1>1, <1>2, <2>1, <2>2, IdsKept
<1>5. Dated(db)' /\ Dated(disk)'
  BY <1>1, <1>2, <1>3, RowsKept
<1>6. ASSUME NEW l \in Links PROVE LinkTrue(l)'
  <2>1. ASSUME NEW t \in Handlers PROVE ~(Holder(t, l)')
    BY <1>1 DEF Holder
  <2>2. QED
    BY <1>1, <1>3, <2>1, LinkTakenBack
<1>7. WritesOwned' /\ EpochTrue' /\ CookiesTrue'
  BY <1>1, <1>2, <1>3, WritesCommitted, EpochKept, CookiesKept DEF Growing
<1>8. ASSUME NEW t \in Handlers PROVE JobTrue(t)'
  <2>1. pc'[t] = "idle" /\ job'[t].out = {}
    BY <1>1 DEF NoJob
  <2>2. QED
    BY <2>1 DEF JobTrue, Verifying, Entering, Leaving
<1>9. QED
  BY <1>2, <1>4, <1>5, <1>6, <1>7, <1>8 DEF IInv

\* Time passes: what is past is still past, and what is too old is older still.
LEMMA TickKeeps ==
  ASSUME IInv, Tick
  PROVE  IInv'
<1>0. Types
  BY DEF IInv
<1>1. now < MaxTime /\ now' = now + 1 /\ UNCHANGED <<db, disk, issued, cookies, pc, job, calls, ids, history>>
  BY DEF Tick
<1>2. Types'
  <2>1. now' \in 1..MaxTime /\ now <= now' /\ now \in Nat
    BY <1>0, <1>1, SignInAssumption DEF Types
  <2>2. \A l \in Links : issued[l] <= now'
    BY <1>0, <2>1, SignInAssumption DEF Types
  <2>3. \A c \in cookies : c.at <= now'
    BY <1>0, <2>1 DEF Types, Cookies
  <2>4. QED
    BY <1>0, <1>1, <2>1, <2>2, <2>3 DEF Types, history
<1>3. Growing
  <2>1. /\ now \in Nat /\ \A u \in UserIds : logouts[u] \in Nat /\ db.epoch[u] \in Nat
    BY <1>0, SignInAssumption DEF Types, Tables
  <2>2. \A u \in UserIds : HasRow(u)' <=> HasRow(u)
    BY <1>1 DEF HasRow
  <2>3. QED
    BY <1>1, <2>1, <2>2 DEF Growing, history
<1>4. IdsLeft'
  <2>1. calls <= calls'
    BY <1>0, <1>1, SignInAssumption DEF Types
  <2>2. QED
    BY <1>1, <1>2, <2>1, IdsKept DEF Creators
<1>5. Dated(db)' /\ Dated(disk)'
  BY <1>1, <1>2, <1>3, RowsKept
<1>6. \A l \in Links : LinkTrue(l)'
  <2>1. \A u \in Handlers, l \in Links : Holder(u, l)' => Holder(u, l)
    BY <1>1 DEF Holder
  <2>2. QED
    BY <1>1, <1>2, <1>3, <2>1, LinksKept DEF history
<1>7. WritesOwned' /\ EpochTrue' /\ CookiesTrue'
  <2>1. \A u \in Handlers : Stays(u)
    BY <1>1 DEF Stays
  <2>2. QED
    BY <1>1, <1>2, <1>3, <2>1, WritesKept, EpochKept, CookiesKept DEF history, Growing
<1>8. QED
  BY <1>1, <1>2, <1>3, <1>4, <1>5, <1>6, <1>7, OtherKeeps DEF TablesTrue

-----------------------------------------------------------------------------
(* The theorems.                                                           *)

\* A member with a session, and nothing under way.
LEMMA InitInv == Init => IInv
<1> SUFFICES ASSUME Init PROVE IInv
  OBVIOUS
<1>0. 1 \in UserIds /\ 0 \in 0..MaxTime /\ 1 \in 1..MaxTime /\ 0 \in 0..MaxCalls /\ 0 \notin UserIds
  BY SignInAssumption DEF UserIds
<1>1. /\ db = AtStart /\ disk = AtStart /\ now = 1 /\ calls = 0 /\ ids = 1
      /\ issued = [l \in Links |-> 0] /\ entered = [l \in Links |-> 0]
      /\ logouts = [u \in UserIds |-> 0] /\ undone = {} /\ loggedOut = {}
      /\ pc = [t \in Handlers |-> "idle"] /\ job = [t \in Handlers |-> NoJob]
  BY DEF Init
<1>2. PICK c \in Cookies : cookies = {c} /\ c.user = 1 /\ c.epoch = 0 /\ c.at = 1 /\ c.logouts = 0
  <2>1. [user |-> 1, epoch |-> 0, at |-> 1, logouts |-> 0] \in Cookies
    BY <1>0 DEF Cookies
  <2>2. QED
    BY <2>1 DEF Init
<1>3. /\ AtStart \in Tables /\ \A l \in Links : AtStart.consumed[l] = 0
      /\ AtStart.users[Member] = 1 /\ \A u \in UserIds : AtStart.epoch[u] = 0
  BY <1>0, SignInAssumption DEF AtStart, Tables
<1>4. Types
  BY <1>0, <1>1, <1>2, <1>3, NoJobType DEF Types, Labels
<1>5. IdsLeft
  <2>1. Creators = {}
    BY <1>1 DEF Creators, Verifying
  <2>2. QED
    BY <1>1, <2>1, FS_EmptySet DEF IdsLeft
<1>6. Dated(db) /\ Dated(disk)
  BY <1>1, <1>3 DEF Dated
<1>7. \A t \in Handlers : JobTrue(t)
  <2>1. \A t \in Handlers : pc[t] = "idle" /\ job[t].out = {}
    BY <1>1 DEF NoJob
  <2>2. QED
    BY <2>1 DEF JobTrue, Verifying, Entering, Leaving
<1>8. \A l \in Links : LinkTrue(l)
  BY <1>1 DEF LinkTrue, Holder
<1>9. WritesOwned /\ EpochTrue
  BY <1>1, <1>3 DEF WritesOwned, EpochTrue
<1>10. CookiesTrue
  <2>1. HasRow(1)
    BY <1>1, <1>3, SignInAssumption DEF HasRow
  <2>2. logouts[1] = 0
    BY <1>0, <1>1
  <2>3. QED
    BY <1>1, <1>2, <2>1, <2>2 DEF CookiesTrue
<1>11. QED
  BY <1>4, <1>5, <1>6, <1>7, <1>8, <1>9, <1>10 DEF IInv

\* Every step of every call, of other handlers, of the process and of the clock
\* keeps the invariant.
LEMMA NextKeeps == IInv /\ [Next]_vars => IInv'
<1> SUFFICES ASSUME IInv, [Next]_vars PROVE IInv'
  OBVIOUS
<1>1. ASSUME NEW t \in Handlers, Step(t) PROVE IInv'
  BY <1>1, StartVerifyKeeps, CollectKeeps, ConsumeKeeps, CommitLinkKeeps, FindUserKeeps,
     CreateUserKeeps, CommitUserKeeps, ReadEpochKeeps, SignKeeps, StartLogoutKeeps, BumpKeeps,
     CommitBumpKeeps DEF Step
<1>2. CASE UNCHANGED vars
  BY <1>2 DEF vars, IInv, Types, IdsLeft, Creators, Dated, JobTrue, LinkTrue, Holder, Spent,
     WritesOwned, EpochTrue, CookiesTrue, HasRow
<1>3. QED
  BY <1>1, <1>2, IssueLinkKeeps, CommitByOtherKeeps, RollbackByOtherKeeps, CrashKeeps, TickKeeps
     DEF Next

\* The inductive invariant: what every call under way has read and still goes
\* by, who owns a write that is not committed, and what a cookie is worth.
THEOREM SignInInvariance == Spec => []IInv
  BY InitInv, NextKeeps, PTL DEF Spec

\* Types; no cookie or row of a link is from the future, and there is a user id
\* for every verification.
THEOREM SignInTypes == Spec => []TypeOK
<1>1. IInv => TypeOK
  BY TypesTypeOK
<1>2. QED
  BY <1>1, SignInInvariance, PTL

\* consume_magic_link_token lets one verification of a link in, unless one of
\* them outlived the signature check or its row was rolled back.
THEOREM LinksLetInOnce == Spec => []LinkOnce
<1>1. IInv => LinkOnce
  BY DEF IInv, LinkTrue, LinkOnce
<1>2. QED
  BY <1>1, SignInInvariance, PTL

\* bump_session_epoch: no cookie that was out when a logout began is good once
\* the logout has answered, unless the new epoch was taken back.
THEOREM LogoutsReachCookies == Spec => []LoggedOutStaysOut
<1>1. IInv => LoggedOutStaysOut
  <2> SUFFICES ASSUME IInv, NEW c \in loggedOut, c.user \notin undone, Accepted(c) PROVE FALSE
    BY DEF LoggedOutStaysOut
  <2>1. c \in Cookies /\ c.epoch < db.epoch[c.user] /\ db \in Tables
    BY DEF IInv, CookiesTrue, Types
  <2>2. c.epoch \in Nat /\ db.epoch[c.user] \in Nat
    BY <2>1 DEF Cookies, Tables
  <2>3. QED
    BY <2>1, <2>2 DEF Accepted
<1>2. QED
  BY <1>1, SignInInvariance, PTL

\* read_session: a cookie is good until it is too old or a logout of its user
\* has begun to raise the epoch, unless a write of its user's was taken back.
THEOREM CookiesStayGood == Spec => []SignedInStays
<1>1. IInv => SignedInStays
  <2> SUFFICES ASSUME IInv, NEW c \in cookies, ~(now - c.at > SessionAge),
                      c.logouts = logouts[c.user], c.user \notin undone
               PROVE  Accepted(c)
    BY DEF SignedInStays
  <2>1. c \in Cookies /\ HasRow(c.user) /\ c.epoch = c.logouts /\ now \in Nat /\ SessionAge \in Nat
    BY SignInAssumption DEF IInv, CookiesTrue, Types
  <2>2. db.epoch[c.user] = logouts[c.user] /\ c.at \in Nat /\ c.epoch \in Nat
    BY <2>1 DEF IInv, EpochTrue, Cookies
  <2>3. QED
    BY <2>1, <2>2 DEF Accepted
<1>2. QED
  BY <1>1, SignInInvariance, PTL

\* The tables are committed as they are, or not written: a commit changes no
\* account that is committed.
LEMMA StepKeepsAccounts ==
  IInv /\ [Next]_vars => [\A e \in Emails : disk.users[e] > 0 => disk'.users[e] = disk.users[e]]_disk
<1> SUFFICES ASSUME IInv, [Next]_vars, NEW e \in Emails, disk.users[e] > 0
             PROVE  disk' = disk \/ disk'.users[e] = disk.users[e]
  OBVIOUS
<1>1. disk' = disk \/ disk' = db
  BY DEF Next, vars, Step, IssueLink, CommitByOther, RollbackByOther, Crash, Tick, StartVerify, Call,
     Collect, Consume, CommitLink, FindUser, CreateUser, CommitUser, ReadEpoch, Sign, StartLogout,
     Bump, CommitBump
<1>2. db.users[e] = disk.users[e]
  <2>1. disk.users[e] # 0
    OBVIOUS
  <2>2. QED
    BY <2>1 DEF IInv, WritesOwned
<1>3. QED
  BY <1>1, <1>2

\* upsert_user_by_email: an address keeps the account it once has.
THEOREM AccountsStay == Spec => AccountKept
<1>1. QED
  BY StepKeepsAccounts, SignInInvariance, PTL DEF Spec, AccountKept

=============================================================================
