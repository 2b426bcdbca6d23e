------------------------------- MODULE SignIn -------------------------------
(***************************************************************************)
(* Signing in by a mailed link and signing out (service/magic_link.py,     *)
(* service/sessions.py, service/users.py, web/auth_routes.py).  A link is  *)
(* signed and good for one sign-in; a session is a signed cookie that      *)
(* carries its user's epoch, which a logout raises.                        *)
(*                                                                         *)
(* Verifications and logouts run on pool threads over one connection: what *)
(* a thread has written is there for all of them at once, any commit makes *)
(* it last, and any rollback takes it back.                                *)
(***************************************************************************)
EXTENDS Naturals, FiniteSets

CONSTANTS
    Handlers,    \* threads of the pool
    Emails,
    Links,       \* mailed links
    EmailOf,     \* EmailOf[l]: the address l was mailed to
    Member,      \* the address that has an account and a session from the start
    MaxAge,      \* MAGIC_LINK_MAX_AGE_SECONDS
    SessionAge,  \* SESSION_MAX_AGE_SECONDS
    NoLink,      \* no link
    MaxTime,     \* bound: the clock stops there
    MaxCalls     \* bound: verifications, logouts and stops in a behaviour

ASSUME SignInAssumption ==
    /\ EmailOf \in [Links -> Emails] /\ NoLink \notin Links
    /\ Member \in Emails
    /\ MaxAge \in Nat /\ SessionAge \in Nat
    /\ MaxTime \in Nat \ {0} /\ MaxCalls \in Nat

UserIds == 1..(MaxCalls + 1)

VARIABLES
    db,         \* the tables as every statement sees them
    disk,       \* the tables as last committed
    issued,     \* issued[l]: the time in l's signature, 0 before it is mailed
    cookies,    \* session cookies handed out
    now,
    pc,         \* pc[t]: the next statement of thread t
    job,        \* job[t]: what t's call has read
    calls,      \* calls started
    ids,        \* user ids drawn; no two are alike
    \* history
    entered,    \* entered[l]: verifications of l that were let in
    late,       \* links with a verification that outlived its signature check
    undone,     \* links and users with a write taken back before its commit
    loggedOut,  \* cookies out when a logout of their user began that has returned
    logouts     \* logouts[u]: logouts of user u that got as far as the epoch

vars == <<db, disk, issued, cookies, now, pc, job, calls, ids,
          entered, late, undone, loggedOut, logouts>>
history == <<entered, late, undone, loggedOut, logouts>>

NoJob == [link |-> NoLink, at |-> 0, first |-> FALSE, user |-> 0, epoch |-> 0,
          out |-> {}, logouts |-> 0]

AtStart ==
    [consumed |-> [l \in Links |-> 0],                           \* 0 for no row
     users |-> [e \in Emails |-> IF e = Member THEN 1 ELSE 0],   \* ids, 0 for no row
     epoch |-> [u \in UserIds |-> 0]]                            \* session_epoch

Init ==
    /\ db = AtStart /\ disk = AtStart
    /\ issued = [l \in Links |-> 0]
    /\ cookies = {[user |-> 1, epoch |-> 0, at |-> 1, logouts |-> 0]}
    /\ now = 1
    /\ pc = [t \in Handlers |-> "idle"]
    /\ job = [t \in Handlers |-> NoJob]
    /\ calls = 0 /\ ids = 1
    /\ entered = [l \in Links |-> 0]
    /\ late = {} /\ undone = {} /\ loggedOut = {}
    /\ logouts = [u \in UserIds |-> 0]

-----------------------------------------------------------------------------
Goto(t, label) == pc' = [pc EXCEPT ![t] = label]
Return(t) == Goto(t, "idle") /\ job' = [job EXCEPT ![t] = NoJob]

Call(t, label, j) ==
    /\ pc[t] = "idle"
    /\ calls < MaxCalls /\ calls' = calls + 1
    /\ Goto(t, label) /\ job' = [job EXCEPT ![t] = j]
    /\ UNCHANGED <<db, disk, issued, cookies, ids, now, history>>

HasRow(u) == \E e \in Emails : db.users[e] = u

\* Seeded fault: read_session is not given the connection.
AcceptedUnchecked(c) == now - c.at <= SessionAge

\* read_session: not too old, of a user who is there, of the user's epoch.
Accepted(c) ==
    /\ now - c.at <= SessionAge
    /\ HasRow(c.user) /\ c.epoch >= db.epoch[c.user]

-----------------------------------------------------------------------------
\* POST /api/auth/magic-link
IssueLink(l) ==
    /\ issued[l] = 0
    /\ issued' = [issued EXCEPT ![l] = now]
    /\ UNCHANGED <<db, disk, cookies, now, pc, job, calls, ids, history>>

\* GET /verify and POST /api/auth/verify: the signature and its age.
StartVerify(t) ==
    \E l \in Links :
        /\ issued[l] > 0 /\ now - issued[l] <= MaxAge
        /\ Call(t, "collect", [NoJob EXCEPT !.link = l])

\* Seeded fault: rows are collected one second early.
CollectEarly(t) ==
    /\ pc[t] = "collect"
    /\ db' = [db EXCEPT !.consumed =
                [l \in Links |-> IF @[l] + MaxAge <= now THEN 0 ELSE @[l]]]
    /\ job' = [job EXCEPT ![t].at = now]
    /\ Goto(t, "consume")
    /\ UNCHANGED <<disk, issued, cookies, now, calls, ids, history>>

\* The clock is read again, and rows older than a link can be are dropped.
Collect(t) ==
    /\ pc[t] = "collect"
    /\ db' = [db EXCEPT !.consumed =
                [l \in Links |-> IF @[l] + MaxAge < now THEN 0 ELSE @[l]]]
    /\ job' = [job EXCEPT ![t].at = now]
    /\ Goto(t, "consume")
    /\ UNCHANGED <<disk, issued, cookies, now, calls, ids, history>>

\* INSERT OR IGNORE
Consume(t) ==
    LET l == job[t].link
        first == db.consumed[l] = 0
    IN
    /\ pc[t] = "consume"
    /\ db' = IF first THEN [db EXCEPT !.consumed[l] = job[t].at] ELSE db
    /\ job' = [job EXCEPT ![t].first = first]
    /\ late' = late \cup IF now - issued[l] > MaxAge THEN {l} ELSE {}
    /\ Goto(t, "commitLink")
    /\ UNCHANGED <<disk, issued, cookies, now, calls, ids, entered, undone, loggedOut, logouts>>

CommitLink(t) ==
    /\ pc[t] = "commitLink"
    /\ disk' = db
    /\ IF job[t].first
       THEN /\ entered' = [entered EXCEPT ![job[t].link] = @ + 1]
            /\ Goto(t, "findUser") /\ UNCHANGED job
       ELSE Return(t) /\ UNCHANGED entered
    /\ UNCHANGED <<db, issued, cookies, now, calls, ids, late, undone, loggedOut, logouts>>

\* upsert_user_by_email
FindUser(t) ==
    LET u == db.users[EmailOf[job[t].link]] IN
    /\ pc[t] = "findUser"
    /\ job' = [job EXCEPT ![t].user = u]
    /\ Goto(t, IF u > 0 THEN "readEpoch" ELSE "createUser")
    /\ UNCHANGED <<db, disk, issued, cookies, now, calls, ids, history>>

\* Seeded fault: the address is taken over from the row that has it.
CreateUserAgain(t) ==
    /\ pc[t] = "createUser"
    /\ ids' = ids + 1
    /\ db' = [db EXCEPT !.users[EmailOf[job[t].link]] = ids']
    /\ job' = [job EXCEPT ![t].user = ids']
    /\ Goto(t, "commitUser")
    /\ UNCHANGED <<disk, issued, cookies, now, calls, history>>

\* Addresses are unique: the INSERT raises when the other of two first sign-ins
\* was faster, and the link is spent.
CreateUser(t) ==
    LET e == EmailOf[job[t].link] IN
    /\ pc[t] = "createUser"
    /\ IF db.users[e] > 0 THEN Return(t) /\ UNCHANGED <<db, ids>>
       ELSE /\ ids' = ids + 1
            /\ db' = [db EXCEPT !.users[e] = ids']
            /\ job' = [job EXCEPT ![t].user = ids']
            /\ Goto(t, "commitUser")
    /\ UNCHANGED <<disk, issued, cookies, now, calls, history>>

CommitUser(t) ==
    /\ pc[t] = "commitUser"
    /\ disk' = db
    /\ Goto(t, "readEpoch")
    /\ UNCHANGED <<db, issued, cookies, now, job, calls, ids, history>>

\* issue_session: a user who is not there has epoch 0.
ReadEpoch(t) ==
    LET u == job[t].user IN
    /\ pc[t] = "readEpoch"
    /\ job' = [job EXCEPT ![t].epoch = IF HasRow(u) THEN db.epoch[u] ELSE 0,
                          ![t].logouts = logouts[u]]
    /\ Goto(t, "sign")
    /\ UNCHANGED <<db, disk, issued, cookies, now, calls, ids, history>>

Cookie(t, at) == [user |-> job[t].user, epoch |-> job[t].epoch, at |-> at,
                  logouts |-> job[t].logouts]

\* Seeded fault: the cookie is stamped with the time it expires.
SignAhead(t) ==
    /\ pc[t] = "sign"
    /\ cookies' = cookies \cup {Cookie(t, now + SessionAge)}
    /\ Return(t)
    /\ UNCHANGED <<db, disk, issued, now, calls, ids, history>>

Sign(t) ==
    /\ pc[t] = "sign"
    /\ cookies' = cookies \cup {Cookie(t, now)}
    /\ Return(t)
    /\ UNCHANGED <<db, disk, issued, now, calls, ids, history>>

-----------------------------------------------------------------------------
\* POST /api/auth/logout, with a cookie that is still good; any other is only
\* dropped by its browser.
StartLogout(t) ==
    \E c \in cookies :
        /\ Accepted(c)
        /\ Call(t, "bump", [NoJob EXCEPT !.user = c.user,
                                         !.out = {d \in cookies : d.user = c.user}])

\* Seeded fault: the epoch of every user is raised.
BumpEverybody(t) ==
    /\ pc[t] = "bump"
    /\ db' = [db EXCEPT !.epoch = [u \in UserIds |-> @[u] + 1]]
    /\ logouts' = [logouts EXCEPT ![job[t].user] = @ + 1]
    /\ Goto(t, "commitBump")
    /\ UNCHANGED <<disk, issued, cookies, now, job, calls, ids, entered, late, undone, loggedOut>>

\* UPDATE ... RETURNING; a user who is gone has nothing to raise.
Bump(t) ==
    LET u == job[t].user IN
    /\ pc[t] = "bump"
    /\ IF HasRow(u)
       THEN /\ db' = [db EXCEPT !.epoch[u] = @ + 1]
            /\ logouts' = [logouts EXCEPT ![u] = @ + 1]
            /\ Goto(t, "commitBump") /\ UNCHANGED job
       ELSE Return(t) /\ UNCHANGED <<db, logouts>>
    /\ UNCHANGED <<disk, issued, cookies, now, calls, ids, entered, late, undone, loggedOut>>

CommitBump(t) ==
    /\ pc[t] = "commitBump"
    /\ disk' = db
    /\ loggedOut' = loggedOut \cup job[t].out
    /\ Return(t)
    /\ UNCHANGED <<db, issued, cookies, now, calls, ids, entered, late, undone, logouts>>

-----------------------------------------------------------------------------
Uncommitted(labels) == {t \in Handlers : pc[t] \in labels}
UsersAtRisk == {job[t].user : t \in Uncommitted({"commitUser", "commitBump"})}
LinksAtRisk == {job[t].link : t \in Uncommitted({"commitLink"})}

\* Another handler of the process commits, or rolls back an update of its own.
CommitByOther ==
    /\ db # disk
    /\ disk' = db
    /\ UNCHANGED <<db, issued, cookies, now, pc, job, calls, ids, history>>

RollbackByOther ==
    /\ db # disk
    /\ db' = disk
    /\ undone' = undone \cup UsersAtRisk \cup LinksAtRisk
    /\ UNCHANGED <<disk, issued, cookies, now, pc, job, calls, ids,
                   entered, late, loggedOut, logouts>>

\* Bound: a stop counts as a call.
Crash ==
    /\ \E t \in Handlers : pc[t] # "idle"
    /\ calls < MaxCalls /\ calls' = calls + 1
    /\ db' = disk
    /\ pc' = [t \in Handlers |-> "idle"] /\ job' = [t \in Handlers |-> NoJob]
    /\ undone' = undone \cup UsersAtRisk
    /\ UNCHANGED <<disk, issued, cookies, now, ids, entered, late, loggedOut, logouts>>

Tick ==
    /\ now < MaxTime
    /\ now' = now + 1
    /\ UNCHANGED <<db, disk, issued, cookies, pc, job, calls, ids, history>>

Step(t) ==
    \/ StartVerify(t) \/ Collect(t) \/ Consume(t) \/ CommitLink(t)
    \/ FindUser(t) \/ CreateUser(t) \/ CommitUser(t) \/ ReadEpoch(t) \/ Sign(t)
    \/ StartLogout(t) \/ Bump(t) \/ CommitBump(t)

Next ==
    \/ \E l \in Links : IssueLink(l)
    \/ \E t \in Handlers : Step(t)
    \/ CommitByOther \/ RollbackByOther \/ Crash \/ Tick

Spec == Init /\ [][Next]_vars

-----------------------------------------------------------------------------
Labels == {"idle", "collect", "consume", "commitLink", "findUser", "createUser", "commitUser",
           "readEpoch", "sign", "bump", "commitBump"}
Tables == [consumed : [Links -> 0..MaxTime], users : [Emails -> {0} \cup UserIds],
           epoch : [UserIds -> Nat]]
Cookies == [user : UserIds, epoch : Nat, at : 1..MaxTime, logouts : Nat]

\* The variables have their types, and no cookie or row is from the future.
TypeOK ==
    /\ db \in Tables /\ disk \in Tables
    /\ issued \in [Links -> 0..now]
    /\ cookies \subseteq Cookies /\ \A c \in cookies : c.at <= now
    /\ \A l \in Links : db.consumed[l] <= now
    /\ now \in 1..MaxTime /\ calls \in 0..MaxCalls /\ ids \in UserIds
    /\ pc \in [Handlers -> Labels]
    /\ \A t \in Handlers : job[t] \in [link : Links \cup {NoLink}, at : 0..MaxTime,
                                       first : BOOLEAN, user : {0} \cup UserIds, epoch : Nat,
                                       out : SUBSET cookies, logouts : Nat]

\* consume_magic_link_token: a link lets one verification in, however many race
\* and whichever rows are collected meanwhile -- unless one of them outlived
\* the signature check it had passed, or its row was rolled back by another
\* handler before its commit.
LinkOnce == \A l \in Links \ (late \cup undone) : entered[l] <= 1

\* bump_session_epoch: no cookie that was out when a logout began is good once
\* the logout has answered, whatever sign-ins ran beside it, unless the new
\* epoch was taken back before its commit.
LoggedOutStaysOut == \A c \in loggedOut : c.user \notin undone => ~Accepted(c)

\* read_session and issue_session: a cookie is good until it is too old or a
\* logout of its own user has begun to raise the epoch.
SignedInStays ==
    \A c \in cookies :
        now - c.at > SessionAge \/ c.logouts # logouts[c.user] \/ c.user \in undone
          \/ Accepted(c)

\* upsert_user_by_email: once there is an account for an address it stays that
\* address's account: of two first sign-ins at once one fails.
AccountKept == [][\A e \in Emails : disk.users[e] > 0 => disk'.users[e] = disk.users[e]]_disk
=============================================================================
