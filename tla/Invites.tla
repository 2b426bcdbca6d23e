------------------------------ MODULE Invites -------------------------------
(***************************************************************************)
(* Invite links (service/invites.py): created by a document's owner,       *)
(* accepted by whoever presents the link, revoked by their creator.  An    *)
(* acceptance is four statements of a pool thread, and others interleave.  *)
(* Module DeviceFlow runs an acceptance inside a device authorization.     *)
(*                                                                         *)
(* Here each write is committed with its statement; module DocStore shows  *)
(* what the connection the threads share does in between.                  *)
(***************************************************************************)
EXTENDS Naturals, Sequences, FiniteSets

CONSTANTS
    Handlers,    \* threads of the pool
    Users,       \* who accepts
    Invites,     \* invite links of one document
    Level,       \* Level[i]: 1 view, 2 edit
    Single,      \* the single-use invites
    ExpiresAt,   \* ExpiresAt[i]: the time from which i is expired
    ManyUses,    \* uses_remaining of an invite that is not single-use
    Granted,     \* Granted[u]: the level u has from the start, 0 for no grant
    Nobody,      \* no user, no invite, no device
    MaxTime,     \* bound: the clock stops there
    MaxCalls     \* bound: calls started in a behaviour

Levels == 0..2

ASSUME InviteAssumption ==
    /\ Level \in [Invites -> 1..2]
    /\ Single \subseteq Invites
    /\ ExpiresAt \in [Invites -> Nat]
    /\ Granted \in [Users -> Levels]
    /\ ManyUses \in Nat \ {0}
    /\ Nobody \notin Users \cup Invites
    /\ MaxTime \in Nat /\ MaxCalls \in Nat

VARIABLES
    uses,        \* uses[i]: uses_remaining; 0 before the invite is created
    created,     \* rows of the invites table
    revoked,     \* rows whose revoked_at is set
    grants,      \* grants[u]: the level of u's row for the document, 0 for none
    now,
    pc,          \* pc[t]: the next statement of thread t
    job,         \* job[t]: the call t is in and what it has read
    calls,       \* calls started
    accepted,    \* accepted[i]: the users for whom a use of i was consumed, in order
    overlapped   \* invites, users and devices that two calls were inside of at once

inviteVars == <<uses, created, revoked, grants, accepted>>
threadVars == <<pc, job, calls>>

NoJob == [op |-> "none", user |-> Nobody, invite |-> Nobody, device |-> Nobody,
          remaining |-> 0, status |-> "none"]

InviteInit ==
    /\ uses = [i \in Invites |-> 0]
    /\ created = {} /\ revoked = {}
    /\ grants = Granted
    /\ now = 1
    /\ pc = [t \in Handlers |-> "idle"]
    /\ job = [t \in Handlers |-> NoJob]
    /\ calls = 0
    /\ accepted = [i \in Invites |-> <<>>]
    /\ overlapped = {}

-----------------------------------------------------------------------------
Goto(t, label) == pc' = [pc EXCEPT ![t] = label]
Return(t) == Goto(t, "idle") /\ job' = [job EXCEPT ![t] = NoJob]

Call(t, label, j) ==
    /\ pc[t] = "idle"
    /\ calls < MaxCalls /\ calls' = calls + 1
    /\ Goto(t, label)
    /\ job' = [job EXCEPT ![t] = j]

Active(i) == i \in created \ revoked /\ uses[i] > 0 /\ now < ExpiresAt[i]

CreateInvite(t) ==
    \E i \in Invites \ created :
        /\ pc[t] = "idle" /\ calls < MaxCalls /\ calls' = calls + 1
        /\ created' = created \cup {i}
        /\ uses' = [uses EXCEPT ![i] = IF i \in Single THEN 1 ELSE ManyUses]
        /\ UNCHANGED <<revoked, grants, accepted, now, pc, job, overlapped>>

\* The creator's row is read, then written; a repeat changes nothing.
RevokeInvite(t) ==
    \E i \in created :
        /\ pc[t] = "idle" /\ calls < MaxCalls /\ calls' = calls + 1
        /\ revoked' = revoked \cup {i}
        /\ UNCHANGED <<uses, created, grants, accepted, now, pc, job, overlapped>>

\* POST /api/invites/{token}/accept
StartAccept(t) ==
    \E u \in Users, i \in Invites :
        /\ Call(t, "resolve", [NoJob EXCEPT !.op = "accept", !.user = u, !.invite = i])
        /\ UNCHANGED <<inviteVars, now, overlapped>>

\* The caller of accept_invite goes on: a device authorization binds its device.
AfterAccept(t) ==
    IF job[t].op = "authorize" THEN Goto(t, "bind") /\ UNCHANGED job ELSE Return(t)

Inside(t, labels) == {u \in Handlers \ {t} : pc[u] \in labels}

\* Seeded fault: an invite that does not resolve is accepted all the same.
ResolveInviteAnyway(t) ==
    LET i == job[t].invite IN
    /\ pc[t] = "resolve"
    /\ Goto(t, IF Active(i) THEN "use" ELSE "readGrant")
    /\ job' = [job EXCEPT ![t].remaining = uses[i]]
    /\ UNCHANGED <<inviteVars, now, calls, overlapped>>

\* resolve_invite: the row as this acceptance will use it.
ResolveInvite(t) ==
    LET i == job[t].invite
        others == {u \in Inside(t, {"use"}) : job[u].invite = i}
    IN
    /\ pc[t] = "resolve"
    /\ IF Active(i)
       THEN /\ Goto(t, "use")
            /\ job' = [job EXCEPT ![t].remaining = uses[i]]
            /\ overlapped' = overlapped \cup (IF others = {} THEN {} ELSE {i})
       ELSE AfterAccept(t) /\ UNCHANGED overlapped
    /\ UNCHANGED <<inviteVars, now, calls>>

\* Seeded fault: a single-use invite loses no use.
ConsumeUseNever(t) ==
    LET i == job[t].invite IN
    /\ pc[t] = "use"
    /\ accepted' = [accepted EXCEPT ![i] = Append(@, job[t].user)]
    /\ Goto(t, "readGrant")
    /\ UNCHANGED <<uses, created, revoked, grants, now, job, calls, overlapped>>

\* uses_remaining is written from what was read, not from what is there.
ConsumeUse(t) ==
    LET i == job[t].invite
        left == IF i \in Single THEN 0 ELSE job[t].remaining - 1
    IN
    /\ pc[t] = "use"
    /\ uses' = [uses EXCEPT ![i] = left]
    /\ accepted' = [accepted EXCEPT ![i] = Append(@, job[t].user)]
    /\ Goto(t, "readGrant")
    /\ UNCHANGED <<created, revoked, grants, now, job, calls, overlapped>>

\* Seeded fault: the existing grant is not looked at.
ReadGrantNever(t) ==
    /\ pc[t] = "readGrant"
    /\ Goto(t, "upsert")
    /\ UNCHANGED <<inviteVars, now, job, calls, overlapped>>

\* An equal or higher grant stays as it is.
ReadGrant(t) ==
    LET u == job[t].user
        others == {x \in Inside(t, {"upsert"}) : job[x].user = u}
    IN
    /\ pc[t] = "readGrant"
    /\ IF grants[u] >= Level[job[t].invite] THEN AfterAccept(t) /\ UNCHANGED overlapped
       ELSE /\ Goto(t, "upsert")
            /\ UNCHANGED job
            /\ overlapped' = overlapped \cup (IF others = {} THEN {} ELSE {u})
    /\ UNCHANGED <<inviteVars, now, calls>>

UpsertGrant(t) ==
    /\ pc[t] = "upsert"
    /\ grants' = [grants EXCEPT ![job[t].user] = Level[job[t].invite]]
    /\ AfterAccept(t)
    /\ UNCHANGED <<uses, created, revoked, accepted, now, calls, overlapped>>

InviteStep(t) ==
    \/ CreateInvite(t) \/ RevokeInvite(t) \/ StartAccept(t)
    \/ ResolveInvite(t) \/ ConsumeUse(t) \/ ReadGrant(t) \/ UpsertGrant(t)

-----------------------------------------------------------------------------
\* accept_invite: a single-use invite is used once, by one user, unless two
\* acceptances of it had both read it as unused.  A process that stops between
\* the use and the grant wastes the invite; it never grants twice.
SingleUse ==
    \A i \in Single \ overlapped : Len(accepted[i]) <= 1

\* What accept_invite says of a single-use invite, of any number of callers.
SingleUseAlways == \A i \in Single : Len(accepted[i]) <= 1

\* accept_invite: nobody has other than the level they started with or that of
\* an invite they consumed.
GrantsFromInvites ==
    \A u \in Users :
        \/ grants[u] = Granted[u]
        \/ \E i \in Invites :
             /\ grants[u] = Level[i]
             /\ u \in {accepted[i][n] : n \in DOMAIN accepted[i]}

\* accept_invite: no acceptance lowers a grant, unless two acceptances by one
\* user had both read it.
NoDowngrade == [][\A u \in Users \ overlapped : grants'[u] >= grants[u]]_grants
=============================================================================
