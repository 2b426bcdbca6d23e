-------------------------- MODULE DeviceFlowProofs --------------------------
(***************************************************************************)
(* Proofs about DeviceFlow and the invites it accepts, for any threads,    *)
(* users, invites, devices and bounds: types, that a single-use invite and *)
(* a device serve once unless two calls were inside of them at once, that  *)
(* tokens and grants go where they were authorized, and that neither an    *)
(* authorization nor a grant is taken back by a call that was under way.   *)
(***************************************************************************)
EXTENDS DeviceFlow, TLAPS

-----------------------------------------------------------------------------
(* The inductive invariant.                                                *)

Accepting == {"resolve", "use", "readGrant", "upsert"}
Authorizing == {"expire", "stamp", "mint", "consume", "bump", "lock", "bind"}
Minting == {"mint", "consume"}

Seen(s) == {s[n] : n \in DOMAIN s}

\* An acceptance has its user and invite, and its caller's device.
AcceptJob(t) ==
    pc[t] \in Accepting =>
        /\ job[t].user \in Users /\ job[t].invite \in Invites
        /\ job[t].op = "authorize" =>
             job[t].device \in Devices /\ device[job[t].device].status # "absent"

\* One that goes on to the use has read a use to consume; one that goes on to
\* the grant has consumed it, and has read a lower grant.
UseJob(t) ==
    /\ pc[t] = "use" =>
         /\ job[t].remaining > 0 /\ job[t].invite \in created
         /\ job[t].invite \in Single \ overlapped => accepted[job[t].invite] = <<>>
    /\ pc[t] \in {"readGrant", "upsert"} => job[t].user \in Seen(accepted[job[t].invite])
    /\ pc[t] = "upsert" /\ job[t].user \notin overlapped =>
         grants[job[t].user] < Level[job[t].invite]

\* A call that may change a device has read a row that is there, and what it
\* goes by has not become false since.
DeviceJob(t) ==
    pc[t] \in Authorizing =>
        LET d == job[t].device IN
        /\ d \in Devices /\ device[d].status # "absent"
        /\ pc[t] = "bind" => job[t].user \in Users
        /\ pc[t] = "expire" => Expired(d)
        /\ pc[t] \in {"bump", "lock"} /\ job[t].status = "pending" => Expired(d)
        /\ pc[t] = "lock" => job[t].status = "pending"
        /\ pc[t] \in Minting => job[t].user \in bound[d]
        /\ pc[t] = "consume" => minted[d] # <<>>
        /\ pc[t] = "mint" /\ d \notin overlapped => minted[d] = <<>>

JobTrue(t) == AcceptJob(t) /\ UseJob(t) /\ DeviceJob(t)

\* Two calls are inside of nothing at once that is not known to be overlapped.
Alone(t, u) ==
    t # u =>
        /\ pc[t] = "use" /\ pc[u] = "use" /\ job[t].invite = job[u].invite
             => job[t].invite \in overlapped
        /\ pc[t] = "upsert" /\ pc[u] = "upsert" /\ job[t].user = job[u].user
             => job[t].user \in overlapped
        /\ pc[t] \in Minting /\ pc[u] \in Minting /\ job[t].device = job[u].device
             => job[t].device \in overlapped

\* An invite that can still be used has not been, if it is good for one use.
InvitesTrue ==
    \A i \in Invites :
        /\ i \notin created => uses[i] = 0 /\ accepted[i] = <<>>
        /\ i \in Single \ overlapped /\ uses[i] > 0 => accepted[i] = <<>>

\* A device that has a token and is not marked has a poll about to mark it.
DevicesTrue ==
    \A d \in Devices :
        /\ device[d].status = "absent" => minted[d] = <<>>
        /\ device[d].status = "authorized" => device[d].user \in bound[d]
        /\ d \notin overlapped /\ minted[d] # <<>> /\ ~device[d].consumed =>
             \E t \in Handlers : pc[t] = "consume" /\ job[t].device = d

IInv ==
    /\ TypeOK
    /\ \A t \in Handlers : JobTrue(t)
    /\ \A t, u \in Handlers : Alone(t, u)
    /\ InvitesTrue /\ SingleUse /\ GrantsFromInvites
    /\ DevicesTrue /\ OneToken /\ TokenForAuthorizer
-----------------------------------------------------------------------------
(* Types by parts, and sequences.                                          *)

JobSet == [op : {"none", "accept", "poll", "authorize"}, user : Users \cup {Nobody},
           invite : Invites \cup {Nobody}, device : Devices \cup {Nobody},
           remaining : 0..ManyUses, status : Statuses \cup {"none"}]
RowSet == [status : Statuses, user : Users \cup {Nobody}, expires : Nat,
           polled : Nat, consumed : BOOLEAN, failed : Nat]

InviteType ==
    /\ uses \in [Invites -> 0..ManyUses]
    /\ created \subseteq Invites /\ revoked \subseteq created
    /\ grants \in [Users -> Levels]
    /\ accepted \in [Invites -> Seq(Users)]
ThreadType ==
    /\ now \in Nat /\ calls \in Nat
    /\ pc \in [Handlers -> Labels] /\ job \in [Handlers -> JobSet]
    /\ overlapped \subseteq Invites \cup Users \cup Devices
DeviceType ==
    /\ device \in [Devices -> RowSet]
    /\ \A d \in Devices : device[d].status = "authorized" => device[d].user \in Users
    /\ minted \in [Devices -> Seq(Users)]
    /\ bound \in [Devices -> SUBSET Users]

\* TypeOK is the conjunction of its three parts.
LEMMA TypeParts == TypeOK <=> InviteType /\ ThreadType /\ DeviceType
  BY DEF TypeOK, InviteType, ThreadType, DeviceType, JobSet, RowSet

\* A thread that has nothing to do has a job all the same.
LEMMA NoJobType == NoJob \in JobSet
<1>1. 0 \in 0..ManyUses
  BY InviteAssumption
<1>2. QED
  BY <1>1 DEF NoJob, JobSet

\* What a history holds after one more entry.
LEMMA AppendSeen ==
  ASSUME NEW S, NEW s \in Seq(S), NEW x \in S
  PROVE  /\ Append(s, x) \in Seq(S) /\ Len(Append(s, x)) = Len(s) + 1 /\ Append(s, x) # <<>>
         /\ Seen(Append(s, x)) = Seen(s) \cup {x}
<1>1. /\ Append(s, x) \in Seq(S) /\ Len(Append(s, x)) = Len(s) + 1 /\ Len(s) \in Nat
      /\ Append(s, x)[Len(s) + 1] = x /\ \A n \in 1..Len(s) : Append(s, x)[n] = s[n]
  OBVIOUS
<1>2. DOMAIN s = 1..Len(s) /\ DOMAIN Append(s, x) = 1..(Len(s) + 1)
  BY <1>1
<1>3. Seen(Append(s, x)) = Seen(s) \cup {x}
  <2>1. \A n \in 1..(Len(s) + 1) : n \in 1..Len(s) \/ n = Len(s) + 1
    BY <1>1
  <2>2. Len(s) + 1 \in 1..(Len(s) + 1) /\ 1..Len(s) \subseteq 1..(Len(s) + 1)
    BY <1>1
  <2>3. QED
    BY <1>1, <1>2, <2>1, <2>2, Zenon DEF Seen
<1>4. Append(s, x) # <<>>
  BY <1>1
<1>5. QED
  BY <1>1, <1>3, <1>4

\* A history of which a use was never consumed is empty.
LEMMA EmptySeen == Seen(<<>>) = {}
  BY DEF Seen

-----------------------------------------------------------------------------
(* What a step leaves true of the threads that do not take it.             *)

Growing ==
    /\ created \subseteq created' /\ overlapped \subseteq overlapped'
    /\ now' \in Nat /\ now <= now'
    /\ \A i \in Invites : Seen(accepted[i]) \subseteq Seen(accepted'[i])
    /\ \A d \in Devices :
         /\ device[d].status # "absent" =>
              device'[d].status # "absent" /\ device'[d].expires = device[d].expires
         /\ bound[d] \subseteq bound'[d]
         /\ minted[d] # <<>> => minted'[d] # <<>>

Stays(u) ==
    /\ pc'[u] = pc[u] /\ job'[u] = job[u]
    /\ pc[u] = "use" /\ job[u].invite \notin overlapped' =>
         accepted'[job[u].invite] = accepted[job[u].invite]
    /\ pc[u] = "upsert" /\ job[u].user \notin overlapped' =>
         grants'[job[u].user] = grants[job[u].user]
    /\ pc[u] = "mint" /\ job[u].device \notin overlapped' =>
         minted'[job[u].device] = minted[job[u].device]

\* What a thread knows stays true while it does not move.
LEMMA JobStays ==
  ASSUME TypeOK, Growing, NEW u \in Handlers, Stays(u), JobTrue(u)
  PROVE  JobTrue(u)'
<1>0. InviteType /\ ThreadType /\ DeviceType
  BY TypeParts
<1>1. AcceptJob(u)'
  BY DEF Growing, Stays, JobTrue, AcceptJob
<1>2. UseJob(u)'
  <2>1. pc[u] = "use" => UseJob(u)'
    BY DEF Growing, Stays, JobTrue, UseJob, AcceptJob, Accepting
  <2>2. pc[u] \in {"readGrant", "upsert"} =>
          job[u].invite \in Invites /\ job[u].user \in Users
          /\ job[u].user \in Seen(accepted'[job[u].invite])
    BY DEF Growing, Stays, JobTrue, UseJob, AcceptJob, Accepting
  <2>3. QED
    BY <2>1, <2>2 DEF Growing, Stays, JobTrue, UseJob
<1>3. DeviceJob(u)'
  <2>1. SUFFICES ASSUME pc[u] \in Authorizing PROVE DeviceJob(u)'
    BY DEF Stays, DeviceJob
  <2> DEFINE d == job[u].device
  <2>2. /\ d \in Devices /\ device'[d].status # "absent" /\ device'[d].expires = device[d].expires
        /\ bound[d] \subseteq bound'[d] /\ (minted[d] # <<>> => minted'[d] # <<>>)
    BY <2>1 DEF Growing, JobTrue, DeviceJob
  <2>3. Expired(d) => now' >= device'[d].expires
    BY <1>0, <2>2 DEF Expired, Growing, ThreadType, DeviceType, RowSet
  <2>4. QED
    BY <2>1, <2>2, <2>3 DEF Growing, Stays, JobTrue, DeviceJob, Expired
<1>4. QED
  BY <1>1, <1>2, <1>3 DEF JobTrue

\* A step that at most one thread takes keeps the invariant if it keeps types
\* and tables, what the thread knows, and whom it is inside of a call with.
LEMMA StepKeeps ==
  ASSUME IInv, TypeOK', Growing, NEW S \in SUBSET Handlers, \A t, u \in S : t = u,
         \A u \in Handlers \ S : Stays(u),
         \A t \in S : JobTrue(t)' /\ \A u \in Handlers \ S : Alone(t, u)',
         InvitesTrue', SingleUse', GrantsFromInvites',
         DevicesTrue', OneToken', TokenForAuthorizer'
  PROVE  IInv'
<1>1. \A u \in Handlers : JobTrue(u)'
  <2>1. ASSUME NEW u \in Handlers \ S PROVE JobTrue(u)'
    BY JobStays DEF IInv
  <2>2. QED
    BY <2>1
<1>2. ASSUME NEW t \in Handlers, NEW u \in Handlers PROVE Alone(t, u)'
  <2>1. CASE t \notin S /\ u \notin S
    <3>1. Alone(t, u) /\ Stays(t) /\ Stays(u)
      BY <2>1 DEF IInv
    <3>2. QED
      BY <3>1 DEF Alone, Stays, Growing
  <2>2. CASE t \in S /\ u \notin S
    BY <2>2
  <2>3. CASE t \notin S /\ u \in S
    <3>1. Alone(u, t)'
      BY <2>3
    <3>2. QED
      BY <3>1 DEF Alone
  <2>4. CASE t \in S /\ u \in S
    BY <2>4 DEF Alone
  <2>5. QED
    BY <2>1, <2>2, <2>3, <2>4
<1>3. QED
  BY <1>1, <1>2 DEF IInv

\* The tables of invites and grants, untouched, stay as true as they were.
LEMMA InvitesSame ==
  ASSUME IInv, UNCHANGED inviteVars, overlapped \subseteq overlapped'
  PROVE  InvitesTrue' /\ SingleUse' /\ GrantsFromInvites' /\ InviteType'
<1>1. InviteType'
  BY TypeParts DEF IInv, inviteVars, InviteType
<1>2. InvitesTrue'
  BY DEF IInv, InvitesTrue, inviteVars
<1>3. SingleUse'
  BY DEF IInv, SingleUse, inviteVars
<1>4. GrantsFromInvites'
  BY DEF IInv, GrantsFromInvites, inviteVars
<1>5. QED
  BY <1>1, <1>2, <1>3, <1>4

\* And those of devices, while no poll that was about to mark one is lost.
LEMMA DevicesSame ==
  ASSUME IInv, UNCHANGED <<device, minted, bound>>, overlapped \subseteq overlapped',
         \A t \in Handlers : pc[t] = "consume" =>
             (pc'[t] = "consume" /\ job'[t] = job[t]) \/ job[t].device \in overlapped'
  PROVE  DevicesTrue' /\ OneToken' /\ TokenForAuthorizer' /\ DeviceType'
<1>1. DeviceType'
  BY TypeParts DEF IInv, DeviceType
<1>2. DevicesTrue'
  <2> SUFFICES ASSUME NEW d \in Devices
               PROVE  /\ device[d].status = "absent" => minted[d] = <<>>
                      /\ device[d].status = "authorized" => device[d].user \in bound[d]
                      /\ d \notin overlapped' /\ minted[d] # <<>> /\ ~device[d].consumed =>
                           \E t \in Handlers : pc'[t] = "consume" /\ job'[t].device = d
    BY DEF DevicesTrue
  <2>1. /\ device[d].status = "absent" => minted[d] = <<>>
        /\ device[d].status = "authorized" => device[d].user \in bound[d]
    BY DEF IInv, DevicesTrue
  <2>2. ASSUME d \notin overlapped', minted[d] # <<>>, ~device[d].consumed
        PROVE  \E t \in Handlers : pc'[t] = "consume" /\ job'[t].device = d
    <3>1. PICK t \in Handlers : pc[t] = "consume" /\ job[t].device = d
      BY <2>2 DEF IInv, DevicesTrue
    <3>2. QED
      BY <2>2, <3>1
  <2>3. QED
    BY <2>1, <2>2
<1>3. OneToken'
  BY DEF IInv, OneToken
<1>4. TokenForAuthorizer'
  BY DEF IInv, TokenForAuthorizer, Mints
<1>5. QED
  BY <1>1, <1>2, <1>3, <1>4
-----------------------------------------------------------------------------
(* Steps of one thread.                                                    *)

Moves(t) == \A u \in Handlers \ {t} : pc'[u] = pc[u] /\ job'[u] = job[u]

\* A call that is inside of nothing is inside of nothing with another.
LEMMA NotInside ==
  ASSUME NEW t, NEW u, pc'[t] \notin {"use", "upsert", "mint", "consume"}
  PROVE  Alone(t, u)'
  BY DEF Alone, Minting

\* A thread that has returned knows nothing.
LEMMA IdleTrue ==
  ASSUME NEW t, pc'[t] = "idle"
  PROVE  JobTrue(t)'
  BY DEF JobTrue, AcceptJob, UseJob, DeviceJob, Accepting, Authorizing

\* Where Goto, Return and Call take a thread, and that the others stay.
LEMMA GotoStep ==
  ASSUME ThreadType, NEW t \in Handlers, NEW l \in Labels, Goto(t, l)
  PROVE  /\ pc' \in [Handlers -> Labels] /\ pc'[t] = l
         /\ \A u \in Handlers \ {t} : pc'[u] = pc[u]
  BY DEF Goto, ThreadType

\* The same for a call that is over.
LEMMA ReturnStep ==
  ASSUME ThreadType, NEW t \in Handlers, Return(t)
  PROVE  /\ pc' \in [Handlers -> Labels] /\ job' \in [Handlers -> JobSet]
         /\ pc'[t] = "idle" /\ job'[t] = NoJob /\ Moves(t)
  BY NoJobType DEF Return, Goto, ThreadType, Moves, Labels

\* The same for a call that begins.
LEMMA CallStep ==
  ASSUME ThreadType, NEW t \in Handlers, NEW l \in Labels, NEW j \in JobSet, Call(t, l, j)
  PROVE  /\ pc' \in [Handlers -> Labels] /\ job' \in [Handlers -> JobSet] /\ calls' \in Nat
         /\ pc[t] = "idle" /\ pc'[t] = l /\ job'[t] = j /\ Moves(t)
  BY DEF Call, Goto, ThreadType, Moves

\* A step of one thread that leaves every table alone.
LEMMA QuietKeeps ==
  ASSUME IInv, NEW t \in Handlers, Moves(t), pc[t] # "consume",
         UNCHANGED <<inviteVars, now, device, minted, bound>>, ThreadType',
         overlapped \subseteq overlapped', JobTrue(t)', \A u \in Handlers \ {t} : Alone(t, u)'
  PROVE  IInv'
<1>1. Growing
  BY TypeParts DEF IInv, Growing, inviteVars, ThreadType
<1>2. \A u \in Handlers \ {t} : Stays(u)
  BY DEF Stays, Moves, inviteVars
<1>3. InvitesTrue' /\ SingleUse' /\ GrantsFromInvites' /\ InviteType'
  BY InvitesSame
<1>4. DevicesTrue' /\ OneToken' /\ TokenForAuthorizer' /\ DeviceType'
  <2>1. \A u \in Handlers : pc[u] = "consume" => pc'[u] = "consume" /\ job'[u] = job[u]
    BY DEF Moves
  <2>2. QED
    BY <2>1, DevicesSame
<1>5. TypeOK'
  BY <1>3, <1>4 DEF TypeOK, InviteType, ThreadType, DeviceType, JobSet, RowSet
<1>6. QED
  <2> DEFINE S == {t}
  <2>1. S \in SUBSET Handlers /\ (\A a, b \in S : a = b) /\ t \in S
        /\ \A u : u \in Handlers \ S <=> u \in Handlers \ {t}
    OBVIOUS
  <2>2. \A a \in S : JobTrue(a)' /\ \A u \in Handlers \ S : Alone(a, u)'
    BY DEF S
  <2> HIDE DEF S
  <2>3. QED
    BY <1>1, <1>2, <1>3, <1>4, <1>5, <2>1, <2>2, StepKeeps

\* A step that leaves every thread where it is.
LEMMA TablesKeep ==
  ASSUME IInv, TypeOK', Growing, UNCHANGED <<pc, job>>, \A u \in Handlers : Stays(u),
         InvitesTrue', SingleUse', GrantsFromInvites',
         DevicesTrue', OneToken', TokenForAuthorizer'
  PROVE  IInv'
<1> DEFINE S == {}
<1>1. S \in SUBSET Handlers /\ \A u : u \in Handlers \ S => u \in Handlers
  OBVIOUS
<1>2. \A t, u \in S : t = u
  OBVIOUS
<1>3. \A t \in S : JobTrue(t)' /\ \A u \in Handlers \ S : Alone(t, u)'
  OBVIOUS
<1> HIDE DEF S
<1>4. QED
  BY <1>1, <1>2, <1>3, StepKeeps

\* What accept_invite's caller does next: it binds its device, or has answered.
LEMMA AfterAcceptStep ==
  ASSUME IInv, NEW t \in Handlers, pc[t] \in Accepting, AfterAccept(t), UNCHANGED device
  PROVE  /\ pc' \in [Handlers -> Labels] /\ job' \in [Handlers -> JobSet]
         /\ pc'[t] \in {"idle", "bind"} /\ Moves(t) /\ JobTrue(t)'
<1>0. ThreadType /\ JobTrue(t)
  BY TypeParts DEF IInv
<1>1. CASE job[t].op = "authorize"
  <2>1. Goto(t, "bind") /\ job' = job
    BY <1>1 DEF AfterAccept
  <2>2. pc' \in [Handlers -> Labels] /\ pc'[t] = "bind" /\ \A u \in Handlers \ {t} : pc'[u] = pc[u]
    BY <1>0, <2>1, GotoStep DEF Labels
  <2>3. job' \in [Handlers -> JobSet] /\ Moves(t)
    BY <1>0, <2>1, <2>2 DEF ThreadType, Moves
  <2>4. JobTrue(t)'
    BY <1>0, <1>1, <2>1, <2>2 DEF JobTrue, AcceptJob, UseJob, DeviceJob, Accepting, Authorizing,
       Minting
  <2>5. QED
    BY <2>2, <2>3, <2>4
<1>2. CASE job[t].op # "authorize"
  BY <1>0, <1>2, ReturnStep, IdleTrue DEF AfterAccept
<1>3. QED
  BY <1>1, <1>2

-----------------------------------------------------------------------------
(* The steps of module Invites.                                            *)

\* A new invite has all its uses and has served nobody.
LEMMA CreateInviteKeeps ==
  ASSUME IInv, NEW t \in Handlers, CreateInvite(t), UNCHANGED <<device, minted, bound>>
  PROVE  IInv'
<1>0. InviteType /\ ThreadType /\ DeviceType
  BY TypeParts DEF IInv
<1>1. PICK i \in Invites \ created :
        /\ created' = created \cup {i}
        /\ uses' = [uses EXCEPT ![i] = IF i \in Single THEN 1 ELSE ManyUses]
        /\ calls' = calls + 1
        /\ UNCHANGED <<revoked, grants, accepted, now, pc, job, overlapped>>
  BY DEF CreateInvite
<1>2. Growing
  BY <1>0, <1>1 DEF Growing, ThreadType
<1>3. \A u \in Handlers : Stays(u)
  BY <1>1 DEF Stays
<1>4. InvitesTrue' /\ SingleUse' /\ GrantsFromInvites'
  <2>1. InvitesTrue'
    BY <1>0, <1>1 DEF IInv, InvitesTrue, InviteType
  <2>2. SingleUse' /\ GrantsFromInvites'
    BY <1>1 DEF IInv, SingleUse, GrantsFromInvites
  <2>3. QED
    BY <2>1, <2>2
<1>5. DevicesTrue' /\ OneToken' /\ TokenForAuthorizer' /\ DeviceType'
  BY <1>1, DevicesSame
<1>6. InviteType' /\ ThreadType'
  <2>1. uses' \in [Invites -> 0..ManyUses]
    <3>1. (IF i \in Single THEN 1 ELSE ManyUses) \in 0..ManyUses
      BY InviteAssumption
    <3>2. QED
      BY <1>0, <1>1, <3>1 DEF InviteType
  <2>2. QED
    BY <1>0, <1>1, <2>1 DEF InviteType, ThreadType
<1>7. TypeOK'
  BY <1>5, <1>6 DEF TypeOK, InviteType, ThreadType, DeviceType, JobSet, RowSet
<1>8. QED
  BY <1>1, <1>2, <1>3, <1>4, <1>5, <1>7, TablesKeep

\* A revoked invite keeps its uses and its history.
LEMMA RevokeInviteKeeps ==
  ASSUME IInv, NEW t \in Handlers, RevokeInvite(t), UNCHANGED <<device, minted, bound>>
  PROVE  IInv'
<1>0. InviteType /\ ThreadType /\ DeviceType
  BY TypeParts DEF IInv
<1>1. PICK i \in created :
        /\ revoked' = revoked \cup {i} /\ calls' = calls + 1
        /\ UNCHANGED <<uses, created, grants, accepted, now, pc, job, overlapped>>
  BY DEF RevokeInvite
<1>2. Growing
  BY <1>0, <1>1 DEF Growing, ThreadType
<1>3. \A u \in Handlers : Stays(u)
  BY <1>1 DEF Stays
<1>4. InvitesTrue' /\ SingleUse' /\ GrantsFromInvites'
  BY <1>1 DEF IInv, InvitesTrue, SingleUse, GrantsFromInvites
<1>5. DevicesTrue' /\ OneToken' /\ TokenForAuthorizer' /\ DeviceType'
  BY <1>1, DevicesSame
<1>6. InviteType' /\ ThreadType'
  BY <1>0, <1>1 DEF InviteType, ThreadType
<1>7. TypeOK'
  BY <1>5, <1>6 DEF TypeOK, InviteType, ThreadType, DeviceType, JobSet, RowSet
<1>8. QED
  BY <1>1, <1>2, <1>3, <1>4, <1>5, <1>7, TablesKeep

\* An acceptance that starts has read nothing yet.
LEMMA StartAcceptKeeps ==
  ASSUME IInv, NEW t \in Handlers, StartAccept(t), UNCHANGED <<device, minted, bound>>
  PROVE  IInv'
<1>0. ThreadType
  BY TypeParts DEF IInv
<1>1. PICK u \in Users, i \in Invites :
        Call(t, "resolve", [NoJob EXCEPT !.op = "accept", !.user = u, !.invite = i])
  BY DEF StartAccept
<1> DEFINE j == [NoJob EXCEPT !.op = "accept", !.user = u, !.invite = i]
<1>2. j \in JobSet /\ j.op = "accept" /\ j.user = u /\ j.invite = i
  BY NoJobType DEF JobSet
<1> HIDE DEF j
<1>3. /\ pc' \in [Handlers -> Labels] /\ job' \in [Handlers -> JobSet] /\ calls' \in Nat
      /\ pc[t] = "idle" /\ pc'[t] = "resolve" /\ job'[t] = j /\ Moves(t)
  BY <1>0, <1>1, <1>2, CallStep DEF Labels, j
<1>4. ThreadType' /\ UNCHANGED <<inviteVars, now, overlapped>>
  BY <1>0, <1>3 DEF ThreadType, StartAccept
<1>5. JobTrue(t)'
  BY <1>2, <1>3 DEF JobTrue, AcceptJob, UseJob, DeviceJob, Accepting, Authorizing
<1>6. QED
  BY <1>3, <1>4, <1>5, NotInside, QuietKeeps

\* An acceptance that finds the invite active finds a use nobody has consumed.
LEMMA ResolveInviteKeeps ==
  ASSUME IInv, NEW t \in Handlers, ResolveInvite(t), UNCHANGED <<device, minted, bound>>
  PROVE  IInv'
<1> DEFINE i == job[t].invite
<1>0. InviteType /\ ThreadType /\ JobTrue(t)
  BY TypeParts DEF IInv
<1>1. pc[t] = "resolve" /\ UNCHANGED <<inviteVars, now, calls, device, minted, bound>>
  BY DEF ResolveInvite
<1>2. i \in Invites /\ job[t].user \in Users
  BY <1>0, <1>1 DEF JobTrue, AcceptJob, Accepting
<1>3. CASE ~Active(i)
  <2>1. AfterAccept(t) /\ UNCHANGED overlapped
    BY <1>3 DEF ResolveInvite
  <2>2. /\ pc' \in [Handlers -> Labels] /\ job' \in [Handlers -> JobSet]
        /\ pc'[t] \in {"idle", "bind"} /\ Moves(t) /\ JobTrue(t)'
    BY <1>1, <2>1, AfterAcceptStep DEF Accepting
  <2>3. ThreadType'
    BY <1>0, <1>1, <2>1, <2>2 DEF ThreadType
  <2>4. QED
    BY <1>1, <2>1, <2>2, <2>3, NotInside, QuietKeeps
<1>4. CASE Active(i)
  <2> DEFINE others == {u \in Inside(t, {"use"}) : job[u].invite = i}
  <2>1. /\ Goto(t, "use") /\ job' = [job EXCEPT ![t].remaining = uses[i]]
        /\ overlapped' = overlapped \cup (IF others = {} THEN {} ELSE {i})
    BY <1>4 DEF ResolveInvite
  <2>2. job[t] \in JobSet /\ [job[t] EXCEPT !.remaining = uses[i]] \in JobSet
    BY <1>0, <1>2 DEF ThreadType, JobSet, InviteType
  <2>3. job' = [job EXCEPT ![t] = [job[t] EXCEPT !.remaining = uses[i]]]
    BY <1>0, <2>1 DEF ThreadType
  <2>4. /\ job' \in [Handlers -> JobSet] /\ job'[t].remaining = uses[i] /\ job'[t].invite = i
        /\ job'[t].user = job[t].user /\ job'[t].op = job[t].op /\ job'[t].device = job[t].device
        /\ \A u \in Handlers \ {t} : job'[u] = job[u]
    BY <1>0, <2>2, <2>3 DEF ThreadType, JobSet
  <2>5. pc' \in [Handlers -> Labels] /\ pc'[t] = "use" /\ \A u \in Handlers \ {t} : pc'[u] = pc[u]
    BY <1>0, <2>1, GotoStep DEF Labels
  <2>6. overlapped \subseteq overlapped' /\ ThreadType'
    BY <1>0, <1>1, <1>2, <2>1, <2>4, <2>5 DEF ThreadType
  <2>7. JobTrue(t)'
    <3>1. i \in created /\ uses[i] > 0
      BY <1>4 DEF Active
    <3>2. i \in Single \ overlapped => accepted[i] = <<>>
      BY <1>2, <3>1 DEF IInv, InvitesTrue
    <3>3. AcceptJob(t)'
      BY <1>0, <1>1, <2>4, <2>5 DEF JobTrue, AcceptJob, Accepting
    <3>4. UseJob(t)'
      BY <1>1, <2>4, <2>5, <2>6, <3>1, <3>2 DEF UseJob, inviteVars
    <3>5. QED
      BY <2>5, <3>3, <3>4 DEF JobTrue, DeviceJob, Authorizing
  <2>8. ASSUME NEW u \in Handlers \ {t} PROVE Alone(t, u)'
    <3>1. pc[u] = "use" /\ job[u].invite = i => u \in others
      BY DEF Inside
    <3>2. u \in others => i \in overlapped'
      BY <2>1
    <3>3. QED
      BY <2>4, <2>5, <3>1, <3>2 DEF Alone, Minting
  <2>9. QED
    BY <1>1, <2>4, <2>5, <2>6, <2>7, <2>8, QuietKeeps DEF Moves
<1>5. QED
  BY <1>3, <1>4
\* A use consumed is noted, and a single-use invite has none left.
LEMMA ConsumeUseKeeps ==
  ASSUME IInv, NEW t \in Handlers, ConsumeUse(t), UNCHANGED <<device, minted, bound>>
  PROVE  IInv'
<1> DEFINE i == job[t].invite
           w == job[t].user
           left == IF i \in Single THEN 0 ELSE job[t].remaining - 1
<1>0. InviteType /\ ThreadType /\ JobTrue(t) /\ job[t] \in JobSet
  BY TypeParts DEF IInv, ThreadType
<1>1. /\ pc[t] = "use" /\ Goto(t, "readGrant")
      /\ uses' = [uses EXCEPT ![i] = left] /\ accepted' = [accepted EXCEPT ![i] = Append(@, w)]
      /\ UNCHANGED <<created, revoked, grants, now, job, calls, overlapped, device, minted, bound>>
  BY DEF ConsumeUse
<1>2. /\ i \in Invites /\ w \in Users /\ job[t].remaining > 0 /\ i \in created
      /\ i \in Single \ overlapped => accepted[i] = <<>>
  BY <1>0, <1>1 DEF JobTrue, AcceptJob, UseJob, Accepting
<1>3. left \in 0..ManyUses /\ (i \in Single => left = 0)
  <2>1. job[t].remaining \in 0..ManyUses
    BY <1>0 DEF JobSet
  <2>2. QED
    BY <1>2, <2>1, InviteAssumption
<1>4. /\ accepted[i] \in Seq(Users) /\ Append(accepted[i], w) \in Seq(Users)
      /\ Len(Append(accepted[i], w)) = Len(accepted[i]) + 1
      /\ Seen(Append(accepted[i], w)) = Seen(accepted[i]) \cup {w}
  <2>1. accepted[i] \in Seq(Users)
    BY <1>0, <1>2 DEF InviteType
  <2>2. QED
    BY <1>2, <2>1, AppendSeen
<1>5. /\ accepted'[i] = Append(accepted[i], w) /\ uses'[i] = left
      /\ \A x \in Invites : x # i => accepted'[x] = accepted[x] /\ uses'[x] = uses[x]
  BY <1>0, <1>1, <1>2 DEF InviteType
<1>6. pc' \in [Handlers -> Labels] /\ pc'[t] = "readGrant" /\ Moves(t)
  BY <1>0, <1>1, GotoStep DEF Labels, Moves
<1>7. \A x \in Invites : Seen(accepted[x]) \subseteq Seen(accepted'[x])
  BY <1>4, <1>5
<1> HIDE DEF left
<1>8. InviteType' /\ ThreadType'
  BY <1>0, <1>1, <1>3, <1>4, <1>6 DEF InviteType, ThreadType
<1>9. Growing
  BY <1>0, <1>1, <1>7 DEF Growing, ThreadType
<1>10. JobTrue(t)'
  <2>1. w \in Seen(accepted'[i])
    BY <1>4, <1>5
  <2>2. AcceptJob(t)'
    BY <1>0, <1>1, <1>6 DEF JobTrue, AcceptJob, Accepting
  <2>3. UseJob(t)'
    BY <1>1, <1>6, <2>1 DEF UseJob
  <2>4. QED
    BY <1>6, <2>2, <2>3 DEF JobTrue, DeviceJob, Authorizing
<1>11. ASSUME NEW u \in Handlers \ {t} PROVE Stays(u)
  <2>1. pc[u] = "use" /\ job[u].invite = i => i \in overlapped
    BY <1>1 DEF IInv, Alone
  <2>2. pc[u] = "use" => job[u].invite \in Invites
    BY DEF IInv, JobTrue, AcceptJob, Accepting
  <2>3. QED
    BY <1>1, <1>5, <1>6, <2>1, <2>2 DEF Stays, Moves
<1>12. InvitesTrue'
  <2> SUFFICES ASSUME NEW x \in Invites
               PROVE  /\ x \notin created => uses'[x] = 0 /\ accepted'[x] = <<>>
                      /\ x \in Single \ overlapped /\ uses'[x] > 0 => accepted'[x] = <<>>
    BY <1>1 DEF InvitesTrue
  <2>1. CASE x = i
    BY <1>2, <1>3, <1>5, <2>1
  <2>2. CASE x # i
    BY <1>5, <2>2 DEF IInv, InvitesTrue
  <2>3. QED
    BY <2>1, <2>2
<1>13. SingleUse'
  <2> SUFFICES ASSUME NEW x \in Single \ overlapped PROVE Len(accepted'[x]) <= 1
    BY <1>1 DEF SingleUse
  <2>1. x \in Invites
    BY InviteAssumption
  <2>2. CASE x = i
    <3>1. Len(accepted[i]) = 0
      BY <1>2, <2>2
    <3>2. QED
      BY <1>4, <1>5, <2>2, <3>1
  <2>3. CASE x # i
    BY <1>5, <2>1, <2>3 DEF IInv, SingleUse
  <2>4. QED
    BY <2>2, <2>3
<1>14. GrantsFromInvites'
  <2>1. \A u \in Users : grants[u] = Granted[u] \/ \E x \in Invites : grants[u] = Level[x] /\ u \in Seen(accepted[x])
    BY DEF IInv, GrantsFromInvites, Seen
  <2>2. \A u \in Users : grants[u] = Granted[u] \/ \E x \in Invites : grants[u] = Level[x] /\ u \in Seen(accepted'[x])
    BY <1>7, <2>1
  <2>3. QED
    BY <1>1, <2>2 DEF GrantsFromInvites, Seen
<1>15. DevicesTrue' /\ OneToken' /\ TokenForAuthorizer' /\ DeviceType'
  <2>1. \A u \in Handlers : pc[u] = "consume" => pc'[u] = "consume" /\ job'[u] = job[u]
    BY <1>1, <1>6 DEF Moves
  <2>2. QED
    BY <1>1, <2>1, DevicesSame
<1>16. TypeOK'
  BY <1>8, <1>15 DEF TypeOK, InviteType, ThreadType, DeviceType, JobSet, RowSet
<1>17. QED
  <2> DEFINE S == {t}
  <2>1. S \in SUBSET Handlers /\ (\A a, b \in S : a = b)
        /\ \A u : u \in Handlers \ S <=> u \in Handlers \ {t}
    OBVIOUS
  <2>2. \A a \in S : JobTrue(a)' /\ \A u \in Handlers \ S : Alone(a, u)'
    BY <1>6, <1>10, NotInside DEF S
  <2> HIDE DEF S
  <2>3. QED
    BY <1>9, <1>11, <1>12, <1>13, <1>14, <1>15, <1>16, <2>1, <2>2, StepKeeps

\* An acceptance that goes on to write a grant has read a lower one.
LEMMA ReadGrantKeeps ==
  ASSUME IInv, NEW t \in Handlers, ReadGrant(t), UNCHANGED <<device, minted, bound>>
  PROVE  IInv'
<1> DEFINE w == job[t].user
<1>0. InviteType /\ ThreadType /\ JobTrue(t)
  BY TypeParts DEF IInv
<1>1. pc[t] = "readGrant" /\ UNCHANGED <<inviteVars, now, calls, device, minted, bound>>
  BY DEF ReadGrant
<1>2. job[t].invite \in Invites /\ w \in Users /\ w \in Seen(accepted[job[t].invite])
  BY <1>0, <1>1 DEF JobTrue, AcceptJob, UseJob, Accepting
<1>3. CASE grants[w] >= Level[job[t].invite]
  <2>1. AfterAccept(t) /\ UNCHANGED overlapped
    BY <1>3 DEF ReadGrant
  <2>2. /\ pc' \in [Handlers -> Labels] /\ job' \in [Handlers -> JobSet]
        /\ pc'[t] \in {"idle", "bind"} /\ Moves(t) /\ JobTrue(t)'
    BY <1>1, <2>1, AfterAcceptStep DEF Accepting
  <2>3. ThreadType'
    BY <1>0, <1>1, <2>1, <2>2 DEF ThreadType
  <2>4. QED
    BY <1>1, <2>1, <2>2, <2>3, NotInside, QuietKeeps
<1>4. CASE ~(grants[w] >= Level[job[t].invite])
  <2> DEFINE others == {x \in Inside(t, {"upsert"}) : job[x].user = w}
  <2>1. /\ Goto(t, "upsert") /\ UNCHANGED job
        /\ overlapped' = overlapped \cup (IF others = {} THEN {} ELSE {w})
    BY <1>4 DEF ReadGrant
  <2>2. pc' \in [Handlers -> Labels] /\ pc'[t] = "upsert" /\ Moves(t)
    BY <1>0, <2>1, GotoStep DEF Labels, Moves
  <2>3. overlapped \subseteq overlapped' /\ ThreadType'
    BY <1>0, <1>1, <1>2, <2>1, <2>2 DEF ThreadType
  <2>4. grants[w] < Level[job[t].invite]
    <3>1. grants[w] \in 0..2
      BY <1>0, <1>2 DEF InviteType, Levels
    <3>2. Level[job[t].invite] \in 1..2
      BY <1>2, InviteAssumption
    <3>3. QED
      BY <1>4, <3>1, <3>2
  <2>5. JobTrue(t)'
    <3>1. AcceptJob(t)'
      BY <1>0, <1>1, <2>1, <2>2 DEF JobTrue, AcceptJob, Accepting
    <3>2. UseJob(t)'
      BY <1>1, <1>2, <2>1, <2>2, <2>4 DEF UseJob, inviteVars
    <3>3. QED
      BY <2>2, <3>1, <3>2 DEF JobTrue, DeviceJob, Authorizing
  <2>6. ASSUME NEW u \in Handlers \ {t} PROVE Alone(t, u)'
    <3>1. pc[u] = "upsert" /\ job[u].user = w => u \in others
      BY DEF Inside
    <3>2. u \in others => w \in overlapped'
      BY <2>1
    <3>3. QED
      BY <2>1, <2>2, <3>1, <3>2 DEF Alone, Minting, Moves
  <2>7. QED
    BY <1>1, <2>2, <2>3, <2>5, <2>6, QuietKeeps
<1>5. QED
  BY <1>3, <1>4

\* The grant written is of the invite whose use this call has consumed.
LEMMA UpsertGrantKeeps ==
  ASSUME IInv, NEW t \in Handlers, UpsertGrant(t), UNCHANGED <<device, minted, bound>>
  PROVE  IInv'
<1> DEFINE w == job[t].user
           i == job[t].invite
<1>0. InviteType /\ ThreadType /\ JobTrue(t)
  BY TypeParts DEF IInv
<1>1. /\ pc[t] = "upsert" /\ AfterAccept(t) /\ grants' = [grants EXCEPT ![w] = Level[i]]
      /\ UNCHANGED <<uses, created, revoked, accepted, now, calls, overlapped, device, minted, bound>>
  BY DEF UpsertGrant
<1>2. i \in Invites /\ w \in Users /\ w \in Seen(accepted[i])
  BY <1>0, <1>1 DEF JobTrue, AcceptJob, UseJob, Accepting
<1>3. /\ pc' \in [Handlers -> Labels] /\ job' \in [Handlers -> JobSet]
      /\ pc'[t] \in {"idle", "bind"} /\ Moves(t) /\ JobTrue(t)'
  BY <1>1, AfterAcceptStep DEF Accepting
<1>4. Growing
  BY <1>0, <1>1 DEF Growing, ThreadType
<1>5. ASSUME NEW u \in Handlers \ {t} PROVE Stays(u)
  <2>1. pc[u] = "upsert" /\ job[u].user = w => w \in overlapped
    BY <1>1 DEF IInv, Alone
  <2>2. pc[u] = "upsert" => job[u].user \in Users
    BY DEF IInv, JobTrue, AcceptJob, Accepting
  <2>3. QED
    BY <1>0, <1>1, <1>3, <2>1, <2>2 DEF Stays, Moves, InviteType
<1>6. InvitesTrue' /\ SingleUse'
  BY <1>1 DEF IInv, InvitesTrue, SingleUse
<1>7. GrantsFromInvites'
  <2>1. ASSUME NEW u \in Users
        PROVE  \/ grants'[u] = Granted[u]
               \/ \E x \in Invites : grants'[u] = Level[x] /\ u \in Seen(accepted[x])
    <3>1. CASE u = w
      BY <1>0, <1>1, <1>2, <3>1 DEF InviteType
    <3>2. CASE u # w
      BY <1>0, <1>1, <3>2 DEF InviteType, IInv, GrantsFromInvites, Seen
    <3>3. QED
      BY <3>1, <3>2
  <2>2. QED
    BY <1>1, <2>1 DEF GrantsFromInvites, Seen
<1>8. DevicesTrue' /\ OneToken' /\ TokenForAuthorizer' /\ DeviceType'
  <2>1. \A u \in Handlers : pc[u] = "consume" => pc'[u] = "consume" /\ job'[u] = job[u]
    BY <1>1, <1>3 DEF Moves
  <2>2. QED
    BY <1>1, <2>1, DevicesSame
<1>9. InviteType' /\ ThreadType'
  <2>1. Level[i] \in Levels
    BY <1>2, InviteAssumption DEF Levels
  <2>2. QED
    BY <1>0, <1>1, <1>3, <2>1 DEF InviteType, ThreadType
<1>10. TypeOK'
  BY <1>8, <1>9 DEF TypeOK, InviteType, ThreadType, DeviceType, JobSet, RowSet
<1>11. QED
  <2> DEFINE S == {t}
  <2>1. S \in SUBSET Handlers /\ (\A a, b \in S : a = b)
        /\ \A u : u \in Handlers \ S <=> u \in Handlers \ {t}
    OBVIOUS
  <2>2. \A a \in S : JobTrue(a)' /\ \A u \in Handlers \ S : Alone(a, u)'
    BY <1>3, NotInside DEF S
  <2> HIDE DEF S
  <2>3. QED
    BY <1>4, <1>5, <1>6, <1>7, <1>8, <1>10, <2>1, <2>2, StepKeeps
-----------------------------------------------------------------------------
(* The steps of a device's calls.                                          *)

\* A step of one thread, whatever tables it writes.
LEMMA ThreadKeeps ==
  ASSUME IInv, NEW t \in Handlers, TypeOK', Growing,
         \A u \in Handlers \ {t} : Stays(u) /\ Alone(t, u)', JobTrue(t)',
         InvitesTrue', SingleUse', GrantsFromInvites',
         DevicesTrue', OneToken', TokenForAuthorizer'
  PROVE  IInv'
<1> DEFINE S == {t}
<1>1. S \in SUBSET Handlers /\ (\A a, b \in S : a = b)
      /\ \A u : u \in Handlers \ S <=> u \in Handlers \ {t}
  OBVIOUS
<1>2. \A a \in S : JobTrue(a)' /\ \A u \in Handlers \ S : Alone(a, u)'
  BY DEF S
<1> HIDE DEF S
<1>3. QED
  BY <1>1, <1>2, StepKeeps

\* A thread that writes one row: the row stays, with its time, is authorized
\* only for who is bound to it, and is marked consumed only when it has a token.
LEMMA RowKeeps ==
  ASSUME IInv, NEW t \in Handlers, NEW d \in Devices, NEW r \in RowSet, Moves(t),
         device' = [device EXCEPT ![d] = r], bound' \in [Devices -> SUBSET Users],
         \A x \in Devices : bound[x] \subseteq bound'[x],
         UNCHANGED <<inviteVars, now, minted, overlapped>>, ThreadType',
         device[d].status # "absent", r.status # "absent", r.expires = device[d].expires,
         r.status = "authorized" => r.user \in Users /\ r.user \in bound'[d],
         device[d].consumed => r.consumed,
         r.consumed => device[d].consumed \/ minted[d] # <<>>,
         pc[t] = "consume" => job[t].device = d /\ r.consumed,
         JobTrue(t)', \A u \in Handlers \ {t} : Alone(t, u)'
  PROVE  IInv'
<1>0. InviteType /\ ThreadType /\ DeviceType
  BY TypeParts DEF IInv
<1>1. device'[d] = r /\ (\A x \in Devices : x # d => device'[x] = device[x])
      /\ device' \in [Devices -> RowSet]
  BY <1>0 DEF DeviceType
<1>2. Growing
  BY <1>0, <1>1 DEF Growing, ThreadType, inviteVars
<1>3. \A u \in Handlers \ {t} : Stays(u)
  BY DEF Stays, Moves, inviteVars
<1>4. InvitesTrue' /\ SingleUse' /\ GrantsFromInvites' /\ InviteType'
  BY InvitesSame
<1>5. DeviceType'
  BY <1>0, <1>1 DEF DeviceType
<1>6. DevicesTrue'
  <2> SUFFICES ASSUME NEW x \in Devices
               PROVE  /\ device'[x].status = "absent" => minted[x] = <<>>
                      /\ device'[x].status = "authorized" => device'[x].user \in bound'[x]
                      /\ x \notin overlapped /\ minted[x] # <<>> /\ ~device'[x].consumed =>
                           \E u \in Handlers : pc'[u] = "consume" /\ job'[u].device = x
    BY DEF DevicesTrue
  <2>1. /\ device'[x].status = "absent" => minted[x] = <<>>
        /\ device'[x].status = "authorized" => device'[x].user \in bound'[x]
    BY <1>1 DEF IInv, DevicesTrue
  <2>2. ASSUME x \notin overlapped, minted[x] # <<>>, ~device'[x].consumed
        PROVE  \E u \in Handlers : pc'[u] = "consume" /\ job'[u].device = x
    <3>1. ~device[x].consumed
      BY <1>1, <2>2
    <3>2. PICK u \in Handlers : pc[u] = "consume" /\ job[u].device = x
      BY <2>2, <3>1 DEF IInv, DevicesTrue
    <3>3. u # t
      BY <1>1, <2>2, <3>2
    <3>4. QED
      BY <3>2, <3>3 DEF Moves
  <2>3. QED
    BY <2>1, <2>2
<1>7. OneToken' /\ TokenForAuthorizer'
  <2>1. OneToken'
    BY DEF IInv, OneToken
  <2>2. ASSUME NEW x \in Devices
        PROVE  Mints(x)' \subseteq bound'[x] /\ (device'[x].consumed => minted[x] # <<>>)
    BY <1>1 DEF IInv, TokenForAuthorizer, Mints
  <2>3. QED
    BY <2>1, <2>2 DEF TokenForAuthorizer
<1>8. TypeOK'
  BY <1>4, <1>5 DEF TypeOK, InviteType, ThreadType, DeviceType, JobSet, RowSet
<1>9. QED
  BY <1>2, <1>3, <1>4, <1>6, <1>7, <1>8, ThreadKeeps

\* A device that starts has no token, as one that is not there has none.
LEMMA StartDeviceKeeps ==
  ASSUME IInv, NEW t \in Handlers, StartDevice(t)
  PROVE  IInv'
<1>0. InviteType /\ ThreadType /\ DeviceType
  BY TypeParts DEF IInv
<1>1. PICK d \in Devices :
        /\ device[d].status = "absent" /\ calls' = calls + 1
        /\ device' = [device EXCEPT ![d] =
                        [NoDevice EXCEPT !.status = "pending", !.expires = now + CodeTTL]]
        /\ UNCHANGED <<inviteVars, now, overlapped, pc, job, minted, bound>>
  BY DEF StartDevice, invitesOnly
<1> DEFINE r == [NoDevice EXCEPT !.status = "pending", !.expires = now + CodeTTL]
<1>2. r \in RowSet /\ r.status = "pending" /\ r.consumed = FALSE
  <2>1. now + CodeTTL \in Nat
    BY <1>0, DeviceAssumption DEF ThreadType
  <2>2. NoDevice \in RowSet /\ NoDevice.consumed = FALSE
    BY DEF NoDevice, RowSet, Statuses
  <2>3. "pending" \in Statuses
    BY DEF Statuses
  <2>4. QED
    BY <2>1, <2>2, <2>3 DEF RowSet
<1> HIDE DEF r
<1>3. device'[d] = r /\ (\A x \in Devices : x # d => device'[x] = device[x])
      /\ device' \in [Devices -> RowSet]
  BY <1>0, <1>1, <1>2 DEF DeviceType, r
<1>4. Growing
  BY <1>0, <1>1, <1>3 DEF Growing, ThreadType, inviteVars
<1>5. \A u \in Handlers : Stays(u)
  BY <1>1 DEF Stays, inviteVars
<1>6. InvitesTrue' /\ SingleUse' /\ GrantsFromInvites' /\ InviteType'
  BY <1>1, InvitesSame
<1>7. DeviceType' /\ ThreadType'
  BY <1>0, <1>1, <1>2, <1>3 DEF DeviceType, ThreadType
<1>8. minted[d] = <<>>
  BY <1>1 DEF IInv, DevicesTrue
<1>9. DevicesTrue'
  <2> SUFFICES ASSUME NEW x \in Devices
               PROVE  /\ device'[x].status = "absent" => minted[x] = <<>>
                      /\ device'[x].status = "authorized" => device'[x].user \in bound[x]
                      /\ x \notin overlapped /\ minted[x] # <<>> /\ ~device'[x].consumed =>
                           \E u \in Handlers : pc[u] = "consume" /\ job[u].device = x
    BY <1>1 DEF DevicesTrue
  <2>1. CASE x = d
    BY <1>2, <1>3, <1>8, <2>1
  <2>2. CASE x # d
    BY <1>3, <2>2 DEF IInv, DevicesTrue
  <2>3. QED
    BY <2>1, <2>2
<1>10. OneToken' /\ TokenForAuthorizer'
  <2>1. OneToken'
    BY <1>1 DEF IInv, OneToken
  <2>2. ASSUME NEW x \in Devices
        PROVE  Mints(x)' \subseteq bound'[x] /\ (device'[x].consumed => minted'[x] # <<>>)
    BY <1>1, <1>2, <1>3, ZenonT(40) DEF IInv, TokenForAuthorizer, Mints
  <2>3. QED
    BY <2>1, <2>2 DEF TokenForAuthorizer
<1>11. TypeOK'
  BY <1>6, <1>7 DEF TypeOK, InviteType, ThreadType, DeviceType, JobSet, RowSet
<1>12. QED
  BY <1>1, <1>4, <1>5, <1>6, <1>9, <1>10, <1>11, TablesKeep

\* What a poll that goes on has read.
LEMMA PollReads ==
  ASSUME NEW r \in RowSet, r.status # "absent", now \in Nat
  PROVE  /\ PollOutcome(r) = "expire" => now >= r.expires
         /\ PollOutcome(r) = "mint" => r.status = "authorized" /\ ~r.consumed
<1>1. r.polled \in Nat /\ r.expires \in Nat /\ r.consumed \in BOOLEAN
      /\ r.status \in {"pending", "authorized", "expired"}
  BY DEF RowSet, Statuses
<1>2. CASE r.polled > 0 /\ now - r.polled < Window
  BY <1>2 DEF PollOutcome
<1>3. CASE ~(r.polled > 0 /\ now - r.polled < Window)
  <2>1. CASE r.consumed
    BY <1>3, <2>1 DEF PollOutcome
  <2>2. CASE ~r.consumed /\ now >= r.expires
    BY <1>3, <2>2 DEF PollOutcome
  <2>3. CASE ~r.consumed /\ ~(now >= r.expires)
    BY <1>1, <1>3, <2>3 DEF PollOutcome
  <2>4. QED
    BY <2>1, <2>2, <2>3
<1>4. QED
  BY <1>2, <1>3
\* A poll that goes on to mint has read an unmarked row of a user bound to it,
\* and is alone in minting through it, or the device is noted.
LEMMA PollKeeps ==
  ASSUME IInv, NEW t \in Handlers, Poll(t)
  PROVE  IInv'
<1>0. InviteType /\ ThreadType /\ DeviceType
  BY TypeParts DEF IInv
<1>1. PICK d \in Devices :
        /\ device[d].status # "absent"
        /\ \/ /\ pc[t] = "idle" /\ calls' = calls + 1
              /\ UNCHANGED <<pc, job, overlapped>>
           \/ /\ PollOutcome(device[d]) \in {"expire", "stamp", "mint"}
              /\ Call(t, PollOutcome(device[d]),
                      [NoJob EXCEPT !.op = "poll", !.device = d, !.user = device[d].user])
              /\ overlapped' = overlapped
                    \cup (IF PollOutcome(device[d]) = "mint" /\ MidMint(d, t) THEN {d} ELSE {})
        /\ UNCHANGED <<inviteVars, now, device, minted, bound>>
  BY DEF Poll
<1>2. CASE pc[t] = "idle" /\ calls' = calls + 1 /\ UNCHANGED <<pc, job, overlapped>>
  <2>1. Moves(t) /\ pc'[t] = "idle" /\ ThreadType'
    BY <1>0, <1>1, <1>2 DEF Moves, ThreadType
  <2>2. QED
    BY <1>1, <1>2, <2>1, IdleTrue, NotInside, QuietKeeps
<1>3. ASSUME PollOutcome(device[d]) \in {"expire", "stamp", "mint"},
             Call(t, PollOutcome(device[d]),
                  [NoJob EXCEPT !.op = "poll", !.device = d, !.user = device[d].user]),
             overlapped' = overlapped
                \cup (IF PollOutcome(device[d]) = "mint" /\ MidMint(d, t) THEN {d} ELSE {})
      PROVE  IInv'
  <2> DEFINE j == [NoJob EXCEPT !.op = "poll", !.device = d, !.user = device[d].user]
             l == PollOutcome(device[d])
  <2>0. device[d] \in RowSet
    BY <1>0 DEF DeviceType
  <2>1. j \in JobSet /\ j.user = device[d].user /\ j.device = d /\ l \in Labels
    BY <1>3, <2>0, NoJobType DEF JobSet, RowSet, Labels
  <2>2. /\ l = "expire" => now >= device[d].expires
        /\ l = "mint" => device[d].status = "authorized" /\ ~device[d].consumed
    BY <1>0, <1>1, <2>0, PollReads DEF ThreadType
  <2>3. Call(t, l, j)
    BY <1>3
  <2>4. l \in {"expire", "stamp", "mint"} /\ (l = "mint" /\ MidMint(d, t) => d \in overlapped')
        /\ overlapped \subseteq overlapped' /\ overlapped' \subseteq overlapped \cup {d}
    BY <1>3
  <2> HIDE DEF j, l
  <2>5. /\ pc' \in [Handlers -> Labels] /\ job' \in [Handlers -> JobSet] /\ calls' \in Nat
        /\ pc[t] = "idle" /\ pc'[t] = l /\ job'[t] = j /\ Moves(t)
    BY <1>0, <2>1, <2>3, CallStep
  <2>6. ThreadType'
    BY <1>0, <1>1, <2>4, <2>5 DEF ThreadType
  <2>7. JobTrue(t)'
    <3>1. l = "mint" => device[d].user \in bound[d]
      BY <2>2 DEF IInv, DevicesTrue
    <3>2. l = "mint" /\ d \notin overlapped' => minted[d] = <<>>
      <4>1. SUFFICES ASSUME l = "mint", d \notin overlapped', minted[d] # <<>> PROVE FALSE
        OBVIOUS
      <4>2. PICK u \in Handlers : pc[u] = "consume" /\ job[u].device = d
        BY <2>2, <2>4, <4>1 DEF IInv, DevicesTrue
      <4>3. MidMint(d, t)
        BY <2>5, <4>2 DEF MidMint, Inside
      <4>4. QED
        BY <2>4, <4>1, <4>3
    <3>3. DeviceJob(t)'
      BY <1>1, <2>1, <2>2, <2>4, <2>5, <3>1, <3>2 DEF DeviceJob, Minting, Expired
    <3>4. QED
      BY <2>4, <2>5, <3>3 DEF JobTrue, AcceptJob, UseJob, Accepting
  <2>8. ASSUME NEW u \in Handlers \ {t} PROVE Alone(t, u)'
    <3>1. l = "mint" /\ pc[u] \in Minting /\ job[u].device = d => MidMint(d, t)
      BY DEF MidMint, Inside, Minting
    <3>2. QED
      BY <2>1, <2>4, <2>5, <3>1 DEF Alone, Moves, Minting
  <2>9. QED
    BY <1>1, <2>4, <2>5, <2>6, <2>7, <2>8, QuietKeeps
<1>4. QED
  BY <1>1, <1>2, <1>3

\* A poll marks expired only a row it has read past its time.
LEMMA ExpirePollKeeps ==
  ASSUME IInv, NEW t \in Handlers, ExpirePoll(t)
  PROVE  IInv' /\ \A d \in Devices : device'[d] # device[d] => Expired(d)
<1> DEFINE d == job[t].device
           r == [device[d] EXCEPT !.status = "expired"]
<1>0. InviteType /\ ThreadType /\ DeviceType /\ JobTrue(t)
  BY TypeParts DEF IInv
<1>1. /\ pc[t] = "expire" /\ Return(t) /\ device' = [device EXCEPT ![d].status = "expired"]
      /\ UNCHANGED <<inviteVars, now, overlapped, calls, minted, bound>>
  BY DEF ExpirePoll, SetStatus, invitesOnly
<1>2. d \in Devices /\ device[d].status # "absent" /\ Expired(d)
  BY <1>0, <1>1 DEF JobTrue, DeviceJob, Authorizing
<1>3. r \in RowSet /\ device' = [device EXCEPT ![d] = r]
  <2>1. device[d] \in RowSet /\ "expired" \in Statuses
    BY <1>0, <1>2 DEF DeviceType, Statuses
  <2>2. r \in RowSet
    BY <2>1 DEF RowSet
  <2>3. QED
    BY <1>0, <1>1, <1>2, <2>2 DEF DeviceType
<1>4. r.status = "expired" /\ r.expires = device[d].expires /\ r.consumed = device[d].consumed
  BY <1>0, <1>2 DEF DeviceType, RowSet
<1>5. pc' \in [Handlers -> Labels] /\ job' \in [Handlers -> JobSet] /\ pc'[t] = "idle" /\ Moves(t)
  BY <1>0, <1>1, ReturnStep
<1>6. ThreadType' /\ bound' \in [Devices -> SUBSET Users]
  BY <1>0, <1>1, <1>5 DEF ThreadType, DeviceType
<1> HIDE DEF r
<1>7. IInv'
  BY <1>1, <1>2, <1>3, <1>4, <1>5, <1>6, IdleTrue, NotInside, RowKeeps
<1>8. QED
  BY <1>0, <1>2, <1>3, <1>7 DEF DeviceType

\* The time of the last poll is read by nothing that the invariant is about.
LEMMA StampPollKeeps ==
  ASSUME IInv, NEW t \in Handlers, StampPoll(t)
  PROVE  IInv' /\ \A d \in Devices : device'[d].status = device[d].status
<1> DEFINE d == job[t].device
           r == [device[d] EXCEPT !.polled = now]
<1>0. InviteType /\ ThreadType /\ DeviceType /\ JobTrue(t)
  BY TypeParts DEF IInv
<1>1. /\ pc[t] = "stamp" /\ Return(t) /\ device' = [device EXCEPT ![d].polled = now]
      /\ UNCHANGED <<inviteVars, now, overlapped, calls, minted, bound>>
  BY DEF StampPoll, invitesOnly
<1>2. d \in Devices /\ device[d].status # "absent"
  BY <1>0, <1>1 DEF JobTrue, DeviceJob, Authorizing
<1>3. r \in RowSet /\ device' = [device EXCEPT ![d] = r]
  BY <1>0, <1>1, <1>2, ZenonT(40) DEF DeviceType, RowSet, ThreadType
<1>4. /\ r.status = device[d].status /\ r.user = device[d].user
      /\ r.expires = device[d].expires /\ (r.consumed <=> device[d].consumed)
  BY <1>0, <1>2 DEF DeviceType, RowSet
<1>5. r.status = "authorized" => r.user \in Users /\ r.user \in bound'[d]
  BY <1>0, <1>1, <1>2, <1>4 DEF DeviceType, IInv, DevicesTrue
<1>6. pc' \in [Handlers -> Labels] /\ job' \in [Handlers -> JobSet] /\ pc'[t] = "idle" /\ Moves(t)
  BY <1>0, <1>1, ReturnStep
<1>7. ThreadType' /\ bound' \in [Devices -> SUBSET Users]
  BY <1>0, <1>1, <1>6 DEF ThreadType, DeviceType
<1> HIDE DEF r
<1>8. IInv'
  <2>1. r \in RowSet /\ r.status # "absent" /\ pc[t] # "consume"
    BY <1>1, <1>2, <1>3, <1>4
  <2>2. JobTrue(t)' /\ \A u \in Handlers \ {t} : Alone(t, u)'
    BY <1>6, IdleTrue, NotInside
  <2>3. \A x \in Devices : bound[x] \subseteq bound'[x]
    BY <1>1
  <2>4. QED
    BY <1>1, <1>2, <1>3, <1>4, <1>5, <1>6, <1>7, <2>1, <2>2, <2>3, RowKeeps
<1>9. QED
  BY <1>0, <1>3, <1>4, <1>8 DEF DeviceType

\* A device that is marked has the token its poll minted.
LEMMA ConsumeDeviceKeeps ==
  ASSUME IInv, NEW t \in Handlers, ConsumeDevice(t)
  PROVE  IInv' /\ \A d \in Devices : device'[d].status = device[d].status
<1> DEFINE d == job[t].device
           r == [device[d] EXCEPT !.polled = now, !.consumed = TRUE]
<1>0. InviteType /\ ThreadType /\ DeviceType /\ JobTrue(t)
  BY TypeParts DEF IInv
<1>1. /\ pc[t] = "consume" /\ Return(t)
      /\ device' = [device EXCEPT ![d].polled = now, ![d].consumed = TRUE]
      /\ UNCHANGED <<inviteVars, now, overlapped, calls, minted, bound>>
  BY DEF ConsumeDevice, invitesOnly
<1>2. d \in Devices /\ device[d].status # "absent" /\ minted[d] # <<>>
  BY <1>0, <1>1 DEF JobTrue, DeviceJob, Authorizing
<1>3. r \in RowSet /\ device' = [device EXCEPT ![d] = r]
  BY <1>0, <1>1, <1>2, ZenonT(40) DEF DeviceType, RowSet, ThreadType
<1>4. /\ r.status = device[d].status /\ r.user = device[d].user
      /\ r.expires = device[d].expires /\ r.consumed = TRUE
  BY <1>0, <1>2 DEF DeviceType, RowSet
<1>5. r.status = "authorized" => r.user \in Users /\ r.user \in bound'[d]
  BY <1>0, <1>1, <1>2, <1>4 DEF DeviceType, IInv, DevicesTrue
<1>6. pc' \in [Handlers -> Labels] /\ job' \in [Handlers -> JobSet] /\ pc'[t] = "idle" /\ Moves(t)
  BY <1>0, <1>1, ReturnStep
<1>7. ThreadType' /\ bound' \in [Devices -> SUBSET Users]
  BY <1>0, <1>1, <1>6 DEF ThreadType, DeviceType
<1> HIDE DEF r
<1>8. IInv'
  BY <1>1, <1>2, <1>3, <1>4, <1>5, <1>6, <1>7, IdleTrue, NotInside, RowKeeps
<1>9. QED
  BY <1>0, <1>3, <1>4, <1>8 DEF DeviceType
\* A token is the first through its device, or the device is noted.
LEMMA MintTokenKeeps ==
  ASSUME IInv, NEW t \in Handlers, MintToken(t)
  PROVE  IInv'
<1> DEFINE d == job[t].device
           w == job[t].user
<1>0. InviteType /\ ThreadType /\ DeviceType /\ JobTrue(t)
  BY TypeParts DEF IInv
<1>1. /\ pc[t] = "mint" /\ Goto(t, "consume")
      /\ minted' = [minted EXCEPT ![d] = Append(@, w)]
      /\ UNCHANGED <<inviteVars, now, overlapped, calls, job, device, bound>>
  BY DEF MintToken, invitesOnly
<1>2. /\ d \in Devices /\ device[d].status # "absent" /\ w \in bound[d]
      /\ d \notin overlapped => minted[d] = <<>>
  BY <1>0, <1>1 DEF JobTrue, DeviceJob, Authorizing, Minting
<1>3. w \in Users /\ minted[d] \in Seq(Users)
  BY <1>0, <1>2 DEF DeviceType
<1>4. /\ Append(minted[d], w) \in Seq(Users) /\ Append(minted[d], w) # <<>>
      /\ Len(Append(minted[d], w)) = Len(minted[d]) + 1
      /\ Seen(Append(minted[d], w)) = Seen(minted[d]) \cup {w}
  BY <1>3, AppendSeen
<1>5. minted'[d] = Append(minted[d], w) /\ \A x \in Devices : x # d => minted'[x] = minted[x]
  BY <1>0, <1>1, <1>2 DEF DeviceType
<1>6. pc' \in [Handlers -> Labels] /\ pc'[t] = "consume" /\ Moves(t)
  BY <1>0, <1>1, GotoStep DEF Labels, Moves
<1>7. ThreadType' /\ DeviceType'
  BY <1>0, <1>1, <1>4, <1>6 DEF ThreadType, DeviceType
<1>8. Growing
  BY <1>0, <1>1, <1>4, <1>5 DEF Growing, ThreadType, inviteVars
<1>9. JobTrue(t)'
  <2>1. DeviceJob(t)'
    BY <1>1, <1>2, <1>4, <1>5, <1>6 DEF DeviceJob, Minting
  <2>2. QED
    BY <1>6, <2>1 DEF JobTrue, AcceptJob, UseJob, Accepting
<1>10. ASSUME NEW u \in Handlers \ {t} PROVE Stays(u) /\ Alone(t, u)'
  <2>1. Alone(t, u)
    BY DEF IInv
  <2>2. Alone(t, u)'
    BY <1>1, <1>6, <2>1 DEF Alone, Minting, Moves
  <2>3. pc[u] = "mint" /\ job[u].device = d => d \in overlapped
    BY <1>1, <2>1 DEF Alone, Minting
  <2>4. pc[u] = "mint" => job[u].device \in Devices
    BY DEF IInv, JobTrue, DeviceJob, Authorizing
  <2>5. QED
    BY <1>1, <1>5, <1>6, <2>2, <2>3, <2>4 DEF Stays, Moves, inviteVars
<1>11. InvitesTrue' /\ SingleUse' /\ GrantsFromInvites' /\ InviteType'
  BY <1>1, InvitesSame
<1>12. DevicesTrue'
  <2> SUFFICES ASSUME NEW x \in Devices
               PROVE  /\ device[x].status = "absent" => minted'[x] = <<>>
                      /\ device[x].status = "authorized" => device[x].user \in bound[x]
                      /\ x \notin overlapped /\ minted'[x] # <<>> /\ ~device[x].consumed =>
                           \E u \in Handlers : pc'[u] = "consume" /\ job[u].device = x
    BY <1>1 DEF DevicesTrue
  <2>1. CASE x = d
    BY <1>2, <1>6, <2>1 DEF IInv, DevicesTrue
  <2>2. CASE x # d
    <3>1. minted'[x] = minted[x]
      BY <1>5, <2>2
    <3>2. \A u \in Handlers : pc[u] = "consume" => pc'[u] = "consume"
      BY <1>1, <1>6 DEF Moves
    <3>3. QED
      BY <3>1, <3>2 DEF IInv, DevicesTrue
  <2>3. QED
    BY <2>1, <2>2
<1>13. OneToken'
  <2> SUFFICES ASSUME NEW x \in Devices \ overlapped PROVE Len(minted'[x]) <= 1
    BY <1>1 DEF OneToken
  <2>1. CASE x = d
    <3>1. Len(minted[d]) = 0
      BY <1>2, <2>1
    <3>2. QED
      BY <1>4, <1>5, <2>1, <3>1
  <2>2. CASE x # d
    BY <1>5, <2>2 DEF IInv, OneToken
  <2>3. QED
    BY <2>1, <2>2
<1>14. TokenForAuthorizer'
  <2>1. ASSUME NEW x \in Devices
        PROVE  Seen(minted'[x]) \subseteq bound[x] /\ (device[x].consumed => minted'[x] # <<>>)
    <3>1. Seen(minted[x]) \subseteq bound[x] /\ (device[x].consumed => minted[x] # <<>>)
      BY DEF IInv, TokenForAuthorizer, Mints, Seen
    <3>2. CASE x = d
      BY <1>2, <1>4, <1>5, <3>1, <3>2
    <3>3. CASE x # d
      BY <1>5, <3>1, <3>3
    <3>4. QED
      BY <3>2, <3>3
  <2>2. QED
    BY <1>1, <2>1 DEF TokenForAuthorizer, Mints, Seen
<1>15. TypeOK'
  BY <1>7, <1>11 DEF TypeOK, InviteType, ThreadType, DeviceType, JobSet, RowSet
<1>16. QED
  BY <1>8, <1>9, <1>10, <1>11, <1>12, <1>13, <1>14, <1>15, ThreadKeeps

\* An authorization that is refused with the row pending has read it expired.
LEMMA StartAuthorizeKeeps ==
  ASSUME IInv, NEW t \in Handlers, StartAuthorize(t)
  PROVE  IInv'
<1>0. InviteType /\ ThreadType /\ DeviceType
  BY TypeParts DEF IInv
<1>1. PICK u \in Users, d \in Devices :
        /\ device[d].status # "absent"
        /\ Call(t, IF ~Open(device[d]) THEN "bump"
                   ELSE IF CarriedBy[d] # Nobody THEN "resolve" ELSE "bind",
                [NoJob EXCEPT !.op = "authorize", !.user = u, !.device = d,
                              !.invite = CarriedBy[d], !.status = device[d].status])
        /\ UNCHANGED <<invitesOnly, device, minted, bound>>
  BY DEF StartAuthorize
<1> DEFINE j == [NoJob EXCEPT !.op = "authorize", !.user = u, !.device = d,
                              !.invite = CarriedBy[d], !.status = device[d].status]
           l == IF ~Open(device[d]) THEN "bump"
                ELSE IF CarriedBy[d] # Nobody THEN "resolve" ELSE "bind"
<1>2. /\ device[d] \in RowSet /\ device[d].status \in Statuses
      /\ CarriedBy[d] \in Invites \cup {Nobody}
  BY <1>0, DeviceAssumption DEF DeviceType, RowSet
<1>3. /\ j \in JobSet /\ j.op = "authorize" /\ j.user = u /\ j.device = d
      /\ j.invite = CarriedBy[d] /\ j.status = device[d].status
  BY <1>2, NoJobType DEF JobSet
<1>4. l \in {"bump", "resolve", "bind"}
  OBVIOUS
<1>5. l = "bump" /\ device[d].status = "pending" => Expired(d)
  BY <1>0, <1>2 DEF Open, Expired, RowSet, ThreadType
<1>6. l = "resolve" => j.invite \in Invites
  BY <1>2, <1>3
<1>7. Call(t, l, j)
  BY <1>1
<1> HIDE DEF j, l
<1>8. /\ pc' \in [Handlers -> Labels] /\ job' \in [Handlers -> JobSet] /\ calls' \in Nat
      /\ pc[t] = "idle" /\ pc'[t] = l /\ job'[t] = j /\ Moves(t)
  <2>1. l \in Labels
    BY <1>4 DEF Labels
  <2>2. QED
    BY <1>0, <1>3, <1>7, <2>1, CallStep
<1>9. ThreadType' /\ UNCHANGED <<inviteVars, now, overlapped>>
  BY <1>0, <1>1, <1>8 DEF ThreadType, invitesOnly
<1>10. JobTrue(t)'
  <2>1. AcceptJob(t)'
    BY <1>1, <1>3, <1>4, <1>6, <1>8 DEF AcceptJob, Accepting
  <2>2. DeviceJob(t)'
    <3>1. Expired(d) => Expired(d)'
      BY <1>1, <1>9 DEF Expired
    <3>2. QED
      BY <1>1, <1>3, <1>4, <1>5, <1>8, <3>1 DEF DeviceJob, Authorizing, Minting
  <2>3. QED
    BY <1>4, <1>8, <2>1, <2>2 DEF JobTrue, UseJob
<1>11. QED
  BY <1>1, <1>4, <1>8, <1>9, <1>10, NotInside, QuietKeeps
\* A row that is locked after too many failures was pending, and has expired.
LEMMA BumpFailedKeeps ==
  ASSUME IInv, NEW t \in Handlers, BumpFailed(t)
  PROVE  IInv' /\ \A d \in Devices : device'[d].status = device[d].status
<1> DEFINE d == job[t].device
           r == [device[d] EXCEPT !.failed = @ + 1]
           locks == device[d].failed + 1 >= MaxFailed /\ job[t].status = "pending"
<1>0. InviteType /\ ThreadType /\ DeviceType /\ JobTrue(t)
  BY TypeParts DEF IInv
<1>1. /\ pc[t] = "bump" /\ device' = [device EXCEPT ![d].failed = @ + 1]
      /\ IF locks THEN Goto(t, "lock") /\ UNCHANGED job ELSE Return(t)
      /\ UNCHANGED <<inviteVars, now, overlapped, calls, minted, bound>>
  BY DEF BumpFailed, invitesOnly
<1>2. /\ d \in Devices /\ device[d].status # "absent"
      /\ job[t].status = "pending" => Expired(d)
  BY <1>0, <1>1 DEF JobTrue, DeviceJob, Authorizing
<1>3. device[d] \in RowSet /\ device[d].failed \in Nat
  BY <1>0, <1>2 DEF DeviceType, RowSet
<1>4. r \in RowSet /\ device' = [device EXCEPT ![d] = r]
  <2>1. PICK n \in Nat : n = device[d].failed + 1
    BY <1>3
  <2>2. r = [device[d] EXCEPT !.failed = n] /\ r \in RowSet
    BY <1>3, <2>1 DEF RowSet
  <2>3. QED
    BY <1>0, <1>1, <1>2, <2>2 DEF DeviceType
<1>5. /\ r.status = device[d].status /\ r.user = device[d].user
      /\ r.expires = device[d].expires /\ (r.consumed <=> device[d].consumed)
  BY <1>3 DEF RowSet
<1>6. r.status = "authorized" => r.user \in Users /\ r.user \in bound'[d]
  BY <1>0, <1>1, <1>2, <1>5 DEF DeviceType, IInv, DevicesTrue
<1>7. bound' \in [Devices -> SUBSET Users] /\ \A x \in Devices : bound[x] \subseteq bound'[x]
  BY <1>0, <1>1 DEF DeviceType
<1> HIDE DEF r
<1>8. /\ pc' \in [Handlers -> Labels] /\ job' \in [Handlers -> JobSet] /\ Moves(t) /\ JobTrue(t)'
      /\ pc'[t] \in {"idle", "lock"}
  <2>1. CASE locks
    <3>1. Goto(t, "lock") /\ job' = job /\ job[t].status = "pending"
      BY <1>1, <2>1
    <3>2. pc' \in [Handlers -> Labels] /\ pc'[t] = "lock" /\ \A u \in Handlers \ {t} : pc'[u] = pc[u]
      BY <1>0, <3>1, GotoStep DEF Labels
    <3>3. Expired(d)' /\ device'[d].status # "absent"
      BY <1>0, <1>1, <1>2, <1>3, <1>4, <1>5, <3>1 DEF DeviceType, Expired
    <3>4. DeviceJob(t)'
      BY <1>2, <3>1, <3>2, <3>3 DEF DeviceJob, Minting
    <3>5. QED
      BY <1>0, <3>1, <3>2, <3>4 DEF ThreadType, Moves, JobTrue, AcceptJob, UseJob, Accepting
  <2>2. CASE ~locks
    <3>1. Return(t)
      BY <1>1, <2>2
    <3>2. QED
      BY <1>0, <3>1, ReturnStep, IdleTrue
  <2>3. QED
    BY <2>1, <2>2
<1>9. ThreadType'
  BY <1>0, <1>1, <1>8 DEF ThreadType
<1>10. \A u \in Handlers \ {t} : Alone(t, u)'
  BY <1>8, NotInside
<1>11. r \in RowSet /\ r.status # "absent" /\ pc[t] # "consume" /\ UNCHANGED <<inviteVars, now, minted, overlapped>>
  BY <1>1, <1>2, <1>4, <1>5
<1>12. IInv'
  BY <1>2, <1>4, <1>5, <1>6, <1>7, <1>8, <1>9, <1>10, <1>11, RowKeeps
<1>13. QED
  BY <1>0, <1>4, <1>5, <1>12 DEF DeviceType

\* A lock marks a row that the same call has read as pending with too many failures.
LEMMA LockDeviceKeeps ==
  ASSUME IInv, NEW t \in Handlers, LockDevice(t)
  PROVE  IInv' /\ \A d \in Devices : device'[d] # device[d] => Expired(d)
<1> DEFINE d == job[t].device
           r == [device[d] EXCEPT !.status = "expired"]
<1>0. InviteType /\ ThreadType /\ DeviceType /\ JobTrue(t)
  BY TypeParts DEF IInv
<1>1. /\ pc[t] = "lock" /\ Return(t) /\ device' = [device EXCEPT ![d].status = "expired"]
      /\ UNCHANGED <<inviteVars, now, overlapped, calls, minted, bound>>
  BY DEF LockDevice, SetStatus, invitesOnly
<1>2. d \in Devices /\ device[d].status # "absent" /\ Expired(d)
  BY <1>0, <1>1 DEF JobTrue, DeviceJob, Authorizing
<1>3. r \in RowSet /\ device' = [device EXCEPT ![d] = r]
  <2>1. device[d] \in RowSet /\ "expired" \in Statuses
    BY <1>0, <1>2 DEF DeviceType, Statuses
  <2>2. r \in RowSet
    BY <2>1 DEF RowSet
  <2>3. QED
    BY <1>0, <1>1, <1>2, <2>2 DEF DeviceType
<1>4. r.status = "expired" /\ r.expires = device[d].expires /\ r.consumed = device[d].consumed
  BY <1>0, <1>2 DEF DeviceType, RowSet
<1>5. pc' \in [Handlers -> Labels] /\ job' \in [Handlers -> JobSet] /\ pc'[t] = "idle" /\ Moves(t)
  BY <1>0, <1>1, ReturnStep
<1>6. ThreadType' /\ bound' \in [Devices -> SUBSET Users]
  BY <1>0, <1>1, <1>5 DEF ThreadType, DeviceType
<1> HIDE DEF r
<1>7. IInv'
  BY <1>1, <1>2, <1>3, <1>4, <1>5, <1>6, IdleTrue, NotInside, RowKeeps
<1>8. QED
  BY <1>0, <1>2, <1>3, <1>7 DEF DeviceType

\* An authorized row is one of a user who is bound to it.
LEMMA BindDeviceKeeps ==
  ASSUME IInv, NEW t \in Handlers, BindDevice(t)
  PROVE  /\ IInv'
         /\ \A d \in Devices : device'[d] # device[d] => device'[d].status = "authorized"
<1> DEFINE d == job[t].device
           w == job[t].user
           r == [device[d] EXCEPT !.status = "authorized", !.user = w]
<1>0. InviteType /\ ThreadType /\ DeviceType /\ JobTrue(t)
  BY TypeParts DEF IInv
<1>1. /\ pc[t] = "bind" /\ Return(t) /\ bound' = [bound EXCEPT ![d] = @ \cup {w}]
      /\ device' = [device EXCEPT ![d].status = "authorized", ![d].user = w]
      /\ UNCHANGED <<inviteVars, now, overlapped, calls, minted>>
  BY DEF BindDevice, invitesOnly
<1>2. d \in Devices /\ device[d].status # "absent" /\ w \in Users
  BY <1>0, <1>1 DEF JobTrue, DeviceJob, Authorizing
<1>3. r \in RowSet /\ device' = [device EXCEPT ![d] = r]
  <2>1. device[d] \in RowSet /\ "authorized" \in Statuses
    BY <1>0, <1>2 DEF DeviceType, Statuses
  <2>2. r \in RowSet
    BY <1>2, <2>1 DEF RowSet
  <2>3. QED
    BY <1>0, <1>1, <1>2, <2>2 DEF DeviceType
<1>4. /\ r.status = "authorized" /\ r.user = w
      /\ r.expires = device[d].expires /\ (r.consumed <=> device[d].consumed)
  BY <1>0, <1>2 DEF DeviceType, RowSet
<1>5. bound' \in [Devices -> SUBSET Users] /\ (\A x \in Devices : bound[x] \subseteq bound'[x])
      /\ w \in bound'[d]
  <2>1. bound[d] \cup {w} \in SUBSET Users
    BY <1>0, <1>2 DEF DeviceType
  <2>2. QED
    BY <1>0, <1>1, <1>2, <2>1 DEF DeviceType
<1>6. pc' \in [Handlers -> Labels] /\ job' \in [Handlers -> JobSet] /\ pc'[t] = "idle" /\ Moves(t)
  BY <1>0, <1>1, ReturnStep
<1>7. ThreadType'
  BY <1>0, <1>1, <1>6 DEF ThreadType
<1> HIDE DEF r
<1>8. IInv'
  <2>1. r \in RowSet /\ r.status # "absent" /\ pc[t] # "consume"
    BY <1>1, <1>3, <1>4
  <2>2. JobTrue(t)' /\ \A u \in Handlers \ {t} : Alone(t, u)'
    BY <1>6, IdleTrue, NotInside
  <2>3. QED
    BY <1>1, <1>2, <1>3, <1>4, <1>5, <1>6, <1>7, <2>1, <2>2, RowKeeps, ZenonT(40)
<1>9. QED
  BY <1>0, <1>3, <1>4, <1>8 DEF DeviceType

-----------------------------------------------------------------------------
(* The clock, the crash, and the start.                                    *)

\* What has expired stays expired.
LEMMA TickKeeps ==
  ASSUME IInv, Tick
  PROVE  IInv'
<1>0. InviteType /\ ThreadType /\ DeviceType
  BY TypeParts DEF IInv
<1>1. now' = now + 1 /\ UNCHANGED <<inviteVars, threadVars, overlapped, device, minted, bound>>
  BY DEF Tick
<1>2. Growing
  BY <1>0, <1>1 DEF Growing, ThreadType, inviteVars
<1>3. \A u \in Handlers : Stays(u)
  BY <1>1 DEF Stays, inviteVars, threadVars
<1>4. InvitesTrue' /\ SingleUse' /\ GrantsFromInvites' /\ InviteType'
  BY <1>1, InvitesSame
<1>5. DevicesTrue' /\ OneToken' /\ TokenForAuthorizer' /\ DeviceType'
  BY <1>1, DevicesSame DEF threadVars
<1>6. ThreadType'
  BY <1>0, <1>1 DEF ThreadType, threadVars
<1>7. TypeOK'
  BY <1>4, <1>5, <1>6 DEF TypeOK, InviteType, ThreadType, DeviceType, JobSet, RowSet
<1>8. QED
  BY <1>1, <1>2, <1>3, <1>4, <1>5, <1>7, TablesKeep DEF threadVars

\* A crash between a token and its mark is noted, and it ends every call.
LEMMA CrashKeeps ==
  ASSUME IInv, Crash
  PROVE  IInv'
<1>0. InviteType /\ ThreadType /\ DeviceType
  BY TypeParts DEF IInv
<1>1. /\ pc' = [t \in Handlers |-> "idle"] /\ job' = [t \in Handlers |-> NoJob]
      /\ overlapped' = overlapped
           \cup {d \in Devices : \E t \in Handlers : pc[t] = "consume" /\ job[t].device = d}
      /\ UNCHANGED <<inviteVars, calls, now, device, minted, bound>>
  BY DEF Crash
<1>2. \A t \in Handlers : pc'[t] = "idle" /\ JobTrue(t)'
  BY <1>1, IdleTrue
<1>3. \A t, u \in Handlers : Alone(t, u)'
  BY <1>2, NotInside
<1>4. InvitesTrue' /\ SingleUse' /\ GrantsFromInvites' /\ InviteType'
  BY <1>1, InvitesSame
<1>5. \A t \in Handlers : pc[t] = "consume" => job[t].device \in overlapped'
  BY <1>1 DEF IInv, JobTrue, DeviceJob, Authorizing
<1>6. DevicesTrue' /\ OneToken' /\ TokenForAuthorizer' /\ DeviceType'
  BY <1>1, <1>5, DevicesSame
<1>7. ThreadType'
  BY <1>0, <1>1, NoJobType DEF ThreadType, Labels
<1>8. TypeOK'
  BY <1>4, <1>6, <1>7 DEF TypeOK, InviteType, ThreadType, DeviceType, JobSet, RowSet
<1>9. QED
  BY <1>2, <1>3, <1>4, <1>6, <1>8 DEF IInv

\* No thread has done anything, and no table holds anything.
LEMMA InitInv == Init => IInv
<1> SUFFICES ASSUME Init PROVE IInv
  OBVIOUS
<1>1. InviteType
  <2>1. 0 \in 0..ManyUses /\ <<>> \in Seq(Users)
    BY InviteAssumption
  <2>2. QED
    BY <2>1, InviteAssumption DEF Init, InviteInit, InviteType
<1>2. ThreadType
  BY NoJobType DEF Init, InviteInit, ThreadType, Labels
<1>3. DeviceType
  <2>1. NoDevice \in RowSet /\ NoDevice.status = "absent"
    BY DEF NoDevice, RowSet, Statuses
  <2>2. QED
    BY <2>1 DEF Init, DeviceType
<1>4. \A t \in Handlers : JobTrue(t)
  BY DEF Init, InviteInit, JobTrue, AcceptJob, UseJob, DeviceJob, Accepting, Authorizing
<1>5. \A t, u \in Handlers : Alone(t, u)
  BY DEF Init, InviteInit, Alone, Minting
<1>6. InvitesTrue /\ SingleUse /\ GrantsFromInvites
  <2>1. SingleUse
    BY InviteAssumption DEF Init, InviteInit, SingleUse
  <2>2. QED
    BY <2>1 DEF Init, InviteInit, InvitesTrue, GrantsFromInvites
<1>7. DevicesTrue /\ OneToken /\ TokenForAuthorizer
  <2>1. \A d \in Devices : device[d] = NoDevice /\ minted[d] = <<>>
    BY DEF Init
  <2>2. NoDevice.status = "absent" /\ NoDevice.consumed = FALSE /\ Seen(<<>>) = {}
    BY EmptySeen DEF NoDevice
  <2>3. \A d \in Devices : Mints(d) = {}
    BY <2>1, <2>2 DEF Mints, Seen
  <2>4. QED
    BY <2>1, <2>2, <2>3 DEF DevicesTrue, OneToken, TokenForAuthorizer
<1>8. QED
  BY <1>1, <1>2, <1>3, <1>4, <1>5, <1>6, <1>7, TypeParts DEF IInv
-----------------------------------------------------------------------------
(* Every step, and the theorems.                                           *)

\* Every step of every thread, the clock and the crash keep the invariant.
LEMMA NextKeeps == IInv /\ [Next]_vars => IInv'
<1> SUFFICES ASSUME IInv, [Next]_vars PROVE IInv'
  OBVIOUS
<1>1. ASSUME NEW t \in Handlers, DeviceStep(t) PROVE IInv'
  <2>1. CASE StartDevice(t)
    BY <2>1, StartDeviceKeeps
  <2>2. CASE Poll(t)
    BY <2>2, PollKeeps
  <2>3. CASE ExpirePoll(t)
    BY <2>3, ExpirePollKeeps
  <2>4. CASE StampPoll(t)
    BY <2>4, StampPollKeeps
  <2>5. CASE MintToken(t)
    BY <2>5, MintTokenKeeps
  <2>6. CASE ConsumeDevice(t)
    BY <2>6, ConsumeDeviceKeeps
  <2>7. CASE StartAuthorize(t)
    BY <2>7, StartAuthorizeKeeps
  <2>8. CASE BumpFailed(t)
    BY <2>8, BumpFailedKeeps
  <2>9. CASE LockDevice(t)
    BY <2>9, LockDeviceKeeps
  <2>10. CASE BindDevice(t)
    BY <2>10, BindDeviceKeeps
  <2>11. QED
    BY <1>1, <2>1, <2>2, <2>3, <2>4, <2>5, <2>6, <2>7, <2>8, <2>9, <2>10 DEF DeviceStep
<1>2. ASSUME NEW t \in Handlers, InviteStep(t), UNCHANGED <<device, minted, bound>> PROVE IInv'
  <2>1. CASE CreateInvite(t)
    BY <1>2, <2>1, CreateInviteKeeps
  <2>2. CASE RevokeInvite(t)
    BY <1>2, <2>2, RevokeInviteKeeps
  <2>3. CASE StartAccept(t)
    BY <1>2, <2>3, StartAcceptKeeps
  <2>4. CASE ResolveInvite(t)
    BY <1>2, <2>4, ResolveInviteKeeps
  <2>5. CASE ConsumeUse(t)
    BY <1>2, <2>5, ConsumeUseKeeps
  <2>6. CASE ReadGrant(t)
    BY <1>2, <2>6, ReadGrantKeeps
  <2>7. CASE UpsertGrant(t)
    BY <1>2, <2>7, UpsertGrantKeeps
  <2>8. QED
    BY <1>2, <2>1, <2>2, <2>3, <2>4, <2>5, <2>6, <2>7 DEF InviteStep
<1>3. CASE Tick
  BY <1>3, TickKeeps
<1>4. CASE Crash
  BY <1>4, CrashKeeps
<1>5. CASE UNCHANGED vars
  <2>1. UNCHANGED <<inviteVars, now, overlapped, pc, job, calls, device, minted, bound>>
    BY <1>5 DEF vars, threadVars
  <2>2. InvitesTrue' /\ SingleUse' /\ GrantsFromInvites' /\ InviteType'
    BY <2>1, InvitesSame
  <2>3. DevicesTrue' /\ OneToken' /\ TokenForAuthorizer' /\ DeviceType'
    BY <2>1, DevicesSame
  <2>4. ThreadType /\ ThreadType'
    BY <2>1, TypeParts DEF IInv, ThreadType
  <2>5. TypeOK' /\ Growing /\ \A u \in Handlers : Stays(u)
    BY <2>1, <2>2, <2>3, <2>4 DEF TypeOK, InviteType, ThreadType, DeviceType, JobSet, RowSet,
       Growing, Stays, inviteVars
  <2>6. QED
    BY <2>1, <2>2, <2>3, <2>5, TablesKeep
<1>6. QED
  BY <1>1, <1>2, <1>3, <1>4, <1>5 DEF Next

\* The inductive invariant: what each call under way has read is still enough
\* for what it will write, and two calls are inside of one thing at once only
\* if it is noted as overlapped.
THEOREM DeviceFlowInvariance == Spec => []IInv
<1>1. QED
  BY InitInv, NextKeeps, PTL DEF Spec

\* Rows, calls and histories have their types; an authorized row has its user.
THEOREM DeviceFlowTypes == Spec => []TypeOK
<1>1. IInv => TypeOK
  BY DEF IInv
<1>2. QED
  BY <1>1, DeviceFlowInvariance, PTL

\* accept_invite consumes a single-use invite once, unless two acceptances had
\* both read it as unused.
THEOREM InvitesServeOnce == Spec => []SingleUse
<1>1. IInv => SingleUse
  BY DEF IInv
<1>2. QED
  BY <1>1, DeviceFlowInvariance, PTL

\* accept_invite: whoever has another level than at the start has consumed an
\* invite of that level.
THEOREM GrantsComeFromInvites == Spec => []GrantsFromInvites
<1>1. IInv => GrantsFromInvites
  BY DEF IInv
<1>2. QED
  BY <1>1, DeviceFlowInvariance, PTL

\* poll mints one token through a device, unless two polls had both read it as
\* not consumed or the process stopped between the token and the mark.
THEOREM DevicesMintOnce == Spec => []OneToken
<1>1. IInv => OneToken
  BY DEF IInv
<1>2. QED
  BY <1>1, DeviceFlowInvariance, PTL

\* poll mints only for a user who authorized the device, and marks a device
\* only when it has a token.
THEOREM TokensForAuthorizers == Spec => []TokenForAuthorizer
<1>1. IInv => TokenForAuthorizer
  BY DEF IInv
<1>2. QED
  BY <1>1, DeviceFlowInvariance, PTL

Keeps == \A d \in Devices :
           device[d].status = "authorized" /\ ~Expired(d) => device'[d].status = "authorized"

\* Only a poll and a lock that have read the device expired take it back.
LEMMA StepKeepsAuthorized == IInv /\ [Next]_vars => Keeps
<1> SUFFICES ASSUME IInv, [Next]_vars PROVE Keeps
  OBVIOUS
<1>1. ASSUME NEW t \in Handlers, DeviceStep(t) PROVE Keeps
  <2>1. CASE StartDevice(t)
    <3>1. PICK d \in Devices :
            device[d].status = "absent" /\ \E r : device' = [device EXCEPT ![d] = r]
      BY <2>1 DEF StartDevice
    <3>2. QED
      BY <3>1, TypeParts DEF IInv, DeviceType, Keeps
  <2>2. CASE Poll(t)
    BY <2>2 DEF Poll, Keeps
  <2>3. CASE ExpirePoll(t)
    BY <2>3, ExpirePollKeeps DEF Keeps
  <2>4. CASE StampPoll(t)
    BY <2>4, StampPollKeeps DEF Keeps
  <2>5. CASE MintToken(t)
    BY <2>5 DEF MintToken, Keeps
  <2>6. CASE ConsumeDevice(t)
    BY <2>6, ConsumeDeviceKeeps DEF Keeps
  <2>7. CASE StartAuthorize(t)
    BY <2>7 DEF StartAuthorize, Keeps
  <2>8. CASE BumpFailed(t)
    BY <2>8, BumpFailedKeeps DEF Keeps
  <2>9. CASE LockDevice(t)
    BY <2>9, LockDeviceKeeps DEF Keeps
  <2>10. CASE BindDevice(t)
    BY <2>10, BindDeviceKeeps DEF Keeps
  <2>11. QED
    BY <1>1, <2>1, <2>2, <2>3, <2>4, <2>5, <2>6, <2>7, <2>8, <2>9, <2>10 DEF DeviceStep
<1>2. CASE UNCHANGED device
  BY <1>2 DEF Keeps
<1>3. QED
  BY <1>1, <1>2 DEF Next, Tick, Crash, vars

\* poll and _bump_and_maybe_lock: an authorization holds until its time is up,
\* whatever was under way when it was given.
THEOREM AuthorizationsHold == Spec => AuthorizationKept
<1>1. IInv /\ [Next]_vars =>
        [\A d \in Devices :
           device[d].status = "authorized" /\ ~Expired(d) => device'[d].status = "authorized"]_vars
  BY StepKeepsAuthorized DEF Keeps
<1>2. QED
  BY <1>1, DeviceFlowInvariance, PTL DEF Spec, AuthorizationKept

\* Only an acceptance writes grants, and it has read a lower one.
LEMMA StepLowersNone ==
  IInv /\ [Next]_vars => [\A u \in Users \ overlapped : grants'[u] >= grants[u]]_grants
<1> SUFFICES ASSUME IInv, [Next]_vars, grants' # grants
             PROVE  \A u \in Users \ overlapped : grants'[u] >= grants[u]
  OBVIOUS
<1>0. InviteType
  BY TypeParts DEF IInv
<1>1. PICK t \in Handlers : UpsertGrant(t)
  BY DEF Next, DeviceStep, InviteStep, Tick, Crash, vars, inviteVars, invitesOnly, StartDevice, Poll,
     ExpirePoll, StampPoll, MintToken, ConsumeDevice, StartAuthorize, BumpFailed, LockDevice,
     BindDevice, CreateInvite, RevokeInvite, StartAccept, ResolveInvite, ConsumeUse, ReadGrant
<1>2. /\ grants' = [grants EXCEPT ![job[t].user] = Level[job[t].invite]] /\ pc[t] = "upsert"
      /\ job[t].invite \in Invites
      /\ job[t].user \notin overlapped => grants[job[t].user] < Level[job[t].invite]
  BY <1>1 DEF UpsertGrant, IInv, JobTrue, AcceptJob, UseJob, Accepting
<1>3. ASSUME NEW u \in Users \ overlapped PROVE grants'[u] >= grants[u]
  <2>1. grants[u] \in 0..2 /\ Level[job[t].invite] \in 1..2
    BY <1>0, <1>2, InviteAssumption DEF InviteType, Levels
  <2>2. CASE u = job[t].user
    BY <1>0, <1>2, <2>1, <2>2 DEF InviteType
  <2>3. CASE u # job[t].user
    BY <1>0, <1>2, <2>1, <2>3 DEF InviteType
  <2>4. QED
    BY <2>2, <2>3
<1>4. QED
  BY <1>3

\* accept_invite: no acceptance lowers a grant, unless two by one user had
\* both read it.
THEOREM GrantsNeverFall == Spec => NoDowngrade
<1>1. IInv /\ [Next]_vars => [\A u \in Users \ overlapped : grants'[u] >= grants[u]]_grants
  BY StepLowersNone
<1>2. QED
  BY <1>1, DeviceFlowInvariance, PTL DEF Spec, NoDowngrade
=============================================================================
