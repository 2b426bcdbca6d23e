----------------------------- MODULE DeviceFlow -----------------------------
(***************************************************************************)
(* The device-authorization flow (service/device_flow.py): a CLI starts it *)
(* and polls, a signed-in user authorizes the code in a browser, and one   *)
(* poll mints the user's token.  Polls, authorizations and invite          *)
(* acceptances run on pool threads; the process may stop between any two   *)
(* statements, and then its callers retry.                                 *)
(***************************************************************************)
EXTENDS Invites

CONSTANTS
    Devices,       \* rows of device_authorizations
    CarriedBy,     \* CarriedBy[d]: the invite the CLI started d with, or Nobody
    CodeTTL,       \* DEVICE_CODE_TTL_SECONDS
    Window,        \* SLOW_DOWN_WINDOW_SECONDS
    MaxFailed      \* MAX_FAILED_CONFIRMS

ASSUME DeviceAssumption ==
    /\ CarriedBy \in [Devices -> Invites \cup {Nobody}]
    /\ CodeTTL \in Nat /\ Window \in Nat /\ MaxFailed \in Nat
    /\ Nobody \notin Devices

VARIABLES
    device,    \* device[d]: the row of d
    minted,    \* minted[d]: the users tokens were minted for through d, in order
    bound      \* bound[d]: the users an authorization has bound d to

vars == <<inviteVars, threadVars, now, overlapped, device, minted, bound>>
invitesOnly == <<inviteVars, now, overlapped>>

NoDevice == [status |-> "absent", user |-> Nobody, expires |-> 0, polled |-> 0,
             consumed |-> FALSE, failed |-> 0]

Init ==
    /\ InviteInit
    /\ device = [d \in Devices |-> NoDevice]
    /\ minted = [d \in Devices |-> <<>>]
    /\ bound = [d \in Devices |-> {}]

Expired(d) == now >= device[d].expires
SetStatus(d, status) == device' = [device EXCEPT ![d].status = status]

-----------------------------------------------------------------------------
\* POST /api/auth/device-start
StartDevice(t) ==
    \E d \in Devices :
        /\ pc[t] = "idle" /\ calls < MaxCalls /\ calls' = calls + 1
        /\ device[d].status = "absent"
        /\ device' = [device EXCEPT ![d] =
                        [NoDevice EXCEPT !.status = "pending", !.expires = now + CodeTTL]]
        /\ UNCHANGED <<invitesOnly, pc, job, minted, bound>>

\* What a poll decides from the row it reads, in the order of the code.  The
\* defensive outcomes (no such row, no user, denied) have no reachable state.
PollOutcome(r) ==
    CASE r.polled > 0 /\ now - r.polled < Window -> "slow_down"
      [] r.consumed -> "used"
      [] now >= r.expires -> IF r.status = "expired" THEN "expired" ELSE "expire"
      [] r.status = "expired" -> "expired"
      [] r.status = "pending" -> "stamp"
      [] OTHER -> "mint"

MidMint(d, t) == \E u \in Inside(t, {"mint", "consume"}) : job[u].device = d

\* POST /api/auth/device-poll
Poll(t) ==
    \E d \in Devices :
        LET r == device[d]
            outcome == PollOutcome(r)
        IN
        /\ r.status # "absent"
        /\ \/ /\ outcome \in {"slow_down", "used", "expired"}
              /\ pc[t] = "idle" /\ calls < MaxCalls /\ calls' = calls + 1
              /\ UNCHANGED <<pc, job, overlapped>>
           \/ /\ outcome \in {"expire", "stamp", "mint"}
              /\ Call(t, outcome, [NoJob EXCEPT !.op = "poll", !.device = d, !.user = r.user])
              /\ overlapped' = overlapped
                    \cup (IF outcome = "mint" /\ MidMint(d, t) THEN {d} ELSE {})
        /\ UNCHANGED <<inviteVars, now, device, minted, bound>>

ExpirePoll(t) ==
    /\ pc[t] = "expire"
    /\ SetStatus(job[t].device, "expired")
    /\ Return(t)
    /\ UNCHANGED <<invitesOnly, calls, minted, bound>>

StampPoll(t) ==
    /\ pc[t] = "stamp"
    /\ device' = [device EXCEPT ![job[t].device].polled = now]
    /\ Return(t)
    /\ UNCHANGED <<invitesOnly, calls, minted, bound>>

\* Seeded fault: a token that could not be written is passed over.
MintTokenMaybe(t) ==
    /\ pc[t] = "mint"
    /\ \/ minted' = [minted EXCEPT ![job[t].device] = Append(@, job[t].user)]
       \/ UNCHANGED minted
    /\ Goto(t, "consume")
    /\ UNCHANGED <<invitesOnly, calls, job, device, bound>>

\* create_user_token commits the token before the row says it is consumed.
MintToken(t) ==
    /\ pc[t] = "mint"
    /\ minted' = [minted EXCEPT ![job[t].device] = Append(@, job[t].user)]
    /\ Goto(t, "consume")
    /\ UNCHANGED <<invitesOnly, calls, job, device, bound>>

\* Seeded fault: the row is not marked.
ConsumeDeviceNever(t) ==
    /\ pc[t] = "consume"
    /\ device' = [device EXCEPT ![job[t].device].polled = now]
    /\ Return(t)
    /\ UNCHANGED <<invitesOnly, calls, minted, bound>>

ConsumeDevice(t) ==
    /\ pc[t] = "consume"
    /\ device' = [device EXCEPT ![job[t].device].polled = now, ![job[t].device].consumed = TRUE]
    /\ Return(t)
    /\ UNCHANGED <<invitesOnly, calls, minted, bound>>

-----------------------------------------------------------------------------
Open(r) == now < r.expires /\ r.status = "pending"

\* POST /api/auth/device-authorize, or the confirmation form
StartAuthorize(t) ==
    \E u \in Users, d \in Devices :
        LET r == device[d] IN
        /\ r.status # "absent"
        /\ Call(t, IF ~Open(r) THEN "bump" ELSE IF CarriedBy[d] # Nobody THEN "resolve" ELSE "bind",
                [NoJob EXCEPT !.op = "authorize", !.user = u, !.device = d,
                              !.invite = CarriedBy[d], !.status = r.status])
        /\ UNCHANGED <<invitesOnly, device, minted, bound>>

\* Seeded fault: the lock forgets the status and the clock.
BumpAndLock(t) ==
    LET d == job[t].device IN
    /\ pc[t] = "bump"
    /\ device' = [device EXCEPT ![d].failed = @ + 1]
    /\ IF device[d].failed + 1 >= MaxFailed THEN Goto(t, "lock") /\ UNCHANGED job ELSE Return(t)
    /\ UNCHANGED <<invitesOnly, calls, minted, bound>>

\* _bump_and_maybe_lock; the status is the one authorize has read.
BumpFailed(t) ==
    LET d == job[t].device IN
    /\ pc[t] = "bump"
    /\ device' = [device EXCEPT ![d].failed = @ + 1]
    /\ IF device[d].failed + 1 >= MaxFailed /\ job[t].status = "pending"
       THEN Goto(t, "lock") /\ UNCHANGED job
       ELSE Return(t)
    /\ UNCHANGED <<invitesOnly, calls, minted, bound>>

LockDevice(t) ==
    /\ pc[t] = "lock"
    /\ SetStatus(job[t].device, "expired")
    /\ Return(t)
    /\ UNCHANGED <<invitesOnly, calls, minted, bound>>

\* Seeded fault: the user is left out of the row's update.
BindDeviceTo(t) ==
    LET d == job[t].device IN
    /\ pc[t] = "bind"
    /\ device' = [device EXCEPT ![d].status = "authorized"]
    /\ bound' = [bound EXCEPT ![d] = @ \cup {job[t].user}]
    /\ Return(t)
    /\ UNCHANGED <<invitesOnly, calls, minted>>

BindDevice(t) ==
    LET d == job[t].device IN
    /\ pc[t] = "bind"
    /\ device' = [device EXCEPT ![d].status = "authorized", ![d].user = job[t].user]
    /\ bound' = [bound EXCEPT ![d] = @ \cup {job[t].user}]
    /\ Return(t)
    /\ UNCHANGED <<invitesOnly, calls, minted>>

-----------------------------------------------------------------------------
Tick ==
    /\ now < MaxTime
    /\ now' = now + 1
    /\ UNCHANGED <<inviteVars, threadVars, overlapped, device, minted, bound>>

\* The process stops and starts again: its calls are gone, its tables are not.
\* A device in the middle of a mint will be polled again.
Crash ==
    /\ pc' = [t \in Handlers |-> "idle"]
    /\ job' = [t \in Handlers |-> NoJob]
    /\ overlapped' = overlapped
         \cup {d \in Devices : \E t \in Handlers : pc[t] = "consume" /\ job[t].device = d}
    /\ UNCHANGED <<inviteVars, calls, now, device, minted, bound>>

DeviceStep(t) ==
    \/ StartDevice(t) \/ Poll(t) \/ ExpirePoll(t) \/ StampPoll(t)
    \/ MintToken(t) \/ ConsumeDevice(t)
    \/ StartAuthorize(t) \/ BumpFailed(t) \/ LockDevice(t) \/ BindDevice(t)

Next ==
    \/ \E t \in Handlers : DeviceStep(t)
    \/ \E t \in Handlers : InviteStep(t) /\ UNCHANGED <<device, minted, bound>>
    \/ Tick \/ Crash

Spec == Init /\ [][Next]_vars

-----------------------------------------------------------------------------
Labels == {"idle", "resolve", "use", "readGrant", "upsert", "expire", "stamp", "mint",
           "consume", "bump", "lock", "bind"}
Statuses == {"absent", "pending", "authorized", "expired"}

\* The variables have their types; an authorized row names its user.
TypeOK ==
    /\ uses \in [Invites -> 0..ManyUses]
    /\ created \subseteq Invites /\ revoked \subseteq created
    /\ grants \in [Users -> Levels]
    /\ now \in Nat /\ calls \in Nat
    /\ pc \in [Handlers -> Labels]
    /\ job \in [Handlers -> [op : {"none", "accept", "poll", "authorize"},
                             user : Users \cup {Nobody}, invite : Invites \cup {Nobody},
                             device : Devices \cup {Nobody}, remaining : 0..ManyUses,
                             status : Statuses \cup {"none"}]]
    /\ accepted \in [Invites -> Seq(Users)]
    /\ overlapped \subseteq Invites \cup Users \cup Devices
    /\ device \in [Devices -> [status : Statuses, user : Users \cup {Nobody}, expires : Nat,
                               polled : Nat, consumed : BOOLEAN, failed : Nat]]
    /\ \A d \in Devices : device[d].status = "authorized" => device[d].user \in Users
    /\ minted \in [Devices -> Seq(Users)]
    /\ bound \in [Devices -> SUBSET Users]

Mints(d) == {minted[d][n] : n \in DOMAIN minted[d]}

\* poll: one token is minted through a device, unless two polls had both read
\* the row as not consumed, or the process stopped between token and mark.
OneToken == \A d \in Devices \ overlapped : Len(minted[d]) <= 1

\* What device_flow.py says: "a single subsequent `poll` mints a user token".
OneTokenAlways == \A d \in Devices : Len(minted[d]) <= 1

\* poll and authorize: a token goes only to a user who authorized the device,
\* and a device is marked consumed only when there is a token to show for it.
TokenForAuthorizer ==
    \A d \in Devices :
        /\ Mints(d) \subseteq bound[d]
        /\ device[d].consumed => minted[d] # <<>>

\* _bump_and_maybe_lock and poll: until its time is up an authorized device
\* stays authorized, whatever authorizations and polls were under way.
AuthorizationKept ==
    [][\A d \in Devices :
         device[d].status = "authorized" /\ ~Expired(d) => device'[d].status = "authorized"]_vars
=============================================================================
