----------------------------- MODULE WebProcess -----------------------------
(***************************************************************************)
(* The hosted process (web/app.py): every request passes the token bucket  *)
(* of its caller and is then one for a device code, which the sliding      *)
(* window of the host counts, a heartbeat, a page of a listing, or one of  *)
(* the rest.  The process may stop at any time and start again; what its   *)
(* memory held is gone, and what the database holds is not.                *)
(***************************************************************************)
EXTENDS RateLimiter, SlidingWindow, Presence, Pages

CONSTANTS
    HostOf,   \* HostOf[k]: the address k's requests come from
    MaxCalls  \* bound: MaxCalls[mix]: requests, changes and stops in a behaviour
              \* whose requests and background work are of the kinds in mix

ASSUME WebAssumption ==
    /\ Principals \subseteq Callers /\ HostOf \in [Callers -> Hosts]
    /\ \A kinds \in DOMAIN MaxCalls : MaxCalls[kinds] \in Nat

VARIABLE mix   \* the kinds of request of this behaviour

vars == <<mix, poolVars, limiterVars, windowVars, presenceVars, pagesVars>>

Init ==
    /\ PoolInit /\ LimiterInit /\ WindowInit /\ PresenceInit /\ PagesInit
    /\ mix \in DOMAIN MaxCalls

-----------------------------------------------------------------------------
Up == sweeper # "stopped"

Call == calls < MaxCalls[mix] /\ calls' = calls + 1

\* RateLimitMiddleware.dispatch
Request(k) == Up /\ Call /\ Charge(k) /\ UNCHANGED <<now, mix>>
Admitted(k) == Admits(k) /\ Request(k)

Refuse(k) ==
    /\ ~Admits(k) /\ Request(k)
    /\ UNCHANGED <<pc, job, windowVars, presenceVars, pagesVars>>

Browse(k) ==
    /\ Admitted(k)
    /\ UNCHANGED <<pc, job, windowVars, presenceVars, pagesVars>>

AskCode(k) ==
    /\ "code" \in mix /\ Admitted(k) /\ \E t \in Handlers : StartWindow(t, HostOf[k])
    /\ UNCHANGED <<presenceVars, pagesVars>>

Beat(k) ==
    /\ "presence" \in mix /\ Admitted(k) /\ k \in Principals /\ \E t \in Handlers : StartBeat(t, k)
    /\ UNCHANGED <<windowVars, pagesVars>>

Clear(k) ==
    /\ "presence" \in mix /\ Admitted(k) /\ k \in Principals /\ \E t \in Handlers : StartClear(t, k)
    /\ UNCHANGED <<windowVars, pagesVars>>

GetPage(k) ==
    /\ "page" \in mix /\ Admitted(k) /\ (FirstPage \/ NextPage)
    /\ UNCHANGED <<pc, job, windowVars, presenceVars>>

\* What requests that are not modelled here, and other processes, change.
Change ==
    /\ Call /\ UNCHANGED <<mix, now, pc, job, limiterVars, windowVars>>
    /\ \/ "presence" \in mix /\ (\E d \in Documents : RemoveDocument(d)) /\ UNCHANGED pagesVars
       \/ RowChange /\ UNCHANGED presenceVars

Step(t) ==
    \/ WindowStep(t) /\ UNCHANGED <<mix, limiterVars, presenceVars, pagesVars>>
    \/ PresenceStep(t) /\ UNCHANGED <<mix, limiterVars, windowVars, pagesVars>>

Sweep == SweepBegin \/ SweepDelete \/ SweepWake

Sweeping ==
    /\ "presence" \in mix /\ Sweep
    /\ UNCHANGED <<mix, poolVars, limiterVars, windowVars, pagesVars>>

SweepError ==
    /\ Call /\ SweepFails
    /\ UNCHANGED <<mix, now, pc, job, limiterVars, windowVars, pagesVars>>

\* The lifespan ends, or the process is killed.
Stop ==
    /\ Up /\ Call
    /\ pc' = [t \in Handlers |-> "idle"] /\ job' = [t \in Handlers |-> NoJob]
    /\ LimiterStop /\ WindowStop /\ SweepStop
    /\ UNCHANGED <<mix, now, pagesVars>>

Startup ==
    /\ ~Up /\ SweepStart
    /\ UNCHANGED <<mix, poolVars, limiterVars, windowVars, pagesVars>>

Tick ==
    /\ now < MaxTime /\ now' = now + 1
    /\ UNCHANGED <<mix, calls, pc, job, limiterVars, windowVars, presenceVars, pagesVars>>

Next ==
    \/ \E k \in Callers : \/ Refuse(k) \/ Browse(k) \/ AskCode(k)
                          \/ Beat(k) \/ Clear(k) \/ GetPage(k)
    \/ \E t \in Handlers : Step(t)
    \/ Change \/ Sweeping \/ SweepError \/ Stop \/ Startup \/ Tick

\* The loop of presence_gc goes on while the process runs: its calls return,
\* and its sleeps end.
Spec == Init /\ [][Next]_vars /\ WF_vars(Sweeping)

-----------------------------------------------------------------------------
\* Types, and: the buckets are never more than max_keys.
TypeOK ==
    /\ now \in 1..MaxTime /\ calls \in 0..MaxCalls[mix]
    /\ pc \in [Handlers -> {"idle"} \cup WindowLabels \cup PresenceLabels]
    /\ job \in [Handlers -> [who : Principals \cup {Nobody}, doc : Documents \cup {Nobody},
                             host : Hosts \cup {Nobody}, at : 0..MaxTime,
                             stale : SUBSET Hosts, lost : BOOLEAN]]
    /\ LimiterTypeOK /\ WindowTypeOK /\ PresenceTypeOK /\ PagesTypeOK
=============================================================================
