-------------------------------- MODULE Pool --------------------------------
(***************************************************************************)
(* What the parts of the hosted process share: a clock, and a pool of      *)
(* threads on which its handlers run, a statement at a time.  Modules      *)
(* SlidingWindow and Presence say what their handlers do on a thread;      *)
(* module WebProcess puts the requests in front of them.                   *)
(***************************************************************************)
EXTENDS Naturals, Sequences, FiniteSets

CONSTANTS
    Handlers,   \* threads of the pool
    Nobody,     \* no caller, no host, no document
    MaxTime     \* bound: the clock stops there

ASSUME PoolAssumption == MaxTime \in Nat \ {0}

VARIABLES
    now,
    calls,   \* requests, changes and stops so far
    pc,      \* pc[t]: the next step of thread t
    job      \* job[t]: what t's handler was called with and what it has read

poolVars == <<now, calls, pc, job>>

NoJob == [who |-> Nobody, doc |-> Nobody, host |-> Nobody, at |-> 0, stale |-> {}, lost |-> FALSE]

PoolInit ==
    /\ now = 1 /\ calls = 0
    /\ pc = [t \in Handlers |-> "idle"]
    /\ job = [t \in Handlers |-> NoJob]

Goto(t, label) == pc' = [pc EXCEPT ![t] = label]

Begin(t, label, j) == pc[t] = "idle" /\ Goto(t, label) /\ job' = [job EXCEPT ![t] = j]

\* A thread's step; the clock and the number of calls stay.
At(t, label) == pc[t] = label /\ UNCHANGED <<now, calls>>
Return(t) == Goto(t, "idle") /\ job' = [job EXCEPT ![t] = NoJob]
=============================================================================
