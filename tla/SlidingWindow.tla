--------------------------- MODULE SlidingWindow ----------------------------
(***************************************************************************)
(* The limiter of device codes and confirmations (SlidingWindowRateLimiter *)
(* in web/device_routes.py): the times of the hits of each host within the *)
(* last Window seconds.  Unlike the token buckets it runs on the pool's    *)
(* threads, and nothing locks its dict and its deques.                     *)
(***************************************************************************)
EXTENDS Pool

CONSTANTS
    Hosts,       \* keys: client addresses
    Limit,       \* hits a host may have in a window
    Window,      \* seconds
    PruneEvery   \* checks between two collections of stale keys

ASSUME WindowAssumption ==
    Limit \in Nat \ {0} /\ Window \in Nat /\ PruneEvery \in Nat \ {0}

VARIABLES
    known,       \* keys of the dict
    hits,        \* hits[h]: h's deque, oldest first
    sincePrune,  \* checks since the last collection
    \* history
    passes,      \* passes[h]: when h was let through
    raced        \* hosts with two checks at once, or whose deque went with a hit

windowVars == <<known, hits, sincePrune, passes, raced>>

WindowInit ==
    /\ known = {} /\ hits = [h \in Hosts |-> <<>>]
    /\ sincePrune = 0
    /\ passes = [h \in Hosts |-> <<>>]
    /\ raced = {}

-----------------------------------------------------------------------------
Checking == {"look", "pop", "decide", "hit"}
In(h) == {t \in Handlers : pc[t] \in Checking /\ job[t].host = h}

\* POST /api/auth/device-start and POST /device/confirm
StartWindow(t, h) ==
    /\ sincePrune' = sincePrune + 1
    /\ Begin(t, IF sincePrune' >= PruneEvery THEN "findStale" ELSE "queue",
             [NoJob EXCEPT !.host = h])
    /\ UNCHANGED <<known, hits, passes, raced>>

Stale(h) == hits[h] = <<>> \/ now - hits[h][Len(hits[h])] > Window

FindStale(t) ==
    /\ At(t, "findStale")
    /\ job' = [job EXCEPT ![t].stale = {h \in known : Stale(h)}]
    /\ Goto(t, "dropStale")
    /\ UNCHANGED windowVars

\* A key that another check adds while the dict is walked ends the request.
FindStaleRaises(t) ==
    /\ At(t, "findStale")
    /\ \E u \in Handlers \ {t} : pc[u] = "look"
    /\ Return(t)
    /\ UNCHANGED windowVars

\* A key that another collection has taken ends the request, and the count is
\* not reset.  Who has a collected deque in hand goes on with it; and a deque
\* that was stale when it was looked at may not be any more.
DropStale(t) ==
    LET there == job[t].stale \cap known
        raises == there # job[t].stale
    IN
    /\ At(t, "dropStale")
    /\ \E gone \in IF raises THEN SUBSET there ELSE {there} :
           /\ known' = known \ gone
           /\ hits' = [h \in Hosts |-> IF h \in gone THEN <<>> ELSE hits[h]]
           /\ raced' = raced \cup {h \in gone : In(h) # {} \/ ~Stale(h)}
           /\ job' = [u \in Handlers |->
                        IF u = t /\ raises THEN NoJob
                        ELSE IF \E h \in gone : u \in In(h) THEN [job[u] EXCEPT !.lost = TRUE]
                        ELSE job[u]]
    /\ Goto(t, IF raises THEN "idle" ELSE "queue")
    /\ sincePrune' = IF raises THEN sincePrune ELSE 0
    /\ UNCHANGED passes

\* The time, and the deque, which is there from now on.
Queue(t) ==
    LET h == job[t].host IN
    /\ At(t, "queue")
    /\ job' = [job EXCEPT ![t].at = now]
    /\ known' = known \cup {h}
    /\ raced' = IF In(h) = {} THEN raced ELSE raced \cup {h}
    /\ Goto(t, "look")
    /\ UNCHANGED <<hits, sincePrune, passes>>

\* Seeded fault: a hit exactly one window old is dropped.
LookEarly(t) ==
    LET q == hits[job[t].host] IN
    /\ At(t, "look")
    /\ Goto(t, IF ~job[t].lost /\ q # <<>> /\ job[t].at - Head(q) >= Window
               THEN "pop" ELSE "decide")
    /\ UNCHANGED <<job, windowVars>>

\* The hits in a collected deque are all too old.
Look(t) ==
    LET q == hits[job[t].host] IN
    /\ At(t, "look")
    /\ Goto(t, IF ~job[t].lost /\ q # <<>> /\ job[t].at - Head(q) > Window
               THEN "pop" ELSE "decide")
    /\ UNCHANGED <<job, windowVars>>

\* popleft of whatever is first by now; of an empty deque it raises.
Pop(t) ==
    LET h == job[t].host IN
    /\ At(t, "pop")
    /\ \/ job[t].lost /\ Goto(t, "decide") /\ UNCHANGED <<job, hits>>
       \/ /\ ~job[t].lost /\ hits[h] # <<>>
          /\ hits' = [hits EXCEPT ![h] = Tail(@)]
          /\ Goto(t, "look") /\ UNCHANGED job
       \/ ~job[t].lost /\ hits[h] = <<>> /\ Return(t) /\ UNCHANGED hits
    /\ UNCHANGED <<known, sincePrune, passes, raced>>

Decide(t) ==
    /\ At(t, "decide")
    /\ IF ~job[t].lost /\ Len(hits[job[t].host]) >= Limit
       THEN Return(t) ELSE Goto(t, "hit") /\ UNCHANGED job
    /\ UNCHANGED windowVars

Hit(t) ==
    LET h == job[t].host IN
    /\ At(t, "hit")
    /\ hits' = IF job[t].lost THEN hits ELSE [hits EXCEPT ![h] = Append(@, job[t].at)]
    /\ passes' = [passes EXCEPT ![h] = Append(@, job[t].at)]
    /\ Return(t)
    /\ UNCHANGED <<known, sincePrune, raced>>

\* The deques live in the process.
WindowStop == known' = {} /\ hits' = [h \in Hosts |-> <<>>] /\ sincePrune' = 0
              /\ passes' = [h \in Hosts |-> <<>>] /\ raced' = {}

WindowStep(t) ==
    FindStale(t) \/ FindStaleRaises(t) \/ DropStale(t) \/ Queue(t) \/ Look(t) \/ Pop(t)
      \/ Decide(t) \/ Hit(t)

-----------------------------------------------------------------------------
WindowLabels == Checking \cup {"findStale", "dropStale", "queue"}

WindowTypeOK ==
    /\ known \subseteq Hosts /\ hits \in [Hosts -> Seq(1..now)]
    /\ sincePrune \in Nat
    /\ passes \in [Hosts -> Seq(1..now)] /\ raced \subseteq Hosts

\* SlidingWindowRateLimiter.check: within any window a host is let through at
\* most Limit times, also across collections, unless two of its checks ran at
\* once, or its deque was collected in the middle of one or with a hit in it
\* that the collection had not seen.
WindowKept ==
    \A h \in Hosts \ raced : \A x \in 1..MaxTime :
        Cardinality({i \in DOMAIN passes[h] : passes[h][i] \in x..x + Window}) <= Limit
=============================================================================
