------------------------------ MODULE Presence ------------------------------
(***************************************************************************)
(* Who is at a document (service/presence.py, web/presence_api.py): rows   *)
(* that expire unless a heartbeat renews them, and a task of the event     *)
(* loop that sweeps the expired ones (web/presence_gc.py).  The sweep      *)
(* blocks the loop, not the pool's threads.  A row goes with its document. *)
(*                                                                         *)
(* As in module Invites each write is committed with its statement.        *)
(***************************************************************************)
EXTENDS Pool

CONSTANTS
    Principals,
    Documents,
    TTL          \* seconds a heartbeat lasts

ASSUME PresenceAssumption == TTL \in Nat \ {0}

VARIABLES
    there,      \* documents
    expires,    \* expires[d][p]: expires_at of p's row for d, 0 for no row
    sweeper,    \* the sweeping task
    sweptAt,    \* the time its DELETE goes by
    \* history
    promised,   \* promised[d][p]: the latest expires_at that p was answered
    crossed     \* pairs with two heartbeats at once

presenceVars == <<there, expires, sweeper, sweptAt, promised, crossed>>

Pairs == Documents \X Principals
NoRows == [d \in Documents |-> [p \in Principals |-> 0]]

PresenceInit ==
    /\ there = Documents
    /\ expires = NoRows /\ promised = NoRows
    /\ sweeper = "ready" /\ sweptAt = 0
    /\ crossed = {}

-----------------------------------------------------------------------------
\* POST /api/docs/{doc_id}/presence and markland_status, of somebody who sees
\* the document
StartBeat(t, p) ==
    /\ \E d \in Documents : Begin(t, "exists", [NoJob EXCEPT !.who = p, !.doc = d])
    /\ UNCHANGED presenceVars

\* The time is read when the document has been seen.
DocExists(t) ==
    LET d == job[t].doc
        twin == \E u \in Handlers \ {t} :
                    pc[u] = "upsert" /\ job[u].doc = d /\ job[u].who = job[t].who
    IN
    /\ At(t, "exists")
    /\ IF d \in there
       THEN /\ job' = [job EXCEPT ![t].at = now] /\ Goto(t, "upsert")
            /\ crossed' = IF twin THEN crossed \cup {<<d, job[t].who>>} ELSE crossed
       ELSE Return(t) /\ UNCHANGED crossed
    /\ UNCHANGED <<there, expires, sweeper, sweptAt, promised>>

\* Seeded fault: a row that is there already keeps its expiry.
WriteBeatOnce(t) ==
    LET d == job[t].doc
        p == job[t].who
    IN
    /\ At(t, "upsert")
    /\ IF d \in there
       THEN /\ expires' = [expires EXCEPT ![d][p] = IF @ > 0 THEN @ ELSE job[t].at + TTL]
            /\ promised' = [promised EXCEPT ![d][p] = job[t].at + TTL]
       ELSE UNCHANGED <<expires, promised>>
    /\ Return(t)
    /\ UNCHANGED <<there, sweeper, sweptAt, crossed>>

\* The foreign key rejects a row for a document that is gone by now.
WriteBeat(t) ==
    LET d == job[t].doc
        p == job[t].who
        until == job[t].at + TTL
    IN
    /\ At(t, "upsert")
    /\ IF d \in there
       THEN /\ expires' = [expires EXCEPT ![d][p] = until]
            /\ promised' = [promised EXCEPT ![d][p] = IF until > @ THEN until ELSE @]
       ELSE UNCHANGED <<expires, promised>>
    /\ Return(t)
    /\ UNCHANGED <<there, sweeper, sweptAt, crossed>>

StartClear(t, p) ==
    /\ \E d \in Documents : Begin(t, "clear", [NoJob EXCEPT !.who = p, !.doc = d])
    /\ UNCHANGED presenceVars

ClearRow(t) ==
    LET d == job[t].doc
        p == job[t].who
    IN
    /\ At(t, "clear")
    /\ expires' = [expires EXCEPT ![d][p] = 0] /\ promised' = [promised EXCEPT ![d][p] = 0]
    /\ Return(t)
    /\ UNCHANGED <<there, sweeper, sweptAt, crossed>>

\* delete_document: ON DELETE CASCADE
RemoveDocument(d) ==
    /\ d \in there
    /\ there' = there \ {d}
    /\ expires' = [expires EXCEPT ![d] = [p \in Principals |-> 0]]
    /\ promised' = [promised EXCEPT ![d] = [p \in Principals |-> 0]]
    /\ UNCHANGED <<sweeper, sweptAt, crossed>>

-----------------------------------------------------------------------------
\* Seeded fault: the time is taken once, when the task starts.
SweepBeginOnce ==
    /\ sweeper = "ready"
    /\ sweeper' = "deleting" /\ sweptAt' = IF sweptAt = 0 THEN now ELSE sweptAt
    /\ UNCHANGED <<there, expires, promised, crossed>>

SweepBegin ==
    /\ sweeper = "ready"
    /\ sweeper' = "deleting" /\ sweptAt' = now
    /\ UNCHANGED <<there, expires, promised, crossed>>

SweepDelete ==
    /\ sweeper = "deleting"
    /\ expires' = [d \in Documents |-> [p \in Principals |->
                     IF expires[d][p] <= sweptAt THEN 0 ELSE expires[d][p]]]
    /\ sweeper' = "asleep"
    /\ UNCHANGED <<there, sweptAt, promised, crossed>>

\* An error of the DELETE is logged, and the loop goes on.
SweepFails ==
    /\ sweeper = "deleting"
    /\ sweeper' = "asleep"
    /\ UNCHANGED <<there, expires, sweptAt, promised, crossed>>

SweepWake ==
    /\ sweeper = "asleep"
    /\ sweeper' = "ready"
    /\ UNCHANGED <<there, expires, sweptAt, promised, crossed>>

\* The task ends with the process and is started with the next one.
SweepStop == sweeper' = "stopped" /\ sweptAt' = 0 /\ UNCHANGED <<there, expires, promised, crossed>>
SweepStart == sweeper' = "ready" /\ UNCHANGED <<there, expires, sweptAt, promised, crossed>>

PresenceStep(t) == DocExists(t) \/ WriteBeat(t) \/ ClearRow(t)

-----------------------------------------------------------------------------
PresenceLabels == {"exists", "upsert", "clear"}

PresenceTypeOK ==
    /\ there \subseteq Documents
    /\ expires \in [Documents -> [Principals -> 0..MaxTime + TTL]]
    /\ promised \in [Documents -> [Principals -> 0..MaxTime + TTL]]
    /\ sweeper \in {"ready", "deleting", "asleep", "stopped"} /\ sweptAt \in 0..MaxTime
    /\ crossed \subseteq Pairs

ListActive(d) == {p \in Principals : expires[d][p] > now}

\* set_status: whoever was answered an expiry is listed until then, whatever is
\* swept meanwhile and whenever the process restarts, unless the row is cleared,
\* the document is deleted, or two of the principal's heartbeats cross, when the
\* earlier one may be written last.
HeartbeatKept ==
    \A d \in Documents, p \in Principals :
        promised[d][p] > now /\ <<d, p>> \notin crossed => p \in ListActive(d)

\* presence_gc: a row that has expired is swept or renewed, or the process
\* stops, however often a sweep fails.
ExpiredSwept ==
    \A d \in Documents, p \in Principals :
        (expires[d][p] > 0 /\ p \notin ListActive(d))
          ~> (expires[d][p] = 0 \/ p \in ListActive(d) \/ sweeper = "stopped")
=============================================================================
