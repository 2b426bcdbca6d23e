------------------------------ MODULE Documents ------------------------------
(***************************************************************************)
(* What the callers of docs.publish, docs.update, docs.delete and          *)
(* fork_document may expect of them: a call takes effect at one instant    *)
(* between its beginning and its end, or not at all; the effect is whole;  *)
(* and nothing else ever changes a document.  A call that ends before its  *)
(* instant -- refused, failed, or cut off when its process stops -- has    *)
(* changed nothing; one cut off after it has changed everything.           *)
(***************************************************************************)
EXTENDS Naturals

CONSTANTS
    Threads,    \* callers
    Docs,       \* document ids
    Published,  \* the documents that exist at the start
    Requests,   \* what can be asked for: records with op, doc, from, ifVersion, id
    NoRequest   \* not asking

VARIABLES
    docs,     \* docs[d]: the row of d
    past,     \* past[d]: every row d has had
    known,    \* ids given out; none is given twice
    request,  \* request[t]: what t asks for
    stage     \* stage[t]: idle, called, or done: the effect has taken place

vars == <<docs, past, known, request, stage>>

\* A document's row; versions start at 1, and the absent document has none.
Row(version, content) == [ver |-> version, content |-> content]
Absent == Row(0, 0)

Init ==
    /\ docs = [d \in Docs |-> IF d \in Published THEN Row(1, 0) ELSE Absent]
    /\ past = [d \in Docs |-> IF d \in Published THEN {Row(1, 0)} ELSE {}]
    /\ known = Published
    /\ request = [t \in Threads |-> NoRequest]
    /\ stage = [t \in Threads |-> "idle"]

\* A call begins; the document it is to make, if any, gets an id nobody had.
Call(t) ==
    /\ stage[t] = "idle"
    /\ stage' = [stage EXCEPT ![t] = "called"]
    /\ \E r \in Requests :
         /\ request' = [request EXCEPT ![t] = r]
         /\ IF r.op \in {"publish", "fork"}
            THEN r.doc \notin known /\ known' = known \cup {r.doc}
            ELSE known' = known
    /\ UNCHANGED <<docs, past>>

\* The instant at which the call of t takes effect: its document becomes r.
Put(t, r) ==
    LET d == request[t].doc IN
    /\ stage[t] = "called"
    /\ stage' = [stage EXCEPT ![t] = "done"]
    /\ docs' = [docs EXCEPT ![d] = r]
    /\ past' = [past EXCEPT ![d] = @ \cup ({r} \ {Absent})]
    /\ UNCHANGED <<known, request>>

Publish(t) ==
    /\ request[t].op = "publish" /\ docs[request[t].doc] = Absent
    /\ Put(t, Row(1, request[t].id))

\* A fork has the content of some version of its source, not always the last.
Fork(t) ==
    /\ request[t].op = "fork" /\ docs[request[t].doc] = Absent
    /\ \E r \in past[request[t].from] : Put(t, Row(1, r.content))

\* The version named is the one replaced.
Update(t) ==
    LET version == docs[request[t].doc].ver IN
    /\ request[t].op = "update" /\ version > 0 /\ version = request[t].ifVersion
    /\ Put(t, Row(version + 1, request[t].id))

Delete(t) ==
    /\ request[t].op = "delete" /\ docs[request[t].doc] # Absent
    /\ Put(t, Absent)

\* Calls end, answered or cut off.
End(callers) ==
    /\ stage' = [t \in Threads |-> IF t \in callers THEN "idle" ELSE stage[t]]
    /\ request' = [t \in Threads |-> IF t \in callers THEN NoRequest ELSE request[t]]
    /\ UNCHANGED <<docs, past, known>>

Next ==
    \/ \E t \in Threads : Call(t) \/ Publish(t) \/ Fork(t) \/ Update(t) \/ Delete(t)
    \/ \E callers \in SUBSET Threads : End(callers)

Spec == Init /\ [][Next]_vars
=============================================================================
