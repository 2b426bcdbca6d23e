------------------------------- MODULE Pages --------------------------------
(***************************************************************************)
(* The paginated listings: documents a caller sees, searches, public       *)
(* documents, revisions, grants, invites, agents, audit rows.  Each page   *)
(* is one SELECT in the order (sort key, id), newest first, that starts    *)
(* behind the row its cursor names; the server keeps nothing between two   *)
(* pages, while rows change, come and go.  A caller walks one listing from *)
(* its first page to its last.                                             *)
(***************************************************************************)
EXTENDS Pool

CONSTANTS
    Ids,     \* ids of rows
    Asked,   \* page sizes that callers ask for
    Cap      \* the largest page served

ASSUME PagesAssumption ==
    /\ Ids \subseteq Nat \ {0} /\ IsFiniteSet(Ids)
    /\ Asked \subseteq Nat /\ Cap \in Nat \ {0}

VARIABLES
    listed,   \* ids of the rows in the listing
    key,      \* key[i]: the timestamp i is sorted by, also when it is out
    walk,     \* what the caller was given: a cursor, or the end
    \* history
    seen,     \* seen[i]: pages that had i
    setBack,  \* setBack[i]: how often i's timestamp was set back since a page had it
    steady    \* rows listed at the first page and unchanged since

pagesVars == <<listed, key, walk, seen, setBack, steady>>

-----------------------------------------------------------------------------
\* What can happen to the rows of a listing under a walk: a row is "renewed"
\* (it gets a new timestamp), "joins" from outside with the key it has, "leaves",
\* or is "new"; a grant is "upserted": renewed, or made, perhaps again.
Mine == {"new", "renewed", "joins", "leaves"}           \* list_for_principal_paginated
Found == {"new", "renewed", "joins", "leaves"}          \* search_paginated
Public == {"new", "renewed", "joins", "leaves"}         \* list_public_paginated
RevisionsOf == {"new", "leaves"}                        \* list_revisions_paginated
GrantsOf == {"upserted", "leaves"}                      \* list_grants_paginated
InvitesOf == {"new", "leaves"}                          \* list_for_doc_paginated
AgentsOf == {"new", "leaves"}                           \* list_paginated
AuditRows == {"new"}                                    \* list_recent_paginated

Listings == {Mine, Found, Public, RevisionsOf, GrantsOf, InvitesOf, AgentsOf, AuditRows}

NoWalk == [open |-> FALSE, done |-> FALSE, changes |-> {}, key |-> 0, id |-> 0]

PagesInit ==
    /\ listed = {} /\ key = [i \in Ids |-> 0]
    /\ walk = NoWalk
    /\ seen = [i \in Ids |-> 0] /\ setBack = [i \in Ids |-> 0] /\ steady = {}

-----------------------------------------------------------------------------
Clamp(n) == IF n < 1 THEN 1 ELSE IF n > Cap THEN Cap ELSE n

\* Seeded fault: the cursor is the timestamp alone.
BehindKey(k, i, cursor) == k[i] < cursor.key

\* (sort key, id) < (last sort key, last id)
Behind(k, i, cursor) == k[i] < cursor.key \/ (k[i] = cursor.key /\ i < cursor.id)

\* The first n of some rows: those with fewer than n of them in front.
First(k, rows, n) ==
    {i \in rows : Cardinality({j \in rows : Behind(k, i, [key |-> k[j], id |-> j])}) < n}

\* A page of what is left, one row more than asked for telling whether there is
\* another; its last row makes the cursor.
Serve(k, left, n, changes) ==
    LET page == First(k, left, Clamp(n))
        last == CHOOSE i \in page : \A j \in page \ {i} : Behind(k, i, [key |-> k[j], id |-> j])
        more == First(k, left, Clamp(n) + 1) # page
    IN
    /\ walk' = [open |-> more, done |-> ~more, changes |-> changes,
                key |-> IF more THEN k[last] ELSE 0, id |-> IF more THEN last ELSE 0]
    /\ seen' = [i \in Ids |-> seen[i] + (IF i \in page THEN 1 ELSE 0)]

\* The first page, of any rows there may be.
FirstPage ==
    \E changes \in Listings, n \in Asked :
    \E rows \in SUBSET Ids, k \in [Ids -> 1..now] :
        /\ walk = NoWalk
        /\ listed' = rows /\ key' = k
        /\ steady' = rows
        /\ Serve(k, rows, n, changes)
        /\ UNCHANGED setBack

NextPage ==
    \E n \in Asked :
        /\ walk.open
        /\ Serve(key, {i \in listed : Behind(key, i, walk)}, n, walk.changes)
        /\ UNCHANGED <<listed, key, setBack, steady>>

-----------------------------------------------------------------------------
\* A writer reads the clock first and executes its statement later: what lands
\* is the time of some earlier moment, and of two writers that cross, the older
\* stamp may land last.  Nothing but the statement goes by the stamp, so that the
\* two are one step with any stamp up to now.
Stamp(i) ==
    \E at \in 1..now :
        /\ key' = [key EXCEPT ![i] = at]
        /\ setBack' = [setBack EXCEPT ![i] = IF seen[i] > 0 /\ at < key[i] THEN @ + 1 ELSE @]

\* A document is saved, whether listed or not; a grant is upserted.
RenewRow(i) ==
    /\ walk.open /\ Stamp(i)
    /\ \/ "renewed" \in walk.changes /\ UNCHANGED listed
       \/ "upserted" \in walk.changes /\ listed' = listed \cup {i}
    /\ steady' = steady \ {i}
    /\ UNCHANGED <<walk, seen>>

\* Granted, made public, a match since its title changed.
JoinRow(i) ==
    /\ walk.open /\ "joins" \in walk.changes /\ i \notin listed
    /\ listed' = listed \cup {i}
    /\ UNCHANGED <<key, walk, seen, setBack, steady>>

\* A row that no page has had is one that is new.
NewRow(i) ==
    /\ walk.open /\ "new" \in walk.changes /\ i \notin listed /\ seen[i] = 0
    /\ listed' = listed \cup {i} /\ Stamp(i)
    /\ UNCHANGED <<walk, seen, steady>>

\* Deleted, pruned, revoked, made private.
LeaveRow(i) ==
    /\ walk.open /\ "leaves" \in walk.changes /\ i \in listed
    /\ listed' = listed \ {i}
    /\ steady' = steady \ {i}
    /\ UNCHANGED <<key, walk, seen, setBack>>

RowChange == \E i \in Ids : RenewRow(i) \/ JoinRow(i) \/ NewRow(i) \/ LeaveRow(i)

-----------------------------------------------------------------------------
PagesTypeOK ==
    /\ listed \subseteq Ids /\ key \in [Ids -> 0..now]
    /\ walk \in [open : BOOLEAN, done : BOOLEAN, changes : {{}} \cup Listings,
                 key : 0..now, id : {0} \cup Ids]
    /\ ~(walk.open /\ walk.done)
    /\ seen \in [Ids -> Nat] /\ setBack \in [Ids -> Nat] /\ steady \subseteq listed

\* encode_cursor, decode_cursor and the listings: a row is in one page only, and
\* once more at most for each time an older stamp landed on it after a younger;
\* and the walk that has reached its end has had every row once that was there
\* from its first page and has not changed -- whatever joins, leaves and moves
\* in between, with rows of one timestamp, with pages of any size, and across a
\* restart.
PageWalk ==
    /\ \A i \in Ids : seen[i] <= 1 + setBack[i]
    /\ walk.done => \A i \in steady : seen[i] = 1
=============================================================================
