------------------------------ MODULE Sharing -------------------------------
(***************************************************************************)
(* Who may do what with one document: its owner, its visibility, its share *)
(* link and its grants (service/permissions.py, service/grants.py, the     *)
(* visibility part of service/docs.py), as the MCP tools and the HTTP      *)
(* routes call them.  check_permission is three SELECTs, a visibility      *)
(* change and a revocation are several statements more, and the handlers   *)
(* of the pool interleave between them on the one connection.              *)
(*                                                                         *)
(* Composed with module Invites: a grant to an address nobody has signed   *)
(* up with becomes an invite, which its addressee accepts later.  As there *)
(* each write is committed with its statement.                             *)
(***************************************************************************)
EXTENDS Invites

CONSTANTS
    Agents,    \* agent principals
    AgentOf,   \* AgentOf[a]: the user who owns agent a; Nobody for a service
    Owner,     \* the user who owns the document
    For,       \* For[i]: the address invite i was made for; Nobody for a link
    SignedUp   \* users with an account from the start

Principals == Users \cup Agents
Ranks == {"view", "edit", "owner"}
Answers == {"allowed", "forbidden", "notFound"}

ASSUME SharingAssumption ==
    /\ Users \cap Agents = {} /\ Nobody \notin Agents
    /\ AgentOf \in [Agents -> Users \cup {Nobody}]
    /\ Owner \in SignedUp /\ SignedUp \subseteq Users
    /\ For \in [Invites -> Users \cup {Nobody}]
    \* _grant_via_invite makes single-use ones
    /\ \A i \in Invites : For[i] # Nobody => i \in Single

VARIABLES
    doc,          \* the row of the documents table
    agentGrants,  \* agentGrants[a]: the level of agent a's row in grants
    users,        \* rows of the users table
    cancelled,    \* agents whose revoked_at is set
    req,          \* req[t]: who calls, what for, and what the call has read
    \* history
    exposed,      \* share tokens that were in force while the document was public
    knows,        \* knows[p]: share tokens an answer or a mail gave p
    outside,      \* principals a revocation has shut out, until they get access again
    right,        \* right[t]: the answers that were right at some instant of t's check
    moved,        \* moved[t]: changes of anybody's access during t's check, up to two
    torn          \* a rotation was lost to another visibility call or to a stop

docVars == <<doc, agentGrants, users, cancelled>>
history == <<exposed, knows, outside, right, moved, torn>>
vars == <<inviteVars, threadVars, now, overlapped, docVars, req, history>>

NoReq == [op |-> "none", who |-> Nobody, rank |-> "view", target |-> Nobody,
          level |-> 0, prior |-> 0, public |-> FALSE, token |-> 0]
NoDoc == [exists |-> FALSE, public |-> FALSE, token |-> 0]

-----------------------------------------------------------------------------
\* The specification of access: what check_permission should answer.

LevelOf(p) == IF p \in Users THEN grants[p] ELSE agentGrants[p]

\* 0 none, 1 view, 2 edit, 3 owner.  A direct grant hides an inherited one.
Standing(p) ==
    LET user == IF p \in Agents THEN AgentOf[p] ELSE Nobody IN
    IF p = Owner THEN 3
    ELSE IF LevelOf(p) > 0 THEN LevelOf(p)
    ELSE IF user = Owner THEN 2
    ELSE IF user # Nobody /\ grants[user] > 0 THEN grants[user]
    ELSE IF doc.public THEN 1 ELSE 0

Needs(rank) == CASE rank = "view" -> 1 [] rank = "edit" -> 2 [] rank = "owner" -> 3

Verdict(p, rank) ==
    IF ~doc.exists \/ Standing(p) = 0 THEN "notFound"
    ELSE IF Standing(p) >= Needs(rank) THEN "allowed" ELSE "forbidden"

Views(p) == Verdict(p, "view") = "allowed"

\* GET /d/{share_token} asks for the link and for nothing else; the tool of the
\* same name serves public documents alone.
Opens(token) == doc.exists /\ doc.token = token
OpensPublic(token) == doc.exists /\ doc.token = token /\ doc.public

\* An invite in u's mailbox, or an agent of u's, shows u the document too.
Reaches(p) ==
    \/ Views(p)
    \/ \E a \in Agents : AgentOf[a] = p /\ Views(a)
    \/ \E i \in Invites : For[i] \in {p, Nobody} /\ Active(i)

-----------------------------------------------------------------------------
Init ==
    /\ InviteInit
    /\ doc \in [exists : {TRUE}, public : BOOLEAN, token : {1}]
    /\ agentGrants = [a \in Agents |-> 0]
    /\ users = SignedUp
    /\ cancelled = {}
    /\ req = [t \in Handlers |-> NoReq]
    /\ exposed = IF doc.public THEN {1} ELSE {}
    /\ knows = [p \in Principals |-> {}]
    /\ outside = {}
    /\ right = [t \in Handlers |-> {}]
    /\ moved = [t \in Handlers |-> 0]
    /\ torn = FALSE

Begin(t, label, r) ==
    /\ pc[t] = "idle"
    /\ calls < MaxCalls /\ calls' = calls + 1
    /\ Goto(t, label)
    /\ req' = [req EXCEPT ![t] = r]
    /\ UNCHANGED <<inviteVars, now, overlapped, docVars, knows, job>>

\* The thread has answered; "none" is an error nobody planned for.
Close(t, answer) ==
    /\ Goto(t, "idle")
    /\ req' = [req EXCEPT ![t] = [NoReq EXCEPT !.op = answer]]

GoOn(t, label) == Goto(t, label) /\ UNCHANGED req
ReadsOnly == UNCHANGED <<inviteVars, calls, job, now, overlapped, docVars, knows>>

\* A bearer resolves for users with an account and agents not revoked.
Callers == users \cup (Agents \ cancelled)

-----------------------------------------------------------------------------
\* The calls, by the first statement each makes.

\* Bound: what a caller whom the check refuses asks for makes no difference;
\* others than the owner ask it for themselves.
Checked(t, op, rank, r) ==
    \E p \in Callers :
        /\ p = Owner \/ (r.target \in {p, Nobody} /\ r.level # 2)
        /\ Begin(t, "check", [r EXCEPT !.op = op, !.who = p, !.rank = rank])

StartGet(t) == Checked(t, "get", "view", NoReq)
StartUpdate(t) == Checked(t, "update", "edit", NoReq)
StartDelete(t) == Checked(t, "delete", "owner", NoReq)
StartInvite(t) == Checked(t, "invite", "owner", NoReq)

\* Bound: an agent is granted view, and an address without an account what some
\* invite of the instance is for.
StartGrant(t) ==
    \E x \in Principals \ {Owner}, n \in {1, 2} :
        /\ x \in Agents => n = 1
        /\ x \in users \cup Agents \/ \E i \in Invites : For[i] = x /\ Level[i] = n
        /\ Checked(t, "grant", "owner", [NoReq EXCEPT !.target = x, !.level = n])

\* An address without an account has nothing to revoke.
StartRevoke(t) ==
    \E x \in (users \cup Agents) \ {Owner} :
        Checked(t, "revokeTool", "owner", [NoReq EXCEPT !.target = x])

\* Whoever sees the document gets past the first gate.
StartDocMeta(t) ==
    \E wanted \in {0, 1} : Checked(t, "meta", "view", [NoReq EXCEPT !.level = wanted])

\* An agent forks for its user; a service's agent and the owner are refused.
StartFork(t) ==
    \E p \in Callers :
        LET user == IF p \in Agents THEN AgentOf[p] ELSE p IN
        /\ user \notin {Nobody, Owner}
        /\ Begin(t, "forkRead", [NoReq EXCEPT !.op = "fork", !.who = user])

\* Seeded fault: the grants are listed without joining the documents.
ListedUnjoined(p) == p = Owner \/ LevelOf(p) > 0

\* list_documents_for_principal
Listed(p) == doc.exists /\ (p = Owner \/ LevelOf(p) > 0)

\* What else shows p that the document is there: the searches, the dashboard,
\* the public listings, the bookmarks, and the link from a fork to its source.
Found(p) == Listed(p)
SharedWith(p) == doc.exists /\ p # Owner /\ LevelOf(p) > 0
Explored == doc.exists /\ doc.public
Bookmarked(u) == doc.exists /\ (doc.public \/ grants[u] > 0)
SourceLinked(p) ==
    LET viewer == IF p \in Agents /\ AgentOf[p] # Nobody THEN AgentOf[p] ELSE p
    IN doc.exists /\ (doc.public \/ viewer = Owner \/ LevelOf(viewer) > 0)

Shown(p) ==
    Listed(p) \/ Found(p) \/ SharedWith(p) \/ Explored \/ (p \in Users /\ Bookmarked(p))
      \/ SourceLinked(p)

\* GET /explore?view=mine lists, then reads each document again for its card.
StartMine(t) ==
    \E p \in Callers : Listed(p) /\ Begin(t, "read", [NoReq EXCEPT !.op = "mine", !.who = p])

\* GET /invite/{token}, by whoever holds the link, account or not.
StartLanding(t) ==
    \E i \in Invites, p \in Users :
        /\ Active(i) /\ For[i] \in {p, Nobody}
        /\ Begin(t, "read", [NoReq EXCEPT !.op = "landing", !.who = p])

-----------------------------------------------------------------------------
\* check_permission, one action per SELECT.

Checking == {"check", "direct", "inherited", "forkRead", "forkGrant"}

\* Where a call that may go on goes.
AfterCheck(op) ==
    CASE op = "get" -> "read"
      [] op = "update" -> "check"
      [] op = "delete" -> "deleteGrants"
      [] op = "invite" -> "createInvite"
      [] op = "grant" -> "grantDoc"
      [] op = "revokeTool" -> "check"
      [] op = "revoke" -> "deleteGrant"
      [] op = "meta" -> "metaRead"
      [] op = "visibility" -> "prior"

\* The update and doc_meta tools answer with a fresh get, its check included;
\* the revoke tool has its service check again.
AsGet(r) == [r EXCEPT !.op = "get", !.rank = "view"]
NextReq(r) ==
    CASE r.op = "update" -> AsGet(r)
      [] r.op = "revokeTool" -> [r EXCEPT !.op = "revoke"]
      [] OTHER -> r

Decide(t, outcome, r) ==
    /\ CASE outcome = "allowed" ->
              Goto(t, AfterCheck(r.op)) /\ req' = [req EXCEPT ![t] = NextReq(r)]
         [] outcome \in Checking ->
              Goto(t, outcome) /\ req' = [req EXCEPT ![t] = r]
         [] OTHER -> Close(t, outcome)
    /\ ReadsOnly

Permits(level, rank) == IF level >= Needs(rank) THEN "allowed" ELSE "forbidden"

\* Seeded fault: who may not know of the document is refused, not told it is
\* missing.
UngrantedUnmasked(r) == Permits(IF r.public THEN 1 ELSE 0, r.rank)

\* No grant decides: a public document is visible and read-only.
Ungranted(r) == IF r.public THEN Permits(1, r.rank) ELSE "notFound"

CheckRow(t) ==
    LET r == [req[t] EXCEPT !.public = doc.public] IN
    /\ pc[t] = "check"
    /\ Decide(t, IF ~doc.exists THEN "notFound"
                 ELSE IF r.who = Owner THEN "allowed" ELSE "direct", r)

CheckDirect(t) ==
    LET r == req[t]
        user == IF r.who \in Agents THEN AgentOf[r.who] ELSE Nobody
    IN
    /\ pc[t] = "direct"
    /\ Decide(t, IF LevelOf(r.who) > 0 THEN Permits(LevelOf(r.who), r.rank)
                 ELSE IF user = Owner THEN Permits(2, r.rank)
                 ELSE IF user # Nobody THEN "inherited" ELSE Ungranted(r), r)

CheckInherited(t) ==
    LET r == req[t]
        level == grants[AgentOf[r.who]]
    IN
    /\ pc[t] = "inherited"
    /\ Decide(t, IF level > 0 THEN Permits(level, r.rank) ELSE Ungranted(r), r)

\* fork has its own check, of the user alone.
ForkRead(t) ==
    /\ pc[t] = "forkRead"
    /\ IF ~doc.exists THEN Close(t, "notFound")
       ELSE IF doc.public THEN Close(t, "allowed") ELSE GoOn(t, "forkGrant")
    /\ ReadsOnly

ForkGrant(t) ==
    /\ pc[t] = "forkGrant"
    /\ Close(t, IF grants[req[t].who] > 0 THEN "allowed" ELSE "notFound")
    /\ ReadsOnly

-----------------------------------------------------------------------------
\* The owner and the owner's agents always reach the document: what they know
\* is not kept.
Learn(p, token) ==
    IF p = Owner \/ (p \in Agents /\ AgentOf[p] = Owner) THEN UNCHANGED knows
    ELSE knows' = [knows EXCEPT ![p] = @ \cup {token}]

\* The document is read again for the answer, which names its link.
ReadDoc(t) ==
    /\ pc[t] = "read"
    /\ IF doc.exists THEN Learn(req[t].who, doc.token) /\ Close(t, "allowed")
       ELSE Close(t, "none") /\ UNCHANGED knows
    /\ UNCHANGED <<inviteVars, calls, job, now, overlapped, docVars>>

DeleteGrants(t) ==
    /\ pc[t] = "deleteGrants"
    /\ grants' = [u \in Users |-> 0] /\ agentGrants' = [a \in Agents |-> 0]
    /\ GoOn(t, "deleteDoc")
    /\ UNCHANGED <<uses, created, revoked, accepted, calls, job, now, overlapped,
                   doc, users, cancelled, knows>>

DeleteDoc(t) ==
    /\ pc[t] = "deleteDoc"
    /\ doc' = NoDoc
    /\ Close(t, "allowed")
    /\ UNCHANGED <<inviteVars, calls, job, now, overlapped, agentGrants, users, cancelled, knows>>

-----------------------------------------------------------------------------
\* grant

GrantDoc(t) ==
    /\ pc[t] = "grantDoc"
    /\ IF ~doc.exists THEN Close(t, "none")
       ELSE /\ req' = [req EXCEPT ![t].token = doc.token]
            /\ Goto(t, IF req[t].target \in Agents THEN "agentRow" ELSE "lookup")
    /\ ReadsOnly

AgentRow(t) ==
    /\ pc[t] = "agentRow"
    /\ IF req[t].target \in cancelled THEN Close(t, "notFound") ELSE GoOn(t, "upsertGrant")
    /\ ReadsOnly

\* The level there was decides whether a mail goes out.
LookUpUser(t) ==
    LET x == req[t].target IN
    /\ pc[t] = "lookup"
    /\ Goto(t, IF x \in users THEN "upsertGrant" ELSE "findInvite")
    /\ req' = [req EXCEPT ![t].prior = IF x \in users THEN grants[x] ELSE 0]
    /\ ReadsOnly

WriteGrant(t) ==
    LET x == req[t].target
        n == req[t].level
    IN
    /\ pc[t] = "upsertGrant"
    /\ \/ x \in Users /\ grants' = [grants EXCEPT ![x] = n] /\ UNCHANGED agentGrants
       \/ x \in Agents /\ agentGrants' = [agentGrants EXCEPT ![x] = n] /\ UNCHANGED grants
    /\ GoOn(t, "mail")
    /\ UNCHANGED <<uses, created, revoked, accepted, calls, job, now, overlapped,
                   doc, users, cancelled, knows>>

\* The mail names the link as grant read it; an agent's goes to its user.
MailGrant(t) ==
    LET x == req[t].target
        to == IF x \in Agents THEN AgentOf[x]
              ELSE IF req[t].prior = req[t].level THEN Nobody ELSE x
    IN
    /\ pc[t] = "mail"
    /\ IF LevelOf(x) = 0 THEN Close(t, "none") /\ UNCHANGED knows
       ELSE /\ Close(t, "allowed")
            /\ IF to \in Users THEN Learn(to, req[t].token) ELSE UNCHANGED knows
    /\ UNCHANGED <<inviteVars, calls, job, now, overlapped, docVars>>

\* Seeded fault: only an invite to the same level counts.
FindInviteOfLevel(t) ==
    LET x == req[t].target IN
    /\ pc[t] = "findInvite"
    /\ IF \E i \in Invites : For[i] = x /\ Active(i) /\ Level[i] = req[t].level
       THEN Close(t, "allowed") ELSE GoOn(t, "createInvite")
    /\ ReadsOnly

\* find_active_invite_for_email: an invite the address can use is not doubled.
FindInvite(t) ==
    LET x == req[t].target
        others == {u \in Inside(t, {"createInvite"}) : req[u].target = x}
    IN
    /\ pc[t] = "findInvite"
    /\ IF \E i \in Invites : For[i] = x /\ Active(i)
       THEN Close(t, "allowed") /\ UNCHANGED overlapped
       ELSE /\ GoOn(t, "createInvite")
            /\ overlapped' = overlapped \cup (IF others = {} THEN {} ELSE {x})
    /\ UNCHANGED <<inviteVars, calls, job, now, docVars, knows>>

WriteInvite(t) ==
    \E i \in Invites \ created :
        /\ pc[t] = "createInvite"
        /\ For[i] = req[t].target
        /\ req[t].op = "grant" => Level[i] = req[t].level
        /\ created' = created \cup {i}
        /\ uses' = [uses EXCEPT ![i] = IF i \in Single THEN 1 ELSE ManyUses]
        /\ Close(t, "allowed")
        /\ UNCHANGED <<revoked, grants, accepted, calls, job, now, overlapped, docVars, knows>>


-----------------------------------------------------------------------------
\* revoke

\* Seeded fault: the link of a public document is the one rotated.
RevokedDocPublic(t) ==
    /\ pc[t] = "revokedDoc"
    /\ IF doc.exists /\ doc.public THEN GoOn(t, "rotate") ELSE Close(t, "allowed")
    /\ ReadsOnly

DeleteGrant(t) ==
    LET x == req[t].target IN
    /\ pc[t] = "deleteGrant"
    /\ IF LevelOf(x) = 0 THEN Close(t, "allowed") ELSE GoOn(t, "revokedDoc")
    /\ \/ x \in Users /\ grants' = [grants EXCEPT ![x] = 0] /\ UNCHANGED agentGrants
       \/ x \in Agents /\ agentGrants' = [agentGrants EXCEPT ![x] = 0] /\ UNCHANGED grants
    /\ UNCHANGED <<uses, created, revoked, accepted, calls, job, now, overlapped,
                   doc, users, cancelled, knows>>

\* The link of a private document goes with the grant.
RevokedDoc(t) ==
    /\ pc[t] = "revokedDoc"
    /\ IF doc.exists /\ ~doc.public THEN GoOn(t, "rotate") ELSE Close(t, "allowed")
    /\ ReadsOnly

\* Seeded fault: the link is cleared and no fresh one is made.
RotateTokenCleared(t) ==
    /\ pc[t] = "rotate"
    /\ doc' = [doc EXCEPT !.token = 0]
    /\ Close(t, "allowed")
    /\ UNCHANGED <<inviteVars, calls, job, now, overlapped, agentGrants, users, cancelled, knows>>

\* rotate_share_token, of a revocation or of a visibility change.
RotateToken(t) ==
    /\ pc[t] = "rotate"
    /\ doc' = IF doc.exists THEN [doc EXCEPT !.token = @ + 1] ELSE doc
    /\ IF req[t].op = "revoke" THEN Close(t, "allowed")
       ELSE IF ~doc.exists THEN Close(t, "none")
       ELSE Goto(t, "check") /\ req' = [req EXCEPT ![t] = AsGet(@)]
    /\ UNCHANGED <<inviteVars, calls, job, now, overlapped, agentGrants, users, cancelled, knows>>

-----------------------------------------------------------------------------
\* doc_meta and set_visibility

\* Seeded fault: to have seen the document is enough to change it.
MetaReadOnce(t) ==
    /\ pc[t] = "metaRead"
    /\ Goto(t, "check")
    /\ req' = [req EXCEPT ![t] = IF doc.exists /\ doc.public = (@.level = 1) THEN AsGet(@)
                                 ELSE [@ EXCEPT !.op = "visibility"]]
    /\ ReadsOnly

\* A flag that already has the value is not written.
MetaRead(t) ==
    /\ pc[t] = "metaRead"
    /\ Goto(t, "check")
    /\ req' = [req EXCEPT ![t] = IF doc.exists /\ doc.public = (@.level = 1) THEN AsGet(@)
                                 ELSE [@ EXCEPT !.op = "visibility", !.rank = "owner"]]
    /\ ReadsOnly

PriorVisibility(t) ==
    /\ pc[t] = "prior"
    /\ Goto(t, "setVisibility")
    /\ req' = [req EXCEPT ![t].public = doc.public]
    /\ ReadsOnly

\* Seeded fault: what is rotated is a document that was private already.
SetVisibilityLate(t) ==
    LET public == req[t].level = 1 IN
    /\ pc[t] = "setVisibility"
    /\ doc' = IF doc.exists THEN [doc EXCEPT !.public = public] ELSE doc
    /\ IF ~doc.exists THEN Close(t, "none")
       ELSE IF ~req[t].public /\ ~public THEN GoOn(t, "rotate")
       ELSE Goto(t, "check") /\ req' = [req EXCEPT ![t] = AsGet(@)]
    /\ UNCHANGED <<inviteVars, calls, job, now, overlapped, agentGrants, users, cancelled, knows>>

\* Only the edge from public to private rotates, as far as this call has seen.
SetVisibility(t) ==
    LET public == req[t].level = 1 IN
    /\ pc[t] = "setVisibility"
    /\ doc' = IF doc.exists THEN [doc EXCEPT !.public = public] ELSE doc
    /\ IF ~doc.exists THEN Close(t, "none")
       ELSE IF req[t].public /\ ~public THEN GoOn(t, "rotate")
       ELSE Goto(t, "check") /\ req' = [req EXCEPT ![t] = AsGet(@)]
    /\ UNCHANGED <<inviteVars, calls, job, now, overlapped, agentGrants, users, cancelled, knows>>

-----------------------------------------------------------------------------
\* upsert_user_by_email, the first time
Register(u) ==
    /\ u \notin users
    /\ users' = users \cup {u}
    /\ UNCHANGED <<inviteVars, threadVars, now, overlapped, doc, agentGrants, cancelled, req, knows>>

\* revoke_agent; the agent's grant stays
CancelAgent(a) ==
    /\ a \notin cancelled /\ AgentOf[a] # Nobody
    /\ calls < MaxCalls /\ calls' = calls + 1
    /\ cancelled' = cancelled \cup {a}
    /\ UNCHANGED <<inviteVars, pc, job, now, overlapped, doc, agentGrants, users, req, knows>>

\* Bound: a stop counts as a call.
Crash ==
    /\ \E t \in Handlers : pc[t] # "idle"
    /\ calls < MaxCalls /\ calls' = calls + 1
    /\ pc' = [t \in Handlers |-> "idle"]
    /\ job' = [t \in Handlers |-> NoJob]
    /\ req' = [t \in Handlers |-> NoReq]
    /\ UNCHANGED <<inviteVars, now, overlapped, docVars, knows>>

Start(t) ==
    \/ StartGet(t) \/ StartUpdate(t) \/ StartDelete(t) \/ StartInvite(t) \/ StartGrant(t)
    \/ StartRevoke(t) \/ StartDocMeta(t) \/ StartFork(t) \/ StartMine(t) \/ StartLanding(t)

Step(t) ==
    \/ CheckRow(t) \/ CheckDirect(t) \/ CheckInherited(t) \/ ForkRead(t) \/ ForkGrant(t)
    \/ ReadDoc(t) \/ DeleteGrants(t) \/ DeleteDoc(t)
    \/ GrantDoc(t) \/ AgentRow(t) \/ LookUpUser(t) \/ WriteGrant(t) \/ MailGrant(t)
    \/ FindInvite(t) \/ WriteInvite(t)
    \/ DeleteGrant(t) \/ RevokedDoc(t) \/ RotateToken(t)
    \/ MetaRead(t) \/ PriorVisibility(t) \/ SetVisibility(t)

\* The steps of module Invites; creating an invite is WriteInvite's here.
\* Bound: a link that was never made is not presented.
Accepting(t) ==
    /\ \/ StartAccept(t) /\ job'[t].user \in users /\ job'[t].invite \in created
       \/ RevokeInvite(t) \/ ResolveInvite(t) \/ ConsumeUse(t) \/ ReadGrant(t) \/ UpsertGrant(t)
    /\ UNCHANGED <<docVars, req, knows>>

-----------------------------------------------------------------------------
\* What the properties need to remember of a step.

Answered(t) == pc[t] # "idle" /\ pc'[t] = "idle" /\ req'[t].op # "none"

\* A revocation or a change to private that ran to its end on a document that
\* is there.
Severed ==
    /\ doc'.exists
    /\ \E t \in Handlers :
         /\ pc[t] \in {"revokedDoc", "rotate"}
         /\ Answered(t) \/ pc'[t] = "check"

InFlight(p) == \E t \in Handlers : pc[t] # "idle" /\ req[t].who = p

AccessChanges == <<doc.exists, doc.public, grants, agentGrants>>'
                    # <<doc.exists, doc.public, grants, agentGrants>>

Observe ==
    /\ exposed' = exposed \cup IF doc'.public THEN {doc'.token} ELSE {}
    /\ outside' = {p \in IF Severed THEN outside \cup {q \in Principals : ~InFlight(q)'}
                         ELSE outside : ~Reaches(p)'}
    /\ right' = [t \in Handlers |->
                   LET now_ == {Verdict(req[t].who, req[t].rank)}' IN
                   CASE pc'[t] \in {"check", "forkRead"} -> now_
                     [] pc'[t] \in {"direct", "inherited", "forkGrant"} -> right[t] \cup now_
                     [] OTHER -> {}]
    /\ moved' = [t \in Handlers |->
                   IF pc'[t] \notin {"direct", "inherited", "forkGrant"} THEN 0
                   ELSE IF AccessChanges /\ moved[t] < 2 THEN moved[t] + 1 ELSE moved[t]]
    /\ torn' = \/ torn
               \/ /\ ~doc.public /\ doc'.public
                  /\ \E t \in Handlers :
                       pc[t] = "setVisibility" /\ ~req[t].public /\ req[t].level = 0
               \/ \E t \in Handlers :
                       pc[t] = "rotate" /\ pc'[t] = "idle" /\ req'[t].op = "none" /\ doc.exists

Next ==
    /\ \/ \E t \in Handlers : Start(t) \/ Step(t) \/ Accepting(t)
       \/ \E u \in Users : Register(u)
       \/ \E a \in Agents : CancelAgent(a)
       \/ Crash
    /\ Observe

Spec == Init /\ [][Next]_vars

-----------------------------------------------------------------------------
Labels == {"idle", "check", "direct", "inherited", "forkRead", "forkGrant", "read",
           "deleteGrants", "deleteDoc", "grantDoc", "agentRow", "lookup", "upsertGrant",
           "mail", "findInvite", "createInvite", "deleteGrant", "revokedDoc", "rotate",
           "metaRead", "prior", "setVisibility", "resolve", "use", "readGrant", "upsert"}

\* The variables have their types, and the links exposed, known and in force
\* are among those that have been issued.
TypeOK ==
    /\ doc \in [exists : BOOLEAN, public : BOOLEAN, token : Nat]
    /\ grants \in [Users -> Levels] /\ agentGrants \in [Agents -> Levels]
    /\ users \subseteq Users /\ cancelled \subseteq Agents
    /\ pc \in [Handlers -> Labels]
    /\ \A t \in Handlers :
         /\ req[t].who \in Principals \cup {Nobody} /\ req[t].target \in Principals \cup {Nobody}
    /\ doc.exists =>
         \A token \in exposed \cup UNION {knows[p] : p \in Principals} : token <= doc.token

\* The answer check_permission gives p, or fork its user, is one that was right
\* at some instant of the call -- unless access changed twice while it ran, and
\* its SELECTs saw a mixture that was never there.
AnswerRight ==
    [][\A t \in Handlers :
         LET answer == IF pc'[t] = "idle" THEN req'[t].op ELSE "allowed" IN
         (/\ pc[t] \in Checking
          /\ <<pc[t], req[t]>> # <<pc'[t], req'[t]>>
          /\ pc'[t] \notin Checking \ {"check"}
          /\ answer # "none")
           => answer \in right[t] \/ moved[t] = 2]_vars

\* set_visibility: "anyone who saved the public URL" loses access when the
\* document is made private: a link that was public is in force only while a
\* rotation is about to run, or after one was lost to an overlapping call or
\* to a stop.
PrivateLinkRotated ==
    doc.exists /\ ~doc.public /\ doc.token \in exposed
      => torn \/ \E t \in Handlers : pc[t] = "rotate"

\* check_permission and _doc_meta: only the owner's own calls get as far as
\* deleting, granting, revoking, inviting or publishing, whatever checks a tool
\* has passed before.
OwnerOnly ==
    \A t \in Handlers :
        pc[t] \in {"deleteGrants", "grantDoc", "createInvite", "deleteGrant", "setVisibility"}
          => req[t].who = Owner

\* revoke: once it has answered, a principal it left without access holds no
\* link in force, whichever answers and mails were under way, until somebody
\* gives them access again.
RevokedLinkDead ==
    \A p \in outside : \A token \in exposed \cup knows[p] : ~Opens(token) /\ ~OpensPublic(token)

\* list_documents_for_principal, list_shared_with_principal, the searches, the
\* bookmarks and the link to a fork's source show what check_permission would
\* show: a grant that outlives its document or its agent shows nothing.
ListedIsViewable == \A p \in Principals : Shown(p) => Views(p)

\* _grant_via_invite: an address has one active invite, unless two grants had
\* both found none.
OneInvitePerEmail ==
    \A u \in Users \ overlapped : Cardinality({i \in Invites : For[i] = u /\ Active(i)}) <= 1
=============================================================================
