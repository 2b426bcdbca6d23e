--------------------------- MODULE SharingProofs ----------------------------
(***************************************************************************)
(* Proofs about Sharing, for any threads, users, agents, invites, owner    *)
(* and bounds: types, that only the owner's calls act, that what is listed *)
(* is what may be viewed, that a link which was public does not outlive    *)
(* the change to private, that a revocation leaves no link in the hands of *)
(* those it shut out, that an address has one active invite, and that an   *)
(* answer was right at some instant of its check.                          *)
(***************************************************************************)
EXTENDS Sharing, FiniteSetTheorems, TLAPS

-----------------------------------------------------------------------------
(* The inductive invariant.                                                *)

Asked == {"get", "update", "delete", "invite", "grant", "revokeTool", "revoke", "meta",
          "visibility"}
ForOwner == {"delete", "invite", "grant", "revokeTool", "revoke", "visibility"}
AboutSomebody == {"grant", "revokeTool", "revoke"}
Ops == Asked \cup Answers \cup {"none", "fork", "mine", "landing"}

\* Where a call is once check_permission has answered "owner".
Acting == {"deleteGrants", "deleteDoc", "grantDoc", "agentRow", "lookup", "upsertGrant", "mail",
           "findInvite", "createInvite", "deleteGrant", "revokedDoc", "rotate", "prior",
           "setVisibility"}
Granting == {"grantDoc", "agentRow", "lookup", "upsertGrant", "mail", "findInvite"}
Accepts == {"resolve", "use", "readGrant", "upsert"}

Docs == [exists : BOOLEAN, public : BOOLEAN, token : Nat]
Reqs == [op : Ops, who : Principals \cup {Nobody}, rank : Ranks,
         target : Principals \cup {Nobody}, level : Levels, prior : Levels,
         public : BOOLEAN, token : Nat]
Jobs == [op : {"none", "accept"}, user : Users \cup {Nobody}, invite : Invites \cup {Nobody},
         device : {Nobody}, remaining : Nat, status : {"none"}]

SharedTypes ==
    /\ doc \in Docs
    /\ grants \in [Users -> Levels] /\ agentGrants \in [Agents -> Levels]
    /\ users \subseteq Users /\ cancelled \subseteq Agents
    /\ uses \in [Invites -> Nat] /\ created \subseteq Invites /\ now \in Nat
    /\ knows \in [Principals -> SUBSET Nat]

ThreadTypes ==
    pc \in [Handlers -> Labels] /\ req \in [Handlers -> Reqs] /\ job \in [Handlers -> Jobs]

HistoryTypes ==
    /\ exposed \subseteq Nat /\ outside \subseteq Principals
    /\ right \in [Handlers -> SUBSET Answers] /\ moved \in [Handlers -> 0..2]
    /\ torn \in BOOLEAN

\* What a request is when its call is about to run the statement of a label.
Held(label, r) ==
    /\ label \in {"check", "direct", "inherited"} =>
         r.who \in Principals /\ r.op \in Asked /\ (r.op \in ForOwner => r.rank = "owner")
    /\ label \in {"direct", "inherited"} => r.who # Owner
    /\ label = "inherited" => r.who \in Agents /\ AgentOf[r.who] \in Users \ {Owner}
    /\ label \in {"forkRead", "forkGrant"} =>
         r.who \in Users \ {Owner} /\ r.rank = "view" /\ ~r.public
    /\ label \in {"read", "metaRead"} => r.who \in Principals
    /\ label \in Acting => r.who = Owner
    /\ label \in Granting \cup {"deleteGrant"} \/ r.op \in AboutSomebody => r.target \in Principals
    /\ r.op = "invite" => r.target = Nobody
    /\ r.op \in {"meta", "visibility"} \/ label \in {"metaRead", "prior", "setVisibility"} =>
         r.level # 2

\* And its acceptance of an invite.
HeldJob(label, j) ==
    /\ label \in Accepts => j.op = "accept" /\ j.user \in Users /\ j.invite \in Invites
    /\ label = "use" => j.remaining > 0

ThreadTrue(t) == Held(pc[t], req[t]) /\ HeldJob(pc[t], job[t])

TypeInv == SharedTypes /\ ThreadTypes /\ HistoryTypes /\ \A t \in Handlers : ThreadTrue(t)

\* No link was exposed, learned or read that is newer than the one in force.
TokensTrue ==
    doc.exists =>
      /\ \A token \in exposed : token <= doc.token
      /\ \A p \in Principals : \A token \in knows[p] : token <= doc.token
      /\ \A t \in Handlers : req[t].token <= doc.token

\* A change to private that saw the document private will not rotate its link:
\* the document is still private, or it was published in between.
EdgesTrue ==
    \A t \in Handlers :
        pc[t] = "setVisibility" /\ ~req[t].public /\ req[t].level = 0 /\ doc.public => torn

\* An address has one active invite, or one call about to create it.
InvitesTrue ==
    \A u \in Users \ overlapped :
        /\ \A i, j \in Invites : For[i] = u /\ For[j] = u /\ Active(i) /\ Active(j) => i = j
        /\ \A t \in Handlers : pc[t] = "createInvite" /\ req[t].target = u =>
             /\ \A i \in Invites : For[i] = u => ~Active(i)
             /\ \A x \in Handlers : pc[x] = "createInvite" /\ req[x].target = u => x = t

\* Who is outside has no way to the document, and no call of theirs has found one.
OutsideTrue ==
    \A p \in outside :
        /\ ~Reaches(p)
        /\ doc.exists =>
             /\ doc.token \notin exposed /\ doc.token \notin knows[p]
             /\ \A t \in Handlers : req[t].who = p =>
                  pc[t] # "read" /\ (pc[t] \in {"direct", "inherited"} => ~req[t].public)

\* What a check that has read the document's row will answer: from the row as
\* it read it, and from the grants there are now.
Mixed(r, direct) ==
    LET user == IF r.who \in Agents THEN AgentOf[r.who] ELSE Nobody IN
    IF direct > 0 THEN Permits(direct, r.rank)
    ELSE IF user = Owner THEN Permits(2, r.rank)
    ELSE IF user # Nobody /\ grants[user] > 0 THEN Permits(grants[user], r.rank)
    ELSE IF r.public THEN Permits(1, r.rank) ELSE "notFound"

Unmoved(r) == doc.exists /\ doc.public = r.public

CheckTrue(t) ==
    /\ pc[t] \in Checking => Verdict(req[t].who, req[t].rank) \in right[t]
    /\ pc[t] \in {"check", "forkRead"} => moved[t] = 0
    /\ pc[t] \in {"direct", "forkGrant"} =>
         /\ moved[t] = 0 => Unmoved(req[t])
         /\ moved[t] < 2 => Mixed(req[t], LevelOf(req[t].who)) \in right[t]
    /\ pc[t] = "inherited" =>
         /\ moved[t] = 0 => Unmoved(req[t]) /\ agentGrants[req[t].who] = 0
         /\ moved[t] < 2 => Mixed(req[t], 0) \in right[t]

IInv ==
    /\ TypeInv /\ TokensTrue /\ EdgesTrue /\ PrivateLinkRotated
    /\ InvitesTrue /\ OutsideTrue
    /\ \A t \in Handlers : CheckTrue(t)

-----------------------------------------------------------------------------
(* Types, and what a request is at each label.                             *)

Moves(t) ==
    \A u \in Handlers \ {t} : pc'[u] = pc[u] /\ req'[u] = req[u] /\ job'[u] = job[u]

\* A step of t that keeps the types of the tables and of the threads.
Goes(t) ==
    /\ SharedTypes' /\ ThreadTypes' /\ Moves(t)
    /\ Held(pc'[t], req'[t]) /\ HeldJob(pc'[t], job'[t])

\* What the constants are.
LEMMA Constants ==
  /\ Owner \in Users /\ Owner \notin Agents /\ Nobody \notin Principals
  /\ Users \cap Agents = {}
  /\ \A a \in Agents : AgentOf[a] \in Users \cup {Nobody}
  /\ \A i \in Invites : Level[i] \in Levels \ {0} /\ For[i] \in Users \cup {Nobody}
BY InviteAssumption, SharingAssumption DEF Principals, Levels

\* A statement that touches no table keeps their types.
LEMMA TablesKept ==
  ASSUME SharedTypes, ReadsOnly
  PROVE  SharedTypes' /\ job' = job
BY DEF SharedTypes, ReadsOnly, inviteVars, docVars, Docs

\* A thread that goes to a label its new request may be at.
LEMMA GoesTo ==
  ASSUME TypeInv, SharedTypes', job' = job, NEW t \in Handlers, NEW label \in Labels \ Accepts,
         NEW r \in Reqs, Goto(t, label), req' = [req EXCEPT ![t] = r], Held(label, r)
  PROVE  Goes(t)
<1>1. pc' = [pc EXCEPT ![t] = label]
  BY DEF Goto
<1>2. pc'[t] = label /\ req'[t] = r /\ Moves(t) /\ ThreadTypes'
  BY <1>1 DEF TypeInv, ThreadTypes, Moves
<1>3. HeldJob(label, job'[t])
  BY DEF HeldJob, Accepts
<1>4. QED
  BY <1>2, <1>3 DEF Goes

\* Without a change of its request.
LEMMA GoesOn ==
  ASSUME TypeInv, SharedTypes', job' = job, NEW t \in Handlers, NEW label \in Labels \ Accepts,
         GoOn(t, label), Held(label, req[t])
  PROVE  Goes(t)
<1>1. req' = [req EXCEPT ![t] = req[t]] /\ req[t] \in Reqs
  BY DEF GoOn, TypeInv, ThreadTypes
<1>2. QED
  BY <1>1, GoesTo DEF GoOn

\* The request of a thread that is in no call.
LEMMA NoReqTrue ==
  /\ NoReq \in Reqs
  /\ NoReq.op = "none" /\ NoReq.who = Nobody /\ NoReq.rank = "view" /\ NoReq.target = Nobody
  /\ NoReq.level = 0 /\ NoReq.prior = 0 /\ NoReq.public = FALSE /\ NoReq.token = 0
BY DEF NoReq, Reqs, Ops, Ranks, Levels

\* A thread that answers.
LEMMA Closes ==
  ASSUME TypeInv, SharedTypes', job' = job, NEW t \in Handlers,
         NEW answer \in Answers \cup {"none"}, Close(t, answer)
  PROVE  Goes(t) /\ pc'[t] = "idle" /\ req'[t] = [NoReq EXCEPT !.op = answer]
<1> DEFINE r == [NoReq EXCEPT !.op = answer]
<1>1. r \in Reqs /\ r.op = answer
  BY NoReqTrue DEF Reqs, Ops
<1>2. Held("idle", r)
  BY <1>1 DEF Held, Acting, Granting, AboutSomebody, Answers
<1>3. "idle" \in Labels \ Accepts
  BY DEF Labels, Accepts
<1>4. Goto(t, "idle") /\ req' = [req EXCEPT ![t] = r]
  BY DEF Close
<1>5. Goes(t)
  <2> HIDE DEF r
  <2> QED
    BY <1>1, <1>2, <1>3, <1>4, GoesTo
<1>6. QED
  BY <1>4, <1>5 DEF Goto, TypeInv, ThreadTypes

\* What a step of t and its Observe keep, everybody's step keeps.
LEMMA HistoryTyped ==
  ASSUME TypeInv, SharedTypes', Observe
  PROVE  HistoryTypes'
<1>1. exposed' \subseteq Nat
  BY DEF Observe, TypeInv, HistoryTypes, SharedTypes, Docs
<1>2. outside' \subseteq Principals
  BY DEF Observe, TypeInv, HistoryTypes
<1>3. \A t \in Handlers : Verdict(req[t].who, req[t].rank)' \in Answers
  BY DEF Verdict, Answers
<1>4. right' \in [Handlers -> SUBSET Answers]
  <2> DEFINE now_(t) == {Verdict(req[t].who, req[t].rank)'}
             R(t) == CASE pc'[t] \in {"check", "forkRead"} -> now_(t)
                       [] pc'[t] \in {"direct", "inherited", "forkGrant"} -> right[t] \cup now_(t)
                       [] OTHER -> {}
  <2>1. right' = [t \in Handlers |-> R(t)]
    BY DEF Observe
  <2>2. \A t \in Handlers : now_(t) \in SUBSET Answers /\ right[t] \in SUBSET Answers
    BY <1>3 DEF TypeInv, HistoryTypes
  <2>3. ASSUME NEW t \in Handlers PROVE R(t) \in SUBSET Answers
    <3> HIDE DEF now_
    <3> QED
      BY <2>2
  <2> HIDE DEF R
  <2>4. QED
    BY <2>1, <2>3
<1>5. moved' \in [Handlers -> 0..2]
  <2> DEFINE M(t) == IF pc'[t] \notin {"direct", "inherited", "forkGrant"} THEN 0
                     ELSE IF AccessChanges /\ moved[t] < 2 THEN moved[t] + 1 ELSE moved[t]
  <2>1. moved' = [t \in Handlers |-> M(t)]
    BY DEF Observe
  <2>2. ASSUME NEW t \in Handlers PROVE M(t) \in 0..2
    <3>1. moved[t] \in 0..2
      BY DEF TypeInv, HistoryTypes
    <3> QED
      BY <3>1
  <2> HIDE DEF M
  <2>3. QED
    BY <2>1, <2>2
<1>6. torn' \in BOOLEAN
  BY DEF Observe
<1>7. QED
  BY <1>1, <1>2, <1>4, <1>5, <1>6 DEF HistoryTypes

\* A step of a thread that keeps the tables' types and its own keeps them all.
LEMMA TypesGo ==
  ASSUME TypeInv, NEW t \in Handlers, Goes(t), Observe
  PROVE  TypeInv'
<1>1. \A u \in Handlers : ThreadTrue(u)'
  <2> SUFFICES ASSUME NEW u \in Handlers PROVE ThreadTrue(u)'
    OBVIOUS
  <2>1. CASE u = t
    BY <2>1 DEF Goes, ThreadTrue
  <2>2. CASE u # t
    <3>1. pc'[u] = pc[u] /\ req'[u] = req[u] /\ job'[u] = job[u] /\ ThreadTrue(u)
      BY <2>2 DEF Goes, Moves, TypeInv
    <3>2. Held(pc'[u], req'[u]) /\ HeldJob(pc'[u], job'[u])
      BY <3>1 DEF ThreadTrue
    <3>3. QED
      BY <3>2 DEF ThreadTrue
  <2>3. QED
    BY <2>1, <2>2
<1>2. QED
  BY <1>1, HistoryTyped DEF TypeInv, Goes

-----------------------------------------------------------------------------
(* Calls that begin.                                                       *)

\* A first statement, and a request that may be there.
Beginning(label, r) ==
    /\ label \in {"check", "forkRead", "read"} /\ r \in Reqs /\ Held(label, r)
    /\ r.token = 0 /\ r.public = FALSE
    /\ label = "read" =>
         \/ Listed(r.who)
         \/ r.who \in Users /\ \E i \in Invites : Active(i) /\ For[i] \in {r.who, Nobody}

\* A call that begins with check_permission.
LEMMA CheckedBegins ==
  ASSUME TypeInv, NEW t \in Handlers, NEW op \in Asked, NEW rank \in Ranks, NEW r \in Reqs,
         op \in ForOwner => rank = "owner", op \in AboutSomebody => r.target \in Principals,
         op = "invite" => r.target = Nobody, op = "meta" => r.level # 2,
         op # "visibility", r.token = 0, r.public = FALSE,
         Checked(t, op, rank, r)
  PROVE  \E label, q : Begin(t, label, q) /\ Beginning(label, q)
<1>1. PICK p \in Callers : Begin(t, "check", [r EXCEPT !.op = op, !.who = p, !.rank = rank])
  BY DEF Checked
<1> DEFINE q == [r EXCEPT !.op = op, !.who = p, !.rank = rank]
<1>2. p \in Principals
  BY DEF Callers, TypeInv, SharedTypes, Principals
<1>3. /\ q \in Reqs /\ q.op = op /\ q.who = p /\ q.rank = rank /\ q.target = r.target
      /\ q.level = r.level
      /\ q.token = 0 /\ q.public = FALSE
  BY <1>2 DEF Reqs, Ops
<1> HIDE DEF q
<1>4. Beginning("check", q)
  BY <1>2, <1>3 DEF Beginning, Held, Acting, Granting
<1>5. QED
  BY <1>1, <1>4 DEF q

\* Every call that begins.
LEMMA StartBegins ==
  ASSUME TypeInv, NEW t \in Handlers, Start(t)
  PROVE  \E label, r : Begin(t, label, r) /\ Beginning(label, r)
<1> USE NoReqTrue
<1>1. CASE StartGet(t)
  BY <1>1, CheckedBegins DEF StartGet, Asked, ForOwner, AboutSomebody, Ranks
<1>2. CASE StartUpdate(t)
  BY <1>2, CheckedBegins DEF StartUpdate, Asked, ForOwner, AboutSomebody, Ranks
<1>3. CASE StartDelete(t)
  BY <1>3, CheckedBegins DEF StartDelete, Asked, ForOwner, AboutSomebody, Ranks
<1>4. CASE StartInvite(t)
  BY <1>4, CheckedBegins DEF StartInvite, Asked, ForOwner, AboutSomebody, Ranks
<1>5. CASE StartGrant(t)
  <2>1. PICK x \in Principals, n \in {1, 2} :
          Checked(t, "grant", "owner", [NoReq EXCEPT !.target = x, !.level = n])
    BY <1>5 DEF StartGrant
  <2> DEFINE r == [NoReq EXCEPT !.target = x, !.level = n]
  <2>2. n \in Levels /\ x \in Principals \cup {Nobody}
    BY DEF Levels
  <2>3. r \in Reqs /\ r.target = x /\ r.token = 0 /\ r.public = FALSE
    BY <2>2 DEF Reqs
  <2> HIDE DEF r
  <2>4. Checked(t, "grant", "owner", r)
    BY <2>1 DEF r
  <2>5. QED
    BY <2>3, <2>4, CheckedBegins DEF Asked, ForOwner, AboutSomebody, Ranks
<1>6. CASE StartRevoke(t)
  <2>1. PICK x \in users \cup Agents : Checked(t, "revokeTool", "owner", [NoReq EXCEPT !.target = x])
    BY <1>6 DEF StartRevoke
  <2> DEFINE r == [NoReq EXCEPT !.target = x]
  <2>2. x \in Principals
    BY DEF TypeInv, SharedTypes, Principals
  <2>3. r \in Reqs /\ r.target = x /\ r.token = 0 /\ r.public = FALSE
    BY <2>2 DEF Reqs
  <2> HIDE DEF r
  <2>4. Checked(t, "revokeTool", "owner", r)
    BY <2>1 DEF r
  <2>5. QED
    BY <2>2, <2>3, <2>4, CheckedBegins DEF Asked, ForOwner, AboutSomebody, Ranks
<1>7. CASE StartDocMeta(t)
  <2>1. PICK n \in {0, 1} : Checked(t, "meta", "view", [NoReq EXCEPT !.level = n])
    BY <1>7 DEF StartDocMeta
  <2> DEFINE r == [NoReq EXCEPT !.level = n]
  <2>2. r \in Reqs /\ r.target = Nobody /\ r.token = 0 /\ r.public = FALSE /\ r.level # 2
    BY DEF Reqs, Levels
  <2> HIDE DEF r
  <2>3. Checked(t, "meta", "view", r)
    BY <2>1 DEF r
  <2>4. QED
    BY <2>2, <2>3, CheckedBegins DEF Asked, ForOwner, AboutSomebody, Ranks
<1>8. CASE StartFork(t)
  <2>1. PICK p \in Callers : LET user == IF p \in Agents THEN AgentOf[p] ELSE p IN
          user \notin {Nobody, Owner} /\ Begin(t, "forkRead", [NoReq EXCEPT !.op = "fork", !.who = user])
    BY <1>8 DEF StartFork
  <2> DEFINE user == IF p \in Agents THEN AgentOf[p] ELSE p
             r == [NoReq EXCEPT !.op = "fork", !.who = user]
  <2>2. user \in Users \ {Owner}
    BY <2>1, Constants DEF Callers, TypeInv, SharedTypes
  <2>3. r \in Reqs /\ r.op = "fork" /\ r.who = user /\ r.rank = "view" /\ r.token = 0 /\ r.public = FALSE
    BY <2>2 DEF Reqs, Ops, Principals
  <2>4. Begin(t, "forkRead", r)
    BY <2>1
  <2> HIDE DEF r, user
  <2>5. Beginning("forkRead", r)
    BY <2>2, <2>3 DEF Beginning, Held, Acting, Granting, AboutSomebody
  <2>6. QED
    BY <2>4, <2>5
<1>9. CASE StartMine(t)
  <2>1. PICK p \in Callers : Listed(p) /\ Begin(t, "read", [NoReq EXCEPT !.op = "mine", !.who = p])
    BY <1>9 DEF StartMine
  <2> DEFINE r == [NoReq EXCEPT !.op = "mine", !.who = p]
  <2>2. p \in Principals
    BY DEF Callers, TypeInv, SharedTypes, Principals
  <2>3. r \in Reqs /\ r.op = "mine" /\ r.who = p /\ r.token = 0 /\ r.public = FALSE
    BY <2>2 DEF Reqs, Ops
  <2> HIDE DEF r
  <2>4. Beginning("read", r)
    BY <2>1, <2>2, <2>3 DEF Beginning, Held, Acting, Granting, AboutSomebody
  <2>5. QED
    BY <2>1, <2>4 DEF r
<1>10. CASE StartLanding(t)
  <2>1. PICK i \in Invites, p \in Users : /\ Active(i) /\ For[i] \in {p, Nobody}
                         /\ Begin(t, "read", [NoReq EXCEPT !.op = "landing", !.who = p])
    BY <1>10 DEF StartLanding
  <2> DEFINE r == [NoReq EXCEPT !.op = "landing", !.who = p]
  <2>2. r \in Reqs /\ r.op = "landing" /\ r.who = p /\ r.token = 0 /\ r.public = FALSE
    BY DEF Reqs, Ops, Principals
  <2> HIDE DEF r
  <2>3. Beginning("read", r)
    BY <2>1, <2>2 DEF Beginning, Held, Acting, Granting, AboutSomebody, Principals
  <2>4. QED
    BY <2>1, <2>3 DEF r
<1>11. QED
  BY <1>1, <1>2, <1>3, <1>4, <1>5, <1>6, <1>7, <1>8, <1>9, <1>10 DEF Start

\* A call that begins touches no table.
LEMMA BeginGoes ==
  ASSUME TypeInv, NEW t \in Handlers, NEW label, NEW r, Begin(t, label, r), Beginning(label, r)
  PROVE  Goes(t)
<1>1. SharedTypes' /\ job' = job
  BY DEF Begin, TypeInv, SharedTypes, inviteVars, docVars
<1>2. label \in Labels \ Accepts
  BY DEF Beginning, Labels, Accepts
<1>3. QED
  BY <1>1, <1>2, GoesTo DEF Begin, Beginning

-----------------------------------------------------------------------------
(* check_permission.                                                       *)

\* What a level permits: the owner's rank to nobody by a grant.
LEMMA Permission ==
  ASSUME NEW level \in Levels, NEW rank \in Ranks
  PROVE  /\ Permits(level, rank) \in {"allowed", "forbidden"}
         /\ Permits(level, "owner") = "forbidden"
         /\ level > 0 => Permits(level, "view") = "allowed"
         /\ rank = "view" => Needs(rank) = 1
         /\ rank = "edit" => Needs(rank) = 2
         /\ rank = "owner" => Needs(rank) = 3
<1>1. /\ rank = "view" => Needs(rank) = 1
      /\ rank = "edit" => Needs(rank) = 2
      /\ rank = "owner" => Needs(rank) = 3
  BY DEF Needs
<1>2. Needs("owner") = 3 /\ Needs("view") = 1
  BY DEF Needs
<1>3. QED
  BY <1>1, <1>2 DEF Permits, Levels

\* Where a call goes whose check has answered "allowed".
LEMMA AllowedHeld ==
  ASSUME NEW r \in Reqs, Held("check", r), r.rank = "owner" => r.who = Owner
  PROVE  /\ AfterCheck(r.op) \in Labels \ Accepts /\ NextReq(r) \in Reqs
         /\ Held(AfterCheck(r.op), NextReq(r))
<1> DEFINE l == AfterCheck(r.op)
           q == NextReq(r)
<1>1. r.who \in Principals /\ r.op \in Asked /\ (r.op \in ForOwner => r.rank = "owner" /\ r.who = Owner)
  BY DEF Held
<1>2. (r.op \in AboutSomebody => r.target \in Principals) /\ (r.op = "invite" => r.target = Nobody)
  BY DEF Held
<1>3. CASE r.op = "update"
  <2>1. l = "check" /\ q = [r EXCEPT !.op = "get", !.rank = "view"]
    BY <1>3 DEF AfterCheck, NextReq, AsGet
  <2>2. q \in Reqs /\ q.op = "get" /\ q.who = r.who
    BY <2>1 DEF Reqs, Ops, Asked, Ranks
  <2>3. Held("check", q)
    BY <1>1, <2>2 DEF Held, Acting, Granting, AboutSomebody, ForOwner, Asked
  <2>4. QED
    BY <2>1, <2>2, <2>3 DEF Labels, Accepts
<1>4. CASE r.op = "revokeTool"
  <2>1. l = "check" /\ q = [r EXCEPT !.op = "revoke"]
    BY <1>4 DEF AfterCheck, NextReq
  <2>2. q \in Reqs /\ q.op = "revoke" /\ q.who = r.who /\ q.rank = r.rank /\ q.target = r.target
    BY <2>1 DEF Reqs, Ops, Asked
  <2>3. Held("check", q)
    BY <1>1, <1>2, <1>4, <2>2 DEF Held, Acting, Granting, AboutSomebody, ForOwner, Asked
  <2>4. QED
    BY <2>1, <2>2, <2>3 DEF Labels, Accepts
<1>5. CASE r.op \notin {"update", "revokeTool"}
  <2>1. q = r
    BY <1>5 DEF NextReq
  <2>2. /\ r.op = "get" => l = "read"
        /\ r.op = "delete" => l = "deleteGrants"
        /\ r.op = "invite" => l = "createInvite"
        /\ r.op = "grant" => l = "grantDoc"
        /\ r.op = "revoke" => l = "deleteGrant"
        /\ r.op = "meta" => l = "metaRead"
        /\ r.op = "visibility" => l = "prior"
    BY DEF AfterCheck
  <2>3. r.op \in {"get", "delete", "invite", "grant", "revoke", "meta", "visibility"}
    BY <1>1, <1>5 DEF Asked
  <2>4. l \in Labels \ Accepts
    BY <2>2, <2>3 DEF Labels, Accepts
  <2> HIDE DEF l
  <2>5. Held(l, r)
    BY <1>1, <1>2, <2>2, <2>3 DEF Held, Acting, Granting, AboutSomebody, ForOwner, Asked
  <2>6. QED
    BY <2>1, <2>4, <2>5 DEF l
<1>6. QED
  BY <1>3, <1>4, <1>5

\* A SELECT of check_permission: it answers, goes on, or leaves it to the next.
LEMMA DecideGoes ==
  ASSUME TypeInv, NEW t \in Handlers, NEW r \in Reqs, Held("check", r),
         NEW outcome \in Answers \cup {"direct", "inherited"}, Decide(t, outcome, r),
         outcome = "allowed" /\ r.rank = "owner" => r.who = Owner,
         outcome \in {"direct", "inherited"} => Held(outcome, r)
  PROVE  /\ Goes(t) /\ ReadsOnly
         /\ outcome = "allowed" => pc'[t] = AfterCheck(r.op) /\ req'[t] = NextReq(r)
         /\ outcome \in {"direct", "inherited"} => pc'[t] = outcome /\ req'[t] = r
         /\ outcome \in {"forbidden", "notFound"} => pc'[t] = "idle" /\ req'[t].op = outcome
<1>1. SharedTypes' /\ job' = job /\ ReadsOnly
  BY TablesKept DEF Decide, TypeInv
<1>2. CASE outcome = "allowed"
  <2>1. Goto(t, AfterCheck(r.op)) /\ req' = [req EXCEPT ![t] = NextReq(r)]
    BY <1>2 DEF Decide, Checking
  <2>2. Goes(t)
    BY <1>1, <1>2, <2>1, AllowedHeld, GoesTo
  <2>3. QED
    BY <1>1, <1>2, <2>1, <2>2 DEF Goto, TypeInv, ThreadTypes
<1>3. CASE outcome \in {"direct", "inherited"}
  <2>1. Goto(t, outcome) /\ req' = [req EXCEPT ![t] = r]
    BY <1>3 DEF Decide, Checking
  <2>2. outcome \in Labels \ Accepts
    BY <1>3 DEF Labels, Accepts
  <2>3. Goes(t)
    BY <1>1, <1>3, <2>1, <2>2, GoesTo
  <2>4. QED
    BY <1>1, <1>3, <2>1, <2>3 DEF Goto, TypeInv, ThreadTypes
<1>4. CASE outcome \in {"forbidden", "notFound"}
  <2>1. Close(t, outcome)
    BY <1>4 DEF Decide, Checking
  <2>2. Goes(t) /\ pc'[t] = "idle" /\ req'[t] = [NoReq EXCEPT !.op = outcome]
    BY <1>1, <1>4, <2>1, Closes DEF Answers
  <2>3. req'[t].op = outcome
    BY <2>2, NoReqTrue DEF Reqs
  <2>4. QED
    BY <1>1, <1>4, <2>2, <2>3
<1>5. QED
  BY <1>2, <1>3, <1>4 DEF Answers

\* What each SELECT finds for a request.
RowOutcome(r) ==
    IF ~doc.exists THEN "notFound" ELSE IF r.who = Owner THEN "allowed" ELSE "direct"

UserOf(p) == IF p \in Agents THEN AgentOf[p] ELSE Nobody

DirectOutcome(r) ==
    IF LevelOf(r.who) > 0 THEN Permits(LevelOf(r.who), r.rank)
    ELSE IF UserOf(r.who) = Owner THEN Permits(2, r.rank)
    ELSE IF UserOf(r.who) # Nobody THEN "inherited" ELSE Ungranted(r)

InheritedOutcome(r) ==
    IF grants[AgentOf[r.who]] > 0 THEN Permits(grants[AgentOf[r.who]], r.rank) ELSE Ungranted(r)

WithRow(t) == [req[t] EXCEPT !.public = doc.public]

\* What the grants give a principal directly is a level.
LEMMA LevelTyped ==
  ASSUME SharedTypes, NEW p \in Principals
  PROVE  LevelOf(p) \in Levels
BY DEF SharedTypes, LevelOf, Principals

\* No grant and no publication gives the owner's rank.
LEMMA UngrantedOutcome ==
  ASSUME NEW r \in Reqs
  PROVE  /\ Ungranted(r) \in Answers
         /\ r.rank = "owner" => Ungranted(r) # "allowed"
         /\ ~r.public => Ungranted(r) = "notFound"
<1>1. 1 \in Levels /\ r.rank \in Ranks
  BY DEF Reqs, Levels
<1>2. Permits(1, r.rank) \in {"allowed", "forbidden"} /\ Permits(1, "owner") = "forbidden"
  BY <1>1, Permission
<1>3. QED
  BY <1>2 DEF Ungranted, Answers

\* The first SELECT: the document's row.
LEMMA CheckRowGoes ==
  ASSUME TypeInv, NEW t \in Handlers, CheckRow(t)
  PROVE  /\ Goes(t) /\ ReadsOnly /\ pc[t] = "check"
         /\ WithRow(t) \in Reqs /\ WithRow(t).who = req[t].who /\ WithRow(t).rank = req[t].rank
         /\ WithRow(t).token = req[t].token /\ WithRow(t).public = doc.public
         /\ WithRow(t).op = req[t].op /\ WithRow(t).target = req[t].target
         /\ RowOutcome(WithRow(t)) \in {"notFound", "allowed", "direct"}
         /\ Decide(t, RowOutcome(WithRow(t)), WithRow(t)) /\ Held("check", WithRow(t))
         /\ RowOutcome(WithRow(t)) = "direct" => pc'[t] = "direct" /\ req'[t] = WithRow(t)
         /\ RowOutcome(WithRow(t)) = "allowed" =>
              pc'[t] = AfterCheck(req[t].op) /\ req'[t] = NextReq(WithRow(t))
         /\ RowOutcome(WithRow(t)) = "notFound" => pc'[t] = "idle" /\ req'[t].op = "notFound"
<1> DEFINE r == WithRow(t)
           o == RowOutcome(r)
<1>1. pc[t] = "check" /\ Decide(t, o, r)
  BY DEF CheckRow, WithRow, RowOutcome
<1>2. Held("check", req[t]) /\ req[t] \in Reqs /\ doc.public \in BOOLEAN
  BY <1>1 DEF TypeInv, ThreadTrue, ThreadTypes, SharedTypes, Docs
<1>3. /\ r \in Reqs /\ r.who = req[t].who /\ r.rank = req[t].rank /\ r.token = req[t].token
      /\ r.public = doc.public /\ r.op = req[t].op /\ r.target = req[t].target
      /\ r.level = req[t].level
  BY <1>2 DEF WithRow, Reqs
<1> HIDE DEF r
<1>4. Held("check", r)
  BY <1>2, <1>3 DEF Held, Acting, Granting
<1>5. o \in {"notFound", "allowed", "direct"} /\ (o = "allowed" => r.who = Owner)
      /\ (o = "direct" => r.who # Owner)
  BY DEF RowOutcome
<1> HIDE DEF o
<1>6. o = "direct" => Held("direct", r)
  BY <1>4, <1>5 DEF Held, Acting, Granting
<1>7. /\ Goes(t) /\ ReadsOnly
      /\ o = "allowed" => pc'[t] = AfterCheck(r.op) /\ req'[t] = NextReq(r)
      /\ o = "direct" => pc'[t] = o /\ req'[t] = r
      /\ o = "notFound" => pc'[t] = "idle" /\ req'[t].op = o
  BY <1>1, <1>3, <1>4, <1>5, <1>6, DecideGoes DEF Answers
<1>8. QED
  BY <1>1, <1>3, <1>4, <1>5, <1>7 DEF r, o

\* The second SELECT: the caller's own grant.
LEMMA CheckDirectGoes ==
  ASSUME TypeInv, NEW t \in Handlers, CheckDirect(t)
  PROVE  /\ Goes(t) /\ ReadsOnly /\ pc[t] = "direct"
         /\ DirectOutcome(req[t]) \in Answers \cup {"inherited"}
         /\ Decide(t, DirectOutcome(req[t]), req[t]) /\ Held("direct", req[t])
         /\ DirectOutcome(req[t]) = "inherited" => pc'[t] = "inherited" /\ req'[t] = req[t]
         /\ DirectOutcome(req[t]) = "allowed" =>
              pc'[t] = AfterCheck(req[t].op) /\ req'[t] = NextReq(req[t])
         /\ DirectOutcome(req[t]) \in {"forbidden", "notFound"} =>
              pc'[t] = "idle" /\ req'[t].op = DirectOutcome(req[t])
<1> DEFINE r == req[t]
           o == DirectOutcome(r)
<1>1. pc[t] = "direct" /\ Decide(t, o, r)
  BY DEF CheckDirect, DirectOutcome, UserOf
<1>2. Held("direct", r) /\ r \in Reqs
  BY <1>1 DEF TypeInv, ThreadTrue, ThreadTypes
<1>3. Held("check", r) /\ r.who \in Principals /\ r.rank \in Ranks /\ r.who # Owner
  BY <1>2 DEF Held, Acting, Granting, Reqs
<1>4. LevelOf(r.who) \in Levels
  BY <1>3, LevelTyped DEF TypeInv
<1> HIDE DEF r
<1>5. /\ Permits(LevelOf(r.who), r.rank) \in {"allowed", "forbidden"}
      /\ Permits(LevelOf(r.who), "owner") = "forbidden"
      /\ Permits(2, r.rank) \in {"allowed", "forbidden"} /\ Permits(2, "owner") = "forbidden"
  <2>1. 2 \in Levels
    BY DEF Levels
  <2>2. QED
    BY <1>3, <1>4, <2>1, Permission
<1>6. /\ o \in Answers \cup {"inherited"}
      /\ o = "allowed" => r.rank # "owner"
      /\ o = "inherited" => UserOf(r.who) \notin {Owner, Nobody}
  BY <1>2, <1>5, UngrantedOutcome DEF DirectOutcome, Answers
<1> HIDE DEF o
<1>7. o = "inherited" => Held("inherited", r)
  <2>1. o = "inherited" => r.who \in Agents /\ AgentOf[r.who] \in Users \ {Owner}
    BY <1>6, Constants DEF UserOf
  <2>2. QED
    BY <1>3, <2>1 DEF Held, Acting, Granting
<1>8. /\ Goes(t) /\ ReadsOnly
      /\ o = "allowed" => pc'[t] = AfterCheck(r.op) /\ req'[t] = NextReq(r)
      /\ o = "inherited" => pc'[t] = o /\ req'[t] = r
      /\ o \in {"forbidden", "notFound"} => pc'[t] = "idle" /\ req'[t].op = o
  BY <1>1, <1>2, <1>3, <1>6, <1>7, DecideGoes DEF Answers
<1>9. QED
  BY <1>1, <1>2, <1>6, <1>8 DEF r, o

\* The third SELECT: the grant of the agent's user.
LEMMA CheckInheritedGoes ==
  ASSUME TypeInv, NEW t \in Handlers, CheckInherited(t)
  PROVE  /\ Goes(t) /\ ReadsOnly /\ pc[t] = "inherited"
         /\ InheritedOutcome(req[t]) \in Answers
         /\ Decide(t, InheritedOutcome(req[t]), req[t]) /\ Held("inherited", req[t])
         /\ InheritedOutcome(req[t]) = "allowed" =>
              pc'[t] = AfterCheck(req[t].op) /\ req'[t] = NextReq(req[t])
         /\ InheritedOutcome(req[t]) \in {"forbidden", "notFound"} =>
              pc'[t] = "idle" /\ req'[t].op = InheritedOutcome(req[t])
<1> DEFINE r == req[t]
           o == InheritedOutcome(r)
<1>1. pc[t] = "inherited" /\ Decide(t, o, r)
  BY DEF CheckInherited, InheritedOutcome
<1>2. Held("inherited", r) /\ r \in Reqs
  BY <1>1 DEF TypeInv, ThreadTrue, ThreadTypes
<1>3. Held("check", r) /\ r.rank \in Ranks /\ AgentOf[r.who] \in Users
  BY <1>2 DEF Held, Acting, Granting, Reqs
<1>4. grants[AgentOf[r.who]] \in Levels
  BY <1>3 DEF TypeInv, SharedTypes
<1> HIDE DEF r
<1>5. /\ Permits(grants[AgentOf[r.who]], r.rank) \in {"allowed", "forbidden"}
      /\ Permits(grants[AgentOf[r.who]], "owner") = "forbidden"
  BY <1>3, <1>4, Permission
<1>6. o \in Answers /\ (o = "allowed" => r.rank # "owner")
  BY <1>2, <1>5, UngrantedOutcome DEF InheritedOutcome, Answers
<1> HIDE DEF o
<1>7. /\ Goes(t) /\ ReadsOnly
      /\ o = "allowed" => pc'[t] = AfterCheck(r.op) /\ req'[t] = NextReq(r)
      /\ o \in {"forbidden", "notFound"} => pc'[t] = "idle" /\ req'[t].op = o
  BY <1>1, <1>2, <1>3, <1>6, DecideGoes DEF Answers
<1>8. QED
  BY <1>1, <1>2, <1>6, <1>7 DEF r, o

-----------------------------------------------------------------------------
(* The other steps.                                                        *)

\* A step that only reads, and answers or goes on with its request.
LEMMA ReaderGoes ==
  ASSUME TypeInv, NEW t \in Handlers, ReadsOnly,
         \/ \E answer \in Answers \cup {"none"} : Close(t, answer)
         \/ \E label \in Labels \ Accepts : GoOn(t, label) /\ Held(label, req[t])
  PROVE  Goes(t)
<1>1. SharedTypes' /\ job' = job
  BY TablesKept DEF TypeInv
<1>2. QED
  BY <1>1, Closes, GoesOn

\* The requests of the calls that act are the owner's.
LEMMA HeldHere ==
  ASSUME TypeInv, NEW t \in Handlers
  PROVE  /\ req[t] \in Reqs /\ Held(pc[t], req[t]) /\ HeldJob(pc[t], job[t]) /\ job[t] \in Jobs
         /\ pc[t] \in Acting => req[t].who = Owner
         /\ pc[t] \in Granting \cup {"deleteGrant"} => req[t].target \in Principals
BY DEF TypeInv, ThreadTypes, ThreadTrue, Held

\* fork_document: the two SELECTs of its own check of access.
LEMMA ForkGoes ==
  ASSUME TypeInv, NEW t \in Handlers, ForkRead(t) \/ ForkGrant(t)
  PROVE  Goes(t) /\ ReadsOnly
<1>1. ReadsOnly /\ Held(pc[t], req[t])
  BY HeldHere DEF ForkRead, ForkGrant
<1>2. CASE ForkRead(t)
  <2>1. pc[t] = "forkRead" => Held("forkGrant", req[t])
    BY <1>1 DEF Held, Acting, Granting
  <2>2. "forkGrant" \in Labels \ Accepts
    BY DEF Labels, Accepts
  <2>3. QED
    BY <1>1, <1>2, <2>1, <2>2, ReaderGoes DEF ForkRead, Answers
<1>3. CASE ForkGrant(t)
  BY <1>1, <1>3, ReaderGoes DEF ForkGrant, Answers
<1>4. QED
  BY <1>2, <1>3

\* What a principal learns is one more link.
LEMMA LearnTyped ==
  ASSUME knows \in [Principals -> SUBSET Nat], NEW p \in Principals, NEW token \in Nat,
         Learn(p, token)
  PROVE  /\ knows' \in [Principals -> SUBSET Nat]
         /\ \A q \in Principals : knows'[q] = knows[q] \/ (q = p /\ knows'[q] = knows[q] \cup {token})
BY DEF Learn

\* The read of the row for an answer, which names the link.
LEMMA ReadDocGoes ==
  ASSUME TypeInv, NEW t \in Handlers, ReadDoc(t)
  PROVE  Goes(t)
<1>1. pc[t] = "read" /\ UNCHANGED <<inviteVars, calls, job, now, overlapped, docVars>>
  BY DEF ReadDoc
<1>2. req[t].who \in Principals /\ doc.token \in Nat
  BY <1>1, HeldHere DEF Held, TypeInv, SharedTypes, Docs
<1>3. knows' \in [Principals -> SUBSET Nat]
  <2>1. Learn(req[t].who, doc.token) \/ knows' = knows
    BY DEF ReadDoc
  <2>2. QED
    BY <1>2, <2>1, LearnTyped DEF TypeInv, SharedTypes
<1>4. SharedTypes' /\ job' = job
  BY <1>1, <1>3 DEF TypeInv, SharedTypes, inviteVars, docVars, Docs
<1>5. \E answer \in Answers \cup {"none"} : Close(t, answer)
  BY DEF ReadDoc, Answers
<1>6. QED
  BY <1>4, <1>5, Closes

\* docs.delete: its DELETE of the document's grants.
LEMMA DeleteGrantsGoes ==
  ASSUME TypeInv, NEW t \in Handlers, DeleteGrants(t)
  PROVE  Goes(t)
<1>1. /\ pc[t] = "deleteGrants" /\ GoOn(t, "deleteDoc") /\ job' = job
      /\ grants' = [u \in Users |-> 0] /\ agentGrants' = [a \in Agents |-> 0]
      /\ UNCHANGED <<uses, created, now, doc, users, cancelled, knows>>
  BY DEF DeleteGrants
<1>2. SharedTypes'
  BY <1>1 DEF TypeInv, SharedTypes, Levels, Docs
<1>3. Held("deleteDoc", req[t])
  BY <1>1, HeldHere DEF Held, Acting, Granting
<1>4. "deleteDoc" \in Labels \ Accepts
  BY DEF Labels, Accepts
<1>5. QED
  BY <1>1, <1>2, <1>3, <1>4, GoesOn

\* docs.delete: the DELETE of the row, and its answer.
LEMMA DeleteDocGoes ==
  ASSUME TypeInv, NEW t \in Handlers, DeleteDoc(t)
  PROVE  Goes(t)
<1>1. /\ doc' = NoDoc /\ Close(t, "allowed")
      /\ UNCHANGED <<inviteVars, job, now, agentGrants, users, cancelled, knows>>
  BY DEF DeleteDoc
<1>2. SharedTypes'
  BY <1>1 DEF TypeInv, SharedTypes, inviteVars, NoDoc, Docs
<1>3. QED
  BY <1>1, <1>2, Closes DEF Answers

\* grants.grant: the read of the document's row.
LEMMA GrantDocGoes ==
  ASSUME TypeInv, NEW t \in Handlers, GrantDoc(t)
  PROVE  Goes(t) /\ ReadsOnly
<1>1. pc[t] = "grantDoc" /\ ReadsOnly
  BY DEF GrantDoc
<1>2. SharedTypes' /\ job' = job
  BY <1>1, TablesKept DEF TypeInv
<1>3. CASE ~doc.exists
  BY <1>1, <1>2, <1>3, Closes DEF GrantDoc
<1>4. CASE doc.exists
  <2> DEFINE label == IF req[t].target \in Agents THEN "agentRow" ELSE "lookup"
             r == [req[t] EXCEPT !.token = doc.token]
  <2>1. req[t] \in Reqs /\ Held("grantDoc", req[t]) /\ doc.token \in Nat
    BY <1>1, HeldHere DEF TypeInv, SharedTypes, Docs
  <2>2. /\ r \in Reqs /\ r.who = req[t].who /\ r.op = req[t].op /\ r.target = req[t].target
        /\ r.rank = req[t].rank /\ r.level = req[t].level
    BY <2>1 DEF Reqs
  <2>3. Goto(t, label) /\ req' = [req EXCEPT ![t] = r]
    BY <1>4, <2>1 DEF GrantDoc, TypeInv, ThreadTypes
  <2> HIDE DEF r
  <2>4. label \in {"agentRow", "lookup"}
    OBVIOUS
  <2> HIDE DEF label
  <2>5. Held(label, r) /\ label \in Labels \ Accepts
    BY <2>1, <2>2, <2>4 DEF Held, Acting, Granting, Labels, Accepts
  <2>6. QED
    BY <1>1, <1>2, <2>2, <2>3, <2>5, GoesTo
<1>5. QED
  BY <1>3, <1>4

\* grants.grant: the read of the agent's row.
LEMMA AgentRowGoes ==
  ASSUME TypeInv, NEW t \in Handlers, AgentRow(t)
  PROVE  Goes(t) /\ ReadsOnly
<1>1. pc[t] = "agentRow" /\ ReadsOnly /\ Held("agentRow", req[t])
  BY HeldHere DEF AgentRow
<1>2. Held("upsertGrant", req[t])
  BY <1>1 DEF Held, Acting, Granting
<1>3. "upsertGrant" \in Labels \ Accepts
  BY DEF Labels, Accepts
<1>4. QED
  BY <1>1, <1>2, <1>3, ReaderGoes DEF AgentRow, Answers

\* grants.grant: an address with an account gets a grant, one without an invite.
LEMMA LookUpUserGoes ==
  ASSUME TypeInv, NEW t \in Handlers, LookUpUser(t)
  PROVE  Goes(t) /\ ReadsOnly
<1> DEFINE x == req[t].target
           label == IF x \in users THEN "upsertGrant" ELSE "findInvite"
           n == IF x \in users THEN grants[x] ELSE 0
           r == [req[t] EXCEPT !.prior = n]
<1>1. pc[t] = "lookup" /\ ReadsOnly /\ Goto(t, label) /\ req' = [req EXCEPT ![t].prior = n]
  BY DEF LookUpUser
<1>2. SharedTypes' /\ job' = job
  BY <1>1, TablesKept DEF TypeInv
<1>3. req[t] \in Reqs /\ Held("lookup", req[t])
  BY <1>1, HeldHere
<1>4. n \in Levels
  BY DEF TypeInv, SharedTypes, Levels
<1>5. req' = [req EXCEPT ![t] = r]
  BY <1>1, <1>3 DEF TypeInv, ThreadTypes
<1>6. label \in {"upsertGrant", "findInvite"}
  OBVIOUS
<1> HIDE DEF n, label
<1>7. r \in Reqs /\ r.who = req[t].who /\ r.op = req[t].op /\ r.target = req[t].target
      /\ r.rank = req[t].rank /\ r.level = req[t].level
  BY <1>3, <1>4 DEF Reqs
<1> HIDE DEF r
<1>8. Held(label, r) /\ label \in Labels \ Accepts
  BY <1>3, <1>6, <1>7 DEF Held, Acting, Granting, Labels, Accepts
<1>9. QED
  BY <1>1, <1>2, <1>5, <1>7, <1>8, GoesTo

\* A row of grants that is written or deleted.
LEMMA GrantTyped ==
  ASSUME SharedTypes, NEW x, NEW n \in Levels,
         \/ x \in Users /\ grants' = [grants EXCEPT ![x] = n] /\ UNCHANGED agentGrants
         \/ x \in Agents /\ agentGrants' = [agentGrants EXCEPT ![x] = n] /\ UNCHANGED grants
  PROVE  grants' \in [Users -> Levels] /\ agentGrants' \in [Agents -> Levels]
BY DEF SharedTypes

\* grants.grant: the upsert of the grant.
LEMMA WriteGrantGoes ==
  ASSUME TypeInv, NEW t \in Handlers, WriteGrant(t)
  PROVE  Goes(t)
<1>1. /\ pc[t] = "upsertGrant" /\ GoOn(t, "mail") /\ job' = job
      /\ UNCHANGED <<uses, created, now, doc, users, cancelled, knows>>
  BY DEF WriteGrant
<1>2. req[t].level \in Levels /\ Held("upsertGrant", req[t])
  BY <1>1, HeldHere DEF Reqs
<1>3. grants' \in [Users -> Levels] /\ agentGrants' \in [Agents -> Levels]
  BY <1>2, GrantTyped DEF WriteGrant, TypeInv
<1>4. SharedTypes'
  BY <1>1, <1>3 DEF TypeInv, SharedTypes
<1>5. Held("mail", req[t])
  BY <1>2 DEF Held, Acting, Granting
<1>6. "mail" \in Labels \ Accepts
  BY DEF Labels, Accepts
<1>7. QED
  BY <1>1, <1>4, <1>5, <1>6, GoesOn

\* grants.grant: the mail to the grantee, whose link it carries, and the answer.
LEMMA MailGrantGoes ==
  ASSUME TypeInv, NEW t \in Handlers, MailGrant(t)
  PROVE  Goes(t)
<1>1. UNCHANGED <<inviteVars, job, now, docVars>>
      /\ \E answer \in Answers \cup {"none"} : Close(t, answer)
  BY DEF MailGrant, Answers
<1>2. knows' \in [Principals -> SUBSET Nat]
  <2>1. req[t].token \in Nat
    BY HeldHere DEF Reqs
  <2>2. knows' = knows \/ \E p \in Users : Learn(p, req[t].token)
    BY DEF MailGrant
  <2>3. QED
    BY <2>1, <2>2, LearnTyped DEF TypeInv, SharedTypes, Principals
<1>3. SharedTypes'
  BY <1>1, <1>2 DEF TypeInv, SharedTypes, inviteVars, docVars
<1>4. QED
  BY <1>1, <1>3, Closes

\* _grant_via_invite: the look for an active invite of the address.
LEMMA FindInviteGoes ==
  ASSUME TypeInv, NEW t \in Handlers, FindInvite(t)
  PROVE  Goes(t)
<1>1. /\ pc[t] = "findInvite" /\ UNCHANGED <<inviteVars, job, now, docVars, knows>>
      /\ Close(t, "allowed") \/ GoOn(t, "createInvite")
  BY DEF FindInvite
<1>2. SharedTypes'
  BY <1>1 DEF TypeInv, SharedTypes, inviteVars, docVars
<1>3. Held("createInvite", req[t])
  BY <1>1, HeldHere DEF Held, Acting, Granting
<1>4. "createInvite" \in Labels \ Accepts
  BY DEF Labels, Accepts
<1>5. QED
  BY <1>1, <1>2, <1>3, <1>4, Closes, GoesOn DEF Answers

\* _grant_via_invite and create_invite: the INSERT of an invite.
LEMMA WriteInviteGoes ==
  ASSUME TypeInv, NEW t \in Handlers, WriteInvite(t)
  PROVE  Goes(t)
<1>1. PICK i \in Invites :
        /\ created' = created \cup {i}
        /\ uses' = [uses EXCEPT ![i] = IF i \in Single THEN 1 ELSE ManyUses]
        /\ Close(t, "allowed")
        /\ UNCHANGED <<grants, job, now, docVars, knows>>
  BY DEF WriteInvite
<1>2. SharedTypes'
  BY <1>1, InviteAssumption DEF TypeInv, SharedTypes, docVars
<1>3. QED
  BY <1>1, <1>2, Closes DEF Answers

\* grants.revoke: the DELETE of the grant, or of nothing.
LEMMA DeleteGrantGoes ==
  ASSUME TypeInv, NEW t \in Handlers, DeleteGrant(t)
  PROVE  Goes(t)
<1>1. /\ pc[t] = "deleteGrant" /\ job' = job
      /\ Close(t, "allowed") \/ GoOn(t, "revokedDoc")
      /\ UNCHANGED <<uses, created, now, doc, users, cancelled, knows>>
  BY DEF DeleteGrant
<1>2. grants' \in [Users -> Levels] /\ agentGrants' \in [Agents -> Levels]
  BY GrantTyped DEF DeleteGrant, TypeInv, Levels
<1>3. SharedTypes'
  BY <1>1, <1>2 DEF TypeInv, SharedTypes
<1>4. Held("revokedDoc", req[t])
  BY <1>1, HeldHere DEF Held, Acting, Granting
<1>5. "revokedDoc" \in Labels \ Accepts
  BY DEF Labels, Accepts
<1>6. QED
  BY <1>1, <1>3, <1>4, <1>5, Closes, GoesOn DEF Answers

\* grants.revoke: the read of the document after the DELETE.
LEMMA RevokedDocGoes ==
  ASSUME TypeInv, NEW t \in Handlers, RevokedDoc(t)
  PROVE  Goes(t) /\ ReadsOnly
<1>1. pc[t] = "revokedDoc" /\ ReadsOnly /\ Held("revokedDoc", req[t])
  BY HeldHere DEF RevokedDoc
<1>2. Held("rotate", req[t])
  BY <1>1 DEF Held, Acting, Granting
<1>3. "rotate" \in Labels \ Accepts
  BY DEF Labels, Accepts
<1>4. QED
  BY <1>1, <1>2, <1>3, ReaderGoes DEF RevokedDoc, Answers

\* A call that ends with a fresh get.
LEMMA AsGetGoes ==
  ASSUME TypeInv, SharedTypes', job' = job, NEW t \in Handlers, req[t].who \in Principals,
         req[t].target \in Principals \/ req[t].op \notin AboutSomebody,
         Goto(t, "check"), req' = [req EXCEPT ![t] = AsGet(@)]
  PROVE  Goes(t) /\ req'[t] = AsGet(req[t]) /\ req'[t].token = req[t].token
         /\ req'[t].who = req[t].who
<1> DEFINE r == [req[t] EXCEPT !.op = "get", !.rank = "view"]
<1>1. req' = [req EXCEPT ![t] = r] /\ req[t] \in Reqs /\ AsGet(req[t]) = r
  BY HeldHere DEF AsGet, TypeInv, ThreadTypes
<1>2. r \in Reqs /\ r.op = "get" /\ r.who = req[t].who /\ r.token = req[t].token
  BY <1>1 DEF Reqs, Ops, Asked, Ranks
<1> HIDE DEF r
<1>3. Held("check", r)
  BY <1>2 DEF Held, Acting, Granting, Asked, ForOwner, AboutSomebody
<1>4. "check" \in Labels \ Accepts
  BY DEF Labels, Accepts
<1>5. Goes(t)
  BY <1>1, <1>2, <1>3, <1>4, GoesTo
<1>6. QED
  BY <1>1, <1>2, <1>5 DEF TypeInv, ThreadTypes

\* rotate_share_token: the UPDATE of the link.
LEMMA RotateTokenGoes ==
  ASSUME TypeInv, NEW t \in Handlers, RotateToken(t)
  PROVE  Goes(t)
<1>1. /\ pc[t] = "rotate" /\ UNCHANGED <<inviteVars, job, now, agentGrants, users, cancelled, knows>>
      /\ doc' = IF doc.exists THEN [doc EXCEPT !.token = @ + 1] ELSE doc
  BY DEF RotateToken
<1>2. SharedTypes'
  <2>1. doc' \in Docs
    BY <1>1 DEF TypeInv, SharedTypes, Docs
  <2>2. QED
    BY <1>1, <2>1 DEF TypeInv, SharedTypes, inviteVars
<1>3. req[t].who \in Principals /\ (req[t].target \in Principals \/ req[t].op \notin AboutSomebody)
  BY <1>1, HeldHere, Constants DEF Acting, Principals, Held
<1>4. \/ Close(t, "allowed") \/ Close(t, "none")
      \/ Goto(t, "check") /\ req' = [req EXCEPT ![t] = AsGet(@)]
  BY DEF RotateToken
<1>5. QED
  BY <1>1, <1>2, <1>3, <1>4, Closes, AsGetGoes DEF Answers

\* _doc_meta: the read of the row between its check and set_visibility's.
LEMMA MetaReadGoes ==
  ASSUME TypeInv, NEW t \in Handlers, MetaRead(t)
  PROVE  Goes(t) /\ ReadsOnly
<1>1. pc[t] = "metaRead" /\ ReadsOnly /\ Goto(t, "check")
  BY DEF MetaRead
<1>2. SharedTypes' /\ job' = job
  BY <1>1, TablesKept DEF TypeInv
<1>3. req[t] \in Reqs /\ req[t].who \in Principals /\ req[t].level # 2
      /\ (req[t].target \in Principals \/ req[t].op \notin AboutSomebody)
  BY <1>1, HeldHere DEF Held
<1>4. CASE doc.exists /\ doc.public = (req[t].level = 1)
  <2>1. req' = [req EXCEPT ![t] = AsGet(@)]
    BY <1>4, <1>3 DEF MetaRead, TypeInv, ThreadTypes
  <2>2. QED
    BY <1>1, <1>2, <1>3, <2>1, AsGetGoes
<1>5. CASE ~(doc.exists /\ doc.public = (req[t].level = 1))
  <2> DEFINE r == [req[t] EXCEPT !.op = "visibility", !.rank = "owner"]
  <2>1. req' = [req EXCEPT ![t] = r]
    BY <1>3, <1>5 DEF MetaRead, TypeInv, ThreadTypes
  <2>2. /\ r \in Reqs /\ r.op = "visibility" /\ r.rank = "owner" /\ r.who = req[t].who
        /\ r.level = req[t].level
    BY <1>3 DEF Reqs, Ops, Asked, Ranks
  <2> HIDE DEF r
  <2>3. Held("check", r)
    BY <1>3, <2>2 DEF Held, Acting, Granting, Asked, ForOwner, AboutSomebody
  <2>4. "check" \in Labels \ Accepts
    BY DEF Labels, Accepts
  <2>5. QED
    BY <1>1, <1>2, <2>1, <2>2, <2>3, <2>4, GoesTo
<1>6. QED
  BY <1>4, <1>5

\* docs.set_visibility: the read of the document as it is before the change.
LEMMA PriorVisibilityGoes ==
  ASSUME TypeInv, NEW t \in Handlers, PriorVisibility(t)
  PROVE  Goes(t) /\ ReadsOnly /\ pc'[t] = "setVisibility" /\ req'[t].public = doc.public
         /\ req'[t].token = req[t].token /\ req'[t].who = req[t].who
<1> DEFINE r == [req[t] EXCEPT !.public = doc.public]
<1>1. /\ pc[t] = "prior" /\ ReadsOnly /\ Goto(t, "setVisibility")
      /\ req' = [req EXCEPT ![t].public = doc.public]
  BY DEF PriorVisibility
<1>2. SharedTypes' /\ job' = job
  BY <1>1, TablesKept DEF TypeInv
<1>3. req[t] \in Reqs /\ Held("prior", req[t]) /\ doc.public \in BOOLEAN
  BY <1>1, HeldHere DEF TypeInv, SharedTypes, Docs
<1>4. req' = [req EXCEPT ![t] = r]
  BY <1>1, <1>3 DEF TypeInv, ThreadTypes
<1>5. r \in Reqs /\ r.who = req[t].who /\ r.op = req[t].op /\ r.target = req[t].target
      /\ r.public = doc.public /\ r.token = req[t].token /\ r.level = req[t].level
  BY <1>3 DEF Reqs
<1> HIDE DEF r
<1>6. Held("setVisibility", r)
  BY <1>3, <1>5 DEF Held, Acting, Granting
<1>7. "setVisibility" \in Labels \ Accepts
  BY DEF Labels, Accepts
<1>8. Goes(t)
  BY <1>1, <1>2, <1>4, <1>5, <1>6, <1>7, GoesTo
<1>9. QED
  BY <1>1, <1>4, <1>5, <1>8 DEF Goto, TypeInv, ThreadTypes

\* docs.set_visibility: the UPDATE, which goes on to rotate if it was public.
LEMMA SetVisibilityGoes ==
  ASSUME TypeInv, NEW t \in Handlers, SetVisibility(t)
  PROVE  Goes(t)
<1> DEFINE public == req[t].level = 1
<1>1. /\ pc[t] = "setVisibility" /\ UNCHANGED <<inviteVars, job, now, agentGrants, users, cancelled, knows>>
      /\ doc' = IF doc.exists THEN [doc EXCEPT !.public = public] ELSE doc
  BY DEF SetVisibility
<1>2. SharedTypes'
  <2>1. public \in BOOLEAN
    OBVIOUS
  <2> HIDE DEF public
  <2>2. doc' \in Docs
    BY <1>1, <2>1 DEF TypeInv, SharedTypes, Docs
  <2>3. QED
    BY <1>1, <2>2 DEF TypeInv, SharedTypes, inviteVars
<1>3. Held("setVisibility", req[t]) /\ req[t].who \in Principals
  BY <1>1, HeldHere, Constants DEF Acting, Principals
<1>4. \/ Close(t, "none") \/ GoOn(t, "rotate")
      \/ Goto(t, "check") /\ req' = [req EXCEPT ![t] = AsGet(@)]
  BY DEF SetVisibility
<1>5. Held("rotate", req[t]) /\ (req[t].target \in Principals \/ req[t].op \notin AboutSomebody)
  BY <1>3 DEF Held, Acting, Granting
<1>6. "rotate" \in Labels \ Accepts
  BY DEF Labels, Accepts
<1>7. QED
  BY <1>1, <1>2, <1>3, <1>4, <1>5, <1>6, Closes, GoesOn, AsGetGoes

\* Every statement of a call on the document.
LEMMA StepGoes ==
  ASSUME TypeInv, NEW t \in Handlers, Step(t)
  PROVE  Goes(t)
BY CheckRowGoes, CheckDirectGoes, CheckInheritedGoes, ForkGoes, ReadDocGoes, DeleteGrantsGoes,
   DeleteDocGoes, GrantDocGoes, AgentRowGoes, LookUpUserGoes, WriteGrantGoes, MailGrantGoes,
   FindInviteGoes, WriteInviteGoes, DeleteGrantGoes, RevokedDocGoes, RotateTokenGoes,
   MetaReadGoes, PriorVisibilityGoes, SetVisibilityGoes DEF Step

-----------------------------------------------------------------------------
(* The steps of module Invites.                                            *)

\* What an acceptance or a revocation of an invite leaves alone.
Apart(t) ==
    /\ pc[t] \in Accepts \cup {"idle"} /\ pc'[t] \in Accepts \cup {"idle"}
    /\ UNCHANGED <<docVars, req, knows, created, now>>
    /\ revoked \subseteq revoked' /\ overlapped \subseteq overlapped'
    /\ \A i \in Single : uses'[i] = uses[i] \/ uses'[i] = 0

\* A step of the kind, by what it does to the thread and to the tables.
LEMMA ApartGoes ==
  ASSUME TypeInv, NEW t \in Handlers, Apart(t), NEW label \in Accepts \cup {"idle"},
         Goto(t, label), NEW j \in Jobs, job' = [job EXCEPT ![t] = j], HeldJob(label, j),
         grants' \in [Users -> Levels], uses' \in [Invites -> Nat]
  PROVE  Goes(t)
<1>1. SharedTypes'
  BY DEF Apart, TypeInv, SharedTypes, docVars
<1>2. label \in Labels
  BY DEF Labels, Accepts
<1>3. pc'[t] = label /\ req'[t] = req[t] /\ job'[t] = j /\ Moves(t) /\ ThreadTypes'
  BY <1>2 DEF Goto, Apart, TypeInv, ThreadTypes, Moves
<1>4. Held(label, req[t])
  BY HeldHere DEF Held, Accepts, Acting, Granting
<1>5. QED
  BY <1>1, <1>3, <1>4 DEF Goes

\* A thread that accepts no invite.
LEMMA NoJobTrue ==
  /\ NoJob \in Jobs /\ HeldJob("idle", NoJob)
BY DEF NoJob, Jobs, HeldJob, Accepts

\* An acceptance that is over returns.
LEMMA Returns ==
  ASSUME TypeInv, NEW t \in Handlers, pc[t] \in Accepts, AfterAccept(t)
  PROVE  Goto(t, "idle") /\ job' = [job EXCEPT ![t] = NoJob]
<1>1. job[t].op = "accept"
  BY HeldHere DEF HeldJob
<1>2. QED
  BY <1>1 DEF AfterAccept, Return

\* accept_invite: the call begins.
LEMMA StartAcceptGoes ==
  ASSUME TypeInv, NEW t \in Handlers, StartAccept(t), UNCHANGED <<docVars, req, knows>>
  PROVE  Goes(t) /\ Apart(t)
<1>1. PICK u \in Users, i \in Invites :
        Call(t, "resolve", [NoJob EXCEPT !.op = "accept", !.user = u, !.invite = i])
  BY DEF StartAccept
<1> DEFINE j == [NoJob EXCEPT !.op = "accept", !.user = u, !.invite = i]
<1>2. j \in Jobs /\ j.op = "accept" /\ j.user = u /\ j.invite = i
  BY NoJobTrue DEF Jobs
<1>3. pc[t] = "idle" /\ Goto(t, "resolve") /\ job' = [job EXCEPT ![t] = j]
  BY <1>1 DEF Call
<1> HIDE DEF j
<1>4. UNCHANGED <<inviteVars, now, overlapped>>
  BY DEF StartAccept
<1>5. pc'[t] = "resolve"
  BY <1>3 DEF Goto, TypeInv, ThreadTypes
<1>6. Apart(t)
  BY <1>3, <1>4, <1>5 DEF Apart, Accepts, inviteVars
<1>7. HeldJob("resolve", j)
  BY <1>2 DEF HeldJob
<1>8. grants' \in [Users -> Levels] /\ uses' \in [Invites -> Nat]
  BY <1>4 DEF inviteVars, TypeInv, SharedTypes
<1>9. QED
  BY <1>2, <1>3, <1>6, <1>7, <1>8, ApartGoes DEF Accepts

\* revoke_invite: one UPDATE.
LEMMA RevokeInviteGoes ==
  ASSUME TypeInv, NEW t \in Handlers, RevokeInvite(t), UNCHANGED <<docVars, req, knows>>
  PROVE  Goes(t) /\ Apart(t)
<1>1. pc[t] = "idle" /\ revoked \subseteq revoked'
      /\ UNCHANGED <<uses, created, grants, now, pc, job, overlapped>>
  BY DEF RevokeInvite
<1>2. Apart(t)
  BY <1>1 DEF Apart
<1>3. Moves(t) /\ ThreadTypes' /\ SharedTypes'
  BY <1>1, <1>2 DEF Apart, Moves, TypeInv, ThreadTypes, SharedTypes, docVars
<1>4. Held(pc'[t], req'[t]) /\ HeldJob(pc'[t], job'[t])
  BY <1>1, <1>2, HeldHere DEF Apart
<1>5. QED
  BY <1>2, <1>3, <1>4 DEF Goes

\* accept_invite: the read of the invite, which returns or goes on.
LEMMA ResolveInviteGoes ==
  ASSUME TypeInv, NEW t \in Handlers, ResolveInvite(t), UNCHANGED <<docVars, req, knows>>
  PROVE  Goes(t) /\ Apart(t)
<1>1. pc[t] = "resolve" /\ UNCHANGED <<inviteVars, now>> /\ overlapped \subseteq overlapped'
  BY DEF ResolveInvite
<1>2. job[t] \in Jobs /\ HeldJob("resolve", job[t])
  BY <1>1, HeldHere
<1>3. grants' \in [Users -> Levels] /\ uses' \in [Invites -> Nat]
  BY <1>1 DEF inviteVars, TypeInv, SharedTypes
<1>4. CASE Active(job[t].invite)
  <2> DEFINE j == [job[t] EXCEPT !.remaining = uses[job[t].invite]]
  <2>1. Goto(t, "use") /\ job' = [job EXCEPT ![t].remaining = uses[job[t].invite]]
    BY <1>4 DEF ResolveInvite
  <2>2. job[t].invite \in Invites /\ job[t].user \in Users /\ job[t].op = "accept"
    BY <1>2 DEF HeldJob, Accepts
  <2>3. uses[job[t].invite] \in Nat /\ uses[job[t].invite] > 0
    BY <1>4, <2>2 DEF Active, TypeInv, SharedTypes
  <2>4. j \in Jobs /\ j.op = "accept" /\ j.user \in Users /\ j.invite \in Invites /\ j.remaining > 0
    BY <1>2, <2>2, <2>3 DEF Jobs
  <2>5. job' = [job EXCEPT ![t] = j]
    BY <1>2, <2>1 DEF TypeInv, ThreadTypes
  <2> HIDE DEF j
  <2>6. HeldJob("use", j) /\ pc'[t] = "use"
    BY <2>1, <2>4 DEF HeldJob, Goto, TypeInv, ThreadTypes
  <2>7. Apart(t)
    BY <1>1, <2>6 DEF Apart, Accepts, inviteVars
  <2>8. QED
    BY <1>3, <2>1, <2>4, <2>5, <2>6, <2>7, ApartGoes DEF Accepts
<1>5. CASE ~Active(job[t].invite)
  <2>1. Goto(t, "idle") /\ job' = [job EXCEPT ![t] = NoJob]
    BY <1>1, <1>5, Returns DEF ResolveInvite, Accepts
  <2>2. Apart(t)
    BY <1>1, <2>1 DEF Apart, Accepts, inviteVars, Goto, TypeInv, ThreadTypes
  <2>3. QED
    BY <1>3, <2>1, <2>2, NoJobTrue, ApartGoes
<1>6. QED
  BY <1>4, <1>5

\* accept_invite: the UPDATE that takes a use.
LEMMA ConsumeUseGoes ==
  ASSUME TypeInv, NEW t \in Handlers, ConsumeUse(t), UNCHANGED <<docVars, req, knows>>
  PROVE  Goes(t) /\ Apart(t)
<1> DEFINE left == IF job[t].invite \in Single THEN 0 ELSE job[t].remaining - 1
<1>1. /\ pc[t] = "use" /\ Goto(t, "readGrant") /\ uses' = [uses EXCEPT ![job[t].invite] = left]
      /\ UNCHANGED <<created, revoked, grants, now, job, overlapped>>
  BY DEF ConsumeUse
<1>2. job[t] \in Jobs /\ HeldJob("use", job[t])
  BY <1>1, HeldHere
<1>3. left \in Nat
  BY <1>2 DEF HeldJob, Jobs
<1>4. \A i \in Single : uses'[i] = uses[i] \/ uses'[i] = 0
  BY <1>1, InviteAssumption DEF TypeInv, SharedTypes
<1> HIDE DEF left
<1>5. grants' \in [Users -> Levels] /\ uses' \in [Invites -> Nat]
  BY <1>1, <1>3 DEF TypeInv, SharedTypes
<1>6. Apart(t)
  BY <1>1, <1>4 DEF Apart, Accepts, Goto, TypeInv, ThreadTypes
<1>7. job' = [job EXCEPT ![t] = job[t]]
  BY <1>1 DEF TypeInv, ThreadTypes
<1>8. HeldJob("readGrant", job[t])
  BY <1>2 DEF HeldJob, Accepts
<1>9. QED
  BY <1>1, <1>2, <1>5, <1>6, <1>7, <1>8, ApartGoes DEF Accepts

\* accept_invite: the read of the grant there is, which is not lowered.
LEMMA ReadGrantGoes ==
  ASSUME TypeInv, NEW t \in Handlers, ReadGrant(t), UNCHANGED <<docVars, req, knows>>
  PROVE  Goes(t) /\ Apart(t)
<1>1. pc[t] = "readGrant" /\ UNCHANGED <<inviteVars, now>> /\ overlapped \subseteq overlapped'
  BY DEF ReadGrant
<1>2. job[t] \in Jobs /\ HeldJob("readGrant", job[t])
  BY <1>1, HeldHere
<1>3. grants' \in [Users -> Levels] /\ uses' \in [Invites -> Nat]
  BY <1>1 DEF inviteVars, TypeInv, SharedTypes
<1>4. CASE grants[job[t].user] >= Level[job[t].invite]
  <2>1. Goto(t, "idle") /\ job' = [job EXCEPT ![t] = NoJob]
    BY <1>1, <1>4, Returns DEF ReadGrant, Accepts
  <2>2. Apart(t)
    BY <1>1, <2>1 DEF Apart, Accepts, inviteVars, Goto, TypeInv, ThreadTypes
  <2>3. QED
    BY <1>3, <2>1, <2>2, NoJobTrue, ApartGoes
<1>5. CASE ~(grants[job[t].user] >= Level[job[t].invite])
  <2>1. Goto(t, "upsert") /\ job' = job
    BY <1>5 DEF ReadGrant
  <2>2. Apart(t)
    BY <1>1, <2>1 DEF Apart, Accepts, inviteVars, Goto, TypeInv, ThreadTypes
  <2>3. HeldJob("upsert", job[t]) /\ job' = [job EXCEPT ![t] = job[t]]
    BY <1>2, <2>1 DEF HeldJob, Accepts, TypeInv, ThreadTypes
  <2>4. QED
    BY <1>2, <1>3, <2>1, <2>2, <2>3, ApartGoes DEF Accepts
<1>6. QED
  BY <1>4, <1>5

\* accept_invite: the upsert of the grant.
LEMMA UpsertGrantGoes ==
  ASSUME TypeInv, NEW t \in Handlers, UpsertGrant(t), UNCHANGED <<docVars, req, knows>>
  PROVE  Goes(t) /\ Apart(t)
<1>1. /\ pc[t] = "upsert" /\ AfterAccept(t)
      /\ grants' = [grants EXCEPT ![job[t].user] = Level[job[t].invite]]
      /\ UNCHANGED <<uses, created, revoked, now, overlapped>>
  BY DEF UpsertGrant
<1>2. Goto(t, "idle") /\ job' = [job EXCEPT ![t] = NoJob]
  BY <1>1, Returns DEF Accepts
<1>3. job[t].invite \in Invites
  BY <1>1, HeldHere DEF HeldJob, Accepts
<1>4. grants' \in [Users -> Levels] /\ uses' \in [Invites -> Nat]
  BY <1>1, <1>3, Constants DEF TypeInv, SharedTypes
<1>5. Apart(t)
  BY <1>1, <1>2 DEF Apart, Accepts, Goto, TypeInv, ThreadTypes
<1>6. QED
  BY <1>2, <1>4, <1>5, NoJobTrue, ApartGoes

\* Every statement of an acceptance and of a revocation of an invite.
LEMMA AcceptingGoes ==
  ASSUME TypeInv, NEW t \in Handlers, Accepting(t)
  PROVE  Goes(t) /\ Apart(t)
BY StartAcceptGoes, RevokeInviteGoes, ResolveInviteGoes, ConsumeUseGoes, ReadGrantGoes,
   UpsertGrantGoes DEF Accepting

-----------------------------------------------------------------------------
(* Steps of no thread, and of all.                                         *)

\* A registration, or the end of an agent.
Quiet == UNCHANGED <<uses, created, revoked, grants, now, pc, job, req, doc, agentGrants, knows,
                     overlapped>>

\* A stop of the process.
Stops ==
    /\ UNCHANGED <<uses, created, revoked, grants, now, doc, agentGrants, users, cancelled, knows,
                   overlapped>>
    /\ pc' = [t \in Handlers |-> "idle"] /\ job' = [t \in Handlers |-> NoJob]
    /\ req' = [t \in Handlers |-> NoReq]

\* Clocks, accounts and cancelled agents keep the types.
LEMMA QuietTypes ==
  ASSUME TypeInv, Observe, Quiet, users' \subseteq Users, cancelled' \subseteq Agents
  PROVE  TypeInv'
<1>1. SharedTypes' /\ ThreadTypes'
  BY DEF Quiet, TypeInv, SharedTypes, ThreadTypes
<1>2. \A t \in Handlers : ThreadTrue(t)'
  BY DEF Quiet, TypeInv, ThreadTrue
<1>3. QED
  BY <1>1, <1>2, HistoryTyped DEF TypeInv

\* So does a stop of the process, which takes the calls and leaves the rows.
LEMMA StopsTypes ==
  ASSUME TypeInv, Observe, Stops
  PROVE  TypeInv'
<1>1. SharedTypes'
  BY DEF Stops, TypeInv, SharedTypes
<1>2. "idle" \in Labels
  BY DEF Labels
<1>3. ThreadTypes'
  BY <1>2, NoReqTrue, NoJobTrue DEF Stops, ThreadTypes
<1>4. Held("idle", NoReq)
  BY NoReqTrue DEF Held, Acting, Granting, AboutSomebody
<1>5. \A t \in Handlers : ThreadTrue(t)'
  <2> SUFFICES ASSUME NEW t \in Handlers PROVE ThreadTrue(t)'
    OBVIOUS
  <2>1. pc'[t] = "idle" /\ req'[t] = NoReq /\ job'[t] = NoJob
    BY DEF Stops
  <2>2. QED
    BY <1>4, <2>1, NoJobTrue DEF ThreadTrue
<1>6. QED
  BY <1>1, <1>3, <1>5, HistoryTyped DEF TypeInv

\* Every step, by who takes it.
LEMMA NextCases ==
  ASSUME TypeInv, Next
  PROVE  /\ TypeInv' /\ Observe
         /\ \/ Quiet \/ Stops
            \/ \E t \in Handlers : (Start(t) \/ Step(t) \/ Accepting(t)) /\ Goes(t)
<1>0. Observe
  BY DEF Next
<1>1. ASSUME NEW t \in Handlers, Start(t) PROVE Goes(t)
  BY <1>1, StartBegins, BeginGoes
<1>2. ASSUME NEW t \in Handlers, Start(t) \/ Step(t) \/ Accepting(t) PROVE Goes(t) /\ TypeInv'
  BY <1>0, <1>1, <1>2, StepGoes, AcceptingGoes, TypesGo
<1>3. ASSUME NEW u \in Users, Register(u) PROVE Quiet /\ TypeInv'
  <2>1. Quiet /\ users' \subseteq Users /\ cancelled' \subseteq Agents
    BY <1>3 DEF Register, Quiet, inviteVars, threadVars, TypeInv, SharedTypes
  <2>2. QED
    BY <1>0, <2>1, QuietTypes
<1>4. ASSUME NEW a \in Agents, CancelAgent(a) PROVE Quiet /\ TypeInv'
  <2>1. Quiet /\ users' \subseteq Users /\ cancelled' \subseteq Agents
    BY <1>4 DEF CancelAgent, Quiet, inviteVars, TypeInv, SharedTypes
  <2>2. QED
    BY <1>0, <2>1, QuietTypes
<1>5. CASE Crash
  <2>1. Stops
    BY <1>5 DEF Crash, Stops, inviteVars, docVars
  <2>2. QED
    BY <1>0, <2>1, StopsTypes
<1>6. QED
  BY <1>0, <1>2, <1>3, <1>4, <1>5 DEF Next

\* The start.
LEMMA TypesStart ==
  ASSUME Init
  PROVE  TypeInv
<1>0. doc \in Docs /\ exposed \subseteq Nat
  <2>1. doc \in [exists : {TRUE}, public : BOOLEAN, token : {1}]
    BY DEF Init
  <2>2. exposed \subseteq Nat
    <3>1. CASE doc.public
      BY <3>1 DEF Init
    <3>2. CASE ~doc.public
      BY <3>2 DEF Init
    <3>3. QED
      BY <3>1, <3>2
  <2>3. PICK b \in BOOLEAN : doc = [exists |-> TRUE, public |-> b, token |-> 1]
    BY <2>1
  <2>4. QED
    BY <2>2, <2>3 DEF Docs
<1>1. SharedTypes
  <2>1. /\ grants = Granted /\ agentGrants = [a \in Agents |-> 0] /\ users = SignedUp
        /\ cancelled = {} /\ uses = [i \in Invites |-> 0] /\ created = {} /\ now = 1
        /\ knows = [p \in Principals |-> {}]
    BY DEF Init, InviteInit
  <2>2. QED
    BY <1>0, <2>1, InviteAssumption, SharingAssumption DEF SharedTypes, Levels
<1>2. "idle" \in Labels
  BY DEF Labels
<1>3. ThreadTypes
  BY <1>2, NoReqTrue, NoJobTrue DEF Init, InviteInit, ThreadTypes
<1>4. Held("idle", NoReq)
  BY NoReqTrue DEF Held, Acting, Granting, AboutSomebody
<1>5. \A t \in Handlers : ThreadTrue(t)
  BY <1>4, NoJobTrue DEF Init, InviteInit, ThreadTrue
<1>6. HistoryTypes
  <2>1. /\ outside = {} /\ right = [t \in Handlers |-> {}] /\ moved = [t \in Handlers |-> 0]
        /\ torn = FALSE
    BY DEF Init
  <2>2. \A t \in Handlers : right[t] = {} /\ moved[t] = 0
    BY <2>1
  <2>3. right \in [Handlers -> SUBSET Answers] /\ moved \in [Handlers -> 0..2]
    BY <2>1
  <2>4. QED
    BY <1>0, <2>1, <2>3 DEF HistoryTypes
<1>7. QED
  BY <1>1, <1>3, <1>5, <1>6 DEF TypeInv

-----------------------------------------------------------------------------
(* Which statements lead to a label, and what a step may change.           *)

Acts(t) == Start(t) \/ Step(t) \/ Accepting(t)
Checks(t) == CheckRow(t) \/ CheckDirect(t) \/ CheckInherited(t)

\* Where a check that has answered "allowed" may lead.
LEMMA AllowedLabels ==
  ASSUME NEW r \in Reqs, Held("check", r)
  PROVE  /\ AfterCheck(r.op) \in {"read", "check", "deleteGrants", "createInvite", "grantDoc",
                                 "deleteGrant", "metaRead", "prior"}
         /\ AfterCheck(r.op) = "createInvite" => NextReq(r).target = Nobody
         /\ NextReq(r).token = r.token /\ NextReq(r).who = r.who
         /\ AfterCheck(r.op) = "read" => r.op = "get" /\ NextReq(r) = r
<1>1. r.op \in Asked /\ (r.op = "invite" => r.target = Nobody)
  BY DEF Held
<1>2. /\ r.op = "get" => AfterCheck(r.op) = "read"
      /\ r.op \in {"update", "revokeTool"} => AfterCheck(r.op) = "check"
      /\ r.op = "delete" => AfterCheck(r.op) = "deleteGrants"
      /\ r.op = "invite" => AfterCheck(r.op) = "createInvite"
      /\ r.op = "grant" => AfterCheck(r.op) = "grantDoc"
      /\ r.op = "revoke" => AfterCheck(r.op) = "deleteGrant"
      /\ r.op = "meta" => AfterCheck(r.op) = "metaRead"
      /\ r.op = "visibility" => AfterCheck(r.op) = "prior"
  BY DEF AfterCheck
<1>3. /\ r.op = "update" => NextReq(r) = [r EXCEPT !.op = "get", !.rank = "view"]
      /\ r.op = "revokeTool" => NextReq(r) = [r EXCEPT !.op = "revoke"]
      /\ r.op \notin {"update", "revokeTool"} => NextReq(r) = r
  BY DEF NextReq, AsGet
<1>4. NextReq(r).token = r.token /\ NextReq(r).who = r.who
  BY <1>3 DEF Reqs
<1>5. QED
  BY <1>1, <1>2, <1>3, <1>4 DEF Asked

\* Where the other statements lead.
LEMMA Leads ==
  ASSUME TypeInv, NEW t \in Handlers
  PROVE  /\ ForkRead(t) => pc[t] = "forkRead" /\ pc'[t] \in {"idle", "forkGrant"}
         /\ ForkGrant(t) => pc[t] = "forkGrant" /\ pc'[t] = "idle"
         /\ ReadDoc(t) => pc[t] = "read" /\ pc'[t] = "idle"
         /\ DeleteGrants(t) => pc[t] = "deleteGrants" /\ pc'[t] = "deleteDoc"
         /\ DeleteDoc(t) => pc[t] = "deleteDoc" /\ pc'[t] = "idle"
         /\ GrantDoc(t) => pc[t] = "grantDoc" /\ pc'[t] \in {"idle", "agentRow", "lookup"}
         /\ AgentRow(t) => pc[t] = "agentRow" /\ pc'[t] \in {"idle", "upsertGrant"}
         /\ LookUpUser(t) => pc[t] = "lookup" /\ pc'[t] \in {"upsertGrant", "findInvite"}
         /\ WriteGrant(t) => pc[t] = "upsertGrant" /\ pc'[t] = "mail"
         /\ MailGrant(t) => pc[t] = "mail" /\ pc'[t] = "idle"
         /\ FindInvite(t) => pc[t] = "findInvite" /\ pc'[t] \in {"idle", "createInvite"}
         /\ WriteInvite(t) => pc[t] = "createInvite" /\ pc'[t] = "idle"
         /\ DeleteGrant(t) => pc[t] = "deleteGrant" /\ pc'[t] \in {"idle", "revokedDoc"}
         /\ RevokedDoc(t) => pc[t] = "revokedDoc" /\ pc'[t] \in {"idle", "rotate"}
         /\ RotateToken(t) => pc[t] = "rotate" /\ pc'[t] \in {"idle", "check"}
         /\ MetaRead(t) => pc[t] = "metaRead" /\ pc'[t] = "check"
         /\ PriorVisibility(t) => pc[t] = "prior" /\ pc'[t] = "setVisibility"
         /\ SetVisibility(t) => pc[t] = "setVisibility" /\ pc'[t] \in {"idle", "rotate", "check"}
<1>1. \A label : Goto(t, label) => pc'[t] = label
  BY DEF Goto, TypeInv, ThreadTypes
<1>2. \A answer : Close(t, answer) => pc'[t] = "idle"
  BY <1>1 DEF Close
<1>3. \A label : GoOn(t, label) => pc'[t] = label
  BY <1>1 DEF GoOn
<1>4. /\ ForkRead(t) => pc[t] = "forkRead" /\ pc'[t] \in {"idle", "forkGrant"}
      /\ ForkGrant(t) => pc[t] = "forkGrant" /\ pc'[t] = "idle"
      /\ ReadDoc(t) => pc[t] = "read" /\ pc'[t] = "idle"
  BY <1>2, <1>3 DEF ForkRead, ForkGrant, ReadDoc
<1>5. /\ DeleteGrants(t) => pc[t] = "deleteGrants" /\ pc'[t] = "deleteDoc"
      /\ DeleteDoc(t) => pc[t] = "deleteDoc" /\ pc'[t] = "idle"
  BY <1>2, <1>3 DEF DeleteGrants, DeleteDoc
<1>6. /\ GrantDoc(t) => pc[t] = "grantDoc" /\ pc'[t] \in {"idle", "agentRow", "lookup"}
      /\ AgentRow(t) => pc[t] = "agentRow" /\ pc'[t] \in {"idle", "upsertGrant"}
      /\ LookUpUser(t) => pc[t] = "lookup" /\ pc'[t] \in {"upsertGrant", "findInvite"}
      /\ WriteGrant(t) => pc[t] = "upsertGrant" /\ pc'[t] = "mail"
  BY <1>1, <1>2, <1>3 DEF GrantDoc, AgentRow, LookUpUser, WriteGrant
<1>7. /\ MailGrant(t) => pc[t] = "mail" /\ pc'[t] = "idle"
      /\ FindInvite(t) => pc[t] = "findInvite" /\ pc'[t] \in {"idle", "createInvite"}
      /\ WriteInvite(t) => pc[t] = "createInvite" /\ pc'[t] = "idle"
  BY <1>2, <1>3 DEF MailGrant, FindInvite, WriteInvite
<1>8. /\ DeleteGrant(t) => pc[t] = "deleteGrant" /\ pc'[t] \in {"idle", "revokedDoc"}
      /\ RevokedDoc(t) => pc[t] = "revokedDoc" /\ pc'[t] \in {"idle", "rotate"}
      /\ RotateToken(t) => pc[t] = "rotate" /\ pc'[t] \in {"idle", "check"}
  BY <1>1, <1>2, <1>3 DEF DeleteGrant, RevokedDoc, RotateToken
<1>9. /\ MetaRead(t) => pc[t] = "metaRead" /\ pc'[t] = "check"
      /\ PriorVisibility(t) => pc[t] = "prior" /\ pc'[t] = "setVisibility"
      /\ SetVisibility(t) => pc[t] = "setVisibility" /\ pc'[t] \in {"idle", "rotate", "check"}
  BY <1>1, <1>2, <1>3 DEF MetaRead, PriorVisibility, SetVisibility
<1>10. QED
  BY <1>4, <1>5, <1>6, <1>7, <1>8, <1>9

\* Where the SELECTs of check_permission lead.
LEMMA CheckLeads ==
  ASSUME TypeInv, NEW t \in Handlers, Checks(t)
  PROVE  /\ ReadsOnly /\ Goes(t) /\ pc[t] \in {"check", "direct", "inherited"}
         /\ pc'[t] \in {"idle", "direct", "inherited", "read", "check", "deleteGrants",
                        "createInvite", "grantDoc", "deleteGrant", "metaRead", "prior"}
         /\ pc'[t] = "direct" => CheckRow(t)
         /\ pc'[t] = "inherited" => CheckDirect(t)
         /\ pc'[t] = "createInvite" => req'[t].target = Nobody
         /\ pc'[t] # "idle" => req'[t].token = req[t].token /\ req'[t].who = req[t].who
<1>1. CASE CheckRow(t)
  <2> DEFINE r == WithRow(t)
  <2>1. /\ r \in Reqs /\ Held("check", r) /\ r.token = req[t].token /\ r.who = req[t].who
        /\ r.op = req[t].op
    BY <1>1, CheckRowGoes
  <2>2. /\ Goes(t) /\ ReadsOnly /\ pc[t] = "check"
        /\ \/ pc'[t] = "direct" /\ req'[t] = r
           \/ pc'[t] = AfterCheck(r.op) /\ req'[t] = NextReq(r)
           \/ pc'[t] = "idle"
    BY <1>1, <2>1, CheckRowGoes
  <2> HIDE DEF r
  <2>3. QED
    BY <1>1, <2>1, <2>2, AllowedLabels
<1>2. CASE CheckDirect(t)
  <2> DEFINE r == req[t]
  <2>1. /\ Goes(t) /\ ReadsOnly /\ pc[t] = "direct" /\ Held("direct", r)
        /\ \/ pc'[t] = "inherited" /\ req'[t] = r
           \/ pc'[t] = AfterCheck(r.op) /\ req'[t] = NextReq(r)
           \/ pc'[t] = "idle"
    BY <1>2, CheckDirectGoes DEF Answers
  <2>2. r \in Reqs /\ Held("check", r)
    BY <2>1, HeldHere DEF Held, Acting, Granting
  <2> HIDE DEF r
  <2>3. pc'[t] # "idle" => req'[t].token = r.token /\ req'[t].who = r.who
    BY <2>1, <2>2, AllowedLabels
  <2>4. QED
    BY <1>2, <2>1, <2>2, <2>3, AllowedLabels DEF r
<1>3. CASE CheckInherited(t)
  <2> DEFINE r == req[t]
  <2>1. /\ Goes(t) /\ ReadsOnly /\ pc[t] = "inherited" /\ Held("inherited", r)
        /\ \/ pc'[t] = AfterCheck(r.op) /\ req'[t] = NextReq(r)
           \/ pc'[t] = "idle"
    BY <1>3, CheckInheritedGoes DEF Answers
  <2>2. r \in Reqs /\ Held("check", r)
    BY <2>1, HeldHere DEF Held, Acting, Granting
  <2> HIDE DEF r
  <2>3. pc'[t] # "idle" => req'[t].token = r.token /\ req'[t].who = r.who
    BY <2>1, <2>2, AllowedLabels
  <2>4. QED
    BY <1>3, <2>1, <2>2, <2>3, AllowedLabels DEF r
<1>4. QED
  BY <1>1, <1>2, <1>3 DEF Checks

\* Where a call begins.
LEMMA StartLeads ==
  ASSUME TypeInv, NEW t \in Handlers, Start(t)
  PROVE  \E label, r : /\ Begin(t, label, r) /\ Beginning(label, r) /\ pc[t] = "idle"
                       /\ pc'[t] = label /\ req'[t] = r
<1>1. PICK label, r : Begin(t, label, r) /\ Beginning(label, r)
  BY StartBegins
<1>2. pc[t] = "idle" /\ pc'[t] = label /\ req'[t] = r
  BY <1>1 DEF Begin, Goto, TypeInv, ThreadTypes
<1>3. QED
  BY <1>1, <1>2

\* By which statements a call comes to a label, and by which it leaves one.
LEMMA Arrivals ==
  ASSUME TypeInv, NEW t \in Handlers, Acts(t)
  PROVE  /\ pc'[t] = "setVisibility" => PriorVisibility(t)
         /\ pc'[t] = "direct" => CheckRow(t)
         /\ pc'[t] = "inherited" => CheckDirect(t)
         /\ pc'[t] = "forkGrant" => ForkRead(t)
         /\ pc'[t] = "createInvite" => FindInvite(t) \/ req'[t].target = Nobody
         /\ pc'[t] = "read" => Start(t) \/ Checks(t)
         /\ pc[t] = "rotate" => RotateToken(t)
         /\ pc[t] = "revokedDoc" => RevokedDoc(t)
         /\ pc[t] = "setVisibility" => SetVisibility(t)
         /\ pc[t] = "check" => CheckRow(t)
         /\ pc[t] = "direct" => CheckDirect(t)
         /\ pc[t] = "inherited" => CheckInherited(t)
         /\ pc[t] = "forkRead" => ForkRead(t)
         /\ pc[t] = "forkGrant" => ForkGrant(t)
<1>1. CASE Start(t)
  <2>1. pc[t] = "idle" /\ pc'[t] \in {"check", "forkRead", "read"}
    BY <1>1, StartLeads DEF Beginning
  <2>2. QED
    BY <1>1, <2>1
<1>2. CASE Accepting(t)
  BY <1>2, AcceptingGoes DEF Apart, Accepts
<1>3. CASE Checks(t)
  <2>1. /\ CheckRow(t) => pc[t] = "check"
        /\ CheckDirect(t) => pc[t] = "direct"
        /\ CheckInherited(t) => pc[t] = "inherited"
    BY DEF CheckRow, CheckDirect, CheckInherited
  <2>2. QED
    BY <1>3, <2>1, CheckLeads DEF Checks
<1>4. CASE Step(t) /\ ~Checks(t)
  BY <1>4, Leads DEF Step, Checks
<1>5. QED
  BY <1>1, <1>2, <1>3, <1>4 DEF Acts

\* The tables a step of a thread changes.
LEMMA Effects ==
  ASSUME TypeInv, NEW t \in Handlers, Acts(t)
  PROVE  /\ doc' = doc \/ DeleteDoc(t) \/ RotateToken(t) \/ SetVisibility(t)
         /\ knows' = knows \/ ReadDoc(t) \/ MailGrant(t)
         /\ \/ UNCHANGED <<grants, agentGrants>>
            \/ /\ doc' = doc
               /\ \/ agentGrants' = agentGrants
                  \/ grants' = grants
                  \/ agentGrants' = [a \in Agents |-> 0]
         /\ \/ UNCHANGED <<created, revoked, uses>>
            \/ Apart(t) \/ WriteInvite(t)
         /\ now' = now /\ overlapped \subseteq overlapped'
<1>1. CASE Start(t)
  <2>1. PICK label, r : Begin(t, label, r)
    BY <1>1, StartLeads
  <2>2. QED
    BY <2>1 DEF Begin, inviteVars, docVars
<1>2. CASE Accepting(t)
  <2>1. Apart(t)
    BY <1>2, AcceptingGoes
  <2>2. QED
    BY <2>1 DEF Apart, docVars
<1>3. ASSUME ReadsOnly
      PROVE  UNCHANGED <<doc, knows, grants, agentGrants, created, revoked, uses, now, overlapped>>
  BY <1>3 DEF ReadsOnly, inviteVars, docVars
<1>4. CASE Checks(t)
  BY <1>3, <1>4, CheckLeads
<1>5. CASE ForkRead(t) \/ ForkGrant(t) \/ GrantDoc(t) \/ AgentRow(t) \/ LookUpUser(t)
             \/ RevokedDoc(t) \/ MetaRead(t) \/ PriorVisibility(t)
  <2>1. ReadsOnly
    BY <1>5, ForkGoes, GrantDocGoes, AgentRowGoes, LookUpUserGoes, RevokedDocGoes, MetaReadGoes,
       PriorVisibilityGoes
  <2>2. QED
    BY <1>3, <2>1
<1>6. CASE ReadDoc(t)
  BY <1>6 DEF ReadDoc, inviteVars, docVars
<1>7. CASE DeleteGrants(t)
  BY <1>7 DEF DeleteGrants
<1>8. CASE DeleteDoc(t)
  BY <1>8 DEF DeleteDoc, inviteVars
<1>9. CASE WriteGrant(t)
  BY <1>9 DEF WriteGrant
<1>10. CASE MailGrant(t)
  BY <1>10 DEF MailGrant, inviteVars, docVars
<1>11. CASE FindInvite(t)
  BY <1>11 DEF FindInvite, inviteVars, docVars
<1>12. CASE WriteInvite(t)
  BY <1>12 DEF WriteInvite, docVars
<1>13. CASE DeleteGrant(t)
  BY <1>13 DEF DeleteGrant
<1>14. CASE RotateToken(t)
  BY <1>14 DEF RotateToken, inviteVars
<1>15. CASE SetVisibility(t)
  BY <1>15 DEF SetVisibility, inviteVars
<1>16. QED
  BY <1>1, <1>2, <1>4, <1>5, <1>6, <1>7, <1>8, <1>9, <1>10, <1>11, <1>12, <1>13, <1>14, <1>15
     DEF Acts, Step, Checks

\* The link a request carries: that of the document when grant read it.
LEMMA TokenKept ==
  ASSUME TypeInv, NEW t \in Handlers, Acts(t)
  PROVE  req'[t].token \in {0, req[t].token, doc.token}
<1>1. \A label : GoOn(t, label) => req'[t].token = req[t].token
  BY DEF GoOn
<1>2. \A answer \in Answers \cup {"none"} : Close(t, answer) => req'[t].token = 0
  <2> SUFFICES ASSUME NEW answer \in Answers \cup {"none"}, Close(t, answer)
               PROVE  req'[t].token = 0
    OBVIOUS
  <2>1. answer \in Ops
    BY DEF Ops
  <2>2. [NoReq EXCEPT !.op = answer].token = 0
    BY <2>1, NoReqTrue DEF Reqs
  <2>3. QED
    BY <2>2 DEF Close, TypeInv, ThreadTypes
<1>3. req' = [req EXCEPT ![t] = AsGet(@)] => req'[t].token = req[t].token
  BY HeldHere DEF AsGet, Reqs, TypeInv, ThreadTypes
<1>4. CASE Start(t)
  BY <1>4, StartLeads DEF Beginning
<1>5. CASE Accepting(t)
  BY <1>5, AcceptingGoes DEF Apart
<1>6. CASE Checks(t)
  <2>1. CASE pc'[t] # "idle"
    BY <1>6, <2>1, CheckLeads
  <2>2. CASE pc'[t] = "idle"
    <3>1. \E outcome \in Answers \cup {"direct", "inherited"}, r \in Reqs :
            Decide(t, outcome, r) /\ Held("check", r)
      BY <1>6, CheckRowGoes, CheckDirectGoes, CheckInheritedGoes, HeldHere
         DEF Checks, Answers, Held, Acting, Granting
    <3>2. PICK outcome \in Answers \cup {"direct", "inherited"}, r \in Reqs :
            Decide(t, outcome, r) /\ Held("check", r)
      BY <3>1
    <3>3. CASE outcome = "allowed"
      <4>1. Goto(t, AfterCheck(r.op))
        BY <3>2, <3>3 DEF Decide, Checking
      <4>2. pc'[t] = AfterCheck(r.op)
        BY <4>1 DEF Goto, TypeInv, ThreadTypes
      <4>3. QED
        BY <2>2, <3>2, <4>2, AllowedLabels
    <3>4. CASE outcome \in {"direct", "inherited"}
      <4>1. Goto(t, outcome)
        BY <3>2, <3>4 DEF Decide, Checking
      <4>2. QED
        BY <2>2, <3>4, <4>1 DEF Goto, TypeInv, ThreadTypes
    <3>5. CASE outcome \in {"forbidden", "notFound"}
      <4>1. Close(t, outcome)
        BY <3>2, <3>5 DEF Decide, Checking
      <4>2. QED
        BY <1>2, <3>5, <4>1 DEF Answers
    <3>6. QED
      BY <3>3, <3>4, <3>5 DEF Answers
  <2>3. QED
    BY <2>1, <2>2
<1>7. CASE ForkRead(t) \/ ForkGrant(t) \/ ReadDoc(t) \/ DeleteGrants(t) \/ DeleteDoc(t)
             \/ AgentRow(t) \/ WriteGrant(t) \/ MailGrant(t) \/ FindInvite(t) \/ WriteInvite(t)
             \/ DeleteGrant(t) \/ RevokedDoc(t)
  <2>1. (\E label : GoOn(t, label)) \/ \E answer \in Answers \cup {"none"} : Close(t, answer)
    BY <1>7 DEF ForkRead, ForkGrant, ReadDoc, DeleteGrants, DeleteDoc, AgentRow, WriteGrant,
                MailGrant, FindInvite, WriteInvite, DeleteGrant, RevokedDoc, Answers
  <2>2. QED
    BY <1>1, <1>2, <2>1
<1>8. CASE GrantDoc(t)
  <2>1. req[t] \in Reqs
    BY HeldHere
  <2>2. Close(t, "none") \/ req' = [req EXCEPT ![t].token = doc.token]
    BY <1>8 DEF GrantDoc
  <2>3. QED
    BY <1>2, <2>1, <2>2 DEF TypeInv, ThreadTypes, Reqs
<1>9. CASE LookUpUser(t)
  <2>1. req[t] \in Reqs
    BY HeldHere
  <2>2. \E n : req' = [req EXCEPT ![t].prior = n]
    BY <1>9 DEF LookUpUser
  <2>3. QED
    BY <2>1, <2>2 DEF TypeInv, ThreadTypes, Reqs
<1>10. CASE RotateToken(t) \/ SetVisibility(t)
  <2>1. \/ Close(t, "allowed") \/ Close(t, "none") \/ GoOn(t, "rotate")
        \/ req' = [req EXCEPT ![t] = AsGet(@)]
    BY <1>10 DEF RotateToken, SetVisibility
  <2>2. QED
    BY <1>1, <1>2, <1>3, <2>1 DEF Answers
<1>11. CASE MetaRead(t)
  <2>1. req[t] \in Reqs
    BY HeldHere
  <2>2. \/ req' = [req EXCEPT ![t] = AsGet(@)]
        \/ req' = [req EXCEPT ![t] = [@ EXCEPT !.op = "visibility", !.rank = "owner"]]
    BY <1>11 DEF MetaRead
  <2>3. QED
    BY <1>3, <2>1, <2>2 DEF TypeInv, ThreadTypes, Reqs
<1>12. CASE PriorVisibility(t)
  BY <1>12, PriorVisibilityGoes
<1>13. QED
  BY <1>4, <1>5, <1>6, <1>7, <1>8, <1>9, <1>10, <1>11, <1>12 DEF Acts, Step, Checks

-----------------------------------------------------------------------------
(* The links: issued, exposed, and rotated.                                *)

Tokens == TokensTrue /\ EdgesTrue /\ PrivateLinkRotated

\* What a step of a thread does to the document's row.
LEMMA DocEffects ==
  ASSUME TypeInv, NEW t \in Handlers, Acts(t), doc'.exists
  PROVE  /\ doc.exists
         /\ RotateToken(t) => doc'.token = doc.token + 1 /\ doc'.public = doc.public
         /\ ~RotateToken(t) => doc'.token = doc.token
         /\ SetVisibility(t) => doc'.public = (req[t].level = 1)
         /\ ~SetVisibility(t) => doc'.public = doc.public
         /\ doc.token <= doc'.token
<1>1. doc \in Docs
  BY DEF TypeInv, SharedTypes
<1>2. CASE DeleteDoc(t)
  BY <1>2 DEF DeleteDoc, NoDoc
<1>3. CASE RotateToken(t)
  <2>1. doc' = IF doc.exists THEN [doc EXCEPT !.token = @ + 1] ELSE doc
    BY <1>3 DEF RotateToken
  <2>2. ~SetVisibility(t)
    BY <1>3 DEF RotateToken, SetVisibility
  <2>3. QED
    BY <1>1, <1>3, <2>1, <2>2 DEF Docs
<1>4. CASE SetVisibility(t)
  <2> DEFINE public == req[t].level = 1
  <2>1. doc' = IF doc.exists THEN [doc EXCEPT !.public = public] ELSE doc
    BY <1>4 DEF SetVisibility
  <2>2. ~RotateToken(t)
    BY <1>4 DEF RotateToken, SetVisibility
  <2> HIDE DEF public
  <2>3. doc.exists /\ doc'.token = doc.token /\ doc'.public = public
    BY <1>1, <2>1 DEF Docs
  <2>4. QED
    BY <1>1, <1>4, <2>2, <2>3 DEF Docs, public
<1>5. CASE doc' = doc /\ ~RotateToken(t) /\ ~SetVisibility(t)
  BY <1>1, <1>5 DEF Docs
<1>6. QED
  BY <1>2, <1>3, <1>4, <1>5, Effects

\* A link that becomes known is one in force, or the one a grant has read.
LEMMA KnowsEffects ==
  ASSUME TypeInv, NEW t \in Handlers, Acts(t), NEW p \in Principals
  PROVE  \/ knows'[p] = knows[p]
         \/ ReadDoc(t) /\ p = req[t].who /\ doc.exists /\ knows'[p] = knows[p] \cup {doc.token}
         \/ /\ MailGrant(t) /\ req[t].target \in Principals
            /\ LevelOf(req[t].target) # 0
            /\ p = IF req[t].target \in Agents THEN AgentOf[req[t].target] ELSE req[t].target
            /\ knows'[p] = knows[p] \cup {req[t].token}
<1>1. knows \in [Principals -> SUBSET Nat] /\ doc.token \in Nat /\ req[t].token \in Nat
  BY HeldHere DEF TypeInv, SharedTypes, Docs, Reqs
<1>2. CASE ReadDoc(t)
  <2>1. req[t].who \in Principals
    BY <1>2, HeldHere DEF ReadDoc, Held
  <2>2. knows' = knows \/ (doc.exists /\ Learn(req[t].who, doc.token))
    BY <1>2 DEF ReadDoc
  <2>3. QED
    BY <1>1, <1>2, <2>1, <2>2, LearnTyped
<1>3. CASE MailGrant(t)
  <2> DEFINE x == req[t].target
             to == IF x \in Agents THEN AgentOf[x]
                   ELSE IF req[t].prior = req[t].level THEN Nobody ELSE x
  <2>1. x \in Principals
    BY <1>3, HeldHere DEF MailGrant, Granting
  <2>2. knows' = knows \/ (LevelOf(x) # 0 /\ to \in Users /\ Learn(to, req[t].token))
    BY <1>3 DEF MailGrant
  <2>3. to \in Users => to = (IF x \in Agents THEN AgentOf[x] ELSE x)
    BY Constants DEF Principals
  <2> HIDE DEF x, to
  <2>4. knows' # knows => \/ knows'[p] = knows[p]
                          \/ p = to /\ knows'[p] = knows[p] \cup {req[t].token}
    <3>1. to \in Users => to \in Principals
      BY DEF Principals
    <3>2. QED
      BY <1>1, <2>2, <3>1, LearnTyped
  <2>5. QED
    BY <1>3, <2>1, <2>2, <2>3, <2>4 DEF x
<1>4. QED
  BY <1>2, <1>3, Effects

\* No statement shows a link newer than the row's: rotations only go up.
LEMMA TokensStay ==
  ASSUME TypeInv, TypeInv', Tokens, Observe, NEW t \in Handlers, Acts(t), Goes(t)
  PROVE  TokensTrue'
<1> SUFFICES ASSUME doc'.exists
             PROVE  /\ \A token \in exposed' : token <= doc'.token
                    /\ \A p \in Principals : \A token \in knows'[p] : token <= doc'.token
                    /\ \A u \in Handlers : req'[u].token <= doc'.token
  BY DEF TokensTrue
<1>0. PICK new \in Nat, old \in Nat : new = doc'.token /\ old = doc.token /\ old <= new
  BY DocEffects DEF TypeInv, SharedTypes, Docs
<1>1. /\ \A token \in exposed : token <= old
      /\ \A p \in Principals : \A token \in knows[p] : token <= old
      /\ \A u \in Handlers : req[u].token <= old
  BY <1>0, DocEffects DEF Tokens, TokensTrue
<1>2. \A token \in exposed' : token <= new
  <2>1. exposed' \subseteq exposed \cup {new}
    BY <1>0 DEF Observe
  <2>2. exposed \subseteq Nat
    BY DEF TypeInv, HistoryTypes
  <2>3. ASSUME NEW token \in exposed PROVE token <= new
    <3>1. token \in Nat /\ token <= old
      BY <1>1, <2>2
    <3>2. QED
      BY <1>0, <3>1
  <2>4. QED
    BY <2>1, <2>3
<1>3. ASSUME NEW p \in Principals, NEW token \in knows'[p] PROVE token <= new
  <2>1. token \in knows[p] \cup {old, req[t].token}
    BY <1>0, <1>3, KnowsEffects
  <2>2. knows[p] \subseteq Nat /\ req[t].token \in Nat
    BY HeldHere DEF TypeInv, SharedTypes, Reqs
  <2>3. QED
    BY <1>0, <1>1, <2>1, <2>2
<1>4. ASSUME NEW u \in Handlers PROVE req'[u].token <= new
  <2>1. req'[u].token \in {0, req[u].token, old}
    BY <1>0, TokenKept DEF Goes, Moves
  <2>2. req[u].token \in Nat
    BY HeldHere DEF Reqs
  <2>3. QED
    BY <1>0, <1>1, <2>1, <2>2
<1>5. QED
  BY <1>0, <1>2, <1>3, <1>4

\* set_visibility: a publication between its read and its UPDATE is noted.
LEMMA EdgesStay ==
  ASSUME TypeInv, TypeInv', Tokens, Observe, NEW t \in Handlers, Acts(t), Goes(t)
  PROVE  EdgesTrue'
<1> SUFFICES ASSUME NEW u \in Handlers, pc'[u] = "setVisibility", ~req'[u].public,
                    req'[u].level = 0, doc'.public
             PROVE  torn'
  BY DEF EdgesTrue
<1>1. CASE u = t
  <2>1. PriorVisibility(t)
    BY <1>1, Arrivals
  <2>2. req'[t].public = doc.public /\ doc' = doc
    BY <2>1, PriorVisibilityGoes DEF ReadsOnly, docVars
  <2>3. QED
    BY <1>1, <2>2
<1>2. CASE u # t
  <2>1. pc[u] = "setVisibility" /\ ~req[u].public /\ req[u].level = 0
    BY <1>2 DEF Goes, Moves
  <2>2. CASE doc.public
    <3>1. torn
      BY <2>1, <2>2 DEF Tokens, EdgesTrue
    <3>2. QED
      BY <3>1 DEF Observe
  <2>3. CASE ~doc.public
    BY <2>1, <2>3 DEF Observe
  <2>4. QED
    BY <2>2, <2>3
<1>3. QED
  BY <1>1, <1>2

\* set_visibility: whoever makes a public document private goes on to rotate its link.
LEMMA LinksStay ==
  ASSUME TypeInv, TypeInv', Tokens, Observe, NEW t \in Handlers, Acts(t), Goes(t)
  PROVE  PrivateLinkRotated'
<1> SUFFICES ASSUME doc'.exists, ~doc'.public, doc'.token \in exposed', ~torn'
             PROVE  \E u \in Handlers : pc'[u] = "rotate"
  BY DEF PrivateLinkRotated
<1>1. doc'.token \in exposed /\ ~torn
  BY DEF Observe
<1>2. doc.exists /\ doc.token \in Nat /\ exposed \subseteq Nat
  BY DocEffects DEF TypeInv, SharedTypes, HistoryTypes, Docs
<1>3. ~RotateToken(t)
  <2>1. \A token \in exposed : token <= doc.token
    BY <1>2 DEF Tokens, TokensTrue
  <2>2. PICK new \in Nat, old \in Nat : new = doc'.token /\ old = doc.token
    BY <1>2 DEF TypeInv, SharedTypes, Docs
  <2>3. new <= old
    BY <1>1, <2>1, <2>2
  <2>4. RotateToken(t) => new = old + 1
    BY <2>2, DocEffects
  <2>5. QED
    BY <2>2, <2>3, <2>4
<1>4. doc.token \in exposed
  BY <1>1, <1>3, DocEffects
<1>5. CASE ~doc.public
  <2>1. PICK u \in Handlers : pc[u] = "rotate"
    BY <1>1, <1>2, <1>4, <1>5 DEF Tokens, PrivateLinkRotated
  <2>2. u # t
    BY <1>3, <2>1, Arrivals
  <2>3. QED
    BY <2>1, <2>2 DEF Goes, Moves
<1>6. CASE doc.public
  <2>1. SetVisibility(t) /\ req[t].level # 1
    BY <1>6, DocEffects
  <2>2. req[t].level = 0
    <3>1. pc[t] = "setVisibility"
      BY <2>1 DEF SetVisibility
    <3>2. req[t].level \in 0..2 /\ req[t].level # 2
      BY <3>1, HeldHere DEF Held, Reqs, Levels
    <3>3. QED
      BY <2>1, <3>2
  <2>3. req[t].public
    BY <1>1, <1>6, <2>1, <2>2 DEF SetVisibility, Tokens, EdgesTrue
  <2>4. GoOn(t, "rotate")
    BY <1>2, <2>1, <2>3 DEF SetVisibility
  <2>5. QED
    BY <2>4 DEF GoOn, Goto, TypeInv, ThreadTypes
<1>7. QED
  BY <1>5, <1>6

\* A step of no thread, and a stop, which may lose a rotation.
LEMMA TokensApart ==
  ASSUME TypeInv, TypeInv', Tokens, Observe, Quiet \/ Stops
  PROVE  Tokens'
<1>1. UNCHANGED <<doc, knows>> /\ (torn => torn')
  BY DEF Quiet, Stops, Observe
<1>2. exposed' = exposed \cup IF doc.public THEN {doc.token} ELSE {}
  BY <1>1 DEF Observe
<1>3. TokensTrue'
  <2> SUFFICES ASSUME doc.exists
               PROVE  /\ \A token \in exposed' : token <= doc.token
                      /\ \A p \in Principals : \A token \in knows[p] : token <= doc.token
                      /\ \A u \in Handlers : req'[u].token <= doc.token
    BY <1>1 DEF TokensTrue
  <2>1. doc.token \in Nat
    BY DEF TypeInv, SharedTypes, Docs
  <2>2. \A token \in exposed \cup {doc.token} : token <= doc.token
    BY <2>1 DEF Tokens, TokensTrue
  <2>3. \A token \in exposed' : token <= doc.token
    BY <1>2, <2>2
  <2>4. \A u \in Handlers : req'[u].token \in {0, req[u].token}
    BY NoReqTrue DEF Quiet, Stops
  <2>5. \A u \in Handlers : req'[u].token <= doc.token
    BY <2>1, <2>4 DEF Tokens, TokensTrue
  <2>6. QED
    BY <2>3, <2>5 DEF Tokens, TokensTrue
<1>4. EdgesTrue'
  <2>1. \A u \in Handlers : pc'[u] = "setVisibility" => pc[u] = pc'[u] /\ req'[u] = req[u]
    BY DEF Quiet, Stops
  <2>2. QED
    BY <1>1, <2>1 DEF Tokens, EdgesTrue
<1>5. PrivateLinkRotated'
  <2> SUFFICES ASSUME doc.exists, ~doc.public, doc.token \in exposed', ~torn'
               PROVE  \E u \in Handlers : pc'[u] = "rotate"
    BY <1>1 DEF PrivateLinkRotated
  <2>1. PICK u \in Handlers : pc[u] = "rotate"
    BY <1>1, <1>2 DEF Tokens, PrivateLinkRotated
  <2>2. CASE Quiet
    BY <2>1, <2>2 DEF Quiet
  <2>3. CASE Stops
    <3>1. pc'[u] = "idle" /\ req'[u].op = "none"
      BY <2>3, NoReqTrue DEF Stops
    <3>2. torn'
      BY <2>1, <3>1 DEF Observe
    <3>3. QED
      BY <3>2
  <2>4. QED
    BY <2>2, <2>3
<1>6. QED
  BY <1>3, <1>4, <1>5 DEF Tokens

\* At the start nobody has been shown a link.
LEMMA TokensStart ==
  ASSUME Init
  PROVE  Tokens
<1>1. /\ doc \in [exists : {TRUE}, public : BOOLEAN, token : {1}]
      /\ knows = [p \in Principals |-> {}]
      /\ pc = [t \in Handlers |-> "idle"] /\ req = [t \in Handlers |-> NoReq]
  BY DEF Init, InviteInit
<1>2. doc.token = 1
  BY <1>1
<1>3. (doc.public => exposed = {1}) /\ (~doc.public => exposed = {})
  BY DEF Init
<1>4. TokensTrue
  <2>1. \A t \in Handlers : req[t].token = 0
    BY <1>1, NoReqTrue
  <2>2. \A token \in exposed : token = 1
    BY <1>3
  <2>3. QED
    BY <1>1, <1>2, <2>1, <2>2 DEF TokensTrue
<1>5. QED
  BY <1>1, <1>3, <1>4 DEF Tokens, EdgesTrue, PrivateLinkRotated

-----------------------------------------------------------------------------
(* One active invite per address.                                          *)

Mine(u) == {i \in Invites : For[i] = u}

\* Nothing but its creation makes an address's invite active.
LEMMA ActiveKept ==
  ASSUME TypeInv, TypeInv', UNCHANGED <<created, revoked, uses, now>> \/
                  \E t \in Handlers : Apart(t), NEW u \in Users, NEW i \in Mine(u)
  PROVE  Active(i)' => Active(i)
<1>1. i \in Invites /\ i \in Single
  BY Constants, SharingAssumption DEF Mine, Principals
<1>2. /\ created' = created /\ revoked \subseteq revoked' /\ now' = now
      /\ uses'[i] = uses[i] \/ uses'[i] = 0
  BY <1>1 DEF Apart
<1>3. uses[i] \in Nat
  BY <1>1 DEF TypeInv, SharedTypes
<1>4. QED
  BY <1>2, <1>3 DEF Active

\* The call that writes an invite was the only one about to, for its address.
LEMMA WriteInviteAlone ==
  ASSUME TypeInv, TypeInv', InvitesTrue, NEW t \in Handlers, WriteInvite(t), Goes(t)
  PROVE  InvitesTrue'
<1>1. PICK new \in Invites :
        /\ pc[t] = "createInvite" /\ For[new] = req[t].target /\ created' = created \cup {new}
        /\ uses' = [uses EXCEPT ![new] = IF new \in Single THEN 1 ELSE ManyUses]
        /\ UNCHANGED <<revoked, now, overlapped>>
  BY DEF WriteInvite
<1>2. pc'[t] = "idle"
  BY Leads
<1>3. ASSUME NEW i \in Invites, i # new PROVE Active(i)' => Active(i)
  BY <1>1, <1>3 DEF Active, TypeInv, SharedTypes
<1> SUFFICES ASSUME NEW u \in Users \ overlapped'
             PROVE  /\ \A i, j \in Invites :
                         For[i] = u /\ For[j] = u /\ Active(i)' /\ Active(j)' => i = j
                    /\ \A v \in Handlers : pc'[v] = "createInvite" /\ req'[v].target = u =>
                         /\ \A i \in Invites : For[i] = u => ~Active(i)'
                         /\ \A x \in Handlers :
                              pc'[x] = "createInvite" /\ req'[x].target = u => x = v
  BY DEF InvitesTrue
<1>4. u \in Users \ overlapped
  BY <1>1
<1>5. \A v \in Handlers : pc'[v] = "createInvite" =>
        v # t /\ pc[v] = "createInvite" /\ req'[v] = req[v]
  BY <1>2 DEF Goes, Moves
<1>6. CASE req[t].target = u
  <2>1. /\ \A i \in Invites : For[i] = u => ~Active(i)
        /\ \A x \in Handlers : pc[x] = "createInvite" /\ req[x].target = u => x = t
    BY <1>1, <1>4, <1>6 DEF InvitesTrue
  <2>2. \A v \in Handlers : ~(pc'[v] = "createInvite" /\ req'[v].target = u)
    BY <1>5, <2>1
  <2>3. \A i \in Invites : For[i] = u /\ Active(i)' => i = new
    BY <1>3, <2>1
  <2>4. QED
    BY <2>2, <2>3
<1>7. CASE req[t].target # u
  <2>1. \A i \in Invites : For[i] = u => i # new
    BY <1>1, <1>7
  <2>2. \A i \in Invites : For[i] = u /\ Active(i)' => Active(i)
    BY <1>3, <2>1
  <2>3. QED
    BY <1>4, <1>5, <2>2 DEF InvitesTrue
<1>8. QED
  BY <1>6, <1>7

\* A call that found no invite is alone about to write one, or two overlap.
LEMMA FindInviteAlone ==
  ASSUME TypeInv, TypeInv', NEW t \in Handlers, FindInvite(t), pc'[t] = "createInvite",
         req[t].target \notin overlapped'
  PROVE  /\ req'[t] = req[t]
         /\ \A i \in Invites : For[i] = req[t].target => ~Active(i)
         /\ \A x \in Handlers \ {t} : ~(pc[x] = "createInvite" /\ req[x].target = req[t].target)
<1> DEFINE others == {x \in Inside(t, {"createInvite"}) : req[x].target = req[t].target}
<1>1. ~Close(t, "allowed")
  BY DEF Close, Goto, TypeInv, ThreadTypes
<1>2. /\ ~ \E i \in Invites : For[i] = req[t].target /\ Active(i)
      /\ GoOn(t, "createInvite")
      /\ overlapped' = overlapped \cup (IF others = {} THEN {} ELSE {req[t].target})
  BY <1>1 DEF FindInvite
<1>3. others = {}
  <2>1. CASE others # {}
    BY <1>2, <2>1
  <2>2. QED
    BY <2>1
<1>4. QED
  BY <1>2, <1>3 DEF GoOn, Inside

\* _grant_via_invite: no statement gives an address a second active invite.
LEMMA InvitesStay ==
  ASSUME TypeInv, TypeInv', InvitesTrue, NEW t \in Handlers, Acts(t), Goes(t)
  PROVE  InvitesTrue'
<1>1. CASE WriteInvite(t)
  BY <1>1, WriteInviteAlone
<1>2. CASE ~WriteInvite(t)
  <2> SUFFICES ASSUME NEW u \in Users \ overlapped'
               PROVE  /\ \A i, j \in Invites :
                           For[i] = u /\ For[j] = u /\ Active(i)' /\ Active(j)' => i = j
                      /\ \A v \in Handlers : pc'[v] = "createInvite" /\ req'[v].target = u =>
                           /\ \A i \in Invites : For[i] = u => ~Active(i)'
                           /\ \A x \in Handlers :
                                pc'[x] = "createInvite" /\ req'[x].target = u => x = v
    BY DEF InvitesTrue
  <2>1. u \in Users \ overlapped /\ u # Nobody
    BY Effects, Constants DEF Principals
  <2>2. \A i \in Invites : For[i] = u /\ Active(i)' => Active(i)
    <3>1. UNCHANGED <<created, revoked, uses, now>> \/ Apart(t)
      BY <1>2, Effects
    <3>2. QED
      BY <3>1, ActiveKept DEF Mine
  <2>3. \A v \in Handlers \ {t} : pc'[v] = pc[v] /\ req'[v] = req[v]
    BY DEF Goes, Moves
  <2>4. CASE pc'[t] = "createInvite" /\ req'[t].target = u
    <3>1. FindInvite(t)
      BY <2>1, <2>4, Arrivals
    <3>2. req[t].target = u
      <4>1. GoOn(t, "createInvite")
        BY <2>4, <3>1 DEF FindInvite, Close, Goto, TypeInv, ThreadTypes
      <4>2. QED
        BY <2>4, <4>1 DEF GoOn
    <3>3. /\ \A i \in Invites : For[i] = u => ~Active(i)
          /\ \A x \in Handlers \ {t} : ~(pc[x] = "createInvite" /\ req[x].target = u)
      BY <2>4, <3>1, <3>2, FindInviteAlone
    <3>4. QED
      BY <2>2, <2>3, <3>3
  <2>5. CASE ~(pc'[t] = "createInvite" /\ req'[t].target = u)
    BY <2>1, <2>2, <2>3, <2>5 DEF InvitesTrue
  <2>6. QED
    BY <2>4, <2>5
<1>3. QED
  BY <1>1, <1>2

\* Nor does an account, a tick of the clock or a stop.
LEMMA InvitesApart ==
  ASSUME TypeInv, TypeInv', InvitesTrue, Quiet \/ Stops
  PROVE  InvitesTrue'
<1>1. \A i \in Invites : Active(i)' = Active(i)
  BY DEF Quiet, Stops, Active
<1>2. overlapped' = overlapped
  BY DEF Quiet, Stops
<1>3. \A v \in Handlers : pc'[v] = "createInvite" => pc[v] = "createInvite" /\ req'[v] = req[v]
  BY DEF Quiet, Stops
<1>4. QED
  BY <1>1, <1>2, <1>3 DEF InvitesTrue

\* At the start there is no invite.
LEMMA InvitesStart ==
  ASSUME Init
  PROVE  InvitesTrue
<1>1. created = {} /\ pc = [t \in Handlers |-> "idle"]
  BY DEF Init, InviteInit
<1>2. QED
  BY <1>1 DEF InvitesTrue, Active

-----------------------------------------------------------------------------
(* Who views the document.                                                 *)

\* Who views: what check_permission's specification comes to for that rank.
LEMMA ViewsMeans ==
  ASSUME SharedTypes, NEW p \in Principals
  PROVE  Views(p) <=>
           /\ doc.exists
           /\ \/ p = Owner \/ LevelOf(p) > 0 \/ UserOf(p) = Owner
              \/ UserOf(p) # Nobody /\ grants[UserOf(p)] > 0
              \/ doc.public
<1>1. LevelOf(p) \in 0..2
  BY LevelTyped DEF Levels
<1>2. UserOf(p) # Nobody => grants[UserOf(p)] \in 0..2
  BY Constants DEF UserOf, SharedTypes, Levels
<1>3. Needs("view") = 1
  BY DEF Needs
<1>4. /\ Standing(p) \in 0..3
      /\ Standing(p) > 0 <=> \/ p = Owner \/ LevelOf(p) > 0 \/ UserOf(p) = Owner
                             \/ UserOf(p) # Nobody /\ grants[UserOf(p)] > 0
                             \/ doc.public
  BY <1>1, <1>2 DEF Standing, UserOf
<1>5. Views(p) <=> doc.exists /\ Standing(p) > 0
  BY <1>3, <1>4 DEF Views, Verdict
<1>6. QED
  BY <1>4, <1>5

\* Everybody views a public document; here of the state after a step.
LEMMA PublicViewed ==
  ASSUME SharedTypes', NEW p \in Principals, doc'.exists, doc'.public
  PROVE  Views(p)'
<1>1. LevelOf(p)' \in 0..2
  BY DEF SharedTypes, LevelOf, Principals, Levels
<1>2. UserOf(p) # Nobody => grants'[UserOf(p)] \in 0..2
  BY Constants DEF UserOf, SharedTypes, Levels
<1>3. Standing(p)' > 0
  BY <1>1, <1>2 DEF Standing, UserOf
<1>4. Needs("view") = 1
  BY DEF Needs
<1>5. Standing(p)' \in 0..3
  BY <1>1, <1>2 DEF Standing, UserOf
<1>6. QED
  BY <1>3, <1>4, <1>5 DEF Views, Verdict

\* list_documents_for_principal, the searches, the bookmarks and the forks show
\* nothing that check_permission would not.
LEMMA ShownIsViewable ==
  ASSUME SharedTypes, NEW p \in Principals, Shown(p)
  PROVE  Views(p)
<1>1. Listed(p) => Views(p)
  BY ViewsMeans DEF Listed
<1>2. SharedWith(p) => Views(p)
  BY ViewsMeans DEF SharedWith
<1>3. Explored => Views(p)
  BY ViewsMeans DEF Explored
<1>4. p \in Users /\ Bookmarked(p) => Views(p)
  BY ViewsMeans DEF Bookmarked, LevelOf
<1>5. SourceLinked(p) => Views(p)
  <2> DEFINE viewer == IF p \in Agents /\ AgentOf[p] # Nobody THEN AgentOf[p] ELSE p
  <2>1. viewer = p \/ (viewer = UserOf(p) /\ UserOf(p) \in Users)
    BY Constants DEF UserOf
  <2>2. viewer = UserOf(p) /\ UserOf(p) \in Users => LevelOf(viewer) = grants[UserOf(p)]
    BY DEF LevelOf
  <2>3. SourceLinked(p) => doc.exists /\ (doc.public \/ viewer = Owner \/ LevelOf(viewer) > 0)
    BY DEF SourceLinked
  <2> HIDE DEF viewer
  <2>4. QED
    BY <2>1, <2>2, <2>3, ViewsMeans, Constants DEF Principals
<1>6. QED
  BY <1>1, <1>2, <1>3, <1>4, <1>5 DEF Shown, Found

-----------------------------------------------------------------------------
(* Who a revocation has shut out.                                          *)

\* A caller who may not view gets nothing from a check, whatever it has read.
LEMMA CheckRefuses ==
  ASSUME TypeInv, NEW t \in Handlers, Checks(t), doc.exists, ~Views(req[t].who),
         pc[t] \in {"direct", "inherited"} => ~req[t].public
  PROVE  /\ pc'[t] \in {"idle", "direct", "inherited"}
         /\ pc'[t] \in {"direct", "inherited"} => ~req'[t].public
<1> DEFINE p == req[t].who
<1>1. p \in Principals
  BY HeldHere, CheckLeads DEF Held
<1>2. /\ p # Owner /\ ~(LevelOf(p) > 0) /\ UserOf(p) # Owner
      /\ UserOf(p) # Nobody => ~(grants[UserOf(p)] > 0)
      /\ ~doc.public
  BY <1>1, ViewsMeans DEF TypeInv
<1>3. CASE CheckRow(t)
  <2>1. RowOutcome(WithRow(t)) = "direct"
    BY <1>2, <1>3, CheckRowGoes DEF RowOutcome
  <2>2. pc'[t] = "direct" /\ req'[t] = WithRow(t) /\ WithRow(t).public = doc.public
    BY <1>3, <2>1, CheckRowGoes
  <2>3. QED
    BY <1>2, <2>2
<1>4. CASE CheckDirect(t)
  <2>1. pc[t] = "direct" /\ req[t] \in Reqs
    BY <1>4, CheckDirectGoes, HeldHere
  <2>2. Ungranted(req[t]) = "notFound"
    BY <2>1, UngrantedOutcome
  <2>3. DirectOutcome(req[t]) \in {"inherited", "notFound"}
    BY <1>2, <2>2 DEF DirectOutcome
  <2>4. pc'[t] = "idle" \/ (pc'[t] = "inherited" /\ req'[t] = req[t])
    BY <1>4, <2>3, CheckDirectGoes
  <2>5. QED
    BY <2>1, <2>4
<1>5. CASE CheckInherited(t)
  <2>1. pc[t] = "inherited" /\ req[t] \in Reqs /\ Held("inherited", req[t])
    BY <1>5, CheckInheritedGoes, HeldHere
  <2>2. AgentOf[p] = UserOf(p) /\ UserOf(p) # Nobody
    BY <2>1, Constants DEF Held, UserOf, Principals
  <2>3. Ungranted(req[t]) = "notFound"
    BY <2>1, UngrantedOutcome
  <2>4. InheritedOutcome(req[t]) = "notFound"
    BY <1>2, <2>2, <2>3 DEF InheritedOutcome
  <2>5. pc'[t] = "idle"
    BY <1>5, <2>4, CheckInheritedGoes
  <2>6. QED
    BY <2>5
<1>6. QED
  BY <1>3, <1>4, <1>5 DEF Checks

\* No call of somebody outside comes to read the document.
LEMMA OutsideCalls ==
  ASSUME TypeInv, OutsideTrue, NEW t \in Handlers, Acts(t), Goes(t), doc.exists,
         NEW p \in outside, req'[t].who = p
  PROVE  pc'[t] # "read" /\ (pc'[t] \in {"direct", "inherited"} => ~req'[t].public)
<1>1. p \in Principals /\ ~Reaches(p) /\ ~Views(p)
  BY DEF OutsideTrue, TypeInv, HistoryTypes, Reaches
<1>2. CASE Checks(t)
  <2>1. CASE pc'[t] = "idle"
    BY <2>1
  <2>2. CASE pc'[t] # "idle"
    <3>1. req[t].who = p
      BY <1>2, <2>2, CheckLeads
    <3>2. pc[t] \in {"direct", "inherited"} => ~req[t].public
      BY <3>1 DEF OutsideTrue
    <3>3. QED
      BY <1>1, <1>2, <3>1, <3>2, CheckRefuses
  <2>3. QED
    BY <2>1, <2>2
<1>3. CASE ~Checks(t)
  <2>1. pc'[t] \notin {"direct", "inherited"}
    BY <1>3, Arrivals DEF Checks
  <2>2. CASE Start(t) /\ pc'[t] = "read"
    <3>1. \/ Listed(p)
          \/ \E i \in Invites : Active(i) /\ For[i] \in {p, Nobody}
      BY <2>2, StartLeads DEF Beginning
    <3>2. ~Listed(p)
      BY <1>1, ViewsMeans DEF Listed, TypeInv
    <3>3. QED
      BY <1>1, <3>1, <3>2 DEF Reaches
  <2>3. QED
    BY <1>3, <2>1, <2>2, Arrivals
<1>4. QED
  BY <1>2, <1>3

\* Nobody outside is told a link.
LEMMA OutsideLearns ==
  ASSUME TypeInv, OutsideTrue, NEW t \in Handlers, Acts(t), doc.exists, NEW p \in outside
  PROVE  knows'[p] = knows[p]
<1>1. p \in Principals /\ ~Reaches(p)
  BY DEF OutsideTrue, TypeInv, HistoryTypes
<1>2. ~(ReadDoc(t) /\ p = req[t].who)
  BY DEF ReadDoc, OutsideTrue
<1>3. ASSUME req[t].target \in Principals, LevelOf(req[t].target) # 0,
             p = IF req[t].target \in Agents THEN AgentOf[req[t].target] ELSE req[t].target
      PROVE  FALSE
  <2>1. Views(req[t].target)
    <3>1. LevelOf(req[t].target) > 0
      BY <1>3, LevelTyped DEF TypeInv, Levels
    <3>2. QED
      BY <1>3, <3>1, ViewsMeans DEF TypeInv
  <2>2. QED
    BY <1>1, <1>3, <2>1 DEF Reaches
<1>4. QED
  BY <1>1, <1>2, <1>3, KnowsEffects

\* Who stays outside: no link they hold comes to be in force.
LEMMA OutsideStays ==
  ASSUME TypeInv, TypeInv', Tokens, OutsideTrue, Observe, NEW t \in Handlers, Acts(t), Goes(t),
         NEW p \in outside, doc'.exists, ~doc'.public
  PROVE  /\ doc'.token \notin exposed' /\ doc'.token \notin knows'[p]
         /\ \A u \in Handlers : req'[u].who = p =>
              pc'[u] # "read" /\ (pc'[u] \in {"direct", "inherited"} => ~req'[u].public)
<1>1. doc.exists /\ doc.token \in Nat /\ p \in Principals
  BY DocEffects DEF TypeInv, SharedTypes, HistoryTypes, Docs
<1>2. exposed' = exposed /\ knows'[p] = knows[p]
  BY <1>1, OutsideLearns DEF Observe
<1>3. doc'.token \notin exposed \cup knows[p]
  <2>1. CASE RotateToken(t)
    <3>1. \A token \in exposed \cup knows[p] : token <= doc.token
      BY <1>1 DEF Tokens, TokensTrue
    <3>2. PICK old \in Nat : old = doc.token /\ doc'.token = old + 1
      BY <1>1, <2>1, DocEffects
    <3>3. old + 1 \notin exposed \cup knows[p]
      BY <3>1, <3>2
    <3>4. QED
      BY <3>2, <3>3
  <2>2. CASE ~RotateToken(t)
    BY <1>1, <2>2, DocEffects DEF OutsideTrue
  <2>3. QED
    BY <2>1, <2>2
<1>4. ASSUME NEW u \in Handlers, req'[u].who = p
      PROVE  pc'[u] # "read" /\ (pc'[u] \in {"direct", "inherited"} => ~req'[u].public)
  <2>1. CASE u = t
    BY <1>1, <1>4, <2>1, OutsideCalls
  <2>2. CASE u # t
    <3>1. pc'[u] = pc[u] /\ req'[u] = req[u]
      BY <2>2 DEF Goes, Moves
    <3>2. QED
      BY <1>1, <1>4, <3>1 DEF OutsideTrue
  <2>3. QED
    BY <2>1, <2>2
<1>5. QED
  BY <1>2, <1>3, <1>4

\* A revocation that ran to its end on a private document has rotated its link.
LEMMA SeveredRotates ==
  ASSUME TypeInv, NEW t \in Handlers, Acts(t), Goes(t), Severed, ~doc'.public
  PROVE  RotateToken(t)
<1>1. PICK s \in Handlers : /\ pc[s] \in {"revokedDoc", "rotate"}
                            /\ Answered(s) \/ pc'[s] = "check"
  BY DEF Severed
<1>2. s = t
  BY <1>1 DEF Goes, Moves, Answered
<1>3. CASE pc[t] = "revokedDoc"
  <2>1. RevokedDoc(t) /\ doc' = doc /\ doc'.exists
    BY <1>3, Arrivals, RevokedDocGoes DEF ReadsOnly, docVars, Severed
  <2>2. pc'[t] = "idle"
    BY <1>1, <1>2, <2>1, Leads DEF Answered
  <2>3. ~GoOn(t, "rotate")
    BY <2>2 DEF GoOn, Goto, TypeInv, ThreadTypes
  <2>4. QED
    BY <2>1, <2>3 DEF RevokedDoc
<1>4. CASE pc[t] = "rotate"
  BY <1>4, Arrivals
<1>5. QED
  BY <1>1, <1>2, <1>3, <1>4

\* No statement opens the document to anybody who is still shut out.
LEMMA OutsideStay ==
  ASSUME TypeInv, TypeInv', Tokens, OutsideTrue, Observe, NEW t \in Handlers, Acts(t), Goes(t)
  PROVE  OutsideTrue'
<1> SUFFICES ASSUME NEW p \in outside'
             PROVE  /\ ~Reaches(p)'
                    /\ doc'.exists =>
                         /\ doc'.token \notin exposed' /\ doc'.token \notin knows'[p]
                         /\ \A u \in Handlers : req'[u].who = p =>
                              /\ pc'[u] # "read"
                              /\ pc'[u] \in {"direct", "inherited"} => ~req'[u].public
  BY DEF OutsideTrue
<1>1. ~Reaches(p)' /\ (p \in outside \/ (Severed /\ p \in Principals /\ ~InFlight(p)'))
  BY DEF Observe
<1>2. ASSUME doc'.exists
      PROVE  /\ doc'.token \notin exposed' /\ doc'.token \notin knows'[p]
             /\ \A u \in Handlers : req'[u].who = p =>
                  /\ pc'[u] # "read"
                  /\ pc'[u] \in {"direct", "inherited"} => ~req'[u].public
  <2>1. ~doc'.public
    <3>1. SharedTypes' /\ p \in Principals /\ ~Views(p)'
      BY <1>1 DEF TypeInv, HistoryTypes, Reaches
    <3>2. doc'.public => Views(p)'
      BY <1>2, <3>1, PublicViewed
    <3>3. QED
      BY <3>1, <3>2
  <2>2. CASE p \in outside
    BY <1>2, <2>1, <2>2, OutsideStays
  <2>3. CASE Severed /\ p \in Principals /\ ~InFlight(p)'
    <3>1. RotateToken(t)
      BY <2>1, <2>3, SeveredRotates
    <3>2. exposed' = exposed /\ knows' = knows
      BY <2>1, <3>1 DEF Observe, RotateToken
    <3>3. doc.exists /\ \A token \in exposed \cup knows[p] : token <= doc.token
      BY <1>2, <2>3, DocEffects DEF Tokens, TokensTrue
    <3>4. PICK old \in Nat : old = doc.token /\ doc'.token = old + 1
      BY <1>2, <3>1, DocEffects DEF TypeInv, SharedTypes, Docs
    <3>5. old + 1 \notin exposed \cup knows[p]
      BY <3>3, <3>4
    <3>6. \A u \in Handlers : req'[u].who = p => pc'[u] = "idle"
      BY <2>3 DEF InFlight
    <3>7. QED
      BY <3>2, <3>4, <3>5, <3>6
  <2>4. QED
    BY <1>1, <2>2, <2>3
<1>3. QED
  BY <1>1, <1>2

\* Nor does an account that appears, an agent that is cancelled, or a stop.
LEMMA OutsideApart ==
  ASSUME TypeInv, TypeInv', OutsideTrue, Observe, Quiet \/ Stops
  PROVE  OutsideTrue'
<1>1. ~Severed
  <2>1. ASSUME NEW s \in Handlers, pc[s] \in {"revokedDoc", "rotate"}
        PROVE  ~Answered(s) /\ pc'[s] # "check"
    <3>1. CASE Quiet
      BY <2>1, <3>1 DEF Quiet, Answered
    <3>2. CASE Stops
      BY <2>1, <3>2, NoReqTrue DEF Stops, Answered
    <3>3. QED
      BY <3>1, <3>2
  <2>2. QED
    BY <2>1 DEF Severed
<1>2. UNCHANGED <<doc, knows>>
  BY DEF Quiet, Stops
<1> SUFFICES ASSUME NEW p \in outside'
             PROVE  /\ ~Reaches(p)'
                    /\ doc'.exists =>
                         /\ doc'.token \notin exposed' /\ doc'.token \notin knows'[p]
                         /\ \A u \in Handlers : req'[u].who = p =>
                              /\ pc'[u] # "read"
                              /\ pc'[u] \in {"direct", "inherited"} => ~req'[u].public
  BY DEF OutsideTrue
<1>3. ~Reaches(p)' /\ p \in outside
  BY <1>1 DEF Observe
<1>4. ASSUME doc'.exists PROVE exposed' = exposed
  <2>1. SharedTypes' /\ p \in Principals /\ ~Views(p)'
    BY <1>3 DEF TypeInv, HistoryTypes, Reaches
  <2>2. doc'.public => Views(p)'
    BY <1>4, <2>1, PublicViewed
  <2>3. QED
    BY <2>1, <2>2 DEF Observe
<1>5. \A u \in Handlers : pc'[u] # "idle" => pc'[u] = pc[u] /\ req'[u] = req[u]
  BY DEF Quiet, Stops
<1>6. QED
  BY <1>2, <1>3, <1>4, <1>5 DEF OutsideTrue

\* At the start nobody has been shut out.
LEMMA OutsideStart ==
  ASSUME Init
  PROVE  OutsideTrue
BY DEF Init, OutsideTrue

-----------------------------------------------------------------------------
(* Answers that were right.                                                *)

\* What a check that has read the row would answer is what is right now, as long
\* as the row has not changed.
Agrees ==
    \A r \in Reqs :
        SharedTypes /\ r.who \in Principals \ {Owner} /\ Unmoved(r)
          => Verdict(r.who, r.rank) = Mixed(r, LevelOf(r.who))

\* check_permission: row and grants together give the rank at this instant.
LEMMA AgreesNow == Agrees
<1> SUFFICES ASSUME NEW r \in Reqs, SharedTypes, r.who \in Principals \ {Owner}, Unmoved(r)
             PROVE  Verdict(r.who, r.rank) = Mixed(r, LevelOf(r.who))
  BY DEF Agrees
<1> DEFINE p == r.who
           user == UserOf(p)
<1>1. LevelOf(p) \in 0..2
  BY LevelTyped DEF Levels
<1>2. user # Nobody => grants[user] \in 0..2
  BY Constants DEF UserOf, SharedTypes, Levels
<1>3. Standing(p) = IF LevelOf(p) > 0 THEN LevelOf(p)
                    ELSE IF user = Owner THEN 2
                    ELSE IF user # Nobody /\ grants[user] > 0 THEN grants[user]
                    ELSE IF r.public THEN 1 ELSE 0
  BY DEF Standing, UserOf, Unmoved
<1>4. Mixed(r, LevelOf(p)) = IF LevelOf(p) > 0 THEN Permits(LevelOf(p), r.rank)
                    ELSE IF user = Owner THEN Permits(2, r.rank)
                    ELSE IF user # Nobody /\ grants[user] > 0 THEN Permits(grants[user], r.rank)
                    ELSE IF r.public THEN Permits(1, r.rank) ELSE "notFound"
  BY DEF Mixed, UserOf
<1>5. Verdict(p, r.rank) = IF Standing(p) = 0 THEN "notFound" ELSE Permits(Standing(p), r.rank)
  BY DEF Verdict, Permits, Unmoved
<1> HIDE DEF p, user
<1>6. QED
  BY <1>1, <1>2, <1>3, <1>4, <1>5 DEF p

\* The same of the state after a step.
LEMMA AgreesThen == Agrees'
BY AgreesNow, PTL

\* What a step adds to what a check may rightly answer.
LEMMA Observed ==
  ASSUME TypeInv, Observe, NEW t \in Handlers
  PROVE  /\ pc'[t] \in Checking => Verdict(req[t].who, req[t].rank)' \in right'[t]
         /\ pc'[t] \in {"check", "forkRead"} => moved'[t] = 0
         /\ pc'[t] \in {"direct", "inherited", "forkGrant"} =>
              /\ right[t] \subseteq right'[t]
              /\ AccessChanges /\ moved[t] < 2 => moved'[t] = moved[t] + 1
              /\ ~AccessChanges => moved'[t] = moved[t]
              /\ moved[t] = 2 => moved'[t] = 2
              /\ moved'[t] \in 0..2 /\ moved[t] \in 0..2
<1> DEFINE now_(u) == {Verdict(req[u].who, req[u].rank)'}
           R(u) == CASE pc'[u] \in {"check", "forkRead"} -> now_(u)
                     [] pc'[u] \in {"direct", "inherited", "forkGrant"} -> right[u] \cup now_(u)
                     [] OTHER -> {}
           M(u) == IF pc'[u] \notin {"direct", "inherited", "forkGrant"} THEN 0
                   ELSE IF AccessChanges /\ moved[u] < 2 THEN moved[u] + 1 ELSE moved[u]
<1>1. right' = [u \in Handlers |-> R(u)] /\ moved' = [u \in Handlers |-> M(u)]
  BY DEF Observe
<1>2. right'[t] = R(t) /\ moved'[t] = M(t)
  <2> HIDE DEF R, M
  <2> QED
    BY <1>1
<1>3. moved[t] \in 0..2
  BY DEF TypeInv, HistoryTypes
<1>4. /\ pc'[t] \in {"check", "forkRead"} => R(t) = now_(t)
      /\ pc'[t] \in {"direct", "inherited", "forkGrant"} => R(t) = right[t] \cup now_(t)
  <2> HIDE DEF now_
  <2> QED
    OBVIOUS
<1>5. /\ pc'[t] \in Checking => Verdict(req[t].who, req[t].rank)' \in right'[t]
      /\ pc'[t] \in {"direct", "inherited", "forkGrant"} => right[t] \subseteq right'[t]
  <2>1. Verdict(req[t].who, req[t].rank)' \in now_(t)
    OBVIOUS
  <2> HIDE DEF now_, R
  <2>2. QED
    BY <1>2, <1>4, <2>1 DEF Checking
<1>6. QED
  <2> HIDE DEF R, now_
  <2> QED
    BY <1>2, <1>3, <1>5

\* What a check will answer depends on its request and on the grants.
LEMMA MixedSame ==
  ASSUME grants' = grants, NEW r, NEW n
  PROVE  Mixed(r, n)' = Mixed(r, n)
BY DEF Mixed

\* A check under way, while somebody else takes a step.
LEMMA CheckWaits ==
  ASSUME TypeInv, TypeInv', Observe, NEW u \in Handlers, CheckTrue(u),
         pc'[u] = pc[u], req'[u] = req[u], pc[u] \in {"direct", "inherited", "forkGrant"},
         \/ UNCHANGED <<grants, agentGrants>>
         \/ /\ doc' = doc
            /\ \/ agentGrants' = agentGrants
               \/ grants' = grants
               \/ agentGrants' = [a \in Agents |-> 0]
  PROVE  CheckTrue(u)'
<1>1. PICK r \in Reqs : r = req[u]
  BY HeldHere
<1>2. /\ r.who \in Principals \ {Owner}
      /\ pc[u] = "inherited" => r.who \in Agents /\ r.who \notin Users
  BY <1>1, HeldHere, Constants DEF Held, Principals
<1>3. /\ Verdict(r.who, r.rank)' \in right'[u]
      /\ right[u] \subseteq right'[u] /\ moved[u] \in 0..2 /\ moved'[u] \in 0..2
      /\ AccessChanges /\ moved[u] < 2 => moved'[u] = moved[u] + 1
      /\ ~AccessChanges => moved'[u] = moved[u]
      /\ moved[u] = 2 => moved'[u] = 2
  <2>1. Verdict(req[u].who, req[u].rank)' = Verdict(r.who, r.rank)'
    BY <1>1
  <2>2. QED
    BY <2>1, Observed DEF Checking
<1>4. Unmoved(r)' => Verdict(r.who, r.rank)' = Mixed(r, LevelOf(r.who))'
  BY <1>2, AgreesThen DEF Agrees, TypeInv
<1>5. CASE ~AccessChanges
  <2>1. /\ doc'.exists = doc.exists /\ doc'.public = doc.public
        /\ grants' = grants /\ agentGrants' = agentGrants /\ moved'[u] = moved[u]
    BY <1>3, <1>5 DEF AccessChanges
  <2>2. /\ Unmoved(r)' = Unmoved(r) /\ Mixed(r, 0)' = Mixed(r, 0)
        /\ LevelOf(r.who)' = LevelOf(r.who)
    BY <2>1, MixedSame DEF Unmoved, LevelOf
  <2>3. Mixed(r, LevelOf(r.who))' = Mixed(r, LevelOf(r.who))
    BY <2>1, <2>2 DEF Mixed
  <2>4. /\ pc[u] \in {"direct", "forkGrant"} =>
             /\ moved[u] = 0 => Unmoved(r)
             /\ moved[u] < 2 => Mixed(r, LevelOf(r.who)) \in right[u]
        /\ pc[u] = "inherited" =>
             /\ moved[u] = 0 => Unmoved(r) /\ agentGrants[r.who] = 0
             /\ moved[u] < 2 => Mixed(r, 0) \in right[u]
    BY <1>1 DEF CheckTrue
  <2>5. /\ pc[u] \in {"direct", "forkGrant"} =>
             /\ moved'[u] = 0 => Unmoved(r)'
             /\ moved'[u] < 2 => Mixed(r, LevelOf(r.who))' \in right'[u]
        /\ pc[u] = "inherited" =>
             /\ moved'[u] = 0 => Unmoved(r)' /\ agentGrants'[r.who] = 0
             /\ moved'[u] < 2 => Mixed(r, 0)' \in right'[u]
    BY <1>3, <2>1, <2>2, <2>3, <2>4
  <2>6. QED
    BY <1>1, <1>3, <2>5 DEF CheckTrue
<1>6. CASE AccessChanges
  <2>1. moved'[u] # 0 /\ (moved'[u] < 2 => moved[u] = 0)
    BY <1>3, <1>6
  <2>2. ASSUME moved[u] = 0, pc[u] \in {"direct", "forkGrant"}
        PROVE  Mixed(r, LevelOf(r.who))' \in right'[u]
    <3>1. Unmoved(r) /\ Mixed(r, LevelOf(r.who)) \in right[u]
      BY <1>1, <2>2 DEF CheckTrue
    <3>2. CASE UNCHANGED <<grants, agentGrants>>
      <4>1. LevelOf(r.who)' = LevelOf(r.who)
        BY <3>2 DEF LevelOf
      <4>2. Mixed(r, LevelOf(r.who))' = Mixed(r, LevelOf(r.who))
        BY <3>2, <4>1 DEF Mixed
      <4>3. QED
        BY <1>3, <3>1, <4>2
    <3>3. CASE doc' = doc
      BY <1>3, <1>4, <3>1, <3>3 DEF Unmoved
    <3>4. QED
      BY <3>2, <3>3
  <2>3. ASSUME moved[u] = 0, pc[u] = "inherited"
        PROVE  Mixed(r, 0)' \in right'[u]
    <3>1. Unmoved(r) /\ agentGrants[r.who] = 0 /\ Mixed(r, 0) \in right[u]
      BY <1>1, <2>3 DEF CheckTrue
    <3>2. CASE grants' = grants
      BY <1>3, <3>1, <3>2, MixedSame
    <3>3. CASE doc' = doc /\ agentGrants'[r.who] = 0
      <4>1. LevelOf(r.who)' = 0
        BY <1>2, <2>3, <3>3 DEF LevelOf
      <4>2. Mixed(r, LevelOf(r.who))' = Mixed(r, 0)'
        BY <4>1 DEF Mixed
      <4>3. QED
        BY <1>3, <1>4, <3>1, <3>3, <4>2 DEF Unmoved
    <3>4. agentGrants' = agentGrants \/ agentGrants' = [a \in Agents |-> 0] =>
            agentGrants'[r.who] = 0
      BY <1>2, <2>3, <3>1
    <3>5. QED
      BY <3>2, <3>3, <3>4
  <2>4. /\ pc[u] \in {"direct", "forkGrant"} =>
             /\ moved'[u] = 0 => Unmoved(r)'
             /\ moved'[u] < 2 => Mixed(r, LevelOf(r.who))' \in right'[u]
        /\ pc[u] = "inherited" =>
             /\ moved'[u] = 0 => Unmoved(r)' /\ agentGrants'[r.who] = 0
             /\ moved'[u] < 2 => Mixed(r, 0)' \in right'[u]
    BY <2>1, <2>2, <2>3
  <2>5. QED
    BY <1>1, <1>3, <2>4 DEF CheckTrue
<1>7. QED
  BY <1>5, <1>6

\* A step that only reads changes nobody's access, nor what a check will answer.
LEMMA ReadsAccess ==
  ASSUME ReadsOnly
  PROVE  /\ ~AccessChanges /\ doc' = doc /\ grants' = grants /\ agentGrants' = agentGrants
         /\ \A p : LevelOf(p)' = LevelOf(p)
         /\ \A r, n : Mixed(r, n)' = Mixed(r, n)
         /\ \A r : Unmoved(r)' = Unmoved(r)
BY DEF ReadsOnly, inviteVars, docVars, AccessChanges, LevelOf, Mixed, Unmoved

\* The check whose step it is.
LEMMA CheckGoes ==
  ASSUME TypeInv, TypeInv', Observe, NEW t \in Handlers, CheckTrue(t), Acts(t), Goes(t)
  PROVE  CheckTrue(t)'
<1>1. /\ pc'[t] \in Checking => Verdict(req[t].who, req[t].rank)' \in right'[t]
      /\ pc'[t] \in {"check", "forkRead"} => moved'[t] = 0
  BY Observed
<1>2. CASE pc'[t] = "direct" \/ pc'[t] = "forkGrant"
  <2>1. PICK r \in Reqs : r = req'[t]
    BY DEF TypeInv, ThreadTypes
  <2>2. r.who \in Principals \ {Owner}
    BY <1>2, <2>1, Constants DEF TypeInv, ThreadTrue, Held, Principals
  <2>3. ReadsOnly /\ moved[t] = 0 /\ Unmoved(r)
    <3>1. CASE pc'[t] = "direct"
      <4>1. CheckRow(t) /\ pc[t] = "check"
        BY <3>1, Arrivals, CheckRowGoes
      <4>2. RowOutcome(WithRow(t)) = "direct"
        <5>1. WithRow(t) \in Reqs /\ Held("check", WithRow(t)) /\ WithRow(t).op = req[t].op
          BY <4>1, CheckRowGoes
        <5>2. AfterCheck(req[t].op) # "direct"
          BY <5>1, AllowedLabels
        <5>3. QED
          BY <3>1, <4>1, <5>2, CheckRowGoes
      <4>3. r = WithRow(t) /\ r.public = doc.public /\ doc.exists
        BY <2>1, <4>1, <4>2, CheckRowGoes DEF RowOutcome
      <4>4. QED
        BY <4>1, <4>3, CheckRowGoes DEF CheckTrue, Unmoved
    <3>2. CASE pc'[t] = "forkGrant"
      <4>1. ForkRead(t) /\ pc[t] = "forkRead" /\ ReadsOnly
        BY <3>2, Arrivals, ForkGoes DEF ForkRead
      <4>2. doc.exists /\ ~doc.public /\ GoOn(t, "forkGrant")
        BY <3>2, <4>1 DEF ForkRead, Close, Goto, TypeInv, ThreadTypes
      <4>3. r = req[t] /\ ~r.public /\ r.public \in BOOLEAN /\ doc.public \in BOOLEAN
        BY <2>1, <4>1, <4>2, HeldHere DEF GoOn, Held, Reqs, TypeInv, SharedTypes, Docs
      <4>4. QED
        BY <4>1, <4>2, <4>3 DEF CheckTrue, Unmoved
    <3>3. QED
      BY <1>2, <3>1, <3>2
  <2>4. moved'[t] = 0 /\ Unmoved(r)'
    BY <1>2, <2>3, ReadsAccess, Observed
  <2>5. Mixed(r, LevelOf(r.who))' \in right'[t]
    <3>1. Verdict(r.who, r.rank)' = Mixed(r, LevelOf(r.who))'
      BY <2>2, <2>4, AgreesThen DEF Agrees, TypeInv
    <3>2. Verdict(req[t].who, req[t].rank)' = Verdict(r.who, r.rank)'
      BY <2>1
    <3>3. QED
      BY <1>1, <1>2, <3>1, <3>2 DEF Checking
  <2>6. QED
    BY <1>1, <1>2, <2>1, <2>4, <2>5 DEF CheckTrue
<1>3. CASE pc'[t] = "inherited"
  <2>1. CheckDirect(t) /\ pc[t] = "direct" /\ ReadsOnly
    BY <1>3, Arrivals, CheckDirectGoes
  <2>2. PICK r \in Reqs : r = req[t]
    BY HeldHere
  <2>3. DirectOutcome(r) = "inherited" /\ req'[t] = r
    <3>1. Held("check", r)
      BY <2>1, <2>2, HeldHere DEF Held, Acting, Granting
    <3>2. AfterCheck(r.op) # "inherited"
      BY <3>1, AllowedLabels
    <3>3. QED
      BY <1>3, <2>1, <2>2, <3>2, CheckDirectGoes DEF Answers
  <2>4. /\ r.who \in Agents /\ r.who \in Principals /\ r.who \notin Users
        /\ UserOf(r.who) \in Users \ {Owner}
    <3>1. r.who \in Agents /\ AgentOf[r.who] \in Users \ {Owner}
      BY <1>3, <2>3 DEF TypeInv, ThreadTrue, Held
    <3>2. QED
      BY <3>1, Constants DEF Principals, UserOf
  <2>5. LevelOf(r.who) = 0 /\ agentGrants[r.who] = 0
    <3>1. LevelOf(r.who) \in 0..2
      BY <2>4, LevelTyped DEF TypeInv, Levels
    <3>2. LevelOf(r.who) = agentGrants[r.who]
      BY <2>4 DEF LevelOf
    <3>3. r.rank \in Ranks /\ (LevelOf(r.who) > 0 => Permits(LevelOf(r.who), r.rank) # "inherited")
      BY <3>1, <2>2, Permission DEF Reqs, Levels
    <3>4. QED
      BY <2>3, <3>1, <3>2, <3>3 DEF DirectOutcome
  <2>6. /\ moved'[t] = moved[t] /\ right[t] \subseteq right'[t]
        /\ agentGrants'[r.who] = 0
    BY <1>3, <2>1, <2>5, ReadsAccess, Observed
  <2>7. moved[t] = 0 => Unmoved(r)'
    BY <2>1, <2>2, ReadsAccess DEF CheckTrue
  <2>8. moved[t] < 2 => Mixed(r, 0)' \in right'[t]
    <3>1. moved[t] < 2 => Mixed(r, 0) \in right[t]
      BY <2>1, <2>2, <2>5 DEF CheckTrue
    <3>2. QED
      BY <2>1, <2>6, <3>1, ReadsAccess
  <2>9. QED
    BY <1>1, <1>3, <2>3, <2>6, <2>7, <2>8 DEF CheckTrue
<1>4. CASE pc'[t] \notin {"direct", "forkGrant", "inherited"}
  BY <1>1, <1>4 DEF CheckTrue
<1>5. QED
  BY <1>2, <1>3, <1>4

\* A step of any thread leaves true what a check of any thread is going to answer.
LEMMA ChecksStay ==
  ASSUME TypeInv, TypeInv', Observe, \A u \in Handlers : CheckTrue(u),
         NEW t \in Handlers, Acts(t), Goes(t), NEW u \in Handlers
  PROVE  CheckTrue(u)'
<1>1. CASE u = t
  BY <1>1, CheckGoes
<1>2. CASE u # t
  <2>1. pc'[u] = pc[u] /\ req'[u] = req[u]
    BY <1>2 DEF Goes, Moves
  <2>2. CASE pc[u] \in {"direct", "inherited", "forkGrant"}
    <3>1. \/ UNCHANGED <<grants, agentGrants>>
          \/ /\ doc' = doc
             /\ \/ agentGrants' = agentGrants
                \/ grants' = grants
                \/ agentGrants' = [a \in Agents |-> 0]
      BY Effects
    <3>2. QED
      BY <2>1, <2>2, <3>1, CheckWaits
  <2>3. CASE pc[u] \notin {"direct", "inherited", "forkGrant"}
    BY <2>1, <2>3, Observed DEF CheckTrue
  <2>4. QED
    BY <2>2, <2>3
<1>3. QED
  BY <1>1, <1>2

\* So does a step of no thread, and a stop.
LEMMA ChecksApart ==
  ASSUME TypeInv, TypeInv', Observe, \A u \in Handlers : CheckTrue(u), Quiet \/ Stops,
         NEW u \in Handlers
  PROVE  CheckTrue(u)'
<1>1. CASE Quiet
  <2>1. pc'[u] = pc[u] /\ req'[u] = req[u] /\ UNCHANGED <<grants, agentGrants>>
    BY <1>1 DEF Quiet
  <2>2. CASE pc[u] \in {"direct", "inherited", "forkGrant"}
    BY <2>1, <2>2, CheckWaits
  <2>3. CASE pc[u] \notin {"direct", "inherited", "forkGrant"}
    BY <2>1, <2>3, Observed DEF CheckTrue
  <2>4. QED
    BY <2>2, <2>3
<1>2. CASE Stops
  <2>1. pc'[u] = "idle"
    BY <1>2 DEF Stops
  <2>2. QED
    BY <2>1 DEF CheckTrue, Checking
<1>3. QED
  BY <1>1, <1>2

-----------------------------------------------------------------------------
(* What an answer is.                                                      *)

\* The answer t's check gives in a step, where AnswerRight asks for it.
Answer(t) == IF pc'[t] = "idle" THEN req'[t].op ELSE "allowed"

\* What a check goes by until its last SELECT is what it answers.
LEMMA OutcomeMixed ==
  ASSUME TypeInv, NEW r \in Reqs, r.who \in Principals \ {Owner}
  PROVE  /\ DirectOutcome(r) # "inherited" => DirectOutcome(r) = Mixed(r, LevelOf(r.who))
         /\ r.who \in Agents /\ UserOf(r.who) \in Users \ {Owner} =>
              InheritedOutcome(r) = Mixed(r, 0)
<1>1. LevelOf(r.who) \in 0..2
  BY LevelTyped DEF TypeInv, Levels
<1>2. DirectOutcome(r) # "inherited" => DirectOutcome(r) = Mixed(r, LevelOf(r.who))
  BY <1>1 DEF DirectOutcome, Mixed, UserOf, Ungranted
<1>3. r.who \in Agents /\ UserOf(r.who) \in Users \ {Owner} => InheritedOutcome(r) = Mixed(r, 0)
  BY Constants DEF InheritedOutcome, Mixed, UserOf, Ungranted, Principals
<1>4. QED
  BY <1>2, <1>3

\* check_permission answers what was right at some instant of the call.
LEMMA CheckAnswers ==
  ASSUME TypeInv, NEW t \in Handlers, CheckTrue(t), Checks(t), pc'[t] \notin Checking \ {"check"}
  PROVE  Answer(t) \in right[t] \/ moved[t] = 2
<1>0. moved[t] \in 0..2
  BY DEF TypeInv, HistoryTypes
<1>1. PICK r \in Reqs : r = req[t]
  BY HeldHere
<1>2. r.who \in Principals
  BY <1>1, HeldHere, CheckLeads DEF Held
<1>3. CASE CheckRow(t)
  <2> DEFINE q == WithRow(t)
             o == RowOutcome(q)
  <2>1. /\ pc[t] = "check" /\ q.who = r.who /\ q.rank = r.rank /\ Held("check", q) /\ q \in Reqs
        /\ q.op = r.op
    BY <1>1, <1>3, CheckRowGoes
  <2>2. o \in {"notFound", "allowed"}
    BY <1>3, CheckRowGoes DEF Checking
  <2>3. Verdict(r.who, r.rank) = o
    <3>1. CASE ~doc.exists
      BY <3>1 DEF RowOutcome, Verdict
    <3>2. CASE doc.exists
      <4>1. o = "allowed" /\ r.who = Owner
        BY <2>1, <2>2, <3>2 DEF RowOutcome
      <4>2. Needs(r.rank) \in 1..3
        BY Permission DEF Reqs, Ranks, Levels
      <4>3. Standing(r.who) = 3
        BY <4>1 DEF Standing
      <4>4. QED
        BY <3>2, <4>1, <4>2, <4>3 DEF Verdict
    <3>3. QED
      BY <3>1, <3>2
  <2>4. Answer(t) = o
    <3>1. AfterCheck(r.op) # "idle"
      BY <2>1, AllowedLabels
    <3>2. QED
      BY <1>1, <1>3, <2>2, <3>1, CheckRowGoes DEF Answer
  <2>5. Verdict(r.who, r.rank) \in right[t]
    BY <1>1, <2>1 DEF CheckTrue, Checking
  <2>6. QED
    BY <2>3, <2>4, <2>5
<1>4. CASE CheckDirect(t)
  <2> DEFINE o == DirectOutcome(r)
  <2>1. pc[t] = "direct" /\ Held("direct", r)
    BY <1>1, <1>4, CheckDirectGoes
  <2>2. o \in Answers
    BY <1>1, <1>4, CheckDirectGoes DEF Checking
  <2>3. o = Mixed(r, LevelOf(r.who))
    BY <1>2, <2>1, <2>2, OutcomeMixed DEF Held, Answers
  <2>4. Answer(t) = o
    <3>1. Held("check", r)
      BY <2>1 DEF Held, Acting, Granting
    <3>2. AfterCheck(r.op) # "idle"
      BY <3>1, AllowedLabels
    <3>3. QED
      BY <1>1, <1>4, <2>2, <3>2, CheckDirectGoes DEF Answer, Answers
  <2>5. moved[t] < 2 => Mixed(r, LevelOf(r.who)) \in right[t]
    BY <1>1, <2>1 DEF CheckTrue
  <2>6. QED
    BY <1>0, <2>3, <2>4, <2>5
<1>5. CASE CheckInherited(t)
  <2> DEFINE o == InheritedOutcome(r)
  <2>1. pc[t] = "inherited" /\ Held("inherited", r) /\ o \in Answers
    BY <1>1, <1>5, CheckInheritedGoes
  <2>2. o = Mixed(r, 0)
    BY <1>2, <2>1, OutcomeMixed DEF Held, UserOf
  <2>3. Answer(t) = o
    <3>1. Held("check", r)
      BY <2>1 DEF Held, Acting, Granting
    <3>2. AfterCheck(r.op) # "idle"
      BY <3>1, AllowedLabels
    <3>3. QED
      BY <1>1, <1>5, <2>1, <3>2, CheckInheritedGoes DEF Answer, Answers
  <2>4. moved[t] < 2 => Mixed(r, 0) \in right[t]
    BY <1>1, <2>1 DEF CheckTrue
  <2>5. QED
    BY <1>0, <2>2, <2>3, <2>4
<1>6. QED
  BY <1>3, <1>4, <1>5 DEF Checks

\* The answer of a thread that closes.
LEMMA CloseAnswers ==
  ASSUME TypeInv, NEW t \in Handlers, NEW answer \in Answers, Close(t, answer)
  PROVE  Answer(t) = answer
<1>1. answer \in Ops
  BY DEF Ops
<1>2. [NoReq EXCEPT !.op = answer].op = answer
  BY <1>1, NoReqTrue DEF Reqs
<1>3. QED
  BY <1>2 DEF Close, Goto, Answer, TypeInv, ThreadTypes

\* And so does fork.
LEMMA ForkAnswers ==
  ASSUME TypeInv, NEW t \in Handlers, CheckTrue(t), ForkRead(t) \/ ForkGrant(t),
         pc'[t] # "forkGrant"
  PROVE  Answer(t) \in right[t] \/ moved[t] = 2
<1>0. moved[t] \in 0..2
  BY DEF TypeInv, HistoryTypes
<1>1. PICK r \in Reqs : r = req[t]
  BY HeldHere
<1>2. /\ pc[t] \in {"forkRead", "forkGrant"}
      /\ r.who \in Users \ {Owner} /\ r.rank = "view" /\ ~r.public
  BY <1>1, HeldHere DEF ForkRead, ForkGrant, Held
<1>3. r.who \in Principals /\ UserOf(r.who) = Nobody /\ Nobody # Owner
  BY <1>2, Constants DEF Principals, UserOf
<1>4. CASE ForkRead(t)
  <2>1. Verdict(r.who, "view") \in right[t]
    BY <1>1, <1>2 DEF CheckTrue, Checking
  <2>2. ~GoOn(t, "forkGrant")
    BY DEF GoOn, Goto, TypeInv, ThreadTypes
  <2>3. CASE ~doc.exists
    <3>1. Close(t, "notFound") /\ Verdict(r.who, "view") = "notFound"
      BY <1>4, <2>3 DEF ForkRead, Verdict
    <3>2. QED
      BY <2>1, <3>1, CloseAnswers DEF Answers
  <2>4. CASE doc.exists
    <3>1. doc.public /\ Close(t, "allowed")
      BY <1>4, <2>2, <2>4 DEF ForkRead
    <3>2. Verdict(r.who, "view") = "allowed"
      BY <1>3, <2>4, <3>1, ViewsMeans DEF Views, TypeInv
    <3>3. QED
      BY <2>1, <3>1, <3>2, CloseAnswers DEF Answers
  <2>5. QED
    BY <2>3, <2>4
<1>5. CASE ForkGrant(t)
  <2> DEFINE answer == IF grants[r.who] > 0 THEN "allowed" ELSE "notFound"
  <2>1. pc[t] = "forkGrant" /\ Answer(t) = answer
    <3>1. Close(t, answer) /\ answer \in Answers
      BY <1>1, <1>5 DEF ForkGrant, Answers
    <3> HIDE DEF answer
    <3>2. QED
      BY <1>5, <3>1, CloseAnswers DEF ForkGrant
  <2>2. moved[t] < 2 => Mixed(r, LevelOf(r.who)) \in right[t]
    BY <1>1, <2>1 DEF CheckTrue
  <2>3. Mixed(r, LevelOf(r.who)) = answer
    <3>1. LevelOf(r.who) = grants[r.who] /\ grants[r.who] \in Levels
      BY <1>2 DEF LevelOf, TypeInv, SharedTypes
    <3>2. grants[r.who] > 0 => Permits(grants[r.who], r.rank) = "allowed"
      BY <1>2, <3>1, Permission DEF Ranks
    <3>3. QED
      BY <1>2, <1>3, <3>1, <3>2 DEF Mixed, UserOf
  <2>4. QED
    BY <1>0, <2>1, <2>2, <2>3
<1>6. QED
  BY <1>4, <1>5

-----------------------------------------------------------------------------
(* The theorems.                                                           *)

\* The inductive invariant holds at the start.
LEMMA InvariantStart ==
  ASSUME Init
  PROVE  IInv
<1>1. \A t \in Handlers : CheckTrue(t)
  <2>1. pc = [t \in Handlers |-> "idle"]
    BY DEF Init, InviteInit
  <2>2. QED
    BY <2>1 DEF CheckTrue, Checking
<1>2. QED
  BY <1>1, TypesStart, TokensStart, InvitesStart, OutsideStart DEF IInv, Tokens

\* Every step keeps the inductive invariant.
LEMMA InvariantKept ==
  ASSUME IInv, [Next]_vars
  PROVE  IInv'
<1>1. CASE UNCHANGED vars
  <2>1. UNCHANGED <<uses, created, revoked, grants, now, pc, job, req, doc, agentGrants, knows,
                    users, cancelled, overlapped, exposed, outside, right, moved, torn>>
    BY <1>1 DEF vars, inviteVars, threadVars, docVars, history
  <2>2. TypeInv'
    <3>1. SharedTypes' /\ ThreadTypes' /\ HistoryTypes'
      BY <2>1 DEF IInv, TypeInv, SharedTypes, ThreadTypes, HistoryTypes
    <3>2. \A t \in Handlers : ThreadTrue(t)'
      BY <2>1 DEF IInv, TypeInv, ThreadTrue
    <3>3. QED
      BY <3>1, <3>2 DEF TypeInv
  <2>3. TokensTrue' /\ EdgesTrue' /\ PrivateLinkRotated'
    BY <2>1 DEF IInv, TokensTrue, EdgesTrue, PrivateLinkRotated
  <2>4. InvitesTrue'
    BY <2>1 DEF IInv, InvitesTrue, Active
  <2>5. \A p : LevelOf(p)' = LevelOf(p)
    BY <2>1 DEF LevelOf
  <2>6. \A p : Standing(p)' = Standing(p)
    BY <2>1, <2>5 DEF Standing
  <2>7. \A p, rank : Verdict(p, rank)' = Verdict(p, rank)
    BY <2>1, <2>6 DEF Verdict
  <2>8. \A p : Reaches(p)' = Reaches(p)
    BY <2>1, <2>7 DEF Reaches, Views, Active
  <2>9. OutsideTrue'
    BY <2>1, <2>8 DEF IInv, OutsideTrue
  <2>10. \A t \in Handlers : CheckTrue(t)'
    <3>1. \A r, n : Mixed(r, n)' = Mixed(r, n) /\ Unmoved(r)' = Unmoved(r)
      BY <2>1 DEF Mixed, Unmoved
    <3> SUFFICES ASSUME NEW t \in Handlers PROVE CheckTrue(t)'
      OBVIOUS
    <3>2. PICK r : r = req[t]
      OBVIOUS
    <3>3. CheckTrue(t) /\ pc'[t] = pc[t] /\ req'[t] = r /\ right'[t] = right[t] /\ moved'[t] = moved[t]
      BY <2>1, <3>2 DEF IInv
    <3>4. Mixed(r, LevelOf(r.who))' = Mixed(r, LevelOf(r.who))
      BY <2>1, <2>5 DEF Mixed
    <3>5. QED
      BY <2>1, <2>7, <3>1, <3>2, <3>3, <3>4 DEF CheckTrue
  <2>11. QED
    BY <2>2, <2>3, <2>4, <2>9, <2>10 DEF IInv
<1>2. CASE Next
  <2>1. TypeInv /\ TypeInv' /\ Observe
    BY <1>2, NextCases DEF IInv
  <2>2. ASSUME NEW t \in Handlers, Acts(t), Goes(t) PROVE IInv'
    <3>1. Tokens'
      BY <2>1, <2>2, TokensStay, EdgesStay, LinksStay DEF IInv, Tokens
    <3>2. InvitesTrue' /\ OutsideTrue'
      BY <2>1, <2>2, InvitesStay, OutsideStay DEF IInv, Tokens
    <3>3. \A u \in Handlers : CheckTrue(u)'
      BY <2>1, <2>2, ChecksStay DEF IInv
    <3>4. QED
      BY <2>1, <3>1, <3>2, <3>3 DEF IInv, Tokens
  <2>3. CASE Quiet \/ Stops
    <3>1. Tokens' /\ InvitesTrue' /\ OutsideTrue'
      BY <2>1, <2>3, TokensApart, InvitesApart, OutsideApart DEF IInv, Tokens
    <3>2. \A u \in Handlers : CheckTrue(u)'
      BY <2>1, <2>3, ChecksApart DEF IInv
    <3>3. QED
      BY <2>1, <3>1, <3>2 DEF IInv, Tokens
  <2>4. QED
    BY <1>2, <2>2, <2>3, NextCases DEF IInv, Acts
<1>3. QED
  BY <1>1, <1>2

\* The inductive invariant holds throughout.
THEOREM SharingInvariance == Spec => []IInv
<1>1. Init => IInv
  BY InvariantStart
<1>2. IInv /\ [Next]_vars => IInv'
  BY InvariantKept
<1>3. QED
  BY <1>1, <1>2, PTL DEF Spec

\* The types, and that no link is known that is newer than the one in force.
THEOREM SharingTypes == Spec => []TypeOK
<1>1. IInv => TypeOK
  <2> SUFFICES ASSUME IInv PROVE TypeOK
    OBVIOUS
  <2>1. \A t \in Handlers : /\ req[t].who \in Principals \cup {Nobody}
                            /\ req[t].target \in Principals \cup {Nobody}
    BY HeldHere DEF IInv, Reqs
  <2>2. doc.exists =>
          \A token \in exposed \cup UNION {knows[p] : p \in Principals} : token <= doc.token
    BY DEF IInv, TokensTrue
  <2>3. QED
    BY <2>1, <2>2 DEF IInv, TypeInv, SharedTypes, ThreadTypes, Docs, TypeOK
<1>2. QED
  BY <1>1, SharingInvariance, PTL

\* check_permission and _doc_meta: only the owner's own calls delete, grant,
\* invite, revoke or publish.
THEOREM OnlyTheOwnerActs == Spec => []OwnerOnly
<1>1. IInv => OwnerOnly
  BY HeldHere DEF IInv, Acting, OwnerOnly
<1>2. QED
  BY <1>1, SharingInvariance, PTL

\* The lists, the searches, the bookmarks and the forks show what
\* check_permission would show.
THEOREM ListsShowWhatIsViewable == Spec => []ListedIsViewable
<1>1. IInv => ListedIsViewable
  BY ShownIsViewable DEF IInv, TypeInv, ListedIsViewable
<1>2. QED
  BY <1>1, SharingInvariance, PTL

\* set_visibility: a link that was public is not in force on a private document
\* but while a rotation is under way, or was lost.
THEOREM PublicLinksRotate == Spec => []PrivateLinkRotated
<1>1. IInv => PrivateLinkRotated
  BY DEF IInv
<1>2. QED
  BY <1>1, SharingInvariance, PTL

\* revoke: whom a revocation has left without access holds no link in force.
THEOREM RevocationsShutOut == Spec => []RevokedLinkDead
<1>1. IInv => RevokedLinkDead
  BY DEF IInv, OutsideTrue, RevokedLinkDead, Opens, OpensPublic
<1>2. QED
  BY <1>1, SharingInvariance, PTL

\* _grant_via_invite: an address has one active invite, unless grants overlapped.
THEOREM AddressesHaveOneInvite == Spec => []OneInvitePerEmail
<1>1. IInv => OneInvitePerEmail
  <2> SUFFICES ASSUME IInv, NEW u \in Users \ overlapped
               PROVE  Cardinality({i \in Invites : For[i] = u /\ Active(i)}) <= 1
    BY DEF OneInvitePerEmail
  <2> DEFINE S == {i \in Invites : For[i] = u /\ Active(i)}
  <2>1. \A i, j \in S : i = j
    BY DEF IInv, InvitesTrue
  <2>2. CASE S = {}
    BY <2>2, FS_EmptySet
  <2>3. CASE S # {}
    <3>1. PICK i : S = {i}
      BY <2>1, <2>3
    <3>2. QED
      BY <3>1, FS_Singleton
  <2>4. QED
    BY <2>2, <2>3
<1>2. QED
  BY <1>1, SharingInvariance, PTL

\* check_permission and fork: an answer was right at some instant of its call,
\* unless access changed twice while the call ran.
THEOREM AnswersWereRight == Spec => AnswerRight
<1>1. IInv /\ [Next]_vars =>
        [\A t \in Handlers :
           LET answer == IF pc'[t] = "idle" THEN req'[t].op ELSE "allowed" IN
           (/\ pc[t] \in Checking
            /\ <<pc[t], req[t]>> # <<pc'[t], req'[t]>>
            /\ pc'[t] \notin Checking \ {"check"}
            /\ answer # "none")
             => answer \in right[t] \/ moved[t] = 2]_vars
  <2> SUFFICES ASSUME IInv, Next, NEW t \in Handlers, pc[t] \in Checking,
                      <<pc[t], req[t]>> # <<pc'[t], req'[t]>>,
                      pc'[t] \notin Checking \ {"check"}, Answer(t) # "none"
               PROVE  Answer(t) \in right[t] \/ moved[t] = 2
    BY DEF Answer
  <2>1. ~Quiet
    BY DEF Quiet
  <2>2. ~Stops
    BY NoReqTrue DEF Stops, Answer
  <2>3. Acts(t)
    <3>1. PICK s \in Handlers : Acts(s) /\ Goes(s)
      BY <2>1, <2>2, NextCases DEF IInv, Acts
    <3>2. s = t
      BY <3>1 DEF Goes, Moves
    <3>3. QED
      BY <3>1, <3>2
  <2>4. Checks(t) \/ ForkRead(t) \/ ForkGrant(t)
    BY <2>3, Arrivals DEF IInv, Checking, Checks
  <2>5. QED
    BY <2>4, CheckAnswers, ForkAnswers DEF IInv, Checking
<1>2. QED
  BY <1>1, SharingInvariance, PTL DEF Spec, AnswerRight

=============================================================================
