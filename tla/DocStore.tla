------------------------------ MODULE DocStore ------------------------------
(***************************************************************************)
(* Documents and their revision log (service/docs.py, service/save.py,     *)
(* the documents and revisions tables of db.py): publish, update with      *)
(* optimistic concurrency, delete, fork, and the single-statement writes   *)
(* of the rest of the program, as threads whose SQL statements interleave. *)
(*                                                                         *)
(* The hosted process opens one connection and hands it to every handler   *)
(* (run_app.py); the stdio server and the admin scripts open their own on  *)
(* the same file.  connOf says which thread runs on which connection.      *)
(*                                                                         *)
(* A permission denial ends a call before its first write, so callers here *)
(* are permitted.                                                          *)
(***************************************************************************)
EXTENDS Sqlite, Naturals, Sequences, FiniteSets

CONSTANTS
    Threads,       \* handlers running at the same time
    NoThread,      \* not a thread
    Deployments,   \* the assignments of threads to connections to consider
    Docs,          \* document ids
    Published,     \* the documents that exist at the start
    Ops,           \* the operations the threads may call
    MaxRevisions,  \* MAX_REVISIONS_PER_DOC
    MaxCalls       \* bound: calls started in a behaviour

ASSUME ThreadAssumption == NoThread \notin Threads
ASSUME DeploymentAssumption == Deployments \subseteq [Threads -> Conns]
ASSUME DocAssumption == Docs # {} /\ Published \subseteq Docs
ASSUME OpAssumption == Ops \subseteq {"publish", "update", "delete", "fork", "touch", "bookmark"}
ASSUME BoundAssumption == MaxRevisions \in Nat \ {0} /\ MaxCalls \in Nat

VARIABLES
    connOf,   \* the deployment, fixed at the start
    pc,       \* pc[t]: the next statement of thread t
    call,     \* call[t]: the arguments of the call t is in
    row,      \* row[t]: the document row t read last
    calls,    \* calls started so far; also the content a call writes
    opener,   \* opener[c]: who opened the transaction of c, at which statement
    used,     \* ids given to a document: generate_id never repeats one
    mixed,    \* two threads' statements have met in one transaction
    history,  \* history[d]: the acknowledged publish and updates of d, in order:
              \* the content of each and the version its caller named
    gone      \* documents whose deletion was committed

threadVars == <<pc, call, row, calls, used>>
ghostVars == <<history, gone>>
vars == <<sqliteVars, connOf, threadVars, opener, mixed, ghostVars>>

\* A document row, or a revision of it; versions start at 1.
NoRow == [ver |-> 0, content |-> 0]
Rows == {NoRow} \cup [ver : Nat \ {0}, content : Nat]
Tables == [docs : [Docs -> Rows], revs : [Docs -> Seq(Rows)]]
AnyDoc == CHOOSE d \in Docs : TRUE
NoCall == [op |-> "none", doc |-> AnyDoc, from |-> AnyDoc, ifVersion |-> 0, id |-> 0,
           retitle |-> FALSE]
NoOpener == [by |-> NoThread, at |-> "idle"]

Acknowledged(content, onto) == [content |-> content, onto |-> onto]

EmptyTables ==
    [docs |-> [d \in Docs |-> IF d \in Published THEN [ver |-> 1, content |-> 0] ELSE NoRow],
     revs |-> [d \in Docs |-> <<>>]]

Init ==
    /\ SqliteInit(EmptyTables)
    /\ connOf \in Deployments
    /\ pc = [t \in Threads |-> "idle"]
    /\ call = [t \in Threads |-> NoCall]
    /\ row = [t \in Threads |-> NoRow]
    /\ calls = 0
    /\ opener = [c \in Conns |-> NoOpener]
    /\ used = Published
    /\ mixed = FALSE
    /\ history = [d \in Docs |-> IF d \in Published THEN <<Acknowledged(0, 0)>> ELSE <<>>]
    /\ gone = {}

-----------------------------------------------------------------------------
(* One SQL statement of a thread, and what the thread does next.           *)

Seen(t) == view[connOf[t]]
Exists(t, d) == Seen(t).docs[d].ver > 0

Goto(t, label) == pc' = [pc EXCEPT ![t] = label] /\ UNCHANGED <<call, row>>
Remember(t, r, label) ==
    pc' = [pc EXCEPT ![t] = label] /\ row' = [row EXCEPT ![t] = r] /\ UNCHANGED call

\* The call returns or raises.
Return(t) ==
    /\ pc' = [pc EXCEPT ![t] = "idle"]
    /\ call' = [call EXCEPT ![t] = NoCall]
    /\ row' = [row EXCEPT ![t] = NoRow]

\* Every statement that opens, joins or ends a transaction records whose it is.
Ascribe(t) ==
    LET c == connOf[t] IN
    /\ opener' = [opener EXCEPT ![c] =
                    IF mode'[c] = "none" THEN NoOpener
                    ELSE IF mode[c] = "none" THEN [by |-> t, at |-> pc[t]] ELSE @]
    /\ mixed' = (mixed \/ (mode[c] # "none" /\ opener[c].by # t))
    /\ UNCHANGED connOf

Read(t) == Select(connOf[t]) /\ UNCHANGED <<connOf, opener, mixed>>

\* conn.execute of a data-changing statement succeeds, or raises while locked out.
Write(t, tables) == Execute(connOf[t], tables) /\ Ascribe(t)
Refused(t) == ExecuteRefused(connOf[t]) /\ Ascribe(t)

\* A broken constraint is found once the lock is held: the row is refused and
\* the transaction, implicit or not, stays open.
Rejected(t) == Write(t, Seen(t))

DoCommit(t) == Commit(connOf[t]) /\ Ascribe(t)
DoRollback(t) == Rollback(connOf[t]) /\ Ascribe(t)
NoStatement == UNCHANGED <<sqliteVars, connOf, opener, mixed>>
InTransaction(t) == mode[connOf[t]] # "none"

Keep == UNCHANGED <<calls, used, history, gone>>

SetDoc(t, d, r) == [Seen(t) EXCEPT !.docs[d] = r]
AddRevision(t, d, r) == [Seen(t) EXCEPT !.revs[d] = Append(@, r)]

-----------------------------------------------------------------------------
(* A handler is called.                                                    *)

Begin(t, op, d, label, arguments) ==
    /\ pc[t] = "idle"
    /\ calls < MaxCalls
    /\ op \in Ops
    /\ calls' = calls + 1
    /\ pc' = [pc EXCEPT ![t] = label]
    /\ call' = [call EXCEPT ![t] =
                  [op |-> op, doc |-> d, id |-> calls + 1, from |-> arguments.from,
                   ifVersion |-> arguments.ifVersion, retitle |-> arguments.retitle]]
    /\ NoStatement
    /\ UNCHANGED <<row, history, gone>>

\* generate_id never returns an id twice.
FreshDoc(d) == d \notin used /\ used' = used \cup {d}

StartPublish(t) ==
    \E d \in Docs : FreshDoc(d) /\ Begin(t, "publish", d, "insert", NoCall)

StartUpdate(t) ==
    \E d \in used, v \in 1..MaxCalls + 1 :
        /\ Begin(t, "update", d, "check", [NoCall EXCEPT !.ifVersion = v])
        /\ UNCHANGED used

StartDelete(t) ==
    \E d \in used : Begin(t, "delete", d, "check", NoCall) /\ UNCHANGED used

\* retitle: the MCP tool writes a title after the fork, the web routes do not.
StartFork(t) ==
    \E s \in used, d \in Docs, b \in BOOLEAN :
        /\ FreshDoc(d)
        /\ Begin(t, "fork", d, "readSource", [NoCall EXCEPT !.from = s, !.retitle = b])

StartBookmark(t) ==
    \E d \in used : Begin(t, "bookmark", d, "check", NoCall) /\ UNCHANGED used

StartTouch(t) == Begin(t, "touch", AnyDoc, "touch", NoCall) /\ UNCHANGED used

Start(t) ==
    \/ StartPublish(t)
    \/ StartUpdate(t)
    \/ StartDelete(t)
    \/ StartFork(t)
    \/ StartBookmark(t)
    \/ StartTouch(t)

-----------------------------------------------------------------------------
(* docs.update                                                             *)

AfterCheck(t) ==
    CASE call[t].op = "update" -> "begin"
      [] call[t].op = "delete" -> "deleteGrants"
      [] OTHER -> "bookmark"

\* check_permission, or the lookup by share token: no such document, no call.
Check(t) ==
    /\ pc[t] = "check"
    /\ Read(t)
    /\ IF Exists(t, call[t].doc) THEN Goto(t, AfterCheck(t)) ELSE Return(t)
    /\ Keep

\* Seeded fault: the transaction is left to the first write.
BeginUpdateDeferred(t) == pc[t] = "begin" /\ NoStatement /\ Goto(t, "select") /\ Keep

BeginUpdate(t) ==
    /\ pc[t] = "begin"
    /\ \/ BeginImmediate(connOf[t]) /\ Ascribe(t) /\ Goto(t, "select")
       \/ BeginRefused(connOf[t]) /\ UNCHANGED <<connOf, opener, mixed>> /\ Return(t)
    /\ Keep

\* Seeded fault: if_version is not compared.
SelectRowUnchecked(t) ==
    /\ pc[t] = "select"
    /\ Read(t)
    /\ LET r == Seen(t).docs[call[t].doc] IN
       Remember(t, r, IF r.ver > 0 THEN "snapshot" ELSE "rollback")
    /\ Keep

SelectRow(t) ==
    /\ pc[t] = "select"
    /\ Read(t)
    /\ LET r == Seen(t).docs[call[t].doc] IN
       Remember(t, r, IF r.ver > 0 /\ r.ver = call[t].ifVersion THEN "snapshot"
                      ELSE "rollback")
    /\ Keep

\* The ROLLBACK before ValueError or ConflictError is raised; outside a
\* transaction it raises itself.  The except clause catches either.
RollbackUpdate(t) ==
    /\ pc[t] = "rollback"
    /\ IF InTransaction(t) THEN DoRollback(t) ELSE NoStatement
    /\ Goto(t, "cleanup")
    /\ Keep

\* The except clause's own ROLLBACK, whose failure is swallowed, and the raise.
CleanUp(t) ==
    /\ pc[t] = "cleanup"
    /\ IF InTransaction(t) THEN DoRollback(t) ELSE NoStatement
    /\ Return(t)
    /\ Keep

\* Seeded fault: the snapshot is of the new content.
InsertRevisionAfter(t) ==
    LET d == call[t].doc IN
    /\ pc[t] = "snapshot"
    /\ Write(t, AddRevision(t, d, [row[t] EXCEPT !.content = call[t].id]))
    /\ Goto(t, "write")
    /\ Keep

InsertRevision(t) ==
    LET d == call[t].doc IN
    /\ pc[t] = "snapshot"
    /\ \/ Exists(t, d) /\ Write(t, AddRevision(t, d, row[t])) /\ Goto(t, "write")
       \/ ~Exists(t, d) /\ Rejected(t) /\ Goto(t, "cleanup")
       \/ Refused(t) /\ Goto(t, "cleanup")
    /\ Keep

\* Seeded fault: the version goes down.
WriteVersionDown(t) ==
    /\ pc[t] = "write"
    /\ Write(t, SetDoc(t, call[t].doc, [ver |-> row[t].ver - 1, content |-> call[t].id]))
    /\ Goto(t, "prune")
    /\ Keep

WriteVersion(t) ==
    LET d == call[t].doc
        next == [ver |-> row[t].ver + 1, content |-> call[t].id]
    IN
    /\ pc[t] = "write"
    /\ \/ Write(t, IF Exists(t, d) THEN SetDoc(t, d, next) ELSE Seen(t)) /\ Goto(t, "prune")
       \/ Refused(t) /\ Goto(t, "cleanup")
    /\ Keep

\* The newest keep revisions by row id, which is the order of insertion.
LastN(s, n) == IF Len(s) <= n THEN s ELSE SubSeq(s, Len(s) - n + 1, Len(s))

\* Seeded fault: one too many is kept.
PrunedLate(t, d) == [Seen(t) EXCEPT !.revs[d] = LastN(@, MaxRevisions + 1)]

Pruned(t, d) == [Seen(t) EXCEPT !.revs[d] = LastN(@, MaxRevisions)]

PruneRevisions(t) ==
    /\ pc[t] = "prune"
    /\ \/ Write(t, Pruned(t, call[t].doc)) /\ Goto(t, "commit")
       \/ Refused(t) /\ Goto(t, "cleanup")
    /\ Keep

CommitUpdate(t) ==
    LET d == call[t].doc IN
    /\ pc[t] = "commit"
    /\ IF InTransaction(t)
       THEN /\ DoCommit(t)
            /\ history' = [history EXCEPT ![d] =
                              Append(@, Acknowledged(call[t].id, call[t].ifVersion))]
            /\ Goto(t, "reread")
       ELSE NoStatement /\ Goto(t, "cleanup") /\ UNCHANGED history
    /\ UNCHANGED <<calls, used, gone>>

\* The document is read again for the answer; a deletion in between raises.
Reread(t) ==
    /\ pc[t] = "reread"
    /\ Read(t)
    /\ IF Exists(t, call[t].doc) THEN Goto(t, "audit") ELSE Return(t)
    /\ Keep

-----------------------------------------------------------------------------
(* audit.record, which swallows its errors.                                *)

AuditInsert(t) ==
    /\ pc[t] = "audit"
    /\ \/ Write(t, Seen(t)) /\ Goto(t, "auditCommit")
       \/ Refused(t) /\ Return(t)
    /\ Keep

AuditCommit(t) ==
    /\ pc[t] = "auditCommit"
    /\ DoCommit(t)
    /\ Return(t)
    /\ Keep

-----------------------------------------------------------------------------
(* docs.publish and save.fork_document                                     *)

ReadSource(t) ==
    LET s == call[t].from IN
    /\ pc[t] = "readSource"
    /\ Read(t)
    /\ IF Exists(t, s) THEN Remember(t, Seen(t).docs[s], "insert") ELSE Return(t)
    /\ Keep

\* A fork names its source in a foreign key, except in a database from before
\* the column, where the migration adds it without one.
InsertDoc(t) ==
    LET fork == call[t].op = "fork"
        content == IF fork THEN row[t].content ELSE call[t].id
        orphan == fork /\ ~Exists(t, call[t].from)
    IN
    /\ pc[t] = "insert"
    /\ \/ /\ Write(t, SetDoc(t, call[t].doc, [ver |-> 1, content |-> content]))
          /\ Goto(t, "insertCommit")
       \/ orphan /\ Rejected(t) /\ Return(t)
       \/ Refused(t) /\ Return(t)
    /\ Keep

CommitInsert(t) ==
    LET fork == call[t].op = "fork"
        content == IF fork THEN row[t].content ELSE call[t].id
    IN
    /\ pc[t] = "insertCommit"
    /\ DoCommit(t)
    /\ history' = [history EXCEPT ![call[t].doc] = <<Acknowledged(content, 0)>>]
    /\ Goto(t, IF fork THEN "seed" ELSE "audit")
    /\ UNCHANGED <<calls, used, gone>>

\* fork_document's seed revision.  Nothing commits it.
SeedRevision(t) ==
    LET d == call[t].doc IN
    /\ pc[t] = "seed"
    /\ \/ /\ Exists(t, d)
          /\ Write(t, AddRevision(t, d, [ver |-> 1, content |-> row[t].content]))
          /\ Goto(t, "forkReread")
       \/ ~Exists(t, d) /\ Rejected(t) /\ Return(t)
       \/ Refused(t) /\ Return(t)
    /\ Keep

RereadFork(t) ==
    /\ pc[t] = "forkReread"
    /\ Read(t)
    /\ IF Exists(t, call[t].doc) /\ call[t].retitle THEN Goto(t, "title") ELSE Return(t)
    /\ Keep

WriteTitle(t) ==
    /\ pc[t] = "title"
    /\ \/ Write(t, Seen(t)) /\ Goto(t, "touchCommit")
       \/ Refused(t) /\ Return(t)
    /\ Keep

-----------------------------------------------------------------------------
(* docs.delete: grants, then the document; revisions go by foreign key.    *)

DeleteGrants(t) ==
    /\ pc[t] = "deleteGrants"
    /\ \/ Write(t, Seen(t)) /\ Goto(t, "deleteDoc")
       \/ Refused(t) /\ Return(t)
    /\ Keep

\* row keeps what was deleted: cursor.rowcount.
DeleteDoc(t) ==
    LET d == call[t].doc IN
    /\ pc[t] = "deleteDoc"
    /\ \/ /\ Write(t, [Seen(t) EXCEPT !.docs[d] = NoRow, !.revs[d] = <<>>])
          /\ Remember(t, Seen(t).docs[d], "deleteCommit")
       \/ Refused(t) /\ Return(t)
    /\ Keep

CommitDelete(t) ==
    LET deleted == row[t].ver > 0 IN
    /\ pc[t] = "deleteCommit"
    /\ DoCommit(t)
    /\ gone' = IF deleted THEN gone \cup {call[t].doc} ELSE gone
    /\ IF deleted THEN Goto(t, "audit") ELSE Return(t)
    /\ UNCHANGED <<calls, used, history>>

-----------------------------------------------------------------------------
(* Writes of one statement and a commit that leave documents' versions,    *)
(* content and revisions alone: the last_used_at touch, and bookmarks,     *)
(* whose foreign key needs the document.                                   *)

TouchRow(t) ==
    /\ pc[t] = "touch"
    /\ \/ Write(t, Seen(t)) /\ Goto(t, "touchCommit")
       \/ Refused(t) /\ Return(t)
    /\ Keep

WriteBookmark(t) ==
    /\ pc[t] = "bookmark"
    /\ \/ Exists(t, call[t].doc) /\ Write(t, Seen(t)) /\ Goto(t, "touchCommit")
       \/ ~Exists(t, call[t].doc) /\ Rejected(t) /\ Return(t)
       \/ Refused(t) /\ Return(t)
    /\ Keep

CommitTouch(t) ==
    /\ pc[t] = "touchCommit"
    /\ DoCommit(t)
    /\ Return(t)
    /\ Keep

-----------------------------------------------------------------------------
\* The process that owns connection c stops: SQLite drops what it had not
\* committed, and its calls end unanswered.
Crash(c) ==
    /\ Rollback(c)
    /\ opener' = [opener EXCEPT ![c] = NoOpener]
    /\ pc' = [t \in Threads |-> IF connOf[t] = c THEN "idle" ELSE pc[t]]
    /\ call' = [t \in Threads |-> IF connOf[t] = c THEN NoCall ELSE call[t]]
    /\ row' = [t \in Threads |-> IF connOf[t] = c THEN NoRow ELSE row[t]]
    /\ UNCHANGED <<connOf, mixed>>
    /\ Keep

Step(t) ==
    \/ Check(t) \/ BeginUpdate(t) \/ SelectRow(t) \/ RollbackUpdate(t) \/ CleanUp(t)
    \/ InsertRevision(t) \/ WriteVersion(t) \/ PruneRevisions(t) \/ CommitUpdate(t)
    \/ Reread(t) \/ AuditInsert(t) \/ AuditCommit(t)
    \/ ReadSource(t) \/ InsertDoc(t) \/ CommitInsert(t) \/ SeedRevision(t)
    \/ RereadFork(t) \/ WriteTitle(t)
    \/ DeleteGrants(t) \/ DeleteDoc(t) \/ CommitDelete(t)
    \/ TouchRow(t) \/ WriteBookmark(t) \/ CommitTouch(t)

Next ==
    \/ \E t \in Threads : Start(t) \/ Step(t)
    \/ \E c \in Conns : Crash(c)

Spec == Init /\ [][Next]_vars

-----------------------------------------------------------------------------
Labels == {"idle", "check", "begin", "select", "rollback", "cleanup", "snapshot", "write",
           "prune", "commit", "reread", "audit", "auditCommit", "readSource", "insert",
           "insertCommit", "seed", "forkReread", "title", "deleteGrants", "deleteDoc",
           "deleteCommit", "touch", "bookmark", "touchCommit"}

\* The variables have their types, and what a thread knows of its call is typed.
TypeOK ==
    /\ disk \in Tables
    /\ mode \in [Conns -> Modes]
    /\ view \in [Conns -> Tables]
    /\ connOf \in Deployments
    /\ pc \in [Threads -> Labels]
    /\ call \in [Threads -> [op : Ops \cup {"none"}, doc : Docs, id : Nat, from : Docs,
                             ifVersion : Nat, retitle : BOOLEAN]]
    /\ row \in [Threads -> Rows]
    /\ calls \in Nat
    /\ opener \in [Conns -> [by : Threads \cup {NoThread}, at : Labels]]
    /\ used \subseteq Docs
    /\ mixed \in BOOLEAN
    /\ history \in [Docs -> Seq([content : Nat, onto : Nat])]
    /\ gone \subseteq Docs

\* Every thread has a connection of its own: the deployment that FOLLOW-UPS.md
\* proposes, and one thread per process today.
PerThread == \A t, u \in Threads : connOf[t] = connOf[u] => t = u

\* No transaction has been shared by two threads.
Whole == PerThread \/ ~mixed

\* The committed row of d after the acknowledged publish, updates and delete.
Expected(d) ==
    IF history[d] = <<>> \/ d \in gone THEN NoRow
    ELSE [ver |-> Len(history[d]), content |-> history[d][Len(history[d])].content]

\* docs.update and publish: what was acknowledged is exactly what is committed.
\* Every acknowledged update is one version, none is overwritten, lost in a
\* rollback or a crash, or half applied, as long as no two threads' statements
\* met in one transaction -- which separate connections rule out.
NoLostUpdate == Whole => \A d \in Docs : disk.docs[d] = Expected(d)

\* docs.update: an acknowledged update was made on the version its caller
\* named, and on no other.
CasHonoured ==
    Whole => \A d \in Docs : \A v \in 1..Len(history[d]) : history[d][v].onto = v - 1

\* What update's docstring says of every deployment, if_version must equal the
\* stored version or the update is refused: two updates of a document that
\* named the same version are never both acknowledged.
IfVersionRequired ==
    \A d \in Docs : \A i, j \in 1..Len(history[d]) :
        history[d][i].onto = history[d][j].onto => i = j

\* What audit.py says of itself: no update is refused because an earlier audit
\* row of the same caller could not be written.
AuditHarmless ==
    \A t \in Threads :
        pc[t] = "begin" => ~(InTransaction(t) /\ opener[connOf[t]] = [by |-> t, at |-> "audit"])

\* What fork_document says of itself: when a fork has returned, its revision 1
\* is committed.
ForkSeeded ==
    [][\A t \in Threads :
         pc[t] = "forkReread" /\ pc'[t] = "idle" /\ Exists(t, call[t].doc)
           => disk.revs[call[t].doc] # <<>>]_vars

\* insert_revision: a committed revision is the content its version really had.
RevisionsFaithful ==
    Whole => \A d \in Docs : \A i \in 1..Len(disk.revs[d]) :
        LET r == disk.revs[d][i] IN
        r.ver \in 1..Len(history[d]) /\ r.content = history[d][r.ver].content

Without(s, i) == SubSeq(s, 1, i - 1) \o SubSeq(s, i + 1, Len(s))

\* prune_revisions: the log of a published document holds the last
\* MAX_REVISIONS_PER_DOC superseded versions in order, none skipped, none
\* twice.  A fork's log may also hold its seed, which is a version 1 that lands
\* after whatever was committed before it, and after the last prune.
RevisionWindow ==
    Whole => \A d \in Docs :
        LET log == disk.revs[d]
            versions == [i \in 1..Len(log) |-> log[i].ver]
            superseded == [v \in 1..Len(history[d]) - 1 |-> v]
        IN  IF disk.docs[d] = NoRow THEN log = <<>>
            ELSE \/ versions = LastN(superseded, MaxRevisions)
                 \/ /\ d \notin Published
                    /\ \E i \in DOMAIN versions :
                         /\ versions[i] = 1
                         /\ \E n \in {MaxRevisions - 1, MaxRevisions} :
                              Without(versions, i) = LastN(superseded, n)

-----------------------------------------------------------------------------
(* Why NoLostUpdate and CasHonoured hold: the invariant that carries them.  *)

\* Where a thread relies on the write lock it has taken.
Holding == {"select", "snapshot", "write", "prune", "commit", "insertCommit", "deleteCommit"}
\* Where an update relies on the row it has read.
Updating == {"snapshot", "write", "prune", "commit"}
\* Where a new document is not committed yet.
Creating == {"readSource", "insert", "insertCommit"}

NewContent(t) == IF call[t].op = "fork" THEN row[t].content ELSE call[t].id

\* The documents as the transaction of thread t has them, given its next step.
Pending(t) ==
    LET d == call[t].doc IN
    CASE pc[t] \in {"prune", "commit"} ->
             [disk.docs EXCEPT ![d] = [ver |-> row[t].ver + 1, content |-> call[t].id]]
      [] pc[t] = "insertCommit" ->
             [disk.docs EXCEPT ![d] = [ver |-> 1, content |-> NewContent(t)]]
      [] pc[t] = "deleteCommit" -> [disk.docs EXCEPT ![d] = NoRow]
      [] OTHER -> disk.docs

OneWriter == \A c, x \in Conns : mode[c] = "write" /\ mode[x] = "write" => c = x

OpenerKnown ==
    \A c \in Conns :
        mode[c] # "none" => opener[c].by \in Threads /\ connOf[opener[c].by] = c

ViewsTrack ==
    \A c \in Conns :
        /\ mode[c] \in {"none", "open", "read"} => view[c] = disk
        /\ mode[c] = "write" => view[c].docs = Pending(opener[c].by)

LockHeld ==
    \A t \in Threads :
        pc[t] \in Holding => mode[connOf[t]] = "write" /\ opener[connOf[t]].by = t

RowsCurrent ==
    \A t \in Threads :
        /\ pc[t] \in Updating \cup {"deleteCommit"} => row[t] = disk.docs[call[t].doc]
        /\ pc[t] \in Updating => row[t].ver > 0 /\ row[t].ver = call[t].ifVersion

NewDocsUnknown ==
    /\ \A t \in Threads : pc[t] \in Creating =>
         call[t].doc \in used /\ history[call[t].doc] = <<>>
    /\ \A t, u \in Threads :
         pc[t] \in Creating /\ pc[u] \in Creating /\ t # u => call[t].doc # call[u].doc
    /\ \A d \in Docs \ used : history[d] = <<>>
    /\ \A d \in gone : history[d] # <<>>

Unshared ==
    /\ ViewsTrack /\ LockHeld /\ RowsCurrent /\ NewDocsUnknown
    /\ \A d \in Docs : disk.docs[d] = Expected(d)
    /\ \A d \in Docs : \A v \in 1..Len(history[d]) : history[d][v].onto = v - 1

IInv ==
    /\ TypeOK /\ OneWriter /\ OpenerKnown
    /\ PerThread => ~mixed
    /\ ~mixed => Unshared

-----------------------------------------------------------------------------
(* Why RevisionsFaithful and RevisionWindow hold: what the logs look like,  *)
(* committed and in the transactions, while versions are superseded.        *)

Least(m, n) == IF m <= n THEN m ELSE n

\* The last k of the versions 1..n, in order.
Run(log, n, k) == Len(log) = k /\ \A j \in 1..k : log[j].ver = n - k + j

\* The same, with a fork's seed at place i.
Seeded(log, n, k, i) ==
    /\ Len(log) = k + 1 /\ log[i].ver = 1
    /\ \A j \in 1..i - 1 : log[j].ver = n - k + j
    /\ \A j \in i + 1..k + 1 : log[j].ver = n - k + j - 1

\* A log as a prune leaves it, or a seed after the prune: n versions are
\* superseded, and it may hold a seed or not.
Rests(log, n, seed) ==
    \/ Run(log, n, Least(n, MaxRevisions))
    \/ /\ seed
       /\ \E m \in {MaxRevisions - 1, MaxRevisions}, i \in 1..Len(log) :
            Seeded(log, n, Least(n, m), i)

\* A log between the snapshot of version n and the prune.
Grown(log, n, seed) ==
    \/ Least(n, MaxRevisions) <= Len(log) /\ Len(log) <= n /\ Run(log, n, Len(log))
    \/ /\ seed
       /\ Least(n, MaxRevisions - 1) <= Len(log) - 1 /\ Len(log) - 1 <= n
       /\ \E i \in 1..Len(log) : Seeded(log, n, Len(log) - 1, i)

\* Where an update has added its snapshot and has not pruned.
Growing == {"write", "prune"}

LogRests(tables, d, seed) ==
    IF tables.docs[d].ver = 0 THEN tables.revs[d] = <<>>
    ELSE Rests(tables.revs[d], tables.docs[d].ver - 1, seed)

\* The log of d in the transaction of t.
LogInStep(t, tables, d, seed) ==
    IF d = call[t].doc /\ pc[t] \in Growing
    THEN Grown(tables.revs[d], row[t].ver, seed)
    ELSE LogRests(tables, d, seed)

LogKept(d, seed) ==
    /\ LogRests(disk, d, seed)
    /\ \A c \in Conns :
         mode[c] = "write" => LogInStep(opener[c].by, view[c], d, seed)

\* Every log of d there is: the committed one and those the connections see.
Logs(d) == {disk.revs[d]} \cup {view[c].revs[d] : c \in Conns}

Faithful(log, d) ==
    \A i \in 1..Len(log) :
        /\ log[i].ver \in 1..Len(history[d])
        /\ log[i].content = history[d][log[i].ver].content

\* What a fork that has committed its document relies on until it seeds the log.
SeedAwaited(t) ==
    LET d == call[t].doc IN
    /\ d \notin Published /\ history[d] # <<>> /\ history[d][1].content = row[t].content
    /\ LogKept(d, FALSE)

LogInv ==
    ~mixed =>
        /\ \A d \in Docs : LogKept(d, d \notin Published)
        /\ \A d \in Docs : \A log \in Logs(d) : Faithful(log, d)
        /\ \A t \in Threads : pc[t] = "seed" => SeedAwaited(t)
        /\ \A t, u \in Threads :
             pc[t] = "seed" /\ pc[u] = "seed" /\ t # u => call[t].doc # call[u].doc
        /\ \A d \in Published : history[d] # <<>>


-----------------------------------------------------------------------------
(* DocStore implements Documents.                                          *)

\* Every row d has had, going by what was acknowledged.
Past(d) == {[ver |-> v, content |-> history[d][v].content] : v \in 1..Len(history[d])}

\* Where a call that changes a document has committed the change.
Committed == {"reread", "audit", "auditCommit", "seed", "forkReread", "title"}

StageAt(label, op) ==
    CASE label = "idle" -> "idle"
      [] label \in Committed \/ (label = "touchCommit" /\ op = "fork") -> "done"
      [] OTHER -> "called"

Stage(t) == StageAt(pc[t], call[t].op)

Service == INSTANCE Documents WITH
    docs <- disk.docs,
    past <- [d \in Docs |-> Past(d)],
    known <- used,
    request <- call,
    stage <- [t \in Threads |-> Stage(t)],
    NoRequest <- NoCall,
    Requests <- [op : Ops, doc : Docs, id : 1..MaxCalls, from : Docs,
                 ifVersion : 0..MaxCalls + 1, retitle : BOOLEAN]

\* docs.update, publish, delete and fork_document, statement by statement, are
\* one step each to everybody else: as long as no transaction has been shared,
\* what a statement, a refusal, a rollback or a stopping process does to the
\* documents is what Documents allows, or nothing.
IsService == Service!Init /\ [][Whole' => Service!Next]_(Service!vars)

\* Why it does: each label belongs to an operation, a snapshot another commit
\* has overtaken holds rows that were, and so does a fork until it inserts,
\* unless its source is in a transaction about to be committed.
OpFits(label, op) ==
    /\ label \in {"begin", "select", "rollback", "cleanup", "snapshot", "write", "prune",
                  "commit", "reread"} => op = "update"
    /\ label \in {"deleteGrants", "deleteDoc", "deleteCommit"} => op = "delete"
    /\ label \in {"readSource", "seed", "forkReread", "title"} => op = "fork"
    /\ label \in {"insert", "insertCommit"} => op \in {"publish", "fork"}
    /\ label = "check" => op \in {"update", "delete", "bookmark"}
    /\ label \in {"touch", "bookmark"} => op \in {"touch", "bookmark"}

OpKnown == \A t \in Threads : OpFits(pc[t], call[t].op)

SnapshotsWere ==
    \A c \in Conns : mode[c] = "stale" =>
        \A d \in Docs : view[c].docs[d] \in {NoRow} \cup Past(d)

\* The row of t is in the transaction of another thread that will commit next.
Arriving(t) ==
    LET c == connOf[t]
        u == opener[c].by
    IN  /\ mode[c] = "write" /\ u # t /\ pc[u] \in {"prune", "commit", "insertCommit"}
        /\ row[t] = Pending(u)[call[t].from] /\ row[t].ver > 0

SourceWas(t) ==
    call[t].op = "fork" =>
        /\ pc[t] = "insert" => row[t] \in Past(call[t].from) \/ Arriving(t)
        /\ pc[t] = "insertCommit" => row[t] \in Past(call[t].from)

ServiceInv ==
    /\ OpKnown
    /\ ~mixed => SnapshotsWere /\ \A t \in Threads : SourceWas(t)

=============================================================================
