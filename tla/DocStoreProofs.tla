--------------------------- MODULE DocStoreProofs ---------------------------
(***************************************************************************)
(* Proofs about DocStore, for any threads, connections, deployments,       *)
(* documents and bounds.                                                   *)
(***************************************************************************)
EXTENDS DocStore, TLAPS, SequenceTheorems

-----------------------------------------------------------------------------
(* Types, one lemma for each kind of SQL statement and of what follows it.  *)

Db == disk \in Tables /\ mode \in [Conns -> Modes] /\ view \in [Conns -> Tables]
Ownership ==
    /\ connOf \in Deployments
    /\ opener \in [Conns -> [by : Threads \cup {NoThread}, at : Labels]]
    /\ mixed \in BOOLEAN
Control ==
    /\ pc \in [Threads -> Labels]
    /\ call \in [Threads -> [op : Ops \cup {"none"}, doc : Docs, id : Nat, from : Docs,
                             ifVersion : Nat, retitle : BOOLEAN]]
    /\ row \in [Threads -> Rows]
Ledger ==
    /\ calls \in Nat /\ used \subseteq Docs
    /\ history \in [Docs -> Seq([content : Nat, onto : Nat])]
    /\ gone \subseteq Docs

\* TypeOK is the conjunction of its four parts.
LEMMA TypeParts == TypeOK <=> Db /\ Ownership /\ Control /\ Ledger
  BY DEF TypeOK, Db, Ownership, Control, Ledger

\* A thread's connection is one of the open connections.
LEMMA ConnType ==
  ASSUME Ownership, NEW t \in Threads
  PROVE  connOf[t] \in Conns
  BY DeploymentAssumption DEF Ownership

\* The absent row is a row.
LEMMA NoRowType == NoRow \in Rows
  BY DEF NoRow, Rows

\* A version from 1 and a content make a row.
LEMMA RowType ==
  ASSUME NEW v \in Nat \ {0}, NEW k \in Nat
  PROVE  [ver |-> v, content |-> k] \in Rows
  BY DEF Rows

\* A SELECT keeps the database typed.
LEMMA SelectTypes ==
  ASSUME Db, NEW c \in Conns, Select(c)
  PROVE  Db'
  BY DEF Db, Select, Modes

\* BEGIN IMMEDIATE, granted or refused, keeps the database typed.
LEMMA BeginTypes ==
  ASSUME Db, NEW c \in Conns, BeginImmediate(c) \/ BeginRefused(c)
  PROVE  Db'
  BY DEF Db, BeginImmediate, BeginRefused, Modes, sqliteVars

\* A data-changing statement that writes tables keeps the database typed.
LEMMA ExecuteTypes ==
  ASSUME Db, NEW c \in Conns, NEW tables \in Tables, Execute(c, tables)
  PROVE  Db'
  BY DEF Db, Execute, Modes

\* So does one that is refused.
LEMMA ExecuteRefusedTypes ==
  ASSUME Db, NEW c \in Conns, ExecuteRefused(c)
  PROVE  Db'
  BY DEF Db, ExecuteRefused, Modes

\* COMMIT makes a view the committed tables: both are tables.
LEMMA CommitTypes ==
  ASSUME Db, NEW c \in Conns, Commit(c)
  PROVE  Db'
  BY DEF Db, Commit, Modes

\* ROLLBACK goes back to the committed tables.
LEMMA RollbackTypes ==
  ASSUME Db, NEW c \in Conns, Rollback(c)
  PROVE  Db'
  BY DEF Db, Rollback, Modes

\* The record of who opened a transaction stays typed.
LEMMA AscribeTypes ==
  ASSUME Ownership, Control, NEW t \in Threads, Ascribe(t)
  PROVE  Ownership'
<1>1. connOf[t] \in Conns
  BY ConnType
<1>2. NoOpener \in [by : Threads \cup {NoThread}, at : Labels]
  BY DEF NoOpener, Labels
<1>3. [by |-> t, at |-> pc[t]] \in [by : Threads \cup {NoThread}, at : Labels]
  BY DEF Control
<1> QED
  BY <1>1, <1>2, <1>3 DEF Ownership, Ascribe

\* Every statement a thread can issue, on tables it may write.
Statement(t) ==
    \/ Read(t) \/ Refused(t) \/ DoCommit(t) \/ DoRollback(t) \/ NoStatement
    \/ \E tables \in Tables : Write(t, tables)
    \/ BeginImmediate(connOf[t]) /\ Ascribe(t)
    \/ BeginRefused(connOf[t]) /\ UNCHANGED <<connOf, opener, mixed>>

\* Every SQL statement of a thread keeps database and ownership typed.
LEMMA StatementTypes ==
  ASSUME Db, Ownership, Control, NEW t \in Threads, Statement(t)
  PROVE  Db' /\ Ownership'
<1>1. connOf[t] \in Conns
  BY ConnType
<1>2. CASE Read(t)
  BY <1>1, <1>2, SelectTypes DEF Read, Ownership
<1>3. CASE Refused(t)
  BY <1>1, <1>3, ExecuteRefusedTypes, AscribeTypes DEF Refused
<1>4. CASE DoCommit(t)
  BY <1>1, <1>4, CommitTypes, AscribeTypes DEF DoCommit
<1>5. CASE DoRollback(t)
  BY <1>1, <1>5, RollbackTypes, AscribeTypes DEF DoRollback
<1>6. CASE NoStatement
  BY <1>6 DEF NoStatement, Db, Ownership, sqliteVars
<1>7. CASE \E tables \in Tables : Write(t, tables)
  BY <1>1, <1>7, ExecuteTypes, AscribeTypes DEF Write
<1>8. CASE BeginImmediate(connOf[t]) /\ Ascribe(t)
  BY <1>1, <1>8, BeginTypes, AscribeTypes
<1>9. CASE BeginRefused(connOf[t]) /\ UNCHANGED <<connOf, opener, mixed>>
  BY <1>1, <1>9, BeginTypes DEF Ownership
<1> QED
  BY <1>2, <1>3, <1>4, <1>5, <1>6, <1>7, <1>8, <1>9 DEF Statement

\* The arguments of no call are typed.
LEMMA NoCallType ==
  NoCall \in [op : Ops \cup {"none"}, doc : Docs, id : Nat, from : Docs,
              ifVersion : Nat, retitle : BOOLEAN]
<1>1. AnyDoc \in Docs
  BY DocAssumption DEF AnyDoc
<1> QED
  BY <1>1 DEF NoCall

\* Moving on to the next statement keeps the threads typed.
LEMMA GotoTypes ==
  ASSUME Control, NEW t \in Threads, NEW label \in Labels, Goto(t, label)
  PROVE  Control'
  BY DEF Control, Goto

\* Reading a row into a local keeps the threads typed.
LEMMA RememberTypes ==
  ASSUME Control, NEW t \in Threads, NEW label \in Labels, NEW r \in Rows, Remember(t, r, label)
  PROVE  Control'
  BY DEF Control, Remember

\* Returning keeps the threads typed.
LEMMA ReturnTypes ==
  ASSUME Control, NEW t \in Threads, Return(t)
  PROVE  Control'
<1>1. "idle" \in Labels
  BY DEF Labels
<1> QED
  BY <1>1, NoCallType, NoRowType DEF Control, Return

\* Calling a handler keeps the threads typed.
LEMMA BeginCallTypes ==
  ASSUME Control, Ledger, NEW t \in Threads, NEW op, NEW d \in Docs, NEW label \in Labels,
         NEW s \in Docs, NEW v \in Nat, NEW b \in BOOLEAN, NEW arguments,
         arguments.from = s, arguments.ifVersion = v, arguments.retitle = b,
         Begin(t, op, d, label, arguments)
  PROVE  Control' /\ calls' \in Nat
  BY DEF Control, Ledger, Begin

\* A step that acknowledges nothing keeps the ledger typed.
LEMMA KeepTypes ==
  ASSUME Ledger, Keep
  PROVE  Ledger'
  BY DEF Ledger, Keep

-----------------------------------------------------------------------------
(* What the statements write is tables again.                              *)

\* Tables are a record of documents and revisions.
LEMMA TablesType ==
  ASSUME NEW T \in Tables
  PROVE  /\ T.docs \in [Docs -> Rows]
         /\ T.revs \in [Docs -> Seq(Rows)]
         /\ T = [docs |-> T.docs, revs |-> T.revs]
  BY DEF Tables

\* The fields of a row are naturals.
LEMMA RowFields ==
  ASSUME NEW r \in Rows
  PROVE  r.ver \in Nat /\ r.content \in Nat
  BY DEF Rows, NoRow

\* What a thread sees is tables.
LEMMA SeenType ==
  ASSUME Db, Ownership, NEW t \in Threads
  PROVE  Seen(t) \in Tables
  BY ConnType DEF Db, Seen

\* Writing a document gives tables.
LEMMA SetDocType ==
  ASSUME Db, Ownership, NEW t \in Threads, NEW d \in Docs, NEW r \in Rows
  PROVE  SetDoc(t, d, r) \in Tables
<1>1. Seen(t) \in Tables
  BY SeenType
<1> QED
  BY <1>1 DEF SetDoc, Tables

\* insert_revision gives tables.
LEMMA AddRevisionType ==
  ASSUME Db, Ownership, NEW t \in Threads, NEW d \in Docs, NEW r \in Rows
  PROVE  AddRevision(t, d, r) \in Tables
<1>1. Seen(t) \in Tables
  BY SeenType
<1>2. Seen(t).revs[d] \in Seq(Rows)
  BY <1>1 DEF Tables
<1>3. Append(Seen(t).revs[d], r) \in Seq(Rows)
  BY <1>2, AppendProperties
<1> QED
  BY <1>1, <1>3 DEF AddRevision, Tables

\* The newest entries of a log are a log.
LEMMA LastNType ==
  ASSUME NEW S, NEW s \in Seq(S), NEW n \in Nat
  PROVE  LastN(s, n) \in Seq(S)
<1>1. CASE Len(s) <= n
  BY <1>1 DEF LastN
<1>2. CASE ~(Len(s) <= n)
  <2>1. Len(s) \in Nat /\ Len(s) - n + 1 \in 1..Len(s) + 1
    BY <1>2, LenProperties
  <2>2. \A i \in Len(s) - n + 1..Len(s) : s[i] \in S
    BY <2>1, ElementOfSeq
  <2>3. SubSeq(s, Len(s) - n + 1, Len(s)) \in Seq(S)
    BY <2>1, <2>2, SubSeqProperties
  <2> QED
    BY <1>2, <2>3 DEF LastN
<1> QED
  BY <1>1, <1>2

\* prune_revisions gives tables.
LEMMA PrunedType ==
  ASSUME Db, Ownership, NEW t \in Threads, NEW d \in Docs
  PROVE  Pruned(t, d) \in Tables
<1>1. Seen(t) \in Tables
  BY SeenType
<1>2. Seen(t).revs[d] \in Seq(Rows)
  BY <1>1 DEF Tables
<1>3. LastN(Seen(t).revs[d], MaxRevisions) \in Seq(Rows)
  BY <1>2, BoundAssumption, LastNType
<1> QED
  BY <1>1, <1>3 DEF Pruned, Tables

\* Deleting a document and its revisions gives tables.
LEMMA DeletedType ==
  ASSUME Db, Ownership, NEW t \in Threads, NEW d \in Docs
  PROVE  [Seen(t) EXCEPT !.docs[d] = NoRow, !.revs[d] = <<>>] \in Tables
<1>1. Seen(t) \in Tables
  BY SeenType
<1>2. <<>> \in Seq(Rows)
  BY EmptySeq
<1> QED
  BY <1>1, <1>2, NoRowType DEF Tables

-----------------------------------------------------------------------------
(* A step of a thread is a statement, a move of its control, and perhaps an *)
(* entry in the ledger.                                                     *)

Move(t) ==
    \/ \E label \in Labels : Goto(t, label)
    \/ \E label \in Labels, r \in Rows : Remember(t, r, label)
    \/ Return(t)

\* A statement, a move and a typed ledger make a typed state.
LEMMA StepTypes ==
  ASSUME TypeOK, NEW t \in Threads, Statement(t), Move(t), Ledger'
  PROVE  TypeOK'
<1>1. Db /\ Ownership /\ Control
  BY TypeParts
<1>2. Db' /\ Ownership'
  BY <1>1, StatementTypes
<1>3. Control'
  BY <1>1, GotoTypes, RememberTypes, ReturnTypes DEF Move
<1> QED
  BY <1>2, <1>3 DEF TypeOK, Db, Ownership, Control, Ledger

\* The arguments and the row a thread goes by are typed.
LEMMA CallTypes ==
  ASSUME TypeOK, NEW t \in Threads
  PROVE  /\ call[t].doc \in Docs /\ call[t].from \in Docs
         /\ call[t].id \in Nat /\ call[t].ifVersion \in Nat
         /\ call[t].op \in Ops \cup {"none"} /\ call[t].retitle \in BOOLEAN
         /\ row[t] \in Rows /\ row[t].ver \in Nat /\ row[t].content \in Nat
         /\ NewContent(t) \in Nat
         /\ Seen(t) \in Tables
         /\ \A d \in Docs : Seen(t).docs[d] \in Rows /\ Seen(t).docs[d].ver \in Nat
<1>1. Db /\ Ownership /\ Control
  BY TypeParts
<1>2. Seen(t) \in Tables
  BY <1>1, SeenType
<1>3. \A d \in Docs : Seen(t).docs[d] \in Rows
  BY <1>2, TablesType
<1>4. row[t] \in Rows
  BY <1>1 DEF Control
<1>5. row[t].ver \in Nat /\ row[t].content \in Nat
  BY <1>4, RowFields
<1>6. call[t] \in [op : Ops \cup {"none"}, doc : Docs, id : Nat, from : Docs,
                   ifVersion : Nat, retitle : BOOLEAN]
  BY <1>1 DEF Control
<1> QED
  BY <1>2, <1>3, <1>4, <1>5, <1>6, RowFields DEF NewContent

\* Acknowledging a call keeps a history typed.
LEMMA AcknowledgedType ==
  ASSUME NEW h \in Seq([content : Nat, onto : Nat]), NEW k \in Nat, NEW v \in Nat
  PROVE  /\ Append(h, Acknowledged(k, v)) \in Seq([content : Nat, onto : Nat])
         /\ <<Acknowledged(k, v)>> \in Seq([content : Nat, onto : Nat])
<1>1. Acknowledged(k, v) \in [content : Nat, onto : Nat]
  BY DEF Acknowledged
<1> QED
  BY <1>1, AppendProperties

\* A new row: the one a step writes for its document.
LEMMA WrittenTypes ==
  ASSUME TypeOK, NEW t \in Threads
  PROVE  /\ [ver |-> row[t].ver + 1, content |-> call[t].id] \in Rows
         /\ [ver |-> 1, content |-> row[t].content] \in Rows
         /\ [ver |-> 1, content |-> NewContent(t)] \in Rows
<1>1. row[t].ver + 1 \in Nat \ {0} /\ 1 \in Nat \ {0}
  BY CallTypes
<1> QED
  BY <1>1, CallTypes, RowType

\* Every step of a thread is a statement, a move and a typed ledger.
LEMMA ThreadStepTypes ==
  ASSUME TypeOK, NEW t \in Threads, Step(t)
  PROVE  Statement(t) /\ Move(t) /\ Ledger'
<1> DEFINE d == call[t].doc
<1>1. Db /\ Ownership /\ Control /\ Ledger
  BY TypeParts
<1>2. Keep => Ledger'
  BY <1>1, KeepTypes
<1>3. Seen(t) \in Tables /\ d \in Docs /\ row[t] \in Rows
  BY CallTypes
<1>4. (\E tables \in Tables : Write(t, tables)) => Statement(t)
  BY DEF Statement
<1>5. \A label \in Labels : Goto(t, label) => Move(t)
  BY DEF Move
<1>6. \A label \in Labels, r \in Rows : Remember(t, r, label) => Move(t)
  BY DEF Move
<1>7. Return(t) => Move(t)
  BY DEF Move
<1>8. Read(t) \/ Refused(t) \/ DoCommit(t) \/ DoRollback(t) \/ NoStatement => Statement(t)
  BY DEF Statement
<1>9. Rejected(t) => Statement(t)
  BY <1>3, <1>4 DEF Rejected
<1>10. CASE Check(t)
  <2>1. AfterCheck(t) \in Labels
    BY DEF AfterCheck, Labels
  <2> QED
    BY <1>2, <1>5, <1>7, <1>8, <1>10, <2>1 DEF Check
<1>11. CASE BeginUpdate(t)
  <2>1. Statement(t)
    BY <1>11 DEF BeginUpdate, Statement
  <2>2. "select" \in Labels
    BY DEF Labels
  <2> QED
    BY <1>2, <1>5, <1>7, <1>11, <2>1, <2>2 DEF BeginUpdate
<1>12. CASE SelectRow(t)
  <2>1. Seen(t).docs[d] \in Rows
    BY <1>3, CallTypes
  <2>2. "snapshot" \in Labels /\ "rollback" \in Labels
    BY DEF Labels
  <2> QED
    BY <1>2, <1>6, <1>8, <1>12, <2>1, <2>2 DEF SelectRow
<1>13. CASE RollbackUpdate(t) \/ CleanUp(t)
  <2>1. "cleanup" \in Labels
    BY DEF Labels
  <2> QED
    BY <1>2, <1>5, <1>7, <1>8, <1>13, <2>1 DEF RollbackUpdate, CleanUp
<1>14. CASE InsertRevision(t)
  <2>1. AddRevision(t, d, row[t]) \in Tables
    BY <1>1, <1>3, AddRevisionType
  <2>2. "write" \in Labels /\ "cleanup" \in Labels
    BY DEF Labels
  <2> QED
    BY <1>2, <1>4, <1>5, <1>8, <1>9, <1>14, <2>1, <2>2 DEF InsertRevision
<1>15. CASE WriteVersion(t)
  <2>1. SetDoc(t, d, [ver |-> row[t].ver + 1, content |-> call[t].id]) \in Tables
    BY <1>1, <1>3, WrittenTypes, SetDocType
  <2>2. "prune" \in Labels /\ "cleanup" \in Labels
    BY DEF Labels
  <2> QED
    BY <1>2, <1>3, <1>4, <1>5, <1>8, <1>15, <2>1, <2>2 DEF WriteVersion
<1>16. CASE PruneRevisions(t)
  <2>1. Pruned(t, d) \in Tables
    BY <1>1, <1>3, PrunedType
  <2>2. "commit" \in Labels /\ "cleanup" \in Labels
    BY DEF Labels
  <2> QED
    BY <1>2, <1>4, <1>5, <1>8, <1>16, <2>1, <2>2 DEF PruneRevisions
<1>17. CASE CommitUpdate(t)
  <2>1. history[d] \in Seq([content : Nat, onto : Nat])
    BY <1>1, <1>3 DEF Ledger
  <2>2. Append(history[d], Acknowledged(call[t].id, call[t].ifVersion))
          \in Seq([content : Nat, onto : Nat])
    BY <2>1, CallTypes, AcknowledgedType
  <2>3. Ledger'
    BY <1>1, <1>3, <1>17, <2>2 DEF CommitUpdate, Ledger
  <2>4. "reread" \in Labels /\ "cleanup" \in Labels
    BY DEF Labels
  <2> QED
    BY <1>5, <1>8, <1>17, <2>3, <2>4 DEF CommitUpdate
<1>18. CASE Reread(t) \/ AuditInsert(t) \/ AuditCommit(t)
  <2>1. "audit" \in Labels /\ "auditCommit" \in Labels
    BY DEF Labels
  <2> QED
    BY <1>2, <1>3, <1>4, <1>5, <1>7, <1>8, <1>18, <2>1
       DEF Reread, AuditInsert, AuditCommit
<1>19. CASE ReadSource(t)
  <2>1. Seen(t).docs[call[t].from] \in Rows
    BY CallTypes
  <2>2. "insert" \in Labels
    BY DEF Labels
  <2> QED
    BY <1>2, <1>6, <1>7, <1>8, <1>19, <2>1, <2>2 DEF ReadSource
<1>20. CASE InsertDoc(t)
  <2>1. SetDoc(t, d, [ver |-> 1, content |-> NewContent(t)]) \in Tables
    BY <1>1, <1>3, WrittenTypes, SetDocType
  <2>2. "insertCommit" \in Labels
    BY DEF Labels
  <2> QED
    BY <1>2, <1>4, <1>5, <1>7, <1>8, <1>9, <1>20, <2>1, <2>2 DEF InsertDoc, NewContent
<1>21. CASE CommitInsert(t)
  <2>1. <<Acknowledged(NewContent(t), 0)>> \in Seq([content : Nat, onto : Nat])
    BY CallTypes, AcknowledgedType, EmptySeq
  <2>2. Ledger'
    BY <1>1, <1>3, <1>21, <2>1 DEF CommitInsert, Ledger, NewContent
  <2>3. "seed" \in Labels /\ "audit" \in Labels
    BY DEF Labels
  <2> QED
    BY <1>5, <1>8, <1>21, <2>2, <2>3 DEF CommitInsert
<1>22. CASE SeedRevision(t)
  <2>1. AddRevision(t, d, [ver |-> 1, content |-> row[t].content]) \in Tables
    BY <1>1, <1>3, WrittenTypes, AddRevisionType
  <2>2. "forkReread" \in Labels
    BY DEF Labels
  <2> QED
    BY <1>2, <1>4, <1>5, <1>7, <1>8, <1>9, <1>22, <2>1, <2>2 DEF SeedRevision
<1>23. CASE RereadFork(t) \/ WriteTitle(t)
  <2>1. "title" \in Labels /\ "touchCommit" \in Labels
    BY DEF Labels
  <2> QED
    BY <1>2, <1>3, <1>4, <1>5, <1>7, <1>8, <1>23, <2>1 DEF RereadFork, WriteTitle
<1>24. CASE DeleteGrants(t)
  <2>1. "deleteDoc" \in Labels
    BY DEF Labels
  <2> QED
    BY <1>2, <1>3, <1>4, <1>5, <1>7, <1>8, <1>24, <2>1 DEF DeleteGrants
<1>25. CASE DeleteDoc(t)
  <2>1. [Seen(t) EXCEPT !.docs[d] = NoRow, !.revs[d] = <<>>] \in Tables
    BY <1>1, <1>3, DeletedType
  <2>2. Seen(t).docs[d] \in Rows
    BY CallTypes
  <2>3. "deleteCommit" \in Labels
    BY DEF Labels
  <2> QED
    BY <1>2, <1>4, <1>6, <1>7, <1>8, <1>25, <2>1, <2>2, <2>3 DEF DeleteDoc
<1>26. CASE CommitDelete(t)
  <2>1. Ledger'
    BY <1>1, <1>3, <1>26 DEF CommitDelete, Ledger
  <2>2. "audit" \in Labels
    BY DEF Labels
  <2> QED
    BY <1>5, <1>7, <1>8, <1>26, <2>1, <2>2 DEF CommitDelete
<1>27. CASE TouchRow(t) \/ WriteBookmark(t) \/ CommitTouch(t)
  <2>1. "touchCommit" \in Labels
    BY DEF Labels
  <2> QED
    BY <1>2, <1>3, <1>4, <1>5, <1>7, <1>8, <1>9, <1>27, <2>1
       DEF TouchRow, WriteBookmark, CommitTouch
<1> QED
  BY <1>10, <1>11, <1>12, <1>13, <1>14, <1>15, <1>16, <1>17, <1>18, <1>19, <1>20, <1>21,
     <1>22, <1>23, <1>24, <1>25, <1>26, <1>27 DEF Step

\* Calling any handler keeps TypeOK.
LEMMA StartTypes ==
  ASSUME TypeOK, NEW t \in Threads, Start(t)
  PROVE  TypeOK'
<1>1. Db /\ Ownership /\ Control /\ Ledger
  BY TypeParts
<1>2. ASSUME NEW op, NEW d \in Docs, NEW label \in Labels, NEW s \in Docs, NEW v \in Nat,
             NEW b \in BOOLEAN, NEW arguments, arguments.from = s, arguments.ifVersion = v,
             arguments.retitle = b, Begin(t, op, d, label, arguments), used' \subseteq Docs
      PROVE  TypeOK'
  <2>1. Control' /\ calls' \in Nat
    BY <1>1, <1>2, BeginCallTypes
  <2>2. Statement(t) /\ UNCHANGED <<history, gone>>
    BY <1>2 DEF Begin, Statement
  <2>3. Db' /\ Ownership'
    BY <1>1, <2>2, StatementTypes
  <2> QED
    BY <1>1, <1>2, <2>1, <2>2, <2>3 DEF TypeOK, Db, Ownership, Control, Ledger
<1>3. /\ NoCall.from \in Docs /\ NoCall.ifVersion \in Nat /\ NoCall.retitle \in BOOLEAN
      /\ AnyDoc \in Docs
  BY DocAssumption DEF NoCall, AnyDoc
<1>4. {"insert", "check", "readSource", "touch"} \subseteq Labels
  BY DEF Labels
<1>5. used \subseteq Docs /\ \A d \in Docs : FreshDoc(d) => used' \subseteq Docs
  BY <1>1 DEF Ledger, FreshDoc
<1>6. CASE StartPublish(t)
  BY <1>2, <1>3, <1>4, <1>5, <1>6 DEF StartPublish
<1>7. CASE StartUpdate(t)
  <2>1. PICK d \in used, v \in 1..MaxCalls + 1 :
          Begin(t, "update", d, "check", [NoCall EXCEPT !.ifVersion = v]) /\ UNCHANGED used
    BY <1>7 DEF StartUpdate
  <2>2. d \in Docs /\ v \in Nat
    BY <1>5, BoundAssumption
  <2>3. /\ [NoCall EXCEPT !.ifVersion = v].from = NoCall.from
        /\ [NoCall EXCEPT !.ifVersion = v].ifVersion = v
        /\ [NoCall EXCEPT !.ifVersion = v].retitle = NoCall.retitle
    BY DEF NoCall
  <2> QED
    BY <1>2, <1>3, <1>4, <1>5, <2>1, <2>2, <2>3
<1>8. CASE StartDelete(t) \/ StartBookmark(t)
  BY <1>2, <1>3, <1>4, <1>5, <1>8 DEF StartDelete, StartBookmark
<1>9. CASE StartFork(t)
  <2>1. PICK s \in used, d \in Docs, b \in BOOLEAN :
          /\ FreshDoc(d)
          /\ Begin(t, "fork", d, "readSource", [NoCall EXCEPT !.from = s, !.retitle = b])
    BY <1>9 DEF StartFork
  <2>2. /\ [NoCall EXCEPT !.from = s, !.retitle = b].from = s
        /\ [NoCall EXCEPT !.from = s, !.retitle = b].ifVersion = NoCall.ifVersion
        /\ [NoCall EXCEPT !.from = s, !.retitle = b].retitle = b
    BY DEF NoCall
  <2> QED
    BY <1>2, <1>3, <1>4, <1>5, <2>1, <2>2
<1>10. CASE StartTouch(t)
  BY <1>2, <1>3, <1>4, <1>5, <1>10 DEF StartTouch
<1> QED
  BY <1>6, <1>7, <1>8, <1>9, <1>10 DEF Start

\* A process that stops keeps TypeOK.
LEMMA CrashTypes ==
  ASSUME TypeOK, NEW c \in Conns, Crash(c)
  PROVE  TypeOK'
<1>1. Db /\ Ownership /\ Control /\ Ledger
  BY TypeParts
<1>2. Db'
  BY <1>1, RollbackTypes DEF Crash
<1>3. NoOpener \in [by : Threads \cup {NoThread}, at : Labels]
  BY DEF NoOpener, Labels
<1>4. Ownership'
  BY <1>1, <1>3 DEF Ownership, Crash
<1>5. "idle" \in Labels
  BY DEF Labels
<1>6. Control'
  BY <1>1, <1>5, NoCallType, NoRowType DEF Control, Crash
<1>7. Ledger'
  BY <1>1, KeepTypes DEF Crash
<1> QED
  BY <1>2, <1>4, <1>6, <1>7 DEF TypeOK, Db, Ownership, Control, Ledger

\* TypeOK holds at the start.
LEMMA InitTypes == Init => TypeOK
<1> SUFFICES ASSUME Init PROVE TypeOK
  OBVIOUS
<1>1. EmptyTables \in Tables
  <2>1. [ver |-> 1, content |-> 0] \in Rows
    BY RowType
  <2>2. <<>> \in Seq(Rows)
    BY EmptySeq
  <2> QED
    BY <2>1, <2>2, NoRowType DEF EmptyTables, Tables
<1>2. Db
  BY <1>1 DEF Init, SqliteInit, Db, Modes
<1>3. Ownership
  BY DEF Init, Ownership, NoOpener, Labels
<1>4. Control
  BY NoCallType, NoRowType DEF Init, Control, Labels
<1>5. Ledger
  <2>1. <<>> \in Seq([content : Nat, onto : Nat])
    BY EmptySeq
  <2>2. <<Acknowledged(0, 0)>> \in Seq([content : Nat, onto : Nat])
    BY <2>1, AcknowledgedType
  <2> QED
    BY <2>1, <2>2, DocAssumption DEF Init, Ledger
<1> QED
  BY <1>2, <1>3, <1>4, <1>5, TypeParts

\* Every step keeps TypeOK.
LEMMA NextTypes == TypeOK /\ [Next]_vars => TypeOK'
<1> SUFFICES ASSUME TypeOK, [Next]_vars PROVE TypeOK'
  OBVIOUS
<1>1. CASE \E t \in Threads : Start(t)
  BY <1>1, StartTypes
<1>2. CASE \E t \in Threads : Step(t)
  BY <1>2, ThreadStepTypes, StepTypes
<1>3. CASE \E c \in Conns : Crash(c)
  BY <1>3, CrashTypes
<1>4. CASE UNCHANGED vars
  BY <1>4 DEF vars, sqliteVars, threadVars, ghostVars, TypeOK
<1> QED
  BY <1>1, <1>2, <1>3, <1>4 DEF Next

\* DocStore is type-correct: every statement of docs.py, save.py and audit.py
\* leaves tables, transactions and threads in their types.
THEOREM TypeCorrect == Spec => []TypeOK
  BY InitTypes, NextTypes, PTL DEF Spec

-----------------------------------------------------------------------------
(* Transactions, whatever the threads do: one writer, and an owner who runs *)
(* on the connection.                                                      *)

Structure == OneWriter /\ OpenerKnown /\ (PerThread => ~mixed)

\* What the later proofs need of TypeOK.
LEMMA ModeTypes ==
  ASSUME TypeOK
  PROVE  /\ mode \in [Conns -> Modes] /\ \A t \in Threads : connOf[t] \in Conns
         /\ view \in [Conns -> Tables] /\ disk \in Tables
         /\ DOMAIN opener = Conns /\ connOf \in [Threads -> Conns]
         /\ mixed \in BOOLEAN
<1>1. Db /\ Ownership
  BY TypeParts
<1>2. \A t \in Threads : connOf[t] \in Conns
  BY <1>1, ConnType
<1> QED
  BY <1>1, <1>2, DeploymentAssumption DEF Db, Ownership

\* Ascribe records the owner of what the statement left open.
LEMMA AscribeOwner ==
  ASSUME TypeOK, Structure, NEW t \in Threads, Ascribe(t),
         \A x \in Conns \ {connOf[t]} : mode[x] = "none" <=> mode'[x] = "none"
  PROVE  OpenerKnown' /\ (PerThread => ~mixed)'
<1>1. connOf[t] \in Conns /\ DOMAIN opener = Conns /\ connOf' = connOf
  BY ModeTypes DEF Ascribe
<1>2. ASSUME NEW x \in Conns, mode'[x] # "none"
      PROVE  opener'[x].by \in Threads /\ connOf'[opener'[x].by] = x
  <2>1. CASE x = connOf[t] /\ mode[x] = "none"
    BY <1>1, <1>2, <2>1 DEF Ascribe
  <2>2. CASE x = connOf[t] /\ mode[x] # "none"
    BY <1>1, <1>2, <2>2 DEF Ascribe, Structure, OpenerKnown
  <2>3. CASE x # connOf[t]
    BY <1>1, <1>2, <2>3 DEF Ascribe, Structure, OpenerKnown
  <2> QED
    BY <2>1, <2>2, <2>3
<1>3. ASSUME PerThread
      PROVE  ~mixed'
  <2>1. mode[connOf[t]] # "none" => opener[connOf[t]].by = t
    BY <1>1, <1>3 DEF Structure, OpenerKnown, PerThread
  <2> QED
    BY <1>3, <2>1 DEF Ascribe, Structure
<1>4. PerThread' <=> PerThread
  BY <1>1 DEF PerThread
<1> QED
  BY <1>2, <1>3, <1>4 DEF OpenerKnown

\* Every statement keeps one writer and known owners.
LEMMA StructureKept ==
  ASSUME TypeOK, Structure, NEW t \in Threads, Statement(t)
  PROVE  Structure'
<1> DEFINE c == connOf[t]
<1>1. c \in Conns /\ mode \in [Conns -> Modes]
  BY ModeTypes
<1>2. CASE UNCHANGED <<connOf, opener, mixed>> /\ OneWriter'
           /\ \A x \in Conns : mode[x] = "none" <=> mode'[x] = "none"
  BY <1>2 DEF Structure, OpenerKnown, PerThread
<1>3. CASE Ascribe(t) /\ OneWriter'
           /\ \A x \in Conns \ {c} : mode[x] = "none" <=> mode'[x] = "none"
  BY <1>3, AscribeOwner DEF Structure
<1>4. CASE Read(t)
  <2>1. /\ mode' = [mode EXCEPT ![c] = IF @ = "open" THEN "read" ELSE @]
        /\ UNCHANGED <<connOf, opener, mixed>>
    BY <1>4 DEF Read, Select
  <2> QED
    BY <1>1, <1>2, <2>1 DEF Structure, OneWriter
<1>5. CASE NoStatement \/ (BeginRefused(c) /\ UNCHANGED <<connOf, opener, mixed>>)
  BY <1>2, <1>5 DEF NoStatement, BeginRefused, sqliteVars, Structure, OneWriter
<1>6. CASE Refused(t)
  <2>1. mode' = [mode EXCEPT ![c] = IF @ = "none" THEN "open" ELSE @]
    BY <1>6 DEF Refused, ExecuteRefused
  <2> QED
    BY <1>1, <1>3, <1>6, <2>1 DEF Refused, Structure, OneWriter
<1>7. CASE DoRollback(t)
  <2>1. mode' = [mode EXCEPT ![c] = "none"]
    BY <1>7 DEF DoRollback, Rollback
  <2> QED
    BY <1>1, <1>3, <1>7, <2>1 DEF DoRollback, Structure, OneWriter
<1>8. CASE DoCommit(t)
  <2>1. \A x \in Conns : /\ mode'[x] = "write" => mode[x] = "write"
                         /\ x # c => (mode[x] = "none" <=> mode'[x] = "none")
    BY <1>1, <1>8 DEF DoCommit, Commit
  <2> QED
    BY <1>1, <1>3, <1>8, <2>1 DEF DoCommit, Structure, OneWriter
<1>9. CASE (\E tables \in Tables : Write(t, tables)) \/ (BeginImmediate(c) /\ Ascribe(t))
  <2>1. mode' = [mode EXCEPT ![c] = "write"] /\ LockFree(c) /\ Ascribe(t)
    BY <1>9 DEF Write, Execute, CanWrite, BeginImmediate
  <2> QED
    BY <1>1, <1>3, <2>1 DEF LockFree, Structure, OneWriter
<1> QED
  BY <1>4, <1>5, <1>6, <1>7, <1>8, <1>9 DEF Statement

\* So does a process that stops.
LEMMA CrashStructure ==
  ASSUME TypeOK, Structure, NEW c \in Conns, Crash(c)
  PROVE  Structure'
<1>1. /\ mode' = [mode EXCEPT ![c] = "none"] /\ opener' = [opener EXCEPT ![c] = NoOpener]
      /\ UNCHANGED <<connOf, mixed>> /\ mode \in [Conns -> Modes] /\ DOMAIN opener = Conns
  BY ModeTypes DEF Crash, Rollback
<1> QED
  BY <1>1 DEF Structure, OneWriter, OpenerKnown, PerThread

-----------------------------------------------------------------------------
(* Transactions that no two threads share.                                 *)

Special == {"prune", "commit", "insertCommit", "deleteCommit"}

\* What a thread may rely on, thread by thread.
HoldsLock(t) == pc[t] \in Holding => mode[connOf[t]] = "write" /\ opener[connOf[t]].by = t
KnowsRow(t) ==
    /\ pc[t] \in Updating \cup {"deleteCommit"} => row[t] = disk.docs[call[t].doc]
    /\ pc[t] \in Updating => row[t].ver > 0 /\ row[t].ver = call[t].ifVersion
Sole(t) == mode[connOf[t]] # "none" => opener[connOf[t]].by = t
Resting(u) == pc'[u] = pc[u] /\ call'[u] = call[u] /\ row'[u] = row[u]
OthersRest(t) == \A u \in Threads \ {t} : Resting(u)

\* Two parts of the invariant, thread by thread.
LEMMA PerThreadParts ==
  /\ LockHeld <=> \A t \in Threads : HoldsLock(t)
  /\ RowsCurrent <=> \A t \in Threads : KnowsRow(t)
  BY DEF LockHeld, HoldsLock, RowsCurrent, KnowsRow

\* While nothing is mixed, a thread that writes was alone in its transaction.
LEMMA AscribeSole ==
  ASSUME TypeOK, NEW t \in Threads, Ascribe(t), ~mixed'
  PROVE  Sole(t) /\ ~mixed
  BY ModeTypes DEF Ascribe, Sole

\* A move of one thread leaves the others where they were.
LEMMA MoveRests ==
  ASSUME TypeOK, NEW t \in Threads, Move(t)
  PROVE  OthersRest(t)
<1>1. Control
  BY TypeParts
<1> QED
  BY <1>1 DEF Control, Move, Goto, Remember, Return, OthersRest, Resting

\* A resting thread owes the documents what it owed before.
LEMMA PendingKept ==
  ASSUME NEW u \in Threads, Resting(u), disk'.docs = disk.docs
  PROVE  Pending(u)' = Pending(u)
  BY DEF Pending, NewContent, Resting

\* Outside the special labels a transaction has written no document.
LEMMA PendingPlain ==
  ASSUME NEW t \in Threads, pc[t] \notin Special
  PROVE  Pending(t) = disk.docs
  BY DEF Pending, Special

\* A resting thread knows its row while the documents stay.
LEMMA KnowsRowKept ==
  ASSUME NEW u \in Threads, Resting(u), disk'.docs = disk.docs, KnowsRow(u)
  PROVE  KnowsRow(u)'
  BY DEF KnowsRow, Resting

\* In a transaction of its own a thread sees what it has done so far.
LEMMA SeenPending ==
  ASSUME TypeOK, ViewsTrack, NEW t \in Threads, HoldsLock(t), Sole(t),
         mode[connOf[t]] # "stale"
  PROVE  Seen(t).docs = Pending(t)
<1>1. connOf[t] \in Conns /\ mode[connOf[t]] \in Modes
  BY ModeTypes
<1>2. CASE mode[connOf[t]] = "write"
  BY <1>1, <1>2 DEF ViewsTrack, Sole, Seen
<1>3. CASE mode[connOf[t]] # "write"
  <2>1. pc[t] \notin Special
    BY <1>3 DEF HoldsLock, Holding, Special
  <2>2. view[connOf[t]] = disk
    BY <1>1, <1>3 DEF ViewsTrack, Modes
  <2> QED
    BY <2>1, <2>2, PendingPlain DEF Seen
<1> QED
  BY <1>2, <1>3

\* No statement takes the lock from a thread that relies on it.
LEMMA HolderKept ==
  ASSUME TypeOK, Structure, NEW t \in Threads, Statement(t), ~mixed',
         NEW u \in Threads \ {t}, Resting(u), HoldsLock(u)
  PROVE  HoldsLock(u)'
<1> DEFINE c == connOf[t]
           x == connOf[u]
<1> SUFFICES ASSUME pc[u] \in Holding
             PROVE  mode'[x] = "write" /\ opener'[x].by = u /\ connOf' = connOf
  BY DEF HoldsLock, Resting
<1>1. /\ c \in Conns /\ x \in Conns /\ mode \in [Conns -> Modes] /\ DOMAIN opener = Conns
      /\ mode[x] = "write" /\ opener[x].by = u
  BY ModeTypes DEF HoldsLock
<1>2. CASE Ascribe(t)
  <2>1. x # c
    BY <1>1, <1>2, AscribeSole DEF Sole
  <2>2. opener'[x] = opener[x] /\ connOf' = connOf
    BY <1>1, <1>2, <2>1 DEF Ascribe
  <2>3. CASE DoCommit(t)
    <3>1. mode[c] # "write"
      BY <1>1, <2>1 DEF Structure, OneWriter
    <3> QED
      BY <1>1, <2>1, <2>2, <2>3, <3>1 DEF DoCommit, Commit
  <2>4. CASE Refused(t) \/ DoRollback(t) \/ (\E tables \in Tables : Write(t, tables))
             \/ BeginImmediate(c)
    BY <1>1, <2>1, <2>2, <2>4
       DEF Refused, ExecuteRefused, DoRollback, Rollback, Write, Execute, BeginImmediate
  <2>5. CASE Read(t) \/ NoStatement \/ BeginRefused(c)
    BY <1>1, <2>1, <2>2, <2>5 DEF Read, Select, NoStatement, BeginRefused, sqliteVars
  <2> QED
    BY <2>3, <2>4, <2>5 DEF Statement
<1>3. CASE ~Ascribe(t)
  <2>1. Read(t) \/ NoStatement \/ (BeginRefused(c) /\ UNCHANGED <<connOf, opener, mixed>>)
    BY <1>3 DEF Statement, Refused, DoCommit, DoRollback, Write
  <2> QED
    BY <1>1, <2>1 DEF Read, Select, NoStatement, BeginRefused, sqliteVars
<1> QED
  BY <1>2, <1>3

-----------------------------------------------------------------------------
(* What each kind of statement does to the views.                          *)

ViewTracks(c) ==
    /\ mode[c] \in {"none", "open", "read"} => view[c] = disk
    /\ mode[c] = "write" => view[c].docs = Pending(opener[c].by)

\* ViewsTrack, connection by connection.
LEMMA ViewParts == ViewsTrack <=> \A c \in Conns : ViewTracks(c)
  BY DEF ViewsTrack, ViewTracks

\* A connection that a step leaves alone still sees what it should.
LEMMA ElsewhereView ==
  ASSUME TypeOK, Structure, ViewsTrack, NEW t \in Threads, OthersRest(t),
         NEW x \in Conns, x # connOf[t], disk' = disk,
         mode'[x] = mode[x], view'[x] = view[x], opener'[x] = opener[x]
  PROVE  ViewTracks(x)'
<1>1. CASE mode[x] = "write"
  <2>1. PICK u \in Threads \ {t} : opener[x].by = u
    BY <1>1 DEF Structure, OpenerKnown
  <2>2. Pending(u)' = Pending(u)
    BY <2>1, PendingKept DEF OthersRest
  <2> QED
    BY <1>1, <2>1, <2>2 DEF ViewsTrack, ViewTracks
<1>2. CASE mode[x] # "write"
  BY <1>2 DEF ViewsTrack, ViewTracks
<1> QED
  BY <1>1, <1>2

\* A read, or no statement at all.
LEMMA QuietViews ==
  ASSUME TypeOK, Structure, ViewsTrack, NEW t \in Threads, OthersRest(t),
         \/ Read(t) \/ NoStatement
         \/ (BeginRefused(connOf[t]) /\ UNCHANGED <<connOf, opener, mixed>>),
         pc[t] \notin Special, pc'[t] \notin Special
  PROVE  ViewsTrack' /\ disk' = disk
<1>1. /\ disk' = disk /\ view' = view /\ opener' = opener /\ mode \in [Conns -> Modes]
      /\ \A x \in Conns : \/ mode'[x] = mode[x]
                          \/ mode[x] = "open" /\ mode'[x] = "read"
  BY ModeTypes DEF Read, Select, NoStatement, BeginRefused, sqliteVars
<1>2. ASSUME NEW u \in Threads
      PROVE  Pending(u)' = Pending(u)
  <2>1. CASE u = t
    BY <1>1, <2>1 DEF Pending, Special
  <2>2. CASE u # t
    BY <1>1, <2>2, PendingKept DEF OthersRest
  <2> QED
    BY <2>1, <2>2
<1>3. ASSUME NEW x \in Conns
      PROVE  ViewTracks(x)'
  <2>1. CASE mode[x] = "write"
    <3>1. opener[x].by \in Threads
      BY <2>1 DEF Structure, OpenerKnown
    <3>2. Pending(opener[x].by)' = Pending(opener[x].by)
      BY <1>1, <1>2, <3>1
    <3>3. mode'[x] = "write" /\ view'[x].docs = Pending(opener[x].by)
      BY <1>1, <2>1 DEF ViewsTrack
    <3> QED
      BY <1>1, <3>2, <3>3 DEF ViewTracks
  <2>2. CASE mode[x] # "write"
    BY <1>1, <2>2 DEF ViewsTrack, ViewTracks
  <2> QED
    BY <2>1, <2>2
<1> QED
  BY <1>1, <1>3, ViewParts DEF ViewsTrack, ViewTracks

\* A data-changing statement: the thread has the lock, and its transaction
\* holds what the statement wrote.
LEMMA DmlViews ==
  ASSUME TypeOK, Structure, ViewsTrack, NEW t \in Threads, OthersRest(t), ~mixed',
         NEW tables \in Tables, Write(t, tables), tables.docs = Pending(t)'
  PROVE  ViewsTrack' /\ disk' = disk /\ HoldsLock(t)'
<1> DEFINE c == connOf[t]
<1>1. /\ c \in Conns /\ mode \in [Conns -> Modes] /\ DOMAIN opener = Conns
      /\ view \in [Conns -> Tables]
  BY ModeTypes
<1>2. Sole(t)
  BY AscribeSole DEF Write
<1>3. /\ mode' = [mode EXCEPT ![c] = "write"] /\ view' = [view EXCEPT ![c] = tables]
      /\ disk' = disk /\ connOf' = connOf
      /\ opener' = [opener EXCEPT ![c] =
                      IF mode'[c] = "none" THEN NoOpener
                      ELSE IF mode[c] = "none" THEN [by |-> t, at |-> pc[t]] ELSE @]
  BY DEF Write, Execute, Ascribe
<1>4. mode'[c] = "write" /\ opener'[c].by = t /\ view'[c] = tables
  BY <1>1, <1>2, <1>3 DEF Sole
<1>5. ViewTracks(c)'
  BY <1>4, <1>3 DEF ViewTracks
<1>6. \A x \in Conns \ {c} : ViewTracks(x)'
  BY <1>1, <1>3, ElsewhereView
<1> QED
  BY <1>3, <1>4, <1>5, <1>6, ViewParts DEF ViewsTrack, ViewTracks, HoldsLock

\* A statement refused for the lock: whoever relied on the lock was not refused.
LEMMA RefusedViews ==
  ASSUME TypeOK, Structure, ViewsTrack, NEW t \in Threads, OthersRest(t), ~mixed',
         HoldsLock(t), Refused(t), pc'[t] \notin Special
  PROVE  ViewsTrack' /\ disk' = disk /\ pc[t] \notin Holding
<1> DEFINE c == connOf[t]
<1>1. c \in Conns /\ mode \in [Conns -> Modes] /\ DOMAIN opener = Conns
  BY ModeTypes
<1>2. /\ mode' = [mode EXCEPT ![c] = IF @ = "none" THEN "open" ELSE @]
      /\ disk' = disk /\ view' = view /\ connOf' = connOf /\ ~CanWrite(c)
      /\ \A x \in Conns \ {c} : opener'[x] = opener[x]
  BY <1>1 DEF Refused, ExecuteRefused, Ascribe
<1>3. mode[c] # "write"
  BY <1>1, <1>2 DEF CanWrite, LockFree, Structure, OneWriter
<1>4. ViewTracks(c)'
  BY <1>1, <1>2, <1>3 DEF ViewsTrack, ViewTracks
<1>5. \A x \in Conns \ {c} : ViewTracks(x)'
  BY <1>1, <1>2, ElsewhereView
<1> QED
  BY <1>2, <1>3, <1>4, <1>5, ViewParts DEF HoldsLock, ViewsTrack, ViewTracks

\* BEGIN IMMEDIATE and ROLLBACK: the transaction has written nothing.
LEMMA EmptyViews ==
  ASSUME TypeOK, Structure, ViewsTrack, NEW t \in Threads, OthersRest(t), ~mixed',
         (BeginImmediate(connOf[t]) /\ Ascribe(t)) \/ DoRollback(t),
         pc'[t] \notin Special
  PROVE  ViewsTrack' /\ disk' = disk
         /\ (BeginImmediate(connOf[t]) => HoldsLock(t)')
<1> DEFINE c == connOf[t]
<1>1. /\ c \in Conns /\ mode \in [Conns -> Modes] /\ DOMAIN opener = Conns
      /\ view \in [Conns -> Tables]
  BY ModeTypes
<1>2. /\ disk' = disk /\ connOf' = connOf
      /\ \A x \in Conns \ {c} :
           mode'[x] = mode[x] /\ view'[x] = view[x] /\ opener'[x] = opener[x]
  BY <1>1 DEF BeginImmediate, DoRollback, Rollback, Ascribe
<1>3. view'[c] = disk
  BY <1>1 DEF BeginImmediate, DoRollback, Rollback, ViewsTrack
<1>4. mode'[c] = "none" \/ (mode'[c] = "write" /\ opener'[c].by = t)
  BY <1>1 DEF BeginImmediate, DoRollback, Rollback, Ascribe
<1>5. Pending(t)' = disk.docs
  BY <1>2 DEF Pending, Special
<1>6. ViewTracks(c)'
  BY <1>2, <1>3, <1>4, <1>5 DEF ViewTracks
<1>7. \A x \in Conns \ {c} : ViewTracks(x)'
  BY <1>1, <1>2, ElsewhereView
<1>8. BeginImmediate(c) => HoldsLock(t)'
  <2> SUFFICES ASSUME BeginImmediate(c) PROVE mode'[c] = "write"
    BY <1>2, <1>4 DEF HoldsLock
  <2> QED
    BY <1>1 DEF BeginImmediate
<1> QED
  BY <1>2, <1>6, <1>7, <1>8, ViewParts DEF ViewsTrack, ViewTracks

\* A commit makes what the thread had pending the committed documents, and no
\* other thread was relying on the lock.
LEMMA CommitViews ==
  ASSUME TypeOK, Structure, ViewsTrack, NEW t \in Threads, OthersRest(t), ~mixed',
         HoldsLock(t), DoCommit(t), pc'[t] \notin Special
  PROVE  /\ ViewsTrack'
         /\ disk'.docs = Pending(t)
         /\ mode[connOf[t]] = "write" =>
              \A u \in Threads \ {t} : HoldsLock(u) => pc[u] \notin Holding
<1> DEFINE c == connOf[t]
<1>1. /\ c \in Conns /\ mode \in [Conns -> Modes] /\ DOMAIN opener = Conns
      /\ view \in [Conns -> Tables] /\ \A u \in Threads : connOf[u] \in Conns
  BY ModeTypes
<1>2. Sole(t)
  BY AscribeSole DEF DoCommit
<1>3. CASE mode[c] = "write"
  <2>1. /\ disk' = view[c]
        /\ \A x \in Conns : /\ mode[x] \notin {"read", "stale"} => view'[x] = view[c]
                            /\ x # c /\ mode[x] = "read" => mode'[x] = "stale"
                            /\ x # c /\ mode[x] # "read" => mode'[x] = mode[x]
        /\ mode'[c] = "none"
    BY <1>1, <1>3 DEF DoCommit, Commit
  <2>2. \A x \in Conns \ {c} : mode[x] # "write"
    BY <1>1, <1>3 DEF Structure, OneWriter
  <2>3. ViewsTrack'
    BY <1>1, <1>3, <2>1, <2>2 DEF ViewsTrack
  <2>4. disk'.docs = Pending(t)
    BY <1>1, <1>2, <1>3, <2>1 DEF ViewsTrack, Sole
  <2>5. ASSUME NEW u \in Threads \ {t}, HoldsLock(u)
        PROVE  pc[u] \notin Holding
    BY <1>1, <1>2, <1>3, <2>2, <2>5 DEF Sole, HoldsLock
  <2> QED
    BY <2>3, <2>4, <2>5
<1>4. CASE mode[c] # "write"
  <2>1. /\ mode' = [mode EXCEPT ![c] = "none"] /\ view' = [view EXCEPT ![c] = disk]
        /\ disk' = disk /\ connOf' = connOf
        /\ \A x \in Conns \ {c} : opener'[x] = opener[x]
    BY <1>1, <1>4 DEF DoCommit, Commit, Ascribe
  <2>2. pc[t] \notin Special
    BY <1>4 DEF HoldsLock, Holding, Special
  <2>3. ViewTracks(c)'
    BY <1>1, <2>1 DEF ViewTracks
  <2>4. \A x \in Conns \ {c} : ViewTracks(x)'
    BY <1>1, <2>1, ElsewhereView
  <2>5. ViewsTrack'
    BY <2>1, <2>3, <2>4 DEF ViewsTrack, ViewTracks
  <2> QED
    BY <1>4, <2>1, <2>2, <2>5, PendingPlain
<1> QED
  BY <1>3, <1>4

-----------------------------------------------------------------------------
(* Steps that leave the ledger and the committed documents alone.          *)

\* Where a move leads, and what it leaves alone.
LEMMA MoveFacts ==
  ASSUME TypeOK, NEW t \in Threads
  PROVE  /\ \A label \in Labels : Goto(t, label) =>
              Move(t) /\ pc'[t] = label /\ call'[t] = call[t] /\ row'[t] = row[t]
         /\ \A label \in Labels, r \in Rows : Remember(t, r, label) =>
              Move(t) /\ pc'[t] = label /\ call'[t] = call[t] /\ row'[t] = r
         /\ Return(t) => Move(t) /\ pc'[t] = "idle"
<1>1. Control
  BY TypeParts
<1> QED
  BY <1>1 DEF Control, Goto, Remember, Return, Move

\* A document on its way into the store stays the one the call was given.
StillCreating(t) ==
    pc'[t] \in Creating => pc[t] \in Creating /\ call'[t].doc = call[t].doc

\* A step that leaves the documents and the ledger alone keeps Unshared.
LEMMA KeptUnshared ==
  ASSUME TypeOK, Structure, Unshared, NEW t \in Threads, ~mixed', Statement(t), OthersRest(t),
         Keep, StillCreating(t), ViewsTrack', disk'.docs = disk.docs,
         HoldsLock(t)', KnowsRow(t)'
  PROVE  Unshared'
<1>1. \A u \in Threads \ {t} : HoldsLock(u)' /\ KnowsRow(u)'
  BY HolderKept, KnowsRowKept, PerThreadParts DEF Unshared, OthersRest
<1>2. LockHeld' /\ RowsCurrent'
  BY <1>1 DEF LockHeld, RowsCurrent, HoldsLock, KnowsRow
<1>3. used' = used /\ history' = history /\ gone' = gone
  BY DEF Keep
<1>4. NewDocsUnknown'
  <2>1. \A u \in Threads : pc'[u] \in Creating =>
          pc[u] \in Creating /\ call'[u].doc = call[u].doc
    BY DEF OthersRest, Resting, StillCreating
  <2> QED
    BY <1>3, <2>1 DEF Unshared, NewDocsUnknown
<1>5. \A d \in Docs : Expected(d)' = Expected(d)
  BY <1>3 DEF Expected
<1> QED
  BY <1>2, <1>3, <1>4, <1>5 DEF Unshared

\* A thread that writes sees the committed documents and its own writes.
LEMMA SeenOwn ==
  ASSUME TypeOK, Unshared, NEW t \in Threads, ~mixed', NEW tables, Write(t, tables)
  PROVE  Seen(t).docs = Pending(t)
<1>1. Sole(t) /\ mode[connOf[t]] # "stale"
  BY AscribeSole DEF Write, Execute, CanWrite
<1> QED
  BY <1>1, SeenPending, PerThreadParts DEF Unshared

\* A write that does to the documents what the next label says keeps Unshared.
LEMMA WriteStep ==
  ASSUME TypeOK, Structure, Unshared, NEW t \in Threads, ~mixed', Move(t), Keep,
         NEW tables \in Tables, Write(t, tables), tables.docs = Pending(t)',
         KnowsRow(t)', StillCreating(t)
  PROVE  Unshared'
<1>1. OthersRest(t) /\ Statement(t)
  BY MoveRests DEF Statement
<1>2. ViewsTrack' /\ disk' = disk /\ HoldsLock(t)'
  BY <1>1, DmlViews DEF Unshared
<1> QED
  BY <1>1, <1>2, KeptUnshared

\* After a read a thread relies on the lock only if it did before.
LEMMA QuietStep ==
  ASSUME TypeOK, Structure, Unshared, NEW t \in Threads, ~mixed', Move(t), Keep,
         \/ Read(t) \/ NoStatement
         \/ (BeginRefused(connOf[t]) /\ UNCHANGED <<connOf, opener, mixed>>),
         pc[t] \notin Special, pc'[t] \notin Special,
         pc'[t] \in Holding => pc[t] \in Holding,
         KnowsRow(t)', StillCreating(t)
  PROVE  Unshared'
<1>1. OthersRest(t) /\ Statement(t)
  BY MoveRests DEF Statement
<1>2. ViewsTrack' /\ disk' = disk
  BY <1>1, QuietViews DEF Unshared
<1>3. HoldsLock(t)'
  <2>1. HoldsLock(t)
    BY PerThreadParts DEF Unshared
  <2>2. /\ connOf' = connOf /\ opener' = opener
        /\ mode[connOf[t]] = "write" => mode'[connOf[t]] = "write"
    BY ModeTypes DEF Read, Select, NoStatement, BeginRefused, sqliteVars
  <2> QED
    BY <2>1, <2>2 DEF HoldsLock
<1> QED
  BY <1>1, <1>2, <1>3, KeptUnshared

\* A step after which the thread relies on nothing.
LEMMA FreeStep ==
  ASSUME TypeOK, Structure, Unshared, NEW t \in Threads, ~mixed', Move(t), Keep,
         pc[t] \notin Special, pc'[t] \notin Holding \cup Creating,
         \/ Read(t) \/ NoStatement \/ Refused(t) \/ DoCommit(t) \/ DoRollback(t)
         \/ (BeginRefused(connOf[t]) /\ UNCHANGED <<connOf, opener, mixed>>)
         \/ \E tables \in Tables : Write(t, tables) /\ tables.docs = Seen(t).docs
  PROVE  Unshared'
<1>1. OthersRest(t) /\ Statement(t)
  BY MoveRests DEF Statement
<1>2. /\ HoldsLock(t)' /\ KnowsRow(t)' /\ StillCreating(t) /\ pc'[t] \notin Special
      /\ HoldsLock(t)
  BY PerThreadParts
     DEF HoldsLock, KnowsRow, StillCreating, Holding, Special, Updating, Unshared
<1>3. CASE \/ Read(t) \/ NoStatement
           \/ (BeginRefused(connOf[t]) /\ UNCHANGED <<connOf, opener, mixed>>)
  BY <1>2, <1>3, QuietStep
<1>4. CASE Refused(t)
  <2>1. ViewsTrack' /\ disk' = disk
    BY <1>1, <1>2, <1>4, RefusedViews DEF Unshared
  <2> QED
    BY <1>1, <1>2, <2>1, KeptUnshared
<1>5. CASE DoRollback(t)
  <2>1. ViewsTrack' /\ disk' = disk
    BY <1>1, <1>2, <1>5, EmptyViews DEF Unshared
  <2> QED
    BY <1>1, <1>2, <2>1, KeptUnshared
<1>6. CASE DoCommit(t)
  <2>1. ViewsTrack' /\ disk'.docs = disk.docs
    BY <1>1, <1>2, <1>6, CommitViews, PendingPlain DEF Unshared
  <2> QED
    BY <1>1, <1>2, <2>1, KeptUnshared
<1>7. CASE \E tables \in Tables : Write(t, tables) /\ tables.docs = Seen(t).docs
  <2>1. PICK tables \in Tables : Write(t, tables) /\ tables.docs = Seen(t).docs
    BY <1>7
  <2>2. tables.docs = disk.docs
    BY <2>1, SeenOwn, PendingPlain
  <2>3. disk' = disk
    BY <2>1 DEF Write, Execute
  <2>4. Pending(t)' = disk.docs
    BY <1>2, <2>3 DEF Pending, Special
  <2> QED
    BY <1>2, <2>1, <2>2, <2>4, WriteStep
<1> QED
  BY <1>3, <1>4, <1>5, <1>6, <1>7

-----------------------------------------------------------------------------
(* Action by action.                                                       *)

\* A thread that relies on the lock has the transaction, sees the committed
\* documents and its own writes, and is not refused.
LEMMA HolderFacts ==
  ASSUME TypeOK, Structure, Unshared, NEW t \in Threads, pc[t] \in Holding
  PROVE  /\ mode[connOf[t]] = "write" /\ InTransaction(t) /\ Seen(t).docs = Pending(t)
         /\ ~Refused(t)
<1>1. mode[connOf[t]] = "write" /\ opener[connOf[t]].by = t /\ connOf[t] \in Conns
  BY PerThreadParts, ModeTypes DEF Unshared, HoldsLock
<1>2. CanWrite(connOf[t])
  BY <1>1 DEF CanWrite, LockFree, Structure, OneWriter
<1>3. Seen(t).docs = Pending(t)
  BY <1>1 DEF Unshared, ViewsTrack, Seen
<1> QED
  BY <1>1, <1>2, <1>3 DEF Refused, ExecuteRefused, InTransaction

\* An update under way goes by the current row, at the version named.
LEMMA UpdaterFacts ==
  ASSUME TypeOK, Structure, Unshared, NEW t \in Threads, pc[t] \in Updating
  PROVE  /\ row[t] = disk.docs[call[t].doc] /\ row[t].ver > 0
         /\ row[t].ver = call[t].ifVersion
  BY PerThreadParts DEF Unshared, KnowsRow

\* BEGIN IMMEDIATE gives the update the lock and nothing else.
LEMMA BeginUpdateKeeps ==
  ASSUME TypeOK, Structure, Unshared, NEW t \in Threads, ~mixed', BeginUpdate(t)
  PROVE  Unshared'
<1>1. pc[t] = "begin" /\ pc[t] \notin Special /\ Keep
  BY DEF BeginUpdate, Special
<1>2. CASE BeginImmediate(connOf[t]) /\ Ascribe(t) /\ Goto(t, "select")
  <2>1. "select" \in Labels
    BY DEF Labels
  <2>2. pc'[t] = "select" /\ Move(t) /\ Statement(t) /\ OthersRest(t)
    BY <1>2, <2>1, MoveFacts, MoveRests DEF Statement
  <2>3. ViewsTrack' /\ disk' = disk /\ HoldsLock(t)'
    BY <1>2, <2>2, EmptyViews DEF Special, Unshared
  <2>4. KnowsRow(t)' /\ StillCreating(t)
    BY <2>2 DEF KnowsRow, StillCreating, Updating, Creating
  <2> QED
    BY <1>1, <2>2, <2>3, <2>4, KeptUnshared
<1>3. CASE BeginRefused(connOf[t]) /\ UNCHANGED <<connOf, opener, mixed>> /\ Return(t)
  <2>1. pc'[t] = "idle" /\ Move(t)
    BY <1>3, MoveFacts
  <2>2. pc'[t] \notin Holding \cup Creating
    BY <2>1 DEF Holding, Creating
  <2> QED
    BY <1>1, <1>3, <2>1, <2>2, FreeStep
<1> QED
  BY <1>2, <1>3 DEF BeginUpdate

\* The row an update reads under its lock is the committed one.
LEMMA SelectRowKeeps ==
  ASSUME TypeOK, Structure, Unshared, NEW t \in Threads, ~mixed', SelectRow(t)
  PROVE  Unshared'
<1> DEFINE r == Seen(t).docs[call[t].doc]
           label == IF r.ver > 0 /\ r.ver = call[t].ifVersion THEN "snapshot" ELSE "rollback"
<1>1. pc[t] = "select" /\ Read(t) /\ Keep /\ Remember(t, r, label)
  BY DEF SelectRow
<1>2. r \in Rows /\ label \in Labels
  BY CallTypes DEF Labels
<1>3. pc'[t] = label /\ call'[t] = call[t] /\ row'[t] = r /\ Move(t)
  BY <1>1, <1>2, MoveFacts
<1>4. r = disk.docs[call[t].doc]
  BY <1>1, HolderFacts, PendingPlain DEF Holding, Special
<1>5. disk' = disk
  BY <1>1 DEF Read, Select
<1>6. KnowsRow(t)'
  BY <1>3, <1>4, <1>5 DEF KnowsRow, Updating
<1>7. /\ pc[t] \notin Special /\ pc'[t] \notin Special /\ pc[t] \in Holding
      /\ StillCreating(t)
  BY <1>1, <1>3 DEF Special, Holding, StillCreating, Creating
<1> QED
  BY <1>1, <1>3, <1>6, <1>7, QuietStep

\* The snapshot leaves the documents alone.
LEMMA InsertRevisionKeeps ==
  ASSUME TypeOK, Structure, Unshared, NEW t \in Threads, ~mixed', InsertRevision(t)
  PROVE  Unshared'
<1> DEFINE d == call[t].doc
           T == AddRevision(t, d, row[t])
<1>1. pc[t] = "snapshot" /\ Keep
  BY DEF InsertRevision
<1>2. pc[t] \in Updating /\ pc[t] \in Holding /\ pc[t] \notin Special
  BY <1>1 DEF Updating, Holding, Special
<1>3. /\ Seen(t).docs = disk.docs /\ row[t] = disk.docs[d] /\ row[t].ver > 0
      /\ row[t].ver = call[t].ifVersion /\ ~Refused(t)
  BY <1>2, HolderFacts, UpdaterFacts, PendingPlain
<1>4. Write(t, T) /\ Goto(t, "write")
  BY <1>3 DEF InsertRevision, Exists
<1>5. "write" \in Labels
  BY DEF Labels
<1>6. pc'[t] = "write" /\ call'[t] = call[t] /\ row'[t] = row[t] /\ Move(t)
  BY <1>4, <1>5, MoveFacts
<1>7. disk' = disk
  BY <1>4 DEF Write, Execute
<1>8. KnowsRow(t)' /\ StillCreating(t) /\ Pending(t)' = disk.docs
  BY <1>3, <1>6, <1>7 DEF KnowsRow, StillCreating, Creating, Pending
<1>9. T \in Tables /\ T.docs = disk.docs
  <2>1. Db /\ Ownership
    BY TypeParts
  <2>2. T \in Tables /\ Seen(t) \in Tables
    BY <2>1, CallTypes, AddRevisionType
  <2> QED
    BY <1>3, <2>2 DEF AddRevision, Tables
<1> QED
  BY <1>1, <1>4, <1>6, <1>8, <1>9, WriteStep

\* The new version is one above the committed one, in the transaction only.
LEMMA WriteVersionKeeps ==
  ASSUME TypeOK, Structure, Unshared, NEW t \in Threads, ~mixed', WriteVersion(t)
  PROVE  Unshared'
<1> DEFINE d == call[t].doc
           next == [ver |-> row[t].ver + 1, content |-> call[t].id]
           T == SetDoc(t, d, next)
<1>1. pc[t] = "write" /\ Keep
  BY DEF WriteVersion
<1>2. pc[t] \in Updating /\ pc[t] \in Holding /\ pc[t] \notin Special
  BY <1>1 DEF Updating, Holding, Special
<1>3. /\ Seen(t).docs = disk.docs /\ row[t] = disk.docs[d] /\ row[t].ver > 0
      /\ row[t].ver = call[t].ifVersion /\ ~Refused(t)
  BY <1>2, HolderFacts, UpdaterFacts, PendingPlain
<1>4. Write(t, T) /\ Goto(t, "prune")
  BY <1>3 DEF WriteVersion, Exists
<1>5. "prune" \in Labels
  BY DEF Labels
<1>6. pc'[t] = "prune" /\ call'[t] = call[t] /\ row'[t] = row[t] /\ Move(t)
  BY <1>4, <1>5, MoveFacts
<1>7. disk' = disk
  BY <1>4 DEF Write, Execute
<1>8. KnowsRow(t)' /\ StillCreating(t)
  BY <1>3, <1>6, <1>7 DEF KnowsRow, StillCreating, Creating
<1>9. Pending(t)' = [disk.docs EXCEPT ![d] = next]
  BY <1>6, <1>7 DEF Pending
<1>10. T \in Tables /\ T.docs = [disk.docs EXCEPT ![d] = next]
  <2>1. Db /\ Ownership
    BY TypeParts
  <2>2. T \in Tables /\ Seen(t) \in Tables
    BY <2>1, CallTypes, WrittenTypes, SetDocType
  <2> QED
    BY <1>3, <2>2 DEF SetDoc, Tables
<1> QED
  BY <1>1, <1>4, <1>6, <1>8, <1>9, <1>10, WriteStep

\* Pruning leaves the documents alone.
LEMMA PruneRevisionsKeeps ==
  ASSUME TypeOK, Structure, Unshared, NEW t \in Threads, ~mixed', PruneRevisions(t)
  PROVE  Unshared'
<1> DEFINE d == call[t].doc
           T == Pruned(t, d)
<1>1. pc[t] = "prune" /\ Keep
  BY DEF PruneRevisions
<1>2. pc[t] \in Updating /\ pc[t] \in Holding
  BY <1>1 DEF Updating, Holding
<1>3. /\ Seen(t).docs = Pending(t) /\ row[t] = disk.docs[d] /\ row[t].ver > 0
      /\ row[t].ver = call[t].ifVersion /\ ~Refused(t)
  BY <1>2, HolderFacts, UpdaterFacts
<1>4. Write(t, T) /\ Goto(t, "commit")
  BY <1>3 DEF PruneRevisions
<1>5. "commit" \in Labels
  BY DEF Labels
<1>6. pc'[t] = "commit" /\ call'[t] = call[t] /\ row'[t] = row[t] /\ Move(t)
  BY <1>4, <1>5, MoveFacts
<1>7. disk' = disk
  BY <1>4 DEF Write, Execute
<1>8. KnowsRow(t)' /\ StillCreating(t)
  BY <1>3, <1>6, <1>7 DEF KnowsRow, StillCreating, Creating
<1>9. Pending(t)' = Pending(t)
  BY <1>1, <1>6, <1>7 DEF Pending
<1>10. T \in Tables /\ T.docs = Pending(t)
  <2>1. Db /\ Ownership
    BY TypeParts
  <2>2. T \in Tables /\ Seen(t) \in Tables
    BY <2>1, CallTypes, PrunedType
  <2> QED
    BY <1>3, <2>2 DEF Pruned, Tables
<1> QED
  BY <1>1, <1>4, <1>6, <1>8, <1>9, <1>10, WriteStep

\* Returns, and the labels at which a thread relies on nothing.
LEMMA FreeMoves ==
  ASSUME TypeOK, NEW t \in Threads,
         Return(t) \/ \E label \in Labels \ (Holding \cup Creating) : Goto(t, label)
  PROVE  Move(t) /\ pc'[t] \notin Holding \cup Creating
  BY MoveFacts DEF Holding, Creating

\* Labels at which a thread relies on nothing.
LEMMA FreeLabels ==
  {"begin", "cleanup", "reread", "audit", "auditCommit", "forkReread", "title", "deleteGrants",
   "deleteDoc", "bookmark", "touchCommit"} \subseteq Labels \ (Holding \cup Creating)
  BY DEF Labels, Holding, Creating

\* Steps that neither rely on the lock nor touch documents keep Unshared.
LEMMA FreeActionsKeep ==
  ASSUME TypeOK, Structure, Unshared, NEW t \in Threads, ~mixed',
         \/ Check(t) \/ RollbackUpdate(t) \/ CleanUp(t) \/ Reread(t)
         \/ AuditInsert(t) \/ AuditCommit(t) \/ SeedRevision(t) \/ RereadFork(t)
         \/ WriteTitle(t) \/ DeleteGrants(t)
         \/ TouchRow(t) \/ WriteBookmark(t) \/ CommitTouch(t)
  PROVE  Unshared'
<1> DEFINE Own == \E tables \in Tables : Write(t, tables) /\ tables.docs = Seen(t).docs
<1> HIDE DEF Own
<1>1. Db /\ Ownership /\ Seen(t) \in Tables
  BY TypeParts, CallTypes
<1>2. Write(t, Seen(t)) => Own
  BY <1>1 DEF Own
<1>3. Rejected(t) => Own
  BY <1>2 DEF Rejected
<1>4. Keep
  BY DEF Check, RollbackUpdate, CleanUp, Reread, AuditInsert, AuditCommit, SeedRevision,
         RereadFork, WriteTitle, DeleteGrants, TouchRow, WriteBookmark, CommitTouch
<1>5. pc[t] \notin Special
  BY DEF Check, RollbackUpdate, CleanUp, Reread, AuditInsert, AuditCommit, SeedRevision,
         RereadFork, WriteTitle, DeleteGrants, TouchRow, WriteBookmark, CommitTouch, Special
<1>6. Return(t) \/ \E label \in Labels \ (Holding \cup Creating) : Goto(t, label)
  <2>1. CASE Check(t)
    <3>1. AfterCheck(t) \in {"begin", "deleteGrants", "bookmark"}
      BY DEF AfterCheck
    <3> QED
      BY <2>1, <3>1, FreeLabels DEF Check
  <2>2. CASE RollbackUpdate(t) \/ CleanUp(t) \/ Reread(t) \/ AuditInsert(t) \/ AuditCommit(t)
    BY <2>2, FreeLabels DEF RollbackUpdate, CleanUp, Reread, AuditInsert, AuditCommit
  <2>3. CASE SeedRevision(t) \/ RereadFork(t) \/ WriteTitle(t) \/ DeleteGrants(t)
    BY <2>3, FreeLabels DEF SeedRevision, RereadFork, WriteTitle, DeleteGrants
  <2>4. CASE TouchRow(t) \/ WriteBookmark(t) \/ CommitTouch(t)
    BY <2>4, FreeLabels DEF TouchRow, WriteBookmark, CommitTouch
  <2> QED
    BY <2>1, <2>2, <2>3, <2>4
<1>7. Move(t) /\ pc'[t] \notin Holding \cup Creating
  BY <1>6, FreeMoves
<1>8. Read(t) \/ NoStatement \/ Refused(t) \/ DoCommit(t) \/ DoRollback(t) \/ Own
  <2>1. CASE SeedRevision(t)
    <3> DEFINE T == AddRevision(t, call[t].doc, [ver |-> 1, content |-> row[t].content])
    <3>1. T \in Tables
      BY <1>1, CallTypes, WrittenTypes, AddRevisionType
    <3>2. T.docs = Seen(t).docs
      BY <1>1 DEF AddRevision, Tables
    <3>3. Write(t, T) => Own
      BY <3>1, <3>2 DEF Own
    <3> QED
      BY <1>3, <2>1, <3>3 DEF SeedRevision
  <2>2. CASE Check(t) \/ RollbackUpdate(t) \/ CleanUp(t) \/ Reread(t) \/ RereadFork(t)
    BY <2>2 DEF Check, RollbackUpdate, CleanUp, Reread, RereadFork
  <2>3. CASE AuditInsert(t) \/ AuditCommit(t) \/ WriteTitle(t) \/ DeleteGrants(t)
    BY <1>2, <2>3 DEF AuditInsert, AuditCommit, WriteTitle, DeleteGrants
  <2>4. CASE TouchRow(t) \/ WriteBookmark(t) \/ CommitTouch(t)
    BY <1>2, <1>3, <2>4 DEF TouchRow, WriteBookmark, CommitTouch
  <2> QED
    BY <2>1, <2>2, <2>3, <2>4
<1> QED
  BY <1>4, <1>5, <1>7, <1>8, FreeStep DEF Own

\* A fork that reads its source keeps Unshared.
LEMMA ReadSourceKeeps ==
  ASSUME TypeOK, Structure, Unshared, NEW t \in Threads, ~mixed', ReadSource(t)
  PROVE  Unshared'
<1> DEFINE r == Seen(t).docs[call[t].from]
<1>1. pc[t] = "readSource" /\ Read(t) /\ Keep /\ (Remember(t, r, "insert") \/ Return(t))
  BY DEF ReadSource
<1>2. r \in Rows /\ "insert" \in Labels
  BY CallTypes DEF Labels
<1>3. Move(t) /\ (pc'[t] = "idle" \/ (pc'[t] = "insert" /\ call'[t] = call[t]))
  BY <1>1, <1>2, MoveFacts
<1>4. /\ pc[t] \notin Special /\ pc'[t] \notin Special /\ pc'[t] \notin Holding
      /\ StillCreating(t) /\ KnowsRow(t)'
  BY <1>1, <1>3 DEF Special, Holding, StillCreating, Creating, KnowsRow, Updating
<1> QED
  BY <1>1, <1>3, <1>4, QuietStep

\* A new document is in the transaction only, until its commit.
LEMMA InsertDocKeeps ==
  ASSUME TypeOK, Structure, Unshared, NEW t \in Threads, ~mixed', InsertDoc(t)
  PROVE  Unshared'
<1> DEFINE d == call[t].doc
           new == [ver |-> 1, content |-> NewContent(t)]
           T == SetDoc(t, d, new)
<1>1. pc[t] = "insert" /\ pc[t] \notin Special /\ Keep
  BY DEF InsertDoc, Special
<1>2. Db /\ Ownership /\ Seen(t) \in Tables
  BY TypeParts, CallTypes
<1>3. CASE Write(t, T) /\ Goto(t, "insertCommit")
  <2>1. "insertCommit" \in Labels
    BY DEF Labels
  <2>2. pc'[t] = "insertCommit" /\ call'[t] = call[t] /\ row'[t] = row[t] /\ Move(t)
    BY <1>3, <2>1, MoveFacts
  <2>3. disk' = disk
    BY <1>3 DEF Write, Execute
  <2>4. KnowsRow(t)' /\ StillCreating(t)
    BY <1>1, <2>2 DEF KnowsRow, Updating, StillCreating, Creating
  <2>5. Pending(t)' = [disk.docs EXCEPT ![d] = new]
    BY <2>2, <2>3 DEF Pending, NewContent
  <2>6. Seen(t).docs = disk.docs
    BY <1>1, <1>3, SeenOwn, PendingPlain
  <2>7. T \in Tables
    BY <1>2, CallTypes, WrittenTypes, SetDocType
  <2>8. T.docs = [disk.docs EXCEPT ![d] = new]
    BY <1>2, <2>6 DEF SetDoc, Tables
  <2> QED
    BY <1>1, <1>3, <2>2, <2>4, <2>5, <2>7, <2>8, WriteStep
<1>4. CASE (Rejected(t) \/ Refused(t)) /\ Return(t)
  <2>1. Move(t) /\ pc'[t] \notin Holding \cup Creating
    BY <1>4, FreeMoves
  <2>2. Refused(t) \/ \E tables \in Tables : Write(t, tables) /\ tables.docs = Seen(t).docs
    BY <1>2, <1>4 DEF Rejected
  <2> QED
    BY <1>1, <2>1, <2>2, FreeStep
<1> QED
  BY <1>3, <1>4 DEF InsertDoc, NewContent

\* A deletion is in the transaction only, until its commit.
LEMMA DeleteDocKeeps ==
  ASSUME TypeOK, Structure, Unshared, NEW t \in Threads, ~mixed', DeleteDoc(t)
  PROVE  Unshared'
<1> DEFINE d == call[t].doc
           r == Seen(t).docs[d]
           T == [Seen(t) EXCEPT !.docs[d] = NoRow, !.revs[d] = <<>>]
<1>1. pc[t] = "deleteDoc" /\ pc[t] \notin Special /\ Keep
  BY DEF DeleteDoc, Special
<1>2. Db /\ Ownership /\ Seen(t) \in Tables /\ d \in Docs /\ r \in Rows
  BY TypeParts, CallTypes
<1>3. CASE Write(t, T) /\ Remember(t, r, "deleteCommit")
  <2>1. "deleteCommit" \in Labels
    BY DEF Labels
  <2>2. pc'[t] = "deleteCommit" /\ call'[t] = call[t] /\ row'[t] = r /\ Move(t)
    BY <1>2, <1>3, <2>1, MoveFacts
  <2>3. disk' = disk
    BY <1>3 DEF Write, Execute
  <2>4. Seen(t).docs = disk.docs
    BY <1>1, <1>3, SeenOwn, PendingPlain
  <2>5. KnowsRow(t)' /\ StillCreating(t)
    BY <2>2, <2>3, <2>4 DEF KnowsRow, Updating, StillCreating, Creating
  <2>6. Pending(t)' = [disk.docs EXCEPT ![d] = NoRow]
    BY <2>2, <2>3 DEF Pending
  <2>7. T \in Tables
    BY <1>2, DeletedType
  <2>8. T.docs = [disk.docs EXCEPT ![d] = NoRow]
    BY <1>2, <2>4 DEF Tables
  <2> QED
    BY <1>1, <1>3, <2>2, <2>5, <2>6, <2>7, <2>8, WriteStep
<1>4. CASE Refused(t) /\ Return(t)
  <2>1. Move(t) /\ pc'[t] \notin Holding \cup Creating
    BY <1>4, FreeMoves
  <2> QED
    BY <1>1, <1>4, <2>1, FreeStep
<1> QED
  BY <1>3, <1>4 DEF DeleteDoc

-----------------------------------------------------------------------------
(* The commits that change the committed documents and the ledger.         *)

\* The commit of a thread that holds the lock: afterwards nobody relies on it.
LEMMA CommitSettles ==
  ASSUME TypeOK, Structure, Unshared, NEW t \in Threads, ~mixed', Move(t), DoCommit(t),
         pc[t] \in Holding, pc'[t] \notin Holding
  PROVE  /\ ViewsTrack' /\ LockHeld' /\ RowsCurrent'
         /\ disk'.docs = Pending(t)
         /\ OthersRest(t)
<1>1. OthersRest(t) /\ HoldsLock(t) /\ pc'[t] \notin Special /\ mode[connOf[t]] = "write"
  BY MoveRests, PerThreadParts DEF Unshared, HoldsLock, Holding, Special
<1>2. /\ ViewsTrack' /\ disk'.docs = Pending(t)
      /\ \A u \in Threads \ {t} : HoldsLock(u) => pc[u] \notin Holding
  BY <1>1, CommitViews DEF Unshared
<1>3. \A u \in Threads : pc'[u] \notin Holding
  BY <1>1, <1>2, PerThreadParts DEF Unshared, OthersRest, Resting
<1> QED
  BY <1>1, <1>2, <1>3 DEF LockHeld, RowsCurrent, Updating, Holding

\* What the committed row of a document says about its ledger.
LEMMA RowSays ==
  ASSUME TypeOK, Unshared, NEW d \in Docs
  PROVE  /\ disk.docs[d].ver > 0 =>
              /\ history[d] # <<>> /\ d \notin gone /\ d \in used
              /\ disk.docs[d].ver = Len(history[d])
         /\ disk.docs[d].ver = 0 => disk.docs[d] = NoRow
         /\ history[d] \in Seq([content : Nat, onto : Nat]) /\ Len(history[d]) \in Nat
         /\ disk.docs \in [Docs -> Rows]
<1>1. Ledger /\ Db
  BY TypeParts
<1>2. history[d] \in Seq([content : Nat, onto : Nat]) /\ Len(history[d]) \in Nat
  BY <1>1, LenProperties DEF Ledger
<1>3. disk.docs \in [Docs -> Rows] /\ disk.docs[d] \in Rows
  BY <1>1 DEF Db, Tables
<1>4. disk.docs[d].ver = 0 => disk.docs[d] = NoRow
  BY <1>3 DEF Rows, NoRow
<1>5. disk.docs[d] = Expected(d)
  BY DEF Unshared
<1>6. ASSUME disk.docs[d].ver > 0
      PROVE  history[d] # <<>> /\ d \notin gone /\ disk.docs[d].ver = Len(history[d])
  BY <1>5, <1>6 DEF Expected, NoRow
<1>7. history[d] # <<>> => d \in used
  BY DEF Unshared, NewDocsUnknown
<1> QED
  BY <1>2, <1>3, <1>4, <1>6, <1>7

\* The commit of an update adds one version and one acknowledgement, made on the version named.
LEMMA CommitUpdateKeeps ==
  ASSUME TypeOK, Structure, Unshared, NEW t \in Threads, ~mixed', CommitUpdate(t)
  PROVE  Unshared'
<1> DEFINE d == call[t].doc
           entry == Acknowledged(call[t].id, call[t].ifVersion)
           next == [ver |-> row[t].ver + 1, content |-> call[t].id]
<1>1. /\ pc[t] = "commit" /\ pc[t] \in Holding /\ pc[t] \in Updating
      /\ UNCHANGED <<calls, used, gone>>
  BY DEF CommitUpdate, Holding, Updating
<1>2. /\ DoCommit(t) /\ Goto(t, "reread")
      /\ history' = [history EXCEPT ![d] = Append(@, entry)]
  BY <1>1, HolderFacts DEF CommitUpdate
<1>3. "reread" \in Labels
  BY DEF Labels
<1>4. pc'[t] = "reread" /\ Move(t)
  BY <1>2, <1>3, MoveFacts
<1>5. /\ ViewsTrack' /\ LockHeld' /\ RowsCurrent' /\ disk'.docs = Pending(t) /\ OthersRest(t)
  BY <1>1, <1>2, <1>4, CommitSettles DEF Holding
<1>6. d \in Docs /\ call[t].id \in Nat /\ call[t].ifVersion \in Nat
  BY CallTypes
<1>7. /\ row[t] = disk.docs[d] /\ row[t].ver > 0 /\ row[t].ver = call[t].ifVersion
  BY <1>1, UpdaterFacts
<1>8. /\ history[d] # <<>> /\ d \notin gone /\ d \in used
      /\ row[t].ver = Len(history[d]) /\ Len(history[d]) \in Nat
      /\ history[d] \in Seq([content : Nat, onto : Nat]) /\ disk.docs \in [Docs -> Rows]
  BY <1>6, <1>7, RowSays
<1>9. entry \in [content : Nat, onto : Nat]
  BY <1>6 DEF Acknowledged
<1>10. /\ Len(Append(history[d], entry)) = Len(history[d]) + 1
       /\ Append(history[d], entry)[Len(history[d]) + 1] = entry
       /\ \A i \in 1..Len(history[d]) : Append(history[d], entry)[i] = history[d][i]
       /\ Append(history[d], entry) # <<>>
  BY <1>8, <1>9, AppendProperties, SMTT(40)
<1>11. /\ history'[d] = Append(history[d], entry)
       /\ \A e \in Docs \ {d} : history'[e] = history[e]
  <2>1. Ledger
    BY TypeParts
  <2> QED
    BY <1>2, <1>6, <2>1 DEF Ledger
<1>12. /\ disk'.docs[d] = next
       /\ \A e \in Docs \ {d} : disk'.docs[e] = disk.docs[e]
  BY <1>1, <1>5, <1>6, <1>8 DEF Pending
<1>13. ASSUME NEW e \in Docs
       PROVE  disk'.docs[e] = Expected(e)'
  <2>1. CASE e = d
    <3>1. /\ history'[e] = Append(history[d], entry) /\ e \notin gone'
          /\ Len(history'[e]) = Len(history[d]) + 1
          /\ history'[e][Len(history[d]) + 1] = entry /\ history'[e] # <<>>
      BY <1>1, <1>8, <1>10, <1>11, <2>1
    <3>2. Expected(e)' = [ver |-> Len(history[d]) + 1, content |-> entry.content]
      BY <3>1 DEF Expected
    <3>3. entry.content = call[t].id
      BY DEF Acknowledged
    <3> QED
      BY <1>8, <1>12, <2>1, <3>2, <3>3
  <2>2. CASE e # d
    <3>1. disk'.docs[e] = disk.docs[e] /\ history'[e] = history[e]
      BY <1>11, <1>12, <2>2
    <3>2. disk.docs[e] = Expected(e) /\ gone' = gone
      BY <1>1 DEF Unshared
    <3> QED
      BY <3>1, <3>2 DEF Expected
  <2> QED
    BY <2>1, <2>2
<1>14. ASSUME NEW e \in Docs, NEW v \in 1..Len(history'[e])
       PROVE  history'[e][v].onto = v - 1
  <2>1. CASE e = d /\ v = Len(history[d]) + 1
    <3>1. history'[e][v] = entry
      BY <1>10, <1>11, <2>1
    <3>2. entry.onto = row[t].ver /\ row[t].ver = v - 1
      BY <1>7, <1>8, <2>1 DEF Acknowledged
    <3> QED
      BY <3>1, <3>2
  <2>2. CASE e = d /\ v # Len(history[d]) + 1
    <3>1. v \in 1..Len(history[d])
      <4>1. Len(history'[e]) = Len(history[d]) + 1
        BY <1>10, <1>11, <2>2
      <4> QED
        BY <1>8, <1>14, <2>2, <4>1
    <3>2. history[d][v].onto = v - 1
      BY <1>6, <3>1 DEF Unshared
    <3>3. history'[d][v] = history[d][v]
      BY <1>10, <1>11, <3>1
    <3> QED
      BY <2>2, <3>2, <3>3
  <2>3. CASE e # d
    BY <1>11, <2>3 DEF Unshared
  <2> QED
    BY <2>1, <2>2, <2>3
<1>15. NewDocsUnknown'
  <2>1. \A u \in Threads : pc'[u] \in Creating =>
          pc[u] \in Creating /\ call'[u].doc = call[u].doc
    BY <1>4, <1>5 DEF OthersRest, Resting, Creating
  <2>2. \A u \in Threads : pc[u] \in Creating => call[u].doc \in Docs \ {d}
    BY <1>8, CallTypes DEF Unshared, NewDocsUnknown
  <2>3. gone \subseteq Docs /\ used' = used /\ gone' = gone
    BY <1>1 DEF TypeOK
  <2>4. \A e \in Docs : history[e] # <<>> => history'[e] # <<>>
    BY <1>10, <1>11
  <2>5. \A u \in Threads : pc'[u] \in Creating =>
          call'[u].doc \in used' /\ history'[call'[u].doc] = <<>>
    BY <1>11, <2>1, <2>2, <2>3 DEF Unshared, NewDocsUnknown
  <2>6. \A u, w \in Threads :
          pc'[u] \in Creating /\ pc'[w] \in Creating /\ u # w => call'[u].doc # call'[w].doc
    BY <2>1 DEF Unshared, NewDocsUnknown
  <2>7. \A e \in Docs \ used' : history'[e] = <<>>
    BY <1>8, <1>11, <2>3 DEF Unshared, NewDocsUnknown
  <2>8. \A e \in gone' : history'[e] # <<>>
    BY <2>3, <2>4 DEF Unshared, NewDocsUnknown
  <2> QED
    BY <2>5, <2>6, <2>7, <2>8 DEF NewDocsUnknown
<1> QED
  BY <1>5, <1>13, <1>14, <1>15 DEF Unshared

\* The commit of a new document is its first acknowledgement.
LEMMA CommitInsertKeeps ==
  ASSUME TypeOK, Structure, Unshared, NEW t \in Threads, ~mixed', CommitInsert(t)
  PROVE  Unshared'
<1> DEFINE d == call[t].doc
           entry == Acknowledged(NewContent(t), 0)
<1>1. /\ pc[t] = "insertCommit" /\ pc[t] \in Holding /\ pc[t] \in Creating
      /\ UNCHANGED <<calls, used, gone>> /\ DoCommit(t)
      /\ history' = [history EXCEPT ![d] = <<entry>>]
  BY DEF CommitInsert, Holding, Creating, NewContent
<1>2. (Goto(t, "seed") \/ Goto(t, "audit")) /\ {"seed", "audit"} \subseteq Labels
  BY DEF CommitInsert, Labels
<1>3. pc'[t] \in {"seed", "audit"} /\ Move(t)
  BY <1>2, MoveFacts
<1>4. pc'[t] \notin Holding /\ pc'[t] \notin Creating
  BY <1>3 DEF Holding, Creating
<1>5. ViewsTrack' /\ LockHeld' /\ RowsCurrent' /\ disk'.docs = Pending(t) /\ OthersRest(t)
  BY <1>1, <1>3, <1>4, CommitSettles
<1>6. /\ d \in Docs /\ d \in used /\ history[d] = <<>> /\ d \notin gone
      /\ disk.docs \in [Docs -> Rows] /\ Ledger
  BY <1>1, CallTypes, RowSays, TypeParts DEF Unshared, NewDocsUnknown
<1>7. /\ history'[d] = <<entry>> /\ \A e \in Docs \ {d} : history'[e] = history[e]
  BY <1>1, <1>6 DEF Ledger
<1>8. /\ disk'.docs[d] = [ver |-> 1, content |-> NewContent(t)]
      /\ \A e \in Docs \ {d} : disk'.docs[e] = disk.docs[e]
  BY <1>1, <1>5, <1>6 DEF Pending
<1>9. Len(<<entry>>) = 1 /\ <<entry>>[1] = entry /\ <<entry>> # <<>>
  OBVIOUS
<1>10. ASSUME NEW e \in Docs
       PROVE  disk'.docs[e] = Expected(e)'
  <2>1. CASE e = d
    <3>1. history'[e] = <<entry>> /\ e \notin gone'
      BY <1>1, <1>6, <1>7, <2>1
    <3>2. Expected(e)' = [ver |-> 1, content |-> entry.content]
      BY <1>9, <3>1 DEF Expected
    <3>3. entry.content = NewContent(t)
      BY DEF Acknowledged
    <3> QED
      BY <1>8, <2>1, <3>2, <3>3
  <2>2. CASE e # d
    BY <1>1, <1>7, <1>8, <2>2 DEF Expected, Unshared
  <2> QED
    BY <2>1, <2>2
<1>11. ASSUME NEW e \in Docs, NEW v \in 1..Len(history'[e])
       PROVE  history'[e][v].onto = v - 1
  BY <1>7, <1>9, <1>11 DEF Unshared, Acknowledged
<1>12. NewDocsUnknown'
  <2>1. \A u \in Threads : pc'[u] \in Creating =>
          u # t /\ pc[u] \in Creating /\ call'[u].doc = call[u].doc
    BY <1>4, <1>5 DEF OthersRest, Resting
  <2>2. \A u \in Threads \ {t} : pc[u] \in Creating => call[u].doc \in Docs \ {d}
    BY <1>1, CallTypes DEF Unshared, NewDocsUnknown
  <2>3. gone \subseteq Docs
    BY DEF TypeOK
  <2> QED
    BY <1>1, <1>6, <1>7, <1>9, <2>1, <2>2, <2>3 DEF Unshared, NewDocsUnknown
<1> QED
  BY <1>5, <1>10, <1>11, <1>12 DEF Unshared

\* The commit of a deletion removes what was expected to be there.
LEMMA CommitDeleteKeeps ==
  ASSUME TypeOK, Structure, Unshared, NEW t \in Threads, ~mixed', CommitDelete(t)
  PROVE  Unshared'
<1> DEFINE d == call[t].doc
<1>1. /\ pc[t] = "deleteCommit" /\ pc[t] \in Holding
      /\ UNCHANGED <<calls, used, history>> /\ DoCommit(t)
      /\ gone' = IF row[t].ver > 0 THEN gone \cup {d} ELSE gone
  BY DEF CommitDelete, Holding
<1>2. (Goto(t, "audit") \/ Return(t)) /\ "audit" \in Labels
  BY DEF CommitDelete, Labels
<1>3. pc'[t] \in {"audit", "idle"} /\ Move(t)
  BY <1>2, MoveFacts
<1>4. pc'[t] \notin Holding /\ pc'[t] \notin Creating
  BY <1>3 DEF Holding, Creating
<1>5. ViewsTrack' /\ LockHeld' /\ RowsCurrent' /\ disk'.docs = Pending(t) /\ OthersRest(t)
  BY <1>1, <1>3, <1>4, CommitSettles
<1>6. /\ d \in Docs /\ disk.docs \in [Docs -> Rows] /\ row[t].ver \in Nat
      /\ row[t].ver > 0 => history[d] # <<>>
      /\ row[t].ver = 0 => disk.docs[d] = NoRow
      /\ row[t] = disk.docs[d]
  BY <1>1, CallTypes, RowSays, PerThreadParts DEF Unshared, KnowsRow
<1>7. /\ disk'.docs[d] = NoRow
      /\ \A e \in Docs \ {d} : disk'.docs[e] = disk.docs[e]
  BY <1>1, <1>5, <1>6 DEF Pending
<1>8. ASSUME NEW e \in Docs
      PROVE  disk'.docs[e] = Expected(e)'
  BY <1>1, <1>6, <1>7 DEF Expected, Unshared
<1>9. NewDocsUnknown'
  <2>1. \A u \in Threads : pc'[u] \in Creating =>
          pc[u] \in Creating /\ call'[u].doc = call[u].doc
    BY <1>4, <1>5 DEF OthersRest, Resting
  <2> QED
    BY <1>1, <1>6, <2>1 DEF Unshared, NewDocsUnknown
<1> QED
  BY <1>1, <1>5, <1>8, <1>9 DEF Unshared

-----------------------------------------------------------------------------
(* Calls start, processes crash, and the invariant of the specification.    *)

\* What the call of any handler does.
LEMMA BeginFacts ==
  ASSUME TypeOK, NEW t \in Threads, NEW op, NEW d \in Docs, NEW label, NEW arguments,
         Begin(t, op, d, label, arguments)
  PROVE  /\ pc[t] = "idle" /\ pc'[t] = label /\ call'[t].doc = d
         /\ NoStatement /\ OthersRest(t) /\ UNCHANGED <<history, gone>>
<1>1. Control
  BY TypeParts
<1> QED
  BY <1>1 DEF Control, Begin, OthersRest, Resting

\* Any handler that is called starts where it relies on nothing.
LEMMA StartFacts ==
  ASSUME TypeOK, NEW t \in Threads, Start(t)
  PROVE  /\ pc[t] = "idle" /\ NoStatement /\ OthersRest(t) /\ UNCHANGED <<history, gone>>
         /\ \/ used' = used /\ pc'[t] \in {"check", "touch"}
            \/ /\ call'[t].doc \in Docs \ used /\ used' = used \cup {call'[t].doc}
               /\ pc'[t] \in {"insert", "readSource"}
<1>1. AnyDoc \in Docs /\ used \subseteq Docs
  BY DocAssumption DEF AnyDoc, TypeOK
<1>2. CASE StartPublish(t)
  BY <1>2, BeginFacts DEF StartPublish, FreshDoc
<1>3. CASE StartUpdate(t) \/ StartDelete(t) \/ StartBookmark(t) \/ StartTouch(t)
  BY <1>1, <1>3, BeginFacts DEF StartUpdate, StartDelete, StartBookmark, StartTouch
<1>4. CASE StartFork(t)
  BY <1>4, BeginFacts DEF StartFork, FreshDoc
<1> QED
  BY <1>2, <1>3, <1>4 DEF Start

\* The call of a handler keeps Unshared.
LEMMA StartKeeps ==
  ASSUME TypeOK, Structure, Unshared, NEW t \in Threads, ~mixed', Start(t)
  PROVE  Unshared'
<1>1. /\ pc[t] = "idle" /\ NoStatement /\ OthersRest(t) /\ UNCHANGED <<history, gone>>
      /\ \/ used' = used /\ pc'[t] \in {"check", "touch"}
         \/ /\ call'[t].doc \in Docs \ used /\ used' = used \cup {call'[t].doc}
            /\ pc'[t] \in {"insert", "readSource"}
  BY StartFacts
<1>2. /\ pc[t] \notin Special /\ pc'[t] \notin Special /\ pc'[t] \notin Holding
      /\ pc'[t] \in {"check", "touch"} => pc'[t] \notin Creating
  BY <1>1 DEF Special, Holding, Creating
<1>3. ViewsTrack' /\ disk' = disk
  BY <1>1, <1>2, QuietViews DEF Unshared
<1>4. Statement(t)
  BY <1>1 DEF Statement
<1>5. \A u \in Threads \ {t} : HoldsLock(u)' /\ KnowsRow(u)'
  BY <1>1, <1>3, <1>4, HolderKept, KnowsRowKept, PerThreadParts DEF Unshared, OthersRest
<1>6. LockHeld' /\ RowsCurrent'
  BY <1>2, <1>5 DEF LockHeld, RowsCurrent, HoldsLock, KnowsRow, Updating, Holding
<1>7. NewDocsUnknown'
  <2>1. \A u \in Threads \ {t} : pc'[u] = pc[u] /\ call'[u] = call[u]
    BY <1>1 DEF OthersRest, Resting
  <2>2. CASE used' = used /\ pc'[t] \notin Creating
    BY <1>1, <2>1, <2>2 DEF Unshared, NewDocsUnknown
  <2>3. CASE call'[t].doc \in Docs \ used /\ used' = used \cup {call'[t].doc}
    BY <1>1, <2>1, <2>3 DEF Unshared, NewDocsUnknown
  <2> QED
    BY <1>1, <1>2, <2>2, <2>3
<1>8. \A d \in Docs : Expected(d)' = Expected(d)
  BY <1>1 DEF Expected
<1> QED
  BY <1>1, <1>3, <1>6, <1>7, <1>8 DEF Unshared

\* A process that stops loses only what it had not committed.
LEMMA CrashKeeps ==
  ASSUME TypeOK, Structure, Unshared, NEW c \in Conns, Crash(c)
  PROVE  Unshared'
<1>1. /\ mode \in [Conns -> Modes] /\ DOMAIN opener = Conns /\ view \in [Conns -> Tables]
      /\ \A t \in Threads : connOf[t] \in Conns
  BY ModeTypes
<1>2. /\ mode' = [mode EXCEPT ![c] = "none"] /\ view' = [view EXCEPT ![c] = disk]
      /\ disk' = disk /\ opener' = [opener EXCEPT ![c] = NoOpener] /\ connOf' = connOf
      /\ UNCHANGED <<used, history, gone>>
  BY DEF Crash, Rollback, Keep
<1>3. \A u \in Threads : /\ connOf[u] = c => pc'[u] = "idle"
                         /\ connOf[u] # c => Resting(u)
  BY DEF Crash, Resting
<1>4. \A u \in Threads : HoldsLock(u)' /\ KnowsRow(u)'
  <2> TAKE u \in Threads
  <2>1. HoldsLock(u) /\ KnowsRow(u)
    BY PerThreadParts DEF Unshared
  <2>2. CASE connOf[u] = c
    BY <1>3, <2>2 DEF HoldsLock, KnowsRow, Holding, Updating
  <2>3. CASE connOf[u] # c
    BY <1>1, <1>2, <1>3, <2>1, <2>3 DEF HoldsLock, KnowsRow, Resting
  <2> QED
    BY <2>2, <2>3
<1>5. \A x \in Conns : ViewTracks(x)'
  <2> TAKE x \in Conns
  <2>1. CASE x = c
    BY <1>1, <1>2, <2>1 DEF ViewTracks
  <2>2. CASE x # c /\ mode[x] = "write"
    <3>1. PICK u \in Threads : opener[x].by = u /\ connOf[u] = x
      BY <2>2 DEF Structure, OpenerKnown
    <3>2. Pending(u)' = Pending(u)
      BY <1>2, <1>3, <2>2, <3>1, PendingKept
    <3> QED
      BY <1>1, <1>2, <2>2, <3>1, <3>2 DEF ViewTracks, ViewsTrack, Unshared
  <2>3. CASE x # c /\ mode[x] # "write"
    BY <1>1, <1>2, <2>3 DEF ViewTracks, ViewsTrack, Unshared
  <2> QED
    BY <2>1, <2>2, <2>3
<1>6. NewDocsUnknown'
  <2>1. \A u \in Threads : pc'[u] \in Creating => pc[u] \in Creating /\ call'[u] = call[u]
    BY <1>3 DEF Resting, Creating
  <2> QED
    BY <1>2, <2>1 DEF Unshared, NewDocsUnknown
<1>7. \A d \in Docs : Expected(d)' = Expected(d)
  BY <1>2 DEF Expected
<1> QED
  BY <1>2, <1>4, <1>5, <1>6, <1>7
     DEF Unshared, LockHeld, RowsCurrent, HoldsLock, KnowsRow, ViewsTrack, ViewTracks

\* Every step of a thread keeps Unshared.
LEMMA StepKeeps ==
  ASSUME TypeOK, Structure, Unshared, NEW t \in Threads, ~mixed', Step(t)
  PROVE  Unshared'
  BY BeginUpdateKeeps, SelectRowKeeps, InsertRevisionKeeps, WriteVersionKeeps,
     PruneRevisionsKeeps, FreeActionsKeep, ReadSourceKeeps, InsertDocKeeps, DeleteDocKeeps,
     CommitUpdateKeeps, CommitInsertKeeps, CommitDeleteKeeps DEF Step

\* The inductive invariant holds at the start.
LEMMA InitInv == Init => IInv
<1> SUFFICES ASSUME Init PROVE IInv
  OBVIOUS
<1>1. TypeOK
  BY InitTypes
<1>2. Structure
  BY DEF Init, SqliteInit, Structure, OneWriter, OpenerKnown
<1>3. ViewsTrack /\ LockHeld /\ RowsCurrent
  BY DEF Init, SqliteInit, ViewsTrack, LockHeld, RowsCurrent, Holding, Updating
<1>4. NewDocsUnknown
  BY DocAssumption DEF Init, NewDocsUnknown, Creating
<1>5. ASSUME NEW d \in Docs
      PROVE  disk.docs[d] = Expected(d)
  BY DEF Init, SqliteInit, EmptyTables, Expected, Acknowledged
<1>6. ASSUME NEW d \in Docs, NEW v \in 1..Len(history[d])
      PROVE  history[d][v].onto = v - 1
  BY DEF Init, Acknowledged
<1> QED
  BY <1>1, <1>2, <1>3, <1>4, <1>5, <1>6 DEF IInv, Structure, Unshared

\* Every step keeps it.
LEMMA NextInv == IInv /\ [Next]_vars => IInv'
<1> SUFFICES ASSUME IInv, [Next]_vars PROVE IInv'
  OBVIOUS
<1>1. TypeOK /\ Structure /\ (~mixed => Unshared) /\ TypeOK'
  BY NextTypes DEF IInv, Structure
<1>2. CASE UNCHANGED vars
  <2>1. Structure'
    BY <1>1, <1>2 DEF vars, sqliteVars, Structure, OneWriter, OpenerKnown, PerThread
  <2>2. ~mixed' => Unshared'
    <3>1. UNCHANGED <<disk, mode, view, connOf, pc, call, row, used, opener, mixed, history,
                      gone>>
      BY <1>2 DEF vars, sqliteVars, threadVars, ghostVars
    <3> QED
      BY <1>1, <3>1, ZenonT(40) DEF Unshared, ViewsTrack, LockHeld, RowsCurrent, NewDocsUnknown, Expected,
                        Pending, NewContent
  <2> QED
    BY <1>1, <2>1, <2>2 DEF IInv, Structure
<1>3. CASE \E t \in Threads : Start(t) \/ Step(t)
  <2>1. PICK t \in Threads : Start(t) \/ Step(t)
    BY <1>3
  <2>2. Statement(t)
    BY <1>1, <2>1, StartFacts, ThreadStepTypes DEF Statement
  <2>3. Structure'
    BY <1>1, <2>2, StructureKept
  <2>4. ~mixed' => ~mixed
    BY <1>1, <2>2, ModeTypes
       DEF Statement, Read, Refused, DoCommit, DoRollback, NoStatement, Write, Ascribe
  <2>5. ~mixed' => Unshared'
    BY <1>1, <2>1, <2>4, StartKeeps, StepKeeps
  <2> QED
    BY <1>1, <2>3, <2>5 DEF IInv, Structure
<1>4. CASE \E c \in Conns : Crash(c)
  <2>1. PICK c \in Conns : Crash(c)
    BY <1>4
  <2>2. Structure' /\ mixed' = mixed
    BY <1>1, <2>1, CrashStructure DEF Crash
  <2>3. ~mixed' => Unshared'
    BY <1>1, <2>1, <2>2, CrashKeeps
  <2> QED
    BY <1>1, <2>2, <2>3 DEF IInv, Structure
<1> QED
  BY <1>2, <1>3, <1>4 DEF Next

\* The inductive invariant: in every deployment there is one writer and every transaction
\* has a known owner; and until two threads share a transaction, views, locks and
\* rows are what the code takes them to be.
THEOREM Invariance == Spec => []IInv
  BY InitInv, NextInv, PTL DEF Spec

\* No transaction shared by two threads leaves nothing but the invariant's case.
LEMMA WholeUnshared == IInv /\ Whole => Unshared
  BY DEF IInv, Whole

\* docs.update, publish and delete: the committed documents are exactly those
\* the acknowledged calls made, however their statements interleave with those
\* of other connections and wherever a process stops.
THEOREM NoUpdateIsLost == Spec => []NoLostUpdate
<1>1. IInv => NoLostUpdate
  BY WholeUnshared DEF NoLostUpdate, Unshared
<1> QED
  BY <1>1, Invariance, PTL

\* docs.update's optimistic concurrency: every acknowledged update was made on
\* the version its caller named.
THEOREM CompareAndSwap == Spec => []CasHonoured
<1>1. IInv => CasHonoured
  BY WholeUnshared DEF CasHonoured, Unshared
<1> QED
  BY <1>1, Invariance, PTL

-----------------------------------------------------------------------------
(* DocStore implements Documents: what has been acknowledged stays known.   *)

\* A history grows at its end, or was empty.
HistoryGrows ==
    \A d \in Docs :
        \/ history'[d] = history[d]
        \/ \E e \in [content : Nat, onto : Nat] : history'[d] = Append(history[d], e)
        \/ history[d] = <<>>

\* A row a document has had it has still had after a later acknowledgement.
LEMMA PastGrows ==
  ASSUME TypeOK, HistoryGrows, NEW d \in Docs
  PROVE  Past(d) \subseteq Past(d)'
<1>1. history[d] \in Seq([content : Nat, onto : Nat]) /\ Len(history[d]) \in Nat
  BY DEF TypeOK
<1>2. ASSUME NEW v \in 1..Len(history[d])
      PROVE  v \in 1..Len(history'[d]) /\ history'[d][v] = history[d][v]
  <2>1. CASE history'[d] = history[d]
    BY <2>1
  <2>2. ASSUME NEW e \in [content : Nat, onto : Nat], history'[d] = Append(history[d], e)
        PROVE  v \in 1..Len(history'[d]) /\ history'[d][v] = history[d][v]
    <3>1. /\ Len(Append(history[d], e)) = Len(history[d]) + 1
          /\ Append(history[d], e)[v] = history[d][v]
      BY <1>1, <1>2, AppendProperties
    <3> QED
      BY <1>1, <1>2, <2>2, <3>1
  <2>3. history[d] # <<>>
    BY <1>2
  <2> QED
    BY <2>1, <2>2, <2>3 DEF HistoryGrows
<1> QED
  BY <1>2, Zenon DEF Past

RowsWere == \A d \in Docs : disk.docs[d] \in {NoRow} \cup Past(d)

\* The committed row of a document is one it has had.
LEMMA CommittedWas == TypeOK /\ Unshared => RowsWere
<1> SUFFICES ASSUME TypeOK, Unshared, NEW d \in Docs
             PROVE  disk.docs[d] \in {NoRow} \cup Past(d)
  BY DEF RowsWere
<1>1. history[d] \in Seq([content : Nat, onto : Nat]) /\ Len(history[d]) \in Nat
  BY RowSays
<1>2. CASE history[d] = <<>> \/ d \in gone
  BY <1>2 DEF Unshared, Expected
<1>3. CASE ~(history[d] = <<>> \/ d \in gone)
  <2>1. Len(history[d]) \in 1..Len(history[d])
    BY <1>1, <1>3, EmptySeq
  <2>2. disk.docs[d] = [ver |-> Len(history[d]), content |-> history[d][Len(history[d])].content]
    BY <1>3 DEF Unshared, Expected
  <2> QED
    BY <2>1, <2>2 DEF Past
<1> QED
  BY <1>2, <1>3

\* The documents stay while nothing is acknowledged and nothing is deleted.
LEMMA DocumentsStay ==
  ASSUME TypeOK, TypeOK', Unshared, Unshared', UNCHANGED <<history, gone>>
  PROVE  disk'.docs = disk.docs
<1>1. disk.docs \in [Docs -> Rows] /\ disk'.docs \in [Docs -> Rows]
  BY DEF TypeOK, Tables
<1>2. ASSUME NEW d \in Docs
      PROVE  disk'.docs[d] = disk.docs[d]
  <2>1. disk.docs[d] = Expected(d) /\ disk'.docs[d] = Expected(d)'
    BY DEF Unshared
  <2>2. Expected(d)' = Expected(d)
    BY DEF Expected
  <2> QED
    BY <2>1, <2>2
<1> QED
  BY <1>1, <1>2

\* What a step acknowledges only adds to what was.
LEMMA StepGrows ==
  ASSUME TypeOK, Structure, Unshared, NEW t \in Threads, Step(t)
  PROVE  /\ used' = used /\ HistoryGrows
         /\ \/ UNCHANGED <<history, gone>>
            \/ CommitUpdate(t) \/ CommitInsert(t) \/ CommitDelete(t)
<1>1. Keep => used' = used /\ UNCHANGED <<history, gone>>
  BY DEF Keep
<1>2. UNCHANGED history => HistoryGrows
  BY DEF HistoryGrows
<1>3. history \in [Docs -> Seq([content : Nat, onto : Nat])] /\ call[t].doc \in Docs
      /\ call[t].id \in Nat /\ call[t].ifVersion \in Nat
  BY CallTypes DEF TypeOK
<1>4. CASE CommitUpdate(t)
  <2>1. PICK e \in [content : Nat, onto : Nat] : e = Acknowledged(call[t].id, call[t].ifVersion)
    BY <1>3 DEF Acknowledged
  <2>2. used' = used /\ (\/ UNCHANGED history
                         \/ history' = [history EXCEPT ![call[t].doc] = Append(@, e)])
    BY <1>4, <2>1 DEF CommitUpdate
  <2> QED
    BY <1>2, <1>3, <1>4, <2>2 DEF HistoryGrows
<1>5. CASE CommitInsert(t)
  <2>1. used' = used /\ \A d \in Docs \ {call[t].doc} : history'[d] = history[d]
    BY <1>3, <1>5 DEF CommitInsert
  <2>2. history[call[t].doc] = <<>>
    BY <1>5 DEF CommitInsert, Unshared, NewDocsUnknown, Creating
  <2> QED
    BY <1>5, <2>1, <2>2 DEF HistoryGrows
<1>6. CASE CommitDelete(t)
  BY <1>2, <1>6 DEF CommitDelete
<1>7. CASE ~(CommitUpdate(t) \/ CommitInsert(t) \/ CommitDelete(t))
  <2>1. Keep
    BY <1>7 DEF Step, Check, BeginUpdate, SelectRow, RollbackUpdate, CleanUp, InsertRevision,
         WriteVersion, PruneRevisions, Reread, AuditInsert, AuditCommit, ReadSource, InsertDoc,
         SeedRevision, RereadFork, WriteTitle, DeleteGrants, DeleteDoc, TouchRow,
         WriteBookmark, CommitTouch
  <2> QED
    BY <1>1, <1>2, <2>1
<1> QED
  BY <1>4, <1>5, <1>6, <1>7

-----------------------------------------------------------------------------
(* Where the steps of a call are, as Documents sees them.                   *)

Acknowledging == {"commit", "insertCommit", "deleteCommit"}

\* A step that is no acknowledgement: the call returns, or stays where it was.
Carries(t) ==
    \/ Return(t)
    \/ call'[t] = call[t] /\ StageAt(pc'[t], call[t].op) = StageAt(pc[t], call[t].op)

\* What the steps of docs.update do to the call.
LEMMA UpdateMoves ==
  ASSUME TypeOK, NEW t \in Threads, OpFits(pc[t], call[t].op),
         \/ BeginUpdate(t) \/ SelectRow(t) \/ RollbackUpdate(t) \/ CleanUp(t)
         \/ InsertRevision(t) \/ WriteVersion(t) \/ PruneRevisions(t) \/ Reread(t)
  PROVE  OpFits(pc'[t], call'[t].op) /\ Carries(t) /\ pc'[t] \notin {"insert", "insertCommit"}
<1>1. pc[t] \in {"begin", "select", "rollback", "cleanup", "snapshot", "write", "prune", "reread"}
  BY DEF BeginUpdate, SelectRow, RollbackUpdate, CleanUp, InsertRevision, WriteVersion,
         PruneRevisions, Reread
<1>2. call[t].op = "update"
  BY <1>1 DEF OpFits
<1>3. CASE Return(t)
  BY <1>3, MoveFacts DEF OpFits, Carries
<1>4. CASE Reread(t) /\ Goto(t, "audit")
  <2>1. "audit" \in Labels
    BY DEF Labels
  <2>2. pc'[t] = "audit" /\ call'[t] = call[t]
    BY <1>4, <2>1, MoveFacts
  <2> QED
    BY <1>4, <2>2 DEF OpFits, Carries, StageAt, Committed, Reread
<1>5. CASE ~Reread(t) /\ ~Return(t)
  <2>1. {"select", "rollback", "cleanup", "snapshot", "write", "prune", "commit"} \subseteq Labels
    BY DEF Labels
  <2>2. Seen(t).docs[call[t].doc] \in Rows
    BY CallTypes
  <2>3. /\ pc'[t] \in {"select", "rollback", "cleanup", "snapshot", "write", "prune", "commit"}
        /\ call'[t] = call[t]
    BY <1>5, <2>1, <2>2, MoveFacts
       DEF BeginUpdate, SelectRow, RollbackUpdate, CleanUp, InsertRevision, WriteVersion,
           PruneRevisions
  <2>4. StageAt(pc[t], "update") = "called" /\ StageAt(pc'[t], "update") = "called"
    <3>1. pc[t] # "reread"
      BY <1>5 DEF BeginUpdate, SelectRow, RollbackUpdate, CleanUp, InsertRevision, WriteVersion,
           PruneRevisions
    <3> QED
      BY <1>1, <2>3, <3>1 DEF StageAt, Committed
  <2> QED
    BY <1>2, <2>3, <2>4 DEF OpFits, Carries
<1> QED
  BY <1>3, <1>4, <1>5 DEF Reread

\* What the steps of publish, fork_document and docs.delete before and after
\* the commit do to the call.
LEMMA MakingMoves ==
  ASSUME TypeOK, NEW t \in Threads, OpFits(pc[t], call[t].op),
         \/ SeedRevision(t) \/ RereadFork(t) \/ WriteTitle(t)
         \/ DeleteGrants(t) \/ DeleteDoc(t)
  PROVE  OpFits(pc'[t], call'[t].op) /\ Carries(t) /\ pc'[t] \notin {"insert", "insertCommit"}
<1>1. {"forkReread", "title", "touchCommit", "deleteDoc", "deleteCommit"} \subseteq Labels
  BY DEF Labels
<1>2. Seen(t).docs[call[t].doc] \in Rows
  BY CallTypes
<1>3. CASE Return(t)
  BY <1>3, MoveFacts DEF OpFits, Carries
<1>4. CASE ~Return(t) /\ (SeedRevision(t) \/ RereadFork(t) \/ WriteTitle(t))
  <2>1. /\ pc[t] \in {"seed", "forkReread", "title"} /\ call'[t] = call[t]
        /\ pc'[t] \in {"forkReread", "title", "touchCommit"}
    BY <1>1, <1>4, MoveFacts DEF SeedRevision, RereadFork, WriteTitle
  <2>2. call[t].op = "fork"
    BY <2>1 DEF OpFits
  <2> QED
    BY <2>1, <2>2 DEF OpFits, Carries, StageAt, Committed
<1>5. CASE ~Return(t) /\ (DeleteGrants(t) \/ DeleteDoc(t))
  <2>1. /\ pc[t] \in {"deleteGrants", "deleteDoc"} /\ call'[t] = call[t]
        /\ pc'[t] \in {"deleteDoc", "deleteCommit"}
    BY <1>1, <1>2, <1>5, MoveFacts DEF DeleteGrants, DeleteDoc
  <2>2. call[t].op = "delete"
    BY <2>1 DEF OpFits
  <2> QED
    BY <2>1, <2>2 DEF OpFits, Carries, StageAt, Committed
<1> QED
  BY <1>3, <1>4, <1>5

\* What the check, the audit and the writes of one statement do to the call.
LEMMA SideMoves ==
  ASSUME TypeOK, NEW t \in Threads, OpFits(pc[t], call[t].op),
         \/ Check(t) \/ AuditInsert(t) \/ AuditCommit(t)
         \/ TouchRow(t) \/ WriteBookmark(t) \/ CommitTouch(t)
  PROVE  OpFits(pc'[t], call'[t].op) /\ Carries(t) /\ pc'[t] \notin {"insert", "insertCommit"}
<1>1. {"begin", "deleteGrants", "bookmark", "auditCommit", "touchCommit"} \subseteq Labels
  BY DEF Labels
<1>2. CASE Return(t)
  BY <1>2, MoveFacts DEF OpFits, Carries
<1>3. CASE Check(t) /\ Goto(t, AfterCheck(t))
  <2>1. pc[t] = "check" /\ call[t].op \in {"update", "delete", "bookmark"}
    BY <1>3 DEF Check, OpFits
  <2>2. AfterCheck(t) \in {"begin", "deleteGrants", "bookmark"}
    BY DEF AfterCheck
  <2>3. pc'[t] = AfterCheck(t) /\ call'[t] = call[t]
    BY <1>1, <1>3, <2>2, MoveFacts
  <2>4. OpFits(AfterCheck(t), call[t].op)
    BY <2>1 DEF AfterCheck, OpFits
  <2> QED
    BY <2>1, <2>2, <2>3, <2>4 DEF Carries, StageAt, Committed
<1>4. CASE ~Return(t) /\ AuditInsert(t)
  <2>1. pc[t] = "audit" /\ pc'[t] = "auditCommit" /\ call'[t] = call[t]
    BY <1>1, <1>4, MoveFacts DEF AuditInsert
  <2> QED
    BY <2>1 DEF OpFits, Carries, StageAt, Committed
<1>5. CASE ~Return(t) /\ (TouchRow(t) \/ WriteBookmark(t))
  <2>1. pc[t] \in {"touch", "bookmark"} /\ pc'[t] = "touchCommit" /\ call'[t] = call[t]
    BY <1>1, <1>5, MoveFacts DEF TouchRow, WriteBookmark
  <2>2. call[t].op \in {"touch", "bookmark"}
    BY <2>1 DEF OpFits
  <2> QED
    BY <2>1, <2>2 DEF OpFits, Carries, StageAt, Committed
<1> QED
  BY <1>2, <1>3, <1>4, <1>5 DEF Check, AuditCommit, CommitTouch

\* A fork reads its source; a document is inserted.
LEMMA InsertMoves ==
  ASSUME TypeOK, NEW t \in Threads, OpFits(pc[t], call[t].op), ReadSource(t) \/ InsertDoc(t)
  PROVE  /\ OpFits(pc'[t], call'[t].op) /\ Carries(t)
         /\ pc'[t] = "insert" =>
              /\ ReadSource(t) /\ Exists(t, call[t].from) /\ call'[t] = call[t]
              /\ row'[t] = Seen(t).docs[call[t].from]
         /\ pc'[t] = "insertCommit" =>
              /\ InsertDoc(t) /\ \E tables \in Tables : Write(t, tables)
              /\ call'[t] = call[t] /\ row'[t] = row[t]
<1>1. {"insert", "insertCommit"} \subseteq Labels
  BY DEF Labels
<1>2. Seen(t).docs[call[t].from] \in Rows
  BY CallTypes
<1>3. CASE Return(t)
  BY <1>3, MoveFacts DEF OpFits, Carries
<1>4. CASE ReadSource(t) /\ ~Return(t)
  <2>1. /\ pc[t] = "readSource" /\ pc'[t] = "insert" /\ call'[t] = call[t]
        /\ Exists(t, call[t].from) /\ row'[t] = Seen(t).docs[call[t].from]
    BY <1>1, <1>2, <1>4, MoveFacts DEF ReadSource
  <2> QED
    BY <1>4, <2>1 DEF OpFits, Carries, StageAt, Committed
<1>5. CASE InsertDoc(t) /\ ~Return(t)
  <2> DEFINE T == SetDoc(t, call[t].doc, [ver |-> 1, content |-> NewContent(t)])
  <2>1. pc[t] = "insert" /\ Write(t, T) /\ Goto(t, "insertCommit")
    BY <1>5 DEF InsertDoc, NewContent
  <2>2. pc'[t] = "insertCommit" /\ call'[t] = call[t] /\ row'[t] = row[t]
    BY <1>1, <2>1, MoveFacts
  <2>3. T \in Tables
    BY TypeParts, CallTypes, WrittenTypes, SetDocType
  <2>4. OpFits(pc'[t], call'[t].op) /\ Carries(t)
    BY <2>1, <2>2 DEF OpFits, Carries, StageAt, Committed
  <2> QED
    BY <1>5, <2>1, <2>2, <2>3, <2>4
<1> QED
  BY <1>3, <1>4, <1>5

\* What the commits that acknowledge do to the call.
LEMMA AcknowledgingMoves ==
  ASSUME TypeOK, NEW t \in Threads, OpFits(pc[t], call[t].op),
         CommitUpdate(t) \/ CommitInsert(t) \/ CommitDelete(t)
  PROVE  /\ OpFits(pc'[t], call'[t].op) /\ pc'[t] \notin {"insert", "insertCommit"}
         /\ pc[t] \in Acknowledging
<1>1. {"reread", "cleanup", "seed", "audit"} \subseteq Labels
  BY DEF Labels
<1>2. CASE CommitUpdate(t)
  <2>1. pc[t] = "commit" /\ pc'[t] \in {"reread", "cleanup"} /\ call'[t] = call[t]
    BY <1>1, <1>2, MoveFacts DEF CommitUpdate
  <2> QED
    BY <2>1 DEF OpFits, Acknowledging
<1>3. CASE CommitInsert(t)
  <2>1. /\ pc[t] = "insertCommit" /\ call'[t] = call[t]
        /\ pc'[t] = (IF call[t].op = "fork" THEN "seed" ELSE "audit")
    BY <1>1, <1>3, MoveFacts DEF CommitInsert
  <2> QED
    BY <2>1 DEF OpFits, Acknowledging
<1>4. CASE CommitDelete(t)
  <2>1. pc[t] = "deleteCommit" /\ pc'[t] \in {"audit", "idle"}
    BY <1>1, <1>4, MoveFacts DEF CommitDelete
  <2> QED
    BY <2>1 DEF OpFits, Acknowledging
<1> QED
  BY <1>2, <1>3, <1>4

\* What a handler is asked for when it is called.
Asked(t, r) ==
    /\ call' = [call EXCEPT ![t] = r]
    /\ \/ r.op \in {"publish", "fork"} /\ r.doc \notin used /\ used' = used \cup {r.doc}
       \/ r.op \notin {"publish", "fork"} /\ used' = used

AllRequests == [op : Ops, doc : Docs, id : 1..MaxCalls, from : Docs,
                ifVersion : 0..MaxCalls + 1, retitle : BOOLEAN]

\* Called, a handler is asked for something, at the first label of its operation.
LEMMA BeginAsks ==
  ASSUME TypeOK, NEW t \in Threads, NEW op, NEW d \in Docs, NEW label, NEW arguments,
         arguments.from \in Docs, arguments.ifVersion \in 0..MaxCalls + 1,
         arguments.retitle \in BOOLEAN, Begin(t, op, d, label, arguments)
  PROVE  \E r \in AllRequests : r.op = op /\ r.doc = d /\ call' = [call EXCEPT ![t] = r]
<1> DEFINE r == [op |-> op, doc |-> d, id |-> calls + 1, from |-> arguments.from,
                 ifVersion |-> arguments.ifVersion, retitle |-> arguments.retitle]
<1>1. calls + 1 \in 1..MaxCalls /\ op \in Ops
  BY BoundAssumption DEF Begin, TypeOK
<1>2. r \in AllRequests
  BY <1>1 DEF AllRequests
<1>3. call' = [call EXCEPT ![t] = r] /\ r.op = op /\ r.doc = d
  BY DEF Begin
<1> QED
  BY <1>2, <1>3

\* The same for each handler.
LEMMA StartAsks ==
  ASSUME TypeOK, NEW t \in Threads, Start(t)
  PROVE  \E r \in AllRequests :
           /\ Asked(t, r) /\ OpFits(pc'[t], r.op) /\ call'[t] = r
           /\ pc'[t] # "insertCommit" /\ (pc'[t] = "insert" => r.op # "fork")
           /\ pc[t] = "idle" /\ StageAt(pc'[t], r.op) = "called"
<1>1. AnyDoc \in Docs /\ used \subseteq Docs /\ DOMAIN call = Threads
  BY DocAssumption DEF AnyDoc, TypeOK
<1>2. /\ NoCall.from \in Docs /\ NoCall.ifVersion \in 0..MaxCalls + 1
      /\ NoCall.retitle \in BOOLEAN
  BY <1>1, BoundAssumption DEF NoCall
<1>3. CASE StartPublish(t)
  <2>1. PICK d \in Docs : FreshDoc(d) /\ Begin(t, "publish", d, "insert", NoCall)
    BY <1>3 DEF StartPublish
  <2>2. PICK r \in AllRequests : r.op = "publish" /\ r.doc = d /\ call' = [call EXCEPT ![t] = r]
    BY <1>2, <2>1, BeginAsks
  <2>3. pc[t] = "idle" /\ pc'[t] = "insert" /\ call'[t] = r
    BY <1>1, <2>1, <2>2, BeginFacts
  <2>4. Asked(t, r)
    BY <2>1, <2>2 DEF Asked, FreshDoc
  <2> QED
    BY <2>2, <2>3, <2>4 DEF OpFits, StageAt, Committed
<1>4. CASE StartUpdate(t)
  <2>1. PICK d \in used, v \in 1..MaxCalls + 1 :
          Begin(t, "update", d, "check", [NoCall EXCEPT !.ifVersion = v]) /\ UNCHANGED used
    BY <1>4 DEF StartUpdate
  <2>2. PICK a : a = [NoCall EXCEPT !.ifVersion = v]
    OBVIOUS
  <2>3. /\ d \in Docs /\ Begin(t, "update", d, "check", a)
        /\ a.from \in Docs /\ a.ifVersion \in 0..MaxCalls + 1 /\ a.retitle \in BOOLEAN
    <3>1. d \in Docs /\ v \in 0..MaxCalls + 1 /\ Begin(t, "update", d, "check", a)
      BY <1>1, <2>1, <2>2, BoundAssumption
    <3>2. a.from \in Docs /\ a.ifVersion \in 0..MaxCalls + 1 /\ a.retitle \in BOOLEAN
      BY <1>1, <2>2, <3>1 DEF NoCall
    <3> QED
      BY <3>1, <3>2
  <2>4. PICK r \in AllRequests : r.op = "update" /\ r.doc = d /\ call' = [call EXCEPT ![t] = r]
    BY <2>3, BeginAsks
  <2>5. pc[t] = "idle" /\ pc'[t] = "check" /\ call'[t] = r
    BY <1>1, <2>3, <2>4, BeginFacts
  <2>6. Asked(t, r)
    BY <2>1, <2>4 DEF Asked
  <2> QED
    BY <2>4, <2>5, <2>6 DEF OpFits, StageAt, Committed
<1>5. CASE StartDelete(t) \/ StartBookmark(t)
  <2>1. PICK d \in used, op \in {"delete", "bookmark"} :
          Begin(t, op, d, "check", NoCall) /\ UNCHANGED used
    BY <1>5 DEF StartDelete, StartBookmark
  <2>2. PICK r \in AllRequests : r.op = op /\ r.doc = d /\ call' = [call EXCEPT ![t] = r]
    BY <1>1, <1>2, <2>1, BeginAsks
  <2>3. pc[t] = "idle" /\ pc'[t] = "check" /\ call'[t] = r
    BY <1>1, <2>1, <2>2, BeginFacts
  <2>4. Asked(t, r)
    BY <2>1, <2>2 DEF Asked
  <2> QED
    BY <2>2, <2>3, <2>4 DEF OpFits, StageAt, Committed
<1>6. CASE StartFork(t)
  <2>1. PICK s \in used, d \in Docs, b \in BOOLEAN :
          /\ FreshDoc(d)
          /\ Begin(t, "fork", d, "readSource", [NoCall EXCEPT !.from = s, !.retitle = b])
    BY <1>6 DEF StartFork
  <2>2. PICK a : a = [NoCall EXCEPT !.from = s, !.retitle = b]
    OBVIOUS
  <2>3. /\ Begin(t, "fork", d, "readSource", a)
        /\ a.from \in Docs /\ a.ifVersion \in 0..MaxCalls + 1 /\ a.retitle \in BOOLEAN
    <3>1. Begin(t, "fork", d, "readSource", a)
      BY <2>1, <2>2
    <3>2. a.from \in Docs /\ a.ifVersion \in 0..MaxCalls + 1 /\ a.retitle \in BOOLEAN
      BY <1>1, <1>2, <2>1, <2>2 DEF NoCall
    <3> QED
      BY <3>1, <3>2
  <2>4. PICK r \in AllRequests : r.op = "fork" /\ r.doc = d /\ call' = [call EXCEPT ![t] = r]
    BY <2>3, BeginAsks
  <2>5. pc[t] = "idle" /\ pc'[t] = "readSource" /\ call'[t] = r
    BY <1>1, <2>3, <2>4, BeginFacts
  <2>6. Asked(t, r)
    BY <2>1, <2>4 DEF Asked, FreshDoc
  <2> QED
    BY <2>4, <2>5, <2>6 DEF OpFits, StageAt, Committed
<1>7. CASE StartTouch(t)
  <2>1. PICK d \in Docs : Begin(t, "touch", d, "touch", NoCall) /\ used' = used
    BY <1>1, <1>7 DEF StartTouch
  <2>2. PICK r \in AllRequests : r.op = "touch" /\ r.doc = d /\ call' = [call EXCEPT ![t] = r]
    BY <1>2, <2>1, BeginAsks
  <2>3. pc[t] = "idle" /\ pc'[t] = "touch" /\ call'[t] = r
    BY <1>1, <2>1, <2>2, BeginFacts
  <2>4. Asked(t, r)
    BY <2>1, <2>2 DEF Asked
  <2> QED
    BY <2>2, <2>3, <2>4 DEF OpFits, StageAt, Committed
<1> QED
  BY <1>3, <1>4, <1>5, <1>6, <1>7 DEF Start

-----------------------------------------------------------------------------
(* The invariant that carries the refinement.                              *)

\* Snapshots that a commit has overtaken hold what was committed before it.
LEMMA StaleStays ==
  ASSUME TypeOK, NEW t \in Threads, Statement(t), NEW x \in Conns, mode'[x] = "stale"
  PROVE  mode[x] \in {"read", "stale"} /\ view'[x] = view[x]
<1> DEFINE c == connOf[t]
<1>1. c \in Conns /\ mode \in [Conns -> Modes] /\ view \in [Conns -> Tables]
  BY ModeTypes
<1>2. CASE Read(t) \/ Refused(t) \/ NoStatement \/ BeginImmediate(c) \/ BeginRefused(c)
  BY <1>1, <1>2 DEF Read, Select, Refused, ExecuteRefused, NoStatement, BeginImmediate,
                    BeginRefused, sqliteVars
<1>3. CASE DoCommit(t)
  BY <1>1, <1>3 DEF DoCommit, Commit
<1>4. CASE DoRollback(t)
  BY <1>1, <1>4 DEF DoRollback, Rollback
<1>5. CASE \E tables \in Tables : Write(t, tables)
  BY <1>1, <1>5 DEF Write, Execute
<1> QED
  BY <1>2, <1>3, <1>4, <1>5 DEF Statement

\* What a connection sees at a read was committed, or another thread's
\* transaction is about to commit it.
LEMMA SnapshotsKept ==
  ASSUME TypeOK, Unshared, SnapshotsWere, NEW t \in Threads, Statement(t), HistoryGrows
  PROVE  SnapshotsWere'
<1> SUFFICES ASSUME NEW x \in Conns, mode'[x] = "stale", NEW d \in Docs
             PROVE  view'[x].docs[d] \in {NoRow} \cup Past(d)'
  BY DEF SnapshotsWere
<1>1. mode[x] \in {"read", "stale"} /\ view'[x] = view[x]
  BY StaleStays
<1>2. view[x].docs[d] \in {NoRow} \cup Past(d)
  <2>1. CASE mode[x] = "read"
    <3>1. view[x] = disk
      BY <2>1 DEF Unshared, ViewsTrack
    <3> QED
      BY <3>1, CommittedWas DEF RowsWere
  <2>2. CASE mode[x] = "stale"
    BY <2>2 DEF SnapshotsWere
  <2> QED
    BY <1>1, <2>1, <2>2
<1> QED
  BY <1>1, <1>2, PastGrows

\* The same after a step.
LEMMA CommittedIs == TypeOK' /\ Unshared' => RowsWere'
  BY CommittedWas, PTL

\* The steps at the labels from which a document is about to be committed.
LEMMA ArrivingSteps ==
  ASSUME NEW t \in Threads, Step(t)
  PROVE  /\ pc[t] = "prune" => PruneRevisions(t)
         /\ pc[t] = "commit" => CommitUpdate(t)
         /\ pc[t] = "insertCommit" => CommitInsert(t)
         /\ pc[t] = "deleteCommit" => CommitDelete(t)
         /\ pc[t] # "idle"
  BY DEF Step, Check, BeginUpdate, SelectRow, RollbackUpdate, CleanUp, InsertRevision,
         WriteVersion, PruneRevisions, CommitUpdate, Reread, AuditInsert, AuditCommit,
         ReadSource, InsertDoc, CommitInsert, SeedRevision, RereadFork, WriteTitle,
         DeleteGrants, DeleteDoc, CommitDelete, TouchRow, WriteBookmark, CommitTouch

\* An acknowledging commit makes what the thread had pending the committed documents.
LEMMA CommitDelivers ==
  ASSUME TypeOK, Structure, Unshared, NEW t \in Threads, ~mixed',
         CommitUpdate(t) \/ CommitInsert(t) \/ CommitDelete(t)
  PROVE  /\ disk'.docs = Pending(t) /\ OthersRest(t) /\ DoCommit(t)
         /\ mode[connOf[t]] = "write" /\ opener[connOf[t]].by = t
<1>1. {"reread", "seed", "audit"} \subseteq Labels
  BY DEF Labels
<1>2. pc[t] \in Holding
  BY DEF CommitUpdate, CommitInsert, CommitDelete, Holding
<1>3. InTransaction(t) /\ HoldsLock(t)
  BY <1>2, HolderFacts, PerThreadParts DEF Unshared
<1>4. /\ DoCommit(t)
      /\ Goto(t, "reread") \/ Goto(t, "seed") \/ Goto(t, "audit") \/ Return(t)
  BY <1>3 DEF CommitUpdate, CommitInsert, CommitDelete
<1>5. Move(t) /\ pc'[t] \notin Holding
  BY <1>1, <1>4, MoveFacts DEF Holding
<1> QED
  BY <1>2, <1>3, <1>4, <1>5, CommitSettles DEF HoldsLock

\* Only these commits change the committed documents.
LEMMA OnlyCommitsChange ==
  ASSUME IInv, IInv', Unshared, Unshared', NEW t \in Threads, Start(t) \/ Step(t)
  PROVE  /\ HistoryGrows
         /\ \/ disk'.docs = disk.docs /\ UNCHANGED <<history, gone>>
            \/ Step(t) /\ (CommitUpdate(t) \/ CommitInsert(t) \/ CommitDelete(t))
<1>1. TypeOK /\ TypeOK' /\ Structure
  BY DEF IInv, Structure
<1>2. CASE Start(t)
  <2>1. UNCHANGED <<history, gone>>
    BY <1>1, <1>2, StartFacts
  <2> QED
    BY <1>1, <2>1, DocumentsStay DEF HistoryGrows
<1>3. CASE Step(t)
  BY <1>1, <1>3, StepGrows, DocumentsStay
<1> QED
  BY <1>2, <1>3

\* A source row that another thread is about to commit is committed next.
LEMMA ArrivingKept ==
  ASSUME IInv, IInv', Unshared, Unshared', NEW t \in Threads, Start(t) \/ Step(t), ~mixed',
         NEW u \in Threads \ {t}, Resting(u), Arriving(u),
         NEW s \in Docs, s = call[u].from
  PROVE  row'[u] \in Past(s)' \/ Arriving(u)'
<1>1. TypeOK /\ TypeOK' /\ Structure
  BY DEF IInv, Structure
<1>2. Statement(t) /\ OthersRest(t) /\ connOf' = connOf
  <2>1. Statement(t)
    BY <1>1, StartFacts, ThreadStepTypes DEF Statement
  <2>2. OthersRest(t)
    BY <1>1, StartFacts, ThreadStepTypes, MoveRests
  <2>3. connOf' = connOf
    BY <2>1 DEF Statement, Read, Refused, DoCommit, DoRollback, NoStatement, Write, Ascribe
  <2> QED
    BY <2>1, <2>2, <2>3
<1>3. PICK c \in Conns, w \in {opener[connOf[u]].by} : c = connOf[u] /\ w = opener[c].by
  BY <1>1, ModeTypes
<1>4. /\ mode[c] = "write" /\ w # u /\ pc[w] \in {"prune", "commit", "insertCommit"}
      /\ row[u] = Pending(w)[s] /\ row[u].ver > 0
      /\ w \in Threads /\ connOf[w] = c
  <2>1. mode[c] = "write" /\ w # u
    BY <1>3 DEF Arriving
  <2>2. pc[w] \in {"prune", "commit", "insertCommit"} /\ row[u].ver > 0
    BY <1>3 DEF Arriving
  <2>3. row[u] = Pending(w)[s]
    BY <1>3 DEF Arriving
  <2>4. w \in Threads /\ connOf[w] = c
    BY <1>1, <1>3, <2>1 DEF Structure, OpenerKnown
  <2> QED
    BY <2>1, <2>2, <2>3, <2>4
<1>5. /\ pc'[u] = pc[u] /\ call'[u] = call[u] /\ row'[u] = row[u] /\ call'[u].from = s
  BY DEF Resting
<1>6. HoldsLock(w)
  BY <1>4, PerThreadParts DEF Unshared
<1>10. ASSUME mode'[c] = "write", opener'[c].by = w, Pending(w)' = Pending(w),
              pc'[w] \in {"prune", "commit", "insertCommit"}
       PROVE  Arriving(u)'
  <2>1. connOf'[u] = c /\ opener'[connOf'[u]].by = w
    BY <1>2, <1>3, <1>10
  <2>2. Pending(opener[connOf[u]].by)' = Pending(w)'
    BY <2>1
  <2>3. row'[u] = Pending(opener[connOf[u]].by)'[call'[u].from] /\ row'[u].ver > 0
    BY <1>4, <1>5, <1>10, <2>2
  <2> QED
    BY <1>4, <1>10, <2>1, <2>3 DEF Arriving
<1>7. CASE w # t
  <2>1. HoldsLock(w)' /\ Resting(w) /\ pc[w] \in Holding
    <3>1. w \in Threads \ {t} /\ Resting(w) /\ pc[w] \in Holding
      BY <1>2, <1>4, <1>7 DEF OthersRest, Holding
    <3> QED
      BY <1>1, <1>2, <1>6, <3>1, HolderKept
  <2>2. mode'[c] = "write" /\ opener'[c].by = w /\ pc'[w] = pc[w]
    BY <1>2, <1>4, <2>1 DEF HoldsLock, Resting, Holding
  <2>3. disk'.docs = disk.docs
    <3>1. CASE Step(t) /\ (CommitUpdate(t) \/ CommitInsert(t) \/ CommitDelete(t))
      <4>1. mode[connOf[t]] = "write" /\ opener[connOf[t]].by = t /\ connOf[t] \in Conns
        BY <1>1, <3>1, CommitDelivers, ModeTypes
      <4>2. connOf[t] = c
        BY <1>1, <1>3, <1>4, <4>1 DEF Structure, OneWriter
      <4> QED
        BY <1>3, <1>7, <4>1, <4>2
    <3> QED
      BY <3>1, OnlyCommitsChange
  <2>4. Pending(w)' = Pending(w)
    BY <1>4, <2>1, <2>3, PendingKept
  <2> QED
    BY <1>4, <1>10, <2>2, <2>4
<1>8. CASE w = t
  <2>1. Step(t)
    BY <1>1, <1>4, <1>8, StartFacts
  <2>2. CASE pc[t] = "prune"
    <3>1. PruneRevisions(t) /\ pc[t] \in Holding
      BY <2>1, <2>2, ArrivingSteps DEF Holding
    <3>2. ~Refused(t)
      BY <1>1, <3>1, HolderFacts
    <3>3. Write(t, Pruned(t, call[t].doc)) /\ Goto(t, "commit") /\ "commit" \in Labels
      BY <3>1, <3>2 DEF PruneRevisions, Labels
    <3>4. pc'[t] = "commit" /\ call'[t] = call[t] /\ row'[t] = row[t]
      BY <1>1, <3>3, MoveFacts
    <3>5. /\ disk' = disk /\ mode'[c] = "write" /\ opener'[c].by = t
      BY <1>1, <1>3, <1>4, <1>8, <3>3, ModeTypes DEF Write, Execute, Ascribe
    <3>6. Pending(t)' = Pending(t)
      BY <2>2, <3>4, <3>5 DEF Pending
    <3> QED
      BY <1>8, <1>10, <3>4, <3>5, <3>6
  <2>3. CASE pc[t] \in {"commit", "insertCommit"}
    <3>1. CommitUpdate(t) \/ CommitInsert(t)
      BY <2>1, <2>3, ArrivingSteps
    <3>2. disk'.docs = Pending(t)
      BY <1>1, <3>1, CommitDelivers
    <3>3. disk'.docs[s] \in {NoRow} \cup Past(s)'
      BY <1>1, CommittedIs DEF RowsWere
    <3> QED
      BY <1>4, <1>5, <1>8, <3>2, <3>3 DEF NoRow
  <2> QED
    BY <1>4, <1>8, <2>2, <2>3
<1> QED
  BY <1>7, <1>8

\* The source row of a fork was, or is arriving, after a step of another thread.
LEMMA OtherSource ==
  ASSUME IInv, IInv', Unshared, Unshared', NEW t \in Threads, Start(t) \/ Step(t), ~mixed',
         NEW u \in Threads \ {t}, Resting(u), SourceWas(u)
  PROVE  SourceWas(u)'
<1>1. TypeOK /\ HistoryGrows
  BY OnlyCommitsChange DEF IInv
<1>2. PICK s \in Docs : s = call[u].from
  BY <1>1, CallTypes
<1>3. pc'[u] = pc[u] /\ call'[u] = call[u] /\ row'[u] = row[u]
  BY DEF Resting
<1>4. Past(s) \subseteq Past(s)' /\ Past(call[u].from) = Past(s)
  BY <1>1, <1>2, PastGrows
<1>5. Past(call[u].from)' = Past(s)'
  BY <1>2, <1>3
<1>6. Arriving(u) => row'[u] \in Past(s)' \/ Arriving(u)'
  BY <1>2, ArrivingKept
<1> QED
  BY <1>3, <1>4, <1>5, <1>6 DEF SourceWas

\* The row a fork reads was, or is arriving; and it was when it is inserted.
LEMMA OwnSource ==
  ASSUME IInv, IInv', Unshared, Unshared', SnapshotsWere, NEW t \in Threads,
         Step(t), ~mixed', OpFits(pc[t], call[t].op), SourceWas(t)
  PROVE  SourceWas(t)'
<1>1. TypeOK /\ TypeOK' /\ Structure /\ HistoryGrows
  BY OnlyCommitsChange DEF IInv, Structure
<1>5. PICK c \in Conns, s \in Docs, w \in {opener[connOf[t]].by} :
        c = connOf[t] /\ s = call[t].from /\ w = opener[c].by
  BY <1>1, CallTypes, ModeTypes
<1>6. Past(s) \subseteq Past(s)' /\ Past(call[t].from) = Past(s)
  BY <1>1, <1>5, PastGrows
<1>7. call'[t] = call[t] => Past(call[t].from)' = Past(s)'
  BY <1>5
<1>2. CASE pc'[t] \notin {"insert", "insertCommit"}
  BY <1>2 DEF SourceWas
<1>3. CASE ReadSource(t) /\ pc'[t] = "insert"
  <2>1. /\ pc[t] = "readSource" /\ Exists(t, s) /\ call'[t] = call[t]
        /\ row'[t] = Seen(t).docs[s] /\ Read(t) /\ UNCHANGED history
    BY <1>1, <1>3, <1>5, InsertMoves DEF ReadSource, Keep
  <2>2. /\ mode \in [Conns -> Modes] /\ connOf' = connOf
        /\ opener' = opener /\ disk' = disk
        /\ mode[c] = "write" => mode'[c] = "write"
    BY <1>1, <1>5, <2>1, ModeTypes DEF Read, Select
  <2>3. row'[t].ver > 0 /\ row'[t] # NoRow
    BY <1>5, <2>1 DEF Exists, NoRow
  <2>4. disk.docs[s] \in {NoRow} \cup Past(s)
    BY <1>1, CommittedWas DEF RowsWere
  <2>8. row'[t] \in {NoRow} \cup Past(s) => SourceWas(t)'
    BY <1>3, <1>6, <1>7, <2>1, <2>3 DEF SourceWas
  <2>5. CASE mode[c] \in {"none", "open", "read"}
    <3>1. Seen(t) = disk
      BY <1>5, <2>5 DEF Unshared, ViewsTrack, Seen
    <3> QED
      BY <2>1, <2>4, <2>8, <3>1
  <2>6. CASE mode[c] = "stale"
    <3>1. Seen(t).docs[s] \in {NoRow} \cup Past(s)
      BY <1>5, <2>6 DEF SnapshotsWere, Seen
    <3> QED
      BY <2>1, <2>4, <2>8, <3>1
  <2>7. CASE mode[c] = "write"
    <3>1. Seen(t).docs = Pending(w) /\ w \in Threads
      BY <1>1, <1>5, <2>7 DEF Unshared, ViewsTrack, Seen, Structure, OpenerKnown
    <3>2. CASE pc[w] \in {"prune", "commit", "insertCommit"}
      <4>1. w # t
        BY <2>1, <3>2
      <4>2. Resting(w)
        BY <1>1, <3>1, <4>1, ThreadStepTypes, MoveRests DEF OthersRest
      <4>3. Pending(w)' = Pending(w) /\ pc'[w] = pc[w]
        BY <2>2, <3>1, <4>2, PendingKept DEF Resting
      <4>4. Arriving(t)'
        <5>1. connOf'[t] = c /\ opener'[connOf'[t]].by = w /\ mode'[c] = "write"
          BY <1>5, <2>2, <2>7
        <5>2. Pending(opener[connOf[t]].by)' = Pending(w)'
          BY <5>1
        <5>3. row'[t] = Pending(opener[connOf[t]].by)'[call'[t].from] /\ row'[t].ver > 0
          BY <1>5, <2>1, <2>3, <3>1, <4>3, <5>2
        <5> QED
          BY <3>2, <4>1, <4>3, <5>1, <5>3 DEF Arriving
      <4> QED
        BY <1>3, <4>4 DEF SourceWas
    <3>3. CASE pc[w] = "deleteCommit"
      <4>1. Seen(t).docs[s] \in {NoRow, disk.docs[s]}
        <5>1. disk.docs \in [Docs -> Rows]
          BY <1>1, ModeTypes, TablesType
        <5>2. Pending(w) = [disk.docs EXCEPT ![call[w].doc] = NoRow]
          BY <3>3 DEF Pending
        <5> QED
          BY <3>1, <5>1, <5>2
      <4> QED
        BY <2>1, <2>4, <2>8, <4>1
    <3>4. CASE pc[w] \notin Special
      <4>1. Seen(t).docs = disk.docs
        BY <3>1, <3>4, PendingPlain
      <4> QED
        BY <2>1, <2>4, <2>8, <4>1
    <3> QED
      BY <3>2, <3>3, <3>4 DEF Special
  <2> QED
    BY <2>2, <2>5, <2>6, <2>7 DEF Modes
<1>4. CASE InsertDoc(t) /\ pc'[t] = "insertCommit"
  <2>1. /\ pc[t] = "insert" /\ call'[t] = call[t] /\ row'[t] = row[t]
        /\ \E tables \in Tables : Write(t, tables)
    BY <1>1, <1>4, InsertMoves DEF InsertDoc
  <2>2. Sole(t)
    BY <1>1, <2>1, AscribeSole DEF Write
  <2>3. ~Arriving(t)
    BY <2>2 DEF Arriving, Sole
  <2> QED
    BY <1>4, <1>6, <1>7, <2>1, <2>3 DEF SourceWas
<1> QED
  <2>1. pc'[t] \in {"insert", "insertCommit"} => ReadSource(t) \/ InsertDoc(t)
    BY <1>1, UpdateMoves, MakingMoves, SideMoves, AcknowledgingMoves DEF Step
  <2> QED
    BY <1>1, <1>2, <1>3, <1>4, <2>1, InsertMoves

\* Every step of a thread leaves it at a label of its operation.
LEMMA StepFits ==
  ASSUME TypeOK, OpKnown, NEW t \in Threads, Start(t) \/ Step(t)
  PROVE  OpKnown' /\ OthersRest(t)
<1>1. OthersRest(t)
  BY StartFacts, ThreadStepTypes, MoveRests
<1>2. OpFits(pc[t], call[t].op)
  BY DEF OpKnown
<1>3. OpFits(pc'[t], call'[t].op)
  <2>1. CASE Start(t)
    <3>1. PICK r \in AllRequests : OpFits(pc'[t], r.op) /\ call'[t] = r
      BY <2>1, StartAsks
    <3> QED
      BY <3>1
  <2>2. CASE Step(t)
    BY <1>2, <2>2, UpdateMoves, MakingMoves, SideMoves, InsertMoves, AcknowledgingMoves DEF Step
  <2> QED
    BY <2>1, <2>2
<1>4. \A u \in Threads \ {t} : pc'[u] = pc[u] /\ call'[u] = call[u]
  BY <1>1 DEF OthersRest, Resting
<1> QED
  BY <1>1, <1>3, <1>4 DEF OpKnown

\* A handler that is called has read no source yet.
LEMMA StartSource ==
  ASSUME TypeOK, NEW t \in Threads, Start(t)
  PROVE  SourceWas(t)'
<1>1. PICK r \in AllRequests :
        /\ call'[t] = r /\ pc'[t] # "insertCommit" /\ (pc'[t] = "insert" => r.op # "fork")
  BY StartAsks
<1> QED
  BY <1>1 DEF SourceWas

\* Snapshots and sources after a step of a thread.
LEMMA StepSources ==
  ASSUME IInv, IInv', Unshared, Unshared', OpKnown, SnapshotsWere,
         \A u \in Threads : SourceWas(u), NEW t \in Threads, Start(t) \/ Step(t), ~mixed'
  PROVE  SnapshotsWere' /\ \A u \in Threads : SourceWas(u)'
<1>1. TypeOK /\ HistoryGrows
  BY OnlyCommitsChange DEF IInv
<1>2. SnapshotsWere'
  <2>1. Statement(t)
    BY <1>1, StartFacts, ThreadStepTypes DEF Statement
  <2> QED
    BY <1>1, <2>1, SnapshotsKept
<1>3. SourceWas(t)'
  <2>1. OpFits(pc[t], call[t].op)
    BY DEF OpKnown
  <2> QED
    BY <1>1, <2>1, StartSource, OwnSource
<1>4. ASSUME NEW u \in Threads \ {t}
      PROVE  SourceWas(u)'
  <2>1. Resting(u)
    BY <1>1, StepFits DEF OthersRest
  <2> QED
    BY <2>1, OtherSource
<1> QED
  BY <1>2, <1>3, <1>4

\* Snapshots and sources when a process stops.
LEMMA CrashSources ==
  ASSUME TypeOK, Structure, SnapshotsWere, \A u \in Threads : SourceWas(u),
         NEW c \in Conns, Crash(c)
  PROVE  SnapshotsWere' /\ \A u \in Threads : SourceWas(u)'
<1>1. /\ mode \in [Conns -> Modes] /\ DOMAIN opener = Conns /\ view \in [Conns -> Tables]
      /\ \A t \in Threads : connOf[t] \in Conns
  BY ModeTypes
<1>2. /\ mode' = [mode EXCEPT ![c] = "none"] /\ view' = [view EXCEPT ![c] = disk]
      /\ disk' = disk /\ opener' = [opener EXCEPT ![c] = NoOpener] /\ connOf' = connOf
      /\ UNCHANGED <<used, history, gone>>
  BY DEF Crash, Rollback, Keep
<1>3. \A u \in Threads : /\ connOf[u] = c => pc'[u] = "idle"
                         /\ connOf[u] # c => Resting(u)
  BY DEF Crash, Resting
<1>4. \A d : Past(d)' = Past(d)
  BY <1>2 DEF Past
<1>5. SnapshotsWere'
  BY <1>1, <1>2, <1>4 DEF SnapshotsWere
<1>6. ASSUME NEW u \in Threads, connOf[u] # c
      PROVE  SourceWas(u)'
  <2>1. pc'[u] = pc[u] /\ call'[u] = call[u] /\ row'[u] = row[u]
    BY <1>3, <1>6 DEF Resting
  <2>2. PICK s : s = call[u].from
    OBVIOUS
  <2>3. Past(call[u].from) = Past(s) /\ Past(call[u].from)' = Past(s)'
    BY <2>1, <2>2
  <2>4. Arriving(u) => Arriving(u)'
    <3> SUFFICES ASSUME Arriving(u) PROVE Arriving(u)'
      OBVIOUS
    <3>1. PICK x \in Conns, w \in {opener[connOf[u]].by} : x = connOf[u] /\ w = opener[x].by
      BY <1>1
    <3>2. /\ mode[x] = "write" /\ w # u /\ pc[w] \in {"prune", "commit", "insertCommit"}
          /\ row[u].ver > 0 /\ row[u] = Pending(w)[s]
      BY <2>2, <3>1 DEF Arriving
    <3>3. w \in Threads /\ connOf[w] = x /\ x # c
      BY <1>6, <3>1, <3>2 DEF Structure, OpenerKnown
    <3>4. Resting(w)
      BY <1>3, <3>3
    <3>5. Pending(w)' = Pending(w) /\ pc'[w] = pc[w]
      BY <1>2, <3>3, <3>4, PendingKept DEF Resting
    <3>6. connOf'[u] = x /\ mode'[x] = "write" /\ opener'[connOf'[u]].by = w
      BY <1>1, <1>2, <3>1, <3>2, <3>3
    <3>7. Pending(opener[connOf[u]].by)' = Pending(w)'
      BY <3>6
    <3>8. row'[u] = Pending(opener[connOf[u]].by)'[call'[u].from] /\ row'[u].ver > 0
      BY <2>1, <2>2, <3>2, <3>5, <3>7
    <3> QED
      BY <3>2, <3>5, <3>6, <3>8 DEF Arriving
  <2> QED
    BY <1>4, <2>1, <2>3, <2>4 DEF SourceWas
<1>7. ASSUME NEW u \in Threads, connOf[u] = c
      PROVE  SourceWas(u)'
  BY <1>3, <1>7 DEF SourceWas
<1> QED
  BY <1>5, <1>6, <1>7

\* The invariant holds at the start.
LEMMA InitService == Init => ServiceInv
  BY DEF Init, SqliteInit, ServiceInv, OpKnown, OpFits, SnapshotsWere, SourceWas

\* Every step keeps it.
LEMMA NextService == IInv /\ IInv' /\ ServiceInv /\ [Next]_vars => ServiceInv'
<1> SUFFICES ASSUME IInv, IInv', ServiceInv, [Next]_vars PROVE ServiceInv'
  OBVIOUS
<1>1. /\ TypeOK /\ Structure /\ OpKnown
      /\ ~mixed => Unshared /\ SnapshotsWere /\ \A u \in Threads : SourceWas(u)
      /\ ~mixed' => Unshared'
  BY DEF IInv, Structure, ServiceInv
<1>2. CASE UNCHANGED vars
  <2>1. UNCHANGED <<disk, mode, view, connOf, pc, call, row, opener, mixed, history, gone>>
    BY <1>2 DEF vars, sqliteVars, threadVars, ghostVars
  <2>2. OpKnown'
    BY <1>1, <2>1 DEF OpKnown
  <2>3. SnapshotsWere => SnapshotsWere'
    BY <2>1 DEF SnapshotsWere, Past
  <2>4. ASSUME NEW u \in Threads
        PROVE  SourceWas(u) => SourceWas(u)'
    BY <2>1 DEF SourceWas, Arriving, Pending, NewContent, Past
  <2> QED
    BY <1>1, <2>1, <2>2, <2>3, <2>4 DEF ServiceInv
<1>3. ASSUME NEW t \in Threads, Start(t) \/ Step(t)
      PROVE  ServiceInv'
  <2>1. OpKnown'
    BY <1>1, <1>3, StepFits
  <2>2. ~mixed' => ~mixed
    <3>1. Statement(t)
      BY <1>1, <1>3, StartFacts, ThreadStepTypes DEF Statement
    <3> QED
      BY <1>1, <3>1, ModeTypes
         DEF Statement, Read, Refused, DoCommit, DoRollback, NoStatement, Write, Ascribe
  <2>3. ~mixed' => SnapshotsWere' /\ \A u \in Threads : SourceWas(u)'
    BY <1>1, <1>3, <2>2, StepSources
  <2> QED
    BY <2>1, <2>3 DEF ServiceInv
<1>4. ASSUME NEW c \in Conns, Crash(c)
      PROVE  ServiceInv'
  <2>1. mixed' = mixed
    BY <1>4 DEF Crash
  <2>2. OpKnown'
    BY <1>1, <1>4 DEF Crash, OpKnown, OpFits
  <2>3. ~mixed' => SnapshotsWere' /\ \A u \in Threads : SourceWas(u)'
    BY <1>1, <1>4, <2>1, CrashSources
  <2> QED
    BY <2>2, <2>3 DEF ServiceInv
<1> QED
  BY <1>2, <1>3, <1>4 DEF Next

\* The invariant of the refinement: every thread is at a label of its operation, and
\* until two threads share a transaction, an overtaken snapshot and the source
\* of a fork are rows that documents really had.
THEOREM ServiceInvariance == Spec => []ServiceInv
  BY InitService, NextService, Invariance, PTL DEF Spec

-----------------------------------------------------------------------------
(* Every step is a step of Documents, or changes nothing of it.            *)

\* The absent row is the same on both sides.
LEMMA SameRows ==
  Service!Absent = NoRow /\ \A v, k : Service!Row(v, k) = [ver |-> v, content |-> k]
  BY DEF Service!Absent, Service!Row, NoRow

\* An acknowledged update is one more row the document has had.
LEMMA PastAppends ==
  ASSUME NEW d, history[d] \in Seq([content : Nat, onto : Nat]),
         NEW e \in [content : Nat, onto : Nat], history'[d] = Append(history[d], e)
  PROVE  Past(d)' = Past(d) \cup {[ver |-> Len(history[d]) + 1, content |-> e.content]}
<1> DEFINE n == Len(history[d])
           h == history'[d]
<1>1. /\ n \in Nat /\ Len(h) = n + 1 /\ h[n + 1] = e
      /\ \A v \in 1..n : h[v] = history[d][v]
  BY AppendProperties, LenProperties
<1>2. Past(d)' = {[ver |-> v, content |-> h[v].content] : v \in 1..n + 1}
  BY <1>1 DEF Past
<1>3. 1..n + 1 = (1..n) \cup {n + 1}
  BY <1>1
<1>4. Past(d)' = {[ver |-> v, content |-> h[v].content] : v \in 1..n}
                   \cup {[ver |-> n + 1, content |-> h[n + 1].content]}
  BY <1>2, <1>3
<1>5. {[ver |-> v, content |-> h[v].content] : v \in 1..n} = Past(d)
  BY <1>1 DEF Past
<1> QED
  BY <1>1, <1>4, <1>5

\* The first acknowledgement of a document is the one row it has had.
LEMMA PastBegins ==
  ASSUME NEW d, NEW k, NEW v, history'[d] = <<Acknowledged(k, v)>>
  PROVE  Past(d)' = {[ver |-> 1, content |-> k]}
<1>1. /\ Len(history'[d]) = 1 /\ history'[d][1].content = k
  BY DEF Acknowledged
<1> QED
  BY <1>1 DEF Past

\* A commit that acknowledges is the instant at which its call takes effect.
LEMMA PutRefines ==
  ASSUME TypeOK, TypeOK', NEW t \in Threads, NEW d \in Docs, d = call[t].doc, NEW r,
         OthersRest(t), used' = used, call'[t] = call[t],
         Stage(t) = "called", Stage(t)' = "done",
         disk'.docs = [disk.docs EXCEPT ![d] = r],
         Past(d)' = Past(d) \cup ({r} \ {NoRow}),
         \A e \in Docs \ {d} : Past(e)' = Past(e)
  PROVE  Service!Put(t, r)
<1>1. call' = call
  <2>1. \A u \in Threads : call'[u] = call[u]
    BY DEF OthersRest, Resting
  <2> QED
    BY <2>1 DEF TypeOK
<1>2. [u \in Threads |-> Stage(u)]' = [[u \in Threads |-> Stage(u)] EXCEPT ![t] = "done"]
  <2>1. \A u \in Threads \ {t} : Stage(u)' = Stage(u)
    BY DEF OthersRest, Resting, Stage
  <2> QED
    BY <2>1
<1>3. [e \in Docs |-> Past(e)]' =
        [[e \in Docs |-> Past(e)] EXCEPT ![d] = @ \cup ({r} \ {NoRow})]
  OBVIOUS
<1> QED
  BY <1>1, <1>2, <1>3, SameRows DEF Service!Put

\* Calls that end, answered, refused or cut off, having changed nothing more.
LEMMA EndRefines ==
  ASSUME TypeOK, TypeOK', NEW callers \in SUBSET Threads, used' = used,
         disk'.docs = disk.docs, history' = history,
         \A u \in callers : pc'[u] = "idle" /\ call'[u] = NoCall,
         \A u \in Threads \ callers :
           call'[u] = call[u] /\ StageAt(pc'[u], call[u].op) = StageAt(pc[u], call[u].op)
  PROVE  Service!End(callers)
<1>1. \A u \in Threads : Stage(u)' = IF u \in callers THEN "idle" ELSE Stage(u)
  <2>1. \A op : StageAt("idle", op) = "idle"
    BY DEF StageAt, Committed
  <2> QED
    BY <2>1 DEF Stage
<1>2. [u \in Threads |-> Stage(u)]' =
        [u \in Threads |-> IF u \in callers THEN "idle"
                           ELSE [w \in Threads |-> Stage(w)][u]]
  BY <1>1
<1>3. call' = [u \in Threads |-> IF u \in callers THEN NoCall ELSE call[u]]
  BY DEF TypeOK
<1>4. [e \in Docs |-> Past(e)]' = [e \in Docs |-> Past(e)]
  BY DEF Past
<1> QED
  BY <1>2, <1>3, <1>4 DEF Service!End

\* A statement that acknowledges nothing ends its call or changes nothing.
LEMMA CarryRefines ==
  ASSUME TypeOK, TypeOK', NEW t \in Threads, OthersRest(t), Carries(t), used' = used,
         disk'.docs = disk.docs, history' = history
  PROVE  Service!Next
<1>1. \A u \in Threads \ {t} :
        call'[u] = call[u] /\ StageAt(pc'[u], call[u].op) = StageAt(pc[u], call[u].op)
  BY DEF OthersRest, Resting
<1>2. CASE Return(t)
  <2>1. pc'[t] = "idle" /\ call'[t] = NoCall
    BY <1>2 DEF Return, TypeOK
  <2>2. Service!End({t})
    BY <1>1, <2>1, EndRefines
  <2> QED
    BY <2>2 DEF Service!Next
<1>3. CASE call'[t] = call[t] /\ StageAt(pc'[t], call[t].op) = StageAt(pc[t], call[t].op)
  <2>1. Service!End({})
    BY <1>1, <1>3, EndRefines
  <2> QED
    BY <2>1 DEF Service!Next
<1> QED
  BY <1>2, <1>3 DEF Carries

\* A handler that is called begins a call.
LEMMA StartRefines ==
  ASSUME TypeOK, TypeOK', NEW t \in Threads, Start(t), disk'.docs = disk.docs
  PROVE  Service!Next
<1>1. PICK r \in AllRequests :
        /\ Asked(t, r) /\ call'[t] = r /\ pc[t] = "idle" /\ StageAt(pc'[t], r.op) = "called"
  BY StartAsks
<1>2. OthersRest(t) /\ history' = history
  BY StartFacts
<1>3. Stage(t) = "idle" /\ Stage(t)' = "called"
  BY <1>1 DEF Stage, StageAt, Committed
<1>4. [u \in Threads |-> Stage(u)]' = [[u \in Threads |-> Stage(u)] EXCEPT ![t] = "called"]
  <2>1. \A u \in Threads \ {t} : Stage(u)' = Stage(u)
    BY <1>2 DEF OthersRest, Resting, Stage
  <2> QED
    BY <1>3, <2>1
<1>5. [e \in Docs |-> Past(e)]' = [e \in Docs |-> Past(e)]
  BY <1>2 DEF Past
<1>6. Service!Call(t)
  BY <1>1, <1>3, <1>4, <1>5 DEF Service!Call, Asked, AllRequests
<1> QED
  BY <1>6 DEF Service!Next

\* The commit of an update replaces the version its caller named.
LEMMA CommitUpdateRefines ==
  ASSUME TypeOK, TypeOK', Structure, Unshared, OpKnown, NEW t \in Threads, ~mixed',
         CommitUpdate(t)
  PROVE  Service!Next
<1>1. pc[t] = "commit" /\ pc[t] \in Holding /\ pc[t] \in Updating
  BY DEF CommitUpdate, Holding, Updating
<1>2. PICK d \in Docs : d = call[t].doc
  BY CallTypes
<1>3. PICK e \in [content : Nat, onto : Nat] : e = Acknowledged(call[t].id, call[t].ifVersion)
  BY CallTypes DEF Acknowledged
<1>4. /\ Goto(t, "reread") /\ "reread" \in Labels /\ used' = used
      /\ history' = [history EXCEPT ![d] = Append(@, e)]
  BY <1>1, <1>2, <1>3, HolderFacts DEF CommitUpdate, Labels
<1>5. pc'[t] = "reread" /\ call'[t] = call[t]
  BY <1>4, MoveFacts
<1>6. disk'.docs = Pending(t) /\ OthersRest(t)
  BY CommitDelivers
<1>7. /\ row[t] = disk.docs[d] /\ row[t].ver > 0 /\ row[t].ver = call[t].ifVersion
  BY <1>1, <1>2, UpdaterFacts
<1>8. /\ history[d] \in Seq([content : Nat, onto : Nat]) /\ disk.docs[d].ver = Len(history[d])
      /\ disk.docs[d].ver \in Nat
  BY <1>7, RowSays
<1>9. PICK r : r = [ver |-> disk.docs[d].ver + 1, content |-> call[t].id]
  OBVIOUS
<1>10. disk'.docs = [disk.docs EXCEPT ![d] = r]
  BY <1>1, <1>2, <1>6, <1>7, <1>9 DEF Pending
<1>11. /\ Past(d)' = Past(d) \cup ({r} \ {NoRow})
       /\ \A x \in Docs \ {d} : Past(x)' = Past(x)
  <2>1. history'[d] = Append(history[d], e) /\ \A x \in Docs \ {d} : history'[x] = history[x]
    BY <1>4 DEF TypeOK
  <2>2. Past(d)' = Past(d) \cup {[ver |-> Len(history[d]) + 1, content |-> e.content]}
    BY <1>8, <2>1, PastAppends
  <2>3. e.content = call[t].id /\ r # NoRow
    BY <1>3, <1>8, <1>9 DEF Acknowledged, NoRow
  <2> QED
    BY <1>8, <1>9, <2>1, <2>2, <2>3 DEF Past
<1>12. call[t].op = "update" /\ Stage(t) = "called" /\ Stage(t)' = "done"
  <2>1. call[t].op = "update"
    BY <1>1 DEF OpKnown, OpFits
  <2> QED
    BY <1>1, <1>5, <2>1 DEF Stage, StageAt, Committed
<1>13. Service!Put(t, r)
  BY <1>2, <1>4, <1>5, <1>6, <1>10, <1>11, <1>12, PutRefines
<1>14. Service!Update(t)
  BY <1>2, <1>7, <1>8, <1>9, <1>12, <1>13, SameRows DEF Service!Update
<1> QED
  BY <1>14 DEF Service!Next

\* The commit of a publish or a fork makes a document that was not there, a
\* fork with the content of a row its source has had.
LEMMA CommitInsertRefines ==
  ASSUME TypeOK, TypeOK', Structure, Unshared, OpKnown, NEW t \in Threads, SourceWas(t),
         ~mixed', CommitInsert(t)
  PROVE  Service!Next
<1>1. pc[t] = "insertCommit" /\ pc[t] \in Creating /\ used' = used
  BY DEF CommitInsert, Creating
<1>2. PICK d \in Docs : d = call[t].doc
  BY CallTypes
<1>3. /\ history[d] = <<>> /\ disk.docs[d] = NoRow
  BY <1>1, <1>2 DEF Unshared, NewDocsUnknown, Expected
<1>4. /\ history' = [history EXCEPT ![d] = <<Acknowledged(NewContent(t), 0)>>]
      /\ Goto(t, IF call[t].op = "fork" THEN "seed" ELSE "audit")
      /\ {"seed", "audit"} \subseteq Labels
  BY <1>2 DEF CommitInsert, NewContent, Labels
<1>5. pc'[t] \in {"seed", "audit"} /\ call'[t] = call[t]
  BY <1>4, MoveFacts
<1>6. disk'.docs = Pending(t) /\ OthersRest(t)
  BY CommitDelivers
<1>7. PICK r : r = [ver |-> 1, content |-> NewContent(t)]
  OBVIOUS
<1>8. disk'.docs = [disk.docs EXCEPT ![d] = r]
  BY <1>1, <1>2, <1>6, <1>7 DEF Pending
<1>9. /\ Past(d)' = Past(d) \cup ({r} \ {NoRow})
      /\ \A x \in Docs \ {d} : Past(x)' = Past(x)
  <2>1. /\ history'[d] = <<Acknowledged(NewContent(t), 0)>>
        /\ \A x \in Docs \ {d} : history'[x] = history[x]
    BY <1>4 DEF TypeOK
  <2>2. Past(d)' = {r}
    BY <1>7, <2>1, PastBegins
  <2>3. Past(d) = {} /\ r # NoRow
    BY <1>3, <1>7 DEF Past, NoRow
  <2> QED
    BY <2>1, <2>2, <2>3 DEF Past
<1>10. call[t].op \in {"publish", "fork"} /\ Stage(t) = "called" /\ Stage(t)' = "done"
  <2>1. call[t].op \in {"publish", "fork"}
    BY <1>1 DEF OpKnown, OpFits
  <2> QED
    BY <1>1, <1>5, <2>1 DEF Stage, StageAt, Committed
<1>11. Service!Put(t, r)
  BY <1>1, <1>2, <1>5, <1>6, <1>8, <1>9, <1>10, PutRefines
<1>12. CASE call[t].op = "publish"
  <2>1. r = Service!Row(1, call[t].id)
    BY <1>7, <1>12, SameRows DEF NewContent
  <2>2. Service!Publish(t)
    BY <1>2, <1>3, <1>11, <1>12, <2>1, SameRows DEF Service!Publish
  <2> QED
    BY <2>2 DEF Service!Next
<1>13. CASE call[t].op = "fork"
  <2>1. PICK s \in Docs : s = call[t].from
    BY CallTypes
  <2>2. row[t] \in Past(s)
    BY <1>1, <1>13, <2>1 DEF SourceWas
  <2>3. r = Service!Row(1, row[t].content)
    BY <1>7, <1>13, SameRows DEF NewContent
  <2>4. row[t] \in [e \in Docs |-> Past(e)][call[t].from]
    BY <2>1, <2>2
  <2>5. Service!Fork(t)
    BY <1>2, <1>3, <1>11, <1>13, <2>3, <2>4, SameRows DEF Service!Fork
  <2> QED
    BY <2>5 DEF Service!Next
<1> QED
  BY <1>10, <1>12, <1>13

\* The commit of a deletion removes the document, or finds none to remove.
LEMMA CommitDeleteRefines ==
  ASSUME TypeOK, TypeOK', Structure, Unshared, OpKnown, NEW t \in Threads, ~mixed',
         CommitDelete(t)
  PROVE  Service!Next
<1>1. pc[t] = "deleteCommit" /\ used' = used /\ history' = history
  BY DEF CommitDelete
<1>2. PICK d \in Docs : d = call[t].doc
  BY CallTypes
<1>3. row[t] = disk.docs[d] /\ row[t].ver \in Nat /\ disk.docs \in [Docs -> Rows]
  BY <1>1, <1>2, CallTypes, RowSays, PerThreadParts DEF Unshared, KnowsRow
<1>4. disk'.docs = [disk.docs EXCEPT ![d] = NoRow] /\ OthersRest(t)
  BY <1>1, <1>2, CommitDelivers DEF Pending
<1>5. CASE row[t].ver > 0
  <2>1. Goto(t, "audit") /\ "audit" \in Labels
    BY <1>5 DEF CommitDelete, Labels
  <2>2. pc'[t] = "audit" /\ call'[t] = call[t]
    BY <2>1, MoveFacts
  <2>3. \A x : Past(x)' = Past(x)
    BY <1>1 DEF Past
  <2>4. call[t].op = "delete" /\ Stage(t) = "called" /\ Stage(t)' = "done"
    <3>1. call[t].op = "delete"
      BY <1>1 DEF OpKnown, OpFits
    <3> QED
      BY <1>1, <2>2, <3>1 DEF Stage, StageAt, Committed
  <2>5. Service!Put(t, NoRow)
    BY <1>1, <1>2, <1>4, <2>2, <2>3, <2>4, PutRefines
  <2>6. disk.docs[d] # NoRow
    BY <1>3, <1>5 DEF NoRow
  <2>7. Service!Delete(t)
    BY <1>2, <2>4, <2>5, <2>6, SameRows DEF Service!Delete
  <2> QED
    BY <2>7 DEF Service!Next
<1>6. CASE ~(row[t].ver > 0)
  <2>1. Carries(t)
    BY <1>6 DEF CommitDelete, Carries
  <2>2. disk.docs[d] = NoRow
    BY <1>3, <1>6, RowSays
  <2>3. disk'.docs = disk.docs
    BY <1>3, <1>4, <2>2
  <2> QED
    BY <1>1, <1>4, <2>1, <2>3, CarryRefines
<1> QED
  BY <1>5, <1>6

\* A step of a thread.
LEMMA ThreadRefines ==
  ASSUME IInv, IInv', Unshared, Unshared', OpKnown, \A u \in Threads : SourceWas(u),
         NEW t \in Threads, Start(t) \/ Step(t), ~mixed'
  PROVE  Service!Next
<1>1. TypeOK /\ TypeOK' /\ Structure /\ OthersRest(t)
  BY StepFits DEF IInv, Structure
<1>2. CASE CommitUpdate(t) \/ CommitInsert(t) \/ CommitDelete(t)
  BY <1>1, <1>2, CommitUpdateRefines, CommitInsertRefines, CommitDeleteRefines
<1>3. CASE Start(t)
  <2>1. disk'.docs = disk.docs
    BY <1>1, <1>3, StartFacts, DocumentsStay
  <2> QED
    BY <1>1, <1>3, <2>1, StartRefines
<1>4. CASE Step(t) /\ ~(CommitUpdate(t) \/ CommitInsert(t) \/ CommitDelete(t))
  <2>1. used' = used /\ UNCHANGED <<history, gone>> /\ disk'.docs = disk.docs
    BY <1>1, <1>4, StepGrows, OnlyCommitsChange
  <2>2. OpFits(pc[t], call[t].op)
    BY DEF OpKnown
  <2>3. Carries(t)
    BY <1>1, <1>4, <2>2, UpdateMoves, MakingMoves, SideMoves, InsertMoves DEF Step
  <2> QED
    BY <1>1, <2>1, <2>3, CarryRefines
<1> QED
  BY <1>2, <1>3, <1>4

\* A process that stops ends the calls of its threads.
LEMMA CrashRefines ==
  ASSUME TypeOK, TypeOK', NEW c \in Conns, Crash(c)
  PROVE  Service!Next
<1>1. PICK callers \in SUBSET Threads : callers = {t \in Threads : connOf[t] = c}
  OBVIOUS
<1>2. /\ used' = used /\ disk'.docs = disk.docs /\ history' = history
      /\ \A u \in callers : pc'[u] = "idle" /\ call'[u] = NoCall
      /\ \A u \in Threads \ callers : pc'[u] = pc[u] /\ call'[u] = call[u]
  BY <1>1 DEF Crash, Rollback, Keep
<1>3. Service!End(callers)
  BY <1>2, EndRefines
<1> QED
  BY <1>3 DEF Service!Next

\* The first states of DocStore are first states of Documents.
LEMMA InitRefines == Init => Service!Init
<1> SUFFICES ASSUME Init PROVE Service!Init
  OBVIOUS
<1>1. disk.docs = [d \in Docs |-> IF d \in Published THEN Service!Row(1, 0) ELSE Service!Absent]
  BY SameRows DEF Init, SqliteInit, EmptyTables
<1>2. [d \in Docs |-> Past(d)] =
        [d \in Docs |-> IF d \in Published THEN {Service!Row(1, 0)} ELSE {}]
  <2> SUFFICES ASSUME NEW d \in Docs
               PROVE  Past(d) = IF d \in Published THEN {Service!Row(1, 0)} ELSE {}
    OBVIOUS
  <2>1. CASE d \in Published
    <3>1. Len(history[d]) = 1 /\ history[d][1].content = 0
      BY <2>1 DEF Init, Acknowledged
    <3> QED
      BY <2>1, <3>1, SameRows DEF Past
  <2>2. CASE d \notin Published
    <3>1. Len(history[d]) = 0
      BY <2>2 DEF Init
    <3> QED
      BY <2>2, <3>1 DEF Past
  <2> QED
    BY <2>1, <2>2
<1>3. [t \in Threads |-> Stage(t)] = [t \in Threads |-> "idle"]
  BY DEF Init, Stage, StageAt, Committed
<1>4. used = Published /\ call = [t \in Threads |-> NoCall]
  BY DEF Init
<1> QED
  BY <1>1, <1>2, <1>3, <1>4 DEF Service!Init

\* Every step is one of Documents', or changes nothing of it.
LEMMA NextRefines ==
  IInv /\ IInv' /\ ServiceInv /\ [Next]_vars => [Whole' => Service!Next]_(Service!vars)
<1> SUFFICES ASSUME IInv, IInv', ServiceInv, [Next]_vars, Whole', ~UNCHANGED vars
             PROVE  Service!Next
  <2>1. UNCHANGED vars => UNCHANGED Service!vars
    BY DEF vars, sqliteVars, threadVars, ghostVars, Service!vars, Past, Stage
  <2> QED
    BY <2>1
<1>1. /\ TypeOK /\ TypeOK' /\ Structure /\ OpKnown /\ ~mixed'
      /\ ~mixed => Unshared /\ \A u \in Threads : SourceWas(u)
      /\ Unshared'
  BY DEF IInv, Structure, ServiceInv, Whole
<1>2. ASSUME NEW t \in Threads, Start(t) \/ Step(t)
      PROVE  Service!Next
  <2>1. Statement(t)
    BY <1>1, <1>2, StartFacts, ThreadStepTypes DEF Statement
  <2>2. ~mixed
    BY <1>1, <2>1, ModeTypes
       DEF Statement, Read, Refused, DoCommit, DoRollback, NoStatement, Write, Ascribe
  <2> QED
    BY <1>1, <1>2, <2>2, ThreadRefines
<1>3. ASSUME NEW c \in Conns, Crash(c)
      PROVE  Service!Next
  BY <1>1, <1>3, CrashRefines
<1> QED
  BY <1>2, <1>3 DEF Next

\* docs.update, publish, delete and fork_document are one step each to everybody
\* else, however their statements interleave with those of other connections
\* and wherever a process stops, as long as no two threads' statements have met
\* in one transaction.
THEOREM DocStoreIsService == Spec => IsService
  BY InitRefines, NextRefines, Invariance, ServiceInvariance, PTL DEF Spec, IsService

\* With a connection of its own for every thread -- what docs/FOLLOW-UPS.md:159 proposes
\* -- the statements of docs.py and save.py implement Documents, whatever happens.
THEOREM SeparateConnections ==
  ASSUME \A f \in Deployments : \A t, u \in Threads : f[t] = f[u] => t = u
  PROVE  Spec => Service!Spec
<1>1. TypeOK => Whole
  BY DEF TypeOK, Whole, PerThread
<1>2. IInv => TypeOK
  BY DEF IInv
<1>3. TypeOK' /\ [Whole' => Service!Next]_(Service!vars) => [Service!Next]_(Service!vars)
  <2>1. TypeOK' => Whole'
    BY DEF TypeOK, Whole, PerThread
  <2> QED
    BY <2>1
<1> QED
  BY <1>2, <1>3, Invariance, DocStoreIsService, PTL DEF IsService, Service!Spec

=============================================================================
