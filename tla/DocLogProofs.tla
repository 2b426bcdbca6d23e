---------------------------- MODULE DocLogProofs ----------------------------
(***************************************************************************)
(* Proofs about the revision log of DocStore: insert_revision,             *)
(* prune_revisions and the fork's seed, for any threads, connections,      *)
(* deployments, documents and bounds.  They stand on the invariant of      *)
(* DocStoreProofs.                                                         *)
(***************************************************************************)
EXTENDS DocStoreProofs

-----------------------------------------------------------------------------
(* Logs as sequences: what an append and a prune make of a run of versions. *)

\* The least of two numbers.
LEMMA LeastFacts ==
  ASSUME NEW m \in Nat, NEW n \in Nat
  PROVE  /\ Least(m, n) \in Nat /\ Least(m, n) <= m /\ Least(m, n) <= n
         /\ Least(m, n) = m \/ Least(m, n) = n
  BY DEF Least

\* The bound on a log, and the bound less one for a log with a seed.
LEMMA BoundFacts ==
  MaxRevisions \in Nat \ {0} /\ MaxRevisions - 1 \in Nat
  BY BoundAssumption

\* LastN: how much it keeps, and where the kept entries were.
LEMMA LastNFacts ==
  ASSUME NEW S, NEW s \in Seq(S), NEW n \in Nat
  PROVE  /\ LastN(s, n) \in Seq(S) /\ Len(s) \in Nat
         /\ Len(LastN(s, n)) = Least(Len(s), n)
         /\ \A i \in 1..Least(Len(s), n) :
              LastN(s, n)[i] = s[Len(s) - Least(Len(s), n) + i]
<1>1. Len(s) \in Nat /\ LastN(s, n) \in Seq(S)
  BY LenProperties, LastNType
<1>2. CASE Len(s) <= n
  BY <1>1, <1>2 DEF LastN, Least
<1>3. CASE ~(Len(s) <= n)
  <2>1. Len(s) - n + 1 \in 1..Len(s) + 1
    BY <1>1, <1>3
  <2>2. \A i \in Len(s) - n + 1..Len(s) : s[i] \in S
    BY <1>1, <2>1, ElementOfSeq
  <2> DEFINE tail == SubSeq(s, Len(s) - n + 1, Len(s))
  <2>3. LastN(s, n) = tail /\ Least(Len(s), n) = n
    BY <1>1, <1>3 DEF LastN, Least
  <2>4. Len(tail) = n /\ \A i \in 1..n : tail[i] = s[Len(s) - n + i]
    BY <1>1, <1>3, <2>1, <2>2, SubSeqProperties
  <2> QED
    BY <1>1, <2>3, <2>4
<1> QED
  BY <1>1, <1>2, <1>3

\* The snapshot of the next version prolongs a run.
LEMMA RunAppends ==
  ASSUME NEW log \in Seq(Rows), NEW r \in Rows, NEW n \in Nat, NEW k \in Nat,
         Run(log, n, k), r.ver = n + 1
  PROVE  Run(Append(log, r), n + 1, k + 1)
<1>1. Len(log) = k /\ \A j \in 1..k : log[j].ver = n - k + j
  BY DEF Run
<1>2. /\ Len(Append(log, r)) = k + 1
      /\ \A j \in 1..k : Append(log, r)[j] = log[j]
      /\ Append(log, r)[k + 1] = r
  BY <1>1, AppendProperties
<1>3. ASSUME NEW j \in 1..k + 1
      PROVE  Append(log, r)[j].ver = (n + 1) - (k + 1) + j
  <2>1. CASE j = k + 1
    BY <1>2, <2>1
  <2>2. CASE j \in 1..k
    BY <1>1, <1>2, <2>2
  <2>3. j = k + 1 \/ j \in 1..k
    BY <1>3
  <2> QED
    BY <2>1, <2>2, <2>3
<1> QED
  BY <1>2, <1>3 DEF Run

\* So it does when the log holds a seed.
LEMMA SeededAppends ==
  ASSUME NEW log \in Seq(Rows), NEW r \in Rows, NEW n \in Nat, NEW k \in Nat,
         NEW i \in 1..k + 1, Seeded(log, n, k, i), r.ver = n + 1
  PROVE  Seeded(Append(log, r), n + 1, k + 1, i)
<1>1. /\ Len(log) = k + 1 /\ log[i].ver = 1
      /\ \A j \in 1..i - 1 : log[j].ver = n - k + j
      /\ \A j \in i + 1..k + 1 : log[j].ver = n - k + j - 1
  BY DEF Seeded
<1>2. /\ Len(Append(log, r)) = k + 2
      /\ \A j \in 1..k + 1 : Append(log, r)[j] = log[j]
      /\ Append(log, r)[k + 2] = r
  BY <1>1, AppendProperties
<1>3. ASSUME NEW j \in 1..i - 1
      PROVE  Append(log, r)[j].ver = (n + 1) - (k + 1) + j
  BY <1>1, <1>2
<1>4. ASSUME NEW j \in i + 1..(k + 1) + 1
      PROVE  Append(log, r)[j].ver = (n + 1) - (k + 1) + j - 1
  <2>1. CASE j = k + 2
    BY <1>2, <2>1
  <2>2. CASE j \in i + 1..k + 1
    BY <1>1, <1>2, <2>2
  <2>3. j = k + 2 \/ j \in i + 1..k + 1
    BY <1>4
  <2> QED
    BY <2>1, <2>2, <2>3
<1> QED
  BY <1>1, <1>2, <1>3, <1>4 DEF Seeded

\* A seed lands at the end of a run.
LEMMA SeedAppends ==
  ASSUME NEW log \in Seq(Rows), NEW r \in Rows, NEW n \in Nat, NEW k \in Nat,
         Run(log, n, k), r.ver = 1
  PROVE  Seeded(Append(log, r), n, k, k + 1)
<1>1. Len(log) = k /\ \A j \in 1..k : log[j].ver = n - k + j
  BY DEF Run
<1>2. /\ Len(Append(log, r)) = k + 1
      /\ \A j \in 1..k : Append(log, r)[j] = log[j]
      /\ Append(log, r)[k + 1] = r
  BY <1>1, AppendProperties
<1> QED
  BY <1>1, <1>2 DEF Seeded

\* What a prune leaves of a log: how many entries, and how many it drops.
LEMMA PrunedEntries ==
  ASSUME NEW log \in Seq(Rows), NEW len \in Nat, Len(log) = len
  PROVE  \E kept \in Nat, drop \in Nat :
           /\ kept = Least(len, MaxRevisions) /\ len = drop + kept
           /\ Len(LastN(log, MaxRevisions)) = kept
           /\ \A j \in 1..kept : LastN(log, MaxRevisions)[j] = log[drop + j]
<1>1. PICK kept \in Nat : kept = Least(len, MaxRevisions) /\ kept <= len
  BY BoundFacts, LeastFacts
<1>2. PICK drop \in Nat : drop = len - kept
  BY <1>1
<1>3. /\ Len(LastN(log, MaxRevisions)) = kept
      /\ \A j \in 1..kept : LastN(log, MaxRevisions)[j] = log[len - kept + j]
  BY <1>1, BoundFacts, LastNFacts, ZenonT(40)
<1>4. len = drop + kept /\ \A j \in 1..kept : LastN(log, MaxRevisions)[j] = log[drop + j]
  BY <1>2, <1>3
<1> QED
  BY <1>1, <1>3, <1>4

\* What a prune leaves of a run.
LEMMA RunPrunes ==
  ASSUME NEW log \in Seq(Rows), NEW n \in Nat, NEW k \in Nat, Run(log, n, k),
         Least(n, MaxRevisions) <= k, k <= n
  PROVE  Run(LastN(log, MaxRevisions), n, Least(n, MaxRevisions))
<1> DEFINE pruned == LastN(log, MaxRevisions)
<1>1. Len(log) = k /\ \A j \in 1..k : log[j].ver = n - k + j
  BY DEF Run
<1>2. PICK kept \in Nat, drop \in Nat :
        /\ kept = Least(k, MaxRevisions) /\ k = drop + kept /\ Len(pruned) = kept
        /\ \A j \in 1..kept : pruned[j] = log[drop + j]
  BY <1>1, PrunedEntries
<1>3. Least(n, MaxRevisions) = kept
  BY <1>2, BoundFacts DEF Least
<1>4. ASSUME NEW j \in 1..kept
      PROVE  pruned[j].ver = n - kept + j
  <2>1. drop + j \in 1..k /\ pruned[j] = log[drop + j]
    BY <1>2, <1>4
  <2>2. log[drop + j].ver = n - k + (drop + j)
    BY <1>1, <2>1
  <2>3. n - k + (drop + j) = n - kept + j
    BY <1>2, <1>4
  <2> QED
    BY <2>1, <2>2, <2>3
<1> QED
  BY <1>2, <1>3, <1>4 DEF Run

\* What a prune leaves of a run with a seed: the seed goes when it is among
\* the oldest entries, and stays in a log of full length otherwise.
LEMMA SeededPrunes ==
  ASSUME NEW log \in Seq(Rows), NEW n \in Nat, NEW k \in Nat, NEW i \in 1..k + 1,
         Seeded(log, n, k, i), Least(n, MaxRevisions - 1) <= k, k <= n
  PROVE  \/ Run(LastN(log, MaxRevisions), n, Least(n, MaxRevisions))
         \/ \E h \in 1..Len(LastN(log, MaxRevisions)) :
              Seeded(LastN(log, MaxRevisions), n, Least(n, MaxRevisions - 1), h)
<1> DEFINE pruned == LastN(log, MaxRevisions)
<1>1. /\ Len(log) = k + 1 /\ log[i].ver = 1
      /\ \A j \in 1..i - 1 : log[j].ver = n - k + j
      /\ \A j \in i + 1..k + 1 : log[j].ver = n - k + j - 1
  BY DEF Seeded
<1>2. k + 1 \in Nat
  OBVIOUS
<1>3. PICK kept \in Nat, drop \in Nat :
        /\ kept = Least(k + 1, MaxRevisions) /\ k + 1 = drop + kept /\ Len(pruned) = kept
        /\ \A j \in 1..kept : pruned[j] = log[drop + j]
  BY <1>1, <1>2, PrunedEntries, ZenonT(40)
<1>4. kept # 0
  BY <1>3, BoundFacts DEF Least
<1>5. CASE i > drop
  <2>1. PICK h \in 1..kept : i = drop + h
    <3>1. i - drop \in 1..kept /\ i = drop + (i - drop)
      BY <1>3, <1>5
    <3> QED
      BY <3>1
  <2>2. PICK m \in Nat : kept = m + 1
    <3>1. kept - 1 \in Nat /\ kept = (kept - 1) + 1
      BY <1>4
    <3> QED
      BY <3>1
  <2>3. Least(n, MaxRevisions - 1) = m
    BY <1>3, <2>2, BoundFacts DEF Least
  <2>4. pruned[h].ver = 1
    BY <1>1, <1>3, <2>1
  <2>5. ASSUME NEW j \in 1..h - 1
        PROVE  pruned[j].ver = n - m + j
    <3>1. drop + j \in 1..i - 1 /\ j \in 1..kept
      BY <1>3, <2>1, <2>5
    <3>2. log[drop + j].ver = n - k + (drop + j) /\ pruned[j] = log[drop + j]
      BY <1>1, <1>3, <3>1
    <3>3. n - k + (drop + j) = n - m + j
      BY <1>3, <2>2, <3>1
    <3> QED
      BY <3>2, <3>3
  <2>6. ASSUME NEW j \in h + 1..m + 1
        PROVE  pruned[j].ver = n - m + j - 1
    <3>1. drop + j \in i + 1..k + 1 /\ j \in 1..kept
      BY <1>3, <2>1, <2>2, <2>6
    <3>2. log[drop + j].ver = n - k + (drop + j) - 1 /\ pruned[j] = log[drop + j]
      BY <1>1, <1>3, <3>1
    <3>3. n - k + (drop + j) - 1 = n - m + j - 1
      BY <1>3, <2>2, <3>1
    <3> QED
      BY <3>2, <3>3
  <2>7. Seeded(pruned, n, m, h)
    BY <1>3, <2>2, <2>4, <2>5, <2>6 DEF Seeded
  <2> QED
    BY <1>3, <2>1, <2>3, <2>7
<1>6. CASE ~(i > drop)
  <2>1. kept = MaxRevisions /\ Least(n, MaxRevisions) = kept
    BY <1>3, <1>6, BoundFacts DEF Least
  <2>2. ASSUME NEW j \in 1..kept
        PROVE  pruned[j].ver = n - kept + j
    <3>1. drop + j \in i + 1..k + 1
      BY <1>3, <1>6, <2>2
    <3>2. log[drop + j].ver = n - k + (drop + j) - 1 /\ pruned[j] = log[drop + j]
      BY <1>1, <1>3, <2>2, <3>1
    <3>3. k + 1 = drop + kept /\ j \in Nat /\ kept \in Nat /\ drop \in Nat
      BY <1>3, <2>2
    <3>4. n - k + (drop + j) - 1 = n - kept + j
      BY <3>3
    <3> QED
      BY <3>2, <3>4
  <2> QED
    BY <1>3, <2>1, <2>2 DEF Run
<1> QED
  BY <1>5, <1>6

\* InsertRevision: the snapshot of version n makes a log at rest a grown one.
LEMMA RestGrows ==
  ASSUME NEW log \in Seq(Rows), NEW r \in Rows, NEW n \in Nat, NEW seed \in BOOLEAN,
         Rests(log, n, seed), r.ver = n + 1
  PROVE  Grown(Append(log, r), n + 1, seed)
<1>1. Append(log, r) \in Seq(Rows) /\ Len(Append(log, r)) = Len(log) + 1 /\ Len(log) \in Nat
  BY AppendProperties, LenProperties
<1>2. CASE Run(log, n, Least(n, MaxRevisions))
  <2> DEFINE k == Least(n, MaxRevisions)
  <2>1. k \in Nat /\ Len(log) = k
    BY <1>2, BoundFacts, LeastFacts DEF Run
  <2>2. Run(Append(log, r), n + 1, k + 1)
    BY <1>2, <2>1, RunAppends
  <2>3. Least(n + 1, MaxRevisions) <= k + 1 /\ k + 1 <= n + 1
    BY BoundFacts DEF Least
  <2> QED
    BY <1>1, <2>1, <2>2, <2>3 DEF Grown
<1>3. ASSUME seed, NEW m \in {MaxRevisions - 1, MaxRevisions}, NEW i \in 1..Len(log),
             Seeded(log, n, Least(n, m), i)
      PROVE  Grown(Append(log, r), n + 1, seed)
  <2> DEFINE k == Least(n, m)
  <2>1. k \in Nat /\ Len(log) = k + 1
    BY <1>3, BoundFacts, LeastFacts DEF Seeded
  <2>2. Seeded(Append(log, r), n + 1, k + 1, i)
    BY <1>3, <2>1, SeededAppends
  <2>3. Least(n + 1, MaxRevisions - 1) <= k + 1 /\ k + 1 <= n + 1
    BY BoundFacts DEF Least
  <2>4. Len(Append(log, r)) - 1 = k + 1 /\ i \in 1..Len(Append(log, r))
    BY <1>1, <2>1
  <2> QED
    BY <1>3, <2>2, <2>3, <2>4 DEF Grown
<1> QED
  BY <1>2, <1>3 DEF Rests

\* PruneRevisions: a grown log is at rest again.
LEMMA GrownPrunes ==
  ASSUME NEW log \in Seq(Rows), NEW n \in Nat, NEW seed \in BOOLEAN, Grown(log, n, seed)
  PROVE  Rests(LastN(log, MaxRevisions), n, seed)
<1>1. Len(log) \in Nat
  BY LenProperties
<1>2. CASE /\ Least(n, MaxRevisions) <= Len(log) /\ Len(log) <= n
           /\ Run(log, n, Len(log))
  BY <1>1, <1>2, RunPrunes DEF Rests
<1>3. ASSUME seed, Least(n, MaxRevisions - 1) <= Len(log) - 1, Len(log) - 1 <= n,
             NEW i \in 1..Len(log), Seeded(log, n, Len(log) - 1, i)
      PROVE  Rests(LastN(log, MaxRevisions), n, seed)
  <2>1. Len(log) - 1 \in Nat /\ i \in 1..(Len(log) - 1) + 1
    BY <1>1, <1>3
  <2> QED
    BY <1>3, <2>1, SeededPrunes DEF Rests
<1> QED
  BY <1>2, <1>3 DEF Grown

\* SeedRevision: a log without a seed is at rest with one.
LEMMA RestSeeds ==
  ASSUME NEW log \in Seq(Rows), NEW r \in Rows, NEW n \in Nat, Rests(log, n, FALSE),
         r.ver = 1
  PROVE  Rests(Append(log, r), n, TRUE)
<1>1. Len(Append(log, r)) = Len(log) + 1
  BY AppendProperties
<1>2. Run(log, n, Least(n, MaxRevisions)) /\ Least(n, MaxRevisions) \in Nat
  BY BoundFacts, LeastFacts DEF Rests
<1>3. Seeded(Append(log, r), n, Least(n, MaxRevisions), Least(n, MaxRevisions) + 1)
  BY <1>2, SeedAppends
<1>4. Least(n, MaxRevisions) + 1 \in 1..Len(Append(log, r))
  BY <1>1, <1>2 DEF Run
<1> QED
  BY <1>3, <1>4 DEF Rests

\* A log that never had a version superseded.
LEMMA EmptyRests ==
  ASSUME NEW seed \in BOOLEAN
  PROVE  Rests(<<>>, 0, seed)
  BY BoundFacts DEF Rests, Run, Least

-----------------------------------------------------------------------------
(* What a step of a thread does to the logs, statement by statement.       *)

\* The parts of LogInv.
LogBody ==
    /\ \A d \in Docs : LogKept(d, d \notin Published)
    /\ \A d \in Docs : \A log \in Logs(d) : Faithful(log, d)
    /\ \A t \in Threads : pc[t] = "seed" => SeedAwaited(t)
    /\ \A t, u \in Threads :
         pc[t] = "seed" /\ pc[u] = "seed" /\ t # u => call[t].doc # call[u].doc
    /\ \A d \in Published : history[d] # <<>>

\* Statements that write nothing.
Writeless(t) ==
    \/ Read(t) \/ Refused(t) \/ DoCommit(t) \/ DoRollback(t) \/ NoStatement
    \/ BeginImmediate(connOf[t]) /\ Ascribe(t)
    \/ BeginRefused(connOf[t]) /\ UNCHANGED <<connOf, opener, mixed>>

\* A log in a transaction is judged as before while its thread rests or is not in between.
LEMMA LogInStepSame ==
  ASSUME NEW u \in Threads, NEW T, NEW d, NEW seed,
         Resting(u) \/ (pc[u] \notin Growing /\ pc'[u] \notin Growing)
  PROVE  LogInStep(u, T, d, seed)' <=> LogInStep(u, T, d, seed)
  BY DEF LogInStep, Resting

\* Outside an update's growth a log in a transaction is at rest.
LEMMA LogInStepRests ==
  ASSUME NEW u \in Threads, NEW T, NEW d, NEW seed, pc[u] \notin Growing
  PROVE  LogInStep(u, T, d, seed) <=> LogRests(T, d, seed)
  BY DEF LogInStep

\* A step that leaves the views alone and gives nobody the lock.
LEMMA StillLog ==
  ASSUME TypeOK, Structure, NEW t \in Threads, OthersRest(t),
         pc[t] \notin Growing, pc'[t] \notin Growing,
         disk' = disk, view' = view,
         \A x \in Conns : mode'[x] = "write" => mode[x] = "write" /\ opener'[x] = opener[x],
         NEW d \in Docs, NEW seed \in BOOLEAN, LogKept(d, seed)
  PROVE  LogKept(d, seed)'
<1>1. ASSUME NEW x \in Conns, mode'[x] = "write"
      PROVE  LogInStep(opener[x].by, view[x], d, seed)'
  <2>1. mode[x] = "write" /\ opener'[x] = opener[x] /\ opener[x].by \in Threads
    BY <1>1 DEF Structure, OpenerKnown
  <2>2. PICK u \in Threads : u = opener[x].by
    BY <2>1
  <2>3. PICK T : T = view[x]
    OBVIOUS
  <2>4. LogInStep(u, T, d, seed)
    BY <2>1, <2>2, <2>3 DEF LogKept
  <2>5. LogInStep(u, T, d, seed)'
    BY <2>4, LogInStepSame DEF OthersRest
  <2>6. view'[x] = T /\ opener'[x].by = u
    BY <2>1, <2>2, <2>3
  <2> QED
    BY <2>5, <2>6 DEF LogInStep
<1>2. LogRests(disk, d, seed)'
  BY DEF LogKept, LogRests
<1> QED
  BY <1>1, <1>2 DEF LogKept


\* A connection whose thread is not the one that steps, and whose state stays.
LEMMA ElsewhereLog ==
  ASSUME TypeOK, Structure, NEW t \in Threads, OthersRest(t),
         NEW x \in Conns, x # connOf[t], mode[x] = "write",
         view'[x] = view[x], opener'[x] = opener[x],
         NEW d \in Docs, NEW seed \in BOOLEAN, LogKept(d, seed)
  PROVE  LogInStep(opener[x].by, view[x], d, seed)'
<1>1. PICK u \in Threads : u = opener[x].by /\ connOf[u] = x
  BY DEF Structure, OpenerKnown
<1>2. PICK T : T = view[x]
  OBVIOUS
<1>3. Resting(u)
  BY <1>1 DEF OthersRest
<1>4. LogInStep(u, T, d, seed)'
  BY <1>1, <1>2, <1>3, LogInStepSame DEF LogKept
<1>5. view'[x] = T /\ opener'[x].by = u
  BY <1>1, <1>2
<1> QED
  BY <1>4, <1>5 DEF LogInStep

\* BEGIN IMMEDIATE, ROLLBACK and a commit of nothing: the thread sees what is committed.
LEMMA BackLog ==
  ASSUME TypeOK, Structure, NEW t \in Threads, OthersRest(t), pc'[t] \notin Growing,
         disk' = disk, view'[connOf[t]] = disk,
         mode'[connOf[t]] = "write" => opener'[connOf[t]].by = t,
         \A x \in Conns \ {connOf[t]} :
           mode'[x] = mode[x] /\ view'[x] = view[x] /\ opener'[x] = opener[x],
         NEW d \in Docs, NEW seed \in BOOLEAN, LogKept(d, seed)
  PROVE  LogKept(d, seed)'
<1> DEFINE c == connOf[t]
<1>1. LogRests(disk, d, seed)'
  BY DEF LogKept, LogRests
<1>2. ASSUME NEW x \in Conns, mode'[x] = "write"
      PROVE  LogInStep(opener[x].by, view[x], d, seed)'
  <2>1. CASE x = c
    <3>1. view'[x] = disk /\ opener'[x].by = t
      BY <1>2, <2>1
    <3> QED
      BY <3>1 DEF LogInStep, LogKept, LogRests
  <2>2. CASE x # c
    BY <1>2, <2>2, ElsewhereLog
  <2> QED
    BY <2>1, <2>2
<1> QED
  BY <1>1, <1>2 DEF LogKept

\* A commit makes the logs the thread sees the committed ones.
LEMMA CommitLog ==
  ASSUME TypeOK, Structure, NEW t \in Threads, ~mixed', DoCommit(t), mode[connOf[t]] = "write",
         pc[t] \notin Growing, NEW d \in Docs, NEW seed \in BOOLEAN, LogKept(d, seed)
  PROVE  LogKept(d, seed)'
<1> DEFINE c == connOf[t]
<1>1. c \in Conns /\ mode \in [Conns -> Modes] /\ opener[c].by = t
  BY ModeTypes, AscribeSole DEF DoCommit, Sole
<1>2. disk' = view[c] /\ \A x \in Conns : mode'[x] = "write" => mode[x] = "write" /\ x # c
  BY <1>1 DEF DoCommit, Commit
<1>3. \A x \in Conns : mode'[x] # "write"
  BY <1>1, <1>2 DEF Structure, OneWriter
<1>4. LogRests(view[c], d, seed)
  BY <1>1, LogInStepRests DEF LogKept
<1>5. LogRests(disk, d, seed)'
  BY <1>2, <1>4 DEF LogRests
<1> QED
  BY <1>3, <1>5 DEF LogKept

\* No statement but a write disturbs a log, in a transaction or committed.
LEMMA WritelessLog ==
  ASSUME TypeOK, Structure, ViewsTrack, NEW t \in Threads, OthersRest(t), ~mixed', Writeless(t),
         pc[t] \notin Growing, pc'[t] \notin Growing,
         NEW d \in Docs, NEW seed \in BOOLEAN, LogKept(d, seed)
  PROVE  LogKept(d, seed)'
<1> DEFINE c == connOf[t]
<1>1. /\ c \in Conns /\ mode \in [Conns -> Modes] /\ DOMAIN opener = Conns
      /\ view \in [Conns -> Tables]
  BY ModeTypes
<1>2. CASE \/ Read(t) \/ NoStatement
           \/ (BeginRefused(c) /\ UNCHANGED <<connOf, opener, mixed>>)
  <2>1. /\ disk' = disk /\ view' = view /\ opener' = opener
        /\ \A x \in Conns : mode'[x] = "write" => mode[x] = "write"
    BY <1>1, <1>2 DEF Read, Select, NoStatement, BeginRefused, sqliteVars
  <2> QED
    BY <2>1, StillLog
<1>3. CASE Refused(t)
  <2>1. /\ disk' = disk /\ view' = view
        /\ mode' = [mode EXCEPT ![c] = IF @ = "none" THEN "open" ELSE @]
        /\ \A x \in Conns \ {c} : opener'[x] = opener[x]
        /\ ~CanWrite(c)
    BY <1>1, <1>3 DEF Refused, ExecuteRefused, Ascribe
  <2>2. mode[c] # "write"
    BY <1>1, <2>1 DEF CanWrite, LockFree, Structure, OneWriter
  <2>3. \A x \in Conns : mode'[x] = "write" => mode[x] = "write" /\ opener'[x] = opener[x]
    BY <1>1, <2>1, <2>2
  <2> QED
    BY <2>1, <2>3, StillLog
<1>4. CASE (BeginImmediate(c) /\ Ascribe(t)) \/ DoRollback(t)
  <2>1. /\ disk' = disk
        /\ \A x \in Conns \ {c} :
             mode'[x] = mode[x] /\ view'[x] = view[x] /\ opener'[x] = opener[x]
    BY <1>1, <1>4 DEF BeginImmediate, DoRollback, Rollback, Ascribe
  <2>2. view'[c] = disk
    BY <1>1, <1>4 DEF BeginImmediate, DoRollback, Rollback, ViewsTrack
  <2>3. mode'[c] = "write" => opener'[c].by = t
    BY <1>1, <1>4 DEF BeginImmediate, DoRollback, Rollback, Ascribe
  <2> QED
    BY <2>1, <2>2, <2>3, BackLog
<1>5. CASE DoCommit(t) /\ mode[c] # "write"
  <2>1. /\ disk' = disk /\ view'[c] = disk /\ mode'[c] = "none"
        /\ \A x \in Conns \ {c} :
             mode'[x] = mode[x] /\ view'[x] = view[x] /\ opener'[x] = opener[x]
    BY <1>1, <1>5 DEF DoCommit, Commit, Ascribe
  <2> QED
    BY <2>1, BackLog
<1>6. CASE DoCommit(t) /\ mode[c] = "write"
  BY <1>6, CommitLog
<1> QED
  BY <1>2, <1>3, <1>4, <1>5, <1>6 DEF Writeless

\* A data-changing statement disturbs the logs of its own transaction only.
LEMMA WriteLog ==
  ASSUME TypeOK, Structure, NEW t \in Threads, OthersRest(t), ~mixed', NEW T, Write(t, T),
         NEW d \in Docs, NEW seed \in BOOLEAN, LogKept(d, seed), LogInStep(t, T, d, seed)'
  PROVE  LogKept(d, seed)'
<1> DEFINE c == connOf[t]
<1>1. /\ c \in Conns /\ mode \in [Conns -> Modes] /\ DOMAIN opener = Conns
      /\ view \in [Conns -> Tables]
  BY ModeTypes
<1>2. Sole(t)
  BY AscribeSole DEF Write
<1>3. /\ mode' = [mode EXCEPT ![c] = "write"] /\ view' = [view EXCEPT ![c] = T]
      /\ disk' = disk /\ LockFree(c)
      /\ opener' = [opener EXCEPT ![c] =
                      IF mode'[c] = "none" THEN NoOpener
                      ELSE IF mode[c] = "none" THEN [by |-> t, at |-> pc[t]] ELSE @]
  BY DEF Write, Execute, CanWrite, Ascribe
<1>4. mode'[c] = "write" /\ opener'[c].by = t /\ view'[c] = T
  BY <1>1, <1>2, <1>3 DEF Sole
<1>5. \A x \in Conns : mode'[x] = "write" => x = c
  BY <1>1, <1>3 DEF LockFree
<1>6. ASSUME NEW x \in Conns, mode'[x] = "write"
      PROVE  LogInStep(opener[x].by, view[x], d, seed)'
  <2>1. opener'[x].by = t /\ view'[x] = T
    BY <1>4, <1>5, <1>6
  <2> QED
    BY <2>1 DEF LogInStep
<1>7. LogRests(disk, d, seed)'
  BY <1>3 DEF LogKept, LogRests
<1> QED
  BY <1>6, <1>7 DEF LogKept

\* What a thread that may write sees is a log at rest.
LEMMA SeenLog ==
  ASSUME TypeOK, Structure, ViewsTrack, NEW t \in Threads, ~mixed', NEW T, Write(t, T),
         pc[t] \notin Growing, NEW d \in Docs, NEW seed \in BOOLEAN, LogKept(d, seed)
  PROVE  LogRests(Seen(t), d, seed)
<1> DEFINE c == connOf[t]
<1>1. Sole(t) /\ mode[c] # "stale" /\ c \in Conns /\ mode[c] \in Modes
  BY AscribeSole, ModeTypes DEF Write, Execute, CanWrite
<1>2. CASE mode[c] = "write"
  <2>1. opener[c].by = t
    BY <1>1, <1>2 DEF Sole
  <2>2. LogInStep(t, view[c], d, seed)
    BY <1>1, <1>2, <2>1 DEF LogKept
  <2> QED
    BY <2>2, LogInStepRests DEF Seen
<1>3. CASE mode[c] # "write"
  <2>1. view[c] = disk
    BY <1>1, <1>3 DEF ViewsTrack, Modes
  <2> QED
    BY <2>1 DEF LogKept, Seen
<1> QED
  BY <1>2, <1>3

\* The logs there are after a statement: those there were, and what it wrote.
LEMMA LogsOf ==
  ASSUME TypeOK, NEW t \in Threads, NEW d \in Docs
  PROVE  /\ Writeless(t) => Logs(d)' \subseteq Logs(d)
         /\ \A T : Write(t, T) => Logs(d)' \subseteq Logs(d) \cup {T.revs[d]}
         /\ Seen(t).revs[d] \in Logs(d)
<1> DEFINE c == connOf[t]
<1>1. c \in Conns /\ view \in [Conns -> Tables]
  BY ModeTypes
<1>2. ASSUME Writeless(t)
      PROVE  /\ disk' \in {disk} \cup {view[x] : x \in Conns}
             /\ \A x \in Conns : view'[x] \in {disk} \cup {view[y] : y \in Conns}
  <2>1. CASE disk' = disk /\ view' = view
    BY <2>1
  <2>2. CASE DoCommit(t) \/ DoRollback(t)
    BY <1>1, <2>2 DEF DoCommit, DoRollback, Commit, Rollback
  <2>3. CASE \/ Read(t) \/ Refused(t) \/ NoStatement \/ BeginImmediate(c) \/ BeginRefused(c)
    BY <2>1, <2>3 DEF Read, Select, Refused, ExecuteRefused, NoStatement, BeginImmediate,
                      BeginRefused, sqliteVars
  <2> QED
    BY <1>2, <2>2, <2>3 DEF Writeless
<1>3. Writeless(t) => Logs(d)' \subseteq Logs(d)
  BY <1>2 DEF Logs
<1>4. ASSUME NEW T, Write(t, T)
      PROVE  Logs(d)' \subseteq Logs(d) \cup {T.revs[d]}
  <2>1. disk' = disk /\ \A x \in Conns : view'[x] = view[x] \/ view'[x] = T
    BY <1>1, <1>4 DEF Write, Execute
  <2> QED
    BY <2>1 DEF Logs
<1> QED
  BY <1>1, <1>3, <1>4 DEF Logs, Seen

\* A history that only grows at its end, or was empty, leaves every log as true as it was.
LEMMA FaithfulStays ==
  ASSUME TypeOK, NEW d \in Docs, NEW log, Len(log) \in Nat, Faithful(log, d),
         \/ history'[d] = history[d]
         \/ \E e \in [content : Nat, onto : Nat] : history'[d] = Append(history[d], e)
         \/ history[d] = <<>>
  PROVE  Faithful(log, d)'
<1>1. history[d] \in Seq([content : Nat, onto : Nat]) /\ Len(history[d]) \in Nat
  BY DEF TypeOK
<1>2. CASE history'[d] = history[d]
  BY <1>2 DEF Faithful
<1>3. ASSUME NEW e \in [content : Nat, onto : Nat], history'[d] = Append(history[d], e)
      PROVE  Faithful(log, d)'
  <2>1. /\ Len(history'[d]) = Len(history[d]) + 1
        /\ \A v \in 1..Len(history[d]) : history'[d][v] = history[d][v]
    BY <1>1, <1>3, AppendProperties
  <2>2. ASSUME NEW i \in 1..Len(log)
        PROVE  /\ log[i].ver \in 1..Len(history'[d])
               /\ log[i].content = history'[d][log[i].ver].content
    <3>1. PICK v \in 1..Len(history[d]) :
            v = log[i].ver /\ log[i].content = history[d][v].content
      BY <2>2 DEF Faithful
    <3>2. v \in 1..Len(history'[d]) /\ history'[d][v] = history[d][v]
      BY <1>1, <2>1
    <3> QED
      BY <3>1, <3>2
  <2> QED
    BY <2>2 DEF Faithful
<1>4. CASE history[d] = <<>>
  <2>1. \A i \in 1..Len(log) : FALSE
    BY <1>4 DEF Faithful
  <2> QED
    BY <2>1 DEF Faithful
<1> QED
  BY <1>2, <1>3, <1>4


\* An entry that is the content its version had keeps a log true.
LEMMA FaithfulAppends ==
  ASSUME NEW d \in Docs, NEW log \in Seq(Rows), NEW r \in Rows, Faithful(log, d),
         r.ver \in 1..Len(history[d]), r.content = history[d][r.ver].content
  PROVE  Faithful(Append(log, r), d)
<1>1. /\ Len(Append(log, r)) = Len(log) + 1 /\ Len(log) \in Nat
      /\ \A i \in 1..Len(log) : Append(log, r)[i] = log[i]
      /\ Append(log, r)[Len(log) + 1] = r
  BY AppendProperties, LenProperties
<1>2. ASSUME NEW i \in 1..Len(Append(log, r))
      PROVE  /\ Append(log, r)[i].ver \in 1..Len(history[d])
             /\ Append(log, r)[i].content = history[d][Append(log, r)[i].ver].content
  <2>1. i \in 1..Len(log) \/ i = Len(log) + 1
    BY <1>1, <1>2
  <2>2. PICK e : e = Append(log, r)[i]
    OBVIOUS
  <2>3. CASE i \in 1..Len(log)
    BY <1>1, <2>2, <2>3 DEF Faithful
  <2>4. CASE i = Len(log) + 1
    BY <1>1, <2>2, <2>4
  <2> QED
    BY <2>1, <2>3, <2>4
<1> QED
  BY <1>2 DEF Faithful

-----------------------------------------------------------------------------
(* Steps that acknowledge nothing.                                         *)

\* Every log there is has a length.
LEMMA LogsTyped ==
  ASSUME TypeOK, NEW d \in Docs, NEW log \in Logs(d)
  PROVE  log \in Seq(Rows) /\ Len(log) \in Nat
<1>1. disk \in Tables /\ \A c \in Conns : view[c] \in Tables
  BY ModeTypes
<1>2. log \in Seq(Rows)
  BY <1>1 DEF Logs, Tables
<1> QED
  BY <1>2, LenProperties

\* Logs kept at rest, logs true and no new seed awaited: LogInv goes on.
LEMMA Carry ==
  ASSUME TypeOK, LogBody, NEW t \in Threads, OthersRest(t), history' = history,
         pc'[t] # "seed",
         \A d \in Docs : LogKept(d, d \notin Published)',
         \A d \in Docs : \A log \in Logs(d)' : Faithful(log, d),
         \A d \in Docs, u \in Threads \ {t} :
           pc[u] = "seed" /\ call[u].doc = d => LogKept(d, FALSE)'
  PROVE  LogBody'
<1>1. ASSUME NEW d \in Docs, NEW log \in Logs(d)'
      PROVE  Faithful(log, d)'
  BY <1>1 DEF Faithful
<1>2. ASSUME NEW u \in Threads, pc'[u] = "seed"
      PROVE  u # t /\ pc[u] = "seed" /\ call'[u] = call[u] /\ row'[u] = row[u]
  BY <1>2 DEF OthersRest, Resting
<1>3. ASSUME NEW u \in Threads, pc'[u] = "seed"
      PROVE  SeedAwaited(u)'
  <2>1. SeedAwaited(u) /\ u # t /\ pc[u] = "seed" /\ call'[u] = call[u] /\ row'[u] = row[u]
    BY <1>2, <1>3 DEF LogBody
  <2>2. PICK d \in Docs : d = call[u].doc
    BY CallTypes
  <2>3. LogKept(d, FALSE)'
    BY <2>1, <2>2
  <2>4. LogKept(call[u].doc, FALSE)'
    BY <2>1, <2>2, <2>3 DEF LogKept, LogInStep
  <2> QED
    BY <2>1, <2>4 DEF SeedAwaited
<1>4. ASSUME NEW u \in Threads, NEW w \in Threads, pc'[u] = "seed", pc'[w] = "seed", u # w
      PROVE  call'[u].doc # call'[w].doc
  BY <1>2, <1>4 DEF LogBody
<1> QED
  BY <1>1, <1>3, <1>4 DEF LogBody

\* A statement that writes nothing, by a thread that is not in an update's growth.
LEMMA WritelessLogs ==
  ASSUME TypeOK, Structure, Unshared, LogBody, NEW t \in Threads, ~mixed', OthersRest(t),
         Writeless(t), history' = history,
         pc[t] \notin Growing, pc'[t] \notin Growing, pc'[t] # "seed"
  PROVE  LogBody'
<1>1. ViewsTrack
  BY DEF Unshared
<1>2. \A d \in Docs : LogKept(d, d \notin Published)'
  <2> TAKE d \in Docs
  <2>1. PICK seed \in BOOLEAN : seed = (d \notin Published)
    OBVIOUS
  <2>2. LogKept(d, seed)'
    BY <1>1, <2>1, WritelessLog DEF LogBody
  <2> QED
    BY <2>1, <2>2
<1>3. \A d \in Docs, u \in Threads \ {t} :
        pc[u] = "seed" /\ call[u].doc = d => LogKept(d, FALSE)'
  <2> TAKE d \in Docs, u \in Threads \ {t}
  <2> HAVE pc[u] = "seed" /\ call[u].doc = d
  <2>1. LogKept(d, FALSE)
    BY DEF LogBody, SeedAwaited
  <2> QED
    BY <1>1, <2>1, WritelessLog
<1>4. \A d \in Docs : \A log \in Logs(d)' : Faithful(log, d)
  BY LogsOf DEF LogBody
<1> QED
  BY <1>2, <1>3, <1>4, Carry

\* A data-changing statement whose own logs are as they should be.
LEMMA WriteLogs ==
  ASSUME TypeOK, Structure, LogBody, NEW t \in Threads, ~mixed', OthersRest(t),
         NEW T, Write(t, T), history' = history, pc'[t] # "seed",
         \A d \in Docs : Faithful(T.revs[d], d),
         \A d \in Docs, seed \in BOOLEAN :
           /\ LogKept(d, seed)
           /\ \/ seed = (d \notin Published)
              \/ \E u \in Threads \ {t} : pc[u] = "seed" /\ call[u].doc = d
           => LogInStep(t, T, d, seed)'
  PROVE  LogBody'
<1>1. \A d \in Docs : LogKept(d, d \notin Published)'
  <2> TAKE d \in Docs
  <2>1. PICK seed \in BOOLEAN : seed = (d \notin Published)
    OBVIOUS
  <2>2. LogKept(d, seed) /\ LogInStep(t, T, d, seed)'
    BY <2>1 DEF LogBody
  <2>3. LogKept(d, seed)'
    BY <2>2, WriteLog
  <2> QED
    BY <2>1, <2>3
<1>2. \A d \in Docs, u \in Threads \ {t} :
        pc[u] = "seed" /\ call[u].doc = d => LogKept(d, FALSE)'
  <2> TAKE d \in Docs, u \in Threads \ {t}
  <2> HAVE pc[u] = "seed" /\ call[u].doc = d
  <2>1. LogKept(d, FALSE)
    BY DEF LogBody, SeedAwaited
  <2>2. LogInStep(t, T, d, FALSE)'
    BY <2>1
  <2> QED
    BY <2>1, <2>2, WriteLog
<1>3. \A d \in Docs : \A log \in Logs(d)' : Faithful(log, d)
  BY LogsOf DEF LogBody
<1> QED
  BY <1>1, <1>2, <1>3, Carry

\* A data-changing statement that leaves documents' versions and logs alone.
LEMMA IdleWriteLogs ==
  ASSUME TypeOK, Structure, Unshared, LogBody, NEW t \in Threads, ~mixed', OthersRest(t),
         Write(t, Seen(t)), history' = history,
         pc[t] \notin Growing, pc'[t] \notin Growing, pc'[t] # "seed"
  PROVE  LogBody'
<1>1. PICK T : T = Seen(t)
  OBVIOUS
<1>2. Write(t, T) /\ ViewsTrack
  BY <1>1 DEF Unshared
<1>3. \A d \in Docs : Faithful(T.revs[d], d)
  BY <1>1, LogsOf DEF LogBody
<1>4. ASSUME NEW d \in Docs, NEW seed \in BOOLEAN, LogKept(d, seed)
      PROVE  LogInStep(t, T, d, seed)'
  <2>1. LogRests(T, d, seed)
    BY <1>1, <1>2, <1>4, SeenLog
  <2> QED
    BY <2>1 DEF LogInStep
<1> QED
  BY <1>2, <1>3, <1>4, WriteLogs

-----------------------------------------------------------------------------
(* Action by action.                                                       *)


\* Where a step leads when it is none of the four that leave or enter the growth of a log.
LEMMA PlainMoves ==
  ASSUME TypeOK, NEW t \in Threads,
         \/ Return(t)
         \/ \E label \in Labels \ {"write", "prune", "seed"} : Goto(t, label)
         \/ \E label \in Labels \ {"write", "prune", "seed"}, r \in Rows : Remember(t, r, label)
  PROVE  OthersRest(t) /\ pc'[t] \notin Growing /\ pc'[t] # "seed"
  BY MoveFacts, MoveRests DEF Growing


\* Labels that are neither in an update's growth nor before a seed.
LEMMA PlainLabels ==
  {"begin", "select", "snapshot", "rollback", "cleanup", "commit", "reread", "audit",
   "auditCommit", "insert", "insertCommit", "forkReread", "title", "deleteGrants", "deleteDoc",
   "deleteCommit", "bookmark", "touchCommit"} \subseteq Labels \ {"write", "prune", "seed"}
  BY DEF Labels

\* Steps that write no log and acknowledge no publish or update.
LEMMA PlainActionsKeep ==
  ASSUME TypeOK, Structure, Unshared, LogBody, NEW t \in Threads, ~mixed',
         \/ Check(t) \/ BeginUpdate(t) \/ SelectRow(t) \/ RollbackUpdate(t) \/ CleanUp(t)
         \/ Reread(t) \/ AuditInsert(t) \/ AuditCommit(t) \/ ReadSource(t) \/ RereadFork(t)
         \/ WriteTitle(t) \/ DeleteGrants(t) \/ CommitDelete(t)
         \/ TouchRow(t) \/ WriteBookmark(t) \/ CommitTouch(t)
  PROVE  LogBody'
<1> DEFINE Moved ==
             \/ Return(t)
             \/ \E label \in Labels \ {"write", "prune", "seed"} : Goto(t, label)
             \/ \E label \in Labels \ {"write", "prune", "seed"}, r \in Rows :
                  Remember(t, r, label)
           Stated == Writeless(t) \/ Write(t, Seen(t))
           Here == pc[t] \notin Growing /\ history' = history
<1> HIDE DEF Moved, Stated, Here
<1>1. /\ Return(t) => Moved
      /\ \A label \in Labels \ {"write", "prune", "seed"} : Goto(t, label) => Moved
      /\ \A label \in Labels \ {"write", "prune", "seed"}, r \in Rows :
           Remember(t, r, label) => Moved
  BY DEF Moved
<1>2. /\ Read(t) \/ Refused(t) \/ DoCommit(t) \/ DoRollback(t) \/ NoStatement => Stated
      /\ Write(t, Seen(t)) \/ Rejected(t) => Stated
      /\ BeginImmediate(connOf[t]) /\ Ascribe(t) => Stated
      /\ BeginRefused(connOf[t]) /\ UNCHANGED <<connOf, opener, mixed>> => Stated
  BY DEF Stated, Writeless, Rejected
<1>3. Here
  BY DEF Here, Growing, Keep, Check, BeginUpdate, SelectRow, RollbackUpdate, CleanUp, Reread,
         AuditInsert, AuditCommit, ReadSource, RereadFork, WriteTitle, DeleteGrants,
         CommitDelete, TouchRow, WriteBookmark, CommitTouch
<1>4. Moved /\ Stated
  <2>1. CASE Check(t)
    <3>1. AfterCheck(t) \in {"begin", "deleteGrants", "bookmark"}
      BY DEF AfterCheck
    <3> QED
      BY <1>1, <1>2, <2>1, <3>1, PlainLabels DEF Check
  <2>2. CASE BeginUpdate(t)
    BY <1>1, <1>2, <2>2, PlainLabels DEF BeginUpdate
  <2>3. CASE SelectRow(t)
    <3>1. Seen(t).docs[call[t].doc] \in Rows
      BY CallTypes
    <3> QED
      BY <1>1, <1>2, <2>3, <3>1, PlainLabels DEF SelectRow
  <2>4. CASE RollbackUpdate(t) \/ CleanUp(t) \/ Reread(t) \/ AuditInsert(t) \/ AuditCommit(t)
    BY <1>1, <1>2, <2>4, PlainLabels
       DEF RollbackUpdate, CleanUp, Reread, AuditInsert, AuditCommit
  <2>5. CASE ReadSource(t)
    <3>1. Seen(t).docs[call[t].from] \in Rows
      BY CallTypes
    <3> QED
      BY <1>1, <1>2, <2>5, <3>1, PlainLabels DEF ReadSource
  <2>6. CASE RereadFork(t) \/ WriteTitle(t) \/ DeleteGrants(t) \/ CommitDelete(t)
    BY <1>1, <1>2, <2>6, PlainLabels DEF RereadFork, WriteTitle, DeleteGrants, CommitDelete
  <2>7. CASE TouchRow(t) \/ WriteBookmark(t) \/ CommitTouch(t)
    BY <1>1, <1>2, <2>7, PlainLabels DEF TouchRow, WriteBookmark, CommitTouch
  <2> QED
    BY <2>1, <2>2, <2>3, <2>4, <2>5, <2>6, <2>7
<1>5. OthersRest(t) /\ pc'[t] \notin Growing /\ pc'[t] # "seed"
  BY <1>4, PlainMoves DEF Moved
<1> QED
  BY <1>3, <1>4, <1>5, WritelessLogs, IdleWriteLogs DEF Stated, Here

\* insert_revision adds the row the update has read, whose version is the next
\* of the log and whose content is the one that version has.
LEMMA InsertRevisionLogs ==
  ASSUME TypeOK, Structure, Unshared, LogBody, NEW t \in Threads, ~mixed', InsertRevision(t)
  PROVE  LogBody'
<1>1. pc[t] = "snapshot" /\ Keep
  BY DEF InsertRevision
<1>2. pc[t] \in Updating /\ pc[t] \in Holding /\ pc[t] \notin Special /\ pc[t] \notin Growing
  BY <1>1 DEF Updating, Holding, Special, Growing
<1>3. PICK d \in Docs, r \in Rows : d = call[t].doc /\ r = row[t]
  BY CallTypes
<1>4. /\ Seen(t).docs = disk.docs /\ r = disk.docs[d] /\ r.ver > 0 /\ ~Refused(t)
  BY <1>2, <1>3, HolderFacts, UpdaterFacts, PendingPlain
<1>5. PICK T : T = AddRevision(t, d, r)
  OBVIOUS
<1>6. Write(t, T) /\ Goto(t, "write") /\ "write" \in Labels
  BY <1>3, <1>4, <1>5 DEF InsertRevision, Exists, Labels
<1>7. /\ pc'[t] = "write" /\ call'[t] = call[t] /\ row'[t] = row[t] /\ Move(t)
      /\ OthersRest(t) /\ history' = history
  BY <1>1, <1>6, MoveFacts, MoveRests DEF Keep
<1>8. /\ Seen(t) \in Tables /\ T.docs = Seen(t).docs /\ Seen(t).revs[d] \in Seq(Rows)
      /\ T.revs[d] = Append(Seen(t).revs[d], r)
      /\ \A e \in Docs \ {d} : T.revs[e] = Seen(t).revs[e]
  <2>1. Seen(t) \in Tables
    BY CallTypes
  <2> QED
    BY <1>5, <2>1 DEF AddRevision, Tables
<1>9. PICK n \in Nat : r.ver = n + 1
  <2>1. r.ver - 1 \in Nat /\ r.ver = (r.ver - 1) + 1
    BY <1>4, RowFields
  <2> QED
    BY <2>1
<1>10. ViewsTrack
  BY DEF Unshared
<1>11. ASSUME NEW e \in Docs, NEW seed \in BOOLEAN, LogKept(e, seed)
       PROVE  LogInStep(t, T, e, seed)'
  <2>1. LogRests(Seen(t), e, seed)
    BY <1>2, <1>6, <1>10, <1>11, SeenLog
  <2>2. CASE e = d
    <3>1. Seen(t).docs[d].ver # 0 /\ Seen(t).docs[d].ver - 1 = n
      BY <1>4, <1>9
    <3>2. Rests(Seen(t).revs[d], n, seed)
      BY <2>1, <2>2, <3>1 DEF LogRests
    <3>3. Grown(Append(Seen(t).revs[d], r), n + 1, seed)
      BY <1>8, <1>9, <3>2, RestGrows
    <3>4. Grown(T.revs[e], r.ver, seed)
      BY <1>8, <1>9, <2>2, <3>3
    <3> QED
      BY <1>3, <1>7, <2>2, <3>4 DEF LogInStep, Growing
  <2>3. CASE e # d
    <3>1. LogRests(T, e, seed)
      BY <1>8, <2>1, <2>3 DEF LogRests
    <3> QED
      BY <1>3, <1>7, <2>3, <3>1 DEF LogInStep
  <2> QED
    BY <2>2, <2>3
<1>12. ASSUME NEW e \in Docs
       PROVE  Faithful(T.revs[e], e)
  <2>1. Faithful(Seen(t).revs[e], e)
    BY LogsOf DEF LogBody
  <2>2. CASE e = d
    <3>1. r.ver = Len(history[d]) /\ Len(history[d]) \in Nat
      BY <1>4, RowSays
    <3>2. r.content = history[d][r.ver].content
      <4>1. history[d] # <<>> /\ d \notin gone /\ r = Expected(d)
        BY <1>4, RowSays DEF Unshared
      <4>2. Expected(d) = [ver |-> Len(history[d]), content |-> history[d][Len(history[d])].content]
        BY <4>1 DEF Expected
      <4> QED
        BY <3>1, <4>1, <4>2
    <3>3. r.ver \in 1..Len(history[d])
      BY <1>4, <3>1
    <3>4. Faithful(Append(Seen(t).revs[d], r), d)
      BY <1>8, <2>1, <2>2, <3>2, <3>3, FaithfulAppends
    <3> QED
      BY <1>8, <2>2, <3>4
  <2> QED
    BY <1>8, <2>1, <2>2
<1> QED
  BY <1>6, <1>7, <1>11, <1>12, WriteLogs


\* The update's row is written beside a log that has grown and is not pruned yet.
LEMMA WriteVersionLogs ==
  ASSUME TypeOK, Structure, Unshared, LogBody, NEW t \in Threads, ~mixed', WriteVersion(t)
  PROVE  LogBody'
<1>1. pc[t] = "write" /\ Keep
  BY DEF WriteVersion
<1>2. pc[t] \in Updating /\ pc[t] \in Holding /\ pc[t] \notin Special
  BY <1>1 DEF Updating, Holding, Special
<1>3. PICK d \in Docs : d = call[t].doc
  BY CallTypes
<1>4. /\ Seen(t).docs = disk.docs /\ row[t] = disk.docs[d] /\ row[t].ver > 0 /\ ~Refused(t)
  BY <1>2, <1>3, HolderFacts, UpdaterFacts, PendingPlain
<1>5. PICK T : T = SetDoc(t, d, [ver |-> row[t].ver + 1, content |-> call[t].id])
  OBVIOUS
<1>6. Write(t, T) /\ Goto(t, "prune") /\ "prune" \in Labels
  BY <1>3, <1>4, <1>5 DEF WriteVersion, Exists, Labels
<1>7. /\ pc'[t] = "prune" /\ call'[t] = call[t] /\ row'[t] = row[t] /\ Move(t)
      /\ OthersRest(t) /\ history' = history
  BY <1>1, <1>6, MoveFacts, MoveRests DEF Keep
<1>8. /\ T.revs = Seen(t).revs
      /\ \A e \in Docs \ {d} : T.docs[e] = Seen(t).docs[e]
  <2>1. Seen(t) \in Tables
    BY CallTypes
  <2> QED
    BY <1>5, <2>1 DEF SetDoc, Tables
<1>9. mode[connOf[t]] = "write" /\ opener[connOf[t]].by = t /\ connOf[t] \in Conns
  BY <1>2, PerThreadParts, ModeTypes DEF Unshared, HoldsLock
<1>10. ASSUME NEW e \in Docs, NEW seed \in BOOLEAN, LogKept(e, seed)
       PROVE  LogInStep(t, T, e, seed)'
  <2>1. LogInStep(t, Seen(t), e, seed)
    BY <1>9, <1>10 DEF LogKept, Seen
  <2>2. CASE e = d
    <3>1. Grown(T.revs[e], row[t].ver, seed)
      BY <1>1, <1>3, <1>8, <2>1, <2>2 DEF LogInStep, Growing
    <3> QED
      BY <1>3, <1>7, <2>2, <3>1 DEF LogInStep, Growing
  <2>3. CASE e # d
    <3>1. LogRests(T, e, seed)
      BY <1>3, <1>8, <2>1, <2>3 DEF LogInStep, LogRests
    <3> QED
      BY <1>3, <1>7, <2>3, <3>1 DEF LogInStep
  <2> QED
    BY <2>2, <2>3
<1>11. \A e \in Docs : Faithful(T.revs[e], e)
  BY <1>8, LogsOf DEF LogBody
<1> QED
  BY <1>6, <1>7, <1>10, <1>11, WriteLogs

\* The newest entries of a true log are a true log.
LEMMA FaithfulLastN ==
  ASSUME NEW d \in Docs, NEW log \in Seq(Rows), Faithful(log, d)
  PROVE  Faithful(LastN(log, MaxRevisions), d)
<1>1. PICK len \in Nat : len = Len(log)
  BY LenProperties
<1>2. PICK kept \in Nat, drop \in Nat :
        /\ kept = Least(len, MaxRevisions) /\ len = drop + kept
        /\ Len(LastN(log, MaxRevisions)) = kept
        /\ \A j \in 1..kept : LastN(log, MaxRevisions)[j] = log[drop + j]
  BY <1>1, PrunedEntries
<1>3. PICK pruned : pruned = LastN(log, MaxRevisions)
  OBVIOUS
<1>4. ASSUME NEW j \in 1..kept
      PROVE  /\ pruned[j].ver \in 1..Len(history[d])
             /\ pruned[j].content = history[d][pruned[j].ver].content
  <2>1. PICK i \in 1..Len(log) : i = drop + j /\ pruned[j] = log[i]
    <3>1. drop + j \in 1..Len(log)
      BY <1>1, <1>2, <1>4
    <3> QED
      BY <1>2, <1>3, <1>4, <3>1
  <2> QED
    BY <2>1 DEF Faithful
<1> QED
  BY <1>2, <1>3, <1>4 DEF Faithful

\* prune_revisions, before the commit: the log is at rest with the new version.
LEMMA PruneRevisionsLogs ==
  ASSUME TypeOK, Structure, Unshared, LogBody, NEW t \in Threads, ~mixed', PruneRevisions(t)
  PROVE  LogBody'
<1>1. pc[t] = "prune" /\ Keep
  BY DEF PruneRevisions
<1>2. pc[t] \in Updating /\ pc[t] \in Holding
  BY <1>1 DEF Updating, Holding
<1>3. PICK d \in Docs : d = call[t].doc
  BY CallTypes
<1>4. /\ Seen(t).docs = Pending(t) /\ row[t] = disk.docs[d] /\ row[t].ver > 0 /\ ~Refused(t)
      /\ row[t].ver \in Nat
  BY <1>2, <1>3, HolderFacts, UpdaterFacts, CallTypes
<1>5. PICK T : T = Pruned(t, d)
  OBVIOUS
<1>6. Write(t, T) /\ Goto(t, "commit") /\ "commit" \in Labels
  BY <1>3, <1>4, <1>5 DEF PruneRevisions, Labels
<1>7. /\ pc'[t] = "commit" /\ call'[t] = call[t] /\ row'[t] = row[t] /\ Move(t)
      /\ OthersRest(t) /\ history' = history
  BY <1>1, <1>6, MoveFacts, MoveRests DEF Keep
<1>8. /\ T.docs = Seen(t).docs /\ Seen(t).revs[d] \in Seq(Rows)
      /\ T.revs[d] = LastN(Seen(t).revs[d], MaxRevisions)
      /\ \A e \in Docs \ {d} : T.revs[e] = Seen(t).revs[e]
  <2>1. Seen(t) \in Tables
    BY CallTypes
  <2> QED
    BY <1>5, <2>1 DEF Pruned, Tables
<1>9. mode[connOf[t]] = "write" /\ opener[connOf[t]].by = t /\ connOf[t] \in Conns
  BY <1>2, PerThreadParts, ModeTypes DEF Unshared, HoldsLock
<1>10. Seen(t).docs[d].ver = row[t].ver + 1
  <2>1. disk.docs \in [Docs -> Rows]
    BY RowSays
  <2> QED
    BY <1>1, <1>3, <1>4, <2>1 DEF Pending
<1>11. ASSUME NEW e \in Docs, NEW seed \in BOOLEAN, LogKept(e, seed)
       PROVE  LogInStep(t, T, e, seed)'
  <2>1. LogInStep(t, Seen(t), e, seed)
    BY <1>9, <1>11 DEF LogKept, Seen
  <2>2. CASE e = d
    <3>1. Grown(Seen(t).revs[d], row[t].ver, seed)
      BY <1>1, <1>3, <2>1, <2>2 DEF LogInStep, Growing
    <3>2. Rests(T.revs[d], row[t].ver, seed)
      BY <1>4, <1>8, <3>1, GrownPrunes
    <3>3. T.docs[d].ver # 0 /\ T.docs[d].ver - 1 = row[t].ver
      BY <1>4, <1>8, <1>10
    <3>4. LogRests(T, e, seed)
      BY <2>2, <3>2, <3>3 DEF LogRests
    <3> QED
      BY <1>7, <3>4 DEF LogInStep, Growing
  <2>3. CASE e # d
    <3>1. LogRests(T, e, seed)
      BY <1>3, <1>8, <2>1, <2>3 DEF LogInStep, LogRests
    <3> QED
      BY <1>7, <3>1 DEF LogInStep, Growing
  <2> QED
    BY <2>2, <2>3
<1>12. ASSUME NEW e \in Docs
       PROVE  Faithful(T.revs[e], e)
  <2>1. Faithful(Seen(t).revs[e], e)
    BY LogsOf DEF LogBody
  <2> QED
    BY <1>8, <2>1, FaithfulLastN
<1> QED
  BY <1>6, <1>7, <1>11, <1>12, WriteLogs

\* A deletion takes the log with the row.
LEMMA DeleteDocLogs ==
  ASSUME TypeOK, Structure, Unshared, LogBody, NEW t \in Threads, ~mixed', DeleteDoc(t)
  PROVE  LogBody'
<1>1. pc[t] = "deleteDoc" /\ Keep /\ pc[t] \notin Growing
  BY DEF DeleteDoc, Growing
<1>2. PICK d \in Docs : d = call[t].doc
  BY CallTypes
<1>3. PICK T : T = [Seen(t) EXCEPT !.docs[d] = NoRow, !.revs[d] = <<>>]
  OBVIOUS
<1>4. /\ T.docs[d].ver = 0 /\ T.revs[d] = <<>>
      /\ \A e \in Docs \ {d} :
           T.docs[e] = Seen(t).docs[e] /\ T.revs[e] = Seen(t).revs[e]
  <2>1. Seen(t) \in Tables
    BY CallTypes
  <2> QED
    BY <1>3, <2>1 DEF Tables, NoRow
<1>5. CASE Refused(t) /\ Return(t)
  <2>1. OthersRest(t) /\ pc'[t] \notin Growing /\ pc'[t] # "seed"
    BY <1>5, PlainMoves
  <2> QED
    BY <1>1, <1>5, <2>1, WritelessLogs DEF Writeless, Keep
<1>6. CASE Write(t, T) /\ Remember(t, Seen(t).docs[d], "deleteCommit")
  <2>1. Seen(t).docs[d] \in Rows
    BY CallTypes
  <2>2. OthersRest(t) /\ pc'[t] \notin Growing /\ pc'[t] # "seed"
    BY <1>6, <2>1, PlainLabels, PlainMoves
  <2>3. ViewsTrack
    BY DEF Unshared
  <2>4. ASSUME NEW e \in Docs, NEW seed \in BOOLEAN, LogKept(e, seed)
        PROVE  LogInStep(t, T, e, seed)'
    <3>1. LogRests(Seen(t), e, seed)
      BY <1>1, <1>6, <2>3, <2>4, SeenLog
    <3>2. LogRests(T, e, seed)
      BY <1>4, <3>1 DEF LogRests
    <3> QED
      BY <2>2, <3>2 DEF LogInStep
  <2>5. ASSUME NEW e \in Docs
        PROVE  Faithful(T.revs[e], e)
    <3>1. Faithful(Seen(t).revs[e], e)
      BY LogsOf DEF LogBody
    <3>2. Faithful(<<>>, e)
      BY DEF Faithful
    <3> QED
      BY <1>4, <3>1, <3>2
  <2> QED
    BY <1>1, <1>6, <2>2, <2>4, <2>5, WriteLogs DEF Keep
<1> QED
  BY <1>2, <1>3, <1>5, <1>6 DEF DeleteDoc

\* A new document has no log, in no transaction and not on disk.
LEMMA NewDocLogs ==
  ASSUME TypeOK, LogBody, NEW d \in Docs, history[d] = <<>>
  PROVE  \A log \in Logs(d) : log = <<>>
<1> SUFFICES ASSUME NEW log \in Logs(d)
             PROVE  log = <<>>
  OBVIOUS
<1>1. log \in Seq(Rows) /\ Len(log) \in Nat
  BY LogsTyped
<1>2. \A i \in 1..Len(log) : FALSE
  BY DEF LogBody, Faithful
<1>3. Len(log) = 0
  BY <1>1, <1>2
<1> QED
  BY <1>1, <1>3, EmptySeq

\* The row of a new document is written beside an empty log.
LEMMA InsertDocLogs ==
  ASSUME TypeOK, Structure, Unshared, LogBody, NEW t \in Threads, ~mixed', InsertDoc(t)
  PROVE  LogBody'
<1>1. pc[t] = "insert" /\ Keep /\ pc[t] \notin Growing /\ pc[t] \in Creating
  BY DEF InsertDoc, Growing, Creating
<1>2. PICK d \in Docs : d = call[t].doc
  BY CallTypes
<1>3. history[d] = <<>>
  BY <1>1, <1>2 DEF Unshared, NewDocsUnknown
<1>4. PICK T : T = SetDoc(t, d, [ver |-> 1, content |-> NewContent(t)])
  OBVIOUS
<1>5. /\ T.docs[d].ver = 1 /\ T.revs = Seen(t).revs
      /\ \A e \in Docs \ {d} : T.docs[e] = Seen(t).docs[e]
  <2>1. Seen(t) \in Tables
    BY CallTypes
  <2> QED
    BY <1>4, <2>1 DEF SetDoc, Tables
<1>6. CASE (Refused(t) \/ Rejected(t)) /\ Return(t)
  <2>1. OthersRest(t) /\ pc'[t] \notin Growing /\ pc'[t] # "seed"
    BY <1>6, PlainMoves
  <2> QED
    BY <1>1, <1>6, <2>1, WritelessLogs, IdleWriteLogs DEF Writeless, Rejected, Keep
<1>7. CASE Write(t, T) /\ Goto(t, "insertCommit")
  <2>1. OthersRest(t) /\ pc'[t] \notin Growing /\ pc'[t] # "seed"
    BY <1>7, PlainLabels, PlainMoves
  <2>2. ViewsTrack
    BY DEF Unshared
  <2>3. T.revs[d] = <<>>
    BY <1>3, <1>5, NewDocLogs, LogsOf
  <2>4. ASSUME NEW e \in Docs, NEW seed \in BOOLEAN, LogKept(e, seed)
        PROVE  LogInStep(t, T, e, seed)'
    <3>1. LogRests(Seen(t), e, seed)
      BY <1>1, <1>7, <2>2, <2>4, SeenLog
    <3>2. CASE e = d
      <4>1. Rests(<<>>, 0, seed) /\ T.docs[e].ver # 0 /\ T.docs[e].ver - 1 = 0
        BY <1>5, <3>2, EmptyRests
      <4>2. LogRests(T, e, seed)
        BY <2>3, <3>2, <4>1 DEF LogRests
      <4> QED
        BY <2>1, <4>2 DEF LogInStep
    <3>3. CASE e # d
      <4>1. LogRests(T, e, seed)
        BY <1>5, <3>1, <3>3 DEF LogRests
      <4> QED
        BY <2>1, <4>1 DEF LogInStep
    <3> QED
      BY <3>2, <3>3
  <2>5. \A e \in Docs : Faithful(T.revs[e], e)
    BY <1>5, LogsOf DEF LogBody
  <2> QED
    BY <1>1, <1>7, <2>1, <2>4, <2>5, WriteLogs DEF Keep
<1> QED
  BY <1>2, <1>4, <1>6, <1>7 DEF InsertDoc, NewContent


\* fork_document's seed: its content is that of version 1, and it is the only
\* seed its log will ever hold.
LEMMA SeedRevisionLogs ==
  ASSUME TypeOK, Structure, Unshared, LogBody, NEW t \in Threads, ~mixed', SeedRevision(t)
  PROVE  LogBody'
<1>1. pc[t] = "seed" /\ Keep /\ pc[t] \notin Growing
  BY DEF SeedRevision, Growing
<1>2. PICK d \in Docs : d = call[t].doc
  BY CallTypes
<1>3. /\ d \notin Published /\ history[d] # <<>> /\ history[d][1].content = row[t].content
      /\ LogKept(d, FALSE)
  BY <1>1, <1>2 DEF LogBody, SeedAwaited
<1>4. PICK r \in Rows : r = [ver |-> 1, content |-> row[t].content]
  BY WrittenTypes
<1>5. PICK T : T = AddRevision(t, d, r)
  OBVIOUS
<1>6. /\ T.docs = Seen(t).docs /\ Seen(t).revs[d] \in Seq(Rows)
      /\ T.revs[d] = Append(Seen(t).revs[d], r)
      /\ \A e \in Docs \ {d} : T.revs[e] = Seen(t).revs[e]
  <2>1. Seen(t) \in Tables
    BY CallTypes
  <2> QED
    BY <1>5, <2>1 DEF AddRevision, Tables
<1>7. CASE (Refused(t) \/ Rejected(t)) /\ Return(t)
  <2>1. OthersRest(t) /\ pc'[t] \notin Growing /\ pc'[t] # "seed"
    BY <1>7, PlainMoves
  <2> QED
    BY <1>1, <1>7, <2>1, WritelessLogs, IdleWriteLogs DEF Writeless, Rejected, Keep
<1>8. CASE Exists(t, d) /\ Write(t, T) /\ Goto(t, "forkReread")
  <2>1. OthersRest(t) /\ pc'[t] \notin Growing /\ pc'[t] # "seed"
    BY <1>8, PlainLabels, PlainMoves
  <2>2. ViewsTrack
    BY DEF Unshared
  <2>3. LogRests(T, d, TRUE)
    <3>1. LogRests(Seen(t), d, FALSE)
      BY <1>1, <1>3, <1>8, <2>2, SeenLog
    <3>2. PICK n \in Nat : Seen(t).docs[d].ver = n + 1
      <4>1. Seen(t).docs[d].ver \in Nat /\ Seen(t).docs[d].ver > 0
        BY <1>8, CallTypes DEF Exists
      <4>2. Seen(t).docs[d].ver - 1 \in Nat
            /\ Seen(t).docs[d].ver = (Seen(t).docs[d].ver - 1) + 1
        BY <4>1
      <4> QED
        BY <4>2
    <3>3. n + 1 # 0 /\ (n + 1) - 1 = n
      BY <3>2
    <3>4. Rests(Seen(t).revs[d], n, FALSE)
      BY <3>1, <3>2, <3>3 DEF LogRests
    <3>5. Rests(T.revs[d], n, TRUE)
      BY <1>4, <1>6, <3>4, RestSeeds
    <3> QED
      BY <1>6, <3>2, <3>3, <3>5 DEF LogRests
  <2>4. ASSUME NEW e \in Docs, NEW seed \in BOOLEAN, LogKept(e, seed),
               \/ seed = (e \notin Published)
               \/ \E u \in Threads \ {t} : pc[u] = "seed" /\ call[u].doc = e
        PROVE  LogInStep(t, T, e, seed)'
    <3>1. CASE e = d
      <4>1. seed = TRUE
        BY <1>1, <1>2, <1>3, <2>4, <3>1 DEF LogBody
      <4> QED
        BY <2>1, <2>3, <3>1, <4>1 DEF LogInStep
    <3>2. CASE e # d
      <4>1. LogRests(Seen(t), e, seed)
        BY <1>1, <1>8, <2>2, <2>4, SeenLog
      <4>2. LogRests(T, e, seed)
        BY <1>6, <3>2, <4>1 DEF LogRests
      <4> QED
        BY <2>1, <4>2 DEF LogInStep
    <3> QED
      BY <3>1, <3>2
  <2>5. ASSUME NEW e \in Docs
        PROVE  Faithful(T.revs[e], e)
    <3>1. Faithful(Seen(t).revs[e], e)
      BY LogsOf DEF LogBody
    <3>2. CASE e = d
      <4>1. history[d] \in Seq([content : Nat, onto : Nat]) /\ Len(history[d]) \in Nat
        BY DEF TypeOK
      <4>2. Len(history[d]) # 0
        BY <1>3, <4>1, EmptySeq
      <4>3. r.ver \in 1..Len(history[d]) /\ r.content = history[d][r.ver].content
        BY <1>3, <1>4, <4>1, <4>2
      <4>4. Faithful(Append(Seen(t).revs[d], r), d)
        BY <1>6, <3>1, <3>2, <4>3, FaithfulAppends
      <4> QED
        BY <1>6, <3>2, <4>4
    <3> QED
      BY <1>6, <3>1, <3>2
  <2> QED
    BY <1>1, <1>8, <2>1, <2>4, <2>5, WriteLogs DEF Keep
<1> QED
  BY <1>2, <1>4, <1>5, <1>7, <1>8 DEF SeedRevision

-----------------------------------------------------------------------------
(* The commits that acknowledge, the calls and the crashes.                *)

\* What is known of the first acknowledgement of a document stays known.
LEMMA FirstStays ==
  ASSUME TypeOK, HistoryGrows, NEW d \in Docs, history[d] # <<>>
  PROVE  history'[d] # <<>> /\ history'[d][1] = history[d][1]
<1>1. history[d] \in Seq([content : Nat, onto : Nat]) /\ Len(history[d]) \in Nat
  BY DEF TypeOK
<1>2. 1 \in 1..Len(history[d])
  BY <1>1, EmptySeq
<1>3. ASSUME NEW e \in [content : Nat, onto : Nat], history'[d] = Append(history[d], e)
      PROVE  history'[d] # <<>> /\ history'[d][1] = history[d][1]
  <2>1. Append(history[d], e) # <<>> /\ Append(history[d], e)[1] = history[d][1]
    BY <1>1, <1>2, AppendProperties
  <2> QED
    BY <1>3, <2>1
<1> QED
  BY <1>3 DEF HistoryGrows

\* The commit of a transaction that acknowledges its call.
LEMMA CommitLogs ==
  ASSUME TypeOK, Structure, LogBody, NEW t \in Threads, ~mixed', OthersRest(t),
         DoCommit(t), mode[connOf[t]] = "write", pc[t] \notin Growing, HistoryGrows,
         pc'[t] = "seed" => /\ SeedAwaited(t)' /\ call'[t] = call[t]
                            /\ history[call[t].doc] = <<>>
  PROVE  LogBody'
<1>1. \A d \in Docs : LogKept(d, d \notin Published)'
  <2> TAKE d \in Docs
  <2>1. PICK seed \in BOOLEAN : seed = (d \notin Published)
    OBVIOUS
  <2>2. LogKept(d, seed)'
    BY <2>1, CommitLog DEF LogBody
  <2> QED
    BY <2>1, <2>2
<1>2. ASSUME NEW d \in Docs, NEW log \in Logs(d)'
      PROVE  Faithful(log, d)'
  <2>1. log \in Logs(d)
    BY <1>2, LogsOf DEF Writeless
  <2> QED
    BY <2>1, LogsTyped, FaithfulStays DEF LogBody, HistoryGrows
<1>3. ASSUME NEW u \in Threads, u # t, pc'[u] = "seed"
      PROVE  SeedAwaited(u)'
  <2>1. SeedAwaited(u) /\ pc[u] = "seed" /\ call'[u] = call[u] /\ row'[u] = row[u]
    BY <1>3 DEF LogBody, OthersRest, Resting
  <2>2. PICK d \in Docs : d = call[u].doc
    BY CallTypes
  <2>3. /\ d \notin Published /\ history[d] # <<>> /\ history[d][1].content = row[u].content
        /\ LogKept(d, FALSE)
    BY <2>1, <2>2 DEF SeedAwaited
  <2>4. LogKept(d, FALSE)'
    BY <2>3, CommitLog
  <2>5. history'[d] # <<>> /\ history'[d][1].content = row'[u].content
    BY <2>1, <2>3, FirstStays
  <2>6. LogKept(call[u].doc, FALSE)'
    BY <2>1, <2>2, <2>4 DEF LogKept, LogInStep
  <2> QED
    BY <2>1, <2>2, <2>3, <2>5, <2>6 DEF SeedAwaited
<1>4. ASSUME NEW u \in Threads, NEW w \in Threads, pc'[u] = "seed", pc'[w] = "seed", u # w
      PROVE  call'[u].doc # call'[w].doc
  <2>1. \A x \in Threads \ {t} : pc'[x] = "seed" =>
          /\ pc[x] = "seed" /\ call'[x] = call[x] /\ history[call[x].doc] # <<>>
    BY ZenonT(40) DEF LogBody, SeedAwaited, OthersRest, Resting
  <2> QED
    BY <1>4, <2>1 DEF LogBody
<1>5. \A d \in Published : history'[d] # <<>>
  BY DocAssumption, FirstStays DEF LogBody
<1> QED
  BY <1>1, <1>2, <1>3, <1>4, <1>5 DEF LogBody

\* The commit of an update.
LEMMA CommitUpdateLogs ==
  ASSUME TypeOK, Structure, Unshared, LogBody, NEW t \in Threads, ~mixed', CommitUpdate(t)
  PROVE  LogBody'
<1>1. pc[t] = "commit" /\ pc[t] \in Holding /\ pc[t] \notin Growing
  BY DEF CommitUpdate, Holding, Growing
<1>2. mode[connOf[t]] = "write" /\ InTransaction(t)
  BY <1>1, HolderFacts
<1>3. PICK d \in Docs : d = call[t].doc
  BY CallTypes
<1>4. PICK e \in [content : Nat, onto : Nat] : e = Acknowledged(call[t].id, call[t].ifVersion)
  BY CallTypes DEF Acknowledged
<1>5. /\ DoCommit(t) /\ Goto(t, "reread")
      /\ history' = [history EXCEPT ![d] = Append(@, e)]
  BY <1>2, <1>3, <1>4 DEF CommitUpdate
<1>6. OthersRest(t) /\ pc'[t] # "seed"
  BY <1>5, PlainLabels, PlainMoves
<1>7. HistoryGrows
  BY <1>5 DEF HistoryGrows, TypeOK
<1> QED
  BY <1>1, <1>2, <1>5, <1>6, <1>7, CommitLogs

\* The commit of a new document: a fork awaits its seed from here on.
LEMMA CommitInsertLogs ==
  ASSUME TypeOK, Structure, Unshared, LogBody, NEW t \in Threads, ~mixed', CommitInsert(t)
  PROVE  LogBody'
<1>1. /\ pc[t] = "insertCommit" /\ pc[t] \in Holding /\ pc[t] \notin Growing
      /\ pc[t] \in Creating /\ DoCommit(t)
  BY DEF CommitInsert, Holding, Growing, Creating
<1>2. /\ mode[connOf[t]] = "write" /\ Seen(t).docs = Pending(t) /\ connOf[t] \in Conns
      /\ opener[connOf[t]].by = t
  BY <1>1, HolderFacts, ModeTypes, PerThreadParts DEF Unshared, HoldsLock
<1>3. PICK d \in Docs : d = call[t].doc
  BY CallTypes
<1>4. history[d] = <<>> /\ disk.docs[d] = NoRow /\ d \notin Published
  BY <1>1, <1>3 DEF Unshared, NewDocsUnknown, Expected, LogBody
<1>5. /\ history' = [history EXCEPT ![d] = <<Acknowledged(NewContent(t), 0)>>]
      /\ Goto(t, IF call[t].op = "fork" THEN "seed" ELSE "audit")
      /\ {"seed", "audit"} \subseteq Labels
  BY <1>3 DEF CommitInsert, NewContent, Labels
<1>6. /\ pc'[t] = (IF call[t].op = "fork" THEN "seed" ELSE "audit") /\ call'[t] = call[t]
      /\ row'[t] = row[t] /\ Move(t) /\ OthersRest(t)
  BY <1>5, MoveFacts, MoveRests
<1>7. HistoryGrows
  BY <1>4, <1>5 DEF HistoryGrows, TypeOK
<1>8. LogKept(d, FALSE)
  <2>1. disk.revs[d] = <<>> /\ Seen(t).revs[d] = <<>>
    BY <1>4, NewDocLogs, LogsOf, ZenonT(40) DEF Logs
  <2>2. LogRests(disk, d, FALSE)
    BY <1>4, <2>1 DEF LogRests, NoRow
  <2>3. Seen(t).docs[d].ver = 1
    <3>1. disk.docs \in [Docs -> Rows]
      BY RowSays
    <3> QED
      BY <1>1, <1>2, <1>3, <3>1 DEF Pending
  <2>4. LogRests(Seen(t), d, FALSE)
    <3>1. Rests(<<>>, 0, FALSE)
      BY EmptyRests
    <3>2. Seen(t).docs[d].ver # 0 /\ Seen(t).docs[d].ver - 1 = 0
      BY <2>3
    <3> QED
      BY <2>1, <3>1, <3>2 DEF LogRests
  <2>5. ASSUME NEW x \in Conns, mode[x] = "write"
        PROVE  LogInStep(opener[x].by, view[x], d, FALSE)
    <3>1. x = connOf[t]
      BY <1>2, <2>5 DEF Structure, OneWriter
    <3> QED
      BY <1>1, <1>2, <2>4, <3>1, LogInStepRests DEF Seen
  <2> QED
    BY <2>2, <2>5 DEF LogKept
<1>9. ASSUME pc'[t] = "seed"
      PROVE  SeedAwaited(t)' /\ history[call[t].doc] = <<>>
  <2>1. call[t].op = "fork"
    BY <1>6, <1>9
  <2>2. history'[d] = <<Acknowledged(row[t].content, 0)>>
    BY <1>5, <2>1 DEF NewContent, TypeOK
  <2>3. history'[d] # <<>> /\ history'[d][1].content = row'[t].content
    BY <1>6, <2>2 DEF Acknowledged
  <2>4. LogKept(d, FALSE)'
    BY <1>1, <1>2, <1>8, CommitLog
  <2>5. LogKept(call[t].doc, FALSE)'
    BY <1>3, <1>6, <2>4 DEF LogKept, LogInStep
  <2> QED
    BY <1>3, <1>4, <1>6, <2>3, <2>5 DEF SeedAwaited
<1> QED
  BY <1>1, <1>2, <1>6, <1>7, <1>9, CommitLogs


\* The call of a handler writes nothing.
LEMMA StartLogs ==
  ASSUME TypeOK, Structure, Unshared, LogBody, NEW t \in Threads, ~mixed', Start(t)
  PROVE  LogBody'
<1>1. /\ pc[t] = "idle" /\ NoStatement /\ OthersRest(t) /\ history' = history
      /\ pc'[t] \in {"check", "touch", "insert", "readSource"}
  BY StartFacts
<1>2. pc[t] \notin Growing /\ pc'[t] \notin Growing /\ pc'[t] # "seed"
  BY <1>1 DEF Growing
<1> QED
  BY <1>1, <1>2, WritelessLogs DEF Writeless

\* A process that stops takes its transaction's logs with it, and the seeds
\* its forks had not written.
LEMMA CrashLogs ==
  ASSUME TypeOK, Structure, LogBody, NEW c \in Conns, Crash(c)
  PROVE  LogBody'
<1>1. /\ mode \in [Conns -> Modes] /\ DOMAIN opener = Conns /\ view \in [Conns -> Tables]
      /\ \A t \in Threads : connOf[t] \in Conns
  BY ModeTypes
<1>2. /\ mode' = [mode EXCEPT ![c] = "none"] /\ view' = [view EXCEPT ![c] = disk]
      /\ disk' = disk /\ opener' = [opener EXCEPT ![c] = NoOpener] /\ connOf' = connOf
      /\ history' = history
  BY DEF Crash, Rollback, Keep
<1>3. \A u \in Threads : /\ connOf[u] = c => pc'[u] = "idle"
                         /\ connOf[u] # c => Resting(u)
  BY DEF Crash, Resting
<1>4. ASSUME NEW d \in Docs, NEW seed \in BOOLEAN, LogKept(d, seed)
      PROVE  LogKept(d, seed)'
  <2>1. LogRests(disk, d, seed)'
    BY <1>2, <1>4 DEF LogKept, LogRests
  <2>2. ASSUME NEW x \in Conns, mode'[x] = "write"
        PROVE  LogInStep(opener[x].by, view[x], d, seed)'
    <3>1. x # c /\ mode[x] = "write" /\ opener'[x] = opener[x] /\ view'[x] = view[x]
      BY <1>1, <1>2, <2>2
    <3>2. PICK u \in Threads : u = opener[x].by /\ connOf[u] = x
      BY <3>1 DEF Structure, OpenerKnown
    <3>3. PICK T : T = view[x]
      OBVIOUS
    <3>4. LogInStep(u, T, d, seed)
      BY <1>4, <3>1, <3>2, <3>3 DEF LogKept
    <3>5. LogInStep(u, T, d, seed)'
      BY <1>3, <3>1, <3>2, <3>4, LogInStepSame
    <3>6. view'[x] = T /\ opener'[x].by = u
      BY <3>1, <3>2, <3>3
    <3> QED
      BY <3>5, <3>6 DEF LogInStep
  <2> QED
    BY <2>1, <2>2 DEF LogKept
<1>5. \A d \in Docs : LogKept(d, d \notin Published)'
  <2> TAKE d \in Docs
  <2>1. PICK seed \in BOOLEAN : seed = (d \notin Published)
    OBVIOUS
  <2>2. LogKept(d, seed)'
    BY <1>4, <2>1 DEF LogBody
  <2> QED
    BY <2>1, <2>2
<1>6. ASSUME NEW d \in Docs, NEW log \in Logs(d)'
      PROVE  Faithful(log, d)'
  <2>1. log \in Logs(d)
    BY <1>1, <1>2, <1>6 DEF Logs
  <2> QED
    BY <1>2, <2>1 DEF LogBody, Faithful
<1>7. ASSUME NEW u \in Threads, pc'[u] = "seed"
      PROVE  /\ pc[u] = "seed" /\ call'[u] = call[u] /\ row'[u] = row[u]
             /\ SeedAwaited(u)'
  <2>1. pc[u] = "seed" /\ call'[u] = call[u] /\ row'[u] = row[u]
    BY <1>3, <1>7 DEF Resting
  <2>2. PICK d \in Docs : d = call[u].doc
    BY CallTypes
  <2>3. SeedAwaited(u) /\ LogKept(d, FALSE)
    BY <2>1, <2>2 DEF LogBody, SeedAwaited
  <2>4. LogKept(d, FALSE)'
    BY <1>4, <2>3
  <2>5. LogKept(call[u].doc, FALSE)'
    BY <2>1, <2>2, <2>4 DEF LogKept, LogInStep
  <2> QED
    BY <1>2, <2>1, <2>3, <2>5 DEF SeedAwaited
<1> QED
  BY <1>2, <1>5, <1>6, <1>7 DEF LogBody

\* Every step of a thread keeps the logs.
LEMMA StepLogs ==
  ASSUME TypeOK, Structure, Unshared, LogBody, NEW t \in Threads, ~mixed', Step(t)
  PROVE  LogBody'
  BY PlainActionsKeep, InsertRevisionLogs, WriteVersionLogs, PruneRevisionsLogs,
     CommitUpdateLogs, InsertDocLogs, CommitInsertLogs, SeedRevisionLogs, DeleteDocLogs DEF Step

\* The logs are empty at the start.
LEMMA InitLogs == Init => LogInv
<1> SUFFICES ASSUME Init PROVE LogBody
  BY DEF LogInv, LogBody
<1>1. disk = EmptyTables /\ \A c \in Conns : mode[c] = "none" /\ view[c] = EmptyTables
  BY DEF Init, SqliteInit
<1>2. \A d \in Docs : EmptyTables.revs[d] = <<>>
  BY DEF EmptyTables
<1>3. \A d \in Docs : EmptyTables.docs[d].ver = 0 \/ EmptyTables.docs[d].ver = 1
  BY DEF EmptyTables, NoRow
<1>4. ASSUME NEW d \in Docs, NEW seed \in BOOLEAN
      PROVE  LogKept(d, seed)
  <2>1. CASE EmptyTables.docs[d].ver = 0
    BY <1>1, <1>2, <2>1 DEF LogKept, LogRests
  <2>2. CASE EmptyTables.docs[d].ver = 1
    <3>1. Rests(<<>>, 0, seed) /\ EmptyTables.docs[d].ver # 0 /\ EmptyTables.docs[d].ver - 1 = 0
      BY <2>2, EmptyRests
    <3> QED
      BY <1>1, <1>2, <3>1 DEF LogKept, LogRests
  <2> QED
    BY <1>3, <2>1, <2>2
<1>5. ASSUME NEW d \in Docs, NEW log \in Logs(d)
      PROVE  Faithful(log, d)
  <2>1. log = <<>>
    BY <1>1, <1>2, <1>5 DEF Logs
  <2> QED
    BY <2>1 DEF Faithful
<1>6. \A t \in Threads : pc[t] # "seed"
  BY DEF Init
<1>7. \A d \in Published : history[d] # <<>>
  BY DocAssumption DEF Init
<1>8. \A d \in Docs : LogKept(d, d \notin Published)
  <2> TAKE d \in Docs
  <2>1. PICK seed \in BOOLEAN : seed = (d \notin Published)
    OBVIOUS
  <2> QED
    BY <1>4, <2>1
<1> QED
  BY <1>5, <1>6, <1>7, <1>8 DEF LogBody

\* Every step keeps the logs as LogInv has them.
LEMMA NextLogs == IInv /\ LogInv /\ [Next]_vars => LogInv'
<1> SUFFICES ASSUME IInv, LogInv, [Next]_vars, ~mixed' PROVE LogBody'
  BY DEF LogInv, LogBody
<1>1. TypeOK /\ Structure
  BY DEF IInv, Structure
<1>2. CASE UNCHANGED vars
  <2>1. UNCHANGED <<disk, mode, view, pc, call, row, opener, mixed, history>>
    BY <1>2 DEF vars, sqliteVars, threadVars, ghostVars
  <2>2. LogBody
    BY <2>1 DEF LogInv, LogBody
  <2> QED
    <3>1. ASSUME NEW d, NEW seed, LogKept(d, seed)
          PROVE  LogKept(d, seed)'
      BY <2>1, <3>1 DEF LogKept, LogInStep, LogRests
    <3>2. \A d \in Docs : LogKept(d, d \notin Published)'
      <4> TAKE d \in Docs
      <4>1. PICK seed \in BOOLEAN : seed = (d \notin Published)
        OBVIOUS
      <4> QED
        BY <2>2, <3>1, <4>1 DEF LogBody
    <3>3. ASSUME NEW d \in Docs, NEW log \in Logs(d)'
          PROVE  Faithful(log, d)'
      BY <2>1, <2>2, <3>3 DEF LogBody, Logs, Faithful
    <3>4. ASSUME NEW t \in Threads, pc'[t] = "seed"
          PROVE  SeedAwaited(t)'
      <4>1. SeedAwaited(t)
        BY <2>1, <2>2, <3>4 DEF LogBody
      <4>2. LogKept(call[t].doc, FALSE)'
        BY <2>1, <4>1 DEF SeedAwaited, LogKept, LogInStep, LogRests
      <4> QED
        BY <2>1, <4>1, <4>2 DEF SeedAwaited
    <3> QED
      BY <2>1, <2>2, <3>2, <3>3, <3>4 DEF LogBody
<1>3. ASSUME NEW t \in Threads, Start(t) \/ Step(t)
      PROVE  LogBody'
  <2>1. Statement(t)
    BY <1>1, <1>3, StartFacts, ThreadStepTypes DEF Statement
  <2>2. ~mixed
    BY <1>1, <2>1, ModeTypes
       DEF Statement, Read, Refused, DoCommit, DoRollback, NoStatement, Write, Ascribe
  <2>3. Unshared /\ LogBody
    BY <2>2 DEF IInv, LogInv, LogBody
  <2> QED
    BY <1>1, <1>3, <2>3, StartLogs, StepLogs
<1>4. ASSUME NEW c \in Conns, Crash(c)
      PROVE  LogBody'
  <2>1. ~mixed
    BY <1>4 DEF Crash
  <2>2. LogBody
    BY <2>1 DEF LogInv, LogBody
  <2> QED
    BY <1>1, <1>4, <2>2, CrashLogs
<1> QED
  BY <1>2, <1>3, <1>4 DEF Next

\* The invariant of the logs: until two threads share a transaction, every log, committed or
\* not, is a run of the superseded versions with at most one seed in it, and
\* every revision has the content its version had.
THEOREM LogInvariance == Spec => []LogInv
  BY InitLogs, NextLogs, Invariance, PTL DEF Spec

\* insert_revision and fork_document: a committed revision is the content its
\* version really had, whatever the other connections commit in between.
THEOREM RevisionsAreTrue == Spec => []RevisionsFaithful
<1>1. IInv /\ LogInv => RevisionsFaithful
  <2> SUFFICES ASSUME IInv, LogInv, Whole, NEW d \in Docs, NEW i \in 1..Len(disk.revs[d])
               PROVE  /\ disk.revs[d][i].ver \in 1..Len(history[d])
                      /\ disk.revs[d][i].content = history[d][disk.revs[d][i].ver].content
    BY DEF RevisionsFaithful
  <2>1. LogBody
    BY DEF IInv, Whole, LogInv, LogBody
  <2>2. Faithful(disk.revs[d], d)
    BY <2>1 DEF LogBody, Logs
  <2> QED
    BY <2>2 DEF Faithful
<1> QED
  BY <1>1, Invariance, LogInvariance, PTL


-----------------------------------------------------------------------------
(* The window of versions a committed log holds.                           *)

\* The versions 1 to n in order are a sequence.
LEMMA VersionsType ==
  ASSUME NEW n \in Nat
  PROVE  /\ [v \in 1..n |-> v] \in Seq(Nat) /\ Len([v \in 1..n |-> v]) = n
         /\ \A j \in 1..n : [v \in 1..n |-> v][j] = j
<1>1. [v \in 1..n |-> v] \in Seq(Nat)
  BY IsASeq
<1> QED
  BY <1>1, LenProperties

\* So are the versions a log names.
LEMMA NamedType ==
  ASSUME NEW log \in Seq(Rows)
  PROVE  /\ [j \in 1..Len(log) |-> log[j].ver] \in Seq(Nat)
         /\ Len([j \in 1..Len(log) |-> log[j].ver]) = Len(log) /\ Len(log) \in Nat
         /\ \A i \in 1..Len(log) : [j \in 1..Len(log) |-> log[j].ver][i] = log[i].ver
<1>1. Len(log) \in Nat
  BY LenProperties
<1>2. \A j \in 1..Len(log) : log[j].ver \in Nat
  BY <1>1, ElementOfSeq, RowFields
<1>3. [j \in 1..Len(log) |-> log[j].ver] \in Seq(Nat)
  BY <1>1, <1>2, IsASeq
<1> QED
  BY <1>1, <1>3, LenProperties

\* The last versions of n.
LEMMA LastVersions ==
  ASSUME NEW n \in Nat, NEW m \in Nat
  PROVE  /\ LastN([v \in 1..n |-> v], m) \in Seq(Nat)
         /\ Len(LastN([v \in 1..n |-> v], m)) = Least(n, m) /\ Least(n, m) \in Nat
         /\ \A j \in 1..Least(n, m) : LastN([v \in 1..n |-> v], m)[j] = n - Least(n, m) + j
<1>1. PICK s \in Seq(Nat) : s = [v \in 1..n |-> v] /\ Len(s) = n /\ \A j \in 1..n : s[j] = j
  BY VersionsType
<1>2. PICK k \in Nat : k = Least(n, m) /\ k <= n
  BY LeastFacts
<1>3. /\ LastN(s, m) \in Seq(Nat) /\ Len(LastN(s, m)) = k
      /\ \A j \in 1..k : LastN(s, m)[j] = s[n - k + j]
  <2>1. /\ LastN(s, m) \in Seq(Nat) /\ Len(LastN(s, m)) = Least(Len(s), m)
        /\ \A j \in 1..Least(Len(s), m) :
             LastN(s, m)[j] = s[Len(s) - Least(Len(s), m) + j]
    <3>1. s \in Seq(Nat) /\ m \in Nat
      BY <1>1
    <3> QED
      BY <3>1, LastNFacts, ZenonT(30)
  <2>2. Len(s) = n /\ Least(Len(s), m) = k
    BY <1>1, <1>2
  <2> QED
    BY <2>1, <2>2
<1>4. \A j \in 1..k : n - k + j \in 1..n
  BY <1>2
<1>5. \A j \in 1..k : LastN(s, m)[j] = n - k + j
  BY <1>1, <1>3, <1>4
<1> QED
  BY <1>1, <1>2, <1>3, <1>5

\* A sequence without one of its entries.
LEMMA WithoutFacts ==
  ASSUME NEW s \in Seq(Nat), NEW len \in Nat, Len(s) = len + 1, NEW i \in 1..len + 1
  PROVE  /\ Without(s, i) \in Seq(Nat) /\ Len(Without(s, i)) = len
         /\ \A j \in 1..i - 1 : Without(s, i)[j] = s[j]
         /\ \A j \in i..len : Without(s, i)[j] = s[j + 1]
<1>1. \A j \in 1..len + 1 : s[j] \in Nat
  BY ElementOfSeq
<1>2. PICK head : head = SubSeq(s, 1, i - 1)
  OBVIOUS
<1>3. PICK tail : tail = SubSeq(s, i + 1, len + 1)
  OBVIOUS
<1>4. head \in Seq(Nat) /\ Len(head) = i - 1 /\ \A j \in 1..i - 1 : head[j] = s[j]
  <2>1. 1 \in 1..Len(s) + 1 /\ i - 1 \in 1 - 1..Len(s) /\ \A j \in 1..i - 1 : s[j] \in Nat
    BY <1>1
  <2> QED
    BY <1>2, <2>1, SubSeqProperties
<1>5. /\ tail \in Seq(Nat) /\ Len(tail) = len + 1 - i
      /\ \A j \in 1..len + 1 - i : tail[j] = s[i + j]
  <2>1. /\ i + 1 \in 1..Len(s) + 1 /\ len + 1 \in (i + 1) - 1..Len(s)
        /\ \A j \in i + 1..len + 1 : s[j] \in Nat
    BY <1>1
  <2>2. /\ SubSeq(s, i + 1, len + 1) \in Seq(Nat)
        /\ Len(SubSeq(s, i + 1, len + 1))
             = IF i + 1 <= len + 1 THEN (len + 1) - (i + 1) + 1 ELSE 0
        /\ \A j \in 1..(len + 1) - (i + 1) + 1 :
             SubSeq(s, i + 1, len + 1)[j] = s[(i + 1) + j - 1]
    <3>1. i + 1 \in Int /\ len + 1 \in Int
      OBVIOUS
    <3> QED
      BY <2>1, <3>1, SubSeqProperties
  <2>3. (len + 1) - (i + 1) + 1 = len + 1 - i /\ (i + 1 <= len + 1 \/ len + 1 - i = 0)
    OBVIOUS
  <2>4. \A j \in 1..len + 1 - i : (i + 1) + j - 1 = i + j
    OBVIOUS
  <2> QED
    BY <1>3, <2>2, <2>3, <2>4
<1>6. Without(s, i) = head \o tail
  BY <1>2, <1>3 DEF Without
<1>7. /\ head \o tail \in Seq(Nat) /\ Len(head \o tail) = len
      /\ \A j \in 1..i - 1 : (head \o tail)[j] = head[j]
      /\ \A j \in i..len : (head \o tail)[j] = tail[j - (i - 1)]
  <2>1. /\ head \o tail \in Seq(Nat) /\ Len(head \o tail) = Len(head) + Len(tail)
        /\ \A j \in 1..Len(head) + Len(tail) :
             (head \o tail)[j] = IF j <= Len(head) THEN head[j] ELSE tail[j - Len(head)]
    BY <1>4, <1>5, ConcatProperties
  <2>2. /\ Len(head) = i - 1 /\ Len(head) + Len(tail) = len
        /\ i \in Nat /\ i >= 1 /\ i <= len + 1
    BY <1>4, <1>5
  <2>3. \A j \in 1..i - 1 : j \in 1..len /\ j <= i - 1
    BY <2>2
  <2>4. \A j \in i..len : j \in 1..len /\ ~(j <= i - 1)
    BY <2>2
  <2> QED
    BY <2>1, <2>2, <2>3, <2>4
<1>8. \A j \in i..len : tail[j - (i - 1)] = s[j + 1]
  BY <1>5
<1> QED
  BY <1>4, <1>6, <1>7, <1>8

\* A run is what RevisionWindow says of a log without a seed.
LEMMA RunSays ==
  ASSUME NEW log \in Seq(Rows), NEW n \in Nat, NEW m \in Nat, Run(log, n, Least(n, m))
  PROVE  [j \in 1..Len(log) |-> log[j].ver] = LastN([v \in 1..n |-> v], m)
<1>1. PICK s \in Seq(Nat) : /\ s = [j \in 1..Len(log) |-> log[j].ver] /\ Len(s) = Len(log)
                            /\ \A j \in 1..Len(log) : s[j] = log[j].ver
  BY NamedType
<1>2. PICK k \in Nat : k = Least(n, m)
  BY LastVersions
<1>3. PICK last \in Seq(Nat) : /\ last = LastN([v \in 1..n |-> v], m) /\ Len(last) = k
                               /\ \A j \in 1..k : last[j] = n - k + j
  <2>1. /\ LastN([v \in 1..n |-> v], m) \in Seq(Nat)
        /\ Len(LastN([v \in 1..n |-> v], m)) = Least(n, m)
        /\ \A j \in 1..Least(n, m) :
             LastN([v \in 1..n |-> v], m)[j] = n - Least(n, m) + j
    BY LastVersions
  <2> QED
    BY <1>2, <2>1, Zenon
<1>4. Len(log) = k /\ \A j \in 1..k : log[j].ver = n - k + j
  BY <1>2 DEF Run
<1>5. s = last
  <2>1. Len(s) = Len(last) /\ \A j \in 1..Len(s) : s[j] = last[j]
    BY <1>1, <1>3, <1>4
  <2> QED
    BY <1>1, <1>3, <2>1, SeqEqual
<1> QED
  BY <1>1, <1>3, <1>5

\* A run with a seed is what it says of a log with one.
LEMMA SeededSays ==
  ASSUME NEW log \in Seq(Rows), NEW n \in Nat, NEW m \in Nat, NEW i \in 1..Len(log),
         Seeded(log, n, Least(n, m), i)
  PROVE  /\ i \in DOMAIN [j \in 1..Len(log) |-> log[j].ver]
         /\ [j \in 1..Len(log) |-> log[j].ver][i] = 1
         /\ Without([j \in 1..Len(log) |-> log[j].ver], i) = LastN([v \in 1..n |-> v], m)
<1>1. PICK s \in Seq(Nat) : /\ s = [j \in 1..Len(log) |-> log[j].ver] /\ Len(s) = Len(log)
                            /\ \A j \in 1..Len(log) : s[j] = log[j].ver
  BY NamedType
<1>2. PICK k \in Nat : k = Least(n, m)
  BY LastVersions
<1>3. PICK last \in Seq(Nat) : /\ last = LastN([v \in 1..n |-> v], m) /\ Len(last) = k
                               /\ \A j \in 1..k : last[j] = n - k + j
  <2>1. /\ LastN([v \in 1..n |-> v], m) \in Seq(Nat)
        /\ Len(LastN([v \in 1..n |-> v], m)) = Least(n, m)
        /\ \A j \in 1..Least(n, m) :
             LastN([v \in 1..n |-> v], m)[j] = n - Least(n, m) + j
    BY LastVersions
  <2> QED
    BY <1>2, <2>1, Zenon
<1>4. /\ Len(log) = k + 1 /\ log[i].ver = 1
      /\ \A j \in 1..i - 1 : log[j].ver = n - k + j
      /\ \A j \in i + 1..k + 1 : log[j].ver = n - k + j - 1
  BY <1>2 DEF Seeded
<1>5. i \in 1..k + 1
  BY <1>4
<1>6. PICK rest \in Seq(Nat) : /\ rest = Without(s, i) /\ Len(rest) = k
                               /\ \A j \in 1..i - 1 : rest[j] = s[j]
                               /\ \A j \in i..k : rest[j] = s[j + 1]
  <2>1. k \in Nat /\ Len(s) = k + 1
    BY <1>1, <1>2, <1>4
  <2>2. /\ Without(s, i) \in Seq(Nat) /\ Len(Without(s, i)) = k
        /\ \A j \in 1..i - 1 : Without(s, i)[j] = s[j]
        /\ \A j \in i..k : Without(s, i)[j] = s[j + 1]
    BY <1>1, <1>5, <2>1, WithoutFacts
  <2> QED
    BY <2>2, Zenon
<1>7. ASSUME NEW j \in 1..k
      PROVE  rest[j] = n - k + j
  <2>1. CASE j < i
    <3>1. j \in 1..i - 1 /\ j \in 1..Len(log)
      BY <1>4, <1>5, <1>7, <2>1
    <3> QED
      BY <1>1, <1>4, <1>6, <3>1
  <2>2. CASE ~(j < i)
    <3>1. j \in i..k /\ j + 1 \in i + 1..k + 1 /\ j + 1 \in 1..Len(log)
      BY <1>4, <1>5, <1>7, <2>2
    <3>2. rest[j] = log[j + 1].ver /\ log[j + 1].ver = n - k + (j + 1) - 1
      BY <1>1, <1>4, <1>6, <3>1
    <3>3. n - k + (j + 1) - 1 = n - k + j
      BY <1>2, <1>7
    <3> QED
      BY <3>2, <3>3
  <2> QED
    BY <2>1, <2>2
<1>8. rest = last
  BY <1>3, <1>6, <1>7, SeqEqual
<1>9. i \in DOMAIN [j \in 1..Len(log) |-> log[j].ver] /\ s[i] = 1
  BY <1>1, <1>4
<1> QED
  BY <1>1, <1>3, <1>6, <1>8, <1>9

\* prune_revisions: the committed log of a document is the last
\* MAX_REVISIONS_PER_DOC superseded versions in order, none skipped, none twice,
\* but for the one seed a fork may have added.
THEOREM WindowIsKept == Spec => []RevisionWindow
<1>1. IInv /\ LogInv => RevisionWindow
  <2> SUFFICES ASSUME IInv, LogInv, Whole, NEW d \in Docs
               PROVE  LET log == disk.revs[d]
                          versions == [i \in 1..Len(log) |-> log[i].ver]
                          superseded == [v \in 1..Len(history[d]) - 1 |-> v]
                      IN  IF disk.docs[d] = NoRow THEN log = <<>>
                          ELSE \/ versions = LastN(superseded, MaxRevisions)
                               \/ /\ d \notin Published
                                  /\ \E i \in DOMAIN versions :
                                       /\ versions[i] = 1
                                       /\ \E n \in {MaxRevisions - 1, MaxRevisions} :
                                            Without(versions, i) = LastN(superseded, n)
    BY DEF RevisionWindow
  <2>1. LogBody /\ Unshared /\ TypeOK
    BY DEF IInv, Whole, LogInv, LogBody
  <2>2. PICK log \in Seq(Rows) : log = disk.revs[d]
    BY <2>1, LogsTyped DEF Logs
  <2>3. PICK seed \in BOOLEAN : seed = (d \notin Published)
    OBVIOUS
  <2>4. LogRests(disk, d, seed)
    BY <2>1, <2>3 DEF LogBody, LogKept
  <2>5. disk.docs[d].ver \in Nat /\ (disk.docs[d].ver = 0 <=> disk.docs[d] = NoRow)
    BY <2>1, RowSays, RowFields DEF NoRow
  <2>6. CASE disk.docs[d] = NoRow
    BY <2>4, <2>5, <2>6 DEF LogRests
  <2>7. CASE disk.docs[d] # NoRow
    <3>1. disk.docs[d].ver = Len(history[d]) /\ disk.docs[d].ver > 0
      BY <2>1, <2>5, <2>7, RowSays
    <3>2. PICK n \in Nat : n = Len(history[d]) - 1
      <4>1. Len(history[d]) \in Nat /\ Len(history[d]) > 0
        BY <2>5, <3>1
      <4>2. Len(history[d]) - 1 \in Nat
        BY <4>1
      <4> QED
        BY <4>2, Zenon
    <3>3. Rests(log, n, seed)
      BY <2>2, <2>4, <3>1, <3>2 DEF LogRests
    <3>4. CASE Run(log, n, Least(n, MaxRevisions))
      <4>1. [i \in 1..Len(log) |-> log[i].ver] = LastN([v \in 1..n |-> v], MaxRevisions)
        BY <3>4, BoundFacts, RunSays
      <4> QED
        BY <2>2, <2>7, <3>2, <4>1
    <3>5. ASSUME seed, NEW m \in {MaxRevisions - 1, MaxRevisions}, NEW i \in 1..Len(log),
                 Seeded(log, n, Least(n, m), i)
          PROVE  /\ d \notin Published
                 /\ \E j \in DOMAIN [h \in 1..Len(log) |-> log[h].ver] :
                      /\ [h \in 1..Len(log) |-> log[h].ver][j] = 1
                      /\ \E k \in {MaxRevisions - 1, MaxRevisions} :
                           Without([h \in 1..Len(log) |-> log[h].ver], j)
                             = LastN([v \in 1..n |-> v], k)
      <4>1. m \in Nat
        BY <3>5, BoundFacts
      <4>2. /\ i \in DOMAIN [h \in 1..Len(log) |-> log[h].ver]
            /\ [h \in 1..Len(log) |-> log[h].ver][i] = 1
            /\ Without([h \in 1..Len(log) |-> log[h].ver], i)
                 = LastN([v \in 1..n |-> v], m)
        <5>1. /\ log \in Seq(Rows) /\ n \in Nat /\ i \in 1..Len(log)
              /\ Seeded(log, n, Least(n, m), i)
          BY <2>2, <3>2, <3>5
        <5> QED
          BY <4>1, <5>1, SeededSays, ZenonT(30)
      <4>3. d \notin Published
        BY <2>3, <3>5
      <4> QED
        BY <3>5, <4>2, <4>3, Zenon
    <3> QED
      BY <2>2, <2>7, <3>2, <3>3, <3>4, <3>5 DEF Rests
  <2> QED
    BY <2>6, <2>7
<1> QED
  BY <1>1, Invariance, LogInvariance, PTL

=============================================================================
