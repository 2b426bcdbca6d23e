----------------------- MODULE EmailDispatcherProofs ------------------------
(***************************************************************************)
(* Proofs about EmailDispatcher, for any mails, retries and stops: its     *)
(* types, one place per mail, the count that drain goes by, and that it    *)
(* implements the Outbox.                                                  *)
(***************************************************************************)
EXTENDS EmailDispatcher, TLAPS, SequenceTheorems, FiniteSetTheorems

-----------------------------------------------------------------------------
(* The inductive invariant.                                                *)

InQueue(m) == \E i \in 1..Len(queue) : queue[i] = m
Somewhere(m) == InQueue(m) \/ m \in asleep \/ m = hand

\* A worker holds a mail exactly while it sends.
HandFull == worker = "sending" <=> hand # NoMail

QueuedOnce == \A i, j \in 1..Len(queue) : queue[i] = queue[j] => i = j

\* The queue, the sleeping retries and the hand have no mail in common.
Apart ==
    \A m \in Mails :
        /\ InQueue(m) => m \notin asleep /\ m # hand
        /\ m \in asleep => m # hand

\* The mails in the three places are the accepted ones.
Accounted == \A m \in Mails : status[m] = "accepted" <=> Somewhere(m)

\* The provider has been called once for each failure, and once more for the
\* mail in hand.
Tries ==
    \A m \in Mails :
        /\ status[m] = "new" => attempt[m] = 0 /\ sends[m] = 0
        /\ status[m] = "accepted" =>
             sends[m] = attempt[m] + IF m = hand THEN 1 ELSE 0

\* Pool threads are in the middle of finitely many puts, of mails accepted once.
Puts == IsFiniteSet(putting) /\ \A m \in putting : status[m] # "new"

IInv ==
    /\ TypeOK /\ HandFull /\ QueuedOnce /\ Apart /\ Accounted /\ Tries
    /\ Puts /\ DrainIsTrue

-----------------------------------------------------------------------------
(* The queue.                                                              *)

\* Append puts one mail behind the others.
LEMMA PutQueue ==
  ASSUME TypeOK, NEW m \in Mails, PutLast(m)
  PROVE  /\ queue' \in Seq(Mails)
         /\ Len(queue') = Len(queue) + 1
         /\ \A i \in 1..Len(queue) : queue'[i] = queue[i]
         /\ queue'[Len(queue) + 1] = m
         /\ \A x : InQueue(x)' <=> InQueue(x) \/ x = m
<1>1. queue \in Seq(Mails) /\ queue' = Append(queue, m)
  BY DEF TypeOK, PutLast
<1>2. /\ queue' \in Seq(Mails)
      /\ Len(queue') = Len(queue) + 1
      /\ \A i \in 1..Len(queue) : queue'[i] = queue[i]
      /\ queue'[Len(queue) + 1] = m
  BY <1>1, AppendProperties
<1>3. Len(queue) \in Nat
  BY <1>1, LenProperties
<1>4. ASSUME NEW x PROVE InQueue(x)' <=> InQueue(x) \/ x = m
  BY <1>2, <1>3 DEF InQueue
<1>5. QED
  BY <1>2, <1>4

\* A mail that was nowhere joins the queue and is there once.
LEMMA PutOnce ==
  ASSUME TypeOK, QueuedOnce, NEW m \in Mails, PutLast(m), ~InQueue(m)
  PROVE  QueuedOnce'
<1>1. Len(queue) \in Nat
  BY LenProperties DEF TypeOK
<1>2. QED
  BY <1>1, PutQueue DEF QueuedOnce, InQueue

\* Waking a worker gives it no mail, and takes none from it.
LEMMA Notified ==
  ASSUME TypeOK, HandFull, NEW m \in Mails, Notify(m), UNCHANGED hand
  PROVE  /\ worker' \in {"none", "ready", "leaving", "waiting", "sending", "dead"}
         /\ missed' \in BOOLEAN
         /\ HandFull'
         /\ worker' = "dead" <=> worker = "dead"
<1>1. missed' \in BOOLEAN
  BY Zenon DEF Notify
<1>2. worker' = IF worker = "waiting" THEN "ready" ELSE worker
  BY DEF Notify
<1>3. QED
  BY <1>1, <1>2 DEF TypeOK, HandFull

\* What the count is compared with beside the queue: the hand, and a dead worker.
InHand == IF hand = NoMail THEN 0 ELSE 1
Left == IF worker = "dead" THEN 1 ELSE 0

\* The count stays true when both sides of it grow alike.
LEMMA CountedAlike ==
  ASSUME DrainIsTrue, UNCHANGED hand, worker' = "dead" <=> worker = "dead",
         Len(queue) \in Nat, Len(queue') \in Nat, unfinished \in Nat, unfinished' \in Nat,
         Cardinality(putting) \in Nat, Cardinality(putting') \in Nat,
         unfinished' + Cardinality(putting') + Len(queue) =
             unfinished + Cardinality(putting) + Len(queue')
  PROVE  DrainIsTrue'
<1>1. InHand \in 0..1 /\ Left \in 0..1 /\ InHand' = InHand /\ Left' = Left
  BY DEF InHand, Left
<1>2. unfinished + Cardinality(putting) = Len(queue) + InHand + Left
  BY DEF DrainIsTrue, InHand, Left
<1>3. PICK extra \in 0..2 : extra = InHand + Left
  BY <1>1
<1>4. unfinished + Cardinality(putting) = Len(queue) + extra
  BY <1>1, <1>2, <1>3
<1>5. unfinished' + Cardinality(putting') = Len(queue') + extra
  BY <1>4
<1>6. unfinished' + Cardinality(putting') = Len(queue') + InHand' + Left'
  BY <1>1, <1>3, <1>5
<1>7. QED
  BY <1>6 DEF DrainIsTrue, InHand, Left

\* A put on the loop, all in one step, keeps the count true.
LEMMA PutCounts ==
  ASSUME TypeOK, HandFull, Puts, DrainIsTrue, NEW m \in Mails, Put(m), UNCHANGED <<putting, hand>>
  PROVE  unfinished' \in Nat /\ DrainIsTrue'
<1>1. Len(queue) \in Nat /\ Len(queue') = Len(queue) + 1 /\ Cardinality(putting) \in Nat
  BY PutQueue, LenProperties, FS_CardinalityType DEF TypeOK, Puts, Put
<1>2. worker' = "dead" <=> worker = "dead"
  BY Notified DEF Put
<1>3. unfinished \in Nat /\ unfinished' = unfinished + 1
  BY DEF TypeOK, Put
<1>4. Cardinality(putting') = Cardinality(putting)
  OBVIOUS
<1>5. QED
  BY <1>1, <1>2, <1>3, <1>4, CountedAlike

\* Tail and Head take the oldest mail and leave the others.
LEMMA TakeQueue ==
  ASSUME TypeOK, QueuedOnce, Take
  PROVE  /\ hand' \in Mails /\ hand' = queue[1] /\ InQueue(hand')
         /\ queue' \in Seq(Mails) /\ Len(queue') = Len(queue) - 1
         /\ \A i \in 1..Len(queue') : queue'[i] = queue[i + 1]
         /\ \A x : InQueue(x)' <=> InQueue(x) /\ x # hand'
<1>1. queue \in Seq(Mails) /\ queue # <<>> /\ queue' = Tail(queue) /\ hand' = Head(queue)
  BY DEF TypeOK, Take
<1>2. /\ Head(queue) \in Mails /\ Head(queue) = queue[1]
      /\ Tail(queue) \in Seq(Mails) /\ Len(Tail(queue)) = Len(queue) - 1
      /\ \A i \in 1..Len(Tail(queue)) : Tail(queue)[i] = queue[i + 1]
  BY <1>1, HeadTailProperties
<1>3. Len(queue) \in Nat \ {0}
  BY <1>1, EmptySeq
<1>4. InQueue(hand')
  BY <1>1, <1>2, <1>3 DEF InQueue
<1>5. ASSUME NEW x PROVE InQueue(x)' <=> InQueue(x) /\ x # hand'
  <2>1. ASSUME InQueue(x)' PROVE InQueue(x) /\ x # hand'
    <3>1. PICK i \in 1..Len(queue') : queue'[i] = x
      BY <2>1 DEF InQueue
    <3>2. i + 1 \in 1..Len(queue) /\ i + 1 # 1 /\ queue[i + 1] = x
      BY <1>1, <1>2, <1>3, <3>1
    <3>3. 1 \in 1..Len(queue)
      BY <1>3
    <3>4. QED
      BY <1>1, <1>2, <3>2, <3>3 DEF InQueue, QueuedOnce
  <2>2. ASSUME InQueue(x), x # hand' PROVE InQueue(x)'
    <3>1. PICK i \in 1..Len(queue) : queue[i] = x
      BY <2>2 DEF InQueue
    <3>2. i - 1 \in 1..Len(queue') /\ queue'[i - 1] = queue[i]
      BY <1>1, <1>2, <1>3, <2>2, <3>1
    <3>3. QED
      BY <3>1, <3>2 DEF InQueue
  <2>3. QED
    BY <2>1, <2>2
<1>6. QED
  BY <1>1, <1>2, <1>4, <1>5

\* A queue that has not changed has the same mails in it.
LEMMA SameQueue ==
  ASSUME UNCHANGED queue
  PROVE  \A x : InQueue(x)' <=> InQueue(x)
  BY DEF InQueue

\* Nothing is in an empty queue.
LEMMA NoQueue ==
  ASSUME queue' = <<>>
  PROVE  (\A x : ~InQueue(x)') /\ Len(queue') = 0
  BY DEF InQueue

\* The mail in hand is a mail while the worker sends.
LEMMA Sending ==
  ASSUME TypeOK, HandFull, worker = "sending"
  PROVE  hand \in Mails
  BY DEF TypeOK, HandFull

-----------------------------------------------------------------------------
(* The invariant holds at first, and every action keeps it.                *)

\* An empty queue, an idle worker and no mail anywhere.
LEMMA InitInv == Init => IInv
<1> SUFFICES ASSUME Init PROVE IInv
  OBVIOUS
<1>1. queue \in Seq(Mails) /\ Len(queue) = 0 /\ \A m : ~InQueue(m)
  BY EmptySeq DEF Init, InQueue
<1>2. TypeOK
  <2>1. 0 \in 0..Retries /\ 0 \in 0..Retries + 1 /\ 0 \in 0..MaxStops
    BY RetryAssumption
  <2>2. QED
    BY <1>1, <2>1 DEF Init, TypeOK
<1>3. Puts /\ Cardinality(putting) = 0
  BY FS_EmptySet DEF Init, Puts
<1>4. HandFull /\ QueuedOnce /\ Apart /\ Accounted /\ Tries /\ DrainIsTrue
  BY <1>1, <1>3, RetryAssumption DEF Init, HandFull, QueuedOnce, Apart, Accounted, Somewhere, Tries, DrainIsTrue
<1>5. QED
  BY <1>2, <1>3, <1>4 DEF IInv

\* A mail that is accepted is new: it was in neither place.
LEMMA AcceptKeeps ==
  ASSUME IInv, NEW m \in Mails, Accept(m), PutLast(m), UNCHANGED <<hand, asleep, attempt, sends>>
  PROVE  QueuedOnce' /\ Apart' /\ Accounted' /\ Tries'
<1>1. /\ TypeOK /\ QueuedOnce /\ Apart /\ Accounted /\ Tries
      /\ status[m] = "new" /\ status' = [status EXCEPT ![m] = "accepted"]
  BY DEF IInv, Accept
<1>2. \A x : InQueue(x)' <=> InQueue(x) \/ x = m
  BY <1>1, PutQueue
<1>3. ~Somewhere(m)
  BY <1>1 DEF Accounted
<1>4. QueuedOnce'
  BY <1>1, <1>3, PutOnce DEF Somewhere
<1>5. Apart' /\ Accounted'
  BY <1>1, <1>2, <1>3 DEF TypeOK, Apart, Accounted, Somewhere
<1>6. Tries'
  BY <1>1, <1>3 DEF TypeOK, Tries, Somewhere
<1>7. QED
  BY <1>4, <1>5, <1>6

\* enqueue on the loop.
LEMMA EnqueueKeeps ==
  ASSUME IInv, NEW m \in Mails, Enqueue(m)
  PROVE  IInv'
<1>1. /\ TypeOK /\ HandFull /\ Puts /\ DrainIsTrue
      /\ Accept(m) /\ Put(m) /\ PutLast(m) /\ Notify(m)
      /\ UNCHANGED <<putting, hand, asleep, attempt, stopped, sends, stops>>
  BY DEF IInv, Enqueue, Put
<1>2. QueuedOnce' /\ Apart' /\ Accounted' /\ Tries'
  BY <1>1, AcceptKeeps
<1>3. unfinished' \in Nat /\ DrainIsTrue'
  BY <1>1, PutCounts
<1>4. TypeOK' /\ HandFull'
  BY <1>1, <1>3, PutQueue, Notified DEF TypeOK, Accept
<1>5. Puts'
  BY <1>1 DEF TypeOK, Puts, Accept
<1>6. QED
  BY <1>2, <1>3, <1>4, <1>5 DEF IInv

\* enqueue on a pool thread, up to the append: the mail was not being put already.
LEMMA EnqueueOffKeeps ==
  ASSUME IInv, NEW m \in Mails, EnqueueOff(m)
  PROVE  IInv'
<1>1. /\ TypeOK /\ HandFull /\ Puts /\ DrainIsTrue
      /\ Accept(m) /\ PutLast(m) /\ putting' = putting \cup {m}
      /\ UNCHANGED <<unfinished, worker, hand, asleep, attempt, stopped, sends, stops, missed>>
  BY DEF IInv, EnqueueOff
<1>2. QueuedOnce' /\ Apart' /\ Accounted' /\ Tries'
  BY <1>1, AcceptKeeps
<1>3. m \notin putting
  BY <1>1 DEF Puts, Accept
<1>4. /\ IsFiniteSet(putting') /\ Cardinality(putting') = Cardinality(putting) + 1
      /\ Cardinality(putting) \in Nat
  BY <1>1, <1>3, FS_AddElement, FS_CardinalityType DEF Puts
<1>5. Len(queue) \in Nat /\ Len(queue') = Len(queue) + 1
  BY <1>1, PutQueue, LenProperties DEF TypeOK
<1>6. TypeOK' /\ HandFull'
  BY <1>1, PutQueue DEF TypeOK, HandFull, Accept
<1>7. Puts'
  BY <1>1, <1>4 DEF TypeOK, Puts, Accept
<1>8. DrainIsTrue'
  <2>1. /\ unfinished \in Nat /\ unfinished' \in Nat /\ Len(queue') \in Nat
        /\ Cardinality(putting') \in Nat
    BY <1>1, <1>4, <1>5 DEF TypeOK
  <2>2. unfinished' + Cardinality(putting') + Len(queue) =
            unfinished + Cardinality(putting) + Len(queue')
    BY <1>1, <1>4, <1>5, <2>1
  <2>3. QED
    BY <1>1, <1>4, <1>5, <2>1, <2>2, CountedAlike
<1>9. QED
  BY <1>2, <1>6, <1>7, <1>8 DEF IInv

\* The rest of that put: one mail less is uncounted.
LEMMA CountOffKeeps ==
  ASSUME IInv, NEW m \in Mails, CountOff(m)
  PROVE  IInv'
<1>1. /\ TypeOK /\ HandFull /\ Puts /\ DrainIsTrue /\ Notify(m)
      /\ m \in putting /\ putting' = putting \ {m} /\ unfinished' = unfinished + 1
      /\ UNCHANGED <<queue, hand, stopped, stops, asleep, attempt, status, sends>>
  BY DEF IInv, CountOff, mailVars
<1>2. \A x : InQueue(x)' <=> InQueue(x)
  BY <1>1, SameQueue
<1>3. /\ IsFiniteSet(putting') /\ Cardinality(putting') = Cardinality(putting) - 1
      /\ Cardinality(putting) \in Nat
  BY <1>1, FS_RemoveElement, FS_CardinalityType DEF Puts
<1>4. Len(queue) \in Nat
  BY <1>1, LenProperties DEF TypeOK
<1>5. TypeOK' /\ HandFull'
  BY <1>1, Notified DEF TypeOK
<1>6. Puts'
  BY <1>1, <1>3 DEF Puts
<1>7. worker' = "dead" <=> worker = "dead"
  BY <1>1, Notified
<1>8. DrainIsTrue'
  <2>1. /\ unfinished \in Nat /\ unfinished' \in Nat /\ Len(queue') = Len(queue)
        /\ Cardinality(putting') \in Nat
    BY <1>1, <1>3, FS_CardinalityType DEF TypeOK
  <2>2. unfinished' + Cardinality(putting') + Len(queue) =
            unfinished + Cardinality(putting) + Len(queue')
    BY <1>1, <1>3, <1>4, <2>1
  <2>3. QED
    BY <1>1, <1>3, <1>4, <1>7, <2>1, <2>2, CountedAlike
<1>9. QueuedOnce' /\ Apart' /\ Accounted' /\ Tries'
  BY <1>1, <1>2 DEF IInv, QueuedOnce, Apart, Accounted, Somewhere, Tries
<1>10. QED
  BY <1>5, <1>6, <1>8, <1>9 DEF IInv

\* A mail whose backoff is over leaves the sleepers for the end of the queue, or is lost.
LEMMA WakeKeeps ==
  ASSUME IInv, NEW m \in Mails, Wake(m)
  PROVE  IInv'
<1>1. /\ TypeOK /\ HandFull /\ QueuedOnce /\ Apart /\ Accounted /\ Tries
      /\ Puts /\ DrainIsTrue
      /\ m \in asleep /\ asleep' = asleep \ {m}
      /\ UNCHANGED <<putting, hand, attempt, stopped, sends, stops>>
  BY DEF IInv, Wake
<1>2. m # hand /\ ~InQueue(m) /\ status[m] = "accepted"
  BY <1>1 DEF Apart, Accounted, Somewhere
<1>3. CASE stopped
  <2>1. /\ status' = [status EXCEPT ![m] = "lost"]
        /\ UNCHANGED <<queue, unfinished, worker, missed>>
    BY <1>3 DEF Wake
  <2>2. \A x : InQueue(x)' <=> InQueue(x)
    BY <2>1, SameQueue
  <2>3. TypeOK' /\ HandFull' /\ QueuedOnce' /\ DrainIsTrue'
    BY <1>1, <2>1 DEF TypeOK, HandFull, QueuedOnce, DrainIsTrue
  <2>4. Apart' /\ Accounted'
    BY <1>1, <1>2, <2>1, <2>2 DEF TypeOK, Apart, Accounted, Somewhere
  <2>5. Tries' /\ Puts'
    BY <1>1, <2>1 DEF TypeOK, Tries, Puts
  <2>6. QED
    BY <2>3, <2>4, <2>5 DEF IInv
<1>4. CASE ~stopped
  <2>1. Put(m) /\ PutLast(m) /\ Notify(m) /\ UNCHANGED status
    BY <1>4 DEF Wake, Put
  <2>2. \A x : InQueue(x)' <=> InQueue(x) \/ x = m
    BY <1>1, <2>1, PutQueue
  <2>3. unfinished' \in Nat /\ DrainIsTrue'
    BY <1>1, <2>1, PutCounts
  <2>4. TypeOK' /\ HandFull'
    BY <1>1, <2>1, <2>3, PutQueue, Notified DEF TypeOK
  <2>5. QueuedOnce'
    BY <1>1, <1>2, <2>1, PutOnce
  <2>6. Apart' /\ Accounted'
    BY <1>1, <1>2, <2>1, <2>2 DEF TypeOK, Apart, Accounted, Somewhere
  <2>7. Tries' /\ Puts'
    BY <1>1, <2>1 DEF Tries, Puts
  <2>8. QED
    BY <2>3, <2>4, <2>5, <2>6, <2>7 DEF IInv
<1>5. QED
  BY <1>3, <1>4

\* The mail at the head goes into the worker's hand and no other.
LEMMA TakeKeeps ==
  ASSUME IInv, Take
  PROVE  IInv'
<1>1. /\ TypeOK /\ HandFull /\ QueuedOnce /\ Apart /\ Accounted /\ Tries
      /\ Puts /\ DrainIsTrue
      /\ worker = "ready" /\ worker' = "sending" /\ hand' = Head(queue)
      /\ sends' = [sends EXCEPT ![hand'] = @ + 1]
      /\ UNCHANGED <<unfinished, putting, asleep, attempt, stopped, status, stops, missed>>
  BY DEF IInv, Take
<1>2. /\ hand' \in Mails /\ hand' = queue[1] /\ InQueue(hand')
      /\ queue' \in Seq(Mails) /\ Len(queue') = Len(queue) - 1
      /\ \A i \in 1..Len(queue') : queue'[i] = queue[i + 1]
      /\ \A x : InQueue(x)' <=> InQueue(x) /\ x # hand'
  BY <1>1, TakeQueue
<1>3. Len(queue) \in Nat \ {0}
  BY <1>1, EmptySeq DEF TypeOK, Take
<1>4. hand = NoMail /\ hand' # NoMail
  BY <1>1, <1>2, RetryAssumption DEF HandFull
<1>5. hand' \notin asleep /\ status[hand'] = "accepted" /\ sends[hand'] = attempt[hand']
  BY <1>1, <1>2, <1>4, RetryAssumption DEF TypeOK, Apart, Accounted, Somewhere, Tries
<1>6. TypeOK'
  BY <1>1, <1>2, <1>5, RetryAssumption DEF TypeOK
<1>7. HandFull' /\ Puts' /\ DrainIsTrue'
  BY <1>1, <1>2, <1>3, <1>4, FS_CardinalityType DEF TypeOK, HandFull, Puts, DrainIsTrue
<1>8. QueuedOnce'
  <2> SUFFICES ASSUME NEW i \in 1..Len(queue'), NEW j \in 1..Len(queue'), queue'[i] = queue'[j]
               PROVE  i = j
    BY DEF QueuedOnce
  <2>1. i + 1 \in 1..Len(queue) /\ j + 1 \in 1..Len(queue)
    BY <1>2, <1>3
  <2>2. queue[i + 1] = queue[j + 1]
    BY <1>2
  <2>3. i + 1 = j + 1
    BY <1>1, <2>1, <2>2 DEF QueuedOnce
  <2>4. QED
    BY <2>3
<1>9. Apart' /\ Accounted'
  BY <1>1, <1>2, <1>4, <1>5, RetryAssumption DEF Apart, Accounted, Somewhere
<1>10. Tries'
  BY <1>1, <1>2, <1>4, <1>5, RetryAssumption DEF TypeOK, Tries
<1>11. QED
  BY <1>6, <1>7, <1>8, <1>9, <1>10 DEF IInv

\* A worker that is made, or finds the queue empty and comes to wait, moves no mail.
LEMMA WorkerKeeps ==
  ASSUME IInv, Start \/ LookEmpty \/ Wait
  PROVE  IInv'
<1>1. /\ worker \in {"none", "ready", "leaving"} /\ worker' \in {"ready", "leaving", "waiting"}
      /\ UNCHANGED <<queue, unfinished, putting, hand, stops, missed, asleep, attempt, status, sends>>
      /\ stopped' \in BOOLEAN
  BY DEF IInv, TypeOK, Start, LookEmpty, Wait, mailVars
<1>2. \A x : InQueue(x)' <=> InQueue(x)
  BY <1>1, SameQueue
<1>3. TypeOK' /\ HandFull' /\ QueuedOnce' /\ Tries' /\ Puts' /\ DrainIsTrue'
  BY <1>1 DEF IInv, TypeOK, HandFull, QueuedOnce, Tries, Puts, DrainIsTrue
<1>4. Apart' /\ Accounted'
  BY <1>1, <1>2 DEF IInv, Apart, Accounted, Somewhere
<1>5. QED
  BY <1>3, <1>4 DEF IInv

\* task_done for the mail in hand keeps the count true, or finds it too low and
\* leaves it so for good.
LEMMA ReleaseKeeps ==
  ASSUME IInv, worker = "sending", NEW next \in {"ready", "none"}, Release(next),
         UNCHANGED <<queue, putting>>
  PROVE  /\ unfinished' \in Nat /\ hand' = NoMail
         /\ worker' \in {"none", "ready", "dead"}
         /\ HandFull' /\ QueuedOnce' /\ DrainIsTrue'
<1>1. hand \in Mails /\ Len(queue) \in Nat /\ Cardinality(putting) \in Nat /\ unfinished \in Nat
  BY Sending, LenProperties, FS_CardinalityType DEF IInv, TypeOK, Puts
<1>2. hand' = NoMail /\ hand # NoMail
  BY <1>1, RetryAssumption DEF Release
<1>3. CASE unfinished = 0
  <2>1. worker' = "dead" /\ UNCHANGED unfinished
    BY <1>3 DEF Release
  <2>2. QED
    BY <1>1, <1>2, <2>1 DEF IInv, HandFull, QueuedOnce, DrainIsTrue
<1>4. CASE unfinished # 0
  <2>1. worker' = next /\ unfinished' = unfinished - 1
    BY <1>4 DEF Release
  <2>2. QED
    BY <1>1, <1>2, <1>4, <2>1 DEF IInv, HandFull, QueuedOnce, DrainIsTrue
<1>5. QED
  BY <1>3, <1>4

\* A mail whose sending is over leaves the hand for good.
LEMMA SettleKeeps ==
  ASSUME IInv, worker = "sending", Release("ready"), status' = [status EXCEPT ![hand] = "settled"],
         UNCHANGED <<queue, putting, asleep, attempt, stopped, sends, stops, missed>>
  PROVE  IInv'
<1>1. hand \in Mails
  BY Sending DEF IInv
<1>2. \A x : InQueue(x)' <=> InQueue(x)
  BY SameQueue
<1>3. /\ unfinished' \in Nat /\ hand' = NoMail
      /\ worker' \in {"none", "ready", "dead"}
      /\ HandFull' /\ QueuedOnce' /\ DrainIsTrue'
  BY ReleaseKeeps
<1>4. TypeOK' /\ Puts'
  BY <1>1, <1>3 DEF IInv, TypeOK, Puts
<1>5. Apart' /\ Accounted'
  BY <1>1, <1>2, <1>3, RetryAssumption DEF IInv, TypeOK, Apart, Accounted, Somewhere
<1>6. Tries'
  BY <1>1, <1>3, RetryAssumption DEF IInv, TypeOK, Tries
<1>7. QED
  BY <1>3, <1>4, <1>5, <1>6 DEF IInv

\* A mail to retry leaves the hand for the sleepers, with one attempt more.
LEMMA FailedKeeps ==
  ASSUME IInv, Failed
  PROVE  IInv'
<1>1. CASE attempt[hand] >= Retries
  BY <1>1, SettleKeeps DEF Failed
<1>2. CASE ~(attempt[hand] >= Retries)
  <2>1. /\ worker = "sending"
        /\ attempt' = [attempt EXCEPT ![hand] = @ + 1]
        /\ asleep' = asleep \cup {hand}
        /\ Release("ready")
        /\ UNCHANGED <<queue, putting, stopped, status, sends, stops, missed>>
    BY <1>2 DEF Failed
  <2>2. hand \in Mails
    BY <2>1, Sending DEF IInv
  <2>3. \A x : InQueue(x)' <=> InQueue(x)
    BY <2>1, SameQueue
  <2>4. /\ unfinished' \in Nat /\ hand' = NoMail
        /\ worker' \in {"none", "ready", "dead"}
        /\ HandFull' /\ QueuedOnce' /\ DrainIsTrue'
    BY <2>1, ReleaseKeeps
  <2>5. attempt[hand] + 1 \in 0..Retries
    BY <1>2, <2>2, RetryAssumption DEF IInv, TypeOK
  <2>6. TypeOK' /\ Puts'
    BY <2>1, <2>2, <2>4, <2>5 DEF IInv, TypeOK, Puts
  <2>7. Apart' /\ Accounted'
    BY <2>1, <2>2, <2>3, <2>4, RetryAssumption DEF IInv, TypeOK, Apart, Accounted, Somewhere
  <2>8. status[hand] = "accepted"
    BY <2>2 DEF IInv, Accounted, Somewhere
  <2>9. Tries'
    BY <2>1, <2>2, <2>4, <2>8, RetryAssumption DEF IInv, TypeOK, Tries
  <2>10. QED
    BY <2>4, <2>6, <2>7, <2>9 DEF IInv
<1>3. QED
  BY <1>1, <1>2

\* stop() loses the mail in hand, and leaves the queue and the sleepers.
LEMMA StopKeeps ==
  ASSUME IInv, Stop
  PROVE  IInv'
<1>1. /\ stopped' = TRUE /\ missed' = FALSE /\ stops < MaxStops /\ stops' = stops + 1
      /\ status' = [m \in Mails |-> IF m = hand THEN "lost" ELSE status[m]]
      /\ UNCHANGED <<queue, putting, asleep, attempt, sends>>
  BY DEF Stop, Lose
<1>2. \A x : InQueue(x)' <=> InQueue(x)
  BY <1>1, SameQueue
<1>3. /\ unfinished' \in Nat /\ hand' = NoMail
      /\ worker' \in {"none", "ready", "dead"}
      /\ HandFull' /\ QueuedOnce' /\ DrainIsTrue'
  <2>1. CASE worker = "sending"
    BY <2>1, <1>1, ReleaseKeeps DEF Stop
  <2>2. CASE worker # "sending"
    <3>1. worker' = IF worker = "dead" THEN "dead" ELSE "none"
      BY <2>2 DEF Stop
    <3>2. UNCHANGED <<unfinished, hand, queue, putting>> /\ hand = NoMail
      BY <1>1, <2>2 DEF Stop, IInv, HandFull
    <3>3. QED
      BY <2>2, <3>1, <3>2 DEF IInv, TypeOK, HandFull, QueuedOnce, DrainIsTrue
  <2>3. QED
    BY <2>1, <2>2
<1>4. TypeOK' /\ Puts'
  <2>1. status' \in [Mails -> {"new", "accepted", "settled", "lost"}] /\ stops' \in 0..MaxStops
    BY <1>1, RetryAssumption DEF IInv, TypeOK
  <2>2. TypeOK'
    BY <1>1, <1>3, <2>1 DEF IInv, TypeOK
  <2>3. Puts'
    BY <1>1 DEF IInv, TypeOK, Puts
  <2>4. QED
    BY <2>2, <2>3
<1>5. Apart'
  BY <1>1, <1>2, <1>3, RetryAssumption DEF IInv, Apart
<1>6. ASSUME NEW m \in Mails PROVE (status[m] = "accepted")' <=> Somewhere(m)'
  <2>1. Somewhere(m)' <=> InQueue(m) \/ m \in asleep
    BY <1>1, <1>2, <1>3, RetryAssumption DEF Somewhere
  <2>2. Somewhere(m)' <=> Somewhere(m) /\ m # hand
    BY <2>1 DEF IInv, Apart, Somewhere
  <2>3. QED
    BY <1>1, <2>2 DEF IInv, Accounted
<1>7. Tries'
  BY <1>1, <1>3, RetryAssumption DEF IInv, TypeOK, Tries
<1>8. QED
  BY <1>3, <1>4, <1>5, <1>6, <1>7 DEF IInv, Accounted

\* The end of the process loses the queue and the sleepers as well.
LEMMA CrashKeeps ==
  ASSUME IInv, Crash
  PROVE  IInv'
<1>1. (\A x : ~InQueue(x)') /\ Len(queue') = 0 /\ queue' \in Seq(Mails)
  BY NoQueue, EmptySeq DEF Crash
<1>2. TypeOK'
  <2>1. status' \in [Mails -> {"new", "accepted", "settled", "lost"}]
    BY DEF IInv, TypeOK, Crash, Lose
  <2>2. stops' \in 0..MaxStops
    BY RetryAssumption DEF IInv, TypeOK, Crash
  <2>3. QED
    BY <1>1, <2>1, <2>2 DEF IInv, TypeOK, Crash
<1>3. Puts' /\ Cardinality(putting') = 0
  BY FS_EmptySet DEF Crash, Puts
<1>4. HandFull' /\ QueuedOnce' /\ DrainIsTrue'
  BY <1>1, <1>3 DEF IInv, Crash, HandFull, QueuedOnce, DrainIsTrue
<1>5. Apart' /\ Accounted'
  BY <1>1, RetryAssumption DEF IInv, TypeOK, Crash, Lose, Apart, Accounted, Somewhere
<1>6. Tries'
  BY RetryAssumption DEF IInv, TypeOK, Crash, Lose, Tries
<1>7. QED
  BY <1>2, <1>3, <1>4, <1>5, <1>6 DEF IInv

\* Every action keeps the invariant.
LEMMA StepKeeps == IInv /\ [Next]_vars => IInv'
<1> SUFFICES ASSUME IInv, [Next]_vars PROVE IInv'
  OBVIOUS
<1>1. ASSUME NEW m \in Mails, Enqueue(m) \/ EnqueueOff(m) \/ CountOff(m) \/ Wake(m)
      PROVE  IInv'
  BY <1>1, EnqueueKeeps, EnqueueOffKeeps, CountOffKeeps, WakeKeeps
<1>2. CASE Start \/ LookEmpty \/ Wait
  BY <1>2, WorkerKeeps
<1>3. CASE Take \/ Failed \/ Stop \/ Crash
  BY <1>3, TakeKeeps, FailedKeeps, StopKeeps, CrashKeeps
<1>4. CASE Settled
  BY <1>4, SettleKeeps DEF Settled
<1>5. CASE UNCHANGED vars
  <2>1. \A x : InQueue(x)' <=> InQueue(x)
    BY <1>5, SameQueue DEF vars
  <2>2. TypeOK' /\ HandFull' /\ QueuedOnce' /\ Tries' /\ Puts' /\ DrainIsTrue'
    BY <1>5 DEF IInv, vars, mailVars, TypeOK, HandFull, QueuedOnce, Tries, Puts, DrainIsTrue
  <2>3. Apart' /\ Accounted'
    BY <1>5, <2>1 DEF IInv, vars, mailVars, Apart, Accounted, Somewhere
  <2>4. QED
    BY <2>2, <2>3 DEF IInv
<1>6. QED
  BY <1>1, <1>2, <1>3, <1>4, <1>5 DEF Next

-----------------------------------------------------------------------------
(* What follows from the invariant.                                        *)

\* A mail is at as many indices of the queue as it is in the queue: one or none.
LEMMA IndicesOf ==
  ASSUME IInv, NEW m \in Mails
  PROVE  Cardinality({i \in DOMAIN queue : queue[i] = m}) = IF InQueue(m) THEN 1 ELSE 0
<1> DEFINE At == {i \in DOMAIN queue : queue[i] = m}
<1>1. DOMAIN queue = 1..Len(queue)
  BY LenProperties DEF IInv, TypeOK
<1>2. CASE InQueue(m)
  <2>1. PICK i \in 1..Len(queue) : queue[i] = m
    BY <1>2 DEF InQueue
  <2>2. At = {i}
    BY <1>1, <2>1 DEF IInv, QueuedOnce
  <2>3. QED
    BY <1>2, <2>2, FS_Singleton
<1>3. CASE ~InQueue(m)
  <2>1. At = {}
    BY <1>1, <1>3 DEF InQueue
  <2>2. QED
    BY <1>3, <2>1, FS_EmptySet
<1>4. QED
  BY <1>2, <1>3

\* _process and _requeue_after: a mail is where it should be, once.
LEMMA InvOnePlace == IInv => OnePlace
<1> SUFFICES ASSUME IInv, NEW m \in Mails
             PROVE  Places(m) = IF status[m] = "accepted" THEN 1 ELSE 0
  BY DEF OnePlace
<1>1. Cardinality({i \in DOMAIN queue : queue[i] = m}) = IF InQueue(m) THEN 1 ELSE 0
  BY IndicesOf
<1>2. QED
  BY <1>1 DEF IInv, Apart, Accounted, Somewhere, Places

\* The first states of the dispatcher are first states of the Outbox.
LEMMA InitRefines == Init => Box!Init
  BY DEF Init, Box!Init

\* Each action is a step of the Outbox or leaves it alone: a mail that is lost
\* was accepted, one that is settled was tried, and no try is one too many.
LEMMA StepRefines == IInv /\ [Next]_vars => [Box!Next]_(Box!vars)
<1> SUFFICES ASSUME IInv, [Next]_vars PROVE [Box!Next]_(Box!vars)
  OBVIOUS
<1> USE DEF Box!Next, Box!vars
<1>1. ASSUME NEW m \in Mails, Enqueue(m) \/ EnqueueOff(m) PROVE Box!Next
  BY <1>1 DEF Enqueue, EnqueueOff, Accept, Box!Accept
<1>2. ASSUME NEW lost \in SUBSET Mails, \A m \in lost : status[m] = "accepted",
             UNCHANGED sends, Lose(lost)
      PROVE  [Box!Next]_(Box!vars)
  <2>1. CASE lost = {}
    <3>1. status' = status
      BY <1>2, <2>1 DEF IInv, TypeOK, Lose
    <3>2. QED
      BY <1>2, <3>1
  <2>2. CASE lost # {}
    BY <1>2, <2>2 DEF Lose, Box!Forget
  <2>3. QED
    BY <2>1, <2>2
<1>3. ASSUME NEW m \in Mails, Wake(m) PROVE [Box!Next]_(Box!vars)
  <2>1. CASE ~stopped
    BY <1>3, <2>1 DEF Wake
  <2>2. CASE stopped
    <3>1. status[m] = "accepted"
      BY <1>3 DEF IInv, Accounted, Somewhere, Wake
    <3>2. Lose({m}) /\ UNCHANGED sends
      BY <1>3, <2>2 DEF IInv, TypeOK, Wake, Lose
    <3>3. QED
      BY <1>2, <3>1, <3>2
  <2>3. QED
    BY <2>1, <2>2
<1>4. ASSUME (\E m \in Mails : CountOff(m)) \/ Start \/ LookEmpty \/ Wait
      PROVE  UNCHANGED Box!vars
  BY <1>4 DEF CountOff, Start, LookEmpty, Wait, mailVars
<1>5. CASE Take
  <2>1. hand' \in Mails /\ InQueue(hand') /\ sends' = [sends EXCEPT ![hand'] = @ + 1] /\ UNCHANGED status
    BY <1>5, TakeQueue DEF IInv, Take
  <2>2. status[hand'] = "accepted" /\ hand' # hand
    BY <2>1 DEF IInv, Apart, Accounted, Somewhere
  <2>3. sends[hand'] < Retries + 1
    BY <2>1, <2>2, RetryAssumption DEF IInv, TypeOK, Tries
  <2>4. QED
    BY <2>1, <2>2, <2>3 DEF Box!Try
<1>6. ASSUME worker = "sending", status' = [status EXCEPT ![hand] = "settled"], UNCHANGED sends
      PROVE  Box!Next
  <2>1. hand \in Mails
    BY <1>6, Sending DEF IInv
  <2>2. status[hand] = "accepted" /\ sends[hand] = attempt[hand] + 1
    BY <2>1 DEF IInv, Accounted, Somewhere, Tries
  <2>3. sends[hand] > 0
    BY <2>1, <2>2, RetryAssumption DEF IInv, TypeOK
  <2>4. QED
    BY <1>6, <2>1, <2>2, <2>3 DEF Box!Settle
<1>7. CASE Settled
  BY <1>6, <1>7 DEF Settled
<1>8. CASE Failed
  BY <1>6, <1>8 DEF Failed
<1>9. CASE Stop
  <2>1. worker = "sending" => hand \in Mails
    BY Sending DEF IInv
  <2>2. CASE worker = "sending"
    <3>1. status[hand] = "accepted"
      BY <2>1, <2>2 DEF IInv, Accounted, Somewhere
    <3>2. QED
      BY <1>2, <1>9, <2>1, <2>2, <3>1 DEF Stop
  <2>3. CASE worker # "sending"
    <3>1. hand \notin Mails
      BY <2>3, RetryAssumption DEF IInv, HandFull
    <3>2. status' = status
      BY <1>9, <3>1 DEF IInv, TypeOK, Stop, Lose
    <3>3. QED
      BY <1>9, <3>2 DEF Stop
  <2>4. QED
    BY <2>2, <2>3
<1>10. CASE Crash
  BY <1>2, <1>10 DEF Crash
<1>11. CASE UNCHANGED vars
  BY <1>11 DEF vars, mailVars
<1>12. QED
  BY <1>1, <1>3, <1>4, <1>5, <1>7, <1>8, <1>9, <1>10, <1>11 DEF Next

-----------------------------------------------------------------------------
\* The variables keep their types; in particular no mail is sent more often
\* than the first attempt and one for each retry delay.
THEOREM DispatcherTypes == Spec => []TypeOK
<1>1. IInv => TypeOK
  BY DEF IInv
<1>2. QED
  BY <1>1, InitInv, StepKeeps, PTL DEF Spec

\* The invariant of the three places.
THEOREM DispatcherInvariance == Spec => []IInv
  BY InitInv, StepKeeps, PTL DEF Spec

\* _run, _process and _requeue_after: an accepted mail is in exactly one place,
\* whatever is enqueued, stopped, retried or lost around it.
THEOREM MailsInOnePlace == Spec => []OnePlace
  BY InitInv, StepKeeps, InvOnePlace, PTL DEF Spec

\* drain: the count of unfinished mails is that of the queue and the hand, less
\* what pool threads have yet to count and the one that killed the worker.
THEOREM DrainCounts == Spec => []DrainIsTrue
<1>1. IInv => DrainIsTrue
  BY DEF IInv
<1>2. QED
  BY <1>1, InitInv, StepKeeps, PTL DEF Spec

\* The dispatcher does what callers may expect of an Outbox.
THEOREM DispatcherIsOutbox == Spec => IsOutbox
  BY InitRefines, InitInv, StepKeeps, StepRefines, PTL DEF Spec, IsOutbox, Box!Spec
=============================================================================
