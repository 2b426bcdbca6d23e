-------------------------- MODULE EmailDispatcher ---------------------------
(***************************************************************************)
(* The in-process email queue (service/email_dispatcher.py): enqueue puts  *)
(* a mail on an asyncio queue, one worker task sends the mails in turn,    *)
(* and a transient failure puts the mail back after a delay slept by a     *)
(* task of its own.  A step is what the event loop runs between two        *)
(* awaits; the provider's answer arrives from the thread that called it.   *)
(* Handlers on pool threads enqueue as well, between any two statements of *)
(* the loop: asyncio.Queue takes no lock, so its get and put are taken     *)
(* apart where the other may come in between.                              *)
(***************************************************************************)
EXTENDS Naturals, Sequences, FiniteSets

CONSTANTS
    Mails,      \* calls of enqueue
    NoMail,     \* the worker has nothing in hand
    Retries,    \* len(retry_delays)
    MaxStops    \* bound: stops and crashes in a behaviour

ASSUME RetryAssumption == Retries \in Nat /\ MaxStops \in Nat /\ NoMail \notin Mails

VARIABLES
    queue,       \* _queue, oldest first
    unfinished,  \* the queue's count of mails put and not yet task_done
    putting,     \* mails a pool thread has put on the queue and not yet counted
    worker,      \* _worker: none; ready to look at the queue; leaving, having
                 \* found it empty; waiting in a future for the next put;
                 \* sending; or dead of an exception
    hand,        \* the mail the worker is sending
    asleep,      \* mails whose _requeue_after task sleeps
    attempt,     \* attempt[m]: _Item.attempt
    stopped,     \* _stopped
    status,      \* what became of each mail: see Outbox
    sends,       \* sends[m]: calls of EmailClient.send for m
    stops,       \* stops and crashes so far
    missed       \* history: the worker waits, or is about to, and a mail's put
                 \* has found nobody to wake

mailVars == <<asleep, attempt, status, sends>>
vars == <<queue, unfinished, putting, worker, hand, stopped, stops, missed, mailVars>>

Init ==
    /\ queue = <<>> /\ unfinished = 0 /\ putting = {}
    /\ worker = "none" /\ hand = NoMail /\ missed = FALSE
    /\ asleep = {}
    /\ attempt = [m \in Mails |-> 0]
    /\ stopped = FALSE
    /\ status = [m \in Mails |-> "new"]
    /\ sends = [m \in Mails |-> 0]
    /\ stops = 0

\* The event loop runs one callback at a time: while the worker is between its
\* look at the queue and its wait, nothing else runs there.
Loop == worker # "leaving"

\* put_nowait: the mail is appended and counted, and whoever waits is woken.
PutLast(m) == queue' = Append(queue, m)
Queued(m) == \E i \in DOMAIN queue : queue[i] = m

Notify(m) ==
    /\ worker' = IF worker = "waiting" THEN "ready" ELSE worker
    /\ missed' = (~(worker = "waiting") /\ (missed \/ (worker = "leaving" /\ Queued(m))))

\* On the loop this is one step.
Put(m) == Loop /\ PutLast(m) /\ unfinished' = unfinished + 1 /\ Notify(m)

Accept(m) == status[m] = "new" /\ status' = [status EXCEPT ![m] = "accepted"]

\* enqueue in an async handler.
Enqueue(m) ==
    /\ Accept(m) /\ Put(m)
    /\ UNCHANGED <<putting, hand, asleep, attempt, stopped, sends, stops>>

\* enqueue in a handler on a pool thread: the append, and the rest.
EnqueueOff(m) ==
    /\ Accept(m) /\ PutLast(m)
    /\ putting' = putting \cup {m}
    /\ UNCHANGED <<unfinished, worker, hand, asleep, attempt, stopped, sends, stops, missed>>

CountOff(m) ==
    /\ m \in putting /\ putting' = putting \ {m}
    /\ unfinished' = unfinished + 1
    /\ Notify(m)
    /\ UNCHANGED <<queue, hand, stopped, stops, mailVars>>

Start ==
    /\ worker = "none"
    /\ stopped' = FALSE
    /\ worker' = "ready"
    /\ UNCHANGED <<queue, unfinished, putting, hand, stops, missed, mailVars>>

\* queue.get in _run: an empty queue makes the worker wait for the next put.
LookEmpty ==
    /\ worker = "ready" /\ queue = <<>>
    /\ worker' = "leaving"
    /\ UNCHANGED <<queue, unfinished, putting, hand, stopped, stops, missed, mailVars>>

\* Its future joins those that a put resolves; the queue is not looked at again.
Wait ==
    /\ worker = "leaving"
    /\ worker' = "waiting"
    /\ UNCHANGED <<queue, unfinished, putting, hand, stopped, stops, missed, mailVars>>

\* It takes the oldest mail, and _process hands that to the client in a thread.
Take ==
    /\ worker = "ready" /\ queue # <<>>
    /\ queue' = Tail(queue)
    /\ worker' = "sending" /\ hand' = Head(queue)
    /\ sends' = [sends EXCEPT ![Head(queue)] = @ + 1]
    /\ UNCHANGED <<unfinished, putting, asleep, attempt, stopped, status, stops, missed>>

\* The finally of _run.  task_done raises when it finds nothing to count down, and
\* ends the worker with it.
Release(next) ==
    /\ hand' = NoMail
    /\ IF unfinished = 0
       THEN worker' = "dead" /\ UNCHANGED unfinished
       ELSE worker' = next /\ unfinished' = unfinished - 1

\* The client returned, raised a permanent error, or raised anything else.
Settled ==
    /\ worker = "sending"
    /\ status' = [status EXCEPT ![hand] = "settled"]
    /\ Release("ready")
    /\ UNCHANGED <<queue, putting, asleep, attempt, stopped, sends, stops, missed>>

\* Seeded fault: one retry too many.
FailedOnceMore ==
    /\ worker = "sending"
    /\ IF attempt[hand] > Retries
       THEN status' = [status EXCEPT ![hand] = "settled"] /\ UNCHANGED <<attempt, asleep>>
       ELSE /\ attempt' = [attempt EXCEPT ![hand] = @ + 1]
            /\ asleep' = asleep \cup {hand}
            /\ UNCHANGED status
    /\ Release("ready")
    /\ UNCHANGED <<queue, putting, stopped, sends, stops, missed>>

\* Seeded fault: the task that would sleep is not created.
FailedForgotten ==
    /\ worker = "sending"
    /\ IF attempt[hand] >= Retries
       THEN status' = [status EXCEPT ![hand] = "settled"] /\ UNCHANGED attempt
       ELSE attempt' = [attempt EXCEPT ![hand] = @ + 1] /\ UNCHANGED status
    /\ Release("ready")
    /\ UNCHANGED <<queue, putting, asleep, stopped, sends, stops, missed>>

\* A transient error: the mail is dropped after the last retry, or sleeps.
Failed ==
    /\ worker = "sending"
    /\ IF attempt[hand] >= Retries
       THEN status' = [status EXCEPT ![hand] = "settled"] /\ UNCHANGED <<attempt, asleep>>
       ELSE /\ attempt' = [attempt EXCEPT ![hand] = @ + 1]
            /\ asleep' = asleep \cup {hand}
            /\ UNCHANGED status
    /\ Release("ready")
    /\ UNCHANGED <<queue, putting, stopped, sends, stops, missed>>

\* Seeded fault: a stopped dispatcher keeps the mail it drops in the queue.
WakeAnyway(m) ==
    /\ m \in asleep
    /\ asleep' = asleep \ {m}
    /\ status' = [status EXCEPT ![m] = IF stopped THEN "lost" ELSE @]
    /\ Put(m)
    /\ UNCHANGED <<putting, hand, attempt, stopped, sends, stops>>

\* _requeue_after: nothing is put on the queue of a stopped dispatcher.
Wake(m) ==
    /\ Loop /\ m \in asleep
    /\ asleep' = asleep \ {m}
    /\ IF stopped
       THEN /\ status' = [status EXCEPT ![m] = "lost"]
            /\ UNCHANGED <<queue, unfinished, worker, missed>>
       ELSE Put(m) /\ UNCHANGED status
    /\ UNCHANGED <<putting, hand, attempt, stopped, sends, stops>>

Lose(lost) == status' = [m \in Mails |-> IF m \in lost THEN "lost" ELSE status[m]]

\* Seeded fault: task_done is skipped for the mail in hand.
StopUncounted ==
    /\ Loop /\ worker # "none" /\ stops < MaxStops
    /\ stopped' = TRUE
    /\ worker' = (IF worker = "dead" THEN "dead" ELSE "none") /\ hand' = NoMail
    /\ missed' = FALSE
    /\ Lose({hand})
    /\ stops' = stops + 1
    /\ UNCHANGED <<queue, unfinished, putting, asleep, attempt, sends>>

\* stop cancels the worker, or finds it dead.  A send under way goes on in its
\* thread, but nobody waits for its answer; the queue and the sleeping retries stay.
Stop ==
    /\ Loop /\ worker # "none" /\ stops < MaxStops
    /\ stopped' = TRUE
    /\ IF worker = "sending" THEN Release("none")
       ELSE /\ worker' = IF worker = "dead" THEN "dead" ELSE "none"
            /\ UNCHANGED <<unfinished, hand>>
    /\ missed' = FALSE
    /\ Lose({hand})
    /\ stops' = stops + 1
    /\ UNCHANGED <<queue, putting, asleep, attempt, sends>>

\* The process ends, and with it everything it had accepted; another one starts.
Crash ==
    /\ stops < MaxStops
    /\ queue' = <<>> /\ unfinished' = 0 /\ putting' = {}
    /\ worker' = "none" /\ hand' = NoMail /\ missed' = FALSE
    /\ asleep' = {}
    /\ stopped' = FALSE
    /\ Lose({m \in Mails : status[m] = "accepted"})
    /\ stops' = stops + 1
    /\ UNCHANGED <<attempt, sends>>

Next ==
    \/ \E m \in Mails : Enqueue(m) \/ EnqueueOff(m) \/ CountOff(m) \/ Wake(m)
    \/ Start \/ LookEmpty \/ Wait \/ Take \/ Settled \/ Failed \/ Stop \/ Crash

Spec == Init /\ [][Next]_vars

\* The loop runs its ready tasks, threads go on, sleeps end, and the client's HTTP
\* call returns or raises.  Mails are enqueued, and the dispatcher stopped, at will.
Fairness ==
    /\ WF_vars(LookEmpty \/ Wait \/ Take)
    /\ WF_vars(Settled \/ Failed)
    /\ \A m \in Mails : WF_vars(CountOff(m)) /\ WF_vars(Wake(m))

FairSpec == Spec /\ Fairness

-----------------------------------------------------------------------------
\* The variables have their types.
TypeOK ==
    /\ queue \in Seq(Mails)
    /\ unfinished \in Nat
    /\ putting \subseteq Mails
    /\ worker \in {"none", "ready", "leaving", "waiting", "sending", "dead"}
    /\ hand \in Mails \cup {NoMail}
    /\ asleep \subseteq Mails
    /\ attempt \in [Mails -> 0..Retries]
    /\ stopped \in BOOLEAN
    /\ status \in [Mails -> {"new", "accepted", "settled", "lost"}]
    /\ sends \in [Mails -> 0..Retries + 1]
    /\ stops \in 0..MaxStops
    /\ missed \in BOOLEAN

Places(m) ==
    Cardinality({i \in DOMAIN queue : queue[i] = m})
      + (IF m \in asleep THEN 1 ELSE 0) + (IF m = hand THEN 1 ELSE 0)

\* _process and _requeue_after: a mail that is neither delivered nor dropped is
\* in exactly one place -- the queue, the worker's hand or a sleeping retry --
\* and one that is, is in none.  So no mail is sent twice without a failure in
\* between, and none is forgotten while the dispatcher runs.
OnePlace == \A m \in Mails : Places(m) = IF status[m] = "accepted" THEN 1 ELSE 0

\* drain and queue.join: the count is that of the queue and the worker's hand, also
\* after a stop in the middle of a send, less the puts that pool threads have not
\* come to count; when such a put comes too late for task_done, the worker dies
\* of it, and the mail it leaves uncounted is the only one.
DrainIsTrue ==
    unfinished + Cardinality(putting) =
        Len(queue) + (IF hand = NoMail THEN 0 ELSE 1) + (IF worker = "dead" THEN 1 ELSE 0)

\* What callers may expect of the dispatcher: it implements the Outbox.
Box == INSTANCE Outbox WITH MaxSends <- Retries + 1
IsOutbox == Box!Spec

\* email_dispatcher.py: while the dispatcher is not stopped every accepted mail
\* is delivered or dropped, however often the provider fails and whatever the
\* mails behind it do -- unless a put of a pool thread comes between the worker's
\* look at the queue and its wait, and then until the next put, or is counted
\* after the worker has done with its mail, which kills the worker.
AllSettled ==
    \A m \in Mails :
        status[m] = "accepted" ~> (status[m] # "accepted" \/ worker \in {"none", "dead"} \/ missed)
=============================================================================
