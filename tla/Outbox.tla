------------------------------- MODULE Outbox -------------------------------
(***************************************************************************)
(* What the rest of the program may expect of the email dispatcher: a mail *)
(* it has accepted is handed to the provider a bounded number of times, is *)
(* settled once and for all by the provider taking it or refusing it for   *)
(* good, and is forgotten only when the dispatcher or the process stops.   *)
(***************************************************************************)
EXTENDS Naturals

CONSTANTS
    Mails,     \* calls of enqueue
    MaxSends   \* attempts: the first and one for each retry delay

VARIABLES
    status,    \* status[m]: new, accepted, settled or lost
    sends      \* sends[m]: how often the provider was called for m

vars == <<status, sends>>

Init ==
    /\ status = [m \in Mails |-> "new"]
    /\ sends = [m \in Mails |-> 0]

Accept(m) ==
    /\ status[m] = "new"
    /\ status' = [status EXCEPT ![m] = "accepted"]
    /\ UNCHANGED sends

Try(m) ==
    /\ status[m] = "accepted"
    /\ sends[m] < MaxSends
    /\ sends' = [sends EXCEPT ![m] = @ + 1]
    /\ UNCHANGED status

Settle(m) ==
    /\ status[m] = "accepted"
    /\ sends[m] > 0
    /\ status' = [status EXCEPT ![m] = "settled"]
    /\ UNCHANGED sends

Forget(lost) ==
    /\ lost # {} /\ \A m \in lost : status[m] = "accepted"
    /\ status' = [m \in Mails |-> IF m \in lost THEN "lost" ELSE status[m]]
    /\ UNCHANGED sends

Next ==
    \/ \E m \in Mails : Accept(m) \/ Try(m) \/ Settle(m)
    \/ \E lost \in SUBSET Mails : Forget(lost)

Spec == Init /\ [][Next]_vars
=============================================================================
