----------------------------- MODULE MCDocStore -----------------------------
(* Instances of DocStore for TLC. *)
EXTENDS DocStore, TLC

CONSTANTS t1, t2, c1, c2, d1, d2

MCThreads == {t1, t2}
MCConns == {c1, c2}

\* One connection for everybody, as run_app.py opens it.
Hosted == {[t \in MCThreads |-> c1]}
\* A connection for each thread.
Separate == {(t1 :> c1) @@ (t2 :> c2)}
Both == Hosted \cup Separate
=============================================================================
