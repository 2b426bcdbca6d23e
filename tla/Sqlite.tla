------------------------------- MODULE Sqlite -------------------------------
(***************************************************************************)
(* SQLite in WAL mode as the code uses it through Python's sqlite3 module: *)
(* explicit BEGIN IMMEDIATE / COMMIT / ROLLBACK statements, and the        *)
(* implicit deferred BEGIN the module issues before a data-changing        *)
(* statement on a connection that has no transaction.  One step is one     *)
(* statement: sqlite3_step runs under the connection's mutex, so threads   *)
(* that share a connection interleave between statements, never inside     *)
(* one.  What the tables hold is up to the module that extends this one.   *)
(***************************************************************************)

CONSTANT Conns  \* open connections; several threads may use one

VARIABLES
    disk,  \* the committed tables
    mode,  \* mode[c]: the transaction state of connection c
    view   \* view[c]: the tables as a statement on c sees them

sqliteVars == <<disk, mode, view>>

(***************************************************************************)
(* none:  no transaction; every statement reads the latest commit          *)
(* open:  BEGIN was issued but its first data-changing statement timed     *)
(*        out on the lock, so the transaction holds no lock and no snapshot*)
(* read:  in a transaction whose snapshot is the latest commit             *)
(* stale: in a transaction whose snapshot an other commit has overtaken    *)
(* write: in a transaction that holds the database's one write lock        *)
(***************************************************************************)
Modes == {"none", "open", "read", "stale", "write"}

SqliteInit(tables) ==
    /\ disk = tables
    /\ mode = [c \in Conns |-> "none"]
    /\ view = [c \in Conns |-> tables]

LockFree(c) == \A x \in Conns \ {c} : mode[x] # "write"

CanWrite(c) == mode[c] # "stale" /\ LockFree(c)

\* A SELECT.  Inside a transaction that has no snapshot yet it takes one.
Select(c) ==
    /\ mode' = [mode EXCEPT ![c] = IF @ = "open" THEN "read" ELSE @]
    /\ UNCHANGED <<disk, view>>

BeginImmediate(c) ==
    /\ mode[c] = "none"
    /\ LockFree(c)
    /\ mode' = [mode EXCEPT ![c] = "write"]
    /\ UNCHANGED <<disk, view>>

\* "cannot start a transaction within a transaction", or the five-second wait
\* for another connection's write lock ends in "database is locked".
BeginRefused(c) ==
    /\ mode[c] # "none" \/ ~LockFree(c)
    /\ UNCHANGED sqliteVars

\* A data-changing statement: it begins a transaction when there is none.
Execute(c, tables) ==
    /\ CanWrite(c)
    /\ mode' = [mode EXCEPT ![c] = "write"]
    /\ view' = [view EXCEPT ![c] = tables]
    /\ UNCHANGED disk

\* "database is locked": after the wait, or at once from a stale snapshot.
\* The implicit BEGIN has already happened and nothing takes it back.
ExecuteRefused(c) ==
    /\ ~CanWrite(c)
    /\ mode' = [mode EXCEPT ![c] = IF @ = "none" THEN "open" ELSE @]
    /\ UNCHANGED <<disk, view>>

\* conn.commit(), a no-op outside a transaction; also COMMIT inside one.
Commit(c) ==
    IF mode[c] = "write"
    THEN /\ disk' = view[c]
         /\ view' = [x \in Conns |->
                       IF mode[x] \in {"read", "stale"} THEN view[x] ELSE view[c]]
         /\ mode' = [x \in Conns |-> IF x = c THEN "none"
                                     ELSE IF mode[x] = "read" THEN "stale"
                                     ELSE mode[x]]
    ELSE /\ mode' = [mode EXCEPT ![c] = "none"]
         /\ view' = [view EXCEPT ![c] = disk]
         /\ UNCHANGED disk

\* ROLLBACK inside a transaction, or the end of the process that holds c.
Rollback(c) ==
    /\ mode' = [mode EXCEPT ![c] = "none"]
    /\ view' = [view EXCEPT ![c] = disk]
    /\ UNCHANGED disk
=============================================================================
