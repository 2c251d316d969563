--------------------------- MODULE SharedDatabase ---------------------------
(***************************************************************************)
(* The connections of several processes to one SQLite file in WAL mode, as *)
(* StorageManager uses them: one long-lived connection per process, opened *)
(* with timeout=30, an explicit commit after a statement that succeeded    *)
(* and no rollback after one that did not.                                 *)
(*                                                                         *)
(* Python's sqlite3 opens a transaction before the first writing statement *)
(* and only commit ends it.  So a statement that raises, or a caller that  *)
(* raises between the statement and its commit, leaves the connection      *)
(* inside a transaction, in one of three ways; what each does to later     *)
(* statements, of this process and of others, is what is modelled.  The    *)
(* table is abstract: `stored` is the last committed content.              *)
(***************************************************************************)
CONSTANTS
    Process,
    None          \* no row, or nothing

ASSUME NoneAssumption == None \notin Process

VARIABLES
    stored,       \* the committed content
    txn,          \* the transaction each connection is in
    view,         \* what a connection in a read transaction goes on reading
    behind        \* connections whose read transaction is older than the last commit

dbVars == <<stored, txn, view, behind>>

Txn == {
    "none",
    "begun",      \* open, but no lock and no snapshot yet
    "reader",     \* open, and a SELECT has fixed its snapshot
    "writer"}     \* open, and holding SQLite's only write lock

DbTypeOK(Content) ==
    /\ stored \in Content \cup {None}
    /\ txn \in [Process -> Txn]
    /\ view \in [Process -> Content \cup {None}]
    /\ behind \subseteq {h \in Process : txn[h] = "reader"}

DbInit(content) ==
    /\ stored = content
    /\ txn = [h \in Process |-> "none"]
    /\ view = [h \in Process |-> None]
    /\ behind = {}

-----------------------------------------------------------------------------
\* What a SELECT of process h returns.
Visible(h) == IF txn[h] = "reader" THEN view[h] ELSE stored

\* A SELECT: it fixes the snapshot of a transaction that was left open.
Select(h) ==
    /\ txn' = [txn EXCEPT ![h] = IF @ = "begun" THEN "reader" ELSE @]
    /\ view' = [view EXCEPT ![h] = IF txn[h] = "begun" THEN stored ELSE @]
    /\ UNCHANGED <<stored, behind>>

\* A writing statement can start: the lock is free or ours, and we would not be
\* writing on top of a snapshot that somebody has written past.
MayWrite(h) ==
    /\ \A g \in Process \ {h} : txn[g] # "writer"
    /\ h \notin behind

EndTransaction(h) ==
    /\ txn' = [txn EXCEPT ![h] = "none"]
    /\ view' = [view EXCEPT ![h] = None]

\* Mutant: every other connection goes stale, whether it is reading or not.
CommitStalesAll(h, new) ==
    /\ MayWrite(h)
    /\ stored' = new
    /\ EndTransaction(h)
    /\ behind' = Process \ {h}

\* A statement that changes something and its commit, back to back.
Commit(h, new) ==
    /\ MayWrite(h)
    /\ stored' = new
    /\ EndTransaction(h)
    /\ behind' = {g \in Process \ {h} : txn[g] = "reader"}

\* A statement that matches no row, and its commit.
CommitNothing(h) ==
    /\ MayWrite(h)
    /\ EndTransaction(h)
    /\ UNCHANGED <<stored, behind>>

\* A statement that matches no row, and an exception instead of the commit.
LeaveOpen(h) ==
    /\ MayWrite(h)
    /\ txn' = [txn EXCEPT ![h] = "writer"]
    /\ view' = [view EXCEPT ![h] = None]
    /\ UNCHANGED <<stored, behind>>

\* A statement that cannot get the lock: "database is locked", after thirty
\* seconds, or at once on a stale snapshot.  Its transaction stays begun.
TimeOut(h) ==
    /\ ~MayWrite(h)
    /\ txn' = [txn EXCEPT ![h] = IF @ = "none" THEN "begun" ELSE @]
    /\ UNCHANGED <<stored, view, behind>>

\* The process ends, and its connection with it; the next one opens its own.
Reconnect(h) ==
    /\ EndTransaction(h)
    /\ behind' = behind \ {h}
    /\ UNCHANGED stored
=============================================================================
