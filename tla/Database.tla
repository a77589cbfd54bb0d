------------------------------ MODULE Database ------------------------------
(***************************************************************************)
(* The database (app/db.py): every thread has its own connection, and      *)
(* execute() runs one statement and commits it.  Before a statement that   *)
(* writes, sqlite3 begins a transaction, and execute() does not roll back  *)
(* one that fails:                                                         *)
(*   - after a violated constraint the connection keeps the write lock     *)
(*     until its thread commits another statement or ends.  Meanwhile      *)
(*     every other writer waits for 15 seconds and gets an exception;      *)
(*   - the transaction of such a writer stays open, too.  Its next SELECT  *)
(*     pins what the thread reads to the state of that moment; as soon as  *)
(*     another thread commits, the thread reads what is stale, and each of *)
(*     its writes fails at once, until the thread ends.                    *)
(***************************************************************************)
CONSTANTS
  Workers,  \* threads that serve requests
  Pool,     \* threads of asyncio.to_thread, which never end
  NoOne

ASSUME NoOneAssumption == NoOne \notin Workers \cup Pool

VARIABLES
  lock,  \* the thread whose connection has kept the write lock, or NoOne
  conn   \* conn[t]: "clean", or its transaction is "open", "pinned" or "stale"

dbVars == <<lock, conn>>
Threads == Workers \cup Pool

DatabaseInit == lock = NoOne /\ conn = [t \in Threads |-> "clean"]
DatabaseTypeOK ==
  /\ lock \in Threads \cup {NoOne}
  /\ conn \in [Threads -> {"clean", "open", "pinned", "stale"}]

Stale(t) == conn[t] = "stale"
Free(t) == lock \in {NoOne, t} /\ ~Stale(t)

Reads(t) ==
  /\ conn' = [conn EXCEPT ![t] = IF @ = "open" THEN "pinned" ELSE @]
  /\ UNCHANGED lock

\* The three ways of execute(): done, violating a constraint, locked out.
Commit(t) ==
  /\ Free(t)
  /\ lock' = NoOne
  /\ conn' = [u \in Threads |->
       IF u = t THEN "clean" ELSE IF conn[u] = "pinned" THEN "stale" ELSE conn[u]]
Violate(t) == Free(t) /\ lock' = t /\ UNCHANGED conn

LockedOut(t) ==
  /\ ~Free(t)
  /\ conn' = [conn EXCEPT ![t] = IF @ = "clean" THEN "open" ELSE @]
  /\ UNCHANGED lock

\* External: a thread ends, and its connection with it.
ThreadEnds(t) ==
  /\ lock' = IF lock = t THEN NoOne ELSE lock
  /\ conn' = [conn EXCEPT ![t] = "clean"]

DatabaseRestart == lock' = NoOne /\ conn' = [t \in Threads |-> "clean"]
=============================================================================
