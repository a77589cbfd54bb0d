--------------------------- MODULE MCAdministration ---------------------------
(* Instances of Administration. *)
EXTENDS Administration, FiniteSets

CONSTANTS w1, w2, p1, p2, a, b, n1, n2, x, y

TwoWorkers == {w1, w2}
TwoThreads == {p1, p2}
TwoAccounts == {a, b}
TwoNames == {n1, n2}
TwoNodes == {x, y}

\* Bounds: one token at a time, which is enough for two requests at once, for it
\* may expire during the first; nothing is explored after the last administrator
\* has gone, which nobody but an outsider can change; only a has a second
\* factor, and while it has one users are created and deleted, not changed; users
\* and alarms move apart from each other, but for the lock and the commits, which
\* are all they share: transactions stay open on w2 in the one part, and on threads
\* of the pool in the other.
Bounded ==
  /\ Cardinality(tokens) <= 1
  /\ Admins # {}
  /\ mfa[b] = NoMfa
  /\ mfa[a] = NoMfa \/ \A w \in Workers : ~Does(w, "update")
  /\ \/ /\ users = [u \in Accounts |->
             [name |-> FirstName, role |-> IF u = First THEN "admin" ELSE "none"]]
        /\ mfa[a] = NoMfa /\ crossed = {} /\ tokens = {} /\ request = [w \in Workers |-> Idle]
        /\ lock # w2 /\ \A t \in Threads \ {p1} : conn[t] = "clean"
     \/ /\ restarts = 0
        /\ up = Nodes /\ down = {} /\ told = {} /\ missed = {} /\ loop = Asleep
        /\ settings = [enabled |-> FALSE, nodes |-> FALSE]
        /\ \A t \in Threads \ {w2} : conn[t] = "clean"
=============================================================================
