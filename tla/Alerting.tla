------------------------------ MODULE Alerting ------------------------------
(***************************************************************************)
(* Alarms about nodes (app/services/alerting.py): _check_once, which a     *)
(* loop calls every 60 seconds, probes the nodes, compares each answer     *)
(* with the state stored in the database, stores a change, and then sends  *)
(* a message about it.  send() reads the settings again.  Each check runs  *)
(* on some thread of the pool; between checks these do other work.         *)
(*                                                                         *)
(* Warnings about certificates and deployments are left out.               *)
(***************************************************************************)
EXTENDS Database

CONSTANT Nodes

ASSUME NodesAssumption == "none" \notin Nodes

VARIABLES
  up,        \* nodes that answer
  settings,  \* columns enabled and alert_node_down
  down,      \* nodes whose stored state is "1"
  loop,      \* where _check_once is
  told,      \* nodes the recipients believe OFFLINE
  missed     \* history variable: nodes the last message about which was not delivered

alertVars == <<up, settings, down, loop, told, missed>>

-----------------------------------------------------------------------------
Settings == [enabled : BOOLEAN, nodes : BOOLEAN]
NoNode == "none"
\* on: the thread of the check; nodes: alert_node_down as it has read it; ok: nodes
\* that answered; todo: nodes still to compare; sends: the node a message is due about.
Asleep == [on |-> NoOne, nodes |-> FALSE, ok |-> {}, todo |-> {}, sends |-> NoNode]
Sleeps == loop.todo = {} /\ loop.sends = NoNode
Changed(n) == n \in down <=> n \in loop.ok
Compares(n) == n \in loop.todo /\ loop.sends = NoNode
\* On to the next node, or the end of the check.
Proceed(n) == loop' = IF loop.todo \subseteq {n} THEN Asleep
                      ELSE [loop EXCEPT !.todo = @ \ {n}, !.sends = NoNode]
Flip(set, n) == IF n \in set THEN set \ {n} ELSE set \cup {n}

AlertInit ==
  /\ up = Nodes
  /\ settings \in Settings
  /\ down = {} /\ told = {} /\ missed = {}
  /\ loop = Asleep

\* External: a node stops answering, or answers again.
NodeChanges ==
  /\ \E n \in Nodes : up' = Flip(up, n)
  /\ UNCHANGED <<settings, down, loop, told, missed, dbVars>>

\* PUT /alerts/settings, on worker w.
SaveSettings(w) ==
  /\ Commit(w)
  /\ settings' \in Settings
  /\ UNCHANGED <<up, down, loop, told, missed>>

\* Whatever else runs on the pool: the renewal of a certificate.
PoolWorks ==
  /\ \E p \in Pool \ {loop.on} : Reads(p) \/ Commit(p) \/ LockedOut(p)
  /\ UNCHANGED alertVars

-----------------------------------------------------------------------------
\* It reads the settings and probes all nodes; a probe of a node that is up may
\* fail.  The settings may be old ones on a stale connection.
Probe ==
  /\ Sleeps
  /\ \E p \in Pool, ok \in SUBSET up, st \in Settings :
       /\ st.enabled
       /\ st = settings \/ Stale(p)
       /\ Reads(p)
       /\ loop' = [on |-> p, nodes |-> st.nodes, ok |-> ok, todo |-> Nodes, sends |-> NoNode]
  /\ UNCHANGED <<up, settings, down, told, missed>>

\* On a stale connection the stored state may be an old one, here and in
\* StoreFails.
Unchanged(n) ==
  /\ Compares(n)
  /\ ~Changed(n) \/ Stale(loop.on)
  /\ Reads(loop.on)
  /\ Proceed(n)
  /\ UNCHANGED <<up, settings, down, told, missed>>

\* mutant: a recovery is not stored
StoreFailure(n) ==
  /\ Compares(n) /\ Changed(n)
  /\ Commit(loop.on)
  /\ down' = down \cup {n}
  /\ IF loop.nodes
       THEN loop' = [loop EXCEPT !.sends = n] /\ UNCHANGED missed
       ELSE Proceed(n) /\ missed' = missed \cup {n}
  /\ UNCHANGED <<up, settings, told>>

Store(n) ==
  /\ Compares(n) /\ Changed(n)
  /\ Commit(loop.on)
  /\ down' = Flip(down, n)
  /\ IF loop.nodes
       THEN loop' = [loop EXCEPT !.sends = n] /\ UNCHANGED missed
       ELSE Proceed(n) /\ missed' = missed \cup {n}
  /\ UNCHANGED <<up, settings, told>>

\* mutant: the message goes out all the same
StoreAnyway(n) ==
  /\ Compares(n)
  /\ Changed(n) \/ Stale(loop.on)
  /\ LockedOut(loop.on)
  /\ told' = Flip(told, n)
  /\ loop' = Asleep
  /\ UNCHANGED <<up, settings, down, missed>>

\* The database is locked: the exception ends the check, also for the nodes
\* not yet compared.
StoreFails(n) ==
  /\ Compares(n)
  /\ Changed(n) \/ Stale(loop.on)
  /\ LockedOut(loop.on)
  /\ loop' = Asleep
  /\ UNCHANGED <<up, settings, down, told, missed>>

\* A failure to send is an entry in a list nobody reads.
Send(n) ==
  /\ loop.sends = n
  /\ \/ settings.enabled /\ missed' = missed \ {n}
        /\ told' = IF n \in loop.ok THEN told \ {n} ELSE told \cup {n}
     \/ missed' = missed \cup {n} /\ UNCHANGED told
  /\ Proceed(n)
  /\ UNCHANGED <<up, settings, down, dbVars>>

AlertRestart ==
  /\ loop' = Asleep
  /\ missed' = missed \cup ({loop.sends} \cap Nodes)
  /\ UNCHANGED <<up, settings, down, told>>

Check == Probe \/ \E n \in Nodes : Unchanged(n) \/ Store(n) \/ StoreFails(n) \/ Send(n)

AlertStep == Check \/ NodeChanges \/ PoolWorks

-----------------------------------------------------------------------------
AlertTypeOK ==
  /\ up \subseteq Nodes /\ down \subseteq Nodes /\ told \subseteq Nodes /\ missed \subseteq Nodes
  /\ settings \in Settings
  /\ loop \in [on : Pool \cup {NoOne}, nodes : BOOLEAN, ok : SUBSET Nodes,
               todo : SUBSET Nodes, sends : Nodes \cup {NoNode}]

\* What the recipients believe of a node is what is stored of it, unless the
\* last message about it was not delivered: an exception in the middle of a
\* check, settings saved during it or a locked database lose or repeat none.
ToldIsStored ==
  \A n \in Nodes \ (missed \cup {loop.sends}) : n \in told <=> n \in down

\* A node that stays down is reported, or its message missed, if alarms stay
\* switched on, no thread keeps the write lock, and no thread the checks run on
\* has a stale connection, on which every check fails: one that any other
\* exception has ended is made good by a later one, for all nodes.
DownIsTold ==
  \A n \in Nodes :
    <>[](/\ n \notin up /\ settings = [enabled |-> TRUE, nodes |-> TRUE]
         /\ lock = NoOne /\ \A p \in Pool : ~Stale(p))
      => []<>(n \in told \cup missed)
=============================================================================
