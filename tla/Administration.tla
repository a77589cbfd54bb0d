--------------------------- MODULE Administration ---------------------------
(***************************************************************************)
(* Users and alarms on one database: the requests of Access and the loop   *)
(* of Alerting meet at the write lock of Database, and the commits of one  *)
(* make what another has pinned stale.                                     *)
(***************************************************************************)
EXTENDS Access, Alerting, Naturals

CONSTANT MaxRestarts  \* bound: restarts of the application

ASSUME RestartAssumption == MaxRestarts \in Nat

VARIABLE restarts

vars == <<dbVars, accessVars, alertVars, restarts>>

Init == DatabaseInit /\ AccessInit /\ AlertInit /\ restarts = 0

\* A dead process keeps no lock and no connection.
Restart ==
  /\ restarts < MaxRestarts
  /\ restarts' = restarts + 1
  /\ DatabaseRestart
  /\ AccessRestart /\ AlertRestart

Next ==
  \/ AccessStep /\ UNCHANGED <<alertVars, restarts>>
  \/ AlertStep /\ UNCHANGED <<accessVars, restarts>>
  \/ /\ \E w \in Workers : Does(w, "idle") /\ SaveSettings(w)
     /\ UNCHANGED <<accessVars, restarts>>
  \/ Restart

Spec == Init /\ [][Next]_vars

\* The loop calls _check_once again and again, whatever it raises.
FairSpec == Spec /\ WF_vars(Check /\ UNCHANGED <<accessVars, restarts>>)

\* Types of all three components.
AdministrationTypeOK ==
  DatabaseTypeOK /\ AccessTypeOK /\ AlertTypeOK /\ restarts \in 0..MaxRestarts
=============================================================================
