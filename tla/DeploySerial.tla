---------------------------- MODULE DeploySerial ----------------------------
(* Deploy where a request for the node starts only while no other is under   *)
(* way, and nothing is left of an earlier one there.                         *)
EXTENDS Deploy

SerialNext == Next /\ ~overlapped'

SerialSpec == Init /\ [][SerialNext]_vars /\ \A j \in Jobs : WF_vars(Step(j) /\ ~overlapped')

Atomic == INSTANCE AtomicDeploy WITH Absent <- NoFile, Broken <- Partial, found <- before.live

\* deploy_node implements the atomic deployment: uploads, refusals, time-outs,
\* rollbacks and deaths of the application are all steps of it or invisible.
ImplementsAtomicDeploy == Atomic!Spec
=============================================================================
