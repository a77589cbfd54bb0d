--------------------------- MODULE MCDeploySerial ---------------------------
(* Instances of DeploySerial: one worker thread. *)
EXTENDS DeploySerial

CONSTANT j1

OneThread == {j1}
=============================================================================
