------------------------------ MODULE Transport ------------------------------
(***************************************************************************)
(* The SSH connections of the application: the calls of SshWrite and other *)
(* commands, all of which first have the node's host key verified against  *)
(* the one file of KnownHosts (ssh_connect in app/services/sshclient.py).  *)
(***************************************************************************)
EXTENDS SshWrite, KnownHosts

CONSTANT Commands  \* other threads that connect: probes, metrics, logs

ASSUME VisitorAssumption == Visitors = Uploads \cup Commands /\ Uploads \cap Commands = {}

transportVars == <<vars, hostVars>>

TransportInit == Init /\ HostInit

\* A call connects once, other threads again and again.
Visits(v) ==
  /\ v \in Uploads => At(v, "connect") /\ InVisit(v, "idle")
  /\ Arrive(v)
  /\ UNCHANGED vars

\* The key is verified during the connection, which may fail before or after.
Connects(u) ==
  \/ InVisit(u, "trusted") /\ Connect(u) /\ UNCHANGED hostVars
  \/ visit[u].at \in {"load"} \cup Verdicts /\ ConnectFails(u) /\ UNCHANGED hostVars

TransportCrash == Crash /\ HostCrash

Written(u) == ~At(u, "connect") /\ UploadStep(u) /\ UNCHANGED hostVars

Visited(v) == VerifyHostKey(v) /\ (v \in Uploads => At(v, "connect")) /\ UNCHANGED vars

TransportNext ==
  \/ TransportCrash
  \/ \E v \in Visitors : Visits(v) \/ Visited(v)
  \/ \E u \in Uploads : Connects(u) \/ Written(u)

TransportSpec == TransportInit /\ [][TransportNext]_transportVars

\* The application's own threads run on, and so does a call's timer; nothing is
\* asked of the nodes or the network.
FairTransport ==
  /\ TransportSpec
  /\ \A u \in Uploads : /\ WF_transportVars(Connects(u) \/ Visited(u))
                        /\ WF_transportVars(ClientStep(u) /\ Written(u))
                        /\ WF_transportVars(TimerStep(u) /\ Written(u))

\* Types of the connections and of the file.
TransportTypeOK == TypeOK /\ HostTypeOK

\* Every call ends once it has begun to connect, whatever the node and the
\* network do or do not do.
CallsEnd == \A u \in Uploads : ~InVisit(u, "idle") ~> At(u, "ended")
=============================================================================
