----------------------------- MODULE AtomicWrite -----------------------------
(***************************************************************************)
(* What ssh_write and sftp_write (app/services/sshclient.py) promise about *)
(* a file on a node: it is replaced as a whole, at most once per call; a   *)
(* call that returns has replaced it, a call that is refused has not and   *)
(* never will.  A call that raises for any other reason, a timeout above   *)
(* all, leaves it open: the file may even be replaced after the exception. *)
(***************************************************************************)
CONSTANTS
  Uploads,   \* calls, each with the data it writes
  Before     \* what the file holds at first, which is no call's data

VARIABLES
  target,     \* whose data the file holds
  installed,  \* the calls that have replaced it
  answer      \* answer[u]: how call u ended

vars == <<target, installed, answer>>

Answers == {"none", "ok", "refused", "unknown"}

Init ==
  /\ target = Before
  /\ installed = {}
  /\ answer = [u \in Uploads |-> "none"]

Install(u) ==
  /\ u \notin installed
  /\ answer[u] # "refused"
  /\ target' = u
  /\ installed' = installed \cup {u}
  /\ UNCHANGED answer

Answer(u, a) ==
  /\ answer[u] = "none"
  /\ a = "ok" => u \in installed
  /\ a = "refused" => u \notin installed
  /\ answer' = [answer EXCEPT ![u] = a]
  /\ UNCHANGED <<target, installed>>

\* The application dies: what is under way is left open.
Abort ==
  /\ answer' = [u \in Uploads |-> IF answer[u] = "none" THEN "unknown" ELSE answer[u]]
  /\ UNCHANGED <<target, installed>>

Next ==
  \/ \E u \in Uploads : Install(u) \/ \E a \in Answers \ {"none"} : Answer(u, a)
  \/ Abort

Spec == Init /\ [][Next]_vars
=============================================================================
