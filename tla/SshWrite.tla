------------------------------ MODULE SshWrite ------------------------------
(***************************************************************************)
(* Writing one file of a node over SSH (app/services/sshclient.py), by     *)
(* either method: ssh_write, which feeds the data to a shell script whose  *)
(* progress _exec_ssh follows, and sftp_write.  Per call there are the     *)
(* client's loop, its timer thread, the connection and the script on the   *)
(* node; each step of one can come between two steps of another.           *)
(*                                                                         *)
(* _exec_ssh is modelled with ssh_write's script; for any other command it *)
(* behaves the same.  Whose data a file holds stands for its content, the  *)
(* number of blocks that have arrived for how much of it.                  *)
(*                                                                         *)
(* Assumed of the node: nobody else sends the script a signal while its    *)
(* connection is up.  Its trap would turn one that comes right after the   *)
(* mv into status 1.                                                       *)
(***************************************************************************)
EXTENDS Naturals

CONSTANTS
  Uploads,   \* calls
  Before,    \* the file's content at first
  Torn,      \* content that is no call's whole data
  Size       \* blocks per call

ASSUME UploadAssumption ==
  /\ Before \notin Uploads
  /\ Torn \notin Uploads \cup {Before}
  /\ Size \in Nat

VARIABLES
  how,       \* how[u]: "stdin" (ssh_write) or "sftp" (sftp_write)
  target,    \* whose data the file on the node holds
  client,    \* client[u]: the call, see Client
  timer,     \* timer[u]: threading.Timer of _exec_ssh
  link,      \* link[u]: the connection is up, or who closed it
  script,    \* script[u]: the script on the node, see Script
  installed  \* history variable: calls that have replaced the file

vars == <<how, target, client, timer, link, script, installed>>

-----------------------------------------------------------------------------
NoStatus == "none"
Progress == [stage : {"exec_start", "send", "await_result"}, accepted : 0..Size,
             eof : BOOLEAN, status : {NoStatus, "0", "1"}]
NoProgress == [stage |-> "none"]

\* at: what it does next; sent, eof: input handed to the connection; seen:
\* HG_UPLOAD_STAGE lines read; heard: exit status; noted: timeout_progress;
\* created: sftp_write knows of its temporary file; out: how the call ends.
Client == [at : {"connect", "exec", "top", "drain", "decide", "feed", "left", "result",
                 "checked", "raise", "sftp", "create", "fill", "verify", "rename",
                 "close", "remove", "ended"},
           sent : 0..Size, eof : BOOLEAN, seen : 0..5, heard : {NoStatus, "0", "1"},
           noted : Progress \cup {NoProgress}, created : BOOLEAN,
           out : {"none", "ok", "refused", "lost", "timeout", "error"}]

\* at: its next command; got: blocks in the temporary file; temp: there is
\* one; said: stages printed (prepare 1 ... done 5); exit: its exit status;
\* eof: all it printed has arrived at the client.
Script == [at : {"none", "target", "mktemp", "cat", "check", "chmod", "mv", "done", "exited"},
           got : 0..Size, temp : BOOLEAN, said : 0..5, exit : {NoStatus, "0", "1"},
           eof : BOOLEAN]

At(u, step) == client[u].at = step
Does(u, command) == script[u].at = command
Gone(u) == link[u] # "up"
Expired(u) == timer[u] \in {"expired", "closed"}
\* Paramiko: exit_status_ready() is also true of a closed channel.
StatusReady(u) == client[u].heard # NoStatus \/ Gone(u)
Stage(u) ==
  IF At(u, "exec") THEN "exec_start"
  ELSE IF client[u].eof \/ Size = 0 THEN "await_result" ELSE "send"
progress(u) == [stage |-> Stage(u), accepted |-> client[u].sent,
                eof |-> client[u].eof, status |-> client[u].heard]

Goto(u, step) == client' = [client EXCEPT ![u].at = step]
\* The finally block: the timer is cancelled unless it has fired, and the
\* connection closed.
Ends(u, out) ==
  /\ client' = [client EXCEPT ![u].at = "ended", ![u].out = out]
  /\ timer' = [timer EXCEPT ![u] = IF @ = "running" THEN "off" ELSE @]
  /\ link' = [link EXCEPT ![u] = IF @ = "up" THEN "end" ELSE @]

Init ==
  /\ how \in [Uploads -> {"stdin", "sftp"}]
  /\ target = Before
  /\ client = [u \in Uploads |->
       [at |-> "connect", sent |-> 0, eof |-> FALSE, seen |-> 0, heard |-> NoStatus,
        noted |-> NoProgress, created |-> FALSE, out |-> "none"]]
  /\ timer = [u \in Uploads |-> "off"]
  /\ link = [u \in Uploads |-> "none"]
  /\ script = [u \in Uploads |->
       [at |-> "none", got |-> 0, temp |-> FALSE, said |-> 0, exit |-> NoStatus, eof |-> FALSE]]
  /\ installed = {}

-----------------------------------------------------------------------------
(* The connection *)

\* ssh_connect; the timer of _exec_ssh starts after it.
Connect(u) ==
  /\ At(u, "connect")
  /\ link' = [link EXCEPT ![u] = "up"]
  /\ IF how[u] = "stdin"
       THEN Goto(u, "exec") /\ timer' = [timer EXCEPT ![u] = "running"]
       ELSE Goto(u, "sftp") /\ UNCHANGED timer
  /\ UNCHANGED <<how, target, script, installed>>

ConnectFails(u) ==
  /\ At(u, "connect")
  /\ Ends(u, "error")
  /\ UNCHANGED <<how, target, script, installed>>

Break(u) ==
  /\ link[u] = "up"
  /\ link' = [link EXCEPT ![u] = "network"]
  /\ UNCHANGED <<how, target, client, timer, script, installed>>

\* The script's exit status arrives, before or after the end of its output.
StatusArrives(u) ==
  /\ link[u] = "up"
  /\ Does(u, "exited") /\ script[u].exit # NoStatus
  /\ client[u].heard = NoStatus
  /\ client' = [client EXCEPT ![u].heard = script[u].exit]
  /\ UNCHANGED <<how, target, timer, link, script, installed>>

EofArrives(u) ==
  /\ link[u] = "up"
  /\ Does(u, "exited") /\ ~script[u].eof
  /\ script' = [script EXCEPT ![u].eof = TRUE]
  /\ UNCHANGED <<how, target, client, timer, link, installed>>

-----------------------------------------------------------------------------
(* The timer of _exec_ssh: expire() notes the progress, sets the event, then *)
(* closes the connection.                                                    *)

Note(u) ==
  /\ timer[u] = "running"
  /\ timer' = [timer EXCEPT ![u] = "noted"]
  /\ client' = [client EXCEPT ![u].noted = progress(u)]
  /\ UNCHANGED <<how, target, link, script, installed>>

\* mutant: the connection is closed first, the event set after it
ExpireClosing(u) ==
  /\ timer[u] = "noted"
  /\ \/ ~Gone(u) /\ link' = [link EXCEPT ![u] = "timer"] /\ UNCHANGED timer
     \/ Gone(u) /\ timer' = [timer EXCEPT ![u] = "closed"] /\ UNCHANGED link
  /\ UNCHANGED <<how, target, client, script, installed>>

Expire(u) ==
  /\ timer[u] = "noted"
  /\ timer' = [timer EXCEPT ![u] = "expired"]
  /\ UNCHANGED <<how, target, client, link, script, installed>>

\* mutant: the event alone, the connection left open
CloseNothing(u) ==
  /\ timer[u] = "expired"
  /\ timer' = [timer EXCEPT ![u] = "closed"]
  /\ UNCHANGED <<how, target, client, link, script, installed>>

Close(u) ==
  /\ timer[u] = "expired"
  /\ timer' = [timer EXCEPT ![u] = "closed"]
  /\ link' = [link EXCEPT ![u] = IF @ = "up" THEN "timer" ELSE @]
  /\ UNCHANGED <<how, target, client, script, installed>>

-----------------------------------------------------------------------------
(* The client's side of _exec_ssh *)

\* exec_command waits for the node without a deadline of its own.
Exec(u) ==
  /\ At(u, "exec")
  /\ \/ ~Gone(u) /\ ~Does(u, "none") /\ Goto(u, "top")
     \/ Gone(u) /\ Goto(u, "raise")
  /\ UNCHANGED <<how, target, timer, link, script, installed>>

Top(u) ==
  /\ At(u, "top")
  /\ Goto(u, IF Expired(u) THEN "raise" ELSE "drain")
  /\ UNCHANGED <<how, target, timer, link, script, installed>>

\* It reads what has arrived of the script's output.
Drain(u) ==
  /\ At(u, "drain")
  /\ \E n \in client[u].seen..script[u].said :
       client' = [client EXCEPT ![u].at = "decide", ![u].seen = n]
  /\ UNCHANGED <<how, target, timer, link, script, installed>>

\* mutant: it stops at the exit status, output or not
DecideAtStatus(u) ==
  /\ At(u, "decide")
  /\ Goto(u, IF StatusReady(u) THEN "left" ELSE "feed")
  /\ UNCHANGED <<how, target, timer, link, script, installed>>

\* It leaves the loop with a status, at the end of the output or a closed
\* connection, when nothing is left to read.
Decide(u) ==
  /\ At(u, "decide")
  /\ LET complete == script[u].eof /\ client[u].seen = script[u].said
     IN Goto(u, IF StatusReady(u) /\ (complete \/ (Gone(u) /\ ~script[u].eof))
                  THEN "left" ELSE "feed")
  /\ UNCHANGED <<how, target, timer, link, script, installed>>

\* mutant: the end of the data is noticed one block late
FeedPastEnd(u) ==
  /\ At(u, "feed")
  /\ \/ Goto(u, "top")
     \/ ~client[u].eof /\ Gone(u) /\ Goto(u, "raise")
     \/ /\ ~client[u].eof /\ ~StatusReady(u)
        /\ client' = [client EXCEPT
             ![u].at = "top", ![u].sent = @ + 1, ![u].eof = client[u].sent = Size]
  /\ UNCHANGED <<how, target, timer, link, script, installed>>

\* A channel closed in between raises; a full window sends nothing.
Feed(u) ==
  /\ At(u, "feed")
  /\ \/ Goto(u, "top")
     \/ ~client[u].eof /\ Gone(u) /\ Goto(u, "raise")
     \/ /\ ~client[u].eof /\ ~StatusReady(u)
        /\ client' = [client EXCEPT
             ![u].at = "top",
             ![u].sent = IF @ = Size THEN @ ELSE @ + 1,
             ![u].eof = client[u].sent = Size]
  /\ UNCHANGED <<how, target, timer, link, script, installed>>

Left(u) ==
  /\ At(u, "left")
  /\ Goto(u, IF Expired(u) THEN "raise" ELSE "result")
  /\ UNCHANGED <<how, target, timer, link, script, installed>>

\* recv_exit_status: -1 from a connection that closed without one.
Result(u) ==
  /\ At(u, "result")
  /\ StatusReady(u)
  /\ Goto(u, "checked")
  /\ UNCHANGED <<how, target, timer, link, script, installed>>

Outcome(u) ==
  CASE client[u].heard = "0" -> "ok"
    [] client[u].heard = "1" -> "refused"
    [] OTHER -> "lost"

Return(u) ==
  /\ At(u, "checked")
  /\ IF Expired(u)
       THEN Goto(u, "raise") /\ UNCHANGED <<timer, link>>
       ELSE Ends(u, Outcome(u))
  /\ UNCHANGED <<how, target, script, installed>>

\* The except block: SSHCommandTimeout with the progress noted, if the timer
\* has fired.
Raise(u) ==
  /\ At(u, "raise")
  /\ Ends(u, IF Expired(u) THEN "timeout" ELSE "error")
  /\ UNCHANGED <<how, target, script, installed>>

-----------------------------------------------------------------------------
(* The script of ssh_write.  It runs on when the connection is gone, until   *)
(* that kills it: at the latest when it prints.                              *)

Command(u, from, to, said) ==
  /\ Does(u, from)
  /\ script' = [script EXCEPT ![u].at = to, ![u].said = said]

\* set -e, and the trap that removes the temporary file.
Exits(u, status) ==
  script' = [script EXCEPT ![u].at = "exited", ![u].exit = status, ![u].temp = FALSE]

Begin(u) ==
  /\ At(u, "exec") /\ link[u] = "up"
  /\ Command(u, "none", "target", 0)
  /\ UNCHANGED <<how, target, client, timer, link, installed>>

Prepare(u) ==
  /\ Command(u, "target", "mktemp", 1)
  /\ UNCHANGED <<how, target, client, timer, link, installed>>

MakeTemp(u) ==
  /\ Does(u, "mktemp")
  /\ script' = [script EXCEPT ![u].at = "cat", ![u].temp = TRUE, ![u].said = 2]
  /\ UNCHANGED <<how, target, client, timer, link, installed>>

Receive(u) ==
  /\ Does(u, "cat")
  /\ script[u].got < client[u].sent
  /\ script' = [script EXCEPT ![u].got = @ + 1]
  /\ UNCHANGED <<how, target, client, timer, link, installed>>

\* The end of input: shutdown_write, or the end of the connection.
InputEnds(u) ==
  /\ (client[u].eof /\ script[u].got = Size) \/ Gone(u)
  /\ Command(u, "cat", "check", 3)
  /\ UNCHANGED <<how, target, client, timer, link, installed>>

\* mutant: no comparison of size and digest
CheckNothing(u) ==
  /\ Command(u, "check", "chmod", 3)
  /\ UNCHANGED <<how, target, client, timer, link, installed>>

\* Size and SHA-256 against those of the data.
Check(u) ==
  /\ Does(u, "check")
  /\ IF script[u].got = Size THEN Command(u, "check", "chmod", 3) ELSE Exits(u, "1")
  /\ UNCHANGED <<how, target, client, timer, link, installed>>

Permit(u) ==
  /\ Command(u, "chmod", "mv", 4)
  /\ UNCHANGED <<how, target, client, timer, link, installed>>

Content(u) == IF script[u].got = Size THEN u ELSE Torn

Move(u) ==
  /\ Does(u, "mv")
  /\ target' = Content(u)
  /\ installed' = installed \cup {u}
  /\ script' = [script EXCEPT ![u].at = "done", ![u].temp = FALSE]
  /\ UNCHANGED <<how, client, timer, link>>

Finish(u) ==
  /\ Does(u, "done")
  /\ script' = [script EXCEPT ![u].at = "exited", ![u].exit = "0", ![u].said = 5]
  /\ UNCHANGED <<how, target, client, timer, link, installed>>

\* mutant: no set -e
CommandIgnored(u) ==
  /\ script[u].at \in {"target", "mktemp", "cat", "check", "chmod", "mv"}
  /\ Exits(u, "0")
  /\ UNCHANGED <<how, target, client, timer, link, installed>>

\* The target is a directory, or a command fails: no space, no permission.
CommandFails(u) ==
  /\ script[u].at \in {"target", "mktemp", "cat", "check", "chmod", "mv"}
  /\ Exits(u, "1")
  /\ UNCHANGED <<how, target, client, timer, link, installed>>

\* Killed with its connection, where it stands or through the trap.
ScriptDies(u) ==
  /\ Gone(u)
  /\ script[u].at \notin {"none", "exited"}
  /\ \E temp \in {FALSE, script[u].temp} :
       script' = [script EXCEPT ![u].at = "exited", ![u].temp = temp]
  /\ UNCHANGED <<how, target, client, timer, link, installed>>

-----------------------------------------------------------------------------
(* sftp_write.  Every request is answered, refused, or not answered in time, *)
(* executed or not.                                                          *)

\* How a failed request ends the call, past the removal of the temporary file.
Abandon(u, created, out) ==
  IF created
    THEN /\ client' = [client EXCEPT ![u].at = "remove", ![u].out = out]
         /\ UNCHANGED <<timer, link>>
    ELSE Ends(u, out)

Unanswered == {"timeout", "error"}

\* The subsystem, with a timer of its own, and the mode of the target.
OpenSftp(u) ==
  /\ At(u, "sftp")
  /\ \/ Goto(u, "create") /\ UNCHANGED <<timer, link>>
     \/ \E out \in Unanswered : Ends(u, out)
  /\ UNCHANGED <<how, target, script, installed>>

Create(u) ==
  /\ At(u, "create")
  /\ \/ /\ client' = [client EXCEPT ![u].at = "fill", ![u].created = TRUE]
        /\ script' = [script EXCEPT ![u].temp = TRUE]
        /\ UNCHANGED <<timer, link>>
     \/ Ends(u, "refused") /\ UNCHANGED script
     \/ /\ \E out \in Unanswered : Ends(u, out)
        /\ \E temp \in BOOLEAN : script' = [script EXCEPT ![u].temp = temp]
  /\ UNCHANGED <<how, target, installed>>

Fill(u) ==
  /\ At(u, "fill")
  /\ \E n \in 0..Size :
       /\ script' = [script EXCEPT ![u].got = n]
       /\ \/ Goto(u, "verify") /\ UNCHANGED <<timer, link>>
          \/ \E out \in Unanswered \cup {"refused"} : Abandon(u, TRUE, out)
  /\ UNCHANGED <<how, target, installed>>

Verify(u) ==
  /\ At(u, "verify")
  /\ \/ script[u].got = Size /\ Goto(u, "rename") /\ UNCHANGED <<timer, link>>
     \/ script[u].got # Size /\ Abandon(u, TRUE, "refused")
     \/ \E out \in Unanswered : Abandon(u, TRUE, out)
  /\ UNCHANGED <<how, target, script, installed>>

Renamed(u) ==
  /\ target' = Content(u)
  /\ installed' = installed \cup {u}
  /\ script' = [script EXCEPT ![u].temp = FALSE]

Rename(u) ==
  /\ At(u, "rename")
  /\ \/ Renamed(u) /\ Goto(u, "close") /\ UNCHANGED <<timer, link>>
     \/ Abandon(u, TRUE, "refused") /\ UNCHANGED <<target, installed, script>>
     \/ /\ \E out \in Unanswered : Abandon(u, TRUE, out)
        /\ Renamed(u) \/ UNCHANGED <<target, installed, script>>
  /\ UNCHANGED how

CloseSftp(u) ==
  /\ At(u, "close")
  /\ Ends(u, "ok")
  /\ UNCHANGED <<how, target, script, installed>>

\* Best effort: a failure is logged.
Remove(u) ==
  /\ At(u, "remove")
  /\ \E temp \in {FALSE, script[u].temp} : script' = [script EXCEPT ![u].temp = temp]
  /\ Ends(u, client[u].out)
  /\ UNCHANGED <<how, target, installed>>

-----------------------------------------------------------------------------
\* The application dies: its threads and connections end.
Crash ==
  /\ client' = [u \in Uploads |->
       IF At(u, "ended") THEN client[u] ELSE [client[u] EXCEPT !.at = "ended", !.out = "error"]]
  /\ timer' = [u \in Uploads |-> "off"]
  /\ link' = [u \in Uploads |-> IF link[u] = "up" THEN "end" ELSE link[u]]
  /\ UNCHANGED <<how, target, script, installed>>

ClientStep(u) ==
  \/ Connect(u) \/ ConnectFails(u)
  \/ Exec(u) \/ Top(u) \/ Drain(u) \/ Decide(u) \/ Feed(u) \/ Left(u)
  \/ Result(u) \/ Return(u) \/ Raise(u)
  \/ OpenSftp(u) \/ Create(u) \/ Fill(u) \/ Verify(u) \/ Rename(u) \/ CloseSftp(u) \/ Remove(u)

TimerStep(u) == Note(u) \/ Expire(u) \/ Close(u)

ScriptStep(u) ==
  \/ Begin(u) \/ Prepare(u) \/ MakeTemp(u) \/ Receive(u) \/ InputEnds(u) \/ Check(u)
  \/ Permit(u) \/ Move(u) \/ Finish(u) \/ CommandFails(u) \/ ScriptDies(u)

LinkStep(u) == Break(u) \/ StatusArrives(u) \/ EofArrives(u)

UploadStep(u) == ClientStep(u) \/ TimerStep(u) \/ ScriptStep(u) \/ LinkStep(u)

Next == Crash \/ \E u \in Uploads : UploadStep(u)

Spec == Init /\ [][Next]_vars

-----------------------------------------------------------------------------
(* Properties *)

TypeOK ==
  /\ how \in [Uploads -> {"stdin", "sftp"}]
  /\ target \in Uploads \cup {Before, Torn}
  /\ client \in [Uploads -> Client]
  /\ timer \in [Uploads -> {"off", "running", "noted", "expired", "closed"}]
  /\ link \in [Uploads -> {"none", "up", "network", "timer", "end"}]
  /\ script \in [Uploads -> Script]
  /\ installed \subseteq Uploads

\* A connection that _exec_ssh's own timer closes is reported as a timeout,
\* never as a result of the command, although closing it makes Paramiko report
\* an exit status: whenever the timer fires between two steps of the loop.
OwnCloseIsTimeout == \A u \in Uploads : client[u].out = "lost" => link[u] = "network"

\* A result comes with all the command printed, also what arrives after its
\* exit status; unless the network breaks first.
OutputComplete ==
  \A u \in Uploads :
    how[u] = "stdin" /\ client[u].out \in {"ok", "refused"} /\ link[u] = "end"
      => client[u].seen = script[u].said

\* What the message of a timeout says about the upload is so: the progress, an
\* exit status that came in time, the last stage the script printed.
ReportIsTrue ==
  \A u \in Uploads :
    how[u] = "stdin" /\ client[u].out = "timeout" =>
      LET report == client[u].noted
      IN /\ report \in Progress
         /\ report.stage = "exec_start" => report.accepted = 0 /\ ~report.eof
         /\ report.eof => report.accepted = Size
         /\ report.status = "0" => u \in installed
         /\ report.status = "1" => u \notin installed
         /\ client[u].seen = 5 => u \in installed

\* ssh_write and sftp_write replace the file atomically.
Abstract == INSTANCE AtomicWrite WITH
  answer <- [u \in Uploads |->
               IF ~At(u, "ended") THEN "none"
               ELSE IF client[u].out \in {"ok", "refused"} THEN client[u].out ELSE "unknown"]

ImplementsAtomicWrite == Abstract!Spec
=============================================================================
