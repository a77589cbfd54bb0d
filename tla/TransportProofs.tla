---------------------------- MODULE TransportProofs ----------------------------
(***************************************************************************)
(* Proofs about module Transport, for any number of calls and visitors at  *)
(* once, of hosts and keys, and for data of any size: the types, that the  *)
(* writing of files implements AtomicWrite, and the host keys.             *)
(*                                                                         *)
(* Sound relates, for one call, what the client has heard to what the      *)
(* script or sftp_write has done: a status is the script's own, given at   *)
(* its end; the file is replaced between "mv" and the status 0; only whole *)
(* data reaches "mv".  Every step of a call has its Effect on that call    *)
(* and no other.  HostInv says, for entries that are not disturbed, what   *)
(* the threads between their load and the end of their save have read: at  *)
(* most one of them will save the key of such an entry.                    *)
(***************************************************************************)
EXTENDS Transport, TLAPS

ClientSteps == {"connect", "exec", "top", "drain", "decide", "feed", "left", "result",
                "checked", "raise", "sftp", "create", "fill", "verify", "rename",
                "close", "remove", "ended"}
NodeCommands == {"none", "target", "mktemp", "cat", "check", "chmod", "mv", "done", "exited"}
Outs == {"none", "ok", "refused", "lost", "timeout", "error"}
Timers == {"off", "running", "noted", "expired", "closed"}
Links == {"none", "up", "network", "timer", "end"}

StdinSteps == {"exec", "top", "drain", "decide", "feed", "left", "result", "checked", "raise"}
SftpSteps == {"sftp", "create", "fill", "verify", "rename", "close", "remove"}

\* h: the method; c: the client's side; s: the script's; done: the file has
\* been replaced.
SoundScript(h, s, done) ==
  /\ s.exit # NoStatus => s.at = "exited"
  /\ s.exit = "0" => done
  /\ s.exit = "1" => ~done
  /\ s.at = "done" => done
  /\ s.at \in {"target", "mktemp", "cat", "check", "chmod", "mv"} => ~done
  /\ s.at \in {"chmod", "mv"} => s.got = Size
  /\ h = "stdin" /\ s.at = "none" => ~done
  /\ h = "sftp" => s.at = "none"

SoundStdin(c, s) ==
  /\ c.at \notin SftpSteps
  /\ c.heard # NoStatus => s.at = "exited" /\ c.heard = s.exit
  /\ c.at = "ended" /\ c.out = "ok" => c.heard = "0"
  /\ c.at = "ended" /\ c.out = "refused" => c.heard = "1"

SoundSftp(c, s, done) ==
  /\ c.at \notin StdinSteps
  /\ c.heard = NoStatus
  /\ c.at \in {"connect", "sftp", "create", "fill", "verify", "rename"} => ~done
  /\ c.at = "rename" => s.got = Size
  /\ c.at = "close" => done
  /\ c.at \in {"remove", "ended"} /\ c.out = "refused" => ~done
  /\ c.at = "remove" => c.out # "ok"
  /\ c.at = "ended" /\ c.out = "ok" => done

Sound(h, c, s, done) ==
  /\ SoundScript(h, s, done)
  /\ h = "stdin" => SoundStdin(c, s)
  /\ h = "sftp" => SoundSftp(c, s, done)

SoundCall(u) == Sound(how[u], client[u], script[u], u \in installed)

IInv == TypeOK /\ \A u \in Uploads : SoundCall(u)

-----------------------------------------------------------------------------
(* Records *)

\* The client's side after a step.
Moved(c, at) == [c EXCEPT !.at = at]
Ended(c, at, out) == [c EXCEPT !.at = at, !.out = out]
Created(c) == [c EXCEPT !.at = "fill", !.created = TRUE]
Drained(c, n) == [c EXCEPT !.at = "decide", !.seen = n]
Sent(c, n, eof) == [c EXCEPT !.at = "top", !.sent = n, !.eof = eof]
Heard(c, status) == [c EXCEPT !.heard = status]
Noted(c, report) == [c EXCEPT !.noted = report]

\* The next step alone.
LEMMA MovedFields ==
  ASSUME NEW c \in Client, NEW at \in ClientSteps
  PROVE  /\ Moved(c, at) \in Client /\ Moved(c, at).at = at
         /\ Moved(c, at).heard = c.heard /\ Moved(c, at).out = c.out
  BY DEF Moved, Client, ClientSteps

\* An outcome.
LEMMA EndedFields ==
  ASSUME NEW c \in Client, NEW at \in ClientSteps, NEW out \in Outs
  PROVE  /\ Ended(c, at, out) \in Client /\ Ended(c, at, out).at = at
         /\ Ended(c, at, out).heard = c.heard /\ Ended(c, at, out).out = out
  BY DEF Ended, Client, ClientSteps, Outs

\* The temporary file of sftp_write.
LEMMA CreatedFields ==
  ASSUME NEW c \in Client
  PROVE  /\ Created(c) \in Client /\ Created(c).at = "fill"
         /\ Created(c).heard = c.heard /\ Created(c).out = c.out
  BY DEF Created, Client

\* Output read.
LEMMA DrainedFields ==
  ASSUME NEW c \in Client, NEW n \in 0..5
  PROVE  /\ Drained(c, n) \in Client /\ Drained(c, n).at = "decide"
         /\ Drained(c, n).heard = c.heard /\ Drained(c, n).out = c.out
  BY DEF Drained, Client

\* Input handed over.
LEMMA SentFields ==
  ASSUME NEW c \in Client, NEW n \in 0..Size, NEW eof \in BOOLEAN
  PROVE  /\ Sent(c, n, eof) \in Client /\ Sent(c, n, eof).at = "top"
         /\ Sent(c, n, eof).heard = c.heard /\ Sent(c, n, eof).out = c.out
  BY DEF Sent, Client

\* An exit status.
LEMMA HeardFields ==
  ASSUME NEW c \in Client, NEW status \in {NoStatus, "0", "1"}
  PROVE  /\ Heard(c, status) \in Client /\ Heard(c, status).at = c.at
         /\ Heard(c, status).heard = status /\ Heard(c, status).out = c.out
  BY DEF Heard, Client

\* The progress at the timeout.
LEMMA NotedFields ==
  ASSUME NEW c \in Client, NEW report \in Progress
  PROVE  /\ Noted(c, report) \in Client /\ Noted(c, report).at = c.at
         /\ Noted(c, report).heard = c.heard /\ Noted(c, report).out = c.out
  BY DEF Noted, Client

\* The node's side after a step.
Ran(s, to, said) == [s EXCEPT !.at = to, !.said = said]
Opened(s) == [s EXCEPT !.at = "cat", !.temp = TRUE, !.said = 2]
Got(s, n) == [s EXCEPT !.got = n]
Exited(s, status) == [s EXCEPT !.at = "exited", !.exit = status, !.temp = FALSE]
Installed(s) == [s EXCEPT !.at = "done", !.temp = FALSE]
Finished(s) == [s EXCEPT !.at = "exited", !.exit = "0", !.said = 5]
Printed(s) == [s EXCEPT !.eof = TRUE]
Killed(s, temp) == [s EXCEPT !.at = "exited", !.temp = temp]
Temp(s, temp) == [s EXCEPT !.temp = temp]

\* The next command.
LEMMA RanFields ==
  ASSUME NEW s \in Script, NEW to \in NodeCommands, NEW said \in 0..5
  PROVE  /\ Ran(s, to, said) \in Script /\ Ran(s, to, said).at = to
         /\ Ran(s, to, said).got = s.got /\ Ran(s, to, said).exit = s.exit
  BY DEF Ran, Script, NodeCommands

\* The temporary file of ssh_write.
LEMMA OpenedFields ==
  ASSUME NEW s \in Script
  PROVE  /\ Opened(s) \in Script /\ Opened(s).at = "cat"
         /\ Opened(s).got = s.got /\ Opened(s).exit = s.exit
  <1>1. 2 \in 0..5
    OBVIOUS
  <1> QED
    BY <1>1 DEF Opened, Script

\* Data in it.
LEMMA GotFields ==
  ASSUME NEW s \in Script, NEW n \in 0..Size
  PROVE  /\ Got(s, n) \in Script /\ Got(s, n).at = s.at
         /\ Got(s, n).got = n /\ Got(s, n).exit = s.exit
  BY DEF Got, Script

\* The end of the script with a status.
LEMMA ExitedFields ==
  ASSUME NEW s \in Script, NEW status \in {NoStatus, "0", "1"}
  PROVE  /\ Exited(s, status) \in Script /\ Exited(s, status).at = "exited"
         /\ Exited(s, status).got = s.got /\ Exited(s, status).exit = status
  BY DEF Exited, Script

\* The file is replaced.
LEMMA InstalledFields ==
  ASSUME NEW s \in Script
  PROVE  /\ Installed(s) \in Script /\ Installed(s).at = "done"
         /\ Installed(s).got = s.got /\ Installed(s).exit = s.exit
  BY DEF Installed, Script

\* The end of the script.
LEMMA FinishedFields ==
  ASSUME NEW s \in Script
  PROVE  /\ Finished(s) \in Script /\ Finished(s).at = "exited"
         /\ Finished(s).got = s.got /\ Finished(s).exit = "0"
  <1>1. 5 \in 0..5
    OBVIOUS
  <1> QED
    BY <1>1 DEF Finished, Script

\* The end of its output.
LEMMA PrintedFields ==
  ASSUME NEW s \in Script
  PROVE  /\ Printed(s) \in Script /\ Printed(s).at = s.at
         /\ Printed(s).got = s.got /\ Printed(s).exit = s.exit
  BY DEF Printed, Script

\* Its death.
LEMMA KilledFields ==
  ASSUME NEW s \in Script, NEW temp \in BOOLEAN
  PROVE  /\ Killed(s, temp) \in Script /\ Killed(s, temp).at = "exited"
         /\ Killed(s, temp).got = s.got /\ Killed(s, temp).exit = s.exit
  BY DEF Killed, Script

\* The temporary file alone.
LEMMA TempFields ==
  ASSUME NEW s \in Script, NEW temp \in BOOLEAN
  PROVE  /\ Temp(s, temp) \in Script /\ Temp(s, temp).at = s.at
         /\ Temp(s, temp).got = s.got /\ Temp(s, temp).exit = s.exit
  BY DEF Temp, Script

-----------------------------------------------------------------------------
(* Effects *)

\* What a step may do: change its own call only, which stays sound and stays
\* ended, and replace the file at most once, never for a call that was refused.
Effect(u) ==
  /\ UNCHANGED how
  /\ \E c \in Client, s \in Script :
       /\ client' = [client EXCEPT ![u] = c] /\ script' = [script EXCEPT ![u] = s]
       /\ At(u, "ended") => c.at = "ended" /\ c.out = client[u].out
       /\ \/ UNCHANGED <<target, installed>> /\ Sound(how[u], c, s, u \in installed)
          \/ /\ u \notin installed /\ target' = u /\ installed' = installed \cup {u}
             /\ c.at = "ended" => At(u, "ended")
             /\ ~(At(u, "ended") /\ client[u].out = "refused")
             /\ Sound(how[u], c, s, TRUE)

\* The parts of a typed state.
LEMMA Parts ==
  ASSUME TypeOK, NEW u \in Uploads
  PROVE  /\ client \in [Uploads -> Client] /\ script \in [Uploads -> Script]
         /\ client[u] \in Client /\ script[u] \in Script /\ how[u] \in {"stdin", "sftp"}
  BY DEF TypeOK

\* A step of the client that replaces nothing.
LEMMA ClientEffect ==
  ASSUME TypeOK, NEW u \in Uploads, NEW c \in Client, client' = [client EXCEPT ![u] = c],
         UNCHANGED <<how, target, script, installed>>,
         At(u, "ended") => c.at = "ended" /\ c.out = client[u].out,
         Sound(how[u], c, script[u], u \in installed)
  PROVE  Effect(u)
  <1>1. script' = [script EXCEPT ![u] = script[u]] /\ script[u] \in Script
    BY Parts
  <1> QED
    BY <1>1 DEF Effect

\* A step of the node that replaces nothing.
LEMMA ScriptEffect ==
  ASSUME TypeOK, NEW u \in Uploads, NEW s \in Script, script' = [script EXCEPT ![u] = s],
         UNCHANGED <<how, target, client, installed>>,
         Sound(how[u], client[u], s, u \in installed)
  PROVE  Effect(u)
  <1>1. client' = [client EXCEPT ![u] = client[u]] /\ client[u] \in Client
    BY Parts
  <1> QED
    BY <1>1 DEF Effect, At

\* Within the loop nothing is learnt that matters here.
LEMMA LoopSound ==
  ASSUME TypeOK, NEW u \in Uploads, SoundCall(u), client[u].at \in StdinSteps,
         NEW c \in Client, c.at \in StdinSteps \cup {"ended"}, c.heard = client[u].heard,
         c.at = "ended" /\ c.out = "ok" => c.heard = "0",
         c.at = "ended" /\ c.out = "refused" => c.heard = "1"
  PROVE  Sound(how[u], c, script[u], u \in installed)
  <1>1. how[u] = "stdin"
    BY Parts DEF SoundCall, Sound, SoundSftp
  <1> QED
    BY <1>1 DEF SoundCall, Sound, SoundStdin, StdinSteps, SftpSteps

\* A step within the loop.
LEMMA LoopMoves ==
  ASSUME TypeOK, NEW u \in Uploads, SoundCall(u), client[u].at \in StdinSteps, NEW at \in StdinSteps,
         Goto(u, at), UNCHANGED <<how, target, script, installed>>
  PROVE  Effect(u)
  <1> DEFINE c == Moved(client[u], at)
  <1>1. client' = [client EXCEPT ![u] = c]
    BY DEF Goto, Moved
  <1>2. c \in Client /\ c.at = at /\ c.heard = client[u].heard
    BY Parts, MovedFields DEF StdinSteps, ClientSteps
  <1> HIDE DEF c
  <1>3. Sound(how[u], c, script[u], u \in installed)
    BY <1>2, LoopSound DEF StdinSteps
  <1>4. ~At(u, "ended")
    BY DEF At, StdinSteps
  <1> QED
    BY <1>1, <1>2, <1>3, <1>4, ClientEffect

\* The end of a call by the loop.
LEMMA LoopEnds ==
  ASSUME TypeOK, NEW u \in Uploads, SoundCall(u), client[u].at \in StdinSteps, NEW out \in Outs,
         Ends(u, out), UNCHANGED <<how, target, script, installed>>,
         out = "ok" => client[u].heard = "0", out = "refused" => client[u].heard = "1"
  PROVE  Effect(u)
  <1> DEFINE c == Ended(client[u], "ended", out)
  <1>1. client' = [client EXCEPT ![u] = c]
    BY DEF Ends, Ended
  <1>2. c \in Client /\ c.at = "ended" /\ c.out = out /\ c.heard = client[u].heard
    <2>1. "ended" \in ClientSteps
      BY DEF ClientSteps
    <2> QED
      BY <2>1, Parts, EndedFields
  <1> HIDE DEF c
  <1>3. Sound(how[u], c, script[u], u \in installed)
    BY <1>2, LoopSound
  <1>4. ~At(u, "ended")
    BY DEF At, StdinSteps
  <1> QED
    BY <1>1, <1>2, <1>3, <1>4, ClientEffect

\* The steps of the loop.
LEMMA LoopSteps ==
  ASSUME TypeOK, NEW u \in Uploads, SoundCall(u),
         \/ Exec(u) \/ Top(u) \/ Drain(u) \/ Decide(u) \/ Feed(u) \/ Left(u)
         \/ Result(u) \/ Return(u) \/ Raise(u)
  PROVE  Effect(u)
  <1>1. client[u].at \in StdinSteps
    BY DEF Exec, Top, Drain, Decide, Feed, Left, Result, Return, Raise, At, StdinSteps
  <1>2. ~At(u, "ended") /\ UNCHANGED <<how, target, script, installed>>
    BY <1>1 DEF Exec, Top, Drain, Decide, Feed, Left, Result, Return, Raise, At, StdinSteps
  <1>3. CASE \E at \in StdinSteps : Goto(u, at)
    BY <1>1, <1>2, <1>3, LoopMoves
  <1>4. CASE Exec(u) \/ Top(u) \/ Decide(u) \/ Left(u) \/ Result(u)
    BY <1>3, <1>4 DEF Exec, Top, Decide, Left, Result, StdinSteps
  <1>5. CASE Drain(u)
    <2>1. PICK n \in client[u].seen..script[u].said : client' = [client EXCEPT ![u] = Drained(client[u], n)]
      BY <1>5 DEF Drain, Drained
    <2>2. n \in 0..5
      BY Parts DEF Client, Script
    <2>3. /\ Drained(client[u], n) \in Client /\ Drained(client[u], n).at = "decide"
          /\ Drained(client[u], n).heard = client[u].heard
      BY <2>2, Parts, DrainedFields
    <2>4. Sound(how[u], Drained(client[u], n), script[u], u \in installed)
      BY <1>1, <2>3, LoopSound DEF StdinSteps
    <2> QED
      BY <1>2, <2>1, <2>3, <2>4, ClientEffect
  <1>6. CASE Feed(u)
    <2>1. CASE Goto(u, "top") \/ Goto(u, "raise")
      BY <1>3, <2>1 DEF StdinSteps
    <2>2. CASE client' = [client EXCEPT ![u].at = "top",
                                        ![u].sent = IF @ = Size THEN @ ELSE @ + 1,
                                        ![u].eof = client[u].sent = Size]
      <3> DEFINE n == IF client[u].sent = Size THEN client[u].sent ELSE client[u].sent + 1
                 eof == client[u].sent = Size
      <3>1. n \in 0..Size /\ eof \in BOOLEAN
        BY Parts, UploadAssumption DEF Client
      <3>2. client' = [client EXCEPT ![u] = Sent(client[u], n, eof)]
        BY <2>2 DEF Sent
      <3> HIDE DEF n, eof
      <3>3. /\ Sent(client[u], n, eof) \in Client /\ Sent(client[u], n, eof).at = "top"
            /\ Sent(client[u], n, eof).heard = client[u].heard
        BY <3>1, Parts, SentFields
      <3>4. Sound(how[u], Sent(client[u], n, eof), script[u], u \in installed)
        BY <1>1, <3>3, LoopSound DEF StdinSteps
      <3> QED
        BY <1>2, <3>2, <3>3, <3>4, ClientEffect
    <2> QED
      BY <1>6, <2>1, <2>2 DEF Feed
  <1>7. CASE Return(u)
    <2>1. CASE Goto(u, "raise")
      BY <1>3, <2>1 DEF StdinSteps
    <2>2. CASE Ends(u, Outcome(u))
      <3>1. /\ Outcome(u) \in Outs
            /\ Outcome(u) = "ok" => client[u].heard = "0"
            /\ Outcome(u) = "refused" => client[u].heard = "1"
        BY DEF Outcome, Outs
      <3> QED
        BY <1>1, <1>2, <2>2, <3>1, LoopEnds
    <2> QED
      BY <1>7, <2>1, <2>2 DEF Return
  <1>8. CASE Raise(u)
    <2>1. PICK out \in {"timeout", "error"} : Ends(u, out)
      BY <1>8 DEF Raise
    <2> QED
      BY <1>1, <1>2, <2>1, LoopEnds DEF Outs
  <1> QED
    BY <1>4, <1>5, <1>6, <1>7, <1>8

\* A step of sftp_write, or of the connection before either method.
LEMMA SftpMoves ==
  ASSUME TypeOK, NEW u \in Uploads, SoundCall(u),
         NEW from \in {"connect", "sftp", "create", "fill", "verify"}, At(u, from),
         NEW at \in {"exec", "sftp", "create", "fill", "verify", "rename"},
         NEW c \in Client, c.at = at, c.heard = client[u].heard,
         NEW s \in Script, s.at = script[u].at, s.exit = script[u].exit, UNCHANGED <<how, target, installed>>,
         client' = [client EXCEPT ![u] = c], script' = [script EXCEPT ![u] = s],
         from = "connect" => s.got = script[u].got /\ at = (IF how[u] = "stdin" THEN "exec" ELSE "sftp"),
         from # "connect" => how[u] = "sftp" /\ at # "exec",
         at = "rename" => s.got = Size
  PROVE  Effect(u)
  <1>1. how[u] \in {"stdin", "sftp"} /\ ~At(u, "ended")
    BY Parts DEF At
  <1>2. CASE how[u] = "stdin"
    <2>1. Sound(how[u], c, s, u \in installed)
      BY <1>2 DEF SoundCall, Sound, SoundScript, SoundStdin, SftpSteps, At
    <2> QED
      BY <1>1, <2>1 DEF Effect
  <1>3. CASE how[u] = "sftp"
    <2>1. Sound(how[u], c, s, u \in installed)
      BY <1>3 DEF SoundCall, Sound, SoundScript, SoundSftp, StdinSteps, At
    <2> QED
      BY <1>1, <2>1 DEF Effect
  <1> QED
    BY <1>1, <1>2, <1>3

\* The end of a call by sftp_write, or of its use of the file.
LEMMA SftpEnds ==
  ASSUME TypeOK, NEW u \in Uploads, SoundCall(u), how[u] = "sftp",
         client[u].at \in {"connect"} \cup SftpSteps,
         NEW at \in {"remove", "ended"}, NEW out \in Outs,
         NEW s \in Script, s.at = script[u].at, s.exit = script[u].exit, UNCHANGED <<how, target, installed>>,
         client' = [client EXCEPT ![u].at = at, ![u].out = out], script' = [script EXCEPT ![u] = s],
         out = "refused" => u \notin installed,
         out = "ok" => at = "ended" /\ u \in installed
  PROVE  Effect(u)
  <1> DEFINE c == Ended(client[u], at, out)
  <1>1. client' = [client EXCEPT ![u] = c]
    BY DEF Ended
  <1>2. c \in Client /\ c.at = at /\ c.out = out /\ c.heard = client[u].heard
    <2>1. at \in ClientSteps
      BY DEF ClientSteps
    <2> QED
      BY <2>1, Parts, EndedFields
  <1> HIDE DEF c
  <1>3. Sound(how[u], c, s, u \in installed)
    BY <1>2 DEF SoundCall, Sound, SoundScript, SoundSftp, StdinSteps
  <1>4. ~At(u, "ended")
    BY DEF At, SftpSteps
  <1> QED
    BY <1>1, <1>2, <1>3, <1>4 DEF Effect

\* The connection.
LEMMA ConnectSteps ==
  ASSUME TypeOK, NEW u \in Uploads, SoundCall(u), Connect(u) \/ ConnectFails(u)
  PROVE  Effect(u)
  <1>0. client[u] \in Client /\ script[u] \in Script /\ script' = [script EXCEPT ![u] = script[u]]
    BY Parts DEF Connect, ConnectFails
  <1>1. CASE Connect(u)
    <2> DEFINE at == IF how[u] = "stdin" THEN "exec" ELSE "sftp"
    <2>1. client' = [client EXCEPT ![u] = Moved(client[u], at)]
      BY <1>1 DEF Connect, Goto, Moved
    <2>2. /\ Moved(client[u], at) \in Client /\ Moved(client[u], at).at = at
          /\ Moved(client[u], at).heard = client[u].heard
      <3>1. at \in ClientSteps
        BY DEF ClientSteps
      <3> QED
        BY <1>0, <3>1, MovedFields
    <2>3. At(u, "connect") /\ UNCHANGED <<how, target, installed>>
      BY <1>1 DEF Connect
    <2> QED
      BY <1>0, <2>1, <2>2, <2>3, SftpMoves
  <1>2. CASE ConnectFails(u)
    <2> DEFINE c == Ended(client[u], "ended", "error")
    <2>1. client' = [client EXCEPT ![u] = c]
      BY <1>2 DEF ConnectFails, Ends, Ended
    <2>2. c \in Client /\ c.at = "ended" /\ c.out = "error" /\ c.heard = client[u].heard
      <3>1. "ended" \in ClientSteps /\ "error" \in Outs
        BY DEF ClientSteps, Outs
      <3> QED
        BY <1>0, <3>1, EndedFields
    <2> HIDE DEF c
    <2>3. At(u, "connect") /\ UNCHANGED <<how, target, script, installed>>
      BY <1>2 DEF ConnectFails
    <2>4. Sound(how[u], c, script[u], u \in installed)
      BY <2>2, <2>3 DEF SoundCall, Sound, SoundScript, SoundStdin, SoundSftp, StdinSteps, SftpSteps
    <2> QED
      BY <2>1, <2>2, <2>3, <2>4, ClientEffect DEF At
  <1> QED
    BY <1>1, <1>2

\* A failed request of sftp_write.
LEMMA Abandons ==
  ASSUME TypeOK, NEW u \in Uploads, SoundCall(u), how[u] = "sftp", client[u].at \in SftpSteps,
         NEW created \in BOOLEAN, NEW out \in Outs \ {"ok"}, Abandon(u, created, out),
         NEW s \in Script, s.at = script[u].at, s.exit = script[u].exit,
         script' = [script EXCEPT ![u] = s], UNCHANGED <<how, target, installed>>,
         out = "refused" => u \notin installed
  PROVE  Effect(u)
  <1>1. PICK at \in {"remove", "ended"} : client' = [client EXCEPT ![u].at = at, ![u].out = out]
    BY DEF Abandon, Ends
  <1> QED
    BY <1>1, SftpEnds

\* The steps of sftp_write but for the renaming.
LEMMA RequestSteps ==
  ASSUME TypeOK, NEW u \in Uploads, SoundCall(u),
         OpenSftp(u) \/ Create(u) \/ Fill(u) \/ Verify(u) \/ CloseSftp(u) \/ Remove(u)
  PROVE  Effect(u)
  <1>0. /\ client[u] \in Client /\ script[u] \in Script
        /\ script = [script EXCEPT ![u] = script[u]]
    BY Parts
  <1>1. client[u].at \in SftpSteps
    BY DEF OpenSftp, Create, Fill, Verify, CloseSftp, Remove, At, SftpSteps
  <1>2. how[u] = "sftp" /\ UNCHANGED <<how, target, installed>>
    BY <1>1, Parts DEF OpenSftp, Create, Fill, Verify, CloseSftp, Remove, SoundCall, Sound, SoundStdin
  <1>3. ASSUME NEW out \in Outs, Ends(u, out), script' = script,
               out = "refused" => u \notin installed, out = "ok" => u \in installed
        PROVE  Effect(u)
    <2>1. client' = [client EXCEPT ![u].at = "ended", ![u].out = out]
      BY <1>3 DEF Ends
    <2> QED
      BY <1>0, <1>1, <1>2, <1>3, <2>1, SftpEnds
  <1>4. ASSUME NEW at \in {"create", "verify", "rename"}, Goto(u, at),
               NEW from \in {"sftp", "fill", "verify"}, At(u, from),
               NEW s \in Script, s.at = script[u].at, s.exit = script[u].exit,
               script' = [script EXCEPT ![u] = s], at = "rename" => s.got = Size
        PROVE  Effect(u)
    <2> DEFINE c == Moved(client[u], at)
    <2>1. client' = [client EXCEPT ![u] = c]
      BY <1>4 DEF Goto, Moved
    <2>2. c \in Client /\ c.at = at /\ c.heard = client[u].heard
      <3>1. at \in ClientSteps
        BY DEF ClientSteps
      <3> QED
        BY <1>0, <3>1, MovedFields
    <2> HIDE DEF c
    <2> QED
      BY <1>2, <1>4, <2>1, <2>2, SftpMoves
  <1>5. ASSUME NEW temp \in BOOLEAN
        PROVE  /\ Temp(script[u], temp) \in Script /\ Temp(script[u], temp).at = script[u].at
               /\ Temp(script[u], temp).exit = script[u].exit
    BY <1>0, TempFields
  <1>6. CASE OpenSftp(u)
    <2>1. CASE Goto(u, "create")
      <3>1. At(u, "sftp") /\ script' = script
        BY <1>6 DEF OpenSftp
      <3> QED
        BY <1>0, <1>4, <2>1, <3>1
    <2>2. CASE \E out \in Unanswered : Ends(u, out)
      BY <1>3, <1>6, <2>2 DEF OpenSftp, Unanswered, Outs
    <2> QED
      BY <1>6, <2>1, <2>2 DEF OpenSftp
  <1>7. CASE Create(u)
    <2>1. u \notin installed /\ At(u, "create")
      BY <1>2, <1>7 DEF Create, At, SoundCall, Sound, SoundSftp
    <2>2. CASE /\ client' = [client EXCEPT ![u].at = "fill", ![u].created = TRUE]
               /\ script' = [script EXCEPT ![u].temp = TRUE]
      <3>1. client' = [client EXCEPT ![u] = Created(client[u])]
        BY <2>2 DEF Created
      <3>2. script' = [script EXCEPT ![u] = Temp(script[u], TRUE)]
        BY <2>2 DEF Temp
      <3>3. /\ Created(client[u]) \in Client /\ Created(client[u]).at = "fill"
            /\ Created(client[u]).heard = client[u].heard
        BY <1>0, CreatedFields
      <3> QED
        BY <1>2, <1>5, <2>1, <3>1, <3>2, <3>3, SftpMoves
    <2>3. CASE Ends(u, "refused") /\ UNCHANGED script
      BY <1>3, <2>1, <2>3 DEF Outs
    <2>4. CASE /\ \E out \in Unanswered : Ends(u, out)
               /\ \E temp \in BOOLEAN : script' = [script EXCEPT ![u].temp = temp]
      <3>1. PICK out \in Unanswered, temp \in BOOLEAN :
              Ends(u, out) /\ script' = [script EXCEPT ![u] = Temp(script[u], temp)]
        BY <2>4 DEF Temp
      <3>2. client' = [client EXCEPT ![u].at = "ended", ![u].out = out]
        BY <3>1 DEF Ends
      <3>3. out \in Outs \ {"ok", "refused"}
        BY DEF Unanswered, Outs
      <3> QED
        BY <1>1, <1>2, <1>5, <3>1, <3>2, <3>3, SftpEnds
    <2> QED
      BY <1>7, <2>2, <2>3, <2>4 DEF Create
  <1>8. CASE Fill(u)
    <2>1. u \notin installed /\ At(u, "fill")
      BY <1>2, <1>8 DEF Fill, At, SoundCall, Sound, SoundSftp
    <2>2. PICK n \in 0..Size :
            /\ script' = [script EXCEPT ![u] = Got(script[u], n)]
            /\ Goto(u, "verify") \/ \E out \in Unanswered \cup {"refused"} : Abandon(u, TRUE, out)
      BY <1>8 DEF Fill, Got
    <2>3. /\ Got(script[u], n) \in Script /\ Got(script[u], n).at = script[u].at
          /\ Got(script[u], n).exit = script[u].exit
      BY <1>0, GotFields
    <2>4. Unanswered \cup {"refused"} \subseteq Outs \ {"ok"}
      BY DEF Unanswered, Outs
    <2>5. CASE Goto(u, "verify")
      BY <1>4, <2>1, <2>2, <2>3, <2>5
    <2>6. CASE \E out \in Unanswered \cup {"refused"} : Abandon(u, TRUE, out)
      BY <1>1, <1>2, <2>1, <2>2, <2>3, <2>4, <2>6, Abandons
    <2> QED
      BY <2>2, <2>5, <2>6
  <1>9. CASE Verify(u)
    <2>1. u \notin installed /\ At(u, "verify") /\ script' = script
      BY <1>2, <1>9 DEF Verify, At, SoundCall, Sound, SoundSftp
    <2>2. CASE script[u].got = Size /\ Goto(u, "rename")
      BY <1>0, <1>4, <2>1, <2>2
    <2>3. CASE \E out \in Unanswered \cup {"refused"} : Abandon(u, TRUE, out)
      <3>1. Unanswered \cup {"refused"} \subseteq Outs \ {"ok"}
        BY DEF Unanswered, Outs
      <3> QED
        BY <1>0, <1>1, <1>2, <2>1, <2>3, <3>1, Abandons
    <2> QED
      BY <1>9, <2>2, <2>3 DEF Verify
  <1>10. CASE CloseSftp(u)
    <2>1. u \in installed /\ Ends(u, "ok") /\ script' = script
      BY <1>2, <1>10 DEF CloseSftp, At, SoundCall, Sound, SoundSftp
    <2> QED
      BY <1>3, <2>1 DEF Outs
  <1>11. CASE Remove(u)
    <2>1. PICK temp \in {FALSE, script[u].temp} : script' = [script EXCEPT ![u] = Temp(script[u], temp)]
      BY <1>11 DEF Remove, Temp
    <2>2. temp \in BOOLEAN
      BY <1>0 DEF Script
    <2>3. /\ client[u].out \in Outs \ {"ok"} /\ (client[u].out = "refused" => u \notin installed)
          /\ client' = [client EXCEPT ![u].at = "ended", ![u].out = client[u].out]
      <3>1. client[u].out \in Outs
        BY <1>0 DEF Client, Outs
      <3> QED
        BY <1>2, <1>11, <3>1 DEF Remove, Ends, At, SoundCall, Sound, SoundSftp
    <2> QED
      BY <1>1, <1>2, <1>5, <2>1, <2>2, <2>3, SftpEnds
  <1> QED
    BY <1>6, <1>7, <1>8, <1>9, <1>10, <1>11

\* The renaming, answered or not.
LEMMA RenameStep ==
  ASSUME TypeOK, NEW u \in Uploads, SoundCall(u), Rename(u)
  PROVE  Effect(u)
  <1>0. client[u] \in Client /\ script[u] \in Script /\ script = [script EXCEPT ![u] = script[u]]
    BY Parts
  <1>1. At(u, "rename") /\ UNCHANGED how
    BY DEF Rename
  <1>2. how[u] = "sftp" /\ client[u].at \in SftpSteps
    BY <1>1, Parts DEF At, SoundCall, Sound, SoundStdin, SftpSteps
  <1>3. u \notin installed /\ Content(u) = u
    BY <1>1, <1>2 DEF At, SoundCall, Sound, SoundSftp, Content
  <1>4. Unanswered \cup {"refused"} \subseteq Outs \ {"ok"}
    BY DEF Unanswered, Outs
  <1>5. CASE /\ UNCHANGED <<target, installed, script>>
             /\ \E out \in Unanswered \cup {"refused"} : Abandon(u, TRUE, out)
    BY <1>0, <1>1, <1>2, <1>3, <1>4, <1>5, Abandons
  <1>6. CASE /\ Renamed(u)
             /\ Goto(u, "close") \/ \E out \in Unanswered : Abandon(u, TRUE, out)
    <2> DEFINE s == Temp(script[u], FALSE)
    <2>1. s \in Script /\ s.at = script[u].at /\ s.exit = script[u].exit
      BY <1>0, TempFields
    <2>2. script' = [script EXCEPT ![u] = s] /\ target' = u /\ installed' = installed \cup {u}
      BY <1>3, <1>6 DEF Renamed, Temp
    <2> HIDE DEF s
    <2>3. PICK c \in Client : /\ client' = [client EXCEPT ![u] = c] /\ c.heard = client[u].heard
                              /\ c.at = "close" \/ (c.at = "remove" /\ c.out \notin {"ok", "refused"})
      <3>1. CASE Goto(u, "close")
        <4>1. client' = [client EXCEPT ![u] = Moved(client[u], "close")]
          BY <3>1 DEF Goto, Moved
        <4>2. "close" \in ClientSteps
          BY DEF ClientSteps
        <4> QED
          BY <1>0, <4>1, <4>2, MovedFields
      <3>2. CASE \E out \in Unanswered : Abandon(u, TRUE, out)
        <4>1. PICK out \in Unanswered : client' = [client EXCEPT ![u] = Ended(client[u], "remove", out)]
          BY <3>2 DEF Abandon, Ended
        <4>2. "remove" \in ClientSteps /\ out \in Outs /\ out \notin {"ok", "refused"}
          BY DEF ClientSteps, Unanswered, Outs
        <4>3. /\ Ended(client[u], "remove", out) \in Client /\ Ended(client[u], "remove", out).at = "remove"
              /\ Ended(client[u], "remove", out).heard = client[u].heard
              /\ Ended(client[u], "remove", out).out = out
          BY <1>0, <4>2, EndedFields
        <4> QED
          BY <4>1, <4>2, <4>3
      <3> QED
        BY <1>6, <3>1, <3>2
    <2>4. Sound(how[u], c, s, TRUE)
      BY <1>2, <2>1, <2>3, Parts DEF SoundCall, Sound, SoundScript, SoundSftp, StdinSteps, NoStatus
    <2>5. ~At(u, "ended") /\ c.at # "ended"
      BY <1>1, <2>3 DEF At
    <2> QED
      BY <1>1, <1>3, <2>1, <2>2, <2>3, <2>4, <2>5 DEF Effect
  <1> QED
    BY <1>5, <1>6 DEF Rename

\* A command of the script that replaces nothing.
LEMMA NodeRuns ==
  ASSUME TypeOK, NEW u \in Uploads, SoundCall(u), how[u] = "stdin", ~Does(u, "exited"),
         NEW s \in Script, script' = [script EXCEPT ![u] = s], UNCHANGED <<how, target, client, installed>>,
         SoundScript("stdin", s, u \in installed)
  PROVE  Effect(u)
  <1>1. client[u].heard = NoStatus
    BY DEF SoundCall, Sound, SoundStdin, Does
  <1>2. Sound(how[u], client[u], s, u \in installed)
    BY <1>1 DEF SoundCall, Sound, SoundStdin, NoStatus
  <1> QED
    BY <1>2, ScriptEffect

\* The steps of the script.
LEMMA NodeSteps ==
  ASSUME TypeOK, NEW u \in Uploads, SoundCall(u), ScriptStep(u)
  PROVE  Effect(u)
  <1>0. client[u] \in Client /\ script[u] \in Script
    BY Parts
  <1>1. how[u] = "stdin" /\ ~Does(u, "exited") /\ UNCHANGED how
    <2>1. CASE Begin(u)
      BY <2>1, Parts DEF Begin, Command, Does, At, SoundCall, Sound, SoundSftp, StdinSteps
    <2>2. CASE script[u].at \notin {"none", "exited"}
      BY <2>2, Parts DEF Does, SoundCall, Sound, SoundScript, ScriptStep, Begin, Prepare, MakeTemp, Receive,
         InputEnds, Check, Permit, Move, Finish, CommandFails, ScriptDies
    <2>3. ~Begin(u) => script[u].at \notin {"none", "exited"}
      BY DEF ScriptStep, Prepare, MakeTemp, Receive, InputEnds, Check, Permit, Move, Finish,
         CommandFails, ScriptDies, Command, Does
    <2> QED
      BY <2>1, <2>2, <2>3
  <1>2. /\ SoundScript("stdin", script[u], u \in installed) /\ script[u].exit = NoStatus
        /\ script[u].got \in 0..Size
    BY <1>0, <1>1 DEF SoundCall, Sound, SoundScript, Does, Script
  <1>3. ASSUME NEW from \in NodeCommands \ {"mv", "done", "exited"}, NEW to \in NodeCommands \ {"none", "done", "exited"},
               NEW said \in 0..5, Command(u, from, to, said), UNCHANGED <<target, client, installed>>,
               to \in {"chmod", "mv"} => script[u].got = Size
        PROVE  Effect(u)
    <2> DEFINE s == Ran(script[u], to, said)
    <2>1. script' = [script EXCEPT ![u] = s] /\ Does(u, from)
      BY <1>3 DEF Command, Ran
    <2>2. s \in Script /\ s.at = to /\ s.got = script[u].got /\ s.exit = script[u].exit
      BY <1>0, RanFields
    <2> HIDE DEF s
    <2>3. SoundScript("stdin", s, u \in installed)
      BY <1>2, <1>3, <2>1, <2>2 DEF SoundScript, Does, NodeCommands, NoStatus
    <2> QED
      BY <1>1, <1>3, <2>1, <2>2, <2>3, NodeRuns
  <1>4. ASSUME script[u].at \in {"target", "mktemp", "cat", "check", "chmod", "mv"}, Exits(u, "1"),
               UNCHANGED <<target, client, installed>>
        PROVE  Effect(u)
    <2> DEFINE s == Exited(script[u], "1")
    <2>1. script' = [script EXCEPT ![u] = s]
      BY <1>4 DEF Exits, Exited
    <2>2. s \in Script /\ s.at = "exited" /\ s.got = script[u].got /\ s.exit = "1"
      BY <1>0, ExitedFields
    <2> HIDE DEF s
    <2>3. SoundScript("stdin", s, u \in installed)
      BY <1>2, <1>4, <2>2 DEF SoundScript
    <2> QED
      BY <1>1, <1>4, <2>1, <2>2, <2>3, NodeRuns
  <1>5. {1, 2, 3, 4} \subseteq 0..5
    OBVIOUS
  <1>6. CASE Begin(u) \/ Prepare(u) \/ InputEnds(u)
    BY <1>3, <1>5, <1>6 DEF Begin, Prepare, InputEnds, NodeCommands
  <1>7. CASE MakeTemp(u)
    <2> DEFINE s == Opened(script[u])
    <2>1. script' = [script EXCEPT ![u] = s] /\ Does(u, "mktemp") /\ UNCHANGED <<target, client, installed>>
      BY <1>7 DEF MakeTemp, Opened
    <2>2. s \in Script /\ s.at = "cat" /\ s.got = script[u].got /\ s.exit = script[u].exit
      BY <1>0, OpenedFields
    <2> HIDE DEF s
    <2>3. SoundScript("stdin", s, u \in installed)
      BY <1>2, <2>1, <2>2 DEF SoundScript, Does, NoStatus
    <2> QED
      BY <1>1, <2>1, <2>2, <2>3, NodeRuns
  <1>8. CASE Receive(u)
    <2> DEFINE n == script[u].got + 1
               s == Got(script[u], n)
    <2>1. script' = [script EXCEPT ![u] = s] /\ Does(u, "cat") /\ UNCHANGED <<target, client, installed>>
      BY <1>8 DEF Receive, Got
    <2>2. n \in 0..Size
      BY <1>0, <1>8, UploadAssumption DEF Receive, Client, Script
    <2> HIDE DEF n
    <2>3. s \in Script /\ s.at = script[u].at /\ s.exit = script[u].exit
      BY <1>0, <2>2, GotFields
    <2> HIDE DEF s
    <2>4. SoundScript("stdin", s, u \in installed)
      BY <1>2, <2>1, <2>3 DEF SoundScript, Does, NoStatus
    <2> QED
      BY <1>1, <2>1, <2>3, <2>4, NodeRuns
  <1>9. CASE Check(u)
    <2>1. Does(u, "check") /\ UNCHANGED <<target, client, installed>>
      BY <1>9 DEF Check
    <2>2. CASE script[u].got = Size /\ Command(u, "check", "chmod", 3)
      BY <1>3, <1>5, <2>1, <2>2 DEF NodeCommands
    <2>3. CASE Exits(u, "1")
      BY <1>4, <2>1, <2>3 DEF Does
    <2> QED
      BY <1>9, <2>2, <2>3 DEF Check
  <1>10. CASE Permit(u)
    <2>1. script[u].got = Size
      BY <1>2, <1>10 DEF Permit, Command, Does, SoundScript
    <2> QED
      BY <1>3, <1>5, <1>10, <2>1 DEF Permit, NodeCommands
  <1>11. CASE Move(u)
    <2> DEFINE s == Installed(script[u])
    <2>1. Does(u, "mv") /\ script' = [script EXCEPT ![u] = s] /\ UNCHANGED client
      BY <1>11 DEF Move, Installed
    <2>2. s \in Script /\ s.at = "done" /\ s.got = script[u].got /\ s.exit = script[u].exit
      BY <1>0, InstalledFields
    <2> HIDE DEF s
    <2>3. u \notin installed /\ script[u].got = Size
      BY <1>2, <2>1 DEF SoundScript, Does
    <2>4. target' = u /\ installed' = installed \cup {u}
      BY <1>11, <2>3 DEF Move, Content
    <2>5. client[u].heard = NoStatus
      BY <1>1 DEF SoundCall, Sound, SoundStdin, Does
    <2>6. Sound(how[u], client[u], s, TRUE)
      BY <1>1, <1>2, <2>2, <2>5 DEF SoundCall, Sound, SoundScript, SoundStdin, NoStatus
    <2>7. ~(At(u, "ended") /\ client[u].out = "refused")
      BY <1>1, <2>5 DEF SoundCall, Sound, SoundStdin, At, NoStatus
    <2>8. client' = [client EXCEPT ![u] = client[u]]
      BY <2>1, Parts
    <2> QED
      BY <1>0, <1>1, <2>1, <2>2, <2>3, <2>4, <2>6, <2>7, <2>8 DEF Effect, At
  <1>12. CASE Finish(u)
    <2> DEFINE s == Finished(script[u])
    <2>1. Does(u, "done") /\ script' = [script EXCEPT ![u] = s] /\ UNCHANGED <<target, client, installed>>
      BY <1>12 DEF Finish, Finished
    <2>2. s \in Script /\ s.at = "exited" /\ s.exit = "0"
      BY <1>0, FinishedFields
    <2> HIDE DEF s
    <2>3. SoundScript("stdin", s, u \in installed)
      BY <1>2, <2>1, <2>2 DEF SoundScript, Does
    <2> QED
      BY <1>1, <2>1, <2>2, <2>3, NodeRuns
  <1>13. CASE CommandFails(u)
    BY <1>4, <1>13 DEF CommandFails
  <1>14. CASE ScriptDies(u)
    <2>1. PICK temp \in {FALSE, script[u].temp} : script' = [script EXCEPT ![u] = Killed(script[u], temp)]
      BY <1>14 DEF ScriptDies, Killed
    <2>2. temp \in BOOLEAN /\ UNCHANGED <<target, client, installed>>
      BY <1>0, <1>14 DEF Script, ScriptDies
    <2> DEFINE s == Killed(script[u], temp)
    <2>3. s \in Script /\ s.at = "exited" /\ s.exit = script[u].exit
      BY <1>0, <2>2, KilledFields
    <2>4. script' = [script EXCEPT ![u] = s]
      BY <2>1
    <2> HIDE DEF s
    <2>5. SoundScript("stdin", s, u \in installed)
      BY <1>2, <2>3 DEF SoundScript, NoStatus
    <2> QED
      BY <1>1, <2>2, <2>3, <2>4, <2>5, NodeRuns
  <1> QED
    BY <1>6, <1>7, <1>8, <1>9, <1>10, <1>11, <1>12, <1>13, <1>14 DEF ScriptStep

\* The timer and the connection: a status that arrives is the script's.
LEMMA TimerAndLinkSteps ==
  ASSUME TypeOK, NEW u \in Uploads, SoundCall(u), TimerStep(u) \/ LinkStep(u)
  PROVE  Effect(u)
  <1>0. client[u] \in Client /\ script[u] \in Script /\ how[u] \in {"stdin", "sftp"}
    BY Parts
  <1>1. client = [client EXCEPT ![u] = client[u]]
    BY Parts
  <1>2. UNCHANGED <<how, target, installed>>
    BY DEF TimerStep, LinkStep, Note, Expire, Close, Break, StatusArrives, EofArrives
  <1>3. CASE Expire(u) \/ Close(u) \/ Break(u)
    BY <1>0, <1>1, <1>2, <1>3, ClientEffect DEF Expire, Close, Break, SoundCall, At
  <1>4. CASE Note(u)
    <2> DEFINE report == progress(u)
               c == Noted(client[u], report)
    <2>1. report \in Progress
      BY <1>0 DEF progress, Stage, Progress, Client
    <2>2. client' = [client EXCEPT ![u] = c] /\ UNCHANGED script
      BY <1>4 DEF Note, Noted
    <2> HIDE DEF report
    <2>3. c \in Client /\ c.at = client[u].at /\ c.heard = client[u].heard /\ c.out = client[u].out
      BY <1>0, <2>1, NotedFields
    <2> HIDE DEF c
    <2>4. Sound(how[u], c, script[u], u \in installed)
      BY <1>0, <2>3 DEF SoundCall, Sound, SoundStdin, SoundSftp
    <2> QED
      BY <1>2, <2>2, <2>3, <2>4, ClientEffect DEF At
  <1>5. CASE StatusArrives(u)
    <2> DEFINE c == Heard(client[u], script[u].exit)
    <2>1. /\ client' = [client EXCEPT ![u] = c] /\ UNCHANGED script
          /\ Does(u, "exited") /\ script[u].exit # NoStatus /\ client[u].heard = NoStatus
      BY <1>5 DEF StatusArrives, Heard
    <2>2. script[u].exit \in {NoStatus, "0", "1"}
      BY <1>0 DEF Script
    <2>3. c \in Client /\ c.at = client[u].at /\ c.heard = script[u].exit /\ c.out = client[u].out
      BY <1>0, <2>2, HeardFields
    <2> HIDE DEF c
    <2>4. Sound(how[u], c, script[u], u \in installed)
      BY <1>0, <2>1, <2>3 DEF SoundCall, Sound, SoundScript, SoundStdin, Does, NoStatus
    <2> QED
      BY <1>2, <2>1, <2>3, <2>4, ClientEffect DEF At
  <1>6. CASE EofArrives(u)
    <2> DEFINE s == Printed(script[u])
    <2>1. script' = [script EXCEPT ![u] = s] /\ UNCHANGED client
      BY <1>6 DEF EofArrives, Printed
    <2>2. s \in Script /\ s.at = script[u].at /\ s.got = script[u].got /\ s.exit = script[u].exit
      BY <1>0, PrintedFields
    <2> HIDE DEF s
    <2>3. Sound(how[u], client[u], s, u \in installed)
      BY <2>2 DEF SoundCall, Sound, SoundScript, SoundStdin, SoundSftp
    <2> QED
      BY <1>2, <2>1, <2>2, <2>3, ScriptEffect
  <1> QED
    BY <1>3, <1>4, <1>5, <1>6 DEF TimerStep, LinkStep

\* Every step of a call has its effect.
LEMMA StepEffect ==
  ASSUME TypeOK, NEW u \in Uploads, SoundCall(u), UploadStep(u)
  PROVE  Effect(u)
  BY ConnectSteps, LoopSteps, RequestSteps, RenameStep, NodeSteps, TimerAndLinkSteps
     DEF UploadStep, ClientStep

-----------------------------------------------------------------------------
(* Types and the invariant *)

\* Timers and connections stay what they are.
LEMMA PlumbingTypes ==
  ASSUME TypeOK, NEW u \in Uploads, UploadStep(u)
  PROVE  timer' \in [Uploads -> Timers] /\ link' \in [Uploads -> Links]
  <1>0. timer \in [Uploads -> Timers] /\ link \in [Uploads -> Links]
    BY DEF TypeOK, Timers, Links
  <1>1. ASSUME NEW out, Ends(u, out) PROVE timer' \in [Uploads -> Timers] /\ link' \in [Uploads -> Links]
    BY <1>0, <1>1 DEF Ends, Timers, Links
  <1>2. CASE UNCHANGED <<timer, link>>
    BY <1>0, <1>2
  <1>3. CASE ConnectFails(u) \/ Return(u) \/ Raise(u)
    BY <1>1, <1>2, <1>3 DEF ConnectFails, Return, Raise
  <1>4. CASE Connect(u)
    BY <1>0, <1>4 DEF Connect, Timers, Links
  <1>5. CASE Exec(u) \/ Top(u) \/ Drain(u) \/ Decide(u) \/ Feed(u) \/ Left(u) \/ Result(u)
    BY <1>2, <1>5 DEF Exec, Top, Drain, Decide, Feed, Left, Result
  <1>6. CASE OpenSftp(u) \/ Create(u) \/ Fill(u) \/ Verify(u) \/ Rename(u) \/ CloseSftp(u) \/ Remove(u)
    <2>1. (\E out : Ends(u, out)) \/ UNCHANGED <<timer, link>>
      BY <1>6 DEF OpenSftp, Create, Fill, Verify, Rename, CloseSftp, Remove, Abandon
    <2> QED
      BY <1>1, <1>2, <2>1
  <1>7. CASE ScriptStep(u)
    BY <1>2, <1>7 DEF ScriptStep, Begin, Prepare, MakeTemp, Receive, InputEnds, Check, Permit, Move,
       Finish, CommandFails, ScriptDies
  <1>8. CASE TimerStep(u) \/ LinkStep(u)
    BY <1>0, <1>8 DEF TimerStep, LinkStep, Note, Expire, Close, Break, StatusArrives, EofArrives, Timers, Links
  <1> QED
    BY <1>3, <1>4, <1>5, <1>6, <1>7, <1>8 DEF UploadStep, ClientStep

\* The initial states are typed and sound.
LEMMA InitInv == Init => IInv
  <1> SUFFICES ASSUME Init PROVE IInv
    OBVIOUS
  <1>1. TypeOK
    BY UploadAssumption DEF Init, TypeOK, Client, Script, NoStatus, NoProgress
  <1>2. ASSUME NEW u \in Uploads PROVE SoundCall(u)
    <2>1. /\ client[u].at = "connect" /\ client[u].heard = NoStatus /\ client[u].out = "none"
          /\ script[u].at = "none" /\ script[u].exit = NoStatus /\ u \notin installed
      BY DEF Init
    <2> QED
      BY <2>1 DEF SoundCall, Sound, SoundScript, SoundStdin, SoundSftp, StdinSteps, SftpSteps, NoStatus
  <1> QED
    BY <1>1, <1>2 DEF IInv

\* A step of one call keeps the invariant.
LEMMA StepInv ==
  ASSUME IInv, NEW u \in Uploads, UploadStep(u)
  PROVE  IInv'
  <1>0. TypeOK /\ Effect(u)
    BY StepEffect DEF IInv
  <1>1. PICK c \in Client, s \in Script :
          /\ client' = [client EXCEPT ![u] = c] /\ script' = [script EXCEPT ![u] = s]
          /\ \/ UNCHANGED <<target, installed>> /\ Sound(how[u], c, s, u \in installed)
             \/ target' = u /\ installed' = installed \cup {u} /\ Sound(how[u], c, s, TRUE)
    BY <1>0 DEF Effect
  <1>2. UNCHANGED how
    BY <1>0 DEF Effect
  <1>3. TypeOK'
    BY <1>0, <1>1, <1>2, PlumbingTypes DEF TypeOK, Timers, Links
  <1>4. client'[u] = c /\ script'[u] = s
    BY <1>0, <1>1, Parts
  <1>5. ASSUME NEW v \in Uploads, v # u PROVE SoundCall(v)'
    <2>1. client'[v] = client[v] /\ script'[v] = script[v] /\ (v \in installed' <=> v \in installed)
      BY <1>0, <1>1, <1>5, Parts
    <2> QED
      BY <1>2, <2>1 DEF IInv, SoundCall, Sound, SoundScript, SoundStdin, SoundSftp
  <1>6. SoundCall(u)'
    <2>1. CASE UNCHANGED <<target, installed>> /\ Sound(how[u], c, s, u \in installed)
      BY <1>2, <1>4, <2>1 DEF SoundCall, Sound, SoundScript, SoundStdin, SoundSftp
    <2>2. CASE installed' = installed \cup {u} /\ Sound(how[u], c, s, TRUE)
      BY <1>2, <1>4, <2>2 DEF SoundCall, Sound, SoundScript, SoundStdin, SoundSftp
    <2> QED
      BY <1>1, <2>1, <2>2
  <1> QED
    BY <1>3, <1>5, <1>6 DEF IInv

\* The end of the application keeps it too.
LEMMA CrashInv ==
  ASSUME IInv, Crash
  PROVE  IInv'
  <1>0. TypeOK /\ UNCHANGED <<how, target, script, installed>>
    BY DEF IInv, Crash
  <1>1. ASSUME NEW u \in Uploads
        PROVE  \/ client'[u] = client[u] /\ At(u, "ended")
               \/ client'[u] = Ended(client[u], "ended", "error") /\ ~At(u, "ended")
    BY DEF Crash, Ended
  <1>2. ASSUME NEW u \in Uploads
        PROVE  /\ Ended(client[u], "ended", "error") \in Client
               /\ Ended(client[u], "ended", "error").at = "ended"
               /\ Ended(client[u], "ended", "error").heard = client[u].heard
               /\ Ended(client[u], "ended", "error").out = "error"
    <2>1. "ended" \in ClientSteps /\ "error" \in Outs /\ client[u] \in Client
      BY <1>0, Parts DEF ClientSteps, Outs
    <2> QED
      BY <2>1, EndedFields
  <1>3. TypeOK'
    <2>1. client' \in [Uploads -> Client]
      <3>1. \A u \in Uploads : client'[u] \in Client
        BY <1>0, <1>1, <1>2, Parts
      <3> QED
        BY <3>1 DEF Crash
    <2> QED
      BY <1>0, <2>1 DEF TypeOK, Crash
  <1>4. ASSUME NEW u \in Uploads PROVE SoundCall(u)'
    <2>1. SoundCall(u)
      BY DEF IInv
    <2>2. CASE client'[u] = client[u]
      BY <1>0, <2>1, <2>2 DEF SoundCall, Sound, SoundScript, SoundStdin, SoundSftp
    <2>3. CASE client'[u] = Ended(client[u], "ended", "error")
      <3>1. client'[u].at = "ended" /\ client'[u].heard = client[u].heard /\ client'[u].out = "error"
        BY <1>2, <2>3
      <3> QED
        BY <1>0, <2>1, <3>1 DEF SoundCall, Sound, SoundScript, SoundStdin, SoundSftp, StdinSteps, SftpSteps
    <2> QED
      BY <1>1, <2>2, <2>3
  <1> QED
    BY <1>3, <1>4 DEF IInv

\* The invariant is inductive.
LEMMA NextInv == IInv /\ [Next]_vars => IInv'
  <1> SUFFICES ASSUME IInv, [Next]_vars PROVE IInv'
    OBVIOUS
  <1>1. CASE UNCHANGED vars
    BY <1>1 DEF vars, IInv, TypeOK, SoundCall, Sound, SoundScript, SoundStdin, SoundSftp
  <1>2. CASE Next
    BY <1>2, StepInv, CrashInv DEF Next
  <1> QED
    BY <1>1, <1>2

-----------------------------------------------------------------------------
(* The refinement *)

AnswerOf(c) ==
  IF ~(c.at = "ended") THEN "none"
  ELSE IF c.out \in {"ok", "refused"} THEN c.out ELSE "unknown"

answers == [u \in Uploads |-> AnswerOf(client[u])]

\* What a call that has ended says of the file is so.
LEMMA Verdict ==
  ASSUME NEW u \in Uploads, NEW h \in {"stdin", "sftp"}, NEW c, NEW s, Sound(h, c, s, u \in installed)
  PROVE  /\ AnswerOf(c) = "ok" => u \in installed
         /\ AnswerOf(c) = "refused" => u \notin installed
  <1>1. CASE AnswerOf(c) \in {"ok", "refused"}
    <2>1. c.at = "ended" /\ c.out = AnswerOf(c)
      BY <1>1 DEF AnswerOf
    <2>2. CASE h = "stdin"
      <3>1. /\ c.heard = s.exit
            /\ c.out = "ok" => c.heard = "0"
            /\ c.out = "refused" => c.heard = "1"
        BY <1>1, <2>1, <2>2 DEF Sound, SoundStdin, NoStatus
      <3> QED
        BY <2>1, <3>1 DEF Sound, SoundScript
    <2>3. CASE h = "sftp"
      BY <2>1, <2>3 DEF Sound, SoundSftp
    <2> QED
      BY <2>2, <2>3
  <1> QED
    BY <1>1

\* The initial states of AtomicWrite under the refinement mapping.
LEMMA AbstractInit ==
  Abstract!Init <=> target = Before /\ installed = {} /\ answers = [u \in Uploads |-> "none"]
  BY DEF Abstract!Init, answers, AnswerOf, At

\* Its step Install.
LEMMA AbstractInstall ==
  ASSUME NEW u \in Uploads, u \notin installed, answers[u] # "refused", target' = u,
         installed' = installed \cup {u}, answers' = answers
  PROVE  Abstract!Next
  BY DEF Abstract!Next, Abstract!Install, answers, AnswerOf, At

\* Its step Answer.
LEMMA AbstractAnswer ==
  ASSUME NEW u \in Uploads, NEW a \in {"ok", "refused", "unknown"}, answers[u] = "none",
         a = "ok" => u \in installed, a = "refused" => u \notin installed,
         answers' = [answers EXCEPT ![u] = a], UNCHANGED <<target, installed>>
  PROVE  Abstract!Next
  BY DEF Abstract!Next, Abstract!Answer, Abstract!Answers, answers, AnswerOf, At

\* Its step Abort.
LEMMA AbstractAbort ==
  ASSUME answers' = [u \in Uploads |-> IF answers[u] = "none" THEN "unknown" ELSE answers[u]],
         UNCHANGED <<target, installed>>
  PROVE  Abstract!Next
  BY DEF Abstract!Next, Abstract!Abort, answers, AnswerOf, At

\* Its stutters.
LEMMA AbstractStutter ==
  ASSUME UNCHANGED <<target, installed, answers>>
  PROVE  UNCHANGED Abstract!vars
  BY DEF Abstract!vars, answers, AnswerOf, At

\* Every step of a call is a step of AtomicWrite or changes none of its variables.
LEMMA StepRefines ==
  ASSUME IInv, NEW u \in Uploads, UploadStep(u)
  PROVE  [Abstract!Next]_(Abstract!vars)
  <1>0. TypeOK /\ SoundCall(u) /\ Effect(u) /\ how[u] \in {"stdin", "sftp"}
    BY StepEffect, Parts DEF IInv
  <1>1. PICK c \in Client, s \in Script :
          /\ client' = [client EXCEPT ![u] = c] /\ script' = [script EXCEPT ![u] = s]
          /\ At(u, "ended") => c.at = "ended" /\ c.out = client[u].out
          /\ \/ UNCHANGED <<target, installed>> /\ Sound(how[u], c, s, u \in installed)
             \/ /\ u \notin installed /\ target' = u /\ installed' = installed \cup {u}
                /\ c.at = "ended" => At(u, "ended")
                /\ ~(At(u, "ended") /\ client[u].out = "refused")
                /\ Sound(how[u], c, s, TRUE)
    BY <1>0 DEF Effect
  <1>2. client \in [Uploads -> Client]
    BY <1>0, Parts
  <1>3. answers' = [answers EXCEPT ![u] = AnswerOf(c)] /\ answers[u] = AnswerOf(client[u])
    BY <1>1, <1>2 DEF answers
  <1>4. AnswerOf(client[u]) # "none" => AnswerOf(c) = AnswerOf(client[u])
    BY <1>1 DEF AnswerOf, At
  <1>5. CASE AnswerOf(c) = AnswerOf(client[u])
    <2>1. answers' = answers
      BY <1>3, <1>5 DEF answers
    <2>2. CASE UNCHANGED <<target, installed>>
      BY <2>1, <2>2, AbstractStutter
    <2>3. CASE u \notin installed /\ target' = u /\ installed' = installed \cup {u}
      <3>1. AnswerOf(client[u]) # "refused"
        BY <1>0, <2>3, <1>1 DEF AnswerOf, At
      <3> QED
        BY <1>3, <2>1, <2>3, <3>1, AbstractInstall
    <2> QED
      BY <1>1, <2>2, <2>3
  <1>6. CASE AnswerOf(c) # AnswerOf(client[u])
    <2>1. ~At(u, "ended") /\ c.at = "ended" /\ AnswerOf(client[u]) = "none"
      BY <1>4, <1>6 DEF AnswerOf, At
    <2>2. UNCHANGED <<target, installed>> /\ Sound(how[u], c, s, u \in installed)
      BY <1>1, <2>1
    <2>3. AnswerOf(c) \in {"ok", "refused", "unknown"}
      BY <2>1 DEF AnswerOf
    <2>4. /\ AnswerOf(c) = "ok" => u \in installed
          /\ AnswerOf(c) = "refused" => u \notin installed
      BY <1>0, <2>2, Verdict
    <2> QED
      BY <1>3, <2>1, <2>2, <2>3, <2>4, AbstractAnswer
  <1> QED
    BY <1>5, <1>6

\* So is the end of the application.
LEMMA CrashRefines ==
  ASSUME IInv, Crash
  PROVE  Abstract!Next
  <1>0. TypeOK /\ UNCHANGED <<target, installed>>
    BY DEF IInv, Crash
  <1>1. ASSUME NEW u \in Uploads
        PROVE  AnswerOf(client'[u]) = IF AnswerOf(client[u]) = "none" THEN "unknown" ELSE AnswerOf(client[u])
    <2>1. CASE At(u, "ended")
      <3>1. client'[u] = client[u]
        BY <2>1 DEF Crash
      <3>2. AnswerOf(client[u]) # "none"
        BY <2>1 DEF AnswerOf, At
      <3> QED
        BY <3>1, <3>2
    <2>2. CASE ~At(u, "ended")
      <3>1. client'[u] = Ended(client[u], "ended", "error")
        BY <2>2 DEF Crash, Ended
      <3>2. client'[u].at = "ended" /\ client'[u].out = "error"
        <4>1. "ended" \in ClientSteps /\ "error" \in Outs /\ client[u] \in Client
          BY <1>0, Parts DEF ClientSteps, Outs
        <4> QED
          BY <3>1, <4>1, EndedFields
      <3> QED
        BY <2>2, <3>2 DEF AnswerOf, At
    <2> QED
      BY <2>1, <2>2
  <1>2. answers' = [u \in Uploads |-> IF answers[u] = "none" THEN "unknown" ELSE answers[u]]
    BY <1>1 DEF answers
  <1> QED
    BY <1>0, <1>2, AbstractAbort

\* The initial states, and every step of SshWrite, are those of AtomicWrite.
LEMMA Refines ==
  /\ Init => Abstract!Init
  /\ IInv /\ [Next]_vars => [Abstract!Next]_(Abstract!vars)
  <1>1. Init => Abstract!Init
    <2> SUFFICES ASSUME Init PROVE Abstract!Init
      OBVIOUS
    <2>1. \A u \in Uploads : client[u].at = "connect"
      BY DEF Init
    <2>2. answers = [u \in Uploads |-> "none"]
      BY <2>1 DEF answers, AnswerOf
    <2> QED
      BY <2>2, AbstractInit DEF Init
  <1>2. IInv /\ [Next]_vars => [Abstract!Next]_(Abstract!vars)
    <2> SUFFICES ASSUME IInv, [Next]_vars PROVE [Abstract!Next]_(Abstract!vars)
      OBVIOUS
    <2>1. CASE UNCHANGED vars
      <3>1. UNCHANGED <<target, installed, answers>>
        BY <2>1 DEF vars, answers
      <3> QED
        BY <3>1, AbstractStutter
    <2>2. CASE Next
      BY <2>2, StepRefines, CrashRefines DEF Next
    <2> QED
      BY <2>1, <2>2
  <1> QED
    BY <1>1, <1>2

\* A step of Transport is one of SshWrite or leaves it alone.
LEMMA TransportSteps == [TransportNext]_transportVars => [Next]_vars
  BY DEF TransportNext, transportVars, TransportCrash, Visits, Visited, Connects, Written,
         Next, UploadStep, ClientStep

\* ssh_write and sftp_write replace the file as a whole, at most once per call;
\* a call that returns has replaced it, one that is refused never does.
THEOREM ImplementsAtomicWriteHolds == TransportSpec => ImplementsAtomicWrite
  <1>1. TransportInit => Init
    BY DEF TransportInit
  <1> QED
    BY <1>1, TransportSteps, Refines, InitInv, NextInv, PTL
       DEF TransportSpec, ImplementsAtomicWrite, Abstract!Spec

-----------------------------------------------------------------------------
(* Host keys *)

\* Of two threads that have found their entries new, both entries are disturbed.
\* For every other entry: its thread is the only one to save a key ...
Alone == \A v, w \in Visitors : Novel(v) /\ Novel(w) => v = w \/ visit[v].entry \in disturbed
\* ... the file holds what has been accepted, except in the middle of a save ...
Kept ==
  (\A v \in Visitors : ~InVisit(v, "write")) =>
    \A e \in Entries \ disturbed : known[e] = first[e]
\* ... who will save the file has read just that, and any other its entry ...
ReadAll == \A v \in Visitors : Novel(v) => \A e \in Entries \ disturbed : visit[v].table[e] = first[e]
ReadOwn ==
  \A v \in Visitors : Exposed(v) /\ visit[v].entry \notin disturbed =>
    visit[v].table[visit[v].entry] = first[visit[v].entry]
\* ... a save is for an entry that was found new ...
OnlyNew == \A v \in Visitors : visit[v].at \in {"open", "write"} => Novel(v)
\* ... and a key that is trusted is the one accepted first.
Agreed ==
  \A v \in Visitors :
    InVisit(v, "trusted") /\ visit[v].entry \notin disturbed => visit[v].key = first[visit[v].entry]

HostInv == Alone /\ Kept /\ ReadAll /\ ReadOwn /\ OnlyNew /\ Agreed

\* A visit after a step.
Loaded(j, table) == [j EXCEPT !.at = "compare", !.table = table]
Compared(j, at, table) == [j EXCEPT !.at = at, !.table = table]
Writing(j) == [j EXCEPT !.at = "write"]

\* Entries and keys of a typed state.
LEMMA VisitParts ==
  ASSUME HostTypeOK, NEW v \in Visitors
  PROVE  /\ visit \in [Visitors -> Visit] /\ visit[v] \in Visit
         /\ visit[v].entry \in Entries /\ visit[v].key \in Keys /\ visit[v].key # NoKey
         /\ visit[v].table \in Tables /\ known \in Tables /\ first \in Tables /\ Empty \in Tables
  BY KeyAssumption DEF HostTypeOK, Visit, Tables, Empty

\* The table and the place of a visit.
LEMMA ComparedFields ==
  ASSUME NEW j \in Visit, NEW at \in {"compare", "open", "write"} \cup Verdicts, NEW table \in Tables
  PROVE  /\ Compared(j, at, table) \in Visit
         /\ Compared(j, at, table).at = at /\ Compared(j, at, table).table = table
         /\ Compared(j, at, table).entry = j.entry /\ Compared(j, at, table).key = j.key
  BY DEF Compared, Visit, Verdicts

\* The place alone.
LEMMA WritingFields ==
  ASSUME NEW j \in Visit
  PROVE  /\ Writing(j) \in Visit /\ Writing(j).at = "write" /\ Writing(j).table = j.table
         /\ Writing(j).entry = j.entry /\ Writing(j).key = j.key
  BY DEF Writing, Visit

\* A visit at rest.
LEMMA IdleFields == Idle \in Visit /\ Idle.at = "idle"
  <1>1. (CHOOSE e \in Entries : TRUE) \in Entries /\ (CHOOSE k \in Keys : TRUE) \in Keys
    BY KeyAssumption
  <1>2. Empty \in Tables
    BY DEF Empty, Tables
  <1> QED
    BY <1>1, <1>2 DEF Idle, Visit

\* The initial states.
LEMMA HostInitInv == HostInit => HostTypeOK /\ HostInv
  <1> SUFFICES ASSUME HostInit PROVE HostTypeOK /\ HostInv
    OBVIOUS
  <1>1. HostTypeOK
    BY IdleFields DEF HostInit, HostTypeOK, Tables, Empty
  <1>2. \A v \in Visitors : visit[v].at = "idle"
    BY IdleFields DEF HostInit
  <1>3. HostInv
    BY <1>2 DEF HostInit, HostInv, Alone, Kept, ReadAll, ReadOwn, OnlyNew, Agreed, Novel, Exposed, InVisit
  <1> QED
    BY <1>1, <1>3

\* What a step that accepts no key leaves true of the other visits, also when it
\* endangers more entries.
LEMMA OthersInv ==
  ASSUME HostTypeOK, HostInv, NEW v \in Visitors, disturbed \subseteq disturbed',
         \A e \in Entries \ disturbed' : first'[e] = first[e],
         \A w \in Visitors \ {v} : visit'[w] = visit[w]
  PROVE  \A w \in Visitors \ {v} :
           /\ Novel(w)' => /\ \A x \in Visitors \ {v} : Novel(x)' => w = x \/ visit'[w].entry \in disturbed'
                          /\ \A e \in Entries \ disturbed' : visit'[w].table[e] = first'[e]
           /\ Exposed(w)' /\ visit'[w].entry \notin disturbed' =>
                visit'[w].table[visit'[w].entry] = first'[visit'[w].entry]
           /\ visit'[w].at \in {"open", "write"} => Novel(w)'
           /\ InVisit(w, "trusted")' /\ visit'[w].entry \notin disturbed' =>
                visit'[w].key = first'[visit'[w].entry]
  <1> SUFFICES ASSUME NEW w \in Visitors \ {v}
               PROVE  /\ Novel(w)' => /\ \A x \in Visitors \ {v} : Novel(x)' => w = x \/ visit'[w].entry \in disturbed'
                                     /\ \A e \in Entries \ disturbed' : visit'[w].table[e] = first'[e]
                      /\ Exposed(w)' /\ visit'[w].entry \notin disturbed' =>
                           visit'[w].table[visit'[w].entry] = first'[visit'[w].entry]
                      /\ visit'[w].at \in {"open", "write"} => Novel(w)'
                      /\ InVisit(w, "trusted")' /\ visit'[w].entry \notin disturbed' =>
                           visit'[w].key = first'[visit'[w].entry]
    OBVIOUS
  <1>1. visit'[w] = visit[w] /\ visit[w].entry \in Entries
    BY VisitParts
  <1>2. \A x \in Visitors \ {v} : (Novel(x)' <=> Novel(x)) /\ (Exposed(x)' <=> Exposed(x))
    BY DEF Novel, Exposed
  <1>3. Novel(w)' => \A x \in Visitors \ {v} : Novel(x)' => w = x \/ visit'[w].entry \in disturbed'
    BY <1>1, <1>2 DEF HostInv, Alone
  <1>4. Novel(w)' => \A e \in Entries \ disturbed' : visit'[w].table[e] = first'[e]
    BY <1>1, <1>2 DEF HostInv, ReadAll
  <1>5. Exposed(w)' /\ visit'[w].entry \notin disturbed' =>
          visit'[w].table[visit'[w].entry] = first'[visit'[w].entry]
    BY <1>1, <1>2 DEF HostInv, ReadOwn
  <1>6. visit'[w].at \in {"open", "write"} => Novel(w)'
    BY <1>1, <1>2 DEF HostInv, OnlyNew
  <1>7. InVisit(w, "trusted")' /\ visit'[w].entry \notin disturbed' => visit'[w].key = first'[visit'[w].entry]
    BY <1>1 DEF HostInv, Agreed, InVisit
  <1> QED
    BY <1>3, <1>4, <1>5, <1>6, <1>7

\* A new visit.
LEMMA ArriveInv ==
  ASSUME HostTypeOK, HostInv, NEW v \in Visitors, Arrive(v)
  PROVE  HostTypeOK' /\ HostInv'
  <1>1. PICK e \in Entries, k \in Keys :
          visit' = [visit EXCEPT ![v] = [at |-> "load", entry |-> e, key |-> k, table |-> Empty]]
    BY DEF Arrive
  <1> DEFINE j == [at |-> "load", entry |-> e, key |-> k, table |-> Empty]
  <1>2. j \in Visit /\ j.at = "load"
    BY VisitParts DEF Visit
  <1> HIDE DEF j
  <1>3. visit' = [visit EXCEPT ![v] = j] /\ UNCHANGED <<known, first, disturbed>>
    BY <1>1 DEF Arrive, j
  <1>4. HostTypeOK'
    BY <1>2, <1>3 DEF HostTypeOK
  <1>5. visit'[v] = j /\ \A w \in Visitors \ {v} : visit'[w] = visit[w]
    BY <1>3, VisitParts
  <1>6. visit[v].at # "write"
    BY DEF Arrive, Verdicts
  <1>7. ~Exposed(v)' /\ ~Novel(v)' /\ ~InVisit(v, "trusted")'
    BY <1>2, <1>5 DEF Novel, Exposed, InVisit
  <1>8. (Alone /\ ReadAll /\ ReadOwn /\ OnlyNew /\ Agreed)'
    BY <1>2, <1>3, <1>5, <1>7, OthersInv DEF Alone, ReadAll, ReadOwn, OnlyNew, Agreed
  <1>9. Kept'
    BY <1>2, <1>3, <1>5, <1>6 DEF HostInv, Kept, InVisit
  <1> QED
    BY <1>4, <1>8, <1>9 DEF HostInv

\* The file is read.
LEMMA LoadInv ==
  ASSUME HostTypeOK, HostInv, NEW v \in Visitors, Load(v)
  PROVE  HostTypeOK' /\ HostInv'
  <1> DEFINE j == Compared(visit[v], "compare", known)
  <1>1. visit' = [visit EXCEPT ![v] = j] /\ UNCHANGED <<known, first>> /\ InVisit(v, "load")
    BY DEF Load, Compared
  <1>2. j \in Visit /\ j.at = "compare" /\ j.table = known /\ j.entry = visit[v].entry /\ j.key = visit[v].key
    BY VisitParts, ComparedFields
  <1> HIDE DEF j
  <1>3. Endangered(v) \subseteq Entries
    BY VisitParts DEF Endangered
  <1>4. disturbed' = disturbed \cup Endangered(v) /\ disturbed \subseteq Entries
    BY DEF Load, HostTypeOK
  <1>5. HostTypeOK'
    BY <1>1, <1>2, <1>3, <1>4 DEF HostTypeOK
  <1>6. visit'[v] = j /\ \A w \in Visitors \ {v} : visit'[w] = visit[w]
    BY <1>1, VisitParts
  <1>7. \A w \in Visitors : InVisit(w, "write")' <=> InVisit(w, "write")
    BY <1>1, <1>2, <1>6 DEF InVisit
  <1>8. \A e \in Entries \ disturbed' : known[e] = first[e]
    <2>1. CASE \E w \in Visitors : InVisit(w, "write")
      BY <1>4, <2>1 DEF Endangered
    <2>2. CASE \A w \in Visitors : ~InVisit(w, "write")
      BY <1>4, <2>2 DEF HostInv, Kept
    <2> QED
      BY <2>1, <2>2
  <1>9. ASSUME NEW w \in Visitors \ {v}, Novel(v)', Novel(w)'
        PROVE  visit'[v].entry \in disturbed' /\ visit'[w].entry \in disturbed'
    <2>1. Novel(w) /\ known[visit[v].entry] = NoKey
      BY <1>2, <1>6, <1>9 DEF Novel, Exposed
    <2>2. visit[v].entry \in Entries /\ visit[w].entry \in Entries
      BY VisitParts
    <2>3. visit[v].entry \in Endangered(v) /\ visit[w].entry \in Endangered(v)
      BY <2>1, <2>2 DEF Endangered
    <2> QED
      BY <1>2, <1>4, <1>6, <2>3
  <1>10. \A w \in Visitors \ {v} :
           /\ Novel(w)' => /\ \A x \in Visitors \ {v} : Novel(x)' => w = x \/ visit'[w].entry \in disturbed'
                          /\ \A e \in Entries \ disturbed' : visit'[w].table[e] = first'[e]
           /\ Exposed(w)' /\ visit'[w].entry \notin disturbed' =>
                visit'[w].table[visit'[w].entry] = first'[visit'[w].entry]
           /\ visit'[w].at \in {"open", "write"} => Novel(w)'
           /\ InVisit(w, "trusted")' /\ visit'[w].entry \notin disturbed' =>
                visit'[w].key = first'[visit'[w].entry]
    BY <1>1, <1>4, <1>6, OthersInv
  <1>11. Alone'
    BY <1>9, <1>10 DEF Alone
  <1>12. Kept' /\ ReadAll' /\ ReadOwn'
    <2>1. visit'[v].entry \in Entries
      BY <1>2, <1>6, VisitParts
    <2> QED
      BY <1>1, <1>2, <1>6, <1>8, <1>10, <2>1 DEF Kept, ReadAll, ReadOwn
  <1>13. OnlyNew' /\ Agreed'
    BY <1>2, <1>6, <1>10 DEF OnlyNew, Agreed, InVisit
  <1> QED
    BY <1>5, <1>11, <1>12, <1>13 DEF HostInv

\* The key is compared with the one of the file.
LEMMA CompareInv ==
  ASSUME HostTypeOK, HostInv, NEW v \in Visitors, Compare(v)
  PROVE  HostTypeOK' /\ HostInv'
  <1> DEFINE stored == visit[v].table[visit[v].entry]
  <1> DEFINE verdict == IF stored = NoKey THEN "open" ELSE IF stored = visit[v].key THEN "trusted" ELSE "rejected"
  <1> DEFINE table == IF verdict = "open" THEN visit[v].table ELSE Empty
  <1> DEFINE j == Compared(visit[v], verdict, table)
  <1>1. /\ visit' = [visit EXCEPT ![v] = j] /\ UNCHANGED <<known, disturbed>> /\ InVisit(v, "compare")
        /\ IF verdict = "trusted" THEN Accept(v) ELSE UNCHANGED first
    BY DEF Compare, Compared
  <1>2. verdict \in {"open", "trusted", "rejected"} /\ table \in Tables
    BY VisitParts
  <1>3. \/ verdict = "open" /\ stored = NoKey /\ table = visit[v].table
        \/ verdict = "trusted" /\ stored = visit[v].key /\ stored # NoKey
        \/ verdict = "rejected"
    BY VisitParts
  <1>4. visit[v] \in Visit
    BY VisitParts
  <1> HIDE DEF verdict, table
  <1>5. j \in Visit /\ j.at = verdict /\ j.table = table /\ j.entry = visit[v].entry /\ j.key = visit[v].key
    <2>1. verdict \in {"compare", "open", "write"} \cup Verdicts
      BY <1>2 DEF Verdicts
    <2> QED
      BY <1>2, <1>4, <2>1, ComparedFields
  <1> HIDE DEF j
  <1>6. visit'[v] = j /\ \A w \in Visitors \ {v} : visit'[w] = visit[w]
    BY <1>1, VisitParts
  <1>7. first' \in Tables
    <2>1. first \in Tables /\ visit[v].entry \in Entries /\ visit[v].key \in Keys
      BY VisitParts
    <2>2. CASE Accept(v)
      BY <2>1, <2>2 DEF Accept, Tables
    <2>3. CASE UNCHANGED first
      BY <2>1, <2>3
    <2> QED
      BY <1>1, <2>2, <2>3
  <1>8. HostTypeOK'
    BY <1>1, <1>5, <1>7 DEF HostTypeOK
  <1>9. visit[v].entry \notin disturbed => stored = first[visit[v].entry]
    BY <1>1 DEF HostInv, ReadOwn, Exposed, InVisit
  <1>10. \A e \in Entries \ disturbed : first'[e] = first[e]
    <2>1. CASE verdict = "trusted"
      <3>1. first' = [first EXCEPT ![visit[v].entry] = IF @ = NoKey THEN visit[v].key ELSE @]
        BY <1>1, <2>1 DEF Accept
      <3> QED
        BY <1>3, <1>9, <2>1, <3>1, VisitParts DEF Tables
    <2> QED
      BY <1>1, <2>1
  <1>11. \A w \in Visitors \ {v} :
           /\ Novel(w)' => /\ \A x \in Visitors \ {v} : Novel(x)' => w = x \/ visit'[w].entry \in disturbed'
                          /\ \A e \in Entries \ disturbed' : visit'[w].table[e] = first'[e]
           /\ Exposed(w)' /\ visit'[w].entry \notin disturbed' =>
                visit'[w].table[visit'[w].entry] = first'[visit'[w].entry]
           /\ visit'[w].at \in {"open", "write"} => Novel(w)'
           /\ InVisit(w, "trusted")' /\ visit'[w].entry \notin disturbed' =>
                visit'[w].key = first'[visit'[w].entry]
    BY <1>1, <1>6, <1>10, OthersInv
  <1>12. \A w \in Visitors : Novel(w)' => Novel(w) /\ visit'[w].table = visit[w].table /\ visit'[w].entry = visit[w].entry
    BY <1>1, <1>2, <1>3, <1>5, <1>6 DEF Novel, Exposed, InVisit
  <1>13. Alone' /\ ReadAll'
    BY <1>1, <1>10, <1>12 DEF HostInv, Alone, ReadAll
  <1>14. Kept'
    <2>1. \A w \in Visitors : InVisit(w, "write")' <=> InVisit(w, "write")
      BY <1>1, <1>2, <1>5, <1>6 DEF InVisit
    <2> QED
      BY <1>1, <1>10, <2>1 DEF HostInv, Kept
  <1>15. ReadOwn' /\ OnlyNew'
    <2>1. visit[v].entry \in Entries
      BY VisitParts
    <2>2. verdict = "open" => Novel(v)' /\ visit'[v].table[visit'[v].entry] = stored
      BY <1>3, <1>5, <1>6 DEF Novel, Exposed
    <2>3. Exposed(v)' => verdict = "open"
      BY <1>2, <1>5, <1>6 DEF Exposed
    <2> QED
      BY <1>1, <1>2, <1>5, <1>6, <1>9, <1>10, <1>11, <2>1, <2>2, <2>3 DEF ReadOwn, OnlyNew, Exposed
  <1>16. Agreed'
    <2>1. visit[v].entry \in Entries
      BY VisitParts
    <2>2. ASSUME InVisit(v, "trusted")', visit'[v].entry \notin disturbed'
          PROVE  visit'[v].key = first'[visit'[v].entry]
      BY <1>1, <1>3, <1>5, <1>6, <1>9, <1>10, <2>1, <2>2 DEF InVisit
    <2> QED
      BY <1>11, <2>2 DEF Agreed
  <1> QED
    BY <1>8, <1>13, <1>14, <1>15, <1>16 DEF HostInv

\* The file is emptied.
LEMMA OpenInv ==
  ASSUME HostTypeOK, HostInv, NEW v \in Visitors, Open(v)
  PROVE  HostTypeOK' /\ HostInv'
  <1> DEFINE j == Writing(visit[v])
  <1>1. visit' = [visit EXCEPT ![v] = j] /\ UNCHANGED <<first, disturbed>> /\ InVisit(v, "open") /\ known' = Empty
    BY DEF Open, Writing
  <1>2. j \in Visit /\ j.at = "write" /\ j.table = visit[v].table /\ j.entry = visit[v].entry /\ j.key = visit[v].key
    BY VisitParts, WritingFields
  <1> HIDE DEF j
  <1>3. HostTypeOK'
    <2>1. Empty \in Tables
      BY VisitParts
    <2> QED
      BY <1>1, <1>2, <2>1 DEF HostTypeOK
  <1>4. visit'[v] = j /\ \A w \in Visitors \ {v} : visit'[w] = visit[w]
    BY <1>1, VisitParts
  <1>5. \A w \in Visitors : /\ Novel(w)' <=> Novel(w)
                            /\ Exposed(w)' <=> Exposed(w)
                            /\ visit'[w].table = visit[w].table /\ visit'[w].entry = visit[w].entry
                            /\ visit'[w].key = visit[w].key
    BY <1>1, <1>2, <1>4 DEF Novel, Exposed, InVisit
  <1>6. Alone' /\ ReadAll' /\ ReadOwn'
    BY <1>1, <1>5 DEF HostInv, Alone, ReadAll, ReadOwn
  <1>7. Kept'
    BY <1>2, <1>4 DEF Kept, InVisit
  <1>8. OnlyNew' /\ Agreed'
    BY <1>1, <1>2, <1>4, <1>5 DEF HostInv, OnlyNew, Agreed, InVisit
  <1> QED
    BY <1>3, <1>6, <1>7, <1>8 DEF HostInv

\* The file is written anew: for an entry that is not disturbed nobody else does.
LEMMA WriteInv ==
  ASSUME HostTypeOK, HostInv, NEW v \in Visitors, Write(v)
  PROVE  HostTypeOK' /\ HostInv'
  <1> DEFINE j == Compared(visit[v], "trusted", Empty)
  <1>1. /\ visit' = [visit EXCEPT ![v] = j] /\ UNCHANGED disturbed /\ InVisit(v, "write")
        /\ known' = [visit[v].table EXCEPT ![visit[v].entry] = visit[v].key] /\ Accept(v)
    BY DEF Write, Compared
  <1>2. j \in Visit /\ j.at = "trusted" /\ j.table = Empty /\ j.entry = visit[v].entry /\ j.key = visit[v].key
    <2>1. "trusted" \in {"compare", "open", "write"} \cup Verdicts
      BY DEF Verdicts
    <2> QED
      BY <2>1, VisitParts, ComparedFields
  <1> HIDE DEF j
  <1>3. /\ first \in Tables /\ visit[v].table \in Tables /\ visit[v].entry \in Entries
        /\ visit[v].key \in Keys
    BY VisitParts
  <1>4. HostTypeOK'
    <2>1. known' \in Tables
      BY <1>1, <1>3 DEF Tables
    <2>2. first' \in Tables
      BY <1>1, <1>3 DEF Accept, Tables
    <2> QED
      BY <1>1, <1>2, <2>1, <2>2 DEF HostTypeOK
  <1>5. visit'[v] = j /\ \A w \in Visitors \ {v} : visit'[w] = visit[w]
    BY <1>1, VisitParts
  <1>6. Novel(v) /\ \A e \in Entries \ disturbed : visit[v].table[e] = first[e]
    BY <1>1 DEF HostInv, OnlyNew, ReadAll, InVisit
  <1>7. \A e \in Entries \ {visit[v].entry} : first'[e] = first[e]
    BY <1>1, <1>3 DEF Accept, Tables
  <1>8. visit[v].entry \notin disturbed => first[visit[v].entry] = NoKey /\ first'[visit[v].entry] = visit[v].key
    BY <1>1, <1>3, <1>6 DEF Novel, Accept, Tables
  <1>9. ~Exposed(v)' /\ ~Novel(v)' /\ visit'[v].at = "trusted"
    BY <1>2, <1>5 DEF Novel, Exposed
  <1>10. \A w \in Visitors \ {v} : (Novel(w)' <=> Novel(w)) /\ (Exposed(w)' <=> Exposed(w))
    BY <1>5 DEF Novel, Exposed
  <1>11. Alone' /\ OnlyNew'
    BY <1>1, <1>5, <1>9, <1>10 DEF HostInv, Alone, OnlyNew
  <1>12. Kept'
    <2>1. \A e \in Entries \ disturbed : known'[e] = first'[e]
      BY <1>1, <1>3, <1>6, <1>7, <1>8 DEF Tables
    <2> QED
      BY <1>1, <2>1 DEF Kept
  <1>13. ReadAll'
    <2> SUFFICES ASSUME NEW w \in Visitors, Novel(w)', NEW e \in Entries \ disturbed
                 PROVE  visit'[w].table[e] = first'[e]
      BY <1>1 DEF ReadAll
    <2>1. w # v /\ Novel(w) /\ visit'[w] = visit[w]
      BY <1>5, <1>9, <1>10
    <2>2. visit[v].entry \in disturbed
      BY <1>6, <2>1 DEF HostInv, Alone
    <2> QED
      BY <1>7, <2>1, <2>2 DEF HostInv, ReadAll
  <1>14. ReadOwn'
    <2> SUFFICES ASSUME NEW w \in Visitors, Exposed(w)', visit'[w].entry \notin disturbed
                 PROVE  visit'[w].table[visit'[w].entry] = first'[visit'[w].entry]
      BY <1>1 DEF ReadOwn
    <2>1. w # v /\ Exposed(w) /\ visit'[w] = visit[w]
      BY <1>5, <1>9, <1>10
    <2>2. visit[w].table[visit[w].entry] = first[visit[w].entry]
      BY <2>1 DEF HostInv, ReadOwn
    <2>3. visit[w].entry \in Entries
      BY VisitParts
    <2>4. CASE visit[w].entry = visit[v].entry
      <3>1. Novel(w)
        BY <1>8, <2>1, <2>2, <2>4 DEF Novel
      <3> QED
        BY <1>6, <2>1, <3>1 DEF HostInv, Alone
    <2>5. CASE visit[w].entry # visit[v].entry
      BY <1>7, <2>1, <2>2, <2>3, <2>5
    <2> QED
      BY <2>4, <2>5
  <1>15. Agreed'
    <2> SUFFICES ASSUME NEW w \in Visitors, InVisit(w, "trusted")', visit'[w].entry \notin disturbed
                 PROVE  visit'[w].key = first'[visit'[w].entry]
      BY <1>1 DEF Agreed
    <2>1. CASE w = v
      BY <1>2, <1>5, <1>8, <2>1
    <2>2. CASE w # v
      <3>1. visit'[w] = visit[w] /\ InVisit(w, "trusted")
        BY <1>5, <2>2 DEF InVisit
      <3>2. visit[w].key = first[visit[w].entry]
        BY <3>1 DEF HostInv, Agreed
      <3>3. visit[w].key # NoKey /\ visit[w].entry \in Entries
        BY VisitParts
      <3>4. visit[w].entry # visit[v].entry
        BY <1>8, <3>1, <3>2, <3>3
      <3> QED
        BY <1>7, <3>1, <3>2, <3>3, <3>4
    <2> QED
      BY <2>1, <2>2
  <1> QED
    BY <1>4, <1>11, <1>12, <1>13, <1>14, <1>15 DEF HostInv

\* The application dies.
LEMMA HostCrashInv ==
  ASSUME HostTypeOK, HostInv, HostCrash
  PROVE  HostTypeOK' /\ HostInv'
  <1>1. \A v \in Visitors : visit'[v] = Idle
    BY DEF HostCrash
  <1>2. HostTypeOK'
    <2>1. disturbed' \subseteq Entries
      BY DEF HostCrash, HostTypeOK
    <2> QED
      BY <2>1, IdleFields DEF HostCrash, HostTypeOK
  <1>3. \A e \in Entries \ disturbed' : known'[e] = first'[e]
    BY DEF HostInv, Kept, HostCrash
  <1>4. \A v \in Visitors : ~Exposed(v)' /\ ~Novel(v)' /\ visit'[v].at = "idle"
    BY <1>1, IdleFields DEF Exposed, Novel
  <1>5. HostInv'
    BY <1>3, <1>4 DEF HostInv, Alone, Kept, ReadAll, ReadOwn, OnlyNew, Agreed, InVisit
  <1> QED
    BY <1>2, <1>5

\* Every step.
LEMMA HostNextInv == HostTypeOK /\ HostInv /\ [TransportNext]_transportVars => HostTypeOK' /\ HostInv'
  <1> SUFFICES ASSUME HostTypeOK, HostInv, [TransportNext]_transportVars
               PROVE  HostTypeOK' /\ HostInv'
    OBVIOUS
  <1>1. CASE UNCHANGED hostVars
    BY <1>1 DEF hostVars, HostTypeOK, HostInv, Alone, Kept, ReadAll, ReadOwn, OnlyNew, Agreed,
                Novel, Exposed, InVisit
  <1>2. CASE HostCrash
    BY <1>2, HostCrashInv
  <1>3. CASE \E v \in Visitors : Arrive(v) \/ VerifyHostKey(v)
    BY <1>3, ArriveInv, LoadInv, CompareInv, OpenInv, WriteInv DEF VerifyHostKey
  <1> QED
    BY <1>1, <1>2, <1>3
       DEF TransportNext, transportVars, TransportCrash, Visits, Visited, Connects, Written

\* The whole state has its types.
THEOREM TypesHold == TransportSpec => []TransportTypeOK
  <1>1. TransportInit => IInv /\ HostTypeOK /\ HostInv
    BY InitInv, HostInitInv DEF TransportInit
  <1>2. (IInv /\ HostTypeOK /\ HostInv) /\ [TransportNext]_transportVars
          => (IInv /\ HostTypeOK /\ HostInv)'
    BY TransportSteps, NextInv, HostNextInv
  <1>3. IInv /\ HostTypeOK /\ HostInv => TransportTypeOK
    BY DEF IInv, TransportTypeOK
  <1> QED
    BY <1>1, <1>2, <1>3, PTL DEF TransportSpec

\* No two keys of one type are ever accepted for one host, if that entry is not
\* disturbed, however many hosts, types, keys and threads there are.
THEOREM OneKeyPerTypeHolds == TransportSpec => []OneKeyPerType
  <1>1. TransportInit => HostTypeOK /\ HostInv
    BY HostInitInv DEF TransportInit
  <1>2. HostInv => OneKeyPerType
    BY DEF HostInv, Agreed, OneKeyPerType
  <1> QED
    BY <1>1, <1>2, HostNextInv, PTL DEF TransportSpec
=============================================================================
