----------------------------- MODULE TimeoutProofs -----------------------------
(***************************************************************************)
(* Proofs about what _exec_ssh reports (module Transport), for any number  *)
(* of calls and data of any size: that its own timer is a timeout, that a  *)
(* result has all the output, that the report of a timeout is true.        *)
(*                                                                         *)
(* To the invariant of TransportProofs, Linked adds for one call what its  *)
(* loop, its timer and the connection know of each other: who can have     *)
(* closed the connection, what has been read when the loop is left, and    *)
(* that what the timer noted stays so.                                     *)
(***************************************************************************)
EXTENDS TransportProofs

\* The connection: up during a call, closed by the timer only with the event set.
Wired(c, t, l) ==
  /\ l = "timer" => t = "closed" \/ c.at = "ended"
  /\ l = "end" => c.at = "ended"
  /\ l = "up" => c.at \notin {"connect", "ended"}
  /\ l = "none" => c.at \in {"connect", "ended"}
  /\ c.at = "connect" => l = "none"
  /\ c.out = "lost" => c.at = "ended" /\ l = "network"

\* The loop is left with everything, or without the connection.
Complete(c, s) == s.eof /\ c.seen = s.said
Heeded(c, l, s) ==
  /\ c.out # "none" => c.at = "ended"
  /\ s.eof => s.at = "exited"
  /\ c.at = "checked" /\ l = "up" => c.heard # NoStatus
  /\ c.at \in {"left", "result", "checked"} /\ l = "up" => Complete(c, s)
  /\ c.at = "ended" /\ c.out \in {"ok", "refused"} /\ l = "end" => Complete(c, s)

\* What the timer noted.
Told(c, s) ==
  /\ c.noted \in Progress
  /\ c.noted.stage = "exec_start" => c.noted.accepted = 0 /\ ~c.noted.eof
  /\ c.noted.eof => c.noted.accepted = Size
  /\ c.noted.status # NoStatus => s.at = "exited" /\ s.exit = c.noted.status

Reported(c, t, s, done) ==
  /\ c.at \in {"connect", "exec"} => c.sent = 0 /\ c.eof = FALSE
  /\ c.eof = TRUE => c.sent = Size
  /\ s.said = 5 => done
  /\ c.seen = 5 => done
  /\ t \in {"noted", "expired", "closed"} \/ c.out = "timeout" => Told(c, s)

Linked(h, c, t, l, s, done) ==
  /\ Wired(c, t, l)
  /\ h = "stdin" => Heeded(c, l, s) /\ Reported(c, t, s, done)

LinkedCall(u) == Linked(how[u], client[u], timer[u], link[u], script[u], u \in installed)

LinkedInv == \A u \in Uploads : LinkedCall(u)

-----------------------------------------------------------------------------
(* Records *)

\* What a step leaves of what the client knows.
LEMMA ClientKeeps ==
  ASSUME NEW c \in Client
  PROVE  /\ \A at \in ClientSteps :
              /\ Moved(c, at).sent = c.sent /\ Moved(c, at).eof = c.eof
              /\ Moved(c, at).seen = c.seen /\ Moved(c, at).noted = c.noted
         /\ \A at \in ClientSteps, out \in Outs :
              /\ Ended(c, at, out).sent = c.sent /\ Ended(c, at, out).eof = c.eof
              /\ Ended(c, at, out).seen = c.seen /\ Ended(c, at, out).noted = c.noted
         /\ \A n \in 0..5 :
              /\ Drained(c, n).sent = c.sent /\ Drained(c, n).eof = c.eof
              /\ Drained(c, n).seen = n /\ Drained(c, n).noted = c.noted
         /\ \A n \in 0..Size, eof \in BOOLEAN :
              /\ Sent(c, n, eof).sent = n /\ Sent(c, n, eof).eof = eof
              /\ Sent(c, n, eof).seen = c.seen /\ Sent(c, n, eof).noted = c.noted
         /\ \A status \in {NoStatus, "0", "1"} :
              /\ Heard(c, status).sent = c.sent /\ Heard(c, status).eof = c.eof
              /\ Heard(c, status).seen = c.seen /\ Heard(c, status).noted = c.noted
         /\ \A report \in Progress :
              /\ Noted(c, report).sent = c.sent /\ Noted(c, report).eof = c.eof
              /\ Noted(c, report).seen = c.seen /\ Noted(c, report).noted = report
  BY DEF Client, Moved, Ended, Drained, Sent, Heard, Noted

\* What a command leaves of what the script has printed.
LEMMA ScriptKeeps ==
  ASSUME NEW s \in Script
  PROVE  /\ \A to \in NodeCommands, said \in 0..5 :
              Ran(s, to, said).said = said /\ Ran(s, to, said).eof = s.eof
         /\ Opened(s).said = 2 /\ Opened(s).eof = s.eof
         /\ \A n \in 0..Size : Got(s, n).said = s.said /\ Got(s, n).eof = s.eof
         /\ \A status \in {NoStatus, "0", "1"} :
              Exited(s, status).said = s.said /\ Exited(s, status).eof = s.eof
         /\ Installed(s).said = s.said /\ Installed(s).eof = s.eof
         /\ Finished(s).said = 5 /\ Finished(s).eof = s.eof
         /\ Printed(s).said = s.said /\ Printed(s).eof = TRUE
         /\ \A temp \in BOOLEAN : Killed(s, temp).said = s.said /\ Killed(s, temp).eof = s.eof
  BY DEF Script, Ran, Opened, Got, Exited, Installed, Finished, Printed, Killed

\* The state of one call, and after a step of it.
LEMMA CallParts ==
  ASSUME TypeOK, NEW u \in Uploads
  PROVE  /\ client \in [Uploads -> Client] /\ script \in [Uploads -> Script]
         /\ timer \in [Uploads -> Timers] /\ link \in [Uploads -> Links]
         /\ client[u] \in Client /\ script[u] \in Script /\ timer[u] \in Timers /\ link[u] \in Links
         /\ how[u] \in {"stdin", "sftp"}
         /\ client[u].seen \in 0..5 /\ script[u].said \in 0..5 /\ client[u].sent \in 0..Size
         /\ client[u].eof \in BOOLEAN /\ client[u].heard \in {NoStatus, "0", "1"}
         /\ client[u].at \in ClientSteps /\ script[u].at \in NodeCommands
         /\ client[u].out \in Outs
  BY DEF TypeOK, Timers, Links, Client, Script, ClientSteps, NodeCommands, Outs

-----------------------------------------------------------------------------
(* Kinds of steps *)

\* The end of a call.
LEMMA EndsLinked ==
  ASSUME TypeOK, NEW u \in Uploads, LinkedCall(u), client[u].at # "ended", NEW out \in Outs, Ends(u, out),
         UNCHANGED how, how[u] = "stdin" => UNCHANGED <<script, installed>>,
         out = "lost" => link[u] = "network",
         how[u] = "stdin" /\ out \in {"ok", "refused"} /\ link[u] = "up" => Complete(client[u], script[u]),
         how[u] = "stdin" /\ out = "timeout" => Told(client[u], script[u])
  PROVE  LinkedCall(u)'
  <1> DEFINE c == Ended(client[u], "ended", out)
  <1>1. /\ client'[u] = c /\ timer'[u] = IF timer[u] = "running" THEN "off" ELSE timer[u]
        /\ link'[u] = IF link[u] = "up" THEN "end" ELSE link[u]
    BY CallParts DEF Ends, Ended
  <1>2. /\ c.at = "ended" /\ c.heard = client[u].heard /\ c.out = out
        /\ c.sent = client[u].sent /\ c.eof = client[u].eof /\ c.seen = client[u].seen
        /\ c.noted = client[u].noted
    <2>1. "ended" \in ClientSteps
      BY DEF ClientSteps
    <2> QED
      BY <2>1, CallParts, EndedFields, ClientKeeps
  <1> HIDE DEF c
  <1>3. Wired(c, timer'[u], link'[u])
    BY <1>1, <1>2 DEF LinkedCall, Linked, Wired
  <1>4. ASSUME how[u] = "stdin" PROVE Heeded(c, link'[u], script[u])
    BY <1>1, <1>2, <1>4 DEF LinkedCall, Linked, Wired, Heeded, Complete
  <1>5. ASSUME how[u] = "stdin" PROVE Reported(c, timer'[u], script[u], u \in installed)
    BY <1>1, <1>2, <1>5 DEF LinkedCall, Linked, Reported, Told
  <1> QED
    BY <1>1, <1>3, <1>4, <1>5 DEF LinkedCall, Linked

\* A step of sftp_write.
LEMMA SftpLinked ==
  ASSUME TypeOK, NEW u \in Uploads, LinkedCall(u), how[u] = "sftp", UNCHANGED how,
         client[u].at \notin {"connect", "ended"},
         client'[u].at \notin {"connect", "ended"}, client'[u].out # "lost",
         UNCHANGED <<timer, link>>
  PROVE  LinkedCall(u)'
  BY DEF LinkedCall, Linked, Wired

\* A step of the loop that changes nothing but its place and what it has read
\* or sent.
LEMMA LoopLinked ==
  ASSUME TypeOK, NEW u \in Uploads, LinkedCall(u), how[u] = "stdin",
         UNCHANGED <<how, timer, link, script, installed>>,
         client[u].at \notin {"connect", "ended"},
         client'[u].at \notin {"connect", "exec", "ended"},
         client'[u].out = client[u].out, client'[u].heard = client[u].heard,
         client'[u].noted = client[u].noted,
         client'[u].eof = TRUE => client'[u].sent = Size,
         client'[u].seen = 5 => u \in installed,
         client'[u].at = "checked" /\ link[u] = "up" => client[u].heard # NoStatus,
         client'[u].at \in {"left", "result", "checked"} /\ link[u] = "up" => Complete(client'[u], script[u])
  PROVE  LinkedCall(u)'
  <1>1. Wired(client'[u], timer'[u], link'[u])
    BY DEF LinkedCall, Linked, Wired
  <1>2. Heeded(client'[u], link'[u], script'[u])
    BY DEF LinkedCall, Linked, Heeded
  <1>3. Reported(client'[u], timer'[u], script'[u], u \in installed')
    BY DEF LinkedCall, Linked, Reported, Told
  <1> QED
    BY <1>1, <1>2, <1>3 DEF LinkedCall, Linked

\* A command of the script.
LEMMA ScriptLinked ==
  ASSUME TypeOK, NEW u \in Uploads, LinkedCall(u), UNCHANGED <<how, client, timer, link>>,
         how[u] = "stdin" => /\ script[u].at # "exited" /\ script'[u].eof = script[u].eof
                             /\ script'[u].said = 5 => u \in installed'
                             /\ u \in installed => u \in installed'
  PROVE  LinkedCall(u)'
  <1>1. Wired(client'[u], timer'[u], link'[u])
    BY DEF LinkedCall, Linked
  <1>2. ASSUME how[u] = "stdin" PROVE Heeded(client'[u], link'[u], script'[u])
    BY <1>2 DEF LinkedCall, Linked, Heeded, Complete
  <1>3. ASSUME how[u] = "stdin" PROVE Reported(client'[u], timer'[u], script'[u], u \in installed')
    BY <1>3 DEF LinkedCall, Linked, Reported, Told
  <1> QED
    BY <1>1, <1>2, <1>3 DEF LinkedCall, Linked

-----------------------------------------------------------------------------
(* The steps of a call *)

\* What a call knows at one of its steps.
LEMMA KnownOf ==
  ASSUME TypeOK, NEW u \in Uploads, SoundCall(u), LinkedCall(u)
  PROVE  /\ client[u].at \in StdinSteps => how[u] = "stdin"
         /\ client[u].at \in SftpSteps => how[u] = "sftp"
         /\ client[u].at # "ended" => client[u].out # "lost"
         /\ client[u].at \notin {"connect", "ended"} => link[u] \notin {"none", "end"}
         /\ client[u].at \notin {"connect", "ended"} /\ link[u] = "timer" => timer[u] = "closed"
         /\ how[u] = "stdin" => /\ Heeded(client[u], link[u], script[u])
                                /\ Reported(client[u], timer[u], script[u], u \in installed)
  BY CallParts DEF SoundCall, Sound, SoundStdin, SoundSftp, LinkedCall, Linked, Wired

\* The loop goes on.
LEMMA GotoLinked ==
  ASSUME TypeOK, NEW u \in Uploads, SoundCall(u), LinkedCall(u), client[u].at \in StdinSteps,
         NEW at \in StdinSteps \ {"exec"}, Goto(u, at), UNCHANGED <<how, timer, link, script, installed>>,
         at = "checked" /\ link[u] = "up" => client[u].heard # NoStatus,
         at \in {"left", "result", "checked"} /\ link[u] = "up" => Complete(client[u], script[u])
  PROVE  LinkedCall(u)'
  <1> DEFINE c == Moved(client[u], at)
  <1>1. client'[u] = c
    BY CallParts DEF Goto, Moved
  <1>2. /\ c.at = at /\ c.heard = client[u].heard /\ c.out = client[u].out
        /\ c.sent = client[u].sent /\ c.eof = client[u].eof /\ c.seen = client[u].seen
        /\ c.noted = client[u].noted
    <2>1. at \in ClientSteps
      BY DEF StdinSteps, ClientSteps
    <2> QED
      BY <2>1, CallParts, MovedFields, ClientKeeps
  <1> HIDE DEF c
  <1>3. how[u] = "stdin" /\ client[u].at \notin {"connect", "ended"} /\ at \notin {"connect", "exec", "ended"}
    BY KnownOf DEF StdinSteps
  <1>4. (c.eof = TRUE => c.sent = Size) /\ (c.seen = 5 => u \in installed)
    BY <1>2, <1>3, KnownOf DEF Reported
  <1>5. c.at \in {"left", "result", "checked"} /\ link[u] = "up" => Complete(c, script[u])
    BY <1>2 DEF Complete
  <1> QED
    BY <1>1, <1>2, <1>3, <1>4, <1>5, LoopLinked

LEMMA LoopStepsLinked ==
  ASSUME TypeOK, NEW u \in Uploads, SoundCall(u), LinkedCall(u),
         \/ Exec(u) \/ Top(u) \/ Drain(u) \/ Decide(u) \/ Feed(u) \/ Left(u)
         \/ Result(u) \/ Return(u) \/ Raise(u)
  PROVE  LinkedCall(u)'
  <1>1. client[u].at \in StdinSteps
    BY DEF Exec, Top, Drain, Decide, Feed, Left, Result, Return, Raise, At, StdinSteps
  <1>2. /\ UNCHANGED <<how, script, installed>> /\ how[u] = "stdin"
        /\ client[u].at \notin {"connect", "ended"}
    BY <1>1, KnownOf DEF Exec, Top, Drain, Decide, Feed, Left, Result, Return, Raise, StdinSteps
  <1>3. Heeded(client[u], link[u], script[u]) /\ Reported(client[u], timer[u], script[u], u \in installed)
    BY <1>2, KnownOf
  <1>4. CASE UNCHANGED <<timer, link>> /\ \E at \in {"top", "drain", "decide", "feed", "raise"} : Goto(u, at)
    <2>1. PICK at \in {"top", "drain", "decide", "feed", "raise"} : Goto(u, at)
      BY <1>4
    <2> QED
      BY <1>1, <1>2, <1>4, <2>1, GotoLinked DEF StdinSteps
  <1>5. CASE Exec(u) \/ Top(u)
    BY <1>4, <1>5 DEF Exec, Top
  <1>6. CASE Drain(u)
    <2>1. PICK n \in client[u].seen..script[u].said : client' = [client EXCEPT ![u] = Drained(client[u], n)]
      BY <1>6 DEF Drain, Drained
    <2>2. n \in 0..5 /\ n <= script[u].said /\ script[u].said \in 0..5
      BY CallParts
    <2>3. client'[u] = Drained(client[u], n)
      BY <2>1, CallParts
    <2> DEFINE c == Drained(client[u], n)
    <2>4. /\ c.at = "decide" /\ c.heard = client[u].heard /\ c.out = client[u].out
          /\ c.sent = client[u].sent /\ c.eof = client[u].eof /\ c.seen = n /\ c.noted = client[u].noted
      <3>1. n \in 0..5 /\ client[u] \in Client
        BY <2>2, CallParts
      <3>2. c.at = "decide" /\ c.heard = client[u].heard /\ c.out = client[u].out
        BY <3>1, DrainedFields
      <3>3. c.sent = client[u].sent /\ c.eof = client[u].eof /\ c.seen = n /\ c.noted = client[u].noted
        BY <3>1, ClientKeeps
      <3> QED
        BY <3>2, <3>3
    <2> HIDE DEF c
    <2>5. (c.eof = TRUE => c.sent = Size) /\ (c.seen = 5 => u \in installed)
      BY <1>3, <2>2, <2>4 DEF Reported
    <2>6. UNCHANGED <<timer, link>>
      BY <1>6 DEF Drain
    <2> QED
      BY <1>2, <2>3, <2>4, <2>5, <2>6, LoopLinked DEF c
  <1>7. CASE Decide(u)
    <2> DEFINE leaves == StatusReady(u) /\ (Complete(client[u], script[u]) \/ (Gone(u) /\ ~script[u].eof))
    <2>1. UNCHANGED <<timer, link>> /\ Goto(u, IF leaves THEN "left" ELSE "feed")
      BY <1>7 DEF Decide, Complete
    <2>2. leaves /\ link[u] = "up" => Complete(client[u], script[u])
      BY DEF Gone
    <2> HIDE DEF leaves
    <2>3. CASE leaves
      <3>1. Goto(u, "left") /\ (link[u] = "up" => Complete(client[u], script[u]))
        BY <2>1, <2>2, <2>3
      <3> QED
        BY <1>1, <1>2, <2>1, <3>1, GotoLinked DEF StdinSteps
    <2>4. CASE ~leaves
      BY <1>4, <2>1, <2>4
    <2> QED
      BY <2>3, <2>4
  <1>8. CASE Feed(u)
    <2>1. UNCHANGED <<timer, link>>
      BY <1>8 DEF Feed
    <2>2. CASE Goto(u, "top") \/ Goto(u, "raise")
      BY <1>4, <2>1, <2>2
    <2>3. CASE client' = [client EXCEPT ![u].at = "top",
                                        ![u].sent = IF @ = Size THEN @ ELSE @ + 1,
                                        ![u].eof = client[u].sent = Size]
      <3> DEFINE n == IF client[u].sent = Size THEN client[u].sent ELSE client[u].sent + 1
                 eof == client[u].sent = Size
                 c == Sent(client[u], n, eof)
      <3>1. n \in 0..Size /\ eof \in BOOLEAN /\ (eof = TRUE => n = Size)
        BY CallParts, UploadAssumption
      <3>2. client'[u] = c
        BY <2>3, CallParts DEF Sent
      <3> HIDE DEF n, eof
      <3>3. /\ c.at = "top" /\ c.heard = client[u].heard /\ c.out = client[u].out
            /\ c.sent = n /\ c.eof = eof /\ c.seen = client[u].seen /\ c.noted = client[u].noted
        <4>0. client[u] \in Client
          BY CallParts
        <4>1. c.at = "top" /\ c.heard = client[u].heard /\ c.out = client[u].out
          BY <3>1, <4>0, SentFields
        <4>2. c.sent = n /\ c.eof = eof /\ c.seen = client[u].seen /\ c.noted = client[u].noted
          BY <3>1, <4>0, ClientKeeps
        <4> QED
          BY <4>1, <4>2
      <3> HIDE DEF c
      <3>4. (c.eof = TRUE => c.sent = Size) /\ (c.seen = 5 => u \in installed)
        BY <1>3, <3>1, <3>3 DEF Reported
      <3> QED
        BY <1>2, <2>1, <3>2, <3>3, <3>4, LoopLinked DEF c
    <2> QED
      BY <1>8, <2>2, <2>3 DEF Feed
  <1>9. CASE Left(u)
    <2>1. UNCHANGED <<timer, link>> /\ (Goto(u, "raise") \/ Goto(u, "result")) /\ client[u].at = "left"
      BY <1>9 DEF Left, At
    <2>2. CASE Goto(u, "result")
      <3>1. link[u] = "up" => Complete(client[u], script[u])
        BY <1>3, <2>1 DEF Heeded
      <3> QED
        BY <1>1, <1>2, <2>1, <2>2, <3>1, GotoLinked DEF StdinSteps
    <2> QED
      BY <1>4, <2>1, <2>2
  <1>10. CASE Result(u)
    <2>1. UNCHANGED <<timer, link>> /\ Goto(u, "checked") /\ client[u].at = "result"
      BY <1>10 DEF Result, At
    <2>2. link[u] = "up" => client[u].heard # NoStatus /\ Complete(client[u], script[u])
      BY <1>3, <1>10, <2>1 DEF Result, StatusReady, Gone, Heeded
    <2> QED
      BY <1>1, <1>2, <2>1, <2>2, GotoLinked DEF StdinSteps
  <1>11. CASE Return(u)
    <2>1. CASE Expired(u)
      BY <1>4, <1>11, <2>1 DEF Return
    <2>2. CASE ~Expired(u)
      <3>1. Ends(u, Outcome(u)) /\ client[u].at = "checked"
        BY <1>11, <2>2 DEF Return, At
      <3>2. /\ Outcome(u) \in {"ok", "refused", "lost"} /\ Outcome(u) \in Outs
            /\ Outcome(u) = "lost" => client[u].heard = NoStatus
        BY CallParts DEF Outcome, Outs, NoStatus
      <3>3. link[u] = "up" => client[u].heard # NoStatus /\ Complete(client[u], script[u])
        BY <1>3, <3>1 DEF Heeded
      <3>4. link[u] \in {"up", "network"}
        BY <1>2, <2>2, CallParts, KnownOf DEF Links, Expired
      <3>5. client[u].at # "ended" /\ Outcome(u) # "timeout"
        BY <3>1, <3>2
      <3> QED
        BY <1>2, <3>1, <3>2, <3>3, <3>4, <3>5, EndsLinked
    <2> QED
      BY <2>1, <2>2
  <1>12. CASE Raise(u)
    <2>1. CASE Expired(u)
      <3>1. Ends(u, "timeout") /\ Told(client[u], script[u])
        BY <1>3, <1>12, <2>1 DEF Raise, Expired, Reported
      <3> QED
        BY <1>2, <3>1, EndsLinked DEF Outs
    <2>2. CASE ~Expired(u)
      <3>1. Ends(u, "error")
        BY <1>12, <2>2 DEF Raise
      <3> QED
        BY <1>2, <3>1, EndsLinked DEF Outs
    <2> QED
      BY <2>1, <2>2
  <1> QED
    BY <1>5, <1>6, <1>7, <1>8, <1>9, <1>10, <1>11, <1>12

\* The connection is made, or not.
LEMMA ConnectLinked ==
  ASSUME TypeOK, NEW u \in Uploads, SoundCall(u), LinkedCall(u), Connect(u) \/ ConnectFails(u)
  PROVE  LinkedCall(u)'
  <1>1. UNCHANGED <<how, script, installed>> /\ client[u].at = "connect"
    BY DEF Connect, ConnectFails, At
  <1>2. CASE ConnectFails(u)
    <2>1. Ends(u, "error") /\ "error" \in Outs /\ client[u].at # "ended" /\ link[u] # "up"
      BY <1>1, <1>2 DEF ConnectFails, Outs, LinkedCall, Linked, Wired
    <2> QED
      BY <1>1, <2>1, EndsLinked
  <1>3. CASE Connect(u)
    <2>1. PICK at \in {"exec", "sftp"} :
            /\ Goto(u, at) /\ (how[u] = "stdin" => timer'[u] = "running")
      BY <1>3, CallParts DEF Connect
    <2>2. link'[u] = "up"
      BY <1>3, CallParts DEF Connect
    <2> DEFINE c == Moved(client[u], at)
    <2>3. client'[u] = c
      BY <2>1, CallParts DEF Goto, Moved
    <2>4. /\ c.at = at /\ c.heard = client[u].heard /\ c.out = client[u].out
          /\ c.sent = client[u].sent /\ c.eof = client[u].eof /\ c.seen = client[u].seen
          /\ c.noted = client[u].noted
      <3>1. at \in ClientSteps
        BY DEF ClientSteps
      <3> QED
        BY <3>1, CallParts, MovedFields, ClientKeeps
    <2> HIDE DEF c
    <2>5. Wired(c, timer'[u], link'[u])
      BY <1>1, <2>2, <2>4 DEF LinkedCall, Linked, Wired
    <2>6. ASSUME how[u] = "stdin" PROVE Heeded(c, link'[u], script[u])
      BY <1>1, <2>4, <2>6 DEF LinkedCall, Linked, Heeded
    <2>7. ASSUME how[u] = "stdin" PROVE Reported(c, timer'[u], script[u], u \in installed)
      <3>1. timer'[u] = "running" /\ client[u].out = "none"
        BY <1>1, <2>1, <2>7 DEF LinkedCall, Linked, Heeded
      <3> QED
        BY <1>1, <2>4, <2>7, <3>1 DEF LinkedCall, Linked, Reported
    <2> QED
      BY <1>1, <2>3, <2>5, <2>6, <2>7 DEF LinkedCall, Linked
  <1> QED
    BY <1>2, <1>3

\* sftp_write.
LEMMA SftpStepsLinked ==
  ASSUME TypeOK, NEW u \in Uploads, SoundCall(u), LinkedCall(u),
         \/ OpenSftp(u) \/ Create(u) \/ Fill(u) \/ Verify(u) \/ Rename(u) \/ CloseSftp(u) \/ Remove(u)
  PROVE  LinkedCall(u)'
  <1>1. client[u].at \in SftpSteps
    BY DEF OpenSftp, Create, Fill, Verify, Rename, CloseSftp, Remove, At, SftpSteps
  <1>2. UNCHANGED how
    BY DEF OpenSftp, Create, Fill, Verify, Rename, CloseSftp, Remove
  <1>3. how[u] = "sftp" /\ client[u].at \notin {"connect", "ended"} /\ client[u].out # "lost"
    BY <1>1, KnownOf DEF SftpSteps
  <1>4. ASSUME NEW out \in Outs \ {"lost"}, Ends(u, out) PROVE LinkedCall(u)'
    BY <1>2, <1>3, <1>4, EndsLinked
  <1>5. ASSUME NEW at \in SftpSteps, Goto(u, at), UNCHANGED <<timer, link>> PROVE LinkedCall(u)'
    <2>1. at \in ClientSteps /\ at \notin {"connect", "ended"}
      BY <1>5 DEF SftpSteps, ClientSteps
    <2>2. client'[u] = Moved(client[u], at)
      BY <1>5, CallParts DEF Goto, Moved
    <2>3. client'[u].at = at /\ client'[u].out = client[u].out
      BY <2>1, <2>2, CallParts, MovedFields
    <2> QED
      BY <1>2, <1>3, <1>5, <2>1, <2>3, SftpLinked
  <1>6. ASSUME NEW out \in Outs \ {"lost"}, Abandon(u, TRUE, out) PROVE LinkedCall(u)'
    <2>1. client'[u] = Ended(client[u], "remove", out) /\ UNCHANGED <<timer, link>>
      BY <1>6, CallParts DEF Abandon, Ended
    <2>2. "remove" \in ClientSteps
      BY DEF ClientSteps
    <2>3. client'[u].at = "remove" /\ client'[u].out = out
      BY <1>6, <2>1, <2>2, CallParts, EndedFields
    <2> QED
      BY <1>2, <1>3, <1>6, <2>1, <2>3, SftpLinked
  <1>7. CASE Create(u) /\ client' = [client EXCEPT ![u].at = "fill", ![u].created = TRUE] /\ UNCHANGED <<timer, link>>
    <2>1. client'[u] = Created(client[u])
      BY <1>7, CallParts DEF Created
    <2>2. client'[u].at = "fill" /\ client'[u].out = client[u].out
      BY <2>1, CallParts, CreatedFields
    <2> QED
      BY <1>2, <1>3, <1>7, <2>2, SftpLinked
  <1>8. CASE OpenSftp(u) \/ Create(u) \/ CloseSftp(u)
    BY <1>4, <1>5, <1>7, <1>8 DEF OpenSftp, Create, CloseSftp, Unanswered, Outs, SftpSteps
  <1>9. CASE Fill(u) \/ Verify(u) \/ Rename(u)
    BY <1>5, <1>6, <1>9 DEF Fill, Verify, Rename, Unanswered, Outs, SftpSteps
  <1>10. CASE Remove(u)
    <2>1. client[u].out \in Outs \ {"lost"}
      BY <1>3, CallParts
    <2> QED
      BY <1>4, <1>10, <2>1 DEF Remove
  <1> QED
    BY <1>8, <1>9, <1>10

\* The script.
LEMMA NodeStepsLinked ==
  ASSUME TypeOK, NEW u \in Uploads, SoundCall(u), LinkedCall(u), ScriptStep(u)
  PROVE  LinkedCall(u)'
  <1>0. script[u] \in Script
    BY CallParts
  <1>1. UNCHANGED <<how, client, timer, link>>
    BY DEF ScriptStep, Begin, Prepare, MakeTemp, Receive, InputEnds, Check, Permit, Move,
           Finish, CommandFails, ScriptDies
  <1>2. script[u].at # "exited"
    BY DEF ScriptStep, Begin, Prepare, MakeTemp, Receive, InputEnds, Check, Permit, Move,
           Finish, CommandFails, ScriptDies, Command, Does
  <1>3. u \in installed => u \in installed'
    BY DEF ScriptStep, Begin, Prepare, MakeTemp, Receive, InputEnds, Check, Permit, Move,
           Finish, CommandFails, ScriptDies
  <1>4. ASSUME script'[u].eof = script[u].eof, how[u] = "stdin" => (script'[u].said = 5 => u \in installed')
        PROVE  LinkedCall(u)'
    BY <1>1, <1>2, <1>3, <1>4, ScriptLinked
  <1>5. how[u] = "stdin" /\ script[u].said = 5 => u \in installed'
    BY <1>3, KnownOf DEF Reported
  <1>6. ASSUME NEW from, NEW to \in NodeCommands, NEW said \in 0..4, Command(u, from, to, said)
        PROVE  LinkedCall(u)'
    <2>1. script'[u] = Ran(script[u], to, said)
      BY <1>6, CallParts DEF Command, Ran
    <2>2. said \in 0..5 /\ to \in NodeCommands
      BY <1>6
    <2>3. script'[u].said = said /\ script'[u].eof = script[u].eof
      <3>1. Ran(script[u], to, said).said = said /\ Ran(script[u], to, said).eof = script[u].eof
        BY <1>0, <2>2, ScriptKeeps
      <3> QED
        BY <2>1, <3>1
    <2>4. script'[u].said # 5
      BY <1>6, <2>3
    <2> QED
      BY <1>4, <2>3, <2>4
  <1>7. ASSUME Exits(u, "1") PROVE LinkedCall(u)'
    <2>1. script'[u] = Exited(script[u], "1")
      BY <1>7, CallParts DEF Exits, Exited
    <2>2. script'[u].said = script[u].said /\ script'[u].eof = script[u].eof
      BY <2>1, <1>0, ScriptKeeps
    <2> QED
      BY <1>4, <1>5, <2>2
  <1>8. CASE Begin(u) \/ Prepare(u) \/ InputEnds(u) \/ Permit(u)
    <2>1. 0 \in 0..4 /\ 1 \in 0..4 /\ 3 \in 0..4 /\ 4 \in 0..4
      OBVIOUS
    <2> QED
      BY <1>6, <1>8, <2>1 DEF Begin, Prepare, InputEnds, Permit, NodeCommands
  <1>9. CASE MakeTemp(u)
    <2>1. script'[u] = Opened(script[u])
      BY <1>9, CallParts DEF MakeTemp, Opened
    <2>2. script'[u].said = 2 /\ script'[u].eof = script[u].eof
      BY <2>1, <1>0, ScriptKeeps
    <2> QED
      BY <1>4, <2>2
  <1>10. CASE Receive(u)
    <2>1. script[u].got \in 0..Size /\ client[u].sent \in 0..Size /\ script[u].got < client[u].sent
      BY <1>10, CallParts DEF Receive, Script
    <2>2. script[u].got + 1 \in 0..Size
      BY <2>1, UploadAssumption
    <2>3. script'[u] = Got(script[u], script[u].got + 1)
      BY <1>10, CallParts DEF Receive, Got
    <2> DEFINE n == script[u].got + 1
    <2>4. n \in 0..Size
      BY <2>2
    <2> HIDE DEF n
    <2>5. Got(script[u], n).said = script[u].said /\ Got(script[u], n).eof = script[u].eof
      BY <1>0, <2>4, ScriptKeeps
    <2>6. script'[u].said = script[u].said /\ script'[u].eof = script[u].eof
      BY <2>3, <2>5 DEF n
    <2> QED
      BY <1>4, <1>5, <2>6
  <1>11. CASE Check(u) \/ CommandFails(u)
    <2>1. 3 \in 0..4
      OBVIOUS
    <2> QED
      BY <1>6, <1>7, <1>11, <2>1 DEF Check, CommandFails, NodeCommands
  <1>12. CASE Move(u)
    <2>1. script'[u] = Installed(script[u])
      BY <1>12, CallParts DEF Move, Installed
    <2>2. script'[u].said = script[u].said /\ script'[u].eof = script[u].eof
      BY <2>1, <1>0, ScriptKeeps
    <2> QED
      BY <1>4, <1>5, <2>2
  <1>13. CASE Finish(u)
    <2>1. script'[u] = Finished(script[u])
      BY <1>13, CallParts DEF Finish, Finished
    <2>2. script'[u].eof = script[u].eof
      BY <2>1, <1>0, ScriptKeeps
    <2>3. u \in installed
      BY <1>13 DEF Finish, Does, SoundCall, Sound, SoundScript
    <2> QED
      BY <1>3, <1>4, <2>2, <2>3
  <1>14. CASE ScriptDies(u)
    <2>1. PICK temp \in {FALSE, script[u].temp} : script'[u] = Killed(script[u], temp)
      BY <1>14, CallParts DEF ScriptDies, Killed
    <2>2. temp \in BOOLEAN
      BY CallParts DEF Script
    <2>3. script'[u].said = script[u].said /\ script'[u].eof = script[u].eof
      <3>1. Killed(script[u], temp).said = script[u].said /\ Killed(script[u], temp).eof = script[u].eof
        BY <1>0, <2>2, ScriptKeeps
      <3> QED
        BY <2>1, <3>1
    <2> QED
      BY <1>4, <1>5, <2>3
  <1> QED
    BY <1>8, <1>9, <1>10, <1>11, <1>12, <1>13, <1>14 DEF ScriptStep

\* What the timer notes.
LEMMA ProgressNoted ==
  ASSUME TypeOK, NEW u \in Uploads
  PROVE  /\ progress(u) \in Progress
         /\ progress(u).accepted = client[u].sent /\ progress(u).eof = client[u].eof
         /\ progress(u).status = client[u].heard
         /\ progress(u).stage = "exec_start" => At(u, "exec")
  <1>1. Stage(u) \in {"exec_start", "send", "await_result"} /\ (Stage(u) = "exec_start" => At(u, "exec"))
    BY DEF Stage
  <1>2. client[u].sent \in 0..Size /\ client[u].eof \in BOOLEAN /\ client[u].heard \in {NoStatus, "0", "1"}
    BY CallParts
  <1> QED
    BY <1>1, <1>2 DEF progress, Progress

\* The timer and the connection.
LEMMA TimerAndLinkLinked ==
  ASSUME TypeOK, NEW u \in Uploads, SoundCall(u), LinkedCall(u), TimerStep(u) \/ LinkStep(u)
  PROVE  LinkedCall(u)'
  <1>1. UNCHANGED <<how, installed>>
    BY DEF TimerStep, LinkStep, Note, Expire, Close, Break, StatusArrives, EofArrives
  <1>2. CASE Note(u)
    <2> DEFINE report == progress(u)
               c == Noted(client[u], report)
    <2>1. client'[u] = c /\ timer'[u] = "noted" /\ timer[u] = "running" /\ UNCHANGED <<link, script>>
      BY <1>2, CallParts DEF Note, Noted
    <2>2. /\ report \in Progress /\ report.accepted = client[u].sent /\ report.eof = client[u].eof
          /\ report.status = client[u].heard
          /\ report.stage = "exec_start" => client[u].at = "exec"
      BY ProgressNoted DEF At
    <2> HIDE DEF report
    <2>3. client[u] \in Client
      BY CallParts
    <2>4. /\ c.at = client[u].at /\ c.heard = client[u].heard /\ c.out = client[u].out
          /\ c.sent = client[u].sent /\ c.eof = client[u].eof /\ c.seen = client[u].seen
          /\ c.noted = report
      BY <2>2, <2>3, NotedFields, ClientKeeps
    <2> HIDE DEF c
    <2>5. Wired(c, timer'[u], link'[u])
      BY <2>1, <2>4 DEF LinkedCall, Linked, Wired
    <2>6. ASSUME how[u] = "stdin" PROVE Heeded(c, link'[u], script[u])
      BY <2>1, <2>4, <2>6 DEF LinkedCall, Linked, Heeded, Complete
    <2>7. ASSUME how[u] = "stdin" PROVE Told(c, script[u])
      <3>1. Reported(client[u], timer[u], script[u], u \in installed)
        BY <2>7 DEF LinkedCall, Linked
      <3>2. report.stage = "exec_start" => report.accepted = 0 /\ ~report.eof
        BY <2>2, <3>1 DEF Reported
      <3>3. report.eof => report.accepted = Size
        BY <2>2, <3>1 DEF Reported
      <3>4. report.status # NoStatus => script[u].at = "exited" /\ script[u].exit = report.status
        BY <2>2, <2>7 DEF SoundCall, Sound, SoundStdin
      <3> QED
        BY <2>2, <2>4, <3>2, <3>3, <3>4 DEF Told
    <2>8. ASSUME how[u] = "stdin" PROVE Reported(c, timer'[u], script[u], u \in installed)
      BY <2>4, <2>7, <2>8 DEF LinkedCall, Linked, Reported
    <2> QED
      BY <1>1, <2>1, <2>5, <2>6, <2>8 DEF LinkedCall, Linked
  <1>3. CASE Expire(u) \/ Close(u)
    <2>1. /\ timer[u] \in {"noted", "expired"} /\ timer'[u] \in {"expired", "closed"}
          /\ timer[u] = "expired" => timer'[u] = "closed"
          /\ UNCHANGED <<client, script>>
          /\ \/ link'[u] = link[u]
             \/ link[u] = "up" /\ link'[u] = "timer" /\ timer'[u] = "closed"
      BY <1>3, CallParts DEF Expire, Close
    <2>2. Wired(client[u], timer'[u], link'[u])
      BY <2>1 DEF LinkedCall, Linked, Wired
    <2>3. ASSUME how[u] = "stdin" PROVE Heeded(client[u], link'[u], script[u])
      BY <2>1, <2>3 DEF LinkedCall, Linked, Heeded
    <2>4. ASSUME how[u] = "stdin" PROVE Reported(client[u], timer'[u], script[u], u \in installed)
      BY <2>1, <2>4 DEF LinkedCall, Linked, Reported
    <2> QED
      BY <1>1, <2>1, <2>2, <2>3, <2>4 DEF LinkedCall, Linked
  <1>4. CASE Break(u)
    <2>1. link[u] = "up" /\ link'[u] = "network" /\ UNCHANGED <<client, timer, script>>
      BY <1>4, CallParts DEF Break
    <2>2. Wired(client[u], timer[u], link'[u])
      BY <2>1 DEF LinkedCall, Linked, Wired
    <2>3. ASSUME how[u] = "stdin" PROVE Heeded(client[u], link'[u], script[u])
      BY <2>1, <2>3 DEF LinkedCall, Linked, Heeded
    <2> QED
      BY <1>1, <2>1, <2>2, <2>3 DEF LinkedCall, Linked
  <1>5. CASE StatusArrives(u)
    <2> DEFINE status == script[u].exit
               c == Heard(client[u], status)
    <2>1. client'[u] = c /\ status # NoStatus /\ UNCHANGED <<timer, link, script>>
      BY <1>5, CallParts DEF StatusArrives, Heard
    <2>2. status \in {NoStatus, "0", "1"} /\ client[u] \in Client
      BY CallParts DEF Script
    <2> HIDE DEF status
    <2>3. /\ c.at = client[u].at /\ c.heard = status /\ c.out = client[u].out
          /\ c.sent = client[u].sent /\ c.eof = client[u].eof /\ c.seen = client[u].seen
          /\ c.noted = client[u].noted
      <3>1. c.at = client[u].at /\ c.heard = status /\ c.out = client[u].out
        BY <2>2, HeardFields
      <3>2. /\ c.sent = client[u].sent /\ c.eof = client[u].eof /\ c.seen = client[u].seen
            /\ c.noted = client[u].noted
        BY <2>2, ClientKeeps
      <3> QED
        BY <3>1, <3>2
    <2> HIDE DEF c
    <2>4. Wired(c, timer[u], link[u])
      BY <2>3 DEF LinkedCall, Linked, Wired
    <2>5. ASSUME how[u] = "stdin" PROVE Heeded(c, link[u], script[u])
      BY <2>1, <2>3, <2>5 DEF LinkedCall, Linked, Heeded, Complete
    <2>6. ASSUME how[u] = "stdin" PROVE Reported(c, timer[u], script[u], u \in installed)
      BY <2>3, <2>6 DEF LinkedCall, Linked, Reported, Told
    <2> QED
      BY <1>1, <2>1, <2>4, <2>5, <2>6 DEF LinkedCall, Linked
  <1>6. CASE EofArrives(u)
    <2> DEFINE s == Printed(script[u])
    <2>1. script'[u] = s /\ script[u].at = "exited" /\ UNCHANGED <<client, timer, link>>
      BY <1>6, CallParts DEF EofArrives, Printed, Does
    <2>2. script[u] \in Script
      BY CallParts
    <2>3. s.at = script[u].at /\ s.exit = script[u].exit /\ s.said = script[u].said /\ s.eof = TRUE
      BY <2>2, PrintedFields, ScriptKeeps
    <2> HIDE DEF s
    <2>4. ASSUME how[u] = "stdin" PROVE Heeded(client[u], link[u], s)
      BY <2>1, <2>3, <2>4 DEF LinkedCall, Linked, Heeded, Complete
    <2>5. ASSUME how[u] = "stdin" PROVE Reported(client[u], timer[u], s, u \in installed)
      BY <2>3, <2>5 DEF LinkedCall, Linked, Reported, Told
    <2> QED
      BY <1>1, <2>1, <2>4, <2>5 DEF LinkedCall, Linked
  <1> QED
    BY <1>2, <1>3, <1>4, <1>5, <1>6 DEF TimerStep, LinkStep

-----------------------------------------------------------------------------
(* The invariant *)

\* Timers and connections of other calls.
LEMMA OthersKept ==
  ASSUME TypeOK, NEW u \in Uploads, UploadStep(u), NEW v \in Uploads, v # u
  PROVE  timer'[v] = timer[v] /\ link'[v] = link[v]
  <1>0. timer \in [Uploads -> Timers] /\ link \in [Uploads -> Links]
    BY CallParts
  <1>1. ASSUME NEW out, Ends(u, out) PROVE timer'[v] = timer[v] /\ link'[v] = link[v]
    BY <1>0, <1>1 DEF Ends
  <1>2. CASE UNCHANGED <<timer, link>>
    BY <1>2
  <1>3. CASE ConnectFails(u) \/ Return(u) \/ Raise(u)
    BY <1>1, <1>2, <1>3 DEF ConnectFails, Return, Raise
  <1>4. CASE Connect(u)
    BY <1>0, <1>4 DEF Connect
  <1>5. CASE Exec(u) \/ Top(u) \/ Drain(u) \/ Decide(u) \/ Feed(u) \/ Left(u) \/ Result(u)
    BY <1>2, <1>5 DEF Exec, Top, Drain, Decide, Feed, Left, Result
  <1>6. CASE OpenSftp(u) \/ Create(u) \/ Fill(u) \/ Verify(u) \/ Rename(u) \/ CloseSftp(u) \/ Remove(u)
    <2>1. (\E out : Ends(u, out)) \/ UNCHANGED <<timer, link>>
      BY <1>6 DEF OpenSftp, Create, Fill, Verify, Rename, CloseSftp, Remove, Abandon
    <2> QED
      BY <1>1, <1>2, <2>1
  <1>7. CASE ScriptStep(u)
    BY <1>2, <1>7 DEF ScriptStep, Begin, Prepare, MakeTemp, Receive, InputEnds, Check, Permit, Move,
       Finish, CommandFails, ScriptDies
  <1>8. CASE TimerStep(u) \/ LinkStep(u)
    BY <1>0, <1>8 DEF TimerStep, LinkStep, Note, Expire, Close, Break, StatusArrives, EofArrives
  <1> QED
    BY <1>3, <1>4, <1>5, <1>6, <1>7, <1>8 DEF UploadStep, ClientStep

\* A step of one call.
LEMMA StepLinked ==
  ASSUME IInv, LinkedInv, NEW u \in Uploads, UploadStep(u)
  PROVE  LinkedInv'
  <1>0. TypeOK /\ SoundCall(u) /\ LinkedCall(u) /\ Effect(u)
    BY StepEffect DEF IInv, LinkedInv
  <1>1. LinkedCall(u)'
    BY <1>0, ConnectLinked, LoopStepsLinked, SftpStepsLinked, NodeStepsLinked, TimerAndLinkLinked
       DEF UploadStep, ClientStep
  <1>2. ASSUME NEW v \in Uploads, v # u PROVE LinkedCall(v)'
    <2>1. PICK c \in Client, s \in Script :
            /\ client' = [client EXCEPT ![u] = c] /\ script' = [script EXCEPT ![u] = s]
            /\ UNCHANGED installed \/ installed' = installed \cup {u}
      BY <1>0 DEF Effect
    <2>2. client'[v] = client[v] /\ script'[v] = script[v] /\ (v \in installed' <=> v \in installed)
      BY <1>0, <1>2, <2>1, Parts
    <2>3. how' = how /\ timer'[v] = timer[v] /\ link'[v] = link[v]
      BY <1>0, <1>2, OthersKept DEF Effect
    <2>4. LinkedCall(v)
      BY DEF LinkedInv
    <2> QED
      BY <2>2, <2>3, <2>4 DEF LinkedCall, Linked, Reported, Told
  <1> QED
    BY <1>1, <1>2 DEF LinkedInv

\* The end of the application.
LEMMA CrashLinked ==
  ASSUME IInv, LinkedInv, Crash
  PROVE  LinkedInv'
  <1> SUFFICES ASSUME NEW u \in Uploads PROVE LinkedCall(u)'
    BY DEF LinkedInv
  <1>0. TypeOK /\ LinkedCall(u) /\ UNCHANGED <<how, script, installed>>
    BY DEF IInv, LinkedInv, Crash
  <1>1. timer'[u] = "off" /\ link'[u] = IF link[u] = "up" THEN "end" ELSE link[u]
    BY DEF Crash
  <1>2. CASE At(u, "ended")
    <2>1. client'[u] = client[u] /\ client[u].at = "ended"
      BY <1>2 DEF Crash, At
    <2>2. link'[u] = link[u]
      BY <1>0, <1>1, <2>1 DEF LinkedCall, Linked, Wired
    <2>3. Wired(client[u], timer'[u], link'[u])
      BY <1>0, <2>1, <2>2 DEF LinkedCall, Linked, Wired
    <2>4. ASSUME how[u] = "stdin" PROVE Reported(client[u], timer'[u], script[u], u \in installed)
      BY <1>0, <1>1, <2>4 DEF LinkedCall, Linked, Reported
    <2> QED
      BY <1>0, <2>1, <2>2, <2>3, <2>4 DEF LinkedCall, Linked
  <1>3. CASE ~At(u, "ended")
    <2> DEFINE c == Ended(client[u], "ended", "error")
    <2>1. client'[u] = c
      BY <1>3 DEF Crash, Ended
    <2>2. client[u] \in Client /\ "ended" \in ClientSteps /\ "error" \in Outs
      BY <1>0, CallParts DEF ClientSteps, Outs
    <2>3. /\ c.at = "ended" /\ c.out = "error" /\ c.sent = client[u].sent /\ c.eof = client[u].eof
          /\ c.seen = client[u].seen
      BY <2>2, EndedFields, ClientKeeps
    <2> HIDE DEF c
    <2>4. Wired(c, timer'[u], link'[u])
      BY <1>0, <1>1, <2>3 DEF LinkedCall, Linked, Wired
    <2>5. ASSUME how[u] = "stdin" PROVE Heeded(c, link'[u], script[u])
      BY <1>0, <2>3, <2>5 DEF LinkedCall, Linked, Heeded
    <2>6. ASSUME how[u] = "stdin" PROVE Reported(c, timer'[u], script[u], u \in installed)
      BY <1>0, <1>1, <2>3, <2>6 DEF LinkedCall, Linked, Reported
    <2> QED
      BY <1>0, <2>1, <2>4, <2>5, <2>6 DEF LinkedCall, Linked
  <1> QED
    BY <1>2, <1>3

\* The initial states.
LEMMA InitLinked == Init => LinkedInv
  <1> SUFFICES ASSUME Init, NEW u \in Uploads PROVE LinkedCall(u)
    BY DEF LinkedInv
  <1>1. /\ client[u].at = "connect" /\ client[u].out = "none" /\ client[u].sent = 0
        /\ client[u].eof = FALSE /\ client[u].seen = 0
        /\ timer[u] = "off" /\ link[u] = "none" /\ script[u].said = 0 /\ script[u].eof = FALSE
    BY DEF Init
  <1> QED
    BY <1>1 DEF LinkedCall, Linked, Wired, Heeded, Reported

\* The invariant is inductive.
LEMMA NextLinked == IInv /\ LinkedInv /\ [Next]_vars => LinkedInv'
  <1> SUFFICES ASSUME IInv, LinkedInv, [Next]_vars PROVE LinkedInv'
    OBVIOUS
  <1>1. CASE UNCHANGED vars
    BY <1>1 DEF vars, LinkedInv, LinkedCall, Linked, Reported, Told
  <1>2. CASE Next
    BY <1>2, StepLinked, CrashLinked DEF Next
  <1> QED
    BY <1>1, <1>2

\* In every state the calls are sound and linked.
THEOREM Linkage == TransportSpec => [](IInv /\ LinkedInv)
  <1>1. TransportInit => IInv /\ LinkedInv
    BY InitInv, InitLinked DEF TransportInit
  <1>2. (IInv /\ LinkedInv) /\ [TransportNext]_transportVars => (IInv /\ LinkedInv)'
    BY TransportSteps, NextInv, NextLinked
  <1> QED
    BY <1>1, <1>2, PTL DEF TransportSpec

-----------------------------------------------------------------------------
(* The theorems *)

\* Whenever the timer of _exec_ssh fires between two steps of its loop, the
\* connection it closes is reported as a timeout and never as the result of the
\* command, for any number of calls.
THEOREM OwnCloseIsTimeoutHolds == TransportSpec => []OwnCloseIsTimeout
  <1>1. LinkedInv => OwnCloseIsTimeout
    BY DEF LinkedInv, LinkedCall, Linked, Wired, OwnCloseIsTimeout
  <1> QED
    BY <1>1, Linkage, PTL

\* A result comes with all that the command printed, however late it arrives,
\* unless the network breaks.
THEOREM OutputCompleteHolds == TransportSpec => []OutputComplete
  <1>1. ASSUME LinkedInv, NEW u \in Uploads, how[u] = "stdin",
               client[u].out \in {"ok", "refused"}, link[u] = "end"
        PROVE  client[u].seen = script[u].said
    <2>1. Heeded(client[u], link[u], script[u])
      BY <1>1 DEF LinkedInv, LinkedCall, Linked
    <2> QED
      BY <1>1, <2>1 DEF Heeded, Complete
  <1>2. LinkedInv => OutputComplete
    BY <1>1 DEF OutputComplete
  <1> QED
    BY <1>2, Linkage, PTL

\* What a timeout reports of the upload is so: the progress, a status that came
\* in time, the last stage printed, for data of any size.
THEOREM ReportIsTrueHolds == TransportSpec => []ReportIsTrue
  <1>1. ASSUME IInv, LinkedInv, NEW u \in Uploads, how[u] = "stdin", client[u].out = "timeout"
        PROVE  LET report == client[u].noted
               IN /\ report \in Progress
                  /\ report.stage = "exec_start" => report.accepted = 0 /\ ~report.eof
                  /\ report.eof => report.accepted = Size
                  /\ report.status = "0" => u \in installed
                  /\ report.status = "1" => u \notin installed
                  /\ client[u].seen = 5 => u \in installed
    <2>1. Reported(client[u], timer[u], script[u], u \in installed)
      BY <1>1 DEF LinkedInv, LinkedCall, Linked
    <2>2. Told(client[u], script[u])
      BY <1>1, <2>1 DEF Reported
    <2>3. /\ script[u].exit = "0" => u \in installed
          /\ script[u].exit = "1" => u \notin installed
      BY <1>1 DEF IInv, SoundCall, Sound, SoundScript
    <2> QED
      BY <2>1, <2>2, <2>3 DEF Reported, Told, NoStatus
  <1>2. IInv /\ LinkedInv => ReportIsTrue
    BY <1>1 DEF ReportIsTrue
  <1> QED
    BY <1>2, Linkage, PTL
=============================================================================
