---------------------------- MODULE ManualDnsProofs ----------------------------
(***************************************************************************)
(* Proofs about module ManualDns, for every set of threads and domains and *)
(* any number of attempts.                                                 *)
(*                                                                         *)
(* AttemptInv follows an attempt that began alone, whatever attempts have  *)
(* overlapped before: once it has cleaned up the records there are its     *)
(* own, and a confirmation is there only for the record its hook waits     *)
(* for, until the first hook has taken it.                                 *)
(***************************************************************************)
EXTENDS ManualDns, TLAPS

Working == {"truncate", "fail", "read", "activate"} \cup InLego
Fresh == {"clean", "mark", "truncate"}
Job == [at : Steps \cup {"idle"}, no : 0..MaxAttempts, asked : SUBSET Domains,
        domain : Domains \cup {NoDomain}, confirmed : Seq(Domains), gaveUp : BOOLEAN]

WorkInv == status = "waiting_dns" /\ ~stranded => \E t \in Threads : job[t].at \in Working

Own(t) ==
  /\ \A u \in Threads : Busy(u) => u = t
  /\ ~At(t, "clean") => \A r \in records : r[1] = job[t].no

\* Only lego takes confirmations.
Unconfirmed(t) ==
  job[t].at \notin InLego \cup {"read", "activate"} => job[t].confirmed = <<>>

Released(t) ==
  /\ job[t].at \in Fresh \ {"clean"} => ~confirm
  /\ job[t].at \in InLego /\ confirm /\ job[t].confirmed = <<>> =>
       At(t, "wait") /\ <<job[t].no, job[t].domain>> \in published
  /\ job[t].confirmed # <<>> => <<job[t].no, Head(job[t].confirmed)>> \in published

AttemptInv ==
  ~overlapped =>
    \A t \in Threads : Busy(t) => Own(t) /\ Unconfirmed(t) /\ (~late => Released(t))

IdleInv == \A t \in Threads : ~Busy(t) => job[t].confirmed = <<>>

\* What the record of a job does not say of itself.
Typed(j) ==
  /\ j.at # "idle" => j.no \in 1..MaxAttempts
  /\ j.at = "wait" => j.domain \in Domains

TypeInv == TypeOK /\ \A t \in Threads : Typed(job[t])

IInv == TypeInv /\ WorkInv /\ IdleInv /\ AttemptInv

-----------------------------------------------------------------------------
(* Types *)

\* Records of jobs.
LEMMA IdleTyped == Idle \in Job
  BY ManualAssumption DEF Idle, Job

\* What the steps of an attempt do to its job.
Moved(j, step) == [j EXCEPT !.at = step]
Failed(j) == [Idle EXCEPT !.at = "fail", !.no = j.no]
Started(j, asked) == [j EXCEPT !.at = "lego", !.asked = asked]
Asking(j, d) == [j EXCEPT !.at = "wait", !.domain = d, !.asked = @ \ {d}]
Answered(j) == [j EXCEPT !.at = "lego", !.domain = NoDomain, !.confirmed = Append(@, j.domain)]
Unanswered(j) == [j EXCEPT !.at = "lego", !.domain = NoDomain, !.gaveUp = TRUE]

\* On to another step.
LEMMA MovedFields ==
  ASSUME NEW j \in Job, NEW step \in Steps
  PROVE  /\ Moved(j, step) \in Job
         /\ Moved(j, step).at = step /\ Moved(j, step).no = j.no
         /\ Moved(j, step).confirmed = j.confirmed
  BY DEF Moved, Job

\* On to the exception handler.
LEMMA FailedFields ==
  ASSUME NEW j \in Job
  PROVE  /\ Failed(j) \in Job
         /\ Failed(j).at = "fail" /\ Failed(j).no = j.no /\ Failed(j).confirmed = <<>>
  <1>1. Failed(j) \in Job
    BY IdleTyped DEF Failed, Job, Steps
  <1>2. Failed(j).at = "fail" /\ Failed(j).no = j.no /\ Failed(j).confirmed = <<>>
    BY DEF Failed, Idle
  <1> QED
    BY <1>1, <1>2

\* lego starts.
LEMMA StartedFields ==
  ASSUME NEW j \in Job, NEW asked \in SUBSET Domains
  PROVE  /\ Started(j, asked) \in Job
         /\ Started(j, asked).at = "lego" /\ Started(j, asked).no = j.no
         /\ Started(j, asked).asked = asked /\ Started(j, asked).confirmed = j.confirmed
  BY DEF Started, Job, Steps, InLego

\* The hook starts.
LEMMA AskingFields ==
  ASSUME NEW j \in Job, NEW d \in j.asked
  PROVE  /\ Asking(j, d) \in Job
         /\ Asking(j, d).at = "wait" /\ Asking(j, d).no = j.no /\ Asking(j, d).domain = d
         /\ Asking(j, d).asked = j.asked \ {d} /\ Asking(j, d).confirmed = j.confirmed
  <1>1. Asking(j, d) \in Job
    BY DEF Asking, Job, Steps, InLego
  <1>2. /\ Asking(j, d).at = "wait" /\ Asking(j, d).no = j.no /\ Asking(j, d).domain = d
        /\ Asking(j, d).asked = j.asked \ {d} /\ Asking(j, d).confirmed = j.confirmed
    BY DEF Asking, Job
  <1> QED
    BY <1>1, <1>2

\* The hook ends, confirmed.
LEMMA AnsweredFields ==
  ASSUME NEW j \in Job, j.domain \in Domains
  PROVE  /\ Answered(j) \in Job
         /\ Answered(j).at = "lego" /\ Answered(j).no = j.no /\ Answered(j).asked = j.asked
         /\ Answered(j).confirmed = Append(j.confirmed, j.domain)
  <1> DEFINE c == Append(j.confirmed, j.domain)
             k == [j EXCEPT !.at = "lego", !.domain = NoDomain, !.confirmed = c]
  <1>1. c \in Seq(Domains)
    BY DEF Job
  <1> HIDE DEF c
  <1>2. k \in Job
    BY <1>1 DEF Job, Steps, InLego
  <1>3. k.at = "lego" /\ k.no = j.no /\ k.asked = j.asked /\ k.confirmed = c
    BY DEF Job
  <1>4. Answered(j) = k
    BY DEF Answered, c
  <1> QED
    BY <1>2, <1>3, <1>4 DEF c

\* The hook ends, unconfirmed.
LEMMA UnansweredFields ==
  ASSUME NEW j \in Job
  PROVE  /\ Unanswered(j) \in Job
         /\ Unanswered(j).at = "lego" /\ Unanswered(j).no = j.no
         /\ Unanswered(j).asked = j.asked /\ Unanswered(j).confirmed = j.confirmed
  <1>1. Unanswered(j) \in Job
    BY DEF Unanswered, Job, Steps, InLego
  <1>2. /\ Unanswered(j).at = "lego" /\ Unanswered(j).no = j.no
        /\ Unanswered(j).asked = j.asked /\ Unanswered(j).confirmed = j.confirmed
    BY DEF Unanswered, Job
  <1> QED
    BY <1>1, <1>2

\* Each step of an attempt replaces its job by one of those.
LEMMA JobSteps ==
  ASSUME NEW t \in Threads, Attempt(t)
  PROVE  \/ \E step \in Steps \ InLego : job' = [job EXCEPT ![t] = Moved(job[t], step)]
         \/ job' = [job EXCEPT ![t] = Idle]
         \/ job' = [job EXCEPT ![t] = Failed(job[t])]
         \/ \E asked \in SUBSET Domains : Truncate(t) /\ job' = [job EXCEPT ![t] = Started(job[t], asked)]
         \/ \E d \in job[t].asked : Present(t) /\ job' = [job EXCEPT ![t] = Asking(job[t], d)]
         \/ Release(t) /\ job' = [job EXCEPT ![t] = Answered(job[t])]
         \/ GiveUp(t) /\ job' = [job EXCEPT ![t] = Unanswered(job[t])]
  <1>1. {"mark", "truncate", "discard", "read", "activate", "fail"} \subseteq Steps \ InLego
    BY DEF Steps, InLego
  <1>2. CASE Truncate(t)
    BY <1>2 DEF Truncate, Started, Fails, Failed
  <1>3. CASE Present(t)
    BY <1>3 DEF Present, Asking
  <1>4. CASE Release(t)
    BY <1>4 DEF Release, Answered
  <1>5. CASE GiveUp(t)
    BY <1>5 DEF GiveUp, Unanswered
  <1>6. CASE LegoFails(t) \/ Kill(t)
    BY <1>6 DEF LegoFails, Kill, Fails, Failed
  <1>7. CASE Clean(t) \/ Mark(t) \/ Fail(t) \/ Activate(t)
    BY <1>1, <1>7 DEF Clean, Mark, Fail, Activate, Set, Goto, Ends, Moved
  <1>8. CASE Succeed(t) \/ Discard(t) \/ Read(t)
    BY <1>1, <1>8 DEF Succeed, Discard, Read, Goto, Ends, Moved
  <1> QED
    BY <1>2, <1>3, <1>4, <1>5, <1>6, <1>7, <1>8 DEF Attempt

\* Every step of an attempt keeps the types.
LEMMA AttemptTypes ==
  ASSUME TypeInv, NEW t \in Threads, Attempt(t)
  PROVE  TypeInv'
  <1>0. /\ job \in [Threads -> Job] /\ job[t] \in Job /\ Typed(job[t]) /\ Busy(t)
        /\ job[t].no \in 1..MaxAttempts
    <2>1. Busy(t)
      BY DEF Busy, InLego, Attempt, Clean, Mark, Truncate, Present, Release, GiveUp, Succeed,
             LegoFails, Kill, Fail, Discard, Read, Activate, At
    <2> QED
      BY <2>1 DEF TypeInv, TypeOK, Job, Typed, Busy
  <1>1. UNCHANGED <<view, published, attempts, overlapped>>
    BY DEF Attempt, Clean, Mark, Truncate, Present, Release, GiveUp, Succeed, LegoFails, Kill,
           Fail, Discard, Read, Activate, files, user, history
  <1>2. confirm' \in BOOLEAN /\ stranded' \in BOOLEAN /\ late' \in BOOLEAN
    <2>1. /\ confirm' = confirm \/ confirm' = FALSE
          /\ stranded' = stranded \/ stranded' = TRUE \/ stranded' = FALSE
          /\ late' = late \/ late' = FALSE
      BY Zenon DEF Attempt, Clean, Mark, Truncate, Present, Release, GiveUp, Succeed, LegoFails, Kill,
             Fail, Discard, Read, Activate, Set, Cleanup, files, history
    <2> QED
      BY <2>1, Zenon DEF TypeInv, TypeOK
  <1>3. status' \in {"unborn", "pending", "waiting_dns", "active", "error", "deleted"}
    BY DEF TypeInv, TypeOK, Attempt, Clean, Mark, Truncate, Present, Release, GiveUp, Succeed,
           LegoFails, Kill, Fail, Discard, Read, Activate, Set
  <1>4. records' \subseteq Records
    <2>1. CASE Present(t)
      <3>1. PICK d \in job[t].asked : records' = records \cup {<<job[t].no, d>>}
        BY <2>1 DEF Present
      <3>2. d \in Domains
        BY <1>0 DEF Job
      <3> QED
        BY <1>0, <3>1, <3>2 DEF Records, TypeInv, TypeOK
    <2>2. CASE ~Present(t)
      <3>1. records' = records \/ records' = {}
        BY <2>2 DEF Attempt, Clean, Mark, Truncate, Release, GiveUp, Succeed,
               LegoFails, Kill, Fail, Discard, Read, Activate, Cleanup, files
      <3> QED
        BY <3>1 DEF TypeInv, TypeOK
    <2> QED
      BY <2>1, <2>2
  <1>5. \E j \in Job : job' = [job EXCEPT ![t] = j] /\ Typed(j)
    <2> DEFINE Goal == \E j \in Job : job' = [job EXCEPT ![t] = j] /\ Typed(j)
    <2>1. ASSUME NEW step \in Steps \ InLego, job' = [job EXCEPT ![t] = Moved(job[t], step)]
          PROVE  Goal
      <3>1. /\ Moved(job[t], step) \in Job /\ Moved(job[t], step).at = step
            /\ Moved(job[t], step).no = job[t].no
        BY <1>0, MovedFields
      <3>2. Typed(Moved(job[t], step))
        BY <1>0, <3>1 DEF InLego, Typed
      <3> QED
        BY <2>1, <3>1, <3>2
    <2>2. ASSUME job' = [job EXCEPT ![t] = Idle]
          PROVE  Goal
      BY <2>2, IdleTyped DEF Idle, Typed
    <2>3. ASSUME job' = [job EXCEPT ![t] = Failed(job[t])]
          PROVE  Goal
      BY <1>0, <2>3, FailedFields DEF Typed
    <2>4. ASSUME NEW asked \in SUBSET Domains, job' = [job EXCEPT ![t] = Started(job[t], asked)]
          PROVE  Goal
      BY <1>0, <2>4, StartedFields DEF Typed
    <2>5. ASSUME NEW d \in job[t].asked, job' = [job EXCEPT ![t] = Asking(job[t], d)]
          PROVE  Goal
      <3>1. d \in Domains
        BY <1>0 DEF Job
      <3> QED
        <4>1. /\ Asking(job[t], d) \in Job /\ Asking(job[t], d).domain = d
              /\ Asking(job[t], d).no = job[t].no
          BY <1>0, AskingFields
        <4>2. Typed(Asking(job[t], d))
          BY <1>0, <3>1, <4>1 DEF Typed
        <4> QED
          BY <2>5, <4>1, <4>2
    <2>6. ASSUME Release(t), job' = [job EXCEPT ![t] = Answered(job[t])]
          PROVE  Goal
      <3>1. job[t].domain \in Domains
        BY <1>0, <2>6 DEF Release, Typed, At
      <3> QED
        BY <1>0, <2>6, <3>1, AnsweredFields DEF Typed
    <2>7. ASSUME job' = [job EXCEPT ![t] = Unanswered(job[t])]
          PROVE  Goal
      BY <1>0, <2>7, UnansweredFields DEF Typed
    <2> QED
      BY <2>1, <2>2, <2>3, <2>4, <2>5, <2>6, <2>7, JobSteps
  <1>6. job' \in [Threads -> Job] /\ \A u \in Threads : Typed(job'[u])
    BY <1>0, <1>5 DEF TypeInv
  <1> QED
    BY <1>1, <1>2, <1>3, <1>4, <1>6 DEF TypeInv, TypeOK, Job, Typed

\* The user's steps, new attempts and restarts keep the types.
LEMMA OtherTypes ==
  ASSUME TypeInv,
         \/ Delete \/ Show \/ Publish \/ Confirm \/ Restart
         \/ \E t \in Threads : Create(t) \/ Renew(t)
  PROVE  TypeInv'
  <1> USE DEF TypeInv, TypeOK, files, user, history
  <1>1. CASE Delete \/ Show \/ Publish
    BY <1>1 DEF Delete, Show, Publish, Pending
  <1>2. CASE Confirm
    <2>1. late' \in BOOLEAN /\ UNCHANGED <<status, records, published, job, attempts, overlapped, stranded>>
      BY <1>2, Zenon DEF Confirm
    <2> QED
      BY <1>2, <2>1 DEF Confirm
  <1>3. CASE Restart
    <2>1. stranded' \in BOOLEAN /\ \A t \in Threads : Typed(Idle)
      BY <1>3, Zenon DEF Restart, Idle, Typed
    <2>2. job' \in [Threads -> Job] /\ \A t \in Threads : Typed(job'[t])
      BY <1>3, <2>1, IdleTyped DEF Restart
    <2> QED
      BY <1>3, <2>1, <2>2 DEF Restart, Job
  <1>4. ASSUME NEW t \in Threads, Begins(t), status' \in {"pending", status},
               UNCHANGED <<files, user, stranded, late>>
        PROVE  TypeInv'
    <2>1. attempts' = attempts + 1 /\ attempts + 1 \in 1..MaxAttempts
      BY <1>4, ManualAssumption DEF Begins
    <2>2. PICK j : /\ j = [Idle EXCEPT !.at = "clean", !.no = attempts + 1]
                   /\ job' = [job EXCEPT ![t] = j]
      BY <1>4 DEF Begins
    <2>3. j = [at |-> "clean", no |-> attempts + 1, asked |-> {}, domain |-> NoDomain,
               confirmed |-> <<>>, gaveUp |-> FALSE]
      BY <2>2 DEF Idle
    <2>4. j \in Job /\ j.at = "clean" /\ j.no = attempts + 1
      BY <2>1, <2>3 DEF Job, Steps
    <2>5. job' \in [Threads -> Job] /\ \A u \in Threads : Typed(job'[u])
      BY <2>1, <2>2, <2>4 DEF Typed, Job
    <2>6. overlapped' \in BOOLEAN
      BY <1>4, Zenon DEF Begins
    <2> QED
      BY <1>4, <2>1, <2>5, <2>6 DEF Job
  <1> QED
    BY <1>1, <1>2, <1>3, <1>4 DEF Create, Renew

\* The initial states are typed.
LEMMA InitTypes == Init => TypeInv
  <1> SUFFICES ASSUME Init PROVE TypeInv
    OBVIOUS
  <1>1. job \in [Threads -> Job] /\ \A t \in Threads : Typed(job[t])
    BY IdleTyped DEF Init, Typed, Idle
  <1>2. /\ records \subseteq Records /\ published \subseteq Records /\ view \subseteq Records
        /\ attempts \in 0..MaxAttempts
    BY ManualAssumption DEF Init
  <1>3. {confirm, overlapped, stranded, late} \subseteq BOOLEAN
    BY Zenon DEF Init
  <1>4. status \in {"unborn", "pending", "waiting_dns", "active", "error", "deleted"}
    BY DEF Init
  <1> QED
    BY <1>1, <1>2, <1>3, <1>4 DEF TypeInv, TypeOK, Job

\* Every step keeps the types.
LEMMA NextTypes == TypeInv /\ [Next]_vars => TypeInv'
  <1> SUFFICES ASSUME TypeInv, [Next]_vars PROVE TypeInv'
    OBVIOUS
  <1>1. CASE UNCHANGED vars
    BY <1>1 DEF vars, files, user, history, TypeInv, TypeOK, Typed
  <1>2. CASE Next
    BY <1>2, AttemptTypes, OtherTypes DEF Next
  <1> QED
    BY <1>1, <1>2

\* Every reachable state is typed.
THEOREM TypesHold == Spec => []TypeOK
  <1>1. TypeInv => TypeOK
    BY DEF TypeInv
  <1> QED
    BY <1>1, InitTypes, NextTypes, PTL DEF Spec

-----------------------------------------------------------------------------
(* Who waits for the user is at work. *)

\* A step of an attempt changes no other job.
LEMMA OthersKept ==
  ASSUME TypeInv, NEW t \in Threads, Attempt(t)
  PROVE  \A u \in Threads \ {t} : job'[u] = job[u]
  <1>1. job \in [Threads -> Job]
    BY DEF TypeInv, TypeOK, Job
  <1>2. \E j : job' = [job EXCEPT ![t] = j]
    BY JobSteps
  <1> QED
    BY <1>1, <1>2

\* A step of an attempt goes on with the work, or ends the waiting, or leaves
\* the thread's death on record, or was none of the work.
LEMMA WorkGoesOn ==
  ASSUME TypeInv, NEW t \in Threads, Attempt(t)
  PROVE  \/ job'[t].at \in Working
         \/ status' # "waiting_dns"
         \/ stranded'
         \/ job[t].at \notin Working /\ UNCHANGED <<status, stranded>>
  <1>0. job \in [Threads -> Job] /\ job[t] \in Job
    BY DEF TypeInv, TypeOK, Job
  <1>1. CASE \E step \in {"truncate", "read", "activate"} : Goto(t, step)
    <2>1. PICK step \in {"truncate", "read", "activate"} : job' = [job EXCEPT ![t] = Moved(job[t], step)]
      BY <1>1 DEF Goto, Moved
    <2>2. job'[t].at = step
      BY <1>0, <2>1, MovedFields DEF Steps
    <2> QED
      BY <2>2 DEF Working
  <1>2. CASE Fails(t)
    <2>1. job' = [job EXCEPT ![t] = Failed(job[t])]
      BY <1>2 DEF Fails, Failed
    <2> QED
      BY <1>0, <2>1, FailedFields DEF Working
  <1>3. CASE Truncate(t)
    <2>1. CASE \E asked \in SUBSET Domains : job' = [job EXCEPT ![t] = Started(job[t], asked)]
      <3>1. PICK asked \in SUBSET Domains : job' = [job EXCEPT ![t] = Started(job[t], asked)]
        BY <2>1
      <3>2. Started(job[t], asked).at = "lego"
        BY <1>0, StartedFields
      <3> QED
        BY <1>0, <3>1, <3>2 DEF Working, InLego
    <2> QED
      BY <1>2, <1>3, <2>1 DEF Truncate, Started
  <1>4. CASE Present(t)
    <2>1. PICK d \in job[t].asked : job' = [job EXCEPT ![t] = Asking(job[t], d)]
      BY <1>4 DEF Present, Asking
    <2>2. Asking(job[t], d).at = "wait"
      BY <1>0, AskingFields
    <2> QED
      BY <1>0, <2>1, <2>2 DEF Working, InLego
  <1>5. CASE Release(t)
    <2>1. job[t].domain \in Domains
      BY <1>5 DEF Release, TypeInv, Typed, At
    <2>2. job' = [job EXCEPT ![t] = Answered(job[t])]
      BY <1>5 DEF Release, Answered
    <2> QED
      BY <1>0, <2>1, <2>2, AnsweredFields DEF Working, InLego
  <1>6. CASE GiveUp(t)
    <2>1. job' = [job EXCEPT ![t] = Unanswered(job[t])]
      BY <1>6 DEF GiveUp, Unanswered
    <2> QED
      BY <1>0, <2>1, UnansweredFields DEF Working, InLego
  <1>7. CASE LegoFails(t) \/ Kill(t)
    BY <1>2, <1>7 DEF LegoFails, Kill
  <1>8. CASE Succeed(t) \/ Read(t)
    BY <1>1, <1>8 DEF Succeed, Read
  <1>9. CASE Mark(t)
    BY <1>1, <1>9, Zenon DEF Mark, Set
  <1>10. CASE Clean(t)
    BY <1>10 DEF Clean, Set, Exists, At, Working, InLego
  <1>11. CASE Fail(t) \/ Activate(t)
    BY <1>11 DEF Fail, Activate, Set, Exists
  <1>12. CASE Discard(t)
    BY <1>12 DEF Discard, At, Working, InLego, history
  <1> QED
    BY <1>3, <1>4, <1>5, <1>6, <1>7, <1>8, <1>9, <1>10, <1>11, <1>12 DEF Attempt

\* The invariant about the work is inductive.
LEMMA NextWork ==
  ASSUME TypeInv, WorkInv, [Next]_vars
  PROVE  WorkInv'
  <1> SUFFICES ASSUME status' = "waiting_dns", ~stranded'
               PROVE  \E t \in Threads : job'[t].at \in Working
    BY DEF WorkInv
  <1>1. ASSUME NEW t \in Threads, Attempt(t)
        PROVE  \E u \in Threads : job'[u].at \in Working
    <2>1. CASE job'[t].at \in Working
      BY <2>1
    <2>2. CASE job[t].at \notin Working /\ UNCHANGED <<status, stranded>>
      <3>1. PICK u \in Threads : job[u].at \in Working
        BY <2>2 DEF WorkInv
      <3> QED
        BY <1>1, <2>2, <3>1, OthersKept
    <2> QED
      BY <1>1, <2>1, <2>2, WorkGoesOn
  <1>2. ASSUME UNCHANGED <<job, stranded>>, status' = status \/ status' = "deleted"
        PROVE  \E t \in Threads : job'[t].at \in Working
    BY <1>2 DEF WorkInv
  <1>3. CASE Restart
    <2>1. PICK t \in Threads : job[t].at \in Working
      BY <1>3 DEF Restart, WorkInv
    <2>2. Busy(t)
      BY <2>1 DEF Busy, Working, InLego
    <2> QED
      BY <1>3, <2>2 DEF Restart
  <1>4. ASSUME NEW t \in Threads, Create(t) \/ Renew(t)
        PROVE  \E u \in Threads : job'[u].at \in Working
    <2>1. status' = status /\ stranded' = stranded /\ Begins(t)
      BY <1>4 DEF Create, Renew
    <2>2. PICK u \in Threads : job[u].at \in Working
      BY <2>1 DEF WorkInv
    <2>3. u # t
      BY <2>1, <2>2 DEF Begins, Busy, Working, InLego
    <2>4. job'[u] = job[u]
      BY <2>1, <2>3 DEF Begins, TypeInv, TypeOK
    <2> QED
      BY <2>2, <2>4
  <1>5. CASE Delete \/ Show \/ Publish \/ Confirm \/ UNCHANGED vars
    BY <1>2, <1>5 DEF Delete, Show, Publish, Confirm, vars, history
  <1> QED
    BY <1>1, <1>3, <1>4, <1>5 DEF Next

\* A certificate that waits for the user has a thread at work on it, unless one
\* died without an outcome.
THEOREM WaitingMeansAtWorkHolds == Spec => []WaitingMeansAtWork
  <1>1. Init => TypeInv /\ WorkInv
    BY InitTypes DEF Init, WorkInv
  <1>2. TypeInv /\ WorkInv /\ [Next]_vars => (TypeInv /\ WorkInv)'
    BY NextTypes, NextWork
  <1>3. WorkInv => WaitingMeansAtWork
    BY DEF WorkInv, WaitingMeansAtWork, Busy, Working, InLego
  <1> QED
    BY <1>1, <1>2, <1>3, PTL DEF Spec

-----------------------------------------------------------------------------
(* One attempt at a time. *)

\* A record is an attempt and a domain.
LEMMA RecordParts ==
  /\ \A r \in Records : r[1] \in 1..MaxAttempts /\ r[2] \in Domains /\ r = <<r[1], r[2]>>
  /\ \A n, d : <<n, d>>[1] = n
  BY DEF Records

\* Nothing is known of a job that is at rest but that it has no confirmations.
Sound(t) == Busy(t) => Own(t) /\ Unconfirmed(t) /\ (~late => Released(t))

\* A step that moves on without touching files keeps all that is known.
LEMMA MovesOn ==
  ASSUME TypeInv, NEW t \in Threads, NEW step \in Steps \ InLego, Sound(t), Busy(t),
         job' = [job EXCEPT ![t] = Moved(job[t], step)],
         \A u \in Threads : Busy(u) => u = t,
         UNCHANGED <<records, confirm, view, published, late>>,
         \/ At(t, "mark") /\ step = "truncate"
         \/ At(t, "fail") /\ step = "discard"
         \/ At(t, "lego") /\ step = "read"
  PROVE  Sound(t)'
  <1>0. job \in [Threads -> Job] /\ job[t] \in Job /\ records \subseteq Records
    BY DEF TypeInv, TypeOK, Job
  <1>1. /\ job'[t].at = step /\ job'[t].no = job[t].no /\ job'[t].confirmed = job[t].confirmed
        /\ \A u \in Threads \ {t} : job'[u] = job[u]
    BY <1>0, MovedFields
  <1>2. Own(t) /\ Unconfirmed(t)
    BY DEF Sound
  <1>3. Own(t)'
    BY <1>1, <1>2 DEF Own, At, Busy, Fresh, InLego
  <1>4. Unconfirmed(t)'
    BY <1>1, <1>2 DEF Unconfirmed, At, InLego
  <1>5. ~late' => Released(t)'
    BY <1>1 DEF Sound, Released, At, Fresh, InLego
  <1> QED
    BY <1>3, <1>4, <1>5 DEF Sound

\* A clean-up before or after the work does so too.
LEMMA CleansUp ==
  ASSUME TypeInv, NEW t \in Threads, NEW step \in Steps \ InLego, Sound(t), Busy(t),
         job' = [job EXCEPT ![t] = Moved(job[t], step)],
         \A u \in Threads : Busy(u) => u = t,
         UNCHANGED <<view, published>>, Cleanup,
         (At(t, "clean") /\ step = "mark") \/ (At(t, "read") /\ step = "activate" /\ UNCHANGED late)
  PROVE  Sound(t)'
  <1>0. job \in [Threads -> Job] /\ job[t] \in Job
    BY DEF TypeInv, TypeOK, Job
  <1>1. /\ job'[t].at = step /\ job'[t].no = job[t].no /\ job'[t].confirmed = job[t].confirmed
        /\ \A u \in Threads \ {t} : job'[u] = job[u]
    BY <1>0, MovedFields
  <1>2. Own(t) /\ Unconfirmed(t) /\ records' = {} /\ ~confirm'
    BY DEF Sound, Cleanup
  <1>3. Own(t)'
    BY <1>1, <1>2 DEF Own, At, Busy, Fresh, InLego
  <1>4. Unconfirmed(t)'
    BY <1>1, <1>2 DEF Unconfirmed, At, InLego
  <1>5. ~late' => Released(t)'
    <2>1. step = "mark" => job[t].confirmed = <<>>
      BY <1>2 DEF Unconfirmed, At, InLego
    <2> QED
      BY <1>1, <1>2, <2>1 DEF Sound, Released, At, Fresh, InLego
  <1> QED
    BY <1>3, <1>4, <1>5 DEF Sound

\* So does a failure, whose job has no confirmations any more.
LEMMA FailsSoundly ==
  ASSUME TypeInv, NEW t \in Threads, Sound(t), Busy(t), Fails(t), ~At(t, "clean"),
         \A u \in Threads : Busy(u) => u = t,
         UNCHANGED <<confirm, view, published, late>>, records' \in {records, {}}
  PROVE  Sound(t)'
  <1>0. job \in [Threads -> Job] /\ job[t] \in Job
    BY DEF TypeInv, TypeOK, Job
  <1>1. job' = [job EXCEPT ![t] = Failed(job[t])]
    BY DEF Fails, Failed
  <1>2. /\ job'[t].at = "fail" /\ job'[t].no = job[t].no /\ job'[t].confirmed = <<>>
        /\ \A u \in Threads \ {t} : job'[u] = job[u]
    BY <1>0, <1>1, FailedFields
  <1>3. Own(t)' /\ Unconfirmed(t)' /\ Released(t)'
    BY <1>2 DEF Sound, Own, Unconfirmed, Released, At, Busy, Fresh, InLego
  <1> QED
    BY <1>3 DEF Sound

\* lego starts.
LEMMA StartsSoundly ==
  ASSUME TypeInv, NEW t \in Threads, Sound(t), At(t, "truncate"), NEW asked \in SUBSET Domains,
         \A u \in Threads : Busy(u) => u = t,
         job' = [job EXCEPT ![t] = Started(job[t], asked)],
         UNCHANGED <<confirm, view, published, late>>, records' = {}
  PROVE  Sound(t)'
  <1>0. job \in [Threads -> Job] /\ job[t] \in Job
    BY DEF TypeInv, TypeOK, Job
  <1>1. /\ job'[t].at = "lego" /\ job'[t].no = job[t].no /\ job'[t].asked = asked
        /\ job'[t].confirmed = job[t].confirmed
        /\ \A u \in Threads \ {t} : job'[u] = job[u]
    BY <1>0, StartedFields
  <1>2. Own(t) /\ Unconfirmed(t) /\ Busy(t)
    BY DEF Sound, At, Busy
  <1>3. Own(t)'
    BY <1>1, <1>2 DEF Own, At, Busy
  <1>4. job[t].confirmed = <<>>
    BY <1>2 DEF Unconfirmed, At, InLego
  <1>5. Unconfirmed(t)'
    BY <1>1, <1>4 DEF Unconfirmed, At, InLego
  <1>6. ~late' => Released(t)'
    BY <1>1, <1>2, <1>4 DEF Sound, Released, At, Fresh, InLego
  <1> QED
    BY <1>3, <1>5, <1>6 DEF Sound

\* A hook starts.
LEMMA PresentsSoundly ==
  ASSUME TypeInv, NEW t \in Threads, Sound(t), At(t, "lego"), NEW d \in job[t].asked,
         \A u \in Threads : Busy(u) => u = t,
         job' = [job EXCEPT ![t] = Asking(job[t], d)],
         UNCHANGED <<confirm, view, published, late>>,
         records' = records \cup {<<job[t].no, d>>}
  PROVE  Sound(t)'
  <1>0. job \in [Threads -> Job] /\ job[t] \in Job
    BY DEF TypeInv, TypeOK, Job
  <1>1. /\ job'[t].at = "wait" /\ job'[t].no = job[t].no /\ job'[t].domain = d
        /\ job'[t].asked = job[t].asked \ {d} /\ job'[t].confirmed = job[t].confirmed
        /\ \A u \in Threads \ {t} : job'[u] = job[u]
    <2>1. /\ Asking(job[t], d).at = "wait" /\ Asking(job[t], d).no = job[t].no
          /\ Asking(job[t], d).domain = d /\ Asking(job[t], d).asked = job[t].asked \ {d}
          /\ Asking(job[t], d).confirmed = job[t].confirmed
      BY <1>0, AskingFields
    <2> QED
      BY <1>0, <2>1
  <1>2. Own(t) /\ Unconfirmed(t) /\ Busy(t)
    BY DEF Sound, At, Busy
  <1>4. Own(t)'
    <2>1. \A r \in records' : r[1] = job[t].no
      BY <1>2, RecordParts DEF Own, At
    <2> QED
      BY <1>1, <1>2, <2>1 DEF Own, At, Busy, Fresh, InLego
  <1>5. Unconfirmed(t)'
    BY <1>1 DEF Unconfirmed, InLego
  <1>6. ~late' => Released(t)'
    BY <1>1, <1>2 DEF Sound, Released, At, Fresh, InLego
  <1> QED
    BY <1>4, <1>5, <1>6 DEF Sound

\* What Append does to the ends of a sequence.
LEMMA AppendParts ==
  ASSUME NEW s \in Seq(Domains), NEW x \in Domains
  PROVE  /\ Append(s, x) # <<>>
         /\ Head(Append(s, x)) = IF s = <<>> THEN x ELSE Head(s)
  <1>1. Append(s, x) \in Seq(Domains) /\ Len(Append(s, x)) = Len(s) + 1 /\ Len(s) \in Nat
    OBVIOUS
  <1>2. Append(s, x) # <<>>
    BY <1>1
  <1>3. CASE s = <<>>
    BY <1>1, <1>2, <1>3
  <1>4. CASE s # <<>>
    <2>1. Len(s) >= 1
      BY <1>4
    <2>2. Append(s, x)[1] = s[1]
      BY <2>1
    <2> QED
      BY <1>1, <1>2, <1>4, <2>1, <2>2
  <1> QED
    BY <1>1, <1>2, <1>3, <1>4

\* A confirmed hook ends: the first one with its record published, which is all
\* that is known of any further one.
LEMMA ReleasesSoundly ==
  ASSUME TypeInv, NEW t \in Threads, Sound(t), At(t, "wait"), confirm,
         \A u \in Threads : Busy(u) => u = t,
         job' = [job EXCEPT ![t] = Answered(job[t])],
         UNCHANGED <<records, confirm, view, published, late>>
  PROVE  Sound(t)'
  <1>0. job \in [Threads -> Job] /\ job[t] \in Job /\ job[t].domain \in Domains
    BY DEF TypeInv, TypeOK, Job, Typed, At
  <1> DEFINE c == job[t].confirmed
             x == job[t].domain
  <1>1. /\ job'[t].at = "lego" /\ job'[t].no = job[t].no /\ job'[t].asked = job[t].asked
        /\ job'[t].confirmed = Append(c, x)
        /\ \A u \in Threads \ {t} : job'[u] = job[u]
    BY <1>0, AnsweredFields
  <1>2. c \in Seq(Domains) /\ x \in Domains
    BY <1>0 DEF Job
  <1>3. /\ Append(c, x) # <<>>
        /\ Head(Append(c, x)) = IF c = <<>> THEN x ELSE Head(c)
    BY <1>2, AppendParts
  <1> HIDE DEF c, x
  <1>4. Own(t) /\ Unconfirmed(t) /\ Busy(t)
    BY DEF Sound, At, Busy
  <1>5. Own(t)'
    BY <1>1, <1>4 DEF Own, At, Busy, Fresh, InLego
  <1>6. Unconfirmed(t)'
    BY <1>1 DEF Unconfirmed, InLego
  <1>7. ~late' => Released(t)'
    <2>1. ~late => <<job[t].no, Head(Append(c, x))>> \in published
      BY <1>3, <1>4 DEF Sound, Released, At, InLego, c, x
    <2> QED
      BY <1>1, <1>3, <2>1 DEF Released, At, Fresh, InLego
  <1> QED
    BY <1>5, <1>6, <1>7 DEF Sound

\* An unconfirmed hook ends.
LEMMA GivesUpSoundly ==
  ASSUME TypeInv, NEW t \in Threads, Sound(t), At(t, "wait"), ~confirm,
         \A u \in Threads : Busy(u) => u = t,
         job' = [job EXCEPT ![t] = Unanswered(job[t])],
         UNCHANGED <<records, confirm, view, published, late>>
  PROVE  Sound(t)'
  <1>0. job \in [Threads -> Job] /\ job[t] \in Job
    BY DEF TypeInv, TypeOK, Job
  <1>1. /\ job'[t].at = "lego" /\ job'[t].no = job[t].no /\ job'[t].asked = job[t].asked
        /\ job'[t].confirmed = job[t].confirmed
        /\ \A u \in Threads \ {t} : job'[u] = job[u]
    BY <1>0, UnansweredFields
  <1>2. Own(t) /\ Unconfirmed(t) /\ Busy(t)
    BY DEF Sound, At, Busy
  <1>3. Own(t)'
    BY <1>1, <1>2 DEF Own, At, Busy, Fresh, InLego
  <1>4. Unconfirmed(t)' /\ (~late' => Released(t)')
    BY <1>1, <1>2 DEF Sound, Unconfirmed, Released, At, Fresh, InLego
  <1> QED
    BY <1>3, <1>4 DEF Sound

\* A thread that ends its attempt has nothing to keep.
LEMMA EndsSoundly ==
  ASSUME TypeInv, NEW t \in Threads, Ends(t)
  PROVE  Sound(t)'
  <1>1. job'[t] = Idle
    BY DEF Ends, TypeInv, TypeOK
  <1> QED
    BY <1>1 DEF Sound, Busy, Idle

\* Every step of an attempt that is alone keeps what is known of it.
LEMMA StepsSoundly ==
  ASSUME TypeInv, NEW t \in Threads, Attempt(t), Sound(t), Busy(t),
         \A u \in Threads : Busy(u) => u = t
  PROVE  Sound(t)'
  <1>0. UNCHANGED <<view, published>> /\ (Clean(t) \/ UNCHANGED late)
    BY DEF Attempt, Clean, Mark, Truncate, Present, Release, GiveUp, Succeed, LegoFails, Kill,
           Fail, Discard, Read, Activate, user, history
  <1>l. ~At(t, "clean") => UNCHANGED late
    BY <1>0 DEF Clean
  <1>1. CASE Clean(t)
    <2>1. CASE Ends(t)
      BY <2>1, EndsSoundly
    <2>2. CASE Cleanup /\ Goto(t, "mark")
      <3>1. job' = [job EXCEPT ![t] = Moved(job[t], "mark")]
        BY <2>2 DEF Goto, Moved
      <3>2. At(t, "clean") /\ "mark" \in Steps \ InLego
        BY <1>1 DEF Clean, Steps, InLego
      <3> QED
        BY <1>0, <2>2, <3>1, <3>2, CleansUp
    <2> QED
      BY <1>1, <2>1, <2>2 DEF Clean, Set
  <1>2. CASE Mark(t)
    <2>1. CASE Ends(t)
      BY <2>1, EndsSoundly
    <2>2. CASE Goto(t, "truncate")
      <3>1. job' = [job EXCEPT ![t] = Moved(job[t], "truncate")]
        BY <2>2 DEF Goto, Moved
      <3>2. At(t, "mark") /\ "truncate" \in Steps \ InLego /\ UNCHANGED <<records, confirm>>
        BY <1>2 DEF Mark, Steps, InLego, files
      <3> QED
        BY <1>0, <1>l, <3>1, <3>2, MovesOn DEF At
    <2> QED
      BY <1>2, <2>1, <2>2 DEF Mark, Set
  <1>3. CASE Fail(t)
    <2>1. CASE Ends(t)
      BY <2>1, EndsSoundly
    <2>2. CASE Goto(t, "discard")
      <3>1. job' = [job EXCEPT ![t] = Moved(job[t], "discard")]
        BY <2>2 DEF Goto, Moved
      <3>2. At(t, "fail") /\ "discard" \in Steps \ InLego /\ UNCHANGED <<records, confirm>>
        BY <1>3 DEF Fail, Steps, InLego, files
      <3> QED
        BY <1>0, <1>l, <3>1, <3>2, MovesOn DEF At
    <2> QED
      BY <1>3, <2>1, <2>2 DEF Fail, Set
  <1>4. CASE Succeed(t)
    <2>1. job' = [job EXCEPT ![t] = Moved(job[t], "read")]
      BY <1>4 DEF Succeed, Goto, Moved
    <2>2. At(t, "lego") /\ "read" \in Steps \ InLego /\ UNCHANGED <<records, confirm>>
      BY <1>4 DEF Succeed, Steps, InLego, files
    <2> QED
      BY <1>0, <1>l, <2>1, <2>2, MovesOn DEF At
  <1>5. CASE Read(t)
    <2>1. job' = [job EXCEPT ![t] = Moved(job[t], "activate")]
      BY <1>5 DEF Read, Goto, Moved
    <2>2. At(t, "read") /\ "activate" \in Steps \ InLego /\ Cleanup
      BY <1>5 DEF Read, Steps, InLego
    <2> QED
      BY <1>0, <1>l, <2>1, <2>2, CleansUp DEF At
  <1>6. CASE Truncate(t)
    <2>1. At(t, "truncate") /\ records' = {} /\ UNCHANGED confirm
      BY <1>6 DEF Truncate
    <2>2. CASE Fails(t)
      BY <1>0, <1>l, <2>1, <2>2, FailsSoundly DEF At
    <2>3. ASSUME NEW asked \in SUBSET Domains, job' = [job EXCEPT ![t] = Started(job[t], asked)]
          PROVE  Sound(t)'
      BY <1>0, <1>l, <2>1, <2>3, StartsSoundly DEF At
    <2> QED
      BY <1>6, <2>2, <2>3 DEF Truncate, Started
  <1>7. CASE Present(t)
    <2>1. PICK d \in job[t].asked : /\ records' = records \cup {<<job[t].no, d>>}
                                    /\ job' = [job EXCEPT ![t] = Asking(job[t], d)]
      BY <1>7 DEF Present, Asking
    <2>2. At(t, "lego") /\ UNCHANGED confirm
      BY <1>7 DEF Present
    <2> QED
      BY <1>0, <1>l, <2>1, <2>2, PresentsSoundly DEF At
  <1>8. CASE Release(t)
    <2>1. job' = [job EXCEPT ![t] = Answered(job[t])]
      BY <1>8 DEF Release, Answered
    <2>2. At(t, "wait") /\ confirm /\ UNCHANGED <<records, confirm>>
      BY <1>8 DEF Release, files
    <2> QED
      BY <1>0, <1>l, <2>1, <2>2, ReleasesSoundly DEF At
  <1>9. CASE GiveUp(t)
    <2>1. job' = [job EXCEPT ![t] = Unanswered(job[t])]
      BY <1>9 DEF GiveUp, Unanswered
    <2>2. At(t, "wait") /\ ~confirm /\ UNCHANGED <<records, confirm>>
      BY <1>9 DEF GiveUp, files
    <2> QED
      BY <1>0, <1>l, <2>1, <2>2, GivesUpSoundly DEF At
  <1>10. CASE LegoFails(t) \/ Kill(t)
    <2>1. Fails(t) /\ ~At(t, "clean") /\ UNCHANGED <<records, confirm>>
      BY <1>10 DEF LegoFails, Kill, At, InLego, files
    <2> QED
      BY <1>0, <1>l, <2>1, FailsSoundly
  <1>11. CASE Discard(t) \/ Activate(t)
    BY <1>11, EndsSoundly DEF Discard, Activate, Set
  <1> QED
    BY <1>1, <1>2, <1>3, <1>4, <1>5, <1>6, <1>7, <1>8, <1>9, <1>10, <1>11 DEF Attempt

\* So all that is known stays known when an attempt goes on.
LEMMA AttemptKeeps ==
  ASSUME TypeInv, AttemptInv, NEW t \in Threads, Attempt(t)
  PROVE  AttemptInv'
  <1> SUFFICES ASSUME ~overlapped' PROVE \A u \in Threads : Sound(u)'
    BY DEF AttemptInv, Sound
  <1>1. UNCHANGED overlapped
    BY DEF Attempt, Clean, Mark, Truncate, Present, Release, GiveUp, Succeed, LegoFails, Kill,
           Fail, Discard, Read, Activate, history
  <1>2. Busy(t)
    BY DEF Busy, InLego, Attempt, Clean, Mark, Truncate, Present, Release, GiveUp, Succeed,
           LegoFails, Kill, Fail, Discard, Read, Activate, At
  <1>3. Sound(t) /\ Own(t)
    BY <1>1, <1>2 DEF AttemptInv, Sound
  <1>4. \A u \in Threads : Busy(u) => u = t
    BY <1>3 DEF Own
  <1>5. Sound(t)'
    BY <1>2, <1>3, <1>4, StepsSoundly
  <1>6. \A u \in Threads \ {t} : ~Busy(u)'
    BY <1>4, OthersKept DEF Busy
  <1>7. \A u \in Threads \ {t} : Sound(u)'
    BY <1>6 DEF Sound
  <1> QED
    BY <1>5, <1>7

\* The user cannot disturb it: what is published stays so, and a confirmation that
\* is not late is for the record the hook waits for.
LEMMA UserKeeps ==
  ASSUME TypeInv, AttemptInv, Delete \/ Show \/ Publish \/ Confirm
  PROVE  AttemptInv'
  <1>0. UNCHANGED <<records, job, overlapped>> /\ \A t \in Threads : job[t].confirmed \in Seq(Domains)
    BY DEF Delete, Show, Publish, Confirm, TypeInv, TypeOK, Job, files, user, history
  <1> SUFFICES ASSUME ~overlapped', NEW t \in Threads, Busy(t)'
               PROVE  Own(t)' /\ Unconfirmed(t)' /\ (~late' => Released(t)')
    BY DEF AttemptInv
  <1>1. Own(t) /\ Unconfirmed(t) /\ (~late => Released(t))
    BY <1>0 DEF AttemptInv, Busy
  <1>3. Own(t)'
    BY <1>0, <1>1 DEF Own, At, Busy
  <1>4. CASE Delete \/ Show
    BY <1>0, <1>1, <1>3, <1>4 DEF Delete, Show, Unconfirmed, Released, At, files, user, history
  <1>5. CASE Publish
    <2>1. UNCHANGED <<confirm, late>> /\ published' = published \cup view
      BY <1>5 DEF Publish, files, history
    <2>2. Unconfirmed(t)'
      BY <1>0, <1>1 DEF Unconfirmed
    <2>3. ~late' => Released(t)'
      BY <1>0, <1>1, <2>1 DEF Released, At
    <2> QED
      BY <1>3, <2>2, <2>3
  <1>6. CASE Confirm
    <2>1. confirm' /\ published' = published /\ view \subseteq published
      BY <1>6 DEF Confirm
    <2>2. Unconfirmed(t)'
      BY <1>0, <1>1 DEF Unconfirmed
    <2>3. ASSUME ~late' PROVE Released(t)'
      <3>1. PICK u \in Threads : At(u, "wait") /\ <<job[u].no, job[u].domain>> \in view
        BY <1>6, <2>3 DEF Confirm
      <3>2. u = t /\ ~late
        BY <1>1, <1>6, <2>3, <3>1 DEF Own, At, Busy, Confirm
      <3> QED
        BY <1>0, <1>1, <2>1, <3>1, <3>2 DEF Released, At, Fresh
    <2> QED
      BY <1>3, <2>2, <2>3
  <1> QED
    BY <1>4, <1>5, <1>6

\* A new attempt has taken no confirmation yet.
LEMMA BeginKeeps ==
  ASSUME TypeInv, AttemptInv, NEW t \in Threads, Create(t) \/ Renew(t)
  PROVE  AttemptInv'
  <1> SUFFICES ASSUME ~overlapped' PROVE \A u \in Threads : Sound(u)'
    BY DEF AttemptInv, Sound
  <1>1. UNCHANGED <<records, confirm, view, published, late>> /\ Begins(t)
    BY DEF Create, Renew, files, user
  <1>2. job \in [Threads -> Job] /\ attempts \in 0..MaxAttempts
    BY DEF TypeInv, TypeOK, Job
  <1>3. PICK j : /\ j = [Idle EXCEPT !.at = "clean", !.no = attempts + 1]
                 /\ job' = [job EXCEPT ![t] = j]
    BY <1>1 DEF Begins
  <1>4. j.at = "clean" /\ j.no = attempts + 1 /\ j.confirmed = <<>>
    BY <1>3 DEF Idle
  <1>5. job'[t] = j /\ \A u \in Threads \ {t} : job'[u] = job[u]
    BY <1>2, <1>3
  <1>6. \A u \in Threads \ {t} : ~Busy(u)
    BY <1>1 DEF Begins
  <1>8. Own(t)'
    BY <1>4, <1>5, <1>6 DEF Own, At, Busy
  <1>9. Unconfirmed(t)' /\ Released(t)'
    BY <1>4, <1>5 DEF Unconfirmed, Released, At, Fresh, InLego
  <1> QED
    BY <1>5, <1>6, <1>8, <1>9 DEF Sound, Busy

\* Threads at rest have no confirmations.
LEMMA NextIdle ==
  ASSUME TypeInv, IdleInv, [Next]_vars
  PROVE  IdleInv'
  <1>0. job \in [Threads -> Job]
    BY DEF TypeInv, TypeOK, Job
  <1>1. ASSUME NEW t \in Threads, Attempt(t) PROVE IdleInv'
    <2>1. \A u \in Threads \ {t} : Busy(u)' \/ job'[u].confirmed = <<>>
      BY <1>1, OthersKept DEF IdleInv, Busy
    <2>2. job'[t] = Idle \/ job'[t].at \in Steps
      <3>0. job[t] \in Job /\ job'[t] \in Job
        BY <1>0, <1>1, AttemptTypes DEF TypeInv, TypeOK, Job
      <3>1. ASSUME NEW step \in Steps \ InLego, job' = [job EXCEPT ![t] = Moved(job[t], step)]
            PROVE  job'[t].at \in Steps
        BY <1>0, <3>0, <3>1, MovedFields
      <3>2. ASSUME job' = [job EXCEPT ![t] = Failed(job[t])] PROVE job'[t].at \in Steps
        BY <1>0, <3>0, <3>2, FailedFields DEF Steps
      <3>3. ASSUME NEW asked \in SUBSET Domains, job' = [job EXCEPT ![t] = Started(job[t], asked)]
            PROVE  job'[t].at \in Steps
        BY <1>0, <3>0, <3>3, StartedFields DEF Steps, InLego
      <3>4. ASSUME NEW d \in job[t].asked, job' = [job EXCEPT ![t] = Asking(job[t], d)]
            PROVE  job'[t].at \in Steps
        <4>1. Asking(job[t], d).at = "wait"
          BY <3>0, AskingFields
        <4> QED
          BY <1>0, <3>4, <4>1 DEF Steps, InLego
      <3>5. ASSUME Release(t), job' = [job EXCEPT ![t] = Answered(job[t])]
            PROVE  job'[t].at \in Steps
        <4>1. job[t].domain \in Domains
          BY <3>5 DEF Release, TypeInv, Typed, At
        <4> QED
          BY <1>0, <3>0, <3>5, <4>1, AnsweredFields DEF Steps, InLego
      <3>6. ASSUME job' = [job EXCEPT ![t] = Unanswered(job[t])] PROVE job'[t].at \in Steps
        BY <1>0, <3>0, <3>6, UnansweredFields DEF Steps, InLego
      <3> QED
        BY <1>0, <1>1, <3>1, <3>2, <3>3, <3>4, <3>5, <3>6, JobSteps
    <2>3. Busy(t)' \/ job'[t].confirmed = <<>>
      BY <2>2 DEF Busy, Steps, InLego, Idle
    <2> QED
      BY <2>1, <2>3 DEF IdleInv
  <1>2. ASSUME NEW t \in Threads, Create(t) \/ Renew(t) PROVE IdleInv'
    <2>1. PICK j : /\ j = [Idle EXCEPT !.at = "clean", !.no = attempts + 1]
                   /\ job' = [job EXCEPT ![t] = j]
      BY <1>2 DEF Create, Renew, Begins
    <2>2. j.confirmed = <<>>
      BY <2>1 DEF Idle
    <2> QED
      BY <1>0, <2>1, <2>2 DEF IdleInv, Busy
  <1>3. CASE Restart
    BY <1>3 DEF Restart, IdleInv, Idle
  <1>4. CASE Delete \/ Show \/ Publish \/ Confirm \/ UNCHANGED vars
    BY <1>4 DEF Delete, Show, Publish, Confirm, vars, IdleInv, Busy
  <1> QED
    BY <1>1, <1>2, <1>3, <1>4 DEF Next

\* Whatever happens, what is known of an attempt that is alone stays known.
LEMMA NextAttempts ==
  ASSUME TypeInv, AttemptInv, [Next]_vars
  PROVE  AttemptInv'
  <1>1. CASE Restart
    <2>1. \A t \in Threads : ~Busy(t)'
      BY <1>1 DEF Restart, Busy, Idle
    <2> QED
      BY <2>1 DEF AttemptInv
  <1>2. CASE UNCHANGED vars
    BY <1>2 DEF AttemptInv, Own, Unconfirmed, Released, At, Busy, vars, files, user, history
  <1>3. ASSUME NEW t \in Threads, Create(t) \/ Renew(t) \/ Attempt(t) PROVE AttemptInv'
    BY <1>3, AttemptKeeps, BeginKeeps
  <1>4. CASE Delete \/ Show \/ Publish \/ Confirm
    BY <1>4, UserKeeps
  <1> QED
    BY <1>1, <1>2, <1>3, <1>4 DEF Next

\* The invariant is inductive.
LEMMA Inductive ==
  /\ Init => IInv
  /\ IInv /\ [Next]_vars => IInv'
  <1>1. Init => IInv
    <2> SUFFICES ASSUME Init PROVE IInv
      OBVIOUS
    <2>1. Idle.at = "idle" /\ Idle.no = 0 /\ Idle.confirmed = <<>>
      BY DEF Idle
    <2>2. \A t \in Threads : job[t].at = "idle" /\ job[t].no = 0 /\ job[t].confirmed = <<>>
      BY <2>1 DEF Init
    <2>3. IdleInv /\ AttemptInv /\ WorkInv
      BY <2>2 DEF Init, IdleInv, AttemptInv, WorkInv, Busy
    <2> QED
      BY <2>3, InitTypes DEF IInv
  <1>2. IInv /\ [Next]_vars => IInv'
    BY NextTypes, NextWork, NextIdle, NextAttempts DEF IInv
  <1> QED
    BY <1>1, <1>2

\* While an attempt that is alone is at work, the records shown are its own.
THEOREM ShownIsAskedForHolds == Spec => []ShownIsAskedFor
  <1>1. IInv => ShownIsAskedFor
    <2> SUFFICES ASSUME IInv, ~overlapped, NEW t \in Threads, job[t].at \notin {"idle", "clean"},
                        NEW r \in Pending
                 PROVE  r[1] = job[t].no
      BY DEF ShownIsAskedFor
    <2>1. Own(t) /\ r \in records
      BY DEF IInv, AttemptInv, Busy, Pending
    <2> QED
      BY <2>1 DEF Own, At
  <1> QED
    BY <1>1, Inductive, PTL DEF Spec

\* The first hook of an attempt goes on with its record published.
THEOREM ReleasedWhenPublishedHolds == Spec => []ReleasedWhenPublished
  <1>1. IInv => ReleasedWhenPublished
    <2> SUFFICES ASSUME IInv, ~overlapped, ~late, NEW t \in Threads, job[t].confirmed # <<>>
                 PROVE  <<job[t].no, Head(job[t].confirmed)>> \in published
      BY DEF ReleasedWhenPublished
    <2>1. Released(t)
      BY DEF IInv, IdleInv, AttemptInv
    <2> QED
      BY <2>1 DEF Released
  <1> QED
    BY <1>1, Inductive, PTL DEF Spec
=============================================================================
