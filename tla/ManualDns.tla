------------------------------ MODULE ManualDns ------------------------------
(***************************************************************************)
(* The manual DNS challenge of one certificate (_issue_manual and its      *)
(* hook, get_pending_challenge and confirm_manual in                       *)
(* app/services/certs.py): a thread runs lego, lego runs the hook for one  *)
(* domain after the other, and the hook puts the TXT record into a file    *)
(* and waits for another file.  The interface shows the first file to the  *)
(* user, who publishes the records and confirms, which creates the second. *)
(*                                                                         *)
(* A record is the attempt that asks for it and its domain: the CA gives   *)
(* out a new value each time.  Seconds are not counted: the hook gives up  *)
(* after 1200, lego is killed after 1300 altogether.  lego, the CA and the *)
(* user are external.                                                      *)
(***************************************************************************)
EXTENDS Naturals, Sequences

CONSTANTS
  Threads,      \* threads of issue_background
  Domains,
  MaxAttempts   \* bound

ASSUME ManualAssumption == MaxAttempts \in Nat

VARIABLES
  status,      \* column status, or "unborn" / "deleted": there is no row
  records,     \* manual_<id>.records; an empty file is as good as none
  confirm,     \* manual_<id>.confirm exists
  view,        \* records the user has been shown since the last confirmation
  published,   \* records in the DNS
  job,         \* job[t]: the attempt thread t makes
  attempts,    \* bounded by MaxAttempts
  overlapped,  \* history variable: another attempt was under way when the last one
               \* began
  stranded,    \* history variable: a thread died before it wrote its outcome, and
               \* none has written the status since
  late         \* history variable: a confirmation came when no hook waited for
               \* a record that the user had been shown, and its file has not
               \* been removed by an attempt since

files == <<records, confirm>>
user == <<view, published>>
history == <<overlapped, stranded, late>>
vars == <<status, files, user, job, attempts, history>>

-----------------------------------------------------------------------------
Records == (1..MaxAttempts) \X Domains
InLego == {"lego", "wait"}
Steps == {"clean", "mark", "truncate", "fail", "discard", "read", "activate"} \cup InLego
\* domain: the hook waits for its record; asked: domains lego still has to ask
\* for; confirmed: those released by the file, in order; gaveUp: the hook has
\* given up on one.
NoDomain == "none"
Idle == [at |-> "idle", no |-> 0, asked |-> {}, domain |-> NoDomain,
         confirmed |-> <<>>, gaveUp |-> FALSE]

Exists == status \notin {"unborn", "deleted"}
Busy(t) == job[t].at # "idle"
At(t, step) == job[t].at = step
Goto(t, step) == job' = [job EXCEPT ![t].at = step]
\* What the hooks did does not matter any more.
Fails(t) == job' = [job EXCEPT ![t] = [Idle EXCEPT !.at = "fail", !.no = job[t].no]]
Ends(t) == job' = [job EXCEPT ![t] = Idle]
Begins(t) ==
  /\ ~Busy(t)
  /\ attempts < MaxAttempts
  /\ attempts' = attempts + 1
  /\ job' = [job EXCEPT ![t] = [Idle EXCEPT !.at = "clean", !.no = attempts + 1]]
  /\ overlapped' = \E u \in Threads \ {t} : Busy(u)
\* An UPDATE of the row, if there still is one; it may raise, the database
\* being locked, and the thread dies.
Set(t, new, next) ==
  \/ /\ status' = IF Exists THEN new ELSE status
     /\ IF next = "idle" THEN Ends(t) ELSE Goto(t, next)
     /\ stranded' = FALSE
  \/ Ends(t) /\ stranded' = TRUE /\ UNCHANGED status
\* _cleanup_manual; without the records the confirmation means nothing, so that
\* the two removals are one step.
Cleanup == records' = {} /\ confirm' = FALSE

Init ==
  /\ status = "unborn"
  /\ records = {} /\ confirm = FALSE
  /\ view = {} /\ published = {}
  /\ job = [t \in Threads |-> Idle]
  /\ attempts = 0
  /\ overlapped = FALSE /\ stranded = FALSE /\ late = FALSE

-----------------------------------------------------------------------------
(* Requests *)

\* POST /certificates.
Create(t) ==
  /\ status = "unborn"
  /\ status' = "pending"
  /\ Begins(t)
  /\ UNCHANGED <<files, user, stranded, late>>

\* POST .../renew.
Renew(t) ==
  /\ Exists
  /\ Begins(t)
  /\ UNCHANGED <<status, files, user, stranded, late>>

\* DELETE leaves the files of a challenge.
Delete ==
  /\ Exists
  /\ status' = "deleted"
  /\ UNCHANGED <<files, user, job, attempts, history>>

\* get_pending_challenge.
Pending == IF confirm THEN {} ELSE records

\* GET .../challenge, every 4 seconds while the dialogue is open.
Show ==
  /\ status = "waiting_dns"
  /\ Pending # {}
  /\ view' = Pending
  /\ UNCHANGED <<status, files, published, job, attempts, history>>

\* External: the user publishes what is shown, at any later time.
Publish ==
  /\ published' = published \cup view
  /\ UNCHANGED <<status, files, view, job, attempts, history>>

\* POST .../confirm, when all that was shown is published.
Confirm ==
  /\ Exists
  /\ view # {} /\ view \subseteq published
  /\ confirm' = TRUE
  /\ view' = {}
  /\ late' = (late \/ ~\E t \in Threads : At(t, "wait") /\ <<job[t].no, job[t].domain>> \in view)
  /\ UNCHANGED <<status, records, published, job, attempts, overlapped, stranded>>

-----------------------------------------------------------------------------
(* _issue_manual *)

\* mutant: files of an earlier attempt stay
CleanNothing(t) ==
  /\ At(t, "clean")
  /\ Goto(t, "mark")
  /\ UNCHANGED <<status, files, user, attempts, history>>

\* issue() does nothing without a row, and reads the DNS settings, which may be
\* invalid.
Clean(t) ==
  /\ At(t, "clean")
  /\ \/ ~Exists /\ Ends(t) /\ UNCHANGED <<status, files, stranded, late>>
     \/ Exists /\ Set(t, "error", "idle") /\ UNCHANGED <<files, late>>
     \/ Exists /\ Cleanup /\ late' = FALSE /\ Goto(t, "mark") /\ UNCHANGED <<status, stranded>>
  /\ UNCHANGED <<user, attempts, overlapped>>

Mark(t) ==
  /\ At(t, "mark")
  /\ Set(t, "waiting_dns", "truncate")
  /\ UNCHANGED <<files, user, attempts, overlapped, late>>

\* open(records_file, "w"), and lego starts, if it is installed.
Truncate(t) ==
  /\ At(t, "truncate")
  /\ records' = {}
  /\ \/ \E asked \in SUBSET Domains :
          job' = [job EXCEPT ![t].at = "lego", ![t].asked = asked]
     \/ Fails(t)
  /\ UNCHANGED <<status, confirm, user, attempts, history>>

\* External: lego asks for a record of each domain the CA has no valid
\* authorization of; the hook appends it to the file and waits.
Present(t) ==
  /\ At(t, "lego")
  /\ \E d \in job[t].asked :
       /\ records' = records \cup {<<job[t].no, d>>}
       /\ job' = [job EXCEPT ![t].at = "wait", ![t].domain = d, ![t].asked = @ \ {d}]
  /\ UNCHANGED <<status, confirm, user, attempts, history>>

\* The confirmation file is there.
Release(t) ==
  /\ At(t, "wait")
  /\ confirm
  /\ job' = [job EXCEPT ![t].at = "lego", ![t].domain = NoDomain,
                        ![t].confirmed = Append(@, job[t].domain)]
  /\ UNCHANGED <<status, files, user, attempts, history>>

\* 1200 seconds have passed, which two hooks of one attempt cannot wait for.
GiveUp(t) ==
  /\ At(t, "wait")
  /\ ~confirm /\ ~job[t].gaveUp
  /\ job' = [job EXCEPT ![t].at = "lego", ![t].domain = NoDomain, ![t].gaveUp = TRUE]
  /\ UNCHANGED <<status, files, user, attempts, history>>

\* External: the CA finds each record that was asked for, or there is nothing
\* to renew; the certificate is stored.
Succeed(t) ==
  /\ At(t, "lego")
  /\ job[t].asked = {}
  /\ \A d \in Domains : <<job[t].no, d>> \in records => <<job[t].no, d>> \in published
  /\ Goto(t, "read")
  /\ UNCHANGED <<status, files, user, attempts, history>>

\* External: lego fails.
LegoFails(t) ==
  /\ At(t, "lego")
  /\ Fails(t)
  /\ UNCHANGED <<status, files, user, attempts, history>>

\* mutant: the hook and lego are waited for without a limit
WaitOn(t) ==
  /\ At(t, "lego") /\ FALSE
  /\ UNCHANGED vars

\* 1300 seconds have passed.
Kill(t) ==
  /\ job[t].at \in InLego
  /\ Fails(t)
  /\ UNCHANGED <<status, files, user, attempts, history>>

\* mutant: an attempt that fails leaves the status as it is
FailSilently(t) ==
  /\ At(t, "fail")
  /\ Goto(t, "discard")
  /\ UNCHANGED <<status, files, user, attempts, history>>

\* mutant: a status the interface does not know
FailUnknown(t) ==
  /\ At(t, "fail")
  /\ Set(t, "failed", "discard")
  /\ UNCHANGED <<files, user, attempts, overlapped, late>>

Fail(t) ==
  /\ At(t, "fail")
  /\ Set(t, "error", "discard")
  /\ UNCHANGED <<files, user, attempts, overlapped, late>>

Discard(t) ==
  /\ At(t, "discard")
  /\ Cleanup
  /\ Ends(t)
  /\ UNCHANGED <<status, user, attempts, history>>

\* It reads the expiry of the certificate and cleans up.
Read(t) ==
  /\ At(t, "read")
  /\ Cleanup
  /\ Goto(t, "activate")
  /\ UNCHANGED <<status, user, attempts, history>>

\* The delivery to the nodes comes after it, as in CertLifecycle.
Activate(t) ==
  /\ At(t, "activate")
  /\ Set(t, "active", "idle")
  /\ UNCHANGED <<files, user, attempts, overlapped, late>>

Restart ==
  /\ stranded' = (stranded \/ \E t \in Threads : Busy(t))
  /\ job' = [t \in Threads |-> Idle]
  /\ UNCHANGED <<status, files, user, attempts, overlapped, late>>

-----------------------------------------------------------------------------
Attempt(t) ==
  \/ Clean(t) \/ Mark(t) \/ Truncate(t) \/ Present(t) \/ Release(t) \/ GiveUp(t)
  \/ Succeed(t) \/ LegoFails(t) \/ Kill(t) \/ Fail(t) \/ Discard(t) \/ Read(t) \/ Activate(t)

Next ==
  \/ \E t \in Threads : Create(t) \/ Renew(t) \/ Attempt(t)
  \/ Delete \/ Show \/ Publish \/ Confirm \/ Restart

Spec == Init /\ [][Next]_vars

\* Threads run on and seconds pass; the user need not do anything.
FairSpec == Spec /\ \A t \in Threads : WF_vars(Attempt(t))

-----------------------------------------------------------------------------
(* Properties *)

TypeOK ==
  /\ status \in {"unborn", "pending", "waiting_dns", "active", "error", "deleted"}
  /\ records \subseteq Records /\ published \subseteq Records /\ view \subseteq Records
  /\ {confirm, overlapped, stranded, late} \subseteq BOOLEAN
  /\ job \in [Threads -> [at : Steps \cup {"idle"}, no : 0..MaxAttempts,
                          asked : SUBSET Domains, domain : Domains \cup {NoDomain},
                          confirmed : Seq(Domains), gaveUp : BOOLEAN]]
  /\ attempts \in 0..MaxAttempts

\* A certificate that waits for the user has a thread at work on it, unless one
\* died without an outcome: otherwise a confirmation would be answered
\* "Ausstellung läuft weiter" and nothing would.
WaitingMeansAtWork == status = "waiting_dns" /\ ~stranded => \E t \in Threads : Busy(t)

\* While an attempt is at work the records shown are its own, never left from
\* an earlier one that was cut off, unless another was under way when it began.
ShownIsAskedFor ==
  ~overlapped =>
    \A t \in Threads : job[t].at \notin {"idle", "clean"} =>
      \A r \in Pending : r[1] = job[t].no

\* The first hook of an attempt goes on with its record published: no
\* confirmation of an earlier attempt releases it.  Unless the user confirms
\* what is no longer asked for, or another attempt was under way when it began.
ReleasedWhenPublished ==
  ~overlapped /\ ~late =>
    \A t \in Threads :
      job[t].confirmed # <<>> => <<job[t].no, Head(job[t].confirmed)>> \in published

\* What README.md says: "der TXT-Record wird in der GUI angezeigt, du legst ihn
\* selbst in deiner DNS-Zone an und bestätigst per Klick".  The hook of every
\* domain goes on with its record published, with the same exceptions.
EachRecordConfirmed ==
  ~overlapped /\ ~late =>
    \A t \in Threads : \A i \in DOMAIN job[t].confirmed :
      <<job[t].no, job[t].confirmed[i]>> \in published

\* Every attempt ends, whatever lego and the user do.
AttemptsEnd == \A t \in Threads : Busy(t) ~> ~Busy(t)
=============================================================================
