---------------------------- MODULE CertLifecycle ----------------------------
(***************************************************************************)
(* One certificate from an ACME provider (not the manual one), from the    *)
(* POST that creates it to its deletion: the row of table certificates,    *)
(* the files lego keeps for it, the pair installed on the nodes, and who   *)
(* works on them: background threads of issue(), requests, and the renewal *)
(* loop (app/services/certs.py, app/routers/certs.py).                     *)
(*                                                                         *)
(* Certificates are counted by generation; generation g has less than 30   *)
(* days left as soon as g <= aged.  Nothing keeps two threads from issuing *)
(* one certificate at the same time.  A delivery writes three files to a   *)
(* node, each one atomically, and may break off before any of them.  To    *)
(* give up on an upload (SSH timeout, broken connection) does not stop it  *)
(* on the node, where it may still take effect.                            *)
(*                                                                         *)
(* Assumed of lego, which is external: it stores certificate and key in    *)
(* one step, and is not killed (after 900 seconds) between its two writes. *)
(***************************************************************************)
EXTENDS Naturals

CONSTANTS
  Threads,      \* threads of requests and issue_background
  Loop,         \* the thread the renewal loop waits for
  Trouble,      \* what may go wrong: a subset of Troubles
  Slots,        \* bound: for uploads that outlive their delivery, at the same time
  MaxGen,       \* bound: generations told apart; the last one never ages
  MaxRestarts   \* bound: restarts of the application

Troubles == {"settings",   \* invalid DNS or provider settings
             "lego",       \* lego refused, timed out or missing
             "database",   \* a statement raises, the database being locked
             "delivery"}   \* a node cannot be reached or written to

ASSUME LifecycleAssumption ==
  /\ Loop \notin Threads
  /\ Trouble \subseteq Troubles
  /\ MaxGen \in Nat \ {0}
  /\ MaxRestarts \in Nat

VARIABLES
  status,      \* column status, or "unborn" / "deleted": there is no row
  auto,        \* column auto_renew
  recorded,    \* generation whose expiry is in column not_after, 0 if empty
  disk,        \* generation in ACME_DIR/certificates, 0 without files
  gen,         \* newest generation the CA has issued
  aged,        \* generations up to this one are due
  node,        \* generations of the .crt and .key there, and of both parts of the .pem
  late,        \* late[s]: an upload on the node that has outlived its delivery
  loop,        \* where the renewal loop is
  snapshot,    \* not_after in the row it selected
  job,         \* job[t]: what thread t is doing
  restarts,    \* bounded by MaxRestarts
  overlapped,  \* history variable: another thread, or such an upload, was at work
               \* when the last thread began
  stranded,    \* history variable: a thread died before it wrote its outcome, and
               \* none has written one since
  halfDeleted, \* history variable: a deletion stopped after the files, and none
               \* have been stored since
  brokenOff    \* history variable: no delivery has completed alone since one began

row == <<status, auto, recorded>>
files == <<disk, gen>>
renewal == <<loop, snapshot>>
history == <<overlapped, stranded, halfDeleted, brokenOff>>
vars == <<row, files, aged, node, late, renewal, job, restarts, history>>

-----------------------------------------------------------------------------
All == Threads \cup {Loop}
Gens == 0..MaxGen
Issuing == {"start", "mark", "lego", "read", "activate", "fail"}
Delivering == {"read_crt", "read_key", "put_crt", "put_key", "put_pem"}
Deleting == {"drop_files", "drop_row"}
Uploads == {"put_crt", "put_key", "put_pem"}
Gone == [at |-> "gone", crt |-> 0, key |-> 0]

Exists == status \notin {"unborn", "deleted"}
Idle == [at |-> "idle", renew |-> FALSE, read |-> 0, crt |-> 0, key |-> 0]
Busy(t) == job[t].at # "idle"
Lives(s) == late[s].at # "gone"
At(t, step) == job[t].at = step
Goto(t, step) == job' = [job EXCEPT ![t].at = step]
Ends(t) == job' = [job EXCEPT ![t] = Idle]
Begins(t, step, renew) ==
  /\ ~Busy(t)
  /\ job' = [job EXCEPT ![t] = [Idle EXCEPT !.at = step, !.renew = renew]]
  /\ overlapped' = ((\E u \in All \ {t} : Busy(u)) \/ \E s \in Slots : Lives(s))
Locked == "database" \in Trouble
\* Before 30 days are left lego renew does nothing; the last generation
\* stands for all later ones.
NextGen == IF gen < MaxGen THEN gen + 1 ELSE gen
Current(t) == job[t].renew /\ disk > aged

-----------------------------------------------------------------------------
(* Requests *)

Init ==
  /\ status = "unborn"
  /\ auto \in BOOLEAN
  /\ recorded = 0 /\ disk = 0 /\ gen = 0 /\ aged = 0
  /\ node = [crt |-> 0, key |-> 0, pem |-> [crt |-> 0, key |-> 0]]
  /\ late = [s \in Slots |-> Gone]
  /\ loop = "asleep" /\ snapshot = 0
  /\ job = [t \in All |-> Idle]
  /\ restarts = 0
  /\ overlapped = FALSE /\ stranded = FALSE /\ halfDeleted = FALSE /\ brokenOff = FALSE

\* POST /certificates; the audit row between INSERT and thread may fail.
Create(t) ==
  /\ status = "unborn"
  /\ status' = "pending"
  /\ \/ Begins(t, "start", FALSE) /\ UNCHANGED stranded
     \/ Locked /\ ~Busy(t) /\ stranded' = TRUE /\ UNCHANGED <<job, overlapped>>
  /\ UNCHANGED <<auto, recorded, files, aged, node, late, renewal, restarts, halfDeleted, brokenOff>>

\* POST .../renew and .../deploy, and DELETE.
Request(t) ==
  /\ Exists
  /\ \/ Begins(t, "start", TRUE)
     \/ Begins(t, "read_crt", FALSE)
     \/ Begins(t, "drop_files", FALSE)
  /\ UNCHANGED <<row, files, aged, node, late, renewal, restarts, stranded, halfDeleted, brokenOff>>

\* PUT .../auto-renew.
SetAutoRenew ==
  /\ Exists
  /\ auto' = ~auto
  /\ UNCHANGED <<status, recorded, files, aged, node, late, renewal, job, restarts, history>>

-----------------------------------------------------------------------------
(* issue() *)

\* It reads the row and the DNS settings.
Start(t) ==
  /\ At(t, "start")
  /\ \/ ~Exists /\ Ends(t)
     \/ Exists /\ Goto(t, "mark")
     \/ Exists /\ "settings" \in Trouble /\ Goto(t, "fail")
  /\ UNCHANGED <<row, files, aged, node, late, renewal, restarts, history>>

\* An UPDATE, of no row if it is gone by now; if it raises, the thread dies.
Set(t, new, next) ==
  \/ /\ status' = IF Exists THEN new ELSE status
     /\ IF next = "idle" THEN Ends(t) ELSE Goto(t, next)
     /\ stranded' = FALSE
  \/ /\ Locked
     /\ Ends(t)
     /\ stranded' = TRUE
     /\ UNCHANGED status

Mark(t) ==
  /\ At(t, "mark")
  /\ Set(t, "issuing", "lego")
  /\ UNCHANGED <<auto, recorded, files, aged, node, late, renewal, restarts, overlapped, halfDeleted, brokenOff>>

Stores == gen' = NextGen /\ disk' = NextGen /\ halfDeleted' = FALSE

LegoSucceeds(t) ==
  /\ At(t, "lego")
  /\ IF Current(t) THEN UNCHANGED <<files, halfDeleted>> ELSE Stores
  /\ Goto(t, "read")
  /\ UNCHANGED <<row, aged, node, late, renewal, restarts, overlapped, stranded, brokenOff>>

\* It is refused, or killed after 900 seconds, perhaps with the files stored.
LegoFails(t) ==
  /\ "lego" \in Trouble
  /\ At(t, "lego")
  /\ UNCHANGED <<files, halfDeleted>> \/ (~Current(t) /\ Stores)
  /\ Goto(t, "fail")
  /\ UNCHANGED <<row, aged, node, late, renewal, restarts, overlapped, stranded, brokenOff>>

\* Provider settings come as any JSON: values that are no strings raise when
\* lego's environment is made of them, and the thread dies.
SettingsRaise(t) ==
  /\ "settings" \in Trouble
  /\ At(t, "lego")
  /\ Ends(t)
  /\ stranded' = TRUE
  /\ UNCHANGED <<row, files, aged, node, late, renewal, restarts, overlapped, halfDeleted, brokenOff>>

\* not_after comes from the file, whoever wrote it last.
Read(t) ==
  /\ At(t, "read")
  /\ job' = [job EXCEPT ![t].at = "activate", ![t].read = disk]
  /\ UNCHANGED <<row, files, aged, node, late, renewal, restarts, history>>

Activate(t) ==
  /\ At(t, "activate")
  /\ Set(t, "active", "read_crt")
  /\ recorded' = IF Exists /\ job'[t].at = "read_crt" THEN job[t].read ELSE recorded
  /\ UNCHANGED <<auto, files, aged, node, late, renewal, restarts, overlapped, halfDeleted, brokenOff>>

\* mutant: what a failed issuance may have left is cleaned up
FailRemovingFiles(t) ==
  /\ At(t, "fail")
  /\ Set(t, "error", "idle")
  /\ disk' = 0
  /\ UNCHANGED <<auto, recorded, gen, aged, node, late, renewal, restarts, overlapped, halfDeleted, brokenOff>>

\* mutant: an error is only logged
FailSilently(t) ==
  /\ At(t, "fail")
  /\ Ends(t)
  /\ UNCHANGED <<row, files, aged, node, late, renewal, restarts, history>>

Fail(t) ==
  /\ At(t, "fail")
  /\ Set(t, "error", "idle")
  /\ UNCHANGED <<auto, recorded, files, aged, node, late, renewal, restarts, overlapped, halfDeleted, brokenOff>>

-----------------------------------------------------------------------------
(* deploy_cert(): it reads the certificate, then the key, and writes them to *)
(* the nodes, the .pem with both of them last.                               *)

ReadCrt(t) ==
  /\ At(t, "read_crt")
  /\ IF Exists /\ disk # 0
       THEN job' = [job EXCEPT ![t].at = "read_key", ![t].crt = disk]
       ELSE Ends(t)
  /\ UNCHANGED <<row, files, aged, node, late, renewal, restarts, history>>

\* mutant: the key is remembered from the delivery before
ReadKeyCached(t) ==
  /\ At(t, "read_key")
  /\ LET known == IF node.key # 0 THEN node.key ELSE disk
     IN IF known # 0
          THEN job' = [job EXCEPT ![t].at = "put_crt", ![t].key = known]
          ELSE Ends(t)
  /\ UNCHANGED <<row, files, aged, node, late, renewal, restarts, history>>

ReadKey(t) ==
  /\ At(t, "read_key")
  /\ IF disk # 0
       THEN job' = [job EXCEPT ![t].at = "put_crt", ![t].key = disk]
       ELSE Ends(t)
  /\ UNCHANGED <<row, files, aged, node, late, renewal, restarts, history>>

PutCrt(t) ==
  /\ At(t, "put_crt")
  /\ node' = [node EXCEPT !.crt = job[t].crt]
  /\ Goto(t, "put_key")
  /\ brokenOff' = TRUE
  /\ UNCHANGED <<row, files, aged, late, renewal, restarts, overlapped, stranded, halfDeleted>>

\* mutant: a key that is there is not sent again
PutKeyOnce(t) ==
  /\ At(t, "put_key")
  /\ node' = [node EXCEPT !.key = IF @ = 0 THEN job[t].key ELSE @]
  /\ Goto(t, "put_pem")
  /\ UNCHANGED <<row, files, aged, late, renewal, restarts, history>>

PutKey(t) ==
  /\ At(t, "put_key")
  /\ node' = [node EXCEPT !.key = job[t].key]
  /\ Goto(t, "put_pem")
  /\ UNCHANGED <<row, files, aged, late, renewal, restarts, history>>

\* The reload of HAProxy after it changes nothing here.
PutPem(t) ==
  /\ At(t, "put_pem")
  /\ node' = [node EXCEPT !.pem = [crt |-> job[t].crt, key |-> job[t].key]]
  /\ Ends(t)
  /\ brokenOff' = overlapped
  /\ UNCHANGED <<row, files, aged, late, renewal, restarts, overlapped, stranded, halfDeleted>>

\* Any write may fail, which ends it; issue() does not look at the results.
BreaksOff(t) ==
  /\ "delivery" \in Trouble
  /\ job[t].at \in Uploads
  /\ Ends(t)
  /\ UNCHANGED <<row, files, aged, node, late, renewal, restarts, history>>

\* Or it is given up, while the script goes on with what it has received.
Lost(t) ==
  /\ "delivery" \in Trouble
  /\ job[t].at \in Uploads
  /\ \E s \in Slots :
       /\ ~Lives(s)
       /\ late' = [late EXCEPT ![s] = [at |-> job[t].at, crt |-> job[t].crt, key |-> job[t].key]]
  /\ Ends(t)
  /\ brokenOff' = TRUE
  /\ UNCHANGED <<row, files, aged, node, renewal, restarts, overlapped, stranded, halfDeleted>>

\* It gets as far as mv, or it does not.
Lands(s) ==
  /\ \/ late[s].at = "put_crt" /\ node' = [node EXCEPT !.crt = late[s].crt]
     \/ late[s].at = "put_key" /\ node' = [node EXCEPT !.key = late[s].key]
     \/ /\ late[s].at = "put_pem"
        /\ node' = [node EXCEPT !.pem = [crt |-> late[s].crt, key |-> late[s].key]]
  /\ late' = [late EXCEPT ![s] = Gone]
  /\ UNCHANGED <<row, files, aged, renewal, job, restarts, history>>

Dies(s) ==
  /\ Lives(s)
  /\ late' = [late EXCEPT ![s] = Gone]
  /\ UNCHANGED <<row, files, aged, node, renewal, job, restarts, history>>

-----------------------------------------------------------------------------
(* delete_cert(): the files first, then the audit row and the row itself *)

DropFiles(t) ==
  /\ At(t, "drop_files")
  /\ disk' = 0
  /\ Goto(t, "drop_row")
  /\ UNCHANGED <<row, gen, aged, node, late, renewal, restarts, history>>

DropRow(t) ==
  /\ At(t, "drop_row")
  /\ \/ /\ status' = IF Exists THEN "deleted" ELSE status
        /\ recorded' = 0
        /\ UNCHANGED halfDeleted
     \/ /\ Locked
        /\ halfDeleted' = TRUE
        /\ UNCHANGED <<status, recorded>>
  /\ Ends(t)
  /\ UNCHANGED <<auto, files, aged, node, late, renewal, restarts, overlapped, stranded, brokenOff>>

-----------------------------------------------------------------------------
(* renewal_loop(): it selects rows, looks at each one's not_after, and waits *)
(* for issue(); whatever that raises is swallowed.                           *)

LoopScan ==
  /\ loop = "asleep"
  /\ status = "active" /\ auto
  /\ loop' = "picked"
  /\ snapshot' = recorded
  /\ UNCHANGED <<row, files, aged, node, late, job, restarts, history>>

\* mutant: return instead of continue
LoopCheckReturning ==
  /\ loop = "picked"
  /\ IF snapshot \in 1..aged
       THEN Begins(Loop, "start", TRUE) /\ loop' = "renewing"
       ELSE loop' = "ended" /\ UNCHANGED <<job, overlapped>>
  /\ UNCHANGED <<row, files, aged, node, late, snapshot, restarts, stranded, halfDeleted, brokenOff>>

LoopCheck ==
  /\ loop = "picked"
  /\ IF snapshot \in 1..aged
       THEN Begins(Loop, "start", TRUE) /\ loop' = "renewing"
       ELSE loop' = "asleep" /\ UNCHANGED <<job, overlapped>>
  /\ UNCHANGED <<row, files, aged, node, late, snapshot, restarts, stranded, halfDeleted, brokenOff>>

LoopDone ==
  /\ loop = "renewing"
  /\ ~Busy(Loop)
  /\ loop' = "asleep"
  /\ UNCHANGED <<row, files, aged, node, late, snapshot, job, restarts, history>>

-----------------------------------------------------------------------------
(* Time, and the death of the application: its threads are daemons, and      *)
(* nothing looks after their certificates at the next start.                 *)

Age ==
  /\ aged < gen /\ aged + 1 < MaxGen
  /\ aged' = aged + 1
  /\ UNCHANGED <<row, files, node, late, renewal, job, restarts, history>>

Restart ==
  /\ restarts < MaxRestarts
  /\ restarts' = restarts + 1
  /\ job' = [t \in All |-> Idle]
  /\ loop' = "asleep"
  /\ stranded' = (stranded \/ \E t \in All : job[t].at \in Issuing)
  /\ halfDeleted' = (halfDeleted \/ \E t \in All : At(t, "drop_row"))
  /\ UNCHANGED <<row, files, aged, node, late, snapshot, overlapped, brokenOff>>

Step(t) ==
  \/ Start(t) \/ Mark(t) \/ LegoSucceeds(t) \/ LegoFails(t) \/ SettingsRaise(t)
  \/ Read(t) \/ Activate(t) \/ Fail(t)
  \/ ReadCrt(t) \/ ReadKey(t) \/ PutCrt(t) \/ PutKey(t) \/ PutPem(t) \/ BreaksOff(t) \/ Lost(t)
  \/ DropFiles(t) \/ DropRow(t)

Next ==
  \/ \E t \in Threads : Create(t) \/ Request(t)
  \/ SetAutoRenew
  \/ \E t \in All : Step(t)
  \/ \E s \in Slots : Lands(s) \/ Dies(s)
  \/ LoopScan \/ LoopCheck \/ LoopDone
  \/ Age \/ Restart

Spec == Init /\ [][Next]_vars

\* Threads run on (lego has a timeout, so have SSH commands and SQLite), the
\* loop wakes up every six hours, and lego does not fail for ever.
FairSpec ==
  /\ Spec
  /\ \A t \in All : WF_vars(Step(t)) /\ SF_vars(LegoSucceeds(t))
  /\ WF_vars(LoopScan) /\ WF_vars(LoopCheck) /\ WF_vars(LoopDone)

-----------------------------------------------------------------------------
(* Properties *)

TypeOK ==
  /\ status \in {"unborn", "pending", "issuing", "active", "error", "deleted"}
  /\ auto \in BOOLEAN
  /\ {recorded, disk, gen, aged, snapshot} \subseteq Gens
  /\ node \in [crt : Gens, key : Gens, pem : [crt : Gens, key : Gens]]
  /\ late \in [Slots -> [at : {"gone"} \cup Uploads, crt : Gens, key : Gens]]
  /\ loop \in {"asleep", "picked", "renewing"}
  /\ job \in [All -> [at : {"idle"} \cup Issuing \cup Delivering \cup Deleting,
                      renew : BOOLEAN, read : Gens, crt : Gens, key : Gens]]
  /\ restarts \in 0..MaxRestarts
  /\ {overlapped, stranded, halfDeleted, brokenOff} \subseteq BOOLEAN

\* An active certificate has its files, and none older than the expiry in its
\* row, or the loop would sleep past it: however issuing threads overlap and
\* fail, unless a deletion has taken the files and no issuance stored new ones.
ActiveHasFiles ==
  /\ status = "active" /\ recorded # 0
  /\ ~halfDeleted /\ \A t \in All : ~At(t, "drop_row")
  => disk >= recorded

\* A certificate shown as being issued has a thread that will write how it
\* ended, unless one died (restart, locked database, settings that raise) and none
\* has written how it ended since: no thread that ends writes over the mark of another and leaves
\* it standing.
IssuingMeansAtWork ==
  ~stranded =>
    /\ status = "issuing" => \E t \in All : job[t].at \in {"lego", "read", "activate", "fail"}
    /\ status = "pending" => \E t \in All : job[t].at \in {"start", "mark", "fail"}

\* A node that has got a whole delivery, by a thread that was alone, since the
\* last one began has a certificate with its own key, in all three files;
\* whatever deliveries have overlapped or broken off before, or were given up
\* and done all the same.
NodeHasPair ==
  ~brokenOff =>
    /\ node.crt = node.key
    /\ node.pem = [crt |-> node.crt, key |-> node.crt]

\* deploy.py: "PEM zuletzt schreiben, damit bestehende Konfigurationen weiter
\* funktionieren": whatever deliveries have broken off or overlapped before, a
\* thread that is alone, and an upload it has given up, leave the .pem as it is
\* or replace it by a pair, and never by an older one.
PemStaysPair ==
  [][~overlapped /\ node'.pem # node.pem =>
       node'.pem.crt = node'.pem.key /\ node'.pem.crt >= node.pem.crt]_vars

Due == status = "active" /\ auto /\ recorded \in 1..aged

\* The renewal loop takes up every certificate that is due, whatever happened
\* in the round before: failures, deletions, restarts.
RenewalTakenUp == Due ~> ~Due \/ At(Loop, "start")

\* README.md: "Auto-Renew erneuert Zertifikate ab < 30 Tagen Restlaufzeit".
AutoRenewRenews ==
  LET overdue == Exists /\ auto /\ recorded \in 1..aged IN overdue ~> ~overdue
=============================================================================
