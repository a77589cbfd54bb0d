------------------------------- MODULE Deploy -------------------------------
(***************************************************************************)
(* deploy_node (app/services/deploy.py) on ONE node: the configuration     *)
(* file, its fixed-name companions <path>.new and <path>.bak, the HAProxy  *)
(* process, and the requests that work on them.                            *)
(*                                                                         *)
(* Every request runs in a worker thread of its own and nothing serialises *)
(* two requests for one node, so each command a request sends to the node  *)
(* is a step of its own.  A remote command may fail, or its answer may get *)
(* lost (SSH timeout, broken connection): the exception then ends          *)
(* deploy_node in its outermost handler, and the process on the node is    *)
(* left to itself: it may do its work later, in part or never, also while  *)
(* the next request is under way.                                          *)
(*                                                                         *)
(* The certificates of the cluster are written to the node before the      *)
(* configuration is uploaded, by every request; module CertLifecycle looks *)
(* at the files of one of them.                                            *)
(***************************************************************************)
EXTENDS Naturals, Sequences

CONSTANTS
  Jobs,      \* worker threads that can run deploy_node on this node
  Configs,   \* configuration texts
  Valid,     \* those that haproxy -c accepts
  Bundles,   \* what the certificate files of the cluster can be
  NoFile,    \* "there is no such file" / "HAProxy is not running"
  Partial,   \* a file whose writer broke off half way; some files of a bundle
  Keep,      \* versions kept per node (30 in the code)
  Slots,     \* bound: for processes that outlive their request, at the same time
  MaxRows    \* bound: at this history length no further prune is lost

ASSUME JobsAssumption == Jobs # {}
ASSUME ConfigsAssumption ==
  /\ Valid \subseteq Configs
  /\ NoFile \notin Configs
  /\ Partial \notin Configs \cup Bundles \cup {NoFile}
  /\ Bundles # {}
ASSUME KeepAssumption == Keep \in Nat \ {0} /\ MaxRows \in Nat

VARIABLES
  kind,        \* how the node is reached and reloaded, fixed per node
  live,        \* content of config_path
  new,         \* content of config_path.new
  bak,         \* content of config_path.bak
  certs,       \* the certificate files in cert_dir
  running,     \* the configuration the HAProxy workers run
  versions,    \* config_versions rows of the node, oldest first
  orphan,      \* orphan[s]: a process of the node that has outlived its request
  pc,          \* pc[j]: the step job j executes next
  mode,        \* mode[j]: what j was asked for
  cfg,         \* cfg[j]: the text j deploys
  latest,      \* history variable: the job that started last
  before,      \* history variable: live, running and suspect when it started,
               \* if it had the node to itself then
  overlapped,  \* history variable: another job, or an orphan, was under way when
               \* it started, or another job has started since
  torn,        \* history variable: its copy onto config_path broke half way
  suspect,     \* history variable: overlapping jobs or a broken copy have worked
               \* on config_path, and no job on its own has replaced it since
  strays       \* history variable: texts recorded by overlapping jobs

files == <<live, new, bak>>
jobs == <<pc, mode, cfg>>
request == <<latest, before, overlapped>>
history == <<request, torn, suspect, strays>>
vars == <<kind, certs, files, running, versions, orphan, jobs, history>>

-----------------------------------------------------------------------------
(* Nodes, files and jobs *)

Kinds == {"sync",     \* remote; the reload command reports the outcome
          "signal",   \* remote; reload_cmd sigusr2: the signal is sent, no more
          "local"}    \* HAProxy in the container of the application
Modes == {"deploy", "validate", "restore"}
File == Configs \cup {NoFile, Partial}
Sound == Valid \cup {NoFile}

Resting == {"idle", "ok", "unrecorded", "failed"}
Steps == {"prepare", "upload", "check", "discard_ok", "discard_failed",
          "backup", "replace", "reload", "restore", "reload_back",
          "record", "prune"}
\* The steps up to the point where config_path is first touched.
Early == {"prepare", "upload", "check", "discard_ok", "discard_failed", "backup"}

\* The steps that execute a command on the node, `haproxy -c` aside, which
\* changes nothing there.
Commands == {"prepare", "upload", "discard_ok", "discard_failed",
             "backup", "replace", "reload", "restore", "reload_back"}

Remote == kind # "local"
Active(j) == pc[j] \notin Resting
\* What a request finds that is not on its own.
Unknown == [live |-> NoFile, running |-> NoFile, suspect |-> TRUE]
\* A process of the node: its command, and what an upload or an rm leaves in .new.
Gone == [at |-> "gone"]
Orphan == {Gone} \cup [at : Commands, text : Configs \cup {NoFile}]
Lives(s) == orphan[s] # Gone
Goto(j, from, to) == pc[j] = from /\ pc' = [pc EXCEPT ![j] = to]
\* What HAProxy may run after it was told to load config_path: it refuses a
\* file that is not valid, and the old workers then stay.
Loaded == IF live \in Valid THEN {running, live} ELSE {running}

-----------------------------------------------------------------------------
Init ==
  /\ kind \in Kinds
  /\ live \in Sound
  /\ running = live
  /\ new = NoFile
  /\ certs \in Bundles \cup {NoFile}
  /\ bak \in Sound
  /\ versions = <<>>
  /\ orphan = [s \in Slots |-> Gone]
  /\ pc = [j \in Jobs |-> "idle"]
  /\ mode = [j \in Jobs |-> "deploy"]
  /\ cfg \in [Jobs -> Configs]
  /\ latest \in Jobs
  /\ before = [live |-> live, running |-> running, suspect |-> FALSE]
  /\ overlapped = FALSE
  /\ torn = FALSE
  /\ suspect = FALSE
  /\ strays = {}

\* POST /clusters/{id}/deploy (with or without validate_only) and
\* POST /versions/{id}/rollback, which passes the text of an existing row.
Request(j) ==
  /\ ~Active(j)
  /\ \E m \in Modes :
       /\ mode' = [mode EXCEPT ![j] = m]
       /\ IF m = "restore"
            THEN \E i \in 1..Len(versions) : cfg' = [cfg EXCEPT ![j] = versions[i]]
            ELSE UNCHANGED cfg
  /\ pc' = [pc EXCEPT ![j] = "prepare"]
  /\ latest' = j
  /\ overlapped' = ((\E k \in Jobs \ {j} : Active(k)) \/ \E s \in Slots : Lives(s))
  /\ before' = IF overlapped' THEN Unknown
               ELSE [live |-> live, running |-> running, suspect |-> suspect]
  /\ torn' = FALSE
  /\ suspect' = (suspect \/ overlapped')
  /\ UNCHANGED <<kind, certs, files, running, versions, orphan, strays>>

\* mutant: a text that could not be generated is deployed as an empty one
PrepareSwallowingErrors(j) ==
  /\ Goto(j, "prepare", "upload")
  /\ \E c \in Configs \cup {NoFile} : cfg' = [cfg EXCEPT ![j] = c]
  /\ UNCHANGED <<kind, certs, files, running, versions, orphan, mode, history>>

\* The text to deploy, from the database as it is now unless it was given;
\* reading the certificates and installing them, file by file, whatever the
\* request is for.  Any of it may raise.
Prepare(j) ==
  /\ \/ /\ Goto(j, "prepare", "upload")
        /\ certs' \in Bundles
        /\ IF mode[j] = "restore"
             THEN UNCHANGED cfg
             ELSE \E c \in Configs : cfg' = [cfg EXCEPT ![j] = c]
     \/ /\ Goto(j, "prepare", "failed")
        /\ certs' \in Bundles \cup {certs, Partial}
        /\ UNCHANGED cfg
  /\ UNCHANGED <<kind, files, running, versions, orphan, mode, history>>

\* mutant: the upload goes to config_path itself
UploadInPlace(j) ==
  /\ Goto(j, "upload", "check") /\ new' = cfg[j] /\ live' = cfg[j]
  /\ UNCHANGED <<kind, certs, bak, running, versions, orphan, mode, cfg, history>>

\* ssh_write replaces the remote file at once or not at all; the local
\* open(..., "w") truncates first.
Upload(j) ==
  /\ \/ Goto(j, "upload", "check") /\ new' = cfg[j]
     \/ /\ Goto(j, "upload", "failed")
        /\ new' \in IF Remote THEN {new} ELSE {new, Partial}
  /\ UNCHANGED <<kind, certs, live, bak, running, versions, orphan, mode, cfg, history>>

\* mutant: the validate_only return is missing
CheckIgnoringMode(j) ==
  /\ \/ new \in Valid /\ Goto(j, "check", "backup")
     \/ Goto(j, "check", "discard_failed")
  /\ UNCHANGED <<kind, certs, files, running, versions, orphan, mode, cfg, history>>

\* mutant: the return code of haproxy -c is not looked at
CheckIgnoringResult(j) ==
  /\ Goto(j, "check", IF mode[j] = "validate" THEN "discard_ok" ELSE "backup")
  /\ UNCHANGED <<kind, certs, files, running, versions, orphan, mode, cfg, history>>

\* haproxy -c -f <path>.new: it accepts valid files only (and may refuse one,
\* a certificate file can be missing); a timeout leaves the file behind.
Check(j) ==
  /\ \/ /\ new \in Valid
        /\ Goto(j, "check", IF mode[j] = "validate" THEN "discard_ok" ELSE "backup")
     \/ Goto(j, "check", "discard_failed")
     \/ Goto(j, "check", "failed")
  /\ UNCHANGED <<kind, certs, files, running, versions, orphan, mode, cfg, history>>

\* rm -f of <path>.new after a refusal or a mere validation.  Locally
\* os.remove raises if the file is gone.
Discard(j) ==
  /\ \/ /\ Remote \/ new # NoFile
        /\ new' = NoFile
        /\ \/ Goto(j, "discard_ok", "ok")
           \/ Goto(j, "discard_failed", "failed")
     \/ /\ Goto(j, "discard_ok", "failed") \/ Goto(j, "discard_failed", "failed")
        /\ UNCHANGED new
  /\ UNCHANGED <<kind, certs, live, bak, running, versions, orphan, mode, cfg, history>>

-----------------------------------------------------------------------------
(* Activation: first <path>.bak, then <path>.  The remote shell runs both   *)
(* commands in one call, two processes all the same.                        *)

BackupOnlyIfPresent == IF live = NoFile THEN bak ELSE live   \* mutant: no rm -f
\* The backup after the step: a copy, or none if there is nothing to copy.
BackupContent == live

Backup(j) ==
  /\ \/ /\ Remote \/ live # NoFile
        /\ Goto(j, "backup", "replace")
        /\ bak' = BackupContent
     \/ Goto(j, "backup", "failed") /\ bak' \in {bak, Partial}
  /\ UNCHANGED <<kind, certs, live, new, running, versions, orphan, mode, cfg, history>>

\* mutant: config_path is moved out of the way before the new file is moved in
ReplaceByMovingAway(j) ==
  /\ \/ /\ Goto(j, "replace", "reload") /\ live' = new /\ new' = NoFile
        /\ suspect' = overlapped
     \/ Goto(j, "replace", "failed") /\ live' = NoFile /\ UNCHANGED <<new, suspect>>
  /\ UNCHANGED <<kind, certs, bak, running, versions, orphan, mode, cfg, request, torn, strays>>

MovedIn == new # NoFile /\ live' = new /\ new' = NoFile /\ suspect' = overlapped

Replace(j) ==
  /\ \/ Goto(j, "replace", "reload") /\ MovedIn
     \/ Goto(j, "replace", "failed") /\ UNCHANGED <<live, new, suspect>>
  /\ UNCHANGED <<kind, certs, bak, running, versions, orphan, mode, cfg, request, torn, strays>>

\* mutant: the result of reload_node is not looked at
ReloadIgnoringResult(j) ==
  /\ \/ Goto(j, "reload", "record") /\ running' \in Loaded
     \/ Goto(j, "reload", "failed") /\ UNCHANGED running
  /\ UNCHANGED <<kind, certs, files, versions, orphan, mode, cfg, history>>

\* reload_node and the branch on its result.  A reload command that reports
\* success has loaded the file; SIGUSR2 has only been delivered.  Only a
\* command that ran and failed is followed by the rollback; an exception (a
\* lost answer; locally every error) is not.
Reload(j) ==
  /\ \/ /\ Goto(j, "reload", "record")
        /\ running' \in IF kind = "sync" THEN Loaded \cap {live} ELSE Loaded
     \/ /\ Remote
        /\ Goto(j, "reload", "restore")
        /\ UNCHANGED running
     \/ /\ Goto(j, "reload", "failed")
        /\ UNCHANGED running
  /\ UNCHANGED <<kind, certs, files, versions, orphan, mode, cfg, history>>

\* _rollback_remote: cp of the backup over config_path, which is no mv: it can
\* break off half way and leave neither text.
CopiedBack ==
  /\ bak # NoFile
  /\ live' = bak
  /\ suspect' = before.suspect
  /\ UNCHANGED torn
CopyBroken == bak # NoFile /\ live' = Partial /\ torn' = TRUE /\ suspect' = TRUE

Restore(j) ==
  /\ \/ Goto(j, "restore", "reload_back") /\ CopiedBack
     \/ Goto(j, "restore", "failed") /\ CopyBroken
     \/ Goto(j, "restore", "failed") /\ UNCHANGED <<live, torn, suspect>>
  /\ UNCHANGED <<kind, certs, new, bak, running, versions, orphan, mode, cfg, request, strays>>

\* mutant: a rollback whose reload fails is tried again, for ever
ReloadBackRetrying(j) ==
  /\ Goto(j, "reload_back", "restore") \/ Goto(j, "reload_back", "failed")
  /\ running' \in Loaded
  /\ UNCHANGED <<kind, certs, files, versions, orphan, mode, cfg, history>>

\* Its reload; whatever comes of it, the request has failed.
ReloadBack(j) ==
  /\ Goto(j, "reload_back", "failed")
  /\ running' \in Loaded
  /\ UNCHANGED <<kind, certs, files, versions, orphan, mode, cfg, history>>

-----------------------------------------------------------------------------
(* ok(): the history row and the prune are two commits, and an error in     *)
(* either one is swallowed.                                                 *)

KeepOldest(rows) == SubSeq(rows, 1, IF Len(rows) < Keep THEN Len(rows) ELSE Keep)   \* mutant
KeepNewest(rows) == SubSeq(rows, IF Len(rows) < Keep THEN 1 ELSE Len(rows) - Keep + 1, Len(rows))

Record(j) ==
  /\ \/ /\ Goto(j, "record", "prune")
        /\ versions' = Append(versions, cfg[j])
        /\ strays' = IF overlapped THEN strays \cup {cfg[j]} ELSE strays
     \/ Goto(j, "record", "unrecorded") /\ UNCHANGED <<versions, strays>>
  /\ UNCHANGED <<kind, certs, files, running, orphan, mode, cfg, request, torn, suspect>>

Prune(j) ==
  /\ Goto(j, "prune", "ok")
  /\ \/ versions' = KeepNewest(versions)
     \/ Len(versions) < MaxRows /\ UNCHANGED versions
  /\ UNCHANGED <<kind, certs, files, running, orphan, mode, cfg, history>>

-----------------------------------------------------------------------------
(* Processes of the node that outlive their request                         *)

\* The answer to a command does not come (the timer of _exec_ssh closes the
\* connection, or it breaks): an exception, wherever deploy_node is.  Nothing
\* stops the process on the node.
Lost(j) ==
  /\ Remote
  /\ pc[j] \in Commands
  /\ \E s \in Slots :
       /\ ~Lives(s)
       /\ orphan' = [orphan EXCEPT ![s] =
            [at |-> pc[j], text |-> IF pc[j] = "upload" THEN cfg[j] ELSE NoFile]]
  /\ Goto(j, pc[j], "failed")
  /\ UNCHANGED <<kind, certs, files, running, versions, mode, cfg, history>>

\* The process of slot s executes this command, and has then done its work;
\* or it dies (the other way for a command to fail) before it has done anything.
Ends(s, at) == Lives(s) /\ orphan[s].at \in at /\ orphan' = [orphan EXCEPT ![s] = Gone]

LateInstall(s) ==
  /\ Ends(s, {"prepare"})
  /\ certs' \in Bundles \cup {Partial}
  /\ UNCHANGED <<kind, files, running, versions, jobs, history>>

LateUpload(s) ==
  /\ Ends(s, {"upload", "discard_ok", "discard_failed"})
  /\ new' = orphan[s].text
  /\ UNCHANGED <<kind, certs, live, bak, running, versions, jobs, history>>

\* The same remote shell then goes on with the mv.
LateBackup(s) ==
  /\ Lives(s) /\ orphan[s].at = "backup"
  /\ \/ bak' = BackupContent /\ orphan' = [orphan EXCEPT ![s].at = "replace"]
     \/ bak' = Partial /\ orphan' = [orphan EXCEPT ![s] = Gone]
  /\ UNCHANGED <<kind, certs, live, new, running, versions, jobs, history>>

LateReplace(s) ==
  /\ Ends(s, {"replace"})
  /\ MovedIn
  /\ UNCHANGED <<kind, certs, bak, running, versions, jobs, request, torn, strays>>

LateReload(s) ==
  /\ Ends(s, {"reload", "reload_back"})
  /\ running' \in Loaded
  /\ UNCHANGED <<kind, certs, files, versions, jobs, history>>

LateRestore(s) ==
  /\ Ends(s, {"restore"})
  /\ CopiedBack \/ CopyBroken
  /\ UNCHANGED <<kind, certs, new, bak, running, versions, jobs, request, strays>>

Dies(s) ==
  /\ Ends(s, Commands)
  /\ UNCHANGED <<kind, certs, files, running, versions, jobs, history>>

Late(s) ==
  \/ LateInstall(s) \/ LateUpload(s) \/ LateBackup(s)
  \/ LateReplace(s) \/ LateReload(s) \/ LateRestore(s) \/ Dies(s)

-----------------------------------------------------------------------------
\* The application process dies: its threads are gone, the node stays as it is.
\* (To die within a step is that step's failure, or its lost answer.)
Crash ==
  /\ Len(versions) < MaxRows
  /\ \E j \in Jobs : Active(j)
  /\ pc' = [j \in Jobs |-> "idle"]
  /\ UNCHANGED <<kind, certs, files, running, versions, orphan, mode, cfg, history>>

Step(j) ==
  \/ Prepare(j) \/ Upload(j) \/ Check(j) \/ Discard(j)
  \/ Backup(j) \/ Replace(j) \/ Reload(j) \/ Restore(j) \/ ReloadBack(j)
  \/ Record(j) \/ Prune(j) \/ Lost(j)

Next ==
  \/ Crash
  \/ \E j \in Jobs : Request(j) \/ Step(j)
  \/ \E s \in Slots : Late(s)

Spec == Init /\ [][Next]_vars

\* A worker thread runs on: every command it waits for has a timeout.
FairSpec == Spec /\ \A j \in Jobs : WF_vars(Step(j))

-----------------------------------------------------------------------------
(* Properties.  A request is on its own if nothing else was under way on    *)
(* the node when it started, neither another request nor a process of an    *)
(* earlier one, and no other request has started since.                     *)

TypeOK ==
  /\ kind \in Kinds
  /\ certs \in Bundles \cup {NoFile, Partial}
  /\ live \in File /\ new \in File /\ bak \in File /\ running \in File
  /\ versions \in Seq(Configs)
  /\ orphan \in [Slots -> Orphan]
  /\ pc \in [Jobs -> Resting \cup Steps]
  /\ mode \in [Jobs -> Modes]
  /\ cfg \in [Jobs -> Configs]
  /\ latest \in Jobs
  /\ before \in [live : File, running : File, suspect : BOOLEAN]
  /\ overlapped \in BOOLEAN /\ torn \in BOOLEAN /\ suspect \in BOOLEAN
  /\ strays \subseteq Configs

\* HAProxy runs only what haproxy -c accepted, and config_path holds nothing
\* else, whatever commands fail, time out or finish late, and wherever the
\* application dies: but for what requests that were not on their own, the late
\* mv of one into the next among them, or a broken rollback copy left there, and
\* the next request on its own that replaces the file ends that too.
OnlyValidatedIsLive == running \in Sound /\ (live \in Sound \/ suspect)

\* Up to its activation command, and so whenever it ends before it (refused
\* text, failed upload, mere validation), a request that runs on its own has
\* changed neither config_path nor the running HAProxy: "alte Config bleibt
\* aktiv", whatever requests before it left in .new and .bak.
UntouchedBeforeActivation ==
  /\ ~overlapped
  /\ pc[latest] \in Early \/ (pc[latest] = "ok" /\ mode[latest] = "validate")
  => live = before.live /\ running = before.running

\* A request on its own that reports a failure leaves the text it found or its
\* own, no third one: a rollback never digs out an older backup.  HAProxy runs
\* one of these two or what it ran before.  But for a copy that breaks.  This
\* stays so whatever the command that it has given up on still does.
FailureLeavesOldOrNew ==
  ~overlapped /\ pc[latest] = "failed" =>
    /\ live \in {before.live, cfg[latest]} \/ (torn /\ live = Partial)
    /\ running \in {before.running, before.live, cfg[latest]}

\* A deployment reported as successful that ran on its own is the file on the
\* node, accepted by haproxy -c and with all its certificates, and HAProxy runs
\* it if the reload command reports its outcome.
SuccessIsLive ==
  ~overlapped /\ pc[latest] \in {"ok", "unrecorded"} /\ mode[latest] # "validate" =>
    /\ live = cfg[latest] /\ live \in Valid /\ certs \in Bundles
    /\ kind = "sync" => running = cfg[latest]

\* The history lists only texts that passed validation or that overlapping
\* requests recorded, and after a recorded deployment on its own its newest row
\* is the live text: no prune can drop it.
HistoryTracksLive ==
  /\ \A i \in 1..Len(versions) : versions[i] \in Valid \cup strays
  /\ ~overlapped /\ pc[latest] = "ok" /\ mode[latest] # "validate" =>
       versions # <<>> /\ versions[Len(versions)] = live

\* Whatever overlaps, fails or dies, a node that has a configuration file
\* never loses it, not even for the time between two commands.
ConfigNeverLost == [][live # NoFile => live' # NoFile]_vars

OnlyValidations ==
  /\ \A j \in Jobs : Active(j) => mode[j] = "validate"
  /\ \A s \in Slots : Lives(s) => orphan[s].at \in Early \ {"backup"}

\* Validations alone, however many at once and wherever their commands break
\* off or go on, change neither config_path nor what HAProxy runs.
ValidationIsReadOnly ==
  [][OnlyValidations => UNCHANGED <<live, running>>]_vars

\* What README.md says of a deployment ("Upload -> haproxy -c Validierung auf
\* dem Node -> Backup -> Aktivierung"), of overlapping requests too: only
\* validated texts are activated (half a file, where a copy broke, aside).
ActivatedWasValidated == live \in Configs => live \in Valid

\* Every request ends: it is answered, unless the application dies.
Answered == \A j \in Jobs : Active(j) ~> ~Active(j)
=============================================================================
