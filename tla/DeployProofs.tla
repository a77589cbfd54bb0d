---------------------------- MODULE DeployProofs ----------------------------
(***************************************************************************)
(* Proofs about module Deploy, for every set of jobs, of texts and every   *)
(* history length.                                                         *)
(*                                                                         *)
(* None of the properties is inductive: what a request leaves behind       *)
(* depends on what .new and .bak held at each of its steps.  StageInv says *)
(* that, step by step, for the request that started last; if it started    *)
(* while nothing else was under way and no other has started since, it is  *)
(* the only one that works on the node (Alone), and a process that         *)
(* outlives a request is the one command it gave up on (OrphanInv).        *)
(* FilesSound and HistoryValid say what it may find there, whatever        *)
(* requests before it have overlapped.                                     *)
(***************************************************************************)
EXTENDS Deploy, TLAPS

Alone == \A j \in Jobs : Active(j) => j = latest

FilesSound ==
  /\ running \in Sound
  /\ live \in Sound \/ suspect
  /\ before.live \in Sound \/ before.suspect
  /\ overlapped => suspect /\ before.suspect

HistoryValid == \A i \in 1..Len(versions) : versions[i] \in Valid \cup strays

AsFound == live = before.live /\ running = before.running
Ours == live = cfg[latest] /\ cfg[latest] \in Valid
Uploaded == new = cfg[latest]
NewestIsOurs == versions # <<>> /\ versions[Len(versions)] = cfg[latest]

StageInv ==
  /\ pc[latest] \in Early \cup {"replace"} => AsFound
  /\ pc[latest] \in Steps \ {"prepare"} => certs \in Bundles
  /\ pc[latest] = "check" => Uploaded
  /\ pc[latest] = "discard_ok" => mode[latest] = "validate"
  /\ pc[latest] \in {"backup", "replace"} => Uploaded /\ cfg[latest] \in Valid
  /\ pc[latest] \in {"replace", "reload", "restore"} => bak = before.live
  /\ pc[latest] \in {"reload", "restore"} => Ours /\ running = before.running
  /\ pc[latest] = "reload_back" => AsFound
  /\ pc[latest] \in {"backup", "replace", "reload", "restore", "record",
                     "prune", "unrecorded"} => mode[latest] # "validate"
  /\ pc[latest] \in {"record", "prune", "unrecorded"} =>
       /\ Ours /\ certs \in Bundles
       /\ kind = "sync" => running = cfg[latest]
  /\ pc[latest] = "prune" => NewestIsOurs
  /\ pc[latest] = "ok" =>
       IF mode[latest] = "validate"
         THEN AsFound
         ELSE Ours /\ certs \in Bundles /\ NewestIsOurs /\ (kind = "sync" => running = cfg[latest])
  /\ pc[latest] = "failed" =>
       /\ live \in {before.live, cfg[latest]} \/ (torn /\ live = Partial)
       /\ running \in {before.running, before.live, cfg[latest]}

\* A live process is the last command of the latest request, which has failed.
OrphanInv ==
  \A s \in Slots : Lives(s) =>
    /\ pc[latest] = "failed"
    /\ \A t \in Slots : Lives(t) => t = s
    /\ orphan[s].at \in {"backup", "replace"} =>
         AsFound /\ Uploaded /\ cfg[latest] \in Valid
    /\ orphan[s].at = "restore" => bak = before.live

SerialInv == Alone /\ StageInv /\ OrphanInv

IInv == TypeOK /\ FilesSound /\ HistoryValid /\ (~overlapped => SerialInv)

-----------------------------------------------------------------------------
(* The pieces the actions are built from. *)

\* What haproxy -c accepts is a file content.
LEMMA SoundFile == Sound \subseteq File
  BY ConfigsAssumption DEF Sound, File

\* The prune keeps a suffix: rows come from the old rows, and the newest one
\* stays the newest.
LEMMA KeepNewestKeepsNewest ==
  ASSUME NEW S, NEW rows \in Seq(S), rows # <<>>
  PROVE  /\ KeepNewest(rows) \in Seq(S)
         /\ KeepNewest(rows) # <<>>
         /\ KeepNewest(rows)[Len(KeepNewest(rows))] = rows[Len(rows)]
         /\ \A i \in 1..Len(KeepNewest(rows)) :
              \E k \in 1..Len(rows) : KeepNewest(rows)[i] = rows[k]
  <1> DEFINE first == IF Len(rows) < Keep THEN 1 ELSE Len(rows) - Keep + 1
  <1>1. Len(rows) \in Nat \ {0} /\ first \in 1..Len(rows)
    BY KeepAssumption
  <1>2. KeepNewest(rows) = SubSeq(rows, first, Len(rows))
    BY DEF KeepNewest
  <1> HIDE DEF first
  <1>3. /\ Len(KeepNewest(rows)) = Len(rows) - first + 1
        /\ KeepNewest(rows) \in Seq(S)
    BY <1>1, <1>2
  <1>4. \A i \in 1..(Len(rows) - first + 1) : KeepNewest(rows)[i] = rows[first + i - 1]
    BY <1>1, <1>2
  <1>5. KeepNewest(rows) # <<>>
    BY <1>1, <1>3
  <1>6. KeepNewest(rows)[Len(KeepNewest(rows))] = rows[Len(rows)]
    <2>1. Len(rows) - first + 1 \in 1..(Len(rows) - first + 1)
      BY <1>1
    <2> QED
      BY <1>1, <1>3, <1>4, <2>1
  <1>7. \A i \in 1..Len(KeepNewest(rows)) :
          \E k \in 1..Len(rows) : KeepNewest(rows)[i] = rows[k]
    <2>1. ASSUME NEW i \in 1..Len(KeepNewest(rows))
          PROVE  \E k \in 1..Len(rows) : KeepNewest(rows)[i] = rows[k]
      <3>1. first + i - 1 \in 1..Len(rows)
        BY <1>1, <1>3
      <3> QED
        BY <1>3, <1>4, <3>1
    <2> QED
      BY <2>1
  <1> QED
    BY <1>3, <1>5, <1>6, <1>7

\* A job that executes a step was under way before it.
LEMMA StepIsActive ==
  ASSUME TypeOK, NEW j \in Jobs, Step(j)
  PROVE  Active(j)
  BY DEF Active, Resting, Step, Goto, TypeOK, Prepare, Upload, Check, Discard,
         Backup, Replace, Reload, Restore, ReloadBack, Record, Prune, Lost, Commands

-----------------------------------------------------------------------------
(* Types *)

\* The initial states are typed.
LEMMA InitTypeOK == Init => TypeOK
  <1> SUFFICES ASSUME Init PROVE TypeOK
    OBVIOUS
  <1>1. live \in File /\ new \in File /\ bak \in File /\ running \in File
    BY SoundFile DEF Init, File
  <1>2. versions \in Seq(Configs)
    BY DEF Init
  <1>3. before \in [live : File, running : File, suspect : BOOLEAN]
    BY <1>1 DEF Init
  <1> QED
    BY <1>1, <1>2, <1>3 DEF Init, TypeOK, Resting, Modes, Orphan

\* A request keeps the types: a restored text is a row of the history.
LEMMA RequestTypeOK ==
  ASSUME TypeOK, NEW j \in Jobs, Request(j)
  PROVE  TypeOK'
  <1> USE DEF TypeOK, Request, files
  <1>1. versions' \in Seq(Configs) /\ (live \in File /\ new \in File /\ bak \in File /\ running \in File)'
    OBVIOUS
  <1>2. pc' \in [Jobs -> Resting \cup Steps]
    BY DEF Resting, Steps
  <1>3. mode' \in [Jobs -> Modes]
    OBVIOUS
  <1>4. cfg' \in [Jobs -> Configs]
    OBVIOUS
  <1>5. before' \in [live : File, running : File, suspect : BOOLEAN]
    <2>1. Unknown \in [live : File, running : File, suspect : BOOLEAN]
      BY DEF Unknown, File
    <2> QED
      BY <2>1
  <1>6. latest' \in Jobs /\ overlapped' \in BOOLEAN /\ kind' \in Kinds /\ torn' \in BOOLEAN
        /\ suspect' \in BOOLEAN /\ strays' \subseteq Configs
        /\ orphan' \in [Slots -> Orphan]
        /\ certs' \in Bundles \cup {NoFile, Partial}
    OBVIOUS
  <1> QED
    BY <1>1, <1>2, <1>3, <1>4, <1>5, <1>6

\* The command of a lost answer is one that a process can execute.
LEMMA LostTypeOK ==
  ASSUME TypeOK, NEW j \in Jobs, Lost(j)
  PROVE  orphan' \in [Slots -> Orphan]
  <1>1. [at |-> pc[j], text |-> IF pc[j] = "upload" THEN cfg[j] ELSE NoFile]
          \in [at : Commands, text : Configs \cup {NoFile}]
    BY DEF Lost, TypeOK
  <1> QED
    BY <1>1 DEF Lost, TypeOK, Orphan

\* Every step of a job keeps the types.
LEMMA StepTypeOK ==
  ASSUME TypeOK, NEW j \in Jobs, Step(j)
  PROVE  TypeOK'
  <1>1. /\ pc' \in [Jobs -> Resting \cup Steps]
        /\ UNCHANGED <<kind, mode, latest, before, overlapped>>
    BY DEF TypeOK, Goto, Resting, Steps, Step, history, request, files, Prepare, Upload, Check,
           Discard, Backup, Replace, Reload, Restore, ReloadBack, Record, Prune, Lost
  <1>2. cfg' \in [Jobs -> Configs]
    BY DEF TypeOK, Step, Prepare, Upload, Check,
           Discard, Backup, Replace, Reload, Restore, ReloadBack, Record, Prune, Lost
  <1>3. (live \in File /\ new \in File /\ bak \in File)'
    BY ConfigsAssumption
    DEF TypeOK, File, Step, files, BackupContent, Prepare, Upload, Check,
        Discard, Backup, Replace, Reload, Restore, ReloadBack, Record, Prune, Lost,
        MovedIn, CopiedBack, CopyBroken
  <1>4. running' \in File
    BY DEF TypeOK, Step, Loaded, Prepare, Upload, Check,
           Discard, Backup, Replace, Reload, Restore, ReloadBack, Record, Prune, Lost
  <1>5. versions' \in Seq(Configs)
    <2>1. CASE Record(j)
      BY <2>1 DEF Record, TypeOK
    <2>2. CASE Prune(j)
      <3>1. CASE versions = <<>>
        <4>1. KeepNewest(versions) = SubSeq(versions, 1, 0)
          BY <3>1, KeepAssumption DEF KeepNewest
        <4>2. SubSeq(versions, 1, 0) \in Seq(Configs)
          BY <3>1 DEF TypeOK
        <4> QED
          BY <2>2, <4>1, <4>2 DEF Prune, TypeOK
      <3>2. CASE versions # <<>>
        BY <2>2, <3>2, KeepNewestKeepsNewest DEF Prune, TypeOK
      <3> QED
        BY <3>1, <3>2
    <2>3. CASE ~(Record(j) \/ Prune(j))
      BY <2>3 DEF TypeOK, Step, Prepare, Upload, Check,
             Discard, Backup, Replace, Reload, Restore, ReloadBack, Lost
    <2> QED
      BY <2>1, <2>2, <2>3
  <1>6. torn' \in BOOLEAN /\ suspect' \in BOOLEAN
    BY DEF TypeOK, Step, history, Prepare, Upload, Check, Discard, Backup, Replace, Reload,
           Restore, ReloadBack, Record, Prune, Lost, MovedIn, CopiedBack, CopyBroken
  <1>7. strays' \subseteq Configs /\ certs' \in Bundles \cup {NoFile, Partial}
    BY DEF TypeOK, Step, history, Prepare, Upload, Check,
           Discard, Backup, Replace, Reload, Restore, ReloadBack, Record, Prune, Lost
  <1>8. orphan' \in [Slots -> Orphan]
    <2>1. CASE Lost(j)
      BY <2>1, LostTypeOK
    <2>2. CASE ~Lost(j)
      BY <2>2 DEF TypeOK, Step, Prepare, Upload, Check,
             Discard, Backup, Replace, Reload, Restore, ReloadBack, Record, Prune
    <2> QED
      BY <2>1, <2>2
  <1> QED
    BY <1>1, <1>2, <1>3, <1>4, <1>5, <1>6, <1>7, <1>8 DEF TypeOK

\* What a process that has outlived its request does keeps the types.
LEMMA LateTypeOK ==
  ASSUME TypeOK, NEW s \in Slots, Late(s)
  PROVE  TypeOK'
  <1>1. /\ UNCHANGED <<kind, versions, pc, mode, cfg, latest, before, overlapped, strays>>
        /\ certs' \in Bundles \cup {NoFile, Partial}
    BY DEF TypeOK, Late, LateInstall, LateUpload, LateBackup, LateReplace, LateReload,
           LateRestore, Dies, jobs, history, request
  <1>2. torn' \in BOOLEAN /\ suspect' \in BOOLEAN
    BY DEF TypeOK, Late, LateInstall, LateUpload, LateBackup, LateReplace, LateReload,
           LateRestore, Dies, history, request, MovedIn, CopiedBack, CopyBroken
  <1>3. orphan[s] = Gone \/ orphan[s] \in [at : Commands, text : Configs \cup {NoFile}]
    BY DEF TypeOK, Orphan
  <1>4. orphan' \in [Slots -> Orphan]
    <2>1. orphan \in [Slots -> Orphan]
      BY DEF TypeOK
    <2>2. CASE orphan' = [orphan EXCEPT ![s] = Gone]
      BY <2>1, <2>2 DEF Orphan
    <2>3. CASE Lives(s) /\ orphan' = [orphan EXCEPT ![s].at = "replace"]
      <3>1. [orphan[s] EXCEPT !.at = "replace"] \in [at : Commands, text : Configs \cup {NoFile}]
        BY <1>3, <2>3 DEF Lives, Commands
      <3> QED
        BY <2>1, <2>3, <3>1 DEF Orphan
    <2> QED
      BY <2>2, <2>3 DEF Late, Ends, LateInstall, LateUpload, LateBackup, LateReplace, LateReload,
           LateRestore, Dies
  <1>5. (live \in File /\ new \in File /\ bak \in File /\ running \in File)'
    <2>1. CASE LateUpload(s)
      <3>1. orphan[s].text \in File
        BY <1>3, <2>1 DEF LateUpload, Ends, Lives, File
      <3> QED
        BY <2>1, <3>1 DEF LateUpload, TypeOK
    <2>2. CASE LateBackup(s)
      BY <2>2 DEF LateBackup, TypeOK, File, BackupContent
    <2>3. CASE LateReplace(s) \/ LateRestore(s)
      BY <2>3 DEF LateReplace, LateRestore, MovedIn, CopiedBack, CopyBroken, TypeOK, File
    <2>4. CASE LateReload(s)
      BY <2>4 DEF LateReload, Loaded, TypeOK, files
    <2>5. CASE LateInstall(s) \/ Dies(s)
      BY <2>5 DEF LateInstall, Dies, TypeOK, files
    <2> QED
      BY <2>1, <2>2, <2>3, <2>4, <2>5 DEF Late
  <1> QED
    BY <1>1, <1>2, <1>4, <1>5 DEF TypeOK

\* The types are inductive.
LEMMA NextTypeOK == TypeOK /\ [Next]_vars => TypeOK'
  <1> SUFFICES ASSUME TypeOK, [Next]_vars PROVE TypeOK'
    OBVIOUS
  <1>1. CASE Crash
    BY <1>1 DEF Crash, TypeOK, files, history, request, Resting
  <1>2. ASSUME NEW j \in Jobs, Request(j) PROVE TypeOK'
    BY <1>2, RequestTypeOK
  <1>3. ASSUME NEW j \in Jobs, Step(j) PROVE TypeOK'
    BY <1>3, StepTypeOK
  <1>4. ASSUME NEW s \in Slots, Late(s) PROVE TypeOK'
    BY <1>4, LateTypeOK
  <1>5. CASE UNCHANGED vars
    BY <1>5 DEF vars, TypeOK, files, jobs, history, request
  <1> QED
    BY <1>1, <1>2, <1>3, <1>4, <1>5 DEF Next

\* Files, rows and program counters stay in their sets, whatever runs.
THEOREM TypeCorrect == Spec => []TypeOK
  BY InitTypeOK, NextTypeOK, PTL DEF Spec

-----------------------------------------------------------------------------
(* What any request may find, action by action *)

\* config_path gets a text after its check, or back what the request found,
\* unless requests overlap: then it is suspect.
LEMMA StepFilesSound ==
  ASSUME TypeOK, FilesSound, NEW j \in Jobs, Step(j),
         overlapped \/ (SerialInv /\ j = latest)
  PROVE  FilesSound'
  <1> USE DEF FilesSound
  <1>1. CASE Replace(j)
    BY <1>1 DEF Replace, MovedIn, Goto, SerialInv, StageInv, Uploaded, Sound, TypeOK, request
  <1>2. CASE Restore(j)
    BY <1>2 DEF Restore, CopiedBack, CopyBroken, Goto, SerialInv, StageInv, TypeOK, request
  <1>3. CASE Backup(j)
    BY <1>3 DEF Backup, history, request
  <1>4. CASE Reload(j) \/ ReloadBack(j)
    BY <1>4 DEF Reload, ReloadBack, Loaded, Sound, files, history, request
  <1>5. CASE Prepare(j) \/ Upload(j) \/ Check(j) \/ Discard(j) \/ Lost(j)
    BY <1>5 DEF Prepare, Upload, Check, Discard, Lost, files, history, request
  <1>6. CASE Record(j) \/ Prune(j)
    BY <1>6 DEF Record, Prune, files, history, request
  <1> QED
    BY <1>1, <1>2, <1>3, <1>4, <1>5, <1>6 DEF Step

\* So does a process that has outlived its request: the text it moves in is the
\* one its request had checked, unless others have been at work meanwhile.
LEMMA LateFilesSound ==
  ASSUME TypeOK, FilesSound, NEW s \in Slots, Late(s), overlapped \/ SerialInv
  PROVE  FilesSound'
  <1> USE DEF FilesSound
  <1>1. CASE LateReplace(s)
    BY <1>1 DEF LateReplace, Ends, MovedIn, SerialInv, OrphanInv, Uploaded, Sound, TypeOK, request
  <1>2. CASE LateRestore(s)
    BY <1>2 DEF LateRestore, Ends, CopiedBack, CopyBroken, SerialInv, OrphanInv, TypeOK, request
  <1>3. CASE LateReload(s)
    BY <1>3 DEF LateReload, Loaded, Sound, files, history, request
  <1>4. CASE LateInstall(s) \/ LateUpload(s) \/ LateBackup(s) \/ Dies(s)
    BY <1>4 DEF LateInstall, LateUpload, LateBackup, Dies, files, history, request
  <1> QED
    BY <1>1, <1>2, <1>3, <1>4 DEF Late

\* It writes no history.
LEMMA LateHistoryValid ==
  ASSUME HistoryValid, NEW s \in Slots, Late(s)
  PROVE  HistoryValid'
  BY DEF HistoryValid, Late, LateInstall, LateUpload, LateBackup, LateReplace, LateReload,
         LateRestore, Dies, history, request

\* A row is the validated text that is live, or one of the strays.
LEMMA StepHistoryValid ==
  ASSUME TypeOK, HistoryValid, NEW j \in Jobs, Step(j),
         overlapped \/ (SerialInv /\ j = latest)
  PROVE  HistoryValid'
  <1>1. CASE Record(j)
    <2>1. CASE versions' = Append(versions, cfg[j])
      <3>1. cfg[j] \in Valid \cup strays'
        BY <1>1, <2>1 DEF Record, Goto, SerialInv, StageInv, Ours, TypeOK
      <3>2. versions \in Seq(Configs) /\ cfg[j] \in Configs
        BY DEF TypeOK
      <3>3. strays \subseteq strays'
        BY <1>1 DEF Record
      <3> QED
        BY <2>1, <3>1, <3>2, <3>3 DEF HistoryValid
    <2>2. CASE UNCHANGED <<versions, strays>>
      BY <2>2 DEF HistoryValid
    <2> QED
      BY <1>1, <2>1, <2>2 DEF Record
  <1>2. CASE Prune(j)
    <2>1. UNCHANGED strays /\ versions \in Seq(Configs)
      BY <1>2 DEF Prune, history, TypeOK
    <2>2. CASE versions' = KeepNewest(versions) /\ versions # <<>>
      <3>1. \A i \in 1..Len(KeepNewest(versions)) :
              \E k \in 1..Len(versions) : KeepNewest(versions)[i] = versions[k]
        BY <2>1, <2>2, KeepNewestKeepsNewest
      <3>2. ASSUME NEW i \in 1..Len(versions') PROVE versions'[i] \in Valid \cup strays'
        <4>1. PICK k \in 1..Len(versions) : versions'[i] = versions[k]
          BY <2>2, <3>1, <3>2
        <4> QED
          BY <2>1, <4>1 DEF HistoryValid
      <3> QED
        BY <3>2 DEF HistoryValid
    <2>3. CASE versions' = KeepNewest(versions) /\ versions = <<>>
      <3>1. KeepNewest(versions) = SubSeq(versions, 1, 0)
        BY <2>3, KeepAssumption DEF KeepNewest
      <3>2. versions' = <<>>
        BY <2>1, <2>3, <3>1
      <3> QED
        BY <3>2 DEF HistoryValid
    <2>4. CASE versions' = versions
      BY <2>1, <2>4 DEF HistoryValid
    <2> QED
      BY <1>2, <2>2, <2>3, <2>4 DEF Prune
  <1>3. CASE ~(Record(j) \/ Prune(j))
    BY <1>3 DEF HistoryValid, Step, history, Prepare, Upload, Check,
           Discard, Backup, Replace, Reload, Restore, ReloadBack, Lost
  <1> QED
    BY <1>1, <1>2, <1>3

\* A request takes note of what it finds.
LEMMA RequestFilesSound ==
  ASSUME TypeOK, FilesSound, HistoryValid, NEW j \in Jobs, Request(j)
  PROVE  FilesSound' /\ HistoryValid'
  BY DEF Request, Unknown, files, FilesSound, HistoryValid, TypeOK

-----------------------------------------------------------------------------
(* The request that has the node to itself, action by action *)

\* A request that starts while nothing else is under way finds the files of
\* StageInv's first stage, whatever the ones before it left behind.
LEMMA RequestSerialInv ==
  ASSUME TypeOK, NEW j \in Jobs, Request(j), ~overlapped'
  PROVE  SerialInv'
  <1>1. /\ latest' = j /\ pc'[j] = "prepare"
        /\ before' = [live |-> live, running |-> running, suspect |-> suspect]
    BY DEF Request, TypeOK
  <1>2. Alone'
    <2>1. \A k \in Jobs \ {j} : ~Active(k) /\ pc'[k] = pc[k]
      BY DEF Request, TypeOK
    <2> QED
      BY <1>1, <2>1 DEF Alone, Active
  <1>3. StageInv'
    BY <1>1 DEF Request, files, StageInv, Steps, Early, AsFound
  <1>4. OrphanInv'
    BY DEF Request, OrphanInv, Lives
  <1> QED
    BY <1>2, <1>3, <1>4 DEF SerialInv

\* Only the latest job makes steps, so every step keeps Alone.
LEMMA StepAlone ==
  ASSUME TypeOK, Alone, NEW j \in Jobs, Step(j)
  PROVE  j = latest /\ Alone'
  <1>1. j = latest
    BY StepIsActive DEF Alone
  <1>2. /\ UNCHANGED latest
        /\ \A k \in Jobs \ {j} : pc'[k] = pc[k]
    BY DEF TypeOK, Goto, Step, history, request, Prepare, Upload, Check,
           Discard, Backup, Replace, Reload, Restore, ReloadBack, Record, Prune, Lost
  <1> QED
    BY <1>1, <1>2 DEF Alone, Active

\* Each step of the latest job leads from its stage of StageInv to the next.
LEMMA StepStageInv ==
  ASSUME TypeOK, SerialInv, Step(latest)
  PROVE  StageInv'
  <1> USE DEF SerialInv, TypeOK, Goto, history, request, files
  <1>1. CASE Prepare(latest)
    BY <1>1 DEF Prepare, StageInv, Steps, Early, AsFound
  <1>2. CASE Upload(latest)
    BY <1>2 DEF Upload, StageInv, Steps, Early, AsFound, Uploaded
  <1>3. CASE Check(latest)
    BY <1>3 DEF Check, StageInv, Steps, Early, AsFound, Uploaded
  <1>4. CASE Discard(latest)
    BY <1>4 DEF Discard, StageInv, Steps, Early, AsFound
  <1>5. CASE Backup(latest)
    BY <1>5 DEF Backup, BackupContent, StageInv, Steps, Early, AsFound, Uploaded
  <1>6. CASE Replace(latest)
    BY <1>6 DEF Replace, MovedIn, StageInv, Steps, Early, AsFound, Uploaded, Ours
  <1>7. CASE Reload(latest)
    BY <1>7 DEF Reload, Loaded, StageInv, Steps, Early, AsFound, Ours
  <1>8. CASE Restore(latest)
    BY <1>8 DEF Restore, CopiedBack, CopyBroken, StageInv, Steps, Early, AsFound, Ours
  <1>9. CASE ReloadBack(latest)
    BY <1>9 DEF ReloadBack, Loaded, StageInv, Steps, Early, AsFound
  <1>10. CASE Record(latest)
    <2>1. CASE pc'[latest] = "unrecorded"
      BY <1>10, <2>1 DEF Record, StageInv, Steps, Early, Ours
    <2>2. CASE pc'[latest] = "prune"
      <3>1. versions' = Append(versions, cfg[latest])
        BY <1>10, <2>2 DEF Record
      <3>2. versions \in Seq(Configs) /\ cfg[latest] \in Configs
        OBVIOUS
      <3>3. versions' # <<>> /\ versions'[Len(versions')] = cfg[latest]
        BY <3>1, <3>2
      <3> QED
        BY <1>10, <2>2, <3>3 DEF Record, StageInv, Steps, Early, Ours, NewestIsOurs
    <2> QED
      BY <1>10, <2>1, <2>2 DEF Record
  <1>11. CASE Prune(latest)
    <2>1. NewestIsOurs /\ versions \in Seq(Configs)
      BY <1>11 DEF Prune, StageInv, NewestIsOurs
    <2>2. versions' # <<>> /\ versions'[Len(versions')] = versions[Len(versions)]
      BY <1>11, <2>1, KeepNewestKeepsNewest DEF Prune, NewestIsOurs
    <2> QED
      BY <1>11, <2>1, <2>2 DEF Prune, StageInv, Steps, Early, Ours, NewestIsOurs
  <1>12. CASE Lost(latest)
    BY <1>12 DEF Lost, Commands, StageInv, Steps, Early, AsFound, Ours
  <1> QED
    BY <1>1, <1>2, <1>3, <1>4, <1>5, <1>6, <1>7, <1>8, <1>9, <1>10, <1>11, <1>12 DEF Step

\* While the latest job makes steps, no process has outlived it; the command
\* whose answer it does not get becomes the only one.
LEMMA StepOrphanInv ==
  ASSUME TypeOK, SerialInv, Step(latest)
  PROVE  OrphanInv'
  <1>1. \A s \in Slots : ~Lives(s)
    BY StepIsActive DEF SerialInv, OrphanInv, Active, Resting, TypeOK
  <1>2. CASE Lost(latest)
    <2>1. PICK t \in Slots : orphan' = [orphan EXCEPT ![t] =
            [at |-> pc[latest], text |-> IF pc[latest] = "upload" THEN cfg[latest] ELSE NoFile]]
      BY <1>2 DEF Lost
    <2>2. \A s \in Slots : Lives(s)' => s = t
      BY <1>1, <2>1 DEF TypeOK, Lives
    <2>3. orphan'[t].at = pc[latest]
      BY <2>1 DEF TypeOK
    <2>4. pc[latest] \in {"backup", "replace"} => AsFound /\ Uploaded /\ cfg[latest] \in Valid
      BY DEF SerialInv, StageInv, Early
    <2>5. pc[latest] = "restore" => bak = before.live
      BY DEF SerialInv, StageInv
    <2>6. /\ UNCHANGED <<latest, before, live, running, new, bak, cfg>>
          /\ pc'[latest] = "failed"
      BY <1>2 DEF Lost, Goto, TypeOK, files, history, request
    <2> QED
      BY <2>2, <2>3, <2>4, <2>5, <2>6 DEF OrphanInv, AsFound, Uploaded
  <1>3. CASE ~Lost(latest)
    <2>1. UNCHANGED orphan
      BY <1>3 DEF Step, Prepare, Upload, Check, Discard, Backup, Replace, Reload,
             Restore, ReloadBack, Record, Prune
    <2> QED
      BY <1>1, <2>1 DEF OrphanInv, Lives
  <1> QED
    BY <1>2, <1>3

\* What the process does that has outlived the latest request is what the
\* request was about to do: config_path gets its text, or back what it found.
LEMMA LateSerialInv ==
  ASSUME TypeOK, SerialInv, NEW s \in Slots, Late(s)
  PROVE  SerialInv'
  <1>1. Lives(s)
    BY DEF Late, LateInstall, LateUpload, LateBackup, LateReplace, LateReload, LateRestore,
           Dies, Ends
  <1>2. /\ pc[latest] = "failed"
        /\ \A t \in Slots \ {s} : ~Lives(t)
        /\ orphan[s].at \in {"backup", "replace"} => AsFound /\ Uploaded /\ cfg[latest] \in Valid
        /\ orphan[s].at = "restore" => bak = before.live
    BY <1>1 DEF SerialInv, OrphanInv
  <1>3. UNCHANGED <<pc, mode, cfg, latest, before, overlapped>>
    BY DEF Late, LateInstall, LateUpload, LateBackup, LateReplace, LateReload, LateRestore,
           Dies, jobs, history, request
  <1>4. Alone'
    BY <1>3 DEF SerialInv, Alone, Active
  <1>5. StageInv'
    <2>1. \/ live' \in {before.live, cfg[latest]}
          \/ torn' /\ live' = Partial
      <3>1. CASE LateReplace(s)
        BY <1>2, <3>1 DEF LateReplace, Ends, MovedIn, Uploaded
      <3>2. CASE LateRestore(s)
        BY <1>2, <3>2 DEF LateRestore, Ends, CopiedBack, CopyBroken
      <3>3. CASE ~(LateReplace(s) \/ LateRestore(s))
        BY <1>2, <3>3 DEF SerialInv, StageInv, Late, LateInstall, LateUpload, LateBackup,
               LateReload, Dies, files, history
      <3> QED
        BY <3>1, <3>2, <3>3
    <2>2. running' \in {before.running, before.live, cfg[latest]}
      <3>1. running' = running \/ (running' = live /\ live \in Valid)
        BY DEF Late, LateInstall, LateUpload, LateBackup, LateReplace, LateReload, LateRestore,
               Dies, Loaded
      <3> QED
        BY <1>2, <3>1, ConfigsAssumption DEF SerialInv, StageInv
    <2> QED
      BY <1>2, <1>3, <2>1, <2>2 DEF StageInv, Steps, Early
  <1>6. OrphanInv'
    <2>1. CASE orphan' = [orphan EXCEPT ![s] = Gone]
      BY <1>2, <2>1 DEF OrphanInv, Lives, TypeOK
    <2>2. CASE LateBackup(s) /\ orphan' = [orphan EXCEPT ![s].at = "replace"]
      <3>1. AsFound' /\ Uploaded' /\ cfg'[latest'] \in Valid
        BY <1>2, <1>3, <2>2 DEF LateBackup, AsFound, Uploaded
      <3>2. \A t \in Slots \ {s} : ~Lives(t)'
        BY <1>2, <2>2 DEF Lives, TypeOK
      <3>3. orphan'[s].at = "replace"
        <4>1. orphan[s] \in [at : Commands, text : Configs \cup {NoFile}]
          BY <1>1 DEF Lives, TypeOK, Orphan
        <4> QED
          BY <2>2, <4>1 DEF TypeOK
      <3> QED
        BY <1>2, <1>3, <3>1, <3>2, <3>3 DEF OrphanInv
    <2> QED
      BY <2>1, <2>2 DEF Late, LateInstall, LateUpload, LateBackup, LateReplace, LateReload,
             LateRestore, Dies, Ends
  <1> QED
    BY <1>4, <1>5, <1>6 DEF SerialInv

\* The death of the application ends the job and touches no file.
LEMMA CrashSerialInv ==
  ASSUME TypeOK, SerialInv, Crash
  PROVE  SerialInv'
  <1>1. \A s \in Slots : ~Lives(s)
    BY DEF Crash, SerialInv, Alone, OrphanInv, Active, Resting
  <1>2. OrphanInv'
    BY <1>1 DEF Crash, OrphanInv, Lives
  <1>3. Alone' /\ StageInv'
    BY DEF Crash, files, history, request, TypeOK, SerialInv, Alone, Active, Resting,
           StageInv, Steps, Early, AsFound, Ours, Uploaded, NewestIsOurs
  <1> QED
    BY <1>2, <1>3 DEF SerialInv

-----------------------------------------------------------------------------
(* The inductive invariant *)

\* The inductive invariant holds initially,
LEMMA InitIInv == Init => IInv
  <1> SUFFICES ASSUME Init PROVE IInv
    OBVIOUS
  <1>1. FilesSound /\ HistoryValid
    BY DEF Init, FilesSound, HistoryValid
  <1>2. SerialInv
    BY DEF Init, SerialInv, Alone, Active, Resting, StageInv, Steps, Early, AsFound, OrphanInv, Lives
  <1> QED
    BY <1>1, <1>2, InitTypeOK DEF IInv

\* every step preserves it,
LEMMA NextIInv == IInv /\ [Next]_vars => IInv'
  <1> SUFFICES ASSUME IInv, [Next]_vars PROVE IInv'
    OBVIOUS
  <1>1. TypeOK /\ TypeOK' /\ FilesSound /\ HistoryValid
    BY NextTypeOK DEF IInv
  <1>2. ASSUME NEW j \in Jobs, Request(j)
        PROVE  FilesSound' /\ HistoryValid' /\ (~overlapped' => SerialInv')
    BY <1>1, <1>2, RequestFilesSound, RequestSerialInv
  <1>3. ASSUME NEW j \in Jobs, Step(j)
        PROVE  FilesSound' /\ HistoryValid' /\ (~overlapped' => SerialInv')
    <2>1. overlapped' = overlapped
      BY <1>3 DEF history, request, Step, Prepare, Upload, Check, Discard,
             Backup, Replace, Reload, Restore, ReloadBack, Record, Prune, Lost
    <2>2. CASE overlapped
      BY <1>1, <1>3, <2>1, <2>2, StepFilesSound, StepHistoryValid
    <2>3. CASE ~overlapped
      <3>1. SerialInv
        BY <2>3 DEF IInv
      <3>2. j = latest /\ Alone'
        BY <1>1, <1>3, <3>1, StepAlone DEF SerialInv
      <3>3. FilesSound' /\ HistoryValid'
        BY <1>1, <1>3, <3>1, <3>2, StepFilesSound, StepHistoryValid
      <3>4. StageInv' /\ OrphanInv'
        BY <1>1, <1>3, <3>1, <3>2, StepStageInv, StepOrphanInv
      <3> QED
        BY <3>2, <3>3, <3>4 DEF SerialInv
    <2> QED
      BY <2>2, <2>3
  <1>4. CASE Crash
    <2>1. FilesSound' /\ HistoryValid'
      BY <1>1, <1>4 DEF Crash, files, history, request, FilesSound, HistoryValid
    <2>2. ASSUME ~overlapped' PROVE SerialInv'
      <3>1. SerialInv
        BY <1>4, <2>2 DEF IInv, Crash, history, request
      <3> QED
        BY <1>1, <1>4, <3>1, CrashSerialInv
    <2> QED
      BY <1>1, <2>1, <2>2 DEF IInv
  <1>5. CASE UNCHANGED vars
    <2> USE <1>5 DEF vars, files, jobs, history, request
    <2>1. FilesSound' /\ HistoryValid'
      BY <1>1 DEF FilesSound, HistoryValid
    <2>2. ASSUME ~overlapped' PROVE SerialInv'
      BY <2>2 DEF IInv, SerialInv, Alone, Active, StageInv, AsFound, Ours, Uploaded, NewestIsOurs,
             OrphanInv, Lives
    <2> QED
      BY <1>1, <2>1, <2>2 DEF IInv
  <1>6. ASSUME NEW s \in Slots, Late(s)
        PROVE  FilesSound' /\ HistoryValid' /\ (~overlapped' => SerialInv')
    <2>1. overlapped' = overlapped
      BY <1>6 DEF Late, LateInstall, LateUpload, LateBackup, LateReplace, LateReload, LateRestore,
             Dies, history, request
    <2>2. overlapped \/ SerialInv
      BY DEF IInv
    <2>3. FilesSound' /\ HistoryValid'
      BY <1>1, <1>6, <2>2, LateFilesSound, LateHistoryValid
    <2> QED
      BY <1>1, <1>6, <2>1, <2>2, <2>3, LateSerialInv
  <1> QED
    BY <1>1, <1>2, <1>3, <1>4, <1>5, <1>6 DEF Next, IInv

\* and so it holds throughout.
LEMMA Invariance == Spec => []IInv
  BY InitIInv, NextIInv, PTL DEF Spec

-----------------------------------------------------------------------------
(* The properties *)

\* HAProxy never runs a text that haproxy -c refused, and config_path holds one
\* only where requests have overlapped.
THEOREM OnlyValidatedIsLiveHolds == Spec => []OnlyValidatedIsLive
  <1>1. IInv => OnlyValidatedIsLive
    BY DEF IInv, FilesSound, OnlyValidatedIsLive
  <1> QED
    BY <1>1, Invariance, PTL

\* A request that has not come to its activation has changed nothing.
THEOREM UntouchedBeforeActivationHolds == Spec => []UntouchedBeforeActivation
  <1>1. IInv => UntouchedBeforeActivation
    BY DEF IInv, SerialInv, StageInv, AsFound, UntouchedBeforeActivation
  <1> QED
    BY <1>1, Invariance, PTL

\* A failed request leaves the old text or its own.
THEOREM FailureLeavesOldOrNewHolds == Spec => []FailureLeavesOldOrNew
  <1>1. IInv => FailureLeavesOldOrNew
    BY DEF IInv, SerialInv, StageInv, FailureLeavesOldOrNew
  <1> QED
    BY <1>1, Invariance, PTL

\* What is reported as deployed is live.
THEOREM SuccessIsLiveHolds == Spec => []SuccessIsLive
  <1>1. IInv => SuccessIsLive
    BY DEF IInv, SerialInv, StageInv, Ours, SuccessIsLive
  <1> QED
    BY <1>1, Invariance, PTL

\* The history holds validated texts and strays, and after a success the live one.
THEOREM HistoryTracksLiveHolds == Spec => []HistoryTracksLive
  <1>1. IInv => HistoryTracksLive
    BY DEF IInv, SerialInv, HistoryValid, StageInv, Ours, NewestIsOurs, HistoryTracksLive
  <1> QED
    BY <1>1, Invariance, PTL

-----------------------------------------------------------------------------
(* Two properties that overlapping requests cannot break either *)

\* No command takes config_path away without putting a file in its place.
THEOREM ConfigNeverLostHolds == Spec => ConfigNeverLost
  <1>1. ASSUME [Next]_vars, live # NoFile PROVE live' # NoFile
    <2>1. ASSUME NEW j \in Jobs, Step(j) PROVE live' # NoFile
      BY <1>1, <2>1, ConfigsAssumption DEF Step, files, Prepare, Upload, Check, Discard, Backup,
             Replace, Reload, Restore, ReloadBack, Record, Prune, Lost,
             MovedIn, CopiedBack, CopyBroken
    <2>2. ASSUME NEW j \in Jobs, Request(j) PROVE live' # NoFile
      BY <1>1, <2>2 DEF Request, files
    <2>3. CASE Crash
      BY <1>1, <2>3 DEF Crash, files
    <2>4. ASSUME NEW s \in Slots, Late(s) PROVE live' # NoFile
      BY <1>1, <2>4, ConfigsAssumption DEF Late, LateInstall, LateUpload, LateBackup, LateReplace,
             LateReload, LateRestore, Dies, MovedIn, CopiedBack, CopyBroken, files
    <2>5. CASE UNCHANGED vars
      BY <1>1, <2>5 DEF vars, files
    <2> QED
      BY <1>1, <2>1, <2>2, <2>3, <2>4, <2>5 DEF Next
  <1>2. [Next]_vars => [live # NoFile => live' # NoFile]_vars
    BY <1>1
  <1> QED
    BY <1>2, PTL DEF Spec, ConfigNeverLost

\* A validation gets no further than its discard.
ValidationStops ==
  \A j \in Jobs :
    pc[j] \in {"backup", "replace", "reload", "restore", "reload_back", "record", "prune"}
      => mode[j] # "validate"

\* No step lets a mere validation past its discard.
LEMMA ValidationStopsInv == Spec => []ValidationStops
  <1>1. Init => ValidationStops
    BY DEF Init, ValidationStops
  <1>2. TypeOK /\ ValidationStops /\ [Next]_vars => ValidationStops'
    <2> SUFFICES ASSUME TypeOK, ValidationStops, [Next]_vars PROVE ValidationStops'
      OBVIOUS
    <2>1. ASSUME NEW j \in Jobs, Request(j) PROVE ValidationStops'
      BY <2>1 DEF Request, TypeOK, ValidationStops
    <2>2. ASSUME NEW j \in Jobs, Step(j) PROVE ValidationStops'
      BY <2>2 DEF Step, Goto, TypeOK, ValidationStops, Prepare, Upload, Check, Discard,
             Backup, Replace, Reload, Restore, ReloadBack, Record, Prune, Lost
    <2>3. CASE Crash
      BY <2>3 DEF Crash, ValidationStops
    <2>4. ASSUME NEW s \in Slots, Late(s) PROVE ValidationStops'
      BY <2>4 DEF Late, LateInstall, LateUpload, LateBackup, LateReplace, LateReload, LateRestore,
             Dies, jobs, ValidationStops
    <2>5. CASE UNCHANGED vars
      BY <2>5 DEF vars, jobs, ValidationStops
    <2> QED
      BY <2>1, <2>2, <2>3, <2>4, <2>5 DEF Next
  <1> QED
    BY <1>1, <1>2, TypeCorrect, PTL DEF Spec

\* Any number of validations at once leave the node as it is.
THEOREM ValidationIsReadOnlyHolds == Spec => ValidationIsReadOnly
  <1>1. ASSUME TypeOK, ValidationStops, [Next]_vars, OnlyValidations
        PROVE  UNCHANGED <<live, running>>
    <2>1. ASSUME NEW j \in Jobs, Step(j) PROVE UNCHANGED <<live, running>>
      <3>1. mode[j] = "validate"
        BY <1>1, <2>1, StepIsActive DEF OnlyValidations
      <3> QED
        BY <1>1, <2>1, <3>1 DEF ValidationStops, Step, Goto, files, Prepare, Upload,
               Check, Discard, Backup, Replace, Reload, Restore, ReloadBack, Record, Prune, Lost
    <2>2. ASSUME NEW j \in Jobs, Request(j) PROVE UNCHANGED <<live, running>>
      BY <2>2 DEF Request, files
    <2>3. CASE Crash
      BY <2>3 DEF Crash, files
    <2>4. ASSUME NEW s \in Slots, Late(s) PROVE UNCHANGED <<live, running>>
      <3>1. Lives(s) => orphan[s].at \notin {"backup", "replace", "reload", "restore", "reload_back"}
        BY <1>1 DEF OnlyValidations, Early
      <3> QED
        BY <2>4, <3>1 DEF Late, Ends, LateInstall, LateUpload, LateBackup, LateReplace, LateReload,
               LateRestore, Dies, files
    <2>5. CASE UNCHANGED vars
      BY <2>5 DEF vars, files
    <2> QED
      BY <1>1, <2>1, <2>2, <2>3, <2>4, <2>5 DEF Next
  <1>2. TypeOK /\ ValidationStops /\ [Next]_vars
          => [OnlyValidations => UNCHANGED <<live, running>>]_vars
    BY <1>1
  <1> QED
    BY <1>2, TypeCorrect, ValidationStopsInv, PTL DEF Spec, ValidationIsReadOnly
=============================================================================
