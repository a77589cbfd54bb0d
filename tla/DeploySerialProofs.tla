------------------------- MODULE DeploySerialProofs -------------------------
(***************************************************************************)
(* deploy_node, one request at a time but by any number of threads,        *)
(* implements AtomicDeploy: as nothing overlaps, the invariant of          *)
(* DeployProofs says at every step what the request found and left.        *)
(***************************************************************************)
EXTENDS DeploySerial, DeployProofs

\* No request starts while another is under way or its last command still runs.
LEMMA NeverOverlapped == SerialSpec => [](~overlapped)
  <1>1. Init => ~overlapped
    BY DEF Init
  <1>2. ~overlapped /\ [SerialNext]_vars => ~overlapped'
    BY DEF SerialNext, vars, history, request
  <1> QED
    BY <1>1, <1>2, PTL DEF SerialSpec

\* A behaviour of SerialSpec is one of Spec, so its invariant holds.
LEMMA SerialInvariance == SerialSpec => []IInv
  <1>1. [SerialNext]_vars => [Next]_vars
    BY DEF SerialNext
  <1> QED
    BY <1>1, InitIInv, NextIInv, PTL DEF SerialSpec

\* Each step of the latest request is a step of AtomicDeploy or invisible to it.
LEMMA StepSimulation ==
  ASSUME TypeOK, SerialInv, Step(latest)
  PROVE  Atomic!Next \/ UNCHANGED <<live, running, before.live>>
  <1> USE DEF SerialInv, history, request, files, Goto
  <1>1. CASE Replace(latest)
    BY <1>1 DEF Replace, MovedIn, StageInv, AsFound, Uploaded, Atomic!Next, Atomic!Activate
  <1>2. CASE Restore(latest)
    BY <1>2 DEF Restore, CopiedBack, CopyBroken, StageInv, Atomic!Next, Atomic!Undo
  <1>3. CASE Reload(latest) \/ ReloadBack(latest)
    BY <1>3, ConfigsAssumption DEF Reload, ReloadBack, Loaded, Atomic!Next, Atomic!Load
  <1>4. CASE Prepare(latest) \/ Upload(latest) \/ Check(latest) \/ Discard(latest)
               \/ Backup(latest) \/ Record(latest) \/ Prune(latest) \/ Lost(latest)
    BY <1>4 DEF Prepare, Upload, Check, Discard, Backup, Record, Prune, Lost
  <1> QED
    BY <1>1, <1>2, <1>3, <1>4 DEF Step

\* So is what a command does that runs on after its request has failed.
LEMMA LateSimulation ==
  ASSUME TypeOK, SerialInv, NEW s \in Slots, Late(s)
  PROVE  Atomic!Next \/ UNCHANGED <<live, running, before.live>>
  <1> USE DEF SerialInv, OrphanInv, history, request, files, Ends
  <1>1. CASE LateReplace(s)
    BY <1>1 DEF LateReplace, MovedIn, AsFound, Uploaded, Atomic!Next, Atomic!Activate
  <1>2. CASE LateRestore(s)
    BY <1>2 DEF LateRestore, CopiedBack, CopyBroken, Atomic!Next, Atomic!Undo
  <1>3. CASE LateReload(s)
    BY <1>3, ConfigsAssumption DEF LateReload, Loaded, Atomic!Next, Atomic!Load
  <1>4. CASE LateInstall(s) \/ LateUpload(s) \/ LateBackup(s) \/ Dies(s)
    BY <1>4 DEF LateInstall, LateUpload, LateBackup, Dies
  <1> QED
    BY <1>1, <1>2, <1>3, <1>4 DEF Late

\* One request at a time, the node's configuration changes as in AtomicDeploy.
THEOREM Implementation == SerialSpec => ImplementsAtomicDeploy
  <1>1. Init => Atomic!Init
    BY DEF Init, Sound, Atomic!Init
  <1>2. ASSUME IInv, ~overlapped, [SerialNext]_vars
        PROVE  [Atomic!Next]_<<live, running, before.live>>
    <2>1. TypeOK /\ SerialInv
      BY <1>2 DEF IInv
    <2>2. ASSUME NEW j \in Jobs, Request(j)
          PROVE  Atomic!Next
      <3>1. ~overlapped'
        BY <1>2 DEF SerialNext, vars, history, request
      <3> QED
        BY <2>2, <3>1 DEF Request, files, Atomic!Next, Atomic!Begin
    <2>3. ASSUME NEW j \in Jobs, Step(j)
          PROVE  Atomic!Next \/ UNCHANGED <<live, running, before.live>>
      <3>1. j = latest
        BY <2>1, <2>3, StepAlone DEF SerialInv
      <3> QED
        BY <2>1, <2>3, <3>1, StepSimulation
    <2>4. CASE Crash
      BY <2>4 DEF Crash, files, history, request
    <2>5. ASSUME NEW s \in Slots, Late(s)
          PROVE  Atomic!Next \/ UNCHANGED <<live, running, before.live>>
      BY <2>1, <2>5, LateSimulation
    <2>6. CASE UNCHANGED vars
      BY <2>6 DEF vars, files, history, request
    <2> QED
      BY <1>2, <2>2, <2>3, <2>4, <2>5, <2>6 DEF SerialNext, Next
  <1> QED
    BY <1>1, <1>2, SerialInvariance, NeverOverlapped, PTL
    DEF SerialSpec, ImplementsAtomicDeploy, Atomic!Spec
=============================================================================
