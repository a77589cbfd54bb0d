------------------------- MODULE CertLifecycleProofs -------------------------
(***************************************************************************)
(* Proofs about module CertLifecycle, for any number of threads that issue *)
(* and deliver one certificate at the same time, of generations and of     *)
(* restarts, whatever may go wrong.                                        *)
(*                                                                         *)
(* None of the properties but IssuingMeansAtWork is inductive.  KeptInv    *)
(* adds to ActiveHasFiles the thread that is about to record an expiry;    *)
(* PairInv says what a lone delivery has read and written at each of its   *)
(* steps, whatever overlapping ones have left on the node; FilesInv, that  *)
(* there are no files but the newest, and BoundInv, that nothing anywhere  *)
(* is newer, are why what it has read is never older than what is there.   *)
(* LateInv says the same of an upload that has outlived its delivery.      *)
(***************************************************************************)
EXTENDS CertLifecycle, TLAPS

Places == {"idle"} \cup Issuing \cup Delivering \cup Deleting
Job == [at : Places, renew : BOOLEAN, read : Gens, crt : Gens, key : Gens]
Pem == [crt : Gens, key : Gens]
Node == [crt : Gens, key : Gens, pem : Pem]
Upload == [at : {"gone"} \cup Uploads, crt : Gens, key : Gens]

\* At most one thread is at work if the last one began alone.
Lone == ~overlapped => \A t, u \in All : Busy(t) /\ Busy(u) => t = u

UnbornInv ==
  status = "unborn" => recorded = 0 /\ loop = "asleep" /\ \A t \in All : ~Busy(t)

FilesInv == disk \in {0, gen}

\* Nothing is newer than the newest generation.
BoundInv ==
  /\ recorded <= gen /\ node.pem.crt <= gen
  /\ \A t \in All : job[t].read <= gen /\ job[t].crt <= gen

KeptInv ==
  Exists /\ ~halfDeleted /\ (\A t \in All : ~At(t, "drop_row")) =>
    /\ recorded <= disk
    /\ \A t \in All : At(t, "activate") => job[t].read <= disk

Delivery(t) ==
  /\ job[t].at \in {"read_key", "put_crt", "put_key", "put_pem"} => job[t].crt = gen
  /\ job[t].at \in {"put_crt", "put_key", "put_pem"} => job[t].key = gen
  /\ job[t].at \in {"put_key", "put_pem"} => node.crt = gen
  /\ At(t, "put_pem") => node.key = gen

UnderWay(t) == job[t].at \in {"put_key", "put_pem"} => brokenOff

NodeSound ==
  ~brokenOff => node.crt = node.pem.crt /\ node.key = node.pem.crt /\ node.pem.key = node.pem.crt

PairInv == NodeSound /\ \A t \in All : UnderWay(t) /\ (~overlapped => Delivery(t))

\* What is left of a delivery is an upload of the pair it has read; nothing is
\* left beside a thread that is alone, or on a node that has got a whole delivery.
LateInv ==
  /\ \A s \in Slots : late[s].crt <= gen /\ (Lives(s) => brokenOff)
  /\ ~overlapped => \A s \in Slots : Lives(s) =>
       late[s].crt = gen /\ late[s].key = gen /\ \A t \in All : ~Busy(t)

IInv ==
  /\ TypeOK /\ Lone /\ UnbornInv /\ FilesInv /\ BoundInv /\ KeptInv
  /\ IssuingMeansAtWork /\ PairInv /\ LateInv

-----------------------------------------------------------------------------
(* Records *)

Placed(j, at) == [j EXCEPT !.at = at]
HasRead(j) == [j EXCEPT !.at = "activate", !.read = disk]
HasCrt(j) == [j EXCEPT !.at = "read_key", !.crt = disk]
HasKey(j) == [j EXCEPT !.at = "put_crt", !.key = disk]
Begun(at, renew) == [Idle EXCEPT !.at = at, !.renew = renew]

\* The parts of a typed state.
LEMMA Parts ==
  ASSUME TypeOK
  PROVE  /\ job \in [All -> Job] /\ node \in Node /\ late \in [Slots -> Upload]
         /\ recorded \in Gens /\ disk \in Gens /\ gen \in Gens /\ aged \in Gens /\ snapshot \in Gens
         /\ overlapped \in BOOLEAN /\ stranded \in BOOLEAN
         /\ halfDeleted \in BOOLEAN /\ brokenOff \in BOOLEAN
  BY DEF TypeOK, Job, Node, Pem, Upload, Places

\* The place of a job.
LEMMA PlacedFields ==
  ASSUME NEW j \in Job, NEW at \in Places
  PROVE  /\ Placed(j, at) \in Job /\ Placed(j, at).at = at /\ Placed(j, at).read = j.read
         /\ Placed(j, at).crt = j.crt /\ Placed(j, at).key = j.key
  BY DEF Placed, Job

\* What a job reads.
LEMMA ReadFields ==
  ASSUME NEW j \in Job, disk \in Gens
  PROVE  /\ HasRead(j) \in Job /\ HasRead(j).at = "activate"
         /\ HasRead(j).read = disk /\ HasRead(j).crt = j.crt
         /\ HasCrt(j) \in Job /\ HasCrt(j).at = "read_key"
         /\ HasCrt(j).read = j.read /\ HasCrt(j).crt = disk
         /\ HasKey(j) \in Job /\ HasKey(j).at = "put_crt"
         /\ HasKey(j).read = j.read /\ HasKey(j).crt = j.crt /\ HasKey(j).key = disk
  BY DEF HasRead, HasCrt, HasKey, Job, Places, Issuing, Delivering, Deleting

\* A job at its beginning, and none.
LEMMA BegunFields ==
  /\ Idle \in Job /\ Idle.at = "idle" /\ Idle.read = 0 /\ Idle.crt = 0
  /\ \A at \in Places, renew \in BOOLEAN :
       /\ Begun(at, renew) \in Job /\ Begun(at, renew).at = at
       /\ Begun(at, renew).read = 0 /\ Begun(at, renew).crt = 0
  <1>1. 0 \in Gens /\ "idle" \in Places
    BY LifecycleAssumption DEF Gens, Places
  <1>2. Idle \in Job /\ Idle.at = "idle" /\ Idle.read = 0 /\ Idle.crt = 0
    BY <1>1 DEF Idle, Job
  <1>3. ASSUME NEW at \in Places, NEW renew \in BOOLEAN
        PROVE  /\ Begun(at, renew) \in Job /\ Begun(at, renew).at = at
               /\ Begun(at, renew).read = 0 /\ Begun(at, renew).crt = 0
    BY <1>2 DEF Begun, Job
  <1> QED
    BY <1>2, <1>3

\* A step changes the job of its thread only.
LEMMA OneMoves ==
  ASSUME job \in [All -> Job], NEW t \in All, NEW j \in Job, job' = [job EXCEPT ![t] = j]
  PROVE  job' \in [All -> Job] /\ job'[t] = j /\ \A u \in All \ {t} : job'[u] = job[u]
  OBVIOUS

\* The newest generation, and the next.
LEMMA NextGenBounds ==
  ASSUME TypeOK
  PROVE  NextGen \in Gens /\ gen <= NextGen /\ gen \in Nat /\ 0 \in Gens
  BY LifecycleAssumption DEF TypeOK, Gens, NextGen

-----------------------------------------------------------------------------
(* A step of a thread at work *)

\* A job has nothing but what it had or what it takes from the files.
FromFiles(j, t) == j.read \in {0, disk, job[t].read} /\ j.crt \in {0, disk, job[t].crt}

LEMMA NothingNewer ==
  ASSUME IInv, TypeOK', gen <= gen', NEW t \in All, FromFiles(job'[t], t),
         \A u \in All \ {t} : job'[u] = job[u]
  PROVE  \A u \in All : job'[u].read <= gen' /\ job'[u].crt <= gen'
  <1>1. gen \in Nat /\ gen' \in Nat /\ disk \in {0, gen}
    BY Parts DEF IInv, TypeOK, FilesInv, Gens
  <1>2. \A u \in All : /\ job[u].read \in Nat /\ job[u].crt \in Nat
                       /\ job[u].read <= gen /\ job[u].crt <= gen
    BY Parts DEF IInv, BoundInv, Job, Gens
  <1>3. job'[t].read <= gen' /\ job'[t].crt <= gen'
    BY <1>1, <1>2 DEF FromFiles
  <1>4. ASSUME NEW u \in All \ {t} PROVE job'[u].read <= gen' /\ job'[u].crt <= gen'
    BY <1>1, <1>2
  <1> QED
    BY <1>3, <1>4

\* The parts of the invariant that hold by who is at work, and what is left.
LEMMA StepKeeps ==
  ASSUME IInv, TypeOK', NEW t \in All, Busy(t),
         \A u \in All \ {t} : job'[u] = job[u], FromFiles(job'[t], t),
         UNCHANGED overlapped, status' = "unborn" => status = "unborn",
         gen <= gen', recorded' <= gen', node'.pem.crt <= gen',
         FilesInv', KeptInv', IssuingMeansAtWork',
         brokenOff => brokenOff' \/ ~overlapped, UNCHANGED late \/ LateInv',
         NodeSound', UnderWay(t)', ~overlapped => Delivery(t)'
  PROVE  IInv'
  <1>1. Lone'
    BY DEF IInv, Lone, Busy
  <1>2. UnbornInv'
    BY DEF IInv, UnbornInv
  <1>3. BoundInv'
    BY NothingNewer DEF BoundInv
  <1>4. PairInv'
    <2> SUFFICES ASSUME NEW u \in All \ {t} PROVE UnderWay(u)' /\ (~overlapped' => Delivery(u)')
      BY DEF PairInv
    <2>1. ~overlapped => job'[u].at = "idle"
      BY DEF IInv, Lone, Busy
    <2>2. ~overlapped' => Delivery(u)'
      BY <2>1 DEF Delivery, At
    <2>3. UnderWay(u)'
      BY <2>1 DEF IInv, PairInv, UnderWay
    <2> QED
      BY <2>2, <2>3
  <1>5. LateInv'
    <2> SUFFICES ASSUME UNCHANGED late PROVE LateInv'
      OBVIOUS
    <2>1. gen \in Nat /\ gen' \in Nat /\ \A s \in Slots : late[s].crt \in Nat
      BY Parts DEF IInv, TypeOK, Upload, Gens
    <2>2. \A s \in Slots : late[s].crt <= gen'
      BY <2>1 DEF IInv, LateInv
    <2>3. ~overlapped => \A s \in Slots : ~Lives(s)
      BY DEF IInv, LateInv
    <2>4. \A s \in Slots : Lives(s) => brokenOff'
      BY <2>3 DEF IInv, LateInv
    <2> QED
      BY <2>2, <2>3, <2>4 DEF LateInv, Lives
  <1> QED
    BY <1>1, <1>2, <1>3, <1>4, <1>5 DEF IInv

\* No step but its own end takes a thread from its work.
WorksOn(j, t) ==
  /\ job[t].at \in {"lego", "read", "activate", "fail"} =>
       j.at \in {"lego", "read", "activate", "fail"}
  /\ job[t].at \in {"start", "mark"} /\ Exists => j.at \in {"start", "mark", "fail"}
  /\ At(t, "fail") => j.at = "fail"

LEMMA WorkKeeps ==
  ASSUME TypeOK, IssuingMeansAtWork, NEW t \in All, NEW j \in Job, WorksOn(j, t),
         job' = [job EXCEPT ![t] = j], UNCHANGED <<status, stranded>>
  PROVE  IssuingMeansAtWork'
  <1> SUFFICES ASSUME ~stranded
               PROVE  /\ status = "issuing" => \E u \in All : job'[u].at \in {"lego", "read", "activate", "fail"}
                      /\ status = "pending" => \E u \in All : job'[u].at \in {"start", "mark", "fail"}
    BY DEF IssuingMeansAtWork
  <1>1. job'[t] = j /\ \A u \in All \ {t} : job'[u] = job[u]
    BY Parts, OneMoves
  <1>2. ASSUME status = "issuing"
        PROVE  \E u \in All : job'[u].at \in {"lego", "read", "activate", "fail"}
    <2>1. PICK u \in All : job[u].at \in {"lego", "read", "activate", "fail"}
      BY <1>2 DEF IssuingMeansAtWork
    <2> QED
      BY <1>1, <2>1 DEF WorksOn, At
  <1>3. ASSUME status = "pending"
        PROVE  \E u \in All : job'[u].at \in {"start", "mark", "fail"}
    <2>1. PICK u \in All : job[u].at \in {"start", "mark", "fail"}
      BY <1>3 DEF IssuingMeansAtWork
    <2> QED
      BY <1>1, <1>3, <2>1 DEF WorksOn, Exists, At
  <1> QED
    BY <1>2, <1>3

\* A step that changes the thread's own job and nothing else.
LEMMA JobOnly ==
  ASSUME IInv, NEW t \in All, NEW j \in Job, Busy(t), ~At(t, "drop_row"),
         job' = [job EXCEPT ![t] = j],
         UNCHANGED <<row, files, aged, node, late, renewal, restarts, history>>,
         j.at = "activate" => j.read = disk, FromFiles(j, t),
         WorksOn(j, t), j.at \notin {"drop_row", "put_key", "put_pem"},
         ~overlapped => Delivery(t)'
  PROVE  IInv'
  <1>1. job' \in [All -> Job] /\ job'[t] = j /\ \A u \in All \ {t} : job'[u] = job[u]
    BY Parts, OneMoves DEF IInv
  <1>2. TypeOK'
    BY <1>1 DEF IInv, TypeOK, row, files, renewal, history, Job, Places
  <1>3. KeptInv'
    <2> SUFFICES ASSUME Exists, ~halfDeleted, \A u \in All : ~At(u, "drop_row")'
                 PROVE  /\ recorded <= disk
                        /\ \A u \in All : job'[u].at = "activate" => job'[u].read <= disk
      BY DEF KeptInv, Exists, At, row, files, history
    <2>1. /\ recorded <= disk
          /\ \A u \in All : At(u, "activate") => job[u].read <= disk
      BY <1>1 DEF IInv, KeptInv, At
    <2>2. disk <= disk
      BY Parts DEF IInv, Gens
    <2> QED
      BY <1>1, <2>1, <2>2 DEF At
  <1>4. IssuingMeansAtWork'
    BY WorkKeeps DEF IInv, row, history
  <1>5. FilesInv' /\ NodeSound' /\ UnderWay(t)' /\ (brokenOff => brokenOff')
    BY <1>1 DEF IInv, FilesInv, PairInv, NodeSound, UnderWay, files, history
  <1>6. gen <= gen' /\ recorded' <= gen' /\ node'.pem.crt <= gen'
    BY Parts DEF IInv, BoundInv, Gens, row, files
  <1> QED
    BY <1>1, <1>2, <1>3, <1>4, <1>5, <1>6, StepKeeps DEF row, history

-----------------------------------------------------------------------------
(* issue() *)

LEMMA StartInv ==
  ASSUME IInv, NEW t \in All, Start(t)
  PROVE  IInv'
  <1>1. PICK j : /\ job' = [job EXCEPT ![t] = j]
                 /\ (j = Idle /\ ~Exists) \/ j \in {Placed(job[t], "mark"), Placed(job[t], "fail")}
    <2>1. CASE ~Exists /\ Ends(t)
      BY <2>1 DEF Ends
    <2>2. CASE Exists /\ (Goto(t, "mark") \/ Goto(t, "fail"))
      BY <2>2 DEF Goto, Placed
    <2> QED
      BY <2>1, <2>2 DEF Start
  <1>2. /\ j \in Job /\ j.at \in {"idle", "mark", "fail"} /\ (j.at = "idle" => ~Exists)
        /\ FromFiles(j, t)
    <2>1. job[t] \in Job /\ "mark" \in Places /\ "fail" \in Places
      BY Parts DEF IInv, Places, Issuing
    <2> QED
      BY <1>1, <2>1, PlacedFields, BegunFields DEF FromFiles
  <1>3. job'[t] = j /\ At(t, "start")
    BY <1>1, <1>2, Parts, OneMoves DEF IInv, Start
  <1>4. Delivery(t)'
    BY <1>2, <1>3 DEF Delivery, At
  <1>5. WorksOn(j, t) /\ Busy(t) /\ ~At(t, "drop_row")
    BY <1>2, <1>3 DEF WorksOn, At, Busy
  <1> QED
    BY <1>1, <1>2, <1>4, <1>5, JobOnly DEF Start

LEMMA ReadInv ==
  ASSUME IInv, NEW t \in All, Read(t)
  PROVE  IInv'
  <1>1. job' = [job EXCEPT ![t] = HasRead(job[t])] /\ At(t, "read")
    BY DEF Read, HasRead
  <1> DEFINE j == HasRead(job[t])
  <1>2. j \in Job /\ j.at = "activate" /\ j.read = disk /\ FromFiles(j, t)
    BY Parts, ReadFields DEF IInv, FromFiles
  <1> HIDE DEF j
  <1>3. job'[t] = j
    BY <1>1, <1>2, Parts, OneMoves DEF IInv, j
  <1>4. Delivery(t)' /\ WorksOn(j, t) /\ Busy(t) /\ ~At(t, "drop_row")
    BY <1>1, <1>2, <1>3 DEF Delivery, At, WorksOn, Busy
  <1> QED
    BY <1>1, <1>2, <1>4, JobOnly DEF Read, j

LEMMA ReadCrtInv ==
  ASSUME IInv, NEW t \in All, ReadCrt(t)
  PROVE  IInv'
  <1>1. PICK j \in {Idle, HasCrt(job[t])} :
          job' = [job EXCEPT ![t] = j] /\ (j = Idle \/ disk # 0)
    BY DEF ReadCrt, Ends, HasCrt
  <1>2. /\ j \in Job /\ FromFiles(j, t)
        /\ j.at = "idle" \/ (j.at = "read_key" /\ j.crt = disk /\ disk # 0)
    BY <1>1, Parts, ReadFields, BegunFields DEF IInv, FromFiles
  <1>3. job'[t] = j /\ At(t, "read_crt")
    BY <1>1, <1>2, Parts, OneMoves DEF IInv, ReadCrt
  <1>4. Delivery(t)'
    BY <1>2, <1>3 DEF Delivery, At, IInv, FilesInv, ReadCrt, files
  <1>5. /\ WorksOn(j, t) /\ Busy(t) /\ ~At(t, "drop_row")
        /\ j.at \notin {"activate", "drop_row", "put_key", "put_pem"}
    BY <1>2, <1>3 DEF WorksOn, At, Busy
  <1> QED
    BY <1>1, <1>2, <1>4, <1>5, JobOnly DEF ReadCrt

LEMMA ReadKeyInv ==
  ASSUME IInv, NEW t \in All, ReadKey(t)
  PROVE  IInv'
  <1>1. PICK j \in {Idle, HasKey(job[t])} :
          job' = [job EXCEPT ![t] = j] /\ (j = Idle \/ disk # 0)
    BY DEF ReadKey, Ends, HasKey
  <1>2. /\ j \in Job /\ FromFiles(j, t)
        /\ j.at = "idle" \/ (j.at = "put_crt" /\ j.key = disk /\ j.crt = job[t].crt /\ disk # 0)
    BY <1>1, Parts, ReadFields, BegunFields DEF IInv, FromFiles
  <1>3. job'[t] = j /\ At(t, "read_key")
    BY <1>1, <1>2, Parts, OneMoves DEF IInv, ReadKey
  <1>4. ~overlapped => Delivery(t)'
    <2> SUFFICES ASSUME ~overlapped PROVE Delivery(t)'
      OBVIOUS
    <2>1. job[t].crt = gen
      BY <1>3 DEF IInv, PairInv, Delivery, At
    <2> QED
      BY <1>2, <1>3, <2>1 DEF Delivery, At, IInv, FilesInv, ReadKey, files
  <1>5. /\ WorksOn(j, t) /\ Busy(t) /\ ~At(t, "drop_row")
        /\ j.at \notin {"activate", "drop_row", "put_key", "put_pem"}
    BY <1>2, <1>3 DEF WorksOn, At, Busy
  <1> QED
    BY <1>1, <1>2, <1>4, <1>5, JobOnly DEF ReadKey

LEMMA BreaksOffInv ==
  ASSUME IInv, NEW t \in All, BreaksOff(t)
  PROVE  IInv'
  <1>1. job' = [job EXCEPT ![t] = Idle] /\ job[t].at \in {"put_crt", "put_key", "put_pem"}
    BY DEF BreaksOff, Ends, Uploads
  <1>2. Idle \in Job /\ Idle.at = "idle" /\ FromFiles(Idle, t)
    BY BegunFields DEF FromFiles
  <1>3. job'[t] = Idle
    BY <1>1, <1>2, Parts, OneMoves DEF IInv
  <1>4. Delivery(t)' /\ WorksOn(Idle, t) /\ Busy(t) /\ ~At(t, "drop_row")
    BY <1>1, <1>2, <1>3 DEF Delivery, At, WorksOn, Busy
  <1> QED
    BY <1>1, <1>2, <1>4, JobOnly DEF BreaksOff

\* lego is the only one to change the files, but for a deletion.
LEMMA LegoInv ==
  ASSUME IInv, NEW t \in All, LegoSucceeds(t) \/ LegoFails(t)
  PROVE  IInv'
  <1>1. PICK at \in {"read", "fail"} : job' = [job EXCEPT ![t] = Placed(job[t], at)]
    BY DEF LegoSucceeds, LegoFails, Goto, Placed
  <1> DEFINE j == Placed(job[t], at)
  <1>2. j \in Job /\ j.at = at /\ FromFiles(j, t)
    <2>1. job[t] \in Job /\ at \in Places
      BY Parts DEF IInv, Places, Issuing
    <2> QED
      BY <2>1, PlacedFields DEF FromFiles
  <1> HIDE DEF j
  <1>3. job' = [job EXCEPT ![t] = j]
    BY <1>1 DEF j
  <1>4. job' \in [All -> Job] /\ job'[t] = j /\ \A u \in All \ {t} : job'[u] = job[u]
    BY <1>2, <1>3, Parts, OneMoves DEF IInv
  <1>5. /\ At(t, "lego") /\ Busy(t)
        /\ UNCHANGED <<row, aged, node, late, renewal, restarts, overlapped, stranded, brokenOff>>
    BY DEF LegoSucceeds, LegoFails, At, Busy
  <1>6. UNCHANGED <<files, halfDeleted>> \/ Stores
    BY DEF LegoSucceeds, LegoFails
  <1>7. /\ gen' \in Gens /\ disk' \in Gens /\ gen <= gen' /\ disk <= disk' /\ FilesInv'
        /\ gen \in Nat /\ gen' \in Nat /\ disk \in Nat /\ disk' \in Nat
    <2>1. gen \in Gens /\ disk \in Gens
      BY Parts DEF IInv
    <2>2. NextGen \in Gens /\ gen <= NextGen
      BY NextGenBounds DEF IInv
    <2> QED
      BY <1>6, <2>1, <2>2 DEF IInv, FilesInv, files, Gens, Stores
  <1>8. TypeOK'
    <2>1. halfDeleted' \in BOOLEAN
      BY <1>6, Parts DEF IInv, Stores
    <2> QED
      BY <1>4, <1>5, <1>7, <2>1 DEF IInv, TypeOK, row, renewal, Job, Places
  <1>9. recorded \in Nat /\ node.pem.crt \in Nat /\ \A u \in All : job'[u].read \in Nat
    BY <1>4, Parts DEF IInv, Gens, Job, Node, Pem
  <1>10. recorded' <= gen' /\ node'.pem.crt <= gen' /\ \A u \in All : job'[u].read <= gen'
    <2>1. recorded' <= gen' /\ node'.pem.crt <= gen'
      BY <1>5, <1>7, <1>9 DEF IInv, BoundInv, row
    <2>2. \A u \in All : job'[u].read <= gen'
      BY <1>2, <1>4, <1>7, <1>8, NothingNewer
    <2> QED
      BY <2>1, <2>2
  \* New files are there whatever a deletion has done; otherwise nothing changed.
  <1>11. KeptInv'
    <2> SUFFICES ASSUME Exists, ~halfDeleted', \A u \in All : ~At(u, "drop_row")'
                 PROVE  /\ recorded <= disk'
                        /\ \A u \in All : job'[u].at = "activate" => job'[u].read <= disk'
      BY <1>5 DEF KeptInv, Exists, At, row
    <2>1. CASE Stores
      BY <1>5, <1>10, <2>1 DEF Stores, row
    <2>2. CASE UNCHANGED <<files, halfDeleted>>
      <3>1. /\ recorded <= disk
            /\ \A u \in All : At(u, "activate") => job[u].read <= disk
        BY <1>4, <1>5, <2>2 DEF IInv, KeptInv, At
      <3> QED
        BY <1>2, <1>4, <2>2, <3>1 DEF At, files
    <2> QED
      BY <1>6, <2>1, <2>2
  <1>12. IssuingMeansAtWork'
    <2>1. WorksOn(j, t)
      BY <1>2, <1>5 DEF WorksOn, At
    <2> QED
      BY <1>2, <1>3, <1>5, <2>1, WorkKeeps DEF IInv, row
  <1>13. NodeSound' /\ UnderWay(t)' /\ Delivery(t)' /\ (brokenOff => brokenOff')
    BY <1>2, <1>4, <1>5 DEF IInv, PairInv, NodeSound, UnderWay, Delivery, At
  <1>14. status' = status /\ overlapped' = overlapped
    BY <1>5 DEF row
  <1> QED
    BY <1>2, <1>4, <1>5, <1>7, <1>8, <1>10, <1>11, <1>12, <1>13, <1>14, StepKeeps

\* A commit of a new status: done, or the thread dies of the locked database.
LEMMA SetFacts ==
  ASSUME IInv, NEW t \in All, NEW new, NEW next \in {"lego", "read_crt", "idle"}, Set(t, new, next)
  PROVE  \E j \in Job :
           /\ job' = [job EXCEPT ![t] = j] /\ FromFiles(j, t)
           /\ \/ /\ status' = IF Exists THEN new ELSE status
                 /\ j.at = next /\ stranded' = FALSE
              \/ UNCHANGED status /\ j.at = "idle" /\ stranded' = TRUE
  <1>1. job[t] \in Job /\ next \in Places
    BY Parts DEF IInv, Places, Issuing, Delivering
  <1>2. CASE /\ status' = IF Exists THEN new ELSE status
             /\ IF next = "idle" THEN Ends(t) ELSE Goto(t, next)
             /\ stranded' = FALSE
    <2>1. CASE next = "idle"
      BY <1>2, <2>1, BegunFields DEF Ends, FromFiles
    <2>2. CASE next # "idle"
      <3>1. job' = [job EXCEPT ![t] = Placed(job[t], next)]
        BY <1>2, <2>2 DEF Goto, Placed
      <3>2. Placed(job[t], next) \in Job /\ Placed(job[t], next).at = next
        BY <1>1, PlacedFields
      <3>3. FromFiles(Placed(job[t], next), t)
        BY <1>1, PlacedFields DEF FromFiles
      <3> QED
        BY <1>2, <2>2, <3>1, <3>2, <3>3
    <2> QED
      BY <2>1, <2>2
  <1>3. CASE Ends(t) /\ stranded' = TRUE /\ UNCHANGED status
    BY <1>3, BegunFields DEF Ends, FromFiles
  <1> QED
    BY <1>2, <1>3 DEF Set

LEMMA MarkInv ==
  ASSUME IInv, NEW t \in All, Mark(t)
  PROVE  IInv'
  <1>1. PICK j \in Job :
          /\ job' = [job EXCEPT ![t] = j] /\ FromFiles(j, t)
          /\ \/ /\ status' = IF Exists THEN "issuing" ELSE status
                /\ j.at = "lego" /\ stranded' = FALSE
             \/ UNCHANGED status /\ j.at = "idle" /\ stranded' = TRUE
    BY SetFacts DEF Mark
  <1>2. job' \in [All -> Job] /\ job'[t] = j /\ \A u \in All \ {t} : job'[u] = job[u]
    BY <1>1, Parts, OneMoves DEF IInv
  <1>3. /\ At(t, "mark") /\ Busy(t) /\ (status' = "unborn" => status = "unborn") /\ (Exists' => Exists)
        /\ UNCHANGED <<auto, recorded, files, aged, node, late, renewal, restarts, overlapped, halfDeleted, brokenOff>>
    BY <1>1 DEF Mark, At, Busy, Exists
  <1>4. TypeOK'
    BY <1>1, <1>2, <1>3 DEF IInv, TypeOK, files, renewal, Job, Places
  <1>5. KeptInv'
    BY <1>1, <1>2, <1>3 DEF IInv, KeptInv, At, files
  <1>6. IssuingMeansAtWork'
    BY <1>1, <1>2, <1>3 DEF IInv, IssuingMeansAtWork, Exists
  <1>7. FilesInv' /\ NodeSound' /\ UnderWay(t)' /\ Delivery(t)' /\ (brokenOff => brokenOff')
    BY <1>1, <1>2, <1>3 DEF IInv, FilesInv, PairInv, NodeSound, UnderWay, Delivery, At, files
  <1>8. gen <= gen' /\ recorded' <= gen' /\ node'.pem.crt <= gen'
    BY <1>3, Parts DEF IInv, BoundInv, Gens, files
  <1> QED
    BY <1>1, <1>2, <1>3, <1>4, <1>5, <1>6, <1>7, <1>8, StepKeeps

LEMMA ActivateInv ==
  ASSUME IInv, NEW t \in All, Activate(t)
  PROVE  IInv'
  <1>1. PICK j \in Job :
          /\ job' = [job EXCEPT ![t] = j] /\ FromFiles(j, t)
          /\ \/ /\ status' = IF Exists THEN "active" ELSE status
                /\ j.at = "read_crt" /\ stranded' = FALSE
             \/ UNCHANGED status /\ j.at = "idle" /\ stranded' = TRUE
    BY SetFacts DEF Activate
  <1>2. job' \in [All -> Job] /\ job'[t] = j /\ \A u \in All \ {t} : job'[u] = job[u]
    BY <1>1, Parts, OneMoves DEF IInv
  <1>3. /\ At(t, "activate") /\ Busy(t) /\ (status' = "unborn" => status = "unborn") /\ (Exists' => Exists)
        /\ UNCHANGED <<auto, files, aged, node, late, renewal, restarts, overlapped, halfDeleted, brokenOff>>
    BY <1>1 DEF Activate, At, Busy, Exists
  <1>4. recorded' = recorded \/ recorded' = job[t].read
    BY DEF Activate
  <1>5. TypeOK'
    <2>1. job[t].read \in Gens
      BY Parts DEF IInv, Job
    <2>2. recorded' \in Gens
      BY <1>4, <2>1, Parts DEF IInv
    <2>3. status' \in {"unborn", "pending", "issuing", "active", "error", "deleted"}
      BY <1>1 DEF IInv, TypeOK
    <2>4. stranded' \in BOOLEAN
      BY <1>1, Parts DEF IInv
    <2>5. auto' \in BOOLEAN /\ node' = node /\ late' = late /\ restarts' = restarts
      BY <1>3 DEF IInv, TypeOK
    <2>6. disk' = disk /\ gen' = gen /\ aged' = aged /\ snapshot' = snapshot /\ loop' = loop
      BY <1>3 DEF files, renewal
    <2>7. overlapped' = overlapped /\ halfDeleted' = halfDeleted /\ brokenOff' = brokenOff
      BY <1>3
    <2> QED
      BY <1>2, <2>2, <2>3, <2>4, <2>5, <2>6, <2>7 DEF IInv, TypeOK, Job, Places
  <1>6. KeptInv'
    BY <1>1, <1>2, <1>3, <1>4 DEF IInv, KeptInv, At, files
  <1>7. IssuingMeansAtWork'
    BY <1>1, <1>2, <1>3 DEF IInv, IssuingMeansAtWork, Exists
  <1>8. FilesInv' /\ NodeSound' /\ UnderWay(t)' /\ Delivery(t)' /\ (brokenOff => brokenOff')
    BY <1>1, <1>2, <1>3 DEF IInv, FilesInv, PairInv, NodeSound, UnderWay, Delivery, At, files
  <1>9. gen <= gen' /\ recorded' <= gen' /\ node'.pem.crt <= gen'
    BY <1>3, <1>4, Parts DEF IInv, BoundInv, Gens, files
  <1> QED
    BY <1>1, <1>2, <1>3, <1>5, <1>6, <1>7, <1>8, <1>9, StepKeeps

LEMMA FailInv ==
  ASSUME IInv, NEW t \in All, Fail(t)
  PROVE  IInv'
  <1>1. PICK j \in Job :
          /\ job' = [job EXCEPT ![t] = j] /\ FromFiles(j, t) /\ j.at = "idle"
          /\ \/ status' = (IF Exists THEN "error" ELSE status) /\ stranded' = FALSE
             \/ UNCHANGED status /\ stranded' = TRUE
    BY SetFacts DEF Fail
  <1>2. job' \in [All -> Job] /\ job'[t] = j /\ \A u \in All \ {t} : job'[u] = job[u]
    BY <1>1, Parts, OneMoves DEF IInv
  <1>3. /\ At(t, "fail") /\ Busy(t) /\ (status' = "unborn" => status = "unborn") /\ (Exists' => Exists)
        /\ UNCHANGED <<auto, recorded, files, aged, node, late, renewal, restarts, overlapped, halfDeleted, brokenOff>>
    BY <1>1 DEF Fail, At, Busy, Exists
  <1>4. TypeOK'
    BY <1>1, <1>2, <1>3 DEF IInv, TypeOK, files, renewal, Job, Places
  <1>5. KeptInv'
    BY <1>1, <1>2, <1>3 DEF IInv, KeptInv, At, files
  <1>6. IssuingMeansAtWork'
    BY <1>1, <1>2, <1>3 DEF IInv, IssuingMeansAtWork, Exists
  <1>7. FilesInv' /\ NodeSound' /\ UnderWay(t)' /\ Delivery(t)' /\ (brokenOff => brokenOff')
    BY <1>1, <1>2, <1>3 DEF IInv, FilesInv, PairInv, NodeSound, UnderWay, Delivery, At, files
  <1>8. gen <= gen' /\ recorded' <= gen' /\ node'.pem.crt <= gen'
    BY <1>3, Parts DEF IInv, BoundInv, Gens, files
  <1> QED
    BY <1>1, <1>2, <1>3, <1>4, <1>5, <1>6, <1>7, <1>8, StepKeeps

\* A thread that dies of its settings leaves everything else as it is.
LEMMA SettingsRaiseInv ==
  ASSUME IInv, NEW t \in All, SettingsRaise(t)
  PROVE  IInv'
  <1>1. Idle \in Job /\ job' = [job EXCEPT ![t] = Idle] /\ FromFiles(Idle, t) /\ Idle.at = "idle"
    BY BegunFields DEF SettingsRaise, Ends, FromFiles
  <1>2. job' \in [All -> Job] /\ job'[t] = Idle /\ \A u \in All \ {t} : job'[u] = job[u]
    BY <1>1, Parts, OneMoves DEF IInv
  <1>3. /\ At(t, "lego") /\ Busy(t) /\ stranded' = TRUE /\ (Exists' => Exists)
        /\ UNCHANGED <<status, auto, recorded, files, aged, node, late, renewal, restarts,
                       overlapped, halfDeleted, brokenOff>>
    BY DEF SettingsRaise, At, Busy, row, Exists
  <1>4. TypeOK'
    BY <1>2, <1>3 DEF IInv, TypeOK, files, renewal, Job, Places
  <1>5. KeptInv'
    BY <1>1, <1>2, <1>3 DEF IInv, KeptInv, At, files
  <1>6. IssuingMeansAtWork'
    BY <1>3 DEF IssuingMeansAtWork
  <1>7. FilesInv' /\ NodeSound' /\ UnderWay(t)' /\ Delivery(t)' /\ (brokenOff => brokenOff')
    BY <1>1, <1>2, <1>3 DEF IInv, FilesInv, PairInv, NodeSound, UnderWay, Delivery, At, files
  <1>8. gen <= gen' /\ recorded' <= gen' /\ node'.pem.crt <= gen'
    BY <1>3, Parts DEF IInv, BoundInv, Gens, files
  <1> QED
    BY <1>1, <1>2, <1>3, <1>4, <1>5, <1>6, <1>7, <1>8, StepKeeps

-----------------------------------------------------------------------------
(* The writes of a delivery, and a deletion *)

\* The node's files after a write.
LEMMA NodeFields ==
  ASSUME TypeOK, NEW c \in Gens, NEW k \in Gens
  PROVE  /\ [node EXCEPT !.crt = c] \in Node /\ [node EXCEPT !.crt = c].crt = c
         /\ [node EXCEPT !.crt = c].key = node.key /\ [node EXCEPT !.crt = c].pem = node.pem
         /\ [node EXCEPT !.key = k] \in Node /\ [node EXCEPT !.key = k].key = k
         /\ [node EXCEPT !.key = k].crt = node.crt /\ [node EXCEPT !.key = k].pem = node.pem
         /\ [node EXCEPT !.pem = [crt |-> c, key |-> k]] \in Node
         /\ [node EXCEPT !.pem = [crt |-> c, key |-> k]].pem.crt = c
         /\ [node EXCEPT !.pem = [crt |-> c, key |-> k]].pem.key = k
         /\ [node EXCEPT !.pem = [crt |-> c, key |-> k]].crt = node.crt
         /\ [node EXCEPT !.pem = [crt |-> c, key |-> k]].key = node.key
  BY Parts DEF Node, Pem

\* What every step of a delivery leaves alone.
LEMMA DeliveryKeeps ==
  ASSUME IInv, NEW t \in All, NEW j \in Job, job[t].at \in {"put_crt", "put_key", "put_pem"},
         j.at \in {"put_key", "put_pem", "idle"}, job' = [job EXCEPT ![t] = j],
         node' \in Node, brokenOff' \in BOOLEAN,
         late' \in [Slots -> Upload], UNCHANGED late \/ LateInv',
         UNCHANGED <<row, files, aged, renewal, restarts, overlapped, stranded, halfDeleted>>,
         FromFiles(j, t), node'.pem.crt <= gen, brokenOff => brokenOff' \/ ~overlapped,
         NodeSound', UnderWay(t)', ~overlapped => Delivery(t)'
  PROVE  IInv'
  <1>1. job' \in [All -> Job] /\ job'[t] = j /\ \A u \in All \ {t} : job'[u] = job[u]
    BY Parts, OneMoves DEF IInv
  <1>2. TypeOK'
    BY <1>1 DEF IInv, TypeOK, row, files, renewal, Job, Places, Node, Pem, Upload
  <1>3. KeptInv'
    BY <1>1 DEF IInv, KeptInv, At, Exists, row, files
  <1>4. IssuingMeansAtWork'
    <2>1. WorksOn(j, t)
      BY DEF WorksOn, At
    <2> QED
      BY <2>1, WorkKeeps DEF IInv, row
  <1>5. FilesInv' /\ Busy(t)
    BY DEF IInv, FilesInv, Busy, files
  <1>6. gen <= gen' /\ recorded' <= gen' /\ node'.pem.crt <= gen'
    BY Parts DEF IInv, BoundInv, Gens, row, files
  <1> QED
    BY <1>1, <1>2, <1>3, <1>4, <1>5, <1>6, StepKeeps DEF row

LEMMA PutCrtInv ==
  ASSUME IInv, NEW t \in All, PutCrt(t)
  PROVE  IInv'
  <1> DEFINE j == Placed(job[t], "put_key")
  <1>1. job' = [job EXCEPT ![t] = j] /\ At(t, "put_crt") /\ brokenOff'
    BY DEF PutCrt, Goto, Placed
  <1>2. job[t] \in Job /\ job[t].crt \in Gens /\ "put_key" \in Places
    BY Parts DEF IInv, Job, Places, Delivering
  <1>3. j \in Job /\ j.at = "put_key" /\ j.crt = job[t].crt /\ j.key = job[t].key /\ FromFiles(j, t)
    BY <1>2, PlacedFields DEF FromFiles
  <1> HIDE DEF j
  <1>4. node' \in Node /\ node'.crt = job[t].crt /\ node'.pem = node.pem
    BY <1>2, NodeFields DEF IInv, PutCrt
  <1>5. job'[t] = j
    BY <1>1, <1>3, Parts, OneMoves DEF IInv
  <1>6. NodeSound' /\ UnderWay(t)' /\ (~overlapped => Delivery(t)')
    BY <1>1, <1>3, <1>4, <1>5 DEF IInv, PairInv, NodeSound, UnderWay, Delivery, At, PutCrt, files
  <1>7. brokenOff' \in BOOLEAN /\ node'.pem.crt <= gen /\ late' \in [Slots -> Upload]
    BY <1>4, Parts DEF PutCrt, IInv, BoundInv
  <1> QED
    BY <1>1, <1>3, <1>4, <1>6, <1>7, DeliveryKeeps DEF PutCrt, At

LEMMA PutKeyInv ==
  ASSUME IInv, NEW t \in All, PutKey(t)
  PROVE  IInv'
  <1> DEFINE j == Placed(job[t], "put_pem")
  <1>1. job' = [job EXCEPT ![t] = j] /\ At(t, "put_key") /\ UNCHANGED history
    BY DEF PutKey, Goto, Placed
  <1>2. job[t] \in Job /\ job[t].key \in Gens /\ "put_pem" \in Places
    BY Parts DEF IInv, Job, Places, Delivering
  <1>3. j \in Job /\ j.at = "put_pem" /\ j.crt = job[t].crt /\ j.key = job[t].key /\ FromFiles(j, t)
    BY <1>2, PlacedFields DEF FromFiles
  <1> HIDE DEF j
  <1>4. node' \in Node /\ node'.key = job[t].key /\ node'.crt = node.crt /\ node'.pem = node.pem
    BY <1>2, NodeFields DEF IInv, PutKey
  <1>5. job'[t] = j
    BY <1>1, <1>3, Parts, OneMoves DEF IInv
  <1>6. NodeSound' /\ UnderWay(t)' /\ (~overlapped => Delivery(t)')
    BY <1>1, <1>3, <1>4, <1>5 DEF IInv, PairInv, NodeSound, UnderWay, Delivery, At, PutKey, files, history
  <1>7. /\ brokenOff' \in BOOLEAN /\ UNCHANGED <<overlapped, stranded, halfDeleted, brokenOff>>
        /\ node'.pem.crt <= gen /\ late' \in [Slots -> Upload]
    BY <1>1, <1>4, Parts DEF PutKey, IInv, BoundInv, history
  <1> QED
    BY <1>1, <1>3, <1>4, <1>6, <1>7, DeliveryKeeps DEF PutKey, At

LEMMA PutPemInv ==
  ASSUME IInv, NEW t \in All, PutPem(t)
  PROVE  IInv'
  <1>1. job' = [job EXCEPT ![t] = Idle] /\ At(t, "put_pem") /\ brokenOff' = overlapped
    BY DEF PutPem, Ends
  <1>2. job[t].crt \in Gens /\ job[t].key \in Gens
    BY Parts DEF IInv, Job
  <1>3. /\ node' \in Node /\ node'.key = node.key /\ node'.crt = node.crt
        /\ node'.pem.crt = job[t].crt /\ node'.pem.key = job[t].key
    BY <1>2, NodeFields DEF IInv, PutPem
  <1>4. Idle \in Job /\ Idle.at = "idle" /\ FromFiles(Idle, t)
    BY BegunFields DEF FromFiles
  <1>5. job'[t] = Idle
    BY <1>1, <1>4, Parts, OneMoves DEF IInv
  <1>6. NodeSound'
    <2> SUFFICES ASSUME ~overlapped PROVE NodeSound'
      BY <1>1 DEF NodeSound
    <2>1. job[t].crt = gen /\ job[t].key = gen /\ node.crt = gen /\ node.key = gen
      BY <1>1 DEF IInv, PairInv, Delivery, At
    <2> QED
      BY <1>3, <2>1 DEF NodeSound
  <1>7. UnderWay(t)' /\ Delivery(t)'
    BY <1>4, <1>5 DEF UnderWay, Delivery, At
  <1>8. /\ node'.pem.crt <= gen /\ brokenOff' \in BOOLEAN /\ (brokenOff' \/ ~overlapped)
        /\ late' \in [Slots -> Upload]
    BY <1>1, <1>3, Parts DEF PutPem, IInv, BoundInv
  <1> QED
    BY <1>1, <1>3, <1>4, <1>6, <1>7, <1>8, DeliveryKeeps DEF PutPem, At

\* The upload that is given up is that of the pair which the thread has read.
LEMMA LostInv ==
  ASSUME IInv, NEW t \in All, Lost(t)
  PROVE  IInv'
  <1>1. /\ job' = [job EXCEPT ![t] = Idle] /\ job[t].at \in Uploads /\ brokenOff' = TRUE
        /\ UNCHANGED <<row, files, aged, node, renewal, restarts, overlapped, stranded, halfDeleted>>
    BY DEF Lost, Ends
  <1> DEFINE u == [at |-> job[t].at, crt |-> job[t].crt, key |-> job[t].key]
  <1>2. PICK s \in Slots : late' = [late EXCEPT ![s] = u]
    BY DEF Lost
  <1>3. u \in Upload /\ u.crt = job[t].crt /\ u.key = job[t].key
    BY <1>1, Parts DEF IInv, Job, Upload
  <1> HIDE DEF u
  <1>4. late' \in [Slots -> Upload] /\ late'[s] = u /\ \A r \in Slots \ {s} : late'[r] = late[r]
    BY <1>2, <1>3, Parts DEF IInv
  <1>5. Idle \in Job /\ Idle.at = "idle" /\ FromFiles(Idle, t)
    BY BegunFields DEF FromFiles
  <1>6. job'[t] = Idle /\ \A r \in All \ {t} : job'[r] = job[r]
    BY <1>1, <1>5, Parts, OneMoves DEF IInv
  <1>7. LateInv'
    <2>1. \A r \in Slots : late'[r].crt <= gen
      BY <1>3, <1>4 DEF IInv, LateInv, BoundInv
    <2>2. ASSUME ~overlapped
          PROVE  /\ \A r \in Slots \ {s} : ~Lives(r)
                 /\ u.crt = gen /\ u.key = gen /\ \A r \in All : ~Busy(r)'
      <3>1. Busy(t) /\ \A r \in All \ {t} : ~Busy(r)
        BY <1>1, <2>2 DEF IInv, Lone, Busy, Uploads
      <3>2. \A r \in All : ~Busy(r)'
        BY <1>5, <1>6, <3>1 DEF Busy
      <3>3. u.crt = gen /\ u.key = gen
        BY <1>1, <1>3, <2>2 DEF IInv, PairInv, Delivery, Uploads
      <3> QED
        BY <2>2, <3>1, <3>2, <3>3 DEF IInv, LateInv
    <2> QED
      BY <1>1, <1>4, <2>1, <2>2 DEF LateInv, Lives, files
  <1>8. NodeSound' /\ UnderWay(t)' /\ Delivery(t)'
    BY <1>1, <1>5, <1>6 DEF NodeSound, UnderWay, Delivery, At
  <1>9. node' \in Node /\ node'.pem.crt <= gen /\ brokenOff' \in BOOLEAN
    BY <1>1, Parts DEF IInv, BoundInv
  <1> QED
    BY <1>1, <1>4, <1>5, <1>7, <1>8, <1>9, DeliveryKeeps DEF Uploads

\* What an upload that is left leaves alone, however it ends.
LEMMA LateKeeps ==
  ASSUME IInv, NEW s \in Slots, Lives(s), late' = [late EXCEPT ![s] = Gone],
         node' \in Node, node'.pem.crt <= gen,
         UNCHANGED <<row, files, aged, renewal, job, restarts, history>>
  PROVE  IInv'
  <1>1. brokenOff /\ (~overlapped => \A t \in All : ~Busy(t))
    BY DEF IInv, LateInv
  <1>2. Gone \in Upload /\ Gone.crt = 0 /\ Gone.at = "gone"
    BY NextGenBounds DEF Gone, Upload, IInv
  <1>3. late' \in [Slots -> Upload] /\ late'[s] = Gone /\ \A r \in Slots \ {s} : late'[r] = late[r]
    BY <1>2, Parts DEF IInv
  <1>4. TypeOK'
    BY <1>3 DEF IInv, TypeOK, row, files, renewal, history, Node, Pem, Upload
  <1>5. BoundInv' /\ KeptInv' /\ Lone' /\ UnbornInv' /\ FilesInv' /\ IssuingMeansAtWork'
    BY DEF IInv, BoundInv, KeptInv, Exists, At, Lone, Busy, UnbornInv, FilesInv, IssuingMeansAtWork,
           row, files, renewal, history
  <1>6. PairInv'
    BY <1>1 DEF IInv, PairInv, NodeSound, UnderWay, Delivery, At, Busy, history
  <1>7. LateInv'
    <2>1. gen \in Nat
      BY NextGenBounds DEF IInv
    <2> QED
      BY <1>2, <1>3, <2>1 DEF IInv, LateInv, Lives, Busy, files, history
  <1> QED
    BY <1>4, <1>5, <1>6, <1>7 DEF IInv

LEMMA LandsFacts ==
  ASSUME IInv, NEW s \in Slots, Lands(s)
  PROVE  /\ Lives(s) /\ node' \in Node
         /\ node'.pem # node.pem => node'.pem.crt = late[s].crt /\ node'.pem.key = late[s].key
  <1>1. late[s].crt \in Gens /\ late[s].key \in Gens
    BY Parts DEF IInv, Upload
  <1>2. CASE late[s].at = "put_crt" /\ node' = [node EXCEPT !.crt = late[s].crt]
    BY <1>1, <1>2, NodeFields DEF IInv, Lives
  <1>3. CASE late[s].at = "put_key" /\ node' = [node EXCEPT !.key = late[s].key]
    BY <1>1, <1>3, NodeFields DEF IInv, Lives
  <1>4. CASE /\ late[s].at = "put_pem"
             /\ node' = [node EXCEPT !.pem = [crt |-> late[s].crt, key |-> late[s].key]]
    BY <1>1, <1>4, NodeFields DEF IInv, Lives
  <1> QED
    BY <1>2, <1>3, <1>4 DEF Lands

LEMMA LandsInv ==
  ASSUME IInv, NEW s \in Slots, Lands(s) \/ Dies(s)
  PROVE  IInv'
  <1>1. CASE Lands(s)
    <2>1. Lives(s) /\ node' \in Node /\ node'.pem.crt \in {node.pem.crt, late[s].crt}
      BY <1>1, LandsFacts
    <2>2. node'.pem.crt <= gen
      BY <2>1 DEF IInv, BoundInv, LateInv
    <2> QED
      BY <1>1, <2>1, <2>2, LateKeeps DEF Lands
  <1>2. CASE Dies(s)
    BY <1>2, Parts, LateKeeps DEF Dies, IInv, BoundInv
  <1> QED
    BY <1>1, <1>2

LEMMA DropFilesInv ==
  ASSUME IInv, NEW t \in All, DropFiles(t)
  PROVE  IInv'
  <1> DEFINE j == Placed(job[t], "drop_row")
  <1>1. job' = [job EXCEPT ![t] = j] /\ At(t, "drop_files") /\ disk' = 0
    BY DEF DropFiles, Goto, Placed
  <1>2. job[t] \in Job /\ "drop_row" \in Places
    BY Parts DEF IInv, Places, Deleting
  <1>3. j \in Job /\ j.at = "drop_row" /\ FromFiles(j, t)
    BY <1>2, PlacedFields DEF FromFiles
  <1> HIDE DEF j
  <1>4. job' \in [All -> Job] /\ job'[t] = j /\ \A u \in All \ {t} : job'[u] = job[u]
    BY <1>1, <1>3, Parts, OneMoves DEF IInv
  <1>5. TypeOK'
    <2>1. 0 \in Gens
      BY NextGenBounds DEF IInv
    <2> QED
      BY <1>1, <1>4, <2>1 DEF DropFiles, IInv, TypeOK, row, renewal, history, Job, Places
  <1>6. KeptInv'
    BY <1>3, <1>4 DEF KeptInv, At
  <1>7. IssuingMeansAtWork'
    <2>1. WorksOn(j, t)
      BY <1>1 DEF WorksOn, At
    <2> QED
      BY <1>1, <1>3, <2>1, WorkKeeps DEF IInv, DropFiles, row, history
  <1>8. /\ FilesInv' /\ NodeSound' /\ UnderWay(t)' /\ Delivery(t)' /\ Busy(t)
        /\ brokenOff => brokenOff'
    BY <1>1, <1>3, <1>4
       DEF DropFiles, IInv, FilesInv, PairInv, NodeSound, UnderWay, Delivery, At, Busy, history
  <1>9. gen <= gen' /\ recorded' <= gen' /\ node'.pem.crt <= gen'
    BY Parts DEF DropFiles, IInv, BoundInv, Gens, row
  <1> QED
    BY <1>3, <1>4, <1>5, <1>6, <1>7, <1>8, <1>9, StepKeeps DEF DropFiles, row, history

LEMMA DropRowInv ==
  ASSUME IInv, NEW t \in All, DropRow(t)
  PROVE  IInv'
  <1>1. /\ job' = [job EXCEPT ![t] = Idle] /\ At(t, "drop_row")
        /\ UNCHANGED <<auto, files, aged, node, late, renewal, restarts, overlapped, stranded, brokenOff>>
    BY DEF DropRow, Ends
  <1>2. \/ status' = (IF Exists THEN "deleted" ELSE status) /\ recorded' = 0 /\ UNCHANGED halfDeleted
        \/ halfDeleted' = TRUE /\ UNCHANGED <<status, recorded>>
    BY DEF DropRow
  <1>3. Idle \in Job /\ Idle.at = "idle" /\ FromFiles(Idle, t)
    BY BegunFields DEF FromFiles
  <1>4. job' \in [All -> Job] /\ job'[t] = Idle /\ \A u \in All \ {t} : job'[u] = job[u]
    BY <1>1, <1>3, Parts, OneMoves DEF IInv
  <1>5. TypeOK'
    <2>1. 0 \in Gens
      BY NextGenBounds DEF IInv
    <2> QED
      BY <1>1, <1>2, <1>4, <2>1 DEF IInv, TypeOK, files, renewal, Job, Places
  <1>6. ~Exists' \/ halfDeleted'
    BY <1>2 DEF Exists
  <1>7. KeptInv'
    BY <1>6 DEF KeptInv
  <1>8. IssuingMeansAtWork'
    <2>1. WorksOn(Idle, t)
      BY <1>1 DEF WorksOn, At
    <2>2. CASE UNCHANGED status
      BY <1>1, <1>3, <2>1, <2>2, WorkKeeps DEF IInv
    <2>3. CASE status' = "deleted"
      BY <2>3 DEF IssuingMeansAtWork
    <2> QED
      BY <1>2, <2>2, <2>3
  <1>9. /\ FilesInv' /\ NodeSound' /\ UnderWay(t)' /\ Delivery(t)' /\ Busy(t)
        /\ brokenOff => brokenOff'
    BY <1>1, <1>3, <1>4 DEF IInv, FilesInv, PairInv, NodeSound, UnderWay, Delivery, At, Busy, files
  <1>10. status' = "unborn" => status = "unborn"
    BY <1>2
  <1>11. gen <= gen' /\ recorded' <= gen' /\ node'.pem.crt <= gen'
    BY <1>1, <1>2, Parts DEF IInv, BoundInv, Gens, files
  <1> QED
    BY <1>1, <1>3, <1>4, <1>5, <1>7, <1>8, <1>9, <1>10, <1>11, StepKeeps

-----------------------------------------------------------------------------
(* The beginnings of work, and everything else *)

LEMMA BeginsFacts ==
  ASSUME IInv, NEW t \in All, NEW at \in {"start", "read_crt", "drop_files"},
         NEW renew \in BOOLEAN, Begins(t, at, renew)
  PROVE  /\ ~Busy(t) /\ job' \in [All -> Job] /\ job'[t].at = at
         /\ \A u \in All \ {t} : job'[u] = job[u]
         /\ job'[t].read = 0 /\ job'[t].crt = 0
         /\ overlapped' \in BOOLEAN /\ Lone' /\ (~overlapped' => \A u \in All \ {t} : ~Busy(u))
         /\ ~overlapped' => \A s \in Slots : ~Lives(s)
  <1>1. job' = [job EXCEPT ![t] = Begun(at, renew)]
    BY DEF Begins, Begun
  <1>2. at \in Places
    BY DEF Places, Issuing, Delivering, Deleting
  <1>3. /\ Begun(at, renew) \in Job /\ Begun(at, renew).at = at
        /\ Begun(at, renew).read = 0 /\ Begun(at, renew).crt = 0
    BY <1>2, BegunFields
  <1>4. /\ job' \in [All -> Job] /\ job'[t].at = at /\ job'[t].read = 0 /\ job'[t].crt = 0
        /\ \A u \in All \ {t} : job'[u] = job[u]
    BY <1>1, <1>3, Parts, OneMoves DEF IInv
  <1>5. overlapped' \in BOOLEAN
    BY Zenon DEF Begins
  <1>6. /\ ~overlapped' => \A u \in All \ {t} : ~Busy(u)
        /\ ~overlapped' => \A s \in Slots : ~Lives(s)
    BY Zenon DEF Begins
  <1>7. Lone'
    BY <1>4, <1>6 DEF Lone, Busy
  <1> QED
    BY <1>4, <1>5, <1>6, <1>7 DEF Begins

\* A thread that begins disturbs nothing but that.
LEMMA BeginsKeeps ==
  ASSUME IInv, NEW t \in All, NEW at \in {"start", "read_crt", "drop_files"},
         NEW renew \in BOOLEAN, Begins(t, at, renew), status # "unborn",
         UNCHANGED <<row, files, aged, node, late, restarts, stranded, halfDeleted, brokenOff>>,
         loop' \in {"asleep", "picked", "renewing"}, UNCHANGED snapshot
  PROVE  IInv'
  <1>1. /\ ~Busy(t) /\ job' \in [All -> Job] /\ job'[t].at = at
        /\ \A u \in All \ {t} : job'[u] = job[u]
        /\ job'[t].read = 0 /\ job'[t].crt = 0
        /\ overlapped' \in BOOLEAN /\ Lone' /\ (~overlapped' => \A u \in All \ {t} : ~Busy(u))
        /\ ~overlapped' => \A s \in Slots : ~Lives(s)
    BY BeginsFacts
  <1>2. TypeOK'
    BY <1>1 DEF IInv, TypeOK, row, files, Job, Places
  <1>3. UnbornInv' /\ FilesInv'
    BY DEF IInv, UnbornInv, FilesInv, row, files
  <1>4. KeptInv'
    BY <1>1 DEF IInv, KeptInv, At, Exists, Busy, row, files
  <1>5. IssuingMeansAtWork'
    <2> SUFFICES ASSUME ~stranded
                 PROVE  /\ status = "issuing" => \E u \in All : job'[u].at \in {"lego", "read", "activate", "fail"}
                        /\ status = "pending" => \E u \in All : job'[u].at \in {"start", "mark", "fail"}
      BY DEF IssuingMeansAtWork, row
    <2>1. \A u \in All : job[u].at # "idle" => job'[u] = job[u]
      BY <1>1 DEF Busy
    <2> QED
      BY <2>1 DEF IInv, IssuingMeansAtWork
  <1>6. PairInv'
    BY <1>1 DEF IInv, PairInv, NodeSound, UnderWay, Delivery, At, Busy
  <1>7. BoundInv'
    BY <1>1, Parts DEF IInv, BoundInv, Gens, row, files
  <1>8. LateInv'
    BY <1>1 DEF IInv, LateInv, Lives, files
  <1> QED
    BY <1>1, <1>2, <1>3, <1>4, <1>5, <1>6, <1>7, <1>8 DEF IInv

LEMMA CreateInv ==
  ASSUME IInv, NEW t \in Threads, Create(t)
  PROVE  IInv'
  <1>1. /\ status = "unborn" /\ status' = "pending" /\ t \in All
        /\ UNCHANGED <<auto, recorded, files, aged, node, late, renewal, restarts, halfDeleted, brokenOff>>
    BY DEF Create, All
  <1>2. recorded = 0 /\ \A u \in All : job[u].at = "idle"
    BY <1>1 DEF IInv, UnbornInv, Busy
  <1>3. CASE Begins(t, "start", FALSE) /\ UNCHANGED stranded
    <2>1. /\ ~Busy(t) /\ job' \in [All -> Job] /\ job'[t].at = "start"
          /\ \A u \in All \ {t} : job'[u] = job[u]
          /\ job'[t].read = 0 /\ job'[t].crt = 0
          /\ overlapped' \in BOOLEAN /\ Lone' /\ (~overlapped' => \A u \in All \ {t} : ~Busy(u))
          /\ ~overlapped' => \A s \in Slots : ~Lives(s)
      BY <1>1, <1>3, BeginsFacts
    <2>2. TypeOK'
      BY <1>1, <1>3, <2>1 DEF IInv, TypeOK, files, renewal, Job, Places
    <2>3. UnbornInv' /\ FilesInv' /\ IssuingMeansAtWork'
      BY <1>1, <2>1 DEF IInv, UnbornInv, FilesInv, IssuingMeansAtWork, files
    <2>4. KeptInv'
      <3>1. disk \in Nat
        BY Parts DEF IInv, Gens
      <3>2. \A u \in All : job'[u].at # "activate"
        BY <1>2, <2>1
      <3> QED
        BY <1>1, <1>2, <3>1, <3>2 DEF KeptInv, At, files
    <2>5. PairInv'
      BY <1>1, <2>1 DEF IInv, PairInv, NodeSound, UnderWay, Delivery, At, Busy
    <2>6. BoundInv'
      BY <1>1, <2>1, Parts DEF IInv, BoundInv, Gens, files
    <2>7. LateInv'
      BY <1>1, <2>1 DEF IInv, LateInv, Lives, files
    <2> QED
      BY <2>1, <2>2, <2>3, <2>4, <2>5, <2>6, <2>7 DEF IInv
  <1>4. CASE stranded' = TRUE /\ UNCHANGED <<job, overlapped>>
    <2>1. TypeOK'
      BY <1>1, <1>4 DEF IInv, TypeOK, files, renewal
    <2>2. /\ Lone' /\ UnbornInv' /\ FilesInv' /\ BoundInv' /\ IssuingMeansAtWork' /\ PairInv'
          /\ LateInv'
      BY <1>1, <1>4 DEF IInv, Lone, Busy, UnbornInv, FilesInv, BoundInv, IssuingMeansAtWork,
                        LateInv, Lives, PairInv, NodeSound, UnderWay, Delivery, At, files
    <2>3. KeptInv'
      <3>1. disk \in Nat
        BY Parts DEF IInv, Gens
      <3> QED
        BY <1>1, <1>2, <1>4, <3>1 DEF KeptInv, At, files
    <2> QED
      BY <2>1, <2>2, <2>3 DEF IInv
  <1> QED
    BY <1>3, <1>4 DEF Create

LEMMA RequestInv ==
  ASSUME IInv, NEW t \in Threads, Request(t)
  PROVE  IInv'
  <1>1. /\ t \in All /\ status # "unborn" /\ UNCHANGED <<loop, snapshot>>
        /\ loop' \in {"asleep", "picked", "renewing"}
    BY DEF Request, All, Exists, IInv, TypeOK, renewal
  <1>2. \E at \in {"start", "read_crt", "drop_files"}, renew \in BOOLEAN : Begins(t, at, renew)
    BY DEF Request
  <1> QED
    BY <1>1, <1>2, BeginsKeeps DEF Request

\* Steps that leave jobs and files alone.
LEMMA BesideInv ==
  ASSUME IInv, TypeOK', UNCHANGED <<status, recorded, files, node, late, job, history>>,
         status = "unborn" => loop' = "asleep"
  PROVE  IInv'
  BY DEF IInv, Lone, Busy, UnbornInv, FilesInv, BoundInv, KeptInv, Exists, IssuingMeansAtWork,
         PairInv, NodeSound, UnderWay, Delivery, At, LateInv, Lives, files, history

LEMMA SetAutoRenewInv == ASSUME IInv, SetAutoRenew PROVE IInv'
  <1>1. TypeOK'
    BY DEF SetAutoRenew, IInv, TypeOK, files, renewal, history
  <1> QED
    BY <1>1, BesideInv DEF SetAutoRenew, Exists

LEMMA LoopScanInv == ASSUME IInv, LoopScan PROVE IInv'
  <1>1. TypeOK'
    BY DEF LoopScan, IInv, TypeOK, row, files, history
  <1> QED
    BY <1>1, BesideInv DEF LoopScan, row

LEMMA LoopCheckInv == ASSUME IInv, LoopCheck PROVE IInv'
  <1>1. status # "unborn"
    BY DEF LoopCheck, IInv, UnbornInv
  <1>2. CASE snapshot \in 1..aged
    <2>1. Loop \in All /\ Begins(Loop, "start", TRUE) /\ loop' = "renewing"
      BY <1>2 DEF LoopCheck, All
    <2> QED
      BY <1>1, <2>1, BeginsKeeps DEF LoopCheck
  <1>3. CASE snapshot \notin 1..aged
    <2>1. TypeOK' /\ UNCHANGED <<job, overlapped>>
      BY <1>3 DEF LoopCheck, IInv, TypeOK, row, files
    <2> QED
      BY <1>1, <2>1, BesideInv DEF LoopCheck, row, history
  <1> QED
    BY <1>2, <1>3

LEMMA LoopDoneInv == ASSUME IInv, LoopDone PROVE IInv'
  <1>1. TypeOK'
    BY DEF LoopDone, IInv, TypeOK, row, files, history
  <1> QED
    BY <1>1, BesideInv DEF LoopDone, row

LEMMA AgeInv == ASSUME IInv, Age PROVE IInv'
  <1>1. aged + 1 \in Gens
    BY Parts, LifecycleAssumption DEF Age, IInv, Gens
  <1>2. TypeOK'
    BY <1>1 DEF Age, IInv, TypeOK, row, files, renewal, history
  <1>3. status = "unborn" => loop' = "asleep"
    BY DEF Age, IInv, UnbornInv, renewal
  <1> QED
    BY <1>2, <1>3, BesideInv DEF Age, row

LEMMA RestartInv == ASSUME IInv, Restart PROVE IInv'
  <1>1. /\ \A t \in All : job'[t].at = "idle"
        /\ job' \in [All -> Job] /\ loop' = "asleep"
        /\ UNCHANGED <<row, files, aged, node, late, snapshot, overlapped, brokenOff>>
    BY BegunFields DEF Restart
  <1>2. stranded' \in BOOLEAN /\ halfDeleted' \in BOOLEAN
    BY Zenon DEF Restart
  <1>3. restarts' \in 0..MaxRestarts
    BY LifecycleAssumption DEF Restart, IInv, TypeOK
  <1>4. TypeOK'
    BY <1>1, <1>2, <1>3 DEF IInv, TypeOK, row, files, Job, Places
  <1>5. ~halfDeleted' => ~halfDeleted /\ \A t \in All : ~At(t, "drop_row")
    BY DEF Restart
  <1>6. KeptInv'
    BY <1>1, <1>5 DEF IInv, KeptInv, At, Exists, row, files
  <1>7. IssuingMeansAtWork'
    <2> SUFFICES ASSUME ~stranded' PROVE status \notin {"issuing", "pending"}
      BY <1>1 DEF IssuingMeansAtWork, row
    <2>1. ~stranded /\ \A t \in All : job[t].at \notin Issuing
      BY DEF Restart
    <2> QED
      BY <2>1 DEF IInv, IssuingMeansAtWork, Issuing
  <1>8. Lone' /\ UnbornInv' /\ FilesInv' /\ PairInv'
    BY <1>1 DEF IInv, Lone, Busy, UnbornInv, FilesInv, PairInv, NodeSound, UnderWay, Delivery, At, row, files
  <1>9. BoundInv'
    <2>1. \A t \in All : job'[t].read = 0 /\ job'[t].crt = 0
      BY BegunFields DEF Restart
    <2> QED
      BY <1>1, <2>1, Parts DEF IInv, BoundInv, Gens, row, files
  <1>10. LateInv'
    BY <1>1 DEF IInv, LateInv, Lives, Busy, files
  <1> QED
    BY <1>4, <1>6, <1>7, <1>8, <1>9, <1>10 DEF IInv

-----------------------------------------------------------------------------
(* The invariant and what follows from it *)

LEMMA InitInv == Init => IInv
  <1> SUFFICES ASSUME Init PROVE IInv
    OBVIOUS
  <1>1. 0 \in Gens /\ 0 \in 0..MaxRestarts
    BY LifecycleAssumption DEF Gens
  <1>2. job \in [All -> Job] /\ \A t \in All : job[t].at = "idle"
    BY BegunFields DEF Init
  <1>3. TypeOK
    BY <1>1, <1>2 DEF Init, TypeOK, Job, Places, Gone
  <1>4. BoundInv /\ LateInv
    BY BegunFields DEF Init, BoundInv, LateInv, Lives, Gone
  <1> QED
    BY <1>2, <1>3, <1>4 DEF Init, IInv, Lone, Busy, UnbornInv, FilesInv, KeptInv, Exists, At,
                            IssuingMeansAtWork, PairInv, NodeSound, UnderWay, Delivery

LEMMA NextInv == IInv /\ [Next]_vars => IInv'
  <1> SUFFICES ASSUME IInv, [Next]_vars PROVE IInv'
    OBVIOUS
  <1>1. CASE UNCHANGED vars
    <2>1. TypeOK' /\ loop' = loop
      BY <1>1 DEF IInv, TypeOK, vars, row, files, renewal, history
    <2> QED
      BY <1>1, <2>1, BesideInv DEF IInv, UnbornInv, vars, row
  <1>2. ASSUME NEW t \in Threads, Create(t) \/ Request(t) PROVE IInv'
    BY <1>2, CreateInv, RequestInv
  <1>3. ASSUME NEW t \in All, Step(t) PROVE IInv'
    BY <1>3, StartInv, MarkInv, LegoInv, ReadInv, ActivateInv, FailInv, SettingsRaiseInv, ReadCrtInv,
       ReadKeyInv, PutCrtInv, PutKeyInv, PutPemInv, BreaksOffInv, LostInv, DropFilesInv, DropRowInv DEF Step
  <1>4. ASSUME NEW s \in Slots, Lands(s) \/ Dies(s) PROVE IInv'
    BY <1>4, LandsInv
  <1>5. CASE SetAutoRenew \/ LoopScan \/ LoopCheck \/ LoopDone \/ Age \/ Restart
    BY <1>5, SetAutoRenewInv, LoopScanInv, LoopCheckInv, LoopDoneInv, AgeInv, RestartInv
  <1> QED
    BY <1>1, <1>2, <1>3, <1>4, <1>5 DEF Next

\* Every reachable state satisfies the invariant the properties follow from.
THEOREM Invariance == Spec => []IInv
  BY InitInv, NextInv, PTL DEF Spec

\* Row, files, node and threads stay in their sets.
THEOREM TypesHold == Spec => []TypeOK
  BY Invariance, PTL DEF IInv

\* An active certificate has its files, none older than its row says.
THEOREM ActiveHasFilesHolds == Spec => []ActiveHasFiles
  <1>1. IInv => ActiveHasFiles
    <2> SUFFICES ASSUME IInv, status = "active", recorded # 0, ~halfDeleted,
                        \A t \in All : ~At(t, "drop_row")
                 PROVE  disk >= recorded
      BY DEF ActiveHasFiles
    <2>1. recorded <= disk
      BY DEF IInv, KeptInv, Exists
    <2> QED
      BY <2>1, Parts DEF IInv, Gens
  <1> QED
    BY <1>1, Invariance, PTL

\* Nobody leaves the mark of a thread standing that is not at work.
THEOREM IssuingMeansAtWorkHolds == Spec => []IssuingMeansAtWork
  BY Invariance, PTL DEF IInv

\* After a whole delivery by a thread that was alone the node has a certificate
\* with its own key, whatever happened to it before.
THEOREM NodeHasPairHolds == Spec => []NodeHasPair
  <1>1. IInv => NodeHasPair
    <2> SUFFICES ASSUME IInv, ~brokenOff
                 PROVE  /\ node.crt = node.key
                        /\ node.pem = [crt |-> node.crt, key |-> node.crt]
      BY DEF NodeHasPair, IInv, PairInv, NodeSound
    <2>1. node.crt = node.pem.crt /\ node.key = node.pem.crt /\ node.pem.crt = node.pem.key
      BY DEF IInv, PairInv, NodeSound
    <2>2. node.pem \in Pem
      BY Parts DEF IInv, Node
    <2>3. node.pem = [crt |-> node.pem.crt, key |-> node.pem.key]
      BY <2>2 DEF Pem
    <2> QED
      BY <2>1, <2>3
  <1> QED
    BY <1>1, Invariance, PTL

\* No step of a delivery that is alone, broken off or not, and no upload it has
\* given up puts anything but a newer pair into the .pem, or the one that is there.
THEOREM PemStaysPairHolds == Spec => PemStaysPair
  <1>1. IInv /\ [Next]_vars
          => [~overlapped /\ node'.pem # node.pem =>
                node'.pem.crt = node'.pem.key /\ node'.pem.crt >= node.pem.crt]_vars
    <2> SUFFICES ASSUME IInv, [Next]_vars, ~overlapped, node'.pem # node.pem
                 PROVE  node'.pem.crt = node'.pem.key /\ node'.pem.crt >= node.pem.crt
      OBVIOUS
    <2>1. (\E t \in All : PutPem(t)) \/ (\E s \in Slots : Lands(s))
      <3>1. ASSUME NEW t \in All, PutCrt(t) \/ PutKey(t) PROVE node'.pem = node.pem
        <4>1. job[t].crt \in Gens /\ job[t].key \in Gens
          BY Parts DEF IInv, Job
        <4>2. /\ [node EXCEPT !.crt = job[t].crt].pem = node.pem
              /\ [node EXCEPT !.key = job[t].key].pem = node.pem
          BY <4>1, NodeFields DEF IInv
        <4> QED
          BY <3>1, <4>2 DEF PutCrt, PutKey
      <3> QED
        BY <3>1
           DEF Next, vars, Create, Request, SetAutoRenew, Step, Start, Mark, LegoSucceeds, LegoFails,
               SettingsRaise, Read, Activate, Fail, ReadCrt, ReadKey, BreaksOff, Lost, DropFiles, DropRow, Dies,
               LoopScan, LoopCheck, LoopDone, Age, Restart
    <2>2. node'.pem.crt = gen /\ node'.pem.key = gen
      <3>1. ASSUME NEW t \in All, PutPem(t) PROVE node'.pem.crt = gen /\ node'.pem.key = gen
        <4>1. job[t].crt = gen /\ job[t].key = gen
          BY <3>1 DEF PutPem, IInv, PairInv, Delivery, At
        <4>2. job[t].crt \in Gens /\ job[t].key \in Gens
          BY Parts DEF IInv, Job
        <4> QED
          BY <3>1, <4>1, <4>2, NodeFields DEF IInv, PutPem
      <3>2. ASSUME NEW s \in Slots, Lands(s) PROVE node'.pem.crt = gen /\ node'.pem.key = gen
        BY <3>2, LandsFacts DEF IInv, LateInv
      <3> QED
        BY <2>1, <3>1, <3>2
    <2>3. node.pem.crt \in Nat /\ gen \in Nat /\ node.pem.crt <= gen
      BY Parts DEF IInv, BoundInv, Node, Pem, Gens
    <2> QED
      BY <2>2, <2>3
  <1> QED
    BY <1>1, Invariance, PTL DEF Spec, PemStaysPair
=============================================================================
