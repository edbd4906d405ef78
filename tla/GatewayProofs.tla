---------------------------- MODULE GatewayProofs ----------------------------
(***************************************************************************)
(* HydroGate reports no job as completed that has not ended on the HPC     *)
(* center, and none as done that failed, submits a job once and calls back *)
(* with the truth.  A job is in one pair of hands at a time, never goes    *)
(* back and is not forgotten, its callbacks come in order, and a package   *)
(* that was transferred is kept.  All of it for any number of packages,    *)
(* jobs, threads, requests and crashes.                                    *)
(***************************************************************************)
EXTENDS Gateway, QueueFacts, FiniteSetTheorems

(* The codes are states of packages and of jobs.                           *)
LEMMA StatesTyped ==
    /\ WSDPackageStateError \in PackageStates
    /\ WSDPackageStateInQueue \in PackageStates
    /\ WSDPackageStateRunning \in PackageStates
    /\ WSDPackageStateTransferring \in PackageStates
    /\ WSDPackageStateDone \in PackageStates
    /\ WSDPackageDeleted \in PackageStates
    /\ WSDJobStateError \in JobStates
    /\ WSDJobStateInServiceQueue \in JobStates
    /\ WSDJobStateDeleted \in JobStates
    /\ WSDJobStateInHPCQueue \in JobStates
    /\ WSDJobStateInHPCQueue .. WSDJobStateSuspended \subseteq JobStates
    /\ WSDJobStateCompletedInHPC \in JobStates
    /\ WSDJobOutputStateTransferring \in JobStates
    /\ WSDJobOutputStateTransferDone \in JobStates
  BY DEF PackageStates, JobStates, WSDJobStateInServiceQueue, WSDJobStateInHPCQueue,
         WSDJobStateSuspended

(* Every statement of WSData keeps the tables well typed.                  *)
LEMMA StatementsTyped ==
    ASSUME DatabaseTypeOK, NEW p, NEW j
    PROVE  /\ \A s \in PackageStates : updatePackageState(p, s) => DatabaseTypeOK'
           /\ \A s \in JobStates : setJobState(j, s) => DatabaseTypeOK'
           /\ createPackage(p) \/ setPackageFolder(p) => DatabaseTypeOK'
           /\ setJobSubmittedByID(j) \/ setJobsDeleted(p) => DatabaseTypeOK'
           /\ p \in Packages \cup {NoPackage} /\ createJob(j, p) => DatabaseTypeOK'
<1> USE DEF DatabaseTypeOK
<1>1. ASSUME NEW s \in PackageStates, updatePackageState(p, s) PROVE DatabaseTypeOK'
  <2>1. ASSUME p \in Packages PROVE [packages[p] EXCEPT !.state = s] \in PackageRecord
    BY <2>1 DEF PackageRecord
  <2> QED BY <1>1, <2>1 DEF updatePackageState
<1>2. ASSUME NEW s \in JobStates, setJobState(j, s) PROVE DatabaseTypeOK'
  <2>1. ASSUME j \in Jobs PROVE [jobs[j] EXCEPT !.state = s] \in JobRecord
    BY <2>1 DEF JobRecord
  <2> QED BY <1>2, <2>1 DEF setJobState
<1>3. createPackage(p) \/ setPackageFolder(p) => DatabaseTypeOK'
  <2>1. ASSUME p \in Packages
        PROVE  [packages[p] EXCEPT !.state = WSDPackageStateInQueue] \in PackageRecord
    BY <2>1, StatesTyped DEF PackageRecord
  <2>2. createPackage(p) => DatabaseTypeOK'
    BY <2>1 DEF createPackage
  <2>3. ASSUME p \in Packages PROVE [packages[p] EXCEPT !.folder = TRUE] \in PackageRecord
    BY <2>3 DEF PackageRecord
  <2>4. setPackageFolder(p) => DatabaseTypeOK'
    BY <2>3 DEF setPackageFolder
  <2> QED BY <2>2, <2>4
<1> USE StatesTyped DEF PackageRecord, JobRecord
<1>4. setJobSubmittedByID(j) => DatabaseTypeOK'
  <2> SUFFICES ASSUME setJobSubmittedByID(j), j \in Jobs PROVE DatabaseTypeOK'
    BY DEF setJobSubmittedByID
  <2>1. jobs' = [jobs EXCEPT ![j] = [jobs[j] EXCEPT !.state = WSDJobStateInHPCQueue,
                                                    !.submitted = TRUE]]
    BY DEF setJobSubmittedByID
  <2> QED BY <2>1 DEF setJobSubmittedByID
<1>5. setJobsDeleted(p) => DatabaseTypeOK'
  BY DEF setJobsDeleted, JobsOf
<1>6. p \in Packages \cup {NoPackage} /\ createJob(j, p) => DatabaseTypeOK'
  <2> SUFFICES ASSUME p \in Packages \cup {NoPackage}, createJob(j, p) PROVE DatabaseTypeOK'
    OBVIOUS
  <2> DEFINE r == [state |-> WSDJobStateInServiceQueue, package |-> p, submitted |-> FALSE]
  <2>1. r \in JobRecord
    OBVIOUS
  <2>2. jobs' = [jobs EXCEPT ![j] = r] /\ packages' = packages
    BY DEF createJob
  <2> HIDE DEF r
  <2> QED BY <2>1, <2>2
<1> QED BY <1>1, <1>2, <1>3, <1>4, <1>5, <1>6

(* Every command sent to the HPC center, and what it does by itself, keeps *)
(* its jobs and folders well typed.                                        *)
LEMMA ClusterTyped ==
    ASSUME ClusterTypeOK, NEW j, NEW P, NEW J
    PROVE  /\ HpcNext(j) => ClusterTypeOK'
           /\ qsub(j) \/ qdel(j) \/ RemoveJobFolder(j) => ClusterTypeOK'
           /\ RemovePackageFolders(P, J) => ClusterTypeOK'
<1> USE ClusterAssumption DEF ClusterTypeOK
<1>1. HpcNext(j) => ClusterTypeOK'
  BY DEF HpcNext, HpcMove, HpcEnd, HpcForget
<1>2. qsub(j) \/ qdel(j) \/ RemoveJobFolder(j) => ClusterTypeOK'
  BY DEF qsub, qdel, RemoveJobFolder
<1>3. RemovePackageFolders(P, J) => ClusterTypeOK'
  BY DEF RemovePackageFolders
<1> QED BY <1>1, <1>2, <1>3

-----------------------------------------------------------------------------
(* Work items are typed by what they are made of.                          *)
LEMMA WorkTyped ==
    ASSUME NEW type \in WorkType, NEW j \in Jobs \cup {NoJob},
           NEW p \in Packages \cup {NoPackage}
    PROVE  /\ Work(type, j, p) \in WSHPCWork
           /\ \A b \in BOOLEAN : /\ [Work(type, j, p) EXCEPT !.folder = b] \in WSHPCWork
                                 /\ [Work(type, j, p) EXCEPT !.submitted = b] \in WSHPCWork
  BY DEF Work, WSHPCWork

(* The moves of a worker thread keep its record well typed.                *)
LEMMA MovesTyped ==
    ASSUME WorkerTypeOK, NEW w \in Workers, NEW pc \in WorkerPc, NEW s \in JobStates
    PROVE  /\ Goto(w, pc) => WorkerTypeOK'
           /\ GotoAndAnnounce(w, pc, s) => WorkerTypeOK'
           /\ Finish(w) => WorkerTypeOK'
           /\ FinishAndAnnounce(w, s) => WorkerTypeOK'
<1>1. Goto(w, pc) => WorkerTypeOK'
  BY DEF WorkerTypeOK, Goto
<1>2. \A to \in WorkerPc : GotoAndAnnounce(w, to, s) => WorkerTypeOK'
  <2> SUFFICES ASSUME NEW to \in WorkerPc, GotoAndAnnounce(w, to, s) PROVE WorkerTypeOK'
    OBVIOUS
  <2>1. ToAnnounce(s) \in {NoRecord} \cup JobStates
    BY DEF ToAnnounce
  <2>2. worker' = [worker EXCEPT ![w] = [worker[w] EXCEPT !.pc = to, !.due = ToAnnounce(s)]]
    BY DEF GotoAndAnnounce, WorkerTypeOK
  <2> QED BY <2>1, <2>2 DEF WorkerTypeOK
<1>3. Idle \in [pc : WorkerPc, item : WSHPCWork, ok : BOOLEAN, due : {NoRecord} \cup JobStates]
  <2>1. Work("upload", NoJob, NoPackage) \in WSHPCWork
    BY WorkTyped DEF WorkType
  <2> QED BY <2>1 DEF Idle, WorkerPc
<1>4. Finish(w) => WorkerTypeOK'
  BY <1>3 DEF WorkerTypeOK, Finish
<1>5. "idle" \in WorkerPc
  BY DEF WorkerPc
<1> QED BY <1>1, <1>2, <1>4, <1>5 DEF FinishAndAnnounce

(* Every step of a worker thread keeps the state well typed.               *)
LEMMA WorkersTyped ==
    ASSUME TypeOK, CheckedAreFinished, NEW w \in Workers, WorkerActs(w)
    PROVE  TypeOK'
<1> DEFINE DbOK == DatabaseTypeOK
           QueueOK == hpcworkqueue \in Seq(WSHPCWork)
           ToldOK == told \in [Jobs -> {NoRecord} \cup JobStates]
<1> SUFFICES DatabaseTypeOK' /\ ClusterTypeOK' /\ QueueOK' /\ ToldOK' /\ WorkerTypeOK'
  BY DEF TypeOK, SchedulerTypeOK, WorkerActs, PollerTypeOK, PagesTypeOK
<1> USE DEF TypeOK, SchedulerTypeOK
<1>1. worker[w].pc \in WorkerPc /\ worker[w].item \in WSHPCWork
  BY DEF WorkerTypeOK
<1>2. \A pc \in {"u_folder", "u_mkdir", "u_transferring", "u_iget", "u_transfer", "u_done",
                  "s_unzip", "s_qsub", "s_record", "c_finish", "d_qdel", "d_rm", "lost"} :
         pc \in WorkerPc
  BY DEF WorkerPc
<1>3. CASE TakeWork(w)
  <2>1. Head(hpcworkqueue) \in WSHPCWork /\ QueueOK'
    BY <1>3, TailFacts DEF TakeWork, removeHPCWork
  <2> DEFINE item == Head(hpcworkqueue)
  <2>2. FirstStep[item.jobtype] \in WorkerPc
    <3>1. item.jobtype \in WorkType
      BY <2>1 DEF WSHPCWork
    <3> HIDE DEF item
    <3> QED BY <3>1 DEF WorkType, FirstStep, WorkerPc
  <2>4. worker' = [worker EXCEPT ![w] = [pc |-> FirstStep[item.jobtype], item |-> item,
                                         ok |-> FALSE, due |-> NoRecord]]
    BY <1>3 DEF TakeWork
  <2> HIDE DEF item
  <2>5. WorkerTypeOK'
    <3>1. item \in WSHPCWork
      BY <2>1 DEF item
    <3> QED BY <2>2, <2>4, <3>1 DEF WorkerTypeOK
  <2> QED BY <1>3, <2>1, <2>5 DEF TakeWork, dbVars, clusterVars, DatabaseTypeOK, ClusterTypeOK
<1>4. CASE Announce(w)
  <2>1. UNCHANGED <<dbVars, clusterVars, hpcworkqueue>> /\ ToldOK'
    BY <1>4 DEF Announce, doCallback, WorkerTypeOK
  <2>2. Finish(w) \/ worker' = [worker EXCEPT ![w].due = NoRecord]
    BY <1>4 DEF Announce, Finish
  <2>3. WorkerTypeOK'
    BY <1>1, <2>2, MovesTyped, StatesTyped DEF WorkerTypeOK
  <2> QED BY <2>1, <2>3 DEF dbVars, clusterVars, DatabaseTypeOK, ClusterTypeOK
<1>5. CASE Upload(w)
  <2>1. QueueOK' /\ ToldOK'
    BY <1>5 DEF Upload, UploadRunning, UploadFolder, UploadMkdir, UploadTransferring,
                UploadTransfer, UploadDone
  <2>2. DatabaseTypeOK'
    <3>1. \/ UNCHANGED dbVars
          \/ \E s \in PackageStates : updatePackageState(PackageOf(w), s)
          \/ setPackageFolder(PackageOf(w))
      BY <1>5, StatesTyped DEF Upload, UploadRunning, UploadFolder, UploadMkdir,
                UploadTransferring, UploadTransfer, UploadDone
    <3> QED BY <3>1, StatementsTyped DEF dbVars, DatabaseTypeOK
  <2>3. ClusterTypeOK'
    BY <1>5 DEF Upload, UploadRunning, UploadFolder, UploadMkdir, UploadTransferring,
                UploadTransfer, UploadDone, clusterVars, ClusterTypeOK
  <2>4. WorkerTypeOK'
    BY <1>2, <1>5, MovesTyped, StatesTyped
       DEF Upload, UploadRunning, UploadFolder, UploadMkdir, UploadTransferring,
           UploadTransfer, UploadDone
  <2> QED BY <2>1, <2>2, <2>3, <2>4
<1>6. CASE Submit(w)
  <2>1. QueueOK' /\ ToldOK'
    BY <1>6 DEF Submit, SubmitMkdir, SubmitUnzip, SubmitQsub, SubmitRecord
  <2>2. DatabaseTypeOK'
    BY <1>6, StatementsTyped
       DEF Submit, SubmitMkdir, SubmitUnzip, SubmitQsub, SubmitRecord, dbVars, DatabaseTypeOK
  <2>3. ClusterTypeOK'
    <3>1. CASE SubmitQsub(w) \/ SubmitRecord(w)
      BY <3>1, ClusterTyped DEF SubmitQsub, SubmitRecord, clusterVars, ClusterTypeOK
    <3>2. CASE SubmitMkdir(w)
      <4>1. store' \in [Packages -> {"absent", "empty", "zip"}]
        BY <3>2 DEF SubmitMkdir, ClusterTypeOK
      <4>2. hpc' = [hpc EXCEPT ![JobOf(w)].dir = "empty"]
        BY <3>2 DEF SubmitMkdir
      <4> QED BY <4>1, <4>2 DEF ClusterTypeOK
    <3>3. CASE SubmitUnzip(w)
      BY <3>3 DEF SubmitUnzip, ClusterTypeOK
    <3> QED BY <1>6, <3>1, <3>2, <3>3 DEF Submit
  <2>4. WorkerTypeOK'
    BY <1>2, <1>6, MovesTyped, StatesTyped
       DEF Submit, SubmitMkdir, SubmitUnzip, SubmitQsub, SubmitRecord
  <2> QED BY <2>1, <2>2, <2>3, <2>4
<1>7. CASE Check(w)
  <2>1. QueueOK' /\ ToldOK' /\ UNCHANGED clusterVars
    BY <1>7 DEF Check, CheckRead, CheckTransferring, CheckFinish, sharedVars, clusterVars
  <2>2. DatabaseTypeOK'
    BY <1>7, StatementsTyped, StatesTyped
       DEF Check, CheckRead, CheckTransferring, CheckFinish, sharedVars, DatabaseTypeOK,
           setJobDoneByID, setJobFailedByID
  <2>3. CheckRead(w) => WorkerTypeOK'
    <3> SUFFICES ASSUME CheckRead(w) PROVE WorkerTypeOK'
      OBVIOUS
    <3>1. JobOf(w) \in Jobs
      BY DEF CheckRead, At, CheckedAreFinished
    <3>2. hpc[JobOf(w)].ok \in BOOLEAN /\ "c_transferring" \in WorkerPc
      BY <3>1 DEF ClusterTypeOK, WorkerPc
    <3>3. worker' = [worker EXCEPT ![w] = [worker[w] EXCEPT !.pc = "c_transferring",
                                                            !.ok = hpc[JobOf(w)].ok]]
      BY DEF CheckRead, WorkerTypeOK
    <3> QED BY <3>2, <3>3 DEF WorkerTypeOK
  <2>4. WorkerTypeOK'
    BY <1>2, <1>7, <2>3, MovesTyped, StatesTyped DEF Check, CheckTransferring, CheckFinish
  <2> QED BY <2>1, <2>2, <2>4 DEF clusterVars, ClusterTypeOK
<1>8. CASE Delete(w)
  <2>1. QueueOK' /\ ToldOK'
    BY <1>8 DEF Delete, DeleteMark, DeleteQdel, DeleteRm
  <2>2. DatabaseTypeOK'
    BY <1>8, StatementsTyped, StatesTyped
       DEF Delete, DeleteMark, DeleteQdel, DeleteRm, deleteJobByID, dbVars, DatabaseTypeOK
  <2>3. ClusterTypeOK'
    BY <1>8, ClusterTyped DEF Delete, DeleteMark, DeleteQdel, DeleteRm, clusterVars, ClusterTypeOK
  <2>4. WorkerTypeOK'
    BY <1>2, <1>8, MovesTyped, StatesTyped DEF Delete, DeleteMark, DeleteQdel, DeleteRm
  <2> QED BY <2>1, <2>2, <2>3, <2>4
<1>9. CASE PackageRm(w)
  <2>1. UNCHANGED <<dbVars, hpcworkqueue, told>> /\ Finish(w)
    BY <1>9 DEF PackageRm
  <2>2. ClusterTypeOK'
    BY <1>9, ClusterTyped DEF PackageRm
  <2> QED BY <1>1, <2>1, <2>2, MovesTyped, StatesTyped DEF dbVars, DatabaseTypeOK
<1>10. CASE Throw(w)
  <2>1. UNCHANGED <<clusterVars, hpcworkqueue, told>> /\ Finish(w)
    BY <1>10 DEF Throw
  <2>2. DatabaseTypeOK'
    <3>1. \/ UNCHANGED dbVars
          \/ updatePackageError(PackageOf(w)) \/ setJobErrorByID(JobOf(w))
          \/ setJobFailedByID(JobOf(w))
      BY <1>10 DEF Throw, RecordError
    <3> QED BY <3>1, StatementsTyped, StatesTyped
            DEF updatePackageError, setJobErrorByID, setJobFailedByID, dbVars, DatabaseTypeOK
  <2> QED BY <1>1, <2>1, <2>2, MovesTyped, StatesTyped DEF clusterVars, ClusterTypeOK
<1>11. CASE LoseAnswer(w)
  <2>1. UNCHANGED <<clusterVars, hpcworkqueue, told>> /\ Goto(w, "lost")
    BY <1>11 DEF LoseAnswer
  <2>2. DatabaseTypeOK'
    <3>1. \/ \E s \in PackageStates : updatePackageState(PackageOf(w), s)
          \/ setPackageFolder(PackageOf(w)) \/ setJobSubmittedByID(JobOf(w))
          \/ \E s \in JobStates : setJobState(JobOf(w), s)
      BY <1>11, StatesTyped DEF LoseAnswer, setJobDoneByID, setJobFailedByID, deleteJobByID
    <3> QED BY <3>1, StatementsTyped
  <2> QED BY <1>2, <2>1, <2>2, MovesTyped, StatesTyped DEF clusterVars, ClusterTypeOK
<1> QED BY <1>3, <1>4, <1>5, <1>6, <1>7, <1>8, <1>9, <1>10, <1>11 DEF WorkerActs, WorkerStep

(* What the listing shows of a job is a state on the HPC center, or that   *)
(* it ended, and the latter only if it is not listed or listed as ended.   *)
LEMMA StateOfLetters ==
    ASSUME NEW l \in {"none", Ended} \cup Letters
    PROVE  /\ StateOf(l) \in {WSDJobStateCompletedInHPC}
                             \cup WSDJobStateInHPCQueue .. WSDJobStateSuspended
           /\ StateOf(l) \in JobStates
           /\ StateOf(l) = WSDJobStateCompletedInHPC <=> l \in {Ended, "none"}
<1>1. CASE l \in {Ended, "none"}
  <2>1. /\ Ended \notin {"Q", "H", "T", "W", "S", "R", "PD", Exiting}
        /\ Exiting # "none"
    BY ClusterAssumption DEF Exiting, Ended
  <2> QED BY <1>1, <2>1, StatesTyped DEF StateOf
<1>2. CASE l \notin {Ended, "none"}
  <2>1. /\ l \in {"Q", "H", "T", "W", "S", "R", "PD", Exiting}
        /\ Exiting \notin {"Q", "H", "T", "W", "S", "R", "PD"}
    BY <1>2, ClusterAssumption DEF Exiting
  <2>2. StateOf(l) \in WSDJobStateInHPCQueue .. WSDJobStateSuspended
    <3> USE DEF WSDJobStateInHPCQueue, WSDJobStateSuspended, WSDJobStateRunning,
                WSDJobStateExiting, WSDJobStateHeld, WSDJobStateMoved, WSDJobStateWaiting
    <3>1. CASE l = Exiting
      BY <1>2, <2>1, <3>1 DEF StateOf
    <3>2. CASE l # Exiting
      BY <1>2, <2>1, <3>2 DEF StateOf
    <3> QED BY <3>1, <3>2
  <2> QED BY <1>2, <2>2, StatesTyped
          DEF WSDJobStateCompletedInHPC, WSDJobStateInHPCQueue, WSDJobStateSuspended
<1> QED BY <1>1, <1>2

(* The lines of a listing: those of its header, then one per job shown.    *)
LEMMA ListingLines ==
    ASSUME NEW S, IsFiniteSet(S), NEW order \in Orders(S), NEW text,
           text = Header \o [i \in 1..Cardinality(S) |-> Row(order[i])]
    PROVE  /\ Len(Header) \in Nat /\ Cardinality(S) \in Nat
           /\ DOMAIN text = 1..Len(Header) + Cardinality(S)
           /\ \A i \in 1..Len(Header) : Skipped(text, i)
           /\ \A i \in 1..Cardinality(S) :
                 /\ text[Len(Header) + i] = Row(order[i])
                 /\ ~Skipped(text, Len(Header) + i)
<1> DEFINE rows == [i \in 1..Cardinality(S) |-> Row(order[i])]
<1>1. Cardinality(S) \in Nat
  BY FS_CardinalityType
<1>2. rows \in Seq({Row(order[i]) : i \in 1..Cardinality(S)}) /\ Len(rows) = Cardinality(S)
  BY <1>1
<1>3. /\ DOMAIN text = 1..Len(Header) + Cardinality(S)
      /\ \A i \in 1..Len(Header) : text[i] = Header[i]
      /\ \A i \in 1..Cardinality(S) : text[Len(Header) + i] = rows[i]
      /\ Len(Header) \in Nat
  BY <1>1, <1>2 DEF Header
<1>4. CASE QType = 1
  <2>1. /\ Len(Header) = 5 /\ Header[1] = <<>> /\ Header[2][1] = "host"
        /\ Header[3][1] = "Req'd" /\ Header[4][1] = "Job" /\ Header[5][1] = Dashes
        /\ Header[5] # <<>>
    BY <1>4 DEF Header
  <2>2. \A k \in 1..4 : text[k] = <<>> \/ text[k][1] # Dashes
    <3>1. \A k \in 1..4 : k = 1 \/ k = 2 \/ k = 3 \/ k = 4
      OBVIOUS
    <3>2. \A k \in 1..4 : k \in 1..Len(Header)
      BY <2>1
    <3>3. \A k \in 1..4 : text[k] = Header[k]
      BY <1>3, <3>2
    <3>4. "host" # Dashes /\ "Req'd" # Dashes /\ "Job" # Dashes
      BY DEF Dashes
    <3> HIDE DEF Dashes
    <3>5. \A k \in 1..4 : Header[k] = <<>> \/ Header[k][1] # Dashes
      BY <2>1, <3>1, <3>4
    <3> QED BY <3>3, <3>5
  <2>3. ASSUME NEW i \in 1..5 PROVE Skipped(text, i)
    <3>1. \A k \in 1..i - 1 : k \in 1..4
      OBVIOUS
    <3> QED BY <1>4, <2>2, <3>1 DEF Skipped
  <2>4. ASSUME NEW i \in 1..Cardinality(S) PROVE ~Skipped(text, 5 + i)
    <3>1. 5 \in 1..(5 + i) - 1 /\ 5 \in 1..5
      BY <1>1
    <3>2. text[5] # <<>> /\ text[5][1] = Dashes
      BY <1>3, <2>1, <3>1
    <3> QED BY <1>4, <3>1, <3>2 DEF Skipped
  <2> QED BY <1>1, <1>3, <2>1, <2>3, <2>4
<1>5. CASE QType # 1
  <2>1. Len(Header) = 1
    BY <1>5 DEF Header
  <2> QED BY <1>1, <1>3, <1>5, <2>1 DEF Skipped
<1> QED BY <1>4, <1>5

(* The parsers find in a listing what it shows: the status of each job it  *)
(* has a line for, whatever the order of its lines.                        *)
THEOREM ListingIsRead ==
    ASSUME NEW text \in Listings, NEW j \in Jobs
    PROVE  StatusIn(text, j) = IF Listed(j) THEN hpc[j].status ELSE "none"
<1>0. PICK S \in {Shown, Shown \cup {NoJob}} : \E order \in Orders(S) :
         text = IF QType = 1 /\ S = {} THEN <<>>
                ELSE Header \o [i \in 1..Cardinality(S) |-> Row(order[i])]
  BY DEF Listings
<1>1. PICK order \in Orders(S) :
         text = IF QType = 1 /\ S = {} THEN <<>>
                ELSE Header \o [i \in 1..Cardinality(S) |-> Row(order[i])]
  BY <1>0
<1>2. IsFiniteSet(S) /\ j # NoJob /\ (j \in S <=> Listed(j))
  <2>1. IsFiniteSet(Shown)
    BY ListingAssumption, FS_Subset DEF Shown
  <2> QED BY <2>1, FS_AddElement, SchedulerAssumption DEF Shown
<1> DEFINE found == {i \in JobLines(text) : text[i][1] = j}
<1>3. CASE QType = 1 /\ S = {}
  <2>1. text = <<>> /\ ~Listed(j)
    BY <1>1, <1>2, <1>3
  <2>2. JobLines(text) = {}
    BY <2>1 DEF JobLines
  <2> QED BY <2>1, <2>2 DEF StatusIn
<1>4. CASE ~(QType = 1 /\ S = {})
  <2> DEFINE h == Len(Header)
             n == Cardinality(S)
  <2>1. /\ h \in Nat /\ n \in Nat /\ DOMAIN text = 1..h + n
        /\ \A i \in 1..h : Skipped(text, i)
        /\ \A i \in 1..n : text[h + i] = Row(order[i]) /\ ~Skipped(text, h + i)
    <3>1. text = Header \o [i \in 1..Cardinality(S) |-> Row(order[i])]
      BY <1>1, <1>4
    <3> QED BY <1>1, <1>2, <3>1, ListingLines
  <2> HIDE DEF h, n
  <2>2. ASSUME NEW k
        PROVE  /\ Len(Row(k)) > 1 /\ Row(k)[1] = k /\ StatusColumn <= Len(Row(k))
               /\ k # NoJob => Row(k)[StatusColumn] = hpc[k].status
    BY DEF Row, Columns, StatusColumn
  <2>3. \A i \in h + 1..h + n :
           i - h \in 1..n /\ text[i] = Row(order[i - h]) /\ ~Skipped(text, i)
    <3>1. ASSUME NEW i \in h + 1..h + n PROVE i - h \in 1..n /\ i = h + (i - h)
      BY <2>1
    <3> QED BY <2>1, <3>1
  <2>4. JobLines(text) = h + 1..h + n
    <3>1. ASSUME NEW k \in 1..h + n PROVE k \in 1..h \/ k \in h + 1..h + n
      BY <2>1
    <3>2. \A k \in 1..h + n : Skipped(text, k) \/ Len(text[k]) > 1
      BY <2>1, <2>2, <2>3, <3>1
    <3>3. \A i \in 1..h + n : \A k \in 1..i : k \in 1..h + n
      BY <2>1
    <3>4. JobLines(text) \subseteq h + 1..h + n
      BY <2>1, <3>1 DEF JobLines
    <3>5. h + 1..h + n \subseteq DOMAIN text
      BY <2>1
    <3>6. h + 1..h + n \subseteq JobLines(text)
      BY <2>1, <2>3, <3>2, <3>3, <3>5 DEF JobLines
    <3> QED BY <3>4, <3>6
  <2>5. found = {i \in h + 1..h + n : order[i - h] = j}
    BY <2>2, <2>3, <2>4
  <2>6. /\ \A i \in 1..n : order[i] \in S
        /\ \A i, k \in 1..n : order[i] = order[k] => i = k
        /\ \A s \in S : \E i \in 1..n : order[i] = s
    BY <1>1 DEF Orders, Bijection, Injection, IsInjective, Surjection, n
  <2>7. CASE ~Listed(j)
    <3>1. found = {}
      BY <1>2, <2>3, <2>5, <2>6, <2>7
    <3> QED BY <2>7, <3>1 DEF StatusIn
  <2>8. CASE Listed(j)
    <3>1. PICK i \in 1..n : order[i] = j
      BY <1>2, <2>6, <2>8
    <3>2. h + i \in h + 1..h + n /\ (h + i) - h = i /\ h + i <= h + i
      BY <2>1
    <3>3. \A k \in found : k = h + i
      <4>1. ASSUME NEW k \in found PROVE k - h = i /\ k \in Int
        <5>1. k \in h + 1..h + n /\ order[k - h] = j
          BY <2>5
        <5>2. k - h \in 1..n /\ k \in Int
          BY <2>1, <2>3, <5>1
        <5> QED BY <2>6, <3>1, <5>1, <5>2
      <4> QED BY <2>1, <4>1
    <3>4. found = {h + i}
      <4>1. h + i \in found
        BY <2>5, <3>1, <3>2
      <4> HIDE DEF found
      <4> QED BY <3>3, <4>1
    <3>5. (CHOOSE x \in found : \A k \in found : x <= k) = h + i
      BY <3>2, <3>4
    <3>6. text[h + i] = Row(j)
      BY <2>1, <3>1
    <3> QED BY <1>2, <2>2, <2>8, <3>4, <3>5, <3>6 DEF StatusIn
  <2> QED BY <2>7, <2>8
<1> QED BY <1>3, <1>4

(* A round of the background thread goes through typed records.            *)
LEMMA PollerRecords ==
    ASSUME NEW r \in PollerRecord, NEW pc \in PollerPc
    PROVE  /\ Asleep \in PollerRecord
           /\ [r EXCEPT !.pc = pc] \in PollerRecord
           /\ \A S \in SUBSET Jobs : [r EXCEPT !.pc = pc, !.todo = S] \in PollerRecord
           /\ \A l \in [Jobs -> {"none", Ended} \cup Letters] :
                 [r EXCEPT !.pc = pc, !.listing = l] \in PollerRecord
           /\ [r EXCEPT !.pc = pc, !.job = NoJob, !.old = NoRecord, !.new = NoRecord]
                 \in PollerRecord
<1>1. Asleep \in PollerRecord
  BY DEF PollerRecord, Asleep, PollerPc
<1>2. [r EXCEPT !.pc = pc] \in PollerRecord
  BY DEF PollerRecord
<1>3. ASSUME NEW S \in SUBSET Jobs PROVE [r EXCEPT !.pc = pc, !.todo = S] \in PollerRecord
  BY DEF PollerRecord
<1>4. ASSUME NEW l \in [Jobs -> {"none", Ended} \cup Letters]
      PROVE  [r EXCEPT !.pc = pc, !.listing = l] \in PollerRecord
  BY DEF PollerRecord
<1>5. [r EXCEPT !.pc = pc, !.job = NoJob, !.old = NoRecord, !.new = NoRecord] \in PollerRecord
  BY DEF PollerRecord
<1> QED BY <1>1, <1>2, <1>3, <1>4, <1>5

(* So does the read of the state of a job.                                 *)
LEMMA PollerReads ==
    ASSUME NEW r \in PollerRecord, NEW j \in Jobs, NEW old \in {NoRecord} \cup JobStates,
           NEW new \in JobStates
    PROVE  [r EXCEPT !.pc = "update", !.todo = @ \ {j}, !.job = j, !.old = old, !.new = new]
              \in PollerRecord
<1>1. r.todo \ {j} \in SUBSET Jobs /\ "update" \in PollerPc
  BY DEF PollerRecord, PollerPc
<1> QED BY <1>1 DEF PollerRecord

(* Every step of a background thread keeps the state well typed.           *)
LEMMA PollersTyped ==
    ASSUME TypeOK, RoundsAreSound, NEW b \in Pollers, PollerActs(b)
    PROVE  TypeOK'
<1> DEFINE QueueOK == hpcworkqueue \in Seq(WSHPCWork)
           ToldOK == told \in [Jobs -> {NoRecord} \cup JobStates]
<1> SUFFICES DatabaseTypeOK' /\ ClusterTypeOK' /\ QueueOK' /\ ToldOK' /\ PollerTypeOK'
  BY DEF TypeOK, SchedulerTypeOK, PollerActs, WorkerTypeOK, PagesTypeOK
<1> USE DEF TypeOK, SchedulerTypeOK
<1>1. /\ poller[b] \in PollerRecord
      /\ poller \in [Pollers -> PollerRecord]
      /\ \A pc \in {"list", "jobs", "announce", "enqueue"} : pc \in PollerPc
  BY DEF PollerTypeOK, PollerPc
<1>2. poller[b].pc \in {"update", "announce", "enqueue"} =>
         poller[b].job \in Jobs /\ poller[b].new \in JobStates
  BY StatesTyped DEF RoundsAreSound, RoundIsSound
<1>3. ASSUME NextJob(b) PROVE PollerTypeOK'
  <2>1. CASE poller[b].todo = {}
    BY <1>1, <1>3, <2>1, PollerRecords DEF NextJob, PollerTypeOK
  <2>2. CASE poller[b].todo # {}
    <3>1. poller' = [poller EXCEPT ![b] =
                        [poller[b] EXCEPT !.pc = "jobs", !.job = NoJob,
                                          !.old = NoRecord, !.new = NoRecord]]
      BY <1>3, <2>2 DEF NextJob, PollerTypeOK
    <3> QED BY <1>1, <3>1, PollerRecords DEF PollerTypeOK
  <2> QED BY <2>1, <2>2
<1>4. ASSUME EnqueueOrNext(b) PROVE PollerTypeOK'
  BY <1>1, <1>3, <1>4, PollerRecords DEF EnqueueOrNext, PollerTypeOK
<1>5. CASE PollSnapshot(b)
  <2>1. getAllSubmittedAndRunningJobsByHPCID \in SUBSET Jobs
    BY DEF getAllSubmittedAndRunningJobsByHPCID
  <2>2. poller' = [poller EXCEPT ![b] = [poller[b] EXCEPT
                      !.pc = "list", !.todo = getAllSubmittedAndRunningJobsByHPCID]]
    BY <1>1, <1>5 DEF PollSnapshot
  <2>3. PollerTypeOK'
    BY <1>1, <2>1, <2>2, PollerRecords DEF PollerTypeOK
  <2> QED BY <1>5, <2>3 DEF PollSnapshot, sharedVars, DatabaseTypeOK, ClusterTypeOK
<1>6. CASE PollList(b)
  <2> DEFINE listing == [j \in Jobs |-> IF Listed(j) THEN hpc[j].status ELSE "none"]
  <2>1. listing \in [Jobs -> {"none", Ended} \cup Letters]
    BY DEF ClusterTypeOK, Listed
  <2>2. poller' = [poller EXCEPT ![b] = [poller[b] EXCEPT !.pc = "jobs", !.listing = listing]]
    <3>1. PICK text \in Listings :
             poller' = [poller EXCEPT ![b].pc = "jobs",
                                      ![b].listing = [j \in Jobs |-> StatusIn(text, j)]]
      BY <1>6 DEF PollList
    <3>2. [j \in Jobs |-> StatusIn(text, j)] = listing
      BY ListingIsRead
    <3> QED BY <3>1, <3>2 DEF PollerTypeOK
  <2> HIDE DEF listing
  <2>3. PollerTypeOK'
    BY <1>1, <2>1, <2>2, PollerRecords DEF PollerTypeOK
  <2> QED BY <1>6, <2>3 DEF PollList, sharedVars, DatabaseTypeOK, ClusterTypeOK
<1>7. ASSUME NEW j \in Jobs, PollRead(b, j)
      PROVE  DatabaseTypeOK' /\ ClusterTypeOK' /\ QueueOK' /\ ToldOK' /\ PollerTypeOK'
  <2>1. jobs[j].state \in {NoRecord} \cup JobStates
    BY DEF DatabaseTypeOK, JobRecord
  <2>2. StateOf(poller[b].listing[j]) \in JobStates
    BY <1>1, StateOfLetters DEF PollerRecord
  <2>3. poller' = [poller EXCEPT ![b] = [poller[b] EXCEPT
                      !.pc = "update", !.todo = @ \ {j}, !.job = j, !.old = jobs[j].state,
                      !.new = StateOf(poller[b].listing[j])]]
    BY <1>7 DEF PollRead, PollerTypeOK
  <2>4. PollerTypeOK'
    BY <1>1, <2>1, <2>2, <2>3, PollerReads DEF PollerTypeOK
  <2> QED BY <1>7, <2>4 DEF PollRead, sharedVars, DatabaseTypeOK, ClusterTypeOK
<1>8. CASE PollUpdate(b)
  <2>1. DatabaseTypeOK' /\ UNCHANGED <<clusterVars, hpcworkqueue, told>>
    BY <1>2, <1>8, StatementsTyped DEF PollUpdate
  <2>2. PollerTypeOK'
    BY <1>1, <1>4, <1>8, PollerRecords DEF PollUpdate, PollerTypeOK
  <2> QED BY <2>1, <2>2 DEF clusterVars, ClusterTypeOK
<1>9. CASE PollAnnounce(b)
  <2>1. UNCHANGED <<dbVars, clusterVars, hpcworkqueue>> /\ ToldOK'
    BY <1>2, <1>9 DEF PollAnnounce, doCallback
  <2> QED BY <1>4, <1>9, <2>1 DEF PollAnnounce, dbVars, clusterVars, DatabaseTypeOK, ClusterTypeOK
<1>10. CASE PollEnqueue(b)
  <2> DEFINE item == Work("check", poller[b].job, jobs[poller[b].job].package)
  <2>1. item \in WSHPCWork
    <3>1. jobs[poller[b].job].package \in Packages \cup {NoPackage}
      BY <1>2, <1>10 DEF PollEnqueue, DatabaseTypeOK, JobRecord
    <3> QED BY <1>2, <1>10, <3>1, WorkTyped DEF PollEnqueue, WorkType
  <2> HIDE DEF item
  <2>2. QueueOK'
    <3>1. hpcworkqueue' = Append(hpcworkqueue, item)
      BY <1>10 DEF PollEnqueue, addHPCWork, item
    <3> QED BY <2>1, <3>1, AppendFacts
  <2> QED BY <1>3, <1>10, <2>2
          DEF PollEnqueue, dbVars, clusterVars, DatabaseTypeOK, ClusterTypeOK
<1>11. CASE PollThrow(b)
  BY <1>1, <1>11, PollerRecords
     DEF PollThrow, sharedVars, DatabaseTypeOK, ClusterTypeOK, PollerTypeOK
<1>12. CASE PollLoseAnswer(b)
  <2>1. DatabaseTypeOK' /\ UNCHANGED <<clusterVars, hpcworkqueue, told>>
    BY <1>2, <1>12, StatementsTyped DEF PollLoseAnswer
  <2> QED BY <1>1, <1>12, <2>1, PollerRecords
          DEF PollLoseAnswer, clusterVars, ClusterTypeOK, PollerTypeOK
<1> QED BY <1>5, <1>6, <1>7, <1>8, <1>9, <1>10, <1>11, <1>12 DEF PollerActs, PollerStep

(* The moves of a request keep its record well typed.                      *)
LEMMA RequestsTyped ==
    ASSUME client \in [Clients -> ClientRecord], NEW c \in Clients, NEW pc \in ClientPc,
           NEW item \in WSHPCWork
    PROVE  /\ NoRequest \in ClientRecord
           /\ Proceed(c, pc) => client' \in [Clients -> ClientRecord]
           /\ Begin(c, pc, item) => client' \in [Clients -> ClientRecord]
           /\ Refuse(c) => client' \in [Clients -> ClientRecord]
<1>1. NoRequest \in ClientRecord
  <2>1. Work("upload", NoJob, NoPackage) \in WSHPCWork
    BY WorkTyped DEF WorkType
  <2> QED BY <2>1 DEF NoRequest, ClientRecord, ClientPc
<1>2. Proceed(c, pc) => client' \in [Clients -> ClientRecord]
  <2>1. [client[c] EXCEPT !.pc = pc] \in ClientRecord
    BY DEF ClientRecord
  <2> QED BY <2>1 DEF Proceed
<1>3. Begin(c, pc, item) => client' \in [Clients -> ClientRecord]
  <2>1. [pc |-> pc, item |-> item] \in ClientRecord
    BY DEF ClientRecord
  <2> QED BY <2>1 DEF Begin
<1>4. Refuse(c) => client' \in [Clients -> ClientRecord]
  BY <1>1 DEF Refuse
<1> QED BY <1>1, <1>2, <1>3, <1>4

(* Every step of a request keeps the state well typed.                     *)
LEMMA ClientsTyped ==
    ASSUME TypeOK, NEW c \in Clients, ClientActs(c)
    PROVE  TypeOK'
<1> DEFINE QueueOK == hpcworkqueue \in Seq(WSHPCWork)
           ToldOK == told \in [Jobs -> {NoRecord} \cup JobStates]
           RequestOK == client \in [Clients -> ClientRecord]
           DeletesOK == deletes \in [Packages \cup Jobs -> Nat]
           AllOK == /\ DatabaseTypeOK /\ ClusterTypeOK /\ QueueOK /\ ToldOK
                    /\ RequestOK /\ DeletesOK
<1> SUFFICES AllOK'
  BY DEF TypeOK, SchedulerTypeOK, ClientActs, WorkerTypeOK, PollerTypeOK, PagesTypeOK
<1> USE DEF TypeOK, SchedulerTypeOK, PagesTypeOK
<1>1. /\ {"enqueue", "create", "state", "jobs", "delete_jobs", "delete_package"}
             \subseteq ClientPc
      /\ {"upload", "submit", "delete_job", "delete_package"} \subseteq WorkType
  BY DEF ClientPc, WorkType
<1>2. client[c] \in ClientRecord /\ client[c].item \in WSHPCWork
  BY DEF ClientRecord
<1>3. CASE Enqueue(c)
  <2>1. QueueOK'
    BY <1>2, <1>3, AppendFacts DEF Enqueue, addHPCWork
  <2>2. RequestOK'
    BY <1>2, <1>3, RequestsTyped, <1>1 DEF Enqueue
  <2> QED BY <1>3, <2>1, <2>2
          DEF Enqueue, dbVars, clusterVars, DatabaseTypeOK, ClusterTypeOK
<1>4. CASE UploadPackage(c)
  <2>1. PICK p \in Packages : /\ createPackage(p)
                              /\ Begin(c, "enqueue", Work("upload", NoJob, p))
                              /\ UNCHANGED <<clusterVars, hpcworkqueue, told, deletes>>
    BY <1>4 DEF UploadPackage
  <2>2. DatabaseTypeOK'
    BY <2>1, StatementsTyped
  <2>3. RequestOK'
    BY <1>1, <2>1, WorkTyped, RequestsTyped
  <2> QED BY <2>1, <2>2, <2>3 DEF clusterVars, ClusterTypeOK
<1>5. CASE SubmitJob(c)
  <2>1. UNCHANGED <<sharedVars, deletes>>
    BY <1>5 DEF SubmitJob
  <2>2. RequestOK'
    <3>1. PICK p \in Packages :
             \/ Begin(c, "create", [Work("submit", NoJob, p) EXCEPT !.folder = packages[p].folder])
             \/ Refuse(c)
      BY <1>5 DEF SubmitJob
    <3>2. [Work("submit", NoJob, p) EXCEPT !.folder = packages[p].folder] \in WSHPCWork
      <4>1. packages[p].folder \in BOOLEAN
        BY DEF DatabaseTypeOK, PackageRecord
      <4> QED BY <1>1, <4>1, WorkTyped
    <3> QED BY <1>1, <3>1, <3>2, RequestsTyped
  <2> QED BY <2>1, <2>2 DEF sharedVars, DatabaseTypeOK, ClusterTypeOK
<1>6. CASE SubmitJobCreate(c)
  <2>1. PICK j \in Jobs : /\ createJob(j, PackageIn(c))
                          /\ client' = [client EXCEPT ![c].pc = "enqueue", ![c].item.job = j]
    BY <1>6 DEF SubmitJobCreate
  <2>2. UNCHANGED <<clusterVars, hpcworkqueue, told, deletes>>
    BY <1>6 DEF SubmitJobCreate
  <2>3. DatabaseTypeOK'
    <3>1. PackageIn(c) \in Packages \cup {NoPackage}
      BY <1>2 DEF PackageIn, WSHPCWork
    <3> QED BY <2>1, <3>1, StatementsTyped
  <2>4. RequestOK'
    <3>1. [client[c].item EXCEPT !.job = j] \in WSHPCWork
      BY <1>2 DEF WSHPCWork
    <3>2. client' = [client EXCEPT ![c] = [client[c] EXCEPT
                        !.pc = "enqueue", !.item = [client[c].item EXCEPT !.job = j]]]
      BY <1>2, <2>1
    <3>3. [client[c] EXCEPT !.pc = "enqueue", !.item = [client[c].item EXCEPT !.job = j]]
             \in ClientRecord
      BY <1>1, <1>2, <3>1 DEF ClientRecord
    <3> QED BY <3>2, <3>3
  <2> QED BY <2>2, <2>3, <2>4 DEF clusterVars, ClusterTypeOK
<1>7. ASSUME NEW x \in Packages \cup Jobs, DeleteRequest(x) PROVE DeletesOK'
  BY <1>7 DEF DeleteRequest
<1>8. CASE DeleteJob(c)
  <2>1. PICK j \in Jobs : /\ DeleteRequest(j)
                          /\ Begin(c, "enqueue", [Work("delete_job", j, jobs[j].package)
                                                  EXCEPT !.submitted = jobs[j].submitted])
                          /\ UNCHANGED sharedVars
    BY <1>8 DEF DeleteJob
  <2>2. RequestOK'
    <3>1. jobs[j].package \in Packages \cup {NoPackage} /\ jobs[j].submitted \in BOOLEAN
      BY DEF DatabaseTypeOK, JobRecord
    <3> QED BY <1>1, <2>1, <3>1, WorkTyped, RequestsTyped
  <2> QED BY <1>7, <2>1, <2>2 DEF sharedVars, DatabaseTypeOK, ClusterTypeOK
<1>9. CASE DeletePackage(c)
  <2>1. PICK p \in Packages : /\ DeleteRequest(p)
                              /\ Begin(c, "state", [Work("delete_package", NoJob, p)
                                                    EXCEPT !.folder = packages[p].folder])
                              /\ UNCHANGED sharedVars
    BY <1>9 DEF DeletePackage
  <2>2. RequestOK'
    <3>1. packages[p].folder \in BOOLEAN
      BY DEF DatabaseTypeOK, PackageRecord
    <3> QED BY <1>1, <2>1, <3>1, WorkTyped, RequestsTyped
  <2> QED BY <1>7, <2>1, <2>2 DEF sharedVars, DatabaseTypeOK, ClusterTypeOK
<1>10. CASE \/ DeletePackageCheckState(c) \/ DeletePackageRefuseState(c)
            \/ DeletePackageCheckJobs(c) \/ RequestFails(c)
  <2>1. UNCHANGED <<sharedVars, deletes>>
    BY <1>10 DEF DeletePackageCheckState, DeletePackageRefuseState, DeletePackageCheckJobs,
                 RequestFails
  <2>2. RequestOK'
    BY <1>1, <1>2, <1>10, RequestsTyped
       DEF DeletePackageCheckState, DeletePackageRefuseState, DeletePackageCheckJobs,
           RequestFails
  <2> QED BY <2>1, <2>2 DEF sharedVars, DatabaseTypeOK, ClusterTypeOK
<1>11. CASE DeletePackageJobs(c) \/ DeletePackageRow(c)
  <2>1. UNCHANGED <<clusterVars, hpcworkqueue, told, deletes>>
    BY <1>11 DEF DeletePackageJobs, DeletePackageRow
  <2>2. DatabaseTypeOK'
    BY <1>11, StatementsTyped, StatesTyped
       DEF DeletePackageJobs, DeletePackageRow, setPackageDeleted
  <2>3. RequestOK'
    BY <1>1, <1>2, <1>11, RequestsTyped DEF DeletePackageJobs, DeletePackageRow
  <2> QED BY <2>1, <2>2, <2>3 DEF clusterVars, ClusterTypeOK
<1>12. CASE RequestLosesAnswer(c)
  <2>1. UNCHANGED <<clusterVars, hpcworkqueue, told, deletes>> /\ Refuse(c)
    BY <1>12 DEF RequestLosesAnswer
  <2>2. PackageIn(c) \in Packages \cup {NoPackage}
    BY <1>2 DEF PackageIn, WSHPCWork
  <2>3. DatabaseTypeOK'
    BY <1>12, <2>2, StatementsTyped, StatesTyped DEF RequestLosesAnswer, setPackageDeleted
  <2>4. RequestOK'
    BY <1>1, <1>2, <2>1, RequestsTyped
  <2> QED BY <2>1, <2>3, <2>4 DEF clusterVars, ClusterTypeOK
<1> QED BY <1>3, <1>4, <1>5, <1>6, <1>8, <1>9, <1>10, <1>11, <1>12 DEF ClientActs, ClientStep

(* Every step keeps the state well typed.                                  *)
LEMMA StepTyped ==
    TypeOK /\ CheckedAreFinished /\ RoundsAreSound /\ [Next]_vars => TypeOK'
<1> SUFFICES ASSUME TypeOK, CheckedAreFinished, RoundsAreSound, [Next]_vars PROVE TypeOK'
  OBVIOUS
<1>1. CASE UNCHANGED vars
  BY <1>1 DEF vars, TypeOK, SchedulerTypeOK, DatabaseTypeOK, ClusterTypeOK, WorkerTypeOK,
              PollerTypeOK, PagesTypeOK
<1>2. ASSUME NEW j \in Jobs, HpcActs(j) PROVE TypeOK'
  <2>1. UNCHANGED <<dbVars, hpcworkqueue, told, threadVars, deletes, crashes>>
    BY <1>2 DEF HpcActs
  <2>2. ClusterTypeOK'
    BY <1>2, ClusterTyped DEF HpcActs, TypeOK, SchedulerTypeOK
  <2> QED BY <2>1, <2>2 DEF TypeOK, SchedulerTypeOK, DatabaseTypeOK, WorkerTypeOK,
                            PollerTypeOK, PagesTypeOK, dbVars, threadVars
<1>3. CASE Crash
  <2>1. UNCHANGED <<dbVars, clusterVars, told, deletes>>
    BY <1>3 DEF Crash
  <2>2. hpcworkqueue' \in Seq(WSHPCWork) /\ crashes' \in 0 .. MaxCrashes
    BY <1>3, CrashAssumption DEF Crash, TypeOK
  <2>3. WorkerTypeOK'
    <3>1. Idle \in [pc : WorkerPc, item : WSHPCWork, ok : BOOLEAN,
                    due : {NoRecord} \cup JobStates]
      <4>1. Work("upload", NoJob, NoPackage) \in WSHPCWork
        BY WorkTyped DEF WorkType
      <4> QED BY <4>1 DEF Idle, WorkerPc
    <3> QED BY <1>3, <3>1 DEF Crash, WorkerTypeOK
  <2>4. PollerTypeOK'
    <3>1. Asleep \in PollerRecord
      BY DEF Asleep, PollerRecord, PollerPc
    <3> QED BY <1>3, <3>1 DEF Crash, PollerTypeOK
  <2>5. client' \in [Clients -> ClientRecord]
    <3>1. NoRequest \in ClientRecord
      <4>1. Work("upload", NoJob, NoPackage) \in WSHPCWork
        BY WorkTyped DEF WorkType
      <4> QED BY <4>1 DEF NoRequest, ClientRecord, ClientPc
    <3> QED BY <1>3, <3>1 DEF Crash
  <2> QED BY <2>1, <2>2, <2>3, <2>4, <2>5
          DEF TypeOK, SchedulerTypeOK, DatabaseTypeOK, ClusterTypeOK, PagesTypeOK, dbVars,
              clusterVars
<1> QED BY <1>1, <1>2, <1>3, WorkersTyped, PollersTyped, ClientsTyped DEF Next

(* The server starts with well-typed, empty tables and idle threads.       *)
LEMMA InitTyped == Init => TypeOK
<1> SUFFICES ASSUME Init PROVE TypeOK
  OBVIOUS
<1>1. DatabaseTypeOK /\ ClusterTypeOK
  BY DEF Init, SchedulerInit, DatabaseInit, ClusterInit, DatabaseTypeOK, ClusterTypeOK,
         PackageRecord, JobRecord
<1>2. hpcworkqueue \in Seq(WSHPCWork) /\ told \in [Jobs -> {NoRecord} \cup JobStates]
  BY DEF Init, SchedulerInit
<1>3. Work("upload", NoJob, NoPackage) \in WSHPCWork
  BY WorkTyped DEF WorkType
<1>4. WorkerTypeOK
  BY <1>3 DEF Init, WorkerInit, WorkerTypeOK, Idle, WorkerPc
<1>5. PollerTypeOK
  <2>1. Asleep \in PollerRecord
    BY DEF Asleep, PollerRecord, PollerPc
  <2> QED BY <2>1 DEF Init, PollerInit, PollerTypeOK
<1>6. PagesTypeOK
  <2>1. NoRequest \in ClientRecord
    BY <1>3 DEF NoRequest, ClientRecord, ClientPc
  <2> QED BY <2>1 DEF Init, PagesInit, PagesTypeOK
<1>7. crashes \in 0 .. MaxCrashes
  BY CrashAssumption DEF Init
<1> QED BY <1>1, <1>2, <1>4, <1>5, <1>6, <1>7 DEF TypeOK, SchedulerTypeOK

-----------------------------------------------------------------------------
(* What any step leaves true of a job on the HPC center: it stays known,   *)
(* ended once it ended, and its exit code stands.                          *)
HpcKept == \A j \in Jobs : /\ OnHpc(j) => OnHpc(j)'
                           /\ Finished(j) => Finished(j)' /\ hpc'[j].ok = hpc[j].ok

(* What changes the HPC center, but for qsub.                              *)
HpcActions(k, P, J) == \/ UNCHANGED hpc \/ HpcNext(k) \/ qdel(k) \/ RemoveJobFolder(k)
                       \/ RemovePackageFolders(P, J)
                       \/ \E d : hpc' = [hpc EXCEPT ![k].dir = d]

(* No command, and no move of the HPC center, takes a job back; only qsub  *)
(* makes one known.                                                        *)
LEMMA ClusterKeeps ==
    ASSUME ClusterTypeOK, NEW j \in Jobs, NEW k, NEW P, NEW J, HpcActions(k, P, J)
    PROVE  /\ OnHpc(j) <=> OnHpc(j)'
           /\ Finished(j) => Finished(j)' /\ hpc'[j].ok = hpc[j].ok
<1> USE DEF ClusterTypeOK, OnHpc, Finished
<1>1. /\ "gone" \notin Letters /\ Ended \notin Letters /\ "none" \notin Letters
      /\ Ended # "none"
  BY ClusterAssumption DEF Ended
<1>2. CASE UNCHANGED hpc
  BY <1>2
<1>3. CASE HpcNext(k)
  <2>1. CASE HpcMove(k)
    BY <1>1, <2>1 DEF HpcMove
  <2>2. CASE HpcEnd(k)
    BY <1>1, <2>2 DEF HpcEnd
  <2>3. CASE HpcForget(k)
    BY <1>1, <2>3 DEF HpcForget
  <2> QED BY <1>3, <2>1, <2>2, <2>3 DEF HpcNext
<1>4. CASE qdel(k)
  BY <1>1, <1>4 DEF qdel, QdelWorks
<1>5. CASE RemoveJobFolder(k)
  BY <1>5 DEF RemoveJobFolder
<1>6. CASE RemovePackageFolders(P, J)
  BY <1>6 DEF RemovePackageFolders
<1>7. ASSUME NEW d, hpc' = [hpc EXCEPT ![k].dir = d]
      PROVE  /\ OnHpc(j) <=> OnHpc(j)'
             /\ Finished(j) => Finished(j)' /\ hpc'[j].ok = hpc[j].ok
  BY <1>7
<1> QED BY <1>2, <1>3, <1>4, <1>5, <1>6, <1>7 DEF HpcActions

(* Only the workers and the HPC center itself change it.                   *)
LEMMA OthersLeaveHpc ==
    ASSUME \/ \E b \in Pollers : PollerActs(b)
           \/ \E c \in Clients : ClientActs(c)
           \/ Crash \/ UNCHANGED vars
    PROVE  UNCHANGED hpc
<1>1. ASSUME NEW b \in Pollers, PollerActs(b) PROVE UNCHANGED hpc
  <2>1. PollSnapshot(b) \/ PollList(b) \/ PollThrow(b) => UNCHANGED hpc
    BY DEF PollSnapshot, PollList, PollThrow, sharedVars, clusterVars
  <2>2. ASSUME NEW k \in Jobs, PollRead(b, k) PROVE UNCHANGED hpc
    BY <2>2 DEF PollRead, sharedVars, clusterVars
  <2>3. PollUpdate(b) \/ PollAnnounce(b) \/ PollEnqueue(b) \/ PollLoseAnswer(b) => UNCHANGED hpc
    BY DEF PollUpdate, PollAnnounce, PollEnqueue, PollLoseAnswer, clusterVars
  <2> QED BY <1>1, <2>1, <2>2, <2>3 DEF PollerActs, PollerStep
<1>2. ASSUME NEW c \in Clients, ClientActs(c) PROVE UNCHANGED hpc
  BY <1>2 DEF ClientActs, ClientStep, Enqueue, UploadPackage, SubmitJob, SubmitJobCreate,
              DeleteJob, DeletePackage, DeletePackageCheckState, DeletePackageRefuseState,
              DeletePackageCheckJobs, DeletePackageJobs, DeletePackageRow, RequestFails,
              RequestLosesAnswer, sharedVars, clusterVars
<1>3. Crash \/ UNCHANGED vars => UNCHANGED hpc
  BY DEF Crash, vars, clusterVars
<1> QED BY <1>1, <1>2, <1>3

(* Every step is a qsub or one of these.                                   *)
LEMMA HpcSteps ==
    ASSUME [Next]_vars
    PROVE  \/ \E w \in Workers : SubmitQsub(w)
           \/ \E k, P, J : HpcActions(k, P, J)
<1> USE DEF HpcActions
<1>1. ASSUME NEW w \in Workers, WorkerActs(w), ~SubmitQsub(w)
      PROVE  \E k, P, J : HpcActions(k, P, J)
  <2>1. \/ UNCHANGED hpc \/ qdel(JobOf(w)) \/ RemoveJobFolder(JobOf(w))
        \/ RemovePackageFolders({PackageOf(w)}, JobsOf(PackageOf(w)))
        \/ RemovePackageFolders(Packages, Jobs)
        \/ \E d : hpc' = [hpc EXCEPT ![JobOf(w)].dir = d]
    <3>1. CASE \/ TakeWork(w) \/ Announce(w) \/ Upload(w) \/ Throw(w) \/ Check(w)
               \/ LoseAnswer(w)
      BY <3>1 DEF TakeWork, Announce, Throw, LoseAnswer, clusterVars, sharedVars,
         Upload, UploadRunning, UploadFolder, UploadMkdir, UploadTransferring,
         UploadTransfer, UploadDone, Check, CheckRead, CheckTransferring, CheckFinish
    <3>2. CASE Submit(w)
      BY <1>1, <3>2 DEF Submit, SubmitMkdir, SubmitUnzip, SubmitRecord, clusterVars
    <3>3. CASE Delete(w)
      BY <3>3 DEF Delete, DeleteMark, DeleteQdel, DeleteRm, clusterVars
    <3>4. CASE PackageRm(w)
      BY <3>4 DEF PackageRm
    <3> QED BY <1>1, <3>1, <3>2, <3>3, <3>4 DEF WorkerActs, WorkerStep
  <2> QED BY <2>1
<1> QED BY <1>1, OthersLeaveHpc DEF Next, HpcActs

(* A step makes a job known to the HPC center only by the qsub of the item *)
(* that submits it.                                                        *)
LEMMA StepKeepsHpc ==
    ASSUME TypeOK, SubmittedOnce, ItemsFit, [Next]_vars
    PROVE  /\ HpcKept
           /\ \A j \in Jobs : \/ OnHpc(j) <=> OnHpc(j)'
                              \/ \E w \in Workers : SubmitQsub(w) /\ JobOf(w) = j
<1> DEFINE Kept == \A j \in Jobs : /\ OnHpc(j) <=> OnHpc(j)'
                                   /\ Finished(j) => Finished(j)' /\ hpc'[j].ok = hpc[j].ok
           Goal == /\ HpcKept
                   /\ \A j \in Jobs : \/ OnHpc(j) <=> OnHpc(j)'
                                      \/ \E w \in Workers : SubmitQsub(w) /\ JobOf(w) = j
<1>0. ClusterTypeOK
  BY DEF TypeOK, SchedulerTypeOK
<1>1. Kept => Goal
  BY DEF HpcKept
<1>2. ASSUME NEW w \in Workers, SubmitQsub(w) PROVE Goal
  <2>1. /\ JobOf(w) \in Jobs /\ ~OnHpc(JobOf(w))
        /\ hpc' = [hpc EXCEPT ![JobOf(w)].status = Queued]
    BY <1>2 DEF SubmitQsub, qsub, At, ItemsFit, SubmittedOnce, RunningSubmits, Submits, JobOf
  <2>2. Queued # "none"
    BY ClusterAssumption DEF Queued
  <2>3. ~Finished(JobOf(w))
    BY <2>1, ClusterAssumption DEF Finished, OnHpc, Ended
  <2>4. \A j \in Jobs : j # JobOf(w) => hpc'[j] = hpc[j]
    BY <2>1
  <2>5. hpc'[JobOf(w)].status # "none"
    BY <1>0, <2>1, <2>2 DEF ClusterTypeOK
  <2>6. HpcKept
    BY <2>3, <2>4, <2>5 DEF HpcKept, OnHpc, Finished
  <2>7. \A j \in Jobs : j # JobOf(w) => (OnHpc(j) <=> OnHpc(j)')
    BY <2>4 DEF OnHpc
  <2> QED BY <1>2, <2>6, <2>7
<1>3. ASSUME NEW k, NEW P, NEW J, HpcActions(k, P, J) PROVE Goal
  BY <1>0, <1>1, <1>3, ClusterKeeps
<1> QED BY <1>2, <1>3, HpcSteps

(* The ways the state of a job may change in a step.                       *)
JobMoves ==
    \A j \in Jobs :
        \/ jobs'[j].state = jobs[j].state
        \/ jobs'[j].state \in {WSDJobStateError, WSDJobStateDeleted, WSDJobStateInServiceQueue}
        \/ /\ jobs'[j].state \in WSDJobStateInHPCQueue .. WSDJobStateSuspended
           /\ OnHpc(j)
        \/ /\ jobs'[j].state \in {WSDJobStateCompletedInHPC, WSDJobOutputStateTransferring}
           /\ Finished(j)
        \/ /\ jobs'[j].state = WSDJobOutputStateTransferDone
           /\ Finished(j) /\ hpc[j].ok

(* An UPDATE of one job's state leaves the other jobs alone.               *)
LEMMA SetsOneJob ==
    ASSUME DatabaseTypeOK, NEW k
    PROVE  /\ \A t : setJobState(k, t) =>
                 \A j \in Jobs : jobs'[j].state = IF j = k THEN t ELSE jobs[j].state
           /\ setJobSubmittedByID(k) =>
                 \A j \in Jobs : jobs'[j].state = IF j = k THEN WSDJobStateInHPCQueue
                                                          ELSE jobs[j].state
<1>1. ASSUME NEW t, setJobState(k, t)
      PROVE  \A j \in Jobs : jobs'[j].state = IF j = k THEN t ELSE jobs[j].state
  BY <1>1 DEF DatabaseTypeOK, JobRecord, setJobState
<1>2. ASSUME setJobSubmittedByID(k)
      PROVE  \A j \in Jobs : jobs'[j].state = IF j = k THEN WSDJobStateInHPCQueue
                                                       ELSE jobs[j].state
  BY <1>2 DEF DatabaseTypeOK, JobRecord, setJobSubmittedByID
<1> QED BY <1>1, <1>2

(* Each step moves a job only so: a state on the HPC center needs a job    *)
(* the HPC center knows, a completed state one that ended.                 *)
LEMMA StepMovesJobs ==
    ASSUME TypeOK, ItemsFit, OnHpcIsKnown, RoundsAreSound, CheckedAreFinished, [Next]_vars
    PROVE  JobMoves
<1>0. DatabaseTypeOK
  BY DEF TypeOK, SchedulerTypeOK
<1>1. UNCHANGED jobs => JobMoves
  BY DEF JobMoves
<1>2. CASE UNCHANGED vars
  BY <1>1, <1>2 DEF vars
<1>3. ASSUME NEW w \in Workers, WorkerActs(w) PROVE JobMoves
  <2>1. CASE \/ TakeWork(w) \/ Announce(w) \/ Upload(w) \/ SubmitMkdir(w) \/ SubmitUnzip(w)
             \/ SubmitQsub(w) \/ CheckRead(w) \/ DeleteQdel(w) \/ DeleteRm(w) \/ PackageRm(w)
    <3>1. UNCHANGED jobs
      BY <2>1 DEF TakeWork, Announce, Upload, UploadRunning, UploadFolder, UploadMkdir,
         UploadTransferring, UploadTransfer, UploadDone, updatePackageState, setPackageFolder,
         SubmitMkdir, SubmitUnzip, SubmitQsub, CheckRead, DeleteQdel, DeleteRm, PackageRm,
         dbVars, sharedVars
    <3> QED BY <1>1, <3>1
  <2> DEFINE LosesAt(pc) == LoseAnswer(w) /\ At(w, pc)
  <2>2. CASE SubmitRecord(w) \/ LosesAt("s_record")
    <3>1. setJobSubmittedByID(JobOf(w)) /\ OnHpc(JobOf(w))
      BY <2>2 DEF SubmitRecord, LoseAnswer, At, OnHpcIsKnown
    <3>2. WSDJobStateInHPCQueue \in WSDJobStateInHPCQueue .. WSDJobStateSuspended
      BY DEF WSDJobStateInHPCQueue, WSDJobStateSuspended
    <3>3. \A j \in Jobs : jobs'[j].state = IF j = JobOf(w) THEN WSDJobStateInHPCQueue
                                                       ELSE jobs[j].state
      BY <1>0, <3>1, SetsOneJob
    <3> QED BY <3>1, <3>2, <3>3 DEF JobMoves
  <2>3. CASE CheckTransferring(w) \/ LosesAt("c_transferring")
    <3>1. /\ setJobState(JobOf(w), WSDJobOutputStateTransferring)
          /\ Finished(JobOf(w))
      BY <2>3 DEF CheckTransferring, LoseAnswer, At, CheckedAreFinished
    <3>2. \A j \in Jobs :
             jobs'[j].state = IF j = JobOf(w) THEN WSDJobOutputStateTransferring
                                              ELSE jobs[j].state
      BY <1>0, <3>1, SetsOneJob
    <3> QED BY <3>1, <3>2 DEF JobMoves
  <2>4. CASE CheckFinish(w) \/ LosesAt("c_finish")
    <3>1. Finished(JobOf(w)) /\ (worker[w].ok => hpc[JobOf(w)].ok)
      BY <2>4 DEF CheckFinish, LoseAnswer, At, CheckedAreFinished
    <3>2. \/ /\ worker[w].ok
             /\ setJobState(JobOf(w), WSDJobOutputStateTransferDone)
          \/ setJobState(JobOf(w), WSDJobStateError)
      BY <2>4 DEF CheckFinish, LoseAnswer, At, setJobDoneByID, setJobFailedByID
    <3>3. \A t : setJobState(JobOf(w), t) =>
             \A j \in Jobs : jobs'[j].state = IF j = JobOf(w) THEN t ELSE jobs[j].state
      BY <1>0, SetsOneJob
    <3> QED BY <3>1, <3>2, <3>3 DEF JobMoves
  <2>5. CASE DeleteMark(w) \/ Throw(w) \/ LosesAt("d_mark")
    <3>1. \/ UNCHANGED jobs
          \/ \E t \in {WSDJobStateError, WSDJobStateDeleted} : setJobState(JobOf(w), t)
      BY <2>5 DEF DeleteMark, deleteJobByID, Throw, RecordError, updatePackageError, LoseAnswer,
                  At, updatePackageState, setJobErrorByID, setJobFailedByID, dbVars
    <3>2. \A t : setJobState(JobOf(w), t) =>
             \A j \in Jobs : jobs'[j].state = IF j = JobOf(w) THEN t ELSE jobs[j].state
      BY <1>0, SetsOneJob
    <3> QED BY <1>1, <3>1, <3>2 DEF JobMoves
  <2>6. CASE LoseAnswer(w)
    <3>1. \/ LosesAt("s_record") \/ LosesAt("c_transferring") \/ LosesAt("c_finish")
          \/ LosesAt("d_mark") \/ UNCHANGED jobs
      BY <2>6 DEF LoseAnswer, updatePackageState, setPackageFolder
    <3> QED BY <1>1, <2>2, <2>3, <2>4, <2>5, <3>1
  <2> QED BY <1>3, <2>1, <2>2, <2>3, <2>4, <2>5, <2>6
          DEF WorkerActs, WorkerStep, Submit, Check, Delete
<1>4. ASSUME NEW b \in Pollers, PollerActs(b) PROVE JobMoves
  <2>1. CASE PollUpdate(b) \/ PollLoseAnswer(b)
    <3>1. /\ setJobState(poller[b].job, poller[b].new)
          /\ poller[b].job \in Jobs
          /\ poller[b].new \in {WSDJobStateCompletedInHPC}
                               \cup WSDJobStateInHPCQueue .. WSDJobStateSuspended
          /\ poller[b].new = WSDJobStateCompletedInHPC => Finished(poller[b].job)
      BY <2>1 DEF PollUpdate, PollLoseAnswer, RoundsAreSound, RoundIsSound
    <3>2. OnHpc(poller[b].job)
      BY <3>1, SchedulerAssumption DEF RoundsAreSound, RoundIsSound
    <3>3. \A j \in Jobs : jobs'[j].state = IF j = poller[b].job THEN poller[b].new
                                                              ELSE jobs[j].state
      BY <1>0, <3>1, SetsOneJob
    <3> QED BY <3>1, <3>2, <3>3 DEF JobMoves
  <2>2. ~PollUpdate(b) /\ ~PollLoseAnswer(b) => UNCHANGED jobs
    BY <1>4 DEF PollerActs, PollerStep, PollSnapshot, PollList, PollRead, PollAnnounce,
                PollEnqueue, PollThrow, sharedVars, dbVars
  <2> QED BY <1>1, <2>1, <2>2
<1>5. ASSUME NEW c \in Clients, ClientActs(c) PROVE JobMoves
  <2>1. ASSUME NEW k \in Jobs, createJob(k, PackageIn(c)) PROVE JobMoves
    <3>2. \A j \in Jobs : jobs'[j].state = IF j = k THEN WSDJobStateInServiceQueue
                                                   ELSE jobs[j].state
      BY <1>0, <2>1 DEF createJob, DatabaseTypeOK
    <3> QED BY <3>2 DEF JobMoves
  <2>2. CASE setJobsDeleted(PackageIn(c))
    BY <1>0, <2>2 DEF setJobsDeleted, JobMoves, DatabaseTypeOK, JobRecord
  <2>3. CASE ~SubmitJobCreate(c) /\ ~DeletePackageJobs(c) /\ ~RequestLosesAnswer(c)
    <3>1. UNCHANGED jobs
      BY <1>5, <2>3 DEF ClientActs, ClientStep, Enqueue, UploadPackage, createPackage, SubmitJob,
         DeleteJob, DeletePackage, DeletePackageCheckState, DeletePackageRefuseState,
         DeletePackageCheckJobs, DeletePackageRow, setPackageDeleted, updatePackageState,
         RequestFails, sharedVars, dbVars
    <3> QED BY <1>1, <3>1
  <2>4. CASE SubmitJobCreate(c) \/ DeletePackageJobs(c)
    BY <2>1, <2>2, <2>4 DEF SubmitJobCreate, DeletePackageJobs
  <2>5. CASE RequestLosesAnswer(c)
    <3>1. \/ UNCHANGED jobs \/ setJobsDeleted(PackageIn(c))
          \/ \E k \in Jobs : createJob(k, PackageIn(c))
      BY <2>5 DEF RequestLosesAnswer, createPackage, setPackageDeleted, updatePackageState
    <3> QED BY <1>1, <2>1, <2>2, <3>1
  <2> QED BY <2>3, <2>4, <2>5
<1>6. ASSUME NEW k \in Jobs, HpcActs(k) PROVE JobMoves
  BY <1>1, <1>6 DEF HpcActs, dbVars
<1>7. CASE Crash
  BY <1>1, <1>7 DEF Crash, dbVars
<1> QED BY <1>2, <1>3, <1>4, <1>5, <1>6, <1>7 DEF Next

(* So no job is completed that did not end, done that failed, or on the    *)
(* HPC center without being known there.                                   *)
LEMMA StepCompletes ==
    ASSUME TypeOK, CompletionInv, [Next]_vars
    PROVE  /\ CompletionIsReal' /\ DoneMeansSuccess'
           /\ \A j \in Jobs :
                 jobs'[j].state \in WSDJobStateInHPCQueue .. WSDJobStateSuspended => OnHpc(j)'
<1>1. HpcKept /\ JobMoves
  BY StepKeepsHpc, StepMovesJobs DEF CompletionInv
<1>2. ASSUME NEW j \in Jobs
      PROVE  /\ jobs'[j].state \in {WSDJobStateCompletedInHPC, WSDJobOutputStateTransferring,
                                    WSDJobOutputStateTransferDone} => Finished(j)'
             /\ jobs'[j].state = WSDJobOutputStateTransferDone => hpc'[j].ok
             /\ jobs'[j].state \in WSDJobStateInHPCQueue .. WSDJobStateSuspended => OnHpc(j)'
  BY <1>1 DEF CompletionInv, CompletionIsReal, DoneMeansSuccess, OnHpcIsKnown, HpcKept, JobMoves,
     WSDJobStateError, WSDJobStateDeleted, WSDJobStateInServiceQueue, WSDJobStateInHPCQueue,
     WSDJobStateSuspended, WSDJobStateCompletedInHPC, WSDJobOutputStateTransferring,
     WSDJobOutputStateTransferDone
<1> QED BY <1>2 DEF CompletionIsReal, DoneMeansSuccess

-----------------------------------------------------------------------------
(* A worker thread that does not take a new item goes on with the one it   *)
(* has, from a step to a later one of the same kind, or ends it.           *)
GoesOn(w) ==
    /\ worker'[w].item = worker[w].item \/ worker'[w].pc = "idle"
    /\ worker'[w].pc \in {"s_mkdir", "s_unzip", "s_qsub"} =>
          worker[w].pc \in {"s_mkdir", "s_unzip", "s_qsub"} /\ ~SubmitQsub(w)
    /\ worker'[w].pc = "s_record" => worker[w].pc = "s_record" \/ SubmitQsub(w)
    /\ worker'[w].pc \in {"c_read", "c_transferring", "c_finish"} =>
          /\ worker[w].pc \in {"c_read", "c_transferring", "c_finish"}
          /\ worker'[w].pc # "c_read" /\ worker'[w].ok =>
                \/ worker[w].pc # "c_read" /\ worker[w].ok
                \/ hpc[JobOf(w)].ok

(* The other threads, and their items, are left alone.                     *)
LEMMA WorkersGoOn ==
    ASSUME TypeOK, NEW w \in Workers, WorkerActs(w)
    PROVE  /\ UNCHANGED <<poller, client>>
           /\ \A v \in Workers \ {w} : worker'[v] = worker[v]
           /\ TakeWork(w) \/ (UNCHANGED hpcworkqueue /\ GoesOn(w))
<1>0. WorkerTypeOK
  BY DEF TypeOK
<1>1. UNCHANGED <<poller, client>>
  BY DEF WorkerActs
<1> DEFINE Rest == \A v \in Workers \ {w} : worker'[v] = worker[v]
<1>2. CASE TakeWork(w)
  BY <1>0, <1>1, <1>2 DEF TakeWork, WorkerTypeOK
<1>3. CASE Finish(w)
  <2>1. worker'[w].pc = "idle" /\ Rest
    BY <1>0, <1>3 DEF Finish, WorkerTypeOK, Idle
  <2>2. GoesOn(w)
    BY <2>1 DEF GoesOn
  <2>3. UNCHANGED hpcworkqueue \/ TakeWork(w)
    BY DEF WorkerActs, WorkerStep, Announce, Upload, UploadRunning, UploadFolder, UploadMkdir,
       UploadTransferring, UploadTransfer, UploadDone, Submit, SubmitMkdir, SubmitUnzip,
       SubmitQsub, SubmitRecord, Check, CheckRead, CheckTransferring, CheckFinish, sharedVars,
       Delete, DeleteMark, DeleteQdel, DeleteRm, PackageRm, Throw, LoseAnswer
  <2> QED BY <1>1, <2>1, <2>2, <2>3
<1>4. CASE Announce(w)
  <2>1. UNCHANGED hpcworkqueue
    BY <1>4 DEF Announce
  <2>2. CASE worker[w].pc = "idle"
    BY <1>3, <1>4, <2>2 DEF Announce, Finish
  <2>3. CASE worker[w].pc # "idle"
    <3>1. worker' = [worker EXCEPT ![w].due = NoRecord]
      BY <1>4, <2>3 DEF Announce
    <3>2. /\ worker'[w].pc = worker[w].pc /\ worker'[w].item = worker[w].item
          /\ worker'[w].ok = worker[w].ok /\ Rest
      BY <1>0, <3>1 DEF WorkerTypeOK
    <3>3. ~SubmitQsub(w)
      BY <1>4 DEF Announce, SubmitQsub, At
    <3> QED BY <1>1, <2>1, <3>2, <3>3 DEF GoesOn
  <2> QED BY <2>2, <2>3
<1>5. ASSUME NEW pc \in WorkerPc \ {"s_mkdir", "c_read"}, NEW due,
             \/ worker' = [worker EXCEPT ![w].pc = pc]
             \/ worker' = [worker EXCEPT ![w].pc = pc, ![w].due = due]
      PROVE  /\ worker'[w].pc = pc /\ worker'[w].item = worker[w].item
             /\ worker'[w].ok = worker[w].ok /\ Rest
  BY <1>0, <1>5 DEF WorkerTypeOK
<1>6. CASE \/ Upload(w) /\ ~Finish(w)
           \/ Submit(w) /\ ~Finish(w)
           \/ CheckTransferring(w)
           \/ CheckFinish(w) /\ ~Finish(w)
           \/ Delete(w) /\ ~Finish(w)
  <2>1. CASE Upload(w) /\ ~Finish(w)
    <3>1. /\ UNCHANGED hpcworkqueue
          /\ \E pc \in {"u_folder", "u_mkdir", "u_transferring", "u_iget", "u_transfer", "u_done"} :
                worker' = [worker EXCEPT ![w].pc = pc]
      BY <2>1 DEF Upload, UploadRunning, UploadFolder, UploadMkdir, UploadTransferring,
                  UploadTransfer, UploadDone, Goto
    <3>2. \A pc \in {"u_folder", "u_mkdir", "u_transferring", "u_iget", "u_transfer", "u_done"} :
             pc \in WorkerPc \ {"s_mkdir", "c_read"}
      BY DEF WorkerPc
    <3> QED BY <1>1, <1>5, <3>1, <3>2 DEF GoesOn
  <2>2. CASE Submit(w) /\ ~Finish(w)
    <3>1. CASE SubmitMkdir(w)
      <4>1. /\ UNCHANGED hpcworkqueue /\ worker[w].pc = "s_mkdir"
            /\ worker' = [worker EXCEPT ![w].pc = "s_unzip"]
        BY <3>1 DEF SubmitMkdir, Goto, At
      <4>2. ~SubmitQsub(w) /\ "s_unzip" \in WorkerPc \ {"s_mkdir", "c_read"}
        BY <4>1 DEF SubmitQsub, At, WorkerPc
      <4> QED BY <1>1, <1>5, <4>1, <4>2 DEF GoesOn
    <3>2. CASE SubmitUnzip(w)
      <4>1. /\ UNCHANGED hpcworkqueue /\ worker[w].pc = "s_unzip"
            /\ worker' = [worker EXCEPT ![w].pc = "s_qsub"]
        BY <3>2 DEF SubmitUnzip, Goto, At
      <4>2. ~SubmitQsub(w) /\ "s_qsub" \in WorkerPc \ {"s_mkdir", "c_read"}
        BY <4>1 DEF SubmitQsub, At, WorkerPc
      <4> QED BY <1>1, <1>5, <4>1, <4>2 DEF GoesOn
    <3>3. CASE SubmitQsub(w)
      <4>1. UNCHANGED hpcworkqueue /\ worker' = [worker EXCEPT ![w].pc = "s_record"]
        BY <3>3 DEF SubmitQsub, Goto
      <4>2. "s_record" \in WorkerPc \ {"s_mkdir", "c_read"}
        BY DEF WorkerPc
      <4> QED BY <1>1, <1>5, <3>3, <4>1, <4>2 DEF GoesOn
    <3>4. CASE SubmitRecord(w)
      <4>1. /\ UNCHANGED hpcworkqueue
            /\ \E due : worker' = [worker EXCEPT ![w].pc = "idle", ![w].due = due]
        BY <2>2, <3>4 DEF SubmitRecord, FinishAndAnnounce, GotoAndAnnounce
      <4>2. "idle" \in WorkerPc \ {"s_mkdir", "c_read"}
        BY DEF WorkerPc
      <4> QED BY <1>1, <1>5, <4>1, <4>2 DEF GoesOn
    <3> QED BY <2>2, <3>1, <3>2, <3>3, <3>4 DEF Submit
  <2>3. CASE CheckTransferring(w)
    <3>1. /\ UNCHANGED hpcworkqueue /\ worker[w].pc = "c_transferring"
          /\ \E due : worker' = [worker EXCEPT ![w].pc = "c_finish", ![w].due = due]
      BY <2>3 DEF CheckTransferring, GotoAndAnnounce, At
    <3>2. "c_finish" \in WorkerPc \ {"s_mkdir", "c_read"}
      BY DEF WorkerPc
    <3> QED BY <1>1, <1>5, <3>1, <3>2 DEF GoesOn
  <2>4. CASE CheckFinish(w) /\ ~Finish(w)
    <3>1. /\ UNCHANGED hpcworkqueue
          /\ \E due : worker' = [worker EXCEPT ![w].pc = "idle", ![w].due = due]
      BY <2>4 DEF CheckFinish, FinishAndAnnounce, GotoAndAnnounce
    <3>2. "idle" \in WorkerPc \ {"s_mkdir", "c_read"}
      BY DEF WorkerPc
    <3> QED BY <1>1, <1>5, <3>1, <3>2 DEF GoesOn
  <2>5. CASE Delete(w) /\ ~Finish(w)
    <3>1. /\ UNCHANGED hpcworkqueue
          /\ \E pc \in {"d_qdel", "d_rm"} : \E due :
                \/ worker' = [worker EXCEPT ![w].pc = pc]
                \/ worker' = [worker EXCEPT ![w].pc = pc, ![w].due = due]
      BY <2>5 DEF Delete, DeleteMark, DeleteQdel, DeleteRm, Goto, GotoAndAnnounce
    <3>2. \A pc \in {"d_qdel", "d_rm"} : pc \in WorkerPc \ {"s_mkdir", "c_read"}
      BY DEF WorkerPc
    <3> QED BY <1>1, <1>5, <3>1, <3>2 DEF GoesOn
  <2> QED BY <1>6, <2>1, <2>2, <2>3, <2>4, <2>5
<1>7. CASE CheckRead(w)
  <2>1. /\ UNCHANGED hpcworkqueue /\ worker[w].pc = "c_read"
        /\ worker' = [worker EXCEPT ![w] = [worker[w] EXCEPT !.pc = "c_transferring",
                                                            !.ok = hpc[JobOf(w)].ok]]
    BY <1>0, <1>7 DEF CheckRead, sharedVars, At, WorkerTypeOK
  <2>2. /\ worker'[w].pc = "c_transferring" /\ worker'[w].item = worker[w].item
        /\ worker'[w].ok = hpc[JobOf(w)].ok /\ Rest
    BY <1>0, <2>1 DEF WorkerTypeOK
  <2> QED BY <1>1, <2>1, <2>2 DEF GoesOn
<1>8. PackageRm(w) \/ Throw(w) => Finish(w)
  BY DEF PackageRm, Throw
<1>9. CASE LoseAnswer(w)
  <2>1. UNCHANGED hpcworkqueue /\ worker' = [worker EXCEPT ![w].pc = "lost"]
    BY <1>9 DEF LoseAnswer, Goto
  <2>2. "lost" \in WorkerPc \ {"s_mkdir", "c_read"}
    BY DEF WorkerPc
  <2> QED BY <1>1, <1>5, <2>1, <2>2 DEF GoesOn
<1> QED BY <1>2, <1>3, <1>4, <1>6, <1>7, <1>8, <1>9 DEF WorkerActs, WorkerStep, Check

-----------------------------------------------------------------------------
(* What others do does not make a round wrong.                             *)
LEMMA RoundStaysSound ==
    ASSUME TypeOK, NEW b \in Pollers, RoundIsSound(b), poller'[b] = poller[b], HpcKept
    PROVE  RoundIsSound(b)'
<1>1. poller[b].todo \in SUBSET Jobs /\ poller[b].job \in Jobs \cup {NoJob}
  BY DEF TypeOK, PollerTypeOK, PollerRecord
<1> QED BY <1>1 DEF RoundIsSound, HpcKept

(* Its own steps neither: the listing is made of jobs that qsub accepted   *)
(* before, and a state that says completed is taken from it.               *)
LEMMA RoundGoesOn ==
    ASSUME TypeOK, NEW b \in Pollers, RoundIsSound(b), PollerActs(b), UNCHANGED hpc,
           \A j \in Jobs : jobs[j].state \in WSDJobStateInHPCQueue .. WSDJobStateSuspended
                               => OnHpc(j)
    PROVE  RoundIsSound(b)' /\ \A d \in Pollers \ {b} : poller'[d] = poller[d]
<1>0. /\ poller[b] \in PollerRecord /\ poller \in [Pollers -> PollerRecord]
      /\ poller[b].todo \in SUBSET Jobs /\ poller[b].job \in Jobs \cup {NoJob}
      /\ hpc \in [Jobs -> [status : {"none", Ended, "gone"} \cup Letters,
                           dir : {"absent", "empty", "unzipped", "results"}, ok : BOOLEAN]]
  BY DEF TypeOK, PollerTypeOK, PollerRecord, SchedulerTypeOK, ClusterTypeOK
<1>1. \A j : (OnHpc(j)' <=> OnHpc(j)) /\ (Finished(j)' <=> Finished(j))
  BY DEF OnHpc, Finished
<1> DEFINE Rest == \A d \in Pollers \ {b} : poller'[d] = poller[d]
<1>2. ASSUME poller' = [poller EXCEPT ![b] = Asleep] PROVE RoundIsSound(b)' /\ Rest
  <2>1. poller'[b] = Asleep /\ Rest
    BY <1>0, <1>2
  <2>2. Asleep.todo = {} /\ Asleep.job = NoJob /\ Asleep.pc = "sleep"
    BY DEF Asleep
  <2> QED BY <2>1, <2>2 DEF RoundIsSound
<1>3. ASSUME poller[b].pc \notin {"sleep", "list"}, NextJob(b) PROVE RoundIsSound(b)' /\ Rest
  <2>1. CASE poller[b].todo = {}
    BY <1>2, <1>3, <2>1 DEF NextJob
  <2>2. CASE poller[b].todo # {}
    <3>1. poller' = [poller EXCEPT ![b] =
                        [poller[b] EXCEPT !.pc = "jobs", !.job = NoJob,
                                          !.old = NoRecord, !.new = NoRecord]]
      BY <1>0, <1>3, <2>2 DEF NextJob
    <3>2. /\ poller'[b].pc = "jobs" /\ poller'[b].job = NoJob
          /\ poller'[b].todo = poller[b].todo /\ poller'[b].listing = poller[b].listing
          /\ Rest
      BY <1>0, <3>1 DEF PollerRecord
    <3> QED BY <1>1, <1>3, <3>2 DEF RoundIsSound
  <2> QED BY <2>1, <2>2
<1>4. ASSUME NEW pc \in {"announce", "enqueue"}, poller' = [poller EXCEPT ![b].pc = pc],
             poller[b].pc \in {"update", "announce"},
             pc = "enqueue" => poller[b].new = WSDJobStateCompletedInHPC
      PROVE  RoundIsSound(b)' /\ Rest
  <2>1. /\ poller'[b].pc = pc /\ poller'[b].job = poller[b].job
        /\ poller'[b].todo = poller[b].todo /\ poller'[b].listing = poller[b].listing
        /\ poller'[b].new = poller[b].new /\ Rest
    BY <1>0, <1>4 DEF PollerRecord
  <2> QED BY <1>1, <1>4, <2>1 DEF RoundIsSound
<1>5. ASSUME poller[b].pc \in {"update", "announce"}, EnqueueOrNext(b)
      PROVE  RoundIsSound(b)' /\ Rest
  BY <1>3, <1>4, <1>5 DEF EnqueueOrNext
<1>6. CASE PollSnapshot(b)
  <2>1. poller' = [poller EXCEPT ![b] = [poller[b] EXCEPT
                      !.pc = "list", !.todo = getAllSubmittedAndRunningJobsByHPCID]]
    BY <1>0, <1>6 DEF PollSnapshot
  <2>2. /\ poller'[b].pc = "list" /\ poller'[b].job = poller[b].job
        /\ poller'[b].todo = getAllSubmittedAndRunningJobsByHPCID /\ Rest
    BY <1>0, <2>1 DEF PollerRecord
  <2>3. \A j \in getAllSubmittedAndRunningJobsByHPCID : j \in Jobs /\ OnHpc(j)
    BY DEF getAllSubmittedAndRunningJobsByHPCID, WSDJobStateInHPCQueue, WSDJobStateRunning,
           WSDJobStateHeld, WSDJobStateMoved, WSDJobStateWaiting, WSDJobStateSuspended
  <2> QED BY <1>1, <2>2, <2>3 DEF RoundIsSound
<1>7. CASE PollList(b)
  <2> DEFINE listing == [j \in Jobs |-> IF Listed(j) THEN hpc[j].status ELSE "none"]
  <2>1. poller' = [poller EXCEPT ![b] = [poller[b] EXCEPT !.pc = "jobs", !.listing = listing]]
    <3>1. PICK text \in Listings :
             poller' = [poller EXCEPT ![b].pc = "jobs",
                                      ![b].listing = [j \in Jobs |-> StatusIn(text, j)]]
      BY <1>7 DEF PollList
    <3>2. [j \in Jobs |-> StatusIn(text, j)] = listing
      BY ListingIsRead
    <3> QED BY <1>0, <3>1, <3>2
  <2>2. \A j \in Jobs : OnHpc(j) /\ listing[j] \in {Ended, "none"} => Finished(j)
    BY <1>0, ClusterAssumption DEF OnHpc, Finished, Listed
  <2> HIDE DEF listing
  <2>3. /\ poller'[b].pc = "jobs" /\ poller'[b].job = poller[b].job
        /\ poller'[b].todo = poller[b].todo /\ poller'[b].listing = listing /\ Rest
    BY <1>0, <2>1 DEF PollerRecord
  <2> QED BY <1>0, <1>1, <2>2, <2>3 DEF RoundIsSound
<1>8. ASSUME NEW j \in Jobs, PollRead(b, j) PROVE RoundIsSound(b)' /\ Rest
  <2>1. poller' = [poller EXCEPT ![b] = [poller[b] EXCEPT
                      !.pc = "update", !.todo = @ \ {j}, !.job = j, !.old = jobs[j].state,
                      !.new = StateOf(poller[b].listing[j])]]
    BY <1>0, <1>8 DEF PollRead
  <2>2. /\ poller'[b].pc = "update" /\ poller'[b].job = j
        /\ poller'[b].todo = poller[b].todo \ {j} /\ poller'[b].listing = poller[b].listing
        /\ poller'[b].new = StateOf(poller[b].listing[j]) /\ Rest
    BY <1>0, <2>1 DEF PollerRecord
  <2>3. /\ StateOf(poller[b].listing[j]) \in {WSDJobStateCompletedInHPC}
                                  \cup WSDJobStateInHPCQueue .. WSDJobStateSuspended
        /\ StateOf(poller[b].listing[j]) = WSDJobStateCompletedInHPC
              <=> poller[b].listing[j] \in {Ended, "none"}
    BY <1>0, StateOfLetters DEF PollerRecord
  <2>4. j \in poller[b].todo /\ poller[b].pc = "jobs"
    BY <1>8 DEF PollRead
  <2> QED BY <1>1, <2>2, <2>3, <2>4 DEF RoundIsSound
<1>9. CASE PollUpdate(b)
  <2>1. CASE poller[b].old # poller[b].new /\ JobCallbacks
    BY <1>4, <1>9, <2>1 DEF PollUpdate
  <2>2. CASE ~(poller[b].old # poller[b].new /\ JobCallbacks)
    BY <1>5, <1>9, <2>2 DEF PollUpdate
  <2> QED BY <2>1, <2>2
<1>10. CASE PollAnnounce(b)
  BY <1>5, <1>10 DEF PollAnnounce
<1>11. CASE PollEnqueue(b)
  BY <1>3, <1>11 DEF PollEnqueue
<1>12. CASE PollThrow(b) \/ PollLoseAnswer(b)
  BY <1>2, <1>12 DEF PollThrow, PollLoseAnswer
<1> QED BY <1>6, <1>7, <1>8, <1>9, <1>10, <1>11, <1>12 DEF PollerActs, PollerStep

(* Every step keeps all rounds sound.                                      *)
LEMMA StepRounds ==
    ASSUME TypeOK, CompletionInv, [Next]_vars
    PROVE  RoundsAreSound'
<1>1. HpcKept
  BY StepKeepsHpc DEF CompletionInv
<1>2. \A b \in Pollers : RoundIsSound(b)
  BY DEF CompletionInv, RoundsAreSound
<1>3. UNCHANGED poller => RoundsAreSound'
  BY <1>1, <1>2, RoundStaysSound DEF RoundsAreSound
<1>4. CASE UNCHANGED vars
  BY <1>3, <1>4 DEF vars
<1>5. ASSUME NEW w \in Workers, WorkerActs(w) PROVE RoundsAreSound'
  BY <1>3, <1>5 DEF WorkerActs
<1>6. ASSUME NEW b \in Pollers, PollerActs(b) PROVE RoundsAreSound'
  <2>1. UNCHANGED hpc
    BY <1>6 DEF PollerActs, PollerStep, PollSnapshot, PollList, PollRead, PollUpdate,
                PollAnnounce, PollEnqueue, PollThrow, PollLoseAnswer, sharedVars, clusterVars
  <2>2. RoundIsSound(b)' /\ \A d \in Pollers \ {b} : poller'[d] = poller[d]
    BY <1>2, <1>6, <2>1, RoundGoesOn DEF CompletionInv, OnHpcIsKnown
  <2>3. ASSUME NEW d \in Pollers \ {b} PROVE RoundIsSound(d)'
    BY <1>1, <1>2, <2>2, RoundStaysSound
  <2> QED BY <2>2, <2>3 DEF RoundsAreSound
<1>7. ASSUME NEW c \in Clients, ClientActs(c) PROVE RoundsAreSound'
  BY <1>3, <1>7 DEF ClientActs
<1>8. ASSUME NEW j \in Jobs, HpcActs(j) PROVE RoundsAreSound'
  BY <1>3, <1>8 DEF HpcActs, threadVars
<1>9. CASE Crash
  <2>1. \A b \in Pollers : poller'[b] = Asleep
    BY <1>9 DEF Crash
  <2>2. Asleep.todo = {} /\ Asleep.job = NoJob /\ Asleep.pc = "sleep"
    BY DEF Asleep
  <2> QED BY <2>1, <2>2 DEF RoundsAreSound, RoundIsSound
<1> QED BY <1>4, <1>5, <1>6, <1>7, <1>8, <1>9 DEF Next

-----------------------------------------------------------------------------
(* What enters and leaves the queue.                                       *)
LEMMA QueueGrows ==
    ASSUME hpcworkqueue \in Seq(WSHPCWork), NEW item \in WSHPCWork, addHPCWork(item)
    PROVE  /\ \A n \in DOMAIN hpcworkqueue' :
                 \/ hpcworkqueue'[n] = item
                 \/ \E m \in DOMAIN hpcworkqueue : hpcworkqueue'[n] = hpcworkqueue[m]
           /\ \A j : IF Submits(item, j)
                     THEN QueuedSubmits(j)' = QueuedSubmits(j) \cup {Len(hpcworkqueue) + 1}
                     ELSE QueuedSubmits(j)' = QueuedSubmits(j)
           /\ \A j : IF Handles(item, j)
                     THEN QueuedHandlers(j)' = QueuedHandlers(j) \cup {Len(hpcworkqueue) + 1}
                     ELSE QueuedHandlers(j)' = QueuedHandlers(j)
           /\ \A p : IF Uploads(item, p)
                     THEN QueuedUploads(p)' = QueuedUploads(p) \cup {Len(hpcworkqueue) + 1}
                     ELSE QueuedUploads(p)' = QueuedUploads(p)
<1>1. DOMAIN hpcworkqueue = 1 .. Len(hpcworkqueue) /\ Len(hpcworkqueue) \in Nat
  BY LenProperties
<1>2. DOMAIN hpcworkqueue' = 1 .. Len(hpcworkqueue) + 1
  BY AppendFacts, LenProperties DEF addHPCWork
<1>3. /\ hpcworkqueue'[Len(hpcworkqueue) + 1] = item
      /\ \A n \in 1 .. Len(hpcworkqueue) : hpcworkqueue'[n] = hpcworkqueue[n]
  BY AppendFacts DEF addHPCWork
<1>4. ASSUME NEW j
      PROVE  IF Submits(item, j)
             THEN QueuedSubmits(j)' = QueuedSubmits(j) \cup {Len(hpcworkqueue) + 1}
             ELSE QueuedSubmits(j)' = QueuedSubmits(j)
  BY <1>1, <1>2, <1>3 DEF QueuedSubmits, Submits
<1>5. ASSUME NEW j
      PROVE  IF Handles(item, j)
             THEN QueuedHandlers(j)' = QueuedHandlers(j) \cup {Len(hpcworkqueue) + 1}
             ELSE QueuedHandlers(j)' = QueuedHandlers(j)
  BY <1>1, <1>2, <1>3 DEF QueuedHandlers, Handles
<1>6. ASSUME NEW p
      PROVE  IF Uploads(item, p)
             THEN QueuedUploads(p)' = QueuedUploads(p) \cup {Len(hpcworkqueue) + 1}
             ELSE QueuedUploads(p)' = QueuedUploads(p)
  BY <1>1, <1>2, <1>3 DEF QueuedUploads, Uploads
<1> QED BY <1>1, <1>2, <1>3, <1>4, <1>5, <1>6

(* What is left of the queue, and that the one item that submits a job, or *)
(* the one that handles it, left it.                                       *)
LEMMA QueueShrinks ==
    ASSUME hpcworkqueue \in Seq(WSHPCWork), removeHPCWork
    PROVE  /\ Head(hpcworkqueue) \in WSHPCWork
           /\ 1 \in DOMAIN hpcworkqueue /\ hpcworkqueue[1] = Head(hpcworkqueue)
           /\ \A n \in DOMAIN hpcworkqueue' :
                 \E m \in DOMAIN hpcworkqueue : hpcworkqueue'[n] = hpcworkqueue[m]
           /\ \A j : AtMostOne(QueuedSubmits(j)) =>
                 /\ AtMostOne(QueuedSubmits(j)')
                 /\ QueuedSubmits(j)' # {} => QueuedSubmits(j) # {}
                 /\ Submits(Head(hpcworkqueue), j) =>
                       QueuedSubmits(j) # {} /\ QueuedSubmits(j)' = {}
           /\ \A j : AtMostOne(QueuedHandlers(j)) =>
                 /\ AtMostOne(QueuedHandlers(j)')
                 /\ QueuedHandlers(j)' # {} => QueuedHandlers(j) # {}
                 /\ Handles(Head(hpcworkqueue), j) =>
                       QueuedHandlers(j) # {} /\ QueuedHandlers(j)' = {}
           /\ \A p : AtMostOne(QueuedUploads(p)) =>
                 /\ AtMostOne(QueuedUploads(p)')
                 /\ QueuedUploads(p)' # {} => QueuedUploads(p) # {}
                 /\ Uploads(Head(hpcworkqueue), p) =>
                       QueuedUploads(p) # {} /\ QueuedUploads(p)' = {}
<1>1. DOMAIN hpcworkqueue = 1 .. Len(hpcworkqueue) /\ Len(hpcworkqueue) \in Nat \ {0}
  BY LenProperties, TailFacts DEF removeHPCWork
<1>2. DOMAIN hpcworkqueue' = 1 .. Len(hpcworkqueue) - 1
  BY TailFacts, LenProperties DEF removeHPCWork
<1>3. /\ Head(hpcworkqueue) \in WSHPCWork
      /\ hpcworkqueue[1] = Head(hpcworkqueue)
      /\ \A n \in 1 .. Len(hpcworkqueue) - 1 : hpcworkqueue'[n] = hpcworkqueue[n + 1]
  BY TailFacts DEF removeHPCWork
<1>4. \A n \in DOMAIN hpcworkqueue' : n + 1 \in DOMAIN hpcworkqueue /\ n + 1 # 1
  BY <1>1, <1>2
<1>5. ASSUME NEW j, AtMostOne(QueuedSubmits(j))
      PROVE  /\ AtMostOne(QueuedSubmits(j)')
             /\ QueuedSubmits(j)' # {} => QueuedSubmits(j) # {}
             /\ Submits(Head(hpcworkqueue), j) =>
                   QueuedSubmits(j) # {} /\ QueuedSubmits(j)' = {}
  <2>1. \A n \in QueuedSubmits(j)' : n \in Int /\ n + 1 \in QueuedSubmits(j) /\ n + 1 # 1
    BY <1>1, <1>2, <1>3, <1>4 DEF QueuedSubmits, Submits
  <2>2. Submits(Head(hpcworkqueue), j) => 1 \in QueuedSubmits(j)
    BY <1>1, <1>3 DEF QueuedSubmits, Submits
  <2>3. AtMostOne(QueuedSubmits(j)')
    BY <1>5, <2>1 DEF AtMostOne
  <2> QED BY <1>5, <2>1, <2>2, <2>3 DEF AtMostOne
<1>6. ASSUME NEW j, AtMostOne(QueuedHandlers(j))
      PROVE  /\ AtMostOne(QueuedHandlers(j)')
             /\ QueuedHandlers(j)' # {} => QueuedHandlers(j) # {}
             /\ Handles(Head(hpcworkqueue), j) =>
                   QueuedHandlers(j) # {} /\ QueuedHandlers(j)' = {}
  <2>1. \A n \in QueuedHandlers(j)' : n \in Int /\ n + 1 \in QueuedHandlers(j) /\ n + 1 # 1
    BY <1>1, <1>2, <1>3, <1>4 DEF QueuedHandlers, Handles
  <2>2. Handles(Head(hpcworkqueue), j) => 1 \in QueuedHandlers(j)
    BY <1>1, <1>3 DEF QueuedHandlers, Handles
  <2>3. AtMostOne(QueuedHandlers(j)')
    BY <1>6, <2>1 DEF AtMostOne
  <2> QED BY <1>6, <2>1, <2>2, <2>3 DEF AtMostOne
<1>7. ASSUME NEW p, AtMostOne(QueuedUploads(p))
      PROVE  /\ AtMostOne(QueuedUploads(p)')
             /\ QueuedUploads(p)' # {} => QueuedUploads(p) # {}
             /\ Uploads(Head(hpcworkqueue), p) =>
                   QueuedUploads(p) # {} /\ QueuedUploads(p)' = {}
  <2>1. \A n \in QueuedUploads(p)' : n \in Int /\ n + 1 \in QueuedUploads(p) /\ n + 1 # 1
    BY <1>1, <1>2, <1>3, <1>4 DEF QueuedUploads, Uploads
  <2>2. Uploads(Head(hpcworkqueue), p) => 1 \in QueuedUploads(p)
    BY <1>1, <1>3 DEF QueuedUploads, Uploads
  <2>3. AtMostOne(QueuedUploads(p)')
    BY <1>7, <2>1 DEF AtMostOne
  <2> QED BY <1>7, <2>1, <2>2, <2>3 DEF AtMostOne
<1> QED BY <1>1, <1>2, <1>3, <1>4, <1>5, <1>6, <1>7

(* The steps that touch the queue: a worker takes, a request or a round    *)
(* adds an item, a crash empties it.                                       *)
LEMMA QueueSteps ==
    ASSUME [Next]_vars
    PROVE  \/ UNCHANGED hpcworkqueue
           \/ \E w \in Workers : TakeWork(w)
           \/ \E b \in Pollers : PollEnqueue(b) /\ UNCHANGED <<worker, client>>
           \/ \E c \in Clients : Enqueue(c) /\ UNCHANGED <<worker, poller>>
           \/ Crash
<1>1. ASSUME NEW w \in Workers, WorkerStep(w)
      PROVE  UNCHANGED hpcworkqueue \/ TakeWork(w)
  <2>1. Announce(w) \/ PackageRm(w) \/ Throw(w) \/ LoseAnswer(w) => UNCHANGED hpcworkqueue
    BY DEF Announce, PackageRm, Throw, LoseAnswer
  <2>2. Upload(w) => UNCHANGED hpcworkqueue
    BY DEF Upload, UploadRunning, UploadFolder, UploadMkdir, UploadTransferring,
       UploadTransfer, UploadDone
  <2>3. Submit(w) => UNCHANGED hpcworkqueue
    BY DEF Submit, SubmitMkdir, SubmitUnzip, SubmitQsub, SubmitRecord
  <2>4. Check(w) => UNCHANGED hpcworkqueue
    BY DEF Check, CheckRead, CheckTransferring, CheckFinish, sharedVars
  <2>5. Delete(w) => UNCHANGED hpcworkqueue
    <3>1. (DeleteMark(w) => UNCHANGED hpcworkqueue) /\ (DeleteRm(w) => UNCHANGED hpcworkqueue)
      BY DEF DeleteMark, DeleteRm
    <3>2. DeleteQdel(w) => UNCHANGED hpcworkqueue
      BY DEF DeleteQdel
    <3> QED BY <3>1, <3>2 DEF Delete
  <2> QED BY <1>1, <2>1, <2>2, <2>3, <2>4, <2>5 DEF WorkerStep
<1>2. ASSUME NEW b \in Pollers, PollerStep(b)
      PROVE  UNCHANGED hpcworkqueue \/ PollEnqueue(b)
  BY <1>2 DEF PollerStep, PollSnapshot, PollList, PollRead, PollUpdate, PollAnnounce,
     PollThrow, PollLoseAnswer, sharedVars
<1>3. ASSUME NEW c \in Clients, ClientStep(c)
      PROVE  UNCHANGED hpcworkqueue \/ Enqueue(c)
  BY <1>3 DEF ClientStep, UploadPackage, SubmitJob, SubmitJobCreate, DeleteJob, DeletePackage,
     DeletePackageCheckState, DeletePackageRefuseState, DeletePackageCheckJobs,
     DeletePackageJobs, DeletePackageRow, RequestFails, RequestLosesAnswer, sharedVars
<1>4. ASSUME NEW w \in Workers, WorkerActs(w)
      PROVE  UNCHANGED hpcworkqueue \/ TakeWork(w)
  BY <1>1, <1>4 DEF WorkerActs
<1>5. ASSUME NEW b \in Pollers, PollerActs(b)
      PROVE  UNCHANGED hpcworkqueue \/ (PollEnqueue(b) /\ UNCHANGED <<worker, client>>)
  BY <1>2, <1>5 DEF PollerActs
<1>6. ASSUME NEW c \in Clients, ClientActs(c)
      PROVE  UNCHANGED hpcworkqueue \/ (Enqueue(c) /\ UNCHANGED <<worker, poller>>)
  BY <1>3, <1>6 DEF ClientActs
<1>7. ASSUME NEW j \in Jobs, HpcActs(j) PROVE UNCHANGED hpcworkqueue
  BY <1>7 DEF HpcActs
<1>8. UNCHANGED vars => UNCHANGED hpcworkqueue
  BY DEF vars, sharedVars
<1> QED BY <1>4, <1>5, <1>6, <1>7, <1>8 DEF Next

(* A thread that took an item is at the first step for its kind.           *)
LEMMA TakenItem ==
    ASSUME TypeOK, NEW w \in Workers, TakeWork(w)
    PROVE  /\ worker'[w].item = Head(hpcworkqueue)
           /\ worker'[w].pc \in {"s_mkdir", "s_unzip", "s_qsub", "s_record"} =>
                 worker'[w].pc = "s_mkdir" /\ Head(hpcworkqueue).jobtype = "submit"
           /\ worker'[w].pc \in {"c_read", "c_transferring", "c_finish"} =>
                 worker'[w].pc = "c_read" /\ Head(hpcworkqueue).jobtype = "check"
           /\ removeHPCWork
           /\ UNCHANGED <<dbVars, clusterVars>>
<1> DEFINE item == Head(hpcworkqueue)
<1>1. removeHPCWork /\ UNCHANGED <<dbVars, clusterVars>>
  BY DEF TakeWork
<1>2. item.jobtype \in WorkType
  <2>1. item \in WSHPCWork
    BY <1>1, QueueShrinks DEF TypeOK, SchedulerTypeOK
  <2> QED BY <2>1 DEF WSHPCWork
<1>3. worker' = [worker EXCEPT ![w] = [pc |-> FirstStep[item.jobtype], item |-> item,
                                       ok |-> FALSE, due |-> NoRecord]]
  BY DEF TakeWork
<1> HIDE DEF item
<1>4. worker'[w].item = item /\ worker'[w].pc = FirstStep[item.jobtype]
  BY <1>3 DEF TypeOK, WorkerTypeOK
<1> QED BY <1>1, <1>2, <1>4 DEF WorkType, FirstStep, item

(* A request goes on with an item of its kind: only that of SubmitJob      *)
(* becomes one that submits, for the job it has just created.              *)
LEMMA RequestsGoOn ==
    ASSUME TypeOK, ItemsFit, NEW c \in Clients, ClientActs(c)
    PROVE  /\ \A d \in Clients \ {c} : client'[d] = client[d]
           /\ \/ client'[c].pc = "idle" /\ client'[c].item.jobtype = "upload"
              \/ client'[c].pc = "enqueue"
                 /\ client'[c].item.jobtype \in {"upload", "delete_job", "delete_package"}
              \/ /\ client'[c].pc = "create"
                 /\ client'[c].item.jobtype = "submit" /\ client'[c].item.job = NoJob
              \/ client'[c].pc \in {"state", "jobs", "delete_jobs", "delete_package"}
                 /\ client'[c].item.jobtype = "delete_package"
              \/ /\ SubmitJobCreate(c)
                 /\ client'[c].pc = "enqueue"
                 /\ client'[c].item.jobtype = "submit" /\ client'[c].item.job \in Jobs
                 /\ createJob(client'[c].item.job, PackageIn(c))
<1> DEFINE Rest == \A d \in Clients \ {c} : client'[d] = client[d]
<1>0. /\ client \in [Clients -> ClientRecord] /\ client[c] \in ClientRecord
      /\ \A t, j, p : Work(t, j, p).jobtype = t
  BY DEF TypeOK, PagesTypeOK, Work
<1>1. ASSUME client' = [client EXCEPT ![c] = NoRequest]
      PROVE  client'[c].pc = "idle" /\ client'[c].item.jobtype = "upload" /\ Rest
  <2>1. client'[c] = NoRequest /\ Rest
    BY <1>0, <1>1
  <2>2. NoRequest.pc = "idle" /\ NoRequest.item.jobtype = "upload"
    BY <1>0 DEF NoRequest
  <2> QED BY <2>1, <2>2
<1>2. ASSUME NEW pc, NEW item, Begin(c, pc, item)
      PROVE  client'[c].pc = pc /\ client'[c].item = item /\ Rest
  BY <1>0, <1>2 DEF Begin
<1>3. ASSUME NEW pc, Proceed(c, pc)
      PROVE  client'[c].pc = pc /\ client'[c].item = client[c].item /\ Rest
  BY <1>0, <1>3 DEF Proceed, ClientRecord
<1>4. CASE \/ Enqueue(c) \/ DeletePackageRefuseState(c) \/ RequestFails(c)
           \/ RequestLosesAnswer(c)
  BY <1>1, <1>4 DEF Enqueue, DeletePackageRefuseState, RequestFails, RequestLosesAnswer, Refuse
<1>5. CASE UploadPackage(c)
  BY <1>0, <1>2, <1>5 DEF UploadPackage
<1>6. CASE SubmitJob(c)
  <2>1. PICK p \in Packages :
           \/ Begin(c, "create", [Work("submit", NoJob, p) EXCEPT !.folder = packages[p].folder])
           \/ Refuse(c)
    BY <1>6 DEF SubmitJob
  <2>2. /\ [Work("submit", NoJob, p) EXCEPT !.folder = packages[p].folder].jobtype = "submit"
        /\ [Work("submit", NoJob, p) EXCEPT !.folder = packages[p].folder].job = NoJob
    BY DEF Work
  <2> QED BY <1>1, <1>2, <2>1, <2>2 DEF Refuse
<1>7. CASE SubmitJobCreate(c)
  <2>1. PICK j \in Jobs : /\ createJob(j, PackageIn(c))
                          /\ client' = [client EXCEPT ![c].pc = "enqueue", ![c].item.job = j]
    BY <1>7 DEF SubmitJobCreate
  <2>2. /\ client'[c].pc = "enqueue" /\ client'[c].item.job = j
        /\ client'[c].item.jobtype = client[c].item.jobtype /\ Rest
    <3>1. client[c].item \in WSHPCWork
      BY <1>0 DEF ClientRecord
    <3> QED BY <1>0, <2>1, <3>1 DEF ClientRecord, WSHPCWork
  <2>3. client[c].item.jobtype = "submit"
    BY <1>7 DEF SubmitJobCreate, Asked, ItemsFit
  <2> QED BY <1>7, <2>1, <2>2, <2>3
<1>8. CASE DeleteJob(c)
  <2>1. PICK j \in Jobs : Begin(c, "enqueue", [Work("delete_job", j, jobs[j].package)
                                               EXCEPT !.submitted = jobs[j].submitted])
    BY <1>8 DEF DeleteJob
  <2>2. [Work("delete_job", j, jobs[j].package) EXCEPT !.submitted = jobs[j].submitted].jobtype
           = "delete_job"
    BY DEF Work
  <2> QED BY <1>2, <2>1, <2>2
<1>9. CASE DeletePackage(c)
  <2>1. PICK p \in Packages : Begin(c, "state", [Work("delete_package", NoJob, p)
                                                 EXCEPT !.folder = packages[p].folder])
    BY <1>9 DEF DeletePackage
  <2>2. [Work("delete_package", NoJob, p) EXCEPT !.folder = packages[p].folder].jobtype
           = "delete_package"
    BY DEF Work
  <2> QED BY <1>2, <2>1, <2>2
<1>10. CASE \/ DeletePackageCheckState(c) \/ DeletePackageCheckJobs(c)
            \/ DeletePackageJobs(c) \/ DeletePackageRow(c)
  <2>1. client[c].item.jobtype = "delete_package"
    BY <1>10 DEF DeletePackageCheckState, DeletePackageCheckJobs, DeletePackageJobs,
                 DeletePackageRow, Asked, ItemsFit
  <2>2. \/ \E pc \in {"jobs", "delete_jobs", "delete_package", "enqueue"} : Proceed(c, pc)
        \/ Refuse(c)
    BY <1>10 DEF DeletePackageCheckState, DeletePackageCheckJobs, DeletePackageJobs,
                 DeletePackageRow
  <2> QED BY <1>1, <1>3, <2>1, <2>2 DEF Refuse
<1> QED BY <1>4, <1>5, <1>6, <1>7, <1>8, <1>9, <1>10 DEF ClientActs, ClientStep

(* Results are still fetched only of jobs that ended.                      *)
LEMMA StepChecks ==
    ASSUME TypeOK, CompletionInv, [Next]_vars
    PROVE  CheckedAreFinished'
<1>0. HpcKept /\ CheckedAreFinished /\ ItemsFit /\ hpcworkqueue \in Seq(WSHPCWork)
  BY StepKeepsHpc DEF CompletionInv, TypeOK, SchedulerTypeOK
<1> DEFINE QueueIsFine ==
              \A n \in DOMAIN hpcworkqueue :
                 hpcworkqueue[n].jobtype = "check" =>
                     hpcworkqueue[n].job \in Jobs /\ Finished(hpcworkqueue[n].job)
           Fine(w) == worker[w].pc \in {"c_read", "c_transferring", "c_finish"} =>
                         /\ JobOf(w) \in Jobs /\ Finished(JobOf(w))
                         /\ worker[w].pc # "c_read" /\ worker[w].ok => hpc[JobOf(w)].ok
<1>1. QueueIsFine'
  <2>1. CASE UNCHANGED hpcworkqueue
    BY <1>0, <2>1 DEF CheckedAreFinished, HpcKept
  <2>2. ASSUME NEW w \in Workers, TakeWork(w) PROVE QueueIsFine'
    BY <1>0, <2>2, QueueShrinks DEF TakeWork, CheckedAreFinished, HpcKept
  <2>3. ASSUME NEW b \in Pollers, PollEnqueue(b) PROVE QueueIsFine'
    <3> DEFINE item == Work("check", poller[b].job, jobs[poller[b].job].package)
    <3>1. poller[b].job \in Jobs /\ Finished(poller[b].job)
      BY <2>3 DEF PollEnqueue, CompletionInv, RoundsAreSound, RoundIsSound
    <3>2. item \in WSHPCWork
      <4>1. jobs[poller[b].job].package \in Packages \cup {NoPackage}
        BY <3>1 DEF TypeOK, SchedulerTypeOK, DatabaseTypeOK, JobRecord
      <4> QED BY <3>1, <4>1, WorkTyped DEF WorkType
    <3>3. item.job = poller[b].job
      BY DEF Work
    <3> HIDE DEF item
    <3>4. addHPCWork(item)
      BY <2>3 DEF PollEnqueue, item
    <3>5. \A n \in DOMAIN hpcworkqueue' :
             \/ hpcworkqueue'[n] = item
             \/ \E m \in DOMAIN hpcworkqueue : hpcworkqueue'[n] = hpcworkqueue[m]
      BY <1>0, <3>2, <3>4, QueueGrows
    <3> QED BY <1>0, <3>1, <3>3, <3>5 DEF CheckedAreFinished, HpcKept
  <2>4. ASSUME NEW c \in Clients, Enqueue(c) PROVE QueueIsFine'
    <3>1. client[c].item \in WSHPCWork /\ client[c].item.jobtype # "check"
      BY <1>0 DEF ItemsFit, TypeOK, PagesTypeOK, ClientRecord
    <3>2. \A n \in DOMAIN hpcworkqueue' :
             \/ hpcworkqueue'[n] = client[c].item
             \/ \E m \in DOMAIN hpcworkqueue : hpcworkqueue'[n] = hpcworkqueue[m]
      BY <1>0, <2>4, <3>1, QueueGrows DEF Enqueue
    <3> QED BY <1>0, <3>1, <3>2 DEF CheckedAreFinished, HpcKept
  <2>5. CASE Crash
    BY <2>5 DEF Crash
  <2> QED BY <2>1, <2>2, <2>3, <2>4, <2>5, QueueSteps
<1>2. UNCHANGED worker => \A w \in Workers : Fine(w)'
  BY <1>0 DEF CheckedAreFinished, HpcKept, JobOf
<1>3. ASSUME NEW w \in Workers, WorkerActs(w) PROVE \A v \in Workers : Fine(v)'
  <2>1. /\ \A v \in Workers \ {w} : worker'[v] = worker[v]
        /\ TakeWork(w) \/ GoesOn(w)
    BY <1>3, WorkersGoOn
  <2>2. \A v \in Workers \ {w} : Fine(v)'
    BY <1>0, <2>1 DEF CheckedAreFinished, HpcKept, JobOf
  <2>3. CASE TakeWork(w)
    <3>1. /\ worker'[w].pc \in {"c_read", "c_transferring", "c_finish"} =>
                worker'[w].pc = "c_read" /\ Head(hpcworkqueue).jobtype = "check"
          /\ worker'[w].item = Head(hpcworkqueue)
          /\ 1 \in DOMAIN hpcworkqueue /\ hpcworkqueue[1] = Head(hpcworkqueue)
      BY <1>0, <2>3, TakenItem, QueueShrinks
    <3> QED BY <1>0, <2>2, <3>1 DEF CheckedAreFinished, HpcKept, JobOf
  <2>4. CASE GoesOn(w)
    BY <1>0, <2>2, <2>4 DEF GoesOn, CheckedAreFinished, HpcKept, JobOf
  <2> QED BY <2>1, <2>3, <2>4
<1>4. \A w \in Workers : Fine(w)'
  <2>1. CASE Crash
    <3>1. \A w \in Workers : worker'[w] = Idle
      BY <2>1 DEF Crash
    <3> QED BY <3>1 DEF Idle
  <2> QED BY <1>2, <1>3, <2>1
          DEF Next, vars, PollerActs, ClientActs, HpcActs, threadVars
<1> QED BY <1>1, <1>4 DEF CheckedAreFinished, JobOf

(* Threads still work on items of the kind their steps are for.            *)
LEMMA StepFits ==
    ASSUME TypeOK, CompletionInv, [Next]_vars
    PROVE  ItemsFit'
<1>0. ItemsFit /\ hpcworkqueue \in Seq(WSHPCWork)
  BY DEF CompletionInv, TypeOK, SchedulerTypeOK
<1> DEFINE QueueFits == \A n \in DOMAIN hpcworkqueue :
                           hpcworkqueue[n].jobtype = "submit" => hpcworkqueue[n].job \in Jobs
           WorkerFits(w) == worker[w].pc \in {"s_mkdir", "s_unzip", "s_qsub", "s_record"} =>
                               worker[w].item.jobtype = "submit" /\ JobOf(w) \in Jobs
           ClientFits(c) ==
              /\ client[c].item.jobtype # "check"
              /\ client[c].pc = "create" => client[c].item.jobtype = "submit"
              /\ client[c].pc \in {"state", "jobs", "delete_jobs", "delete_package"}
                    => client[c].item.jobtype = "delete_package"
              /\ client[c].pc = "enqueue" /\ client[c].item.jobtype = "submit"
                    => client[c].item.job \in Jobs
<1>1. QueueFits'
  <2>1. CASE UNCHANGED hpcworkqueue
    BY <1>0, <2>1 DEF ItemsFit
  <2>2. ASSUME NEW w \in Workers, TakeWork(w) PROVE QueueFits'
    BY <1>0, <2>2, QueueShrinks DEF TakeWork, ItemsFit
  <2>3. ASSUME NEW b \in Pollers, PollEnqueue(b) PROVE QueueFits'
    <3> DEFINE item == Work("check", poller[b].job, jobs[poller[b].job].package)
    <3>1. poller[b].job \in Jobs
      BY <2>3 DEF PollEnqueue, CompletionInv, RoundsAreSound, RoundIsSound
    <3>2. item \in WSHPCWork
      <4>1. jobs[poller[b].job].package \in Packages \cup {NoPackage}
        BY <3>1 DEF TypeOK, SchedulerTypeOK, DatabaseTypeOK, JobRecord
      <4> QED BY <3>1, <4>1, WorkTyped DEF WorkType
    <3>3. item.jobtype = "check"
      BY DEF Work
    <3> HIDE DEF item
    <3>4. addHPCWork(item)
      BY <2>3 DEF PollEnqueue, item
    <3>5. \A n \in DOMAIN hpcworkqueue' :
             \/ hpcworkqueue'[n] = item
             \/ \E m \in DOMAIN hpcworkqueue : hpcworkqueue'[n] = hpcworkqueue[m]
      BY <1>0, <3>2, <3>4, QueueGrows
    <3> QED BY <1>0, <3>3, <3>5 DEF ItemsFit
  <2>4. ASSUME NEW c \in Clients, Enqueue(c) PROVE QueueFits'
    <3>1. /\ client[c].item \in WSHPCWork
          /\ client[c].item.jobtype = "submit" => client[c].item.job \in Jobs
      BY <1>0, <2>4 DEF Enqueue, Asked, ItemsFit, TypeOK, PagesTypeOK, ClientRecord
    <3>2. \A n \in DOMAIN hpcworkqueue' :
             \/ hpcworkqueue'[n] = client[c].item
             \/ \E m \in DOMAIN hpcworkqueue : hpcworkqueue'[n] = hpcworkqueue[m]
      BY <1>0, <2>4, <3>1, QueueGrows DEF Enqueue
    <3> QED BY <1>0, <3>1, <3>2 DEF ItemsFit
  <2>5. CASE Crash
    BY <2>5 DEF Crash
  <2> QED BY <2>1, <2>2, <2>3, <2>4, <2>5, QueueSteps
<1>2. \A w \in Workers : WorkerFits(w)'
  <2>1. CASE UNCHANGED worker
    BY <1>0, <2>1 DEF ItemsFit, JobOf
  <2>2. ASSUME NEW w \in Workers, WorkerActs(w) PROVE \A v \in Workers : WorkerFits(v)'
    <3>1. /\ \A v \in Workers \ {w} : worker'[v] = worker[v]
          /\ TakeWork(w) \/ GoesOn(w)
      BY <2>2, WorkersGoOn
    <3>2. \A v \in Workers \ {w} : WorkerFits(v)'
      BY <1>0, <3>1 DEF ItemsFit, JobOf
    <3>3. CASE TakeWork(w)
      <4>1. /\ worker'[w].pc \in {"s_mkdir", "s_unzip", "s_qsub", "s_record"} =>
                  Head(hpcworkqueue).jobtype = "submit"
            /\ worker'[w].item = Head(hpcworkqueue)
            /\ 1 \in DOMAIN hpcworkqueue /\ hpcworkqueue[1] = Head(hpcworkqueue)
        BY <1>0, <3>3, TakenItem, QueueShrinks
      <4> QED BY <1>0, <3>2, <4>1 DEF ItemsFit, JobOf
    <3>4. CASE GoesOn(w)
      <4>1. SubmitQsub(w) => worker[w].pc = "s_qsub"
        BY DEF SubmitQsub, At
      <4> QED BY <1>0, <3>2, <3>4, <4>1 DEF GoesOn, ItemsFit, JobOf
    <3> QED BY <3>1, <3>3, <3>4
  <2>3. CASE Crash
    <3>1. \A w \in Workers : worker'[w] = Idle
      BY <2>3 DEF Crash
    <3> QED BY <3>1 DEF Idle
  <2> QED BY <2>1, <2>2, <2>3 DEF Next, vars, PollerActs, ClientActs, HpcActs, threadVars
<1>3. \A c \in Clients : ClientFits(c)'
  <2>1. CASE UNCHANGED client
    BY <1>0, <2>1 DEF ItemsFit
  <2>2. ASSUME NEW c \in Clients, ClientActs(c) PROVE \A d \in Clients : ClientFits(d)'
    <3>1. \A d \in Clients \ {c} : ClientFits(d)'
      BY <1>0, <2>2, RequestsGoOn DEF ItemsFit
    <3>2. ClientFits(c)'
      BY <1>0, <2>2, RequestsGoOn
    <3> QED BY <3>1, <3>2
  <2>3. CASE Crash
    <3>1. \A c \in Clients : client'[c] = NoRequest
      BY <2>3 DEF Crash
    <3> QED BY <3>1 DEF NoRequest, Work
  <2> QED BY <2>1, <2>2, <2>3 DEF Next, vars, WorkerActs, PollerActs, HpcActs, threadVars
<1> QED BY <1>1, <1>2, <1>3 DEF ItemsFit, JobOf

-----------------------------------------------------------------------------
(* The item that submits a job moves from the request to the queue and     *)
(* from the queue to a worker, or disappears; it comes into being with the *)
(* row of the job.                                                         *)
ItemStays(j)   == /\ AtMostOne(QueuedSubmits(j)') /\ (QueuedSubmits(j)' # {} => QueuedSubmits(j) # {})
                  /\ RunningSubmits(j)' \subseteq RunningSubmits(j)
                  /\ ComingSubmits(j)' \subseteq ComingSubmits(j)
ItemTaken(j)   == /\ QueuedSubmits(j) # {} /\ QueuedSubmits(j)' = {}
                  /\ AtMostOne(RunningSubmits(j)') /\ ComingSubmits(j)' \subseteq ComingSubmits(j)
ItemQueued(j)  == /\ ComingSubmits(j) # {} /\ ComingSubmits(j)' = {}
                  /\ AtMostOne(QueuedSubmits(j)') /\ RunningSubmits(j)' \subseteq RunningSubmits(j)
ItemCreated(j) == /\ jobs[j].state = NoRecord /\ jobs'[j].state # NoRecord
                  /\ (QueuedSubmits(j)' # {} => QueuedSubmits(j) # {})
                  /\ RunningSubmits(j)' \subseteq RunningSubmits(j)
                  /\ AtMostOne(ComingSubmits(j)')
ItemMoves(j)   == ItemStays(j) \/ ItemTaken(j) \/ ItemQueued(j) \/ ItemCreated(j)

(* Taking an item from the queue.                                          *)
LEMMA TakingMoves ==
    ASSUME TypeOK, SubmittedOnce, NEW w \in Workers, TakeWork(w), WorkerActs(w), NEW j \in Jobs
    PROVE  ItemMoves(j)
<1>1. /\ removeHPCWork /\ hpcworkqueue \in Seq(WSHPCWork)
      /\ worker'[w].item = Head(hpcworkqueue)
      /\ UNCHANGED client /\ \A v \in Workers \ {w} : worker'[v] = worker[v]
  BY TakenItem, WorkersGoOn DEF TypeOK, SchedulerTypeOK
<1>2. AtMostOne(QueuedSubmits(j))
  BY DEF SubmittedOnce
<1>3. /\ AtMostOne(QueuedSubmits(j)') /\ (QueuedSubmits(j)' # {} => QueuedSubmits(j) # {})
      /\ Submits(Head(hpcworkqueue), j) => QueuedSubmits(j) # {} /\ QueuedSubmits(j)' = {}
  BY <1>1, <1>2, QueueShrinks
<1>4. ComingSubmits(j)' = ComingSubmits(j)
  BY <1>1 DEF ComingSubmits
<1>5. RunningSubmits(j)' \ {w} \subseteq RunningSubmits(j)
  BY <1>1 DEF RunningSubmits
<1>6. CASE Submits(Head(hpcworkqueue), j)
  <2>1. RunningSubmits(j) = {}
    BY <1>3, <1>6 DEF SubmittedOnce
  <2>2. AtMostOne(RunningSubmits(j)')
    BY <1>5, <2>1 DEF AtMostOne
  <2> QED BY <1>3, <1>4, <1>6, <2>2 DEF ItemMoves, ItemTaken
<1>7. CASE ~Submits(Head(hpcworkqueue), j)
  <2>1. w \notin RunningSubmits(j)'
    BY <1>1, <1>7 DEF RunningSubmits, Submits
  <2> QED BY <1>3, <1>4, <1>5, <2>1 DEF ItemMoves, ItemStays
<1> QED BY <1>6, <1>7

(* Adding an item to the queue.                                            *)
LEMMA QueueingMoves ==
    ASSUME TypeOK, SubmittedOnce, NEW c \in Clients, Enqueue(c), UNCHANGED worker, NEW j \in Jobs
    PROVE  ItemMoves(j)
<1>1. /\ addHPCWork(client[c].item) /\ client[c].item \in WSHPCWork
      /\ hpcworkqueue \in Seq(WSHPCWork) /\ client[c].pc = "enqueue"
      /\ client' = [client EXCEPT ![c] = NoRequest]
      /\ client \in [Clients -> ClientRecord]
  BY DEF Enqueue, Asked, TypeOK, SchedulerTypeOK, PagesTypeOK, ClientRecord
<1>2. RunningSubmits(j)' = RunningSubmits(j)
  BY DEF RunningSubmits
<1>3. ComingSubmits(j)' = ComingSubmits(j) \ {c}
  BY <1>1 DEF ComingSubmits, NoRequest
<1>4. CASE Submits(client[c].item, j)
  <2>1. c \in ComingSubmits(j)
    BY <1>1, <1>4 DEF ComingSubmits
  <2>2. QueuedSubmits(j) = {} /\ AtMostOne(ComingSubmits(j))
    BY <2>1 DEF SubmittedOnce
  <2>3. QueuedSubmits(j)' = {Len(hpcworkqueue) + 1}
    BY <1>1, <1>4, <2>2, QueueGrows
  <2> QED BY <1>2, <1>3, <2>1, <2>2, <2>3 DEF ItemMoves, ItemQueued, AtMostOne
<1>5. CASE ~Submits(client[c].item, j)
  <2>1. QueuedSubmits(j)' = QueuedSubmits(j)
    BY <1>1, <1>5, QueueGrows
  <2> QED BY <1>2, <1>3, <2>1 DEF ItemMoves, ItemStays, SubmittedOnce
<1> QED BY <1>4, <1>5

(* Any other step of a request.                                            *)
LEMMA RequestMoves ==
    ASSUME TypeOK, SubmittedOnce, ItemsFit, NEW c \in Clients, ClientActs(c), ~Enqueue(c),
           NEW j \in Jobs
    PROVE  ItemMoves(j)
<1>1. UNCHANGED <<worker, hpcworkqueue>>
  BY DEF ClientActs, ClientStep, UploadPackage, SubmitJob, SubmitJobCreate, DeleteJob,
         DeletePackage, DeletePackageCheckState, DeletePackageRefuseState,
         DeletePackageCheckJobs, DeletePackageJobs, DeletePackageRow, RequestFails,
         RequestLosesAnswer, sharedVars
<1>2. RunningSubmits(j)' = RunningSubmits(j) /\ QueuedSubmits(j)' = QueuedSubmits(j)
  BY <1>1 DEF RunningSubmits, QueuedSubmits
<1>3. ComingSubmits(j)' \ {c} \subseteq ComingSubmits(j)
  BY RequestsGoOn DEF ComingSubmits
<1>4. CASE c \notin ComingSubmits(j)'
  BY <1>2, <1>3, <1>4 DEF ItemMoves, ItemStays, SubmittedOnce
<1>5. CASE c \in ComingSubmits(j)'
  <2>1. client'[c].pc = "enqueue" /\ client'[c].item.jobtype = "submit" /\ client'[c].item.job = j
    BY <1>5 DEF ComingSubmits, Submits
  <2>2. createJob(j, PackageIn(c))
    BY <2>1, RequestsGoOn
  <2>3. jobs[j].state = NoRecord /\ jobs'[j].state = WSDJobStateInServiceQueue
    BY <2>2 DEF createJob, TypeOK, SchedulerTypeOK, DatabaseTypeOK
  <2>4. ComingSubmits(j) = {}
    BY <2>3 DEF SubmittedOnce
  <2>5. AtMostOne(ComingSubmits(j)')
    BY <1>3, <2>4 DEF AtMostOne
  <2>6. jobs'[j].state # NoRecord
    BY <2>3 DEF WSDJobStateInServiceQueue, NoRecord
  <2> QED BY <1>2, <2>3, <2>5, <2>6 DEF ItemMoves, ItemCreated
<1> QED BY <1>4, <1>5

(* The item that submits a job moves so in every step, and disappears with *)
(* the qsub of its job.                                                    *)
LEMMA StepMovesItems ==
    ASSUME TypeOK, CompletionInv, [Next]_vars, NEW j \in Jobs
    PROVE  /\ ItemMoves(j)
           /\ \A w \in Workers : SubmitQsub(w) /\ JobOf(w) = j =>
                 QueuedSubmits(j)' \cup RunningSubmits(j)' \cup ComingSubmits(j)' = {}
<1>0. SubmittedOnce /\ ItemsFit /\ hpcworkqueue \in Seq(WSHPCWork)
  BY DEF CompletionInv, TypeOK, SchedulerTypeOK
<1>1. ASSUME UNCHANGED <<hpcworkqueue, worker, client>> PROVE ItemMoves(j)
  BY <1>0, <1>1 DEF ItemMoves, ItemStays, QueuedSubmits, RunningSubmits, ComingSubmits, SubmittedOnce
<1>2. ASSUME NEW w \in Workers, WorkerActs(w), ~TakeWork(w)
      PROVE  /\ ItemMoves(j)
             /\ RunningSubmits(j)' \subseteq RunningSubmits(j)
             /\ SubmitQsub(w) => w \notin RunningSubmits(j)'
             /\ QueuedSubmits(j)' = QueuedSubmits(j) /\ ComingSubmits(j)' = ComingSubmits(j)
  <2>1. /\ UNCHANGED <<hpcworkqueue, client>> /\ GoesOn(w)
        /\ \A v \in Workers \ {w} : worker'[v] = worker[v]
    BY <1>2, WorkersGoOn
  <2>2. QueuedSubmits(j)' = QueuedSubmits(j) /\ ComingSubmits(j)' = ComingSubmits(j)
    BY <2>1 DEF QueuedSubmits, ComingSubmits
  <2>3. RunningSubmits(j)' \subseteq RunningSubmits(j)
    BY <2>1 DEF GoesOn, RunningSubmits
  <2>4. SubmitQsub(w) => w \notin RunningSubmits(j)'
    BY <2>1 DEF GoesOn, RunningSubmits
  <2> QED BY <1>0, <2>2, <2>3, <2>4 DEF ItemMoves, ItemStays, SubmittedOnce
<1>3. ItemMoves(j)
  <2>1. ASSUME NEW w \in Workers, WorkerActs(w) PROVE ItemMoves(j)
    BY <1>0, <1>2, <2>1, TakingMoves
  <2>2. ASSUME NEW b \in Pollers, PollerActs(b) PROVE ItemMoves(j)
    <3>1. CASE PollEnqueue(b)
      <4> DEFINE item == Work("check", poller[b].job, jobs[poller[b].job].package)
      <4>1. poller[b].job \in Jobs
        BY <3>1 DEF PollEnqueue, CompletionInv, RoundsAreSound, RoundIsSound
      <4>2. item \in WSHPCWork
        <5>1. jobs[poller[b].job].package \in Packages \cup {NoPackage}
          BY <4>1 DEF TypeOK, SchedulerTypeOK, DatabaseTypeOK, JobRecord
        <5> QED BY <4>1, <5>1, WorkTyped DEF WorkType
      <4>3. ~Submits(item, j)
        BY DEF Work, Submits
      <4> HIDE DEF item
      <4>4. addHPCWork(item) /\ UNCHANGED <<worker, client>>
        BY <2>2, <3>1 DEF PollEnqueue, PollerActs, item
      <4>5. QueuedSubmits(j)' = QueuedSubmits(j)
        BY <1>0, <4>2, <4>3, <4>4, QueueGrows
      <4> QED BY <1>0, <4>4, <4>5
              DEF ItemMoves, ItemStays, RunningSubmits, ComingSubmits, SubmittedOnce
    <3>2. CASE ~PollEnqueue(b)
      <4>1. UNCHANGED <<hpcworkqueue, worker, client>>
        BY <2>2, <3>2 DEF PollerActs, PollerStep, PollSnapshot, PollList, PollRead, PollUpdate,
                         PollAnnounce, PollThrow, PollLoseAnswer, sharedVars
      <4> QED BY <1>1, <4>1
    <3> QED BY <3>1, <3>2
  <2>3. ASSUME NEW c \in Clients, ClientActs(c) PROVE ItemMoves(j)
    BY <1>0, <2>3, QueueingMoves, RequestMoves DEF ClientActs
  <2>4. CASE Crash
    <3>1. QueuedSubmits(j)' = {}
      BY <2>4 DEF Crash, QueuedSubmits
    <3>2. RunningSubmits(j)' = {} /\ ComingSubmits(j)' = {}
      BY <2>4 DEF Crash, RunningSubmits, ComingSubmits, Idle, NoRequest
    <3> QED BY <3>1, <3>2 DEF ItemMoves, ItemStays, AtMostOne
  <2> QED BY <1>1, <2>1, <2>2, <2>3, <2>4 DEF Next, vars, HpcActs, threadVars
<1>4. ASSUME NEW w \in Workers, SubmitQsub(w), JobOf(w) = j
      PROVE  QueuedSubmits(j)' \cup RunningSubmits(j)' \cup ComingSubmits(j)' = {}
  <2>1. w \in RunningSubmits(j)
    BY <1>0, <1>4 DEF SubmitQsub, At, ItemsFit, RunningSubmits, Submits, JobOf
  <2>2. /\ QueuedSubmits(j) = {} /\ ComingSubmits(j) = {} /\ RunningSubmits(j) = {w}
        /\ ~OnHpc(j)
    BY <1>0, <2>1 DEF SubmittedOnce, AtMostOne
  <2>3. /\ worker'[w].pc = "s_record" /\ worker[w].pc = "s_qsub"
        /\ UNCHANGED hpcworkqueue /\ \A v \in Workers \ {w} : worker'[v] = worker[v]
    BY <1>4 DEF SubmitQsub, At, Goto, TypeOK, WorkerTypeOK
  <2>4. UNCHANGED client
    <3>1. CASE UNCHANGED worker
      BY <2>3, <3>1
    <3>2. CASE Crash
      <4>1. worker'[w].pc = "idle"
        BY <3>2 DEF Crash, Idle
      <4> QED BY <2>3, <4>1
    <3> QED BY <3>1, <3>2
            DEF Next, vars, WorkerActs, PollerActs, ClientActs, HpcActs, threadVars
  <2>5. QueuedSubmits(j)' = {} /\ ComingSubmits(j)' = {}
    BY <2>2, <2>3, <2>4 DEF QueuedSubmits, ComingSubmits
  <2>6. RunningSubmits(j)' = {}
    BY <2>2, <2>3 DEF RunningSubmits
  <2> QED BY <2>5, <2>6
<1> QED BY <1>3, <1>4

(* So a job still goes to qsub at most once.                               *)
LEMMA StepSubmitsOnce ==
    ASSUME TypeOK, CompletionInv, [Next]_vars
    PROVE  SubmittedOnce'
<1> DEFINE Items(j) == QueuedSubmits(j) \cup RunningSubmits(j) \cup ComingSubmits(j)
           Apart(j) == /\ AtMostOne(QueuedSubmits(j)) /\ AtMostOne(RunningSubmits(j))
                       /\ AtMostOne(ComingSubmits(j))
                       /\ QueuedSubmits(j) # {} =>
                             RunningSubmits(j) = {} /\ ComingSubmits(j) = {}
                       /\ RunningSubmits(j) # {} => ComingSubmits(j) = {}
<1> SUFFICES ASSUME NEW j \in Jobs
             PROVE  /\ Apart(j)'
                    /\ Items(j)' # {} => jobs'[j].state # NoRecord /\ ~OnHpc(j)'
                    /\ jobs'[j].state = NoRecord => ~OnHpc(j)'
  BY DEF SubmittedOnce
<1>1. /\ Apart(j)
      /\ Items(j) # {} => jobs[j].state # NoRecord /\ ~OnHpc(j)
      /\ jobs[j].state = NoRecord => ~OnHpc(j)
  BY DEF CompletionInv, SubmittedOnce
<1>2. ItemMoves(j)
  BY StepMovesItems
<1>3. Apart(j)'
  <2>1. CASE ItemStays(j)
    BY <1>1, <2>1 DEF ItemStays, AtMostOne
  <2>2. CASE ItemTaken(j)
    BY <1>1, <2>2 DEF ItemTaken, AtMostOne
  <2>3. CASE ItemQueued(j)
    BY <1>1, <2>3 DEF ItemQueued, AtMostOne
  <2>4. CASE ItemCreated(j)
    <3>1. Items(j) = {}
      BY <1>1, <2>4 DEF ItemCreated
    <3> QED BY <2>4, <3>1 DEF ItemCreated, AtMostOne
  <2> QED BY <1>2, <2>1, <2>2, <2>3, <2>4 DEF ItemMoves
<1>4. Items(j)' # {} => \/ Items(j) # {}
                        \/ jobs[j].state = NoRecord /\ jobs'[j].state # NoRecord
  BY <1>2 DEF ItemMoves, ItemStays, ItemTaken, ItemQueued, ItemCreated
<1>5. jobs[j].state # NoRecord => jobs'[j].state # NoRecord
  <2>1. JobMoves
    BY StepMovesJobs DEF CompletionInv
  <2> QED BY <2>1 DEF JobMoves, NoRecord, WSDJobStateError, WSDJobStateDeleted,
         WSDJobStateInServiceQueue, WSDJobStateInHPCQueue, WSDJobStateSuspended,
         WSDJobStateCompletedInHPC, WSDJobOutputStateTransferring, WSDJobOutputStateTransferDone
<1>6. CASE OnHpc(j) <=> OnHpc(j)'
  BY <1>1, <1>3, <1>4, <1>5, <1>6
<1>7. ASSUME NEW w \in Workers, SubmitQsub(w), JobOf(w) = j
      PROVE  Items(j)' = {} /\ jobs'[j].state # NoRecord
  <2>1. Items(j)' = {}
    BY <1>7, StepMovesItems
  <2>2. w \in RunningSubmits(j)
    BY <1>7 DEF CompletionInv, SubmitQsub, At, ItemsFit, RunningSubmits, Submits, JobOf
  <2> QED BY <1>1, <1>5, <2>1, <2>2
<1> QED BY <1>3, <1>6, <1>7, StepKeepsHpc DEF CompletionInv

(* And a worker that called qsub still records a job the HPC center knows. *)
LEMMA StepKnows ==
    ASSUME TypeOK, CompletionInv, [Next]_vars
    PROVE  OnHpcIsKnown'
<1>1. HpcKept /\ ItemsFit
  BY StepKeepsHpc DEF CompletionInv
<1> DEFINE Known(w) == worker[w].pc = "s_record" => OnHpc(JobOf(w))
<1>2. \A w \in Workers : Known(w) /\ (worker[w].pc = "s_record" => JobOf(w) \in Jobs)
  BY <1>1 DEF CompletionInv, OnHpcIsKnown, ItemsFit
<1>3. CASE UNCHANGED worker
  BY <1>1, <1>2, <1>3, StepCompletes DEF OnHpcIsKnown, HpcKept, JobOf
<1>4. ASSUME NEW w \in Workers, WorkerActs(w) PROVE \A v \in Workers : Known(v)'
  <2>1. /\ \A v \in Workers \ {w} : worker'[v] = worker[v]
        /\ TakeWork(w) \/ GoesOn(w)
    BY <1>4, WorkersGoOn
  <2>2. \A v \in Workers \ {w} : Known(v)'
    BY <1>1, <1>2, <2>1 DEF HpcKept, JobOf
  <2>3. CASE TakeWork(w)
    BY <2>2, <2>3, TakenItem
  <2>4. CASE GoesOn(w) /\ ~SubmitQsub(w)
    BY <1>1, <1>2, <2>2, <2>4 DEF GoesOn, HpcKept, JobOf
  <2>5. CASE SubmitQsub(w)
    <3>1. /\ JobOf(w) \in Jobs /\ worker'[w].item = worker[w].item
          /\ hpc' = [hpc EXCEPT ![JobOf(w)].status = Queued]
      BY <1>1, <2>5 DEF SubmitQsub, qsub, At, Goto, ItemsFit, TypeOK, WorkerTypeOK
    <3>2. Queued # "none"
      BY ClusterAssumption DEF Queued
    <3>3. hpc'[JobOf(w)].status = Queued
      BY <3>1 DEF TypeOK, SchedulerTypeOK, ClusterTypeOK
    <3> QED BY <2>2, <3>1, <3>2, <3>3 DEF OnHpc, JobOf
  <2> QED BY <2>1, <2>3, <2>4, <2>5
<1>5. CASE Crash
  <2>1. \A w \in Workers : worker'[w].pc = "idle"
    BY <1>5 DEF Crash, Idle
  <2> QED BY <2>1, StepCompletes DEF OnHpcIsKnown
<1> QED BY <1>3, <1>4, <1>5, StepCompletes
        DEF OnHpcIsKnown, Next, vars, PollerActs, ClientActs, HpcActs, threadVars

-----------------------------------------------------------------------------
(* The inductive invariant: types, and why only ended jobs are completed.  *)
Inv == TypeOK /\ CompletionInv

(* It holds of the empty tables with all threads idle.                     *)
LEMMA InitInv == Init => Inv
<1> SUFFICES ASSUME Init PROVE CompletionInv
  BY InitTyped DEF Inv
<1>1. /\ \A j \in Jobs : jobs[j].state = NoRecord /\ hpc[j].status = "none"
      /\ hpcworkqueue = <<>>
      /\ \A w \in Workers : worker[w] = Idle
      /\ \A b \in Pollers : poller[b] = Asleep
      /\ \A c \in Clients : client[c] = NoRequest
  BY DEF Init, SchedulerInit, DatabaseInit, ClusterInit, WorkerInit, PollerInit, PagesInit
<1>2. CompletionIsReal /\ DoneMeansSuccess
  BY <1>1 DEF CompletionIsReal, DoneMeansSuccess, NoRecord, WSDJobStateCompletedInHPC,
              WSDJobOutputStateTransferring, WSDJobOutputStateTransferDone
<1>3. SubmittedOnce
  <2>1. \A j \in Jobs : /\ QueuedSubmits(j) = {} /\ RunningSubmits(j) = {}
                        /\ ComingSubmits(j) = {} /\ ~OnHpc(j)
    BY <1>1 DEF QueuedSubmits, RunningSubmits, ComingSubmits, OnHpc, Idle, NoRequest
  <2> QED BY <2>1 DEF SubmittedOnce, AtMostOne
<1>4. OnHpcIsKnown
  BY <1>1 DEF OnHpcIsKnown, Idle, NoRecord, WSDJobStateInHPCQueue, WSDJobStateSuspended
<1>5. RoundsAreSound
  BY <1>1 DEF RoundsAreSound, RoundIsSound, Asleep
<1>6. CheckedAreFinished
  BY <1>1 DEF CheckedAreFinished, Idle
<1>7. ItemsFit
  BY <1>1 DEF ItemsFit, Idle, NoRequest, Work
<1> QED BY <1>2, <1>3, <1>4, <1>5, <1>6, <1>7 DEF CompletionInv

(* Every step of every thread, of the HPC center and every crash keeps it. *)
THEOREM Invariance == Spec => []Inv
<1>1. Inv /\ [Next]_vars => Inv'
  <2> SUFFICES ASSUME Inv, [Next]_vars PROVE Inv'
    OBVIOUS
  <2>1. TypeOK /\ CompletionInv
    BY DEF Inv
  <2>2. TypeOK'
    BY <2>1, StepTyped DEF CompletionInv
  <2>3. CompletionIsReal' /\ DoneMeansSuccess'
    BY <2>1, StepCompletes
  <2>4. SubmittedOnce' /\ OnHpcIsKnown'
    BY <2>1, StepSubmitsOnce, StepKnows
  <2>5. RoundsAreSound' /\ CheckedAreFinished' /\ ItemsFit'
    BY <2>1, StepRounds, StepChecks, StepFits
  <2> QED BY <2>2, <2>3, <2>4, <2>5 DEF Inv, CompletionInv
<1> QED BY <1>1, InitInv, PTL DEF Spec

(* The tables, the queue and the threads stay well typed.                  *)
THEOREM TypeCorrect == Spec => []TypeOK
<1>1. Inv => TypeOK
  BY DEF Inv
<1> QED BY <1>1, Invariance, PTL

(* A job is reported as completed only when it has ended on the HPC        *)
(* center, however old the listing the background thread went by, however  *)
(* many background threads there are, and across crashes.                  *)
THEOREM CompletedJobsHaveEnded == Spec => []CompletionIsReal
<1>1. Inv => CompletionIsReal
  BY DEF Inv, CompletionInv
<1> QED BY <1>1, Invariance, PTL

(* A job is reported as done only if its program ended with exit code 0.   *)
THEOREM DoneJobsSucceeded == Spec => []DoneMeansSuccess
<1>1. Inv => DoneMeansSuccess
  BY DEF Inv, CompletionInv
<1> QED BY <1>1, Invariance, PTL

(* No job is handed to qsub twice.                                         *)
THEOREM JobsAreSubmittedOnce == Spec => []SubmittedOnce
<1>1. Inv => SubmittedOnce
  BY DEF Inv, CompletionInv
<1> QED BY <1>1, Invariance, PTL

-----------------------------------------------------------------------------
(* Callbacks.  A state that a worker has written and has yet to announce   *)
(* is true of its job.                                                     *)
DuesAreReal == \A w \in Workers : JobOf(w) \in Jobs => IsReal(worker[w].due, JobOf(w))

AnnouncementInv == Inv /\ AnnouncementsAreReal /\ DuesAreReal

(* What is true of a job stays true.                                       *)
LEMMA RealStays ==
    ASSUME HpcKept, NEW s, NEW j \in Jobs, IsReal(s, j)
    PROVE  IsReal(s, j)'
  BY DEF HpcKept, IsReal

(* There is nothing to be true of a job that has nothing to announce, or   *)
(* whose deletion or error is announced.                                   *)
LEMMA NothingToShow ==
    ASSUME NEW j, NEW s \in {NoRecord, WSDJobStateDeleted, WSDJobStateError}
    PROVE  IsReal(s, j)
  BY DEF IsReal, NoRecord, WSDJobStateDeleted, WSDJobStateError, WSDJobStateInHPCQueue,
         WSDJobStateSuspended, WSDJobStateCompletedInHPC, WSDJobOutputStateTransferring,
         WSDJobOutputStateTransferDone

(* A worker that wrote a state has the callback of it to send, and of no   *)
(* other.                                                                  *)
LEMMA WorkersOwe ==
    ASSUME Inv, NEW w \in Workers, WorkerActs(w), JobOf(w)' \in Jobs
    PROVE  \/ worker'[w].due = NoRecord
           \/ worker'[w].due = worker[w].due /\ worker'[w].item = worker[w].item
           \/ /\ worker'[w].item = worker[w].item /\ UNCHANGED hpc
              /\ IsReal(worker'[w].due, JobOf(w))
<1>0. WorkerTypeOK /\ OnHpcIsKnown /\ CheckedAreFinished
  BY DEF Inv, TypeOK, CompletionInv
<1> DEFINE Clear == worker'[w].due = NoRecord
           Same == worker'[w].due = worker[w].due /\ worker'[w].item = worker[w].item
<1>1. Finish(w) => Clear
  BY <1>0 DEF Finish, Idle, WorkerTypeOK
<1>2. \A pc : Goto(w, pc) => Same
  BY <1>0 DEF Goto, WorkerTypeOK
<1>3. ASSUME NEW s, NEW pc, GotoAndAnnounce(w, pc, s), UNCHANGED hpc, IsReal(s, JobOf(w))
      PROVE  Clear \/ (worker'[w].item = worker[w].item /\ UNCHANGED hpc
                        /\ IsReal(worker'[w].due, JobOf(w)))
  <2>1. worker'[w].item = worker[w].item /\ worker'[w].due = ToAnnounce(s)
    BY <1>0, <1>3 DEF GotoAndAnnounce, WorkerTypeOK
  <2> QED BY <1>3, <2>1 DEF ToAnnounce
<1>4. CASE TakeWork(w)
  BY <1>0, <1>4 DEF TakeWork, WorkerTypeOK
<1>5. CASE Announce(w)
  <2>1. Finish(w) \/ worker' = [worker EXCEPT ![w].due = NoRecord]
    BY <1>5 DEF Announce, Finish
  <2> QED BY <1>0, <1>1, <2>1 DEF WorkerTypeOK
<1>6. CASE Upload(w) \/ PackageRm(w) \/ Throw(w) \/ LoseAnswer(w)
  <2>1. Finish(w) \/ \E pc : Goto(w, pc)
    BY <1>6 DEF Upload, UploadRunning, UploadFolder, UploadMkdir, UploadTransferring,
                UploadTransfer, UploadDone, PackageRm, Throw, LoseAnswer
  <2> QED BY <1>1, <1>2, <2>1
<1>7. CASE Submit(w)
  <2>1. CASE SubmitMkdir(w) \/ SubmitUnzip(w) \/ SubmitQsub(w)
    BY <1>2, <2>1 DEF SubmitMkdir, SubmitUnzip, SubmitQsub
  <2>2. CASE SubmitRecord(w)
    <3>1. UNCHANGED hpc /\ FinishAndAnnounce(w, WSDJobStateInHPCQueue)
      BY <2>2 DEF SubmitRecord, clusterVars
    <3>2. OnHpc(JobOf(w))
      BY <1>0, <2>2 DEF SubmitRecord, At, OnHpcIsKnown
    <3>3. IsReal(WSDJobStateInHPCQueue, JobOf(w))
      BY <3>2 DEF IsReal, WSDJobStateInHPCQueue, WSDJobStateCompletedInHPC,
                  WSDJobOutputStateTransferring, WSDJobOutputStateTransferDone
    <3> QED BY <1>1, <1>3, <3>1, <3>3 DEF FinishAndAnnounce
  <2> QED BY <1>7, <2>1, <2>2 DEF Submit
<1>8. CASE Check(w)
  <2>1. CASE CheckRead(w)
    <3>1. worker' = [worker EXCEPT ![w] = [worker[w] EXCEPT !.pc = "c_transferring",
                                                            !.ok = hpc[JobOf(w)].ok]]
      BY <1>0, <2>1 DEF CheckRead, WorkerTypeOK
    <3> QED BY <1>0, <3>1 DEF WorkerTypeOK
  <2>2. CASE CheckTransferring(w)
    <3>1. /\ UNCHANGED hpc
          /\ GotoAndAnnounce(w, "c_finish", WSDJobOutputStateTransferring)
      BY <2>2 DEF CheckTransferring, clusterVars
    <3>2. Finished(JobOf(w))
      BY <1>0, <2>2 DEF CheckTransferring, At, CheckedAreFinished
    <3>3. IsReal(WSDJobOutputStateTransferring, JobOf(w))
      BY <3>2 DEF IsReal, WSDJobStateInHPCQueue, WSDJobStateSuspended,
                  WSDJobOutputStateTransferring, WSDJobOutputStateTransferDone
    <3> QED BY <1>3, <3>1, <3>3
  <2>3. CASE CheckFinish(w)
    <3>1. Finished(JobOf(w)) /\ (worker[w].ok => hpc[JobOf(w)].ok) /\ UNCHANGED hpc
      BY <1>0, <2>3 DEF CheckFinish, At, CheckedAreFinished, clusterVars
    <3>2. \/ worker[w].ok /\ FinishAndAnnounce(w, WSDJobOutputStateTransferDone)
          \/ FinishAndAnnounce(w, WSDJobStateError)
      BY <2>3 DEF CheckFinish
    <3>3. worker[w].ok => IsReal(WSDJobOutputStateTransferDone, JobOf(w))
      BY <3>1 DEF IsReal, WSDJobStateInHPCQueue, WSDJobStateSuspended,
                  WSDJobOutputStateTransferDone
    <3>4. IsReal(WSDJobStateError, JobOf(w))
      BY NothingToShow
    <3> QED BY <1>1, <1>3, <3>1, <3>2, <3>3, <3>4 DEF FinishAndAnnounce
  <2> QED BY <1>8, <2>1, <2>2, <2>3 DEF Check
<1>9. CASE Delete(w)
  <2>1. CASE DeleteMark(w)
    <3>1. UNCHANGED hpc /\ GotoAndAnnounce(w, "d_qdel", WSDJobStateDeleted)
      BY <2>1 DEF DeleteMark, clusterVars
    <3> QED BY <1>3, <3>1, NothingToShow
  <2>2. CASE DeleteQdel(w) \/ DeleteRm(w)
    BY <1>1, <1>2, <2>2 DEF DeleteQdel, DeleteRm
  <2> QED BY <1>9, <2>1, <2>2 DEF Delete
<1> QED BY <1>4, <1>5, <1>6, <1>7, <1>8, <1>9 DEF WorkerActs, WorkerStep

(* Who calls back, and with what.                                          *)
LEMMA StepsTell ==
    ASSUME [Next]_vars
    PROVE  \/ UNCHANGED told
           \/ \E w \in Workers : Announce(w)
           \/ \E b \in Pollers : PollAnnounce(b)
<1>1. ASSUME NEW w \in Workers, WorkerActs(w), ~Announce(w) PROVE UNCHANGED told
  <2>1. TakeWork(w) \/ PackageRm(w) \/ Throw(w) \/ LoseAnswer(w) => UNCHANGED told
    BY DEF TakeWork, PackageRm, Throw, LoseAnswer
  <2>2. Upload(w) => UNCHANGED told
    BY DEF Upload, UploadRunning, UploadFolder, UploadMkdir, UploadTransferring,
           UploadTransfer, UploadDone
  <2>3. Submit(w) \/ Check(w) => UNCHANGED told
    BY DEF Submit, SubmitMkdir, SubmitUnzip, SubmitQsub, SubmitRecord,
           Check, CheckRead, CheckTransferring, CheckFinish, sharedVars
  <2>4. DeleteMark(w) \/ DeleteQdel(w) \/ DeleteRm(w) => UNCHANGED told
    <3>1. (DeleteMark(w) => UNCHANGED told) /\ (DeleteRm(w) => UNCHANGED told)
      BY DEF DeleteMark, DeleteRm
    <3>2. DeleteQdel(w) => UNCHANGED told
      BY DEF DeleteQdel
    <3> QED BY <3>1, <3>2
  <2> QED BY <1>1, <2>1, <2>2, <2>3, <2>4 DEF WorkerActs, WorkerStep, Delete
<1>2. ASSUME NEW b \in Pollers, PollerActs(b), ~PollAnnounce(b) PROVE UNCHANGED told
  BY <1>2 DEF PollerActs, PollerStep, PollSnapshot, PollList, PollRead, PollUpdate,
              PollEnqueue, PollThrow, PollLoseAnswer, sharedVars
<1>3. ASSUME NEW c \in Clients, ClientActs(c) PROVE UNCHANGED told
  BY <1>3 DEF ClientActs, ClientStep, Enqueue, UploadPackage, SubmitJob, SubmitJobCreate,
     DeleteJob, DeletePackage, DeletePackageCheckState, DeletePackageRefuseState,
     DeletePackageCheckJobs, DeletePackageJobs, DeletePackageRow, RequestFails,
     RequestLosesAnswer, sharedVars
<1> QED BY <1>1, <1>2, <1>3 DEF Next, vars, HpcActs, Crash

(* So every announcement is true when it is sent, and stays so.            *)
LEMMA StepAnnounces ==
    ASSUME AnnouncementInv, [Next]_vars
    PROVE  AnnouncementsAreReal' /\ DuesAreReal'
<1>0. /\ HpcKept /\ Inv /\ told \in [Jobs -> {NoRecord} \cup JobStates]
      /\ \A j \in Jobs : IsReal(told[j], j)
      /\ \A w \in Workers : JobOf(w) \in Jobs => IsReal(worker[w].due, JobOf(w))
  BY StepKeepsHpc DEF AnnouncementInv, AnnouncementsAreReal, DuesAreReal, Inv, CompletionInv,
                      TypeOK, SchedulerTypeOK
<1>1. AnnouncementsAreReal'
  <2>1. ASSUME NEW j \in Jobs PROVE \E s : IsReal(s, j) /\ told'[j] = s
    <3>1. CASE UNCHANGED told
      BY <1>0, <3>1
    <3>2. ASSUME NEW w \in Workers, Announce(w) PROVE \E s : IsReal(s, j) /\ told'[j] = s
      BY <1>0, <3>2 DEF Announce, doCallback
    <3>3. ASSUME NEW b \in Pollers, PollAnnounce(b) PROVE \E s : IsReal(s, j) /\ told'[j] = s
      <4>1. RoundIsSound(b) /\ poller[b].pc = "announce"
        BY <1>0, <3>3 DEF Inv, CompletionInv, RoundsAreSound, PollAnnounce
      <4>2. /\ poller[b].job \in Jobs /\ OnHpc(poller[b].job)
            /\ poller[b].new \in {WSDJobStateCompletedInHPC}
                                 \cup WSDJobStateInHPCQueue .. WSDJobStateSuspended
            /\ poller[b].new = WSDJobStateCompletedInHPC => Finished(poller[b].job)
        BY <4>1, SchedulerAssumption DEF RoundIsSound
      <4>3. IsReal(poller[b].new, poller[b].job)
        BY <4>2 DEF IsReal, WSDJobStateInHPCQueue, WSDJobStateSuspended,
                    WSDJobStateCompletedInHPC, WSDJobOutputStateTransferring,
                    WSDJobOutputStateTransferDone
      <4> QED BY <1>0, <3>3, <4>3 DEF PollAnnounce, doCallback
    <3> QED BY <3>1, <3>2, <3>3, StepsTell
  <2>2. ASSUME NEW j \in Jobs PROVE IsReal(told[j], j)'
    <3>1. PICK s : IsReal(s, j) /\ told'[j] = s
      BY <2>1
    <3>2. IsReal(s, j)'
      BY <1>0, <3>1, RealStays
    <3> QED BY <3>1, <3>2 DEF IsReal
  <2> QED BY <2>2 DEF AnnouncementsAreReal
<1>2. ASSUME NEW w \in Workers, JobOf(w)' \in Jobs PROVE IsReal(worker[w].due, JobOf(w))'
  <2>1. CASE worker'[w].due = NoRecord
    BY <2>1 DEF IsReal, NoRecord, WSDJobStateInHPCQueue, WSDJobStateSuspended,
                WSDJobStateCompletedInHPC, WSDJobOutputStateTransferring,
                WSDJobOutputStateTransferDone
  <2>2. CASE worker'[w].due = worker[w].due /\ worker'[w].item = worker[w].item
    <3>1. JobOf(w)' = JobOf(w)
      BY <2>2 DEF JobOf
    <3> QED BY <1>0, <1>2, <2>2, <3>1, RealStays DEF IsReal, HpcKept
  <2>3. CASE /\ worker'[w].item = worker[w].item /\ UNCHANGED hpc
             /\ IsReal(worker'[w].due, JobOf(w))
    BY <2>3 DEF JobOf, IsReal, OnHpc, Finished
  <2>4. CASE UNCHANGED worker
    BY <2>2, <2>4
  <2>5. ASSUME NEW v \in Workers, WorkerActs(v), v # w PROVE worker'[w] = worker[w]
    BY <1>0, <2>5, WorkersGoOn DEF Inv
  <2>6. CASE Crash
    BY <2>1, <2>6 DEF Crash, Idle
  <2>7. CASE WorkerActs(w)
    BY <1>0, <1>2, <2>1, <2>2, <2>3, <2>7, WorkersOwe
  <2> QED BY <2>2, <2>4, <2>5, <2>6, <2>7
          DEF Next, vars, PollerActs, ClientActs, HpcActs, threadVars
<1> QED BY <1>1, <1>2 DEF DuesAreReal

(* Every callback says the truth, however late it is sent.                 *)
THEOREM CallbacksAreTrue == Spec => []AnnouncementsAreReal
<1>1. Init => AnnouncementInv
  <2>1. ASSUME Init PROVE /\ \A j \in Jobs : told[j] = NoRecord
                          /\ \A w \in Workers : worker[w].due = NoRecord
    BY <2>1 DEF Init, SchedulerInit, WorkerInit, Idle
  <2> QED BY <2>1, InitInv, NothingToShow
          DEF AnnouncementInv, AnnouncementsAreReal, DuesAreReal
<1>2. AnnouncementInv /\ Inv' /\ [Next]_vars => AnnouncementInv'
  BY StepAnnounces DEF AnnouncementInv
<1>3. AnnouncementInv => AnnouncementsAreReal
  BY DEF AnnouncementInv
<1> QED BY <1>1, <1>2, <1>3, Invariance, PTL DEF Spec

-----------------------------------------------------------------------------
(* One handler per job: with one background thread, and if no statement is *)
(* executed and taken for failed.                                          *)

(* A worker without an item works on none until it takes one.              *)
LEMMA IdleStaysIdle ==
    ASSUME TypeOK, NEW w \in Workers, WorkerActs(w), ~TakeWork(w), worker[w].pc = "idle"
    PROVE  worker'[w].pc = "idle"
<1>1. Announce(w)
  BY DEF WorkerActs, WorkerStep, Upload, UploadRunning, UploadFolder, UploadMkdir,
     UploadTransferring, UploadTransfer, UploadDone, Submit, SubmitMkdir, SubmitUnzip,
     SubmitQsub, SubmitRecord, Check, CheckRead, CheckTransferring, CheckFinish, Delete,
     DeleteMark, DeleteQdel, DeleteRm, PackageRm, Throw, LoseAnswer, At
<1> QED BY <1>1 DEF Announce, Idle, TypeOK, WorkerTypeOK

(* The jobs a round holds: those left to ask about and the one it is at.   *)
Held(b) == poller[b].todo \cup {poller[b].job}

(* A round takes jobs by reading them from the database only, and lets go  *)
(* of one as it queues the check of it.                                    *)
RoundShape(b) ==
    /\ poller[b].pc \in {"sleep", "list", "jobs"} => poller[b].job = NoJob
    /\ poller[b].pc = "sleep" => poller[b].todo = {}
    /\ poller[b].job \notin poller[b].todo

LEMMA RoundSteps ==
    ASSUME TypeOK, NEW b \in Pollers, RoundShape(b), PollerActs(b), ~AnswersMayBeLost
    PROVE  /\ RoundShape(b)'
           /\ \/ PollSnapshot(b) /\ Held(b)' = getAllSubmittedAndRunningJobsByHPCID \cup {NoJob}
              \/ Held(b)' \subseteq Held(b) \cup {NoJob}
           /\ PollEnqueue(b) /\ poller[b].job # NoJob => poller[b].job \notin Held(b)'
           /\ poller'[b].pc \in {"announce", "enqueue"} =>
                 /\ poller'[b].job = poller[b].job /\ poller'[b].new = poller[b].new
                 /\ PollUpdate(b) \/ (poller[b].pc = "announce" /\ UNCHANGED jobs)
<1> DEFINE Goal == /\ RoundShape(b)'
                   /\ Held(b)' \subseteq Held(b) \cup {NoJob}
                   /\ poller[b].job # NoJob /\ poller[b].pc = "enqueue" =>
                         poller[b].job \notin Held(b)'
                   /\ poller'[b].pc \notin {"announce", "enqueue"}
<1>0. /\ poller[b] \in PollerRecord /\ poller \in [Pollers -> PollerRecord]
      /\ poller[b].todo \in SUBSET Jobs /\ NoJob \notin Jobs
  BY SchedulerAssumption DEF TypeOK, PollerTypeOK, PollerRecord
<1>1. ASSUME poller' = [poller EXCEPT ![b] = Asleep] PROVE Goal
  <2>1. poller'[b] = Asleep
    BY <1>0, <1>1
  <2> QED BY <2>1 DEF Asleep, RoundShape, Held
<1>2. ASSUME NextJob(b) PROVE Goal
  <2>1. CASE poller[b].todo = {}
    BY <1>1, <1>2, <2>1 DEF NextJob
  <2>2. CASE poller[b].todo # {}
    <3>1. poller' = [poller EXCEPT ![b] =
                        [poller[b] EXCEPT !.pc = "jobs", !.job = NoJob,
                                          !.old = NoRecord, !.new = NoRecord]]
      BY <1>0, <1>2, <2>2 DEF NextJob
    <3>2. /\ poller'[b].pc = "jobs" /\ poller'[b].job = NoJob
          /\ poller'[b].todo = poller[b].todo
      BY <1>0, <3>1 DEF PollerRecord
    <3> QED BY <1>0, <3>2 DEF RoundShape, Held
  <2> QED BY <2>1, <2>2
<1>3. ASSUME NEW pc \in {"announce", "enqueue"}, poller' = [poller EXCEPT ![b].pc = pc]
      PROVE  /\ RoundShape(b)' /\ Held(b)' = Held(b)
             /\ poller'[b].job = poller[b].job /\ poller'[b].new = poller[b].new
  <2>1. /\ poller'[b].pc = pc /\ poller'[b].job = poller[b].job
        /\ poller'[b].todo = poller[b].todo /\ poller'[b].new = poller[b].new
    BY <1>0, <1>3 DEF PollerRecord
  <2> QED BY <1>3, <2>1 DEF RoundShape, Held
<1>4. ASSUME EnqueueOrNext(b)
      PROVE  Goal \/ poller' = [poller EXCEPT ![b].pc = "enqueue"]
  BY <1>2, <1>4 DEF EnqueueOrNext
<1>5. CASE PollSnapshot(b)
  <2>1. poller' = [poller EXCEPT ![b] = [poller[b] EXCEPT
                      !.pc = "list", !.todo = getAllSubmittedAndRunningJobsByHPCID]]
    BY <1>0, <1>5 DEF PollSnapshot
  <2>2. /\ poller'[b].pc = "list" /\ poller'[b].job = poller[b].job
        /\ poller'[b].todo = getAllSubmittedAndRunningJobsByHPCID
    BY <1>0, <2>1 DEF PollerRecord
  <2>3. poller[b].pc = "sleep" /\ poller[b].job = NoJob
    BY <1>5 DEF PollSnapshot, RoundShape
  <2>4. getAllSubmittedAndRunningJobsByHPCID \subseteq Jobs
    BY DEF getAllSubmittedAndRunningJobsByHPCID
  <2> QED BY <1>0, <1>5, <2>2, <2>3, <2>4 DEF RoundShape, Held, PollEnqueue
<1>6. CASE PollList(b)
  <2>1. PICK listing :
           poller' = [poller EXCEPT ![b] = [poller[b] EXCEPT !.pc = "jobs", !.listing = listing]]
    BY <1>0, <1>6 DEF PollList
  <2>2. /\ poller'[b].pc = "jobs" /\ poller'[b].job = poller[b].job
        /\ poller'[b].todo = poller[b].todo
    BY <1>0, <2>1 DEF PollerRecord
  <2>3. poller[b].pc = "list"
    BY <1>6 DEF PollList
  <2> QED BY <2>2, <2>3 DEF RoundShape, Held, PollEnqueue
<1>7. ASSUME NEW j \in Jobs, PollRead(b, j) PROVE Goal
  <2>1. poller' = [poller EXCEPT ![b] = [poller[b] EXCEPT
                      !.pc = "update", !.todo = @ \ {j}, !.job = j, !.old = jobs[j].state,
                      !.new = StateOf(poller[b].listing[j])]]
    BY <1>0, <1>7 DEF PollRead
  <2>2. /\ poller'[b].pc = "update" /\ poller'[b].job = j
        /\ poller'[b].todo = poller[b].todo \ {j}
    BY <1>0, <2>1 DEF PollerRecord
  <2>3. poller[b].pc = "jobs" /\ j \in poller[b].todo
    BY <1>7 DEF PollRead
  <2> QED BY <2>2, <2>3 DEF RoundShape, Held
<1>8. CASE PollUpdate(b)
  <2>1. poller[b].pc = "update"
    BY <1>8 DEF PollUpdate
  <2>2. \/ poller' = [poller EXCEPT ![b].pc = "announce"]
        \/ poller' = [poller EXCEPT ![b].pc = "enqueue"]
        \/ Goal
    BY <1>4, <1>8 DEF PollUpdate
  <2> QED BY <1>3, <1>8, <2>1, <2>2 DEF PollEnqueue
<1>9. CASE PollAnnounce(b)
  <2>1. poller[b].pc = "announce" /\ UNCHANGED jobs
    BY <1>9 DEF PollAnnounce, dbVars
  <2>2. Goal \/ poller' = [poller EXCEPT ![b].pc = "enqueue"]
    BY <1>4, <1>9 DEF PollAnnounce
  <2> QED BY <1>3, <2>1, <2>2 DEF PollEnqueue
<1>10. CASE PollEnqueue(b)
  BY <1>2, <1>10 DEF PollEnqueue
<1>11. CASE PollThrow(b)
  BY <1>1, <1>11 DEF PollThrow, PollEnqueue
<1>12. ~PollLoseAnswer(b)
  BY DEF PollLoseAnswer
<1> QED BY <1>5, <1>6, <1>7, <1>8, <1>9, <1>10, <1>11, <1>12
        DEF PollerActs, PollerStep, PollEnqueue, PollRead

(* A job comes to a state on the HPC center by the last step of its        *)
(* submission or by a round that holds it.                                 *)
LEMMA HpcStatesWritten ==
    ASSUME TypeOK, ItemsFit, ~AnswersMayBeLost, [Next]_vars, NEW j \in Jobs,
           jobs'[j].state \in WSDJobStateInHPCQueue .. WSDJobStateSuspended,
           jobs'[j].state # jobs[j].state
    PROVE  \/ \E w \in Workers : WorkerActs(w) /\ SubmitRecord(w) /\ JobOf(w) = j
           \/ \E b \in Pollers : PollerActs(b) /\ PollUpdate(b) /\ poller[b].job = j
<1>0. DatabaseTypeOK
  BY DEF TypeOK, SchedulerTypeOK
<1>1. ~UNCHANGED jobs
  OBVIOUS
<1>2. \A s \in {WSDJobStateError, WSDJobStateDeleted, WSDJobStateInServiceQueue,
                WSDJobOutputStateTransferring, WSDJobOutputStateTransferDone} :
         s \notin WSDJobStateInHPCQueue .. WSDJobStateSuspended
  BY DEF WSDJobStateError, WSDJobStateDeleted, WSDJobStateInServiceQueue,
         WSDJobOutputStateTransferring, WSDJobOutputStateTransferDone, WSDJobStateInHPCQueue,
         WSDJobStateSuspended
<1>3. ASSUME NEW k, NEW s, setJobState(k, s)
      PROVE  k = j /\ s \in WSDJobStateInHPCQueue .. WSDJobStateSuspended
  BY <1>0, <1>3, SetsOneJob
<1>4. ASSUME NEW w \in Workers, WorkerActs(w) PROVE SubmitRecord(w) /\ JobOf(w) = j
  <2>1. CASE \/ TakeWork(w) \/ Announce(w) \/ Upload(w) \/ SubmitMkdir(w) \/ SubmitUnzip(w)
             \/ SubmitQsub(w) \/ CheckRead(w) \/ DeleteQdel(w) \/ DeleteRm(w) \/ PackageRm(w)
    <3>1. UNCHANGED jobs
      BY <2>1 DEF TakeWork, Announce, Upload, UploadRunning, UploadFolder, UploadMkdir,
         UploadTransferring, UploadTransfer, UploadDone, updatePackageState, setPackageFolder,
         SubmitMkdir, SubmitUnzip, SubmitQsub, CheckRead, DeleteQdel, DeleteRm, PackageRm,
         dbVars, sharedVars
    <3> QED BY <1>1, <3>1
  <2>2. CASE CheckTransferring(w) \/ CheckFinish(w) \/ DeleteMark(w) \/ Throw(w)
    <3>1. \/ UNCHANGED jobs
          \/ \E s \in {WSDJobStateError, WSDJobStateDeleted, WSDJobOutputStateTransferring,
                       WSDJobOutputStateTransferDone} : setJobState(JobOf(w), s)
      BY <2>2 DEF CheckTransferring, CheckFinish, DeleteMark, deleteJobByID, Throw, RecordError,
         updatePackageError, updatePackageState, setJobErrorByID, setJobFailedByID,
         setJobDoneByID, dbVars
    <3> QED BY <1>1, <1>2, <1>3, <3>1
  <2>3. CASE SubmitRecord(w)
    <3>1. \A k \in Jobs : k # JobOf(w) => jobs'[k].state = jobs[k].state
      BY <1>0, <2>3, SetsOneJob DEF SubmitRecord
    <3> QED BY <2>3, <3>1
  <2>4. ~LoseAnswer(w)
    BY DEF LoseAnswer
  <2> QED BY <1>4, <2>1, <2>2, <2>3, <2>4 DEF WorkerActs, WorkerStep, Submit, Check, Delete
<1>5. ASSUME NEW b \in Pollers, PollerActs(b) PROVE PollUpdate(b) /\ poller[b].job = j
  <2>1. PollUpdate(b)
    BY <1>1, <1>5 DEF PollerActs, PollerStep, PollSnapshot, PollList, PollRead, PollAnnounce,
                PollEnqueue, PollThrow, PollLoseAnswer, sharedVars, dbVars
  <2>2. setJobState(poller[b].job, poller[b].new)
    BY <2>1 DEF PollUpdate
  <2> QED BY <1>3, <2>1, <2>2
<1>6. ASSUME NEW c \in Clients, ClientActs(c) PROVE FALSE
  <2>1. ASSUME NEW k \in Jobs, createJob(k, PackageIn(c)) PROVE FALSE
    <3>1. \A i \in Jobs : jobs'[i].state = IF i = k THEN WSDJobStateInServiceQueue
                                                   ELSE jobs[i].state
      BY <1>0, <2>1 DEF createJob, DatabaseTypeOK
    <3> QED BY <1>2, <3>1
  <2>2. CASE setJobsDeleted(PackageIn(c))
    <3>1. jobs'[j].state \in {WSDJobStateDeleted, jobs[j].state}
      BY <1>0, <2>2 DEF setJobsDeleted, DatabaseTypeOK, JobRecord
    <3> QED BY <1>2, <3>1
  <2>3. CASE ~SubmitJobCreate(c) /\ ~DeletePackageJobs(c)
    BY <1>1, <1>6, <2>3 DEF ClientActs, ClientStep, Enqueue, UploadPackage, createPackage,
       SubmitJob, DeleteJob, DeletePackage, DeletePackageCheckState, DeletePackageRefuseState,
       DeletePackageCheckJobs, DeletePackageRow, setPackageDeleted, updatePackageState,
       RequestFails, RequestLosesAnswer, sharedVars, dbVars
  <2> QED BY <2>1, <2>2, <2>3 DEF SubmitJobCreate, DeletePackageJobs
<1>7. ASSUME NEW k \in Jobs, HpcActs(k) PROVE FALSE
  BY <1>1, <1>7 DEF HpcActs, dbVars
<1>8. ~Crash /\ ~UNCHANGED vars
  BY <1>1 DEF Crash, dbVars, vars
<1> QED BY <1>4, <1>5, <1>6, <1>7, <1>8 DEF Next

(* The job moves from the request that makes it to the queue, from the     *)
(* queue to a worker, and from a round to the queue, or out of the hands   *)
(* it was in; it is taken up as the request makes it and, in a state on    *)
(* the HPC center, by a round.                                             *)
HandStays(j)   == /\ AtMostOne(QueuedHandlers(j)')
                  /\ (QueuedHandlers(j)' # {} => QueuedHandlers(j) # {})
                  /\ BusyHandlers(j)' \subseteq BusyHandlers(j)
                  /\ RoundHandlers(j)' \subseteq RoundHandlers(j)
                  /\ RequestHandlers(j)' \subseteq RequestHandlers(j)
HandTaken(j)   == /\ QueuedHandlers(j) # {} /\ QueuedHandlers(j)' = {}
                  /\ AtMostOne(BusyHandlers(j)')
                  /\ RoundHandlers(j)' \subseteq RoundHandlers(j)
                  /\ RequestHandlers(j)' \subseteq RequestHandlers(j)
HandQueued(j)  == /\ RequestHandlers(j) # {} /\ RequestHandlers(j)' = {}
                  /\ AtMostOne(QueuedHandlers(j)')
                  /\ BusyHandlers(j)' \subseteq BusyHandlers(j)
                  /\ RoundHandlers(j)' \subseteq RoundHandlers(j)
HandChecked(j) == /\ RoundHandlers(j) # {} /\ RoundHandlers(j)' = {}
                  /\ AtMostOne(QueuedHandlers(j)')
                  /\ BusyHandlers(j)' \subseteq BusyHandlers(j)
                  /\ RequestHandlers(j)' \subseteq RequestHandlers(j)
                  /\ jobs[j].state \notin WSDJobStateInHPCQueue .. WSDJobStateSuspended
HandMade(j)    == /\ jobs[j].state = NoRecord /\ jobs'[j].state = WSDJobStateInServiceQueue
                  /\ (QueuedHandlers(j)' # {} => QueuedHandlers(j) # {})
                  /\ BusyHandlers(j)' \subseteq BusyHandlers(j)
                  /\ RoundHandlers(j)' \subseteq RoundHandlers(j)
                  /\ AtMostOne(RequestHandlers(j)')
HandListed(j)  == /\ jobs[j].state \in WSDJobStateInHPCQueue .. WSDJobStateSuspended
                  /\ (QueuedHandlers(j)' # {} => QueuedHandlers(j) # {})
                  /\ BusyHandlers(j)' \subseteq BusyHandlers(j)
                  /\ RequestHandlers(j)' \subseteq RequestHandlers(j)
HandMoves(j)   == \/ HandStays(j) \/ HandTaken(j) \/ HandQueued(j) \/ HandChecked(j)
                  \/ HandMade(j) \/ HandListed(j)

(* A worker that takes an item, or goes on with one.                       *)
LEMMA WorkersHandOn ==
    ASSUME TypeOK, NEW w \in Workers, WorkerActs(w), NEW j \in Jobs, OneHand(j)
    PROVE  HandMoves(j)
<1>1. /\ UNCHANGED <<poller, client>> /\ \A v \in Workers \ {w} : worker'[v] = worker[v]
      /\ TakeWork(w) \/ (UNCHANGED hpcworkqueue /\ GoesOn(w))
  BY WorkersGoOn
<1>2. RoundHandlers(j)' = RoundHandlers(j) /\ RequestHandlers(j)' = RequestHandlers(j)
  BY <1>1 DEF RoundHandlers, RequestHandlers
<1>3. BusyHandlers(j)' \ {w} \subseteq BusyHandlers(j)
  BY <1>1 DEF BusyHandlers
<1>4. CASE ~TakeWork(w)
  <2>1. QueuedHandlers(j)' = QueuedHandlers(j)
    BY <1>1, <1>4 DEF QueuedHandlers
  <2>2. w \in BusyHandlers(j)' => w \in BusyHandlers(j)
    BY <1>1, <1>4, IdleStaysIdle DEF BusyHandlers, GoesOn
  <2> QED BY <1>2, <1>3, <2>1, <2>2 DEF OneHand, HandMoves, HandStays
<1>5. CASE TakeWork(w)
  <2>1. /\ removeHPCWork /\ hpcworkqueue \in Seq(WSHPCWork)
        /\ worker'[w].item = Head(hpcworkqueue)
    BY <1>5, TakenItem DEF TypeOK, SchedulerTypeOK
  <2>2. AtMostOne(QueuedHandlers(j))
    BY DEF OneHand
  <2>3. /\ AtMostOne(QueuedHandlers(j)')
        /\ QueuedHandlers(j)' # {} => QueuedHandlers(j) # {}
        /\ Handles(Head(hpcworkqueue), j) =>
              QueuedHandlers(j) # {} /\ QueuedHandlers(j)' = {}
    BY <2>1, <2>2, QueueShrinks
  <2>4. CASE Handles(Head(hpcworkqueue), j)
    <3>1. BusyHandlers(j) = {}
      BY <2>3, <2>4 DEF OneHand
    <3>2. AtMostOne(BusyHandlers(j)')
      BY <1>3, <3>1 DEF AtMostOne
    <3> QED BY <1>2, <2>3, <2>4, <3>2 DEF HandMoves, HandTaken
  <2>5. CASE ~Handles(Head(hpcworkqueue), j)
    <3>1. w \notin BusyHandlers(j)'
      BY <2>1, <2>5 DEF BusyHandlers, Handles
    <3> QED BY <1>2, <1>3, <2>3, <3>1 DEF HandMoves, HandStays
  <2> QED BY <2>4, <2>5
<1> QED BY <1>4, <1>5

(* A step of the one background thread.                                    *)
LEMMA RoundsHandOn ==
    ASSUME TypeOK, CompletionInv, HandsInv, AtMostOne(Pollers), ~AnswersMayBeLost,
           NEW b \in Pollers, PollerActs(b), NEW j \in Jobs
    PROVE  HandMoves(j)
<1>0. OneHand(j) /\ RoundShape(b) /\ RoundIsSound(b) /\ \A d \in Pollers : d = b
  BY DEF HandsInv, RoundHolds, RoundShape, CompletionInv, RoundsAreSound, AtMostOne
<1>1. UNCHANGED <<worker, client>>
  BY DEF PollerActs
<1>2. BusyHandlers(j)' = BusyHandlers(j) /\ RequestHandlers(j)' = RequestHandlers(j)
  BY <1>1 DEF BusyHandlers, RequestHandlers
<1>3. j # NoJob
  BY SchedulerAssumption
<1>4. \A d \in Pollers : d \in RoundHandlers(j) <=> j \in Held(b)
  BY <1>0 DEF RoundHandlers, Held
<1>5. \A d \in Pollers : d \in RoundHandlers(j)' <=> j \in Held(b)'
  BY <1>0 DEF RoundHandlers, Held
<1>6. RoundHandlers(j) \subseteq Pollers /\ RoundHandlers(j)' \subseteq Pollers
  BY DEF RoundHandlers
<1>7. CASE PollEnqueue(b)
  <2> DEFINE item == Work("check", poller[b].job, jobs[poller[b].job].package)
  <2>1. poller[b].job \in Jobs
    BY <1>0, <1>7 DEF PollEnqueue, RoundIsSound
  <2>2. item \in WSHPCWork
    <3>1. jobs[poller[b].job].package \in Packages \cup {NoPackage}
      BY <2>1 DEF TypeOK, SchedulerTypeOK, DatabaseTypeOK, JobRecord
    <3> QED BY <2>1, <3>1, WorkTyped DEF WorkType
  <2>3. Handles(item, j) <=> poller[b].job = j
    BY DEF Work, Handles
  <2> HIDE DEF item
  <2>4. addHPCWork(item) /\ hpcworkqueue \in Seq(WSHPCWork)
    BY <1>7 DEF PollEnqueue, item, TypeOK, SchedulerTypeOK
  <2>5. Held(b)' \subseteq Held(b) \cup {NoJob} /\ poller[b].job \notin Held(b)'
    <3>1. ~PollSnapshot(b) /\ poller[b].job # NoJob
      BY <1>7, <2>1, SchedulerAssumption DEF PollEnqueue, PollSnapshot
    <3> QED BY <1>0, <1>7, <3>1, RoundSteps
  <2>6. RoundHandlers(j)' \subseteq RoundHandlers(j)
    BY <1>3, <1>4, <1>5, <1>6, <2>5
  <2>7. CASE poller[b].job = j
    <3>1. RoundHandlers(j) # {} /\ RoundHandlers(j)' = {}
      BY <1>4, <1>5, <1>6, <2>5, <2>7 DEF Held
    <3>2. jobs[j].state \notin WSDJobStateInHPCQueue .. WSDJobStateSuspended
      BY <1>0, <1>7, <2>7 DEF HandsInv, RoundHolds, RoundIsSound, PollEnqueue
    <3>3. QueuedHandlers(j) = {}
      BY <1>0, <3>1 DEF OneHand
    <3>4. QueuedHandlers(j)' = {Len(hpcworkqueue) + 1}
      BY <2>2, <2>3, <2>4, <2>7, <3>3, QueueGrows
    <3> QED BY <1>2, <3>1, <3>2, <3>4 DEF HandMoves, HandChecked, AtMostOne
  <2>8. CASE poller[b].job # j
    <3>1. QueuedHandlers(j)' = QueuedHandlers(j)
      BY <2>2, <2>3, <2>4, <2>8, QueueGrows
    <3> QED BY <1>0, <1>2, <2>6, <3>1 DEF HandMoves, HandStays, OneHand
  <2> QED BY <2>7, <2>8
<1>8. CASE ~PollEnqueue(b)
  <2>1. UNCHANGED hpcworkqueue
    BY <1>8 DEF PollerActs, PollerStep, PollSnapshot, PollList, PollRead, PollUpdate,
                PollAnnounce, PollThrow, PollLoseAnswer, sharedVars
  <2>2. QueuedHandlers(j)' = QueuedHandlers(j)
    BY <2>1 DEF QueuedHandlers
  <2>3. CASE Held(b)' \subseteq Held(b) \cup {NoJob}
    <3>1. RoundHandlers(j)' \subseteq RoundHandlers(j)
      BY <1>3, <1>4, <1>5, <1>6, <2>3
    <3> QED BY <1>0, <1>2, <2>2, <3>1 DEF HandMoves, HandStays, OneHand
  <2>4. CASE Held(b)' = getAllSubmittedAndRunningJobsByHPCID \cup {NoJob}
    <3>1. CASE j \in getAllSubmittedAndRunningJobsByHPCID
      <4>1. jobs[j].state \in WSDJobStateInHPCQueue .. WSDJobStateSuspended
        BY <3>1 DEF getAllSubmittedAndRunningJobsByHPCID, WSDJobStateInHPCQueue,
           WSDJobStateRunning, WSDJobStateHeld, WSDJobStateMoved, WSDJobStateWaiting,
           WSDJobStateSuspended
      <4> QED BY <1>2, <2>2, <4>1 DEF HandMoves, HandListed
    <3>2. CASE j \notin getAllSubmittedAndRunningJobsByHPCID
      <4>1. RoundHandlers(j)' = {}
        BY <1>3, <1>5, <1>6, <2>4, <3>2
      <4> QED BY <1>0, <1>2, <2>2, <4>1 DEF HandMoves, HandStays, OneHand
    <3> QED BY <3>1, <3>2
  <2> QED BY <1>0, <2>3, <2>4, RoundSteps
<1> QED BY <1>7, <1>8

(* A step of a request.                                                    *)
LEMMA RequestsHandOn ==
    ASSUME TypeOK, ItemsFit, NEW c \in Clients, ClientActs(c), NEW j \in Jobs, OneHand(j)
    PROVE  HandMoves(j)
<1>1. UNCHANGED <<worker, poller>> /\ hpcworkqueue \in Seq(WSHPCWork)
  BY DEF ClientActs, TypeOK, SchedulerTypeOK
<1>2. BusyHandlers(j)' = BusyHandlers(j) /\ RoundHandlers(j)' = RoundHandlers(j)
  BY <1>1 DEF BusyHandlers, RoundHandlers
<1>3. RequestHandlers(j)' \ {c} \subseteq RequestHandlers(j)
  BY RequestsGoOn DEF RequestHandlers
<1>4. CASE Enqueue(c)
  <2>1. addHPCWork(client[c].item) /\ client[c].item \in WSHPCWork
    BY <1>4 DEF Enqueue, TypeOK, PagesTypeOK, ClientRecord
  <2>2. RequestHandlers(j)' \subseteq RequestHandlers(j) \ {c}
    <3>1. client'[c] = NoRequest
      BY <1>4 DEF Enqueue, TypeOK, PagesTypeOK
    <3>2. c \notin RequestHandlers(j)'
      BY <3>1 DEF RequestHandlers, Handles, NoRequest, Work
    <3> QED BY <1>3, <3>2
  <2>3. CASE Handles(client[c].item, j)
    <3>1. c \in RequestHandlers(j)
      BY <2>3 DEF RequestHandlers
    <3>2. RequestHandlers(j)' = {} /\ QueuedHandlers(j) = {}
      BY <2>2, <3>1 DEF OneHand, AtMostOne
    <3>3. QueuedHandlers(j)' = {Len(hpcworkqueue) + 1}
      BY <1>1, <2>1, <2>3, <3>2, QueueGrows
    <3> QED BY <1>2, <3>1, <3>2, <3>3 DEF HandMoves, HandQueued, AtMostOne
  <2>4. CASE ~Handles(client[c].item, j)
    <3>1. QueuedHandlers(j)' = QueuedHandlers(j)
      BY <1>1, <2>1, <2>4, QueueGrows
    <3> QED BY <1>2, <2>2, <3>1 DEF HandMoves, HandStays, OneHand
  <2> QED BY <2>3, <2>4
<1>5. CASE ~Enqueue(c)
  <2>1. UNCHANGED hpcworkqueue
    BY <1>5 DEF ClientActs, ClientStep, UploadPackage, SubmitJob, SubmitJobCreate, DeleteJob,
           DeletePackage, DeletePackageCheckState, DeletePackageRefuseState,
           DeletePackageCheckJobs, DeletePackageJobs, DeletePackageRow, RequestFails,
           RequestLosesAnswer, sharedVars
  <2>2. QueuedHandlers(j)' = QueuedHandlers(j)
    BY <2>1 DEF QueuedHandlers
  <2>3. CASE c \notin RequestHandlers(j)'
    BY <1>2, <1>3, <2>2, <2>3 DEF HandMoves, HandStays, OneHand
  <2>4. CASE c \in RequestHandlers(j)'
    <3>1. client'[c].item.jobtype \in {"submit", "check"} /\ client'[c].item.job = j
      BY <2>4 DEF RequestHandlers, Handles
    <3>2. j # NoJob
      BY SchedulerAssumption
    <3>3. createJob(j, PackageIn(c))
      BY <3>1, <3>2, RequestsGoOn
    <3>4. jobs[j].state = NoRecord /\ jobs'[j].state = WSDJobStateInServiceQueue
      BY <3>3 DEF createJob, TypeOK, SchedulerTypeOK, DatabaseTypeOK
    <3>5. RequestHandlers(j) = {}
      BY <3>4 DEF OneHand
    <3>6. AtMostOne(RequestHandlers(j)')
      BY <1>3, <3>5 DEF AtMostOne
    <3> QED BY <1>2, <2>2, <3>4, <3>6 DEF HandMoves, HandMade
  <2> QED BY <2>3, <2>4
<1> QED BY <1>4, <1>5

(* So every step hands a job on; a crash drops it.                         *)
LEMMA StepHandsOn ==
    ASSUME TypeOK, CompletionInv, HandsInv, AtMostOne(Pollers), ~AnswersMayBeLost,
           [Next]_vars, NEW j \in Jobs
    PROVE  HandMoves(j)
<1>1. OneHand(j) /\ ItemsFit
  BY DEF HandsInv, CompletionInv
<1>2. CASE UNCHANGED <<hpcworkqueue, worker, poller, client>>
  BY <1>1, <1>2 DEF HandMoves, HandStays, OneHand, QueuedHandlers, BusyHandlers, RoundHandlers,
                    RequestHandlers
<1>3. CASE Crash
  <2>1. QueuedHandlers(j)' = {}
    BY <1>3 DEF Crash, QueuedHandlers
  <2>2. BusyHandlers(j)' = {}
    BY <1>3 DEF Crash, BusyHandlers, Idle
  <2>3. RoundHandlers(j)' = {}
    BY <1>3, SchedulerAssumption DEF Crash, RoundHandlers, Asleep
  <2>4. RequestHandlers(j)' = {}
    BY <1>3 DEF Crash, RequestHandlers, NoRequest, Handles, Work
  <2> QED BY <2>1, <2>2, <2>3, <2>4 DEF HandMoves, HandStays, AtMostOne
<1>4. CASE \E w \in Workers : WorkerActs(w)
  BY <1>1, <1>4, WorkersHandOn
<1>5. CASE \E b \in Pollers : PollerActs(b)
  BY <1>5, RoundsHandOn
<1>6. CASE \E c \in Clients : ClientActs(c)
  BY <1>1, <1>6, RequestsHandOn
<1>7. CASE \E i \in Jobs : HpcActs(i)
  BY <1>2, <1>7 DEF HpcActs, threadVars
<1>8. CASE UNCHANGED vars
  BY <1>2, <1>8 DEF vars
<1> QED BY <1>3, <1>4, <1>5, <1>6, <1>7, <1>8 DEF Next

(* The last step of a submission leaves the job in nobody's hands.         *)
LEMMA SubmissionEnds ==
    ASSUME TypeOK, ItemsFit, NEW w \in Workers, WorkerActs(w), SubmitRecord(w),
           NEW j \in Jobs, JobOf(w) = j, OneHand(j)
    PROVE  QueuedHandlers(j)' \cup BusyHandlers(j)' \cup RequestHandlers(j)' = {}
<1>1. worker[w].pc = "s_record" /\ worker[w].item.jobtype = "submit"
  BY DEF SubmitRecord, At, ItemsFit
<1>2. w \in BusyHandlers(j)
  BY <1>1 DEF BusyHandlers, Handles, JobOf
<1>3. QueuedHandlers(j) = {} /\ RequestHandlers(j) = {} /\ BusyHandlers(j) = {w}
  BY <1>2 DEF OneHand, AtMostOne
<1>4. worker'[w].pc = "idle" /\ UNCHANGED <<hpcworkqueue, client>>
  BY DEF SubmitRecord, FinishAndAnnounce, Finish, GotoAndAnnounce, Idle, TypeOK, WorkerTypeOK,
         WorkerActs
<1>5. \A v \in Workers \ {w} : worker'[v] = worker[v]
  BY WorkersGoOn
<1>6. BusyHandlers(j)' \subseteq BusyHandlers(j) \ {w}
  BY <1>4, <1>5 DEF BusyHandlers
<1>7. QueuedHandlers(j)' = QueuedHandlers(j) /\ RequestHandlers(j)' = RequestHandlers(j)
  BY <1>4 DEF QueuedHandlers, RequestHandlers
<1> QED BY <1>3, <1>6, <1>7

(* A job stays in one pair of hands, on the HPC center in a round's at     *)
(* most.                                                                   *)
LEMMA StepKeepsHand ==
    ASSUME TypeOK, CompletionInv, HandsInv, AtMostOne(Pollers), ~AnswersMayBeLost,
           [Next]_vars, NEW j \in Jobs
    PROVE  OneHand(j)'
<1> DEFINE Others == QueuedHandlers(j) \cup BusyHandlers(j) \cup RequestHandlers(j)
           Apart == /\ AtMostOne(QueuedHandlers(j)) /\ AtMostOne(BusyHandlers(j))
                    /\ AtMostOne(RoundHandlers(j)) /\ AtMostOne(RequestHandlers(j))
                    /\ QueuedHandlers(j) # {} =>
                          BusyHandlers(j) \cup RoundHandlers(j) \cup RequestHandlers(j) = {}
                    /\ BusyHandlers(j) # {} => RoundHandlers(j) \cup RequestHandlers(j) = {}
                    /\ RoundHandlers(j) # {} => RequestHandlers(j) = {}
           OnCenter(s) == s \in WSDJobStateInHPCQueue .. WSDJobStateSuspended
<1>0. OneHand(j) /\ ItemsFit
  BY DEF HandsInv, CompletionInv
<1>1. /\ Apart
      /\ jobs[j].state = NoRecord => Others = {} /\ RoundHandlers(j) = {}
      /\ OnCenter(jobs[j].state) => Others = {}
  BY <1>0 DEF OneHand
<1>2. HandMoves(j)
  BY StepHandsOn
<1>3. AtMostOne(RoundHandlers(j)')
  BY DEF RoundHandlers, AtMostOne
<1>4. /\ ~OnCenter(NoRecord) /\ ~OnCenter(WSDJobStateInServiceQueue)
      /\ WSDJobStateInServiceQueue # NoRecord
  BY DEF NoRecord, WSDJobStateInServiceQueue, WSDJobStateInHPCQueue, WSDJobStateSuspended
<1>5. jobs'[j].state = NoRecord => jobs[j].state = NoRecord
  <2>1. JobMoves
    BY StepMovesJobs DEF CompletionInv
  <2> QED BY <2>1 DEF JobMoves, NoRecord, WSDJobStateError, WSDJobStateDeleted,
         WSDJobStateInServiceQueue, WSDJobStateInHPCQueue, WSDJobStateSuspended,
         WSDJobStateCompletedInHPC, WSDJobOutputStateTransferring, WSDJobOutputStateTransferDone
<1>6. OnCenter(jobs'[j].state) /\ jobs'[j].state # jobs[j].state => Others' = {}
  <2> SUFFICES ASSUME OnCenter(jobs'[j].state), jobs'[j].state # jobs[j].state
               PROVE  Others' = {}
    OBVIOUS
  <2>1. CASE \E w \in Workers : WorkerActs(w) /\ SubmitRecord(w) /\ JobOf(w) = j
    BY <1>0, <2>1, SubmissionEnds
  <2>2. ASSUME NEW b \in Pollers, PollerActs(b), PollUpdate(b), poller[b].job = j
        PROVE  Others' = {}
    <3>1. b \in RoundHandlers(j)
      BY <2>2 DEF RoundHandlers
    <3>2. Others = {}
      BY <1>1, <3>1
    <3>3. UNCHANGED <<hpcworkqueue, worker, client>>
      BY <2>2 DEF PollerActs, PollUpdate
    <3> QED BY <3>2, <3>3 DEF QueuedHandlers, BusyHandlers, RequestHandlers
  <2> QED BY <1>0, <2>1, <2>2, HpcStatesWritten
<1> HIDE DEF OnCenter
<1>7. CASE HandStays(j)
  <2>1. Apart'
    BY <1>1, <1>3, <1>7 DEF HandStays, AtMostOne
  <2>2. jobs'[j].state = NoRecord => Others' = {} /\ RoundHandlers(j)' = {}
    BY <1>1, <1>5, <1>7 DEF HandStays
  <2>3. OnCenter(jobs'[j].state) => Others' = {}
    BY <1>1, <1>6, <1>7 DEF HandStays
  <2> QED BY <2>1, <2>2, <2>3 DEF OneHand, OnCenter
<1>8. CASE HandTaken(j)
  <2>1. Apart'
    BY <1>1, <1>3, <1>8 DEF HandTaken, AtMostOne
  <2>2. jobs[j].state # NoRecord /\ ~OnCenter(jobs[j].state)
    BY <1>1, <1>8 DEF HandTaken
  <2> QED BY <1>5, <1>6, <2>1, <2>2 DEF OneHand, OnCenter
<1>9. CASE HandQueued(j)
  <2>1. Apart'
    BY <1>1, <1>3, <1>9 DEF HandQueued, AtMostOne
  <2>2. jobs[j].state # NoRecord /\ ~OnCenter(jobs[j].state)
    BY <1>1, <1>9 DEF HandQueued
  <2> QED BY <1>5, <1>6, <2>1, <2>2 DEF OneHand, OnCenter
<1>10. CASE HandChecked(j)
  <2>1. Apart'
    BY <1>1, <1>3, <1>10 DEF HandChecked, AtMostOne
  <2>2. jobs[j].state # NoRecord /\ ~OnCenter(jobs[j].state)
    BY <1>1, <1>10 DEF HandChecked, OnCenter
  <2> QED BY <1>5, <1>6, <2>1, <2>2 DEF OneHand, OnCenter
<1>11. CASE HandMade(j)
  <2>1. Apart'
    BY <1>1, <1>3, <1>11 DEF HandMade, AtMostOne
  <2>2. jobs'[j].state # NoRecord /\ ~OnCenter(jobs'[j].state)
    BY <1>4, <1>11 DEF HandMade
  <2> QED BY <2>1, <2>2 DEF OneHand, OnCenter
<1>12. CASE HandListed(j)
  <2>1. Others' = {}
    BY <1>1, <1>12 DEF HandListed, OnCenter
  <2>2. Apart'
    BY <1>3, <2>1 DEF AtMostOne
  <2>3. jobs'[j].state # NoRecord
    BY <1>4, <1>5, <1>12 DEF HandListed, OnCenter
  <2> QED BY <2>1, <2>2, <2>3 DEF OneHand, OnCenter
<1> QED BY <1>2, <1>7, <1>8, <1>9, <1>10, <1>11, <1>12 DEF HandMoves

(* And what a round has written as completed is not taken back.            *)
LEMMA StepKeepsRound ==
    ASSUME TypeOK, CompletionInv, HandsInv, AtMostOne(Pollers), ~AnswersMayBeLost,
           [Next]_vars, NEW b \in Pollers
    PROVE  RoundHolds(b)'
<1> DEFINE OnCenter(s) == s \in WSDJobStateInHPCQueue .. WSDJobStateSuspended
           Written == poller[b].pc \in {"announce", "enqueue"}
                      /\ poller[b].new = WSDJobStateCompletedInHPC
                         => ~OnCenter(jobs[poller[b].job].state)
<1>0. /\ RoundShape(b) /\ Written /\ RoundIsSound(b) /\ ItemsFit
      /\ \A d \in Pollers : d = b
  BY DEF HandsInv, RoundHolds, RoundShape, CompletionInv, RoundsAreSound, AtMostOne
<1>1. RoundHolds(b)' <=> RoundShape(b)' /\ Written'
  BY DEF RoundHolds, RoundShape
<1>2. CASE PollerActs(b)
  <2>1. /\ RoundShape(b)'
        /\ poller'[b].pc \in {"announce", "enqueue"} =>
              /\ poller'[b].job = poller[b].job /\ poller'[b].new = poller[b].new
              /\ PollUpdate(b) \/ (poller[b].pc = "announce" /\ UNCHANGED jobs)
    BY <1>0, <1>2, RoundSteps
  <2>2. CASE PollUpdate(b)
    <3>1. poller[b].job \in Jobs /\ setJobState(poller[b].job, poller[b].new)
      BY <1>0, <2>2 DEF PollUpdate, RoundIsSound
    <3>2. jobs'[poller[b].job].state = poller[b].new
      BY <3>1, SetsOneJob DEF TypeOK, SchedulerTypeOK
    <3>3. ~OnCenter(WSDJobStateCompletedInHPC)
      BY DEF WSDJobStateCompletedInHPC, WSDJobStateInHPCQueue, WSDJobStateSuspended
    <3> QED BY <1>1, <2>1, <3>2, <3>3
  <2>3. CASE ~PollUpdate(b)
    BY <1>0, <1>1, <2>1, <2>3
  <2> QED BY <2>2, <2>3
<1>3. CASE Crash
  <2>1. poller'[b] = Asleep
    BY <1>3 DEF Crash
  <2> QED BY <2>1 DEF RoundHolds, Asleep
<1>4. CASE ~PollerActs(b) /\ ~Crash
  <2>1. UNCHANGED poller
    BY <1>0, <1>4 DEF Next, vars, WorkerActs, ClientActs, HpcActs, threadVars
  <2>2. RoundShape(b)'
    BY <1>0, <2>1 DEF RoundShape
  <2>3. ASSUME poller[b].pc \in {"announce", "enqueue"},
               poller[b].new = WSDJobStateCompletedInHPC, OnCenter(jobs'[poller[b].job].state)
        PROVE  FALSE
    <3> DEFINE j == poller[b].job
    <3>1. j \in Jobs /\ OneHand(j)
      BY <1>0, <2>3 DEF RoundIsSound, HandsInv
    <3>2. b \in RoundHandlers(j)
      BY DEF RoundHandlers
    <3>3. BusyHandlers(j) = {}
      BY <3>1, <3>2 DEF OneHand
    <3>4. jobs'[j].state # jobs[j].state
      BY <1>0, <2>3
    <3>5. PICK w \in Workers : WorkerActs(w) /\ SubmitRecord(w) /\ JobOf(w) = j
      <4>1. \A d \in Pollers : ~PollerActs(d)
        BY <1>0, <1>4
      <4> HIDE DEF j
      <4>2. jobs'[j].state \in WSDJobStateInHPCQueue .. WSDJobStateSuspended
        BY <2>3 DEF j
      <4> QED BY <1>0, <3>1, <3>4, <4>1, <4>2, HpcStatesWritten
    <3>6. w \in BusyHandlers(j)
      BY <1>0, <3>5 DEF SubmitRecord, At, ItemsFit, BusyHandlers, Handles, JobOf
    <3> QED BY <3>3, <3>6
  <2> QED BY <1>1, <2>1, <2>2, <2>3
<1> QED BY <1>2, <1>3, <1>4

(* Nobody holds a job at the start.                                        *)
LEMMA InitHands == Init => HandsInv
<1> SUFFICES ASSUME Init PROVE HandsInv
  OBVIOUS
<1>1. /\ hpcworkqueue = <<>>
      /\ \A w \in Workers : worker[w] = Idle
      /\ \A b \in Pollers : poller[b] = Asleep
      /\ \A c \in Clients : client[c] = NoRequest
  BY DEF Init, SchedulerInit, WorkerInit, PollerInit, PagesInit
<1>2. ASSUME NEW j \in Jobs PROVE OneHand(j)
  <2>1. QueuedHandlers(j) = {}
    BY <1>1 DEF QueuedHandlers
  <2>2. BusyHandlers(j) = {}
    BY <1>1 DEF BusyHandlers, Idle
  <2>3. RoundHandlers(j) = {}
    BY <1>1, SchedulerAssumption DEF RoundHandlers, Asleep
  <2>4. RequestHandlers(j) = {}
    BY <1>1 DEF RequestHandlers, NoRequest, Handles, Work
  <2> QED BY <2>1, <2>2, <2>3, <2>4 DEF OneHand, AtMostOne
<1>3. ASSUME NEW b \in Pollers PROVE RoundHolds(b)
  BY <1>1, <1>3 DEF RoundHolds, Asleep
<1> QED BY <1>2, <1>3 DEF HandsInv

(* A job in somebody's hands has one handler, one in nobody's has none.     *)
LEMMA OneHandCounts ==
    ASSUME NEW j \in Jobs, OneHand(j)
    PROVE  Handlers(j) = IF QueuedHandlers(j) \cup BusyHandlers(j) \cup RoundHandlers(j)
                            \cup RequestHandlers(j) = {} THEN 0 ELSE 1
<1>1. \A S : AtMostOne(S) => Cardinality(S) = IF S = {} THEN 0 ELSE 1
  <2> SUFFICES ASSUME NEW S, AtMostOne(S), S # {} PROVE Cardinality(S) = 1
    BY FS_EmptySet
  <2>1. PICK x : x \in S
    OBVIOUS
  <2>2. S = {x}
    BY <2>1 DEF AtMostOne
  <2> QED BY <2>2, FS_Singleton
<1>2. /\ Cardinality(QueuedHandlers(j))  = IF QueuedHandlers(j) = {}  THEN 0 ELSE 1
      /\ Cardinality(BusyHandlers(j))    = IF BusyHandlers(j) = {}    THEN 0 ELSE 1
      /\ Cardinality(RoundHandlers(j))   = IF RoundHandlers(j) = {}   THEN 0 ELSE 1
      /\ Cardinality(RequestHandlers(j)) = IF RequestHandlers(j) = {} THEN 0 ELSE 1
  BY <1>1 DEF OneHand
<1>3. /\ QueuedHandlers(j) # {} =>
            BusyHandlers(j) = {} /\ RoundHandlers(j) = {} /\ RequestHandlers(j) = {}
      /\ BusyHandlers(j) # {}  => RoundHandlers(j) = {} /\ RequestHandlers(j) = {}
      /\ RoundHandlers(j) # {} => RequestHandlers(j) = {}
  BY DEF OneHand
<1>4. QueuedHandlers(j) \cup BusyHandlers(j) \cup RoundHandlers(j) \cup RequestHandlers(j) = {}
         <=> /\ QueuedHandlers(j) = {} /\ BusyHandlers(j) = {} /\ RoundHandlers(j) = {}
             /\ RequestHandlers(j) = {}
  OBVIOUS
<1> QED BY <1>2, <1>3, <1>4 DEF Handlers

(* One pair of hands is at most one handler.                               *)
LEMMA HandsAreHandlers == HandsInv => OneHandlerPerJob
  BY OneHandCounts DEF HandsInv, OneHandlerPerJob

(* The one pair of hands is kept by every step.                            *)
LEMMA HandsInvariance ==
    ASSUME AtMostOne(Pollers), ~AnswersMayBeLost
    PROVE  Spec => []HandsInv
<1>1. HandsInv /\ Inv /\ [Next]_vars => HandsInv'
  <2> SUFFICES ASSUME HandsInv, Inv, [Next]_vars PROVE HandsInv'
    OBVIOUS
  <2>1. \A j \in Jobs : OneHand(j)'
    BY StepKeepsHand DEF Inv
  <2>2. \A b \in Pollers : RoundHolds(b)'
    BY StepKeepsRound DEF Inv
  <2> QED BY <2>1, <2>2 DEF HandsInv
<1> QED BY <1>1, InitHands, Invariance, PTL DEF Spec

(* With one background thread, and if no statement is executed and taken   *)
(* for failed, a job is in one pair of hands at a time: whatever fails,    *)
(* crashes and is deleted, for any number of jobs, threads and requests.   *)
THEOREM JobsHaveOneHandler ==
    ASSUME AtMostOne(Pollers), ~AnswersMayBeLost
    PROVE  Spec => []OneHandlerPerJob
  BY HandsInvariance, HandsAreHandlers, PTL

-----------------------------------------------------------------------------
(* How far a job has come: with one background thread, and if no statement *)
(* is executed and taken for failed.                                       *)

(* The phases of the states, which are numbers that tell them apart.       *)
LEMMA PhaseTable ==
    /\ Phase(NoRecord) = 0 /\ Phase(WSDJobStateInServiceQueue) = 1
    /\ \A s \in WSDJobStateInHPCQueue .. WSDJobStateSuspended : Phase(s) = 2
    /\ Phase(WSDJobStateCompletedInHPC) = 3 /\ Phase(WSDJobOutputStateTransferring) = 4
    /\ Phase(WSDJobOutputStateTransferDone) = 5 /\ Phase(WSDJobStateError) = 5
    /\ Phase(WSDJobStateDeleted) = 6
    /\ \A s \in {NoRecord} \cup JobStates :
          /\ Phase(s) \in 0 .. 6
          /\ Phase(s) = 0 <=> s = NoRecord
          /\ Phase(s) = 1 <=> s = WSDJobStateInServiceQueue
          /\ Phase(s) = 2 <=> s \in WSDJobStateInHPCQueue .. WSDJobStateSuspended
          /\ Phase(s) = 3 <=> s = WSDJobStateCompletedInHPC
          /\ Phase(s) = 4 <=> s = WSDJobOutputStateTransferring
          /\ Phase(s) = 6 <=> s = WSDJobStateDeleted
<1> USE DEF NoRecord, WSDJobStateError, WSDJobStateDeleted, WSDJobStateInServiceQueue,
        WSDJobStateInHPCQueue, WSDJobStateSuspended, WSDJobStateCompletedInHPC,
        WSDJobOutputStateTransferring, WSDJobOutputStateTransferDone
<1>1. /\ Phase(NoRecord) = 0 /\ Phase(WSDJobStateInServiceQueue) = 1
      /\ \A s \in WSDJobStateInHPCQueue .. WSDJobStateSuspended : Phase(s) = 2
      /\ Phase(WSDJobStateCompletedInHPC) = 3 /\ Phase(WSDJobOutputStateTransferring) = 4
      /\ Phase(WSDJobOutputStateTransferDone) = 5 /\ Phase(WSDJobStateError) = 5
      /\ Phase(WSDJobStateDeleted) = 6
  BY DEF Phase
<1> QED BY <1>1 DEF JobStates

(* One job is set to a state, or none is.                                  *)
StatesStay   == \A k \in Jobs : jobs'[k].state = jobs[k].state
JobSet(j, s) == \A k \in Jobs : jobs'[k].state = IF k = j THEN s ELSE jobs[k].state

(* What a step of a worker does to the job of its item: nothing, or it     *)
(* sends a callback, or writes a state and what is to be announced.        *)
StaysAt(w) == /\ worker[w].pc # "idle" /\ worker'[w].pc # "idle"
              /\ worker'[w].item = worker[w].item
              /\ WorkerPhase(w)' = WorkerPhase(w)
Ends(w)    == worker'[w].pc = "idle"
IsAbout(w, types) == worker[w].pc # "idle" /\ worker[w].item.jobtype \in types

Quiet(w)  == /\ StatesStay /\ UNCHANGED told
             /\ worker[w].due = NoRecord /\ worker'[w].due = NoRecord
             /\ \/ StaysAt(w)
                \/ Ends(w) /\ (IsAbout(w, {"submit", "check"}) => DbMayFail)
Tells(w)  == /\ StatesStay /\ told' = [told EXCEPT ![JobOf(w)] = worker[w].due]
             /\ worker[w].due # NoRecord /\ worker'[w].due = NoRecord
             /\ StaysAt(w) \/ (Ends(w) /\ worker[w].pc = "idle")
Writes(w, s) ==
    /\ JobSet(JobOf(w), s) /\ UNCHANGED told
    /\ worker[w].due = NoRecord /\ worker'[w].due \in {NoRecord, s}
    /\ worker'[w].due # NoRecord => worker'[w].item = worker[w].item
    /\ \/ /\ Ends(w) /\ IsAbout(w, {"submit"})
          /\ s \in {WSDJobStateInHPCQueue, WSDJobStateError}
       \/ /\ Ends(w) /\ IsAbout(w, {"check"})
          /\ \/ s = WSDJobStateError
             \/ s = WSDJobOutputStateTransferDone /\ worker[w].pc = "c_finish"
       \/ /\ IsAbout(w, {"check"}) /\ worker'[w].item = worker[w].item
          /\ worker[w].pc = "c_transferring" /\ worker'[w].pc = "c_finish"
          /\ s = WSDJobOutputStateTransferring
       \/ IsAbout(w, {"delete_job"}) /\ StaysAt(w) /\ s = WSDJobStateDeleted

(* A worker with an item does one of the three in each of its steps.       *)
LEMMA WorkerPaths ==
    ASSUME TypeOK, ~AnswersMayBeLost, NEW w \in Workers, WorkerIsAtItem(w), WorkerActs(w),
           ~TakeWork(w)
    PROVE  /\ WorkerIsAtItem(w)'
           /\ Quiet(w) \/ Tells(w) \/ \E s : Writes(w, s)
<1> DEFINE Goal == /\ WorkerIsAtItem(w)'
                   /\ Quiet(w) \/ Tells(w) \/ \E s : Writes(w, s)
           SPc == {"s_mkdir", "s_unzip", "s_qsub", "s_record"}
           CPc == {"c_read", "c_transferring", "c_finish"}
<1>0. /\ DatabaseTypeOK /\ worker \in [Workers -> [pc : WorkerPc, item : WSHPCWork,
                                        ok : BOOLEAN, due : {NoRecord} \cup JobStates]]
  BY DEF TypeOK, SchedulerTypeOK, WorkerTypeOK
<1>1. ASSUME NEW pc, Goto(w, pc)
      PROVE  /\ worker'[w].pc = pc /\ worker'[w].item = worker[w].item
             /\ worker'[w].due = worker[w].due
  BY <1>0, <1>1 DEF Goto
<1>2. ASSUME NEW pc, NEW s, GotoAndAnnounce(w, pc, s)
      PROVE  /\ worker'[w].pc = pc /\ worker'[w].item = worker[w].item
             /\ worker'[w].due \in {NoRecord, s}
  BY <1>0, <1>2 DEF GotoAndAnnounce, ToAnnounce
<1>3. ASSUME Finish(w)
      PROVE  worker'[w].pc = "idle" /\ worker'[w].due = NoRecord
  BY <1>0, <1>3 DEF Finish, Idle
<1>4. ASSUME NEW s, FinishAndAnnounce(w, s)
      PROVE  /\ worker'[w].pc = "idle" /\ worker'[w].due \in {NoRecord, s}
             /\ worker'[w].due # NoRecord => worker'[w].item = worker[w].item
  <2>1. CASE Finish(w)
    BY <1>3, <2>1
  <2>2. CASE GotoAndAnnounce(w, "idle", s)
    BY <1>2, <2>2
  <2> QED BY <1>4, <2>1, <2>2 DEF FinishAndAnnounce
<1>5. UNCHANGED jobs => StatesStay
  BY DEF StatesStay
<1>6. \A s : setJobState(JobOf(w), s) => JobSet(JobOf(w), s)
  BY <1>0, SetsOneJob DEF JobSet
<1>7. setJobSubmittedByID(JobOf(w)) => JobSet(JobOf(w), WSDJobStateInHPCQueue)
  BY <1>0, SetsOneJob DEF JobSet
<1>8. ASSUME NEW pc, pc \notin {"idle", "c_finish", "d_mark"}, Goto(w, pc),
             UNCHANGED <<jobs, told>>,
             worker[w].pc \notin {"idle", "c_finish"}, worker[w].due = NoRecord,
             worker[w].pc \in SPc <=> pc \in SPc, worker[w].pc \in CPc <=> pc \in CPc
      PROVE  Goal
  <2>1. /\ worker'[w].pc = pc /\ worker'[w].item = worker[w].item
        /\ worker'[w].due = NoRecord
    BY <1>1, <1>8
  <2>2. WorkerIsAtItem(w)'
    BY <1>8, <2>1 DEF WorkerIsAtItem
  <2>3. StaysAt(w)
    BY <1>8, <2>1 DEF StaysAt, WorkerPhase
  <2> QED BY <1>5, <1>8, <2>1, <2>2, <2>3 DEF Quiet
<1>9. ASSUME Finish(w), UNCHANGED <<jobs, told>>, worker[w].due = NoRecord,
             IsAbout(w, {"submit", "check"}) => DbMayFail
      PROVE  Goal
  <2>1. worker'[w].pc = "idle" /\ worker'[w].due = NoRecord
    BY <1>3, <1>9
  <2> QED BY <1>5, <1>9, <2>1 DEF Quiet, Ends, WorkerIsAtItem
<1>10. CASE Announce(w)
  <2>1. /\ told' = [told EXCEPT ![JobOf(w)] = worker[w].due] /\ worker[w].due # NoRecord
        /\ UNCHANGED jobs
    BY <1>10 DEF Announce, doCallback, dbVars
  <2>2. CASE worker[w].pc = "idle"
    <3>1. worker'[w].pc = "idle" /\ worker'[w].due = NoRecord
      BY <1>3, <1>10, <2>2 DEF Announce, Finish
    <3> QED BY <1>5, <2>1, <2>2, <3>1 DEF Tells, Ends, WorkerIsAtItem
  <2>3. CASE worker[w].pc # "idle"
    <3>1. /\ worker'[w].pc = worker[w].pc /\ worker'[w].item = worker[w].item
          /\ worker'[w].due = NoRecord
      BY <1>0, <1>10, <2>3 DEF Announce
    <3>2. StaysAt(w) /\ WorkerIsAtItem(w)'
      BY <2>3, <3>1 DEF StaysAt, WorkerPhase, WorkerIsAtItem
    <3> QED BY <1>5, <2>1, <3>1, <3>2 DEF Tells
  <2> QED BY <2>2, <2>3
<1>11. CASE Upload(w)
  <2>1. CASE UploadDone(w)
    <3>1. /\ worker[w].pc = "u_done" /\ Finish(w) /\ UNCHANGED <<jobs, told>>
          /\ worker[w].due = NoRecord
      BY <2>1 DEF UploadDone, At, updatePackageState
    <3>2. ~IsAbout(w, {"submit", "check"})
      BY <3>1 DEF IsAbout, WorkerIsAtItem
    <3> QED BY <1>9, <3>1, <3>2
  <2>2. CASE ~UploadDone(w)
    <3>1. \E pc \in {"u_folder", "u_mkdir", "u_transferring", "u_iget", "u_transfer", "u_done"} :
             Goto(w, pc)
      BY <1>11, <2>2 DEF Upload, UploadRunning, UploadFolder, UploadMkdir, UploadTransferring,
         UploadTransfer
    <3>2. /\ worker[w].due = NoRecord /\ UNCHANGED <<jobs, told>>
          /\ worker[w].pc \in {"u_running", "u_folder", "u_mkdir", "u_transferring", "u_iget",
                               "u_transfer"}
      BY <1>11, <2>2 DEF Upload, UploadRunning, UploadFolder, UploadMkdir, UploadTransferring,
         UploadTransfer, At, updatePackageState, setPackageFolder, dbVars
    <3> QED BY <1>8, <3>1, <3>2
  <2> QED BY <2>1, <2>2
<1>12. CASE Submit(w)
  <2>1. CASE SubmitRecord(w)
    <3>1. /\ worker[w].pc = "s_record" /\ worker[w].due = NoRecord /\ UNCHANGED told
          /\ FinishAndAnnounce(w, WSDJobStateInHPCQueue)
          /\ JobSet(JobOf(w), WSDJobStateInHPCQueue)
      BY <1>7, <2>1 DEF SubmitRecord, At
    <3>2. IsAbout(w, {"submit"})
      BY <3>1 DEF IsAbout, WorkerIsAtItem
    <3>3. /\ worker'[w].pc = "idle" /\ worker'[w].due \in {NoRecord, WSDJobStateInHPCQueue}
          /\ worker'[w].due # NoRecord => worker'[w].item = worker[w].item
      BY <1>4, <3>1
    <3>4. WorkerIsAtItem(w)'
      BY <3>3 DEF WorkerIsAtItem
    <3>5. Writes(w, WSDJobStateInHPCQueue)
      BY <3>1, <3>2, <3>3 DEF Writes, Ends
    <3> QED BY <3>4, <3>5
  <2>2. CASE ~SubmitRecord(w)
    <3>1. \E pc \in {"s_unzip", "s_qsub", "s_record"} : Goto(w, pc)
      BY <1>12, <2>2 DEF Submit, SubmitMkdir, SubmitUnzip, SubmitQsub
    <3>2. /\ worker[w].due = NoRecord /\ UNCHANGED <<jobs, told>>
          /\ worker[w].pc \in {"s_mkdir", "s_unzip", "s_qsub"}
      BY <1>12, <2>2 DEF Submit, SubmitMkdir, SubmitUnzip, SubmitQsub, At, dbVars
    <3> QED BY <1>8, <3>1, <3>2
  <2> QED BY <2>1, <2>2
<1>13. CASE Check(w)
  <2>1. CASE CheckRead(w)
    <3>1. /\ worker[w].pc = "c_read" /\ worker[w].due = NoRecord /\ UNCHANGED <<jobs, told>>
      BY <2>1 DEF CheckRead, At, sharedVars
    <3>2. /\ worker'[w].pc = "c_transferring" /\ worker'[w].item = worker[w].item
          /\ worker'[w].due = worker[w].due
      BY <1>0, <2>1 DEF CheckRead
    <3>3. WorkerIsAtItem(w)'
      BY <3>1, <3>2 DEF WorkerIsAtItem
    <3>4. StaysAt(w)
      BY <3>1, <3>2 DEF StaysAt, WorkerPhase
    <3> QED BY <1>5, <3>1, <3>2, <3>3, <3>4 DEF Quiet
  <2>2. CASE CheckTransferring(w)
    <3>1. /\ worker[w].pc = "c_transferring" /\ worker[w].due = NoRecord /\ UNCHANGED told
          /\ GotoAndAnnounce(w, "c_finish", WSDJobOutputStateTransferring)
          /\ JobSet(JobOf(w), WSDJobOutputStateTransferring)
      BY <1>6, <2>2 DEF CheckTransferring, At
    <3>2. IsAbout(w, {"check"})
      BY <3>1 DEF IsAbout, WorkerIsAtItem
    <3>3. /\ worker'[w].pc = "c_finish" /\ worker'[w].item = worker[w].item
          /\ worker'[w].due \in {NoRecord, WSDJobOutputStateTransferring}
      BY <1>2, <3>1
    <3>4. WorkerIsAtItem(w)'
      BY <3>2, <3>3 DEF WorkerIsAtItem, IsAbout
    <3>5. Writes(w, WSDJobOutputStateTransferring)
      BY <3>1, <3>2, <3>3 DEF Writes
    <3> QED BY <3>4, <3>5
  <2>3. CASE CheckFinish(w)
    <3>1. PICK s \in {WSDJobOutputStateTransferDone, WSDJobStateError} :
             setJobState(JobOf(w), s) /\ FinishAndAnnounce(w, s)
      BY <2>3 DEF CheckFinish, setJobDoneByID, setJobFailedByID
    <3>2. /\ worker[w].pc = "c_finish" /\ worker[w].due = NoRecord /\ UNCHANGED told
          /\ JobSet(JobOf(w), s)
      BY <1>6, <2>3, <3>1 DEF CheckFinish, At
    <3>3. IsAbout(w, {"check"})
      BY <3>2 DEF IsAbout, WorkerIsAtItem
    <3>4. /\ worker'[w].pc = "idle" /\ worker'[w].due \in {NoRecord, s}
          /\ worker'[w].due # NoRecord => worker'[w].item = worker[w].item
      BY <1>4, <3>1
    <3>5. WorkerIsAtItem(w)'
      BY <3>4 DEF WorkerIsAtItem
    <3>6. Writes(w, s)
      BY <3>2, <3>3, <3>4 DEF Writes, Ends
    <3> QED BY <3>5, <3>6
  <2> QED BY <1>13, <2>1, <2>2, <2>3 DEF Check
<1>14. CASE Delete(w)
  <2>1. CASE DeleteMark(w)
    <3>1. /\ worker[w].pc = "d_mark" /\ worker[w].due = NoRecord /\ UNCHANGED told
          /\ GotoAndAnnounce(w, "d_qdel", WSDJobStateDeleted)
          /\ JobSet(JobOf(w), WSDJobStateDeleted)
      BY <1>6, <2>1 DEF DeleteMark, deleteJobByID, At
    <3>2. IsAbout(w, {"delete_job"}) /\ ~IsAbout(w, {"submit", "check"})
      BY <3>1 DEF IsAbout, WorkerIsAtItem
    <3>3. /\ worker'[w].pc = "d_qdel" /\ worker'[w].item = worker[w].item
          /\ worker'[w].due \in {NoRecord, WSDJobStateDeleted}
      BY <1>2, <3>1
    <3>4. WorkerIsAtItem(w)'
      BY <3>1, <3>2, <3>3 DEF WorkerIsAtItem, IsAbout
    <3>5. StaysAt(w)
      BY <3>1, <3>3 DEF StaysAt, WorkerPhase
    <3>6. Writes(w, WSDJobStateDeleted)
      BY <3>1, <3>2, <3>3, <3>5 DEF Writes
    <3> QED BY <3>4, <3>6
  <2>2. CASE DeleteQdel(w)
    <3>1. /\ worker[w].pc = "d_qdel" /\ worker[w].due = NoRecord /\ UNCHANGED <<jobs, told>>
          /\ Goto(w, "d_rm")
      BY <2>2 DEF DeleteQdel, At, dbVars
    <3> QED BY <1>8, <3>1
  <2>3. CASE DeleteRm(w)
    <3>1. /\ worker[w].pc = "d_rm" /\ worker[w].due = NoRecord /\ UNCHANGED <<jobs, told>>
          /\ Finish(w)
      BY <2>3 DEF DeleteRm, At, dbVars
    <3>2. ~IsAbout(w, {"submit", "check"})
      BY <3>1 DEF IsAbout, WorkerIsAtItem
    <3> QED BY <1>9, <3>1, <3>2
  <2> QED BY <1>14, <2>1, <2>2, <2>3 DEF Delete
<1>15. CASE PackageRm(w)
  <2>1. /\ worker[w].pc = "p_rm" /\ worker[w].due = NoRecord /\ UNCHANGED <<jobs, told>>
        /\ Finish(w)
    BY <1>15 DEF PackageRm, At, dbVars
  <2>2. ~IsAbout(w, {"submit", "check"})
    BY <2>1 DEF IsAbout, WorkerIsAtItem
  <2> QED BY <1>9, <2>1, <2>2
<1>16. CASE Throw(w)
  <2>1. /\ worker[w].pc # "idle" /\ worker[w].due = NoRecord /\ UNCHANGED told /\ Finish(w)
        /\ RecordError(w) \/ (DbMayFail /\ UNCHANGED jobs)
    BY <1>16 DEF Throw, dbVars
  <2>2. worker'[w].pc = "idle" /\ worker'[w].due = NoRecord
    BY <1>3, <2>1
  <2>3. CASE DbMayFail /\ UNCHANGED jobs
    BY <1>9, <2>1, <2>3
  <2>4. CASE RecordError(w) /\ ~IsAbout(w, {"submit", "check"})
    <3>1. UNCHANGED jobs
      BY <2>1, <2>4 DEF RecordError, updatePackageError, updatePackageState, dbVars, IsAbout,
         WSHPCWork
    <3> QED BY <1>9, <2>1, <2>4, <3>1
  <2>5. CASE RecordError(w) /\ IsAbout(w, {"submit", "check"})
    <3>1. setJobState(JobOf(w), WSDJobStateError)
      BY <2>5 DEF RecordError, setJobErrorByID, setJobFailedByID, IsAbout
    <3>2. Writes(w, WSDJobStateError)
      BY <1>6, <2>1, <2>2, <2>5, <3>1 DEF Writes, Ends, IsAbout
    <3>3. WorkerIsAtItem(w)'
      BY <2>2 DEF WorkerIsAtItem
    <3> QED BY <3>2, <3>3
  <2> QED BY <2>1, <2>3, <2>4, <2>5
<1>17. ~LoseAnswer(w)
  BY DEF LoseAnswer
<1> QED BY <1>10, <1>11, <1>12, <1>13, <1>14, <1>15, <1>16, <1>17 DEF WorkerActs, WorkerStep

(* A job in one pair of hands has one phase.                               *)
OnePhase(j) == /\ \A n \in QueuedHandlers(j)  : HandPhases(j) = {ItemPhase(hpcworkqueue[n])}
               /\ \A w \in BusyHandlers(j)    : HandPhases(j) = {WorkerPhase(w)}
               /\ \A b \in RoundHandlers(j)   : HandPhases(j) = {RoundPhase(b, j)}
               /\ \A c \in RequestHandlers(j) : HandPhases(j) = {ItemPhase(client[c].item)}

LEMMA OneHandOnePhase == \A j \in Jobs : OneHand(j) => OnePhase(j)
<1> SUFFICES ASSUME NEW j \in Jobs, OneHand(j) PROVE OnePhase(j)
  OBVIOUS
<1>1. ASSUME NEW n \in QueuedHandlers(j) PROVE HandPhases(j) = {ItemPhase(hpcworkqueue[n])}
  <2>1. /\ QueuedHandlers(j) = {n} /\ BusyHandlers(j) = {} /\ RoundHandlers(j) = {}
        /\ RequestHandlers(j) = {}
    BY <1>1 DEF OneHand, AtMostOne
  <2> QED BY <2>1 DEF HandPhases
<1>2. ASSUME NEW w \in BusyHandlers(j) PROVE HandPhases(j) = {WorkerPhase(w)}
  <2>1. /\ QueuedHandlers(j) = {} /\ BusyHandlers(j) = {w} /\ RoundHandlers(j) = {}
        /\ RequestHandlers(j) = {}
    BY <1>2 DEF OneHand, AtMostOne
  <2> QED BY <2>1 DEF HandPhases
<1>3. ASSUME NEW b \in RoundHandlers(j) PROVE HandPhases(j) = {RoundPhase(b, j)}
  <2>1. /\ QueuedHandlers(j) = {} /\ BusyHandlers(j) = {} /\ RoundHandlers(j) = {b}
        /\ RequestHandlers(j) = {}
    BY <1>3 DEF OneHand, AtMostOne
  <2> QED BY <2>1 DEF HandPhases
<1>4. ASSUME NEW c \in RequestHandlers(j) PROVE HandPhases(j) = {ItemPhase(client[c].item)}
  <2>1. /\ QueuedHandlers(j) = {} /\ BusyHandlers(j) = {} /\ RoundHandlers(j) = {}
        /\ RequestHandlers(j) = {c}
    BY <1>4 DEF OneHand, AtMostOne
  <2> QED BY <2>1 DEF HandPhases
<1> QED BY <1>1, <1>2, <1>3, <1>4 DEF OnePhase

(* And so after a step.                                                    *)
LEMMA OneHandOnePhaseNext == (\A j \in Jobs : OneHand(j) => OnePhase(j))'
  BY OneHandOnePhase, PTL

(* And one in nobody's hands has none.                                     *)
LEMMA NoHandNoPhase ==
    \A j \in Jobs :
        QueuedHandlers(j) \cup BusyHandlers(j) \cup RoundHandlers(j) \cup RequestHandlers(j) = {}
            <=> HandPhases(j) = {}
<1> SUFFICES ASSUME NEW j \in Jobs
             PROVE  QueuedHandlers(j) \cup BusyHandlers(j) \cup RoundHandlers(j)
                    \cup RequestHandlers(j) = {} <=> HandPhases(j) = {}
  OBVIOUS
<1>1. ASSUME QueuedHandlers(j) \cup BusyHandlers(j) \cup RoundHandlers(j)
             \cup RequestHandlers(j) = {}
      PROVE  HandPhases(j) = {}
  <2>1. /\ QueuedHandlers(j) = {} /\ BusyHandlers(j) = {} /\ RoundHandlers(j) = {}
        /\ RequestHandlers(j) = {}
    BY <1>1
  <2> QED BY <2>1 DEF HandPhases
<1>2. \A n \in QueuedHandlers(j) : ItemPhase(hpcworkqueue[n]) \in HandPhases(j)
  BY DEF HandPhases
<1>3. \A w \in BusyHandlers(j) : WorkerPhase(w) \in HandPhases(j)
  BY DEF HandPhases
<1>4. \A b \in RoundHandlers(j) : RoundPhase(b, j) \in HandPhases(j)
  BY DEF HandPhases
<1>5. \A c \in RequestHandlers(j) : ItemPhase(client[c].item) \in HandPhases(j)
  BY DEF HandPhases
<1> QED BY <1>1, <1>2, <1>3, <1>4, <1>5

(* What was said of a job are states of jobs.                              *)
LEMMA SaidTyped ==
    ASSUME TypeOK, NEW j \in Jobs
    PROVE  Said(j) \subseteq {NoRecord} \cup JobStates
  BY DEF TypeOK, SchedulerTypeOK, WorkerTypeOK, Said

SaidGrows(j, S) == Said(j)' \subseteq Said(j) \cup S \cup {NoRecord}

(* What may be written of a job, by the phase of its hand.                 *)
Follows(n, s) ==
    \/ n = 1 /\ s \in {WSDJobStateInHPCQueue, WSDJobStateError}
    \/ n = 2 /\ s \in {WSDJobStateCompletedInHPC} \cup WSDJobStateInHPCQueue .. WSDJobStateSuspended
    \/ n = 3 /\ s \in {WSDJobOutputStateTransferring, WSDJobStateError}
    \/ n = 4 /\ s \in {WSDJobOutputStateTransferDone, WSDJobStateError}

LEMMA WhatFollows ==
    ASSUME NEW n, NEW s, Follows(n, s)
    PROVE  /\ n \in 1 .. 4 /\ s \in JobStates \ {WSDJobStateDeleted}
           /\ Phase(s) \in 0 .. 6 /\ Phase(s) >= n /\ s # WSDJobStateInServiceQueue
<1>1. WSDJobStateInHPCQueue \in WSDJobStateInHPCQueue .. WSDJobStateSuspended
  BY DEF WSDJobStateInHPCQueue, WSDJobStateSuspended
<1>2. n \in 1 .. 4 /\ s \in JobStates
  BY <1>1, StatesTyped DEF Follows
<1>3. Phase(s) \in 0 .. 6 /\ Phase(s) >= n /\ Phase(s) \notin {1, 6}
  BY <1>1, <1>2, PhaseTable DEF Follows
<1> QED BY <1>2, <1>3, PhaseTable

(* The ways of a job from phase to phase: it stays where it is, somebody   *)
(* gives it up, a round takes it up, a request makes it, the one who has   *)
(* it writes a state, or announces the one it wrote.                       *)
PhaseStays(j)   == /\ HandPhases(j)' = HandPhases(j)
                   /\ jobs'[j].state \in {jobs[j].state, WSDJobStateDeleted}
                   /\ SaidGrows(j, {WSDJobStateDeleted})
PhaseDropped(j) == /\ HandPhases(j)' = {}
                   /\ jobs'[j].state = jobs[j].state
                   /\ SaidGrows(j, {})
                   /\ crashes' # 0 \/ DbMayFail \/ HandPhases(j) = {2}
PhaseListed(j)  == /\ jobs[j].state \in WSDJobStateInHPCQueue .. WSDJobStateSuspended
                   /\ jobs'[j].state = jobs[j].state
                   /\ HandPhases(j)' = {2}
                   /\ SaidGrows(j, {})
PhaseMade(j)    == /\ jobs[j].state = NoRecord /\ jobs'[j].state = WSDJobStateInServiceQueue
                   /\ HandPhases(j)' = {1}
                   /\ SaidGrows(j, {})
PhaseWritten(j) == \E n \in 1 .. 4, s \in JobStates \ {WSDJobStateDeleted} :
                      /\ HandPhases(j) = {n} /\ Follows(n, s)
                      /\ jobs'[j].state = s
                      /\ HandPhases(j)' \subseteq {Phase(s)}
                      /\ Phase(s) \in {3, 4} => HandPhases(j)' # {}
                      /\ SaidGrows(j, {s})
PhaseTold(j)    == \E s \in JobStates \ {WSDJobStateDeleted} :
                      /\ HandPhases(j) = {Phase(s)}
                      /\ jobs'[j].state = jobs[j].state
                      /\ HandPhases(j)' \subseteq HandPhases(j)
                      /\ Phase(s) = 2 \/ HandPhases(j)' # {}
                      /\ SaidGrows(j, {s})
PhaseMoves(j)   == \/ PhaseStays(j) \/ PhaseDropped(j) \/ PhaseListed(j) \/ PhaseMade(j)
                   \/ PhaseWritten(j) \/ PhaseTold(j)

(* To write what follows the phase of the hand is a way.                   *)
LEMMA WritingMovesPhase ==
    ASSUME NEW j \in Jobs, NEW n, NEW s, HandPhases(j) = {n}, Follows(n, s),
           jobs'[j].state = s, HandPhases(j)' \subseteq {Phase(s)},
           Phase(s) \in {3, 4} => HandPhases(j)' # {}, SaidGrows(j, {s})
    PROVE  PhaseMoves(j)
  BY WhatFollows DEF PhaseMoves, PhaseWritten

(* On each of these ways, the hands stay in phase with the job.            *)
LEMMA PhasesKept ==
    ASSUME TypeOK, TypeOK', NEW j \in Jobs, HandsInPhase(j), HandPhases(j) \subseteq 1 .. 4,
           PhaseMoves(j)
    PROVE  HandsInPhase(j)'
<1>1. /\ Said(j) \subseteq {NoRecord} \cup JobStates /\ Said(j)' \subseteq {NoRecord} \cup JobStates
      /\ jobs[j].state \in {NoRecord} \cup JobStates /\ jobs'[j].state \in {NoRecord} \cup JobStates
  <2>1. Said(j) \subseteq {NoRecord} \cup JobStates
    BY SaidTyped
  <2>2. Said(j)' \subseteq {NoRecord} \cup JobStates
    BY DEF TypeOK, SchedulerTypeOK, WorkerTypeOK, Said
  <2>3. /\ jobs[j].state \in {NoRecord} \cup JobStates
        /\ jobs'[j].state \in {NoRecord} \cup JobStates
    BY DEF TypeOK, SchedulerTypeOK, DatabaseTypeOK, JobRecord
  <2> QED BY <2>1, <2>2, <2>3
<1>2. /\ \A n \in HandPhases(j) : InPhase(j, n)
      /\ jobs[j].state # WSDJobStateDeleted => SaidUpTo(j, Phase(jobs[j].state))
  BY DEF HandsInPhase
<1>3. \A s \in {NoRecord} \cup JobStates : Phase(s) \in 0 .. 6
  BY PhaseTable
(* what was said before, and at most a state of a phase not beyond m *)
<1>4. ASSUME NEW n \in 0 .. 6, NEW m \in 0 .. 6, n <= m, SaidUpTo(j, n), NEW S, SaidGrows(j, S),
             \A s \in S : s = WSDJobStateDeleted \/ Phase(s) <= m
      PROVE  SaidUpTo(j, m)'
  <2> SUFFICES ASSUME NEW s \in Said(j)' PROVE s = WSDJobStateDeleted \/ Phase(s) <= m
    BY DEF SaidUpTo
  <2>1. s \in Said(j) => s = WSDJobStateDeleted \/ Phase(s) <= n
    BY <1>4 DEF SaidUpTo
  <2>2. Phase(s) \in 0 .. 6 /\ (s = NoRecord => Phase(s) = 0)
    BY <1>1, <1>3, PhaseTable
  <2>3. s \in Said(j) \/ s \in S \/ s = NoRecord
    BY <1>4 DEF SaidGrows
  <2> QED BY <1>4, <2>1, <2>2, <2>3
<1>5. Phase(WSDJobStateDeleted) = 6
  BY PhaseTable
<1>6. CASE PhaseStays(j)
  <2>1. ASSUME NEW n \in HandPhases(j)' PROVE InPhase(j, n)'
    <3>1. n \in 1 .. 4 /\ InPhase(j, n)
      BY <1>2, <1>6, <2>1 DEF PhaseStays
    <3>2. SaidUpTo(j, n)'
      BY <1>4, <1>6, <3>1 DEF PhaseStays, InPhase
    <3> QED BY <1>6, <3>1, <3>2 DEF PhaseStays, InPhase
  <2>2. ASSUME jobs'[j].state # WSDJobStateDeleted PROVE SaidUpTo(j, Phase(jobs[j].state))'
    <3>1. jobs'[j].state = jobs[j].state /\ SaidUpTo(j, Phase(jobs[j].state))
      BY <1>2, <1>6, <2>2 DEF PhaseStays
    <3> DEFINE n == Phase(jobs[j].state)
    <3>2. n \in 0 .. 6
      BY <1>1, <1>3
    <3> HIDE DEF n
    <3>3. SaidUpTo(j, n)'
      BY <1>4, <1>6, <3>1, <3>2 DEF PhaseStays, n
    <3> QED BY <3>1, <3>3 DEF n
  <2> QED BY <2>1, <2>2 DEF HandsInPhase
<1>7. CASE PhaseDropped(j)
  <2>1. ASSUME jobs'[j].state # WSDJobStateDeleted PROVE SaidUpTo(j, Phase(jobs[j].state))'
    <3> DEFINE n == Phase(jobs[j].state)
    <3>1. jobs'[j].state = jobs[j].state /\ SaidUpTo(j, n) /\ n \in 0 .. 6
      BY <1>1, <1>2, <1>3, <1>7, <2>1 DEF PhaseDropped
    <3> HIDE DEF n
    <3>2. SaidUpTo(j, n)'
      BY <1>4, <1>7, <3>1 DEF PhaseDropped, n
    <3> QED BY <3>1, <3>2 DEF n
  <2> QED BY <1>7, <2>1 DEF HandsInPhase, PhaseDropped
<1>8. CASE PhaseListed(j)
  <2>1. Phase(jobs[j].state) = 2 /\ jobs[j].state # WSDJobStateDeleted
    BY <1>5, <1>8, PhaseTable DEF PhaseListed
  <2>2. SaidUpTo(j, 2)
    BY <1>2, <2>1
  <2>3. SaidUpTo(j, 2)'
    BY <1>4, <1>8, <2>2 DEF PhaseListed
  <2> QED BY <1>8, <2>1, <2>3 DEF PhaseListed, HandsInPhase, InPhase
<1>9. CASE PhaseMade(j)
  <2>1. Phase(jobs[j].state) = 0 /\ jobs[j].state # WSDJobStateDeleted
    BY <1>5, <1>9, PhaseTable DEF PhaseMade
  <2>2. Phase(jobs'[j].state) = 1
    BY <1>9, PhaseTable DEF PhaseMade
  <2>3. SaidUpTo(j, 0)
    BY <1>2, <2>1
  <2>4. SaidUpTo(j, 1)'
    BY <1>4, <1>9, <2>3 DEF PhaseMade
  <2> QED BY <1>9, <2>2, <2>4 DEF PhaseMade, HandsInPhase, InPhase
<1>10. CASE PhaseWritten(j)
  <2>1. PICK n \in 1 .. 4, s \in JobStates \ {WSDJobStateDeleted} :
           /\ HandPhases(j) = {n} /\ Phase(s) >= n
           /\ jobs'[j].state = s
           /\ HandPhases(j)' \subseteq {Phase(s)}
           /\ SaidGrows(j, {s})
    BY <1>10, WhatFollows DEF PhaseWritten
  <2>2. Phase(s) \in 0 .. 6 /\ n \in 0 .. 6 /\ n <= Phase(s) /\ SaidUpTo(j, n)
    BY <1>2, <1>3, <2>1 DEF InPhase
  <2> DEFINE m == Phase(s)
  <2>3. /\ m \in 0 .. 6 /\ n <= m
        /\ \A t \in {s} : t = WSDJobStateDeleted \/ Phase(t) <= m
    BY <2>2
  <2> HIDE DEF m
  <2>4. SaidUpTo(j, m)'
    BY <1>4, <2>1, <2>2, <2>3
  <2> QED BY <2>1, <2>4 DEF HandsInPhase, InPhase, m
<1>11. CASE PhaseTold(j)
  <2>1. PICK s \in JobStates \ {WSDJobStateDeleted} :
           /\ HandPhases(j) = {Phase(s)}
           /\ jobs'[j].state = jobs[j].state
           /\ HandPhases(j)' \subseteq HandPhases(j)
           /\ SaidGrows(j, {s})
    BY <1>11 DEF PhaseTold
  <2> DEFINE m == Phase(s)
  <2>2. /\ m \in 0 .. 6 /\ InPhase(j, m) /\ SaidUpTo(j, m)
        /\ \A t \in {s} : t = WSDJobStateDeleted \/ Phase(t) <= m
    BY <1>2, <1>3, <2>1 DEF InPhase
  <2> HIDE DEF m
  <2>3. SaidUpTo(j, m)'
    BY <1>4, <2>1, <2>2
  <2>4. jobs'[j].state = WSDJobStateDeleted \/ Phase(jobs'[j].state) = m
    BY <2>1, <2>2 DEF InPhase
  <2>5. \A n \in HandPhases(j)' : n = m
    BY <2>1 DEF m
  <2> QED BY <2>3, <2>4, <2>5 DEF HandsInPhase, InPhase
<1> QED BY <1>6, <1>7, <1>8, <1>9, <1>10, <1>11 DEF PhaseMoves

(* The phases of hands are those of jobs on their way.                     *)
LEMMA PhasesOfHands ==
    ASSUME RoundsAreSound, NEW j \in Jobs
    PROVE  HandPhases(j) \subseteq 1 .. 4
<1>1. \A item : ItemPhase(item) \in 1 .. 4
  BY DEF ItemPhase
<1>2. \A w : WorkerPhase(w) \in 1 .. 4
  BY <1>1 DEF WorkerPhase
<1>3. ASSUME NEW b \in Pollers PROVE RoundPhase(b, j) \in 1 .. 4
  <2>1. CASE poller[b].pc \in {"announce", "enqueue"}
    <3>1. Phase(poller[b].new) \in {2, 3}
      BY <2>1, PhaseTable DEF RoundsAreSound, RoundIsSound
    <3> QED BY <3>1 DEF RoundPhase
  <2>2. CASE poller[b].pc \notin {"announce", "enqueue"}
    BY <2>2 DEF RoundPhase
  <2> QED BY <2>1, <2>2
<1> QED BY <1>1, <1>2, <1>3 DEF HandPhases, RoundHandlers

(* Where a worker and the queue have no part in it, the phase of a job     *)
(* stays.                                                                  *)
LEMMA OtherHandsKeep ==
    ASSUME NEW w \in Workers, NEW j \in Jobs, UNCHANGED <<poller, client>>,
           UNCHANGED hpcworkqueue \/ QueuedHandlers(j) \cup QueuedHandlers(j)' = {},
           \A v \in Workers \ {w} : worker'[v] = worker[v],
           w \notin BusyHandlers(j), w \notin BusyHandlers(j)'
    PROVE  HandPhases(j)' = HandPhases(j)
<1>1. /\ QueuedHandlers(j)' = QueuedHandlers(j) /\ RoundHandlers(j)' = RoundHandlers(j)
      /\ RequestHandlers(j)' = RequestHandlers(j)
  BY DEF QueuedHandlers, RoundHandlers, RequestHandlers
<1>2. BusyHandlers(j)' = BusyHandlers(j)
  BY DEF BusyHandlers
<1>3. \A v \in BusyHandlers(j) : WorkerPhase(v)' = WorkerPhase(v)
  BY DEF BusyHandlers, WorkerPhase
<1>4. \A b : RoundPhase(b, j)' = RoundPhase(b, j)
  BY DEF RoundPhase
<1>5. {WorkerPhase(v) : v \in BusyHandlers(j)}' = {WorkerPhase(v) : v \in BusyHandlers(j)}
  BY <1>2, <1>3
<1>6. {RoundPhase(b, j) : b \in RoundHandlers(j)}' = {RoundPhase(b, j) : b \in RoundHandlers(j)}
  BY <1>1, <1>4
<1>7. {ItemPhase(hpcworkqueue[n]) : n \in QueuedHandlers(j)}'
      = {ItemPhase(hpcworkqueue[n]) : n \in QueuedHandlers(j)}
  BY <1>1
<1>8. {ItemPhase(client[c].item) : c \in RequestHandlers(j)}'
      = {ItemPhase(client[c].item) : c \in RequestHandlers(j)}
  BY <1>1
<1> QED BY <1>5, <1>6, <1>7, <1>8 DEF HandPhases

(* What a worker's step adds to what was said.                             *)
LEMMA WorkersSay ==
    ASSUME TypeOK, NEW w \in Workers, \A v \in Workers \ {w} : worker'[v] = worker[v],
           NEW j \in Jobs
    PROVE  /\ UNCHANGED told /\ worker'[w].due = NoRecord => SaidGrows(j, {})
           /\ Tells(w) => SaidGrows(j, {})
           /\ \A s : Writes(w, s) => IF JobOf(w) = j THEN SaidGrows(j, {s}) ELSE SaidGrows(j, {})
<1>1. ASSUME NEW s \in Said(j)'
      PROVE  \/ s = told'[j] \/ s \in Said(j)
             \/ s = worker'[w].due /\ worker'[w].item.job = j
  BY <1>1 DEF Said, JobOf
<1>2. told[j] \in Said(j) /\ told \in [Jobs -> {NoRecord} \cup JobStates]
  BY DEF Said, TypeOK, SchedulerTypeOK
<1>3. JobOf(w) = j => worker[w].due \in Said(j)
  BY DEF Said
<1>4. ASSUME UNCHANGED told, worker'[w].due = NoRecord PROVE SaidGrows(j, {})
  BY <1>1, <1>2, <1>4 DEF SaidGrows
<1>5. ASSUME Tells(w) PROVE SaidGrows(j, {})
  <2>1. told'[j] \in Said(j)
    BY <1>2, <1>3, <1>5 DEF Tells
  <2> QED BY <1>1, <1>5, <2>1 DEF SaidGrows, Tells
<1>6. ASSUME NEW s, Writes(w, s)
      PROVE  IF JobOf(w) = j THEN SaidGrows(j, {s}) ELSE SaidGrows(j, {})
  <2>1. /\ UNCHANGED told /\ worker'[w].due \in {NoRecord, s}
        /\ worker'[w].due # NoRecord => worker'[w].item = worker[w].item
    BY <1>6 DEF Writes
  <2> QED BY <1>1, <1>2, <2>1 DEF SaidGrows, JobOf
<1> QED BY <1>4, <1>5, <1>6

(* So a step of a worker moves a job in one of the ways.                   *)
LEMMA WorkersMovePhases ==
    ASSUME TypeOK, ~AnswersMayBeLost, \A v \in Workers : WorkerIsAtItem(v),
           NEW w \in Workers, WorkerActs(w), NEW j \in Jobs, OneHand(j), OneHand(j)'
    PROVE  PhaseMoves(j)
<1>1. /\ UNCHANGED <<poller, client>> /\ \A v \in Workers \ {w} : worker'[v] = worker[v]
      /\ TakeWork(w) \/ UNCHANGED hpcworkqueue
  BY WorkersGoOn
<1>2. WorkerIsAtItem(w)
  OBVIOUS
<1>3. /\ w \in BusyHandlers(j) <=> worker[w].pc # "idle" /\ Handles(worker[w].item, j)
      /\ w \in BusyHandlers(j)' <=> worker'[w].pc # "idle" /\ Handles(worker'[w].item, j)
  BY DEF BusyHandlers, Handles
<1>4. /\ \A v \in BusyHandlers(j) : HandPhases(j) = {WorkerPhase(v)}
      /\ \A n \in QueuedHandlers(j) : HandPhases(j) = {ItemPhase(hpcworkqueue[n])}
      /\ w \in BusyHandlers(j)' => HandPhases(j)' = {WorkerPhase(w)'}
      /\ \A n \in QueuedHandlers(j)' : HandPhases(j)' = {ItemPhase(hpcworkqueue'[n])}
  <2>1. OnePhase(j)
    BY OneHandOnePhase
  <2>3. OnePhase(j)'
    BY OneHandOnePhaseNext
  <2> QED BY <2>1, <2>3 DEF OnePhase
<1>5. CASE TakeWork(w)
  <2>1. /\ worker[w].pc = "idle" /\ UNCHANGED <<jobs, told>> /\ removeHPCWork
        /\ worker'[w].item = Head(hpcworkqueue) /\ worker'[w].due = NoRecord
        /\ worker'[w].pc = FirstStep[Head(hpcworkqueue).jobtype]
    BY <1>5 DEF TakeWork, At, dbVars, TypeOK, WorkerTypeOK
  <2>2. SaidGrows(j, {}) /\ w \notin BusyHandlers(j)
    BY <1>1, <1>3, <2>1, WorkersSay
  <2> DEFINE item == Head(hpcworkqueue)
  <2>3. /\ item.jobtype \in WorkType /\ 1 \in DOMAIN hpcworkqueue /\ hpcworkqueue[1] = item
        /\ \A n \in QueuedHandlers(j)' : n \in Int /\ n + 1 \in QueuedHandlers(j)
                                        /\ hpcworkqueue'[n] = hpcworkqueue[n + 1]
        /\ \A n \in QueuedHandlers(j) : n # 1 => n \in Int /\ n - 1 \in QueuedHandlers(j)'
    <3>1. /\ hpcworkqueue \in Seq(WSHPCWork) /\ hpcworkqueue # <<>>
          /\ hpcworkqueue' = Tail(hpcworkqueue)
      BY <2>1 DEF removeHPCWork, TypeOK, SchedulerTypeOK
    <3>2. /\ DOMAIN hpcworkqueue = 1 .. Len(hpcworkqueue) /\ Len(hpcworkqueue) \in Nat \ {0}
          /\ DOMAIN hpcworkqueue' = 1 .. Len(hpcworkqueue) - 1
      BY <3>1, LenProperties, TailFacts
    <3>3. /\ item \in WSHPCWork /\ item = hpcworkqueue[1]
          /\ \A n \in 1 .. Len(hpcworkqueue) - 1 : hpcworkqueue'[n] = hpcworkqueue[n + 1]
      BY <3>1, TailFacts
    <3> HIDE DEF item
    <3>4. \A n \in QueuedHandlers(j) : n # 1 => n \in Int /\ n - 1 \in QueuedHandlers(j)'
      BY <3>2, <3>3 DEF QueuedHandlers, Handles
    <3>5. \A n \in QueuedHandlers(j)' : n \in Int /\ n + 1 \in QueuedHandlers(j)
                                       /\ hpcworkqueue'[n] = hpcworkqueue[n + 1]
      BY <3>2, <3>3 DEF QueuedHandlers, Handles
    <3> QED BY <3>2, <3>3, <3>4, <3>5 DEF WSHPCWork
  <2>4. jobs'[j].state = jobs[j].state
    BY <2>1
  <2> HIDE DEF item
  <2>5. CASE Handles(item, j)
    <3>1. 1 \in QueuedHandlers(j)
      BY <2>3, <2>5 DEF QueuedHandlers
    <3>2. HandPhases(j) = {ItemPhase(item)}
      BY <1>4, <2>3, <3>1
    <3>3. worker'[w].pc \in {"s_mkdir", "c_read"} /\ worker'[w].item = item
      BY <2>1, <2>5 DEF FirstStep, Handles, item
    <3>4. w \in BusyHandlers(j)' /\ WorkerPhase(w)' = ItemPhase(item)
      BY <1>3, <2>5, <3>3 DEF WorkerPhase
    <3>5. HandPhases(j)' = HandPhases(j)
      BY <1>4, <3>2, <3>4
    <3> QED BY <2>2, <2>4, <3>5 DEF PhaseMoves, PhaseStays, SaidGrows
  <2>6. CASE ~Handles(item, j)
    <3>1. w \notin BusyHandlers(j)'
      BY <1>3, <2>1, <2>6 DEF item
    <3>2. CASE QueuedHandlers(j) = {}
      <4>1. QueuedHandlers(j)' = {}
        BY <2>3, <3>2
      <4>2. HandPhases(j)' = HandPhases(j)
        BY <1>1, <2>2, <3>1, <3>2, <4>1, OtherHandsKeep
      <4> QED BY <2>2, <2>4, <4>2 DEF PhaseMoves, PhaseStays, SaidGrows
    <3>3. ASSUME NEW n \in QueuedHandlers(j) PROVE PhaseMoves(j)
      <4>1. n # 1
        BY <2>3, <2>6 DEF QueuedHandlers
      <4>2. n \in Int /\ n - 1 \in QueuedHandlers(j)'
        BY <2>3, <4>1
      <4>3. hpcworkqueue'[n - 1] = hpcworkqueue[n]
        BY <2>3, <4>2
      <4>4. HandPhases(j)' = HandPhases(j)
        BY <1>4, <4>2, <4>3
      <4> QED BY <2>2, <2>4, <4>4 DEF PhaseMoves, PhaseStays, SaidGrows
    <3> QED BY <3>2, <3>3
  <2> QED BY <2>5, <2>6
<1>6. CASE ~TakeWork(w) /\ w \in BusyHandlers(j)
  <2>1. UNCHANGED hpcworkqueue /\ (Quiet(w) \/ Tells(w) \/ \E s : Writes(w, s))
    BY <1>1, <1>2, <1>6, WorkerPaths
  <2>2. /\ IsAbout(w, {"submit", "check"}) /\ JobOf(w) = j
        /\ HandPhases(j) = {WorkerPhase(w)}
    BY <1>3, <1>4, <1>6 DEF IsAbout, Handles, JobOf
  <2>3. StaysAt(w) => HandPhases(j)' = HandPhases(j)
    <3> SUFFICES ASSUME StaysAt(w) PROVE HandPhases(j)' = HandPhases(j)
      OBVIOUS
    <3>1. w \in BusyHandlers(j)' /\ WorkerPhase(w)' = WorkerPhase(w)
      BY <1>3, <1>6 DEF StaysAt
    <3> QED BY <1>4, <2>2, <3>1
  <2>4. Ends(w) => HandPhases(j)' = {}
    <3> SUFFICES ASSUME Ends(w) PROVE HandPhases(j)' = {}
      OBVIOUS
    <3>1. /\ QueuedHandlers(j) = {} /\ RoundHandlers(j) = {} /\ RequestHandlers(j) = {}
          /\ BusyHandlers(j) = {w}
      BY <1>6 DEF OneHand, AtMostOne
    <3>2. /\ QueuedHandlers(j)' = {} /\ RoundHandlers(j)' = {} /\ RequestHandlers(j)' = {}
      BY <1>1, <2>1, <3>1 DEF QueuedHandlers, RoundHandlers, RequestHandlers
    <3>3. BusyHandlers(j)' = {}
      BY <1>1, <1>3, <3>1 DEF Ends, BusyHandlers
    <3> QED BY <3>2, <3>3 DEF HandPhases
  <2>5. CASE Quiet(w)
    <3>1. jobs'[j].state = jobs[j].state /\ SaidGrows(j, {})
      BY <1>1, <2>5, WorkersSay DEF Quiet, StatesStay
    <3>2. CASE StaysAt(w)
      BY <2>3, <3>1, <3>2 DEF PhaseMoves, PhaseStays, SaidGrows
    <3>3. CASE Ends(w) /\ DbMayFail
      BY <2>4, <3>1, <3>3 DEF PhaseMoves, PhaseDropped
    <3> QED BY <2>2, <2>5, <3>2, <3>3 DEF Quiet
  <2>6. CASE Tells(w)
    <3>1. jobs'[j].state = jobs[j].state /\ SaidGrows(j, {})
      BY <1>1, <2>6, WorkersSay DEF Tells, StatesStay
    <3>2. StaysAt(w)
      BY <2>2, <2>6 DEF Tells, IsAbout
    <3> QED BY <2>3, <3>1, <3>2 DEF PhaseMoves, PhaseStays, SaidGrows
  <2>7. ASSUME NEW s, Writes(w, s) PROVE PhaseMoves(j)
    <3>1. jobs'[j].state = s /\ SaidGrows(j, {s})
      BY <1>1, <2>2, <2>7, WorkersSay DEF Writes, JobSet
    <3>2. CASE /\ Ends(w) /\ IsAbout(w, {"submit"})
               /\ s \in {WSDJobStateInHPCQueue, WSDJobStateError}
      <4>1. WorkerPhase(w) = 1
        BY <1>2, <3>2 DEF WorkerPhase, ItemPhase, WorkerIsAtItem, IsAbout
      <4>2. Follows(1, s) /\ Phase(s) \in {2, 5}
        <5>1. WSDJobStateInHPCQueue \in WSDJobStateInHPCQueue .. WSDJobStateSuspended
          BY DEF WSDJobStateInHPCQueue, WSDJobStateSuspended
        <5> QED BY <3>2, <5>1, PhaseTable DEF Follows
      <4> QED BY <2>2, <2>4, <3>1, <3>2, <4>1, <4>2, WritingMovesPhase
    <3>3. CASE /\ Ends(w) /\ IsAbout(w, {"check"})
               /\ \/ s = WSDJobStateError
                  \/ s = WSDJobOutputStateTransferDone /\ worker[w].pc = "c_finish"
      <4>1. Follows(WorkerPhase(w), s)
        BY <3>3 DEF WorkerPhase, ItemPhase, IsAbout, Follows
      <4>2. Phase(s) = 5
        BY <3>3, PhaseTable
      <4> QED BY <2>2, <2>4, <3>1, <3>3, <4>1, <4>2, WritingMovesPhase
    <3>4. CASE /\ IsAbout(w, {"check"}) /\ worker'[w].item = worker[w].item
               /\ worker[w].pc = "c_transferring" /\ worker'[w].pc = "c_finish"
               /\ s = WSDJobOutputStateTransferring
      <4>1. WorkerPhase(w) = 3 /\ WorkerPhase(w)' = 4
        BY <3>4 DEF WorkerPhase, ItemPhase, IsAbout
      <4>2. HandPhases(j)' = {4}
        BY <1>3, <1>4, <1>6, <3>4, <4>1
      <4>3. Follows(3, s) /\ Phase(s) = 4
        BY <3>4, PhaseTable DEF Follows
      <4> QED BY <2>2, <3>1, <4>1, <4>2, <4>3, WritingMovesPhase
    <3>5. ~IsAbout(w, {"delete_job"})
      BY <1>6 DEF BusyHandlers, Handles, IsAbout
    <3> QED BY <2>2, <2>7, <3>2, <3>3, <3>4, <3>5 DEF Writes
  <2> QED BY <2>1, <2>5, <2>6, <2>7
<1>7. CASE ~TakeWork(w) /\ w \notin BusyHandlers(j)
  <2>1. UNCHANGED hpcworkqueue /\ (Quiet(w) \/ Tells(w) \/ \E s : Writes(w, s))
    BY <1>1, <1>2, <1>7, WorkerPaths
  <2>2. w \notin BusyHandlers(j)'
    <3>1. StaysAt(w) => w \notin BusyHandlers(j)'
      BY <1>3, <1>7 DEF StaysAt
    <3>2. Ends(w) => w \notin BusyHandlers(j)'
      BY <1>3 DEF Ends
    <3>3. IsAbout(w, {"check"}) /\ worker'[w].item = worker[w].item => w \notin BusyHandlers(j)'
      BY <1>3, <1>7 DEF IsAbout
    <3> QED BY <2>1, <3>1, <3>2, <3>3 DEF Quiet, Tells, Writes
  <2>3. HandPhases(j)' = HandPhases(j)
    BY <1>1, <1>7, <2>1, <2>2, OtherHandsKeep
  <2>4. CASE Quiet(w) \/ Tells(w)
    <3>1. jobs'[j].state = jobs[j].state /\ SaidGrows(j, {})
      BY <1>1, <2>4, WorkersSay DEF Quiet, Tells, StatesStay
    <3> QED BY <2>3, <3>1 DEF PhaseMoves, PhaseStays, SaidGrows
  <2>5. ASSUME NEW s, Writes(w, s) PROVE PhaseMoves(j)
    <3>1. CASE JobOf(w) # j
      <4>1. jobs'[j].state = jobs[j].state /\ SaidGrows(j, {})
        BY <1>1, <2>5, <3>1, WorkersSay DEF Writes, JobSet
      <4> QED BY <2>3, <4>1 DEF PhaseMoves, PhaseStays, SaidGrows
    <3>2. CASE JobOf(w) = j
      <4>1. ~IsAbout(w, {"submit", "check"})
        BY <1>3, <1>7, <3>2 DEF IsAbout, Handles, JobOf
      <4>2. s = WSDJobStateDeleted
        BY <2>5, <4>1 DEF Writes, IsAbout
      <4>3. jobs'[j].state = s /\ SaidGrows(j, {s})
        BY <1>1, <2>5, <3>2, WorkersSay DEF Writes, JobSet
      <4> QED BY <2>3, <4>2, <4>3 DEF PhaseMoves, PhaseStays
    <3> QED BY <3>1, <3>2
  <2> QED BY <2>1, <2>4, <2>5
<1> QED BY <1>5, <1>6, <1>7

(* A step of the one background thread: it takes jobs up in phase 2, moves *)
(* one on, and lets go of it as it is asked about again or queued.         *)
LEMMA RoundsMovePhases ==
    ASSUME TypeOK, CompletionInv, HandsInv, AtMostOne(Pollers), ~AnswersMayBeLost,
           NEW b \in Pollers, PollerActs(b), NEW j \in Jobs, OneHand(j)'
    PROVE  PhaseMoves(j)
<1> DEFINE k == poller[b].job
           new == poller[b].new
<1>0. /\ OneHand(j) /\ RoundShape(b) /\ RoundIsSound(b) /\ \A d \in Pollers : d = b
      /\ poller[b] \in PollerRecord /\ poller \in [Pollers -> PollerRecord]
      /\ NoJob \notin Jobs /\ j # NoJob /\ poller[b].todo \in SUBSET Jobs
  BY SchedulerAssumption DEF HandsInv, RoundHolds, RoundShape, CompletionInv, RoundsAreSound,
     AtMostOne, TypeOK, PollerTypeOK, PollerRecord
<1>1. UNCHANGED <<worker, client>>
  BY DEF PollerActs
<1>2. /\ b \in RoundHandlers(j) <=> j \in Held(b)
      /\ b \in RoundHandlers(j)' <=> j \in Held(b)'
  BY DEF RoundHandlers, Held
<1>3. /\ j \in Held(b) => HandPhases(j) = {RoundPhase(b, j)}
      /\ \A n \in QueuedHandlers(j) : HandPhases(j) = {ItemPhase(hpcworkqueue[n])}
      /\ j \in Held(b)' => HandPhases(j)' = {RoundPhase(b, j)'}
      /\ \A n \in QueuedHandlers(j)' : HandPhases(j)' = {ItemPhase(hpcworkqueue'[n])}
  <2>1. OnePhase(j)
    BY <1>0, OneHandOnePhase
  <2>2. OnePhase(j)'
    BY OneHandOnePhaseNext
  <2> QED BY <1>2, <2>1, <2>2 DEF OnePhase
<1>4. ASSUME UNCHANGED hpcworkqueue \/ QueuedHandlers(j) \cup QueuedHandlers(j)' = {},
             j \in Held(b) <=> j \in Held(b)',
             j \in Held(b) => RoundPhase(b, j)' = RoundPhase(b, j)
      PROVE  HandPhases(j)' = HandPhases(j)
  <2>1. CASE j \in Held(b)
    BY <1>3, <1>4, <2>1
  <2>2. CASE j \notin Held(b)
    <3>1. RoundHandlers(j) = {} /\ RoundHandlers(j)' = {}
      BY <1>0, <1>2, <1>4, <2>2 DEF RoundHandlers
    <3>2. /\ QueuedHandlers(j)' = QueuedHandlers(j) /\ BusyHandlers(j)' = BusyHandlers(j)
          /\ RequestHandlers(j)' = RequestHandlers(j)
      BY <1>1, <1>4 DEF QueuedHandlers, BusyHandlers, RequestHandlers
    <3>3. /\ \A w : WorkerPhase(w)' = WorkerPhase(w)
          /\ \A c : ItemPhase(client'[c].item) = ItemPhase(client[c].item)
      BY <1>1 DEF WorkerPhase
    <3>4. {WorkerPhase(v) : v \in BusyHandlers(j)}' = {WorkerPhase(v) : v \in BusyHandlers(j)}
      BY <3>2, <3>3
    <3>5. {ItemPhase(hpcworkqueue[n]) : n \in QueuedHandlers(j)}'
          = {ItemPhase(hpcworkqueue[n]) : n \in QueuedHandlers(j)}
      BY <1>4, <3>2
    <3>6. {ItemPhase(client[c].item) : c \in RequestHandlers(j)}'
          = {ItemPhase(client[c].item) : c \in RequestHandlers(j)}
      BY <3>2, <3>3
    <3>7. {RoundPhase(d, j) : d \in RoundHandlers(j)}' = {RoundPhase(d, j) : d \in RoundHandlers(j)}
      BY <3>1
    <3> QED BY <3>4, <3>5, <3>6, <3>7 DEF HandPhases
  <2> QED BY <2>1, <2>2
<1>5. ASSUME UNCHANGED hpcworkqueue, j \in Held(b), j \notin Held(b)'
      PROVE  HandPhases(j)' = {}
  <2>1. QueuedHandlers(j) = {} /\ BusyHandlers(j) = {} /\ RequestHandlers(j) = {}
    BY <1>0, <1>2, <1>5 DEF OneHand
  <2>2. QueuedHandlers(j)' = {} /\ BusyHandlers(j)' = {} /\ RequestHandlers(j)' = {}
    BY <1>1, <1>5, <2>1 DEF QueuedHandlers, BusyHandlers, RequestHandlers
  <2>3. RoundHandlers(j)' = {}
    BY <1>0, <1>2, <1>5 DEF RoundHandlers
  <2> QED BY <2>2, <2>3 DEF HandPhases
<1>6. ASSUME NEW s, told'[j] \in {told[j], s} PROVE SaidGrows(j, {s})
  BY <1>1, <1>6 DEF SaidGrows, Said, JobOf
<1>7. UNCHANGED told => SaidGrows(j, {})
  BY <1>1 DEF SaidGrows, Said, JobOf
<1>8. ASSUME jobs'[j].state = jobs[j].state, SaidGrows(j, {}), HandPhases(j)' = HandPhases(j)
      PROVE  PhaseMoves(j)
  BY <1>8 DEF PhaseMoves, PhaseStays, SaidGrows
<1>9. poller[b].pc \notin {"announce", "enqueue"} => RoundPhase(b, j) = 2
  BY DEF RoundPhase
<1>10. poller'[b].pc \notin {"announce", "enqueue"} => RoundPhase(b, j)' = 2
  BY DEF RoundPhase
<1>11. ASSUME NextJob(b)
       PROVE  /\ j \in Held(b)' <=> j \in poller[b].todo
              /\ RoundPhase(b, j)' = 2
  <2>1. CASE poller[b].todo = {}
    <3>1. poller'[b] = Asleep
      BY <1>0, <1>11, <2>1 DEF NextJob
    <3> QED BY <1>0, <1>10, <2>1, <3>1 DEF Asleep, Held
  <2>2. CASE poller[b].todo # {}
    <3>1. poller' = [poller EXCEPT ![b] =
                        [poller[b] EXCEPT !.pc = "jobs", !.job = NoJob,
                                          !.old = NoRecord, !.new = NoRecord]]
      BY <1>0, <1>11, <2>2 DEF NextJob
    <3>2. /\ poller'[b].pc = "jobs" /\ poller'[b].job = NoJob
          /\ poller'[b].todo = poller[b].todo
      BY <1>0, <3>1 DEF PollerRecord
    <3> QED BY <1>0, <1>10, <3>2 DEF Held
  <2> QED BY <2>1, <2>2
<1>12. ASSUME NEW pc \in {"announce", "enqueue"}, poller' = [poller EXCEPT ![b].pc = pc]
       PROVE  /\ Held(b)' = Held(b)
              /\ RoundPhase(b, j)' = IF j = k THEN Phase(new) ELSE 2
  <2>1. /\ poller'[b].pc = pc /\ poller'[b].job = poller[b].job
        /\ poller'[b].todo = poller[b].todo /\ poller'[b].new = poller[b].new
    BY <1>0, <1>12 DEF PollerRecord
  <2> QED BY <1>12, <2>1 DEF Held, RoundPhase
(* the step after a written or announced state: on to the check, or not *)
<1>13. ASSUME \/ poller' = [poller EXCEPT ![b].pc = "announce"]
              \/ poller' = [poller EXCEPT ![b].pc = "enqueue"]
              \/ NextJob(b)
       PROVE  /\ j # k => /\ j \in Held(b) <=> j \in Held(b)'
                          /\ RoundPhase(b, j)' = 2
              /\ j = k => \/ j \in Held(b)' /\ RoundPhase(b, j)' = Phase(new)
                          \/ j \notin Held(b)' /\ NextJob(b)
  BY <1>0, <1>11, <1>12, <1>13 DEF Held, RoundShape
<1>14. j # k => RoundPhase(b, j) = 2
  BY DEF RoundPhase
<1>15. poller[b].pc \in {"update", "announce", "enqueue"} =>
          /\ k \in Jobs /\ new \in JobStates \ {WSDJobStateDeleted}
          /\ new # WSDJobStateInServiceQueue
          /\ Phase(new) = IF new = WSDJobStateCompletedInHPC THEN 3 ELSE 2
  <2>1. \A s \in {WSDJobStateCompletedInHPC}
                 \cup WSDJobStateInHPCQueue .. WSDJobStateSuspended :
           /\ s \in JobStates \ {WSDJobStateDeleted}
           /\ s # WSDJobStateInServiceQueue
           /\ s # WSDJobStateCompletedInHPC =>
                 s \in WSDJobStateInHPCQueue .. WSDJobStateSuspended
    BY DEF JobStates, WSDJobStateInServiceQueue, WSDJobStateInHPCQueue, WSDJobStateSuspended,
       WSDJobStateDeleted, WSDJobStateCompletedInHPC
  <2>2. poller[b].pc \in {"update", "announce", "enqueue"} =>
           /\ k \in Jobs
           /\ new \in {WSDJobStateCompletedInHPC}
                      \cup WSDJobStateInHPCQueue .. WSDJobStateSuspended
    BY <1>0 DEF RoundIsSound
  <2> HIDE DEF k, new
  <2> QED BY <2>1, <2>2, PhaseTable
<1> HIDE DEF k, new
<1>16. CASE PollSnapshot(b)
  <2>1. poller' = [poller EXCEPT ![b] = [poller[b] EXCEPT
                      !.pc = "list", !.todo = getAllSubmittedAndRunningJobsByHPCID]]
    BY <1>0, <1>16 DEF PollSnapshot
  <2>2. /\ poller'[b].pc = "list" /\ poller'[b].job = poller[b].job
        /\ poller'[b].todo = getAllSubmittedAndRunningJobsByHPCID
    BY <1>0, <2>1 DEF PollerRecord
  <2>3. j \notin Held(b) /\ poller[b].job = NoJob
    BY <1>0, <1>16 DEF PollSnapshot, RoundShape, Held
  <2>4. UNCHANGED <<jobs, told, hpcworkqueue>>
    BY <1>16 DEF PollSnapshot, sharedVars
  <2>5. CASE j \in getAllSubmittedAndRunningJobsByHPCID
    <3>1. jobs[j].state \in WSDJobStateInHPCQueue .. WSDJobStateSuspended
      BY <2>5 DEF getAllSubmittedAndRunningJobsByHPCID, WSDJobStateInHPCQueue,
         WSDJobStateRunning, WSDJobStateHeld, WSDJobStateMoved, WSDJobStateWaiting,
         WSDJobStateSuspended
    <3>2. HandPhases(j)' = {2}
      BY <1>3, <1>10, <2>2, <2>5 DEF Held
    <3> QED BY <1>7, <2>4, <3>1, <3>2 DEF PhaseMoves, PhaseListed
  <2>6. CASE j \notin getAllSubmittedAndRunningJobsByHPCID
    <3>1. j \notin Held(b)'
      BY <1>0, <2>2, <2>3, <2>6 DEF Held
    <3> QED BY <1>4, <1>7, <1>8, <2>3, <2>4, <3>1
  <2> QED BY <2>5, <2>6
<1>17. CASE PollList(b)
  <2>1. PICK listing :
           poller' = [poller EXCEPT ![b] = [poller[b] EXCEPT !.pc = "jobs", !.listing = listing]]
    BY <1>0, <1>17 DEF PollList
  <2>2. /\ poller'[b].pc = "jobs" /\ poller'[b].job = poller[b].job
        /\ poller'[b].todo = poller[b].todo /\ poller[b].pc = "list"
    BY <1>0, <1>17, <2>1 DEF PollerRecord, PollList
  <2>3. UNCHANGED <<jobs, told, hpcworkqueue>>
    BY <1>17 DEF PollList, sharedVars
  <2>4. j \in Held(b) <=> j \in Held(b)'
    BY <2>2 DEF Held
  <2> QED BY <1>4, <1>7, <1>8, <1>9, <1>10, <2>2, <2>3, <2>4
<1>18. ASSUME NEW i \in Jobs, PollRead(b, i) PROVE PhaseMoves(j)
  <2>1. poller' = [poller EXCEPT ![b] = [poller[b] EXCEPT
                      !.pc = "update", !.todo = @ \ {i}, !.job = i, !.old = jobs[i].state,
                      !.new = StateOf(poller[b].listing[i])]]
    BY <1>0, <1>18 DEF PollRead
  <2>2. /\ poller'[b].pc = "update" /\ poller'[b].job = i
        /\ poller'[b].todo = poller[b].todo \ {i}
    BY <1>0, <2>1 DEF PollerRecord
  <2>3. poller[b].pc = "jobs" /\ i \in poller[b].todo /\ UNCHANGED <<jobs, told, hpcworkqueue>>
    BY <1>18 DEF PollRead, sharedVars
  <2>4. j \in Held(b) <=> j \in Held(b)'
    BY <1>0, <2>2, <2>3 DEF Held, RoundShape
  <2> QED BY <1>4, <1>7, <1>8, <1>9, <1>10, <2>2, <2>3, <2>4
<1>19. CASE PollUpdate(b)
  <2>1. /\ poller[b].pc = "update" /\ UNCHANGED <<told, hpcworkqueue>> /\ setJobState(k, new)
        /\ \/ poller' = [poller EXCEPT ![b].pc = "announce"]
           \/ new = WSDJobStateCompletedInHPC /\ poller' = [poller EXCEPT ![b].pc = "enqueue"]
           \/ new # WSDJobStateCompletedInHPC /\ NextJob(b)
    BY <1>19 DEF PollUpdate, EnqueueOrNext, k, new
  <2>2. jobs'[j].state = IF j = k THEN new ELSE jobs[j].state
    BY <2>1, SetsOneJob DEF TypeOK, SchedulerTypeOK
  <2>3. CASE j # k
    <3>1. HandPhases(j)' = HandPhases(j)
      BY <1>4, <1>13, <1>14, <2>1, <2>3
    <3> QED BY <1>7, <1>8, <2>1, <2>2, <2>3, <3>1
  <2>4. CASE j = k
    <3>1. j \in Held(b)
      BY <2>4 DEF Held, k
    <3>2. HandPhases(j) = {2}
      BY <1>3, <1>9, <2>1, <3>1
    <3>3. \/ HandPhases(j)' = {Phase(new)}
          \/ HandPhases(j)' = {} /\ NextJob(b)
      BY <1>3, <1>5, <1>13, <2>1, <2>4, <3>1
    <3>4. NextJob(b) => new # WSDJobStateCompletedInHPC \/ HandPhases(j)' = {Phase(new)}
      <4>1. ASSUME NEW pc \in {"announce", "enqueue"}, poller' = [poller EXCEPT ![b].pc = pc]
            PROVE  HandPhases(j)' = {Phase(new)}
        BY <1>3, <1>12, <2>4, <3>1, <4>1
      <4> QED BY <2>1, <4>1
    <3>5. SaidGrows(j, {new})
      BY <1>7, <2>1 DEF SaidGrows
    <3>6. Follows(2, new)
      BY <1>0, <2>1 DEF RoundIsSound, Follows, new
    <3>7. /\ HandPhases(j)' \subseteq {Phase(new)}
          /\ Phase(new) \in {3, 4} => HandPhases(j)' # {}
      BY <1>15, <2>1, <3>3, <3>4
    <3> QED BY <2>2, <2>4, <3>2, <3>5, <3>6, <3>7, WritingMovesPhase
  <2> QED BY <2>3, <2>4
<1>20. CASE PollAnnounce(b)
  <2>1. /\ poller[b].pc = "announce" /\ UNCHANGED <<jobs, hpcworkqueue>>
        /\ told' = [told EXCEPT ![k] = new]
        /\ \/ new = WSDJobStateCompletedInHPC /\ poller' = [poller EXCEPT ![b].pc = "enqueue"]
           \/ new # WSDJobStateCompletedInHPC /\ NextJob(b)
    BY <1>20 DEF PollAnnounce, doCallback, EnqueueOrNext, dbVars, k, new
  <2>2. told'[j] = IF j = k THEN new ELSE told[j]
    BY <2>1 DEF TypeOK, SchedulerTypeOK
  <2>3. CASE j # k
    <3>1. HandPhases(j)' = HandPhases(j)
      BY <1>4, <1>13, <1>14, <2>1, <2>3
    <3>2. SaidGrows(j, {})
      BY <1>1, <2>2, <2>3 DEF SaidGrows, Said, JobOf
    <3> QED BY <1>8, <2>1, <3>1, <3>2
  <2>4. CASE j = k
    <3>1. j \in Held(b)
      BY <2>4 DEF Held, k
    <3>2. HandPhases(j) = {Phase(new)}
      BY <1>3, <2>1, <2>4, <3>1 DEF RoundPhase, k, new
    <3>3. HandPhases(j)' \subseteq HandPhases(j)
      BY <1>3, <1>5, <1>13, <2>1, <2>4, <3>1, <3>2
    <3>4. Phase(new) = 2 \/ HandPhases(j)' # {}
      BY <1>3, <1>12, <1>15, <2>1, <2>4, <3>1
    <3>5. SaidGrows(j, {new})
      BY <1>6, <2>2, <2>4
    <3> QED BY <1>15, <2>1, <3>2, <3>3, <3>4, <3>5 DEF PhaseMoves, PhaseTold
  <2> QED BY <2>3, <2>4
<1>21. CASE PollEnqueue(b)
  <2> DEFINE item == Work("check", k, jobs[k].package)
  <2>1. /\ poller[b].pc = "enqueue" /\ UNCHANGED <<jobs, told>> /\ NextJob(b)
        /\ addHPCWork(item)
    BY <1>21 DEF PollEnqueue, dbVars, k
  <2>2. /\ item \in WSHPCWork /\ hpcworkqueue \in Seq(WSHPCWork)
        /\ item.jobtype = "check" /\ item.job = k
    BY <1>15, <2>1, WorkTyped DEF TypeOK, SchedulerTypeOK, DatabaseTypeOK, JobRecord, Work,
       WorkType
  <2> HIDE DEF item
  <2>3. /\ IF j = k THEN QueuedHandlers(j)' = QueuedHandlers(j) \cup {Len(hpcworkqueue) + 1}
                    ELSE QueuedHandlers(j)' = QueuedHandlers(j)
        /\ hpcworkqueue'[Len(hpcworkqueue) + 1] = item
        /\ \A n \in QueuedHandlers(j) : hpcworkqueue'[n] = hpcworkqueue[n]
    <3>1. IF Handles(item, j)
          THEN QueuedHandlers(j)' = QueuedHandlers(j) \cup {Len(hpcworkqueue) + 1}
          ELSE QueuedHandlers(j)' = QueuedHandlers(j)
      BY <2>1, <2>2, QueueGrows
    <3>2. Handles(item, j) <=> j = k
      BY <2>2 DEF Handles
    <3>3. /\ hpcworkqueue'[Len(hpcworkqueue) + 1] = item
          /\ \A n \in 1 .. Len(hpcworkqueue) : hpcworkqueue'[n] = hpcworkqueue[n]
      BY <2>1, <2>2, AppendFacts DEF addHPCWork
    <3>4. QueuedHandlers(j) \subseteq 1 .. Len(hpcworkqueue)
      BY <2>2, LenProperties DEF QueuedHandlers
    <3> QED BY <3>1, <3>2, <3>3, <3>4
  <2>4. CASE j # k
    <3>1. (j \in Held(b) <=> j \in Held(b)') /\ RoundPhase(b, j)' = RoundPhase(b, j)
      BY <1>13, <1>14, <2>1, <2>4
    <3>2. CASE QueuedHandlers(j) = {}
      BY <1>4, <1>7, <1>8, <2>1, <2>3, <2>4, <3>1, <3>2
    <3>3. ASSUME NEW n \in QueuedHandlers(j) PROVE HandPhases(j)' = HandPhases(j)
      BY <1>3, <2>3, <2>4
    <3> QED BY <1>7, <1>8, <2>1, <3>2, <3>3
  <2>5. CASE j = k
    <3>1. j \in Held(b)
      BY <2>5 DEF Held, k
    <3>2. new = WSDJobStateCompletedInHPC
      BY <1>0, <2>1 DEF RoundIsSound, new
    <3>3. HandPhases(j) = {3}
      BY <1>3, <1>15, <2>1, <2>5, <3>1, <3>2 DEF RoundPhase, k, new
    <3>4. HandPhases(j)' = {3}
      BY <1>3, <2>2, <2>3, <2>5 DEF ItemPhase
    <3> QED BY <1>7, <1>8, <2>1, <3>3, <3>4
  <2> QED BY <2>4, <2>5
<1>22. CASE PollThrow(b)
  <2>1. /\ poller[b].pc \in {"list", "jobs", "update"} /\ poller' = [poller EXCEPT ![b] = Asleep]
        /\ UNCHANGED <<jobs, told, hpcworkqueue>>
    BY <1>22 DEF PollThrow, sharedVars
  <2>2. poller'[b] = Asleep
    BY <1>0, <2>1
  <2>3. j \notin Held(b)'
    BY <1>0, <2>2 DEF Asleep, Held
  <2>4. CASE j \in Held(b)
    <3>1. HandPhases(j) = {2} /\ HandPhases(j)' = {}
      BY <1>3, <1>5, <1>9, <2>1, <2>3, <2>4
    <3> QED BY <1>7, <2>1, <3>1 DEF PhaseMoves, PhaseDropped
  <2>5. CASE j \notin Held(b)
    BY <1>4, <1>7, <1>8, <2>1, <2>3, <2>5
  <2> QED BY <2>4, <2>5
<1>23. ~PollLoseAnswer(b)
  BY DEF PollLoseAnswer
<1> QED BY <1>16, <1>17, <1>18, <1>19, <1>20, <1>21, <1>22, <1>23 DEF PollerActs, PollerStep

(* A step of a request: it makes a job, or queues the item for it.         *)
LEMMA RequestsMovePhases ==
    ASSUME TypeOK, ItemsFit, ~AnswersMayBeLost, NEW c \in Clients, RequestIsAtItem(c),
           ClientActs(c), NEW j \in Jobs, OneHand(j), OneHand(j)'
    PROVE  PhaseMoves(j)
<1>0. /\ hpcworkqueue \in Seq(WSHPCWork) /\ j # NoJob /\ DatabaseTypeOK
      /\ client \in [Clients -> ClientRecord]
  BY SchedulerAssumption DEF TypeOK, SchedulerTypeOK, PagesTypeOK
<1>1. /\ UNCHANGED <<worker, poller, told>> /\ \A d \in Clients \ {c} : client'[d] = client[d]
  <2>1. UNCHANGED told
    BY DEF ClientActs, ClientStep, Enqueue, UploadPackage, SubmitJob, SubmitJobCreate, DeleteJob,
       DeletePackage, DeletePackageCheckState, DeletePackageRefuseState,
       DeletePackageCheckJobs, DeletePackageJobs, DeletePackageRow, RequestFails,
       RequestLosesAnswer, sharedVars
  <2> QED BY <2>1, RequestsGoOn DEF ClientActs
<1>2. /\ c \in RequestHandlers(j) <=> Handles(client[c].item, j)
      /\ c \in RequestHandlers(j)' <=> Handles(client'[c].item, j)
  BY DEF RequestHandlers, Handles
<1>3. /\ c \in RequestHandlers(j) => HandPhases(j) = {ItemPhase(client[c].item)}
      /\ \A n \in QueuedHandlers(j) : HandPhases(j) = {ItemPhase(hpcworkqueue[n])}
      /\ c \in RequestHandlers(j)' => HandPhases(j)' = {ItemPhase(client'[c].item)}
      /\ \A n \in QueuedHandlers(j)' : HandPhases(j)' = {ItemPhase(hpcworkqueue'[n])}
  <2>1. OnePhase(j)
    BY OneHandOnePhase
  <2>2. OnePhase(j)'
    BY OneHandOnePhaseNext
  <2> QED BY <2>1, <2>2 DEF OnePhase
<1>4. ASSUME UNCHANGED hpcworkqueue \/ QueuedHandlers(j) \cup QueuedHandlers(j)' = {},
             c \notin RequestHandlers(j), c \notin RequestHandlers(j)'
      PROVE  HandPhases(j)' = HandPhases(j)
  <2>1. /\ QueuedHandlers(j)' = QueuedHandlers(j) /\ BusyHandlers(j)' = BusyHandlers(j)
        /\ RoundHandlers(j)' = RoundHandlers(j)
    BY <1>1, <1>4 DEF QueuedHandlers, BusyHandlers, RoundHandlers
  <2>2. /\ RequestHandlers(j)' = RequestHandlers(j)
        /\ \A d \in RequestHandlers(j) : client'[d] = client[d]
    BY <1>1, <1>4 DEF RequestHandlers
  <2>3. /\ \A w : WorkerPhase(w)' = WorkerPhase(w)
        /\ \A b : RoundPhase(b, j)' = RoundPhase(b, j)
    BY <1>1 DEF WorkerPhase, RoundPhase
  <2>4. {WorkerPhase(v) : v \in BusyHandlers(j)}' = {WorkerPhase(v) : v \in BusyHandlers(j)}
    BY <2>1, <2>3
  <2>5. {ItemPhase(hpcworkqueue[n]) : n \in QueuedHandlers(j)}'
        = {ItemPhase(hpcworkqueue[n]) : n \in QueuedHandlers(j)}
    BY <1>4, <2>1
  <2>6. {ItemPhase(client[d].item) : d \in RequestHandlers(j)}'
        = {ItemPhase(client[d].item) : d \in RequestHandlers(j)}
    BY <2>2
  <2>7. {RoundPhase(b, j) : b \in RoundHandlers(j)}' = {RoundPhase(b, j) : b \in RoundHandlers(j)}
    BY <2>1, <2>3
  <2> QED BY <2>4, <2>5, <2>6, <2>7 DEF HandPhases
<1>5. SaidGrows(j, {})
  BY <1>1 DEF SaidGrows, Said, JobOf
<1>6. ASSUME jobs'[j].state \in {jobs[j].state, WSDJobStateDeleted}, HandPhases(j)' = HandPhases(j)
      PROVE  PhaseMoves(j)
  BY <1>5, <1>6 DEF PhaseMoves, PhaseStays, SaidGrows
<1>7. CASE Enqueue(c)
  <2> DEFINE item == client[c].item
  <2>1. /\ addHPCWork(item) /\ item \in WSHPCWork /\ UNCHANGED jobs
        /\ client' = [client EXCEPT ![c] = NoRequest]
    BY <1>0, <1>7 DEF Enqueue, dbVars, ClientRecord
  <2>2. c \notin RequestHandlers(j)'
    BY <1>0, <1>2, <2>1 DEF Handles, NoRequest, Work
  <2> HIDE DEF item
  <2>3. /\ IF Handles(item, j)
           THEN QueuedHandlers(j)' = QueuedHandlers(j) \cup {Len(hpcworkqueue) + 1}
           ELSE QueuedHandlers(j)' = QueuedHandlers(j)
        /\ hpcworkqueue'[Len(hpcworkqueue) + 1] = item
        /\ \A n \in QueuedHandlers(j) : hpcworkqueue'[n] = hpcworkqueue[n]
    <3>1. IF Handles(item, j)
          THEN QueuedHandlers(j)' = QueuedHandlers(j) \cup {Len(hpcworkqueue) + 1}
          ELSE QueuedHandlers(j)' = QueuedHandlers(j)
      BY <1>0, <2>1, QueueGrows
    <3>2. /\ hpcworkqueue'[Len(hpcworkqueue) + 1] = item
          /\ \A n \in 1 .. Len(hpcworkqueue) : hpcworkqueue'[n] = hpcworkqueue[n]
      BY <1>0, <2>1, AppendFacts DEF addHPCWork
    <3>3. QueuedHandlers(j) \subseteq 1 .. Len(hpcworkqueue)
      BY <1>0, LenProperties DEF QueuedHandlers
    <3> QED BY <3>1, <3>2, <3>3
  <2>4. CASE Handles(item, j)
    <3>1. HandPhases(j) = {ItemPhase(item)}
      BY <1>2, <1>3, <2>4 DEF item
    <3>2. HandPhases(j)' = {ItemPhase(item)}
      BY <1>3, <2>3, <2>4
    <3> QED BY <1>6, <2>1, <3>1, <3>2
  <2>5. CASE ~Handles(item, j)
    <3>1. CASE QueuedHandlers(j) = {}
      BY <1>2, <1>4, <1>6, <2>1, <2>2, <2>3, <2>5, <3>1 DEF item
    <3>2. ASSUME NEW n \in QueuedHandlers(j) PROVE HandPhases(j)' = HandPhases(j)
      BY <1>3, <2>3, <2>5
    <3> QED BY <1>6, <2>1, <3>1, <3>2
  <2> QED BY <2>4, <2>5
<1>8. CASE ~Enqueue(c)
  <2>1. UNCHANGED hpcworkqueue /\ client[c].pc # "enqueue"
    BY <1>8 DEF ClientActs, ClientStep, UploadPackage, SubmitJob, SubmitJobCreate, DeleteJob,
           DeletePackage, DeletePackageCheckState, DeletePackageRefuseState, Begin, Asked,
           DeletePackageCheckJobs, DeletePackageJobs, DeletePackageRow, RequestFails,
           RequestLosesAnswer, sharedVars
  <2>2. c \notin RequestHandlers(j)
    BY <1>0, <1>2, <2>1 DEF RequestIsAtItem, Handles, ItemsFit
  <2>3. CASE c \notin RequestHandlers(j)'
    <3>1. HandPhases(j)' = HandPhases(j)
      BY <1>4, <2>1, <2>2, <2>3
    <3>2. jobs'[j].state \in {jobs[j].state, WSDJobStateDeleted}
      <4>1. CASE SubmitJobCreate(c)
        <5>1. PICK i \in Jobs : createJob(i, PackageIn(c)) /\ client'[c].item.job = i
                                /\ client'[c].item.jobtype = "submit"
          <6>1. PICK i \in Jobs : /\ createJob(i, PackageIn(c))
                                  /\ client' = [client EXCEPT ![c].pc = "enqueue",
                                                              ![c].item.job = i]
            BY <4>1 DEF SubmitJobCreate
          <6>2. client[c].item \in WSHPCWork
            BY <1>0 DEF ClientRecord
          <6>3. client'[c].item.job = i /\ client'[c].item.jobtype = client[c].item.jobtype
            BY <1>0, <6>1, <6>2 DEF ClientRecord, WSHPCWork
          <6>4. client[c].item.jobtype = "submit"
            BY <4>1 DEF SubmitJobCreate, Asked, ItemsFit
          <6> QED BY <6>1, <6>3, <6>4
        <5>2. i # j
          BY <1>2, <2>3, <5>1 DEF Handles
        <5> QED BY <1>0, <5>1, <5>2 DEF createJob, DatabaseTypeOK
      <4>2. CASE DeletePackageJobs(c)
        BY <1>0, <4>2 DEF DeletePackageJobs, setJobsDeleted, DatabaseTypeOK, JobRecord
      <4>3. CASE ~SubmitJobCreate(c) /\ ~DeletePackageJobs(c)
        <5>1. UNCHANGED jobs
          BY <1>8, <4>3 DEF ClientActs, ClientStep, UploadPackage, createPackage, SubmitJob,
             DeleteJob, DeletePackage, DeletePackageCheckState, DeletePackageRefuseState,
             DeletePackageCheckJobs, DeletePackageRow, setPackageDeleted, updatePackageState,
             RequestFails, RequestLosesAnswer, sharedVars, dbVars
        <5> QED BY <5>1
      <4> QED BY <4>1, <4>2, <4>3
    <3> QED BY <1>6, <3>1, <3>2
  <2>4. CASE c \in RequestHandlers(j)'
    <3>1. client'[c].item.jobtype \in {"submit", "check"} /\ client'[c].item.job = j
      BY <2>4 DEF RequestHandlers, Handles
    <3>2. createJob(j, PackageIn(c)) /\ client'[c].item.jobtype = "submit"
      BY <1>0, <3>1, RequestsGoOn
    <3>3. jobs[j].state = NoRecord /\ jobs'[j].state = WSDJobStateInServiceQueue
      BY <1>0, <3>2 DEF createJob, DatabaseTypeOK
    <3>4. HandPhases(j)' = {1}
      BY <1>3, <2>4, <3>2 DEF ItemPhase
    <3> QED BY <1>5, <3>3, <3>4 DEF PhaseMoves, PhaseMade
  <2> QED BY <2>3, <2>4
<1> QED BY <1>7, <1>8

(* So every step moves a job from phase to phase.                          *)
LEMMA StepMovesPhases ==
    ASSUME TypeOK, CompletionInv, HandsInv, HandsInv', PhasesInv, AtMostOne(Pollers),
           ~AnswersMayBeLost, [Next]_vars, NEW j \in Jobs
    PROVE  PhaseMoves(j)
<1>0. OneHand(j) /\ OneHand(j)' /\ ItemsFit
  BY DEF HandsInv, CompletionInv
<1>1. CASE UNCHANGED <<hpcworkqueue, worker, poller, client, jobs, told>>
  <2>1. HandPhases(j)' = HandPhases(j)
    BY <1>1 DEF HandPhases, QueuedHandlers, BusyHandlers, RoundHandlers, RequestHandlers,
       WorkerPhase, RoundPhase
  <2>2. SaidGrows(j, {})
    BY <1>1 DEF SaidGrows, Said, JobOf
  <2> QED BY <1>1, <2>1, <2>2 DEF PhaseMoves, PhaseStays, SaidGrows
<1>2. CASE Crash
  <2>1. /\ hpcworkqueue' = <<>> /\ worker' = [w \in Workers |-> Idle]
        /\ poller' = [b \in Pollers |-> Asleep] /\ client' = [c \in Clients |-> NoRequest]
        /\ UNCHANGED <<jobs, told>> /\ crashes' = crashes + 1
    BY <1>2 DEF Crash, dbVars
  <2>2. /\ QueuedHandlers(j)' = {} /\ BusyHandlers(j)' = {}
        /\ RoundHandlers(j)' = {} /\ RequestHandlers(j)' = {}
    BY <2>1, SchedulerAssumption DEF QueuedHandlers, BusyHandlers, RoundHandlers,
       RequestHandlers, Idle, Asleep, NoRequest, Handles, Work
  <2>3. HandPhases(j)' = {}
    BY <2>2 DEF HandPhases
  <2>4. SaidGrows(j, {})
    BY <2>1 DEF SaidGrows, Said, Idle, JobOf
  <2>5. crashes' # 0
    BY <2>1 DEF TypeOK
  <2> QED BY <2>1, <2>3, <2>4, <2>5 DEF PhaseMoves, PhaseDropped
<1>3. ASSUME NEW w \in Workers, WorkerActs(w) PROVE PhaseMoves(j)
  BY <1>0, <1>3, WorkersMovePhases DEF PhasesInv
<1>4. ASSUME NEW b \in Pollers, PollerActs(b) PROVE PhaseMoves(j)
  BY <1>0, <1>4, RoundsMovePhases
<1>5. ASSUME NEW c \in Clients, ClientActs(c) PROVE PhaseMoves(j)
  BY <1>0, <1>5, RequestsMovePhases DEF PhasesInv
<1>6. CASE \E i \in Jobs : HpcActs(i)
  BY <1>1, <1>6 DEF HpcActs, threadVars, dbVars
<1>7. CASE UNCHANGED vars
  BY <1>1, <1>7 DEF vars
<1> QED BY <1>2, <1>3, <1>4, <1>5, <1>6, <1>7 DEF Next

(* Workers stay at the items they have, and requests at theirs.            *)
LEMMA StepStaysAtItems ==
    ASSUME TypeOK, ItemsFit, ~AnswersMayBeLost, PhasesInv, [Next]_vars
    PROVE  /\ \A w \in Workers : WorkerIsAtItem(w)'
           /\ \A c \in Clients : RequestIsAtItem(c)'
<1>0. /\ \A w \in Workers : WorkerIsAtItem(w)
      /\ \A c \in Clients : RequestIsAtItem(c)
  BY DEF PhasesInv
<1>1. UNCHANGED worker => \A w \in Workers : WorkerIsAtItem(w)'
  BY <1>0 DEF WorkerIsAtItem
<1>2. UNCHANGED client => \A c \in Clients : RequestIsAtItem(c)'
  BY <1>0 DEF RequestIsAtItem
<1>3. CASE UNCHANGED <<worker, client>>
  BY <1>1, <1>2, <1>3
<1>4. CASE Crash
  <2>1. /\ worker' = [w \in Workers |-> Idle] /\ client' = [c \in Clients |-> NoRequest]
    BY <1>4 DEF Crash
  <2>2. \A w \in Workers : WorkerIsAtItem(w)'
    BY <2>1 DEF WorkerIsAtItem, Idle
  <2>3. \A c \in Clients : RequestIsAtItem(c)'
    BY <2>1 DEF RequestIsAtItem, NoRequest, Work
  <2> QED BY <2>2, <2>3
<1>5. ASSUME NEW w \in Workers, WorkerActs(w)
      PROVE  /\ \A v \in Workers : WorkerIsAtItem(v)'
             /\ \A c \in Clients : RequestIsAtItem(c)'
  <2>1. UNCHANGED client /\ \A v \in Workers \ {w} : worker'[v] = worker[v]
    BY <1>5, WorkersGoOn
  <2>2. \A v \in Workers \ {w} : WorkerIsAtItem(v)'
    BY <1>0, <2>1 DEF WorkerIsAtItem
  <2>3. CASE TakeWork(w)
    <3> DEFINE item == Head(hpcworkqueue)
    <3>1. item.jobtype \in WorkType
      <4>1. item \in WSHPCWork
        BY <2>3, QueueShrinks DEF TakeWork, TypeOK, SchedulerTypeOK
      <4> QED BY <4>1 DEF WSHPCWork
    <3>2. worker' = [worker EXCEPT ![w] = [pc |-> FirstStep[item.jobtype], item |-> item,
                                           ok |-> FALSE, due |-> NoRecord]]
      BY <2>3 DEF TakeWork
    <3> HIDE DEF item
    <3>3. /\ worker'[w].item = item /\ worker'[w].pc = FirstStep[item.jobtype]
          /\ worker'[w].due = NoRecord
      BY <3>2 DEF TypeOK, WorkerTypeOK
    <3>4. WorkerIsAtItem(w)'
      BY <3>1, <3>3 DEF WorkType, FirstStep, WorkerIsAtItem
    <3> QED BY <1>2, <2>1, <2>2, <3>4
  <2>4. CASE ~TakeWork(w)
    BY <1>0, <1>2, <1>5, <2>1, <2>2, <2>4, WorkerPaths
  <2> QED BY <2>3, <2>4
<1>6. ASSUME NEW c \in Clients, ClientActs(c)
      PROVE  /\ \A w \in Workers : WorkerIsAtItem(w)'
             /\ \A d \in Clients : RequestIsAtItem(d)'
  <2>1. UNCHANGED worker /\ \A d \in Clients \ {c} : client'[d] = client[d]
    BY <1>6, RequestsGoOn DEF ClientActs
  <2>2. RequestIsAtItem(c)'
    BY <1>6, RequestsGoOn DEF RequestIsAtItem
  <2>3. \A d \in Clients \ {c} : RequestIsAtItem(d)'
    BY <1>0, <2>1 DEF RequestIsAtItem
  <2> QED BY <1>1, <2>1, <2>2, <2>3
<1>7. CASE \E b \in Pollers : PollerActs(b)
  BY <1>3, <1>7 DEF PollerActs
<1>8. CASE \E j \in Jobs : HpcActs(j)
  BY <1>3, <1>8 DEF HpcActs, threadVars
<1>9. CASE UNCHANGED vars
  BY <1>3, <1>9 DEF vars
<1> QED BY <1>4, <1>5, <1>6, <1>7, <1>8, <1>9 DEF Next

(* So hands and states stay in phase,                                      *)
LEMMA StepKeepsPhases ==
    ASSUME TypeOK, TypeOK', CompletionInv, HandsInv, HandsInv', PhasesInv, AtMostOne(Pollers),
           ~AnswersMayBeLost, [Next]_vars
    PROVE  PhasesInv'
<1>1. ASSUME NEW j \in Jobs PROVE HandsInPhase(j)'
  <2>1. HandsInPhase(j) /\ HandPhases(j) \subseteq 1 .. 4
    BY PhasesOfHands DEF PhasesInv, CompletionInv
  <2>2. PhaseMoves(j)
    BY StepMovesPhases
  <2> QED BY <2>1, <2>2, PhasesKept
<1>2. /\ \A w \in Workers : WorkerIsAtItem(w)'
      /\ \A c \in Clients : RequestIsAtItem(c)'
  BY StepStaysAtItems DEF CompletionInv
<1> QED BY <1>1, <1>2 DEF PhasesInv

(* At the start nobody holds a job and nothing was said.                   *)
LEMMA InitPhases == Init => PhasesInv
<1> SUFFICES ASSUME Init PROVE PhasesInv
  OBVIOUS
<1>1. /\ worker = [w \in Workers |-> Idle] /\ client = [c \in Clients |-> NoRequest]
      /\ told = [j \in Jobs |-> NoRecord]
      /\ \A j \in Jobs : jobs[j].state = NoRecord
  BY DEF Init, SchedulerInit, WorkerInit, PagesInit, DatabaseInit
<1>2. \A w \in Workers : WorkerIsAtItem(w)
  BY <1>1 DEF WorkerIsAtItem, Idle
<1>3. \A c \in Clients : RequestIsAtItem(c)
  BY <1>1 DEF RequestIsAtItem, NoRequest, Work
<1>4. ASSUME NEW j \in Jobs PROVE HandsInPhase(j)
  <2>1. /\ QueuedHandlers(j) \cup BusyHandlers(j) \cup RoundHandlers(j) \cup RequestHandlers(j)
           = {}
    BY <1>1, InitHands DEF HandsInv, OneHand
  <2>2. HandPhases(j) = {}
    BY <2>1, NoHandNoPhase
  <2>3. Said(j) = {NoRecord}
    BY <1>1 DEF Said, Idle, JobOf
  <2>4. SaidUpTo(j, Phase(jobs[j].state))
    <3>1. Phase(NoRecord) <= Phase(NoRecord)
      BY PhaseTable
    <3> QED BY <1>1, <2>3, <3>1 DEF SaidUpTo
  <2> QED BY <2>2, <2>4 DEF HandsInPhase
<1> QED BY <1>2, <1>3, <1>4 DEF PhasesInv

(* whatever the steps.                                                     *)
LEMMA PhasesInvariance ==
    ASSUME AtMostOne(Pollers), ~AnswersMayBeLost
    PROVE  Spec => []PhasesInv
<1>1. PhasesInv /\ Inv /\ Inv' /\ HandsInv /\ HandsInv' /\ [Next]_vars => PhasesInv'
  BY StepKeepsPhases DEF Inv
<1> QED BY <1>1, InitPhases, HandsInvariance, Invariance, PTL DEF Spec

(* With one background thread, and if no statement is executed and taken   *)
(* for failed, a job never goes back until it is deleted, and a result     *)
(* once reported stands: whatever fails, crashes and is deleted, for any   *)
(* number of jobs, threads and requests.                                   *)
THEOREM JobsNeverGoBack ==
    ASSUME AtMostOne(Pollers), ~AnswersMayBeLost
    PROVE  Spec => JobNeverGoesBack
<1> DEFINE Step == \A j \in Jobs : jobs[j].state # WSDJobStateDeleted
               => /\ Phase(jobs'[j].state) >= Phase(jobs[j].state)
                  /\ Phase(jobs[j].state) = 5
                        => jobs'[j].state \in {jobs[j].state, WSDJobStateDeleted}
<1>1. PhasesInv /\ Inv /\ HandsInv /\ HandsInv' /\ [Next]_vars => Step
  <2> SUFFICES ASSUME PhasesInv, Inv, HandsInv, HandsInv', [Next]_vars, NEW j \in Jobs,
                      jobs[j].state # WSDJobStateDeleted
               PROVE  /\ Phase(jobs'[j].state) >= Phase(jobs[j].state)
                      /\ Phase(jobs[j].state) = 5
                            => jobs'[j].state \in {jobs[j].state, WSDJobStateDeleted}
    OBVIOUS
  <2>1. PhaseMoves(j)
    BY StepMovesPhases DEF Inv
  <2>2. /\ jobs[j].state \in {NoRecord} \cup JobStates
        /\ \A s \in {NoRecord} \cup JobStates : Phase(s) \in 0 .. 6
    BY PhaseTable DEF Inv, TypeOK, SchedulerTypeOK, DatabaseTypeOK, JobRecord
  <2>3. CASE jobs'[j].state = jobs[j].state
    BY <2>2, <2>3
  <2>4. CASE jobs'[j].state = WSDJobStateDeleted
    BY <2>2, <2>4, PhaseTable
  <2>5. CASE PhaseMade(j)
    BY <2>5, PhaseTable DEF PhaseMade
  <2>6. CASE PhaseWritten(j)
    <3>1. PICK n \in 1 .. 4, s \in JobStates \ {WSDJobStateDeleted} :
             HandPhases(j) = {n} /\ Phase(s) >= n /\ jobs'[j].state = s
      BY <2>6, WhatFollows DEF PhaseWritten
    <3>2. Phase(jobs[j].state) = n
      BY <3>1 DEF PhasesInv, HandsInPhase, InPhase
    <3> QED BY <3>1, <3>2
  <2> QED BY <2>1, <2>3, <2>4, <2>5, <2>6 DEF PhaseMoves, PhaseStays, PhaseDropped, PhaseListed,
             PhaseTold
<1>2. Spec => [][Step]_vars
  BY <1>1, PhasesInvariance, HandsInvariance, Invariance, PTL DEF Spec
<1> QED BY <1>2 DEF JobNeverGoesBack

(* What is announced comes late, or is not less than what was announced.   *)
LEMMA StepTellsInOrder ==
    ASSUME TypeOK, CompletionInv, PhasesInv, ~AnswersMayBeLost, [Next]_vars,
           NEW j \in Jobs, told[j] # WSDJobStateDeleted
    PROVE  Phase(told'[j]) >= Phase(told[j]) \/ told'[j] = WSDJobStateInHPCQueue
<1> DEFINE Goal == Phase(told'[j]) >= Phase(told[j]) \/ told'[j] = WSDJobStateInHPCQueue
<1>0. /\ told[j] \in {NoRecord} \cup JobStates /\ told \in [Jobs -> {NoRecord} \cup JobStates]
      /\ Phase(told[j]) \in 0 .. 5
  <2>1. told[j] \in {NoRecord} \cup JobStates /\ told \in [Jobs -> {NoRecord} \cup JobStates]
    BY DEF TypeOK, SchedulerTypeOK
  <2>2. Phase(told[j]) \in 0 .. 6 /\ Phase(told[j]) # 6
    BY <2>1, PhaseTable
  <2> QED BY <2>1, <2>2
<1>1. UNCHANGED told => Goal
  BY <1>0
<1>2. \A n \in HandPhases(j) : Phase(told[j]) <= n
  BY DEF PhasesInv, HandsInPhase, InPhase, SaidUpTo, Said
<1>3. ASSUME NEW w \in Workers, WorkerActs(w) PROVE Goal
  <2>1. WorkerIsAtItem(w)
    BY DEF PhasesInv
  <2>2. CASE TakeWork(w)
    BY <1>1, <2>2 DEF TakeWork
  <2>3. CASE ~TakeWork(w)
    <3>1. Quiet(w) \/ Tells(w) \/ \E s : Writes(w, s)
      BY <1>3, <2>1, <2>3, WorkerPaths
    <3>2. Quiet(w) \/ (\E s : Writes(w, s)) => UNCHANGED told
      BY DEF Quiet, Writes
    <3>3. CASE Tells(w) /\ JobOf(w) # j
      BY <1>0, <3>3 DEF Tells
    <3>4. CASE Tells(w) /\ JobOf(w) = j
      <4>1. told'[j] = worker[w].due /\ worker[w].due # NoRecord
        BY <1>0, <3>4 DEF Tells
      <4>2. CASE worker[w].due \in {WSDJobStateDeleted, WSDJobStateError,
                                    WSDJobOutputStateTransferDone, WSDJobStateInHPCQueue}
        BY <1>0, <4>1, <4>2, PhaseTable
      <4>3. CASE worker[w].pc = "c_finish" /\ worker[w].due = WSDJobOutputStateTransferring
        <5>1. w \in BusyHandlers(j) /\ WorkerPhase(w) = 4
          BY <2>1, <3>4, <4>3 DEF WorkerIsAtItem, BusyHandlers, Handles, JobOf, WorkerPhase
        <5>2. Phase(told[j]) <= 4
          BY <1>2, <5>1 DEF HandPhases
        <5> QED BY <1>0, <4>1, <4>3, <5>2, PhaseTable
      <4> QED BY <2>1, <4>1, <4>2, <4>3 DEF WorkerIsAtItem
    <3> QED BY <1>1, <3>1, <3>2, <3>3, <3>4
  <2> QED BY <2>2, <2>3
<1>4. ASSUME NEW b \in Pollers, PollerActs(b) PROVE Goal
  <2>1. CASE PollAnnounce(b)
    <3>1. told' = [told EXCEPT ![poller[b].job] = poller[b].new] /\ poller[b].pc = "announce"
      BY <2>1 DEF PollAnnounce, doCallback
    <3>2. CASE poller[b].job = j
      <4>1. b \in RoundHandlers(j) /\ RoundPhase(b, j) = Phase(poller[b].new)
        BY <3>1, <3>2 DEF RoundHandlers, RoundPhase
      <4>2. Phase(told[j]) <= Phase(poller[b].new)
        BY <1>2, <4>1 DEF HandPhases
      <4>3. Phase(poller[b].new) \in 0 .. 6
        BY PhaseTable DEF TypeOK, PollerTypeOK, PollerRecord
      <4> QED BY <1>0, <3>1, <3>2, <4>2, <4>3
    <3>3. CASE poller[b].job # j
      BY <1>0, <3>1, <3>3
    <3> QED BY <3>2, <3>3
  <2>2. CASE ~PollAnnounce(b)
    <3>1. UNCHANGED told
      BY <1>4, <2>2 DEF PollerActs, PollerStep, PollSnapshot, PollList, PollRead, PollUpdate,
         PollEnqueue, PollThrow, PollLoseAnswer, sharedVars
    <3> QED BY <1>1, <3>1
  <2> QED BY <2>1, <2>2
<1>5. ASSUME NEW c \in Clients, ClientActs(c) PROVE Goal
  <2>1. UNCHANGED told
    BY <1>5 DEF ClientActs, ClientStep, Enqueue, UploadPackage, SubmitJob, SubmitJobCreate,
       DeleteJob, DeletePackage, DeletePackageCheckState, DeletePackageRefuseState,
       DeletePackageCheckJobs, DeletePackageJobs, DeletePackageRow, RequestFails,
       RequestLosesAnswer, sharedVars
  <2> QED BY <1>1, <2>1
<1>6. CASE \E i \in Jobs : HpcActs(i)
  BY <1>1, <1>6 DEF HpcActs
<1>7. CASE Crash \/ UNCHANGED vars
  BY <1>1, <1>7 DEF Crash, vars
<1> QED BY <1>3, <1>4, <1>5, <1>6, <1>7 DEF Next

(* Under the same assumptions the callbacks of a job come in the order in  *)
(* which it goes on, but for a late one of its submission and those after  *)
(* its deletion.                                                           *)
THEOREM CallbacksComeInOrder ==
    ASSUME AtMostOne(Pollers), ~AnswersMayBeLost
    PROVE  Spec => CallbacksInOrder
<1> DEFINE Step == \A j \in Jobs : told[j] # WSDJobStateDeleted
               => Phase(told'[j]) >= Phase(told[j]) \/ told'[j] = WSDJobStateInHPCQueue
<1>1. PhasesInv /\ Inv /\ [Next]_vars => Step
  BY StepTellsInOrder DEF Inv
<1>2. Spec => [][Step]_vars
  BY <1>1, PhasesInvariance, Invariance, PTL DEF Spec
<1> QED BY <1>2 DEF CallbacksInOrder

(* A job to be moved on stays in hand, but for a crash.                    *)
LEMMA StepKeepsJobsInHand ==
    ASSUME TypeOK, CompletionInv, HandsInv, HandsInv', PhasesInv, JobsAreInHand,
           AtMostOne(Pollers), ~AnswersMayBeLost, ~DbMayFail, [Next]_vars
    PROVE  JobsAreInHand'
<1> DEFINE ToMoveOn == {WSDJobStateInServiceQueue, WSDJobStateCompletedInHPC,
                        WSDJobOutputStateTransferring}
<1>1. crashes' = 0 => crashes = 0
  BY DEF Next, vars, WorkerActs, PollerActs, ClientActs, HpcActs, Crash, TypeOK
<1> SUFFICES ASSUME crashes' = 0, NEW j \in Jobs, jobs'[j].state \in ToMoveOn
             PROVE  HandPhases(j)' # {}
  BY DEF JobsAreInHand
<1>2. /\ PhaseMoves(j) /\ \A n \in HandPhases(j) : InPhase(j, n)
      /\ jobs[j].state \in ToMoveOn => HandPhases(j) # {}
  BY <1>1, StepMovesPhases DEF PhasesInv, HandsInPhase, JobsAreInHand
<1>3. /\ \A s \in ToMoveOn : Phase(s) \in {1, 3, 4} /\ s # WSDJobStateDeleted
  BY PhaseTable
<1>4. ASSUME jobs[j].state \in ToMoveOn, HandPhases(j) = {2} PROVE FALSE
  BY <1>2, <1>3, <1>4 DEF InPhase
<1>5. CASE PhaseStays(j)
  BY <1>2, <1>3, <1>5 DEF PhaseStays
<1>6. CASE PhaseDropped(j)
  BY <1>4, <1>6 DEF PhaseDropped
<1>7. CASE PhaseListed(j) \/ PhaseMade(j)
  BY <1>7 DEF PhaseListed, PhaseMade
<1>8. CASE PhaseWritten(j)
  BY <1>8, PhaseTable, WhatFollows DEF PhaseWritten
<1>9. CASE PhaseTold(j)
  BY <1>2, <1>4, <1>9 DEF PhaseTold
<1> QED BY <1>2, <1>5, <1>6, <1>7, <1>8, <1>9 DEF PhaseMoves

(* And if the catch blocks can write their errors, no job is forgotten     *)
(* before a crash: one that is neither settled nor asked about is in       *)
(* somebody's hands.                                                       *)
THEOREM NoJobIsForgotten ==
    ASSUME AtMostOne(Pollers), ~AnswersMayBeLost, ~DbMayFail
    PROVE  Spec => []NoJobForgotten
<1>1. Init => JobsAreInHand
  <2> SUFFICES ASSUME Init, NEW j \in Jobs
               PROVE  jobs[j].state \notin {WSDJobStateInServiceQueue, WSDJobStateCompletedInHPC,
                                            WSDJobOutputStateTransferring}
    BY DEF JobsAreInHand
  <2>1. jobs[j].state = NoRecord
    BY DEF Init, SchedulerInit, DatabaseInit
  <2> QED BY <2>1, PhaseTable
<1>2. JobsAreInHand /\ PhasesInv /\ Inv /\ HandsInv /\ HandsInv' /\ [Next]_vars
         => JobsAreInHand'
  BY StepKeepsJobsInHand DEF Inv
<1>3. JobsAreInHand /\ HandsInv => NoJobForgotten
  <2> SUFFICES ASSUME JobsAreInHand, HandsInv, crashes = 0, NEW j \in Jobs,
                      jobs[j].state \in {WSDJobStateInServiceQueue, WSDJobStateCompletedInHPC,
                                         WSDJobOutputStateTransferring}
               PROVE  Handlers(j) = 1
    BY DEF NoJobForgotten
  <2>1. QueuedHandlers(j) \cup BusyHandlers(j) \cup RoundHandlers(j) \cup RequestHandlers(j) # {}
    BY NoHandNoPhase DEF JobsAreInHand
  <2>2. OneHand(j)
    BY DEF HandsInv
  <2>3. Handlers(j) = 1
    BY <2>1, <2>2, OneHandCounts
  <2> QED BY <2>3
<1>4. Spec => []JobsAreInHand
  BY <1>1, <1>2, PhasesInvariance, HandsInvariance, Invariance, PTL DEF Spec
<1> QED BY <1>3, <1>4, HandsInvariance, PTL

-----------------------------------------------------------------------------
(* Packages: one whose transfer is done keeps its files.                   *)

(* The control points of the items that are not uploads.                   *)
OtherPc == {"s_mkdir", "s_unzip", "s_qsub", "s_record", "c_read", "c_transferring", "c_finish",
            "d_mark", "d_qdel", "d_rm"}

(* A worker goes from a step of an upload to one of an upload.             *)
LEMMA StepsOn ==
    ASSUME TypeOK, NEW w \in Workers, WorkerActs(w), ~TakeWork(w)
    PROVE  \/ worker'[w].pc \in {"idle", "lost"}
           \/ Announce(w) /\ worker'[w].pc = worker[w].pc
           \/ worker[w].pc \in UploadPc /\ worker'[w].pc \in UploadPc
           \/ worker[w].pc \in OtherPc /\ worker'[w].pc \in OtherPc
<1>0. WorkerTypeOK
  BY DEF TypeOK
<1>1. ASSUME NEW pc, Goto(w, pc) \/ \E s : GotoAndAnnounce(w, pc, s) PROVE worker'[w].pc = pc
  BY <1>0, <1>1 DEF Goto, GotoAndAnnounce, WorkerTypeOK
<1>2. Finish(w) => worker'[w].pc = "idle"
  BY <1>0 DEF Finish, WorkerTypeOK, Idle
<1>3. ASSUME NEW s, FinishAndAnnounce(w, s) PROVE worker'[w].pc = "idle"
  BY <1>1, <1>2, <1>3 DEF FinishAndAnnounce
<1>4. CASE Announce(w)
  <2>1. CASE worker[w].pc = "idle"
    BY <1>2, <1>4, <2>1 DEF Announce, Finish
  <2>2. CASE worker[w].pc # "idle"
    BY <1>0, <1>4, <2>2 DEF Announce, WorkerTypeOK
  <2> QED BY <1>4, <2>1, <2>2
<1>5. CASE Upload(w)
  <2>1. \/ Finish(w)
        \/ worker[w].pc \in UploadPc /\ \E pc \in UploadPc : Goto(w, pc)
    BY <1>5 DEF Upload, UploadRunning, UploadFolder, UploadMkdir, UploadTransferring,
                UploadTransfer, UploadDone, At, UploadPc
  <2> QED BY <1>1, <1>2, <2>1
<1>6. CASE Submit(w)
  <2>1. \/ FinishAndAnnounce(w, WSDJobStateInHPCQueue)
        \/ worker[w].pc \in OtherPc /\ \E pc \in OtherPc : Goto(w, pc)
    BY <1>6 DEF Submit, SubmitMkdir, SubmitUnzip, SubmitQsub, SubmitRecord, At, OtherPc
  <2> QED BY <1>1, <1>3, <2>1
<1>7. CASE CheckRead(w)
  <2>1. worker[w].pc \in OtherPc /\ worker'[w].pc = "c_transferring"
    BY <1>0, <1>7 DEF CheckRead, At, OtherPc, WorkerTypeOK
  <2> QED BY <2>1 DEF OtherPc
<1>8. CASE CheckTransferring(w) \/ CheckFinish(w) \/ Delete(w)
  <2>1. \/ Finish(w) \/ \E s : FinishAndAnnounce(w, s)
        \/ /\ worker[w].pc \in OtherPc
           /\ \E pc \in OtherPc : Goto(w, pc) \/ \E s : GotoAndAnnounce(w, pc, s)
    BY <1>8 DEF CheckTransferring, CheckFinish, Delete, DeleteMark, DeleteQdel, DeleteRm, At,
                OtherPc
  <2> QED BY <1>1, <1>2, <1>3, <2>1
<1>9. CASE PackageRm(w) \/ Throw(w) \/ LoseAnswer(w)
  <2>1. Finish(w) \/ Goto(w, "lost")
    BY <1>9 DEF PackageRm, Throw, LoseAnswer
  <2> QED BY <1>1, <1>2, <2>1
<1> QED BY <1>4, <1>5, <1>6, <1>7, <1>8, <1>9 DEF WorkerActs, WorkerStep, Check

(* The thread that took an item starts with the step for its kind.         *)
LEMMA TakenStep ==
    ASSUME TypeOK, NEW w \in Workers, TakeWork(w)
    PROVE  /\ worker'[w].item = Head(hpcworkqueue)
           /\ worker'[w].pc # "idle"
           /\ worker'[w].pc \in UploadPc => worker'[w].item.jobtype = "upload"
           /\ worker'[w].pc = "p_rm" => worker'[w].item.jobtype = "delete_package"
           /\ worker'[w].item.jobtype = "upload" => worker'[w].pc = "u_running"
<1> DEFINE item == Head(hpcworkqueue)
<1>1. item.jobtype \in WorkType
  <2>1. item \in WSHPCWork
    BY QueueShrinks DEF TakeWork, TypeOK, SchedulerTypeOK
  <2> QED BY <2>1 DEF WSHPCWork
<1>2. worker' = [worker EXCEPT ![w] = [pc |-> FirstStep[item.jobtype], item |-> item,
                                       ok |-> FALSE, due |-> NoRecord]]
  BY DEF TakeWork
<1> HIDE DEF item
<1>3. worker'[w].item = item /\ worker'[w].pc = FirstStep[item.jobtype]
  BY <1>2 DEF TypeOK, WorkerTypeOK
<1> QED BY <1>1, <1>3 DEF WorkType, FirstStep, UploadPc, item

(* Each thread is at a step of its item's kind.                            *)
LEMMA StepFitsUploads ==
    ASSUME TypeOK, UploadsFit, [Next]_vars
    PROVE  UploadsFit'
<1> DEFINE Fit(w) == /\ worker[w].pc \in UploadPc => worker[w].item.jobtype = "upload"
                     /\ worker[w].pc = "p_rm" => worker[w].item.jobtype = "delete_package"
                     /\ worker[w].pc # "idle" /\ worker[w].item.jobtype = "upload"
                           => worker[w].pc \in UploadPc \cup {"lost"}
<1>0. \A w \in Workers : Fit(w)
  BY DEF UploadsFit
<1>1. CASE UNCHANGED worker
  BY <1>0, <1>1 DEF UploadsFit
<1>2. ASSUME NEW w \in Workers, WorkerActs(w) PROVE \A v \in Workers : Fit(v)'
  <2>1. /\ \A v \in Workers \ {w} : worker'[v] = worker[v]
        /\ TakeWork(w) \/ GoesOn(w)
    BY <1>2, WorkersGoOn
  <2>2. CASE TakeWork(w)
    <3>1. Fit(w)'
      BY <2>2, TakenStep DEF UploadPc
    <3> QED BY <1>0, <2>1, <3>1
  <2>3. CASE ~TakeWork(w)
    <3>1. worker'[w].pc # "idle" =>
             worker[w].pc # "idle" /\ worker'[w].item = worker[w].item
      BY <1>2, <2>1, <2>3, IdleStaysIdle DEF GoesOn
    <3>2. OtherPc \cap (UploadPc \cup {"idle", "lost", "p_rm"}) = {}
      BY DEF OtherPc, UploadPc
    <3>3. UploadPc \cap {"idle", "lost", "p_rm"} = {}
      BY DEF UploadPc
    <3>4. Fit(w)'
      BY <1>0, <1>2, <2>3, <3>1, <3>2, <3>3, StepsOn
    <3> QED BY <1>0, <2>1, <3>4
  <2> QED BY <2>2, <2>3
<1>3. CASE Crash
  <2>1. \A w \in Workers : worker'[w].pc = "idle"
    BY <1>3 DEF Crash, Idle
  <2> QED BY <2>1 DEF UploadsFit, UploadPc
<1> QED BY <1>1, <1>2, <1>3
        DEF UploadsFit, Next, vars, PollerActs, ClientActs, HpcActs, threadVars

(* The items a request comes to have: an upload is made with the row of    *)
(* its package, the deletion of a job that has a row, the deletion of a    *)
(* package once it was asked for.                                          *)
LEMMA RequestItems ==
    ASSUME TypeOK, ItemsFit, NEW c \in Clients, ClientActs(c)
    PROVE  /\ \A d \in Clients \ {c} : client'[d] = client[d]
           /\ \/ client'[c] = NoRequest
              \/ \E p \in Packages : /\ createPackage(p)
                                     /\ client'[c].item = Work("upload", NoJob, p)
              \/ client'[c].item.jobtype = "submit"
              \/ /\ client'[c].item.jobtype = "delete_job"
                 /\ client'[c].item.job \in Jobs
                 /\ jobs[client'[c].item.job].state # NoRecord
              \/ /\ client'[c].item.jobtype = "delete_package"
                 /\ client'[c].item.package \in Packages
                 /\ deletes'[client'[c].item.package] > 0
              \/ /\ client'[c].item.jobtype = "delete_package"
                 /\ client'[c].item = client[c].item
<1>0. /\ client \in [Clients -> ClientRecord] /\ client[c] \in ClientRecord
      /\ deletes \in [Packages \cup Jobs -> Nat]
      /\ \A t, j, p : Work(t, j, p).jobtype = t /\ Work(t, j, p).package = p
  BY DEF TypeOK, PagesTypeOK, Work
<1>1. \A d \in Clients \ {c} : client'[d] = client[d]
  BY RequestsGoOn
<1>2. ASSUME NEW pc, NEW item, Begin(c, pc, item) PROVE client'[c].item = item
  BY <1>0, <1>2 DEF Begin
<1>3. ASSUME NEW pc, Proceed(c, pc) PROVE client'[c].item = client[c].item
  BY <1>0, <1>3 DEF Proceed, ClientRecord
<1>4. Refuse(c) => client'[c] = NoRequest
  BY <1>0 DEF Refuse
<1>5. CASE Enqueue(c)
  BY <1>0, <1>1, <1>5 DEF Enqueue
<1>6. CASE DeletePackageRefuseState(c) \/ RequestFails(c) \/ RequestLosesAnswer(c)
  BY <1>1, <1>4, <1>6 DEF DeletePackageRefuseState, RequestFails, RequestLosesAnswer
<1>7. CASE UploadPackage(c)
  BY <1>1, <1>2, <1>7 DEF UploadPackage
<1>8. CASE SubmitJob(c)
  <2>1. \A p : [Work("submit", NoJob, p) EXCEPT !.folder = packages[p].folder].jobtype = "submit"
    BY DEF Work
  <2> QED BY <1>1, <1>2, <1>4, <1>8, <2>1 DEF SubmitJob
<1>9. CASE SubmitJobCreate(c)
  <2>1. client[c].item.jobtype = "submit" /\ client[c].item \in WSHPCWork
    BY <1>0, <1>9 DEF SubmitJobCreate, Asked, ItemsFit, ClientRecord
  <2>2. PICK j \in Jobs : client' = [client EXCEPT ![c].pc = "enqueue", ![c].item.job = j]
    BY <1>9 DEF SubmitJobCreate
  <2>3. client'[c].item.jobtype = "submit"
    BY <1>0, <2>1, <2>2 DEF ClientRecord, WSHPCWork
  <2> QED BY <1>1, <2>3
<1>10. CASE DeleteJob(c)
  <2>1. PICK j \in Jobs : /\ jobs[j].state # NoRecord
                          /\ Begin(c, "enqueue", [Work("delete_job", j, jobs[j].package)
                                                   EXCEPT !.submitted = jobs[j].submitted])
    BY <1>10 DEF DeleteJob
  <2>2. client'[c].item = [Work("delete_job", j, jobs[j].package)
                           EXCEPT !.submitted = jobs[j].submitted]
    BY <1>0, <2>1 DEF Begin
  <2>3. client'[c].item.jobtype = "delete_job" /\ client'[c].item.job = j
    BY <2>2 DEF Work
  <2> QED BY <1>1, <2>1, <2>3
<1>11. CASE DeletePackage(c)
  <2>1. PICK p \in Packages :
           /\ DeleteRequest(p)
           /\ Begin(c, "state", [Work("delete_package", NoJob, p)
                                 EXCEPT !.folder = packages[p].folder])
    BY <1>11 DEF DeletePackage
  <2>2. LET item == [Work("delete_package", NoJob, p) EXCEPT !.folder = packages[p].folder]
        IN item.jobtype = "delete_package" /\ item.package = p
    BY DEF Work
  <2>3. deletes'[p] > 0
    BY <1>0, <2>1 DEF DeleteRequest
  <2> QED BY <1>1, <1>2, <2>1, <2>2, <2>3
<1>12. CASE \/ DeletePackageCheckState(c) \/ DeletePackageCheckJobs(c)
            \/ DeletePackageJobs(c) \/ DeletePackageRow(c)
  <2>1. client[c].item.jobtype = "delete_package"
    BY <1>12 DEF DeletePackageCheckState, DeletePackageCheckJobs, DeletePackageJobs,
                 DeletePackageRow, Asked, ItemsFit
  <2>2. Refuse(c) \/ \E pc : Proceed(c, pc)
    BY <1>12 DEF DeletePackageCheckState, DeletePackageCheckJobs, DeletePackageJobs,
                 DeletePackageRow
  <2> QED BY <1>1, <1>3, <1>4, <2>1, <2>2
<1> QED BY <1>5, <1>6, <1>7, <1>8, <1>9, <1>10, <1>11, <1>12 DEF ClientActs, ClientStep

(* Requests to delete are counted up to their limit.                       *)
LEMMA DeletesGrow ==
    ASSUME TypeOK, [Next]_vars, NEW p \in Packages, deletes[p] <= MaxDeletes[p]
    PROVE  /\ deletes'[p] <= MaxDeletes[p]
           /\ deletes[p] > 0 => deletes'[p] > 0
<1>0. deletes \in [Packages \cup Jobs -> Nat] /\ MaxDeletes \in [Packages \cup Jobs -> Nat]
  BY PagesAssumption DEF TypeOK, PagesTypeOK
<1>1. ASSUME NEW x \in Packages \cup Jobs, DeleteRequest(x)
      PROVE  deletes'[p] <= MaxDeletes[p] /\ (deletes[p] > 0 => deletes'[p] > 0)
  <2>1. CASE x = p
    <3>1. deletes'[p] = deletes[p] + 1 /\ deletes[p] < MaxDeletes[p]
      BY <1>0, <1>1, <2>1 DEF DeleteRequest
    <3> QED BY <1>0, <3>1
  <2>2. CASE x # p
    BY <1>0, <1>1, <2>2 DEF DeleteRequest
  <2> QED BY <2>1, <2>2
<1>2. ASSUME NEW c \in Clients, ClientStep(c)
      PROVE  UNCHANGED deletes \/ \E x \in Packages \cup Jobs : DeleteRequest(x)
  BY <1>2 DEF ClientStep, Enqueue, UploadPackage, SubmitJob, SubmitJobCreate, DeleteJob,
     DeletePackage, DeletePackageCheckState, DeletePackageRefuseState, DeletePackageCheckJobs,
     DeletePackageJobs, DeletePackageRow, RequestFails, RequestLosesAnswer
<1> QED BY <1>1, <1>2 DEF Next, vars, WorkerActs, PollerActs, ClientActs, HpcActs, Crash

(* An item under way was so before, or a request or a round makes it.      *)
LEMMA ItemsComeFrom ==
    ASSUME TypeOK, ItemsFit, [Next]_vars, NEW item, item \in ItemsUnderWay'
    PROVE  \/ item \in ItemsUnderWay \/ item = NoRequest.item
           \/ item.jobtype = "check"
           \/ \E c \in Clients : ClientActs(c) /\ item = client'[c].item
<1> DEFINE Was(i) == \/ i \in ItemsUnderWay \/ i = NoRequest.item
                     \/ i.jobtype = "check"
                     \/ \E c \in Clients : ClientActs(c) /\ i = client'[c].item
<1>0. hpcworkqueue \in Seq(WSHPCWork)
  BY DEF TypeOK, SchedulerTypeOK
<1>1. /\ \A n \in DOMAIN hpcworkqueue : Was(hpcworkqueue[n])
      /\ \A w \in Workers : worker[w].pc # "idle" => Was(worker[w].item)
      /\ \A c \in Clients : Was(client[c].item)
  BY DEF ItemsUnderWay
<1>2. \A n \in DOMAIN hpcworkqueue' : Was(hpcworkqueue'[n])
  <2>1. CASE UNCHANGED hpcworkqueue
    BY <1>1, <2>1
  <2>2. ASSUME NEW w \in Workers, TakeWork(w)
        PROVE  \A n \in DOMAIN hpcworkqueue' : Was(hpcworkqueue'[n])
    <3>1. \A n \in DOMAIN hpcworkqueue' :
             \E m \in DOMAIN hpcworkqueue : hpcworkqueue'[n] = hpcworkqueue[m]
      BY <1>0, <2>2, QueueShrinks DEF TakeWork
    <3> QED BY <1>1, <3>1
  <2>3. ASSUME NEW i, addHPCWork(i), Was(i)
        PROVE  \A n \in DOMAIN hpcworkqueue' : Was(hpcworkqueue'[n])
    <3>1. /\ DOMAIN hpcworkqueue = 1 .. Len(hpcworkqueue) /\ Len(hpcworkqueue) \in Nat
          /\ DOMAIN hpcworkqueue' = 1 .. Len(hpcworkqueue) + 1
      BY <1>0, <2>3 DEF addHPCWork
    <3>2. /\ hpcworkqueue'[Len(hpcworkqueue) + 1] = i
          /\ \A n \in 1 .. Len(hpcworkqueue) : hpcworkqueue'[n] = hpcworkqueue[n]
      BY <1>0, <2>3 DEF addHPCWork
    <3> HIDE DEF Was
    <3>3. \A n \in DOMAIN hpcworkqueue' : n \in DOMAIN hpcworkqueue \/ n = Len(hpcworkqueue) + 1
      BY <3>1
    <3> QED BY <1>1, <2>3, <3>1, <3>2, <3>3
  <2>4. ASSUME NEW b \in Pollers, PollEnqueue(b)
        PROVE  \A n \in DOMAIN hpcworkqueue' : Was(hpcworkqueue'[n])
    <3>1. Was(Work("check", poller[b].job, jobs[poller[b].job].package))
      BY DEF Work
    <3> QED BY <2>3, <2>4, <3>1 DEF PollEnqueue
  <2>5. ASSUME NEW c \in Clients, Enqueue(c)
        PROVE  \A n \in DOMAIN hpcworkqueue' : Was(hpcworkqueue'[n])
    BY <1>1, <2>3, <2>5 DEF Enqueue
  <2>6. CASE Crash
    BY <2>6 DEF Crash
  <2> QED BY <2>1, <2>2, <2>4, <2>5, <2>6, QueueSteps
<1>3. \A w \in Workers : worker'[w].pc # "idle" => Was(worker'[w].item)
  <2>1. ASSUME NEW w \in Workers, WorkerActs(w)
        PROVE  \A v \in Workers : worker'[v].pc # "idle" => Was(worker'[v].item)
    <3>1. /\ \A v \in Workers \ {w} : worker'[v] = worker[v]
          /\ TakeWork(w) \/ GoesOn(w)
      BY <2>1, WorkersGoOn
    <3>2. CASE TakeWork(w)
      <4>1. /\ worker'[w].item = Head(hpcworkqueue)
            /\ 1 \in DOMAIN hpcworkqueue /\ hpcworkqueue[1] = Head(hpcworkqueue)
        BY <1>0, <3>2, TakenStep, QueueShrinks DEF TakeWork
      <4> QED BY <1>1, <3>1, <4>1
    <3>3. CASE ~TakeWork(w)
      <4>1. worker'[w].pc # "idle" =>
               worker[w].pc # "idle" /\ worker'[w].item = worker[w].item
        BY <2>1, <3>1, <3>3, IdleStaysIdle DEF GoesOn
      <4> QED BY <1>1, <3>1, <4>1
    <3> QED BY <3>2, <3>3
  <2>2. CASE Crash
    BY <2>2 DEF Crash, Idle
  <2>3. CASE UNCHANGED worker
    BY <1>1, <2>3
  <2> QED BY <2>1, <2>2, <2>3 DEF Next, vars, PollerActs, ClientActs, HpcActs, threadVars
<1>4. \A c \in Clients : Was(client'[c].item)
  <2>1. ASSUME NEW c \in Clients, ClientActs(c) PROVE \A d \in Clients : Was(client'[d].item)
    <3>1. \A d \in Clients \ {c} : client'[d] = client[d]
      BY <2>1, RequestItems
    <3> QED BY <1>1, <2>1, <3>1
  <2>2. CASE Crash
    BY <2>2 DEF Crash
  <2>3. CASE UNCHANGED client
    BY <1>1, <2>3
  <2> QED BY <2>1, <2>2, <2>3 DEF Next, vars, WorkerActs, PollerActs, HpcActs, threadVars
<1> QED BY <1>2, <1>3, <1>4 DEF ItemsUnderWay

(* The deletion of a package was asked for, wherever its item is.          *)
LEMMA StepAsks ==
    ASSUME TypeOK, ItemsFit, DeletesWereAsked, [Next]_vars
    PROVE  DeletesWereAsked'
<1>1. \A p \in Packages : deletes'[p] <= MaxDeletes[p] /\ (deletes[p] > 0 => deletes'[p] > 0)
  BY DeletesGrow DEF DeletesWereAsked
<1> DEFINE Was(item) == item.jobtype = "delete_package" =>
                           item.package \in Packages /\ deletes'[item.package] > 0
<1>2. \A item \in ItemsUnderWay : Was(item)
  BY <1>1 DEF DeletesWereAsked, WasAsked, ItemsUnderWay
<1>3. \A item \in ItemsUnderWay' : Was(item)
  <2>1. Was(NoRequest.item) /\ \A p \in Packages : Was(Work("upload", NoJob, p))
    BY DEF NoRequest, Work
  <2>2. ASSUME NEW c \in Clients, ClientActs(c) PROVE Was(client'[c].item)
    <3>1. client[c].item \in ItemsUnderWay
      BY DEF ItemsUnderWay
    <3> QED BY <1>2, <2>1, <2>2, <3>1, RequestItems
  <2> QED BY <1>2, <2>1, <2>2, ItemsComeFrom
<1>4. /\ \A n \in DOMAIN hpcworkqueue' : Was(hpcworkqueue'[n])
      /\ \A w \in Workers : worker'[w].pc # "idle" => Was(worker'[w].item)
      /\ \A c \in Clients : Was(client'[c].item)
  BY <1>3 DEF ItemsUnderWay
<1> QED BY <1>1, <1>4 DEF DeletesWereAsked, WasAsked

(* How the item that uploads a package may move in a step: it stays or     *)
(* leaves, a worker takes it, it is queued, or it is made with the row.    *)
UploadStays(p)  == /\ AtMostOne(QueuedUploads(p)')
                   /\ QueuedUploads(p)' # {} => QueuedUploads(p) # {}
                   /\ BusyUploads(p)' \subseteq BusyUploads(p)
                   /\ ComingUploads(p)' \subseteq ComingUploads(p)
UploadTaken(p)  == /\ QueuedUploads(p) # {} /\ QueuedUploads(p)' = {}
                   /\ AtMostOne(BusyUploads(p)')
                   /\ \A w \in BusyUploads(p)' : worker'[w].pc = "u_running"
                   /\ ComingUploads(p)' \subseteq ComingUploads(p)
UploadQueued(p) == /\ ComingUploads(p) # {} /\ ComingUploads(p)' = {}
                   /\ AtMostOne(QueuedUploads(p)')
                   /\ BusyUploads(p)' \subseteq BusyUploads(p)
UploadMade(p)   == /\ packages[p].state = NoRecord /\ packages'[p].state # NoRecord
                   /\ packages'[p].state # WSDPackageStateDone
                   /\ QueuedUploads(p)' # {} => QueuedUploads(p) # {}
                   /\ BusyUploads(p)' \subseteq BusyUploads(p)
                   /\ AtMostOne(ComingUploads(p)')
UploadMoves(p)  == UploadStays(p) \/ UploadTaken(p) \/ UploadQueued(p) \/ UploadMade(p)

(* A worker takes the upload or goes on with what it has.                  *)
LEMMA WorkersMoveUploads ==
    ASSUME TypeOK, NEW w \in Workers, WorkerActs(w), NEW p \in Packages, OneUpload(p)
    PROVE  UploadMoves(p)
<1>1. /\ UNCHANGED client /\ \A v \in Workers \ {w} : worker'[v] = worker[v]
      /\ TakeWork(w) \/ (UNCHANGED hpcworkqueue /\ GoesOn(w))
  BY WorkersGoOn
<1>2. ComingUploads(p)' = ComingUploads(p)
  BY <1>1 DEF ComingUploads
<1>3. BusyUploads(p)' \ {w} \subseteq BusyUploads(p)
  BY <1>1 DEF BusyUploads
<1>4. CASE ~TakeWork(w)
  <2>1. QueuedUploads(p)' = QueuedUploads(p)
    BY <1>1, <1>4 DEF QueuedUploads
  <2>2. w \in BusyUploads(p)' => w \in BusyUploads(p)
    BY <1>1, <1>4, IdleStaysIdle DEF BusyUploads, GoesOn
  <2> QED BY <1>2, <1>3, <2>1, <2>2 DEF UploadMoves, UploadStays, OneUpload
<1>5. CASE TakeWork(w)
  <2>1. removeHPCWork /\ hpcworkqueue \in Seq(WSHPCWork) /\ AtMostOne(QueuedUploads(p))
    BY <1>5 DEF TakeWork, TypeOK, SchedulerTypeOK, OneUpload
  <2>2. /\ AtMostOne(QueuedUploads(p)')
        /\ QueuedUploads(p)' # {} => QueuedUploads(p) # {}
        /\ Uploads(Head(hpcworkqueue), p) => QueuedUploads(p) # {} /\ QueuedUploads(p)' = {}
    BY <2>1, QueueShrinks
  <2>3. /\ worker'[w].item = Head(hpcworkqueue)
        /\ worker'[w].item.jobtype = "upload" => worker'[w].pc = "u_running"
    BY <1>5, TakenStep
  <2>4. CASE Uploads(Head(hpcworkqueue), p)
    <3>1. QueuedUploads(p) # {} /\ QueuedUploads(p)' = {} /\ BusyUploads(p) = {}
      BY <2>2, <2>4 DEF OneUpload
    <3>2. worker'[w].pc = "u_running" /\ BusyUploads(p)' \subseteq {w}
      BY <1>3, <2>3, <2>4, <3>1 DEF Uploads
    <3> QED BY <1>2, <3>1, <3>2 DEF UploadMoves, UploadTaken, AtMostOne
  <2>5. CASE ~Uploads(Head(hpcworkqueue), p)
    <3>1. w \notin BusyUploads(p)'
      BY <2>3, <2>5 DEF BusyUploads, Uploads
    <3> QED BY <1>2, <1>3, <2>2, <3>1 DEF UploadMoves, UploadStays
  <2> QED BY <2>4, <2>5
<1> QED BY <1>4, <1>5

(* A request makes the upload with the row of its package, and queues it.  *)
LEMMA RequestsMoveUploads ==
    ASSUME TypeOK, ItemsFit, NEW c \in Clients, ClientActs(c), NEW p \in Packages, OneUpload(p)
    PROVE  UploadMoves(p)
<1>1. UNCHANGED worker /\ hpcworkqueue \in Seq(WSHPCWork)
  BY DEF ClientActs, TypeOK, SchedulerTypeOK
<1>2. BusyUploads(p)' = BusyUploads(p)
  BY <1>1 DEF BusyUploads
<1>3. ComingUploads(p)' \ {c} \subseteq ComingUploads(p)
  BY RequestItems DEF ComingUploads
<1>4. CASE Enqueue(c)
  <2>1. /\ addHPCWork(client[c].item) /\ client[c].item \in WSHPCWork
        /\ client[c].pc = "enqueue" /\ client'[c].pc = "idle"
    BY <1>4 DEF Enqueue, Asked, NoRequest, TypeOK, PagesTypeOK, ClientRecord
  <2>2. ComingUploads(p)' \subseteq ComingUploads(p) \ {c}
    BY <1>3, <2>1 DEF ComingUploads
  <2>3. CASE Uploads(client[c].item, p)
    <3>1. c \in ComingUploads(p)
      BY <2>1, <2>3 DEF ComingUploads
    <3>2. ComingUploads(p)' = {} /\ QueuedUploads(p) = {}
      BY <2>2, <3>1 DEF OneUpload, AtMostOne
    <3>3. QueuedUploads(p)' = {Len(hpcworkqueue) + 1}
      BY <1>1, <2>1, <2>3, <3>2, QueueGrows
    <3> QED BY <1>2, <3>1, <3>2, <3>3 DEF UploadMoves, UploadQueued, AtMostOne
  <2>4. CASE ~Uploads(client[c].item, p)
    <3>1. QueuedUploads(p)' = QueuedUploads(p)
      BY <1>1, <2>1, <2>4, QueueGrows
    <3> QED BY <1>2, <2>2, <3>1 DEF UploadMoves, UploadStays, OneUpload
  <2> QED BY <2>3, <2>4
<1>5. CASE ~Enqueue(c)
  <2>1. UNCHANGED hpcworkqueue
    BY <1>5 DEF ClientActs, ClientStep, UploadPackage, SubmitJob, SubmitJobCreate, DeleteJob,
           DeletePackage, DeletePackageCheckState, DeletePackageRefuseState,
           DeletePackageCheckJobs, DeletePackageJobs, DeletePackageRow, RequestFails,
           RequestLosesAnswer, sharedVars
  <2>2. QueuedUploads(p)' = QueuedUploads(p)
    BY <2>1 DEF QueuedUploads
  <2>3. CASE c \notin ComingUploads(p)'
    BY <1>2, <1>3, <2>2, <2>3 DEF UploadMoves, UploadStays, OneUpload
  <2>4. CASE c \in ComingUploads(p)'
    <3>1. client'[c].pc = "enqueue" /\ client'[c].item.jobtype = "upload"
          /\ client'[c].item.package = p
      BY <2>4 DEF ComingUploads, Uploads
    <3>2. client'[c] # NoRequest
      BY <3>1 DEF NoRequest
    <3>3. PICK q \in Packages : createPackage(q) /\ client'[c].item = Work("upload", NoJob, q)
      BY <3>1, <3>2, RequestItems
    <3>4. createPackage(p)
      BY <3>1, <3>3 DEF Work
    <3>5. packages[p].state = NoRecord /\ packages'[p].state = WSDPackageStateInQueue
      BY <3>4 DEF createPackage, TypeOK, SchedulerTypeOK, DatabaseTypeOK, PackageRecord
    <3>6. AtMostOne(ComingUploads(p)')
      BY <1>3, <3>5 DEF OneUpload, AtMostOne
    <3> QED BY <1>2, <2>2, <3>5, <3>6
            DEF UploadMoves, UploadMade, NoRecord, WSDPackageStateInQueue, WSDPackageStateDone
  <2> QED BY <2>3, <2>4
<1> QED BY <1>4, <1>5

(* So in every step; a crash drops it.                                     *)
LEMMA StepMovesUploads ==
    ASSUME TypeOK, ItemsFit, [Next]_vars, NEW p \in Packages, OneUpload(p)
    PROVE  UploadMoves(p)
<1>0. hpcworkqueue \in Seq(WSHPCWork)
  BY DEF TypeOK, SchedulerTypeOK
<1>1. CASE UNCHANGED <<hpcworkqueue, worker, client>>
  BY <1>1 DEF UploadMoves, UploadStays, OneUpload, QueuedUploads, BusyUploads, ComingUploads
<1>2. CASE Crash
  <2>1. QueuedUploads(p)' = {}
    BY <1>2 DEF Crash, QueuedUploads
  <2>2. BusyUploads(p)' = {} /\ ComingUploads(p)' = {}
    BY <1>2 DEF Crash, BusyUploads, ComingUploads, Idle, NoRequest
  <2> QED BY <2>1, <2>2 DEF UploadMoves, UploadStays, AtMostOne
<1>3. ASSUME NEW b \in Pollers, PollerActs(b) PROVE UploadMoves(p)
  <2>1. CASE PollEnqueue(b)
    <3> DEFINE item == Work("check", poller[b].job, jobs[poller[b].job].package)
    <3>1. ~Uploads(item, p)
      BY DEF Work, Uploads
    <3> HIDE DEF item
    <3>2. addHPCWork(item) /\ UNCHANGED <<worker, client>>
      BY <1>3, <2>1 DEF PollEnqueue, PollerActs, item
    <3>3. /\ DOMAIN hpcworkqueue = 1 .. Len(hpcworkqueue) /\ Len(hpcworkqueue) \in Nat
          /\ DOMAIN hpcworkqueue' = 1 .. Len(hpcworkqueue) + 1
          /\ hpcworkqueue'[Len(hpcworkqueue) + 1] = item
          /\ \A n \in 1 .. Len(hpcworkqueue) : hpcworkqueue'[n] = hpcworkqueue[n]
      BY <1>0, <3>2 DEF addHPCWork
    <3>4. QueuedUploads(p)' = QueuedUploads(p)
      BY <3>1, <3>3 DEF QueuedUploads, Uploads
    <3> QED BY <3>2, <3>4
            DEF UploadMoves, UploadStays, OneUpload, BusyUploads, ComingUploads
  <2>2. CASE ~PollEnqueue(b)
    BY <1>1, <1>3, <2>2 DEF PollerActs, PollerStep, PollSnapshot, PollList, PollRead,
       PollUpdate, PollAnnounce, PollThrow, PollLoseAnswer, sharedVars
  <2> QED BY <2>1, <2>2
<1>4. CASE \E w \in Workers : WorkerActs(w)
  BY <1>4, WorkersMoveUploads
<1>5. CASE \E c \in Clients : ClientActs(c)
  BY <1>5, RequestsMoveUploads
<1>6. CASE \E j \in Jobs : HpcActs(j)
  BY <1>1, <1>6 DEF HpcActs, threadVars
<1>7. CASE UNCHANGED vars
  BY <1>1, <1>7 DEF vars
<1> QED BY <1>2, <1>3, <1>4, <1>5, <1>6, <1>7 DEF Next

(* A worker writes to the row of a package only as its upload.             *)
WritesPackage(q) == \/ setPackageFolder(q)
                    \/ \E s \in PackageStates : updatePackageState(q, s)

LEMMA WorkersWrite ==
    ASSUME TypeOK, UploadsFit, NEW w \in Workers, WorkerActs(w)
    PROVE  \/ UNCHANGED packages
           \/ /\ worker[w].pc # "idle" /\ worker[w].item.jobtype = "upload"
              /\ WritesPackage(PackageOf(w))
<1>0. worker[w].pc \in UploadPc => worker[w].pc # "idle" /\ worker[w].item.jobtype = "upload"
  BY DEF UploadsFit, UploadPc
<1>1. \A s \in PackageStates : updatePackageState(PackageOf(w), s) => WritesPackage(PackageOf(w))
  BY DEF WritesPackage
<1>2. setPackageFolder(PackageOf(w)) => WritesPackage(PackageOf(w))
  BY DEF WritesPackage
<1>3. CASE TakeWork(w) \/ Announce(w) \/ PackageRm(w)
  BY <1>3 DEF TakeWork, Announce, PackageRm, dbVars
<1>4. CASE Upload(w)
  <2>1. UploadMkdir(w) \/ UploadTransfer(w) => UNCHANGED packages
    BY DEF UploadMkdir, UploadTransfer, dbVars
  <2>2. UploadRunning(w) \/ UploadFolder(w) \/ UploadTransferring(w) \/ UploadDone(w) =>
           worker[w].pc \in UploadPc /\ WritesPackage(PackageOf(w))
    BY <1>1, <1>2, StatesTyped
       DEF UploadRunning, UploadFolder, UploadTransferring, UploadDone, At, UploadPc
  <2> QED BY <1>0, <1>4, <2>1, <2>2 DEF Upload
<1>5. CASE Submit(w) \/ Check(w) \/ Delete(w)
  BY <1>5 DEF Submit, SubmitMkdir, SubmitUnzip, SubmitQsub, SubmitRecord, Check, CheckRead,
     CheckTransferring, CheckFinish, Delete, DeleteMark, DeleteQdel, DeleteRm, dbVars, sharedVars,
     setJobSubmittedByID, setJobDoneByID, setJobFailedByID, deleteJobByID, setJobState
<1>6. CASE LoseAnswer(w)
  <2>1. \/ worker[w].pc \in UploadPc /\ WritesPackage(PackageOf(w))
        \/ UNCHANGED packages
    BY <1>1, <1>2, <1>6, StatesTyped DEF LoseAnswer, At, UploadPc, setJobSubmittedByID,
       setJobDoneByID, setJobFailedByID, deleteJobByID, setJobState
  <2> QED BY <1>0, <2>1
<1>7. CASE Throw(w)
  <2>1. \/ UNCHANGED packages
        \/ worker[w].item.jobtype = "upload" /\ updatePackageError(PackageOf(w))
    BY <1>7 DEF Throw, RecordError, dbVars, setJobErrorByID, setJobFailedByID, setJobState
  <2> QED BY <1>1, <1>7, <2>1, StatesTyped DEF Throw, updatePackageError
<1> QED BY <1>3, <1>4, <1>5, <1>6, <1>7 DEF WorkerActs, WorkerStep

(* A request writes to the row of a package as it makes it and as it       *)
(* deletes it.                                                             *)
LEMMA RequestsWrite ==
    ASSUME TypeOK, ItemsFit, NEW c \in Clients, ClientActs(c)
    PROVE  /\ UNCHANGED store
           /\ \/ UNCHANGED packages
              \/ \E q \in Packages : createPackage(q)
              \/ /\ client[c].item.jobtype = "delete_package"
                 /\ setPackageDeleted(PackageIn(c))
                 /\ UNCHANGED deletes
<1>1. CASE \/ Enqueue(c) \/ SubmitJob(c) \/ DeleteJob(c) \/ DeletePackage(c)
           \/ DeletePackageCheckState(c) \/ DeletePackageRefuseState(c)
           \/ DeletePackageCheckJobs(c) \/ RequestFails(c)
  BY <1>1 DEF Enqueue, SubmitJob, DeleteJob, DeletePackage, DeletePackageCheckState,
     DeletePackageRefuseState, DeletePackageCheckJobs, RequestFails, sharedVars, dbVars,
     clusterVars
<1>2. CASE SubmitJobCreate(c) \/ DeletePackageJobs(c)
  BY <1>2 DEF SubmitJobCreate, DeletePackageJobs, createJob, setJobsDeleted, clusterVars
<1>3. CASE UploadPackage(c)
  BY <1>3 DEF UploadPackage, clusterVars
<1>4. CASE DeletePackageRow(c)
  BY <1>4 DEF DeletePackageRow, Asked, ItemsFit, clusterVars
<1>5. CASE RequestLosesAnswer(c)
  BY <1>5 DEF RequestLosesAnswer, Asked, ItemsFit, createJob, setJobsDeleted, clusterVars
<1> QED BY <1>1, <1>2, <1>3, <1>4, <1>5 DEF ClientActs, ClientStep

(* Neither rounds, nor the HPC center, nor a crash touch a package.        *)
LEMMA OthersWrite ==
    ASSUME \/ \E b \in Pollers : PollerActs(b)
           \/ \E j \in Jobs : HpcActs(j)
           \/ Crash \/ UNCHANGED vars
    PROVE  UNCHANGED <<packages, store>>
<1>1. ASSUME NEW b \in Pollers, PollerActs(b) PROVE UNCHANGED <<packages, store>>
  BY <1>1 DEF PollerActs, PollerStep, PollSnapshot, PollList, PollRead, PollUpdate,
     PollAnnounce, PollEnqueue, PollThrow, PollLoseAnswer, sharedVars, clusterVars, dbVars,
     setJobState
<1>2. ASSUME NEW j \in Jobs, HpcActs(j) PROVE UNCHANGED <<packages, store>>
  BY <1>2 DEF HpcActs, HpcNext, HpcMove, HpcEnd, HpcForget, dbVars
<1>3. Crash \/ UNCHANGED vars => UNCHANGED <<packages, store>>
  BY DEF Crash, vars, dbVars, clusterVars
<1> QED BY <1>1, <1>2, <1>3

(* The row of a package stays.                                             *)
LEMMA RowStays ==
    ASSUME TypeOK, ItemsFit, UploadsFit, [Next]_vars, NEW p \in Packages,
           packages'[p].state = NoRecord
    PROVE  packages[p].state = NoRecord
<1>0. packages \in [Packages -> PackageRecord] /\ NoRecord \notin PackageStates
  BY DEF TypeOK, SchedulerTypeOK, DatabaseTypeOK, PackageStates, NoRecord,
     WSDPackageStateError, WSDPackageStateInQueue, WSDPackageStateRunning,
     WSDPackageStateTransferring, WSDPackageStateDone, WSDPackageDeleted
<1>1. ASSUME NEW q, NEW s \in PackageStates, updatePackageState(q, s)
      PROVE  packages[p].state = NoRecord
  BY <1>0, <1>1 DEF updatePackageState, PackageRecord
<1>2. ASSUME NEW q, setPackageFolder(q) PROVE packages[p].state = NoRecord
  BY <1>0, <1>2 DEF setPackageFolder, PackageRecord
<1>3. ASSUME NEW q \in Packages, createPackage(q) PROVE packages[p].state = NoRecord
  BY <1>0, <1>3, StatesTyped DEF createPackage, PackageRecord
<1>4. CASE \E w \in Workers : WorkerActs(w)
  BY <1>1, <1>2, <1>4, WorkersWrite DEF WritesPackage
<1>5. CASE \E c \in Clients : ClientActs(c)
  BY <1>1, <1>3, <1>5, RequestsWrite, StatesTyped DEF setPackageDeleted
<1>6. CASE \/ \E b \in Pollers : PollerActs(b)
           \/ \E j \in Jobs : HpcActs(j)
           \/ Crash \/ UNCHANGED vars
  BY <1>6, OthersWrite
<1> QED BY <1>4, <1>5, <1>6 DEF Next

(* The upload of a package stays in one place.                             *)
LEMMA StepKeepsOneUpload ==
    ASSUME TypeOK, ItemsFit, UploadsFit, [Next]_vars, NEW p \in Packages, OneUpload(p)
    PROVE  OneUpload(p)'
<1>1. packages'[p].state = NoRecord => packages[p].state = NoRecord
  BY RowStays
<1>2. UploadMoves(p)
  BY StepMovesUploads
<1> QED BY <1>1, <1>2 DEF UploadMoves, UploadStays, UploadTaken, UploadQueued, UploadMade,
           OneUpload, AtMostOne

(* The folders of a package that nobody asked to delete are disturbed by   *)
(* its upload only: a deletion of another package may remove them all, so  *)
(* no other package may be deleted.                                        *)
OnlyPackage == \A p, q \in Packages : p = q \/ MaxDeletes[q] = 0

LEMMA WorkerElsewhere ==
    ASSUME TypeOK, UploadsFit, DeletesWereAsked, OnlyPackage, NEW w \in Workers, WorkerActs(w),
           NEW p \in Packages, deletes[p] = 0, w \notin BusyUploads(p)
    PROVE  /\ packages'[p] = packages[p]
           /\ store'[p] = store[p] \/ store[p] = "absent"
<1>0. /\ packages \in [Packages -> PackageRecord] /\ store \in [Packages -> {"absent", "empty", "zip"}]
      /\ deletes \in [Packages \cup Jobs -> Nat] /\ MaxDeletes \in [Packages \cup Jobs -> Nat]
  BY PagesAssumption DEF TypeOK, SchedulerTypeOK, DatabaseTypeOK, ClusterTypeOK, PagesTypeOK
<1>1. worker[w].pc # "idle" /\ worker[w].item.jobtype = "upload" => PackageOf(w) # p
  BY DEF BusyUploads, Uploads, PackageOf
<1>2. packages'[p] = packages[p]
  <2>1. ASSUME WritesPackage(PackageOf(w)), PackageOf(w) # p PROVE packages'[p] = packages[p]
    BY <1>0, <2>1 DEF WritesPackage, setPackageFolder, updatePackageState
  <2> QED BY <1>1, <2>1, WorkersWrite
<1>3. store'[p] = store[p] \/ store[p] = "absent"
  <2>1. CASE TakeWork(w) \/ Announce(w) \/ Throw(w) \/ LoseAnswer(w)
    BY <2>1 DEF TakeWork, Announce, Throw, LoseAnswer, clusterVars
  <2>2. CASE Upload(w)
    <3>1. worker[w].pc \in UploadPc
      BY <2>2 DEF Upload, UploadRunning, UploadFolder, UploadMkdir, UploadTransferring,
                  UploadTransfer, UploadDone, At, UploadPc
    <3>2. PackageOf(w) # p
      BY <1>1, <3>1 DEF UploadsFit, UploadPc
    <3>3. UNCHANGED store \/ \E s : store' = [store EXCEPT ![PackageOf(w)] = s]
      BY <2>2 DEF Upload, UploadRunning, UploadFolder, UploadMkdir, UploadTransferring,
                  UploadTransfer, UploadDone, clusterVars
    <3> QED BY <1>0, <3>2, <3>3
  <2>3. CASE SubmitMkdir(w)
    BY <1>0, <2>3 DEF SubmitMkdir
  <2>4. CASE SubmitUnzip(w) \/ SubmitQsub(w) \/ SubmitRecord(w)
    BY <2>4 DEF SubmitUnzip, SubmitQsub, SubmitRecord, qsub, clusterVars
  <2>5. CASE Check(w)
    BY <2>5 DEF Check, CheckRead, CheckTransferring, CheckFinish, sharedVars, clusterVars
  <2>6. CASE Delete(w)
    BY <2>6 DEF Delete, DeleteMark, DeleteQdel, DeleteRm, qdel, RemoveJobFolder, clusterVars
  <2>7. CASE PackageRm(w)
    <3>1. worker[w].pc = "p_rm" /\ worker[w].item.jobtype = "delete_package"
      BY <2>7 DEF PackageRm, At, UploadsFit
    <3>2. /\ PackageOf(w) \in Packages /\ deletes[PackageOf(w)] > 0
          /\ deletes[PackageOf(w)] <= MaxDeletes[PackageOf(w)]
      BY <3>1 DEF DeletesWereAsked, WasAsked, PackageOf
    <3>3. MaxDeletes[PackageOf(w)] # 0 /\ PackageOf(w) # p
      BY <1>0, <3>2
    <3> QED BY <3>2, <3>3 DEF OnlyPackage
  <2> QED BY <2>1, <2>2, <2>3, <2>4, <2>5, <2>6, <2>7 DEF WorkerActs, WorkerStep, Submit
<1> QED BY <1>2, <1>3

(* What the upload of a package leaves for its next step; the one before   *)
(* the last of an upload in the middle is read off its control point.      *)
Ready(w, p) == /\ worker[w].pc \in {"u_mkdir", "u_transferring", "u_iget", "u_transfer", "u_done"}
                     => packages[p].folder
               /\ worker[w].pc = "u_done" => store[p] = "zip"

LEMMA UploadGoesOn ==
    ASSUME TypeOK, UploadsFit, NEW p \in Packages, NEW w \in BusyUploads(p), WorkerActs(w),
           Ready(w, p), packages[p].state # WSDPackageStateDone \/ worker[w].pc = "lost",
           packages[p].state = WSDPackageStateDone => packages[p].folder /\ store[p] = "zip"
    PROVE  /\ Ready(w, p)'
           /\ packages'[p].state = WSDPackageStateDone =>
                 packages'[p].folder /\ store'[p] = "zip" /\ worker'[w].pc \in {"idle", "lost"}
<1>0. /\ packages \in [Packages -> PackageRecord] /\ store \in [Packages -> {"absent", "empty", "zip"}]
      /\ WorkerTypeOK
  BY DEF TypeOK, SchedulerTypeOK, DatabaseTypeOK, ClusterTypeOK
<1>1. /\ w \in Workers /\ PackageOf(w) = p /\ worker[w].pc \in UploadPc \cup {"lost"}
      /\ worker[w].item.jobtype = "upload"
  BY DEF BusyUploads, Uploads, PackageOf, UploadsFit
<1>2. ASSUME NEW pc, Goto(w, pc) PROVE worker'[w].pc = pc
  BY <1>0, <1>1, <1>2 DEF Goto, WorkerTypeOK
<1>3. Finish(w) => worker'[w].pc = "idle"
  BY <1>0, <1>1 DEF Finish, WorkerTypeOK, Idle
<1>4. ASSUME NEW s, updatePackageState(p, s)
      PROVE  packages'[p].state = s /\ packages'[p].folder = packages[p].folder
  BY <1>0, <1>4 DEF updatePackageState, PackageRecord
<1>5. setPackageFolder(p) =>
         packages'[p].folder = TRUE /\ packages'[p].state = packages[p].state
  BY <1>0 DEF setPackageFolder, PackageRecord
<1>6. ASSUME NEW s, store' = [store EXCEPT ![p] = s] PROVE store'[p] = s
  BY <1>0, <1>6
<1>7. /\ WSDPackageStateDone \notin {WSDPackageStateRunning, WSDPackageStateTransferring,
                                     WSDPackageStateError}
      /\ "idle" \notin UploadPc /\ "lost" \notin UploadPc
  BY DEF WSDPackageStateDone, WSDPackageStateRunning, WSDPackageStateTransferring,
         WSDPackageStateError, UploadPc
<1>8. CASE Announce(w)
  <2>1. worker'[w].pc = worker[w].pc /\ UNCHANGED <<packages, store>>
    BY <1>0, <1>1, <1>7, <1>8 DEF Announce, WorkerTypeOK, dbVars, clusterVars
  <2> QED BY <1>1, <2>1 DEF Ready
<1>9. CASE UploadRunning(w)
  <2>1. packages'[p].state = WSDPackageStateRunning /\ worker'[w].pc = "u_folder"
    BY <1>1, <1>2, <1>4, <1>9 DEF UploadRunning
  <2> QED BY <1>7, <2>1 DEF Ready
<1>10. CASE UploadFolder(w)
  <2>1. /\ packages'[p].folder /\ packages'[p].state = packages[p].state
        /\ worker[w].pc = "u_folder" /\ worker'[w].pc = "u_mkdir"
    BY <1>1, <1>2, <1>5, <1>10 DEF UploadFolder, At
  <2> QED BY <2>1 DEF Ready
<1>11. CASE UploadMkdir(w)
  <2>1. /\ UNCHANGED packages
        /\ worker[w].pc = "u_mkdir" /\ worker'[w].pc = "u_transferring"
    BY <1>1, <1>2, <1>11 DEF UploadMkdir, At, dbVars
  <2> QED BY <2>1 DEF Ready
<1>12. CASE UploadTransferring(w)
  <2>1. /\ packages'[p].state = WSDPackageStateTransferring
        /\ packages'[p].folder = packages[p].folder
        /\ worker[w].pc \in {"u_transferring", "u_iget"}
        /\ worker'[w].pc \in {"u_iget", "u_transfer"}
    BY <1>1, <1>2, <1>4, <1>12 DEF UploadTransferring, At
  <2> QED BY <1>7, <2>1 DEF Ready
<1>13. CASE UploadTransfer(w)
  <2>1. /\ UNCHANGED packages /\ store'[p] = "zip"
        /\ worker[w].pc = "u_transfer" /\ worker'[w].pc = "u_done"
    BY <1>1, <1>2, <1>6, <1>13 DEF UploadTransfer, At, dbVars
  <2> QED BY <2>1 DEF Ready
<1>14. CASE UploadDone(w)
  <2>1. /\ packages'[p].state = WSDPackageStateDone
        /\ packages'[p].folder = packages[p].folder /\ UNCHANGED store
        /\ worker[w].pc = "u_done" /\ worker'[w].pc = "idle"
    BY <1>1, <1>3, <1>4, <1>14 DEF UploadDone, At, clusterVars
  <2> QED BY <2>1 DEF Ready
<1>15. CASE LoseAnswer(w)
  <2>1. worker'[w].pc = "lost" /\ UNCHANGED store
    BY <1>2, <1>15 DEF LoseAnswer, clusterVars
  <2>2. \/ /\ worker[w].pc = "u_done" /\ packages'[p].state = WSDPackageStateDone
           /\ packages'[p].folder = packages[p].folder
        \/ worker[w].pc = "u_folder" /\ packages'[p].state = packages[p].state
        \/ packages'[p].state \in {WSDPackageStateRunning, WSDPackageStateTransferring}
    BY <1>1, <1>4, <1>5, <1>15 DEF LoseAnswer, At, UploadPc
  <2> QED BY <1>7, <2>1, <2>2 DEF Ready
<1>16. CASE Throw(w)
  <2>1. /\ worker'[w].pc = "idle" /\ UNCHANGED store
        /\ packages'[p].state = WSDPackageStateError \/ UNCHANGED packages
    BY <1>1, <1>3, <1>4, <1>16 DEF Throw, RecordError, updatePackageError, dbVars, clusterVars
  <2> QED BY <1>7, <2>1 DEF Ready
<1>17. ~TakeWork(w) /\ ~Submit(w) /\ ~Check(w) /\ ~Delete(w) /\ ~PackageRm(w)
  BY <1>1 DEF TakeWork, Submit, SubmitMkdir, SubmitUnzip, SubmitQsub, SubmitRecord, Check,
     CheckRead, CheckTransferring, CheckFinish, Delete, DeleteMark, DeleteQdel, DeleteRm,
     PackageRm, At, UploadPc
<1> QED BY <1>8, <1>9, <1>10, <1>11, <1>12, <1>13, <1>14, <1>15, <1>16, <1>17
        DEF WorkerActs, WorkerStep, Upload

(* So an upload that is done leaves its package alone, and one under way   *)
(* finds what it left.                                                     *)
LEMMA StepKeepsUpload ==
    ASSUME TypeOK, ItemsFit, PackagesInv, OnlyPackage, [Next]_vars, NEW p \in Packages,
           deletes'[p] = 0
    PROVE  UploadIsSound(p)'
<1>0. /\ UploadsFit /\ DeletesWereAsked /\ OneUpload(p) /\ UploadIsSound(p)
      /\ deletes[p] \in Nat /\ deletes[p] <= MaxDeletes[p]
      /\ packages \in [Packages -> PackageRecord]
  BY DEF PackagesInv, DeletesWereAsked, TypeOK, PagesTypeOK, SchedulerTypeOK, DatabaseTypeOK
<1>1. deletes[p] = 0
  BY <1>0, DeletesGrow
<1> DEFINE Done == packages[p].state = WSDPackageStateDone
<1>2. /\ Done => /\ packages[p].folder /\ store[p] = "zip"
                 /\ QueuedUploads(p) = {} /\ ComingUploads(p) = {}
                 /\ \A w \in BusyUploads(p) : worker[w].pc = "lost"
      /\ \A w \in BusyUploads(p) : Ready(w, p)
  BY <1>0, <1>1 DEF UploadIsSound, Ready
<1>3. UploadMoves(p)
  BY <1>0, StepMovesUploads
<1>4. SUFFICES /\ Done' => /\ packages'[p].folder /\ store'[p] = "zip"
                           /\ QueuedUploads(p)' = {} /\ ComingUploads(p)' = {}
                           /\ \A w \in BusyUploads(p)' : worker'[w].pc = "lost"
               /\ \A w \in BusyUploads(p)' : Ready(w, p)'
  BY DEF UploadIsSound, Ready
<1> DEFINE Goal == /\ Done' => /\ packages'[p].folder /\ store'[p] = "zip"
                               /\ QueuedUploads(p)' = {} /\ ComingUploads(p)' = {}
                               /\ \A w \in BusyUploads(p)' : worker'[w].pc = "lost"
                   /\ \A w \in BusyUploads(p)' : Ready(w, p)'
<1>5. ASSUME packages'[p] = packages[p], store'[p] = store[p] \/ store[p] = "absent",
             \A w \in BusyUploads(p) \cap BusyUploads(p)' : worker'[w] = worker[w]
      PROVE  Goal
  <2>1. store[p] = "zip" => store'[p] = "zip"
    BY <1>5
  <2>2. CASE BusyUploads(p)' \subseteq BusyUploads(p)
    <3>1. \A w \in BusyUploads(p)' : Ready(w, p)'
      BY <1>2, <1>5, <2>1, <2>2 DEF Ready
    <3>2. Done' => QueuedUploads(p)' = {} /\ ComingUploads(p)' = {}
      BY <1>2, <1>3, <1>5 DEF UploadMoves, UploadStays, UploadTaken, UploadQueued, UploadMade
    <3> QED BY <1>2, <1>5, <2>1, <2>2, <3>1, <3>2
  <2>3. CASE UploadTaken(p)
    <3>1. ~Done'
      BY <1>2, <1>5, <2>3 DEF UploadTaken
    <3> QED BY <2>3, <3>1 DEF UploadTaken, Ready
  <2> QED BY <1>3, <2>2, <2>3 DEF UploadMoves, UploadStays, UploadQueued, UploadMade
<1>6. ASSUME NEW w \in Workers, WorkerActs(w) PROVE Goal
  <2>1. \A v \in Workers \ {w} : worker'[v] = worker[v]
    BY <1>6, WorkersGoOn
  <2>2. CASE w \notin BusyUploads(p)
    <3>1. packages'[p] = packages[p] /\ (store'[p] = store[p] \/ store[p] = "absent")
      BY <1>0, <1>1, <1>6, <2>2, WorkerElsewhere
    <3>2. \A v \in BusyUploads(p) : worker'[v] = worker[v]
      BY <2>1, <2>2 DEF BusyUploads
    <3> QED BY <1>5, <3>1, <3>2
  <2>3. CASE w \in BusyUploads(p)
    <3>1. /\ BusyUploads(p) = {w} /\ QueuedUploads(p) = {} /\ ComingUploads(p) = {}
          /\ packages[p].state # NoRecord
      BY <1>0, <2>3 DEF OneUpload, AtMostOne
    <3>2. QueuedUploads(p)' = {} /\ ComingUploads(p)' = {} /\ BusyUploads(p)' \subseteq {w}
      BY <1>3, <3>1 DEF UploadMoves, UploadStays, UploadTaken, UploadQueued, UploadMade
    <3>3. /\ Ready(w, p)'
          /\ Done' => packages'[p].folder /\ store'[p] = "zip" /\ worker'[w].pc \in {"idle", "lost"}
      BY <1>0, <1>2, <1>6, <2>3, UploadGoesOn
    <3>4. \A v \in BusyUploads(p)' : v = w /\ worker'[v].pc # "idle"
      BY <3>2 DEF BusyUploads
    <3> QED BY <3>2, <3>3, <3>4
  <2> QED BY <2>2, <2>3
<1>7. ASSUME NEW c \in Clients, ClientActs(c) PROVE Goal
  <2>1. UNCHANGED <<worker, store>>
    BY <1>7, RequestsWrite DEF ClientActs
  <2>2. CASE packages'[p] = packages[p]
    BY <1>5, <2>1, <2>2
  <2>3. CASE packages'[p] # packages[p]
    <3>1. createPackage(p) \/ (client[c].item.jobtype = "delete_package" /\ PackageIn(c) = p)
      BY <1>0, <1>7, <2>3, RequestsWrite
         DEF createPackage, setPackageDeleted, updatePackageState
    <3>2. createPackage(p)
      BY <1>0, <1>1, <3>1 DEF DeletesWereAsked, WasAsked, PackageIn
    <3>3. packages[p].state = NoRecord /\ packages'[p].state = WSDPackageStateInQueue
      BY <1>0, <3>2 DEF createPackage, PackageRecord
    <3>4. QueuedUploads(p) = {} /\ BusyUploads(p) = {}
      BY <1>0, <3>3 DEF OneUpload
    <3>5. BusyUploads(p)' = {}
      BY <2>1, <3>4 DEF BusyUploads
    <3> QED BY <3>3, <3>5 DEF WSDPackageStateInQueue, WSDPackageStateDone
  <2> QED BY <2>2, <2>3
<1>8. CASE \/ \E b \in Pollers : PollerActs(b)
           \/ \E j \in Jobs : HpcActs(j)
           \/ Crash \/ UNCHANGED vars
  <2>1. UNCHANGED <<packages, store>>
    BY <1>8, OthersWrite
  <2>2. UNCHANGED worker \/ BusyUploads(p)' = {}
    BY <1>8 DEF PollerActs, HpcActs, threadVars, vars, Crash, BusyUploads, Idle
  <2> QED BY <1>5, <2>1, <2>2
<1> QED BY <1>6, <1>7, <1>8 DEF Next

(* It holds of the empty tables with all threads idle.                     *)
LEMMA InitPackages == Init => PackagesInv
<1> SUFFICES ASSUME Init PROVE PackagesInv
  OBVIOUS
<1>1. /\ \A p \in Packages : packages[p].state = NoRecord /\ deletes[p] = 0
      /\ hpcworkqueue = <<>>
      /\ \A w \in Workers : worker[w] = Idle
      /\ \A c \in Clients : client[c] = NoRequest
  BY DEF Init, SchedulerInit, DatabaseInit, WorkerInit, PagesInit
<1>2. UploadsFit
  BY <1>1 DEF UploadsFit, Idle, UploadPc
<1>3. DeletesWereAsked
  <2>1. /\ \A n \in DOMAIN hpcworkqueue : WasAsked(hpcworkqueue[n])
        /\ \A w \in Workers : worker[w].pc = "idle"
    BY <1>1 DEF Idle
  <2>2. \A c \in Clients : WasAsked(client[c].item)
    BY <1>1 DEF WasAsked, NoRequest, Work
  <2>3. ASSUME NEW p \in Packages PROVE deletes[p] <= MaxDeletes[p]
    <3>1. deletes[p] = 0 /\ MaxDeletes[p] \in Nat
      BY <1>1, PagesAssumption
    <3> QED BY <3>1
  <2> QED BY <2>1, <2>2, <2>3 DEF DeletesWereAsked
<1>4. ASSUME NEW p \in Packages PROVE OneUpload(p) /\ UploadIsSound(p)
  <2>1. QueuedUploads(p) = {}
    BY <1>1 DEF QueuedUploads
  <2>2. BusyUploads(p) = {} /\ ComingUploads(p) = {}
    BY <1>1 DEF BusyUploads, ComingUploads, Idle, NoRequest
  <2>3. packages[p].state # WSDPackageStateDone
    BY <1>1, <1>4 DEF NoRecord, WSDPackageStateDone
  <2> QED BY <2>1, <2>2, <2>3 DEF OneUpload, UploadIsSound, AtMostOne
<1> QED BY <1>2, <1>3, <1>4 DEF PackagesInv

(* Where no package is deleted, or there is one only, a package whose      *)
(* transfer is done keeps its recorded folder with its zip, whatever       *)
(* fails, crashes and is executed and taken for failed.                    *)
THEOREM DonePackagesAreKept ==
    ASSUME \A p, q \in Packages : p = q \/ MaxDeletes[q] = 0
    PROVE  Spec => []DonePackageIsKept
<1>1. PackagesInv /\ Inv /\ [Next]_vars => PackagesInv'
  <2> SUFFICES ASSUME PackagesInv, Inv, [Next]_vars PROVE PackagesInv'
    OBVIOUS
  <2>1. TypeOK /\ ItemsFit /\ UploadsFit /\ DeletesWereAsked /\ OnlyPackage
    BY DEF Inv, CompletionInv, PackagesInv, OnlyPackage
  <2>2. UploadsFit' /\ DeletesWereAsked'
    BY <2>1, StepFitsUploads, StepAsks
  <2>3. \A p \in Packages : OneUpload(p)'
    BY <2>1, StepKeepsOneUpload DEF PackagesInv
  <2>4. \A p \in Packages : UploadIsSound(p)'
    BY <2>1, StepKeepsUpload DEF UploadIsSound
  <2> QED BY <2>2, <2>3, <2>4 DEF PackagesInv
<1>2. PackagesInv => DonePackageIsKept
  BY DEF PackagesInv, UploadIsSound, DonePackageIsKept
<1> QED BY <1>1, <1>2, InitPackages, Invariance, PTL DEF Spec

-----------------------------------------------------------------------------
(* The life of a job as a client sees it.                                  *)

(* A step leaves the states as they are, sets that of one job, which has a *)
(* row or gets one, or deletes jobs that have rows.                        *)
JobsDeleted(J) ==
    \A k \in Jobs : jobs'[k].state = IF k \in J THEN WSDJobStateDeleted ELSE jobs[k].state
HasRow(j) == jobs[j].state # NoRecord
StatesMove ==
    \/ StatesStay
    \/ \E j \in Jobs : \E s : JobSet(j, s) /\ (HasRow(j) \/ s = WSDJobStateInServiceQueue)
    \/ \E J \in SUBSET Jobs : JobsDeleted(J) /\ \A j \in J : HasRow(j)

LEMMA WorkersSetStates ==
    ASSUME TypeOK, HandsInv, PhasesInv, RowsInv, ~AnswersMayBeLost,
           NEW w \in Workers, WorkerActs(w)
    PROVE  StatesMove
<1>1. CASE TakeWork(w)
  BY <1>1 DEF TakeWork, dbVars, StatesStay, StatesMove
<1>2. CASE ~TakeWork(w)
  <2>1. Quiet(w) \/ Tells(w) \/ \E s : Writes(w, s)
    BY <1>2, WorkerPaths DEF PhasesInv
  <2>2. CASE Quiet(w) \/ Tells(w)
    BY <2>2 DEF Quiet, Tells, StatesMove
  <2>3. ASSUME NEW s, Writes(w, s), JobOf(w) \in Jobs PROVE StatesMove
    <3>1. CASE IsAbout(w, {"submit", "check"})
      <4>1. w \in BusyHandlers(JobOf(w))
        BY <3>1 DEF IsAbout, BusyHandlers, Handles, JobOf
      <4> QED BY <2>3, <4>1 DEF HandsInv, OneHand, HasRow, Writes, StatesMove
    <3>2. CASE IsAbout(w, {"delete_job"})
      <4>1. worker[w].item \in ItemsUnderWay
        BY <3>2 DEF IsAbout, ItemsUnderWay
      <4>2. HasRow(JobOf(w))
        BY <3>2, <4>1 DEF IsAbout, RowsInv, JobOf, HasRow
      <4> QED BY <2>3, <4>2 DEF Writes, StatesMove
    <3> QED BY <2>3, <3>1, <3>2 DEF Writes, IsAbout
  <2>4. ASSUME NEW s, Writes(w, s), JobOf(w) \notin Jobs PROVE StatesMove
    BY <2>4 DEF Writes, JobSet, StatesStay, StatesMove
  <2> QED BY <2>1, <2>2, <2>3, <2>4
<1> QED BY <1>1, <1>2

LEMMA StepSetsStates ==
    ASSUME TypeOK, CompletionInv, HandsInv, PhasesInv, RowsInv, ~AnswersMayBeLost, [Next]_vars
    PROVE  StatesMove
<1>0. DatabaseTypeOK
  BY DEF TypeOK, SchedulerTypeOK
<1>1. UNCHANGED jobs => StatesMove
  BY DEF StatesStay, StatesMove
<1>2. ASSUME NEW w \in Workers, WorkerActs(w) PROVE StatesMove
  BY <1>2, WorkersSetStates
<1>3. ASSUME NEW b \in Pollers, PollerActs(b) PROVE StatesMove
  <2>1. CASE PollUpdate(b)
    <3>1. /\ setJobState(poller[b].job, poller[b].new)
          /\ poller[b].job \in Jobs
      BY <2>1 DEF PollUpdate, CompletionInv, RoundsAreSound, RoundIsSound
    <3>2. HasRow(poller[b].job)
      <4>1. b \in RoundHandlers(poller[b].job)
        BY DEF RoundHandlers
      <4> QED BY <3>1, <4>1 DEF HandsInv, OneHand, HasRow
    <3>3. JobSet(poller[b].job, poller[b].new)
      BY <1>0, <3>1, SetsOneJob DEF JobSet
    <3> QED BY <3>1, <3>2, <3>3 DEF StatesMove
  <2>2. PollSnapshot(b) \/ PollList(b) \/ PollThrow(b) => UNCHANGED jobs
    BY DEF PollSnapshot, PollList, PollThrow, sharedVars, dbVars
  <2>3. PollAnnounce(b) \/ PollEnqueue(b) => UNCHANGED jobs
    BY DEF PollAnnounce, PollEnqueue, dbVars
  <2>4. ASSUME NEW k \in Jobs, PollRead(b, k) PROVE UNCHANGED jobs
    BY <2>4 DEF PollRead, sharedVars, dbVars
  <2> QED BY <1>1, <1>3, <2>1, <2>2, <2>3, <2>4 DEF PollerActs, PollerStep, PollLoseAnswer
<1>4. ASSUME NEW c \in Clients, ClientActs(c) PROVE StatesMove
  <2>1. CASE SubmitJobCreate(c)
    <3>1. PICK k \in Jobs : createJob(k, PackageIn(c))
      BY <2>1 DEF SubmitJobCreate
    <3>2. JobSet(k, WSDJobStateInServiceQueue)
      BY <1>0, <3>1 DEF createJob, DatabaseTypeOK, JobSet
    <3> QED BY <3>2 DEF StatesMove
  <2>2. CASE DeletePackageJobs(c)
    <3>1. PackageIn(c) \in Packages
      <4>1. client[c].item \in ItemsUnderWay /\ client[c].item.jobtype = "delete_package"
        BY <2>2 DEF ItemsUnderWay, DeletePackageJobs, Asked, CompletionInv, ItemsFit
      <4> QED BY <4>1 DEF RowsInv, PackageIn
    <3>2. \A j \in JobsOf(PackageIn(c)) : j \in Jobs /\ HasRow(j)
      BY <3>1, IdAssumption DEF JobsOf, RowsInv, HasRow
    <3>3. JobsDeleted(JobsOf(PackageIn(c)))
      BY <1>0, <2>2 DEF DeletePackageJobs, setJobsDeleted, JobsDeleted, DatabaseTypeOK, JobRecord
    <3> QED BY <3>2, <3>3 DEF StatesMove
  <2>3. CASE ~SubmitJobCreate(c) /\ ~DeletePackageJobs(c)
    <3>1. UNCHANGED jobs
      BY <1>4, <2>3 DEF ClientActs, ClientStep, Enqueue, UploadPackage, createPackage, SubmitJob,
         DeleteJob, DeletePackage, DeletePackageCheckState, DeletePackageRefuseState,
         DeletePackageCheckJobs, DeletePackageRow, setPackageDeleted, updatePackageState,
         RequestFails, RequestLosesAnswer, sharedVars, dbVars
    <3> QED BY <1>1, <3>1
  <2> QED BY <2>1, <2>2, <2>3
<1>5. CASE \/ UNCHANGED vars \/ Crash \/ \E k \in Jobs : HpcActs(k)
  BY <1>1, <1>5 DEF vars, Crash, HpcActs, dbVars
<1> QED BY <1>2, <1>3, <1>4, <1>5 DEF Next

(* A step moves jobs in the database or jobs on the HPC center.            *)
LEMMA OneSideMoves ==
    ASSUME [Next]_vars
    PROVE  UNCHANGED jobs \/ UNCHANGED hpc
<1>1. ASSUME NEW w \in Workers, WorkerStep(w) PROVE UNCHANGED jobs \/ UNCHANGED hpc
  <2>1. TakeWork(w) \/ Announce(w) \/ Throw(w) \/ LoseAnswer(w) => UNCHANGED hpc
    BY DEF TakeWork, Announce, Throw, LoseAnswer, clusterVars
  <2>2. Upload(w) => UNCHANGED jobs
    BY DEF Upload, UploadRunning, UploadFolder, UploadMkdir, UploadTransferring, UploadTransfer,
           UploadDone, updatePackageState, setPackageFolder, dbVars
  <2>3. Submit(w) => UNCHANGED jobs \/ UNCHANGED hpc
    BY DEF Submit, SubmitMkdir, SubmitUnzip, SubmitQsub, SubmitRecord, dbVars, clusterVars
  <2>4. Check(w) => UNCHANGED hpc
    BY DEF Check, CheckRead, CheckTransferring, CheckFinish, clusterVars, sharedVars
  <2>5. Delete(w) => UNCHANGED jobs \/ UNCHANGED hpc
    BY DEF Delete, DeleteMark, DeleteQdel, DeleteRm, dbVars, clusterVars
  <2>6. PackageRm(w) => UNCHANGED jobs
    BY DEF PackageRm, dbVars
  <2> QED BY <1>1, <2>1, <2>2, <2>3, <2>4, <2>5, <2>6 DEF WorkerStep
<1> QED BY <1>1, OthersLeaveHpc DEF Next, WorkerActs, HpcActs, dbVars

(* The package of a job is written with its row.                           *)
LEMMA PackageOfRow ==
    ASSUME TypeOK, [Next]_vars, NEW j \in Jobs
    PROVE  \/ jobs'[j].package = jobs[j].package
           \/ jobs'[j].state = WSDJobStateInServiceQueue
<1> DEFINE Goal == \/ jobs'[j].package = jobs[j].package
                   \/ jobs'[j].state = WSDJobStateInServiceQueue
<1>0. jobs \in [Jobs -> JobRecord]
  BY DEF TypeOK, SchedulerTypeOK, DatabaseTypeOK
<1>1. UNCHANGED jobs => Goal
  OBVIOUS
<1>2. ASSUME NEW k, \/ \E t : setJobState(k, t)
                    \/ setJobSubmittedByID(k)
      PROVE  Goal
  BY <1>0, <1>2 DEF setJobState, setJobSubmittedByID, JobRecord
<1>3. ASSUME NEW k \in Jobs, NEW p, createJob(k, p) PROVE Goal
  BY <1>0, <1>3 DEF createJob, JobRecord
<1>4. ASSUME NEW p, setJobsDeleted(p) PROVE Goal
  BY <1>0, <1>4 DEF setJobsDeleted, JobRecord
<1>5. ASSUME NEW w \in Workers, WorkerStep(w) PROVE Goal
  <2> USE DEF setJobDoneByID, setJobFailedByID, setJobErrorByID, deleteJobByID
  <2>1. TakeWork(w) \/ Announce(w) \/ PackageRm(w) => UNCHANGED jobs
    BY DEF TakeWork, Announce, PackageRm, dbVars
  <2>2. Upload(w) => UNCHANGED jobs
    BY DEF Upload, UploadRunning, UploadFolder, UploadMkdir, UploadTransferring, UploadTransfer,
           UploadDone, updatePackageState, setPackageFolder, dbVars
  <2>3. Submit(w) => UNCHANGED jobs \/ setJobSubmittedByID(JobOf(w))
    BY DEF Submit, SubmitMkdir, SubmitUnzip, SubmitQsub, SubmitRecord, dbVars
  <2>4. Check(w) => UNCHANGED jobs \/ \E t : setJobState(JobOf(w), t)
    BY DEF Check, CheckRead, CheckTransferring, CheckFinish, sharedVars, dbVars
  <2>5. Delete(w) => UNCHANGED jobs \/ \E t : setJobState(JobOf(w), t)
    BY DEF Delete, DeleteMark, DeleteQdel, DeleteRm, dbVars
  <2>6. Throw(w) => UNCHANGED jobs \/ \E t : setJobState(JobOf(w), t)
    BY DEF Throw, RecordError, updatePackageError, updatePackageState, dbVars
  <2>7. LoseAnswer(w) => \/ UNCHANGED jobs \/ setJobSubmittedByID(JobOf(w))
                         \/ \E t : setJobState(JobOf(w), t)
    BY DEF LoseAnswer, updatePackageState, setPackageFolder
  <2> QED BY <1>1, <1>2, <1>5, <2>1, <2>2, <2>3, <2>4, <2>5, <2>6, <2>7 DEF WorkerStep
<1>6. ASSUME NEW b \in Pollers, PollerStep(b) PROVE Goal
  <2>1. PollSnapshot(b) \/ PollList(b) \/ PollThrow(b) => UNCHANGED jobs
    BY DEF PollSnapshot, PollList, PollThrow, sharedVars, dbVars
  <2>2. PollAnnounce(b) \/ PollEnqueue(b) => UNCHANGED jobs
    BY DEF PollAnnounce, PollEnqueue, dbVars
  <2>3. ASSUME NEW k \in Jobs, PollRead(b, k) PROVE UNCHANGED jobs
    BY <2>3 DEF PollRead, sharedVars, dbVars
  <2>4. PollUpdate(b) \/ PollLoseAnswer(b) => \E t : setJobState(poller[b].job, t)
    BY DEF PollUpdate, PollLoseAnswer
  <2> QED BY <1>1, <1>2, <1>6, <2>1, <2>2, <2>3, <2>4 DEF PollerStep
<1>7. ASSUME NEW c \in Clients, ClientStep(c) PROVE Goal
  <2>1. CASE SubmitJobCreate(c)
    BY <1>3, <2>1 DEF SubmitJobCreate
  <2>2. CASE RequestLosesAnswer(c)
    <3>1. \/ UNCHANGED jobs \/ setJobsDeleted(PackageIn(c))
          \/ \E k \in Jobs : createJob(k, PackageIn(c))
      BY <2>2 DEF RequestLosesAnswer, createPackage, setPackageDeleted, updatePackageState
    <3> QED BY <1>1, <1>3, <1>4, <3>1
  <2>3. CASE DeletePackageJobs(c)
    BY <1>4, <2>3 DEF DeletePackageJobs
  <2>4. CASE ~SubmitJobCreate(c) /\ ~DeletePackageJobs(c) /\ ~RequestLosesAnswer(c)
    <3>1. UNCHANGED jobs
      BY <1>7, <2>4 DEF ClientStep, Enqueue, UploadPackage, createPackage, SubmitJob,
         DeleteJob, DeletePackage, DeletePackageCheckState, DeletePackageRefuseState,
         DeletePackageCheckJobs, DeletePackageRow, setPackageDeleted, updatePackageState,
         RequestFails, sharedVars, dbVars
    <3> QED BY <1>1, <3>1
  <2> QED BY <2>1, <2>2, <2>3, <2>4
<1>8. CASE \/ UNCHANGED vars \/ Crash \/ \E k \in Jobs : HpcActs(k)
  BY <1>1, <1>8 DEF vars, Crash, HpcActs, dbVars
<1> QED BY <1>5, <1>6, <1>7, <1>8 DEF Next, WorkerActs, PollerActs, ClientActs

(* What has a row keeps it, and only what has one is deleted.              *)
LEMMA StepKeepsRows ==
    ASSUME TypeOK, CompletionInv, RowsInv, [Next]_vars
    PROVE  RowsInv'
<1>1. \A j \in Jobs : jobs'[j].state = NoRecord => jobs[j].state = NoRecord
  <2>1. NoRecord \notin {WSDJobStateError, WSDJobStateDeleted, WSDJobStateInServiceQueue,
                        WSDJobStateCompletedInHPC, WSDJobOutputStateTransferring,
                        WSDJobOutputStateTransferDone}
                       \cup WSDJobStateInHPCQueue .. WSDJobStateSuspended
    BY DEF NoRecord, WSDJobStateError, WSDJobStateDeleted, WSDJobStateInServiceQueue,
       WSDJobStateInHPCQueue, WSDJobStateSuspended, WSDJobStateCompletedInHPC,
       WSDJobOutputStateTransferring, WSDJobOutputStateTransferDone
  <2>2. JobMoves
    BY StepMovesJobs DEF CompletionInv
  <2> QED BY <2>1, <2>2 DEF JobMoves
<1> DEFINE Sound(item) ==
              /\ item.jobtype = "delete_job" => item.job \in Jobs /\ jobs'[item.job].state # NoRecord
              /\ item.jobtype = "delete_package" => item.package \in Packages
<1>2. \A item \in ItemsUnderWay : Sound(item)
  BY <1>1 DEF RowsInv
<1>3. ASSUME NEW item, item \in ItemsUnderWay' PROVE Sound(item)
  <2>1. Sound(NoRequest.item) /\ \A p \in Packages : Sound(Work("upload", NoJob, p))
    BY DEF NoRequest, Work
  <2>2. ASSUME NEW c \in Clients, ClientActs(c) PROVE Sound(client'[c].item)
    <3>1. client[c].item \in ItemsUnderWay
      BY DEF ItemsUnderWay
    <3> QED BY <1>1, <1>2, <2>1, <2>2, <3>1, RequestItems DEF CompletionInv
  <2> QED BY <1>2, <1>3, <2>1, <2>2, ItemsComeFrom DEF CompletionInv
<1>4. ASSUME NEW j \in Jobs, jobs'[j].state = NoRecord PROVE jobs'[j].package = NoPackage
  <2>1. WSDJobStateInServiceQueue # NoRecord
    BY DEF WSDJobStateInServiceQueue, NoRecord
  <2> QED BY <1>1, <1>4, <2>1, PackageOfRow DEF RowsInv
<1> QED BY <1>3, <1>4 DEF RowsInv

LEMMA InitRows == Init => RowsInv
<1> SUFFICES ASSUME Init PROVE RowsInv
  OBVIOUS
<1>1. /\ hpcworkqueue = <<>> /\ worker = [w \in Workers |-> Idle]
      /\ client = [c \in Clients |-> NoRequest]
      /\ \A j \in Jobs : jobs[j].package = NoPackage
  BY DEF Init, SchedulerInit, WorkerInit, PagesInit, DatabaseInit
<1>2. \A item \in ItemsUnderWay : item = NoRequest.item
  BY <1>1 DEF ItemsUnderWay, Idle
<1> QED BY <1>1, <1>2 DEF RowsInv, NoRequest, Work

LEMMA RowsInvariance == Spec => []RowsInv
<1>1. Inv /\ RowsInv /\ [Next]_vars => RowsInv'
  BY StepKeepsRows DEF Inv
<1> QED BY <1>1, InitRows, Invariance, PTL DEF Spec

(* The stages the states stand for.                                        *)
LEMMA StageTable ==
    /\ LifeOf(NoRecord) = "none" /\ LifeOf(WSDJobStateInServiceQueue) = "accepted"
    /\ \A s \in WSDJobStateInHPCQueue .. WSDJobStateSuspended : LifeOf(s) = "submitted"
    /\ LifeOf(WSDJobStateCompletedInHPC) = "completed"
    /\ LifeOf(WSDJobOutputStateTransferring) = "transferring"
    /\ LifeOf(WSDJobOutputStateTransferDone) = "done"
    /\ LifeOf(WSDJobStateError) = "failed" /\ LifeOf(WSDJobStateDeleted) = "deleted"
    /\ \A s \in JobStates : LifeOf(s) # "none"
<1> USE DEF NoRecord, WSDJobStateError, WSDJobStateDeleted, WSDJobStateInServiceQueue,
        WSDJobStateInHPCQueue, WSDJobStateSuspended, WSDJobStateCompletedInHPC,
        WSDJobOutputStateTransferring, WSDJobOutputStateTransferDone
<1>1. /\ LifeOf(NoRecord) = "none" /\ LifeOf(WSDJobStateInServiceQueue) = "accepted"
      /\ \A s \in WSDJobStateInHPCQueue .. WSDJobStateSuspended : LifeOf(s) = "submitted"
      /\ LifeOf(WSDJobStateCompletedInHPC) = "completed"
      /\ LifeOf(WSDJobOutputStateTransferring) = "transferring"
      /\ LifeOf(WSDJobOutputStateTransferDone) = "done"
      /\ LifeOf(WSDJobStateError) = "failed" /\ LifeOf(WSDJobStateDeleted) = "deleted"
  BY DEF LifeOf
<1>2. ASSUME NEW s \in JobStates PROVE LifeOf(s) # "none"
  <2>1. CASE s \in WSDJobStateInHPCQueue .. WSDJobStateSuspended
    BY <1>1, <2>1
  <2>2. CASE s = WSDJobStateInServiceQueue
    BY <1>1, <2>2
  <2>3. CASE s \notin WSDJobStateInServiceQueue .. WSDJobStateSuspended
    BY <1>1, <2>3 DEF JobStates
  <2> QED BY <2>1, <2>2, <2>3
<1> QED BY <1>1, <1>2

(* What the HPC center knows of a job says what became of it there.        *)
LEMMA BatchTells ==
    ASSUME NEW j \in Jobs
    PROVE  /\ OnHpc(j) => batch[j] # "unknown"
           /\ Finished(j) => batch[j] \in {"succeeded", "failed"}
           /\ Finished(j) /\ hpc[j].ok => batch[j] = "succeeded"
<1>1. Finished(j) => OnHpc(j)
  BY DEF Finished, OnHpc, Ended
<1> QED BY <1>1 DEF batch, BatchOf

(* A state that follows the phase of the hand, when it may be written, is  *)
(* a stage that is true.                                                   *)
LEMMA StagesFollow ==
    ASSUME NEW j \in Jobs, NEW n, Follows(n, jobs'[j].state), JobMoves,
           jobs[j].state \in {NoRecord} \cup JobStates, Phase(jobs[j].state) = n
           \/ jobs[j].state = WSDJobStateDeleted
    PROVE  \/ LifeOf(jobs'[j].state) = LifeOf(jobs[j].state)
           \/ \E stage \in Life!Onward :
                 /\ LifeOf(jobs[j].state) \in {stage[1], "deleted"}
                 /\ LifeOf(jobs'[j].state) = stage[2]
                 /\ Life!IsTrue(stage[2], j)
<1> DEFINE r == jobs[j].state
           s == jobs'[j].state
           Goal == \/ LifeOf(s) = LifeOf(r)
                   \/ \E stage \in Life!Onward : /\ LifeOf(r) \in {stage[1], "deleted"}
                                                  /\ LifeOf(s) = stage[2]
                                                  /\ Life!IsTrue(stage[2], j)
<1> SUFFICES Goal
  OBVIOUS
<1>1. /\ s \in WSDJobStateInHPCQueue .. WSDJobStateSuspended =>
            s = r \/ batch[j] # "unknown"
      /\ s \in {WSDJobStateCompletedInHPC, WSDJobOutputStateTransferring,
                WSDJobOutputStateTransferDone} =>
            s = r \/ batch[j] \in {"succeeded", "failed"}
      /\ s = WSDJobOutputStateTransferDone => s = r \/ batch[j] = "succeeded"
  <2> USE DEF WSDJobStateError, WSDJobStateDeleted, WSDJobStateInServiceQueue,
        WSDJobStateInHPCQueue, WSDJobStateSuspended, WSDJobStateCompletedInHPC,
        WSDJobOutputStateTransferring, WSDJobOutputStateTransferDone
  <2> QED BY BatchTells DEF JobMoves
<1>2. ASSUME NEW a, NEW b, <<a, b>> \in Life!Onward, LifeOf(r) \in {a, "deleted"},
             LifeOf(s) = b, Life!IsTrue(b, j)
      PROVE  Goal
  BY <1>2
<1>3. r = s => Goal
  OBVIOUS
<1> HIDE DEF Goal, r, s
<1>4. /\ LifeOf(WSDJobStateDeleted) = "deleted"
      /\ \A t \in {NoRecord} \cup JobStates : Phase(t) = 1 => LifeOf(t) = "accepted"
      /\ \A t \in {NoRecord} \cup JobStates : Phase(t) = 2 => LifeOf(t) = "submitted"
      /\ \A t \in {NoRecord} \cup JobStates : Phase(t) = 3 => LifeOf(t) = "completed"
      /\ \A t \in {NoRecord} \cup JobStates : Phase(t) = 4 => LifeOf(t) = "transferring"
  BY PhaseTable, StageTable
<1>5. r \in {NoRecord} \cup JobStates /\ (Phase(r) = n \/ r = WSDJobStateDeleted)
  BY DEF r
<1>6. Follows(n, s)
  BY DEF s
<1>7. ASSUME NEW a, NEW b, <<a, b>> \in Life!Onward, LifeOf(r) \in {a, "deleted"},
             LifeOf(s) = b, r # s
      PROVE  Goal
  <2>1. /\ b = "submitted" => s \in WSDJobStateInHPCQueue .. WSDJobStateSuspended
        /\ b \in {"completed", "transferring", "done"} =>
              s \in {WSDJobStateCompletedInHPC, WSDJobOutputStateTransferring,
                    WSDJobOutputStateTransferDone}
        /\ b = "done" => s = WSDJobOutputStateTransferDone
    <3>1. \/ s \in WSDJobStateInHPCQueue .. WSDJobStateSuspended /\ b = "submitted"
          \/ s = WSDJobStateCompletedInHPC /\ b = "completed"
          \/ s = WSDJobOutputStateTransferring /\ b = "transferring"
          \/ s = WSDJobOutputStateTransferDone /\ b = "done"
          \/ s = WSDJobStateError /\ b = "failed"
      <4>1. WSDJobStateInHPCQueue \in WSDJobStateInHPCQueue .. WSDJobStateSuspended
        BY DEF WSDJobStateInHPCQueue, WSDJobStateSuspended
      <4> QED BY <1>6, <1>7, <4>1, StageTable DEF Follows
    <3> QED BY <3>1
  <2>2. Life!IsTrue(b, j)
    BY <1>1, <1>7, <2>1 DEF Life!IsTrue
  <2> QED BY <1>2, <1>7, <2>2
<1>8. CASE n = 1
  <2>1. LifeOf(r) \in {"accepted", "deleted"}
    BY <1>4, <1>5, <1>8
  <2>2. LifeOf(s) \in {"submitted", "failed"}
    <3>1. WSDJobStateInHPCQueue \in WSDJobStateInHPCQueue .. WSDJobStateSuspended
      BY DEF WSDJobStateInHPCQueue, WSDJobStateSuspended
    <3> QED BY <1>6, <1>8, <3>1, StageTable DEF Follows
  <2>3. <<"accepted", "submitted">> \in Life!Onward /\ <<"accepted", "failed">> \in Life!Onward
    BY DEF Life!Onward
  <2> QED BY <1>3, <1>7, <2>1, <2>2, <2>3
<1>9. CASE n = 2
  <2>1. LifeOf(r) \in {"submitted", "deleted"}
    BY <1>4, <1>5, <1>9
  <2>2. LifeOf(s) \in {"submitted", "completed"}
    BY <1>6, <1>9, StageTable DEF Follows
  <2>3. <<"accepted", "submitted">> \in Life!Onward /\ <<"submitted", "completed">> \in Life!Onward
    BY DEF Life!Onward
  <2>4. LifeOf(r) = "submitted" /\ LifeOf(s) = "submitted" => Goal
    BY DEF Goal
  <2> QED BY <1>3, <1>7, <2>1, <2>2, <2>3, <2>4
<1>10. CASE n = 3
  <2>1. LifeOf(r) \in {"completed", "deleted"}
    BY <1>4, <1>5, <1>10
  <2>2. LifeOf(s) \in {"transferring", "failed"}
    BY <1>6, <1>10, StageTable DEF Follows
  <2>3. <<"completed", "transferring">> \in Life!Onward /\ <<"completed", "failed">> \in Life!Onward
    BY DEF Life!Onward
  <2> QED BY <1>3, <1>7, <2>1, <2>2, <2>3
<1>11. CASE n = 4
  <2>1. LifeOf(r) \in {"transferring", "deleted"}
    BY <1>4, <1>5, <1>11
  <2>2. LifeOf(s) \in {"done", "failed"}
    BY <1>6, <1>11, StageTable DEF Follows
  <2>3. <<"transferring", "done">> \in Life!Onward /\ <<"transferring", "failed">> \in Life!Onward
    BY DEF Life!Onward
  <2> QED BY <1>3, <1>7, <2>1, <2>2, <2>3
<1> QED BY <1>6, <1>8, <1>9, <1>10, <1>11 DEF Follows

(* So a job stays at its stage, is accepted, deleted, or goes on.          *)
LEMMA StepGoesOn ==
    ASSUME TypeOK, CompletionInv, HandsInv, HandsInv', PhasesInv, AtMostOne(Pollers),
           ~AnswersMayBeLost, [Next]_vars, NEW j \in Jobs
    PROVE  \/ LifeOf(jobs'[j].state) \in {LifeOf(jobs[j].state), "deleted"}
           \/ LifeOf(jobs[j].state) = "none" /\ LifeOf(jobs'[j].state) = "accepted"
           \/ \E stage \in Life!Onward :
                 /\ LifeOf(jobs[j].state) \in {stage[1], "deleted"}
                 /\ LifeOf(jobs'[j].state) = stage[2]
                 /\ Life!IsTrue(stage[2], j)
<1>1. PhaseMoves(j)
  BY StepMovesPhases
<1>2. CASE jobs'[j].state \in {jobs[j].state, WSDJobStateDeleted}
  BY <1>2, StageTable
<1>3. CASE PhaseMade(j)
  BY <1>3, StageTable DEF PhaseMade
<1>4. CASE PhaseWritten(j)
  <2>1. PICK n \in 1 .. 4 : HandPhases(j) = {n} /\ Follows(n, jobs'[j].state)
    BY <1>4 DEF PhaseWritten
  <2>2. Phase(jobs[j].state) = n \/ jobs[j].state = WSDJobStateDeleted
    BY <2>1 DEF PhasesInv, HandsInPhase, InPhase
  <2>3. jobs[j].state \in {NoRecord} \cup JobStates
    BY DEF TypeOK, SchedulerTypeOK, DatabaseTypeOK, JobRecord
  <2>4. JobMoves
    BY StepMovesJobs DEF CompletionInv
  <2> QED BY <2>1, <2>2, <2>3, <2>4, StagesFollow
<1> QED BY <1>1, <1>2, <1>3, <1>4 DEF PhaseMoves, PhaseStays, PhaseDropped, PhaseListed, PhaseTold

(* The batch job is started by the qsub of the item that submits the job,  *)
(* and ends when the HPC center or a qdel ends it.                         *)
BatchStarts(j) == batch[j] = "unknown" /\ batch'[j] = "running"
BatchEnds(j)   == batch[j] = "running" /\ batch'[j] \in {"succeeded", "failed"}

LEMMA ClusterEndsBatches ==
    ASSUME ClusterTypeOK, NEW j \in Jobs, NEW k, NEW P, NEW J, HpcActions(k, P, J)
    PROVE  batch'[j] = batch[j] \/ (j = k /\ BatchEnds(j))
<1> USE DEF ClusterTypeOK, OnHpc, Finished, BatchOf, batch, BatchEnds
<1>1. /\ "gone" \notin Letters /\ Ended \notin Letters /\ "none" \notin Letters
      /\ Ended # "none"
  BY ClusterAssumption DEF Ended
<1>2. CASE UNCHANGED hpc
  BY <1>2
<1>3. CASE HpcMove(k)
  BY <1>1, <1>3 DEF HpcMove
<1>4. CASE HpcEnd(k)
  BY <1>1, <1>4 DEF HpcEnd
<1>5. CASE HpcForget(k)
  BY <1>1, <1>5 DEF HpcForget
<1>6. CASE qdel(k)
  BY <1>1, <1>6 DEF qdel, QdelWorks
<1>7. CASE RemoveJobFolder(k)
  BY <1>7 DEF RemoveJobFolder
<1>8. CASE RemovePackageFolders(P, J)
  BY <1>8 DEF RemovePackageFolders
<1>9. ASSUME NEW d, hpc' = [hpc EXCEPT ![k].dir = d]
      PROVE  batch'[j] = batch[j]
  BY <1>9
<1> QED BY <1>2, <1>3, <1>4, <1>5, <1>6, <1>7, <1>8, <1>9 DEF HpcActions, HpcNext

LEMMA StepRunsBatches ==
    ASSUME TypeOK, CompletionInv, PhasesInv, [Next]_vars
    PROVE  \/ \A k \in Jobs : batch'[k] = batch[k]
           \/ \E j \in Jobs : /\ \A k \in Jobs \ {j} : batch'[k] = batch[k]
                             /\ \/ BatchEnds(j)
                                \/ BatchStarts(j) /\ LifeOf(jobs[j].state) \in {"accepted", "deleted"}
<1>0. ClusterTypeOK
  BY DEF TypeOK, SchedulerTypeOK
<1>1. ASSUME NEW w \in Workers, SubmitQsub(w)
      PROVE  /\ JobOf(w) \in Jobs /\ BatchStarts(JobOf(w))
             /\ \A k \in Jobs \ {JobOf(w)} : batch'[k] = batch[k]
             /\ LifeOf(jobs[JobOf(w)].state) \in {"accepted", "deleted"}
  <2>1. /\ JobOf(w) \in Jobs /\ ~OnHpc(JobOf(w)) /\ worker[w].pc = "s_qsub"
        /\ worker[w].item.jobtype = "submit"
        /\ hpc' = [hpc EXCEPT ![JobOf(w)].status = Queued]
    BY <1>1 DEF SubmitQsub, qsub, At, CompletionInv, ItemsFit, SubmittedOnce, RunningSubmits,
                Submits, JobOf
  <2>2. \A k \in Jobs \ {JobOf(w)} : batch'[k] = batch[k]
    BY <2>1 DEF batch, BatchOf, OnHpc, Finished
  <2>3. BatchStarts(JobOf(w))
    <3>1. Queued \notin {"none", Ended, "gone"}
      BY ClusterAssumption DEF Queued, Ended
    <3>2. hpc'[JobOf(w)].status = Queued
      BY <1>0, <2>1 DEF ClusterTypeOK
    <3> QED BY <2>1, <3>1, <3>2 DEF BatchStarts, batch, BatchOf, OnHpc, Finished, Ended
  <2>4. WorkerPhase(w) \in HandPhases(JobOf(w)) /\ WorkerPhase(w) = 1
    BY <2>1 DEF HandPhases, BusyHandlers, Handles, JobOf, WorkerPhase, ItemPhase
  <2>5. jobs[JobOf(w)].state = WSDJobStateDeleted \/ Phase(jobs[JobOf(w)].state) = 1
    BY <2>1, <2>4 DEF PhasesInv, HandsInPhase, InPhase
  <2>6. jobs[JobOf(w)].state \in {NoRecord} \cup JobStates
    BY <2>1 DEF TypeOK, SchedulerTypeOK, DatabaseTypeOK, JobRecord
  <2>7. LifeOf(jobs[JobOf(w)].state) \in {"accepted", "deleted"}
    BY <2>5, <2>6, PhaseTable, StageTable
  <2> QED BY <2>1, <2>2, <2>3, <2>7
<1>2. ASSUME NEW k, NEW P, NEW J, HpcActions(k, P, J)
      PROVE  \A j \in Jobs : batch'[j] = batch[j] \/ (j = k /\ BatchEnds(j))
  BY <1>0, <1>2, ClusterEndsBatches
<1> QED BY <1>1, <1>2, HpcSteps

(* With one background thread, and if no statement is executed and taken   *)
(* for failed, each step is one of the life of a job, or a client does not *)
(* see it: for any number of jobs, threads and requests, whatever fails,   *)
(* crashes and is deleted.                                                 *)
THEOREM ImplementsJobLife ==
    ASSUME AtMostOne(Pollers), ~AnswersMayBeLost
    PROVE  Spec => LifeSpec
<1>1. Init => Life!Init
  <2> SUFFICES ASSUME Init PROVE Life!Init
    OBVIOUS
  <2>1. \A j \in Jobs : LifeOf(jobs[j].state) = "none"
    BY StageTable DEF Init, SchedulerInit, DatabaseInit
  <2>2. \A j \in Jobs : BatchOf(j) = "unknown"
    BY DEF Init, SchedulerInit, ClusterInit, BatchOf, OnHpc
  <2> QED BY <2>1, <2>2 DEF Life!Init, life, batch
<1>2. Inv /\ HandsInv /\ HandsInv' /\ PhasesInv /\ RowsInv /\ [Next]_vars
         => [Life!Next]_<<life, batch>>
  <2> SUFFICES ASSUME Inv, HandsInv, HandsInv', PhasesInv, RowsInv, [Next]_vars
               PROVE  Life!Next \/ UNCHANGED <<life, batch>>
    OBVIOUS
  <2>0. /\ TypeOK /\ CompletionInv
        /\ DOMAIN life = Jobs /\ DOMAIN life' = Jobs /\ DOMAIN batch = Jobs /\ DOMAIN batch' = Jobs
        /\ life = [k \in Jobs |-> life[k]] /\ life' = [k \in Jobs |-> life'[k]]
        /\ batch = [k \in Jobs |-> batch[k]] /\ batch' = [k \in Jobs |-> batch'[k]]
        /\ \A k \in Jobs : life[k] = LifeOf(jobs[k].state) /\ life'[k] = LifeOf(jobs'[k].state)
    BY DEF Inv, life, batch
  <2>1. CASE StatesStay
    <3>1. life' = life
      BY <2>0, <2>1 DEF StatesStay
    <3>2. CASE \A k \in Jobs : batch'[k] = batch[k]
      BY <2>0, <3>1, <3>2
    <3>3. ASSUME NEW j \in Jobs, \A k \in Jobs \ {j} : batch'[k] = batch[k],
                 BatchEnds(j)
          PROVE  Life!Next
      <4>1. batch' = [batch EXCEPT ![j] = batch'[j]]
        BY <2>0, <3>3
      <4> QED BY <3>1, <3>3, <4>1 DEF BatchEnds, Life!Next, Life!End
    <3>4. ASSUME NEW j \in Jobs, \A k \in Jobs \ {j} : batch'[k] = batch[k],
                 BatchStarts(j), LifeOf(jobs[j].state) \in {"accepted", "deleted"}
          PROVE  Life!Next
      <4>1. batch' = [batch EXCEPT ![j] = batch'[j]]
        BY <2>0, <3>4
      <4> QED BY <2>0, <3>1, <3>4, <4>1 DEF BatchStarts, Life!Next, Life!Start
    <3> QED BY <2>0, <3>2, <3>3, <3>4, StepRunsBatches
  <2>2. ASSUME ~StatesStay PROVE UNCHANGED batch
    <3>1. UNCHANGED hpc
      BY <2>2, OneSideMoves DEF StatesStay
    <3> QED BY <3>1 DEF batch, BatchOf, OnHpc, Finished
  <2>3. ASSUME NEW j \in Jobs, NEW s, JobSet(j, s), HasRow(j) \/ s = WSDJobStateInServiceQueue,
               UNCHANGED batch
        PROVE  Life!Next \/ UNCHANGED <<life, batch>>
    <3>1. life' = [life EXCEPT ![j] = life'[j]]
      BY <2>0, <2>3 DEF JobSet
    <3>2. CASE life'[j] = life[j]
      BY <2>0, <2>3, <3>1, <3>2
    <3>3. CASE life'[j] = "deleted"
      <4>1. life[j] # "none"
        <5>1. HasRow(j)
          BY <2>0, <2>3, <3>3, StageTable DEF JobSet
        <5>2. jobs[j].state \in JobStates
          BY <2>0, <5>1 DEF HasRow, TypeOK, SchedulerTypeOK, DatabaseTypeOK, JobRecord
        <5> QED BY <2>0, <5>2, StageTable
      <4>2. life' = [k \in Jobs |-> IF k \in {j} THEN "deleted" ELSE life[k]]
        BY <2>0, <3>1, <3>3
      <4>3. Life!Delete({j})
        BY <2>3, <4>1, <4>2 DEF Life!Delete
      <4> QED BY <4>3 DEF Life!Next
    <3>4. CASE life[j] = "none" /\ life'[j] = "accepted"
      BY <2>3, <3>1, <3>4 DEF Life!Next, Life!Accept, Life!Report
    <3>5. ASSUME NEW stage \in Life!Onward, life[j] \in {stage[1], "deleted"},
                 life'[j] = stage[2], Life!IsTrue(stage[2], j)
          PROVE  Life!Next
      <4>1. Life!Report(j, stage[2])
        BY <2>3, <3>1, <3>5 DEF Life!Report
      <4>2. Life!GoOn(j) \/ Life!ComeBack(j)
        BY <3>5, <4>1 DEF Life!GoOn, Life!ComeBack
      <4> QED BY <4>2 DEF Life!Next
    <3> QED BY <2>0, <3>2, <3>3, <3>4, <3>5, StepGoesOn
  <2>4. ASSUME NEW J \in SUBSET Jobs, JobsDeleted(J), \A j \in J : HasRow(j), UNCHANGED batch
        PROVE  Life!Next
    <3>1. \A j \in J : life[j] # "none"
      <4>1. \A j \in J : jobs[j].state \in JobStates
        BY <2>0, <2>4 DEF HasRow, TypeOK, SchedulerTypeOK, DatabaseTypeOK, JobRecord
      <4> QED BY <2>0, <2>4, <4>1, StageTable
    <3>2. life' = [k \in Jobs |-> IF k \in J THEN "deleted" ELSE life[k]]
      <4>1. \A k \in Jobs : life'[k] = IF k \in J THEN "deleted" ELSE life[k]
        BY <2>0, <2>4, StageTable DEF JobsDeleted
      <4> QED BY <2>0, <4>1
    <3>3. Life!Delete(J)
      BY <2>4, <3>1, <3>2 DEF Life!Delete
    <3> QED BY <3>3 DEF Life!Next
  <2> QED BY <2>0, <2>1, <2>2, <2>3, <2>4, StepSetsStates DEF StatesMove
<1> QED BY <1>1, <1>2, Invariance, HandsInvariance, PhasesInvariance, RowsInvariance, PTL
        DEF Spec, LifeSpec, Life!Spec

=============================================================================
