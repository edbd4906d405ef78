------------------------------- MODULE Worker -------------------------------
(***************************************************************************)
(* The worker threads (WSScheduler::runWorkerItemEntry): each takes an     *)
(* item from the queue, works on it over an SSH session and goes back to   *)
(* the queue.  Any remote command, file transfer or database access may    *)
(* throw; the catch blocks then record the error.  Sessions are taken from *)
(* and returned to the pool by the steps that start and end an item; the   *)
(* pool itself is module SessionPool.                                      *)
(***************************************************************************)
EXTENDS Scheduler

CONSTANTS Workers,
          InputMode,    \* settings isinputinlocalmode and the package path:
                        \* "local" file, "irods" path or "url"
          MayFail,      \* whether a step may fail that has all it needs
          DbMayFail     \* whether the UPDATE of a catch block may fail too

ASSUME WorkerAssumption == /\ InputMode \in {"local", "irods", "url"}
                           /\ MayFail \in BOOLEAN
                           /\ DbMayFail \in BOOLEAN

VARIABLE worker   \* per thread: control point, work item, exit code, callback due

Idle == [pc |-> "idle", item |-> Work("upload", NoJob, NoPackage),
         ok |-> FALSE, due |-> NoRecord]

WorkerPc == {"idle",
             "u_running", "u_folder", "u_mkdir", "u_transferring", "u_iget",
             "u_transfer", "u_done",
             "s_mkdir", "s_unzip", "s_qsub", "s_record",
             "c_read", "c_transferring", "c_finish",
             "d_mark", "d_qdel", "d_rm", "p_rm", "lost"}

WorkerTypeOK == worker \in [Workers -> [pc : WorkerPc, item : WSHPCWork,
                                        ok : BOOLEAN,
                                        due : {NoRecord} \cup JobStates]]

WorkerInit == worker = [w \in Workers |-> Idle]

At(w, pc) == worker[w].pc = pc /\ worker[w].due = NoRecord
JobOf(w)     == worker[w].item.job
PackageOf(w) == worker[w].item.package

Goto(w, pc) == worker' = [worker EXCEPT ![w].pc = pc]
GotoAndAnnounce(w, pc, s) ==
    worker' = [worker EXCEPT ![w].pc = pc, ![w].due = ToAnnounce(s)]
(* Free the item and return the session to its pool. *)
Finish(w) == worker' = [worker EXCEPT ![w] = Idle]
(* The last callback of an item, if there is one, comes before that. *)
FinishAndAnnounce(w, s) ==
    IF ToAnnounce(s) = NoRecord THEN Finish(w) ELSE GotoAndAnnounce(w, "idle", s)

-----------------------------------------------------------------------------
FirstStep == [upload |-> "u_running", submit |-> "s_mkdir", check |-> "c_read",
              delete_job |-> "d_mark", delete_package |-> "p_rm"]

TakeWork(w) ==
    /\ At(w, "idle")
    /\ removeHPCWork
    /\ LET item == Head(hpcworkqueue)
       IN worker' = [worker EXCEPT ![w] = [pc |-> FirstStep[item.jobtype], item |-> item,
                                           ok |-> FALSE, due |-> NoRecord]]
    /\ UNCHANGED <<dbVars, clusterVars, told>>

(* The doCallback that follows a state change; the thread goes on after it. *)
Announce(w) ==
    /\ worker[w].due # NoRecord
    /\ doCallback(JobOf(w), worker[w].due)
    /\ worker' = IF worker[w].pc = "idle" THEN [worker EXCEPT ![w] = Idle]
                 ELSE [worker EXCEPT ![w].due = NoRecord]
    /\ UNCHANGED <<dbVars, clusterVars, hpcworkqueue>>

-----------------------------------------------------------------------------
(* HPCJobPackageUpload *)

UploadRunning(w) ==
    /\ At(w, "u_running")
    /\ updatePackageState(PackageOf(w), WSDPackageStateRunning)
    /\ Goto(w, "u_folder")
    /\ UNCHANGED <<clusterVars, hpcworkqueue, told>>

UploadFolder(w) ==
    /\ At(w, "u_folder")
    /\ setPackageFolder(PackageOf(w))
    /\ Goto(w, "u_mkdir")
    /\ UNCHANGED <<clusterVars, hpcworkqueue, told>>

UploadMkdir(w) ==
    /\ At(w, "u_mkdir")
    /\ store' = [store EXCEPT ![PackageOf(w)] = "empty"]
    /\ Goto(w, "u_transferring")
    /\ UNCHANGED <<dbVars, hpc, hpcworkqueue, told>>

(* The state is written before the transfer and, for an iRODS package, a   *)
(* second time after iget fetched it.                                      *)
UploadTransferring(w) ==
    /\ At(w, "u_transferring") \/ At(w, "u_iget")
    /\ updatePackageState(PackageOf(w), WSDPackageStateTransferring)
    /\ Goto(w, IF At(w, "u_transferring") /\ InputMode = "irods"
               THEN "u_iget" ELSE "u_transfer")
    /\ UNCHANGED <<clusterVars, hpcworkqueue, told>>

(* Mutant of UploadTransfer: the result of the copy is not looked at.      *)
UploadTransferUnchecked(w) ==
    /\ At(w, "u_transfer")
    /\ store[PackageOf(w)] # "absent"
    /\ \E s \in {store[PackageOf(w)], "zip"} : store' = [store EXCEPT ![PackageOf(w)] = s]
    /\ Goto(w, "u_done")
    /\ UNCHANGED <<dbVars, hpc, hpcworkqueue, told>>

(* The transfer brings data: a download creates the zip when the first of  *)
(* it arrives, and an empty one would leave none and count as done.  That  *)
(* the last scp calls fail unseen is left out, too.                        *)
UploadTransfer(w) ==
    /\ At(w, "u_transfer")
    /\ store[PackageOf(w)] # "absent"
    /\ store' = [store EXCEPT ![PackageOf(w)] = "zip"]
    /\ Goto(w, "u_done")
    /\ UNCHANGED <<dbVars, hpc, hpcworkqueue, told>>

UploadDone(w) ==
    /\ At(w, "u_done")
    /\ updatePackageState(PackageOf(w), WSDPackageStateDone)
    /\ Finish(w)
    /\ UNCHANGED <<clusterVars, hpcworkqueue, told>>

Upload(w) == \/ UploadRunning(w) \/ UploadFolder(w) \/ UploadMkdir(w)
             \/ UploadTransferring(w) \/ UploadTransfer(w) \/ UploadDone(w)

-----------------------------------------------------------------------------
(* HPCJobSubmit *)

(* scp makes the folder of the package too, if it is not there. *)
SubmitMkdir(w) ==
    /\ At(w, "s_mkdir")
    /\ store' = [store EXCEPT ![PackageOf(w)] = IF @ = "absent" THEN "empty" ELSE @]
    /\ hpc' = [hpc EXCEPT ![JobOf(w)].dir = "empty"]
    /\ Goto(w, "s_unzip")
    /\ UNCHANGED <<dbVars, hpcworkqueue, told>>

SubmitUnzip(w) ==
    /\ At(w, "s_unzip")
    /\ store[PackageOf(w)] = "zip"
    /\ hpc' = [hpc EXCEPT ![JobOf(w)].dir = "unzipped"]
    /\ Goto(w, "s_qsub")
    /\ UNCHANGED <<dbVars, store, hpcworkqueue, told>>

(* Mutant of SubmitQsub: the job is recorded as submitted before qsub.     *)
RecordThenQsub(w) ==
    /\ At(w, "s_qsub") /\ hpc[JobOf(w)].dir # "absent"
    /\ \/ /\ jobs[JobOf(w)].state = WSDJobStateInServiceQueue
          /\ setJobSubmittedByID(JobOf(w))
          /\ UNCHANGED <<worker, clusterVars>>
       \/ /\ jobs[JobOf(w)].state # WSDJobStateInServiceQueue
          /\ qsub(JobOf(w))
          /\ Goto(w, "s_record")
          /\ UNCHANGED dbVars
    /\ UNCHANGED <<hpcworkqueue, told>>

(* The job script is written and handed to qsub or sbatch. *)
SubmitQsub(w) ==
    /\ At(w, "s_qsub")
    /\ hpc[JobOf(w)].dir # "absent"
    /\ qsub(JobOf(w))
    /\ Goto(w, "s_record")
    /\ UNCHANGED <<dbVars, hpcworkqueue, told>>

SubmitRecord(w) ==
    /\ At(w, "s_record")
    /\ setJobSubmittedByID(JobOf(w))
    /\ FinishAndAnnounce(w, WSDJobStateInHPCQueue)
    /\ UNCHANGED <<clusterVars, hpcworkqueue, told>>

Submit(w) == SubmitMkdir(w) \/ SubmitUnzip(w) \/ SubmitQsub(w) \/ SubmitRecord(w)

-----------------------------------------------------------------------------
(* HPCJobCheckResult *)

(* errorcode.log is read, and the transfer of the zip is opened. *)
CheckRead(w) ==
    /\ At(w, "c_read")
    /\ hpc[JobOf(w)].dir = "results"
    /\ worker' = [worker EXCEPT ![w].pc = "c_transferring",
                                ![w].ok = hpc[JobOf(w)].ok]
    /\ UNCHANGED sharedVars

CheckTransferring(w) ==
    /\ At(w, "c_transferring")
    /\ setJobState(JobOf(w), WSDJobOutputStateTransferring)
    /\ GotoAndAnnounce(w, "c_finish", WSDJobOutputStateTransferring)
    /\ UNCHANGED <<clusterVars, hpcworkqueue, told>>

(* Mutant of CheckFinish: the exit code in errorcode.log is not used.      *)
CheckFinishAnyCode(w) ==
    /\ At(w, "c_finish")
    /\ setJobDoneByID(JobOf(w))
    /\ FinishAndAnnounce(w, WSDJobOutputStateTransferDone)
    /\ UNCHANGED <<clusterVars, hpcworkqueue, told>>

(* The zip has been copied: the job is done, or failed by its exit code. *)
CheckFinish(w) ==
    /\ At(w, "c_finish")
    /\ IF worker[w].ok
       THEN /\ setJobDoneByID(JobOf(w))
            /\ FinishAndAnnounce(w, WSDJobOutputStateTransferDone)
       ELSE /\ setJobFailedByID(JobOf(w))
            /\ FinishAndAnnounce(w, WSDJobStateError)
    /\ UNCHANGED <<clusterVars, hpcworkqueue, told>>

Check(w) == CheckRead(w) \/ CheckTransferring(w) \/ CheckFinish(w)

-----------------------------------------------------------------------------
(* HPCJobDelete *)

DeleteMark(w) ==
    /\ At(w, "d_mark")
    /\ deleteJobByID(JobOf(w))
    /\ GotoAndAnnounce(w, "d_qdel", WSDJobStateDeleted)
    /\ UNCHANGED <<clusterVars, hpcworkqueue, told>>

(* With no HPC job id in the item the command is "qdel 0". *)
DeleteQdel(w) ==
    /\ At(w, "d_qdel")
    /\ worker[w].item.submitted
    /\ qdel(JobOf(w))
    /\ Goto(w, "d_rm")
    /\ UNCHANGED <<dbVars, hpcworkqueue, told>>

DeleteRm(w) ==
    /\ At(w, "d_rm")
    /\ RemoveJobFolder(JobOf(w))
    /\ Finish(w)
    /\ UNCHANGED <<dbVars, hpcworkqueue, told>>

Delete(w) == DeleteMark(w) \/ DeleteQdel(w) \/ DeleteRm(w)

-----------------------------------------------------------------------------
(* HPCPackageDelete: a folder that was not recorded yet is " ", and the    *)
(* command removes ~/.hydrogate/data/ with the folders of all packages.    *)
PackageRm(w) ==
    /\ At(w, "p_rm")
    /\ IF worker[w].item.folder
       THEN RemovePackageFolders({PackageOf(w)}, JobsOf(PackageOf(w)))
       ELSE RemovePackageFolders(Packages, Jobs)
    /\ Finish(w)
    /\ UNCHANGED <<dbVars, hpcworkqueue, told>>

-----------------------------------------------------------------------------
(* Mutant of RecordError: the error of a submission is not recorded.       *)
RecordNoSubmitError(w) ==
    CASE worker[w].item.jobtype = "upload" -> updatePackageError(PackageOf(w))
      [] worker[w].item.jobtype = "check"  -> setJobFailedByID(JobOf(w))
      [] OTHER -> UNCHANGED dbVars

(* Mutant of RecordError: the kind of a job's item is not looked at.       *)
RecordAnyJobError(w) ==
    CASE worker[w].item.jobtype = "upload"         -> updatePackageError(PackageOf(w))
      [] worker[w].item.jobtype = "delete_package" -> UNCHANGED dbVars
      [] OTHER -> setJobErrorByID(JobOf(w))

(* An exception in any step: no more of the item is done, and a catch      *)
(* block records the error of an upload, a submit or a check.  Its         *)
(* doCallback gets the callbackurl of the thread function, always "",      *)
(* since each branch declares one of its own; its own exceptions are       *)
(* swallowed.                                                              *)
RecordError(w) ==
    CASE worker[w].item.jobtype = "upload" -> updatePackageError(PackageOf(w))
      [] worker[w].item.jobtype = "submit" -> setJobErrorByID(JobOf(w))
      [] worker[w].item.jobtype = "check"  -> setJobFailedByID(JobOf(w))
      [] OTHER -> UNCHANGED dbVars

(* The database executed the statement of the step and the answer did not  *)
(* come back whole: the method throws as if it had done nothing.           *)
LoseAnswer(w) ==
    /\ AnswersMayBeLost
    /\ \/ At(w, "u_running") /\ updatePackageState(PackageOf(w), WSDPackageStateRunning)
       \/ At(w, "u_folder") /\ setPackageFolder(PackageOf(w))
       \/ /\ At(w, "u_transferring") \/ At(w, "u_iget")
          /\ updatePackageState(PackageOf(w), WSDPackageStateTransferring)
       \/ At(w, "u_done") /\ updatePackageState(PackageOf(w), WSDPackageStateDone)
       \/ At(w, "s_record") /\ setJobSubmittedByID(JobOf(w))
       \/ At(w, "c_transferring") /\ setJobState(JobOf(w), WSDJobOutputStateTransferring)
       \/ At(w, "c_finish") /\ worker[w].ok /\ setJobDoneByID(JobOf(w))
       \/ At(w, "c_finish") /\ ~worker[w].ok /\ setJobFailedByID(JobOf(w))
       \/ At(w, "d_mark") /\ deleteJobByID(JobOf(w))
    /\ Goto(w, "lost")
    /\ UNCHANGED <<clusterVars, hpcworkqueue, told>>

(* The steps that cannot do what they are for. *)
MustFail(w) ==
    \/ At(w, "lost")
    \/ At(w, "u_transfer") /\ store[PackageOf(w)] = "absent"
    \/ At(w, "s_unzip") /\ store[PackageOf(w)] # "zip"
    \/ At(w, "s_qsub") /\ hpc[JobOf(w)].dir = "absent"
    \/ At(w, "c_read") /\ hpc[JobOf(w)].dir # "results"
    \/ At(w, "d_qdel") /\ ~(worker[w].item.submitted /\ QdelWorks(JobOf(w)))

(* Mutant of Throw: a failed item is queued again.                         *)
ThrowAndRetry(w) ==
    /\ worker[w].pc # "idle" /\ worker[w].due = NoRecord
    /\ MayFail \/ MustFail(w)
    /\ addHPCWork(worker[w].item)
    /\ Finish(w)
    /\ UNCHANGED <<dbVars, clusterVars, told>>

Throw(w) ==
    /\ worker[w].pc # "idle" /\ worker[w].due = NoRecord
    /\ MayFail \/ MustFail(w)
    /\ RecordError(w) \/ (DbMayFail /\ UNCHANGED dbVars)
    /\ Finish(w)
    /\ UNCHANGED <<clusterVars, hpcworkqueue, told>>

WorkerStep(w) == \/ TakeWork(w) \/ Announce(w) \/ Upload(w) \/ Submit(w)
                 \/ Check(w) \/ Delete(w) \/ PackageRm(w)
                 \/ LoseAnswer(w) \/ Throw(w)
=============================================================================
