------------------------------ MODULE Database ------------------------------
(***************************************************************************)
(* The tables "packages" and "jobs" and the statements WSData runs on      *)
(* them.  Every statement is one auto-committed SQL command; a method that *)
(* runs several is split by its callers into several steps.                *)
(***************************************************************************)
EXTENDS WorkState

VARIABLES packages, jobs
dbVars == <<packages, jobs>>

(* folder: a package folder was recorded (the column starts as " ");       *)
(* submitted: hpc_job_id and hpc_job_desc were recorded (start as " ").    *)
PackageRecord == [state : {NoRecord} \cup PackageStates, folder : BOOLEAN]
JobRecord == [state : {NoRecord} \cup JobStates,
              package : Packages \cup {NoPackage}, submitted : BOOLEAN]

DatabaseTypeOK == /\ packages \in [Packages -> PackageRecord]
                  /\ jobs \in [Jobs -> JobRecord]

DatabaseInit ==
    /\ packages = [p \in Packages |-> [state |-> NoRecord, folder |-> FALSE]]
    /\ jobs = [j \in Jobs |-> [state |-> NoRecord, package |-> NoPackage,
                               submitted |-> FALSE]]

-----------------------------------------------------------------------------
(* Packages *)

createPackage(p) ==
    /\ packages[p].state = NoRecord
    /\ packages' = [packages EXCEPT ![p].state = WSDPackageStateInQueue]
    /\ UNCHANGED jobs

updatePackageState(p, s) == /\ packages' = [packages EXCEPT ![p].state = s]
                            /\ UNCHANGED jobs

updatePackageError(p) == updatePackageState(p, WSDPackageStateError)

setPackageFolder(p) == /\ packages' = [packages EXCEPT ![p].folder = TRUE]
                       /\ UNCHANGED jobs

-----------------------------------------------------------------------------
(* Jobs *)

createJob(j, p) ==
    /\ jobs[j].state = NoRecord
    /\ jobs' = [jobs EXCEPT ![j] = [state |-> WSDJobStateInServiceQueue,
                                    package |-> p, submitted |-> FALSE]]
    /\ UNCHANGED packages

(* The UPDATE of setJobState; its SELECT of the last state is a step of    *)
(* its own where the caller asks whether the state changed.                *)
setJobState(j, s) == /\ jobs' = [jobs EXCEPT ![j].state = s]
                     /\ UNCHANGED packages

setJobSubmittedByID(j) ==
    /\ jobs' = [jobs EXCEPT ![j].state = WSDJobStateInHPCQueue,
                            ![j].submitted = TRUE]
    /\ UNCHANGED packages

(* Mutant of setJobFailedByID: a failed job is left to be checked again.   *)
setJobToBeChecked(j) == setJobState(j, WSDJobStateCompletedInHPC)

setJobErrorByID(j)  == setJobState(j, WSDJobStateError)
setJobFailedByID(j) == setJobState(j, WSDJobStateError)
setJobDoneByID(j)   == setJobState(j, WSDJobOutputStateTransferDone)
deleteJobByID(j)    == setJobState(j, WSDJobStateDeleted)

(* Mutant: the HPC center is asked about a job until its results are here. *)
getAllUnfinishedJobs ==
    {j \in Jobs : jobs[j].state \in
        {WSDJobStateInHPCQueue, WSDJobStateRunning, WSDJobStateHeld,
         WSDJobStateMoved, WSDJobStateWaiting, WSDJobStateSuspended,
         WSDJobOutputStateTransferring, WSDJobStateCompletedInHPC}}

(* The jobs the background worker asks the HPC center about. *)
getAllSubmittedAndRunningJobsByHPCID ==
    {j \in Jobs : jobs[j].state \in
        {WSDJobStateInHPCQueue, WSDJobStateRunning, WSDJobStateHeld,
         WSDJobStateMoved, WSDJobStateWaiting, WSDJobStateSuspended}}

-----------------------------------------------------------------------------
(* The statements of deletePackageByID *)

JobsOf(p) == {j \in Jobs : jobs[j].package = p}

PackageMayBeDeleted(p) ==
    packages[p].state \notin {WSDPackageDeleted, WSDPackageStateDone}

AllJobsSettled(p) ==
    \A j \in JobsOf(p) : jobs[j].state \in {WSDJobStateDeleted,
                                            WSDJobOutputStateTransferDone}

setJobsDeleted(p) ==
    /\ jobs' = [j \in Jobs |-> IF j \in JobsOf(p)
                               THEN [jobs[j] EXCEPT !.state = WSDJobStateDeleted]
                               ELSE jobs[j]]
    /\ UNCHANGED packages

setPackageDeleted(p) == updatePackageState(p, WSDPackageDeleted)
=============================================================================
