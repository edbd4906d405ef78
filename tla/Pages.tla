-------------------------------- MODULE Pages --------------------------------
(***************************************************************************)
(* The page handlers of the web service that change state, run by the      *)
(* threads of the FastCGI application: UploadPackage, SubmitJob, DeleteJob *)
(* and DeletePackage.  A handler checks its request against the database,  *)
(* changes the database, and leaves the rest to a work item.               *)
(***************************************************************************)
EXTENDS Scheduler

CONSTANTS Clients,    \* the threads that handle requests
          MaxDeletes  \* bound: requests to delete each job and each package

ASSUME PagesAssumption == MaxDeletes \in [Packages \cup Jobs -> Nat]

VARIABLES client,    \* per thread: control point and item being made
          deletes    \* delete requests made so far for each job and package

NoRequest == [pc |-> "idle", item |-> Work("upload", NoJob, NoPackage)]

ClientPc == {"idle", "enqueue", "create", "state", "jobs", "delete_jobs", "delete_package"}

ClientRecord == [pc : ClientPc, item : WSHPCWork]

PagesTypeOK == /\ client \in [Clients -> ClientRecord]
               /\ deletes \in [Packages \cup Jobs -> Nat]

PagesInit == /\ client = [c \in Clients |-> NoRequest]
             /\ deletes = [x \in Packages \cup Jobs |-> 0]

Asked(c, pc) == client[c].pc = pc
PackageIn(c) == client[c].item.package

Proceed(c, pc) == client' = [client EXCEPT ![c].pc = pc]
Begin(c, pc, item) ==
    /\ Asked(c, "idle")
    /\ client' = [client EXCEPT ![c] = [pc |-> pc, item |-> item]]
(* The answer is an error and its description. *)
Refuse(c) == client' = [client EXCEPT ![c] = NoRequest]
DeleteRequest(x) == /\ deletes[x] < MaxDeletes[x]
                    /\ deletes' = [deletes EXCEPT ![x] = @ + 1]

-----------------------------------------------------------------------------
(* The last step of every handler: addHPCWork and the answer "success". *)
Enqueue(c) ==
    /\ Asked(c, "enqueue")
    /\ addHPCWork(client[c].item)
    /\ client' = [client EXCEPT ![c] = NoRequest]
    /\ UNCHANGED <<dbVars, clusterVars, told, deletes>>

UploadPackage(c) ==
    \E p \in Packages :
        /\ createPackage(p)
        /\ Begin(c, "enqueue", Work("upload", NoJob, p))
        /\ UNCHANGED <<clusterVars, hpcworkqueue, told, deletes>>

-----------------------------------------------------------------------------
(* SubmitJob *)

(* The package must be done; its folder goes into the item. *)
SubmitJob(c) ==
    \E p \in Packages :
        /\ packages[p].state # NoRecord
        /\ Asked(c, "idle")
        /\ IF packages[p].state = WSDPackageStateDone
           THEN Begin(c, "create", [Work("submit", NoJob, p)
                                    EXCEPT !.folder = packages[p].folder])
           ELSE Refuse(c)
        /\ UNCHANGED <<sharedVars, deletes>>

(* The definition was parsed and checked against the database. *)
SubmitJobCreate(c) ==
    /\ Asked(c, "create")
    /\ \E j \in Jobs :
        /\ createJob(j, PackageIn(c))
        /\ client' = [client EXCEPT ![c].pc = "enqueue", ![c].item.job = j]
    /\ UNCHANGED <<clusterVars, hpcworkqueue, told, deletes>>

-----------------------------------------------------------------------------
DeleteJob(c) ==
    \E j \in Jobs :
        /\ jobs[j].state # NoRecord
        /\ DeleteRequest(j)
        /\ Begin(c, "enqueue", [Work("delete_job", j, jobs[j].package)
                                EXCEPT !.submitted = jobs[j].submitted])
        /\ UNCHANGED sharedVars

-----------------------------------------------------------------------------
(* DeletePackage: getPackageByID reads the folder, then deletePackageByID  *)
(* reads the state of the package, then the states of its jobs, and        *)
(* updates the jobs and then the package.                                  *)

DeletePackage(c) ==
    \E p \in Packages :
        /\ packages[p].state # NoRecord
        /\ DeleteRequest(p)
        /\ Begin(c, "state", [Work("delete_package", NoJob, p)
                              EXCEPT !.folder = packages[p].folder])
        /\ UNCHANGED sharedVars

DeletePackageCheckState(c) ==
    /\ Asked(c, "state")
    /\ PackageMayBeDeleted(PackageIn(c))
    /\ Proceed(c, "jobs")
    /\ UNCHANGED <<sharedVars, deletes>>

DeletePackageRefuseState(c) ==
    /\ Asked(c, "state")
    /\ ~PackageMayBeDeleted(PackageIn(c))
    /\ Refuse(c)
    /\ UNCHANGED <<sharedVars, deletes>>

DeletePackageCheckJobs(c) ==
    /\ Asked(c, "jobs")
    /\ IF AllJobsSettled(PackageIn(c)) THEN Proceed(c, "delete_jobs")
                                       ELSE Refuse(c)
    /\ UNCHANGED <<sharedVars, deletes>>

DeletePackageJobs(c) ==
    /\ Asked(c, "delete_jobs")
    /\ setJobsDeleted(PackageIn(c))
    /\ Proceed(c, "delete_package")
    /\ UNCHANGED <<clusterVars, hpcworkqueue, told, deletes>>

DeletePackageRow(c) ==
    /\ Asked(c, "delete_package")
    /\ setPackageDeleted(PackageIn(c))
    /\ Proceed(c, "enqueue")
    /\ UNCHANGED <<clusterVars, hpcworkqueue, told, deletes>>

(* A statement fails, or the job definition is wrong: the request ends. *)
RequestFails(c) ==
    /\ client[c].pc \notin {"idle", "enqueue"}
    /\ Refuse(c)
    /\ UNCHANGED <<sharedVars, deletes>>

(* A statement was executed and its answer lost: the request ends the same *)
(* way, and a package or a job is left that no item works on.              *)
RequestLosesAnswer(c) ==
    /\ AnswersMayBeLost
    /\ \/ Asked(c, "idle") /\ \E p \in Packages : createPackage(p)
       \/ Asked(c, "create") /\ \E j \in Jobs : createJob(j, PackageIn(c))
       \/ Asked(c, "delete_jobs") /\ setJobsDeleted(PackageIn(c))
       \/ Asked(c, "delete_package") /\ setPackageDeleted(PackageIn(c))
    /\ Refuse(c)
    /\ UNCHANGED <<clusterVars, hpcworkqueue, told, deletes>>

ClientStep(c) ==
    \/ Enqueue(c) \/ UploadPackage(c) \/ SubmitJob(c) \/ SubmitJobCreate(c)
    \/ DeleteJob(c) \/ DeletePackage(c) \/ DeletePackageCheckState(c)
    \/ DeletePackageRefuseState(c) \/ DeletePackageCheckJobs(c)
    \/ DeletePackageJobs(c) \/ DeletePackageRow(c) \/ RequestFails(c)
    \/ RequestLosesAnswer(c)
=============================================================================
