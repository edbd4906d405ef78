----------------------------- MODULE Scheduler ------------------------------
(***************************************************************************)
(* What the threads of HydroGate share: the database, the HPC center, the  *)
(* FIFO work queue of WSScheduler and the URL callbacks.  Worker, Poller   *)
(* and Pages add the threads.  The queue is used through addHPCWork and    *)
(* removeHPCWork only, one atomic step each (module WorkQueue has the      *)
(* mutex and the condition variable).                                      *)
(***************************************************************************)
EXTENDS Database, Cluster, Sequences

CONSTANTS NoJob,             \* jobid of a work item about a package
          JobCallbacks,      \* setting callback.jobcallbackenabled
          AnswersMayBeLost   \* whether a statement may be executed and yet be
                             \* taken for failed, its answer being lost

ASSUME SchedulerAssumption == /\ NoJob \notin Jobs
                              /\ JobCallbacks \in BOOLEAN
                              /\ AnswersMayBeLost \in BOOLEAN

VARIABLES hpcworkqueue,  \* WSScheduler::hpcworkqueue_
          told           \* per job: the state its last callback announced

sharedVars == <<packages, jobs, hpc, store, hpcworkqueue, told>>

(* folder and submitted are what the page read from the database when it   *)
(* made the item: whether packages.folder and jobs.hpc_job_id were set.    *)
WorkType == {"upload", "submit", "check", "delete_job", "delete_package"}
WSHPCWork == [jobtype : WorkType, job : Jobs \cup {NoJob},
              package : Packages \cup {NoPackage},
              folder : BOOLEAN, submitted : BOOLEAN]

Work(type, j, p) == [jobtype |-> type, job |-> j, package |-> p,
                     folder |-> FALSE, submitted |-> FALSE]

SchedulerTypeOK == /\ DatabaseTypeOK
                   /\ ClusterTypeOK
                   /\ hpcworkqueue \in Seq(WSHPCWork)
                   /\ told \in [Jobs -> {NoRecord} \cup JobStates]

SchedulerInit == /\ DatabaseInit
                 /\ ClusterInit
                 /\ hpcworkqueue = <<>>
                 /\ told = [j \in Jobs |-> NoRecord]

addHPCWork(work) == hpcworkqueue' = Append(hpcworkqueue, work)

removeHPCWork == /\ hpcworkqueue # <<>>
                 /\ hpcworkqueue' = Tail(hpcworkqueue)

(* The state a thread has to announce once it wrote it (0: nothing); with  *)
(* callbacks disabled the url is empty and doCallback does nothing.        *)
ToAnnounce(s) == IF JobCallbacks THEN s ELSE NoRecord

doCallback(j, s) == told' = [told EXCEPT ![j] = s]
=============================================================================
