------------------------------- MODULE Gateway -------------------------------
(***************************************************************************)
(* HydroGate as a whole: the request threads, the worker threads and the   *)
(* background thread of one server over its database and one HPC center,   *)
(* with crashes and restarts of the server.                                *)
(***************************************************************************)
EXTENDS Worker, Poller, Pages, FiniteSets

CONSTANT MaxCrashes   \* bound: crashes of the server
ASSUME CrashAssumption == MaxCrashes \in Nat

VARIABLE crashes
threadVars == <<worker, poller, client>>
vars == <<packages, jobs, hpc, store, hpcworkqueue, told,
          worker, poller, client, deletes, crashes>>

TypeOK == /\ SchedulerTypeOK
          /\ WorkerTypeOK
          /\ PollerTypeOK
          /\ PagesTypeOK
          /\ crashes \in 0 .. MaxCrashes

Init == /\ SchedulerInit
        /\ WorkerInit
        /\ PollerInit
        /\ PagesInit
        /\ crashes = 0

WorkerActs(w) == /\ WorkerStep(w)
                 /\ UNCHANGED <<poller, client, deletes, crashes>>
PollerActs(b) == /\ PollerStep(b)
                 /\ UNCHANGED <<worker, client, deletes, crashes>>
ClientActs(c) == /\ ClientStep(c)
                 /\ UNCHANGED <<worker, poller, crashes>>
HpcActs(j)    == /\ HpcNext(j)
                 /\ UNCHANGED <<dbVars, hpcworkqueue, told, threadVars,
                                deletes, crashes>>

(* The process dies and is started again: nothing but the database and the *)
(* HPC center survives, and nothing is put back into the queue.  Among the *)
(* deaths are two of its own making, both undefined behaviour: the refusal *)
(* of deletePackageByID by the state of the package clears its result      *)
(* twice, and a read error in runRemoteCommand is taken for a length.      *)
Crash == /\ crashes < MaxCrashes
         /\ crashes' = crashes + 1
         /\ hpcworkqueue' = <<>>
         /\ worker' = [w \in Workers |-> Idle]
         /\ poller' = [b \in Pollers |-> Asleep]
         /\ client' = [c \in Clients |-> NoRequest]
         /\ UNCHANGED <<dbVars, clusterVars, told, deletes>>

Next == \/ \E w \in Workers : WorkerActs(w)
        \/ \E b \in Pollers : PollerActs(b)
        \/ \E c \in Clients : ClientActs(c)
        \/ \E j \in Jobs : HpcActs(j)
        \/ Crash

Spec == Init /\ [][Next]_vars

-----------------------------------------------------------------------------
(* Fairness: threads are scheduled, and neither the SSH connection nor the *)
(* database is out of order for ever: a round of the background thread     *)
(* that fails over and over at the same step gets past it in the end.      *)

PollerFairness(b) ==
    /\ WF_vars(PollerActs(b))
    /\ SF_vars(PollerActs(b) /\ PollList(b))
    /\ \A j \in Jobs : /\ SF_vars(PollerActs(b) /\ PollRead(b, j))
                       /\ SF_vars(PollerActs(b) /\ PollUpdate(b) /\ poller[b].job = j)

Fairness == /\ \A w \in Workers : WF_vars(WorkerActs(w))
            /\ \A b \in Pollers : PollerFairness(b)
            /\ \A c \in Clients : WF_vars(ClientActs(c) /\ Enqueue(c))

FairSpec == Spec /\ Fairness

-----------------------------------------------------------------------------
(* Safety *)

(* What a state says of the job on the HPC center.                         *)
OnHpc(j) == hpc[j].status # "none"
IsReal(s, j) ==
    /\ s \in WSDJobStateInHPCQueue .. WSDJobStateSuspended => OnHpc(j)
    /\ s \in {WSDJobStateCompletedInHPC, WSDJobOutputStateTransferring,
              WSDJobOutputStateTransferDone} => Finished(j)
    /\ s = WSDJobOutputStateTransferDone => hpc[j].ok

(* The pairs of hands a job may be in: an item that submits it or fetches  *)
(* its results, queued or worked on, a round of a background thread, the   *)
(* request that makes it.                                                  *)
Handles(item, j) == item.jobtype \in {"submit", "check"} /\ item.job = j
QueuedHandlers(j)  == {n \in DOMAIN hpcworkqueue : Handles(hpcworkqueue[n], j)}
BusyHandlers(j)    == {w \in Workers : worker[w].pc # "idle" /\ Handles(worker[w].item, j)}
RoundHandlers(j)   == {b \in Pollers : j \in poller[b].todo \cup {poller[b].job}}
RequestHandlers(j) == {c \in Clients : Handles(client[c].item, j)}
Handlers(j) == Cardinality(QueuedHandlers(j)) + Cardinality(BusyHandlers(j))
               + Cardinality(RoundHandlers(j)) + Cardinality(RequestHandlers(j))

(* A job is in one pair of hands at a time: of the request that makes it,  *)
(* of its submission, of the background thread or of the fetch of its      *)
(* results, queued or under way.  Nothing locks a job: it holds because    *)
(* each of them hands the job on by the last thing it does to it (the      *)
(* state submit and poll write last, the check item queued at the end).    *)
OneHandlerPerJob == \A j \in Jobs : Handlers(j) <= 1

(* A job is reported as completed, its results being fetched or fetched,   *)
(* only when it has ended on the HPC center: "not in the listing" never    *)
(* means "not yet in the listing", since the job is recorded as submitted  *)
(* after qsub and the database is read before the listing.                 *)
CompletionIsReal ==
    \A j \in Jobs :
        jobs[j].state \in {WSDJobStateCompletedInHPC, WSDJobOutputStateTransferring,
                           WSDJobOutputStateTransferDone} => Finished(j)

(* A job is reported as done only if its program ended with exit code 0.   *)
DoneMeansSuccess ==
    \A j \in Jobs : jobs[j].state = WSDJobOutputStateTransferDone => hpc[j].ok

(* A package whose transfer is done, and that nobody asked to delete, "can *)
(* be used by multiple jobs without the need of retransferring": its zip   *)
(* is in its recorded folder, whatever happens to the other packages.      *)
DonePackageIsKept ==
    \A p \in Packages :
        packages[p].state = WSDPackageStateDone /\ deletes[p] = 0
            => packages[p].folder /\ store[p] = "zip"

(* A callback says the truth: when it is sent, and ever after, the job is  *)
(* on the HPC center, has ended, or ended with exit code 0, as announced,  *)
(* however long the thread that sends it slept since it wrote the state.   *)
AnnouncementsAreReal ==
    \A j \in Jobs : IsReal(told[j], j)

(* How far a job has come. *)
Phase(s) == CASE s = NoRecord -> 0
              [] s = WSDJobStateInServiceQueue -> 1
              [] s \in WSDJobStateInHPCQueue .. WSDJobStateSuspended -> 2
              [] s = WSDJobStateCompletedInHPC -> 3
              [] s = WSDJobOutputStateTransferring -> 4
              [] s \in {WSDJobOutputStateTransferDone, WSDJobStateError} -> 5
              [] s = WSDJobStateDeleted -> 6

(* A job that is not deleted never goes back: a result reported once, the  *)
(* fetched results or the error, stands until the job is deleted, and a    *)
(* completed job is never polled again.                                    *)
JobNeverGoesBack ==
    [][\A j \in Jobs : jobs[j].state # WSDJobStateDeleted
           => /\ Phase(jobs'[j].state) >= Phase(jobs[j].state)
              /\ Phase(jobs[j].state) = 5
                    => jobs'[j].state \in {jobs[j].state, WSDJobStateDeleted}]_vars

(* The callbacks of a job come in the order in which it goes on: only that *)
(* of its submission may come late, when others have taken it further, and *)
(* nothing is promised of a job once its deletion was announced.           *)
CallbacksInOrder ==
    [][\A j \in Jobs : told[j] # WSDJobStateDeleted
           => Phase(told'[j]) >= Phase(told[j]) \/ told'[j] = WSDJobStateInHPCQueue]_vars

-----------------------------------------------------------------------------
(* What a client sees of all this is module JobLife.                       *)

LifeOf(s) == CASE s = NoRecord -> "none"
               [] s = WSDJobStateInServiceQueue -> "accepted"
               [] s \in WSDJobStateInHPCQueue .. WSDJobStateSuspended -> "submitted"
               [] s = WSDJobStateCompletedInHPC -> "completed"
               [] s = WSDJobOutputStateTransferring -> "transferring"
               [] s = WSDJobOutputStateTransferDone -> "done"
               [] s = WSDJobStateError -> "failed"
               [] s = WSDJobStateDeleted -> "deleted"

BatchOf(j) == IF ~OnHpc(j) THEN "unknown"
              ELSE IF ~Finished(j) THEN "running"
              ELSE IF hpc[j].ok THEN "succeeded" ELSE "failed"

life  == [j \in Jobs |-> LifeOf(jobs[j].state)]
batch == [j \in Jobs |-> BatchOf(j)]

Life == INSTANCE JobLife WITH life <- life, batch <- batch

(* With one background thread, and if no statement is executed and taken   *)
(* for failed, the server implements the life of a job: no stage is        *)
(* skipped or taken back but by a deletion, each is true when it is        *)
(* reported, and the batch job is started once, whatever fails or crashes. *)
LifeSpec == Life!Spec

-----------------------------------------------------------------------------
(* Why CompletionIsReal and DoneMeansSuccess hold: an inductive invariant. *)

(* The places of the work item that submits job j, until qsub is called.   *)
Submits(item, j)  == item.jobtype = "submit" /\ item.job = j
QueuedSubmits(j)  == {n \in DOMAIN hpcworkqueue : Submits(hpcworkqueue[n], j)}
RunningSubmits(j) == {w \in Workers : /\ worker[w].pc \in {"s_mkdir", "s_unzip", "s_qsub"}
                                      /\ Submits(worker[w].item, j)}
ComingSubmits(j)  == {c \in Clients : client[c].pc = "enqueue" /\ Submits(client[c].item, j)}

AtMostOne(S) == \A x, y \in S : x = y

(* A job goes to qsub at most once: there is one item that submits it, in  *)
(* one place, and the HPC center has not heard of the job before.          *)
SubmittedOnce ==
    \A j \in Jobs :
        /\ AtMostOne(QueuedSubmits(j)) /\ AtMostOne(RunningSubmits(j))
        /\ AtMostOne(ComingSubmits(j))
        /\ QueuedSubmits(j) # {}  => RunningSubmits(j) = {} /\ ComingSubmits(j) = {}
        /\ RunningSubmits(j) # {} => ComingSubmits(j) = {}
        /\ QueuedSubmits(j) \cup RunningSubmits(j) \cup ComingSubmits(j) # {}
              => jobs[j].state # NoRecord /\ ~OnHpc(j)
        /\ jobs[j].state = NoRecord => ~OnHpc(j)

(* A job said to be on the HPC center is known there.                      *)
OnHpcIsKnown ==
    /\ \A j \in Jobs : jobs[j].state \in WSDJobStateInHPCQueue .. WSDJobStateSuspended
                          => OnHpc(j)
    /\ \A w \in Workers : worker[w].pc = "s_record" => OnHpc(JobOf(w))

(* The round of a background thread: it asks about jobs the HPC center     *)
(* knows, and what it takes for completed has ended, old as the listing it *)
(* goes by may be.                                                         *)
RoundIsSound(b) ==
    /\ \A j \in poller[b].todo \cup ({poller[b].job} \ {NoJob}) : OnHpc(j)
    /\ poller[b].pc \notin {"sleep", "list"} =>
          \A j \in poller[b].todo : poller[b].listing[j] \in {Ended, "none"} => Finished(j)
    /\ poller[b].pc \in {"update", "announce", "enqueue"} =>
          /\ poller[b].job \in Jobs
          /\ poller[b].new \in {WSDJobStateCompletedInHPC}
                               \cup WSDJobStateInHPCQueue .. WSDJobStateSuspended
          /\ poller[b].new = WSDJobStateCompletedInHPC => Finished(poller[b].job)
    /\ poller[b].pc = "enqueue" => poller[b].new = WSDJobStateCompletedInHPC
RoundsAreSound == \A b \in Pollers : RoundIsSound(b)

(* Results are fetched of jobs that ended, by the code their log shows.    *)
CheckedAreFinished ==
    /\ \A n \in DOMAIN hpcworkqueue :
           hpcworkqueue[n].jobtype = "check" =>
               hpcworkqueue[n].job \in Jobs /\ Finished(hpcworkqueue[n].job)
    /\ \A w \in Workers :
           worker[w].pc \in {"c_read", "c_transferring", "c_finish"} =>
               /\ JobOf(w) \in Jobs /\ Finished(JobOf(w))
               /\ worker[w].pc # "c_read" /\ worker[w].ok => hpc[JobOf(w)].ok

(* Each thread works on an item of the kind its steps are for.             *)
ItemsFit ==
    /\ \A n \in DOMAIN hpcworkqueue :
           hpcworkqueue[n].jobtype = "submit" => hpcworkqueue[n].job \in Jobs
    /\ \A w \in Workers :
           worker[w].pc \in {"s_mkdir", "s_unzip", "s_qsub", "s_record"} =>
               worker[w].item.jobtype = "submit" /\ JobOf(w) \in Jobs
    /\ \A c \in Clients :
           /\ client[c].item.jobtype # "check"
           /\ client[c].pc = "create" => client[c].item.jobtype = "submit"
           /\ client[c].pc \in {"state", "jobs", "delete_jobs", "delete_package"}
                 => client[c].item.jobtype = "delete_package"
           /\ client[c].pc = "enqueue" /\ client[c].item.jobtype = "submit"
                 => client[c].item.job \in Jobs

CompletionInv == /\ CompletionIsReal /\ DoneMeansSuccess /\ SubmittedOnce
                 /\ OnHpcIsKnown /\ RoundsAreSound /\ CheckedAreFinished /\ ItemsFit

-----------------------------------------------------------------------------
(* Why OneHandlerPerJob holds, with one background thread and no lost      *)
(* answers: an inductive invariant.                                        *)

(* A job on the HPC center is in nobody's hands or in those of a round: so *)
(* the next round may take it, and the state Submitted is written by the   *)
(* last step of a submission, a completed state by the thread that then    *)
(* queues the check.                                                       *)
OneHand(j) ==
    /\ AtMostOne(QueuedHandlers(j)) /\ AtMostOne(BusyHandlers(j))
    /\ AtMostOne(RoundHandlers(j)) /\ AtMostOne(RequestHandlers(j))
    /\ QueuedHandlers(j) # {} =>
          BusyHandlers(j) \cup RoundHandlers(j) \cup RequestHandlers(j) = {}
    /\ BusyHandlers(j) # {}  => RoundHandlers(j) \cup RequestHandlers(j) = {}
    /\ RoundHandlers(j) # {} => RequestHandlers(j) = {}
    /\ jobs[j].state = NoRecord =>
          QueuedHandlers(j) \cup BusyHandlers(j) \cup RoundHandlers(j) \cup RequestHandlers(j) = {}
    /\ jobs[j].state \in WSDJobStateInHPCQueue .. WSDJobStateSuspended =>
          QueuedHandlers(j) \cup BusyHandlers(j) \cup RequestHandlers(j) = {}

RoundHolds(b) ==
    /\ poller[b].pc \in {"sleep", "list", "jobs"} => poller[b].job = NoJob
    /\ poller[b].pc = "sleep" => poller[b].todo = {}
    /\ poller[b].job \notin poller[b].todo
    /\ poller[b].pc \in {"announce", "enqueue"} /\ poller[b].new = WSDJobStateCompletedInHPC =>
          jobs[poller[b].job].state \notin WSDJobStateInHPCQueue .. WSDJobStateSuspended

HandsInv == (\A j \in Jobs : OneHand(j)) /\ (\A b \in Pollers : RoundHolds(b))

-----------------------------------------------------------------------------
(* Why JobNeverGoesBack, CallbacksInOrder and NoJobForgotten hold, with    *)
(* one background thread and no lost answers: inductive invariants.        *)

(* What was announced of a job, or is written and still to be announced.   *)
Said(j) == {told[j]} \cup {worker[w].due : w \in {v \in Workers : JobOf(v) = j}}

SaidUpTo(j, n) == \A s \in Said(j) : s = WSDJobStateDeleted \/ Phase(s) <= n

(* The pair of hands a job is in tells how far it is, unless it is deleted *)
(* meanwhile, and nobody announced, or is about to announce, more.         *)
InPhase(j, n) == /\ jobs[j].state = WSDJobStateDeleted \/ Phase(jobs[j].state) = n
                 /\ SaidUpTo(j, n)

ItemPhase(item) == IF item.jobtype = "submit" THEN 1 ELSE 3
WorkerPhase(w)  == IF worker[w].pc = "c_finish" THEN 4 ELSE ItemPhase(worker[w].item)
RoundPhase(b, j) == IF poller[b].pc \in {"announce", "enqueue"} /\ j = poller[b].job
                    THEN Phase(poller[b].new) ELSE 2

HandPhases(j) ==
    {ItemPhase(hpcworkqueue[n]) : n \in QueuedHandlers(j)}
    \cup {WorkerPhase(w) : w \in BusyHandlers(j)}
    \cup {RoundPhase(b, j) : b \in RoundHandlers(j)}
    \cup {ItemPhase(client[c].item) : c \in RequestHandlers(j)}

HandsInPhase(j) ==
    /\ \A n \in HandPhases(j) : InPhase(j, n)
    /\ jobs[j].state # WSDJobStateDeleted => SaidUpTo(j, Phase(jobs[j].state))

(* A worker is at a step of the item it has, and what it has to announce   *)
(* was written by the step before.                                         *)
WorkerIsAtItem(w) ==
    /\ worker[w].pc \in {"s_mkdir", "s_unzip", "s_qsub", "s_record"}
          <=> worker[w].pc # "idle" /\ worker[w].item.jobtype = "submit"
    /\ worker[w].pc \in {"c_read", "c_transferring", "c_finish"}
          <=> worker[w].pc # "idle" /\ worker[w].item.jobtype = "check"
    /\ worker[w].pc = "d_mark" => worker[w].item.jobtype = "delete_job"
    /\ \/ worker[w].due \in {NoRecord, WSDJobStateDeleted}
       \/ worker[w].pc = "idle" /\ worker[w].due \in {WSDJobStateInHPCQueue, WSDJobStateError,
                                                      WSDJobOutputStateTransferDone}
       \/ worker[w].pc = "c_finish" /\ worker[w].due = WSDJobOutputStateTransferring

(* A request has made its job when only the item is left to queue.         *)
RequestIsAtItem(c) ==
    client[c].item.jobtype = "submit" /\ client[c].item.job # NoJob => client[c].pc = "enqueue"

PhasesInv == /\ \A w \in Workers : WorkerIsAtItem(w)
             /\ \A c \in Clients : RequestIsAtItem(c)
             /\ \A j \in Jobs : HandsInPhase(j)

(* Until a crash, a job that is to be moved on is in somebody's hands.     *)
JobsAreInHand ==
    crashes = 0 =>
        \A j \in Jobs :
            jobs[j].state \in {WSDJobStateInServiceQueue, WSDJobStateCompletedInHPC,
                               WSDJobOutputStateTransferring} => HandPhases(j) # {}

-----------------------------------------------------------------------------
(* Why LifeSpec holds, besides: only what has a row is deleted.            *)

ItemsUnderWay == {hpcworkqueue[n] : n \in DOMAIN hpcworkqueue}
                 \cup {worker[w].item : w \in {v \in Workers : worker[v].pc # "idle"}}
                 \cup {client[c].item : c \in Clients}

RowsInv ==
    /\ \A item \in ItemsUnderWay :
           /\ item.jobtype = "delete_job" => item.job \in Jobs /\ jobs[item.job].state # NoRecord
           /\ item.jobtype = "delete_package" => item.package \in Packages
    /\ \A j \in Jobs : jobs[j].state = NoRecord => jobs[j].package = NoPackage

-----------------------------------------------------------------------------
(* Why DonePackageIsKept holds, where packages are not deleted or there is *)
(* one only: an inductive invariant.                                       *)

Uploads(item, p) == item.jobtype = "upload" /\ item.package = p
QueuedUploads(p) == {n \in DOMAIN hpcworkqueue : Uploads(hpcworkqueue[n], p)}
BusyUploads(p)   == {w \in Workers : worker[w].pc # "idle" /\ Uploads(worker[w].item, p)}
ComingUploads(p) == {c \in Clients : client[c].pc = "enqueue" /\ Uploads(client[c].item, p)}

(* A package is uploaded once: the item made with its row is in one place. *)
OneUpload(p) ==
    /\ AtMostOne(QueuedUploads(p)) /\ AtMostOne(BusyUploads(p)) /\ AtMostOne(ComingUploads(p))
    /\ QueuedUploads(p) # {} => BusyUploads(p) \cup ComingUploads(p) = {}
    /\ BusyUploads(p) # {} => ComingUploads(p) = {}
    /\ packages[p].state = NoRecord =>
          QueuedUploads(p) \cup BusyUploads(p) \cup ComingUploads(p) = {}

(* Once the transfer is recorded as done no upload touches the package any *)
(* more, and on the way there each step finds what the last one left.      *)
UploadIsSound(p) ==
    deletes[p] = 0 =>
        /\ packages[p].state = WSDPackageStateDone =>
              /\ packages[p].folder /\ store[p] = "zip"
              /\ QueuedUploads(p) \cup ComingUploads(p) = {}
              /\ \A w \in BusyUploads(p) : worker[w].pc = "lost"
        /\ \A w \in BusyUploads(p) :
              /\ worker[w].pc \in {"u_mkdir", "u_transferring", "u_iget", "u_transfer", "u_done"}
                    => packages[p].folder
              /\ worker[w].pc = "u_done" => store[p] = "zip"

UploadPc == {"u_running", "u_folder", "u_mkdir", "u_transferring", "u_iget", "u_transfer",
             "u_done"}
UploadsFit ==
    \A w \in Workers :
        /\ worker[w].pc \in UploadPc => worker[w].item.jobtype = "upload"
        /\ worker[w].pc = "p_rm" => worker[w].item.jobtype = "delete_package"
        /\ worker[w].pc # "idle" /\ worker[w].item.jobtype = "upload"
              => worker[w].pc \in UploadPc \cup {"lost"}

(* The folder of a package is removed only where somebody asked for it.    *)
WasAsked(item) == item.jobtype = "delete_package" =>
                     item.package \in Packages /\ deletes[item.package] > 0
DeletesWereAsked ==
    /\ \A n \in DOMAIN hpcworkqueue : WasAsked(hpcworkqueue[n])
    /\ \A w \in Workers : worker[w].pc # "idle" => WasAsked(worker[w].item)
    /\ \A c \in Clients : WasAsked(client[c].item)
    /\ \A p \in Packages : deletes[p] <= MaxDeletes[p]

PackagesInv == /\ UploadsFit /\ DeletesWereAsked
               /\ \A p \in Packages : OneUpload(p) /\ UploadIsSound(p)

-----------------------------------------------------------------------------
(* Liveness, under FairSpec, once the server crashes no more *)

Polled(j)  == j \in getAllSubmittedAndRunningJobsByHPCID
Settled(j) == jobs[j].state \in {WSDJobOutputStateTransferDone, WSDJobStateError,
                                 WSDJobStateDeleted}
Up == crashes = MaxCrashes

(* A job that ended on the HPC center while the background thread asks     *)
(* about it gets its outcome, after a restart as well: what is on the HPC  *)
(* center is found again through the database.  A job last seen in the     *)
(* exiting state is not asked about (see ExitingIsLeft).                   *)
EndedJobSettles ==
    \A j \in Jobs : Up /\ Polled(j) /\ Finished(j)
        ~> Settled(j) \/ jobs[j].state = WSDJobStateExiting

(* A request accepted into the service queue is worked on: a new job does  *)
(* not stay there, whatever fails (unless a crash takes its item, or the   *)
(* database refuses even the record of the error).                         *)
ServiceQueueIsLeft ==
    \A j \in Jobs : Up /\ Handlers(j) > 0 /\ jobs[j].state = WSDJobStateInServiceQueue
        ~> jobs[j].state # WSDJobStateInServiceQueue

(* Before a crash nothing is forgotten: a job that is neither settled nor  *)
(* asked about has somebody who will move it on, whatever fails and        *)
(* whatever is deleted meanwhile.  A crash breaks just this.               *)
NoJobForgotten ==
    crashes = 0 =>
        \A j \in Jobs :
            jobs[j].state \in {WSDJobStateInServiceQueue, WSDJobStateCompletedInHPC,
                               WSDJobOutputStateTransferring} => Handlers(j) = 1

-----------------------------------------------------------------------------
(* What comments, messages and the paper say, and the code does not do *)

(* "The work thread uploads the result to the file server when the job is  *)
(* complete": an ended job does not stay in the state exiting, which       *)
(* WSData.h lists among the states of the polling query.                   *)
ExitingIsLeft ==
    \A j \in Jobs : jobs[j].state = WSDJobStateExiting /\ Finished(j)
        ~> jobs[j].state # WSDJobStateExiting
=============================================================================
