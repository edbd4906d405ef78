------------------------------- MODULE Poller -------------------------------
(***************************************************************************)
(* The background thread (WSScheduler::runBackgroundWorker): after each    *)
(* delay it reads the jobs to ask about from the database, lists the jobs  *)
(* of the HPC center, and moves each job of the first list to the state    *)
(* the second one shows, one job after the other.                          *)
(***************************************************************************)
EXTENDS Listing

CONSTANT Pollers   \* one background thread per server that was initialized

VARIABLE poller   \* per thread: control point, jobs left, listing, job, states

Asleep == [pc |-> "sleep", todo |-> {}, listing |-> [j \in Jobs |-> "none"],
           job |-> NoJob, old |-> NoRecord, new |-> NoRecord]

PollerPc == {"sleep", "list", "jobs", "update", "announce", "enqueue"}
PollerRecord == [pc : PollerPc, todo : SUBSET Jobs,
                 listing : [Jobs -> {"none", Ended} \cup Letters],
                 job : Jobs \cup {NoJob},
                 old : {NoRecord} \cup JobStates,
                 new : {NoRecord} \cup JobStates]

PollerTypeOK == poller \in [Pollers -> PollerRecord]

PollerInit == poller = [b \in Pollers |-> Asleep]

(* Mutants of StateOf: an ended job gets the code 14, which the enum has   *)
(* (WSDJobStateCompleted) and the program never writes; a job about to end *)
(* counts as ended.                                                        *)
EndedIsCode14(letter) ==
    IF letter = Ended THEN 14 ELSE WSDJobStateInHPCQueue

ExitingIsEnded(letter) ==
    CASE letter \in {Ended, Exiting, "none"} -> WSDJobStateCompletedInHPC
      [] letter = "R"                        -> WSDJobStateRunning
      [] OTHER                               -> WSDJobStateWaiting

(* What a status letter of the listing means; "none" is not listed: ended, *)
(* or deleted by an administrator, which the check of the result finds.    *)
StateOf(letter) ==
    CASE letter \in {Ended, "none"} -> WSDJobStateCompletedInHPC
      [] letter = Exiting           -> WSDJobStateExiting
      [] letter = "R"               -> WSDJobStateRunning
      [] letter = "S"               -> WSDJobStateSuspended
      [] letter = "H"               -> WSDJobStateHeld
      [] letter = "Q"               -> WSDJobStateInHPCQueue
      [] letter = "T"               -> WSDJobStateMoved
      [] letter \in {"W", "PD"}     -> WSDJobStateWaiting

PollSnapshot(b) ==
    /\ poller[b].pc = "sleep"
    /\ getAllSubmittedAndRunningJobsByHPCID # {}
    /\ poller' = [poller EXCEPT ![b].pc = "list",
                                ![b].todo = getAllSubmittedAndRunningJobsByHPCID]
    /\ UNCHANGED sharedVars

(* qstat or squeue, with the session it needs. *)
PollList(b) ==
    /\ poller[b].pc = "list"
    /\ \E text \in Listings :
          poller' = [poller EXCEPT ![b].pc = "jobs",
                                   ![b].listing = [j \in Jobs |-> StatusIn(text, j)]]
    /\ UNCHANGED sharedVars

(* The SELECT of setJobState for the next job of the list. *)
PollRead(b, j) ==
    /\ poller[b].pc = "jobs"
    /\ j \in poller[b].todo
    /\ poller' = [poller EXCEPT ![b].pc = "update",
                                ![b].todo = @ \ {j},
                                ![b].job = j,
                                ![b].old = jobs[j].state,
                                ![b].new = StateOf(poller[b].listing[j])]
    /\ UNCHANGED sharedVars

NextJob(b) ==
    poller' = IF poller[b].todo = {} THEN [poller EXCEPT ![b] = Asleep]
              ELSE [poller EXCEPT ![b].pc = "jobs", ![b].job = NoJob,
                                  ![b].old = NoRecord, ![b].new = NoRecord]

EnqueueOrNext(b) == IF poller[b].new = WSDJobStateCompletedInHPC
                    THEN poller' = [poller EXCEPT ![b].pc = "enqueue"]
                    ELSE NextJob(b)

(* Its UPDATE, and whether the state changed. *)
PollUpdate(b) ==
    /\ poller[b].pc = "update"
    /\ setJobState(poller[b].job, poller[b].new)
    /\ IF poller[b].old # poller[b].new /\ JobCallbacks
       THEN poller' = [poller EXCEPT ![b].pc = "announce"]
       ELSE EnqueueOrNext(b)
    /\ UNCHANGED <<clusterVars, hpcworkqueue, told>>

PollAnnounce(b) ==
    /\ poller[b].pc = "announce"
    /\ doCallback(poller[b].job, poller[b].new)
    /\ EnqueueOrNext(b)
    /\ UNCHANGED <<dbVars, clusterVars, hpcworkqueue>>

PollEnqueue(b) ==
    /\ poller[b].pc = "enqueue"
    /\ addHPCWork(Work("check", poller[b].job, jobs[poller[b].job].package))
    /\ NextJob(b)
    /\ UNCHANGED <<dbVars, clusterVars, told>>

(* Mutant of PollThrow: the round may also end between the state written   *)
(* and the check queued.                                                   *)
PollThrowAnywhere(b) ==
    /\ poller[b].pc # "sleep"
    /\ poller' = [poller EXCEPT ![b] = Asleep]
    /\ UNCHANGED sharedVars

(* No session, a failed command or a failed statement: the round ends and  *)
(* the jobs left are asked about again in the next one.                    *)
PollThrow(b) ==
    /\ poller[b].pc \in {"list", "jobs", "update"}
    /\ poller' = [poller EXCEPT ![b] = Asleep]
    /\ UNCHANGED sharedVars

(* The UPDATE was executed and its answer lost: so does the round, and the *)
(* job stands where the UPDATE put it.                                     *)
PollLoseAnswer(b) ==
    /\ AnswersMayBeLost
    /\ poller[b].pc = "update"
    /\ setJobState(poller[b].job, poller[b].new)
    /\ poller' = [poller EXCEPT ![b] = Asleep]
    /\ UNCHANGED <<clusterVars, hpcworkqueue, told>>

PollerStep(b) == \/ PollSnapshot(b) \/ PollList(b)
                 \/ \E j \in Jobs : PollRead(b, j)
                 \/ PollUpdate(b) \/ PollAnnounce(b) \/ PollEnqueue(b)
                 \/ PollThrow(b) \/ PollLoseAnswer(b)
=============================================================================
