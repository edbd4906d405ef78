# HydroGate in TLA+

HydroGate is a gateway between web applications and HPC centers. A web
application uploads a *package* (a zip of input files), submits *jobs* that work
on it, asks for their status and deletes both; HydroGate copies the package to
the login node of an HPC center over SSH, submits the jobs to its batch
scheduler (PBS or Slurm), watches them and fetches their results. This directory
holds TLA+ models of the parts that decide whether that works, the TLC
configurations that check them, and proofs of their main invariants. Source
lines below refer to the files in `src/`.

## 1. The system and its parts

| Part | Source | State | Operations |
|---|---|---|---|
| Start-up | `WSProxy.cpp` | `isInitialized_` per application instance; the singletons' `instance_` | `checkIsInitialized`, dispatch |
| Page handlers | `WSPage*.cpp` | none of their own | UploadPackage, SubmitJob, DeleteJob, DeletePackage; six pages that only read |
| Tokens | `WSCrypt.cpp`, `WSPageRequestToken.cpp`, `WSPageRetrieveTokenExpireTime.cpp` | key, salts, lifetime | create, decode, time left; base64 |
| Database layer | `WSData.cpp` | tables `packages`, `jobs` | one SQL statement (or several, uncoupled) per method |
| Database connection | `WSData.cpp` | `conn_`, connections of single methods | `checkConnection`, `PQexec`, `PQfinish` |
| Work queue | `WSScheduler.cpp` 151-169 | list, mutex, condition variable | `addHPCWork`, `removeHPCWork` |
| Worker threads | `WSScheduler.cpp` 789-1836 | the item under way, its session | five kinds of item: upload, submit, check result, delete job, delete package |
| Background thread | `WSScheduler.cpp` 364-640 | snapshot of jobs, listing | a round per delay: snapshot, `qstat`/`squeue`, one job after the other |
| Listing parsers | `WSScheduler.cpp` 265-362 | none | `parseQStatForRunningJobs`, `parseSQueueForRunningJobs` |
| Pool registry | `WSScheduler.cpp` 136-149 | map from HPC center to pool, no lock | `getSSHConnectionPool` |
| Session pool | `WSSshSessionPool.cpp`, `WSSshSession.cpp` | idle and in-use lists, mutex, condition variable | `getConnectionFromPool`, `returnConnectionToPool` |
| Callbacks | `WSScheduler.cpp` 646-741 | none | `doCallback` |
| HPC center (external) | commands in `WSScheduler.cpp` | batch jobs, folders | `qsub`, `qstat`, `qdel`, `mkdir`, `unzip`, `rm -rf` |

The page handlers run in the threads of the FastCGI application. They read and
write the database and leave what takes long to the queue. The workers take an
item from it, work over an SSH session of the pool, and write the states into
the database. The background thread reads the jobs on an HPC center from the
database, lists the batch jobs, writes the new states and queues a *check
result* item for each job that ended. Nothing ties these together but the state
codes in the database and the queue: there are no transactions, no locks on a
job, and nothing in the queue survives a restart.

What is hard here: statements and commands of different threads interleave
freely (a round of the background thread works with data minutes old while
workers and requests change it); every command can throw in the middle of an
item, and a statement can be executed and yet be taken for failed; deletions race
with everything; a restart forgets the queue; the threads that share a database
connection do so without a lock; and more than one background thread runs as soon
as more than one application instance has served a request, because
`isInitialized_` is a member of the instance and `WSScheduler` is a singleton.
`PROJECT.json` lists these hazards at their lines.

What makes the parts correct:

- *jobs*: completed, transferring and done are said only of jobs that ended on
  the HPC center, and done only of those with exit code 0, in the database and in
  callbacks; a job goes to `qsub` at most once; one thing at a time handles a
  job; a job never goes back; an ended job gets its outcome; an accepted job
  leaves the service queue;
- *packages*: one whose transfer is done keeps its files until it is deleted;
- *queue and pool*: an item, or a session, is in one pair of hands; no wakeup is
  lost; the limit of sessions is kept; the queue is a FIFO;
- *pool registry*: the race for the map keeps nobody waiting, and no pool keeps a
  password that was decrypted without the key;
- *start-up*: however the first requests overlap, the objects left in use are
  configured and have their threads, or a setting could not be read and no thread runs;
- *database connection*: a thread judges answers to its own statements only, and
  every connection a method opened is closed (the code gives the first only to the
  scheduler's methods on a libpq that is not thread-safe, one excepted, and the second
  with two exceptions);
- *tokens*: a page accepts a token for as long as the pages said; the pages that look at
  its expiry refuse it from then on.

## 2. The modules

    WorkState     ids and state codes                        (WSData.h)
    Database      tables and SQL statements                  (WSData.cpp)
    Cluster       the HPC center, external
    Scheduler     Database + Cluster + queue + callbacks
    Listing       Scheduler + the parsers of qstat and squeue
    Worker        Scheduler + worker threads                 (runWorkerItemEntry)
    Poller        Listing + background threads               (runBackgroundWorker)
    Pages         Scheduler + request threads                (WSPage*.cpp)
    Gateway       Worker + Poller + Pages + crashes          the whole, properties; refines JobLife
    JobLife       the life of a job as a client sees it      abstract
    SessionPool                                              (WSSshSessionPool.cpp)
    WorkQueue     refines Fifo                               (addHPCWork, removeHPCWork)
    DbConnection  how a method reaches PostgreSQL            (WSData.cpp)
    StartUp       first requests of the instances            (WSProxy.cpp, instance())
    PoolRegistry  StartUp + getSSHConnectionPool             (WSScheduler.cpp)
    Base64        coder and decoder                          (WSCrypt.cpp)
    Tokens        StartUp + Base64 + the pages' use of tokens
    MCGateway, MCDbConnection, MCRegistry, MCTokens          constants and symmetry for TLC
    QueueFacts, StartUpProofs                                lemmas
    GatewayProofs, SessionPoolProofs, WorkQueueProofs,
    DbConnectionProofs, RegistryProofs, TokensProofs         theorems

### The gateway

**Steps.** One step is one SQL statement, one remote command, one callback or
one critical section, in the order of the code. `pc` of a thread names the next
one: `u_` upload, `s_` submit, `c_` check, `d_` delete job, `p_` delete package.
A method that runs several statements (`setJobState` with its SELECT and UPDATE,
`deletePackageByID` with four statements) is several steps wherever somebody
could come between them and the difference can be seen. `deletePackageByID` is
the steps `DeletePackageCheckState` to `DeletePackageRow`; `setJobState` is
`PollRead` and `PollUpdate` in the background thread. In a worker, which does
not ask whether the state changed, only its UPDATE counts.

**Data.** A job on the HPC center is a status letter, the state of its folder
and whether `errorcode.log` says 0. A package there is a folder that is absent,
empty, or has the zip. A work item carries what the code put into it *when it
was made*: in particular whether the page read a package folder and an HPC job
id or the initial `" "`. The way the file travels (scp of a local file, `iget`,
curl) is the constant `InputMode`: it decides how often *Transferring* is
written. A transfer that works brings data: with an url the zip is created when the
first of it arrives (743-764), so that an empty download would count as done without
one; and the errors that the last scp calls do not report are left out (1082-1094).
The text of scripts, messages and names is left out.

**Listings.** A listing is a sequence of lines of words: the header of `qstat` or
`squeue`, then the jobs of the account in any order, among them one HydroGate
does not know. `StatusIn` is what the parsers make of it: lines skipped, early
ends on a short line, the first line of a job counts. `PollList` takes any
listing the HPC center can print at that moment.

**Failures.** Any command, transfer or statement of a worker may throw
(`MayFail`), and the commands that have nothing to work on must throw
(`MustFail`). `Throw` is the catch blocks: the error is recorded for uploads,
submits and checks, no error is recorded for deletions, and the UPDATE that
records it may fail as well (`DbMayFail`), its exception being swallowed. In the
background thread an exception ends the round (`PollThrow`). `RequestFails` is
every way in which a request ends early that changes nothing else: bad tokens,
rights, definitions, failing statements.

**Lost answers.** With `AnswersMayBeLost` a statement may be executed and its
answer lost: the methods of `WSData` throw as if nothing had been done
(`LoseAnswer` in a worker, whose item then goes to `Throw`; `PollLoseAnswer`;
`RequestLosesAnswer`). It is a parameter because five properties do not survive
it: an error is written over a job that goes on all the same (JobNeverGoesBack,
OneHandlerPerJob, LifeSpec), and a round that wrote *completed* ends before it queues the
check (NoJobForgotten, EndedJobSettles). CallbacksInOrder is checked and
proved without it; the other properties hold with it.

**Crashes.** `Crash` clears the queue and the threads; database and HPC center
stay. Two defects of the code with undefined behaviour can be its cause: the
double `PQclear` at `WSData.cpp` 507 and 516, and the unsigned `nbytes` of
`runRemoteCommand` (198-216).

**Callbacks.** `told[j]` is the state last announced for a job. With
`callback.jobcallbackenabled` false (as configured in `configfastcgi.js`) the
url is empty and the callback is no step. Callbacks about packages are left out.

**Assumptions on the environment.** A listing shows a job as soon as `qsub`
returned. The code once waited here (`//sleep(10);`, `WSScheduler.cpp` 1313-1314),
so its author met schedulers for which this is not so; for them CompletionIsReal
fails in the code too. The id in the listing is the whole id that was recorded from
the answer of `qsub` (`qstat` truncates long ones). Letters the parsers do not know are
left out: the code skips them. The output that `runRemoteCommand` returns has no
terminating zero; what may follow it is taken not to form a line of the listing.
PBS kills an exiting job no more, and Slurm centers have no `qdel`. There is one
HPC center, and it is in the list the background thread reads once at its start
(366): were that query to fail, the thread would poll nothing at all.

**What a client sees** is module `JobLife`: per job the stage HydroGate reports
(`life`) and what became of its batch job (`batch`). A stage follows the one before
(`Onward`), is reported only when it is true (`IsTrue`), and is left by a deletion at any
time; the batch job is started once, for a job not yet reported as submitted, and ends
once. Queue, threads, rounds, commands, files and crashes are not in it. Gateway
implements it (`LifeSpec`) under `life <- LifeOf(jobs[j].state)`, which makes one stage of the
codes 7 to 13, and `batch <- BatchOf(j)`. One step of it is owed to the code and not to what
one would promise: `ComeBack`, by which a job whose deletion met its submission, its
round or its check is written again. JobLife says what is left of the promise then: what is written is
true.

### The queue and the pool

`Scheduler` uses the queue as a sequence with two atomic operations. `WorkQueue`
is the list with its mutex and condition variable, each critical section one
step and with spurious wakeups, and it implements `Fifo` (checked and proved), so
that use is justified. `SessionPool` models the pool the same way, except that a
session is connected, with up to `MAX_RETRY_COUNT` tries of `ssh_connect` and of
the authentication, *inside* the critical section. The workers' models do not
include the pool: a step that begins or ends an item takes or returns the
session, and waiting for one only delays that step.

### Start-up, pool registry and tokens

`StartUp` is the first request of each application instance. `checkIsInitialized`
sets the flag first and then makes calls to the singletons, listed in `Setup` in
their order; calls in a row whose settings are read together are one entry. A setting
that the configuration file lacks, or has with another type (`unreadable`, any of
`Configs`), throws (`SettingThrows`). The flag stays set, so the instance never tries
again: it has given up (`gaveUp`) and serves pages with what was set before. In a group
of settings read together, those before the one that throws are set in the code and not
in the model: nothing is served before an instance gave up there, every instance gives
up at the same setting, and each gives the object the same ones again. Each
call goes through `instance()`, which tests for NULL (`creating`) and makes the
object in a later step, so that two instances can both make one and the later
one stays in `instance_`. The call `initialize` starts the instance's background
thread and its workers on the object of that moment. Deletion of an object does not happen in
the code; a `pthread_create` that fails is not modelled.

`PoolRegistry` adds `getSSHConnectionPool`, run by the threads start-up made:
`PoolFind` is the look-up, `PoolInsert` the decryption of the password with the
key of that moment, the `insert` (which leaves an entry that is there alone) and
the return of the thread's *own* pool. A pool is used as module SessionPool
promises. An insert into the `std::map` is one step: what two overlapping
inserts can do to its tree is left out.

`Tokens` adds the pages. A token is made with the settings the current `WSCrypt`
object has and is decoded with those it has then; its text is the base64 of
whatever bytes AES gives. `Base64` is `base64Encode` and `base64Decode` by groups
of bytes, with the decoder's `find`, whose `npos` for characters outside the alphabet stops it.
The pages answer with an expiry time or with the time left, and `promise` keeps
what they said last. `answer` is that of the last page that needs a token in this second,
and which kind of page it was: the pages that delete decode a token and do not look at
`isExpired` (`WSPageDeleteJob.cpp` 52-54, `WSPageDeletePackage.cpp` 52-54), so they accept it
after its time as well; all others refuse it. PromiseIsKept says both.

### The database connection

Every method of `WSData` is a record of the statements it runs, of what a failed
command, no row, or the value of a row makes it do, and of whether it takes
`ismultithreaded`. A thread runs one method at a time: it opens a connection of its own
or takes `conn_` (through `checkConnection`, whose test, connect and second test are
steps), and every `PQexec` is three steps as in libpq: throw away a
pending result, send, take a result. A result is judged as the method does, and
`PQfinish` is called, or forgotten, on the way out. Reading freed memory or a
missing number ends the thread (`dead`), and so does, at worst, the second `PQclear`; a
missing text makes `string()` throw, past the `PQfinish` (`WSData.cpp` 323-325, which a worker
meets when it asks for the folder of a package without a record and catches at 1780).
That freed memory may be given out again while a thread still has its address is left out.
`ThreadSafe` is what `PQisthreadsafe()` says. The test of it is the wrong way round: on the usual
thread-safe build the methods do *not* open their own connection, and all threads
share `conn_`. Only on a libpq that is not thread-safe do the scheduler's
threads work on connections of their own, and not in every method: the worker that
deletes a job calls `deleteJobByID(false, ...)` (`WSScheduler.cpp` 1710) and works on `conn_`
beside the request threads (`IsMultithreaded`). MultithreadedHearsItsOwn speaks of the
methods called with `ismultithreaded`, which must not be drawn in. NoOwnConnectionIsLost
excepts the two methods that lose one: `getHpcCenterByID`, and the question for a folder.

## 3. What TLC checks

All runs of Gateway use `MCGateway`. Bounds: `MaxDeletes` delete requests per job
and package, `MaxCrashes` crashes, the finite sets of ids and of letters. Rounds of
the background thread, retries and failures are not bounded. Ids and threads are
symmetric in the runs of safety properties only.

| Run | Instance | Properties | Shows |
|---|---|---|---|
| `safety` | 2 jobs, 1 package, 2 workers, 1 crash, failing database, no deletions | TypeOK, OneHandlerPerJob, JobNeverGoesBack | two jobs and two workers suffice for every pair of threads to meet on a job, and for one job to go on while the other stands |
| `deletes` | 1 job, 1 package, 2 workers, 2 request threads, one delete request each, failing database, lost answers | CompletionIsReal, DonePackageIsKept, SubmittedOnce | deletions race with upload, submit, poll and check, and no request brings a second submission |
| `pollers` | 2 background threads, 2 workers, Slurm, callbacks, lost answers | CompletionIsReal, DoneMeansSuccess, AnnouncementsAreReal, SubmittedOnce | what is reported and announced is true with two background threads too, each with its own old listing |
| `live` | 2 workers, 1 crash, iRODS input, job deletions, callbacks, failures, FairSpec | NoJobForgotten, EndedJobSettles, ServiceQueueIsLeft, CallbacksInOrder, LifeSpec | what must happen in the end, after a restart too; nothing is forgotten before one; the gateway implements JobLife while job deletions meet every step of a job, which for deletions of packages and a failing database is left to the proof |
| `pool` | 5 threads on 3 sessions, FairSpec | TypeOK, SessionsConserved, LimitKept, NoLostWakeup, WaiterSeesProgress | more waiters than sessions, so that signals can go astray |
| `queue` | 3 workers, 3 items, FairSpec | TypeOK, HandedOutOnce, NoLostWakeup, FifoSpec, EveryItemTaken | fewer items than, as many as, and more items than waiting workers |
| `dbconn` | 1 scheduler thread, 2 request threads, 2 connections, 1 outage, libpq not thread-safe | TypeOK, MultithreadedHearsItsOwn, NoOwnConnectionIsLost | what three threads do to `conn_`, the worker in `deleteJobByID` among them, never reaches a method on a connection of its own, and no other way out than the two named leaks one |
| `tokens` | 2 instances, a complete configuration or one setting unreadable, clock up to 3, lifetimes 2 (set) and 1 (before), ciphertexts of 1 to 4 bytes | TypeOK, ReadyWhenSettled, PromiseIsKept | overlapping start-ups settle or give up; tokens of every length of the last group, at and around their expiry, on pages of both kinds |
| `registry` | 2 instances with 2 threads each, complete configuration, 1 center, 1 session per pool | PoolsAreKeyed, WaitersAreAtRegisteredPool, LostPoolsAreSmall | up to four threads race for the entry of one center, while start-up goes on |

Why these bounds are enough for the cases to happen:

- One job is enough in most runs because jobs meet only in the queue, in the
  package and in the round, which `safety` covers with two; one package is enough
  everywhere but in `wiped`, whose subject is the other packages.
- The PBS runs show the letters Q, R and (except `deletes`) E: H, T, W and S lead through
  the same steps as R and differ in the code they are given only; the map of all letters
  is covered by the proofs, which are for every letter. With
  all of them `safety` and `deletes` take longer than such a run should.
- In `registry` and `tokens`, two instances are two first requests that race, and
  the requests after them find everything made; one worker per instance next to
  its background thread is two threads on one object. Centers share nothing.
- In `registry` the configuration is complete: with a setting that cannot be read no
  thread ever asks for a pool.
- In `dbconn` two connections are `conn_` and one of the scheduler's, or two that request
  threads open over each other; with a third the states are too many for such a run, and
  the proof has no bound. The five methods asked cover the statements and failures with and
  without a connection of their own, and the worker's deletion. One outage is a
  connection that breaks before, between and after the statements.
- In `sharedconn` the one request thread runs `getJobStatus` and the background thread
  `getAllSubmittedAndRunningJobsByHPCID`, on a connection of its own if the test were the other
  way round. (Request threads pass `false` and share `conn_` with each other on any libpq.)

In the run `queue` the system may stop: every item was handed out and all workers
wait. In `dbconn` and `sharedconn` it may stop because every thread died of
undefined behaviour. Deadlock is not checked in these.

OneHandlerPerJob, JobNeverGoesBack and LifeSpec need a single background thread and are
checked for one: with two, both find the job ended, it is checked twice, and the
slower one sets a job that is further on back to completed. JobNeverGoesBack says
nothing of deleted jobs, which do come back (see below). DonePackageIsKept
is checked where only one package exists, for the reason that `wiped` shows.

**Fairness** (`FairSpec`). Worker threads, background threads and the last step
of a request are scheduled (WF). The background thread's round can fail at the
listing or at any job; that it gets past each of them in the end is strong
fairness of `PollList`, `PollRead` and `PollUpdate`: the SSH connection and the
database are out of order now and then, not for ever. Nothing is assumed of
the requests a client has not made, of the batch scheduler, of the crash, or of
failures in a worker, which may happen every time. EndedJobSettles and
ServiceQueueIsLeft speak of a server that crashes no more (`Up`), and EndedJobSettles of
jobs that ended before the crash as well: they are found again through the
database. The run leaves out that the database also refuses to record the error
(`DbMayFail`) and lost answers, both of which really leave a job where it is. In
`SessionPool`, a woken thread gets the mutex and a thread that holds a session
returns it (SF, because a connecting thread holds the mutex in between).

Every property of these runs has a *mutant*: a changed definition (a wrong state
code, a missing `pop_front`, an early record, a missing signal, a dropped
`PQfinish`, threads started before the key is set), kept next to the original and
used by no specification, for which TLC finds the property violated.

### Where code and documentation disagree

Each of these runs checks one statement of a comment, a message or of the paper
(`docs/hydrogate_iemss.pdf`) and TLC finds it violated.

| Run | Statement | What happens |
|---|---|---|
| `exiting` | results are uploaded when the job is complete; `WSData.h` 47 | the polling query (`WSData.cpp` 1671) omits state 9: a job polled in *exiting* is never asked about again |
| `wiped` | a package serves several jobs without being sent again | deleting a package that has no folder yet removes `~/.hydrogate/data/` with the folders of all packages |
| `sharedconn` | "Could not find the job record." (`WSData.cpp` 1598) | on a thread-safe libpq all threads share `conn_`; a page takes the answer to the background thread's query for jobs and finds no job that exists |

The models follow the code in more places where a comment or message says
otherwise; no run is spent on them:

- `deletePackageByID` answers "Package transfer is not completed." to the owner of a
  package whose transfer *is* done: the test is inverted (`WSData.cpp` 515-521; the
  guard of `DeletePackageCheckState`). Only packages in transfer, or never
  transferred, can be deleted.
- "set running, if in queue" (`WSScheduler.cpp` 474): the present state is not asked
  for, so a job deleted during a round becomes running again; likewise "set
  completed if running or in queue" (482), which two background threads make visible.
- "One of the job ... is not completed" (`WSData.cpp` 557) is to keep a package with
  unsettled jobs, but a job made between that check and the UPDATE (591) is left in
  a deleted package.
- A callback whenever the status changes: the catch blocks (801, 1770) use the outer
  `callbackurl`, which is always empty, so errors they record are not announced.
- `workeritemcount` in `configfastcgi.js` is 50, but with that file no worker is ever
  started: `"usersalt2" : 9876543211` (line 13) does not fit the `int` it is read as
  (`WSProxy.cpp` 136), so every instance gives up there (`SettingThrows` at *tokenkey*) and serves
  pages whose orders nobody carries out. ReadyWhenSettled says that this is all or
  nothing: no instance starts threads then.
- "Token is expired" (`WSCrypt.cpp` 317) is not said to DeleteJob and DeletePackage, which
  ask for `isExpired` and do not look at it (`DeletePage`).
- "rm job folder" (1722): not reached when `qdel` fails (`Throw` at `d_qdel`).
- "otherwise set deleted that might be done by admin" (440): a job that vanished
  without a log is completed and checked, and the check records an error.

## 4. What is proved

TLAPS proves the following for every value of the constants (under the
assumptions named in the modules: disjoint ids, a limit of at least one session,
finitely many threads in pool and queue, letters as the parsers know them).

**SessionPoolProofs.** The inductive invariant `Inv` joins the four safety
properties of the run with `SessionsCounted`: as many sessions are in use or idle
as were counted when they were made. Without it LimitKept says nothing of the lists,
and the wakeups cannot be counted against the free sessions. The step that needs care is a return: one session more
is free and one more thread is awake, unless nobody waits; and a thread that takes
a free session without having waited takes it from under a woken one only when
there were more woken threads than sessions or nobody waits. Theorems: TypeCorrect,
NoSessionSharedOrLost, LimitIsKept, WakeupsAreNotLost.

**WorkQueueProofs.** The same argument for the queue (TypeCorrect, ItemsHandedOutOnce,
WakeupsAreNotLost, from `Inv == TypeOK /\ HandedOutOnce /\ NoLostWakeup`), and `ImplementsFifo`: under `queue <- hpcworkqueue, given <-
workitem`, a worker's turn that finds nothing, a wait and a wakeup are
stuttering steps, and the others are Add, Give and Done.

**GatewayProofs**, completion. `Inv == TypeOK /\ CompletionInv` is inductive. CompletionIsReal
alone is not: it must be known why the background thread may take what is not
listed for ended. `CompletionInv` says so, part by part:

1. *SubmittedOnce*: the item that submits a job is in one place (request, queue
   or worker before `qsub`), and until then the HPC center has not heard of the job.
2. *OnHpcIsKnown*: a job in states 7 to 13, and a job about to be recorded as
   submitted, is known to the HPC center. This holds because the record is written
   after `qsub`.
3. *RoundsAreSound*: the jobs of a round are known there, and those the listing
   shows as ended or not at all have ended, however old the listing is. This holds
   because the snapshot is taken before the listing, and because a job that ended
   is never submitted again (1).
4. *CheckedAreFinished*: check items, queued or under way, are about ended jobs,
   and a worker past `c_read` with exit code 0 has read it from a job that ended so.
5. *ItemsFit*: each thread works on an item of the kind its steps are for.

The proof has lemmas on what each kind of step does to one variable (`HpcKept`: what
ended stays ended, with its exit code; `JobMoves`: the ways a job's state changes;
`ItemMoves`: the ways of the submitting item), and one preservation lemma per part.
Theorems: TypeCorrect, JobsAreSubmittedOnce, CompletedJobsHaveEnded,
DoneJobsSucceeded. They hold for any number of background threads, crashes,
failures, lost answers and deletions, for PBS and Slurm. `ListingIsRead` is the link
to the text of the listing: for any order of its lines and with lines of unknown
jobs, what the parsers read of a job is its letter, or none if it has no line.

**GatewayProofs**, callbacks. `CallbacksAreTrue` adds `AnnouncementInv`: what a
worker owes (`due`) is real as well as what was told, because it is written into the
database by the step that makes it due, the truth of these states stays (`HpcKept`), and what
the background thread announces is read from a listing of a job known there.

**GatewayProofs**, one handler. `JobsHaveOneHandler` assumes one background thread
and no lost answers, and allows any deletions, crashes and failures of the
database. `HandsInv` says for every job that its four kinds of handler (queued
item, worker, round, request) exclude each other, that a job without a row has
none, and the part that makes it inductive: *a job in states 7 to 13 is in nobody's
hands or in a round's*. For that, a submission must write *in HPC queue* last, and
a round must write *completed* before it queues the check (`RoundHolds`). `HandMoves` lists
the ways of a job from hand to hand; every step is one of them.

**GatewayProofs**, phases. `JobsNeverGoBack` and `CallbacksComeInOrder` (action properties) and
`NoJobIsForgotten` rest on JobsHaveOneHandler and on `PhasesInv`. A state has a *phase*: in the service
queue 1, on the HPC center 2, completed 3, transferring 4, done or failed 5. So has a pair of
hands: whoever makes or submits a job 1, a round 2 until it wrote *completed* and 3 after, a check 3, and 4 once it wrote
*transferring*. `PhasesInv` says that the state of a job has the phase of the hand it is in (`InPhase`),
and that nobody announced, or is about to announce, a later one (`SaidUpTo`). The clause *or it is deleted*
makes room for deletions: a delete item is not a pair of hands, it writes a state and leaves the job to whoever has it.
It is inductive because every step takes a job from phase to phase in one of six ways
(`PhaseMoves`): it stays, is given up, listed by a round, made, written by its hand, or told of. What a hand may
write is what follows its phase (`Follows`), never less; hence no job goes back, and the only callback that may come
late is that of a submission, sent when the job is already the background thread's.
`NoJobIsForgotten` adds `JobsAreInHand`: until a crash a job in states 6, 17 or 20 has a hand, for a hand gives such a
job up only where a catch block could not write; so it assumes `~DbMayFail`, as the run does.

**GatewayProofs**, the life of a job. `ImplementsJobLife` is the refinement `Spec => LifeSpec`. On
the states, each step of a job is a stutter, an acceptance, a deletion or a stage that follows
(`StagesFollow`, from `Follows` and PhasesInv), and the stage is true (`JobMoves`, from CompletionInv). On
the batch jobs, one is started by a `qsub` or ended (`StepRunsBatches`); it is started for a job that is accepted
or deleted because the hand that submits has phase 1. No step moves both sides (`OneSideMoves`), and no
step sets more than one job but the UPDATE of `deletePackageByID` (`StepSetsStates`). What that needs besides is
`RowsInv`: only what has a row is deleted, since a delete item is made from one and rows do not
vanish; without it a step from *none* to *deleted* could not be excluded. Like
JobsNeverGoBack and CallbacksComeInOrder it assumes one background thread and no lost answers, and allows any
deletions, crashes and failures, of the catch blocks too.

**GatewayProofs**, packages. `DonePackagesAreKept` assumes that packages are not
deleted or that there is only one, and allows everything else. `PackagesInv` says
that the upload of a package, made with its row, is in one place (`OneUpload`); that each step of it
finds what the one before left, and that once *done* is written no upload of that
package is left anywhere but in a thread that lost the answer (`UploadIsSound`); and that whoever removes a package's folder was asked to
(`DeletesWereAsked`). An upload that was under way when a package was deleted writes *done* over
*deleted*: the property speaks of packages nobody asked to delete.

**DbConnectionProofs.** The connections a scheduler thread opens have one owner, and neither
`conn_` nor what a request thread works on is ever one of them, because libpq gives out no connection that is in
use. So an answer taken on one is to the thread's own last command (`SchedulerIsApart`, for the methods called with
`ismultithreaded`; `Apart` is the invariant of one such thread, and a worker in `deleteJobByID` is treated as a
request thread), and every connection
that is open belongs to a method that will close it, to `conn_`, or was opened for a method that
may leave without `PQfinish` (`OwnConnectionsAreClosed`; `getHpcCenterByID` and the question for a folder do
when the record is not there).

**StartUpProofs, TokensProofs, RegistryProofs.** The invariant of start-up: an object in use has
all that its maker went through so far, and every setting an instance went past has reached some object;
if only one object was made it therefore has all of them. What an instance went past could be read, and one that gave up
stays at a setting that cannot; as all read one file, an instance that gave up excludes one that started threads.
`ReadyAfterSetUp`: once every instance that began is through or gave up,
the objects left in use are configured and the threads run, or none runs, however the instances overlapped. `PromisesAreKept`: where one `WSCrypt`
object was made, it has the key when the first page is served or never gets it (`KeyIsSettled`), so that a token decodes with the key it was made with;
what was promised is the token's expiry, or both are over. It rests on `DecodeOfEncode`, that
base64Decode gives back what base64Encode was given for *every* sequence of bytes: decoding stops at
the padding, and the bits of a group add up. `KeyComesFirst`, `WaitersCanBeServed`,
`LosersServeTheirMaker`: a thread's pool is the entry of the map or the pool it made itself, and an entry never changes;
so whoever must wait waits at the entry, and a pool that lost the race has no user but its maker.

**Only model-checked**: the liveness properties (EndedJobSettles, ServiceQueueIsLeft,
WaiterSeesProgress, EveryItemTaken), which need fairness and ENABLED and are out of the
prover's reach, and the three violations. TypeOK, the invariants and the action
properties of every passing run are proved.

## 5. Not modelled

- the logger, exceptions, parameters and the layout of answers: no state that others read;
- AES, the hash of passwords and the random salts (OpenSSL's and crypt's): a ciphertext
  is any of a set of byte sequences, and another key gives no token;
- `extractStringByRowAndColumn`, which cuts the id out of the answer of `qsub`, and
  `replaceStringInPlace`, which fills in the job script: the id recorded is taken to be
  the id the listing shows;
- a second HPC center: centers share nothing but threads, database and queue;
- a session that broke and is handed out again: every command may fail on any session,
  so its effect on jobs is in the models, its lasting is not;
- the escaping of strings (`PQescapeLiteral`) and the text of the statements;
- the corruption two overlapping inserts can do to a `std::map`, and a `pthread_create`
  that fails;
- the transport of the output zip (local file, `iput`, http), one transfer that
  works or throws;
- callbacks about packages; user rights, programs and templates, which end a request
  early or not;
- build files, install scripts, test scripts.

## 6. What could follow

1. The life of a package as a client sees it, as `JobLife` is that of a job; which packages stay
   in transfer for ever after a restart.
2. What of JobLife is left with several background threads, or with lost answers: a
   completed job that is fetched twice is still never said to be done when it failed.
3. `extractStringByRowAndColumn` and `replaceStringInPlace` against reference
   definitions.
