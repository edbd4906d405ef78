---------------------------- MODULE DbConnection ----------------------------
(***************************************************************************)
(* How the methods of WSData reach PostgreSQL.  A method called with       *)
(* ismultithreaded opens a connection of its own when PQisthreadsafe() is  *)
(* 0, and else takes the one of WSData, conn_, which nothing locks.  Every *)
(* thread runs one method at a time: get a connection, then for every      *)
(* statement PQexec (throw away a pending result, send, take a result) and *)
(* a look at the result, then PQfinish on a connection that is not conn_.  *)
(* Reading freed memory or a missing number ends the thread ("dead"). That *)
(* freed memory is given out again while a thread still has its address is *)
(* left out.                                                               *)
(***************************************************************************)
EXTENDS Naturals, Sequences, FiniteSets

CONSTANTS SchedulerThreads,  \* workers and background threads of WSScheduler
          RequestThreads,    \* threads of the web server
          Conns,             \* bound: connections open at the same time
          Nobody,
          ThreadSafe,        \* PQisthreadsafe() # 0, as in every usual libpq
          MaxOutages,        \* bound: restarts of the database
          Asked              \* bound: the methods that are called

Threads == SchedulerThreads \cup RequestThreads

ASSUME DbConnectionAssumption ==
    /\ SchedulerThreads \cap RequestThreads = {}
    /\ Nobody \notin Threads \cup Conns
    /\ ThreadSafe \in BOOLEAN
    /\ MaxOutages \in Nat

VARIABLES conns,    \* per connection of libpq: its state
          conn_,    \* WSData::conn_
          calls,    \* per thread: the method it runs, and how the last one ended
          dbUp, outages
vars == <<conns, conn_, calls, dbUp, outages>>

-----------------------------------------------------------------------------
(* The methods: the statements they run and how they judge the answers.    *)
(* failed: what PQresultStatus # OK does ("end": throw, or return nothing; *)
(* "next": the next statement).  none: what no row does ("take": fine,     *)
(* "end": leave, "keep": leave without PQfinish, "die": the missing value  *)
(* is read).  refuses: the value of the row may end the method ("end");    *)
(* "twice": its result is then cleared a second time, which may be deadly. *)
(* multithreaded: the method has the parameter ismultithreaded and uses    *)
(* myconn; scheduler: what the scheduler passes for it (pages pass false). *)

Statement(kind, failed, none) ==
    [kind |-> kind, failed |-> failed, none |-> none, refuses |-> "no"]
Row    == Statement("select", "end", "die")
OneRow == Statement("select", "end", "end")
Rows   == Statement("select", "end", "take")
Insert == Statement("insert", "end", "die")
Update == Statement("update", "end", "take")
Ignored == [Rows EXCEPT !.failed = "next"]
Refusing(s, how) == [s EXCEPT !.refuses = how]

Method(statements) ==
    [multithreaded |-> TRUE, scheduler |-> TRUE, statements |-> statements]
SharedMethod(statements) ==
    [multithreaded |-> FALSE, scheduler |-> FALSE, statements |-> statements]

getUserByName == SharedMethod(<<OneRow>>)
isProgramInstalledOnHPC == SharedMethod(<<Row>>)
getProgramInfoByName == SharedMethod(<<Row, Ignored, Ignored>>)
getHpcCenterByName == SharedMethod(<<OneRow>>)
hasUserRightOnHPC == SharedMethod(<<OneRow>>)
getProgramParameters == SharedMethod(<<Rows>>)
getPackageFolderInformationByID == Method(<<Row>>)
(* A worker asks it for the folder alone: the missing one makes string()   *)
(* throw, past the PQfinish.                                               *)
getFolderOfPackageByID == Method(<<[Row EXCEPT !.none = "keep"]>>)
getPackageByID == Method(<<Row>>)
getJobByID == Method(<<Row>>)
getHPCTemplateByID == Method(<<Row>>)
getHpcCenterByID == Method(<<[OneRow EXCEPT !.none = "keep"]>>)
getPackageStatus == Method(<<OneRow>>)
getJobStatus == Method(<<OneRow>>)
getAllSubmittedAndRunningJobsByHPCID == Method(<<Rows>>)
getAllProgramNamesByHPCName == Method(<<Rows>>)
getAllHPCNames == Method(<<Rows>>)
getAllHPCs == Method(<<Rows>>)
createPackage == Method(<<Insert>>)
createJob == Method(<<Insert>>)
updatePackageError == Method(<<Update>>)
updatePackageState == Method(<<Update>>)
setPackageFolder == Method(<<Update>>)
setJobErrorByID == Method(<<Update>>)
setJobFailedByID == Method(<<Update>>)
setJobDoneByID == Method(<<Update>>)
setJobSubmittedByID == Method(<<Update>>)
deleteJobByID == [Method(<<Update>>) EXCEPT !.scheduler = FALSE]
setJobState == Method(<<Update>>)
setJobStateIfChanged == Method(<<Row, Update>>)  \* with isstatechanged
deletePackageByID ==
    Method(<<Refusing(Row, "twice"), Refusing(Rows, "end"), Update, Update>>)

NoMethod == Method(<<>>)

SchedulerMethods ==
    {getAllHPCs, getAllSubmittedAndRunningJobsByHPCID, getHPCTemplateByID,
     getHpcCenterByID, getFolderOfPackageByID, deleteJobByID,
     setJobDoneByID, setJobErrorByID, setJobFailedByID, setJobState,
     setJobStateIfChanged, setJobSubmittedByID, setPackageFolder,
     updatePackageError, updatePackageState}
PageMethods ==
    {createJob, createPackage, deletePackageByID, getAllHPCNames,
     getAllProgramNamesByHPCName, getJobByID, getJobStatus, getPackageByID,
     getPackageFolderInformationByID, getPackageStatus, getProgramInfoByName,
     getProgramParameters, getUserByName, hasUserRightOnHPC,
     isProgramInstalledOnHPC}

MethodsOf(t) ==
    Asked \cap (IF t \in SchedulerThreads THEN SchedulerMethods ELSE PageMethods)

-----------------------------------------------------------------------------
(* cmd: the command the server works on or has answered, as libpq sees it. *)
(* owner: the thread that opened the connection for itself; kept: it did   *)
(* so for a method that may leave without PQfinish.                        *)
NoCommand == [by |-> Nobody, kind |-> "none", row |-> FALSE]
Commands == [by : Threads, kind : {"select", "insert", "update"},
             row : BOOLEAN]
Connection == [open : BOOLEAN, ok : BOOLEAN, owner : Threads \cup {Nobody},
               kept : BOOLEAN, cmd : Commands \cup {NoCommand}]

(* ismultithreaded: what the method, or the last one, was called with;     *)
(* own: all answers that were judged belong to the thread's own commands;  *)
(* quiet: the database did not go down since the method began.             *)
Call == [pc : {"idle", "connect", "test", "drop", "exec", "send", "await", "dead"},
         method : SchedulerMethods \cup PageMethods \cup {NoMethod},
         ismultithreaded : BOOLEAN, at : 1..4, my : Conns \cup {Nobody},
         own : BOOLEAN, quiet : BOOLEAN,
         result : {"none", "value", "failed", "notfound", "refused"}]

TypeOK == /\ conns \in [Conns -> Connection]
          /\ conn_ \in Conns \cup {Nobody}
          /\ calls \in [Threads -> Call]
          /\ dbUp \in BOOLEAN
          /\ outages \in 0..MaxOutages

Init == /\ conns = [c \in Conns |-> [open |-> FALSE, ok |-> FALSE,
                                     owner |-> Nobody, kept |-> FALSE,
                                     cmd |-> NoCommand]]
        /\ conn_ = Nobody
        /\ calls = [t \in Threads |->
                      [pc |-> "idle", method |-> NoMethod,
                       ismultithreaded |-> FALSE, at |-> 1, my |-> Nobody,
                       own |-> TRUE, quiet |-> TRUE, result |-> "none"]]
        /\ dbUp = TRUE
        /\ outages = 0

InUse(c) == c = conn_ \/ \E t \in Threads : calls[t].my = c

(* PQconnectdb gives a connection, a broken one when the server is away.   *)
PQconnectdb(c, owner, kept) ==
    /\ ~conns[c].open /\ ~InUse(c)
    /\ conns' = [conns EXCEPT ![c] = [open |-> TRUE, ok |-> dbUp,
                                      owner |-> owner, kept |-> kept,
                                      cmd |-> NoCommand]]

Closed(c) == [conns EXCEPT ![c].open = FALSE, ![c].cmd = NoCommand]

(* What thread t passes: a page false, the scheduler true but for a job's  *)
(* deletion.                                                               *)
IsMultithreaded(t, m) == t \in SchedulerThreads /\ m.scheduler

(* Mutant of OpensOwn: a thread-safe libpq is told the other way round.    *)
OpensOwnIfSafe(t, m) == ThreadSafe /\ IsMultithreaded(t, m)

(* The test at the head of the methods with ismultithreaded.               *)
OpensOwn(t, m) == ~ThreadSafe /\ IsMultithreaded(t, m)

(* Mutant of Begin: the statements are counted from zero. *)
BeginAtZero(t, m, pc, c) ==
    calls' = [calls EXCEPT ![t] =
                [pc |-> pc, method |-> m,
                 ismultithreaded |-> IsMultithreaded(t, m), at |-> 0, my |-> c,
                 own |-> TRUE, quiet |-> dbUp, result |-> "none"]]

Begin(t, m, pc, c) ==
    calls' = [calls EXCEPT ![t] =
                [pc |-> pc, method |-> m,
                 ismultithreaded |-> IsMultithreaded(t, m), at |-> 1, my |-> c,
                 own |-> TRUE, quiet |-> dbUp, result |-> "none"]]

(* A thread leaves its method, or dies in it. *)
Out(t, pc, result, own) ==
    calls' = [calls EXCEPT ![t] =
                [pc |-> pc, method |-> NoMethod,
                 ismultithreaded |-> calls[t].ismultithreaded, at |-> 1,
                 my |-> Nobody, own |-> own, quiet |-> calls[t].quiet,
                 result |-> result]]

CallOwn(t) == \E m \in MethodsOf(t), c \in Conns :
    /\ calls[t].pc = "idle"
    /\ OpensOwn(t, m)
    /\ PQconnectdb(c, t, \E i \in DOMAIN m.statements :
                            m.statements[i].none = "keep")
    /\ Begin(t, m, "exec", c)
    /\ UNCHANGED <<conn_, dbUp, outages>>

(* checkConnection: without a connection the thread goes on to open one.   *)
CallShared(t) == \E m \in MethodsOf(t) :
    /\ calls[t].pc = "idle"
    /\ ~OpensOwn(t, m)
    /\ Begin(t, m, IF conn_ = Nobody THEN "connect" ELSE "exec", conn_)
    /\ UNCHANGED <<conns, conn_, dbUp, outages>>

CheckConnect(t) == \E c \in Conns :
    /\ calls[t].pc = "connect"
    /\ PQconnectdb(c, Nobody, FALSE)
    /\ conn_' = c
    /\ calls' = [calls EXCEPT ![t].pc = "test"]
    /\ UNCHANGED <<dbUp, outages>>

(* PQstatus(conn_), NULL being a bad one: conn_ is taken, or freed. *)
CheckTest(t) ==
    /\ calls[t].pc = "test"
    /\ conn_ # Nobody => conns[conn_].open
    /\ IF conn_ # Nobody /\ conns[conn_].ok
       THEN /\ calls' = [calls EXCEPT ![t].pc = "exec", ![t].my = conn_]
            /\ UNCHANGED conns
       ELSE /\ calls' = [calls EXCEPT ![t].pc = "drop"]
            /\ conns' = IF conn_ = Nobody THEN conns ELSE Closed(conn_)
    /\ UNCHANGED <<conn_, dbUp, outages>>

(* Another thread freed conn_ and has not set it to NULL yet.              *)
CheckFreed(t) ==
    /\ calls[t].pc = "test"
    /\ conn_ # Nobody /\ ~conns[conn_].open
    /\ Out(t, "dead", "none", FALSE)
    /\ UNCHANGED <<conns, conn_, dbUp, outages>>

(* conn_ = NULL, whatever it is by now, and the exception.                 *)
CheckDrop(t) ==
    /\ calls[t].pc = "drop"
    /\ conn_' = Nobody
    /\ Out(t, "idle", "failed", TRUE)
    /\ UNCHANGED <<conns, dbUp, outages>>

-----------------------------------------------------------------------------
(* The connection a statement runs on: myconn, or conn_ read anew. *)
ConnOf(t) == IF calls[t].method.multithreaded THEN calls[t].my ELSE conn_
Usable(t) == ConnOf(t) # Nobody /\ conns[ConnOf(t)].open
StatementOf(t) == calls[t].method.statements[calls[t].at]

Die(t, own) == /\ Out(t, "dead", "none", own)
               /\ UNCHANGED <<conns, conn_, dbUp, outages>>

(* The return or throw of a method, cs being the connections then. *)
Leave(t, cs, result, own) ==
    /\ conns' = cs
    /\ Out(t, "idle", result, own)
    /\ UNCHANGED <<conn_, dbUp, outages>>

(* if (myconn != conn_) PQfinish(myconn) *)
Finished(t, cs) ==
    IF calls[t].method.multithreaded /\ calls[t].my # conn_
    THEN [cs EXCEPT ![calls[t].my].open = FALSE, ![calls[t].my].cmd = NoCommand]
    ELSE cs

(* Mutant of Finish: an error path forgets its connection. *)
FinishValueOnly(t, cs, result, own) ==
    Leave(t, IF result = "value" THEN Finished(t, cs) ELSE cs, result, own)

Finish(t, cs, result, own) == Leave(t, Finished(t, cs), result, own)

NextStatement(t, cs, own) ==
    IF calls[t].at = Len(calls[t].method.statements)
    THEN Finish(t, cs, "value", own)
    ELSE /\ conns' = cs
         /\ calls' = [calls EXCEPT ![t].pc = "exec", ![t].own = own,
                                   ![t].at = calls[t].at + 1]
         /\ UNCHANGED <<conn_, dbUp, outages>>

Fail(t, cs) == IF StatementOf(t).failed = "end"
               THEN Finish(t, cs, "failed", calls[t].own)
               ELSE NextStatement(t, cs, calls[t].own)

(* PQexec on memory that is free, at any of its three steps. *)
UseClosed(t) == /\ calls[t].pc \in {"exec", "send", "await"}
                /\ ~Usable(t)
                /\ Die(t, FALSE)

(* PQexecStart: a result that is pending is taken and thrown away. *)
ExecDrain(t) ==
    /\ calls[t].pc = "exec" /\ Usable(t)
    /\ conns' = [conns EXCEPT ![ConnOf(t)].cmd = NoCommand]
    /\ calls' = [calls EXCEPT ![t].pc = "send"]
    /\ UNCHANGED <<conn_, dbUp, outages>>

(* PQsendQuery: refused on a broken connection, and while another command  *)
(* is in progress.                                                         *)
ExecSend(t) ==
    /\ calls[t].pc = "send" /\ Usable(t)
    /\ conns[ConnOf(t)].ok /\ conns[ConnOf(t)].cmd = NoCommand
    /\ \E row \in BOOLEAN :
         /\ StatementOf(t).kind = "insert" => row
         /\ StatementOf(t).kind = "update" => ~row
         /\ conns' = [conns EXCEPT ![ConnOf(t)].cmd =
                        [by |-> t, kind |-> StatementOf(t).kind, row |-> row]]
    /\ calls' = [calls EXCEPT ![t].pc = "await"]
    /\ UNCHANGED <<conn_, dbUp, outages>>

ExecRefused(t) ==
    /\ calls[t].pc = "send" /\ Usable(t)
    /\ ~conns[ConnOf(t)].ok \/ conns[ConnOf(t)].cmd # NoCommand
    /\ Fail(t, conns)

(* PQexecFinish: the result of whatever command the connection is on. *)
Received(t) == IF conns[ConnOf(t)].ok THEN conns[ConnOf(t)].cmd ELSE NoCommand
Taken(t) == [conns EXCEPT ![ConnOf(t)].cmd = NoCommand]
Own(t) == calls[t].own /\ Received(t).by = t

(* PQresultStatus: PGRES_TUPLES_OK or PGRES_COMMAND_OK, as the statement   *)
(* has it.                                                                 *)
StatusOK(t) == /\ Received(t) # NoCommand
               /\ (Received(t).kind = "update") = (StatementOf(t).kind = "update")

Awaits(t) == calls[t].pc = "await" /\ Usable(t)

AnswerFails(t) == Awaits(t) /\ ~StatusOK(t) /\ Fail(t, Taken(t))

AnswerTaken(t) ==
    /\ Awaits(t) /\ StatusOK(t)
    /\ Received(t).row \/ StatementOf(t).none = "take"
    /\ NextStatement(t, Taken(t), Own(t))

AnswerRefused(t) ==
    /\ Awaits(t) /\ StatusOK(t)
    /\ Received(t).row
    /\ \/ /\ StatementOf(t).refuses # "no"
          /\ Finish(t, Taken(t), "refused", Own(t))
       \/ /\ StatementOf(t).refuses = "twice"
          /\ Die(t, Own(t))

AnswerHasNoRow(t) ==
    /\ Awaits(t) /\ StatusOK(t) /\ ~Received(t).row
    /\ \/ /\ StatementOf(t).none = "end"
          /\ Finish(t, Taken(t), "notfound", Own(t))
       \/ /\ StatementOf(t).none = "keep"
          /\ Leave(t, Taken(t), "notfound", Own(t))
       \/ /\ StatementOf(t).none = "die"
          /\ Die(t, calls[t].own)

(* A row of another thread's statement may lack the column that is read,   *)
(* a number (atoi reads NULL) or a text (string() throws).                 *)
AnswerLacksColumn(t) ==
    /\ Awaits(t) /\ StatusOK(t)
    /\ Received(t).row /\ Received(t).by # t
    /\ \/ Die(t, FALSE)
       \/ Leave(t, Taken(t), "failed", FALSE)

(* The database goes down, which breaks the open connections, and returns. *)
Outage == /\ dbUp /\ outages < MaxOutages
          /\ dbUp' = FALSE
          /\ outages' = outages + 1
          /\ conns' = [c \in Conns |-> [conns[c] EXCEPT !.ok = FALSE,
                                                       !.cmd = NoCommand]]
          /\ calls' = [t \in Threads |-> [calls[t] EXCEPT !.quiet = FALSE]]
          /\ UNCHANGED conn_

Restore == /\ ~dbUp
           /\ dbUp' = TRUE
           /\ UNCHANGED <<conns, conn_, calls, outages>>

ThreadStep(t) ==
    \/ CallOwn(t) \/ CallShared(t) \/ CheckConnect(t) \/ CheckTest(t)
    \/ CheckFreed(t) \/ CheckDrop(t) \/ UseClosed(t)
    \/ ExecDrain(t) \/ ExecSend(t) \/ ExecRefused(t)
    \/ AnswerFails(t) \/ AnswerTaken(t) \/ AnswerRefused(t)
    \/ AnswerHasNoRow(t) \/ AnswerLacksColumn(t)

Next == Outage \/ Restore \/ \E t \in Threads : ThreadStep(t)

Spec == Init /\ [][Next]_vars

-----------------------------------------------------------------------------
(* Where libpq is not thread-safe (the build the test is written for): a   *)
(* thread of the scheduler in a method it called with ismultithreaded      *)
(* judges no answer of another thread's statement and reads no closed      *)
(* connection, whatever the other threads do to conn_, and the method      *)
(* fails only if the database went down while it ran: after an outage the  *)
(* scheduler is back without a restart.  Not promised to a worker in       *)
(* deleteJobByID, which is called without it and shares conn_.             *)
MultithreadedHearsItsOwn ==
    ~ThreadSafe => \A t \in SchedulerThreads :
                      calls[t].ismultithreaded =>
                         /\ calls[t].own
                         /\ calls[t].result = "failed" => ~calls[t].quiet

(* No method loses the connection it opened for itself, on any of its ways *)
(* out: one that is open and in nobody's hands was left by                 *)
(* getHpcCenterByID or by getPackageFolderInformationByID, asked for the   *)
(* folder alone, when the record is not there, or its thread died.         *)
InHands(c) == c = conn_ \/ \E t \in Threads :
                              calls[t].my = c /\ calls[t].pc # "idle"
NoOwnConnectionIsLost ==
    \A c \in Conns : /\ conns[c].open
                     /\ conns[c].owner # Nobody
                     /\ ~InHands(c)
                     => conns[c].kept \/ calls[conns[c].owner].pc = "dead"

(* The error texts of getJobStatus ("Could not find the job record.") and  *)
(* of getPackageStatus, getUserByName and getHpcCenterByName: a record is  *)
(* reported missing only if the database said so of this record.           *)
NotFoundMeansAbsent ==
    \A t \in Threads : calls[t].result = "notfound" => calls[t].own
=============================================================================
