------------------------- MODULE DbConnectionProofs -------------------------
(***************************************************************************)
(* Proofs about DbConnection, for any threads, connections and methods.    *)
(* A connection a thread opened for itself is used by that thread alone:   *)
(* conn_ and the connections of the threads that share it never have an    *)
(* owner, because libpq gives out no connection that is in use.            *)
(***************************************************************************)
EXTENDS DbConnection, TLAPS

StatementType == [kind : {"select", "insert", "update"},
                  failed : {"end", "next"},
                  none : {"take", "end", "keep", "die"},
                  refuses : {"no", "end", "twice"}]
AllMethods == SchedulerMethods \cup PageMethods
MethodType == [multithreaded : BOOLEAN, scheduler : BOOLEAN,
               statements : Seq(StatementType)]

(* The threads that must open a connection for what they run.              *)
Apart(t) == /\ ~ThreadSafe /\ t \in SchedulerThreads
            /\ calls[t].ismultithreaded

Working(t) == calls[t].pc \in {"exec", "send", "await"}

(* Where a thread is in its method. *)
CallOK(t) ==
    /\ calls[t].pc \in {"connect", "test", "drop", "exec", "send", "await"} =>
          /\ calls[t].method \in MethodsOf(t)
          /\ calls[t].at \in 1..Len(calls[t].method.statements)
    /\ Working(t) => calls[t].my \in Conns
    /\ ~Working(t) => calls[t].my = Nobody

(* conn_ and what the threads that share it hold has no owner. *)
OwnersOK ==
    /\ \A c \in Conns : conns[c].owner # Nobody =>
                           ~ThreadSafe /\ conns[c].owner \in SchedulerThreads
    /\ conn_ # Nobody => conns[conn_].owner = Nobody
    /\ \A t \in Threads : ~Apart(t) /\ calls[t].my # Nobody =>
                              conns[calls[t].my].owner = Nobody

Mine(s) == conns[calls[s].my]

Keeps(m) == \E i \in DOMAIN m.statements : m.statements[i].none = "keep"

(* A thread apart at work: its connection is open, its own, and *)
(* on nothing but its statement.                                           *)
AtWork(s) ==
    /\ Mine(s).open
    /\ Mine(s).owner = s
    /\ Keeps(calls[s].method) => Mine(s).kept
    /\ calls[s].quiet => Mine(s).ok
    /\ calls[s].pc = "send" => Mine(s).cmd = NoCommand
    /\ calls[s].pc = "await" /\ Mine(s).ok =>
          /\ Mine(s).cmd.by = s
          /\ Mine(s).cmd.kind = StatementOf(s).kind

SchedulerOK(s) ==
    /\ calls[s].pc \notin {"connect", "test", "drop"}
    /\ Working(s) => AtWork(s)
    /\ calls[s].own
    /\ calls[s].result = "failed" => ~calls[s].quiet

(* Every open connection with an owner is at work, was kept, or outlived   *)
(* its thread.                                                             *)
Accounted(c) ==
    conns[c].open /\ conns[c].owner # Nobody =>
        \/ Working(conns[c].owner) /\ calls[conns[c].owner].my = c
        \/ conns[c].kept
        \/ calls[conns[c].owner].pc = "dead"

Inv == /\ TypeOK
       /\ \A t \in Threads : CallOK(t)
       /\ OwnersOK
       /\ \A s \in Threads : Apart(s) => SchedulerOK(s)
       /\ \A c \in Conns : Accounted(c)

-----------------------------------------------------------------------------
(* The methods *)

(* The statements have the fields their methods are judged by.             *)
LEMMA StatementFacts ==
    /\ Row \in StatementType /\ OneRow \in StatementType
    /\ Rows \in StatementType /\ Insert \in StatementType
    /\ Update \in StatementType /\ Ignored \in StatementType
    /\ Refusing(Row, "twice") \in StatementType
    /\ Refusing(Rows, "end") \in StatementType
    /\ [OneRow EXCEPT !.none = "keep"] \in StatementType
    /\ [Row EXCEPT !.none = "keep"] \in StatementType
BY DEF StatementType, Row, OneRow, Rows, Insert, Update, Ignored, Refusing, Statement

(* One to four such statements are a sequence of statements.               *)
LEMMA SequencesTyped ==
    \A a, b, c, d \in StatementType :
       /\ <<a>> \in Seq(StatementType) /\ Len(<<a>>) \in 1..4
       /\ <<a, b>> \in Seq(StatementType) /\ Len(<<a, b>>) \in 1..4
       /\ <<a, b, c>> \in Seq(StatementType) /\ Len(<<a, b, c>>) \in 1..4
       /\ <<a, b, c, d>> \in Seq(StatementType) /\ Len(<<a, b, c, d>>) \in 1..4
OBVIOUS

WellFormed(m) == m \in MethodType /\ Len(m.statements) \in 1..4

(* A method of such a sequence is well-formed.                             *)
LEMMA MethodsTyped ==
    \A s \in Seq(StatementType) : Len(s) \in 1..4 =>
       /\ WellFormed(Method(s)) /\ Method(s).multithreaded
       /\ WellFormed([Method(s) EXCEPT !.scheduler = FALSE])
       /\ [Method(s) EXCEPT !.scheduler = FALSE].multithreaded
       /\ WellFormed(SharedMethod(s))
BY DEF Method, SharedMethod, MethodType, WellFormed

(* The methods have one to four statements, and those of the scheduler use *)
(* myconn.                                                                 *)
LEMMA MethodFacts ==
    /\ \A m \in AllMethods : WellFormed(m)
    /\ \A m \in SchedulerMethods : m.multithreaded
PROOF
<1>1. \A a, b, c, d \in StatementType :
         /\ WellFormed(Method(<<a>>)) /\ Method(<<a>>).multithreaded
         /\ WellFormed([Method(<<a>>) EXCEPT !.scheduler = FALSE])
         /\ [Method(<<a>>) EXCEPT !.scheduler = FALSE].multithreaded
         /\ WellFormed(Method(<<a, b>>)) /\ Method(<<a, b>>).multithreaded
         /\ WellFormed(Method(<<a, b, c, d>>))
         /\ WellFormed(SharedMethod(<<a>>))
         /\ WellFormed(SharedMethod(<<a, b, c>>))
  BY SequencesTyped, MethodsTyped
<1>2. \A m \in SchedulerMethods : WellFormed(m) /\ m.multithreaded
  BY <1>1, StatementFacts
     DEF SchedulerMethods, getAllHPCs, getAllSubmittedAndRunningJobsByHPCID,
         getHPCTemplateByID, getHpcCenterByID,
         getFolderOfPackageByID, deleteJobByID, setJobDoneByID,
         setJobErrorByID, setJobFailedByID, setJobState, setJobStateIfChanged,
         setJobSubmittedByID, setPackageFolder, updatePackageError,
         updatePackageState
<1>3. \A m \in PageMethods : WellFormed(m)
  <2>1. WellFormed(deletePackageByID)
    BY <1>1, StatementFacts DEF deletePackageByID
  <2>2. WellFormed(getProgramInfoByName)
    BY <1>1, StatementFacts DEF getProgramInfoByName
  <2>3. /\ WellFormed(getUserByName) /\ WellFormed(getProgramParameters)
        /\ WellFormed(hasUserRightOnHPC) /\ WellFormed(isProgramInstalledOnHPC)
    BY <1>1, StatementFacts DEF getUserByName, getProgramParameters,
                                hasUserRightOnHPC, isProgramInstalledOnHPC
  <2>4. /\ WellFormed(createJob) /\ WellFormed(createPackage)
        /\ WellFormed(getAllHPCNames) /\ WellFormed(getAllProgramNamesByHPCName)
        /\ WellFormed(getJobByID) /\ WellFormed(getJobStatus)
        /\ WellFormed(getPackageByID) /\ WellFormed(getPackageStatus)
        /\ WellFormed(getPackageFolderInformationByID)
    BY <1>1, StatementFacts
       DEF createJob, createPackage, getAllHPCNames, getAllProgramNamesByHPCName,
           getJobByID, getJobStatus, getPackageByID, getPackageStatus,
           getPackageFolderInformationByID
  <2> QED BY <2>1, <2>2, <2>3, <2>4 DEF PageMethods
<1> QED
  BY <1>2, <1>3 DEF AllMethods

(* What is known of a thread at work.                                      *)
LEMMA WorkFacts ==
    ASSUME Inv, NEW t \in Threads, Working(t)
    PROVE  /\ calls[t] \in Call
           /\ calls[t].method \in MethodsOf(t) /\ calls[t].method \in AllMethods
           /\ Len(calls[t].method.statements) \in 1..4
           /\ calls[t].at \in 1..Len(calls[t].method.statements)
           /\ StatementOf(t) \in StatementType
           /\ calls[t].my \in Conns
           /\ ConnOf(t) \in {conn_, calls[t].my}
           /\ t \in SchedulerThreads => /\ calls[t].method.multithreaded
                                        /\ ConnOf(t) = calls[t].my
PROOF
<1>1. calls[t] \in Call /\ CallOK(t)
  BY DEF Inv, TypeOK
<1>2. calls[t].method \in MethodsOf(t) /\ calls[t].my \in Conns
      /\ calls[t].at \in 1..Len(calls[t].method.statements)
  BY <1>1 DEF CallOK, Working
<1>3. /\ calls[t].method \in AllMethods
      /\ t \in SchedulerThreads => calls[t].method \in SchedulerMethods
  BY <1>2 DEF MethodsOf, AllMethods
<1>4. WellFormed(calls[t].method)
      /\ (t \in SchedulerThreads => calls[t].method.multithreaded)
  BY <1>3, MethodFacts
<1>5. calls[t].method.statements \in Seq(StatementType)
      /\ Len(calls[t].method.statements) \in 1..4
  BY <1>4 DEF WellFormed, MethodType
<1>6. StatementOf(t) \in StatementType
  BY <1>2, <1>5 DEF StatementOf
<1> QED
  BY <1>1, <1>2, <1>3, <1>4, <1>5, <1>6 DEF ConnOf

-----------------------------------------------------------------------------
(* A step of thread t that opens no connection *)

(* cs: the connections after a step of t, which closes some and changes    *)
(* what the thread uses, but makes no owner.                               *)
Lessens(cs, t) ==
    /\ cs \in [Conns -> Connection]
    /\ \A c \in Conns : /\ cs[c].owner = conns[c].owner
                        /\ cs[c].kept = conns[c].kept
                        /\ cs[c].open => conns[c].open
                        /\ cs[c] # conns[c] => c \in {conn_, calls[t].my}

(* Such a step leaves alone what the other threads of the scheduler have.  *)
LEMMA OthersKeepTheirs ==
    ASSUME Inv, NEW t \in Threads, Lessens(conns', t),
           NEW s \in Threads \ {t}, Apart(s), Working(s)
    PROVE  conns'[calls[s].my] = conns[calls[s].my]
PROOF
<1>1. s \in Threads /\ s # Nobody
  BY DbConnectionAssumption
<1>2. Mine(s).owner = s /\ calls[s].my \in Conns
  BY <1>1, WorkFacts DEF Inv, SchedulerOK, AtWork
<1>3. calls[s].my # conn_
  BY <1>1, <1>2, DbConnectionAssumption DEF Inv, OwnersOK, Mine
<1>4. calls[s].my # calls[t].my
  <2>1. CASE ~Working(t)
    BY <1>2, <2>1, DbConnectionAssumption DEF Inv, CallOK
  <2>2. CASE Working(t) /\ ~Apart(t)
    <3>1. calls[t].my # Nobody
      BY <2>2, WorkFacts, DbConnectionAssumption
    <3> QED BY <1>1, <1>2, <2>2, <3>1 DEF Inv, OwnersOK, Mine
  <2>3. CASE Working(t) /\ Apart(t)
    BY <1>2, <2>3 DEF Inv, SchedulerOK, AtWork, Mine
  <2> QED BY <2>1, <2>2, <2>3
<1> QED
  BY <1>2, <1>3, <1>4 DEF Lessens

(* It preserves the invariant when the thread itself comes out right.      *)
LEMMA StepFrame ==
    ASSUME Inv, TypeOK', NEW t \in Threads, Lessens(conns', t),
           \A u \in Threads \ {t} : calls'[u] = calls[u],
           conn_' \in {conn_, Nobody},
           ~Apart(t)' => \/ calls'[t].my \in {Nobody, conn_}
                         \/ ~Apart(t) /\ calls'[t].my = calls[t].my,
           CallOK(t)',
           Apart(t)' => SchedulerOK(t)',
           \A c \in Conns : conns[c].owner = t => Accounted(c)'
    PROVE  Inv'
PROOF
<1>1. \A u \in Threads : CallOK(u)'
  <2> SUFFICES ASSUME NEW u \in Threads, u # t PROVE CallOK(u)'
    OBVIOUS
  <2>1. calls'[u] = calls[u] /\ CallOK(u)
    BY DEF Inv
  <2> QED BY <2>1 DEF CallOK, Working
<1>2. OwnersOK'
  <2>1. \A c \in Conns : conns'[c].owner = conns[c].owner
    BY DEF Lessens
  <2>2. conn_ \in Conns \cup {Nobody} /\ \A u \in Threads : calls[u].my \in Conns \cup {Nobody}
    BY DEF Inv, TypeOK, Call
  <2>3. conn_' # Nobody => conns'[conn_'].owner = Nobody
    BY <2>1, <2>2 DEF Inv, OwnersOK
  <2>4. ASSUME NEW u \in Threads, ~Apart(u)', calls'[u].my # Nobody
        PROVE  conns'[calls'[u].my].owner = Nobody
    <3>1. CASE u = t
      BY <2>1, <2>2, <2>4, <3>1 DEF Inv, OwnersOK
    <3>2. CASE u # t
      BY <2>1, <2>2, <2>4, <3>2 DEF Inv, OwnersOK, Apart
    <3> QED BY <3>1, <3>2
  <2> QED BY <2>1, <2>3, <2>4 DEF Inv, OwnersOK
<1>3. \A s \in Threads : Apart(s)' => SchedulerOK(s)'
  <2> SUFFICES ASSUME NEW s \in Threads, s # t, Apart(s)'
               PROVE  SchedulerOK(s)'
    OBVIOUS
  <2>1. calls'[s] = calls[s] /\ Apart(s) /\ SchedulerOK(s)
    BY DEF Inv, Apart
  <2>2. Working(s) => conns'[calls[s].my] = conns[calls[s].my]
    BY <2>1, OthersKeepTheirs
  <2> QED BY <2>1, <2>2 DEF SchedulerOK, Working, AtWork, Mine, StatementOf
<1>4. \A c \in Conns : Accounted(c)'
  <2> SUFFICES ASSUME NEW c \in Conns, conns'[c].open, conns'[c].owner # Nobody
               PROVE  Accounted(c)'
    BY DEF Accounted
  <2>1. /\ conns[c].open /\ conns[c].owner # Nobody
        /\ conns'[c].owner = conns[c].owner /\ conns'[c].kept = conns[c].kept
    BY DEF Lessens
  <2>2. Accounted(c) /\ ~ThreadSafe /\ conns[c].owner \in SchedulerThreads
    BY <2>1 DEF Inv, OwnersOK
  <2>3. CASE conns[c].owner = t
    BY <2>2, <2>3
  <2>4. CASE conns[c].owner # t
    BY <2>1, <2>2, <2>4 DEF Accounted, Working, Threads
  <2> QED BY <2>3, <2>4
<1> QED BY <1>1, <1>2, <1>3, <1>4 DEF Inv

-----------------------------------------------------------------------------
(* How a method goes on or ends *)

(* A connection that is closed or gets another command is one still.       *)
LEMMA ConnectionFacts ==
    \A r \in Connection :
       /\ [r EXCEPT !.open = FALSE, !.cmd = NoCommand] \in Connection
       /\ \A k \in Commands \cup {NoCommand} : [r EXCEPT !.cmd = k] \in Connection
BY DEF Connection

(* PQfinish on the way out. *)
LEMMA FinishedLessens ==
    ASSUME Inv, NEW t \in Threads, Working(t), NEW cs, Lessens(cs, t)
    PROVE  Lessens(Finished(t, cs), t)
PROOF
<1>1. calls[t].my \in Conns
  BY WorkFacts
<1> DEFINE m == calls[t].my
           r == [cs[m] EXCEPT !.open = FALSE, !.cmd = NoCommand]
<1>2. cs \in [Conns -> Connection] /\ r \in Connection
  BY <1>1, ConnectionFacts DEF Lessens
<1>3. Finished(t, cs) = [cs EXCEPT ![m] = r] \/ Finished(t, cs) = cs
  BY <1>1, <1>2 DEF Finished
<1>4. ~r.open /\ r.owner = cs[m].owner /\ r.kept = cs[m].kept
  BY <1>1, <1>2 DEF Connection
<1> HIDE DEF r
<1>5. Finished(t, cs) \in [Conns -> Connection]
  BY <1>1, <1>2, <1>3
<1> QED BY <1>1, <1>2, <1>3, <1>4, <1>5 DEF Lessens

Results == {"none", "value", "failed", "notfound", "refused"}

(* A thread that is out of its method has typed variables.                 *)
LEMMA OutTyped ==
    ASSUME Inv, NEW t \in Threads, Lessens(conns', t), NEW result \in Results,
           NEW own \in BOOLEAN, NEW pc \in {"idle", "dead"},
           Out(t, pc, result, own), UNCHANGED <<dbUp, outages>>,
           conn_' \in {conn_, Nobody}
    PROVE  /\ TypeOK' /\ CallOK(t)'
           /\ calls'[t].my = Nobody /\ calls'[t].pc = pc
           /\ calls'[t].own = own /\ calls'[t].result = result
           /\ calls'[t].quiet = calls[t].quiet
           /\ calls'[t].ismultithreaded = calls[t].ismultithreaded
           /\ \A u \in Threads \ {t} : calls'[u] = calls[u]
PROOF
<1>1. calls \in [Threads -> Call] /\ conn_ \in Conns \cup {Nobody}
      /\ dbUp \in BOOLEAN /\ outages \in 0..MaxOutages
  BY DEF Inv, TypeOK
<1>2. /\ calls' = [calls EXCEPT ![t] = calls'[t]]
      /\ calls'[t] = [pc |-> pc, method |-> NoMethod,
                      ismultithreaded |-> calls[t].ismultithreaded,
                      at |-> 1, my |-> Nobody,
                      own |-> own, quiet |-> calls[t].quiet, result |-> result]
  BY <1>1 DEF Out
<1>3. calls'[t] \in Call
  BY <1>1, <1>2 DEF Call, Results
<1>4. TypeOK'
  BY <1>1, <1>2, <1>3 DEF TypeOK, Lessens
<1>5. CallOK(t)'
  BY <1>2 DEF CallOK, Working
<1> QED BY <1>1, <1>2, <1>4, <1>5

(* A thread that is out of its method, its connection finished or kept.    *)
LEMMA OutStep ==
    ASSUME Inv, NEW t \in Threads, Lessens(conns', t), NEW result \in Results,
           NEW own \in BOOLEAN, NEW pc \in {"idle", "dead"},
           Out(t, pc, result, own), UNCHANGED <<dbUp, outages>>,
           conn_' \in {conn_, Nobody},
           calls[t].pc # "dead",
           Apart(t) =>
              /\ own
              /\ result = "failed" => ~calls[t].quiet
              /\ pc = "dead" \/ (Working(t) =>
                    ~conns'[calls[t].my].open \/ conns'[calls[t].my].kept)
    PROVE  Inv'
PROOF
<1>1. /\ TypeOK' /\ CallOK(t)'
      /\ calls'[t].my = Nobody /\ calls'[t].pc = pc
      /\ calls'[t].own = own /\ calls'[t].result = result
      /\ calls'[t].quiet = calls[t].quiet
      /\ calls'[t].ismultithreaded = calls[t].ismultithreaded
      /\ \A u \in Threads \ {t} : calls'[u] = calls[u]
  BY OutTyped
<1>2. Apart(t)' => SchedulerOK(t)'
  BY <1>1 DEF SchedulerOK, Working, Apart
<1>3. ASSUME NEW c \in Conns, conns[c].owner = t
      PROVE  Accounted(c)'
  <2>1. conns'[c].owner = t /\ conns'[c].kept = conns[c].kept
        /\ (conns'[c].open => conns[c].open)
    BY <1>3 DEF Lessens
  <2>2. Accounted(c) /\ t # Nobody
    BY DbConnectionAssumption DEF Inv
  <2>3. Working(t) /\ calls[t].my = c => Apart(t)
    BY <1>3, <2>2, DbConnectionAssumption DEF Inv, OwnersOK
  <2>4. CASE conns'[c].open
    BY <1>1, <1>3, <2>1, <2>2, <2>3, <2>4 DEF Accounted
  <2> QED BY <2>4 DEF Accounted
<1> QED BY <1>1, <1>2, <1>3, StepFrame

(* The return or throw of a method that finishes its connection.           *)
LEMMA FinishStep ==
    ASSUME Inv, NEW t \in Threads, Working(t), NEW cs, Lessens(cs, t),
           NEW result \in Results, NEW own \in BOOLEAN,
           Finish(t, cs, result, own),
           Apart(t) =>
              own /\ (result = "failed" => ~calls[t].quiet)
    PROVE  Inv'
PROOF
<1>1. conns' = Finished(t, cs) /\ Out(t, "idle", result, own)
      /\ UNCHANGED <<conn_, dbUp, outages>>
  BY DEF Finish, Leave
<1>2. Lessens(conns', t)
  BY <1>1, FinishedLessens
<1>3. calls[t].pc # "dead"
  BY DEF Working
<1>4. Apart(t) => ~conns'[calls[t].my].open
  <2> SUFFICES ASSUME Apart(t)
               PROVE  ~conns'[calls[t].my].open
    OBVIOUS
  <2>1. calls[t].my \in Conns /\ calls[t].method.multithreaded
    BY WorkFacts DEF Apart
  <2>2. conns[calls[t].my].owner = t /\ t # Nobody
    BY DbConnectionAssumption DEF Inv, SchedulerOK, AtWork, Mine
  <2>3. calls[t].my # conn_
    BY <2>1, <2>2, DbConnectionAssumption DEF Inv, OwnersOK
  <2> QED BY <1>1, <2>1, <2>3 DEF Finished, Lessens, Connection
<1> QED BY <1>1, <1>2, <1>3, <1>4, OutStep

(* The end of a thread that read what is not there.                        *)
LEMMA DieStep ==
    ASSUME Inv, NEW t \in Threads, Working(t), NEW own \in BOOLEAN, Die(t, own),
           Apart(t) => own
    PROVE  Inv'
PROOF
<1>1. Out(t, "dead", "none", own) /\ UNCHANGED <<conns, conn_, dbUp, outages>>
  BY DEF Die
<1>2. Lessens(conns', t)
  BY <1>1 DEF Lessens, Inv, TypeOK
<1>3. "none" \in Results /\ calls[t].pc # "dead"
  BY DEF Working, Results
<1> QED BY <1>1, <1>2, <1>3, OutStep

(* What the connection of a thread of the scheduler must still be.         *)
StillMine(cs, t) ==
    Apart(t) =>
        /\ cs[calls[t].my].open
        /\ calls[t].quiet => cs[calls[t].my].ok

(* A step inside PQexec or to the next statement.                          *)
LEMMA InsideStep ==
    ASSUME Inv, TypeOK', NEW t \in Threads, Working(t), Lessens(conns', t),
           StillMine(conns', t),
           UNCHANGED conn_,
           \A u \in Threads \ {t} : calls'[u] = calls[u],
           calls'[t].pc \in {"exec", "send", "await"},
           calls'[t].method = calls[t].method, calls'[t].my = calls[t].my,
           calls'[t].at \in 1..Len(calls[t].method.statements),
           calls'[t].quiet = calls[t].quiet, calls'[t].result = calls[t].result,
           calls'[t].ismultithreaded = calls[t].ismultithreaded,
           Apart(t) =>
              /\ calls'[t].own
              /\ calls'[t].pc = "send" => conns'[calls[t].my].cmd = NoCommand
              /\ calls'[t].pc = "await" /\ conns'[calls[t].my].ok =>
                    /\ conns'[calls[t].my].cmd.by = t
                    /\ conns'[calls[t].my].cmd.kind = StatementOf(t).kind
                    /\ calls'[t].at = calls[t].at
    PROVE  Inv'
PROOF
<1>1. CallOK(t)'
  BY WorkFacts DEF CallOK, Working, MethodsOf
<1>2. ASSUME Apart(t)' PROVE SchedulerOK(t)'
  <2>0. Apart(t)
    BY <1>2 DEF Apart
  <2>1. SchedulerOK(t) /\ calls[t].my \in Conns
    BY <2>0, WorkFacts DEF Inv
  <2>2. AtWork(t)
    BY <2>1 DEF SchedulerOK
  <2>3. conns'[calls[t].my].owner = t
        /\ (Keeps(calls[t].method) => conns'[calls[t].my].kept)
    BY <2>1, <2>2 DEF AtWork, Mine, Lessens
  <2>4. AtWork(t)'
    BY <2>0, <2>3 DEF AtWork, Mine, StillMine, StatementOf
  <2> QED BY <2>0, <2>1, <2>4 DEF SchedulerOK
<1>3. ASSUME NEW c \in Conns, conns[c].owner = t
      PROVE  Accounted(c)'
  <2>1. conns'[c].owner = t /\ conns'[c].kept = conns[c].kept
        /\ (conns'[c].open => conns[c].open)
    BY <1>3 DEF Lessens
  <2>2. Accounted(c) /\ t # Nobody
    BY DbConnectionAssumption DEF Inv
  <2>3. CASE conns'[c].open
    BY <1>3, <2>1, <2>2, <2>3 DEF Accounted, Working
  <2> QED BY <2>3 DEF Accounted
<1>4. ~Apart(t)' => ~Apart(t) /\ calls'[t].my = calls[t].my
  BY DEF Apart
<1> QED BY <1>1, <1>2, <1>3, <1>4, StepFrame

(* The next statement, or the end of the method.                           *)
LEMMA NextStatementStep ==
    ASSUME Inv, NEW t \in Threads, Working(t), NEW cs, Lessens(cs, t),
           StillMine(cs, t), NEW own \in BOOLEAN,
           NextStatement(t, cs, own),
           Apart(t) => own
    PROVE  Inv'
PROOF
<1>1. CASE calls[t].at = Len(calls[t].method.statements)
  <2>1. Finish(t, cs, "value", own) /\ "value" \in Results
    BY <1>1 DEF NextStatement, Results
  <2> QED BY <2>1, FinishStep
<1>2. CASE calls[t].at # Len(calls[t].method.statements)
  <2>1. /\ conns' = cs /\ UNCHANGED <<conn_, dbUp, outages>>
        /\ calls' = [calls EXCEPT ![t].pc = "exec", ![t].own = own,
                                  ![t].at = calls[t].at + 1]
    BY <1>2 DEF NextStatement
  <2>2. calls \in [Threads -> Call]
    BY DEF Inv, TypeOK
  <2>3. calls[t].at + 1 \in 1..Len(calls[t].method.statements)
        /\ calls[t].at + 1 \in 1..4
    <3>1. /\ Len(calls[t].method.statements) \in 1..4
          /\ calls[t].at \in 1..Len(calls[t].method.statements)
      BY WorkFacts
    <3> DEFINE n == Len(calls[t].method.statements)
               i == calls[t].at
    <3> HIDE DEF n, i
    <3>2. n \in 1..4 /\ i \in 1..n /\ i # n
      BY <1>2, <3>1 DEF n, i
    <3>3. i + 1 \in 1..n /\ i + 1 \in 1..4
      BY <3>2
    <3> QED BY <3>3 DEF n, i
  <2>4. /\ calls'[t] = [calls[t] EXCEPT !.pc = "exec", !.own = own, !.at = calls[t].at + 1]
        /\ calls' = [calls EXCEPT ![t] = calls'[t]]
    BY <2>1, <2>2
  <2>5. calls'[t] \in Call
    BY <2>2, <2>3, <2>4 DEF Call
  <2>6. calls' \in [Threads -> Call]
    BY <2>2, <2>4, <2>5
  <2>7. TypeOK'
    BY <2>1, <2>6 DEF Inv, TypeOK, Lessens
  <2>8. /\ calls'[t].pc = "exec" /\ calls'[t].own = own
        /\ calls'[t].at = calls[t].at + 1
        /\ calls'[t].method = calls[t].method /\ calls'[t].my = calls[t].my
        /\ calls'[t].quiet = calls[t].quiet /\ calls'[t].result = calls[t].result
        /\ calls'[t].ismultithreaded = calls[t].ismultithreaded
        /\ \A u \in Threads \ {t} : calls'[u] = calls[u]
    BY <2>2, <2>4 DEF Call
  <2> QED BY <2>1, <2>3, <2>7, <2>8, InsideStep
<1> QED BY <1>1, <1>2

-----------------------------------------------------------------------------
(* The steps of a thread, one by one *)

(* A libpq connection the step of t changes, and no other.                 *)
LEMMA CommandLessens ==
    ASSUME Inv, NEW t \in Threads, Working(t), Usable(t),
           NEW k \in Commands \cup {NoCommand}
    PROVE  /\ ConnOf(t) \in Conns
           /\ Lessens([conns EXCEPT ![ConnOf(t)].cmd = k], t)
           /\ StillMine([conns EXCEPT ![ConnOf(t)].cmd = k], t)
PROOF
<1> DEFINE c == ConnOf(t)
           cs == [conns EXCEPT ![c].cmd = k]
<1>1. c \in Conns /\ c \in {conn_, calls[t].my} /\ calls[t].my \in Conns
  <2>1. conn_ \in Conns \cup {Nobody} /\ c # Nobody
    BY DEF Inv, TypeOK, Usable
  <2> QED BY <2>1, WorkFacts
<1>2. conns \in [Conns -> Connection]
  BY DEF Inv, TypeOK
<1>3. [conns[c] EXCEPT !.cmd = k] \in Connection
  BY <1>1, <1>2, ConnectionFacts
<1>4. cs = [conns EXCEPT ![c] = [conns[c] EXCEPT !.cmd = k]]
  BY <1>1, <1>2
<1>5. cs \in [Conns -> Connection]
  BY <1>1, <1>2, <1>3, <1>4
<1>6. \A d \in Conns : /\ cs[d].owner = conns[d].owner /\ cs[d].kept = conns[d].kept
                       /\ cs[d].open = conns[d].open /\ cs[d].ok = conns[d].ok
                       /\ d # c => cs[d] = conns[d]
  BY <1>1, <1>2, <1>4 DEF Connection
<1>7. Lessens(cs, t)
  BY <1>1, <1>5, <1>6 DEF Lessens
<1>8. StillMine(conns, t)
  BY DEF StillMine, Inv, SchedulerOK, AtWork, Mine
<1>9. StillMine(cs, t)
  BY <1>1, <1>6, <1>8 DEF StillMine
<1> QED BY <1>1, <1>7, <1>9

(* What a thread of the scheduler takes is the answer to its statement.    *)
LEMMA AnswerIsOwn ==
    ASSUME Inv, NEW t \in Threads, Apart(t), calls[t].pc = "await",
           Received(t) # NoCommand
    PROVE  Received(t).by = t /\ StatusOK(t)
PROOF
<1>1. t \in SchedulerThreads /\ Working(t)
  BY DEF Apart, Working
<1>2. ConnOf(t) = calls[t].my
  BY <1>1, WorkFacts
<1>3. AtWork(t)
  BY <1>1 DEF Inv, SchedulerOK
<1>4. conns[ConnOf(t)].ok /\ Received(t) = conns[ConnOf(t)].cmd
  BY DEF Received
<1> QED BY <1>2, <1>3, <1>4 DEF AtWork, Mine, StatusOK

(* Opening a connection of one's own for a method.                         *)
LEMMA CallOwnStep ==
    ASSUME Inv, NEW t \in Threads, CallOwn(t)
    PROVE  Inv'
PROOF
<1>1. PICK m \in MethodsOf(t), c \in Conns :
         /\ calls[t].pc = "idle" /\ OpensOwn(t, m)
         /\ PQconnectdb(c, t, Keeps(m))
         /\ Begin(t, m, "exec", c)
         /\ UNCHANGED <<conn_, dbUp, outages>>
  BY DEF CallOwn, Keeps
<1>2. /\ ~ThreadSafe /\ t \in SchedulerThreads /\ t # Nobody
      /\ IsMultithreaded(t, m)
  BY <1>1, DbConnectionAssumption DEF OpensOwn, IsMultithreaded
<1>3. /\ calls \in [Threads -> Call] /\ conns \in [Conns -> Connection]
      /\ conn_ \in Conns \cup {Nobody} /\ dbUp \in BOOLEAN
  BY DEF Inv, TypeOK
<1>4. m \in AllMethods /\ Len(m.statements) \in 1..4
  BY <1>1, MethodFacts DEF MethodsOf, AllMethods, WellFormed
<1> DEFINE k == [open |-> TRUE, ok |-> dbUp, owner |-> t, kept |-> Keeps(m),
                 cmd |-> NoCommand]
           x == [pc |-> "exec", method |-> m,
                 ismultithreaded |-> IsMultithreaded(t, m), at |-> 1, my |-> c,
                 own |-> TRUE, quiet |-> dbUp, result |-> "none"]
<1>5. conns' = [conns EXCEPT ![c] = k] /\ calls' = [calls EXCEPT ![t] = x]
      /\ ~InUse(c) /\ ~conns[c].open
  BY <1>1 DEF PQconnectdb, Begin
<1>6. k \in Connection /\ x \in Call
  <2>1. Keeps(m) \in BOOLEAN
    BY DEF Keeps
  <2>2. k \in Connection
    BY <1>3, <2>1 DEF Connection
  <2>3. x \in Call
    BY <1>2, <1>3, <1>4 DEF Call, AllMethods
  <2> QED BY <2>2, <2>3
<1>7. /\ k.open /\ k.ok = dbUp /\ k.owner = t /\ k.kept = Keeps(m) /\ k.cmd = NoCommand
      /\ x.pc = "exec" /\ x.method = m /\ x.at = 1 /\ x.my = c /\ x.own
      /\ x.quiet = dbUp /\ x.result = "none" /\ x.ismultithreaded
  BY <1>2
<1> HIDE DEF k, x
<1>8. TypeOK'
  BY <1>1, <1>3, <1>5, <1>6 DEF Inv, TypeOK
<1>9. /\ conns'[c] = k /\ \A d \in Conns \ {c} : conns'[d] = conns[d]
      /\ calls'[t] = x /\ \A u \in Threads \ {t} : calls'[u] = calls[u]
      /\ conn_' = conn_ /\ c # conn_ /\ \A u \in Threads : calls[u].my # c
  BY <1>1, <1>3, <1>5 DEF InUse
<1>10. \A u \in Threads : CallOK(u)'
  <2>1. CallOK(t)'
    <3>1. calls'[t].method = m /\ calls'[t].at = 1 /\ calls'[t].my = c
          /\ calls'[t].pc = "exec"
      BY <1>7, <1>9
    <3>2. \A n \in 1..4 : 1 \in 1..n
      OBVIOUS
    <3>3. 1 \in 1..Len(m.statements)
      BY <1>4, <3>2
    <3>4. c # Nobody
      BY DbConnectionAssumption
    <3> QED BY <3>1, <3>3, <3>4 DEF CallOK, Working, MethodsOf
  <2>2. ASSUME NEW u \in Threads, u # t PROVE CallOK(u)'
    <3>1. calls'[u] = calls[u] /\ CallOK(u)
      BY <1>9, <2>2 DEF Inv
    <3> QED BY <3>1 DEF CallOK, Working
  <2> QED BY <2>1, <2>2
<1>11. OwnersOK'
  <2>1. \A d \in Conns : conns'[d].owner # Nobody =>
                           ~ThreadSafe /\ conns'[d].owner \in SchedulerThreads
    BY <1>2, <1>7, <1>9 DEF Inv, OwnersOK
  <2>2. conn_' # Nobody => conns'[conn_'].owner = Nobody
    BY <1>3, <1>9 DEF Inv, OwnersOK
  <2>3. ASSUME NEW u \in Threads, ~Apart(u)', calls'[u].my # Nobody
        PROVE  conns'[calls'[u].my].owner = Nobody
    <3>1. u # t
      BY <1>2, <1>7, <1>9, <2>3 DEF Apart
    <3>2. calls[u].my \in Conns \cup {Nobody} /\ ~Apart(u)
      BY <1>3, <1>9, <2>3, <3>1 DEF Call, Apart
    <3> QED BY <1>9, <2>3, <3>1, <3>2 DEF Inv, OwnersOK
  <2> QED BY <2>1, <2>2, <2>3 DEF OwnersOK
<1>12. \A s \in Threads : Apart(s)' => SchedulerOK(s)'
  <2>1. SchedulerOK(t)'
    BY <1>7, <1>9 DEF SchedulerOK, Working, AtWork, Mine
  <2>2. ASSUME NEW s \in Threads, s # t, Apart(s)' PROVE SchedulerOK(s)'
    <3>1. calls'[s] = calls[s] /\ SchedulerOK(s) /\ CallOK(s)
      BY <1>9, <2>2 DEF Inv, Apart
    <3>2. Working(s) => conns'[calls[s].my] = conns[calls[s].my]
      BY <1>9, <3>1 DEF CallOK
    <3> QED BY <3>1, <3>2 DEF SchedulerOK, Working, AtWork, Mine, StatementOf
  <2> QED BY <2>1, <2>2
<1>13. \A d \in Conns : Accounted(d)'
  <2>1. Accounted(c)'
    BY <1>7, <1>9 DEF Accounted, Working
  <2>2. ASSUME NEW d \in Conns, d # c, conns'[d].open, conns'[d].owner # Nobody
        PROVE  Accounted(d)'
    <3>1. conns'[d] = conns[d] /\ Accounted(d) /\ conns[d].owner \in SchedulerThreads
      BY <1>9, <2>2 DEF Inv, OwnersOK
    <3>2. CASE conns[d].owner = t
      BY <1>1, <2>2, <3>1, <3>2 DEF Accounted, Working
    <3>3. CASE conns[d].owner # t
      BY <1>9, <2>2, <3>1, <3>3 DEF Accounted, Working, Threads
    <3> QED BY <3>2, <3>3
  <2> QED BY <2>1, <2>2 DEF Accounted
<1> QED BY <1>8, <1>10, <1>11, <1>12, <1>13 DEF Inv

(* Opening conn_: only a thread that shares it gets there.                 *)
LEMMA CheckConnectStep ==
    ASSUME Inv, NEW t \in Threads, CheckConnect(t)
    PROVE  Inv'
PROOF
<1>1. PICK c \in Conns : /\ calls[t].pc = "connect"
                         /\ PQconnectdb(c, Nobody, FALSE)
                         /\ conn_' = c
                         /\ calls' = [calls EXCEPT ![t].pc = "test"]
                         /\ UNCHANGED <<dbUp, outages>>
  BY DEF CheckConnect
<1>2. /\ calls \in [Threads -> Call] /\ conns \in [Conns -> Connection]
      /\ conn_ \in Conns \cup {Nobody} /\ dbUp \in BOOLEAN
  BY DEF Inv, TypeOK
<1>3. ~Apart(t)
  BY <1>1 DEF Inv, SchedulerOK
<1> DEFINE k == [open |-> TRUE, ok |-> dbUp, owner |-> Nobody, kept |-> FALSE,
                 cmd |-> NoCommand]
<1>4. conns' = [conns EXCEPT ![c] = k] /\ ~InUse(c)
  BY <1>1 DEF PQconnectdb
<1>5. k \in Connection /\ k.owner = Nobody
  BY <1>2 DEF Connection
<1> HIDE DEF k
<1>6. /\ conns'[c] = k /\ \A d \in Conns \ {c} : conns'[d] = conns[d]
      /\ \A u \in Threads : calls[u].my # c
  BY <1>2, <1>4 DEF InUse
<1>7. /\ calls'[t] = [calls[t] EXCEPT !.pc = "test"]
      /\ calls' = [calls EXCEPT ![t] = calls'[t]]
      /\ \A u \in Threads \ {t} : calls'[u] = calls[u]
  BY <1>1, <1>2
<1>8. /\ calls'[t] \in Call /\ calls'[t].pc = "test"
      /\ calls'[t].method = calls[t].method /\ calls'[t].at = calls[t].at
      /\ calls'[t].my = calls[t].my
      /\ calls'[t].ismultithreaded = calls[t].ismultithreaded
  BY <1>2, <1>7 DEF Call
<1>9. TypeOK'
  BY <1>1, <1>2, <1>4, <1>5, <1>7, <1>8 DEF Inv, TypeOK
<1>10. \A u \in Threads : CallOK(u)'
  <2>1. CallOK(t)'
    BY <1>1, <1>8 DEF Inv, CallOK, Working, MethodsOf
  <2>2. ASSUME NEW u \in Threads, u # t PROVE CallOK(u)'
    <3>1. calls'[u] = calls[u] /\ CallOK(u)
      BY <1>7, <2>2 DEF Inv
    <3> QED BY <3>1 DEF CallOK, Working
  <2> QED BY <2>1, <2>2
<1>11. OwnersOK'
  <2>1. \A d \in Conns : conns'[d].owner # Nobody =>
                           ~ThreadSafe /\ conns'[d].owner \in SchedulerThreads
    BY <1>5, <1>6 DEF Inv, OwnersOK
  <2>2. ASSUME NEW u \in Threads, ~Apart(u)', calls'[u].my # Nobody
        PROVE  conns'[calls'[u].my].owner = Nobody
    <3>1. calls'[u].my = calls[u].my /\ calls[u].my \in Conns \cup {Nobody}
          /\ ~Apart(u)
      BY <1>2, <1>3, <1>7, <1>8, <2>2 DEF Call, Apart
    <3> QED BY <1>6, <2>2, <3>1 DEF Inv, OwnersOK
  <2> QED BY <1>1, <1>5, <1>6, <2>1, <2>2 DEF OwnersOK
<1>12. ASSUME NEW s \in Threads, Apart(s)' PROVE SchedulerOK(s)'
  <2>1. s # t
    BY <1>3, <1>8, <1>12 DEF Apart
  <2>2. calls'[s] = calls[s] /\ SchedulerOK(s) /\ CallOK(s)
    BY <1>7, <1>12, <2>1 DEF Inv, Apart
  <2>3. Working(s) => conns'[calls[s].my] = conns[calls[s].my]
    BY <1>6, <2>1, <2>2 DEF CallOK
  <2> QED BY <2>2, <2>3 DEF SchedulerOK, Working, AtWork, Mine, StatementOf
<1>13. \A d \in Conns : Accounted(d)'
  <2> SUFFICES ASSUME NEW d \in Conns, conns'[d].open, conns'[d].owner # Nobody
               PROVE  Accounted(d)'
    BY DEF Accounted
  <2>1. d # c /\ conns'[d] = conns[d]
    BY <1>5, <1>6
  <2>2. Accounted(d) /\ ~ThreadSafe /\ conns[d].owner \in SchedulerThreads
    BY <2>1 DEF Inv, OwnersOK
  <2>3. conns[d].owner \in Threads
    BY <2>2 DEF Threads
  <2> QED BY <1>1, <1>7, <2>1, <2>2, <2>3 DEF Accounted, Working
<1> QED BY <1>9, <1>10, <1>11, <1>12, <1>13 DEF Inv

(* Taking conn_ for a method.                                              *)
LEMMA CallSharedStep ==
    ASSUME Inv, NEW t \in Threads, CallShared(t)
    PROVE  Inv'
PROOF
<1>1. PICK m \in MethodsOf(t) :
         /\ calls[t].pc = "idle" /\ ~OpensOwn(t, m)
         /\ Begin(t, m, IF conn_ = Nobody THEN "connect" ELSE "exec", conn_)
         /\ UNCHANGED <<conns, conn_, dbUp, outages>>
  BY DEF CallShared
<1>2. /\ calls \in [Threads -> Call] /\ conns \in [Conns -> Connection]
      /\ conn_ \in Conns \cup {Nobody} /\ dbUp \in BOOLEAN
  BY DEF Inv, TypeOK
<1>3. m \in AllMethods /\ Len(m.statements) \in 1..4
  BY <1>1, MethodFacts DEF MethodsOf, AllMethods, WellFormed
<1>4. ~ThreadSafe => ~IsMultithreaded(t, m)
  BY <1>1 DEF OpensOwn
<1> DEFINE x == [pc |-> IF conn_ = Nobody THEN "connect" ELSE "exec", method |-> m,
                 ismultithreaded |-> IsMultithreaded(t, m), at |-> 1,
                 my |-> conn_, own |-> TRUE, quiet |-> dbUp, result |-> "none"]
<1>5. calls' = [calls EXCEPT ![t] = x] /\ x \in Call
  <2>1. IsMultithreaded(t, m) \in BOOLEAN
    BY <1>3, MethodFacts DEF IsMultithreaded, WellFormed, MethodType
  <2> QED BY <1>1, <1>2, <1>3, <2>1 DEF Begin, Call, AllMethods
<1>6. /\ x.pc \in {"connect", "exec"} /\ (x.pc = "connect" <=> conn_ = Nobody)
      /\ x.method = m /\ x.at = 1 /\ x.my = conn_
      /\ x.ismultithreaded = IsMultithreaded(t, m)
  OBVIOUS
<1> HIDE DEF x
<1>7. calls'[t] = x /\ \A u \in Threads \ {t} : calls'[u] = calls[u]
  BY <1>2, <1>5
<1>8. CallOK(t)'
  <2>1. \A n \in 1..4 : 1 \in 1..n
    OBVIOUS
  <2>2. 1 \in 1..Len(m.statements)
    BY <1>3, <2>1
  <2>3. conn_ # Nobody => conn_ \in Conns
    BY <1>2
  <2> QED BY <1>6, <1>7, <2>2, <2>3 DEF CallOK, Working, MethodsOf
<1>9. TypeOK'
  BY <1>1, <1>2, <1>5 DEF Inv, TypeOK
<1>10. Lessens(conns', t)
  BY <1>1, <1>2 DEF Lessens
<1>11. ~Apart(t)'
  BY <1>4, <1>6, <1>7 DEF Apart
<1>12. ASSUME NEW c \in Conns, conns[c].owner = t PROVE Accounted(c)'
  <2>1. Accounted(c) /\ t # Nobody
    BY DbConnectionAssumption DEF Inv
  <2> QED BY <1>1, <1>12, <2>1 DEF Accounted, Working
<1> QED BY <1>1, <1>6, <1>7, <1>8, <1>9, <1>10, <1>11, <1>12, StepFrame

(* The test of conn_, after which the thread takes it, or frees it and     *)
(* throws, or dies of one that was freed.                                  *)
LEMMA CheckTestStep ==
    ASSUME Inv, NEW t \in Threads, CheckTest(t) \/ CheckFreed(t) \/ CheckDrop(t)
    PROVE  Inv'
PROOF
<1>1. calls[t].pc \in {"test", "drop"} /\ UNCHANGED <<dbUp, outages>>
  BY DEF CheckTest, CheckFreed, CheckDrop
<1>2. /\ calls \in [Threads -> Call] /\ conns \in [Conns -> Connection]
      /\ conn_ \in Conns \cup {Nobody}
  BY DEF Inv, TypeOK
<1>3. ~Apart(t) /\ ~Working(t) /\ calls[t].pc # "dead"
  BY <1>1 DEF Inv, SchedulerOK, Working
<1>4. Lessens(conns, t)
  BY <1>2 DEF Lessens
<1>5. ASSUME NEW c \in Conns, conns[c].owner = t, conns'[c].open => conns[c].open,
             conns'[c].owner = conns[c].owner, conns'[c].kept = conns[c].kept
      PROVE  Accounted(c)'
  <2>1. Accounted(c) /\ t # Nobody
    BY DbConnectionAssumption DEF Inv
  <2> QED BY <1>3, <1>5, <2>1 DEF Accounted
<1>6. CASE CheckTest(t) /\ conn_ # Nobody /\ conns[conn_].ok
  <2> DEFINE x == [calls[t] EXCEPT !.pc = "exec", !.my = conn_]
  <2>1. calls' = [calls EXCEPT ![t] = x] /\ UNCHANGED <<conns, conn_>>
    BY <1>2, <1>6 DEF CheckTest
  <2>2. /\ x \in Call /\ x.pc = "exec" /\ x.my = conn_
        /\ x.method = calls[t].method /\ x.at = calls[t].at
        /\ x.ismultithreaded = calls[t].ismultithreaded
    BY <1>2 DEF Call
  <2> HIDE DEF x
  <2>3. calls'[t] = x /\ \A u \in Threads \ {t} : calls'[u] = calls[u]
    BY <1>2, <2>1
  <2>4. TypeOK'
    BY <1>1, <1>2, <2>1, <2>2 DEF Inv, TypeOK
  <2>5. CallOK(t)'
    BY <1>1, <1>2, <1>6, <2>2, <2>3 DEF Inv, CallOK, Working, MethodsOf
  <2>6. Lessens(conns', t) /\ ~Apart(t)'
    BY <1>3, <1>4, <2>1, <2>2, <2>3 DEF Apart
  <2> QED BY <1>5, <2>1, <2>2, <2>3, <2>4, <2>5, <2>6, StepFrame
<1>7. CASE CheckTest(t) /\ ~(conn_ # Nobody /\ conns[conn_].ok)
  <2> DEFINE x == [calls[t] EXCEPT !.pc = "drop"]
  <2>1. /\ calls' = [calls EXCEPT ![t] = x] /\ conn_' = conn_
        /\ conns' = IF conn_ = Nobody THEN conns ELSE Closed(conn_)
    BY <1>2, <1>7 DEF CheckTest
  <2>2. /\ x \in Call /\ x.pc = "drop" /\ x.my = calls[t].my
        /\ x.method = calls[t].method /\ x.at = calls[t].at
        /\ x.ismultithreaded = calls[t].ismultithreaded
    BY <1>2 DEF Call
  <2> HIDE DEF x
  <2>3. calls'[t] = x /\ \A u \in Threads \ {t} : calls'[u] = calls[u]
    BY <1>2, <2>1
  <2>4. Lessens(conns', t)
    <3>1. CASE conn_ = Nobody
      BY <1>4, <2>1, <3>1
    <3>2. CASE conn_ \in Conns
      <4> DEFINE k == [conns[conn_] EXCEPT !.open = FALSE, !.cmd = NoCommand]
      <4>1. k \in Connection /\ conn_ # Nobody
        BY <1>2, <3>2, ConnectionFacts, DbConnectionAssumption
      <4>2. conns' = [conns EXCEPT ![conn_] = k]
        BY <1>2, <2>1, <3>2, <4>1 DEF Closed
      <4>3. ~k.open /\ k.owner = conns[conn_].owner /\ k.kept = conns[conn_].kept
        BY <1>2, <3>2 DEF Connection
      <4> HIDE DEF k
      <4> QED BY <1>2, <3>2, <4>1, <4>2, <4>3 DEF Lessens
    <3> QED BY <1>2, <3>1, <3>2
  <2>5. TypeOK'
    BY <1>1, <1>2, <2>1, <2>2, <2>4 DEF Inv, TypeOK, Lessens
  <2>6. CallOK(t)'
    BY <1>1, <2>2, <2>3 DEF Inv, CallOK, Working, MethodsOf
  <2>7. ~Apart(t)'
    BY <1>3, <2>2, <2>3 DEF Apart
  <2>8. \A c \in Conns : conns[c].owner = t => Accounted(c)'
    BY <1>5, <2>4 DEF Lessens
  <2> QED BY <1>3, <2>1, <2>2, <2>3, <2>4, <2>5, <2>6, <2>7, <2>8, StepFrame
<1>8. CASE CheckFreed(t)
  <2>1. Out(t, "dead", "none", FALSE) /\ UNCHANGED <<conns, conn_>>
    BY <1>8 DEF CheckFreed
  <2> QED BY <1>1, <1>3, <1>4, <2>1, OutStep DEF Results
<1>9. CASE CheckDrop(t)
  <2>1. Out(t, "idle", "failed", TRUE) /\ conn_' = Nobody /\ UNCHANGED conns
    BY <1>9 DEF CheckDrop
  <2> QED BY <1>1, <1>3, <1>4, <2>1, OutStep DEF Results
<1> QED BY <1>6, <1>7, <1>8, <1>9

(* A statement that failed ends the method or lets it go on.               *)
LEMMA FailStep ==
    ASSUME Inv, NEW t \in Threads, Working(t), NEW cs, Lessens(cs, t),
           StillMine(cs, t), Fail(t, cs),
           Apart(t) => ~calls[t].quiet
    PROVE  Inv'
PROOF
<1>1. calls[t].own \in BOOLEAN /\ "failed" \in Results
  BY WorkFacts DEF Call, Results
<1>2. Apart(t) => calls[t].own
  BY DEF Inv, SchedulerOK
<1>3. Finish(t, cs, "failed", calls[t].own) \/ NextStatement(t, cs, calls[t].own)
  BY DEF Fail
<1> QED BY <1>1, <1>2, <1>3, FinishStep, NextStatementStep

(* The three steps of PQexec.                                              *)
LEMMA ExecSteps ==
    ASSUME Inv, NEW t \in Threads,
           ExecDrain(t) \/ ExecSend(t) \/ ExecRefused(t) \/ UseClosed(t)
    PROVE  Inv'
PROOF
<1>1. calls \in [Threads -> Call] /\ conns \in [Conns -> Connection]
  BY DEF Inv, TypeOK
<1>2. Working(t)
  BY DEF ExecDrain, ExecSend, ExecRefused, UseClosed, Working
<1>3. Apart(t) => ConnOf(t) = calls[t].my
  BY <1>2, WorkFacts DEF Apart
<1>4. Apart(t) => AtWork(t) /\ calls[t].own
  BY <1>2 DEF Inv, SchedulerOK
<1>5. ASSUME NEW pc \in {"send", "await"}, calls' = [calls EXCEPT ![t].pc = pc]
      PROVE  /\ calls' \in [Threads -> Call] /\ calls'[t].pc = pc
             /\ \A u \in Threads \ {t} : calls'[u] = calls[u]
             /\ calls'[t].method = calls[t].method /\ calls'[t].my = calls[t].my
             /\ calls'[t].at = calls[t].at /\ calls'[t].quiet = calls[t].quiet
             /\ calls'[t].ismultithreaded = calls[t].ismultithreaded
             /\ calls'[t].result = calls[t].result /\ calls'[t].own = calls[t].own
  <2>1. /\ calls'[t] = [calls[t] EXCEPT !.pc = pc]
        /\ calls' = [calls EXCEPT ![t] = calls'[t]]
    BY <1>1, <1>5
  <2>2. calls'[t] \in Call /\ calls'[t].pc = pc
        /\ calls'[t].method = calls[t].method /\ calls'[t].my = calls[t].my
        /\ calls'[t].at = calls[t].at /\ calls'[t].quiet = calls[t].quiet
        /\ calls'[t].ismultithreaded = calls[t].ismultithreaded
        /\ calls'[t].result = calls[t].result /\ calls'[t].own = calls[t].own
    BY <1>1, <2>1 DEF Call
  <2> QED BY <1>1, <2>1, <2>2
<1>6. CASE ExecDrain(t)
  <2>1. /\ Usable(t) /\ conns' = [conns EXCEPT ![ConnOf(t)].cmd = NoCommand]
        /\ calls' = [calls EXCEPT ![t].pc = "send"]
        /\ UNCHANGED <<conn_, dbUp, outages>>
    BY <1>6 DEF ExecDrain
  <2>2. ConnOf(t) \in Conns /\ Lessens(conns', t) /\ StillMine(conns', t)
    BY <1>2, <2>1, CommandLessens
  <2>3. conns'[ConnOf(t)].cmd = NoCommand
    BY <1>1, <2>1, <2>2 DEF Connection
  <2>4. TypeOK'
    BY <1>5, <2>1, <2>2 DEF Inv, TypeOK, Lessens
  <2>5. calls[t].at \in 1..Len(calls[t].method.statements)
    BY <1>2, WorkFacts
  <2> QED BY <1>2, <1>3, <1>4, <1>5, <2>1, <2>2, <2>3, <2>4, <2>5, InsideStep
<1>7. CASE ExecSend(t)
  <2>1. PICK row \in BOOLEAN :
          /\ Usable(t)
          /\ conns' = [conns EXCEPT ![ConnOf(t)].cmd =
                         [by |-> t, kind |-> StatementOf(t).kind, row |-> row]]
          /\ calls' = [calls EXCEPT ![t].pc = "await"]
          /\ UNCHANGED <<conn_, dbUp, outages>>
    BY <1>7 DEF ExecSend
  <2> DEFINE k == [by |-> t, kind |-> StatementOf(t).kind, row |-> row]
  <2>2. k \in Commands /\ k.by = t /\ k.kind = StatementOf(t).kind
    BY <1>2, WorkFacts DEF Commands, StatementType
  <2> HIDE DEF k
  <2>3. ConnOf(t) \in Conns /\ Lessens(conns', t) /\ StillMine(conns', t)
    BY <1>2, <2>1, <2>2, CommandLessens DEF k
  <2>4. conns'[ConnOf(t)].cmd = k
    <3>1. conns' = [conns EXCEPT ![ConnOf(t)].cmd = k]
      BY <2>1 DEF k
    <3> QED BY <1>1, <2>3, <3>1 DEF Connection
  <2>5. TypeOK'
    BY <1>5, <2>1, <2>3 DEF Inv, TypeOK, Lessens
  <2>6. calls[t].at \in 1..Len(calls[t].method.statements)
    BY <1>2, WorkFacts
  <2>7. /\ calls'[t].pc = "await" /\ calls'[t].method = calls[t].method
        /\ calls'[t].my = calls[t].my /\ calls'[t].at = calls[t].at
        /\ calls'[t].quiet = calls[t].quiet /\ calls'[t].result = calls[t].result
        /\ calls'[t].ismultithreaded = calls[t].ismultithreaded
        /\ calls'[t].own = calls[t].own /\ conn_' = conn_
        /\ \A u \in Threads \ {t} : calls'[u] = calls[u]
    BY <1>5, <2>1
  <2>8. Apart(t) =>
           /\ calls[t].own /\ conns'[calls[t].my].cmd.by = t
           /\ conns'[calls[t].my].cmd.kind = StatementOf(t).kind
    BY <1>3, <1>4, <2>2, <2>4
  <2> QED BY <1>2, <2>3, <2>5, <2>6, <2>7, <2>8, InsideStep
<1>8. CASE ExecRefused(t)
  <2>1. Lessens(conns, t) /\ StillMine(conns, t)
    BY <1>1, <1>4 DEF Lessens, StillMine, AtWork, Mine
  <2>2. Apart(t) => ~calls[t].quiet
    BY <1>3, <1>4, <1>8 DEF ExecRefused, AtWork, Mine
  <2> QED BY <1>2, <1>8, <2>1, <2>2, FailStep DEF ExecRefused
<1>9. CASE UseClosed(t)
  <2>1. ~Apart(t)
    <3>1. calls[t].my # Nobody
      BY <1>2, WorkFacts, DbConnectionAssumption
    <3> QED BY <1>3, <1>4, <1>9, <3>1 DEF UseClosed, Usable, AtWork, Mine
  <2>2. Die(t, FALSE)
    BY <1>9 DEF UseClosed
  <2> QED BY <1>2, <2>1, <2>2, DieStep
<1> QED BY <1>6, <1>7, <1>8, <1>9

(* The judgement of a result.                                              *)
LEMMA AnswerSteps ==
    ASSUME Inv, NEW t \in Threads,
           AnswerFails(t) \/ AnswerTaken(t) \/ AnswerRefused(t)
              \/ AnswerHasNoRow(t) \/ AnswerLacksColumn(t)
    PROVE  Inv'
PROOF
<1>1. calls[t].pc = "await" /\ Working(t) /\ Usable(t)
  BY DEF AnswerFails, AnswerTaken, AnswerRefused, AnswerHasNoRow,
         AnswerLacksColumn, Awaits, Working
<1>2. Lessens(Taken(t), t) /\ StillMine(Taken(t), t) /\ ConnOf(t) \in Conns
  BY <1>1, CommandLessens DEF Taken
<1>3. ASSUME Apart(t)
      PROVE  /\ Received(t) # NoCommand => Received(t).by = t /\ StatusOK(t)
             /\ calls[t].own /\ AtWork(t) /\ ConnOf(t) = calls[t].my
  BY <1>1, <1>3, AnswerIsOwn, WorkFacts DEF Inv, SchedulerOK, Apart
<1>4. calls[t].own \in BOOLEAN /\ Own(t) \in BOOLEAN
  BY <1>1, WorkFacts DEF Call, Own
<1>5. StatusOK(t) /\ Apart(t) => Own(t) /\ Received(t).by = t
  BY <1>3 DEF StatusOK, Own
<1>6. CASE AnswerFails(t)
  <2>1. Fail(t, Taken(t)) /\ ~StatusOK(t)
    BY <1>6 DEF AnswerFails
  <2>2. ASSUME Apart(t) PROVE ~calls[t].quiet
    <3>1. Received(t) = NoCommand
      BY <1>3, <2>1, <2>2
    <3>2. conns[ConnOf(t)].ok => FALSE
      <4> SUFFICES ASSUME conns[ConnOf(t)].ok PROVE FALSE
        OBVIOUS
      <4>1. conns[calls[t].my].cmd = NoCommand /\ conns[calls[t].my].cmd.by = t
        BY <1>1, <1>3, <2>2, <3>1 DEF Received, AtWork, Mine
      <4> QED BY <4>1, DbConnectionAssumption DEF NoCommand
    <3> QED BY <1>3, <2>2, <3>2 DEF AtWork, Mine
  <2> QED BY <1>1, <1>2, <2>1, <2>2, FailStep
<1>7. CASE AnswerTaken(t)
  BY <1>1, <1>2, <1>4, <1>5, <1>7, NextStatementStep DEF AnswerTaken
<1>8. CASE AnswerRefused(t)
  <2>1. StatusOK(t) /\ "refused" \in Results /\ "refused" # "failed"
    BY <1>8 DEF AnswerRefused, Results
  <2>2. CASE Finish(t, Taken(t), "refused", Own(t))
    BY <1>1, <1>2, <1>4, <1>5, <2>1, <2>2, FinishStep
  <2>3. CASE Die(t, Own(t))
    BY <1>1, <1>4, <1>5, <2>1, <2>3, DieStep
  <2> QED BY <1>8, <2>2, <2>3 DEF AnswerRefused
<1>9. CASE AnswerHasNoRow(t)
  <2>1. StatusOK(t) /\ "notfound" \in Results /\ "notfound" # "failed"
    BY <1>9 DEF AnswerHasNoRow, Results
  <2>2. CASE Finish(t, Taken(t), "notfound", Own(t))
    BY <1>1, <1>2, <1>4, <1>5, <2>1, <2>2, FinishStep
  <2>3. CASE StatementOf(t).none = "keep" /\ Leave(t, Taken(t), "notfound", Own(t))
    <3>1. /\ conns' = Taken(t) /\ Out(t, "idle", "notfound", Own(t))
          /\ UNCHANGED <<conn_, dbUp, outages>>
      BY <2>3 DEF Leave
    <3>2. Keeps(calls[t].method)
      <4>1. /\ calls[t].method.statements \in Seq(StatementType)
            /\ calls[t].at \in 1..Len(calls[t].method.statements)
        BY <1>1, WorkFacts, MethodFacts DEF WellFormed, MethodType
      <4>2. calls[t].at \in DOMAIN calls[t].method.statements
        BY <4>1
      <4> QED BY <2>3, <4>2 DEF Keeps, StatementOf
    <3>3. Apart(t) => conns'[calls[t].my].kept
      BY <1>1, <1>2, <1>3, <3>1, <3>2, WorkFacts DEF AtWork, Mine, Lessens
    <3> QED BY <1>1, <1>2, <1>4, <1>5, <2>1, <3>1, <3>3, OutStep
  <2>4. CASE Die(t, calls[t].own)
    BY <1>1, <1>3, <1>4, <2>4, DieStep
  <2> QED BY <1>9, <2>2, <2>3, <2>4 DEF AnswerHasNoRow
<1>10. CASE AnswerLacksColumn(t)
  <2>1. StatusOK(t) /\ Received(t).by # t /\ "failed" \in Results
    BY <1>10 DEF AnswerLacksColumn, Results
  <2>2. ~Apart(t)
    BY <1>5, <2>1
  <2>3. CASE Die(t, FALSE)
    BY <1>1, <2>2, <2>3, DieStep
  <2>4. CASE Leave(t, Taken(t), "failed", FALSE)
    <3>1. /\ conns' = Taken(t) /\ Out(t, "idle", "failed", FALSE)
          /\ UNCHANGED <<conn_, dbUp, outages>> /\ calls[t].pc # "dead"
      BY <1>1, <2>4 DEF Leave
    <3> QED BY <1>2, <2>1, <2>2, <3>1, OutStep
  <2> QED BY <1>10, <2>3, <2>4 DEF AnswerLacksColumn
<1> QED BY <1>6, <1>7, <1>8, <1>9, <1>10

-----------------------------------------------------------------------------
(* The database goes down, or is back.                                     *)
LEMMA OutageSteps ==
    ASSUME Inv, Outage \/ Restore
    PROVE  Inv'
PROOF
<1>1. /\ calls \in [Threads -> Call] /\ conns \in [Conns -> Connection]
      /\ outages \in 0..MaxOutages /\ MaxOutages \in Nat
  BY DbConnectionAssumption DEF Inv, TypeOK
<1>2. CASE Restore
  <2>1. TypeOK'
    BY <1>2 DEF Restore, Inv, TypeOK
  <2> QED BY <1>2, <2>1 DEF Restore, Inv, CallOK, Working, OwnersOK, SchedulerOK,
                            Apart, AtWork, Mine, StatementOf, Accounted
<1>3. CASE Outage
  <2>1. /\ conns' = [c \in Conns |-> [conns[c] EXCEPT !.ok = FALSE, !.cmd = NoCommand]]
        /\ calls' = [u \in Threads |-> [calls[u] EXCEPT !.quiet = FALSE]]
        /\ conn_' = conn_ /\ dbUp' = FALSE /\ outages' = outages + 1
        /\ outages < MaxOutages
    BY <1>3 DEF Outage
  <2>2. \A c \in Conns : /\ conns'[c] \in Connection /\ ~conns'[c].ok
                         /\ conns'[c].open = conns[c].open
                         /\ conns'[c].owner = conns[c].owner
                         /\ conns'[c].kept = conns[c].kept
                         /\ conns'[c].cmd = NoCommand
    BY <1>1, <2>1 DEF Connection
  <2>3. \A u \in Threads : /\ calls'[u] \in Call /\ ~calls'[u].quiet
                           /\ calls'[u].pc = calls[u].pc /\ calls'[u].my = calls[u].my
                           /\ calls'[u].method = calls[u].method
                           /\ calls'[u].at = calls[u].at /\ calls'[u].own = calls[u].own
                           /\ calls'[u].result = calls[u].result
                           /\ calls'[u].ismultithreaded = calls[u].ismultithreaded
    BY <1>1, <2>1 DEF Call
  <2>4. TypeOK'
    <3>1. outages' \in 0..MaxOutages
      <4>1. outages' = outages + 1 /\ outages < MaxOutages
        BY <2>1
      <4> QED BY <1>1, <4>1
    <3>2. conns' \in [Conns -> Connection] /\ calls' \in [Threads -> Call]
      BY <2>1, <2>2, <2>3
    <3> QED BY <2>1, <3>1, <3>2 DEF Inv, TypeOK
  <2>5. \A u \in Threads : CallOK(u)'
    BY <2>3 DEF Inv, CallOK, Working
  <2>6. OwnersOK'
    <3>1. /\ conn_ \in Conns \cup {Nobody}
          /\ \A u \in Threads : calls[u].my \in Conns \cup {Nobody}
      <4>1. conn_ \in Conns \cup {Nobody}
        BY DEF Inv, TypeOK
      <4> QED BY <1>1, <4>1 DEF Call
    <3>2. conn_' = conn_ /\ \A c \in Conns : conns'[c].owner = conns[c].owner
      BY <2>1, <2>2
    <3>3. \A u \in Threads : calls'[u].my = calls[u].my /\ (Apart(u)' = Apart(u))
      BY <2>3 DEF Apart
    <3>4. OwnersOK
      BY DEF Inv
    <3> QED BY <3>1, <3>2, <3>3, <3>4 DEF OwnersOK
  <2>7. ASSUME NEW s \in Threads, Apart(s)' PROVE SchedulerOK(s)'
    <3>1. SchedulerOK(s) /\ CallOK(s)
      BY <2>3, <2>7 DEF Inv, Apart
    <3>2. Working(s)' => AtWork(s)'
      BY <2>2, <2>3, <3>1 DEF SchedulerOK, CallOK, Working, AtWork, Mine
    <3> QED BY <2>3, <3>1, <3>2 DEF SchedulerOK
  <2>8. \A c \in Conns : Accounted(c)'
    BY <2>2, <2>3 DEF Inv, OwnersOK, Accounted, Working, Threads
  <2> QED BY <2>4, <2>5, <2>6, <2>7, <2>8 DEF Inv
<1> QED BY <1>2, <1>3

(* The invariant holds at the start.                                       *)
LEMMA InitInv == Init => Inv
PROOF
<1> SUFFICES ASSUME Init PROVE Inv
  OBVIOUS
<1>1. TypeOK
  <2>1. conns \in [Conns -> Connection]
    BY DEF Init, Connection
  <2>2. calls \in [Threads -> Call]
    BY DEF Init, Call
  <2>3. outages \in 0..MaxOutages
    <3>1. outages = 0
      BY DEF Init
    <3> QED BY <3>1, DbConnectionAssumption
  <2> QED BY <2>1, <2>2, <2>3 DEF Init, TypeOK
<1>2. \A t \in Threads : CallOK(t)
  BY DEF Init, CallOK, Working
<1>3. OwnersOK
  BY DEF Init, OwnersOK, Threads
<1>4. \A s \in Threads : SchedulerOK(s)
  BY DEF Init, SchedulerOK, Working
<1>5. \A c \in Conns : Accounted(c)
  BY DEF Init, Accounted
<1> QED BY <1>1, <1>2, <1>3, <1>4, <1>5 DEF Inv

(* Every step preserves the invariant.                                     *)
LEMMA NextInv == Inv /\ [Next]_vars => Inv'
PROOF
<1> SUFFICES ASSUME Inv, [Next]_vars PROVE Inv'
  OBVIOUS
<1>1. ASSUME NEW t \in Threads, ThreadStep(t) PROVE Inv'
  BY <1>1, CallOwnStep, CallSharedStep, CheckConnectStep, CheckTestStep,
     ExecSteps, AnswerSteps DEF ThreadStep
<1>2. CASE UNCHANGED vars
  BY <1>2 DEF vars, Inv, TypeOK, CallOK, Working, OwnersOK, SchedulerOK, Apart, AtWork,
              Mine, StatementOf, Accounted
<1> QED BY <1>1, <1>2, OutageSteps DEF Next

LEMMA AlwaysInv == Spec => []Inv
BY InitInv, NextInv, PTL DEF Spec

(* Type correctness, for any threads, connections and methods.             *)
THEOREM TypeCorrect == Spec => []TypeOK
PROOF
<1>1. Inv => TypeOK
  BY DEF Inv
<1> QED BY <1>1, AlwaysInv, PTL

(* With a libpq that is not thread-safe a thread of the scheduler, in a    *)
(* method it called with ismultithreaded, judges only answers to its own   *)
(* statements, and fails only over an outage.                              *)
THEOREM SchedulerIsApart == Spec => []MultithreadedHearsItsOwn
PROOF
<1>1. Inv => MultithreadedHearsItsOwn
  BY DEF Inv, Apart, SchedulerOK, MultithreadedHearsItsOwn, Threads
<1> QED BY <1>1, AlwaysInv, PTL

(* An own connection is closed on every way out of a method but those of   *)
(* getHpcCenterByID and of the look-up of a folder that find no record.    *)
THEOREM OwnConnectionsAreClosed == Spec => []NoOwnConnectionIsLost
PROOF
<1>1. Inv => NoOwnConnectionIsLost
  <2> SUFFICES ASSUME Inv, NEW c \in Conns, conns[c].open, conns[c].owner # Nobody,
                      ~InHands(c), ~conns[c].kept
               PROVE  calls[conns[c].owner].pc = "dead"
    BY DEF NoOwnConnectionIsLost
  <2>1. Accounted(c) /\ conns[c].owner \in Threads
    BY DEF Inv, OwnersOK, Threads
  <2> QED BY <2>1 DEF Accounted, InHands, Working
<1> QED BY <1>1, AlwaysInv, PTL
=============================================================================
