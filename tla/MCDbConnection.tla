--------------------------- MODULE MCDbConnection ---------------------------
(* Instances of DbConnection for TLC. *)
EXTENDS DbConnection, TLC

(* Every kind of statement and of failure, with and without a connection   *)
(* of the method's own.                                                    *)
SomeMethods == {getHpcCenterByID, setJobStateIfChanged, deleteJobByID,
                deletePackageByID, getUserByName}

(* A page that asks for a job's state, beside the rounds of the background *)
(* thread.                                                                 *)
StatusMethods == {getJobStatus, getAllSubmittedAndRunningJobsByHPCID}

Symmetry == Permutations(Conns) \cup Permutations(SchedulerThreads)
                \cup Permutations(RequestThreads)
=============================================================================
