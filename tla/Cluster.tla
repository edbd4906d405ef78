------------------------------ MODULE Cluster -------------------------------
(***************************************************************************)
(* One HPC center: the batch scheduler behind qsub/qstat/qdel (QType 1,    *)
(* PBS) or sbatch/squeue (QType 2, Slurm), and the files under             *)
(* ~/.hydrogate/data.  It is not under src/: it is modelled from the       *)
(* commands the scheduler of HydroGate sends it and from what it does with *)
(* their answers.                                                          *)
(***************************************************************************)
EXTENDS WorkState

CONSTANTS QType,     \* column qtype of the HPC center: 1 = PBS, 2 = Slurm
          Letters    \* the status letters of unfinished jobs it shows

Queued  == IF QType = 1 THEN "Q" ELSE "PD"
Exiting == IF QType = 1 THEN "E" ELSE "CG"
Ended   == IF QType = 1 THEN "C" ELSE "CD"

ASSUME ClusterAssumption ==
    /\ QType \in {1, 2}
    /\ Queued \in Letters
    /\ Letters \subseteq IF QType = 1
                         THEN {"Q", "H", "T", "W", "S", "R", "E"}
                         ELSE {"PD", "R", "S", "CG"}

VARIABLES
    hpc,    \* per job: its status letter, its folder, its exit code
    store   \* per package: its folder under ~/.hydrogate/data
clusterVars == <<hpc, store>>

(* status "none": never submitted; "gone": no longer listed.               *)
(* dir: JOB_<id> is absent, empty, holds the unzipped package, or holds    *)
(* errorcode.log and the result zip as well; ok: errorcode.log says 0.     *)
ClusterTypeOK ==
    /\ hpc \in [Jobs -> [status : {"none", Ended, "gone"} \cup Letters,
                         dir : {"absent", "empty", "unzipped", "results"},
                         ok : BOOLEAN]]
    /\ store \in [Packages -> {"absent", "empty", "zip"}]

ClusterInit ==
    /\ hpc = [j \in Jobs |-> [status |-> "none", dir |-> "absent", ok |-> FALSE]]
    /\ store = [p \in Packages |-> "absent"]

Finished(j) == hpc[j].status \in {Ended, "gone"}
Listed(j)   == hpc[j].status \in Letters \cup {Ended}

-----------------------------------------------------------------------------
(* What the batch scheduler does by itself *)

HpcMove(j) ==
    /\ hpc[j].status \in Letters \ {Exiting}
    /\ \E l \in Letters \ {Queued} : hpc' = [hpc EXCEPT ![j].status = l]
    /\ UNCHANGED store

(* The job ends: its script ran to the end and left errorcode.log and the  *)
(* zip, or it was killed (time limit, operator) and left nothing.          *)
HpcEnd(j) ==
    /\ hpc[j].status \in Letters
    /\ \/ /\ hpc[j].dir = "unzipped"
          /\ \E ok \in BOOLEAN :
                hpc' = [hpc EXCEPT ![j] = [status |-> Ended,
                                           dir |-> "results", ok |-> ok]]
       \/ hpc' = [hpc EXCEPT ![j].status = Ended]
    /\ UNCHANGED store

HpcForget(j) ==
    /\ hpc[j].status = Ended
    /\ hpc' = [hpc EXCEPT ![j].status = "gone"]
    /\ UNCHANGED store

HpcNext(j) == HpcMove(j) \/ HpcEnd(j) \/ HpcForget(j)

-----------------------------------------------------------------------------
(* What a command of HydroGate does on the login node *)

qsub(j) == /\ hpc' = [hpc EXCEPT ![j].status = Queued]
           /\ UNCHANGED store

(* Only PBS has qdel, and it refuses a job that ended or is unknown. *)
QdelWorks(j) == QType = 1 /\ hpc[j].status \in Letters \ {Exiting}

qdel(j) == /\ QdelWorks(j)
           /\ hpc' = [hpc EXCEPT ![j].status = "gone"]
           /\ UNCHANGED store

RemoveJobFolder(j) == /\ hpc' = [hpc EXCEPT ![j].dir = "absent"]
                      /\ UNCHANGED store

(* rm -rf of the folders of the packages P; J are the jobs in them. *)
RemovePackageFolders(P, J) ==
    /\ store' = [p \in Packages |-> IF p \in P THEN "absent" ELSE store[p]]
    /\ hpc' = [j \in Jobs |-> IF j \in J THEN [hpc[j] EXCEPT !.dir = "absent"]
                                         ELSE hpc[j]]
=============================================================================
