------------------------------ MODULE Listing -------------------------------
(***************************************************************************)
(* The listing of its jobs that the background thread gets from qstat -u   *)
(* (PBS) or squeue -u (Slurm), and how parseQStatForRunningJobs and        *)
(* parseSQueueForRunningJobs read it.  A listing is a sequence of lines, a *)
(* line the sequence of its words.                                         *)
(***************************************************************************)
EXTENDS Scheduler, FiniteSets, Functions

ASSUME ListingAssumption == IsFiniteSet(Jobs)

Dashes == "---------"

-----------------------------------------------------------------------------
(* What the HPC center prints: a header, then the jobs of the account in   *)
(* any order, among them some that HydroGate does not know (NoJob).  With  *)
(* no job to show, qstat prints nothing at all.                            *)
Header == IF QType = 1
          THEN << <<>>, <<"host">>, <<"Req'd", "Req'd", "Elap">>,
                  <<"Job", "ID", "Username">>, <<Dashes, Dashes>> >>
          ELSE << <<"JOBID", "PARTITION", "NAME", "USER", "ST">> >>

Columns      == IF QType = 1 THEN 11 ELSE 8
StatusColumn == IF QType = 1 THEN 10 ELSE 5

Row(j) == [n \in 1..Columns |->
             CASE n = 1 -> j
               [] n = StatusColumn -> IF j = NoJob THEN Queued ELSE hpc[j].status
               [] OTHER -> "word"]

Orders(S) == Bijection(1..Cardinality(S), S)
Shown     == {j \in Jobs : Listed(j)}

Listings ==
    UNION {{IF QType = 1 /\ S = {} THEN <<>>
            ELSE Header \o [i \in 1..Cardinality(S) |-> Row(order[i])] :
              order \in Orders(S)} : S \in {Shown, Shown \cup {NoJob}}}

-----------------------------------------------------------------------------
(* Mutant of Skipped: the parser of squeue expects a header of two lines.  *)
SkippedOneMore(text, i) ==
    IF QType = 1
    THEN \A k \in 1..i : text[k] = <<>> \/ text[k][1] # Dashes
    ELSE i <= 2

(* Line i belongs to the header: qstat's goes on to the first line that    *)
(* starts with dashes, squeue's is one line.                               *)
Skipped(text, i) ==
    IF QType = 1
    THEN \A k \in 1..i - 1 : text[k] = <<>> \/ text[k][1] # Dashes
    ELSE i = 1

(* The lines read as jobs: all after the header, up to a line without a    *)
(* second word (the end of the stream is met while its first is read).     *)
JobLines(text) ==
    {i \in DOMAIN text : /\ ~Skipped(text, i)
                         /\ \A k \in 1..i : Skipped(text, k) \/ Len(text[k]) > 1}

(* joblistonhpc->find: the line that was inserted first counts.  A line    *)
(* that is too short gives its last word for the status.                   *)
StatusIn(text, j) ==
    LET found == {i \in JobLines(text) : text[i][1] = j}
        line  == text[CHOOSE i \in found : \A k \in found : i <= k]
    IN IF found = {} THEN "none"
       ELSE line[IF StatusColumn <= Len(line) THEN StatusColumn ELSE Len(line)]
=============================================================================
