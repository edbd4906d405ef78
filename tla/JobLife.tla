------------------------------ MODULE JobLife -------------------------------
(***************************************************************************)
(* What HydroGate promises of the jobs it accepts: the stages a client     *)
(* sees a job go through, and what they say of the batch job on the HPC    *)
(* center.  Queue, threads, rounds, commands and crashes are not seen.     *)
(***************************************************************************)
CONSTANT Jobs

VARIABLES
    life,    \* per job: the stage HydroGate reports
    batch    \* per job: what became of it on the HPC center

(* The stages a job goes through one after the other.                      *)
Onward == {<<"accepted", "submitted">>, <<"accepted", "failed">>,
           <<"submitted", "completed">>,
           <<"completed", "transferring">>, <<"completed", "failed">>,
           <<"transferring", "done">>, <<"transferring", "failed">>}

(* A stage is reported when it is true: the batch job is known, has ended, *)
(* or has succeeded.                                                       *)
IsTrue(s, j) ==
    /\ s = "submitted" => batch[j] # "unknown"
    /\ s \in {"completed", "transferring", "done"} => batch[j] \in {"succeeded", "failed"}
    /\ s = "done" => batch[j] = "succeeded"

Init == /\ life = [j \in Jobs |-> "none"]
        /\ batch = [j \in Jobs |-> "unknown"]

Report(j, s) == /\ life' = [life EXCEPT ![j] = s]
                /\ UNCHANGED batch

Accept(j) == life[j] = "none" /\ Report(j, "accepted")

GoOn(j) == \E stage \in Onward : /\ life[j] = stage[1]
                                 /\ IsTrue(stage[2], j)
                                 /\ Report(j, stage[2])

(* The jobs of a package are deleted together.                             *)
Delete(J) == /\ \A j \in J : life[j] # "none"
             /\ life' = [j \in Jobs |-> IF j \in J THEN "deleted" ELSE life[j]]
             /\ UNCHANGED batch

(* Who works on a job when it is deleted writes over the deletion, but     *)
(* nothing that is not true.                                               *)
ComeBack(j) == /\ life[j] = "deleted"
               /\ \E stage \in Onward : IsTrue(stage[2], j) /\ Report(j, stage[2])

(* The batch job is started once, for a job not yet reported as submitted, *)
(* and ends once.                                                          *)
Start(j) == /\ life[j] \in {"accepted", "deleted"}
            /\ batch[j] = "unknown"
            /\ batch' = [batch EXCEPT ![j] = "running"]
            /\ UNCHANGED life

End(j) == /\ batch[j] = "running"
          /\ \E outcome \in {"succeeded", "failed"} : batch' = [batch EXCEPT ![j] = outcome]
          /\ UNCHANGED life

Next == \/ \E j \in Jobs : Accept(j) \/ GoOn(j) \/ ComeBack(j) \/ Start(j) \/ End(j)
        \/ \E J \in SUBSET Jobs : Delete(J)

Spec == Init /\ [][Next]_<<life, batch>>
=============================================================================
