------------------------------ MODULE MCGateway ------------------------------
(***************************************************************************)
(* Instances of Gateway for TLC: the limits of the delete requests and the *)
(* sets of interchangeable ids.                                            *)
(***************************************************************************)
EXTENDS Gateway, TLC

Ids == Packages \cup Jobs
NoDeletes      == [x \in Ids |-> 0]
JobDeletes     == [x \in Ids |-> IF x \in Jobs THEN 1 ELSE 0]
PackageDeletes == [x \in Ids |-> IF x \in Packages THEN 1 ELSE 0]
AllDeletes     == [x \in Ids |-> 1]

FewPbsLetters  == {"Q", "R"}
PbsLetters     == {"Q", "R", "E"}
SlurmLetters   == {"PD", "R", "CG"}

(* Jobs, packages and threads are interchangeable; no liveness property is *)
(* checked with symmetry.                                                  *)
Symmetry == Permutations(Packages) \cup Permutations(Jobs) \cup
            Permutations(Workers) \cup Permutations(Pollers) \cup
            Permutations(Clients)
=============================================================================
