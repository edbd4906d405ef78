---------------------------- MODULE MCRegistry ----------------------------
(* Instances of PoolRegistry for TLC. *)
EXTENDS PoolRegistry, TLC

Symmetry == Permutations(Apps)
=============================================================================
