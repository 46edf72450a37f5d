---------------------------- MODULE MCFabricRuntime ----------------------------
(* Instances of FabricRuntime for TLC: two processes of `fabric run`.        *)
EXTENDS FabricRuntime, TLC

CONSTANTS p1, p2

DistinctOwners == [p \in Procs |-> p]
\* The two processes are alike.
Symmetry == Permutations(Procs)
================================================================================
