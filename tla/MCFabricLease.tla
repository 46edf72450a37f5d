----------------------------- MODULE MCFabricLease -----------------------------
(* Instances of FabricLease for TLC: two instances of `fabric run`.           *)
EXTENDS FabricLease, TLC

CONSTANTS p1, p2

\* Every instance has its own id (generated, or a distinct container name).
DistinctOwners == [p \in Procs |-> p]
================================================================================
