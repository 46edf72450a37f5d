---------------------------- MODULE MCStateClients ----------------------------
(* Instances of StateClients for TLC.                                        *)
EXTENDS StateClients, TLC

CONSTANTS m1, m2, a1, a2, w1, w2

\* Agents, workers and members are alike.
Symmetry == Permutations(Agents) \cup Permutations(Workers) \cup Permutations(Members)
================================================================================
