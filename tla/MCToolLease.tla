----------------------------- MODULE MCToolLease -----------------------------
(* Instances of ToolLease for TLC.                                           *)
EXTENDS ToolLease, TLC

CONSTANTS w1, w2, a

\* The workers are alike.
Symmetry == Permutations(Workers)
================================================================================
