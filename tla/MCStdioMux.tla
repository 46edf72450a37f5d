------------------------------ MODULE MCStdioMux ------------------------------
(* Instances of StdioMux for TLC.                                            *)
EXTENDS StdioMux, TLC

CONSTANTS a, b, s, t

\* Requests of a kind are alike (for safety only).
Symmetry == Permutations(Ordinary) \cup Permutations(Subscriptions)

AllNew == [r \in Requests |-> "new"]
NoProcs == [n \in Procs |-> "none"]

\* Two ways to go on from states that Spec reaches: a subscription has failed to
\* spawn, and the other requests have all the processes; or an ordinary call is
\* over, and its process with it, and the others share what is left.
ThreeLeft ==
  \/ \E r \in Subscriptions : Start([AllNew EXCEPT ![r] = "done"], NoProcs)
  \/ \E r \in Ordinary :
       Start([AllNew EXCEPT ![r] = "done"], [NoProcs EXCEPT ![1] = "exited"])

SafetySpec == ThreeLeft /\ [][Next]_vars
================================================================================
