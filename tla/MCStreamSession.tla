---------------------------- MODULE MCStreamSession ----------------------------
(* Instances of StreamSession for TLC.                                       *)
EXTENDS StreamSession

CONSTANTS a, b, sub, web, tools, prompts

\* Two ordinary calls, or a call and a subscription, on one child
\* process; or a session with an HTTP upstream, that shares nothing with the others.
SessionInit ==
  \E xs \in {{a, b}, {a, sub}, {web}} : StartSessions(xs, [x \in Listens |-> {tools}])

SessionSpec == SessionInit /\ [][NextStep]_allVars /\ StreamFairness
================================================================================
