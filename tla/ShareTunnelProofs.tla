--------------------------- MODULE ShareTunnelProofs ---------------------------
(***************************************************************************)
(* One tunnel at a time, and a stop that stands, for every retry budget,     *)
(* delay and number of starts.                                              *)
(***************************************************************************)
EXTENDS ShareTunnel, TLAPS

\* What the processes and the wishes rely on: the count is that of the handle and of
\* the processes given up, a closed runtime has given its handle up, and while the last wish is a stop the
\* tunnel is not wanted and no startup is let through.
IInv ==
  /\ OneTunnel
  /\ doomed \in Nat
  /\ closed \in BOOLEAN
  /\ process \in {"none", "up", "down"}
  /\ closed => process = "none"
  /\ wish = "stop" => stopped = TRUE /\ desired = "stopped"

\* An attempt to spawn leaves at most the one process it has started.
LEMMA SpawnOne ==
  ASSUME doomed \in Nat, live = doomed, ~closed, UNCHANGED <<doomed, closed>>,
         NEW n, Spawn(n)
  PROVE  /\ OneTunnel' /\ doomed' \in Nat
         /\ process' \in {"none", "up", "down"}
         /\ ~closed' /\ closed' = closed
BY DEF Spawn, RecordExit, OneTunnel

\* So does a look at the tunnel, and it starts one only if it is wanted.
LEMMA ReconcileOne ==
  ASSUME IInv, UNCHANGED <<doomed, closed>>, Reconcile
  PROVE  /\ OneTunnel' /\ doomed' \in Nat
         /\ process' \in {"none", "up", "down"}
         /\ closed' => process' = "none"
         /\ desired = "stopped" => live' <= live
<1>1. CASE process = "up"
  BY <1>1 DEF Reconcile, IInv, OneTunnel, RetryNow
<1>2. CASE process = "down"
  BY <1>2 DEF Reconcile, IInv, OneTunnel, RecordExit, RetryNow
<1>3. CASE process = "none" /\ RetryNow
  <2>1. doomed \in Nat /\ live = doomed /\ ~closed /\ Spawn(attempts + 1) /\ desired = "running"
    BY <1>3 DEF RetryNow, IInv, OneTunnel
  <2> QED
    BY <2>1, SpawnOne
<1>4. CASE process = "none" /\ ~RetryNow
  BY <1>4 DEF Reconcile, IInv, OneTunnel, RetryNow
<1> QED
  BY <1>1, <1>2, <1>3, <1>4 DEF IInv

\* A start keeps the runtime open, and a tunnel that is in hand the only one.
LEMMA LaunchOne ==
  ASSUME IInv, Launch
  PROVE  /\ OneTunnel' /\ doomed' \in Nat
         /\ process' \in {"none", "up", "down"}
         /\ ~closed' /\ closed' = closed
         /\ \/ stopped' = FALSE
            \/ /\ stopped' = stopped /\ desired' = desired
               /\ desired = "stopped" => live' <= live
<1>1. ~closed /\ closed' = closed /\ doomed' = doomed
  BY DEF Launch
<1>2. CASE process = "up" /\ Reconcile /\ UNCHANGED <<desired, stopped, monitor, starts>>
  BY <1>1, <1>2, ReconcileOne
<1>3. CASE process = "none" /\ RetryNow /\ UNCHANGED <<desired, stopped, monitor, starts>>
  <2>1. doomed \in Nat /\ live = doomed /\ Spawn(attempts + 1) /\ desired = "running"
    BY <1>3 DEF RetryNow, IInv, OneTunnel
  <2> QED
    BY <1>1, <1>3, <2>1, SpawnOne
<1>4. CASE process # "up" /\ stopped' = FALSE /\ Spawn(0)
  <2>1. doomed \in Nat /\ live = doomed
    BY <1>4 DEF IInv, OneTunnel
  <2> QED
    BY <1>1, <1>4, <2>1, SpawnOne
<1> QED
  BY <1>1, <1>2, <1>3, <1>4 DEF Launch

LEMMA InitInv == Init => IInv
<1> SUFFICES ASSUME Init
             PROVE  IInv
  OBVIOUS
<1>1. process # "up" /\ live = 0 /\ doomed = 0
  BY DEF Init
<1>2. OneTunnel
  BY <1>1 DEF OneTunnel
<1>3. doomed \in Nat
  BY <1>1
<1>4. closed \in BOOLEAN /\ process = "none" /\ wish = "none"
  BY DEF Init
<1>5. QED
  BY <1>2, <1>3, <1>4 DEF IInv

LEMMA NextInv == IInv /\ [Next]_vars => IInv'
<1> SUFFICES ASSUME IInv, [Next]_vars PROVE IInv'
  OBVIOUS
<1>1. CASE Start
  BY <1>1, LaunchOne DEF Start, IInv
<1>2. CASE StartAutomatic
  BY <1>2, LaunchOne DEF StartAutomatic, IInv
<1>3. CASE Stop
  BY <1>3 DEF Stop, Terminate, TerminateRaises, IInv, OneTunnel
<1>4. CASE BeginShutdown
  BY <1>4 DEF BeginShutdown, IInv, OneTunnel
<1>5. CASE Close
  BY <1>5 DEF Close, Terminate, TerminateRaises, IInv, OneTunnel
<1>6. CASE Status
  BY <1>6, ReconcileOne DEF Status, IInv
<1>7. CASE MonitorRound
  BY <1>7, ReconcileOne DEF MonitorRound, IInv
<1>8. CASE MonitorEnds \/ Tick
  BY <1>8 DEF MonitorEnds, Tick, IInv, OneTunnel
<1>9. CASE Die
  BY <1>9 DEF Die, IInv, OneTunnel
<1>11. CASE KilledGone
  BY <1>11 DEF KilledGone, IInv, OneTunnel
<1>10. CASE UNCHANGED vars
  BY <1>10 DEF vars, IInv, OneTunnel
<1> QED
  BY <1>1, <1>2, <1>3, <1>4, <1>5, <1>6, <1>7, <1>8, <1>9, <1>10, <1>11 DEF Next

\* The invariant holds in every behaviour of the supervisor.
THEOREM Invariance == Spec => []IInv
BY InitInv, NextInv, PTL DEF Spec

\* Of the tunnel processes that live, all but those that were sent SIGKILL and given
\* up are the one that ShareRuntime has in hand, which close() gives up, whatever
\* dies, retries, hangs or is started in between.
THEOREM OneTunnelHolds == Spec => []OneTunnel
<1>1. IInv => OneTunnel
  BY DEF IInv
<1> QED
  BY <1>1, Invariance, PTL

\* After a stop by the operator or the shutdown only the start button brings up a
\* tunnel: no retry, no status request and no gateway startup does.
THEOREM StopStandsHolds == Spec => StopStands
<1>1. ASSUME IInv, [Next]_vars
      PROVE  [wish = "stop" /\ wish' = "stop" => live' <= live]_vars
  <2> SUFFICES ASSUME wish = "stop", wish' = "stop" PROVE live' <= live
    OBVIOUS
  <2>0. stopped = TRUE /\ desired = "stopped" /\ live \in Int
    <3>1. doomed \in Nat /\ (live = doomed + 1 \/ live = doomed + 0)
      BY <1>1 DEF IInv, OneTunnel
    <3> QED
      BY <1>1, <3>1 DEF IInv
  <2>1. CASE Start
    <3>1. stopped' # FALSE
      BY <2>1 DEF Start
    <3> QED
      BY <1>1, <2>0, <2>1, <3>1, LaunchOne DEF Start
  <2>2. CASE StartAutomatic
    BY <2>0, <2>2 DEF StartAutomatic
  <2>3. CASE Stop \/ Close
    <3>1. live' = live \/ live' = live - 1
      BY <2>3 DEF Stop, Close, Terminate, TerminateRaises
    <3> QED
      BY <2>0, <3>1
  <2>4. CASE Status
    BY <1>1, <2>0, <2>4, ReconcileOne DEF Status
  <2>5. CASE MonitorRound
    BY <1>1, <2>0, <2>5, ReconcileOne DEF MonitorRound
  <2>6. CASE BeginShutdown \/ MonitorEnds \/ Tick \/ UNCHANGED vars
    <3>1. live' = live
      BY <2>6 DEF BeginShutdown, MonitorEnds, Tick, vars
    <3> QED
      BY <2>0, <3>1
  <2>7. CASE Die \/ KilledGone
    <3>1. live' = live - 1
      BY <2>7 DEF Die, KilledGone
    <3> QED
      BY <2>0, <3>1
  <2> QED
    BY <1>1, <2>1, <2>2, <2>3, <2>4, <2>5, <2>6, <2>7 DEF Next
<1> QED
  BY <1>1, Invariance, PTL DEF Spec, StopStands
-------------------------------------------------------------------------------
(* The state that is told.  Only a retry that the budget allows is awaited.       *)

HonestInv ==
  /\ IInv /\ TypeOK /\ StateHonest
  /\ retry # NoRetry => attempts < MaxAttempts

LEMMA DelayInTime ==
  ASSUME NEW n \in 0 .. MaxAttempts
  PROVE  Delay(n) \in 0 .. RestartMax
<1> DEFINE p == 2^n
<1>1. p \in Nat /\ RestartInitial \in Nat /\ RestartMax \in Nat
  BY PowersAssumption, ShareTunnelAssumption DEF ShareTunnelAssumption
<1> HIDE DEF p
<1>2. RestartInitial * p \in Nat
  BY <1>1
<1>3. QED
  BY <1>1, <1>2 DEF Delay, p

\* What an exit leaves: no handle, and a retry if one is wanted and allowed.
LEMMA ExitHonest ==
  ASSUME NEW tries \in 0 .. MaxAttempts, NEW wanted \in {"running", "stopped"},
         RecordExit(tries, wanted)
  PROVE  /\ process' = "none" /\ attempts' = tries /\ state' \in {"stopped", "backoff", "failed"}
         /\ retry' \in NoRetry .. RestartMax
         /\ state' = "backoff" => wanted = "running" /\ attempts' < MaxAttempts /\ retry' # NoRetry
         /\ state' # "backoff" => retry' = NoRetry
<1>1. MaxAttempts \in Nat /\ RestartMax \in Nat
  BY ShareTunnelAssumption DEF ShareTunnelAssumption
<1>2. Delay(tries) \in 0 .. RestartMax
  BY DelayInTime
<1>3. QED
  BY <1>1, <1>2 DEF RecordExit, NoRetry

\* And an attempt to spawn.
LEMMA SpawnHonest ==
  ASSUME NEW tries \in 0 .. MaxAttempts, Spawn(tries), age \in 0 .. ResetAfter
  PROVE  /\ process' \in {"none", "up"} /\ attempts' \in 0 .. MaxAttempts
         /\ age' \in 0 .. ResetAfter /\ retry' \in NoRetry .. RestartMax
         /\ process' = "up" => state' = "running"
         /\ state' \in {"running", "stopped", "backoff", "failed"}
         /\ state' = "running" => process' = "up"
         /\ state' = "backoff" <=> retry' # NoRetry
         /\ retry' # NoRetry => attempts' < MaxAttempts
<1>1. /\ MaxAttempts \in Nat /\ ResetAfter \in Nat /\ RestartMax \in Nat
      /\ NoRetry \in NoRetry .. RestartMax
  BY ShareTunnelAssumption DEF ShareTunnelAssumption, NoRetry
<1>2. CASE RecordExit(tries, "running") /\ UNCHANGED <<live, age>>
  BY <1>2, ExitHonest
<1>3. CASE state' = "failed" /\ retry' = NoRetry /\ attempts' = tries /\ process' = "none" /\ age' = age
  BY <1>1, <1>3
<1>4. CASE process' = "up" /\ state' = "running" /\ retry' = NoRetry /\ attempts' = tries /\ age' = 0
  BY <1>1, <1>4
<1>5. QED
  BY <1>2, <1>3, <1>4 DEF Spawn

\* A look at the tunnel, where the monitor runs if it has to.
LEMMA ReconcileHonest ==
  ASSUME HonestInv, Reconcile, UNCHANGED <<doomed, desired, closed, monitor>>
  PROVE  /\ StateHonest' /\ (retry' # NoRetry => attempts' < MaxAttempts)
         /\ process' \in {"none", "up", "down"} /\ attempts' \in 0 .. MaxAttempts
         /\ age' \in 0 .. ResetAfter /\ retry' \in NoRetry .. RestartMax
         /\ state' \in {"stopped", "running", "backoff", "failed", "draining"}
<1> USE DEF HonestInv, TypeOK, StateHonest
<1>1. MaxAttempts \in Nat /\ attempts \in 0 .. MaxAttempts /\ Tries \in 0 .. MaxAttempts
  BY ShareTunnelAssumption DEF ShareTunnelAssumption, Tries
<1>2. CASE process = "up" /\ attempts' = Tries /\ UNCHANGED <<process, live, state, retry, age>>
  BY <1>1, <1>2
<1>3. CASE process = "down" /\ RecordExit(Tries, desired) /\ UNCHANGED <<live, age>>
  <2>1. /\ process' = "none" /\ attempts' = Tries /\ state' \in {"stopped", "backoff", "failed"}
        /\ retry' \in NoRetry .. RestartMax
        /\ state' = "backoff" => desired = "running" /\ attempts' < MaxAttempts /\ retry' # NoRetry
        /\ state' # "backoff" => retry' = NoRetry
    BY <1>1, <1>3, ExitHonest
  <2>2. ~closed
    BY <1>3 DEF IInv
  <2>3. QED
    BY <1>1, <1>3, <2>1, <2>2
<1>4. CASE process = "none" /\ RetryNow
  <2>1. /\ desired = "running" /\ retry = 0 /\ ~closed /\ Spawn(attempts + 1) /\ monitor
        /\ attempts + 1 \in 0 .. MaxAttempts
    BY <1>1, <1>4 DEF RetryNow, NoRetry
  <2>2. QED
    BY <2>1, SpawnHonest
<1>5. CASE process = "none" /\ UNCHANGED <<process, live, state, attempts, retry, age>>
  BY <1>5
<1>6. QED
  BY <1>2, <1>3, <1>4, <1>5 DEF Reconcile

LEMMA LaunchHonest ==
  ASSUME HonestInv, Launch
  PROVE  /\ StateHonest' /\ (retry' # NoRetry => attempts' < MaxAttempts)
         /\ process' \in {"none", "up", "down"} /\ attempts' \in 0 .. MaxAttempts
         /\ age' \in 0 .. ResetAfter /\ retry' \in NoRetry .. RestartMax
         /\ state' \in {"stopped", "running", "backoff", "failed", "draining"}
         /\ desired' \in {"running", "stopped"} /\ starts' \in 0 .. MaxStarts
         /\ {closed', stopped', monitor'} \subseteq BOOLEAN
<1>1. CASE UNCHANGED <<desired, stopped, monitor, starts>> /\ (process = "up" /\ Reconcile)
  BY <1>1, ReconcileHonest DEF Launch, HonestInv, TypeOK
<1>2. CASE UNCHANGED <<desired, stopped, monitor, starts>> /\ process = "none" /\ RetryNow
  BY <1>2, ReconcileHonest DEF Launch, HonestInv, TypeOK, Reconcile
<1>3. CASE /\ process # "up" /\ starts < MaxStarts /\ starts' = starts + 1
           /\ desired' = "running" /\ stopped' = FALSE /\ monitor' = TRUE /\ Spawn(0)
  <2>1. 0 \in 0 .. MaxAttempts /\ starts' \in 0 .. MaxStarts
    BY <1>3, ShareTunnelAssumption DEF ShareTunnelAssumption, HonestInv, TypeOK
  <2>2. ~closed /\ closed' = closed
    BY DEF Launch
  <2>3. QED
    BY <1>3, <2>1, <2>2, SpawnHonest DEF HonestInv, TypeOK, StateHonest
<1>4. QED
  BY <1>1, <1>2, <1>3 DEF Launch

LEMMA HonestStep == HonestInv /\ [Next]_vars => HonestInv'
<1> SUFFICES ASSUME HonestInv, [Next]_vars
             PROVE  HonestInv'
  OBVIOUS
<1>0. /\ MaxAttempts \in Nat /\ RestartMax \in Nat /\ ResetAfter \in Nat /\ MaxStarts \in Nat
      /\ IInv' /\ NoRetry \in NoRetry .. RestartMax
  BY NextInv, ShareTunnelAssumption DEF ShareTunnelAssumption, NoRetry, HonestInv
<1>l. live' \in Nat /\ doomed' \in Nat
  <2>1. doomed' \in Nat /\ (live' = doomed' + 1 \/ live' = doomed' + 0)
    BY <1>0 DEF IInv, OneTunnel
  <2>2. QED
    BY <2>1
<1> USE DEF HonestInv, TypeOK
<1>1. CASE Start \/ StartAutomatic
  <2>1. wish' \in {"none", "start", "stop"}
    BY <1>1 DEF Start, StartAutomatic
  <2>2. QED
    BY <1>0, <1>l, <1>1, <2>1, LaunchHonest DEF Start, StartAutomatic
<1>2. CASE Stop \/ Close
  BY <1>0, <1>l, <1>2 DEF Stop, Close, Terminate, TerminateRaises, StateHonest
<1>3. CASE BeginShutdown
  BY <1>0, <1>l, <1>3 DEF BeginShutdown, StateHonest
<1>4. CASE Status \/ MonitorRound
  BY <1>0, <1>l, <1>4, ReconcileHonest DEF Status, MonitorRound
<1>5. CASE MonitorEnds
  BY <1>0, <1>l, <1>5 DEF MonitorEnds, StateHonest
<1>6. CASE Die
  BY <1>0, <1>l, <1>6 DEF Die, StateHonest
<1>10. CASE KilledGone
  BY <1>0, <1>l, <1>10 DEF KilledGone, StateHonest
<1>7. CASE Tick
  BY <1>0, <1>l, <1>7 DEF Tick, StateHonest, NoRetry
<1>8. CASE UNCHANGED vars
  BY <1>0, <1>l, <1>8 DEF vars, StateHonest
<1>9. QED
  BY <1>1, <1>2, <1>3, <1>4, <1>5, <1>6, <1>7, <1>8, <1>10 DEF Next

LEMMA HonestInit == Init => HonestInv
<1> SUFFICES ASSUME Init
             PROVE  HonestInv
  OBVIOUS
<1>1. /\ MaxAttempts \in Nat /\ ResetAfter \in Nat /\ MaxStarts \in Nat /\ RestartMax \in Nat
      /\ NoRetry \in NoRetry .. RestartMax
  BY ShareTunnelAssumption DEF ShareTunnelAssumption, NoRetry
<1>2. TypeOK
  <2>1. /\ attempts \in 0 .. MaxAttempts /\ age \in 0 .. ResetAfter /\ starts \in 0 .. MaxStarts
        /\ retry \in NoRetry .. RestartMax /\ live \in Nat /\ doomed \in Nat
    BY <1>1 DEF Init
  <2>2. {closed, stopped, monitor} \subseteq BOOLEAN
    BY DEF Init
  <2>3. QED
    BY <2>1, <2>2 DEF Init, TypeOK
<1>3. StateHonest
  BY DEF Init, StateHonest
<1>4. QED
  BY <1>2, <1>3, InitInv DEF HonestInv, Init

LEMMA HonestInvariance == Spec => []HonestInv
BY HonestInit, HonestStep, PTL DEF Spec

(* What the supervisor tells of itself agrees with its handle, its timer and its  *)
(* monitor: no tunnel and no retry is without the thread that looks after it     *)
(* (start, _monitor), and only a stop that raised leaves a state that claims   *)
(* a tunnel without one (_terminate_locked).                                *)
THEOREM StateHonestHolds == Spec => []StateHonest
<1>1. HonestInv => StateHonest
  BY DEF HonestInv
<1>2. QED
  BY <1>1, HonestInvariance, PTL

(* The variables keep their types: the attempts stay within the budget and the    *)
(* retry within the longest delay (_record_exit_locked), for all their values.   *)
THEOREM TypeCorrect == Spec => []TypeOK
<1>1. HonestInv => TypeOK
  BY DEF HonestInv
<1>2. QED
  BY <1>1, HonestInvariance, PTL
================================================================================
