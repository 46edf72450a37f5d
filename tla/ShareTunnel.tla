------------------------------ MODULE ShareTunnel ------------------------------
(***************************************************************************)
(* The tunnel supervisor of a share: ShareRuntime in                         *)
(* snulbug/share_runtime.py.  The console starts and stops the tunnel, the   *)
(* gateway starts it on startup and shuts it down, the monitor thread and    *)
(* every status request reconcile.  Each of these holds the runtime's lock   *)
(* throughout, so it is one step; the tunnel process dies between any two    *)
(* steps, noticed or not.                                                    *)
(*                                                                          *)
(* Time is a countdown to the retry and the age of the process, in ticks:    *)
(* nothing else depends on the clock, and the state space stays finite.      *)
(***************************************************************************)
EXTENDS Integers

CONSTANTS RestartInitial,   \* restart_initial_seconds
          RestartMax,       \* restart_max_seconds
          MaxAttempts,      \* restart_max_attempts
          ResetAfter,       \* restart_reset_seconds
          MaxStarts         \* bound: starts of a tunnel that is not up

ASSUME ShareTunnelAssumption ==   \* ShareRuntimeConfig.load
  /\ RestartInitial \in Nat \ {0}
  /\ RestartMax \in Nat /\ RestartMax >= RestartInitial
  /\ MaxAttempts \in Nat
  /\ ResetAfter \in Nat \ {0}
  /\ MaxStarts \in Nat

\* Arithmetic, stated because the provers know nothing of powers.
ASSUME PowersAssumption == \A n \in 0 .. MaxAttempts : 2^n \in Nat

VARIABLES process,   \* the handle: "none", or a process that is "up" or has gone "down"
          live,      \* tunnel processes of the machine, with a handle or not
          doomed,    \* of these, the ones sent SIGKILL and given up before they were gone
          desired,   \* _desired
          state,     \* _state
          attempts,  \* _attempts
          retry,     \* ticks to _retry_at, or NoRetry
          age,       \* ticks since _started_at, up to ResetAfter
          closed,    \* _closed
          stopped,   \* _operator_stopped
          monitor,   \* the monitor thread runs
          starts,    \* bound: how often a start found no tunnel up
          wish       \* history: the last call that decided: "none", "start" or "stop"

vars == <<process, live, doomed, desired, state, attempts, retry, age, closed, stopped,
          monitor, starts, wish>>

NoRetry == -1

TypeOK ==
  /\ process \in {"none", "up", "down"}
  /\ live \in Nat /\ doomed \in Nat
  /\ desired \in {"running", "stopped"}
  /\ state \in {"stopped", "running", "backoff", "failed", "draining"}
  /\ attempts \in 0 .. MaxAttempts
  /\ retry \in NoRetry .. RestartMax
  /\ age \in 0 .. ResetAfter
  /\ starts \in 0 .. MaxStarts
  /\ {closed, stopped, monitor} \subseteq BOOLEAN
  /\ wish \in {"none", "start", "stop"}

Init ==
  /\ process = "none" /\ live = 0 /\ doomed = 0
  /\ desired = "stopped" /\ state = "stopped"
  /\ attempts = 0 /\ retry = NoRetry /\ age = 0
  /\ closed = FALSE /\ stopped = FALSE /\ monitor = FALSE
  /\ starts = 0
  /\ wish = "none"
-------------------------------------------------------------------------------
\* The delay starts at RestartInitial and doubles up to RestartMax.
Delay(n) == LET d == RestartInitial * 2^n IN IF d < RestartMax THEN d ELSE RestartMax

\* Mutant: the last attempt is counted one too late.
RecordExit_OneMore(tries, wanted) ==
  /\ attempts' = tries
  /\ process' = "none"
  /\ \/ wanted # "running" /\ state' = "stopped" /\ retry' = NoRetry
     \/ wanted = "running" /\ tries <= MaxAttempts
          /\ state' = "backoff" /\ retry' = Delay(tries)
     \/ wanted = "running" /\ tries > MaxAttempts
          /\ state' = "failed" /\ retry' = NoRetry

\* Mutant: an exit that nobody wants undone leaves the state as it is.
RecordExit_Draining(tries, wanted) ==
  /\ attempts' = tries
  /\ process' = "none"
  /\ \/ wanted # "running" /\ UNCHANGED state /\ retry' = NoRetry
     \/ wanted = "running" /\ tries < MaxAttempts
          /\ state' = "backoff" /\ retry' = Delay(tries)
     \/ wanted = "running" /\ tries >= MaxAttempts
          /\ state' = "failed" /\ retry' = NoRetry

\* _record_exit_locked, with the handle gone: `tries` attempts were made.
RecordExit(tries, wanted) ==
  /\ attempts' = tries
  /\ process' = "none"
  /\ \/ wanted # "running" /\ state' = "stopped" /\ retry' = NoRetry
     \/ wanted = "running" /\ tries < MaxAttempts
          /\ state' = "backoff" /\ retry' = Delay(tries)
     \/ wanted = "running" /\ tries >= MaxAttempts
          /\ state' = "failed" /\ retry' = NoRetry

\* _spawn_locked, called with the tunnel wanted and no handle.
Spawn(tries) ==
  \/ \* the plan cannot be read or used
     /\ state' = "failed" /\ retry' = NoRetry
     /\ attempts' = tries /\ process' = "none"
     /\ UNCHANGED <<live, age>>
  \/ \* the process cannot be started, or is gone within the 0.15 s of the first look
     /\ RecordExit(tries, "running")
     /\ UNCHANGED <<live, age>>
  \/ /\ process' = "up" /\ live' = live + 1
     /\ state' = "running" /\ retry' = NoRetry
     /\ attempts' = tries /\ age' = 0

\* A process that has run long enough has the whole retry budget again.
Tries == IF age >= ResetAfter THEN 0 ELSE attempts

RetryNow ==
  /\ desired = "running" /\ retry = 0 /\ ~closed
  /\ Spawn(attempts + 1)

\* Mutant: an exit is recorded, and the retry only when somebody asks again
\* with the tunnel still in hand.
Reconcile_NoRetry ==
  \/ /\ process = "up"
     /\ attempts' = Tries
     /\ UNCHANGED <<process, live, state, retry, age>>
  \/ process = "down" /\ RecordExit(Tries, desired) /\ UNCHANGED <<live, age>>
  \/ process = "none" /\ UNCHANGED <<process, live, state, attempts, retry, age>>

\* _reconcile_locked.  An exit that is recorded puts the retry in the future.
Reconcile ==
  \/ /\ process = "up"
     /\ attempts' = Tries
     /\ UNCHANGED <<process, live, state, retry, age>>
  \/ process = "down" /\ RecordExit(Tries, desired) /\ UNCHANGED <<live, age>>
  \/ process = "none" /\ RetryNow
  \/ /\ process = "none"
     /\ ~(desired = "running" /\ retry = 0 /\ ~closed)
     /\ UNCHANGED <<process, live, state, attempts, retry, age>>
-------------------------------------------------------------------------------
(* The calls.                                                               *)

\* Mutant: start does not look whether it has a process.
Launch_Always ==
  /\ ~closed
  /\ starts < MaxStarts /\ starts' = starts + 1
  /\ desired' = "running" /\ stopped' = FALSE /\ monitor' = TRUE
  /\ Spawn(0)
  /\ UNCHANGED <<doomed, closed>>

\* start(): reconciles first.  A handle that is, or comes, in hand is left alone;
\* otherwise the tunnel is wanted, the budget is new and a process is started.
Launch ==
  /\ ~closed
  /\ \/ /\ process = "up"
        /\ Reconcile
        /\ UNCHANGED <<desired, stopped, monitor, starts>>
     \/ /\ process = "none"
        /\ RetryNow /\ process' = "up"
        /\ UNCHANGED <<desired, stopped, monitor, starts>>
     \/ \* nothing in hand, the process is found gone, or its retry fails as well
        /\ process # "up"
        /\ starts < MaxStarts /\ starts' = starts + 1
        /\ desired' = "running" /\ stopped' = FALSE /\ monitor' = TRUE
        /\ Spawn(0)
  /\ UNCHANGED <<doomed, closed>>

\* The start button of the console.
Start == Launch /\ wish' = IF stopped' THEN wish ELSE "start"

\* Mutant: a stop by the operator does not stand against the next startup.
StartAutomatic_Always == Launch /\ UNCHANGED wish

\* start_automatic(), on the gateway's lifespan startup, if it is enabled and
\* the provider is one that snulbug manages.
StartAutomatic == ~stopped /\ Launch /\ UNCHANGED wish

Terminate ==   \* SIGTERM, then SIGKILL; the process is reaped
  /\ process' = "none"
  /\ live' = IF process = "up" THEN live - 1 ELSE live
  /\ UNCHANGED doomed

\* The wait after SIGKILL times out and raises: the handle is given up for a
\* process that still lives, and the caller does not come to set the state.
TerminateRaises ==
  /\ process = "up"
  /\ process' = "none"
  /\ doomed' = doomed + 1
  /\ UNCHANGED <<live, state>>

Stop ==
  /\ stopped' = TRUE /\ desired' = "stopped" /\ retry' = NoRetry
  /\ (Terminate /\ state' = "stopped") \/ TerminateRaises
  /\ wish' = "stop"
  /\ UNCHANGED <<attempts, age, closed, monitor, starts>>

\* The server stops accepting and drains; the tunnel stays up until close().
BeginShutdown ==
  /\ stopped' = TRUE /\ desired' = "stopped" /\ retry' = NoRetry
  /\ state' = IF process # "none" THEN "draining" ELSE "stopped"
  /\ wish' = "stop"
  /\ UNCHANGED <<process, live, doomed, attempts, age, closed, monitor, starts>>

Close ==
  /\ ~closed
  /\ closed' = TRUE /\ desired' = "stopped" /\ retry' = NoRetry
  /\ (Terminate /\ state' = "stopped") \/ TerminateRaises
  /\ UNCHANGED <<attempts, age, stopped, monitor, starts, wish>>

\* status()
Status == Reconcile /\ UNCHANGED <<doomed, desired, closed, stopped, monitor, starts, wish>>

\* A round of the monitor thread, every quarter of a second or when it is woken.
MonitorRound ==
  /\ monitor /\ ~closed
  /\ Reconcile
  /\ UNCHANGED <<doomed, desired, closed, stopped, monitor, starts, wish>>

MonitorEnds ==
  /\ monitor /\ closed
  /\ monitor' = FALSE
  /\ UNCHANGED <<process, live, doomed, desired, state, attempts, retry, age, closed,
                 stopped, starts, wish>>

\* The tunnel process exits on its own.
Die ==
  /\ process = "up"
  /\ process' = "down" /\ live' = live - 1
  /\ UNCHANGED <<doomed, desired, state, attempts, retry, age, closed, stopped, monitor,
                 starts, wish>>

\* A process that was given up after SIGKILL goes at last (it hung in the kernel).
KilledGone ==
  /\ doomed > 0
  /\ doomed' = doomed - 1 /\ live' = live - 1
  /\ UNCHANGED <<process, desired, state, attempts, retry, age, closed, stopped,
                 monitor, starts, wish>>

Tick ==
  /\ retry' = IF retry > 0 THEN retry - 1 ELSE retry
  /\ age' = IF age < ResetAfter THEN age + 1 ELSE age
  /\ UNCHANGED <<process, live, doomed, desired, state, attempts, closed, stopped, monitor,
                 starts, wish>>

Next ==
  \/ Start \/ StartAutomatic \/ Stop \/ BeginShutdown \/ Close \/ Status
  \/ MonitorRound \/ MonitorEnds \/ Die \/ KilledGone \/ Tick

\* The monitor is a thread that nothing blocks for good, and time passes.
Fairness == WF_vars(MonitorRound) /\ WF_vars(MonitorEnds) /\ WF_vars(Tick)

Spec == Init /\ [][Next]_vars /\ Fairness
-------------------------------------------------------------------------------
(* Properties.                                                              *)

(* The one tunnel process the runtime has in hand is the only one it left to   *)
(* run: every other that still lives was sent SIGKILL by a stop or close()    *)
(* that could not wait for its end, and a closed runtime has none in hand.   *)
OneTunnel ==
  /\ live = doomed + (IF process = "up" THEN 1 ELSE 0)
  /\ closed => live = doomed

(* What the state tells agrees with the handle, the timer and the monitor: in *)
(* particular a tunnel, or a retry, is never without a thread to look after   *)
(* it before the runtime is closed.  Only a stop or close() that raised can   *)
(* leave the state "running", or "draining", without a handle, and then no   *)
(* tunnel is wanted.                                                         *)
StateHonest ==
  /\ state = "running" => (process = "none" <=> desired = "stopped")
  /\ state = "draining" => desired = "stopped"
  /\ state = "backoff" <=> retry # NoRetry
  /\ state = "backoff" => process = "none" /\ desired = "running" /\ ~closed
  /\ state \in {"stopped", "failed"} => process = "none"
  /\ (process # "none" \/ retry # NoRetry) /\ ~closed => monitor

(* "Stop tunnel keeps it stopped until an explicit start; supervision does    *)
(* not undo an operator stop" (docs/mcp-share.md): neither the monitor, nor a *)
(* status request, nor the gateway's startup brings up a tunnel that was      *)
(* stopped by the operator or by the shutdown.                               *)
StopStands == [][wish = "stop" /\ wish' = "stop" => live' <= live]_vars

(* A wanted tunnel that went down is up again after a while, unless the retry *)
(* budget is used up or somebody stops it.  (An operator who starts it again  *)
(* in every back-off could keep it from that for good: MaxStarts.)           *)
Recovers ==
  (process = "down" /\ desired = "running")
    ~> (process = "up" \/ state = "failed" \/ desired = "stopped")

(* A tunnel that dies while the gateway drains is not left in the state       *)
(* "draining", and a closed runtime has no monitor in the end.                *)
DrainEnds ==
  /\ (state = "draining" /\ process = "down") ~> (state # "draining")
  /\ closed ~> ~monitor
================================================================================
