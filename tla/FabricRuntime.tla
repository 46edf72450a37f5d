----------------------------- MODULE FabricRuntime -----------------------------
(***************************************************************************)
(* `snulbug mcp fabric run` (snulbug/controller.py: run_fabric_data_plane    *)
(* and FabricControllerStatusServer) on the shared runtime store.  Each      *)
(* process has a main thread, which acquires the lease, reconciles, serves   *)
(* and shuts down, and a controller thread, which publishes the status on    *)
(* every reconcile.  Publishing renews the lease and then saves the status   *)
(* under the status server's lock; the release at the end takes no lock.     *)
(*                                                                          *)
(* Acquiring and releasing are single steps here: FabricLease shows that the  *)
(* loops of the real store implement them.  A renewal is a get with the test  *)
(* of the lease and then a swap, save_status a check of the lease and then a  *)
(* put, as in the SQLite and Redis stores, the ones that several processes    *)
(* share; each call of the store may raise instead, whether or not it took    *)
(* effect.                                                                   *)
(***************************************************************************)
EXTENDS RuntimeLease

CONSTANTS Procs,          \* processes of `fabric run`
          OwnerOf,        \* the owner id of each
          HeartbeatTTL,   \* runtime_heartbeat_ttl
          Healths,        \* what a reconcile may find: `ok` of its result
          MaxFailures,    \* bound on the rounds and the calls of the store that raise
                          \* by themselves (model only)
          MaxGeneration,  \* bound on the generation counter (model only)
          MaxTime         \* bound on the clock (model only)

ASSUME FabricRuntimeAssumption ==
  /\ OwnerOf \in [Procs -> OwnerIds]
  /\ HeartbeatTTL \in Nat \ {0}
  /\ Healths \subseteq BOOLEAN /\ MaxFailures \in Nat
  /\ MaxGeneration \in Nat /\ MaxTime \in Nat

Threads == {"main", "ctl"}

\* Where a thread can be inside a publish.
Steps == {"none", "read", "lock", "renew", "swap", "check", "put"}

VARIABLES now, lease, generation,
          status,      \* the envelope under the status key
          main,        \* where each main thread is
          ctl,         \* each controller thread: "off", "on" or "failing"
          mutex,       \* the status server's lock
          step,        \* where each thread is inside a publish
          plane,       \* the data-plane status the main thread publishes
          got,         \* the lease a publish has read, then the one it renewed
          since,       \* when it read it
          snap,        \* the status a thread is about to put
          myLease,     \* status_server.runtime_lease
          latest,      \* status_server._latest
          halted,      \* history: the processes whose _latest was set to stopped
          freed,       \* history: the tokens whose lease was released
          failures     \* the failures so far (model only)

store == <<lease, generation, status>>
threads == <<main, ctl, mutex, step, plane, got, since, snap>>
server == <<myLease, latest, halted>>
vars == <<now, store, threads, server, freed, failures>>

Planes == {"none", "running", "stopped", "blocked"}

\* What the properties read of a status: data_plane.status and heartbeat_at,
\* ok, and the runtime_owner summary with its `lost` mark.
Statuses == [plane : Planes, beat : Nat, ok : BOOLEAN, owner : Leases, lost : BOOLEAN]

EmptyStatus ==
  [plane |-> "none", beat |-> 0, ok |-> FALSE, owner |-> NoLease, lost |-> FALSE]

NoBody == "nobody"   \* nothing under the status key

TypeOK ==
  /\ now \in Nat /\ lease \in Leases /\ generation \in Nat
  /\ status \in [by : Procs \cup {NoBody}, what : Statuses]
  /\ main \in [Procs -> {"off", "initial", "serving", "ending",
                         "release", "load", "save", "put"}]
  /\ ctl \in [Procs -> {"off", "on", "failing"}]
  /\ mutex \in [Procs -> {"free"} \cup Threads]
  /\ step \in [Procs -> [Threads -> Steps]]
  /\ plane \in [Procs -> Planes \cup {"keep"}]
  /\ got \in [Procs -> [Threads -> Leases]]
  /\ since \in [Procs -> [Threads -> Nat]]
  /\ snap \in [Procs -> [Threads -> Statuses]]
  /\ myLease \in [Procs -> Leases]
  /\ latest \in [Procs -> Statuses]
  /\ halted \subseteq Procs
  /\ freed \subseteq 1 .. generation
  /\ failures \in 0 .. MaxFailures

Init ==
  /\ now = 0 /\ lease = NoLease /\ generation = 0
  /\ status = [by |-> NoBody, what |-> EmptyStatus]
  /\ main = [p \in Procs |-> "off"]
  /\ ctl = [p \in Procs |-> "off"]
  /\ mutex = [p \in Procs |-> "free"]
  /\ step = [p \in Procs |-> [t \in Threads |-> "none"]]
  /\ plane = [p \in Procs |-> "keep"]
  /\ got = [p \in Procs |-> [t \in Threads |-> NoLease]]
  /\ since = [p \in Procs |-> [t \in Threads |-> 0]]
  /\ snap = [p \in Procs |-> [t \in Threads |-> EmptyStatus]]
  /\ myLease = [p \in Procs |-> NoLease]
  /\ latest = [p \in Procs |-> EmptyStatus]
  /\ halted = {} /\ freed = {} /\ failures = 0

Tick ==
  /\ now < MaxTime
  /\ now' = now + 1
  /\ UNCHANGED <<store, threads, server, freed, failures>>
-------------------------------------------------------------------------------
(* The share gate, as load_status computes it for a reader of the store.     *)

HeartbeatStale(s) == now - s.beat > HeartbeatTTL

\* Mutant: the gate looks at the heartbeat only, not at the end of the lease.
OwnerBlocks_NoExpiry(s) == s.lost \/ s.owner.released

OwnerBlocks(s) ==
  \/ s.lost
  \/ s.owner.released
  \/ s.owner # NoLease /\ s.owner.expires <= now

GateOpen(s) ==
  /\ s.plane = "running"
  /\ s.ok
  /\ ~HeartbeatStale(s)
  /\ ~OwnerBlocks(s)
-------------------------------------------------------------------------------
(* Publishing: update() and update_runtime() with _save_latest().            *)

\* Of its own lease an instance goes by the owner and the token only.
Claim(l) == [l EXCEPT !.expires = 0, !.released = FALSE]

\* What may raise at any time does so at most MaxFailures times.
Fails ==
  /\ failures < MaxFailures
  /\ failures' = failures + 1

Goto(p, t, s) == step' = [step EXCEPT ![p][t] = s]
Unlock(p) == mutex' = [mutex EXCEPT ![p] = "free"]

\* The thread leaves the publish; its local variables are gone.
LeaveTo(p, t, l) ==
  /\ Goto(p, t, l)
  /\ got' = [got EXCEPT ![p][t] = NoLease]
  /\ since' = [since EXCEPT ![p][t] = 0]
  /\ snap' = [snap EXCEPT ![p][t] = EmptyStatus]
  /\ plane' = IF t = "main" THEN [plane EXCEPT ![p] = "keep"] ELSE plane

Leave(p, t) == LeaveTo(p, t, "none")

\* It leaves it by an exception: the controller thread reports its error with one
\* more update, the main thread goes to its `finally`.
Raised(p, t) ==
  /\ Unlock(p)
  /\ \/ /\ t = "ctl" /\ ctl[p] = "on"
        /\ ctl' = [ctl EXCEPT ![p] = "failing"]
        /\ LeaveTo(p, t, "read")
        /\ UNCHANGED main
     \/ /\ t = "ctl" /\ ctl[p] = "failing"
        /\ Leave(p, t)
        /\ UNCHANGED <<ctl, main>>
     \/ /\ t = "main"
        /\ main' = [main EXCEPT ![p] = "release"]
        /\ Leave(p, t)
        /\ UNCHANGED ctl

\* _heartbeat_runtime
Beat(st) == IF st.plane = "running" THEN now ELSE st.beat

\* update(result): a fresh status with no owner, healthy or not, and the old
\* runtime with a new heartbeat while it is running.
Reconciled(p) ==
  {[latest[p] EXCEPT !.owner = NoLease, !.lost = FALSE, !.ok = h,
                     !.beat = Beat(latest[p])] : h \in Healths}

\* update({**latest, "ok": False, ...}): the copy that the failed controller
\* thread took, with its own runtime if it had one.
Failed(p) ==
  LET s == snap[p]["ctl"]
      r == IF s.plane = "none" THEN [latest[p] EXCEPT !.beat = Beat(latest[p])] ELSE s
  IN  {[s EXCEPT !.ok = FALSE, !.plane = r.plane, !.beat = r.beat]}

\* update_runtime(runtime): the old status with a new runtime.  The heartbeat of
\* a plane that does not run decides nothing.
WithRuntime(p) ==
  {[latest[p] EXCEPT !.plane = plane[p],
                     !.beat = IF plane[p] = "running" THEN now ELSE 0]}

Updated(p, t) ==
  CASE t = "main" /\ plane[p] # "keep" -> WithRuntime(p)
    [] t = "ctl" /\ ctl[p] = "failing" -> Failed(p)
    [] OTHER -> Reconciled(p)

\* The stop is told: from here on nothing of this process may say that it runs.
Halting(p, t) ==
  halted' = IF t = "main" /\ plane[p] = "stopped" THEN halted \cup {p} ELSE halted

\* Mutant: the publish does not wait for the lock.
PublishLock_NoMutex(p, t) ==
  /\ step[p][t] = "lock"
  /\ mutex' = [mutex EXCEPT ![p] = t]
  /\ \E s \in Updated(p, t) : latest' = [latest EXCEPT ![p] = s]
  /\ Goto(p, t, "renew")
  /\ snap' = [snap EXCEPT ![p][t] = EmptyStatus]
  /\ Halting(p, t)
  /\ UNCHANGED <<now, freed, failures, store, main, ctl, plane, got, since,
                 myLease>>

PublishLock(p, t) ==
  /\ step[p][t] = "lock"
  /\ mutex[p] = "free"
  /\ mutex' = [mutex EXCEPT ![p] = t]
  /\ \E s \in Updated(p, t) : latest' = [latest EXCEPT ![p] = s]
  /\ Goto(p, t, "renew")
  /\ snap' = [snap EXCEPT ![p][t] = EmptyStatus]
  /\ Halting(p, t)
  /\ UNCHANGED <<now, freed, failures, store, main, ctl, plane, got, since,
                 myLease>>

CanRenew(p) ==
  LeaseMatches(lease, OwnerOf[p], myLease[p].token) /\ LeaseIsActive(lease, now)

\* The publish has the lease as it is now, and will swap it for a renewed one.
Reading(p, t) ==
  /\ got' = [got EXCEPT ![p][t] = lease]
  /\ since' = [since EXCEPT ![p][t] = now]
  /\ Goto(p, t, "swap")
  /\ UNCHANGED <<now, freed, failures, store, main, ctl, mutex, plane, snap,
                 server>>

\* Mutant: a lease that has run out is renewed by its last holder.
PublishRenew_Ended(p, t) ==
  /\ step[p][t] = "renew"
  /\ LeaseMatches(lease, OwnerOf[p], myLease[p].token)
  /\ Reading(p, t)

\* runtime_store.renew_lease: the lease is read, and is its own and active.
PublishRenew(p, t) ==
  /\ step[p][t] = "renew"
  /\ CanRenew(p)
  /\ Reading(p, t)

\* cas(raw, lease): by now the lease may have run out.  Its new end counts from a
\* clock read after the lease was.
Extends(p, t) ==
  /\ step[p][t] = "swap" /\ lease = got[p][t]
  /\ \E n \in since[p][t] .. now : lease' = RenewedLease(lease, n)

PublishSwap(p, t) ==
  /\ Extends(p, t)
  /\ got' = [got EXCEPT ![p][t] = lease']
  /\ since' = [since EXCEPT ![p][t] = 0]
  /\ Goto(p, t, "check")
  /\ UNCHANGED <<now, freed, failures, generation, status, main, ctl, mutex,
                 plane, snap,
                 server>>

SwapFails(p, t) == step[p][t] = "swap" /\ lease # got[p][t]

\* Another changed the lease: once more.
PublishAgain(p, t) ==
  /\ SwapFails(p, t)
  /\ LeaveTo(p, t, "renew")
  /\ UNCHANGED <<now, freed, failures, store, main, ctl, mutex, server>>

\* renew_lease returns None: the lease is not its own, has run out, or this was
\* the eighth swap (they are not counted: any may be).  The instance marks its
\* lease lost and saves nothing.
PublishLost(p, t) ==
  /\ (step[p][t] = "renew" /\ ~CanRenew(p)) \/ SwapFails(p, t)
  /\ latest' = [latest EXCEPT ![p].owner = myLease[p], ![p].lost = TRUE]
  /\ Unlock(p)
  /\ Leave(p, t)
  /\ UNCHANGED <<now, freed, failures, store, main, ctl, myLease, halted>>

\* The store raises in renew_lease; a swap may have gone through.
RenewRaises(p, t) ==
  /\ Fails
  /\ step[p][t] \in {"renew", "swap"}
  /\ UNCHANGED lease \/ Extends(p, t)
  /\ Raised(p, t)
  /\ UNCHANGED <<now, freed, generation, status, server>>

\* self.runtime_lease = lease; self._latest["runtime_owner"] = ...
Noted(p, t) == [latest[p] EXCEPT !.owner = got[p][t], !.lost = FALSE]

StillMine(l) == LeaseMatches(lease, l.owner, l.token)

Saved(p, s) == status' = [by |-> p, what |-> s]

\* save_status finds that the lease still matches.
PublishCheck(p, t) ==
  /\ step[p][t] = "check"
  /\ StillMine(got[p][t])
  /\ myLease' = [myLease EXCEPT ![p] = Claim(got[p][t])]
  /\ latest' = [latest EXCEPT ![p] = Noted(p, t)]
  /\ snap' = [snap EXCEPT ![p][t] = Noted(p, t)]
  /\ Goto(p, t, "put")
  /\ UNCHANGED <<now, freed, failures, store, main, ctl, mutex, plane, got,
                 since, halted>>

\* save_status raises: the lease does not match, or the store cannot be read.
PublishRefused(p, t) ==
  /\ step[p][t] = "check"
  /\ IF StillMine(got[p][t]) THEN Fails ELSE UNCHANGED failures
  /\ myLease' = [myLease EXCEPT ![p] = Claim(got[p][t])]
  /\ latest' = [latest EXCEPT ![p] = Noted(p, t)]
  /\ Raised(p, t)
  /\ UNCHANGED <<now, freed, store, halted>>

\* store.put(status): nothing fences it.
PublishPut(p, t) ==
  /\ step[p][t] = "put"
  /\ Saved(p, snap[p][t])
  /\ Unlock(p)
  /\ Leave(p, t)
  /\ UNCHANGED <<now, freed, failures, lease, generation, main, ctl, server>>

\* ... or it raises, the status stored or not.
PutRaises(p, t) ==
  /\ Fails
  /\ step[p][t] = "put"
  /\ UNCHANGED status \/ Saved(p, snap[p][t])
  /\ Raised(p, t)
  /\ UNCHANGED <<now, freed, lease, generation, server>>

Publishing(p, t) ==
  \/ PublishLock(p, t)
  \/ PublishRenew(p, t) \/ PublishSwap(p, t) \/ PublishAgain(p, t)
  \/ PublishLost(p, t) \/ RenewRaises(p, t)
  \/ PublishCheck(p, t) \/ PublishRefused(p, t)
  \/ PublishPut(p, t) \/ PutRaises(p, t)
-------------------------------------------------------------------------------
(* The controller thread: run_fabric_controller in reconcile_loop.           *)

\* stop_event is set when the main thread reaches its `finally`.
Stopping(p) == main[p] \in {"release", "load", "save", "put"}

\* A round: reconcile, for however long it takes, then status_server.update.
CtlRound(p) ==
  /\ ctl[p] = "on" /\ step[p]["ctl"] = "none"
  /\ ~Stopping(p)
  /\ Goto(p, "ctl", "lock")
  /\ UNCHANGED <<now, freed, failures, store, main, ctl, mutex, plane, got,
                 since, snap, server>>

\* The round fails on its own: the configuration state cannot be written, an
\* event sink or the store raises.
CtlFails(p) ==
  /\ Fails
  /\ ctl[p] = "on" /\ step[p]["ctl"] = "none"
  /\ ~Stopping(p)
  /\ ctl' = [ctl EXCEPT ![p] = "failing"]
  /\ Goto(p, "ctl", "read")
  /\ UNCHANGED <<now, freed, store, main, mutex, plane, got, since, snap, server>>

\* latest = status_server.latest(), taken before the lock of the update.
CtlReads(p) ==
  /\ step[p]["ctl"] = "read"
  /\ mutex[p] = "free"
  /\ snap' = [snap EXCEPT ![p]["ctl"] = latest[p]]
  /\ Goto(p, "ctl", "lock")
  /\ UNCHANGED <<now, freed, failures, store, main, ctl, mutex, plane, got,
                 since, server>>

\* The thread ends when it is told to stop, or after it reported its error.
CtlEnd(p) ==
  /\ step[p]["ctl"] = "none"
  /\ ctl[p] = "failing" \/ (ctl[p] = "on" /\ Stopping(p))
  /\ ctl' = [ctl EXCEPT ![p] = "off"]
  /\ UNCHANGED <<now, freed, failures, store, main, mutex, step, plane, got,
                 since, snap, server>>
-------------------------------------------------------------------------------
(* The main thread: run_fabric_data_plane.                                   *)

Begin(p, l) ==
  /\ lease' = l
  /\ myLease' = [myLease EXCEPT ![p] = Claim(l)]
  /\ latest' = [latest EXCEPT ![p] = EmptyStatus]
  /\ main' = [main EXCEPT ![p] = "initial"]
  /\ Goto(p, "main", "lock")     \* the first reconcile publishes at once
  /\ UNCHANGED <<now, freed, failures, status, ctl, mutex, plane, got, since,
                 snap, halted>>

\* acquire_lease; the process that is refused raises and holds nothing.
Acquire(p) ==
  /\ main[p] = "off"
  /\ \/ /\ LeaseIsActive(lease, now)
        /\ lease.owner = OwnerOf[p]
        /\ Begin(p, RenewedLease(lease, now))
        /\ UNCHANGED generation
     \/ /\ ~LeaseIsActive(lease, now)
        /\ generation < MaxGeneration
        /\ generation' = generation + 1
        /\ Begin(p, NewLease(OwnerOf[p], generation', now))

Idle(p) == step[p]["main"] = "none"

\* The main thread publishes a runtime and goes on at `next`.
MainPublishes(p, pl, next) ==
  /\ main' = [main EXCEPT ![p] = next]
  /\ plane' = [plane EXCEPT ![p] = pl]
  /\ Goto(p, "main", "lock")
  /\ UNCHANGED <<now, freed, failures, store, mutex, got, since, snap, server>>

\* The initial reconcile was healthy: the controller thread starts, the
\* started runtime is published and the proxy serves.
MainStart(p) ==
  /\ main[p] = "initial" /\ Idle(p) /\ latest[p].ok
  /\ ctl' = [ctl EXCEPT ![p] = "on"]
  /\ MainPublishes(p, "running", "serving")

\* The conformance gate failed: the blocked runtime is published, the run ends.
MainBlocked(p) ==
  /\ main[p] = "initial" /\ Idle(p) /\ latest[p].ok
  /\ MainPublishes(p, "blocked", "ending")
  /\ UNCHANGED ctl

\* The proxy runner returns or raises an Exception: the stopped runtime is
\* published first.
MainStopped(p) ==
  /\ main[p] = "serving" /\ Idle(p)
  /\ MainPublishes(p, "stopped", "ending")
  /\ UNCHANGED ctl

Finish(p) ==
  /\ main' = [main EXCEPT ![p] = "release"]
  /\ UNCHANGED <<now, freed, failures, store, ctl, mutex, step, plane, got,
                 since, snap, server>>

MainEnding(p) == main[p] = "ending" /\ Idle(p) /\ Finish(p)

\* The initial reconcile is not healthy, the start-up message or the proxy
\* runner cannot be had, or the run ends with a KeyboardInterrupt, which is no
\* Exception: nothing is published before `finally`.
MainAborted(p) ==
  /\ main[p] \in {"initial", "serving"} /\ Idle(p)
  /\ Finish(p)

\* The process is gone, the daemon thread with it.
Gone(p) ==
  /\ main' = [main EXCEPT ![p] = "off"]
  /\ ctl' = [ctl EXCEPT ![p] = "off"]
  /\ mutex' = [mutex EXCEPT ![p] = "free"]
  /\ step' = [step EXCEPT ![p] = [t \in Threads |-> "none"]]
  /\ plane' = [plane EXCEPT ![p] = "keep"]
  /\ got' = [got EXCEPT ![p] = [t \in Threads |-> NoLease]]
  /\ since' = [since EXCEPT ![p] = [t \in Threads |-> 0]]
  /\ snap' = [snap EXCEPT ![p] = [t \in Threads |-> EmptyStatus]]
  /\ myLease' = [myLease EXCEPT ![p] = NoLease]
  /\ latest' = [latest EXCEPT ![p] = EmptyStatus]
  /\ halted' = halted \ {p}

\* controller_thread.join(timeout) returned, the thread ended or not, and
\* release_runtime_lease begins: the lease goes first, without the lock.
MainRelease(p) ==
  /\ main[p] = "release"
  /\ LeaseMatches(lease, OwnerOf[p], myLease[p].token)
  /\ lease' = ReleasedLease(lease, now)
  /\ freed' = freed \cup {lease.token}
  /\ main' = [main EXCEPT ![p] = "load"]
  /\ UNCHANGED <<now, failures, generation, status, ctl, mutex, step, plane,
                 got, since, snap,
                 server>>

MainNotOwner(p) ==
  /\ main[p] = "release"
  /\ ~LeaseMatches(lease, OwnerOf[p], myLease[p].token)
  /\ Gone(p)
  /\ UNCHANGED <<now, freed, failures, store>>

\* current = load_lease(): by now it may be another instance's lease.
MainLoad(p) ==
  /\ main[p] = "load"
  /\ myLease' = [myLease EXCEPT ![p] = Claim(lease)]
  /\ latest' = [latest EXCEPT ![p].owner = lease, ![p].lost = FALSE]
  /\ main' = [main EXCEPT ![p] = "save"]
  /\ UNCHANGED <<now, freed, failures, store, ctl, mutex, step, plane, got,
                 since, snap, halted>>

MainSave(p) ==
  /\ main[p] = "save"
  /\ StillMine(myLease[p])
  /\ snap' = [snap EXCEPT ![p]["main"] = latest[p]]
  /\ main' = [main EXCEPT ![p] = "put"]
  /\ UNCHANGED <<now, freed, failures, store, ctl, mutex, step, plane, got,
                 since, server>>

MainSaveRefused(p) ==
  /\ main[p] = "save"
  /\ ~StillMine(myLease[p])
  /\ Gone(p)
  /\ UNCHANGED <<now, freed, failures, store>>

MainPut(p) ==
  /\ main[p] = "put"
  /\ Saved(p, snap[p]["main"])
  /\ Gone(p)
  /\ UNCHANGED <<now, freed, failures, lease, generation>>

\* A crash, and also the store raising in release_runtime_lease: `finally` ends there,
\* before or after the step that the store was asked for,
\* or the release giving up at its eighth swap.
Crash(p) ==
  /\ main[p] # "off"
  /\ Gone(p)
  /\ UNCHANGED <<now, freed, failures, store>>

ProcNext(p) ==
  \/ Acquire(p) \/ MainStart(p) \/ MainBlocked(p) \/ MainStopped(p)
  \/ MainEnding(p) \/ MainAborted(p)
  \/ MainRelease(p) \/ MainNotOwner(p) \/ MainLoad(p) \/ MainSave(p)
  \/ MainSaveRefused(p) \/ MainPut(p)
  \/ CtlRound(p) \/ CtlFails(p) \/ CtlReads(p) \/ CtlEnd(p)
  \/ \E t \in Threads : Publishing(p, t)
  \/ Crash(p)

Next ==
  \/ Tick
  \/ \E p \in Procs : ProcNext(p)

Spec == Init /\ [][Next]_vars
-------------------------------------------------------------------------------
(* Properties.                                                              *)

\* A renewal that tested the lease and can still swap it.
InTime(p) == \E t \in Threads : step[p][t] = "swap" /\ lease = got[p][t]

Lost(p) == ~CanRenew(p) /\ ~InTime(p)

(* An instance that has lost its lease, and has no renewal left that was in  *)
(* time when it tested it, never has it again.                               *)
LossIsFinal ==
  [][\A p \in Procs : main[p] # "off" /\ main'[p] # "off" /\ Lost(p) => Lost(p)']_vars

\* The stored status has an owner and its gate is open.  (A status can lose its
\* owner: release_runtime_lease reads _latest without the lock, so it can save
\* one that an update is halfway through.)
Advertised == GateOpen(status.what) /\ status.what.owner # NoLease

(* An open share gate in the store belongs to the holder of the lease, or to *)
(* an instance that has released it: a takeover by expiry never leaves the   *)
(* gate of the old gateway open, late writes included.                       *)
GateMeansHolder ==
  Advertised => \/ lease.token = status.what.owner.token
                \/ status.what.owner.token \in freed

(* Once the stop of its proxy has reached the status server, nothing that an *)
(* instance still saves opens the gate: neither a round or an error report   *)
(* of its controller thread that was under way, nor the status saved at the  *)
(* release.                                                                  *)
NoOpenAfterStop ==
  [][\A p \in halted : status' # status /\ status'.by = p => ~GateOpen(status.what)']_vars
================================================================================
