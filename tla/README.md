# Formal models of snulbug

snulbug is a policy gateway in front of MCP servers. This directory models the
parts of it whose correctness depends on interleavings, crashes, clocks and
retries: TLA+ modules translated from `snulbug/*.py`, TLC configurations that
check them on small instances, and TLAPS proofs of the properties that matter
for every instance. Paths and line numbers are those of the repository.

    tlc -workers 2 -config MCFabricLease.cfg MCFabricLease     # one run
    tlapm FabricLeaseProofs.tla                                # one proof module

`PROJECT.json` lists the runs, the source lines behind every definition, for
every property a mutated definition that breaks it, the hazards and the findings.

## Inventory

State, operations, interaction, what is hard, and what makes each part correct.

| Component | State it keeps | Operations | Hard behaviour | Correct when | Model |
|---|---|---|---|---|---|
| Runtime ownership lease (`fabric_runtime.py`) | lease record, generation counter in a key-value store | `acquire_lease`, `renew_lease`, `release_lease`: get / decide / cas, at most 8 rounds | instances on several hosts interleave, crash, let the lease run out | one owner at a time, fencing tokens grow | `FabricLease` |
| `fabric run` (`controller.py`) | status envelope in the store; per process the lease copy, `_latest`, a lock, two threads | acquire, reconcile round, heartbeat, publish, release | publish is get + swap + check + put, each of which may raise; release takes no lock; the controller thread may outlive `join(timeout)` | a reader is not told of an old gateway beyond its lease, nor again of one that said it stopped | `FabricRuntime` |
| Task leases (`leases.py`) | one JSON file of leases | create, use, renew, revoke, revoke renewal, reactivate, clean up | workers and console threads change one file; clocks; answers lost | budgets, lifetimes, revocations hold whatever the interleaving | `ToolLease` |
| Tunnel supervisor (`share_runtime.py`) | process handle, desired state, state, attempts, retry time | start, automatic start, stop, begin_shutdown, close, status, monitor round | process dies at any time or outlives its SIGKILL, back-off, operator against supervisor | one process in hand, stops stand, wanted tunnels come back | `ShareTunnel` |
| Policy state stores (`state.py`) | keys with a lifetime, in SQLite or Redis | get, put, cas, incr | which calls are one step, expiry, late calls | each call does what one step would | `StateClients` |
| Member registry (`fabric_members.py`) | document of members under a key, or in a file | register, heartbeat, unregister | agents and operators in loops of get and cas | no change lost or half made | `StateClients` implements `Membership` |
| Policy back-off, rate limits (`policy_backoff.py`, `middleware.py`) | denials and cooldown per caller, a counter per bucket | look up, record, count | several workers, read then put, late writes, keys that run out | limits kept over all workers, cooldowns end | `StateClients` |
| Stdio upstream (`mcp_stdio.py`) | child process, pending requests, queues | request, cancel, read loop, close | one child for many requests, limits, process ends mid-answer | every request comes to an end, limits exact, no process left, nobody hit by another's cancel | `StdioMux` |
| Facade proxy (`proxy.py`) | route tables and who uses them, health of upstreams, reload lock | reload, list, call, forward | reloads against requests in flight, late outcomes, controls that cannot be read | a table stands under its users and is closed once, nobody is blamed for another definition | `Facade` |
| Shares and invites (`share.py`, `share_session.py`) | session model, secrets, lease file, manifest | create, revoke, clean up, close | four files written in steps, no lock, crashes | what was revoked stays so, the files are in order | `ShareInvites` |
| Fabric control actions (`fabric_control.py`) | list of actions under a key | issue, clear | load, append, save | no action lost | not modelled |
| Streams, subscriptions (`mcp_stream.py`, `mcp_subscriptions.py`) | decoder buffer, stream phase, acknowledged filter | feed, notification, terminal, send, run | frames cut anywhere, disconnect and expiry against answers, clients that do not read | events whole, one terminal and nothing after it, acknowledgement first, every session ends | `SseDecoder`, `StreamSession` over `StdioMux` |
| Activation, bundles, promotion | documents on disk | activate, roll back, promote | steps on several files | what is active was reviewed | planned |
| Confirmation (`confirm.py`) | remembered approvals | prompt | readers of one terminal | an answer goes to its prompt | planned |
| Message handling, catalog, schema and risk policies, authentication, Lua runtime, events, CLI, lab | none or per request | pure functions, formatting, I/O | little | | not modelled |

### How they interact

`fabric run` opens a runtime store, acquires the lease, and starts two threads
that publish the status under it: the main thread when the data plane changes
state, the controller thread on every reconcile round. Readers (`fabric status`,
the console, other instances) load the status from the store and compute the
share gate from it. The gateway consults the task leases on every `tools/call`;
the console and the CLI change the same lease file. The console's HTTP server
also runs the tunnel supervisor, which the gateway's lifespan starts and drains.
A request at the gateway passes the reload middleware, the Lua policy with its
back-off and rate limits in the state store, and the facade, which forwards it to
HTTP or stdio upstreams of its route table. Invites bind a lease to a record in the
session model and to secrets; the console and the CLI change all of them.

## Modules

**`RuntimeLease`**: the lease record and the predicates of it
(`_new_lease`, `_renewed_lease`, `_released_lease`, `_lease_is_active`,
`_lease_matches`), shared by the next three. `NoLease` is the absent key.

**`FencedLease`**: the lease as one would like it, each operation one step:
grant when nobody has it, extend for its owner, release. It is also exactly what
`MemoryFabricRuntimeStateStore` does under its lock.

**`FabricLease`**: `PolicyFabricRuntimeStateStore`. A call is a sequence of
steps, `GetRaw` (store.get), a decision (`AcquireRefused`, `AcquireOwn`,
`AcquireFree`, `RenewMine`, ...), `TakeToken` (store.incr), `Swap` or `SwapLost`
(store.cas). `raw`, `new`, `tries` are the locals of the loop, `held` is the
caller's copy (`runtime_lease`). `Crash` ends an instance anywhere. It is shown
to implement `FencedLease` with the identity on `lease`, `generation`, `now`.

**`FabricRuntime`**: `run_fabric_data_plane` and `FabricControllerStatusServer`
on top of the atomic lease. `main` and `ctl` are the two threads of a process,
`mutex` is the status server's lock, `step` says where a thread is inside
`update` / `_save_latest`: lock, renew, swap, check, put. A renewal is a get, with the
tests of `renew_lease` on what was read (`PublishRenew`), and a swap (`PublishSwap`,
`PublishAgain` when it is lost): the lease may run out in between and is extended all the
same. `save_status` is check and put in two steps. So it is in the SQLite and Redis
stores; the in-memory store does each under its lock, so its behaviours are among these.
Each access may raise, whether or not it took effect (`RenewRaises`, `PublishRefused`,
`PutRaises`): the controller thread then reports its error with one more update, the main
thread goes to its `finally` (`Raised`), with `_latest` already changed and the older
status still in the store.
`release_runtime_lease` is `MainRelease`, `MainLoad`, `MainSave`, `MainPut`, with no
lock. `GateOpen` is the share gate as a reader computes it. History: `freed`,
the tokens that were released; `halted`, the processes whose `_latest` was set to stopped;
`status.by`, who wrote the status.

**`ToolLease`**: `leases.py`. `Enter` takes the file lock and loads, one of
`Create`, `Call`, `Renew`, `Revoke`, `StopRenewal`, `Reactivate`, `Cleanup` decides,
`Write` replaces the file and leaves the lock; `Refuse` leaves without a write
(denied, not found, nothing to do, or the worker died). Time is in ticks,
`Second` of them to the second, because stamps are cut to whole seconds and
comparisons are not. History: `accepted`, `promised`.

- The reasons a presented lease is denied for (tool, path, host, identity) change
  nothing, so they are one choice, `Refuse`.
- A trusted internal caller names a lease by id instead of a token; such a call
  counts like a call under the current token, which the model has.
- Lifetimes are at least one second (`ToolLeaseAssumption`): a shorter one is cut
  to a stamp that is already past.

**`ShareTunnel`**: `ShareRuntime`. Each public method holds the lock throughout and
is one step; `Die` is the managed process (external). `Terminate` is
`_terminate_locked` when its waits return, `TerminateRaises` when the wait after SIGKILL times out:
the handle is dropped, the caller does not set the state, and the process is `doomed` until `KilledGone`. Time is a countdown to
`_retry_at` and an age up to the reset time, so the state space is finite without
a bound on the clock. History: `wish`, the last call that decided.

**`StdioMux`**: `ManagedStdioMcpClient`, modern requests. `pc` is the await a request
is in: `wait` for `_lock`, `spawn`, `write` (drain), `get` from its queue, `notify`
(its callback), `cancel` (drain of `notifications/cancelled`), `gather` and `reap`
(the two awaits of `aclose`). Code between two awaits is one step, so the
`finally` of a request is `CutOff` up to its first await, then `CancelSent` or
`CancelFails`, then `Aclose`. The reader's steps are `ReadAnswer`, `ReadTagged`,
`ReadUntagged`, `Garbage`, `EndOfOutput`; `Reap` is a reaper task to its end. The
child (external) answers what it was asked or ends, and what it wrote stays readable.
`Cancel` is the disconnect of a client at any await, once more during a clean-up
(the loop shutting down); such a cut-off clean-up is remembered as `dropped`.

- Every line has size one: `MaxQueue` is both the limit of a queue's length and of its
  bytes, `MaxQueued` that of all queues.
- A request is made once; a client's next call is another member of `Ordinary`.
- The sequential legacy requests (2025 protocol) are not modelled: they never share a
  process with modern ones.

**`SseDecoder`**: the decoder of `mcp_stream.py` as operators on a record with its fields.
`Feed` runs it to the next event, limit or end of input: while a whole line that is not empty is in the
buffer, `AfterField` takes it; `Outcome` is what ends the loop. `Fed` appends a chunk, `Finish` is
`finish`. `EventsOf` and `SizeOf` say, of the bytes as a whole, which events there are and how
big; nothing of the decoder is in them. Four bytes are told apart: CR, LF, the start of a data line, any other.

**`StreamSession`**: `McpStreamSession` and `Subscription`, composed with `StdioMux`: it extends
that module and has a session to every request in it. `stage` is where `run()` is: `app` (the task works),
`reply` and `tail` (its answer is sent, was sent), `expiring` and `leaving` (the task is cancelled,
its clean-up is awaited), `error` (`run()` sends one itself), `over` and `left`. A step of the request in
`StdioMux` moves its session (`Continues`, `Follow`); where the two meet there is one action: a notification that is
taken from the queue and checked (`ReceivesNote`, with `Issue` for `notification_issue`) and sent (`SendsNote`), an answer (`ReceivesAnswer`, with
`Accepts` for `terminal`). `Cut` cancels the task at any await, for `Expire` or `Disconnect`; within `StdioMux` that is
`Cancel`. Sessions of `Remote` read an HTTP response instead: `HttpJson`, or `HttpStream`,
`SendsHead`, then `Chunk` (any bytes), `NextEvent`, `SendsEvent` and so on, one step between two awaits.
`told` is what the client was sent.

- External: the HTTP upstream, which sends anything and may stop; the ASGI server, whose `send`
  waits for room and then hands a message over without a pause (so head and body of a JSON
  answer are one step, `Reply`). A client that is going to stop reading is in `Slow`.
- The policies on messages are one choice: a notification passes or is rejected, an answer
  is sent, replaced by an error, or refused. Kinds of changes stand for resource URIs too.
- Left out: byte order mark and UTF-8, which look at one whole line; the gateway's own
  shutdown, which cancels `run()`.

**`Facade`**: the facade mode of `proxy.py`. `pc` is the await a request is in: `lock`
(the reload lock), `load` and `loaded` (the thread that reads the file), `retire` (closing
the old table), `body`, `policy` (the Lua policy, and a person it may ask), `forward` (an
upstream), `leave` and `close` (`_release_routes`). `tables` holds every route table that is
alive, with its count of users; `current` is `_routes`. A table is what it has for
each upstream: the fingerprint of the definition, or `Absent`. `health` is `_health`,
with `retry_after` as `cooling`. External are the file and its editor (`Edit`), the
operational controls (any, wherever they are read; or none, when their store raises), answers and failures of upstreams.
History: `edit` of a table (which edit of the file it was read from) and `streak`, the
failures in a row of each definition.

- Only the health that decides is kept: counts, times and reasons are left out, and failures
  beyond the threshold are not told apart.
- A request is counted by `_acquire_routes` and reads the controls before the `try` whose `finally`
  releases it. `ControlsFail` is that reading when it raises: the count stays for good. A table with such
  a count is `leaked` (one stands for all of them); once it is replaced and has no other user, nothing ever comes back
  to it (`Forgotten`), and the model may use its number again.
- A request that is turned away before it is routed (lease, progress, resources,
  completion) is one action, `AcquireRefused`: it only holds the table for a while.
- `Describe` and the acquisition are separate steps, as in the code: a reload in between
  sends a request to routes its policy was not told of. No property covers it.

**`ShareInvites`**: the invites of a share. A step is one access to one of the four files:
`CreateLease`, `StopRenewal`, `RevokeLease` the lease file; `Truncate`, `Write` the session model
(opened for writing, then written: who reads in between, or after a crash, finds it torn);
`LoadSecrets`, `StoreSecrets` the secret store (replaced whole); `MarkManifest`, `SignManifest`
the manifest, which is followed by a `Rebuild` of the session model from it. `copy` and `kept`
are what an operator has loaded and will write back. `Touch` and `RecordInManifest` stand
for everything else that writes these files (reviews, the doctor, a new URL, members, the
start of the share). Leases are those of `ToolLease` reduced to usable and renewable;
`Renew`, `Expire`, `RevokeShareLease`, `Reactivate`, `CleanupLeases` are what else happens
to them. History: `made` (creations that were answered), `ended` (revocations).

**`Membership`**, **`StateClients`**: the registry of members as it ought to be, each
operation one step; and the clients of one state store with the steps that reach it. `kind` is the store. Agents
and operators (`Agents`) run the loop of `_update_registry`: `Get`, `Swap` or `SwapLost`, for at most
`Tries` rounds. Gateway workers (`Workers`) look up the cooldown, run the policy, and record
its denial (`ReadDeny`, `PutDeny`, `PutLookup`) or count its rate limit (`Incr` in SQLite, `IncrBy` and
`Expire` in Redis). `PurgeLookup` and `PurgeDeny` are the `DELETE` of a `get` that found its row
expired. Any of them may stop anywhere (`AgentAborts`, `WorkerAborts`). History: `allowed`, the
requests let through in a bucket; `late`, the buckets with an increment more than a window after the clock
reading that chose them; `denied`, the time of the last denial.

- All callers are one caller with one reason; others have keys of their own.
- Nothing bounds the time from the clock reading of a bucket to its increment. SQLite
  waits 250 ms for a lock and a window is at least one second, but a client of Redis has no socket
  timeout (`state.py:353`): its increment may come when the counter has run out, and start it
  again. `RateKept` leaves such buckets out by name (`late`).
- Jitter is left out, and a document of members that changes gets a new `stamp` (its `updated_at`).

`MC*` modules give the constants their values.

## Runs

| Run | Instance | Checks | Shows |
|---|---|---|---|
| `fabric_lease` | 2 instances, own ids; TTL 2, clock to 5, 4 tokens, 2 rounds per loop | `OneBeliever`, `TokenNamesOneOwner`, `ImplementsFencedLease` | no interleaving, crash or expiry gives two instances an unexpired copy |
| `fabric_runtime` | 2 processes, get-then-swap and check-then-put store, 1 failure of a round or of the store, 2 tokens, clock to 1 | `GateMeansHolder`, `LossIsFinal`, `NoOpenAfterStop` | an open gate belongs to the holder of the lease or to one that released it; no stale copy, error report or late put of a process opens it after its stop was told; a lost lease stays lost |
| `tool_lease` | 1 lease, 2 workers, half-second clock to 5.5 s, lifetime 3 s, grants 3 and 4.5 s, budgets none and 2 | `BudgetKept`, `TokenLifetime`, `OverlapHonoured`, `RevocationFinal`, `RemovedWhenDead` | each property under every order of the two workers |
| `share_tunnel` | delays 1, 2, 3 ticks, 3 attempts, 3 starts | `TypeOK`, `OneTunnel`, `StopStands`, `Recovers`, `DrainEnds` | safety and liveness of the supervisor, also with processes that outlive their SIGKILL |
| `stdio_mux` | 2 calls, 1 subscription, 2 processes; or 1 call, 2 subscriptions, 1 process; 2 places, queues of 2, 3 in all | `TypeOK`, `Accounting`, `Attended`, `NotesToOwner`, `NoOrphan` | closes, restarts and cut-offs in any order keep the books and reach every request |
| `stream_sessions` | 2 calls, or a call and a subscription, on 1 process; or 1 HTTP subscription, 6 bytes in chunks of up to 3, events of up to 4; 2 notifications | `StreamTypeOK`, `EventsWhole`, `OneTerminal`, `AcknowledgedFirst`, `SessionsEnd`, `NoStarvation` | whatever is cut where, the client gets whole events and one end; every session ends, also with a dead child, a silent upstream or a client that does not read; the lock comes free |
| `stdio_mux_cancel` | 1 call, 1 subscription, 2 processes | `CancelLeavesOthers` is violated | finding 1 |
| `facade` | 2 connections, 2 upstreams, 2 layouts, 3 tables alive, 1 of them leaked, threshold 2, 1 edit, forced reloads without bound | `TypeOK`, `SnapshotStands`, `NoTableLeft`, `NotBlamed`, `ReloadOrder` | tables stand under their users and are closed once; late outcomes blame nobody else |
| `facade_liveness` | the same with 1 upstream, threshold 1, no leaks, no symmetry | `RequestsEnd`, `FollowsFile` | nobody waits for ever for the reload, whatever the clients of others do, and the file is followed |
| `share_invites` | 1 invite, 2 operators, crashes | `RevokedForGood`, `FilesInOrder` | no interleaving or crash undoes an answered revocation or leaves a record or a secret ahead of the leases |
| `share_close` | 2 invites, 2 operators, no crashes | `CloseRevokesInvites` is violated | finding 2 |
| `state_clients` | 2 members, 2 agents, 2 workers, both stores, 2 rounds, 4 calls, clock to 2 | `TypeOK`, `RateKept`, `CooldownEnds`, `ImplementsMembership` | the loops are the atomic registry; limits (but for late increments) and cooldowns hold over workers, crashes and expiry |

Why the bounds are enough. Two instances and two rounds reach every way a loop
loses (to an acquisition, a renewal, a release), and the clock runs past two
lifetimes, so a lease expires, is taken and expires again; the proofs remove the
bounds for every safety property of the runs, and cover what the runs leave out: instances
that share an id (`--runtime-instance-id`), several leases in one file, more requests, places and processes. In `FabricRuntime` two
tokens allow a takeover, and clock 1 lets the first lease run out, be extended by a renewal that was in time, or be taken over, with all that the first process still writes;
one failure (`MaxFailures`) strikes any round or access of either process, and two were checked once; `Healths = {TRUE}`
in that run loses nothing: an unhealthy status closes the gate and changes
nothing else, and an abort after the first reconcile is always possible. The
`tool_lease` instance has the four renewal windows (before half, after half, last
before the end of the authorization, expired) and stamps that lose half a second.
`MaxStarts` bounds how often an operator presses start while the tunnel is down;
without it the operator could restart the budget for ever.

In `StdioMux` two calls are needed for a notification to reach the wrong one, two
processes for a close to meet the next process;
queues of 2 overflow, alone and together. With one process a restart still goes through
close, reaping and the start, which then fails; `stdio_mux` has the second.

In `StreamSession` two sessions meet at the lock and in the clean-up of one child; an HTTP
session shares nothing, so it is checked by itself. Six bytes hold two events and a half with CR, LF and CRLF
in every mix, chunks of three cut them everywhere, a limit of four is met by
comments, data and lines without end. Two notifications are an acknowledgement and a
change, and the third is one too many. `b`, an ordinary call, and the HTTP subscription have clients that may
stop reading.

In `Facade` two connections make a table that one holds and the other replaces, and three
tables let a second reload come before the first old table is closed; the edit changes the definition of
upstream 1 and takes upstream 2 away, and forced reloads replace a table by an equal one. A leaked
count (`MaxLeaks`) is on the table in use or on an old one, with users and without; the liveness run has none,
since a leak takes no step from a request. In
`ShareInvites` one invite is enough for what the files say of it, two operators for every lost
update between two of them; two invites are needed for a record to be lost by the creation of another. In `StateClients` a
swap is lost and the call gives up or goes round again, two workers count in one
bucket, and the clock runs past window and cooldown.

Model bounds are `MaxGeneration`, `MaxTime`, `MaxTokens`, `MaxUses`, `MaxStarts`,
`MaxProcs`, `MaxChunk`, `MaxTables`, `MaxLeaks`, `MaxEdits`, `MaxFailures` and `MaxCalls`, each in one guard; `MaxAttempts` is the code's (8 in `FabricLease`, configured in
`ShareTunnel`). Symmetry is used for safety only. `CHECK_DEADLOCK FALSE` stands in
the `FabricRuntime` configurations (processes end for good and the clock has an end) and
those of `StdioMux` and `StreamSession` (every request has been made and has ended), `Facade` (all tables may be in
use until the bound on them), `ShareInvites` (all that is left may be torn files) and `StateClients` (calls and
clock have an end).

**Fairness.** In `ShareTunnel` the monitor thread waits at most
0.25 s and takes a lock nobody keeps, and time passes: weak fairness of
`MonitorRound`, `MonitorEnds` and `Tick`. No fairness for callers or for the process. In
`StreamSession` the loop runs what is ready, and every await of a request but that of its queue
has a timeout or ends with a killed process: weak fairness of `RequestStep`, `RunStep`, `EndOfOutput`
and `Reap` (and, in `StdioMux` by itself, of `Proceed`). `asyncio.Lock` is first come, first served: strong fairness of
`Turns` (`Enter`). An ordinary HTTP request has a timeout for each read, so its `HttpStep`s are
fair; those of a subscription wait for ever. That timeouts of calls and
lifetimes run out, `TimeRunsOut`, is a premise of `SessionsEnd` only: `NoStarvation`
needs neither. None for the child, the HTTP upstream of a subscription, or clients. In `Facade` time passes, the thread
that reads the file returns, and the close of a table ends (it kills what does not end): weak fairness of `IntervalOver`, `Reload` and
`Closed`; the reload lock is first come, first served: strong fairness of getting it (`StartReload`, `ControlsUnread` or `SkipReload`). None for
`Handle`, whose steps wait for the client's body and for a client that reads, without a timeout; none for the editor or cancellations.
`RequestsEnd` supposes of the request it speaks of that its own steps go on (`WF_vars(Handle(r))`), and of the others
nothing. `FollowsFile` supposes that requests keep coming and that the controls can be read from some time on: a store of the controls that
always raises keeps the old table, as the code means it to.

## Findings

1. *Stale close* (`mcp_stdio.py:137`). "Cancelling one subscription leaves other active
   requests alone" (`docs/mcp-protocol.md:334-335`), but when the notice of the
   cancellation cannot be written, `aclose` closes the process that is current by then,
   which may be a new one with other requests in flight.
2. *Lost invite* (`share.py:8135`). "Closing the share with its default revocation option
   revokes its invites too" (`docs/mcp-share.md:210`), but it revokes those that the session
   model lists, and a review that loaded the model before an invite was recorded writes it back without that
   record. The close answers "closed" and the invite goes on.

Seen while modelling, without a run of their own (the steps are in the modules, the hazards
name the lines): an exiting instance saves its status under the next instance's lease
(`controller.py:682`); `save_status` of SQLite and Redis puts without a compare
(`fabric_runtime.py:184`), and `GateMeansHolder` and `NoOpenAfterStop` show that the damage
stops at the share gate; when saving the stopped status raises, the older status, which says running, stands until the lease
is released or runs out (`controller.py:671`); a renewal extends a lease that ran out after its test (`fabric_runtime.py:264-271`);
a tunnel started from the console during the drain is restarted when it exits
(`share_runtime.py:119`, against `docs/always-on-runtime.md:91-92`); a tunnel process that outlives SIGKILL is forgotten, with the state still "running" or "draining" (`share_runtime.py:309`);
a request that cannot read the controls is counted for ever, and its table, once replaced, never closed (`proxy.py:1047`);
a late increment on Redis restarts a rate limit (`middleware.py:361`); a reload between the policy
and the acquisition of the table sends a request to other routes (`proxy.py:2874`, `1046`); a clean-up between an invite's record and
its secret takes the new invite for stale (`share.py:1541`); the `get` of SQLite deletes an expired key in a
second statement, and with it what was put in between (`state.py:290`).

## Proofs

`tlapm` proves these for every value of the constants allowed by the named
assumptions (`FabricLeaseAssumption`, `ToolLeaseAssumption`, `StateClientsAssumption`,
`ShareTunnelAssumption`, `StdioMuxAssumption`, `StreamSessionAssumption`, `SseDecoderAssumption`,
`ShareInvitesAssumption`, `FacadeAssumption`, `FabricRuntimeAssumption`
and the `RuntimeLeaseAssumption` of the records). `PowersAssumption`, in `ShareTunnel` and
`StateClients`, says that the powers in their delays are numbers, which is so for every base and
exponent but which no prover here knows of `^`.

**`FabricLeaseProofs`**: `TypeCorrect`, `Invariance`, `OneBelieverHolds`,
`FencingMonotonicHolds`, `Implementation`, `TokenNamesOneOwnerHolds`.
`OneBeliever` is not inductive: the invariant `IInv` adds what a round has in its
hands. `RoundOK`: the record it read is not newer than counter and clock, and what it
will swap in is a fresh token over an inactive record, an extension of its own record,
or its release. `BeliefOK`: an unexpired private copy is backed by the store's record,
which names the same owner and ends no earlier; with distinct owner ids two such
owners are equal. `TokenInv` (tokens in use are at most the counter, equal tokens have
equal owners) is a second invariant for shared ids. The refinement uses `IInv`: the
swap of a fresh token is a `Grant` because the record it compared was read inactive
and inactive records stay inactive.

**`FabricRuntimeProofs`**: `TypeCorrect`, `Invariance`, `GateMeansHolderHolds`, `OwnInvariance`,
`LossIsFinalHolds`, `HaltInvariance`, `NoOpenAfterStopHolds`. A status is written long after the lease in it was read, so the
invariant speaks of every copy of a lease that any thread has, in any variable: it is
`Covered`, that is, its token has been released, or it has run out, or the store's lease has the
same token and ends no earlier (and none ends later than a lifetime from now). A late swap keeps this because the
lease it compares is the one it tested, and what it writes ends no earlier (`SwapOK`). Each change of the lease keeps what was covered
(`LeaseStep`), and each step makes copies only of copies or of the lease. `LossIsFinal`
needs owner ids that differ (`DistinctIds`): with one id for two processes a second one could
renew for the first. Its invariant `OwnOK` ties the lease a publish has tested or renewed to the claim of its process,
and says that after a release no lease under its id is unreleased; `NoRevival` then says that only a renewal
that was in time takes a lease under that id. `NoOpenAfterStop` is about the status server alone and needs no assumption
on ids: by `LockOK` who is inside a publish has the lock, so what it puts is the latest status; by `HaltOK` that is,
after the stop was told, a stopped one, or the unhealthy one of the controller thread's last report, and either keeps the gate shut.
It does not need the store to take any of them.

**`ToolLeaseProofs`**: `TypeCorrect`, `Invariance`, `BudgetKeptHolds`,
`TokenLifetimeHolds`, `NoUseAfterRevokeHolds`, `OverlapHonouredHolds`,
`RenewalUsableHolds`, `RevocationFinalHolds`, `RenewalNeverWidensHolds`,
`RemovedWhenDeadHolds`. The invariant says that the lock makes what a worker has
loaded equal to the file, hence what it writes is one legal decision away from the
file (`LockOK`, `WriteOK`); that a record's fields bound each other (`LeaseOK`: expiry
within the authorization, previous token within its overlap); and that the history
agrees (`HistoryOK`). The arithmetic of `Stamp` is a lemma used throughout.

**`StateClientsProofs`**: `Invariance`, `Implementation`, `RequestInvariance`, `TypeCorrect`,
`RateKeptHolds`, `CooldownEndsHolds`. The refinement to `Membership` needs to
know what a call that reached the swap has in its hands: `RegistryInv` says that it is
one change of one member of the registry it read (or none). The swap succeeds only on
that very registry, so it is a `Join`, `Beat` or `Leave`; all other steps stutter. There is a lemma for
the steps of agents, one for those of workers, and `Tick`.
The requests have an invariant of their own, `RequestInv`. `RateOK`: in a bucket that is not `late` no more requests are let through
than its counter says, and the counter outlives every increment that comes within a window of the clock reading that
chose the bucket; a later one makes the bucket `late`. `ClockOK`: no reading is of a time to come. `CooldownOK` ties
what is stored of denials to `denied`, the last that the policy made. `CountsOK` bounds all
counts by the calls made, less those no count has seen yet (for the types).

**`ShareTunnelProofs`**: `Invariance`, `OneTunnelHolds`, `StopStandsHolds`, `StateHonestHolds`,
`TypeCorrect`. `OneTunnel`
says that the processes alive are the one in hand and those given up after SIGKILL; to be kept it needs that a closed runtime has
dropped its handle, and `StopStands` that the last stop left the tunnel unwanted and
shut to startups, also when the stop raised: every way to spawn starts by testing one of these. `HonestInv` adds that the
state shown to the operator is that of the tunnel (`StateHonest`, which no run checks) and that a
retry is awaited only while attempts are left, which bounds the delays. A spawn, a look
at the tunnel and a launch have a lemma each.

**`ShareInvitesProofs`**: `TypeCorrect`, `Invariance`, `RevokedForGoodHolds`,
`FilesInOrderHolds`. The properties speak of the files, but files are written from
copies that operators loaded earlier. `OperatorOK` says that a copy is as good as a
file: it names only invites with a lease, and calls revoked only those whose renewal
has ended; an operation that revokes has ended the renewals before it writes. This is
stable because no step of the others forgets a lease or gives it its renewal back (`Later`),
or makes one usable again (`Weaker`). `OneCreator` keeps two operators from creating
the same lease.

**`FacadeProofs`**: `Invariance`, `SnapshotStandsHolds`, `NoTableLeftHolds`,
`ReloadOrderHolds`, `TypeInvariance`, `NotBlamedHolds`, `TypeCorrect`. `RoutesOK` is the bookkeeping of `_acquire_routes`, `_retire_routes`
and `_release_routes`: the count of a table is the number of its users, and one more if it is `leaked`, the table in
use is not retired, any other that lives is retired and has a user or a leaked count, one that is closing has one
closer. It is kept by the five steps that touch a table (acquire, leak, leave, swap, close), each
with a lemma on how its users and their number change. `OrderOK`: only the holder of the
lock reloads, and what it has read is not older than the table in use. Health plays no part there.
For `NotBlamed`, `MarksOK` says that the failures an entry of `_health` counts are at most the latest
failures in a row of the definition whose fingerprint it has: an outcome that comes from an old table counts for its own
fingerprint or for nobody. It rests on the types (`TypeInv`), which rest in turn on the shape of what a request has in its hands.

**`StreamSessionProofs`**: of the client alone (`StdioMux`) `Invariance`, `AttendedHolds`, `NotesToOwnerHolds`,
`NoOrphanHolds`, `AccountingHolds`, `TypeCorrect`; of the sessions with it
`ClientSteps`, `ClientKept`, `StreamInvariance`, `OneTerminalHolds`, `AcknowledgedFirstHolds`,
`StreamTypeCorrect`; of their decoders `EventsWholeHolds`.
Of the client, three properties are kept only together with the bookkeeping that it spreads over entry,
process and locks. `QueueOK`: an answer is the last line of its queue, is marked, and the child has
then done with the request; an error comes only to a request that has been failed. `FlightOK`: what
is pending is in flight on the current process; what is in flight and not pending has its
end in the queue and is forgotten by the child. `LockOK`: who starts a process or writes has
`_lock`, and an ordinary request has `_ordinary_lock` from its arrival on. `CloseOK`: an `aclose`
has a process in hand for one await only, and a restart closes one that has exited.
`AskedOK` is what makes `NotesToOwner` hold: while the child knows an ordinary request,
that request keeps the others out, or its clean-up was cut short. One lemma for each way a task
moves on, ends, is cut off or closes the process, each used by several actions.
`Accounting` is about a sum, so it is stated as the number of lines that wait, and each step of the client has one
`Effect` on them: an entry comes, goes with all its lines, loses its first line, gains one, is failed with all
others, or none of these.
`ClientSteps` is the composition: every step of the sessions is a step of the client or leaves it alone, so
what was proved of the client holds in the sessions. `SInv` is their own invariant. `StageOK` ties the
stage of a session to the await its request is in, or to the HTTP response; `ReplyOK` and `NoteOK` say what it has in
its hands between two awaits, `OnceOK` that a stage before the end has not sent an end, `AckOK` and `FirstOK` that
the filter is known exactly when the acknowledgement was sent.
`EventsWhole` is about a loop over bytes that come in any pieces. `Reads` is its invariant, at any point inside the
loop: the bytes taken off the buffer end at a `Boundary` (the end of a line, after the LF if its delimiter is CR LF,
so a CR is taken only when the byte after it is known), the rest is in the buffer, `scan` skips no delimiter, the events
found are those that end before the boundary, each within the limit, and `data` and `frame` are those of the event that has
begun. A line taken keeps it (`TakesLine`, `TakesField`, `TakesEvent`), a refusal means an event that is too long
(`TakesTooMuch`), waiting keeps it and leaves no line end behind but a CR at the very end (`WaitsForMore`, `Quiet`), and
more bytes change nothing of what has been read (`FedReads`, from `GrownLines`, `GrownData`, `GrownEvents`). The
induction theorems of the library are out of the provers' reach, so what takes an
induction is proved by least counterexample (`LeastNat`): that elements of a set of numbers can be put in
order (`RankOnto`), that there is a function `Feed` with its equation (`FeedEquation`: solutions for buffers shorter than any
length exist and agree), and what it returns (`FeedReads`, on the length of the buffer). `DecoderInv` carries `Reads` over
the steps of `forward_http`. The three parts are in one module because the second and the third speak of the first.

Only model-checked: all liveness, which the prover cannot do. Every safety property of a passing run, action properties
and refinements with them, is a theorem. `FencingMonotonic`,
`NoUseAfterRevoke`, `RenewalUsable` and `RenewalNeverWidens`, and the types of `FabricLease`,
`FabricRuntime`, `ToolLease` and `ShareInvites`, were found true by TLC and are now proved
and no longer in a run.

## Plan

Order, most important first. Done: `RuntimeLease`, `FencedLease`, `FabricLease`,
`FabricRuntime`, `ToolLease`, `ShareTunnel`, `StdioMux`, `Facade`, `ShareInvites`, `Membership`,
`StateClients`, `SseDecoder`, `StreamSession` and the eight proof modules. Next:

1. `StdioMux`, the rest: legacy requests, the gateway's own close at shutdown, what a
   clean-up cut short leaves behind.
2. Control actions, `Confirm`, `BundleLifecycle`, each with its theorems: its invariants are to be
   proved as those here are.

Not modelled, and not planned: pure conversions, policy evaluation by Lua, token
cryptography, rendering, command lines, generated files.
