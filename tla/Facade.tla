--------------------------------- MODULE Facade ---------------------------------
(***************************************************************************)
(* The gateway in facade mode (snulbug/proxy.py): requests go through        *)
(* FabricConfigReloadMiddleware, FacadeRouteContextMiddleware and the Lua    *)
(* policy to McpFacadeProxyApp, which holds a route table while it forwards   *)
(* to the upstreams of that table and keeps their health.  A request that     *)
(* finds the reload interval over re-reads the configuration and swaps the    *)
(* table under the others.                                                   *)
(*                                                                          *)
(* The code is asyncio: what a task does between two awaits is one step.      *)
(* External: the configuration file and its editor, the operational controls  *)
(* (read at one point and arbitrary there, if their store can be read), the    *)
(* upstreams' answers, the clients, and the policy's verdict with the         *)
(* confirmation it may wait for.                                              *)
(***************************************************************************)
EXTENDS Integers, FiniteSets, FiniteSetsExt

CONSTANTS Requests,     \* connections: each carries one request after another
          Upstreams,    \* names of upstreams, numbered in the order of the table
          Versions,     \* fingerprints of an upstream's definition
          Absent,       \* ... of an upstream that a table does not have
          Layouts,      \* the route tables that the file may define
          Broken,       \* ... or no table: the file cannot be read
          Threshold,    \* failure_threshold
          Nobody,
          MaxTables,    \* bound on the tables alive at once (model only)
          MaxLeaks,     \* bound on the tables with a leaked count at once (model only)
          MaxEdits      \* bound on the edits of the file (model only)

ASSUME FacadeAssumption ==
  /\ Upstreams \subseteq Nat \ {0} /\ IsFiniteSet(Upstreams)
  /\ IsFiniteSet(Requests) /\ Nobody \notin Requests
  /\ Absent \notin Versions
  /\ Layouts \subseteq [Upstreams -> Versions \cup {Absent}]
  /\ \A l \in Layouts : \E u \in Upstreams : l[u] # Absent
  /\ Layouts # {} /\ Broken \notin Layouts
  /\ Threshold \in Nat \ {0}
  /\ MaxTables \in Nat \ {0} /\ MaxLeaks \in Nat /\ MaxEdits \in Nat

VARIABLES file,      \* the configuration file: what it defines, and how often it was edited
          due,       \* time.monotonic() >= _next_check
          lock,      \* who has the reload lock
          current,   \* _routes, by number
          tables,    \* the route tables, by number
          health,    \* _health, by name
          streak,    \* history: failures in a row of each version, up to Threshold
          pc,        \* where each request is
          read,      \* what its reload read: file and force_reload
          held,      \* the table it acquired or closes, 0 for none
          job        \* the upstreams it has to go to, and those that answered it

config == <<file, due>>
routes == <<current, tables>>
marks == <<health, streak>>
tasks == <<pc, read, held, job>>
vars == <<config, lock, routes, marks, tasks>>

Tables == 1 .. MaxTables
Empty == [u \in Upstreams |-> Absent]

\* "gone": the number is free; "closing": aclose() is under way; leaked: it counts a
\* user that is not there (one stands for all of them).
NoTable == [state |-> "gone", up |-> Empty, edit |-> 0, active |-> 0, retired |-> FALSE,
            leaked |-> FALSE]

\* cooling: retry_after is set and in the future.
Fresh(fp) == [fp |-> fp, status |-> "healthy", fails |-> 0, cooling |-> FALSE]
NoJob == [list |-> FALSE, todo |-> {}, off |-> {}, ok |-> {}]
NothingRead == [what |-> Broken, edit |-> 0, force |-> FALSE]

TypeOK ==
  /\ file \in [what : Layouts \cup {Broken}, edit : 0 .. MaxEdits]
  /\ due \in BOOLEAN
  /\ lock \in Requests \cup {Nobody}
  /\ current \in Tables
  /\ tables \in [Tables -> [state : {"gone", "live", "closing"}, up : Layouts \cup {Empty},
                            edit : 0 .. MaxEdits, active : 0 .. Cardinality(Requests) + 1,
                            retired : BOOLEAN, leaked : BOOLEAN]]
  /\ health \in [Upstreams -> [fp : Versions \cup {Absent},
                               status : {"healthy", "degraded", "unhealthy"},
                               fails : 0 .. Threshold, cooling : BOOLEAN]]
  /\ streak \in [Upstreams -> [Versions -> 0 .. Threshold]]
  /\ pc \in [Requests -> {"idle", "lock", "load", "loaded", "retire", "body", "policy",
                          "forward", "leave", "close"}]
  /\ read \in [Requests -> [what : Layouts \cup {Broken}, edit : 0 .. MaxEdits, force : BOOLEAN]]
  /\ held \in [Requests -> 0 .. MaxTables]
  /\ job \in [Requests -> [list : BOOLEAN, todo : SUBSET Upstreams, off : SUBSET Upstreams,
                           ok : SUBSET Upstreams]]

Init ==
  /\ \E l \in Layouts :
       /\ file = [what |-> l, edit |-> 0]
       /\ tables = [t \in Tables |->
                      IF t = 1 THEN [NoTable EXCEPT !.state = "live", !.up = l] ELSE NoTable]
       /\ health = [u \in Upstreams |-> Fresh(l[u])]
  /\ due = TRUE /\ lock = Nobody /\ current = 1
  /\ streak = [u \in Upstreams |-> [v \in Versions |-> 0]]
  /\ pc = [r \in Requests |-> "idle"]
  /\ read = [r \in Requests |-> NothingRead]
  /\ held = [r \in Requests |-> 0]
  /\ job = [r \in Requests |-> NoJob]

Goto(r, l) == pc' = [pc EXCEPT ![r] = l]
-------------------------------------------------------------------------------
(* Time and the operator.                                                   *)

IntervalOver ==
  /\ ~due /\ due' = TRUE
  /\ UNCHANGED <<file, lock, routes, marks, tasks>>

Edit ==
  /\ file.edit < MaxEdits
  /\ \E w \in Layouts \cup {Broken} :
       w # file.what /\ file' = [what |-> w, edit |-> file.edit + 1]
  /\ UNCHANGED <<due, lock, routes, marks, tasks>>

CooldownOver(u) ==
  /\ health[u].cooling
  /\ health' = [health EXCEPT ![u].cooling = FALSE]
  /\ UNCHANGED <<config, lock, routes, streak, tasks>>
-------------------------------------------------------------------------------
(* Health, as of table t.                                                    *)

Names(l) == {u \in Upstreams : l[u] # Absent}

\* Mutant: the entry is found by its name alone.
Entry_ByName(h, l, u) == IF h[u].fp # Absent THEN h[u] ELSE Fresh(l[u])

\* _health_state: an entry for another definition of the upstream is replaced.
Entry(h, l, u) == IF h[u].fp = l[u] THEN h[u] ELSE Fresh(l[u])

\* Looking at the health of some upstreams writes it.
Looked(h, l, us) == [u \in Upstreams |-> IF u \in us THEN Entry(h, l, u) ELSE h[u]]

\* _sync_health_upstreams
Synced(h, l) == [u \in Upstreams |-> IF l[u] = Absent THEN Fresh(Absent) ELSE Entry(h, l, u)]

\* _should_route_upstream, with excluded unhealthy upstreams, no control in the way
ShouldRoute(h, l, u) ==
  LET e == Entry(h, l, u) IN ~(e.status = "unhealthy" /\ e.cooling)

\* _record_upstream_failure; failures beyond the threshold are not told apart.
WithFailure(e) ==
  LET n == Min({e.fails + 1, Threshold})
  IN  [e EXCEPT !.fails = n,
                !.status = IF n = Threshold THEN "unhealthy" ELSE "degraded",
                !.cooling = n = Threshold]

\* The health after the upstreams `bad` failed and `good` succeeded, all looked at.
Outcome(l, h, good, bad) ==
  [u \in Upstreams |->
     IF u \in bad THEN WithFailure(Entry(h, l, u))
     ELSE IF u \in good THEN Fresh(l[u])       \* _record_upstream_success
     ELSE h[u]]

\* ... are recorded, and those in `seen` looked at.
Record(l, seen, good, bad) ==
  /\ health' = Looked(Outcome(l, health, good, bad), l, seen)
  /\ streak' = [u \in Upstreams |-> [v \in Versions |->
                  IF u \in bad /\ v = l[u] THEN Min({streak[u][v] + 1, Threshold})
                  ELSE IF u \in good /\ v = l[u] THEN 0
                  ELSE streak[u][v]]]
-------------------------------------------------------------------------------
(* FabricConfigReloadMiddleware.                                            *)

Arrive(r) ==
  /\ pc[r] = "idle"
  /\ Goto(r, IF due THEN "lock" ELSE "body")
  /\ UNCHANGED <<config, lock, routes, marks, read, held, job>>

\* Mutant: nobody waits for the reload that is under way.
StartReload_NoLock(r) ==
  /\ pc[r] = "lock" /\ due
  /\ lock' = r /\ due' = FALSE
  /\ \E f \in BOOLEAN : read' = [read EXCEPT ![r] = [NothingRead EXCEPT !.force = f]]
  /\ Goto(r, "load")
  /\ UNCHANGED <<file, routes, marks, held, job>>

\* The request gets the lock and the interval is over: the controls are read,
\* then the file, in a thread.
StartReload(r) ==
  /\ pc[r] = "lock" /\ lock = Nobody /\ due
  /\ lock' = r /\ due' = FALSE
  /\ \E f \in BOOLEAN : read' = [read EXCEPT ![r] = [NothingRead EXCEPT !.force = f]]
  /\ Goto(r, "load")
  /\ UNCHANGED <<file, routes, marks, held, job>>

\* ... or the store of the controls cannot be read: the old table stays.
ControlsUnread(r) ==
  /\ pc[r] = "lock" /\ lock = Nobody /\ due
  /\ due' = FALSE
  /\ Goto(r, "body")
  /\ UNCHANGED <<file, lock, routes, marks, read, held, job>>

\* ... or another request has reloaded meanwhile.
SkipReload(r) ==
  /\ pc[r] = "lock" /\ lock = Nobody /\ ~due
  /\ Goto(r, "body")
  /\ UNCHANGED <<config, lock, routes, marks, read, held, job>>

Load(r) ==
  /\ pc[r] = "load"
  /\ read' = [read EXCEPT ![r].what = file.what, ![r].edit = file.edit]
  /\ Goto(r, "loaded")
  /\ UNCHANGED <<config, lock, routes, marks, held, job>>

\* The reload is over and the request goes on.
Reloaded(r) ==
  /\ lock' = Nobody
  /\ read' = [read EXCEPT ![r] = NothingRead]
  /\ Goto(r, "body")

\* Mutant: the failed load leaves without the lock.
LoadFails_KeepsLock(r) ==
  /\ pc[r] = "loaded" /\ read[r].what = Broken
  /\ read' = [read EXCEPT ![r] = NothingRead]
  /\ Goto(r, "body")
  /\ UNCHANGED <<config, lock, routes, marks, held, job>>

\* The file cannot be read or defines no table: the old one stays.
LoadFails(r) ==
  /\ pc[r] = "loaded" /\ read[r].what = Broken
  /\ Reloaded(r)
  /\ UNCHANGED <<config, routes, marks, held, job>>

\* Mutant: only the names of the upstreams are compared.
Changed_Names(r) == read[r].force \/ Names(read[r].what) # Names(tables[current].up)

\* The fingerprints differ, or the controls ask for a reload.
Changed(r) == read[r].force \/ read[r].what # tables[current].up

\* reload_upstreams: the fingerprint is the old one.
SameRoutes(r) ==
  /\ pc[r] = "loaded" /\ read[r].what # Broken /\ ~Changed(r)
  /\ Reloaded(r)
  /\ UNCHANGED <<config, routes, marks, held, job>>

\* Mutant: the old table is closed whoever still uses it.
Retired_AtOnce(t) == [t EXCEPT !.retired = TRUE, !.state = "closing"]

\* Mutant: a table in use is not marked.
Retired_Unmarked(t) == IF t.active = 0 THEN [t EXCEPT !.state = "closing"] ELSE t

\* _retire_routes: a table that nobody uses is closed at once.
Retired(t) == [t EXCEPT !.retired = TRUE,
                        !.state = IF t.active = 0 THEN "closing" ELSE "live"]

\* A retired table with a user that is not there: nothing comes back to it, so that
\* its number can be given to another.
Forgotten(t) == t.retired /\ t.leaked /\ t.active = 1

\* reload_upstreams: the new table is in place before the old one is retired.
SwapRoutes(r) ==
  /\ pc[r] = "loaded" /\ read[r].what # Broken /\ Changed(r)
  /\ \E n \in {t \in Tables : tables[t].state = "gone" \/ Forgotten(tables[t])} :
       /\ current' = n
       /\ tables' = [tables EXCEPT ![n] = [NoTable EXCEPT !.state = "live", !.up = read[r].what,
                                                         !.edit = read[r].edit],
                                   ![current] = Retired(tables[current])]
  /\ health' = Synced(health, read[r].what)
  /\ IF tables'[current].state = "closing"
     THEN /\ held' = [held EXCEPT ![r] = current]
          /\ Goto(r, "retire")
          /\ UNCHANGED <<lock, read>>
     ELSE Reloaded(r) /\ UNCHANGED held
  /\ UNCHANGED <<config, streak, job>>

\* The clients and bridges of the old table are closed.
OldRoutesClosed(r) ==
  /\ pc[r] = "retire"
  /\ tables' = [tables EXCEPT ![held[r]] = NoTable]
  /\ held' = [held EXCEPT ![r] = 0]
  /\ Reloaded(r)
  /\ UNCHANGED <<config, current, marks, job>>
-------------------------------------------------------------------------------
(* The policy: FacadeRouteContextMiddleware and LuaMiddleware.               *)

\* The body is there: the policy is told of the upstream that the table in use has
\* for the request, and deliberates, or has a person asked.
Describe(r) ==
  /\ pc[r] = "body"
  /\ Goto(r, "policy")
  /\ UNCHANGED <<config, lock, routes, marks, read, held, job>>

\* The policy, or the person it asks, says no.
PolicyRefuses(r) ==
  /\ pc[r] = "policy"
  /\ Goto(r, "idle")
  /\ UNCHANGED <<config, lock, routes, marks, read, held, job>>
-------------------------------------------------------------------------------
(* McpFacadeProxyApp: a request that the policy lets through.                *)

\* Mutant: the request is not counted.
Acquired_Uncounted(r) ==
  /\ held' = [held EXCEPT ![r] = current]
  /\ UNCHANGED tables

\* _acquire_routes
Acquired(r) ==
  /\ held' = [held EXCEPT ![r] = current]
  /\ tables' = [tables EXCEPT ![current].active = @ + 1]

\* Counted, and then the store of the controls cannot be read: the request fails
\* before the try whose end would release the table.
ControlsFail(r) ==
  /\ pc[r] = "policy"
  /\ tables[current].leaked \/ Cardinality({t \in Tables : tables[t].leaked}) < MaxLeaks
  /\ tables' = IF tables[current].leaked THEN tables
               ELSE [tables EXCEPT ![current].active = @ + 1, ![current].leaked = TRUE]
  /\ Goto(r, "idle")
  /\ UNCHANGED <<config, lock, current, marks, read, held, job>>

Up == tables[current].up

\* The request is turned away before it is routed: by a lease, progress,
\* resource or completion policy, or because it has no upstream.
AcquireRefused(r) ==
  /\ pc[r] = "policy"
  /\ Acquired(r)
  /\ Goto(r, "leave")
  /\ UNCHANGED <<config, lock, current, marks, read, job>>

\* One upstream, by tool name: off by control, unhealthy, or asked.  The
\* metadata of a refusal look at the health of all.
AcquireCall(r) ==
  /\ pc[r] = "policy"
  /\ Acquired(r)
  /\ \E u \in Names(Up), off \in SUBSET Upstreams :
       \/ /\ u \in off \/ ~ShouldRoute(health, Up, u)
          /\ health' = Looked(health, Up, Names(Up))
          /\ Goto(r, "leave")
          /\ UNCHANGED job
       \/ /\ u \notin off /\ ShouldRoute(health, Up, u)
          /\ health' = Looked(health, Up, {u})
          /\ \/ Goto(r, "leave") /\ UNCHANGED job      \* no lease, or the wrong schema
             \/ /\ job' = [job EXCEPT ![r] = [NoJob EXCEPT !.todo = {u}]]
                /\ Goto(r, "forward")
  /\ UNCHANGED <<config, lock, current, streak, read>>

\* Any other method goes to the default upstream, whatever the controls say.
AcquireDefault(r) ==
  /\ pc[r] = "policy"
  /\ Acquired(r)
  /\ LET u == Min(Names(Up)) IN
       IF ShouldRoute(health, Up, u)
       THEN /\ health' = Looked(health, Up, {u})
            /\ job' = [job EXCEPT ![r] = [NoJob EXCEPT !.todo = {u}]]
            /\ Goto(r, "forward")
       ELSE /\ health' = Looked(health, Up, Names(Up))
            /\ Goto(r, "leave")
            /\ UNCHANGED job
  /\ UNCHANGED <<config, lock, current, streak, read>>

\* tools/list: the upstreams of `todo` that are neither off nor unhealthy are
\* asked one after the other; `bad` have just failed.  Their failures are
\* recorded at once; the answers are looked into when all have answered.
FanOut(r, l, todo, off, ok, bad) ==
  LET open == {u \in todo \ off : ShouldRoute(health, l, u)}
  IN  \/ /\ open # {}
         /\ Record(l, {u \in todo \ off : u <= Min(open)}, {}, bad)
         /\ job' = [job EXCEPT ![r] = [list |-> TRUE, todo |-> {u \in todo : u >= Min(open)},
                                      off |-> off, ok |-> ok]]
         /\ Goto(r, "forward")
      \/ /\ open = {}
         /\ \E good \in SUBSET ok : Record(l, Names(l), good, bad \cup (ok \ good))
         /\ job' = [job EXCEPT ![r] = NoJob]
         /\ Goto(r, "leave")

AcquireList(r) ==
  /\ pc[r] = "policy"
  /\ Acquired(r)
  /\ \E off \in SUBSET Names(Up) : FanOut(r, Up, Names(Up), off, {}, {})
  /\ UNCHANGED <<config, lock, current, read>>
-------------------------------------------------------------------------------
(* The answer of an upstream, by the table that the request holds.           *)

Asked(r) == Min(job[r].todo)
Of(r) == tables[held[r]].up

\* A call or another method: the outcome is recorded and the request answered.
Return(r) ==
  /\ pc[r] = "forward" /\ ~job[r].list
  /\ \E good \in SUBSET {Asked(r)} : Record(Of(r), Names(Of(r)), good, {Asked(r)} \ good)
  /\ job' = [job EXCEPT ![r] = NoJob]
  /\ Goto(r, "leave")
  /\ UNCHANGED <<config, lock, routes, read, held>>

\* An answer or a failure in the fan-out, and the next upstream.
ReturnList(r) ==
  /\ pc[r] = "forward" /\ job[r].list
  /\ LET u == Asked(r) IN
       \E bad \in SUBSET {u} :
         FanOut(r, Of(r), job[r].todo \ {u}, job[r].off, job[r].ok \cup ({u} \ bad), bad)
  /\ UNCHANGED <<config, lock, routes, read, held>>

\* A stream: the first failure ends the fan-out, and the answers are lost.
StreamFails(r) ==
  /\ pc[r] = "forward" /\ job[r].list
  /\ Record(Of(r), Names(Of(r)), {}, {Asked(r)})
  /\ job' = [job EXCEPT ![r] = NoJob]
  /\ Goto(r, "leave")
  /\ UNCHANGED <<config, lock, routes, read, held>>

\* A stream is cancelled (its client left, its lifetime is over): no outcome.
Cancel(r) ==
  /\ pc[r] = "forward"
  /\ job' = [job EXCEPT ![r] = NoJob]
  /\ Goto(r, "leave")
  /\ UNCHANGED <<config, lock, routes, marks, read, held>>
-------------------------------------------------------------------------------
(* The end of a request.                                                    *)

\* _release_routes: the last user of a retired table closes it.
Leave(r) ==
  /\ pc[r] = "leave"
  /\ LET t == tables[held[r]]
         last == t.retired /\ t.active = 1
     IN  /\ tables' = [tables EXCEPT ![held[r]].active = @ - 1,
                                     ![held[r]].state = IF last THEN "closing" ELSE @]
         /\ Goto(r, IF last THEN "close" ELSE "idle")
         /\ held' = [held EXCEPT ![r] = IF last THEN @ ELSE 0]
  /\ UNCHANGED <<config, lock, current, marks, read, job>>

\* The table is closed (or what is left of it given up, if that is cancelled).
Closed(r) ==
  /\ pc[r] = "close"
  /\ tables' = [tables EXCEPT ![held[r]] = NoTable]
  /\ held' = [held EXCEPT ![r] = 0]
  /\ Goto(r, "idle")
  /\ UNCHANGED <<config, lock, current, marks, read, job>>
-------------------------------------------------------------------------------
Reload(r) ==
  \/ StartReload(r) \/ ControlsUnread(r) \/ SkipReload(r) \/ Load(r)
  \/ LoadFails(r) \/ SameRoutes(r) \/ SwapRoutes(r) \/ OldRoutesClosed(r)
Handle(r) ==
  \/ Describe(r) \/ PolicyRefuses(r) \/ ControlsFail(r)
  \/ AcquireRefused(r) \/ AcquireCall(r) \/ AcquireDefault(r) \/ AcquireList(r)
  \/ Return(r) \/ ReturnList(r) \/ StreamFails(r) \/ Leave(r) \/ Closed(r)

Next ==
  \/ IntervalOver \/ Edit
  \/ \E u \in Upstreams : CooldownOver(u)
  \/ \E r \in Requests : Arrive(r) \/ Reload(r) \/ Handle(r) \/ Cancel(r)

\* Time passes; a reload and the close of a table end; asyncio.Lock serves its waiters
\* in turn.  Of the other steps of a request nothing is assumed: no timeout bounds how
\* long its client keeps it waiting for the body, or takes to read what it is sent.
Fairness ==
  /\ WF_vars(IntervalOver)
  /\ \A r \in Requests : WF_vars(Reload(r)) /\ WF_vars(Closed(r))
                        /\ SF_vars(StartReload(r) \/ ControlsUnread(r) \/ SkipReload(r))

Spec == Init /\ [][Next]_vars /\ Fairness
-------------------------------------------------------------------------------
Users(t) == {r \in Requests : held[r] = t /\ pc[r] \in {"forward", "leave"}}
Closers(t) == {r \in Requests : held[r] = t /\ pc[r] \in {"retire", "close"}}

\* The table of a request in flight is not closed under it, however many reloads
\* pass: "In-flight requests keep the route snapshot they started with"
\* (docs/mcp-proxy.md:425), by the count of _acquire_routes/_release_routes.
\* Beside its users a table counts at most the requests that could not read the
\* controls.
SnapshotStands ==
  /\ tables[current].state = "live"
  /\ \A t \in Tables :
       /\ tables[t].active = Cardinality(Users(t)) + (IF tables[t].leaked THEN 1 ELSE 0)
       /\ tables[t].active > 0 => tables[t].state = "live"

\* A replaced table that is not closed yet has a user, and is closed by exactly one
\* task, never twice; only the count that a failed reading of the controls left
\* behind keeps a table for good.
NoTableLeft ==
  \A t \in Tables \ {current} :
    /\ tables[t].state = "live" => tables[t].retired /\ (Users(t) # {} \/ tables[t].leaked)
    /\ tables[t].state = "closing" <=> Cardinality(Closers(t)) = 1
    /\ Cardinality(Closers(t)) <= 1

\* An upstream is held unhealthy only for failures in a row of the definition it
\* has: neither a new definition nor a success in between is blamed, although
\* answers of an old table arrive at any time after a reload (_health_state).
NotBlamed ==
  \A u \in Upstreams :
    health[u].fp # Absent =>
      /\ health[u].fails <= streak[u][health[u].fp]
      /\ health[u].status = "unhealthy" => streak[u][health[u].fp] = Threshold

\* A slow reload never puts an older reading of the file over a newer one.
ReloadOrder == [][tables'[current'].edit >= tables[current].edit]_vars

\* A request whose own client sends its body and takes what it is sent ends (its
\* policy and upstreams have timeouts): nobody waits for ever for the reload lock,
\* however long the clients of other requests take.
RequestsEnd ==
  \A r \in Requests : WF_vars(Handle(r)) => (pc[r] # "idle" ~> pc[r] = "idle")

\* While requests come, and the controls can be read from some time on, the table in
\* use becomes, and stays, what a readable file defines.
FollowsFile ==
  /\ []<><<\E r \in Requests : Arrive(r)>>_vars
  /\ <>[][\A r \in Requests : ~ControlsUnread(r)]_vars
  => <>[](file.what # Broken => tables[current].up = file.what)
================================================================================
