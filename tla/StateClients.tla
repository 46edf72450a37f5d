----------------------------- MODULE StateClients -----------------------------
(***************************************************************************)
(* The processes that share one policy state store (state.py), with the     *)
(* steps that reach the store one by one:                                   *)
(*  - member agents and operators, who change the registry of fabric        *)
(*    members in a loop of get and compare-and-swap (fabric_members.py);    *)
(*  - gateway workers, which for every request look up the cooldown of a     *)
(*    denied caller, and count denials (policy_backoff.py) and rate-limited  *)
(*    requests (middleware.py).                                              *)
(* A store is SQLite or Redis.  In SQLite get() is a SELECT and, for a row    *)
(* that has expired, a DELETE of whatever is then under the key; cas() and    *)
(* incr() are transactions.  In Redis keys expire by themselves and incr() is *)
(* an INCRBY and an EXPIRE.                                                   *)
(***************************************************************************)
EXTENDS Naturals, FiniteSets

CONSTANTS
  Members, MemberTTL,   \* see Membership
  Agents,               \* processes that register, heartbeat and unregister
  Workers,              \* gateway processes, one request at a time each
  Tries,                \* rounds of the registry's loop: 8 in the code
  Window,               \* length of a rate-limit bucket, in ticks
  Limit,                \* requests allowed in a bucket
  BaseSeconds, Factor, MaxSeconds, DenyWindow,   \* [mcp.policy_backoff]
  MaxTime, MaxCalls     \* bounds: the clock, calls and requests made

ASSUME StateClientsAssumption ==
  /\ IsFiniteSet(Workers)
  /\ MemberTTL \in Nat \ {0} /\ Tries \in Nat \ {0}
  /\ Window \in Nat \ {0} /\ Limit \in Nat \ {0}
  /\ BaseSeconds \in Nat \ {0} /\ Factor \in Nat \ {0}
  /\ MaxSeconds \in Nat \ {0} /\ DenyWindow \in Nat \ {0}
  /\ MaxTime \in Nat /\ MaxCalls \in Nat

\* Arithmetic, stated because the provers know nothing of powers.
ASSUME PowersAssumption == \A n \in 0 .. MaxCalls : Factor ^ n \in Nat

VARIABLES
  kind,       \* the store behind all of it
  now,
  registry,   \* the members, and the time stamp that makes each text unique
  counters,   \* bucket -> its item under rate_limit:<key>:<bucket>
  deny,       \* the record of denials with their reason
  lookup,     \* the record a request without a decision finds
  pc,         \* where each process is
  call,       \* agent -> the operation and member of its call
  raw,        \* agent -> the registry it read
  new,        \* agent -> the members it is about to write
  tries,      \* agent -> swaps it has lost
  at,         \* worker -> its clock reading
  count,      \* worker -> the number of denials it is about to write
  calls,      \* calls and requests so far
  allowed,    \* history: bucket -> requests let through
  late,       \* history: buckets with an increment over a window after its clock reading
  denied      \* history: the last denial by the policy

regVars == <<registry, call, raw, new, tries>>
reqVars == <<counters, deny, lookup, at, count, allowed, late, denied>>
vars == <<kind, now, pc, calls, regVars, reqVars>>

M == INSTANCE Membership WITH members <- registry.members
Operations == {"register", "heartbeat", "unregister"}
NoCall == <<>>
Registries == [members : [Members -> M!MemberRecords], stamp : Nat]
NoMembers == [members |-> [m \in Members |-> M!Unknown], stamp |-> 0]

\* An item with a lifetime; one that has run out is not found any more.
Live(item) == now < item.expires
Forever == MaxTime + 1
NoCounter == [value |-> 0, expires |-> 0]
NoRecord == [count |-> 0, until |-> 0, expires |-> 0]
Buckets == 0 .. MaxTime \div Window

\* Where a process can be: in the loop of the registry, or elsewhere.
LoopLabels == {"get", "cas"}
RequestLabels == {"idle", "preflight", "purge_lookup", "policy", "read_deny", "purge_deny",
                  "put_deny", "put_lookup", "incr", "expire"}

TypeOK ==
  /\ kind \in {"sqlite", "redis"}
  /\ now \in 0 .. MaxTime
  /\ registry \in Registries
  /\ counters \in [Buckets -> [value : 0 .. MaxCalls, expires : Nat]]
  /\ {deny, lookup} \subseteq [count : 0 .. MaxCalls, until : Nat, expires : Nat]
  /\ pc \in [Agents \cup Workers -> LoopLabels \cup RequestLabels]
  /\ call \in [Agents -> (Operations \X Members) \cup {NoCall}]
  /\ raw \in [Agents -> Registries]
  /\ new \in [Agents -> [Members -> M!MemberRecords]]
  /\ tries \in [Agents -> 0 .. Tries - 1]
  /\ at \in [Workers -> 0 .. MaxTime]
  /\ count \in [Workers -> 0 .. MaxCalls]
  /\ calls \in 0 .. MaxCalls
  /\ allowed \in [Buckets -> 0 .. MaxCalls] /\ late \subseteq Buckets
  /\ denied \in 0 .. MaxTime

Init ==
  /\ kind \in {"sqlite", "redis"}
  /\ now = 0
  /\ registry = NoMembers
  /\ counters = [b \in Buckets |-> NoCounter]
  /\ deny = NoRecord /\ lookup = NoRecord
  /\ pc = [p \in Agents \cup Workers |-> "idle"]
  /\ call = [a \in Agents |-> NoCall]
  /\ raw = [a \in Agents |-> NoMembers]
  /\ new = [a \in Agents |-> NoMembers.members]
  /\ tries = [a \in Agents |-> 0]
  /\ at = [w \in Workers |-> 0]
  /\ count = [w \in Workers |-> 0]
  /\ calls = 0
  /\ allowed = [b \in Buckets |-> 0] /\ late = {}
  /\ denied = 0

Goto(p, label) == pc' = [pc EXCEPT ![p] = label]
-------------------------------------------------------------------------------
(* The registry of fabric members                                            *)

\* The call returns or raises, and its variables are gone.
Return(a) ==
  /\ call' = [call EXCEPT ![a] = NoCall]
  /\ raw' = [raw EXCEPT ![a] = NoMembers]
  /\ new' = [new EXCEPT ![a] = NoMembers.members]
  /\ tries' = [tries EXCEPT ![a] = 0]
  /\ Goto(a, "idle")

Call(a) ==
  /\ pc[a] = "idle" /\ calls < MaxCalls
  /\ \E op \in Operations, m \in Members : call' = [call EXCEPT ![a] = <<op, m>>]
  /\ calls' = calls + 1
  /\ Goto(a, "get")
  /\ UNCHANGED <<kind, now, registry, raw, new, tries, reqVars>>

\* The update a call makes to the document it read: a heartbeat or departure
\* of a member it does not find changes nothing.
Update(op, m, members) ==
  IF op # "register" /\ members[m] = M!Unknown THEN members
  ELSE [members EXCEPT ![m] =
          IF op = "unregister" THEN [status |-> "left", expires |-> now]
          ELSE [status |-> "active", expires |-> now + MemberTTL]]

Get(a) ==
  /\ pc[a] = "get"
  /\ raw' = [raw EXCEPT ![a] = registry]
  /\ new' = [new EXCEPT ![a] = Update(call[a][1], call[a][2], registry.members)]
  /\ Goto(a, "cas")
  /\ UNCHANGED <<kind, now, registry, call, tries, calls, reqVars>>

\* A plausible bug: the document is put back without a comparison.
Swap_Put(a) ==
  /\ pc[a] = "cas"
  /\ registry' = [members |-> new[a], stamp |-> registry.stamp + 1]
  /\ Return(a)
  /\ UNCHANGED <<kind, now, calls, reqVars>>

\* The text under the key is still the one that was read.
Swap(a) ==
  /\ pc[a] = "cas" /\ registry = raw[a]
  /\ registry' = [members |-> new[a],
                  stamp |-> IF new[a] = raw[a].members THEN registry.stamp ELSE registry.stamp + 1]
  /\ Return(a)
  /\ UNCHANGED <<kind, now, calls, reqVars>>

\* A plausible bug: one round too many.
SwapLost_OneMore(a) ==
  /\ pc[a] = "cas" /\ registry # raw[a]
  /\ tries[a] + 1 <= Tries
  /\ tries' = [tries EXCEPT ![a] = @ + 1]
  /\ Goto(a, "get")
  /\ UNCHANGED <<kind, now, registry, call, raw, new, calls, reqVars>>

\* Another round, or RuntimeError("fabric member registry update contended").
SwapLost(a) ==
  /\ pc[a] = "cas" /\ registry # raw[a]
  /\ \/ /\ tries[a] + 1 < Tries
        /\ tries' = [tries EXCEPT ![a] = @ + 1]
        /\ Goto(a, "get")
        /\ UNCHANGED <<call, raw, new>>
     \/ /\ tries[a] + 1 = Tries
        /\ Return(a)
  /\ UNCHANGED <<kind, now, registry, calls, reqVars>>

\* The agent is interrupted, or the store fails its operation.
AgentAborts(a) ==
  /\ pc[a] # "idle"
  /\ Return(a)
  /\ UNCHANGED <<kind, now, registry, calls, reqVars>>

AgentNext(a) == Call(a) \/ Get(a) \/ Swap(a) \/ SwapLost(a) \/ AgentAborts(a)
-------------------------------------------------------------------------------
(* Requests at the gateway                                                   *)

\* The request is answered, and its variables are gone.
Answer(w) ==
  /\ at' = [at EXCEPT ![w] = 0]
  /\ count' = [count EXCEPT ![w] = 0]
  /\ Goto(w, "idle")

Arrive(w) ==
  /\ pc[w] = "idle" /\ calls < MaxCalls
  /\ calls' = calls + 1
  /\ Goto(w, "preflight")
  /\ UNCHANGED <<kind, now, regVars, reqVars>>

Cooling == Live(lookup) /\ now < lookup.until

\* get() of SQLite: the row has expired and is deleted in a step of its own.
Stale(record) == kind = "sqlite" /\ record # NoRecord /\ ~Live(record)

\* A plausible bug: the refusal counts as another denial.
Refused_Records(w) ==
  /\ pc[w] = "preflight" /\ Cooling
  /\ at' = [at EXCEPT ![w] = now]
  /\ Goto(w, "read_deny")
  /\ UNCHANGED <<kind, now, calls, regVars, counters, deny, lookup, count, allowed, late, denied>>

\* The caller is still cooling down: 429 without running the policy.
Refused(w) ==
  /\ pc[w] = "preflight" /\ Cooling
  /\ Answer(w)
  /\ UNCHANGED <<kind, now, calls, regVars, counters, deny, lookup, allowed, late, denied>>

Preflight(w) ==
  /\ pc[w] = "preflight" /\ ~Cooling
  /\ Goto(w, IF Stale(lookup) THEN "purge_lookup" ELSE "policy")
  /\ UNCHANGED <<kind, now, calls, regVars, reqVars>>

PurgeLookup(w) ==
  /\ pc[w] = "purge_lookup"
  /\ lookup' = NoRecord
  /\ Goto(w, "policy")
  /\ UNCHANGED <<kind, now, calls, regVars, counters, deny, at, count, allowed, late, denied>>

\* The policy, and the person it may ask, lets the request through, ...
Passed(w) ==
  /\ pc[w] = "policy"
  /\ Answer(w)
  /\ UNCHANGED <<kind, now, calls, regVars, counters, deny, lookup, allowed, late, denied>>

\* ... rejects or challenges it, ...
Denied(w) ==
  /\ pc[w] = "policy"
  /\ at' = [at EXCEPT ![w] = now]
  /\ denied' = now
  /\ Goto(w, "read_deny")
  /\ UNCHANGED <<kind, now, calls, regVars, counters, deny, lookup, count, allowed, late>>

\* ... or asks for a rate limit.
Limited(w) ==
  /\ pc[w] = "policy"
  /\ at' = [at EXCEPT ![w] = now]
  /\ Goto(w, "incr")
  /\ UNCHANGED <<kind, now, calls, regVars, counters, deny, lookup, count, allowed, late, denied>>

ReadDeny(w) ==
  /\ pc[w] = "read_deny"
  /\ count' = [count EXCEPT ![w] = IF Live(deny) THEN deny.count + 1 ELSE 1]
  /\ Goto(w, IF Stale(deny) THEN "purge_deny" ELSE "put_deny")
  /\ UNCHANGED <<kind, now, calls, regVars, counters, deny, lookup, at, allowed, late, denied>>

PurgeDeny(w) ==
  /\ pc[w] = "purge_deny"
  /\ deny' = NoRecord
  /\ Goto(w, "put_deny")
  /\ UNCHANGED <<kind, now, calls, regVars, counters, lookup, at, count, allowed, late, denied>>

Smaller(x, y) == IF x < y THEN x ELSE y
Larger(x, y) == IF x < y THEN y ELSE x

\* base * factor ^ (count - 1), cut at the maximum; jitter is left out.
DelaySeconds(n) == Smaller(MaxSeconds, BaseSeconds * Factor ^ (n - 1))

DenyRecord(w) ==
  [count |-> count[w],
   until |-> at[w] + DelaySeconds(count[w]),
   expires |-> now + Larger(DenyWindow, DelaySeconds(count[w]))]

PutDeny(w) ==
  /\ pc[w] = "put_deny"
  /\ deny' = DenyRecord(w)
  /\ Goto(w, "put_lookup")
  /\ UNCHANGED <<kind, now, calls, regVars, counters, lookup, at, count, allowed, late, denied>>

PutLookup(w) ==
  /\ pc[w] = "put_lookup"
  /\ lookup' = DenyRecord(w)
  /\ Answer(w)
  /\ UNCHANGED <<kind, now, calls, regVars, counters, deny, allowed, late, denied>>

Bucket(w) == at[w] \div Window
CounterTTL_OneWindow == Window
CounterTTL == 2 * Window

\* The request is let through when the count is within the limit.
Counted(w, value, expires) ==
  /\ counters' = [counters EXCEPT ![Bucket(w)] = [value |-> value, expires |-> expires]]
  /\ allowed' = [allowed EXCEPT ![Bucket(w)] = @ + (IF value <= Limit THEN 1 ELSE 0)]
  /\ late' = IF at[w] + Window < now THEN late \cup {Bucket(w)} ELSE late
  /\ UNCHANGED <<kind, now, calls, regVars, deny, lookup, denied>>

CounterValue(w) ==
  IF Live(counters[Bucket(w)]) THEN counters[Bucket(w)].value + 1 ELSE 1

\* One transaction of SQLite ...
Incr(w) ==
  /\ pc[w] = "incr" /\ kind = "sqlite"
  /\ Counted(w, CounterValue(w), now + CounterTTL)
  /\ Answer(w)

\* ... or INCRBY, which keeps the lifetime of the key, and EXPIRE.
IncrBy(w) ==
  /\ pc[w] = "incr" /\ kind = "redis"
  /\ Counted(w, CounterValue(w),
             IF Live(counters[Bucket(w)]) THEN counters[Bucket(w)].expires ELSE Forever)
  /\ Goto(w, "expire")
  /\ UNCHANGED <<at, count>>

Expire(w) ==
  /\ pc[w] = "expire"
  /\ counters' = IF Live(counters[Bucket(w)])
                 THEN [counters EXCEPT ![Bucket(w)].expires = now + CounterTTL] ELSE counters
  /\ Answer(w)
  /\ UNCHANGED <<kind, now, calls, regVars, deny, lookup, allowed, late, denied>>

\* The worker dies, or the store fails its operation: the request fails.
WorkerAborts(w) ==
  /\ pc[w] # "idle"
  /\ Answer(w)
  /\ UNCHANGED <<kind, now, calls, regVars, counters, deny, lookup, allowed, late, denied>>

WorkerNext(w) ==
  \/ Arrive(w) \/ Refused(w) \/ Preflight(w) \/ PurgeLookup(w)
  \/ Passed(w) \/ Denied(w) \/ Limited(w)
  \/ ReadDeny(w) \/ PurgeDeny(w) \/ PutDeny(w) \/ PutLookup(w)
  \/ Incr(w) \/ IncrBy(w) \/ Expire(w) \/ WorkerAborts(w)
-------------------------------------------------------------------------------
Tick ==
  /\ now < MaxTime
  /\ now' = now + 1
  /\ UNCHANGED <<kind, pc, calls, regVars, reqVars>>

Next ==
  \/ \E a \in Agents : AgentNext(a)
  \/ \E w \in Workers : WorkerNext(w)
  \/ Tick

Spec == Init /\ [][Next]_vars
-------------------------------------------------------------------------------
(* Properties                                                                *)

(* The loops over the shared store implement the atomic registry: no join,   *)
(* heartbeat or departure is lost, undone or applied to another member,      *)
(* whoever writes at the same time and whoever gives up (docs/state.md:      *)
(* remote data-plane containers register in the same store).                 *)
ImplementsMembership == M!Spec

(* A bucket never lets through more than its limit, over all gateway workers  *)
(* and both stores: the counter outlives every increment that comes within a  *)
(* window of the clock reading that chose its bucket.  SQLite gives up waiting *)
(* for its lock after 250 ms (busy_timeout) and a window is a second or more:  *)
(* there an increment is later only if its worker was held up.  A client of    *)
(* Redis waits without a timeout, and an increment that it makes later may     *)
(* find the counter gone and start it again, over the limit.                   *)
RateKept == \A b \in Buckets \ late : allowed[b] <= Limit

(* A caller that stops being denied by the policy gets through again after     *)
(* the longest delay: refusals during the cooldown do not prolong it, and no   *)
(* late write of another worker does.                                          *)
CooldownEnds == lookup.until <= denied + MaxSeconds
-------------------------------------------------------------------------------
(* The inductive invariant behind the refinement: what a call that reached   *)
(* the swap is about to write is one change of one member of what it read.   *)

\* register, and heartbeat of a member that was found.
JoinsOne(a) ==
  \E m \in Members, e \in 0 .. now + MemberTTL :
    new[a] = [raw[a].members EXCEPT ![m] = [status |-> "active", expires |-> e]]

LeavesOne(a) ==
  \E m \in Members, e \in 0 .. now :
    /\ raw[a].members[m] # M!Unknown
    /\ new[a] = [raw[a].members EXCEPT ![m] = [status |-> "left", expires |-> e]]

RoundOK(a) ==
  /\ pc[a] \in {"get", "cas"} => call[a] \in Operations \X Members
  /\ pc[a] = "cas" =>
       \/ new[a] = raw[a].members
       \/ JoinsOne(a)
       \/ LeavesOne(a)

RegistryInv ==
  /\ now \in Nat
  /\ registry \in Registries
  /\ pc \in [Agents \cup Workers -> LoopLabels \cup RequestLabels]
  /\ call \in [Agents -> (Operations \X Members) \cup {NoCall}]
  /\ raw \in [Agents -> Registries]
  /\ new \in [Agents -> [Members -> M!MemberRecords]]
  /\ \A a \in Agents : RoundOK(a)
-------------------------------------------------------------------------------
(* The inductive invariant behind the rate limit and the cooldown.           *)

\* Calls that no request has counted yet: what a count may still grow by.
Pending == {w \in Workers :
              pc[w] \in {"preflight", "purge_lookup", "policy", "read_deny", "incr"}}
Room == calls - Cardinality(Pending)

\* Every count is of requests that have come and gone through it.
CountsOK ==
  /\ deny.count <= Room /\ lookup.count <= Room
  /\ \A w \in Workers : count[w] <= Room
  /\ \A b \in Buckets : counters[b].value <= Room /\ allowed[b] <= Room

\* No clock reading is of a time to come.
ClockOK ==
  /\ denied <= now
  /\ \A w \in Workers : at[w] <= now

\* What is written of a denial is of one that the policy made.
CooldownOK ==
  /\ lookup.until <= denied + MaxSeconds
  /\ \A w \in Workers :
       /\ pc[w] \in {"read_deny", "purge_deny", "put_deny", "put_lookup"} => at[w] <= denied
       /\ pc[w] \in {"purge_deny", "put_deny", "put_lookup"} => count[w] >= 1

\* A counter outlives the increments that come for its bucket within a window, and
\* no request is let through that it has not counted.
RateOK ==
  \A b \in Buckets \ late :
    /\ allowed[b] <= counters[b].value /\ allowed[b] <= Limit
    /\ \/ counters[b] = NoCounter
       \/ counters[b].expires > MaxTime
       \/ counters[b].expires >= (b + 2) * Window

RequestInv == CountsOK /\ ClockOK /\ CooldownOK /\ RateOK
================================================================================
