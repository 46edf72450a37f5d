-------------------------- MODULE StateClientsProofs --------------------------
(***************************************************************************)
(* The registry of fabric members in a shared store is atomic, a rate limit *)
(* holds over all gateway workers and a cooldown ends, for every number of   *)
(* members, agents, workers, rounds and requests.                           *)
(***************************************************************************)
EXTENDS StateClients, FiniteSetTheorems, TLAPS

USE StateClientsAssumption DEF StateClientsAssumption, LoopLabels, RequestLabels

\* A call a step does not touch stays as it was, also while the clock runs.
LEMMA OthersKept ==
  ASSUME NEW a \in Agents, RoundOK(a), now \in Nat, now' \in Nat, now' >= now,
         pc'[a] = pc[a], call'[a] = call[a], raw'[a] = raw[a], new'[a] = new[a]
  PROVE  RoundOK(a)'
<1>1. JoinsOne(a) => JoinsOne(a)'
  <2>1. SUFFICES ASSUME NEW m \in Members, NEW e \in 0 .. now + MemberTTL,
                        new[a] = [raw[a].members EXCEPT ![m] = [status |-> "active", expires |-> e]]
                 PROVE  JoinsOne(a)'
    BY DEF JoinsOne
  <2>2. e \in 0 .. now' + MemberTTL
    OBVIOUS
  <2> QED
    BY <2>1, <2>2 DEF JoinsOne
<1>2. LeavesOne(a) => LeavesOne(a)'
  <2>1. SUFFICES ASSUME NEW m \in Members, NEW e \in 0 .. now,
                        raw[a].members[m] # M!Unknown,
                        new[a] = [raw[a].members EXCEPT ![m] = [status |-> "left", expires |-> e]]
                 PROVE  LeavesOne(a)'
    BY DEF LeavesOne
  <2>2. e \in 0 .. now'
    OBVIOUS
  <2> QED
    BY <2>1, <2>2 DEF LeavesOne, M!Unknown
<1> QED
  BY <1>1, <1>2 DEF RoundOK

\* A process that is not in the loop has nothing to keep.
LEMMA OutsideKept ==
  ASSUME NEW a \in Agents, pc'[a] \notin {"get", "cas"}
  PROVE  RoundOK(a)'
BY DEF RoundOK

\* The update a call computes is one change of one member, or none.
UpdateIsOne(op, m, members, u) ==
  /\ u \in [Members -> M!MemberRecords]
  /\ \/ u = members
     \/ u = [members EXCEPT ![m] = [status |-> "active", expires |-> now + MemberTTL]]
     \/ /\ members[m] # M!Unknown
        /\ u = [members EXCEPT ![m] = [status |-> "left", expires |-> now]]

LEMMA UpdateOne ==
  ASSUME now \in Nat
  PROVE  \A op \in Operations, m \in Members, members \in [Members -> M!MemberRecords] :
           UpdateIsOne(op, m, members, Update(op, m, members))
<1> TAKE op \in Operations, m \in Members, members \in [Members -> M!MemberRecords]
<1>1. CASE op # "register" /\ members[m] = M!Unknown
  BY <1>1 DEF Update, UpdateIsOne
<1>2. CASE op = "unregister" /\ members[m] # M!Unknown
  <2>1. Update(op, m, members) = [members EXCEPT ![m] = [status |-> "left", expires |-> now]]
    BY <1>2 DEF Update
  <2>2. [status |-> "left", expires |-> now] \in M!MemberRecords
    BY DEF M!MemberRecords
  <2> QED
    BY <1>2, <2>1, <2>2 DEF UpdateIsOne
<1>3. CASE op = "register" \/ (op = "heartbeat" /\ members[m] # M!Unknown)
  <2>1. Update(op, m, members)
          = [members EXCEPT ![m] = [status |-> "active", expires |-> now + MemberTTL]]
    BY <1>3 DEF Update
  <2>2. [status |-> "active", expires |-> now + MemberTTL] \in M!MemberRecords
    BY DEF M!MemberRecords
  <2> QED
    BY <2>1, <2>2 DEF UpdateIsOne
<1> QED
  BY <1>1, <1>2, <1>3 DEF Operations

LEMMA InitInv == Init => RegistryInv
<1>1. [m \in Members |-> M!Unknown] \in [Members -> M!MemberRecords]
  BY DEF M!Unknown, M!MemberRecords
<1>2. NoMembers \in Registries
  BY <1>1 DEF NoMembers, Registries
<1>3. NoMembers.members \in [Members -> M!MemberRecords]
  BY <1>1 DEF NoMembers
<1>4. ASSUME Init
      PROVE  /\ now \in Nat /\ registry \in Registries
             /\ pc \in [Agents \cup Workers -> LoopLabels \cup RequestLabels]
             /\ call \in [Agents -> (Operations \X Members) \cup {NoCall}]
             /\ raw \in [Agents -> Registries]
             /\ new \in [Agents -> [Members -> M!MemberRecords]]
  BY <1>2, <1>3, <1>4 DEF Init
<1>5. ASSUME Init, NEW a \in Agents PROVE RoundOK(a)
  BY <1>5 DEF Init, RoundOK
<1> QED
  BY <1>4, <1>5 DEF RegistryInv

\* No step of a request touches the loops of the agents.
LEMMA WorkerKeeps ==
  ASSUME RegistryInv, NEW w \in Workers, NEW label \in RequestLabels,
         Goto(w, label), now' = now, UNCHANGED regVars
  PROVE  RegistryInv'
<1>1. pc' \in [Agents \cup Workers -> LoopLabels \cup RequestLabels]
  BY DEF RegistryInv, Goto
<1>2. ASSUME NEW a \in Agents PROVE RoundOK(a)'
  <2>1. CASE a = w
    <3>1. pc'[a] = label
      BY <2>1 DEF RegistryInv, Goto
    <3> QED
      BY <3>1, OutsideKept
  <2>2. CASE a # w
    <3>1. pc'[a] = pc[a]
      BY <2>2 DEF RegistryInv, Goto
    <3>2. call'[a] = call[a] /\ raw'[a] = raw[a] /\ new'[a] = new[a]
      BY DEF regVars
    <3>3. RoundOK(a) /\ now \in Nat /\ now' \in Nat /\ now' >= now
      BY DEF RegistryInv
    <3> QED
      BY <3>1, <3>2, <3>3, OthersKept
  <2> QED
    BY <2>1, <2>2
<1> QED
  BY <1>1, <1>2 DEF RegistryInv, regVars, Registries, M!MemberRecords

\* A call that returns leaves the others alone.
LEMMA ReturnKeeps ==
  ASSUME RegistryInv, NEW a \in Agents, Return(a), now' = now, registry' \in Registries
  PROVE  RegistryInv'
<1>1. NoMembers \in Registries /\ NoMembers.members \in [Members -> M!MemberRecords]
  BY DEF NoMembers, Registries, M!Unknown, M!MemberRecords
<1>2. /\ pc' \in [Agents \cup Workers -> LoopLabels \cup RequestLabels]
      /\ call' \in [Agents -> (Operations \X Members) \cup {NoCall}]
      /\ raw' \in [Agents -> Registries]
      /\ new' \in [Agents -> [Members -> M!MemberRecords]]
  BY <1>1 DEF RegistryInv, Return, Goto
<1>3. ASSUME NEW b \in Agents PROVE RoundOK(b)'
  <2>1. CASE b = a
    <3>1. pc'[b] = "idle"
      BY <2>1 DEF RegistryInv, Return, Goto
    <3> QED
      BY <3>1, OutsideKept
  <2>2. CASE b # a
    <3>1. pc'[b] = pc[b] /\ call'[b] = call[b] /\ raw'[b] = raw[b] /\ new'[b] = new[b]
      BY <2>2 DEF RegistryInv, Return, Goto
    <3>2. RoundOK(b) /\ now \in Nat /\ now' \in Nat /\ now' >= now
      BY DEF RegistryInv
    <3> QED
      BY <3>1, <3>2, OthersKept
  <2> QED
    BY <2>1, <2>2
<1> QED
  BY <1>2, <1>3 DEF RegistryInv, Registries, M!MemberRecords

\* What a swap puts into the registry.
LEMMA SwapTyped ==
  ASSUME RegistryInv, NEW a \in Agents, Swap(a)
  PROVE  registry' \in Registries /\ registry'.members = new[a]
BY DEF RegistryInv, Swap, Registries

LEMMA CallKeeps ==
  ASSUME RegistryInv, NEW a \in Agents, Call(a)
  PROVE  RegistryInv'
<1>1. PICK op \in Operations, m \in Members : call' = [call EXCEPT ![a] = <<op, m>>]
  BY DEF Call
<1>2. /\ pc' \in [Agents \cup Workers -> LoopLabels \cup RequestLabels]
      /\ call' \in [Agents -> (Operations \X Members) \cup {NoCall}]
  BY <1>1 DEF RegistryInv, Call, Goto
<1>3. ASSUME NEW b \in Agents PROVE RoundOK(b)'
  <2>1. CASE b = a
    <3>1. pc'[b] = "get" /\ call'[b] = <<op, m>>
      BY <1>1, <2>1 DEF RegistryInv, Call, Goto
    <3> QED
      BY <3>1 DEF RoundOK
  <2>2. CASE b # a
    <3>1. pc'[b] = pc[b] /\ call'[b] = call[b] /\ raw'[b] = raw[b] /\ new'[b] = new[b]
      BY <1>1, <2>2 DEF RegistryInv, Call, Goto
    <3>2. RoundOK(b) /\ now \in Nat /\ now' \in Nat /\ now' >= now
      BY DEF RegistryInv, Call
    <3> QED
      BY <3>1, <3>2, OthersKept
  <2> QED
    BY <2>1, <2>2
<1> QED
  BY <1>2, <1>3 DEF RegistryInv, Call, Registries, M!MemberRecords

LEMMA GetKeeps ==
  ASSUME RegistryInv, NEW a \in Agents, Get(a)
  PROVE  RegistryInv'
<1> DEFINE op == call[a][1]
           m == call[a][2]
           u == Update(op, m, registry.members)
<1>1. call[a] \in Operations \X Members /\ registry.members \in [Members -> M!MemberRecords]
  BY DEF RegistryInv, RoundOK, Get, Registries
<1>2. UpdateIsOne(op, m, registry.members, u)
  BY <1>1, UpdateOne DEF RegistryInv
<1>3. /\ pc' \in [Agents \cup Workers -> LoopLabels \cup RequestLabels]
      /\ raw' \in [Agents -> Registries]
      /\ new' \in [Agents -> [Members -> M!MemberRecords]]
      /\ now' = now /\ registry' = registry /\ call' = call
  BY <1>2 DEF RegistryInv, Get, Goto, UpdateIsOne
<1>4. ASSUME NEW b \in Agents PROVE RoundOK(b)'
  <2>1. CASE b = a
    <3>1. pc'[b] = "cas" /\ call'[b] = call[a] /\ raw'[b] = registry /\ new'[b] = u
      BY <2>1 DEF RegistryInv, Get, Goto
    <3>2. m \in Members
      BY <1>1
    <3> HIDE DEF u, m, op
    <3>3. CASE u = registry.members
      BY <1>1, <3>1, <3>3 DEF RoundOK
    <3>4. CASE u = [registry.members EXCEPT ![m] =
                      [status |-> "active", expires |-> now + MemberTTL]]
      <4>1. now + MemberTTL \in 0 .. now' + MemberTTL
        BY <1>3 DEF RegistryInv
      <4>2. JoinsOne(b)'
        BY <3>1, <3>2, <3>4, <4>1 DEF JoinsOne
      <4> QED
        BY <1>1, <3>1, <4>2 DEF RoundOK
    <3>5. CASE /\ registry.members[m] # M!Unknown
               /\ u = [registry.members EXCEPT ![m] = [status |-> "left", expires |-> now]]
      <4>1. now \in 0 .. now'
        BY <1>3 DEF RegistryInv
      <4>2. LeavesOne(b)'
        BY <3>1, <3>2, <3>5, <4>1 DEF LeavesOne, M!Unknown
      <4> QED
        BY <1>1, <3>1, <4>2 DEF RoundOK
    <3> QED
      BY <1>2, <3>3, <3>4, <3>5 DEF UpdateIsOne
  <2>2. CASE b # a
    <3>1. pc'[b] = pc[b] /\ call'[b] = call[b] /\ raw'[b] = raw[b] /\ new'[b] = new[b]
      BY <2>2 DEF RegistryInv, Get, Goto
    <3>2. RoundOK(b) /\ now \in Nat /\ now' \in Nat /\ now' >= now
      BY <1>3 DEF RegistryInv
    <3> QED
      BY <3>1, <3>2, OthersKept
  <2> QED
    BY <2>1, <2>2
<1> QED
  BY <1>3, <1>4 DEF RegistryInv, Registries, M!MemberRecords

LEMMA SwapLostKeeps ==
  ASSUME RegistryInv, NEW a \in Agents, SwapLost(a)
  PROVE  RegistryInv'
<1>1. CASE Return(a)
  <2>1. now' = now /\ registry' \in Registries
    BY DEF RegistryInv, SwapLost
  <2> QED
    BY <1>1, <2>1, ReturnKeeps
<1>2. CASE Goto(a, "get") /\ UNCHANGED <<call, raw, new>>
  <2>1. pc' \in [Agents \cup Workers -> LoopLabels \cup RequestLabels] /\ now' = now /\ registry' = registry
    BY <1>2 DEF RegistryInv, SwapLost, Goto
  <2>2. ASSUME NEW b \in Agents PROVE RoundOK(b)'
    <3>1. CASE b = a
      BY <1>2, <3>1 DEF RegistryInv, SwapLost, Goto, RoundOK
    <3>2. CASE b # a
      <4>1. pc'[b] = pc[b] /\ call'[b] = call[b] /\ raw'[b] = raw[b] /\ new'[b] = new[b]
        BY <1>2, <3>2 DEF RegistryInv, Goto
      <4>2. RoundOK(b) /\ now \in Nat /\ now' \in Nat /\ now' >= now
        BY <2>1 DEF RegistryInv
      <4> QED
        BY <4>1, <4>2, OthersKept
    <3> QED
      BY <3>1, <3>2
  <2> QED
    BY <1>2, <2>1, <2>2 DEF RegistryInv, Registries, M!MemberRecords
<1> QED
  BY <1>1, <1>2 DEF SwapLost

LEMMA TickKeeps ==
  ASSUME RegistryInv, Tick
  PROVE  RegistryInv'
<1>1. now \in Nat /\ now' \in Nat /\ now' >= now
  BY DEF RegistryInv, Tick
<1>2. ASSUME NEW b \in Agents PROVE RoundOK(b)'
  <2>1. pc'[b] = pc[b] /\ call'[b] = call[b] /\ raw'[b] = raw[b] /\ new'[b] = new[b]
    BY DEF Tick, regVars
  <2>2. RoundOK(b)
    BY DEF RegistryInv
  <2> QED
    BY <1>1, <2>1, <2>2, OthersKept
<1> QED
  BY <1>1, <1>2 DEF RegistryInv, Tick, regVars, Registries, M!MemberRecords

\* Every step of a request moves its worker to a label outside the loop.
LEMMA WorkerSteps ==
  ASSUME NEW w \in Workers, WorkerNext(w)
  PROVE  /\ now' = now /\ UNCHANGED regVars
         /\ \E label \in RequestLabels : Goto(w, label)
<1>1. CASE Arrive(w) \/ Refused(w) \/ PurgeLookup(w) \/ Passed(w) \/ Denied(w) \/ Limited(w)
  <2>1. Goto(w, "preflight") \/ Goto(w, "idle") \/ Goto(w, "policy")
          \/ Goto(w, "read_deny") \/ Goto(w, "incr")
    BY <1>1 DEF Arrive, Refused, PurgeLookup, Passed, Denied, Limited, Answer
  <2>2. now' = now /\ UNCHANGED regVars
    BY <1>1 DEF Arrive, Refused, PurgeLookup, Passed, Denied, Limited
  <2> QED
    BY <2>1, <2>2 DEF RequestLabels
<1>2. CASE Preflight(w)
  <2>1. Goto(w, "purge_lookup") \/ Goto(w, "policy")
    BY <1>2, Zenon DEF Preflight
  <2> QED
    BY <1>2, <2>1 DEF Preflight, RequestLabels
<1>3. CASE ReadDeny(w)
  <2>1. Goto(w, "purge_deny") \/ Goto(w, "put_deny")
    BY <1>3, Zenon DEF ReadDeny
  <2> QED
    BY <1>3, <2>1 DEF ReadDeny, RequestLabels
<1>4. CASE PurgeDeny(w) \/ PutDeny(w) \/ PutLookup(w)
  <2>1. Goto(w, "put_deny") \/ Goto(w, "put_lookup") \/ Goto(w, "idle")
    BY <1>4 DEF PurgeDeny, PutDeny, PutLookup, Answer
  <2>2. now' = now /\ UNCHANGED regVars
    BY <1>4 DEF PurgeDeny, PutDeny, PutLookup
  <2> QED
    BY <2>1, <2>2 DEF RequestLabels
<1>5. CASE Incr(w) \/ IncrBy(w) \/ Expire(w) \/ WorkerAborts(w)
  <2>1. Goto(w, "expire") \/ Goto(w, "idle")
    BY <1>5, Zenon DEF Incr, IncrBy, Expire, WorkerAborts, Answer
  <2>2. now' = now /\ UNCHANGED regVars
    BY <1>5, Zenon DEF Incr, IncrBy, Expire, WorkerAborts, Counted
  <2> QED
    BY <2>1, <2>2 DEF RequestLabels
<1> QED
  BY <1>1, <1>2, <1>3, <1>4, <1>5 DEF WorkerNext

LEMMA StepInv == RegistryInv /\ [Next]_vars => RegistryInv'
<1> SUFFICES ASSUME RegistryInv, [Next]_vars PROVE RegistryInv'
  OBVIOUS
<1>1. ASSUME NEW a \in Agents, AgentNext(a) PROVE RegistryInv'
  <2>1. CASE Call(a)
    BY <2>1, CallKeeps
  <2>2. CASE Get(a)
    BY <2>2, GetKeeps
  <2>3. CASE Swap(a)
    <3>1. Return(a) /\ now' = now
      BY <2>3 DEF Swap
    <3> QED
      BY <2>3, <3>1, SwapTyped, ReturnKeeps
  <2>4. CASE SwapLost(a)
    BY <2>4, SwapLostKeeps
  <2>5. CASE AgentAborts(a)
    <3>1. Return(a) /\ now' = now /\ registry' \in Registries
      BY <2>5 DEF AgentAborts, RegistryInv
    <3> QED
      BY <3>1, ReturnKeeps
  <2> QED
    BY <1>1, <2>1, <2>2, <2>3, <2>4, <2>5 DEF AgentNext
<1>2. ASSUME NEW w \in Workers, WorkerNext(w) PROVE RegistryInv'
  BY <1>2, WorkerSteps, WorkerKeeps
<1>3. CASE Tick
  BY <1>3, TickKeeps
<1>4. CASE UNCHANGED vars
  BY <1>4 DEF vars, regVars, RegistryInv, RoundOK, JoinsOne, LeavesOne, M!Unknown, Registries, M!MemberRecords
<1> QED
  BY <1>1, <1>2, <1>3, <1>4 DEF Next

(* Every call about to write holds one change of one member of what it read. *)
THEOREM Invariance == Spec => []RegistryInv
BY InitInv, StepInv, PTL DEF Spec
-------------------------------------------------------------------------------
\* A swap is one join, heartbeat or departure, or changes nothing.
LEMMA SwapIsAtomic ==
  ASSUME RegistryInv, NEW a \in Agents, Swap(a)
  PROVE  [M!Next]_(M!vars)
<1>1. /\ now' = now /\ registry'.members = new[a] /\ raw[a] = registry
      /\ pc[a] = "cas"
  BY SwapTyped DEF Swap
<1>2. new[a] = raw[a].members \/ JoinsOne(a) \/ LeavesOne(a)
  BY <1>1 DEF RegistryInv, RoundOK
<1>3. CASE new[a] = raw[a].members
  BY <1>1, <1>3 DEF M!vars
<1>4. CASE JoinsOne(a)
  <2>1. PICK m \in Members, e \in 0 .. now + MemberTTL :
          new[a] = [raw[a].members EXCEPT ![m] = [status |-> "active", expires |-> e]]
    BY <1>4 DEF JoinsOne
  <2>2. M!Join(m)
    BY <1>1, <2>1 DEF M!Join
  <2> QED
    BY <2>2 DEF M!Next
<1>5. CASE LeavesOne(a)
  <2>1. PICK m \in Members, e \in 0 .. now :
          /\ raw[a].members[m] # M!Unknown
          /\ new[a] = [raw[a].members EXCEPT ![m] = [status |-> "left", expires |-> e]]
    BY <1>5 DEF LeavesOne
  <2>2. M!Leave(m)
    BY <1>1, <2>1 DEF M!Leave
  <2> QED
    BY <2>2 DEF M!Next
<1> QED
  BY <1>2, <1>3, <1>4, <1>5

LEMMA StepRefines == RegistryInv /\ [Next]_vars => [M!Next]_(M!vars)
<1> SUFFICES ASSUME RegistryInv, [Next]_vars PROVE [M!Next]_(M!vars)
  OBVIOUS
<1>1. ASSUME NEW a \in Agents, AgentNext(a) PROVE [M!Next]_(M!vars)
  <2>1. CASE Swap(a)
    BY <2>1, SwapIsAtomic
  <2>2. CASE Call(a) \/ Get(a) \/ SwapLost(a) \/ AgentAborts(a)
    BY <2>2 DEF Call, Get, SwapLost, AgentAborts, M!vars
  <2> QED
    BY <1>1, <2>1, <2>2 DEF AgentNext
<1>2. ASSUME NEW w \in Workers, WorkerNext(w) PROVE [M!Next]_(M!vars)
  BY <1>2, WorkerSteps DEF regVars, M!vars
<1>3. CASE Tick
  BY <1>3 DEF Tick, regVars, M!Next, M!Tick
<1>4. CASE UNCHANGED vars
  BY <1>4 DEF vars, regVars, M!vars
<1> QED
  BY <1>1, <1>2, <1>3, <1>4 DEF Next

(* The compare-and-swap loops implement the atomic registry: no join,         *)
(* heartbeat or departure is lost or undone by another member's.              *)
THEOREM Implementation == Spec => ImplementsMembership
<1>1. Init => M!Init
  BY DEF Init, M!Init, NoMembers
<1> QED
  BY <1>1, Invariance, StepRefines, PTL DEF Spec, ImplementsMembership, M!Spec
-------------------------------------------------------------------------------
(* The rate limit and the cooldown.                                         *)

CounterItems == [value : Nat, expires : Nat]
DenyRecords == [count : Nat, until : Nat, expires : Nat]

RequestTypes ==
  /\ kind \in {"sqlite", "redis"} /\ now \in 0 .. MaxTime /\ calls \in 0 .. MaxCalls
  /\ pc \in [Agents \cup Workers -> LoopLabels \cup RequestLabels]
  /\ counters \in [Buckets -> CounterItems] /\ allowed \in [Buckets -> Nat]
  /\ late \subseteq Buckets
  /\ deny \in DenyRecords /\ lookup \in DenyRecords
  /\ at \in [Workers -> 0 .. MaxTime] /\ count \in [Workers -> Nat]
  /\ denied \in 0 .. MaxTime

Inv == RequestTypes /\ RequestInv

LEMMA Windows ==
  ASSUME NEW t \in 0 .. MaxTime
  PROVE  /\ t \div Window \in Buckets /\ t \div Window \in Nat
         /\ (t \div Window + 2) * Window <= t + 2 * Window
         /\ t + Window < (t \div Window + 2) * Window
<1> DEFINE b == t \div Window
<1>1. b \in Nat /\ b * Window <= t /\ t < (b + 1) * Window
  OBVIOUS
<1>2. b <= MaxTime \div Window
  OBVIOUS
<1>3. (b + 2) * Window = b * Window + 2 * Window
  BY <1>1
<1>4. (b + 2) * Window = (b + 1) * Window + Window
  BY <1>1
<1> HIDE DEF b
<1>5. b * Window \in Nat /\ (b + 1) * Window \in Nat /\ (b + 2) * Window \in Nat
      /\ 2 * Window \in Nat
  BY <1>1
<1>6. (b + 2) * Window <= t + 2 * Window
  BY <1>1, <1>3, <1>5
<1>7. t + Window < (b + 2) * Window
  BY <1>1, <1>4, <1>5
<1>8. b \in Buckets
  BY <1>1, <1>2 DEF Buckets
<1> QED
  BY <1>1, <1>6, <1>7, <1>8 DEF b

LEMMA DelayBounded ==
  ASSUME NEW n \in 1 .. MaxCalls
  PROVE  DelaySeconds(n) \in Nat /\ DelaySeconds(n) <= MaxSeconds
<1>1. n - 1 \in 0 .. MaxCalls
  OBVIOUS
<1>2. Factor ^ (n - 1) \in Nat
  BY <1>1, PowersAssumption
<1>3. PICK p \in Nat : p = Factor ^ (n - 1)
  BY <1>2
<1>4. BaseSeconds * p \in Nat
  OBVIOUS
<1> QED
  BY <1>3, <1>4 DEF DelaySeconds, Smaller

LEMMA PendingFinite == IsFiniteSet(Pending) /\ Cardinality(Pending) \in Nat
<1>1. Pending \subseteq Workers
  BY DEF Pending
<1> QED
  BY <1>1, FS_Subset, FS_CardinalityType

LEMMA InitRequests == Init => Inv
<1> SUFFICES ASSUME Init PROVE Inv
  OBVIOUS
<1>1. Pending = {}
  BY DEF Init, Pending
<1>2. Room = 0
  BY <1>1, FS_EmptySet DEF Init, Room
<1>3. \A w \in Workers : at[w] = 0 /\ count[w] = 0 /\ pc[w] = "idle"
  BY DEF Init
<1>4. \A b \in Buckets : counters[b] = NoCounter /\ allowed[b] = 0
  BY DEF Init
<1>5. RequestTypes
  BY DEF Init, RequestTypes, NoCounter, NoRecord, CounterItems, DenyRecords
<1>6. CountsOK
  BY <1>2, <1>3, <1>4 DEF Init, CountsOK, NoCounter, NoRecord
<1>7. ClockOK
  BY <1>3 DEF Init, ClockOK
<1>8. CooldownOK
  BY <1>3 DEF Init, CooldownOK, NoRecord
<1>9. RateOK
  BY <1>4 DEF RateOK, NoCounter
<1> QED
  BY <1>5, <1>6, <1>7, <1>8, <1>9 DEF Inv, RequestInv

\* A request is pending from its arrival until it is counted.
LEMMA RoomKept ==
  ASSUME RequestTypes, calls' \in Nat, calls' >= calls, Pending' \subseteq Pending
  PROVE  Room' \in Int /\ Room \in Int /\ Room' >= Room
<1>1. Cardinality(Pending') <= Cardinality(Pending) /\ Cardinality(Pending') \in Nat
  BY PendingFinite, FS_Subset, FS_CardinalityType
<1>2. calls \in Nat
  BY DEF RequestTypes
<1> QED
  BY <1>1, <1>2, PendingFinite DEF Room

LEMMA RoomTaken ==
  ASSUME RequestTypes, UNCHANGED calls, NEW w \in Pending, Pending' = Pending \ {w}
  PROVE  Room' \in Int /\ Room \in Int /\ Room' = Room + 1
<1>1. Cardinality(Pending') = Cardinality(Pending) - 1
  BY PendingFinite, FS_RemoveElement
<1>2. calls \in Nat
  BY DEF RequestTypes
<1> QED
  BY <1>1, <1>2, PendingFinite DEF Room

LEMMA RoomHeld ==
  ASSUME RequestTypes, calls' = calls + 1, NEW w \in Workers, Pending' = Pending \cup {w},
         w \notin Pending
  PROVE  Room' \in Int /\ Room \in Int /\ Room' = Room
<1>1. Cardinality(Pending') = Cardinality(Pending) + 1
  BY PendingFinite, FS_AddElement
<1>2. calls \in Nat
  BY DEF RequestTypes
<1> QED
  BY <1>1, <1>2, PendingFinite DEF Room

\* Where a step of a request leaves the others.
LEMMA WorkerGoes ==
  ASSUME RequestTypes, NEW w \in Workers, NEW l \in RequestLabels, Goto(w, l)
  PROVE  /\ pc' \in [Agents \cup Workers -> LoopLabels \cup RequestLabels]
         /\ pc'[w] = l /\ \A v \in Workers : v # w => pc'[v] = pc[v]
BY DEF RequestTypes, Goto

PendingLabels == {"preflight", "purge_lookup", "policy", "read_deny", "incr"}

\* The steps of a request that count nothing.
LEMMA QuietRoom ==
  ASSUME RequestTypes, NEW w \in Workers, NEW l \in RequestLabels, Goto(w, l), UNCHANGED calls,
         l \in PendingLabels => pc[w] \in PendingLabels
  PROVE  Room' \in Int /\ Room \in Int /\ Room' >= Room
<1>1. Pending' \subseteq Pending
  BY WorkerGoes DEF Pending, PendingLabels
<1> QED
  BY <1>1, RoomKept DEF RequestTypes

\* The steps that do.
LEMMA CountingRoom ==
  ASSUME RequestTypes, NEW w \in Workers, NEW l \in RequestLabels \ PendingLabels, Goto(w, l),
         UNCHANGED calls, pc[w] \in PendingLabels
  PROVE  Room' \in Int /\ Room \in Int /\ Room' = Room + 1
<1>1. /\ pc'[w] = l
      /\ \A v \in Workers : v # w => pc'[v] = pc[v]
  BY WorkerGoes
<1>2. w \in Pending /\ Pending' = Pending \ {w}
  BY <1>1 DEF Pending, PendingLabels
<1> QED
  BY <1>2, RoomTaken

LEMMA RoomIs ==
  ASSUME Inv
  PROVE  Room \in Int /\ 0 <= Room /\ Room <= MaxCalls
<1>1. Room \in Int /\ Room <= MaxCalls
  BY PendingFinite DEF Inv, RequestTypes, Room
<1>2. deny.count \in Nat /\ deny.count <= Room
  BY DEF Inv, RequestTypes, RequestInv, CountsOK, DenyRecords
<1> QED
  BY <1>1, <1>2

\* What a step keeps when it leaves the clock and the counters alone, and gives
\* a request a clock reading, a count and a place: the conditions on those.
LEMMA RequestMoves ==
  ASSUME Inv, NEW w \in Workers, NEW l \in RequestLabels, Goto(w, l),
         UNCHANGED <<kind, now, counters, allowed, late>>, calls' \in 0 .. MaxCalls,
         Room' \in Int, Room' >= Room,
         NEW t \in 0 .. MaxTime, NEW n \in Nat,
         at' = [at EXCEPT ![w] = t], count' = [count EXCEPT ![w] = n],
         t <= now, n <= Room', denied' \in 0 .. MaxTime, denied <= denied', denied' <= now,
         l \in {"read_deny", "purge_deny", "put_deny", "put_lookup"} => t <= denied',
         l \in {"purge_deny", "put_deny", "put_lookup"} => n >= 1,
         deny' \in DenyRecords, deny'.count <= Room',
         lookup' \in DenyRecords, lookup'.count <= Room', lookup'.until <= denied' + MaxSeconds
  PROVE  Inv'
<1>1. /\ RequestTypes /\ CountsOK /\ ClockOK /\ CooldownOK /\ RateOK
      /\ Room \in Int
  BY RoomIs DEF Inv, RequestInv
<1>2. /\ pc' \in [Agents \cup Workers -> LoopLabels \cup RequestLabels]
      /\ pc'[w] = l /\ \A v \in Workers : v # w => pc'[v] = pc[v]
  BY <1>1, WorkerGoes
<1>3. /\ at' \in [Workers -> 0 .. MaxTime] /\ count' \in [Workers -> Nat]
      /\ at'[w] = t /\ count'[w] = n
      /\ \A v \in Workers : v # w => at'[v] = at[v] /\ count'[v] = count[v]
  BY <1>1 DEF RequestTypes
<1>4. RequestTypes'
  BY <1>1, <1>2, <1>3 DEF RequestTypes
<1>5. CountsOK'
  <2>1. \A v \in Workers : count'[v] <= Room'
    <3> SUFFICES ASSUME NEW v \in Workers PROVE count'[v] <= Room'
      OBVIOUS
    <3>1. CASE v = w
      BY <1>3, <3>1
    <3>2. CASE v # w
      <4>1. count'[v] = count[v] /\ count[v] <= Room /\ count[v] \in Nat
        BY <1>1, <1>3, <3>2 DEF CountsOK, RequestTypes
      <4> QED
        BY <1>1, <4>1
    <3> QED
      BY <3>1, <3>2
  <2>2. \A b \in Buckets : counters'[b].value <= Room' /\ allowed'[b] <= Room'
    <3> SUFFICES ASSUME NEW b \in Buckets
                 PROVE  counters'[b].value <= Room' /\ allowed'[b] <= Room'
      OBVIOUS
    <3>1. counters[b].value \in Nat /\ allowed[b] \in Nat
      BY <1>1 DEF RequestTypes, CounterItems
    <3>2. counters[b].value <= Room /\ allowed[b] <= Room
      BY <1>1 DEF CountsOK
    <3> QED
      BY <1>1, <3>1, <3>2
  <2>3. Buckets' = Buckets
    BY DEF Buckets
  <2> QED
    BY <2>1, <2>2, <2>3 DEF CountsOK
<1>6. ClockOK'
  <2>1. \A v \in Workers : at'[v] <= now'
    <3> SUFFICES ASSUME NEW v \in Workers
                 PROVE  at'[v] <= now'
      OBVIOUS
    <3>1. CASE v = w
      BY <1>1, <1>2, <1>3, <3>1 DEF RequestTypes
    <3>2. CASE v # w
      BY <1>1, <1>2, <1>3, <3>2 DEF ClockOK
    <3> QED
      BY <3>1, <3>2
  <2> QED
    BY <2>1 DEF ClockOK
<1>7. CooldownOK'
  <2>1. \A v \in Workers :
          /\ pc'[v] \in {"read_deny", "purge_deny", "put_deny", "put_lookup"} => at'[v] <= denied'
          /\ pc'[v] \in {"purge_deny", "put_deny", "put_lookup"} => count'[v] >= 1
    <3> SUFFICES ASSUME NEW v \in Workers
                 PROVE  /\ pc'[v] \in {"read_deny", "purge_deny", "put_deny", "put_lookup"}
                             => at'[v] <= denied'
                        /\ pc'[v] \in {"purge_deny", "put_deny", "put_lookup"} => count'[v] >= 1
      OBVIOUS
    <3>1. CASE v = w
      BY <1>2, <1>3, <3>1
    <3>2. CASE v # w
      <4>1. pc'[v] = pc[v] /\ at'[v] = at[v] /\ count'[v] = count[v]
        BY <1>2, <1>3, <3>2
      <4>2. at[v] \in Nat /\ denied \in Nat /\ denied' \in Nat
        BY <1>1 DEF RequestTypes
      <4> QED
        BY <1>1, <4>1, <4>2 DEF CooldownOK
    <3> QED
      BY <3>1, <3>2
  <2> QED
    BY <2>1 DEF CooldownOK
<1>8. RateOK'
  BY <1>1 DEF RateOK, Buckets
<1> QED
  BY <1>4, <1>5, <1>6, <1>7, <1>8 DEF Inv, RequestInv

LEMMA ArriveKeeps ==
  ASSUME Inv, NEW w \in Workers, Arrive(w)
  PROVE  Inv'
<1>1. /\ pc[w] = "idle" /\ calls < MaxCalls /\ calls' = calls + 1 /\ Goto(w, "preflight")
      /\ UNCHANGED <<kind, now, reqVars>>
  BY DEF Arrive
<1>2. RequestTypes /\ Room \in Int /\ now \in Nat /\ calls \in Nat
  BY RoomIs DEF Inv, RequestTypes
<1>3. /\ pc'[w] = "preflight"
      /\ \A v \in Workers : v # w => pc'[v] = pc[v]
  BY <1>1, <1>2, WorkerGoes
<1>4. w \notin Pending /\ Pending' = Pending \cup {w}
  BY <1>1, <1>3 DEF Pending
<1>5. Room' \in Int /\ Room' = Room
  BY <1>1, <1>2, <1>4, RoomHeld
<1>6. UNCHANGED <<kind, now, counters, allowed, late, deny, lookup, at, count, denied>>
  BY <1>1 DEF reqVars
<1>7. /\ at[w] \in 0 .. MaxTime /\ count[w] \in Nat
      /\ at' = [at EXCEPT ![w] = at[w]] /\ count' = [count EXCEPT ![w] = count[w]]
  BY <1>2, <1>6 DEF RequestTypes
<1>8. /\ at[w] <= now /\ count[w] <= Room' /\ denied' \in 0 .. MaxTime /\ denied' <= now
      /\ deny' \in DenyRecords /\ deny'.count <= Room'
      /\ lookup' \in DenyRecords /\ lookup'.count <= Room'
      /\ lookup'.until <= denied' + MaxSeconds
  BY <1>2, <1>5, <1>6 DEF Inv, RequestInv, RequestTypes, CountsOK, ClockOK, CooldownOK
<1>9. calls' \in 0 .. MaxCalls /\ Room' >= Room /\ denied <= denied'
  BY <1>1, <1>2, <1>5, <1>6 DEF RequestTypes
<1> QED
  BY <1>1, <1>5, <1>6, <1>7, <1>8, <1>9, RequestMoves

\* The steps that neither arrive nor count.
LEMMA QuietKeeps ==
  ASSUME Inv, NEW w \in Workers,
         \/ Refused(w) \/ Preflight(w) \/ PurgeLookup(w) \/ Passed(w) \/ Denied(w) \/ Limited(w)
         \/ PurgeDeny(w) \/ PutDeny(w) \/ PutLookup(w) \/ WorkerAborts(w)
  PROVE  Inv'
<1>1. /\ RequestTypes /\ CountsOK /\ ClockOK /\ CooldownOK /\ Room \in Int /\ 0 <= Room
      /\ now \in 0 .. MaxTime /\ calls \in 0 .. MaxCalls /\ denied \in 0 .. MaxTime
      /\ denied <= now
  BY RoomIs DEF Inv, RequestInv, RequestTypes, ClockOK
<1>2. /\ at[w] \in 0 .. MaxTime /\ count[w] \in Nat /\ at[w] <= now /\ count[w] <= Room
      /\ at = [at EXCEPT ![w] = at[w]] /\ count = [count EXCEPT ![w] = count[w]]
  BY <1>1 DEF RequestTypes, CountsOK, ClockOK
<1>3. /\ deny \in DenyRecords /\ lookup \in DenyRecords
      /\ deny.count <= Room /\ lookup.count <= Room /\ lookup.until <= denied + MaxSeconds
      /\ deny.count \in Nat /\ lookup.count \in Nat /\ lookup.until \in Nat
  BY <1>1 DEF RequestTypes, CountsOK, CooldownOK, DenyRecords
<1>4. NoRecord \in DenyRecords /\ NoRecord.count = 0 /\ NoRecord.until = 0
  BY DEF NoRecord, DenyRecords
<1>5. ASSUME NEW l \in RequestLabels, Goto(w, l), UNCHANGED <<kind, now, calls, counters, allowed, late>>,
             l \in PendingLabels => pc[w] \in PendingLabels,
             NEW t \in 0 .. MaxTime, NEW n \in Nat,
             at' = [at EXCEPT ![w] = t], count' = [count EXCEPT ![w] = n],
             t <= now, n <= Room, denied' \in 0 .. MaxTime, denied <= denied', denied' <= now,
             l \in {"read_deny", "purge_deny", "put_deny", "put_lookup"} => t <= denied',
             l \in {"purge_deny", "put_deny", "put_lookup"} => n >= 1,
             deny' \in DenyRecords, deny'.count <= Room,
             lookup' \in DenyRecords, lookup'.count <= Room, lookup'.until <= denied' + MaxSeconds
      PROVE  Inv'
  <2>1. Room' \in Int /\ Room' >= Room
    BY <1>1, <1>5, QuietRoom
  <2>2. deny'.count \in Nat /\ lookup'.count \in Nat
    BY <1>5 DEF DenyRecords
  <2>3. n <= Room' /\ deny'.count <= Room' /\ lookup'.count <= Room'
    BY <1>1, <1>5, <2>1, <2>2
  <2>4. calls' \in 0 .. MaxCalls
    BY <1>1, <1>5
  <2> QED
    BY <1>5, <2>1, <2>3, <2>4, RequestMoves
<1>6. CASE Refused(w) \/ Passed(w) \/ WorkerAborts(w)
  <2>1. /\ Goto(w, "idle") /\ UNCHANGED <<kind, now, calls, counters, allowed, late, deny, lookup, denied>>
        /\ at' = [at EXCEPT ![w] = 0] /\ count' = [count EXCEPT ![w] = 0]
    BY <1>6 DEF Refused, Passed, WorkerAborts, Answer
  <2>2. "idle" \in RequestLabels /\ "idle" \notin PendingLabels
    BY DEF PendingLabels
  <2>3. /\ 0 \in 0 .. MaxTime /\ 0 \in Nat /\ 0 <= now /\ denied <= denied' /\ denied' <= now
        /\ denied' \in 0 .. MaxTime
        /\ deny' \in DenyRecords /\ deny'.count <= Room
        /\ lookup' \in DenyRecords /\ lookup'.count <= Room /\ lookup'.until <= denied' + MaxSeconds
    BY <1>1, <1>3, <2>1
  <2> QED
    BY <1>1, <1>5, <2>1, <2>2, <2>3
<1>7. CASE Preflight(w) \/ PurgeLookup(w)
  <2>1. PICK l \in {"purge_lookup", "policy"} : Goto(w, l)
    BY <1>7, Zenon DEF Preflight, PurgeLookup
  <2>2. /\ UNCHANGED <<kind, now, calls, counters, allowed, late, deny, at, count, denied>>
        /\ lookup' \in {lookup, NoRecord}
        /\ pc[w] \in PendingLabels
    BY <1>7 DEF Preflight, PurgeLookup, reqVars, PendingLabels
  <2>3. lookup' \in DenyRecords /\ lookup'.count <= Room /\ lookup'.until <= denied + MaxSeconds
    BY <1>1, <1>3, <1>4, <2>2
  <2> QED
    BY <1>1, <1>2, <1>3, <1>5, <2>1, <2>2, <2>3
<1>8. CASE Denied(w)
  <2>1. /\ pc[w] \in PendingLabels /\ Goto(w, "read_deny")
        /\ UNCHANGED <<kind, now, calls, counters, allowed, late, deny, lookup, count>>
        /\ at' = [at EXCEPT ![w] = now] /\ denied' = now
    BY <1>8 DEF Denied, PendingLabels
  <2>2. lookup.until <= denied' + MaxSeconds
    BY <1>1, <1>3, <2>1
  <2>3. /\ now \in 0 .. MaxTime /\ now <= now /\ now <= denied' /\ denied <= denied' /\ denied' <= now
        /\ denied' \in 0 .. MaxTime
        /\ deny' \in DenyRecords /\ deny'.count <= Room
        /\ lookup' \in DenyRecords /\ lookup'.count <= Room /\ lookup'.until <= denied' + MaxSeconds
        /\ count[w] \in Nat /\ count[w] <= Room /\ count' = [count EXCEPT ![w] = count[w]]
    BY <1>1, <1>2, <1>3, <2>1, <2>2
  <2>4. "read_deny" \in RequestLabels /\ "read_deny" \notin {"purge_deny", "put_deny", "put_lookup"}
    OBVIOUS
  <2> QED
    BY <1>5, <2>1, <2>3, <2>4
<1>9. CASE Limited(w)
  <2>1. /\ pc[w] \in PendingLabels /\ Goto(w, "incr")
        /\ UNCHANGED <<kind, now, calls, counters, allowed, late, deny, lookup, count, denied>>
        /\ at' = [at EXCEPT ![w] = now]
    BY <1>9 DEF Limited, PendingLabels
  <2>2. /\ now \in 0 .. MaxTime /\ now <= now /\ denied <= denied' /\ denied' <= now
        /\ denied' \in 0 .. MaxTime
        /\ deny' \in DenyRecords /\ deny'.count <= Room
        /\ lookup' \in DenyRecords /\ lookup'.count <= Room /\ lookup'.until <= denied' + MaxSeconds
        /\ count[w] \in Nat /\ count[w] <= Room /\ count' = [count EXCEPT ![w] = count[w]]
    BY <1>1, <1>2, <1>3, <2>1
  <2>3. "incr" \in RequestLabels
        /\ "incr" \notin {"read_deny", "purge_deny", "put_deny", "put_lookup"}
    OBVIOUS
  <2> QED
    BY <1>5, <2>1, <2>2, <2>3
<1>10. CASE PurgeDeny(w)
  <2>1. /\ pc[w] = "purge_deny" /\ Goto(w, "put_deny") /\ deny' = NoRecord
        /\ UNCHANGED <<kind, now, calls, counters, allowed, late, lookup, at, count, denied>>
    BY <1>10 DEF PurgeDeny
  <2>2. count[w] >= 1 /\ at[w] <= denied
    BY <1>1, <2>1 DEF CooldownOK
  <2>3. "put_deny" \notin PendingLabels
    BY DEF PendingLabels
  <2> QED
    BY <1>1, <1>2, <1>3, <1>4, <1>5, <2>1, <2>2, <2>3
\* What is written of a denial.
<1>11. ASSUME pc[w] \in {"put_deny", "put_lookup"}
       PROVE  /\ DenyRecord(w) \in DenyRecords /\ DenyRecord(w).count <= Room
              /\ DenyRecord(w).until <= denied + MaxSeconds
              /\ count[w] >= 1 /\ at[w] <= denied
  <2>1. count[w] >= 1 /\ at[w] <= denied
    BY <1>1, <1>11 DEF CooldownOK
  <2>2. count[w] \in 1 .. MaxCalls
    <3>1. Room <= MaxCalls
      BY RoomIs
    <3> QED
      BY <1>1, <1>2, <2>1, <3>1
  <2>3. PICK d \in Nat : d = DelaySeconds(count[w]) /\ d <= MaxSeconds
    BY <2>2, DelayBounded
  <2>4. Larger(DenyWindow, d) \in Nat
    BY DEF Larger
  <2>5. DenyRecord(w) = [count |-> count[w], until |-> at[w] + d,
                         expires |-> now + Larger(DenyWindow, d)]
    BY <2>3 DEF DenyRecord
  <2>6. at[w] + d \in Nat /\ at[w] + d <= denied + MaxSeconds
        /\ now + Larger(DenyWindow, d) \in Nat
    BY <1>1, <1>2, <2>1, <2>3, <2>4
  <2> QED
    BY <1>2, <2>1, <2>5, <2>6 DEF DenyRecords
<1>12. CASE PutDeny(w)
  <2>1. /\ pc[w] = "put_deny" /\ Goto(w, "put_lookup") /\ deny' = DenyRecord(w)
        /\ UNCHANGED <<kind, now, calls, counters, allowed, late, lookup, at, count, denied>>
    BY <1>12 DEF PutDeny
  <2>2. "put_lookup" \notin PendingLabels
    BY DEF PendingLabels
  <2>3. /\ deny' \in DenyRecords /\ deny'.count <= Room
        /\ count[w] >= 1 /\ at[w] <= denied
    BY <1>11, <2>1
  <2> QED
    BY <1>1, <1>2, <1>3, <1>5, <2>1, <2>2, <2>3
<1>13. CASE PutLookup(w)
  <2>1. /\ pc[w] = "put_lookup" /\ Goto(w, "idle") /\ lookup' = DenyRecord(w)
        /\ UNCHANGED <<kind, now, calls, counters, allowed, late, deny, denied>>
        /\ at' = [at EXCEPT ![w] = 0] /\ count' = [count EXCEPT ![w] = 0]
    BY <1>13 DEF PutLookup, Answer
  <2>2. "idle" \notin PendingLabels
    BY DEF PendingLabels
  <2>3. /\ lookup' \in DenyRecords /\ lookup'.count <= Room
        /\ lookup'.until <= denied + MaxSeconds
    BY <1>11, <2>1
  <2>4. /\ 0 \in 0 .. MaxTime /\ 0 \in Nat /\ 0 <= now /\ denied <= denied' /\ denied' <= now
        /\ denied' \in 0 .. MaxTime
        /\ deny' \in DenyRecords /\ deny'.count <= Room
        /\ lookup' \in DenyRecords /\ lookup'.count <= Room /\ lookup'.until <= denied' + MaxSeconds
    BY <1>1, <1>3, <2>1, <2>3
  <2> QED
    BY <1>1, <1>5, <2>1, <2>2, <2>4
<1> QED
  BY <1>6, <1>7, <1>8, <1>9, <1>10, <1>12, <1>13

LEMMA ReadDenyKeeps ==
  ASSUME Inv, NEW w \in Workers, ReadDeny(w)
  PROVE  Inv'
<1>1. /\ RequestTypes /\ CountsOK /\ ClockOK /\ CooldownOK /\ Room \in Int /\ 0 <= Room
      /\ now \in 0 .. MaxTime /\ calls \in 0 .. MaxCalls /\ denied \in 0 .. MaxTime
      /\ denied <= now
  BY RoomIs DEF Inv, RequestInv, RequestTypes, ClockOK
<1>2. PICK n : n = IF Live(deny) THEN deny.count + 1 ELSE 1
  OBVIOUS
<1>3. /\ pc[w] = "read_deny" /\ count' = [count EXCEPT ![w] = n]
      /\ UNCHANGED <<kind, now, calls, counters, allowed, late, deny, lookup, at, denied>>
  BY <1>2 DEF ReadDeny
<1>4. PICK l \in {"purge_deny", "put_deny"} : Goto(w, l)
  BY Zenon DEF ReadDeny
<1>5. l \in RequestLabels \ PendingLabels /\ pc[w] \in PendingLabels
  BY <1>3 DEF PendingLabels
<1>6. Room' \in Int /\ Room' = Room + 1
  BY <1>1, <1>3, <1>4, <1>5, CountingRoom
<1>7. /\ deny \in DenyRecords /\ lookup \in DenyRecords
      /\ deny.count <= Room /\ lookup.count <= Room /\ lookup.until <= denied + MaxSeconds
      /\ deny.count \in Nat /\ lookup.count \in Nat
  BY <1>1 DEF RequestTypes, CountsOK, CooldownOK, DenyRecords
<1>8. n \in Nat /\ n >= 1 /\ n <= Room'
  BY <1>1, <1>2, <1>6, <1>7
<1>9. /\ at[w] \in 0 .. MaxTime /\ at[w] <= now /\ at[w] <= denied
      /\ at' = [at EXCEPT ![w] = at[w]]
  BY <1>1, <1>3 DEF RequestTypes, ClockOK, CooldownOK
<1>10. Room' >= Room /\ deny'.count <= Room' /\ lookup'.count <= Room' /\ denied <= denied'
  BY <1>1, <1>3, <1>6, <1>7
<1> QED
  BY <1>1, <1>3, <1>4, <1>5, <1>6, <1>7, <1>8, <1>9, <1>10, RequestMoves

\* incr() and its steps: a counter that has counted is still there for an increment
\* that comes within a window, if none before it was late.
LEMMA CounterLives ==
  ASSUME Inv, NEW w \in Workers, pc[w] = "incr", NEW b, b = Bucket(w)
  PROVE  /\ b \in Buckets /\ b \in Nat
         /\ counters[b] # NoCounter /\ b \notin late /\ now <= at[w] + Window
              => Live(counters[b])
         /\ (b + 2) * Window <= now + CounterTTL /\ (b + 2) * Window \in Nat
<1>1. /\ RequestTypes /\ ClockOK /\ RateOK /\ now \in 0 .. MaxTime
      /\ at[w] \in 0 .. MaxTime /\ at[w] <= now
  BY DEF Inv, RequestInv, RequestTypes, ClockOK
<1>2. /\ b \in Buckets /\ b \in Nat /\ (b + 2) * Window <= at[w] + 2 * Window
      /\ at[w] + Window < (b + 2) * Window
  BY <1>1, Windows DEF Bucket
<1>3. PICK e \in Nat : e = (b + 2) * Window
  BY <1>2
<1>4. counters[b].expires \in Nat
  BY <1>1, <1>2 DEF RequestTypes, CounterItems
<1>5. e <= now + 2 * Window /\ (now <= at[w] + Window => now < e)
  BY <1>1, <1>2, <1>3
<1>6. counters[b] # NoCounter /\ b \notin late
        => counters[b].expires > MaxTime \/ counters[b].expires >= e
  BY <1>1, <1>2, <1>3 DEF RateOK
<1>7. counters[b] # NoCounter /\ b \notin late /\ now <= at[w] + Window
        => Live(counters[b])
  BY <1>1, <1>4, <1>5, <1>6 DEF Live
<1> QED
  BY <1>2, <1>3, <1>5, <1>7 DEF CounterTTL

LEMMA Counting ==
  ASSUME Inv, NEW w \in Workers, pc[w] = "incr", NEW l \in RequestLabels \ PendingLabels, Goto(w, l),
         NEW e \in Nat, Counted(w, CounterValue(w), e),
         \/ e = now + CounterTTL
         \/ e = IF Live(counters[Bucket(w)]) THEN counters[Bucket(w)].expires ELSE Forever,
         NEW t \in 0 .. MaxTime, t <= now, NEW n \in Nat, n <= Room,
         at' = [at EXCEPT ![w] = t], count' = [count EXCEPT ![w] = n],
         l \notin {"read_deny", "purge_deny", "put_deny", "put_lookup"}
  PROVE  Inv'
<1>1. /\ RequestTypes /\ CountsOK /\ ClockOK /\ CooldownOK /\ RateOK
      /\ Room \in Int /\ 0 <= Room /\ now \in 0 .. MaxTime
  BY RoomIs DEF Inv, RequestInv, RequestTypes
<1>2. PICK b : b = Bucket(w)
  OBVIOUS
<1>3. /\ b \in Buckets /\ b \in Nat
      /\ late' \subseteq Buckets /\ late \subseteq late'
      /\ counters[b] # NoCounter /\ b \notin late' => Live(counters[b])
      /\ (b + 2) * Window <= now + CounterTTL /\ (b + 2) * Window \in Nat
  <2>1. /\ b \in Buckets /\ b \in Nat
        /\ counters[b] # NoCounter /\ b \notin late /\ now <= at[w] + Window
             => Live(counters[b])
        /\ (b + 2) * Window <= now + CounterTTL /\ (b + 2) * Window \in Nat
    BY <1>2, CounterLives
  <2>2. late' = IF at[w] + Window < now THEN late \cup {b} ELSE late
    BY <1>2 DEF Counted
  <2>3. at[w] + Window \in Nat /\ now \in Nat /\ late \subseteq Buckets
    BY <1>1 DEF RequestTypes
  <2>4. at[w] + Window < now \/ now <= at[w] + Window
    BY <2>3
  <2> QED
    BY <2>1, <2>2, <2>3, <2>4
<1>4. counters[b].value \in Nat /\ counters[b].expires \in Nat /\ allowed[b] \in Nat
  BY <1>1, <1>3 DEF RequestTypes, CounterItems
<1>5. PICK v : v = CounterValue(w)
  OBVIOUS
<1>6. /\ v \in Nat /\ v >= 1 /\ v <= counters[b].value + 1
      /\ b \notin late' => v = counters[b].value + 1
  BY <1>2, <1>3, <1>4, <1>5 DEF CounterValue, NoCounter
<1>7. PICK g \in {0, 1} : g = IF v <= Limit THEN 1 ELSE 0
  OBVIOUS
<1>8. /\ counters' = [counters EXCEPT ![b] = [value |-> v, expires |-> e]]
      /\ allowed' = [allowed EXCEPT ![b] = @ + g]
      /\ UNCHANGED <<kind, now, calls, deny, lookup, denied>>
  BY <1>2, <1>5, <1>7 DEF Counted
<1>9. Room' \in Int /\ Room' = Room + 1
  <2>1. pc[w] \in PendingLabels
    BY DEF PendingLabels
  <2> QED
    BY <1>1, <1>8, <2>1, CountingRoom
<1>10. /\ pc' \in [Agents \cup Workers -> LoopLabels \cup RequestLabels]
       /\ pc'[w] = l /\ \A u \in Workers : u # w => pc'[u] = pc[u]
  BY <1>1, WorkerGoes
<1>11. /\ at' \in [Workers -> 0 .. MaxTime] /\ count' \in [Workers -> Nat]
       /\ at'[w] = t /\ count'[w] = n
       /\ \A u \in Workers : u # w => at'[u] = at[u] /\ count'[u] = count[u]
  BY <1>1 DEF RequestTypes
<1>12. /\ counters' \in [Buckets -> CounterItems] /\ allowed' \in [Buckets -> Nat]
       /\ counters'[b].value = v /\ counters'[b].expires = e /\ allowed'[b] = allowed[b] + g
       /\ \A c \in Buckets : c # b => counters'[c] = counters[c] /\ allowed'[c] = allowed[c]
  <2>1. [value |-> v, expires |-> e] \in CounterItems
    BY <1>6 DEF CounterItems
  <2> QED
    BY <1>1, <1>3, <1>4, <1>8, <2>1 DEF RequestTypes
<1>13. RequestTypes'
  BY <1>1, <1>3, <1>8, <1>10, <1>11, <1>12 DEF RequestTypes, Buckets
<1>14. CountsOK'
  <2>1. deny'.count <= Room' /\ lookup'.count <= Room'
    BY <1>1, <1>8, <1>9 DEF CountsOK, RequestTypes, DenyRecords
  <2>2. \A u \in Workers : count'[u] <= Room'
    <3> SUFFICES ASSUME NEW u \in Workers PROVE count'[u] <= Room'
      OBVIOUS
    <3>1. count[u] <= Room /\ count[u] \in Nat /\ count'[u] \in {n, count[u]}
      BY <1>1, <1>11 DEF CountsOK, RequestTypes
    <3> QED
      BY <1>1, <1>9, <3>1
  <2>3. \A c \in Buckets : counters'[c].value <= Room' /\ allowed'[c] <= Room'
    <3> SUFFICES ASSUME NEW c \in Buckets
                 PROVE  counters'[c].value <= Room' /\ allowed'[c] <= Room'
      OBVIOUS
    <3>1. /\ counters[c].value <= Room /\ allowed[c] <= Room
          /\ counters[c].value \in Nat /\ allowed[c] \in Nat
      BY <1>1 DEF CountsOK, RequestTypes, CounterItems
    <3>2. CASE c = b
      BY <1>1, <1>6, <1>9, <1>12, <3>1, <3>2
    <3>3. CASE c # b
      BY <1>1, <1>9, <1>12, <3>1, <3>3
    <3> QED
      BY <3>2, <3>3
  <2> QED
    BY <2>1, <2>2, <2>3 DEF CountsOK, Buckets
<1>15. ClockOK'
  <2>1. l # "incr"
    BY DEF PendingLabels
  <2>2. \A u \in Workers : at'[u] <= now
    BY <1>1, <1>10, <1>11, <2>1 DEF ClockOK
  <2> QED
    BY <1>1, <1>8, <2>2 DEF ClockOK
<1>16. CooldownOK'
  BY <1>1, <1>8, <1>10, <1>11 DEF CooldownOK
<1>17. RateOK'
  <2>1. \A c \in Buckets \ late' :
          /\ allowed'[c] <= counters'[c].value /\ allowed'[c] <= Limit
          /\ \/ counters'[c] = NoCounter
             \/ counters'[c].expires > MaxTime
             \/ counters'[c].expires >= (c + 2) * Window
    <3> SUFFICES ASSUME NEW c \in Buckets \ late'
                 PROVE  /\ allowed'[c] <= counters'[c].value /\ allowed'[c] <= Limit
                        /\ \/ counters'[c] = NoCounter
                           \/ counters'[c].expires > MaxTime
                           \/ counters'[c].expires >= (c + 2) * Window
      OBVIOUS
    <3>1. CASE c # b
      BY <1>1, <1>3, <1>12, <3>1 DEF RateOK
    <3>2. CASE c = b
      <4>1. allowed[b] <= counters[b].value /\ allowed[b] <= Limit
        BY <1>1, <1>3, <3>2 DEF RateOK
      <4>2. allowed'[b] <= v /\ allowed'[b] <= Limit
        BY <1>4, <1>6, <1>7, <1>12, <3>2, <4>1
      <4>3. e > MaxTime \/ e >= (b + 2) * Window
        <5>1. CASE e = now + CounterTTL
          BY <1>3, <5>1
        <5>2. CASE e = IF Live(counters[b]) THEN counters[b].expires ELSE Forever
          <6>1. CASE Live(counters[b])
            <7>1. counters[b] # NoCounter
              BY <1>1, <6>1 DEF Live, NoCounter
            <7> QED
              BY <1>1, <1>3, <3>2, <5>2, <6>1, <7>1 DEF RateOK
          <6>2. CASE ~Live(counters[b])
            BY <5>2, <6>2 DEF Forever
          <6> QED
            BY <6>1, <6>2
        <5> QED
          BY <1>2, <5>1, <5>2
      <4> QED
        BY <1>12, <3>2, <4>2, <4>3
    <3> QED
      BY <3>1, <3>2
  <2> QED
    BY <2>1 DEF RateOK, Buckets
<1> QED
  BY <1>13, <1>14, <1>15, <1>16, <1>17 DEF Inv, RequestInv

LEMMA IncrKeeps ==
  ASSUME Inv, NEW w \in Workers, Incr(w) \/ IncrBy(w)
  PROVE  Inv'
<1>1. /\ RequestTypes /\ CountsOK /\ ClockOK /\ Room \in Int /\ 0 <= Room
      /\ now \in 0 .. MaxTime /\ now \in Nat
  BY RoomIs DEF Inv, RequestInv, RequestTypes
<1>2. pc[w] = "incr"
  BY DEF Incr, IncrBy
<1>3. CASE Incr(w)
  <2>1. /\ Counted(w, CounterValue(w), now + CounterTTL) /\ Goto(w, "idle")
        /\ at' = [at EXCEPT ![w] = 0] /\ count' = [count EXCEPT ![w] = 0]
    BY <1>3 DEF Incr, Answer
  <2>2. now + CounterTTL \in Nat /\ 0 \in 0 .. MaxTime /\ 0 <= now /\ 0 \in Nat
    BY <1>1 DEF CounterTTL
  <2>3. "idle" \in RequestLabels \ PendingLabels
        /\ "idle" \notin {"read_deny", "purge_deny", "put_deny", "put_lookup"}
    BY DEF PendingLabels
  <2>4. PICK e \in Nat : e = now + CounterTTL
    BY <2>2
  <2> QED
    BY <1>1, <1>2, <2>1, <2>2, <2>3, <2>4, Counting
<1>4. CASE IncrBy(w)
  <2>1. PICK e : e = IF Live(counters[Bucket(w)]) THEN counters[Bucket(w)].expires ELSE Forever
    OBVIOUS
  <2>2. Counted(w, CounterValue(w), e) /\ Goto(w, "expire") /\ UNCHANGED <<at, count>>
    BY <1>4, <2>1 DEF IncrBy
  <2>3. Bucket(w) \in Buckets
    BY <1>2, CounterLives
  <2>4. e \in Nat
    BY <1>1, <2>1, <2>3 DEF RequestTypes, CounterItems, Forever
  <2>5. /\ at[w] \in 0 .. MaxTime /\ at[w] <= now /\ count[w] \in Nat /\ count[w] <= Room
        /\ at' = [at EXCEPT ![w] = at[w]] /\ count' = [count EXCEPT ![w] = count[w]]
    BY <1>1, <2>2 DEF RequestTypes, ClockOK, CountsOK
  <2>6. "expire" \in RequestLabels \ PendingLabels
        /\ "expire" \notin {"read_deny", "purge_deny", "put_deny", "put_lookup"}
    BY DEF PendingLabels
  <2> QED
    BY <1>2, <2>1, <2>2, <2>4, <2>5, <2>6, Counting
<1> QED
  BY <1>3, <1>4

\* EXPIRE: the lifetime of a counter that is there is set again.
LEMMA ExpireKeeps ==
  ASSUME Inv, NEW w \in Workers, Expire(w)
  PROVE  Inv'
<1>1. /\ RequestTypes /\ CountsOK /\ ClockOK /\ CooldownOK /\ RateOK
      /\ Room \in Int /\ 0 <= Room /\ now \in 0 .. MaxTime
      /\ at[w] \in 0 .. MaxTime /\ at[w] <= now
  BY RoomIs DEF Inv, RequestInv, RequestTypes, ClockOK
<1>2. PICK b : b = Bucket(w)
  OBVIOUS
<1>3. b \in Buckets /\ b \in Nat /\ (b + 2) * Window <= at[w] + 2 * Window
  BY <1>1, <1>2, Windows DEF Bucket
<1>4. PICK e : e = now + CounterTTL
  OBVIOUS
<1>5. e \in Nat /\ e >= (b + 2) * Window
  <2>1. PICK x \in Nat : x = (b + 2) * Window
    BY <1>3
  <2> QED
    BY <1>1, <1>3, <1>4, <2>1 DEF CounterTTL
<1>6. /\ counters' = IF Live(counters[b]) THEN [counters EXCEPT ![b].expires = e] ELSE counters
      /\ UNCHANGED <<kind, now, calls, deny, lookup, allowed, late, denied>>
      /\ Goto(w, "idle") /\ pc[w] = "expire"
      /\ at' = [at EXCEPT ![w] = 0] /\ count' = [count EXCEPT ![w] = 0]
  BY <1>2, <1>4 DEF Expire, Answer
<1>7. Room' \in Int /\ Room' >= Room
  <2>1. "idle" \notin PendingLabels
    BY DEF PendingLabels
  <2> QED
    BY <1>1, <1>6, <2>1, QuietRoom
<1>8. counters[b] \in CounterItems
  BY <1>1, <1>3 DEF RequestTypes
<1>9. PICK c : c = IF Live(counters[b]) THEN [counters[b] EXCEPT !.expires = e] ELSE counters[b]
  OBVIOUS
<1>10. counters' = [counters EXCEPT ![b] = c]
  BY <1>1, <1>3, <1>6, <1>9 DEF RequestTypes
<1>11. /\ c \in CounterItems /\ c.value = counters[b].value
       /\ c = counters[b] \/ (c.expires = e /\ counters[b] # NoCounter)
  <2>1. CASE Live(counters[b])
    <3>1. counters[b] # NoCounter
      BY <1>1, <2>1 DEF Live, NoCounter
    <3> QED
      BY <1>5, <1>8, <1>9, <2>1, <3>1 DEF CounterItems
  <2>2. CASE ~Live(counters[b])
    BY <1>8, <1>9, <2>2
  <2> QED
    BY <2>1, <2>2
<1>12. /\ counters' \in [Buckets -> CounterItems] /\ counters'[b] = c
       /\ \A d \in Buckets : d # b => counters'[d] = counters[d]
  BY <1>1, <1>3, <1>10, <1>11 DEF RequestTypes
<1>13. /\ pc' \in [Agents \cup Workers -> LoopLabels \cup RequestLabels]
       /\ pc'[w] = "idle" /\ \A u \in Workers : u # w => pc'[u] = pc[u]
  BY <1>1, <1>6, WorkerGoes
<1>14. /\ at' \in [Workers -> 0 .. MaxTime] /\ count' \in [Workers -> Nat]
       /\ at'[w] = 0 /\ count'[w] = 0
       /\ \A u \in Workers : u # w => at'[u] = at[u] /\ count'[u] = count[u]
  BY <1>1, <1>6 DEF RequestTypes
<1>15. RequestTypes'
  BY <1>1, <1>6, <1>12, <1>13, <1>14 DEF RequestTypes, Buckets
<1>16. CountsOK'
  <2>1. deny'.count <= Room' /\ lookup'.count <= Room'
    BY <1>1, <1>6, <1>7 DEF CountsOK, RequestTypes, DenyRecords
  <2>2. \A u \in Workers : count'[u] <= Room'
    <3> SUFFICES ASSUME NEW u \in Workers PROVE count'[u] <= Room'
      OBVIOUS
    <3>1. count[u] <= Room /\ count[u] \in Nat /\ count'[u] \in {0, count[u]}
      BY <1>1, <1>14 DEF CountsOK, RequestTypes
    <3> QED
      BY <1>1, <1>7, <3>1
  <2>3. \A d \in Buckets : counters'[d].value <= Room' /\ allowed'[d] <= Room'
    <3> SUFFICES ASSUME NEW d \in Buckets
                 PROVE  counters'[d].value <= Room' /\ allowed'[d] <= Room'
      OBVIOUS
    <3>1. /\ counters[d].value <= Room /\ allowed[d] <= Room
          /\ counters[d].value \in Nat /\ allowed[d] \in Nat
      BY <1>1 DEF CountsOK, RequestTypes, CounterItems
    <3>2. counters'[d].value = counters[d].value
      BY <1>11, <1>12
    <3> QED
      BY <1>1, <1>6, <1>7, <3>1, <3>2
  <2> QED
    BY <2>1, <2>2, <2>3 DEF CountsOK, Buckets
<1>17. ClockOK'
  <2>1. \A u \in Workers : at'[u] <= now
    BY <1>1, <1>13, <1>14 DEF ClockOK
  <2> QED
    BY <1>1, <1>6, <2>1 DEF ClockOK
<1>18. CooldownOK'
  BY <1>1, <1>6, <1>13, <1>14 DEF CooldownOK
<1>19. RateOK'
  <2>1. \A d \in Buckets \ late' :
          /\ allowed'[d] <= counters'[d].value /\ allowed'[d] <= Limit
          /\ \/ counters'[d] = NoCounter
             \/ counters'[d].expires > MaxTime
             \/ counters'[d].expires >= (d + 2) * Window
    <3> SUFFICES ASSUME NEW d \in Buckets \ late'
                 PROVE  /\ allowed'[d] <= counters'[d].value /\ allowed'[d] <= Limit
                        /\ \/ counters'[d] = NoCounter
                           \/ counters'[d].expires > MaxTime
                           \/ counters'[d].expires >= (d + 2) * Window
      OBVIOUS
    <3>1. CASE counters'[d] = counters[d]
      BY <1>1, <1>6, <3>1 DEF RateOK
    <3>2. CASE d = b /\ c.expires = e
      BY <1>1, <1>5, <1>6, <1>11, <1>12, <3>2 DEF RateOK
    <3> QED
      BY <1>11, <1>12, <3>1, <3>2
  <2> QED
    BY <2>1 DEF RateOK, Buckets
<1> QED
  BY <1>15, <1>16, <1>17, <1>18, <1>19 DEF Inv, RequestInv

\* The steps of the registry, and the clock.
LEMMA OthersKeep ==
  ASSUME Inv, UNCHANGED <<kind, reqVars>>, now' \in 0 .. MaxTime, calls' \in 0 .. MaxCalls,
         calls' >= calls, now' >= now,
         pc' \in [Agents \cup Workers -> LoopLabels \cup RequestLabels],
         \A w \in Workers : \/ pc'[w] = pc[w]
                            \/ pc'[w] \in LoopLabels \cup {"idle"}
  PROVE  Inv'
<1>1. /\ RequestTypes /\ CountsOK /\ ClockOK /\ CooldownOK /\ RateOK
      /\ Room \in Int /\ 0 <= Room /\ now \in 0 .. MaxTime /\ calls \in 0 .. MaxCalls
  BY RoomIs DEF Inv, RequestInv, RequestTypes
<1>2. UNCHANGED <<kind, counters, deny, lookup, at, count, allowed, late, denied>>
  BY DEF reqVars
<1>3. RequestTypes'
  BY <1>1, <1>2 DEF RequestTypes, Buckets
<1>4. Room' \in Int /\ Room' >= Room
  <2>1. Pending' \subseteq Pending
    BY DEF Pending
  <2> QED
    BY <1>1, <2>1, RoomKept
<1>5. CountsOK'
  <2>1. ASSUME NEW n \in Nat, n <= Room PROVE n <= Room'
    BY <1>1, <1>4, <2>1
  <2>2. deny.count \in Nat /\ lookup.count \in Nat
    BY <1>1 DEF RequestTypes, DenyRecords
  <2>3. \A w \in Workers : count[w] \in Nat
    BY <1>1 DEF RequestTypes
  <2>4. \A b \in Buckets : counters[b].value \in Nat /\ allowed[b] \in Nat
    BY <1>1 DEF RequestTypes, CounterItems
  <2> QED
    BY <1>1, <1>2, <2>1, <2>2, <2>3, <2>4 DEF CountsOK, Buckets
<1>6. ClockOK'
  <2>1. denied \in Nat /\ \A w \in Workers : at[w] \in Nat
    BY <1>1 DEF RequestTypes
  <2>2. denied' <= now'
    BY <1>1, <1>2, <2>1 DEF ClockOK
  <2>3. \A w \in Workers : at'[w] <= now'
    BY <1>1, <1>2, <2>1 DEF ClockOK
  <2> QED
    BY <2>2, <2>3 DEF ClockOK
<1>7. CooldownOK'
  BY <1>1, <1>2 DEF CooldownOK
<1>8. RateOK'
  BY <1>1, <1>2 DEF RateOK, Buckets
<1> QED
  BY <1>3, <1>5, <1>6, <1>7, <1>8 DEF Inv, RequestInv

LEMMA RequestStep == Inv /\ [Next]_vars => Inv'
<1> SUFFICES ASSUME Inv, [Next]_vars PROVE Inv'
  OBVIOUS
<1>1. /\ now \in 0 .. MaxTime /\ calls \in 0 .. MaxCalls /\ ClockOK
      /\ pc \in [Agents \cup Workers -> LoopLabels \cup RequestLabels]
  BY DEF Inv, RequestInv, RequestTypes
<1>2. ASSUME NEW a \in Agents, AgentNext(a) PROVE Inv'
  <2>1. PICK l \in {"idle", "get", "cas"} : Goto(a, l)
    BY <1>2 DEF AgentNext, Call, Get, Swap, SwapLost, AgentAborts, Return
  <2>2. UNCHANGED <<kind, now, reqVars>>
    BY <1>2 DEF AgentNext, Call, Get, Swap, SwapLost, AgentAborts
  <2>3. calls' = calls \/ (calls < MaxCalls /\ calls' = calls + 1)
    BY <1>2 DEF AgentNext, Call, Get, Swap, SwapLost, AgentAborts
  <2>4. calls' \in 0 .. MaxCalls /\ calls' >= calls
    BY <1>1, <2>3
  <2>5. /\ pc' \in [Agents \cup Workers -> LoopLabels \cup RequestLabels]
        /\ \A w \in Workers : pc'[w] = pc[w] \/ pc'[w] \in LoopLabels \cup {"idle"}
    BY <1>1, <2>1 DEF Goto
  <2> QED
    BY <1>1, <2>2, <2>4, <2>5, OthersKeep
<1>3. CASE Tick
  <2>1. now < MaxTime /\ now' = now + 1 /\ UNCHANGED <<kind, pc, calls, reqVars>>
    BY <1>3 DEF Tick
  <2>2. now' \in 0 .. MaxTime /\ now' >= now /\ calls' \in 0 .. MaxCalls /\ calls' >= calls
    BY <1>1, <2>1
  <2> QED
    BY <1>1, <2>1, <2>2, OthersKeep
<1>4. CASE UNCHANGED vars
  <2>1. UNCHANGED <<kind, now, pc, calls, reqVars>>
    BY <1>4 DEF vars
  <2> QED
    BY <1>1, <2>1, OthersKeep
<1>5. ASSUME NEW w \in Workers, WorkerNext(w) PROVE Inv'
  BY <1>5, ArriveKeeps, QuietKeeps, ReadDenyKeeps, IncrKeeps, ExpireKeeps DEF WorkerNext
<1> QED
  BY <1>2, <1>3, <1>4, <1>5 DEF Next

\* The inductive invariant behind the rate limit and the cooldown.
THEOREM RequestInvariance == Spec => []Inv
BY InitRequests, RequestStep, PTL DEF Spec

\* A bucket lets no more through than its limit, for every number of workers,
\* whichever store counts and whoever dies, if no increment came later than a window
\* after the clock reading that chose its bucket.
THEOREM RateKeptHolds == Spec => []RateKept
<1>1. Inv => RateKept
  BY DEF Inv, RequestInv, RateOK, RateKept
<1> QED
  BY <1>1, RequestInvariance, PTL

\* A cooldown ends the longest delay after the last denial of the policy, whoever
\* writes late.
THEOREM CooldownEndsHolds == Spec => []CooldownEnds
<1>1. Inv => CooldownEnds
  BY DEF Inv, RequestInv, CooldownOK, CooldownEnds
<1> QED
  BY <1>1, RequestInvariance, PTL
\* A loop gives up before it counts one round too many.
TriesOK == tries \in [Agents -> 0 .. Tries - 1]

LEMMA TriesKept == TriesOK /\ [Next]_vars => TriesOK'
<1> SUFFICES ASSUME tries \in [Agents -> 0 .. Tries - 1], [Next]_vars
             PROVE  tries' \in [Agents -> 0 .. Tries - 1]
  BY DEF TriesOK
<1>1. ASSUME NEW a \in Agents, tries' = [tries EXCEPT ![a] = 0]
      PROVE  tries' \in [Agents -> 0 .. Tries - 1]
  BY <1>1
<1>2. ASSUME NEW a \in Agents, AgentNext(a) PROVE tries' \in [Agents -> 0 .. Tries - 1]
  <2>1. CASE Call(a) \/ Get(a)
    BY <2>1 DEF Call, Get
  <2>2. CASE Swap(a) \/ AgentAborts(a)
    BY <1>1, <2>2 DEF Swap, AgentAborts, Return
  <2>3. CASE SwapLost(a)
    <3>1. CASE tries[a] + 1 < Tries /\ tries' = [tries EXCEPT ![a] = @ + 1]
      <4>1. tries[a] + 1 \in 0 .. Tries - 1
        BY <3>1
      <4> QED
        BY <3>1, <4>1
    <3>2. CASE Return(a)
      BY <1>1, <3>2 DEF Return
    <3> QED
      BY <2>3, <3>1, <3>2 DEF SwapLost
  <2> QED
    BY <1>2, <2>1, <2>2, <2>3 DEF AgentNext
<1>3. ASSUME NEW w \in Workers, WorkerNext(w) PROVE UNCHANGED tries
  BY <1>3, WorkerSteps DEF regVars
<1>4. CASE Tick \/ UNCHANGED vars
  BY <1>4 DEF Tick, vars, regVars
<1> QED
  BY <1>2, <1>3, <1>4 DEF Next

\* Type correctness: no counter and no count of denials is higher than the number
\* of requests there were.
THEOREM TypeCorrect == Spec => []TypeOK
<1>1. Init => TriesOK
  BY DEF Init, TriesOK
<1>2. Spec => []TriesOK
  BY <1>1, TriesKept, PTL DEF Spec
<1>3. Inv /\ RegistryInv /\ TriesOK => TypeOK
  <2> SUFFICES ASSUME Inv, RegistryInv, tries \in [Agents -> 0 .. Tries - 1] PROVE TypeOK
    BY DEF TriesOK
  <2>1. RequestTypes /\ CountsOK /\ Room \in Int /\ Room <= MaxCalls
    BY RoomIs DEF Inv, RequestInv
  <2>2. \A b \in Buckets : counters[b] \in [value : 0 .. MaxCalls, expires : Nat]
                           /\ allowed[b] \in 0 .. MaxCalls
    <3> SUFFICES ASSUME NEW b \in Buckets
                 PROVE  counters[b] \in [value : 0 .. MaxCalls, expires : Nat]
                        /\ allowed[b] \in 0 .. MaxCalls
      OBVIOUS
    <3>1. counters[b] \in CounterItems /\ counters[b].value \in Nat /\ allowed[b] \in Nat
      BY <2>1 DEF RequestTypes, CounterItems
    <3>2. counters[b].value <= MaxCalls /\ allowed[b] <= MaxCalls
      BY <2>1, <3>1 DEF CountsOK
    <3> QED
      BY <3>1, <3>2 DEF CounterItems
  <2>3. {deny, lookup} \subseteq [count : 0 .. MaxCalls, until : Nat, expires : Nat]
    <3>1. deny.count \in Nat /\ lookup.count \in Nat
      BY <2>1 DEF RequestTypes, DenyRecords
    <3>2. deny.count <= MaxCalls /\ lookup.count <= MaxCalls
      BY <2>1, <3>1 DEF CountsOK
    <3> QED
      BY <2>1, <3>1, <3>2 DEF RequestTypes, DenyRecords
  <2>4. \A w \in Workers : count[w] \in 0 .. MaxCalls
    <3> SUFFICES ASSUME NEW w \in Workers PROVE count[w] \in 0 .. MaxCalls
      OBVIOUS
    <3>1. count[w] \in Nat /\ count[w] <= Room
      BY <2>1 DEF RequestTypes, CountsOK
    <3> QED
      BY <2>1, <3>1
  <2>5. /\ counters \in [Buckets -> [value : 0 .. MaxCalls, expires : Nat]]
        /\ allowed \in [Buckets -> 0 .. MaxCalls] /\ count \in [Workers -> 0 .. MaxCalls]
    BY <2>1, <2>2, <2>4 DEF RequestTypes
  <2>6. /\ kind \in {"sqlite", "redis"} /\ now \in 0 .. MaxTime /\ calls \in 0 .. MaxCalls
        /\ at \in [Workers -> 0 .. MaxTime] /\ denied \in 0 .. MaxTime /\ late \subseteq Buckets
    BY <2>1 DEF RequestTypes
  <2>7. /\ registry \in Registries
        /\ pc \in [Agents \cup Workers -> LoopLabels \cup RequestLabels]
        /\ call \in [Agents -> (Operations \X Members) \cup {NoCall}]
        /\ raw \in [Agents -> Registries] /\ new \in [Agents -> [Members -> M!MemberRecords]]
    BY DEF RegistryInv
  <2> QED
    BY <2>3, <2>5, <2>6, <2>7 DEF TypeOK
<1> QED
  BY <1>2, <1>3, Invariance, RequestInvariance, PTL
================================================================================
