------------------------------ MODULE FabricLease ------------------------------
(***************************************************************************)
(* PolicyFabricRuntimeStateStore (snulbug/fabric_runtime.py): the ownership *)
(* lease of `fabric run`, kept in a SQLite or Redis key and changed by      *)
(* get / incr / cas loops.  Each process is one `fabric run` instance with  *)
(* one call on the store at a time; the steps of different instances        *)
(* interleave, the clock moves between any two steps, and an instance may   *)
(* crash between any two.  Store operations (one SQL transaction, one Redis *)
(* command or WATCH/MULTI block) are atomic.                                *)
(***************************************************************************)
EXTENDS RuntimeLease

CONSTANTS Procs,          \* the running instances
          OwnerOf,        \* the owner id of each instance
          MaxAttempts,    \* rounds of a CAS loop (range(8) in the code)
          MaxGeneration,  \* bound on the generation counter (model only)
          MaxTime         \* bound on the clock (model only)

ASSUME FabricLeaseAssumption ==
  /\ OwnerOf \in [Procs -> OwnerIds]
  /\ MaxAttempts \in Nat \ {0}
  /\ MaxGeneration \in Nat
  /\ MaxTime \in Nat

VARIABLES now,         \* the wall clock
          lease,       \* the record under lease_key
          generation,  \* the counter under generation_key
          pc,          \* where each instance is in its call
          op,          \* the call: "acquire", "renew" or "release"
          tries,       \* rounds of the loop already lost
          raw,         \* the record the current round read
          new,         \* the record the current round will swap in
          held         \* the instance's own copy of its lease (runtime_lease)

vars == <<now, lease, generation, pc, op, tries, raw, new, held>>

Ops == {"acquire", "renew", "release"}

TypeOK ==
  /\ now \in Nat
  /\ lease \in Leases
  /\ generation \in Nat
  /\ pc \in [Procs -> {"idle", "get", "check", "incr", "cas"}]
  /\ op \in [Procs -> Ops]
  /\ tries \in [Procs -> 0 .. MaxAttempts - 1]
  /\ raw \in [Procs -> Leases]
  /\ new \in [Procs -> Leases]
  /\ held \in [Procs -> Leases]

Init ==
  /\ now = 0
  /\ lease = NoLease
  /\ generation = 0
  /\ pc = [p \in Procs |-> "idle"]
  /\ op = [p \in Procs |-> "acquire"]
  /\ tries = [p \in Procs |-> 0]
  /\ raw = [p \in Procs |-> NoLease]
  /\ new = [p \in Procs |-> NoLease]
  /\ held = [p \in Procs |-> NoLease]

Tick ==
  /\ now < MaxTime
  /\ now' = now + 1
  /\ UNCHANGED <<lease, generation, pc, op, tries, raw, new, held>>

Call(p, o) ==
  /\ pc[p] = "idle"
  /\ pc' = [pc EXCEPT ![p] = "get"]
  /\ op' = [op EXCEPT ![p] = o]
  /\ UNCHANGED <<now, lease, generation, tries, raw, new, held>>

\* `fabric run` acquires once, when it starts; afterwards it renews on every
\* status update with the token it was given, and releases when it ends.
CallAcquire(p) == held[p] = NoLease /\ Call(p, "acquire")
CallRenew(p) == held[p] # NoLease /\ Call(p, "renew")
CallRelease(p) == held[p] # NoLease /\ Call(p, "release")

\* raw = self.store.get(self.lease_key), at the head of every loop.
GetRaw(p) ==
  /\ pc[p] = "get"
  /\ raw' = [raw EXCEPT ![p] = lease]
  /\ pc' = [pc EXCEPT ![p] = "check"]
  /\ UNCHANGED <<now, lease, generation, op, tries, new, held>>

\* The call returns; its local variables are gone.
Return(p) ==
  /\ pc' = [pc EXCEPT ![p] = "idle"]
  /\ op' = [op EXCEPT ![p] = "acquire"]
  /\ tries' = [tries EXCEPT ![p] = 0]
  /\ raw' = [raw EXCEPT ![p] = NoLease]
  /\ new' = [new EXCEPT ![p] = NoLease]

\* The call returns without a change of the store; the instance keeps what
\* it holds (a failed renewal leaves the old record behind, marked lost).
GiveUp(p) ==
  /\ Return(p)
  /\ UNCHANGED <<now, lease, generation, held>>

Prepare(p, l) ==
  /\ new' = [new EXCEPT ![p] = l]
  /\ pc' = [pc EXCEPT ![p] = "cas"]
  /\ UNCHANGED <<now, lease, op, tries, raw, held>>

Mine(p) == LeaseMatches(raw[p], OwnerOf[p], held[p].token)

\* owned_by_other_instance
AcquireRefused(p) ==
  /\ pc[p] = "check" /\ op[p] = "acquire"
  /\ LeaseIsActive(raw[p], now)
  /\ raw[p].owner # OwnerOf[p]
  /\ GiveUp(p)

\* An active lease of the same owner id is taken over with its token.
AcquireOwn(p) ==
  /\ pc[p] = "check" /\ op[p] = "acquire"
  /\ LeaseIsActive(raw[p], now)
  /\ raw[p].owner = OwnerOf[p]
  /\ Prepare(p, RenewedLease(raw[p], now))
  /\ UNCHANGED generation

\* Mutant: the lease is taken without asking whether it is active.
AcquireFree_Active(p) ==
  /\ pc[p] = "check" /\ op[p] = "acquire"
  /\ pc' = [pc EXCEPT ![p] = "incr"]
  /\ UNCHANGED <<now, lease, generation, op, tries, raw, new, held>>

AcquireFree(p) ==
  /\ pc[p] = "check" /\ op[p] = "acquire"
  /\ ~LeaseIsActive(raw[p], now)
  /\ pc' = [pc EXCEPT ![p] = "incr"]
  /\ UNCHANGED <<now, lease, generation, op, tries, raw, new, held>>

\* Mutant: the counter is read, not incremented.
TakeToken_NoIncr(p) ==
  /\ pc[p] = "incr"
  /\ generation < MaxGeneration
  /\ UNCHANGED generation
  /\ Prepare(p, NewLease(OwnerOf[p], generation + 1, now))

\* token = self.store.incr(self.generation_key, 1).  The token is burned when
\* the swap that follows is lost.
TakeToken(p) ==
  /\ pc[p] = "incr"
  /\ generation < MaxGeneration
  /\ generation' = generation + 1
  /\ Prepare(p, NewLease(OwnerOf[p], generation', now))

RenewDenied(p) ==
  /\ pc[p] = "check" /\ op[p] = "renew"
  /\ ~(Mine(p) /\ LeaseIsActive(raw[p], now))
  /\ GiveUp(p)

RenewMine(p) ==
  /\ pc[p] = "check" /\ op[p] = "renew"
  /\ Mine(p)
  /\ LeaseIsActive(raw[p], now)
  /\ Prepare(p, RenewedLease(raw[p], now))
  /\ UNCHANGED generation

ReleaseDenied(p) ==
  /\ pc[p] = "check" /\ op[p] = "release"
  /\ ~Mine(p)
  /\ GiveUp(p)

\* Release asks for the same owner and token, not for an active lease.
ReleaseMine(p) ==
  /\ pc[p] = "check" /\ op[p] = "release"
  /\ Mine(p)
  /\ Prepare(p, ReleasedLease(raw[p], now))
  /\ UNCHANGED generation

\* Mutant: put instead of cas.
Swap_NoCompare(p) ==
  /\ pc[p] = "cas"
  /\ lease' = new[p]
  /\ held' = [held EXCEPT ![p] = IF op[p] = "release" THEN NoLease ELSE new[p]]
  /\ Return(p)
  /\ UNCHANGED <<now, generation>>

\* self.store.cas(self.lease_key, raw, ...) succeeds.
Swap(p) ==
  /\ pc[p] = "cas"
  /\ lease = raw[p]
  /\ lease' = new[p]
  /\ held' = [held EXCEPT ![p] = IF op[p] = "release" THEN NoLease ELSE new[p]]
  /\ Return(p)
  /\ UNCHANGED <<now, generation>>

\* The record changed since it was read: the next round, or lease_contended.
SwapLost(p) ==
  /\ pc[p] = "cas"
  /\ lease # raw[p]
  /\ \/ /\ tries[p] + 1 < MaxAttempts
        /\ tries' = [tries EXCEPT ![p] = @ + 1]
        /\ pc' = [pc EXCEPT ![p] = "get"]
        /\ UNCHANGED <<op, raw, new>>
     \/ /\ tries[p] + 1 >= MaxAttempts
        /\ Return(p)
  /\ UNCHANGED <<now, lease, generation, held>>

\* The process dies, or an operation of the store raises and run_fabric_data_plane
\* ends: the record stays as it is until it expires.
Crash(p) ==
  /\ pc[p] # "idle" \/ held[p] # NoLease
  /\ Return(p)
  /\ held' = [held EXCEPT ![p] = NoLease]
  /\ UNCHANGED <<now, lease, generation>>

ProcNext(p) ==
  \/ CallAcquire(p) \/ CallRenew(p) \/ CallRelease(p)
  \/ GetRaw(p)
  \/ AcquireRefused(p) \/ AcquireOwn(p) \/ AcquireFree(p) \/ TakeToken(p)
  \/ RenewDenied(p) \/ RenewMine(p)
  \/ ReleaseDenied(p) \/ ReleaseMine(p)
  \/ Swap(p) \/ SwapLost(p)
  \/ Crash(p)

Next == Tick \/ \E p \in Procs : ProcNext(p)

Spec == Init /\ [][Next]_vars
-------------------------------------------------------------------------------
(* Properties.                                                              *)

UniqueOwners == \A p, q \in Procs : OwnerOf[p] = OwnerOf[q] => p = q

\* What an instance concludes from its own copy of the lease, without the
\* store: it has a copy and the copy has not run out.
BelievesOwner(p) == LeaseIsActive(held[p], now)

(* Two instances with different owner ids never both hold an unexpired copy *)
(* of the lease, however their loops interleave and whoever crashes: the    *)
(* ownership promise of docs/mcp-fabric.md, seen from the instances' side.  *)
OneBeliever ==
  UniqueOwners =>
    \A p, q \in Procs : BelievesOwner(p) /\ BelievesOwner(q) => p = q

(* A fencing token never names two owners, among all the copies in use.     *)
TokenNamesOneOwner ==
  \A p, q \in Procs :
    /\ held[p] # NoLease /\ held[q] # NoLease
    /\ held[p].token = held[q].token
    => OwnerOf[p] = OwnerOf[q]

(* The fencing token under the lease key never goes down, and a change of   *)
(* owner always comes with a greater one.                                   *)
FencingMonotonic ==
  [][/\ lease'.token >= lease.token
     /\ lease'.owner # lease.owner => lease'.token > lease.token]_vars

(* The loops implement the atomic lease.                                    *)
Fenced == INSTANCE FencedLease WITH now <- now, lease <- lease
ImplementsFencedLease == Fenced!Spec
-------------------------------------------------------------------------------
(* The inductive invariant behind the proofs of FabricLeaseProofs.           *)

\* What a round that reached the swap is about to do with the record it read.
FreshRound(p) ==
  /\ op[p] = "acquire"
  /\ new[p].owner = OwnerOf[p]
  /\ new[p].token > raw[p].token
  /\ new[p].token <= generation
  /\ ~new[p].released
  /\ new[p].expires <= now + TTL
  /\ ~LeaseIsActive(raw[p], now)

ExtendRound(p) ==
  /\ op[p] \in {"acquire", "renew"}
  /\ raw[p] # NoLease
  /\ raw[p].owner = OwnerOf[p]
  /\ ~raw[p].released
  /\ new[p] = [raw[p] EXCEPT !.expires = new[p].expires]
  /\ new[p].expires >= raw[p].expires
  /\ new[p].expires <= now + TTL

ReleaseRound(p) ==
  /\ op[p] = "release"
  /\ raw[p] # NoLease
  /\ raw[p].owner = OwnerOf[p]
  /\ new[p] = [raw[p] EXCEPT !.expires = new[p].expires, !.released = TRUE]
  /\ new[p].expires <= now

RoundOK(p) ==
  /\ raw[p].token <= generation
  /\ raw[p].expires <= now + TTL
  /\ pc[p] = "incr" => op[p] = "acquire" /\ ~LeaseIsActive(raw[p], now)
  /\ pc[p] = "cas" => FreshRound(p) \/ ExtendRound(p) \/ ReleaseRound(p)

RecordOK ==
  /\ lease.token <= generation
  /\ lease.expires <= now + TTL

HeldOK(p) == held[p] # NoLease => held[p].owner = OwnerOf[p]

\* An instance that believes it owns the lease does own it.
BeliefOK(p) ==
  BelievesOwner(p) =>
    /\ lease.owner = OwnerOf[p]
    /\ ~lease.released
    /\ lease.expires >= held[p].expires

(* The records read are no newer than the counter and the clock; a round     *)
(* about to swap in a fresh token read an inactive record with a smaller     *)
(* one; an unexpired private copy is backed by the record of the store.      *)
IInv ==
  /\ TypeOK
  /\ RecordOK
  /\ \A p \in Procs : RoundOK(p) /\ HeldOK(p)
  /\ UniqueOwners => \A p \in Procs : BeliefOK(p)

\* Every record of the store and of the instances' local variables.
Copies == {NoLease, lease} \cup {raw[p] : p \in Procs}
            \cup {new[p] : p \in Procs} \cup {held[p] : p \in Procs}

(* Also inductive: tokens in use were drawn from the counter, and one token  *)
(* never appears with two owners.                                            *)
TokenInv ==
  /\ \A x \in Copies : x.token <= generation
  /\ \A x, y \in Copies : x.token = y.token => x.owner = y.owner
================================================================================
