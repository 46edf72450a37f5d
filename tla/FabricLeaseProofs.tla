--------------------------- MODULE FabricLeaseProofs ---------------------------
(***************************************************************************)
(* Proofs about FabricLease, for any number of instances, any owner ids,    *)
(* any number of rounds and any bound on the clock and the generation.      *)
(*                                                                          *)
(* The argument: a round that will install a fresh token read its record    *)
(* before it took the token, so the token exceeds the record's; the swap    *)
(* only succeeds on that very record; hence tokens only grow, and a record   *)
(* found inactive is still inactive when it is replaced.                    *)
(***************************************************************************)
EXTENDS FabricLease, TLAPS

-------------------------------------------------------------------------------
\* The record functions stay in the type of leases.
LEMMA LeaseTypes ==
  /\ NoLease \in Leases
  /\ \A o \in OwnerIds, t \in Nat, n \in Nat : NewLease(o, t, n) \in Leases
  /\ \A l \in Leases, n \in Nat : /\ RenewedLease(l, n) \in Leases
                                  /\ ReleasedLease(l, n) \in Leases
<1> USE RuntimeLeaseAssumption
<1>1. NoLease \in Leases
  BY DEF NoLease, Leases
<1>2. ASSUME NEW o \in OwnerIds, NEW t \in Nat, NEW n \in Nat
      PROVE  NewLease(o, t, n) \in Leases
  <2>1. n + TTL \in Nat
    OBVIOUS
  <2> QED
    BY <2>1 DEF NewLease, Leases
<1>3. ASSUME NEW l \in Leases, NEW n \in Nat
      PROVE  RenewedLease(l, n) \in Leases /\ ReleasedLease(l, n) \in Leases
  <2>1. n + TTL \in Nat
    OBVIOUS
  <2> QED
    BY <2>1 DEF RenewedLease, ReleasedLease, Leases
<1> QED
  BY <1>1, <1>2, <1>3

\* A round that is not the last one leaves another.
LEMMA NextRound ==
  ASSUME NEW n \in Nat, NEW t \in 0 .. n - 1, t + 1 < n
  PROVE  t + 1 \in 0 .. n - 1
OBVIOUS

\* Every step keeps the types.
LEMMA TypeStep == TypeOK /\ [Next]_vars => TypeOK'
<1> SUFFICES ASSUME TypeOK, [Next]_vars PROVE TypeOK'
  OBVIOUS
<1> USE LeaseTypes, FabricLeaseAssumption DEF FabricLeaseAssumption, TypeOK, Ops
<1>1. CASE UNCHANGED vars
  BY <1>1 DEF vars
<1>2. CASE Tick
  BY <1>2 DEF Tick
<1>3. ASSUME NEW p \in Procs, ProcNext(p) PROVE TypeOK'
  <2>0. OwnerOf[p] \in OwnerIds
    OBVIOUS
  <2>1. CASE CallAcquire(p) \/ CallRenew(p) \/ CallRelease(p)
    BY <2>1 DEF CallAcquire, CallRenew, CallRelease, Call
  <2>2. CASE GetRaw(p)
    BY <2>2 DEF GetRaw
  <2>3. CASE AcquireRefused(p) \/ RenewDenied(p) \/ ReleaseDenied(p)
    <3>1. Return(p) /\ UNCHANGED <<now, lease, generation, held>>
      BY <2>3 DEF AcquireRefused, RenewDenied, ReleaseDenied, GiveUp
    <3> QED
      BY <3>1 DEF Return
  <2>4. CASE AcquireOwn(p) \/ RenewMine(p)
    <3>1. RenewedLease(raw[p], now) \in Leases
      OBVIOUS
    <3>2. Prepare(p, RenewedLease(raw[p], now)) /\ UNCHANGED generation
      BY <2>4 DEF AcquireOwn, RenewMine
    <3> QED
      BY <3>1, <3>2 DEF Prepare
  <2>5. CASE AcquireFree(p)
    BY <2>5 DEF AcquireFree
  <2>6. CASE TakeToken(p)
    BY <2>6, <2>0 DEF TakeToken, Prepare
  <2>7. CASE ReleaseMine(p)
    BY <2>7 DEF ReleaseMine, Prepare
  <2>8. CASE Swap(p)
    BY <2>8 DEF Swap, Return
  <2>9. CASE SwapLost(p)
    <3>1. UNCHANGED <<now, lease, generation, held>>
      BY <2>9 DEF SwapLost
    <3>2. CASE tries[p] + 1 < MaxAttempts /\ tries' = [tries EXCEPT ![p] = @ + 1]
               /\ pc' = [pc EXCEPT ![p] = "get"] /\ UNCHANGED <<op, raw, new>>
      <4>0. tries[p] \in 0 .. MaxAttempts - 1 /\ MaxAttempts \in Nat
        OBVIOUS
      <4>1. tries[p] + 1 \in 0 .. MaxAttempts - 1
        BY <3>2, <4>0, NextRound
      <4> QED
        BY <3>1, <3>2, <4>1
    <3>3. CASE Return(p)
      BY <3>1, <3>3 DEF Return
    <3> QED
      BY <2>9, <3>2, <3>3 DEF SwapLost
  <2>10. CASE Crash(p)
    BY <2>10 DEF Crash, Return
  <2> QED
    BY <1>3, <2>1, <2>2, <2>3, <2>4, <2>5, <2>6, <2>7, <2>8, <2>9, <2>10
       DEF ProcNext
<1> QED
  BY <1>1, <1>2, <1>3 DEF Next

(* Type correctness of the store and of every instance, for every value of   *)
(* the constants.                                                            *)
THEOREM TypeCorrect == Spec => []TypeOK
<1>1. Init => TypeOK
  BY LeaseTypes, FabricLeaseAssumption
     DEF FabricLeaseAssumption, Init, TypeOK, Ops
<1> QED
  BY <1>1, TypeStep, PTL DEF Spec

-------------------------------------------------------------------------------
\* A record that is not active never becomes active by itself.
LEMMA InactiveStays ==
  ASSUME NEW l \in Leases, NEW n \in Nat, NEW m \in Nat, n <= m,
         ~LeaseIsActive(l, n)
  PROVE  ~LeaseIsActive(l, m)
BY DEF LeaseIsActive, Leases

\* Time and the counter only grow, so a round that is not touched stays OK.
LEMMA RoundStays ==
  ASSUME TypeOK, TypeOK', NEW p \in Procs, RoundOK(p),
         now <= now', generation <= generation',
         UNCHANGED <<op[p], raw[p]>>,
         (pc'[p] = pc[p] /\ new'[p] = new[p]) \/ pc'[p] \notin {"incr", "cas"}
  PROVE  RoundOK(p)'
<1> USE RuntimeLeaseAssumption DEF RuntimeLeaseAssumption
<1>0. /\ raw[p] \in Leases /\ new[p] \in Leases /\ now \in Nat /\ now' \in Nat
      /\ generation \in Nat /\ generation' \in Nat /\ TTL \in Nat
  BY DEF TypeOK
<1>1. (raw[p].token <= generation)' /\ (raw[p].expires <= now + TTL)'
  BY <1>0 DEF RoundOK, Leases
<1>2. (pc[p] = "incr" => op[p] = "acquire" /\ ~LeaseIsActive(raw[p], now))'
  BY <1>0, InactiveStays DEF RoundOK
<1>3. ASSUME pc'[p] = "cas"
      PROVE  (FreshRound(p) \/ ExtendRound(p) \/ ReleaseRound(p))'
  <2>0. pc[p] = "cas" /\ new'[p] = new[p]
    BY <1>3
  <2>1. CASE FreshRound(p)
    <3>1. ~LeaseIsActive(raw[p], now)'
      BY <1>0, <2>1, InactiveStays DEF FreshRound
    <3>2. new[p].token <= generation' /\ new[p].expires <= now' + TTL
      BY <1>0, <2>1 DEF FreshRound, Leases
    <3> QED
      BY <2>0, <2>1, <3>1, <3>2 DEF FreshRound
  <2>2. CASE ExtendRound(p)
    <3>1. new[p].expires <= now' + TTL
      BY <1>0, <2>2 DEF ExtendRound, Leases
    <3> QED
      BY <2>0, <2>2, <3>1 DEF ExtendRound
  <2>3. CASE ReleaseRound(p)
    <3>1. new[p].expires <= now'
      BY <1>0, <2>3 DEF ReleaseRound, Leases
    <3> QED
      BY <2>0, <2>3, <3>1 DEF ReleaseRound
  <2> QED
    BY <2>0, <2>1, <2>2, <2>3 DEF RoundOK
<1> QED
  BY <1>1, <1>2, <1>3 DEF RoundOK

\* What a step of p leaves alone.
LEMMA OneProcessMoves ==
  ASSUME TypeOK, NEW p \in Procs, ProcNext(p)
  PROVE  /\ now' = now
         /\ generation' \in {generation, generation + 1}
         /\ \A q \in Procs \ {p} :
              /\ pc'[q] = pc[q] /\ op'[q] = op[q]
              /\ raw'[q] = raw[q] /\ new'[q] = new[q] /\ held'[q] = held[q]
<1> USE DEF TypeOK
<1>1. CASE CallAcquire(p) \/ CallRenew(p) \/ CallRelease(p)
  BY <1>1 DEF CallAcquire, CallRenew, CallRelease, Call
<1>2. CASE GetRaw(p) \/ AcquireFree(p)
  BY <1>2 DEF GetRaw, AcquireFree
<1>3. CASE AcquireRefused(p) \/ RenewDenied(p) \/ ReleaseDenied(p)
  BY <1>3 DEF AcquireRefused, RenewDenied, ReleaseDenied, GiveUp, Return
<1>4. CASE AcquireOwn(p) \/ RenewMine(p) \/ ReleaseMine(p) \/ TakeToken(p)
  BY <1>4 DEF AcquireOwn, RenewMine, ReleaseMine, TakeToken, Prepare
<1>5. CASE Swap(p) \/ Crash(p)
  BY <1>5 DEF Swap, Crash, Return
<1>6. CASE SwapLost(p)
  BY <1>6 DEF SwapLost, Return
<1> QED
  BY <1>1, <1>2, <1>3, <1>4, <1>5, <1>6 DEF ProcNext

\* A step other than Swap leaves the record of the store alone.
LEMMA OnlySwapWrites ==
  ASSUME TypeOK, NEW p \in Procs, ProcNext(p), ~Swap(p)
  PROVE  lease' = lease
BY DEF ProcNext, CallAcquire, CallRenew, CallRelease, Call, GetRaw, AcquireFree,
       AcquireRefused, RenewDenied, ReleaseDenied, GiveUp, AcquireOwn, RenewMine,
       ReleaseMine, TakeToken, Prepare, SwapLost, Crash

\* The round of the process that moves is OK again.
LEMMA OwnRound ==
  ASSUME TypeOK, TypeOK', RecordOK, NEW p \in Procs, RoundOK(p), ProcNext(p)
  PROVE  RoundOK(p)'
<1> USE RuntimeLeaseAssumption, FabricLeaseAssumption
    DEF RuntimeLeaseAssumption, FabricLeaseAssumption
<1>0. /\ raw[p] \in Leases /\ new[p] \in Leases /\ lease \in Leases
      /\ held[p] \in Leases /\ now \in Nat /\ generation \in Nat
      /\ TTL \in Nat /\ OwnerOf[p] \in OwnerIds /\ NoLease \in Leases
  BY LeaseTypes DEF TypeOK
<1>1. now' = now /\ generation <= generation'
  BY OneProcessMoves, <1>0
<1>2. CASE /\ pc'[p] \notin {"incr", "cas"}
           /\ raw'[p] \in {raw[p], lease, NoLease}
  <2>1. \A l \in {raw[p], lease, NoLease} :
          l.token <= generation /\ l.expires <= now + TTL
    BY <1>0 DEF RoundOK, RecordOK, NoLease
  <2>2. raw'[p].token <= generation /\ raw'[p].expires <= now + TTL
    BY <1>2, <2>1
  <2>3. raw'[p].token <= generation'
    BY <2>2, <1>1, <1>2, <1>0 DEF Leases, TypeOK
  <2> QED
    BY <1>1, <1>2, <2>2, <2>3 DEF RoundOK
<1>3. CASE \/ CallAcquire(p) \/ CallRenew(p) \/ CallRelease(p) \/ GetRaw(p)
           \/ AcquireRefused(p) \/ RenewDenied(p) \/ ReleaseDenied(p)
           \/ Swap(p) \/ SwapLost(p) \/ Crash(p)
  <2>1. pc'[p] \in {"get", "check", "idle"} /\ raw'[p] \in {raw[p], lease, NoLease}
    BY <1>3 DEF TypeOK, CallAcquire, CallRenew, CallRelease, Call, GetRaw,
       AcquireRefused, RenewDenied, ReleaseDenied, GiveUp, Swap, SwapLost,
       Crash, Return
  <2> QED
    BY <2>1, <1>2
<1>4. CASE AcquireFree(p)
  BY <1>4, <1>0, <1>1 DEF AcquireFree, RoundOK, TypeOK
<1>5. CASE TakeToken(p)
  <2>1. /\ pc[p] = "incr" /\ raw'[p] = raw[p] /\ op'[p] = op[p]
        /\ pc'[p] = "cas" /\ generation' = generation + 1
        /\ new'[p] = NewLease(OwnerOf[p], generation + 1, now)
    BY <1>5 DEF TakeToken, Prepare, TypeOK
  <2>2. FreshRound(p)'
    BY <1>0, <1>1, <2>1 DEF RoundOK, FreshRound, NewLease, Leases
  <2> QED
    BY <1>0, <1>1, <2>1, <2>2 DEF RoundOK, Leases
<1>6. CASE AcquireOwn(p) \/ RenewMine(p)
  <2>1. /\ raw'[p] = raw[p] /\ op'[p] = op[p] /\ op[p] \in {"acquire", "renew"}
        /\ pc'[p] = "cas" /\ generation' = generation
        /\ new'[p] = RenewedLease(raw[p], now)
        /\ raw[p].owner = OwnerOf[p] /\ LeaseIsActive(raw[p], now)
    BY <1>6 DEF AcquireOwn, RenewMine, Mine, LeaseMatches, Prepare, TypeOK
  <2>2. raw[p] # NoLease /\ ~raw[p].released
    BY <2>1, <1>0 DEF LeaseIsActive, NoLease
  <2>3. /\ new'[p].expires = now + TTL
        /\ new'[p] = [raw[p] EXCEPT !.expires = now + TTL]
    BY <2>1, <2>2, <1>0 DEF RenewedLease, Leases
  <2>4. ExtendRound(p)'
    BY <1>0, <1>1, <2>1, <2>2, <2>3 DEF RoundOK, ExtendRound
  <2> QED
    BY <1>0, <1>1, <2>1, <2>4 DEF RoundOK
<1>7. CASE ReleaseMine(p)
  <2>1. /\ raw'[p] = raw[p] /\ op'[p] = op[p] /\ op[p] = "release"
        /\ pc'[p] = "cas" /\ generation' = generation
        /\ new'[p] = ReleasedLease(raw[p], now)
        /\ raw[p] # NoLease /\ raw[p].owner = OwnerOf[p]
    BY <1>7 DEF ReleaseMine, Mine, LeaseMatches, Prepare, TypeOK
  <2>2. /\ new'[p].expires = now
        /\ new'[p] = [raw[p] EXCEPT !.expires = now, !.released = TRUE]
    BY <2>1, <1>0 DEF ReleasedLease, Leases
  <2>3. ReleaseRound(p)'
    BY <1>0, <1>1, <2>1, <2>2 DEF ReleaseRound
  <2> QED
    BY <1>0, <1>1, <2>1, <2>3 DEF RoundOK
<1> QED
  BY <1>3, <1>4, <1>5, <1>6, <1>7 DEF ProcNext

\* The record a swap installs, by the kind of its round.
LEMMA SwapKinds ==
  ASSUME TypeOK, RecordOK, NEW p \in Procs, RoundOK(p), Swap(p)
  PROVE  /\ lease = raw[p] /\ lease' = new[p] /\ now' = now
         /\ generation' = generation
         /\ held'[p] = IF op[p] = "release" THEN NoLease ELSE new[p]
         /\ new[p] \in Leases
         /\ FreshRound(p) \/ ExtendRound(p) \/ ReleaseRound(p)
BY DEF Swap, RoundOK, TypeOK

LEMMA RecordStep ==
  ASSUME TypeOK, RecordOK, NEW p \in Procs, RoundOK(p), ProcNext(p)
  PROVE  RecordOK'
<1> USE RuntimeLeaseAssumption DEF RuntimeLeaseAssumption
<1>0. /\ lease \in Leases /\ new[p] \in Leases /\ raw[p] \in Leases
      /\ now \in Nat /\ generation \in Nat
  BY DEF TypeOK
<1>1. now' = now /\ generation <= generation'
  BY OneProcessMoves, <1>0
<1>2. CASE ~Swap(p)
  <2>1. lease' = lease
    BY <1>2, OnlySwapWrites
  <2> QED
    BY <1>0, <1>1, <2>1, OneProcessMoves DEF RecordOK, Leases
<1>3. CASE Swap(p)
  <2>1. new[p].token <= generation /\ new[p].expires <= now + TTL
    <3>1. raw[p].token <= generation
      BY DEF RoundOK
    <3>2. CASE FreshRound(p)
      BY <3>2 DEF FreshRound
    <3>3. CASE ExtendRound(p)
      <4>1. new[p].token = raw[p].token
        BY <1>0, <3>3 DEF ExtendRound, Leases
      <4> QED
        BY <3>1, <3>3, <4>1 DEF ExtendRound
    <3>4. CASE ReleaseRound(p)
      <4>1. new[p].token = raw[p].token
        BY <1>0, <3>4 DEF ReleaseRound, Leases
      <4> QED
        BY <1>0, <3>1, <3>4, <4>1 DEF ReleaseRound, Leases
    <3> QED
      BY <1>3, <3>2, <3>3, <3>4, SwapKinds
  <2> QED
    BY <1>3, <2>1, SwapKinds DEF RecordOK
<1> QED
  BY <1>2, <1>3

\* What an instance holds was granted under its own owner id.
LEMMA HeldStep ==
  ASSUME TypeOK, RecordOK, NEW p \in Procs, RoundOK(p), ProcNext(p),
         NEW q \in Procs, HeldOK(q)
  PROVE  HeldOK(q)'
<1>1. CASE Swap(p) /\ q = p
  <2>1. CASE op[p] = "release"
    BY <1>1, <2>1, SwapKinds DEF HeldOK
  <2>2. CASE op[p] # "release"
    <3>1. new[p].owner = OwnerOf[p]
      BY <1>1, <2>2, SwapKinds DEF FreshRound, ExtendRound, ReleaseRound, Leases, TypeOK
    <3> QED
      BY <1>1, <2>2, <3>1, SwapKinds DEF HeldOK
  <2> QED
    BY <2>1, <2>2
<1>2. CASE q # p
  BY <1>2, OneProcessMoves DEF HeldOK
<1>3. CASE ~Swap(p)
  <2>1. held'[q] \in {held[q], NoLease}
    BY <1>3 DEF TypeOK, ProcNext, CallAcquire, CallRenew, CallRelease, Call,
       GetRaw, AcquireFree, AcquireRefused, RenewDenied, ReleaseDenied, GiveUp,
       AcquireOwn, RenewMine, ReleaseMine, TakeToken, Prepare, SwapLost, Crash
  <2> QED
    BY <2>1 DEF HeldOK
<1> QED
  BY <1>1, <1>2, <1>3

\* No step of p makes an instance's belief wrong.
LEMMA BeliefStep ==
  ASSUME TypeOK, TypeOK', RecordOK, UniqueOwners, NEW p \in Procs, RoundOK(p),
         ProcNext(p), NEW q \in Procs, BeliefOK(q)
  PROVE  BeliefOK(q)'
<1>0. /\ lease \in Leases /\ new[p] \in Leases /\ raw[p] \in Leases
      /\ held[q] \in Leases /\ now \in Nat
  BY DEF TypeOK
<1>1. now' = now
  BY OneProcessMoves
<1>2. CASE ~Swap(p)
  <2>1. lease' = lease
    BY <1>2, OnlySwapWrites
  <2>2. held'[q] \in {held[q], NoLease}
    BY <1>2 DEF TypeOK, ProcNext, CallAcquire, CallRenew, CallRelease, Call,
       GetRaw, AcquireFree, AcquireRefused, RenewDenied, ReleaseDenied, GiveUp,
       AcquireOwn, RenewMine, ReleaseMine, TakeToken, Prepare, SwapLost, Crash
  <2>3. CASE held'[q] = held[q]
    BY <1>1, <2>1, <2>3 DEF BeliefOK, BelievesOwner
  <2>4. CASE held'[q] = NoLease
    BY <1>0, <1>1, <2>4 DEF BeliefOK, BelievesOwner, LeaseIsActive, NoLease
  <2> QED
    BY <2>2, <2>3, <2>4
<1>3. CASE Swap(p) /\ q = p
  <2>1. CASE op[p] = "release"
    BY <1>0, <1>1, <1>3, <2>1, SwapKinds
       DEF BeliefOK, BelievesOwner, LeaseIsActive, NoLease
  <2>2. CASE op[p] # "release"
    <3>1. new[p].owner = OwnerOf[p] /\ ~new[p].released
      BY <1>0, <1>3, <2>2, SwapKinds
         DEF FreshRound, ExtendRound, ReleaseRound, Leases
    <3> QED
      BY <1>0, <1>1, <1>3, <2>2, <3>1, SwapKinds
         DEF BeliefOK, BelievesOwner, LeaseIsActive, Leases
  <2> QED
    BY <2>1, <2>2
<1>4. CASE Swap(p) /\ q # p
  <2>1. held'[q] = held[q]
    BY <1>4, OneProcessMoves
  <2>2. SUFFICES ASSUME BelievesOwner(q) PROVE FALSE
    BY <1>1, <2>1 DEF BeliefOK, BelievesOwner
  <2>3. lease = raw[p] /\ LeaseIsActive(raw[p], now) /\ raw[p].owner = OwnerOf[q]
    BY <1>0, <1>4, <2>2, SwapKinds DEF BeliefOK, BelievesOwner, LeaseIsActive, Leases
  <2>4. OwnerOf[p] # OwnerOf[q]
    BY <1>4 DEF UniqueOwners
  <2> QED
    BY <1>4, <2>3, <2>4, SwapKinds DEF FreshRound, ExtendRound, ReleaseRound
<1> QED
  BY <1>2, <1>3, <1>4

-------------------------------------------------------------------------------
LEMMA InvInit == Init => IInv
<1> SUFFICES ASSUME Init PROVE IInv
  OBVIOUS
<1> USE RuntimeLeaseAssumption, FabricLeaseAssumption
    DEF RuntimeLeaseAssumption, FabricLeaseAssumption
<1>1. TypeOK
  BY LeaseTypes DEF Init, TypeOK, Ops
<1>2. RecordOK /\ \A p \in Procs : RoundOK(p) /\ HeldOK(p)
  BY DEF Init, RecordOK, RoundOK, HeldOK, NoLease
<1>3. \A p \in Procs : BeliefOK(p)
  BY DEF Init, BeliefOK, BelievesOwner, LeaseIsActive, NoLease
<1> QED
  BY <1>1, <1>2, <1>3 DEF IInv

LEMMA InvStep == IInv /\ [Next]_vars => IInv'
<1> SUFFICES ASSUME IInv, [Next]_vars PROVE IInv'
  OBVIOUS
<1> USE RuntimeLeaseAssumption DEF RuntimeLeaseAssumption
<1>0. TypeOK /\ RecordOK /\ TypeOK'
  BY TypeStep DEF IInv
<1>1. CASE UNCHANGED vars
  BY <1>0, <1>1 DEF vars, IInv, RecordOK, RoundOK, FreshRound, ExtendRound,
     ReleaseRound, HeldOK, BeliefOK, BelievesOwner
<1>2. CASE Tick
  <2>1. /\ now \in Nat /\ now' = now + 1
        /\ UNCHANGED <<lease, generation, pc, op, raw, new, held>>
    BY <1>0, <1>2 DEF Tick, TypeOK
  <2>2. RecordOK'
    BY <1>0, <2>1 DEF RecordOK, TypeOK, Leases
  <2>3. ASSUME NEW p \in Procs PROVE RoundOK(p)' /\ HeldOK(p)'
    BY <1>0, <2>1, RoundStays DEF IInv, TypeOK, HeldOK
  <2>4. ASSUME NEW p \in Procs, BeliefOK(p) PROVE BeliefOK(p)'
    <3>1. held[p] \in Leases
      BY <1>0 DEF TypeOK
    <3> QED
      BY <2>1, <2>4, <3>1 DEF BeliefOK, BelievesOwner, LeaseIsActive, Leases
  <2> QED
    BY <1>0, <2>2, <2>3, <2>4 DEF IInv, UniqueOwners
<1>3. ASSUME NEW p \in Procs, ProcNext(p) PROVE IInv'
  <2>1. RecordOK'
    BY <1>0, <1>3, RecordStep DEF IInv
  <2>2. ASSUME NEW q \in Procs PROVE RoundOK(q)'
    <3>1. CASE q = p
      BY <1>0, <1>3, <3>1, OwnRound DEF IInv
    <3>2. CASE q # p
      <4>1. now <= now' /\ generation <= generation'
        BY <1>0, <1>3, OneProcessMoves DEF TypeOK
      <4>2. /\ pc'[q] = pc[q] /\ op'[q] = op[q]
            /\ raw'[q] = raw[q] /\ new'[q] = new[q]
        BY <1>0, <1>3, <3>2, OneProcessMoves
      <4> QED
        BY <1>0, <4>1, <4>2, RoundStays DEF IInv
    <3> QED
      BY <3>1, <3>2
  <2>3. ASSUME NEW q \in Procs PROVE HeldOK(q)'
    BY <1>0, <1>3, HeldStep DEF IInv
  <2>4. ASSUME UniqueOwners, NEW q \in Procs PROVE BeliefOK(q)'
    BY <1>0, <1>3, <2>4, BeliefStep DEF IInv
  <2> QED
    BY <1>0, <2>1, <2>2, <2>3, <2>4 DEF IInv, UniqueOwners
<1> QED
  BY <1>1, <1>2, <1>3 DEF Next

(* The inductive invariant holds in every reachable state.                   *)
THEOREM Invariance == Spec => []IInv
BY InvInit, InvStep, PTL DEF Spec

(* No two instances with different owner ids ever both hold an unexpired     *)
(* copy of the lease.                                                        *)
THEOREM OneBelieverHolds == Spec => []OneBeliever
<1>1. IInv => OneBeliever
  <2> SUFFICES ASSUME IInv, UniqueOwners, NEW p \in Procs, NEW q \in Procs,
                      BelievesOwner(p), BelievesOwner(q)
               PROVE  p = q
    BY DEF OneBeliever
  <2>1. lease.owner = OwnerOf[p] /\ lease.owner = OwnerOf[q]
    BY DEF IInv, BeliefOK
  <2> QED
    BY <2>1 DEF UniqueOwners
<1> QED
  BY <1>1, Invariance, PTL

(* The fencing token never goes down, and a new owner always gets a greater  *)
(* one.                                                                      *)
THEOREM FencingMonotonicHolds == Spec => FencingMonotonic
<1>1. ASSUME IInv, [Next]_vars
      PROVE  [/\ lease'.token >= lease.token
              /\ lease'.owner # lease.owner => lease'.token > lease.token]_vars
  <2>0. lease.token \in Nat
    BY <1>1 DEF IInv, TypeOK, Leases
  <2>1. CASE lease' = lease
    BY <2>0, <2>1
  <2>2. CASE \E p \in Procs : Swap(p)
    <3>1. PICK p \in Procs : Swap(p)
      BY <2>2
    <3>2. raw[p] \in Leases /\ new[p] \in Leases
      BY <1>1 DEF IInv, TypeOK
    <3> QED
      <4>1. /\ lease = raw[p] /\ lease' = new[p]
            /\ FreshRound(p) \/ ExtendRound(p) \/ ReleaseRound(p)
        BY <1>1, <3>1, SwapKinds DEF IInv
      <4>2. CASE FreshRound(p)
        BY <3>2, <4>1, <4>2 DEF FreshRound, Leases
      <4>3. CASE ExtendRound(p) \/ ReleaseRound(p)
        <5>1. new[p].token = raw[p].token /\ new[p].owner = raw[p].owner
          BY <3>2, <4>3 DEF ExtendRound, ReleaseRound, Leases
        <5> QED
          BY <2>0, <4>1, <5>1
      <4> QED
        BY <4>1, <4>2, <4>3
  <2> QED
    BY <1>1, <2>1, <2>2, OnlySwapWrites DEF Next, Tick, vars, IInv
<1> QED
  BY <1>1, Invariance, PTL DEF Spec, FencingMonotonic

(* The compare-and-swap loops implement the atomic lease of FencedLease.     *)
THEOREM Implementation == Spec => ImplementsFencedLease
<1> USE DEF Fenced!LeaseIsActive, Fenced!NoLease
<1>1. Init => Fenced!Init
  BY DEF Init, Fenced!Init, NoLease
<1>2. ASSUME IInv, [Next]_vars PROVE [Fenced!Next]_(Fenced!vars)
  <2>0. lease \in Leases /\ now \in Nat
    BY <1>2 DEF IInv, TypeOK
  <2>1. CASE UNCHANGED <<now, lease>>
    BY <2>1 DEF Fenced!vars
  <2>2. CASE Tick
    BY <2>2 DEF Tick, Fenced!Next, Fenced!Tick
  <2>3. CASE \E p \in Procs : Swap(p)
    <3>1. PICK p \in Procs : Swap(p)
      BY <2>3
    <3>2. /\ lease = raw[p] /\ lease' = new[p] /\ now' = now
          /\ new[p] \in Leases /\ raw[p] \in Leases
          /\ FreshRound(p) \/ ExtendRound(p) \/ ReleaseRound(p)
      BY <1>2, <3>1, SwapKinds DEF IInv, TypeOK
    <3>3. CASE FreshRound(p)
      <4>1. OwnerOf[p] \in OwnerIds
        BY FabricLeaseAssumption DEF FabricLeaseAssumption
      <4>2. Fenced!Grant
        BY <2>0, <3>2, <3>3, <4>1 DEF FreshRound, Fenced!Grant, LeaseIsActive, Leases
      <4> QED
        BY <4>2 DEF Fenced!Next
    <3>4. CASE ExtendRound(p)
      <4>1. Fenced!Extend
        BY <2>0, <3>2, <3>4 DEF ExtendRound, Fenced!Extend, Leases, NoLease
      <4> QED
        BY <4>1 DEF Fenced!Next
    <3>5. CASE ReleaseRound(p)
      <4>1. Fenced!Release
        BY <2>0, <3>2, <3>5 DEF ReleaseRound, Fenced!Release, Leases, NoLease
      <4> QED
        BY <4>1 DEF Fenced!Next
    <3> QED
      BY <3>2, <3>3, <3>4, <3>5
  <2>4. CASE \E p \in Procs : ProcNext(p) /\ ~Swap(p)
    BY <1>2, <2>4, OnlySwapWrites, OneProcessMoves DEF IInv, Fenced!vars
  <2> QED
    BY <1>2, <2>1, <2>2, <2>3, <2>4 DEF Next, vars
<1> QED
  BY <1>1, <1>2, Invariance, PTL DEF Spec, ImplementsFencedLease, Fenced!Spec

-------------------------------------------------------------------------------
\* After a step every copy has the owner and the token of an earlier copy, or
\* is the record just made with a token fresh from the counter.
LEMMA CopiesStep ==
  ASSUME TypeOK, NEW p \in Procs, ProcNext(p), NEW x \in Copies'
  PROVE  \/ \E y \in Copies : x.token = y.token /\ x.owner = y.owner
         \/ /\ generation' = generation + 1 /\ x = new'[p]
            /\ new'[p].token = generation + 1
<1>0. /\ raw[p] \in Leases /\ \A l \in {NoLease, lease, raw[p], new[p], held[p]} : l \in Copies
  BY DEF TypeOK, Copies
<1>1. \A q \in Procs \ {p} :
        /\ raw'[q] = raw[q] /\ new'[q] = new[q] /\ held'[q] = held[q]
        /\ raw[q] \in Copies /\ new[q] \in Copies /\ held[q] \in Copies
  BY OneProcessMoves DEF Copies
<1>2. CASE x \notin {NoLease, lease', raw'[p], new'[p], held'[p]}
  BY <1>1, <1>2 DEF Copies
<1>3. CASE x \in {NoLease, lease', raw'[p], new'[p], held'[p]}
  <2>1. CASE ~ TakeToken(p) /\ ~ AcquireOwn(p) /\ ~RenewMine(p) /\ ~ReleaseMine(p)
    <3>1. x \in {NoLease, lease, raw[p], new[p], held[p]}
      BY <1>3, <2>1 DEF TypeOK, ProcNext, CallAcquire, CallRenew, CallRelease,
         Call, GetRaw, AcquireFree, AcquireRefused, RenewDenied, ReleaseDenied,
         GiveUp, Swap, SwapLost, Crash, Return
    <3> QED
      BY <1>0, <3>1
  <2>2. CASE TakeToken(p)
    <3>1. /\ generation' = generation + 1 /\ new'[p].token = generation + 1
          /\ x \in {NoLease, lease, raw[p], held[p], new'[p]}
      BY <1>3, <2>2 DEF TypeOK, TakeToken, Prepare, NewLease
    <3> QED
      BY <1>0, <3>1
  <2>3. CASE AcquireOwn(p) \/ RenewMine(p) \/ ReleaseMine(p)
    <3>1. /\ new'[p] \in {RenewedLease(raw[p], now), ReleasedLease(raw[p], now)}
          /\ x \in {NoLease, lease, raw[p], held[p], new'[p]}
      BY <1>3, <2>3 DEF TypeOK, AcquireOwn, RenewMine, ReleaseMine, Prepare
    <3>2. new'[p].token = raw[p].token /\ new'[p].owner = raw[p].owner
      BY <1>0, <3>1 DEF RenewedLease, ReleasedLease, Leases
    <3> QED
      BY <1>0, <3>1, <3>2
  <2> QED
    BY <2>1, <2>2, <2>3
<1> QED
  BY <1>2, <1>3

LEMMA CopiesAreLeases == TypeOK => \A x \in Copies : x \in Leases
BY LeaseTypes DEF TypeOK, Copies

LEMMA TokenStep == TypeOK /\ TokenInv /\ [Next]_vars => TokenInv'
<1> SUFFICES ASSUME TypeOK, TokenInv, [Next]_vars PROVE TokenInv'
  OBVIOUS
<1>0. /\ generation \in Nat
      /\ \A x \in Copies : x.token \in Nat /\ x.token <= generation
  BY CopiesAreLeases DEF TypeOK, TokenInv, Leases
<1>1. CASE UNCHANGED <<lease, generation, raw, new, held>>
  BY <1>1 DEF TokenInv, Copies
<1>2. ASSUME NEW p \in Procs, ProcNext(p) PROVE TokenInv'
  <2>1. generation' \in {generation, generation + 1}
    BY <1>2, OneProcessMoves
  <2>2. ASSUME NEW x \in Copies' PROVE x.token <= generation'
    BY <1>0, <1>2, <2>1, CopiesStep
  <2>3. ASSUME NEW x \in Copies', NEW y \in Copies', x.token = y.token
        PROVE  x.owner = y.owner
    BY <1>0, <1>2, <2>3, CopiesStep DEF TokenInv
  <2> QED
    BY <2>2, <2>3 DEF TokenInv
<1> QED
  BY <1>1, <1>2 DEF Next, Tick, vars

(* Among all the records in use, a fencing token names one owner.            *)
THEOREM TokenNamesOneOwnerHolds == Spec => []TokenNamesOneOwner
<1>1. Init => TokenInv
  BY DEF Init, TokenInv, Copies, NoLease
<1>2. IInv /\ TokenInv => TokenNamesOneOwner
  <2> SUFFICES ASSUME IInv, TokenInv, NEW p \in Procs, NEW q \in Procs,
                      held[p] # NoLease, held[q] # NoLease,
                      held[p].token = held[q].token
               PROVE  OwnerOf[p] = OwnerOf[q]
    BY DEF TokenNamesOneOwner
  <2>1. held[p].owner = held[q].owner
    BY DEF TokenInv, Copies
  <2> QED
    BY <2>1 DEF IInv, HeldOK
<1>3. IInv => TypeOK
  BY DEF IInv
<1> QED
  BY <1>1, <1>2, <1>3, TokenStep, Invariance, PTL DEF Spec
================================================================================
