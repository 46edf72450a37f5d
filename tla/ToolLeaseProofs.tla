---------------------------- MODULE ToolLeaseProofs ----------------------------
(***************************************************************************)
(* Proofs about ToolLease for every set of leases and workers, every length  *)
(* of the second, the overlap, the lifetimes and the authorizations.         *)
(***************************************************************************)
EXTENDS ToolLease, TLAPS

USE ToolLeaseAssumption DEF ToolLeaseAssumption
-------------------------------------------------------------------------------
(* Writing an instant: whole seconds, less than a second earlier.            *)

LEMMA StampBounds ==
  ASSUME NEW t \in Nat
  PROVE  Stamp(t) \in Nat /\ Stamp(t) <= t /\ Stamp(t) > t - Second
BY DEF Stamp

LEMMA StampQuotient ==
  ASSUME NEW t \in Nat
  PROVE  Stamp(t) = Second * (t \div Second) /\ t \div Second \in Nat
BY DEF Stamp

LEMMA Multiples ==
  ASSUME NEW m \in Nat, NEW n \in Nat, m < n
  PROVE  Second * m + Second <= Second * n
OBVIOUS

\* A whole second that is not after t is not after t as it is written.
LEMMA StampGreatest ==
  ASSUME NEW s \in Nat, NEW t \in Nat, Stamp(s) <= t
  PROVE  Stamp(s) <= Stamp(t)
<1> DEFINE m == s \div Second
           n == t \div Second
<1>1. m \in Nat /\ n \in Nat /\ Stamp(s) = Second * m /\ Stamp(t) = Second * n
  BY StampQuotient
<1>2. CASE m = n
  BY <1>1, <1>2
<1>3. CASE m < n
  BY <1>1, <1>3, Multiples, StampBounds
<1>4. CASE n < m
  <2>1. Second * n + Second <= Second * m
    BY <1>1, <1>4, Multiples
  <2>2. Stamp(t) + Second <= Stamp(s)
    BY <2>1, <1>1
  <2>3. Stamp(t) > t - Second /\ Stamp(t) \in Nat /\ Stamp(s) \in Nat
    BY StampBounds
  <2> QED
    BY <2>2, <2>3
<1> QED
  BY <1>1, <1>2, <1>3, <1>4

\* A longer wait is never written as an earlier end.
LEMMA StampMonotonic ==
  ASSUME NEW s \in Nat, NEW t \in Nat, s <= t
  PROVE  Stamp(s) <= Stamp(t)
BY StampBounds, StampGreatest

LEMMA StampTwice ==
  ASSUME NEW t \in Nat
  PROVE  Stamp(Stamp(t)) = Stamp(t)
BY StampBounds, StampGreatest
-------------------------------------------------------------------------------
(* The operators on records.                                                 *)

LEMMA NextExpiryBounds ==
  ASSUME NEW l \in LeaseRecords, NEW t \in Nat
  PROVE  /\ NextExpiry(l, t) \in Nat
         /\ NextExpiry(l, t) <= l.until
         /\ NextExpiry(l, t) <= t + l.ttl
         /\ NextExpiry(l, t) \in {l.until, t + l.ttl}
BY DEF NextExpiry, Earlier, LeaseRecords

\* A number in place of a number.
LEMMA SetField ==
  ASSUME NEW l \in LeaseRecords, NEW n \in Nat
  PROVE  /\ [l EXCEPT !.expires = n] \in LeaseRecords
         /\ [l EXCEPT !.token = n] \in LeaseRecords
         /\ [l EXCEPT !.limit = n] \in LeaseRecords
         /\ [l EXCEPT !.uses = n] \in LeaseRecords
         /\ [l EXCEPT !.gen = n] \in LeaseRecords
         /\ [l EXCEPT !.prev = n] \in LeaseRecords
         /\ [l EXCEPT !.prevUntil = n] \in LeaseRecords
BY DEF LeaseRecords

\* The fields a renewal sets.
LEMMA RenewedFields ==
  ASSUME NEW l \in LeaseRecords, NEW t \in Nat, NEW m, m = Renewed(l, t)
  PROVE  /\ m \in LeaseRecords
         /\ m.kind = l.kind /\ m.revoked = l.revoked /\ m.stopped = l.stopped
         /\ m.limit = l.limit /\ m.uses = l.uses /\ m.ttl = l.ttl
         /\ m.until = l.until /\ m.gen = l.gen + 1 /\ m.token = l.gen + 1
         /\ m.expires = Stamp(NextExpiry(l, t))
         /\ m.prevUntil <= l.expires
         /\ m.prevUntil > 0 => m.prev = l.token
<1>1. Stamp(NextExpiry(l, t)) \in Nat
  BY NextExpiryBounds, StampBounds
<1>2. /\ Earlier(l.expires, t + Overlap) \in Nat
      /\ Earlier(l.expires, t + Overlap) <= l.expires
  BY DEF Earlier, LeaseRecords
<1>3. /\ Stamp(Earlier(l.expires, t + Overlap)) \in Nat
      /\ Stamp(Earlier(l.expires, t + Overlap)) <= l.expires
  BY <1>2, StampBounds DEF LeaseRecords
<1> DEFINE e == Stamp(NextExpiry(l, t))
           k == IF l.expires > t THEN l.token ELSE 0
           u == IF l.expires > t THEN Stamp(Earlier(l.expires, t + Overlap)) ELSE 0
<1>4. e \in Nat /\ k \in Nat /\ u \in Nat /\ u <= l.expires /\ (u > 0 => k = l.token)
  BY <1>1, <1>3 DEF LeaseRecords
<1>5. Renewed(l, t) = [l EXCEPT !.prev = k, !.prevUntil = u, !.gen = @ + 1,
                                !.token = l.gen + 1, !.expires = e]
  BY DEF Renewed
<1> HIDE DEF k, u
<1>6. Renewed(l, t) \in LeaseRecords
  <2> DEFINE m1 == [l EXCEPT !.prev = k]
             m2 == [m1 EXCEPT !.prevUntil = u]
             m3 == [m2 EXCEPT !.gen = l.gen + 1]
             m4 == [m3 EXCEPT !.token = l.gen + 1]
  <2>1. Renewed(l, t) = [m4 EXCEPT !.expires = e]
    BY <1>5 DEF LeaseRecords
  <2>2. l.gen + 1 \in Nat
    BY DEF LeaseRecords
  <2>3. m1 \in LeaseRecords
    BY <1>4, SetField
  <2> HIDE DEF m1
  <2>4. m2 \in LeaseRecords
    BY <1>4, <2>3, SetField
  <2> HIDE DEF m2
  <2>5. m3 \in LeaseRecords
    BY <2>2, <2>4, SetField
  <2> HIDE DEF m3
  <2>6. m4 \in LeaseRecords
    BY <2>2, <2>5, SetField
  <2> HIDE DEF m4
  <2> QED
    BY <1>4, <2>1, <2>6, SetField
<1>7. /\ Renewed(l, t).prev = k /\ Renewed(l, t).prevUntil = u
      /\ Renewed(l, t).expires = e
      /\ Renewed(l, t).gen = l.gen + 1 /\ Renewed(l, t).token = l.gen + 1
  BY <1>5 DEF LeaseRecords
<1>8. /\ Renewed(l, t).kind = l.kind /\ Renewed(l, t).revoked = l.revoked
      /\ Renewed(l, t).stopped = l.stopped /\ Renewed(l, t).limit = l.limit
      /\ Renewed(l, t).uses = l.uses /\ Renewed(l, t).ttl = l.ttl
      /\ Renewed(l, t).until = l.until
  BY <1>5 DEF LeaseRecords
<1> QED
  BY <1>4, <1>6, <1>7, <1>8

\* The fields a renewal leaves alone.
LEMMA RenewedKeeps ==
  ASSUME NEW l \in LeaseRecords, NEW t \in Nat
  PROVE  /\ Renewed(l, t).revoked = l.revoked
         /\ Renewed(l, t).stopped = l.stopped
         /\ Renewed(l, t).limit = l.limit
         /\ Renewed(l, t).uses = l.uses
         /\ Renewed(l, t).ttl = l.ttl
         /\ Renewed(l, t).until = l.until
         /\ Renewed(l, t).gen = l.gen + 1
BY DEF Renewed, LeaseRecords

LEMMA PlainFields ==
  ASSUME NEW t \in Nat, NEW ttl \in TTLs, NEW limit \in Limits,
         NEW m, m = Plain(t, ttl, limit)
  PROVE  /\ m \in LeaseRecords
         /\ m.kind = "plain" /\ ~m.revoked /\ m.expires = Stamp(t + ttl)
         /\ m.token = 0 /\ m.uses = 0 /\ m.gen = 0 /\ m.prevUntil = 0
<1>1. Stamp(t + ttl) \in Nat
  BY StampBounds
<1> QED
  BY <1>1 DEF Plain, NotCreated, LeaseRecords, Kinds

LEMMA RenewableFields ==
  ASSUME NEW t \in Nat, NEW ttl \in TTLs, NEW limit \in Limits, NEW grant \in Grants,
         NEW m, m = Renewable(t, ttl, grant, limit)
  PROVE  /\ m \in LeaseRecords
         /\ m.kind = "renewable" /\ ~m.revoked /\ m.expires = Stamp(t + ttl)
         /\ m.until = Stamp(t + grant) /\ m.ttl = ttl
         /\ m.token = 0 /\ m.uses = 0 /\ m.gen = 0 /\ m.prevUntil = 0
<1>1. Stamp(t + grant) \in Nat
  BY StampBounds
<1>2. Stamp(t + ttl) \in Nat
  BY StampBounds
<1> QED
  BY <1>1, <1>2 DEF Renewable, Plain, NotCreated, LeaseRecords, Kinds

LEMMA ReactivatedFields ==
  ASSUME NEW l \in LeaseRecords, NEW t \in Nat, NEW ttl \in TTLs, NEW limit \in Limits,
         NEW m, m = Reactivated(l, t, ttl, limit)
  PROVE  /\ m \in LeaseRecords
         /\ m.kind = l.kind /\ m.uses = 0 /\ m.token = l.token + 1
         /\ m.prev = l.prev /\ m.prevUntil = l.prevUntil
<1>1. Stamp(t + ttl) \in Nat
  BY StampBounds
<1> DEFINE e == Stamp(t + ttl)
           n == IF limit = 0 THEN l.limit ELSE limit
<1>2. e \in Nat /\ n \in Nat
  BY <1>1 DEF LeaseRecords
<1>3. Reactivated(l, t, ttl, limit)
        = [l EXCEPT !.revoked = FALSE, !.expires = e, !.token = @ + 1,
                    !.uses = 0, !.limit = n]
  BY DEF Reactivated, LeaseRecords
<1> HIDE DEF e, n
<1>4. Reactivated(l, t, ttl, limit) \in LeaseRecords
  <2> DEFINE m1 == [l EXCEPT !.revoked = FALSE]
             m2 == [m1 EXCEPT !.expires = e]
             m3 == [m2 EXCEPT !.token = l.token + 1]
             m4 == [m3 EXCEPT !.uses = 0]
  <2>1. Reactivated(l, t, ttl, limit) = [m4 EXCEPT !.limit = n]
    BY <1>3 DEF LeaseRecords
  <2>2. l.token + 1 \in Nat
    BY DEF LeaseRecords
  <2>3. m1 \in LeaseRecords
    BY DEF LeaseRecords
  <2> HIDE DEF m1
  <2>4. m2 \in LeaseRecords
    BY <1>2, <2>3, SetField
  <2> HIDE DEF m2
  <2>5. m3 \in LeaseRecords
    BY <2>2, <2>4, SetField
  <2> HIDE DEF m3
  <2>6. m4 \in LeaseRecords
    BY <2>5, SetField
  <2> HIDE DEF m4
  <2> QED
    BY <1>2, <2>1, <2>6, SetField
<1>5. /\ m.kind = l.kind /\ m.uses = 0 /\ m.token = l.token + 1
      /\ m.prev = l.prev /\ m.prevUntil = l.prevUntil
  BY <1>3 DEF LeaseRecords
<1> QED
  BY <1>4, <1>5
-------------------------------------------------------------------------------
(* One decision keeps the bounds inside a record.                            *)

LEMMA StepTypes ==
  ASSUME NEW d \in Decisions, NEW l \in LeaseRecords, NEW m, LeaseStep(d, l, m)
  PROVE  m \in LeaseRecords
<1>0. d.at \in Nat
  BY DEF Decisions
<1>1. CASE d.op = "create"
  BY <1>0, <1>1, PlainFields, RenewableFields DEF LeaseStep
<1>2. CASE d.op = "call"
  BY <1>2 DEF LeaseStep, Used, LeaseRecords
<1>3. CASE d.op = "renew"
  <2>1. m = Renewed(l, d.at)
    BY <1>3 DEF LeaseStep
  <2> QED
    BY <1>0, <2>1, RenewedFields
<1>4. CASE d.op \in {"revoke", "stop"}
  BY <1>4 DEF LeaseStep, LeaseRecords
<1>5. CASE d.op = "reactivate"
  <2>1. PICK ttl \in TTLs, limit \in Limits : m = Reactivated(l, d.at, ttl, limit)
    BY <1>5 DEF LeaseStep
  <2> QED
    BY <1>0, <2>1, ReactivatedFields
<1> QED
  BY <1>1, <1>2, <1>3, <1>4, <1>5 DEF LeaseStep

\* The arithmetic of the overlap: a renewal that is due at t leaves the bound
\* of RenewableOK on its previous token.
LEMMA RenewedOverlap ==
  ASSUME NEW l \in LeaseRecords, NEW t \in Nat,
         Due(l, t), l.kind = "renewable", RenewableOK(l)
  PROVE  RenewableOK(Renewed(l, t))
<1> DEFINE m == Renewed(l, t)
<1>1. /\ m \in LeaseRecords
      /\ m.token = m.gen /\ m.ttl = l.ttl /\ m.until = l.until
      /\ m.expires = Stamp(NextExpiry(l, t))
      /\ m.prevUntil <= l.expires
  BY RenewedFields
<1>2. m.expires <= m.until
  BY <1>1, NextExpiryBounds, StampBounds DEF LeaseRecords
<1>3. CASE NextExpiry(l, t) = l.until
  BY <1>1, <1>2, <1>3 DEF RenewableOK
<1>4. CASE NextExpiry(l, t) = t + l.ttl
  <2>1. m.expires > t + l.ttl - Second
    <3>1. l.ttl \in Nat /\ t + l.ttl \in Nat
      BY DEF LeaseRecords
    <3>2. m.expires = Stamp(t + l.ttl)
      BY <1>1, <1>4
    <3> DEFINE n == t + l.ttl
    <3>3. Stamp(n) > n - Second
      <4>1. n \in Nat
        BY <3>1
      <4> HIDE DEF n
      <4> QED
        BY <4>1, StampBounds
    <3> HIDE DEF m
    <3> QED
      BY <3>1, <3>2, <3>3 DEF Stamp
  <2>2. 2 * m.prevUntil <= 2 * t + l.ttl
    BY <1>1 DEF Due, LeaseRecords
  <2>3. 2 * m.prevUntil < 2 * m.expires - m.ttl + 2 * Second
    BY <2>1, <2>2, <1>1 DEF LeaseRecords
  <2> QED
    BY <1>1, <1>2, <2>3 DEF RenewableOK
<1> QED
  BY <1>3, <1>4, NextExpiryBounds

LEMMA CreatedRenewable ==
  ASSUME NEW t \in Nat, NEW ttl \in TTLs, NEW limit \in Limits, NEW grant \in Grants,
         grant >= ttl
  PROVE  RenewableOK(Renewable(t, ttl, grant, limit))
<1> DEFINE m == Renewable(t, ttl, grant, limit)
<1>1. /\ m \in LeaseRecords
      /\ m.expires = Stamp(t + ttl) /\ m.until = Stamp(t + grant) /\ m.ttl = ttl
      /\ m.token = 0 /\ m.gen = 0 /\ m.prevUntil = 0
  BY RenewableFields
<1>2. m.expires <= m.until /\ Stamp(m.until) = m.until
  BY <1>1, StampMonotonic, StampTwice
<1>3. m.expires > t + ttl - Second
  BY <1>1, StampBounds
<1>4. 2 * m.prevUntil < 2 * m.expires - m.ttl + 2 * Second
  BY <1>1, <1>3 DEF LeaseRecords
<1> QED
  BY <1>1, <1>2, <1>4 DEF RenewableOK

LEMMA StepKeepsLease ==
  ASSUME NEW d \in Decisions, NEW l \in LeaseRecords, NEW m,
         LeaseStep(d, l, m), LeaseOK(l)
  PROVE  LeaseOK(m)
<1>0. d.at \in Nat /\ m \in LeaseRecords
  BY StepTypes DEF Decisions
<1>1. CASE d.op = "create"
  <2>1. PICK ttl \in TTLs, limit \in Limits :
          \/ m = Plain(d.at, ttl, limit)
          \/ \E grant \in Grants :
               grant >= ttl /\ m = Renewable(d.at, ttl, grant, limit)
    BY <1>1 DEF LeaseStep
  <2>2. CASE m = Plain(d.at, ttl, limit)
    <3>1. m.kind = "plain" /\ m.prevUntil = 0 /\ m.uses = 0
      BY <1>0, <2>2, PlainFields
    <3> QED
      BY <1>0, <3>1 DEF LeaseOK, LeaseRecords
  <2>3. ASSUME NEW grant \in Grants, grant >= ttl,
               m = Renewable(d.at, ttl, grant, limit)
        PROVE  LeaseOK(m)
    <3>1. m.kind = "renewable" /\ m.uses = 0
      BY <1>0, <2>3, RenewableFields
    <3>2. RenewableOK(m)
      BY <1>0, <2>3, CreatedRenewable
    <3> QED
      BY <1>0, <3>1, <3>2 DEF LeaseOK, LeaseRecords
  <2> QED
    BY <2>1, <2>2, <2>3
<1>2. CASE d.op = "call"
  <2>1. m = Used(l) /\ ~MaxCallsExceeded(l)
    BY <1>2 DEF LeaseStep, MayUse
  <2>2. InFile(m) /\ m.limit > 0 => m.uses <= m.limit
    BY <2>1 DEF Used, MaxCallsExceeded, LeaseRecords
  <2> QED
    BY <2>1, <2>2 DEF LeaseOK, RenewableOK, Used, LeaseRecords
<1>3. CASE d.op = "renew"
  <2>1. m = Renewed(l, d.at) /\ Due(l, d.at) /\ l.kind = "renewable"
    BY <1>3 DEF LeaseStep, MayRenew, RenewalActive
  <2>2. RenewableOK(m)
    BY <1>0, <2>1, RenewedOverlap DEF LeaseOK
  <2> QED
    BY <1>0, <2>1, <2>2, RenewedFields DEF LeaseOK, InFile
<1>4. CASE d.op \in {"revoke", "stop"}
  BY <1>4 DEF LeaseStep, LeaseOK, RenewableOK, InFile, LeaseRecords
<1>5. CASE d.op = "reactivate"
  <2>1. PICK ttl \in TTLs, limit \in Limits : m = Reactivated(l, d.at, ttl, limit)
    BY <1>5 DEF LeaseStep
  <2>2. l.kind = "plain"
    BY <1>5 DEF LeaseStep
  <2>3. m.kind = "plain" /\ m.uses = 0 /\ m.prevUntil = 0
    BY <1>0, <2>1, <2>2, ReactivatedFields DEF LeaseOK
  <2> QED
    BY <1>0, <2>3 DEF LeaseOK, LeaseRecords
<1> QED
  BY <1>1, <1>2, <1>3, <1>4, <1>5 DEF LeaseStep

LEMMA SweptRecord ==
  ASSUME NEW l \in LeaseRecords, NEW t \in Nat
  PROVE  /\ Swept(l, t) \in LeaseRecords
         /\ LeaseOK(l) => LeaseOK(Swept(l, t))
         /\ Swept(l, t) = l \/ (~Kept(l, t) /\ InFile(l) /\ Swept(l, t) = Removed)
<1>1. Removed \in LeaseRecords /\ Removed.kind = "gone"
  BY DEF Removed, NotCreated, LeaseRecords, Kinds
<1>2. LeaseOK(Removed)
  BY <1>1 DEF LeaseOK, InFile
<1> QED
  BY <1>1, <1>2 DEF Swept
-------------------------------------------------------------------------------
(* The transaction.                                                          *)

LEMMA EmptyTypes ==
  NoFile \in [Ids -> LeaseRecords] /\ NothingDone \in Decisions
<1>1. NotCreated \in LeaseRecords
  BY DEF NotCreated, LeaseRecords, Kinds
<1>2. (CHOOSE i \in Ids : TRUE) \in Ids
  OBVIOUS
<1> QED
  BY <1>1, <1>2 DEF NoFile, NothingDone, Decisions, Ops

LEMMA InvInit == Init => IInv
<1> SUFFICES ASSUME Init PROVE IInv
  OBVIOUS
<1>1. TypeOK
  BY EmptyTypes DEF Init, TypeOK
<1>2. ASSUME NEW w \in Workers
      PROVE  LockOK(w) /\ (pc[w] = "write" => WriteOK(w))
  BY DEF Init, LockOK, NothingDone
<1>3. ASSUME NEW i \in Ids PROVE LeaseOK(file[i]) /\ HistoryOK(i)
  <2>1. file[i] = NotCreated /\ accepted[i] = 0
        /\ \A k \in Tokens : promised[i][k] = 0
    BY DEF Init, NoFile
  <2>2. NotCreated.kind = "none" /\ NotCreated.prevUntil = 0
    BY DEF NotCreated
  <2> QED
    BY <2>1, <2>2 DEF LeaseOK, HistoryOK, InFile
<1> QED
  BY <1>1, <1>2, <1>3 DEF IInv

\* Who is not inside has nothing to write.
LEMMA OneInside ==
  ASSUME IInv, NEW w \in Workers, NEW v \in Workers, pc[w] # "idle", v # w
  PROVE  pc[v] = "idle" /\ did[v].op = "none"
BY DEF IInv, LockOK

LEMMA TickStep ==
  ASSUME IInv, Tick
  PROVE  IInv'
<1>1. TypeOK'
  BY DEF IInv, TypeOK, Tick
<1>2. ASSUME NEW w \in Workers
      PROVE  LockOK(w)' /\ (pc[w] = "write" => WriteOK(w))'
  <2>1. did[w].at \in Nat /\ now \in Nat
    BY DEF IInv, TypeOK, Decisions
  <2>2. LockOK(w)'
    BY <2>1 DEF IInv, LockOK, Tick
  <2>3. (pc[w] = "write" => WriteOK(w))'
    BY DEF IInv, WriteOK, Tick
  <2> QED
    BY <2>2, <2>3
<1>3. ASSUME NEW i \in Ids PROVE (LeaseOK(file[i]) /\ HistoryOK(i))'
  BY DEF IInv, HistoryOK, Tick
<1> QED
  BY <1>1, <1>2, <1>3 DEF IInv

LEMMA EnterStep ==
  ASSUME IInv, NEW w \in Workers, Enter(w)
  PROVE  IInv'
<1>1. TypeOK'
  BY DEF IInv, TypeOK, Enter
<1>2. ASSUME NEW v \in Workers
      PROVE  LockOK(v)' /\ (pc[v] = "write" => WriteOK(v))'
  <2>1. pc \in [Workers -> {"idle", "open", "write"}] /\ copy' = [copy EXCEPT ![w] = file]
        /\ copy \in [Workers -> [Ids -> LeaseRecords]]
    BY DEF IInv, TypeOK, Enter
  <2>2. CASE v = w
    BY <2>1, <2>2 DEF IInv, LockOK, Enter
  <2>3. CASE v # w
    <3>1. pc[v] = "idle" /\ pc'[v] = "idle" /\ lock' # v
      BY <2>1, <2>3 DEF IInv, LockOK, Enter
    <3> QED
      BY <3>1 DEF IInv, LockOK, Enter
  <2> QED
    BY <2>2, <2>3
<1>3. ASSUME NEW i \in Ids PROVE (LeaseOK(file[i]) /\ HistoryOK(i))'
  BY DEF IInv, HistoryOK, Enter
<1> QED
  BY <1>1, <1>2, <1>3 DEF IInv

LEMMA DecideStep ==
  ASSUME IInv, NEW w \in Workers, NEW op \in Ops \ {"none"}, NEW i \in Ids,
         NEW k \in Tokens, NEW store \in [Ids -> LeaseRecords],
         Decide(w, op, i, k, store),
         \/ op = "cleanup" /\ store = [j \in Ids |-> Swept(file[j], now)]
         \/ /\ store = [file EXCEPT ![i] = store[i]]
            /\ LeaseStep([op |-> op, id |-> i, token |-> k, at |-> now],
                         file[i], store[i])
  PROVE  IInv'
<1> DEFINE d == [op |-> op, id |-> i, token |-> k, at |-> now]
<1>0. d \in Decisions
  BY DEF IInv, TypeOK, Decisions, Tokens
<1>1. TypeOK'
  BY <1>0 DEF IInv, TypeOK, Decide
<1>2. did'[w] = d /\ copy'[w] = store /\ pc'[w] = "write" /\ lock = w
  BY DEF IInv, TypeOK, Decide, LockOK
<1>3. UNCHANGED <<now, file, lock, accepted, promised>>
  BY DEF Decide
<1>4. ASSUME NEW v \in Workers
      PROVE  LockOK(v)' /\ (pc[v] = "write" => WriteOK(v))'
  <2>1. CASE v = w
    <3>1. LockOK(w)'
      BY <1>2, <1>3 DEF LockOK, IInv, TypeOK
    <3>2. WriteOK(w)'
      BY <1>2, <1>3 DEF WriteOK
    <3> QED
      BY <2>1, <3>1, <3>2
  <2>2. CASE v # w
    <3>1. pc[v] = "idle" /\ did[v].op = "none"
      BY <2>2, <1>2, OneInside DEF Decide
    <3>2. pc'[v] = pc[v] /\ did'[v] = did[v] /\ copy'[v] = copy[v]
      BY <2>2 DEF IInv, TypeOK, Decide
    <3> QED
      BY <3>1, <3>2, <1>3 DEF IInv, LockOK
  <2> QED
    BY <2>1, <2>2
<1>5. ASSUME NEW j \in Ids PROVE (LeaseOK(file[j]) /\ HistoryOK(j))'
  BY <1>3 DEF IInv, HistoryOK
<1> QED
  BY <1>1, <1>4, <1>5 DEF IInv

\* A worker leaves the transaction without a write.
LEMMA RefuseStep ==
  ASSUME IInv, NEW w \in Workers, Refuse(w)
  PROVE  IInv'
<1>1. TypeOK'
  BY EmptyTypes DEF IInv, TypeOK, Refuse, Leave
<1>2. lock = w /\ lock' = Free
  BY DEF IInv, LockOK, Refuse, Leave
<1>3. ASSUME NEW v \in Workers
      PROVE  LockOK(v)' /\ (pc[v] = "write" => WriteOK(v))'
  <2>1. pc'[v] = "idle" /\ did'[v].op = "none" /\ did'[v].at <= now
    <3>1. CASE v = w
      BY <3>1 DEF IInv, TypeOK, Refuse, Leave, NothingDone
    <3>2. CASE v # w
      <4>1. pc[v] = "idle" /\ did[v].op = "none"
        BY <3>2, OneInside DEF Refuse
      <4> QED
        BY <4>1, <3>2 DEF IInv, TypeOK, LockOK, Refuse, Leave
    <3> QED
      BY <3>1, <3>2
  <2> QED
    BY <1>2, <2>1 DEF LockOK, Refuse
<1>4. ASSUME NEW i \in Ids PROVE (LeaseOK(file[i]) /\ HistoryOK(i))'
  BY DEF IInv, HistoryOK, Refuse
<1> QED
  BY <1>1, <1>3, <1>4 DEF IInv

\* What a write does to the record and the history of its own lease.
LEMMA WriteHistory ==
  ASSUME IInv, NEW w \in Workers, Write(w), did[w].op # "cleanup",
         NEW i, i = did[w].id
  PROVE  HistoryOK(i)'
<1> DEFINE d == did[w]
           l == file[i]
           m == copy[w][i]
<1>1. /\ d \in Decisions /\ i \in Ids /\ l \in LeaseRecords /\ m \in LeaseRecords
      /\ d.token \in Tokens /\ d.at \in Nat
      /\ LeaseStep(d, l, m)
      /\ LeaseOK(l) /\ HistoryOK(i)
  BY DEF IInv, TypeOK, Write, WriteOK, Decisions
<1>2. LeaseOK(m)
  BY <1>1, StepKeepsLease
<1>3. file'[i] = m
  BY DEF Write
<1>4. accepted \in [Ids -> Nat] /\ promised \in [Ids -> [Tokens -> Nat]]
  BY DEF IInv, TypeOK
<1>5. CASE d.op = "create"
  <2>1. accepted'[i] = 0 /\ \A k \in Tokens :
          promised'[i][k] = IF k = d.token THEN m.expires ELSE 0
    BY <1>1, <1>4, <1>5 DEF Write, HistoryOK, LeaseStep
  <2>2. d.token = 0 /\ m.kind \in {"plain", "renewable"} /\ m.token = 0
        /\ m.uses = 0 /\ m.prevUntil = 0
    BY <1>1, <1>5, PlainFields, RenewableFields DEF LeaseStep
  <2>3. m.kind = "renewable" => 0 <= m.until /\ m.expires <= m.until
    BY <1>1, <1>2 DEF LeaseOK, RenewableOK, LeaseRecords
  <2> QED
    BY <1>1, <1>3, <2>1, <2>2, <2>3 DEF HistoryOK, InFile
<1>6. CASE d.op = "call"
  <2>1. accepted'[i] = accepted[i] + 1 /\ promised' = promised
    BY <1>1, <1>4, <1>6 DEF Write
  <2>2. m = Used(l) /\ InFile(l)
    BY <1>1, <1>6 DEF LeaseStep, MayUse, Finds
  <2>3. m.uses = l.uses + 1 /\ m.kind = l.kind /\ m.token = l.token
        /\ m.expires = l.expires /\ m.prevUntil = l.prevUntil /\ m.prev = l.prev
        /\ m.until = l.until
    BY <1>1, <2>2 DEF Used, LeaseRecords
  <2> QED
    BY <1>1, <1>3, <2>1, <2>2, <2>3 DEF HistoryOK, InFile
<1>7. CASE d.op = "renew"
  <2>1. m = Renewed(l, d.at) /\ l.kind = "renewable" /\ d.token = l.gen + 1
    BY <1>1, <1>7 DEF LeaseStep, MayRenew, RenewalActive
  <2>2. /\ m.kind = l.kind /\ m.uses = l.uses /\ m.until = l.until
        /\ m.token = d.token
        /\ m.prevUntil <= l.expires
        /\ m.prevUntil > 0 => m.prev = l.token
    <3>1. l \in LeaseRecords /\ d.at \in Nat /\ m = Renewed(l, d.at)
      BY <1>1, <2>1
    <3> HIDE DEF l, m
    <3> QED
      BY <2>1, <3>1, RenewedFields
  <2>3. l.token = l.gen /\ l.token # d.token /\ m.expires <= m.until
    BY <1>1, <1>2, <2>1, <2>2 DEF LeaseOK, RenewableOK, LeaseRecords
  <2>4. accepted'[i] = accepted[i] /\ \A k \in Tokens :
          promised'[i][k] = IF k = d.token THEN m.expires ELSE promised[i][k]
    BY <1>1, <1>4, <1>7 DEF Write
  <2> QED
    BY <1>1, <1>3, <2>1, <2>2, <2>3, <2>4 DEF HistoryOK, InFile
<1>8. CASE d.op \in {"revoke", "stop"}
  <2>1. accepted'[i] = accepted[i] /\ promised' = promised
    BY <1>1, <1>4, <1>8 DEF Write
  <2>2. InFile(l) /\ m.uses = l.uses /\ m.kind = l.kind /\ m.token = l.token
        /\ m.expires = l.expires /\ m.prevUntil = l.prevUntil /\ m.prev = l.prev
        /\ m.until = l.until
    BY <1>1, <1>8 DEF LeaseStep, LeaseRecords, InFile
  <2> QED
    BY <1>1, <1>3, <2>1, <2>2 DEF HistoryOK, InFile
<1>9. CASE d.op = "reactivate"
  <2>1. l.kind = "plain" /\ d.token = l.token + 1
    BY <1>1, <1>9 DEF LeaseStep
  <2>2. PICK ttl \in TTLs, limit \in Limits : m = Reactivated(l, d.at, ttl, limit)
    BY <1>1, <1>9 DEF LeaseStep
  <2>3. m.kind = "plain" /\ m.uses = 0 /\ m.token = d.token /\ m.prevUntil = 0
    BY <1>1, <2>1, <2>2, ReactivatedFields DEF LeaseOK
  <2>4. accepted'[i] = 0 /\ promised'[i][d.token] = m.expires
    BY <1>1, <1>4, <1>9 DEF Write
  <2> QED
    BY <1>1, <1>3, <2>3, <2>4 DEF HistoryOK, InFile
<1> QED
  BY <1>1, <1>5, <1>6, <1>7, <1>8, <1>9 DEF LeaseStep

LEMMA WriteTypes ==
  ASSUME IInv, NEW w \in Workers, Write(w)
  PROVE  TypeOK'
<1>1. /\ did[w] \in Decisions /\ copy[w] \in [Ids -> LeaseRecords]
      /\ did[w].token \in Tokens
  BY DEF IInv, TypeOK, Write, WriteOK
<1>2. copy[w][did[w].id].expires \in Nat /\ did[w].id \in Ids
  BY <1>1 DEF Decisions, LeaseRecords
<1>3. accepted' \in [Ids -> Nat]
  BY <1>1, <1>2 DEF IInv, TypeOK, Write
<1>4. promised' \in [Ids -> [Tokens -> Nat]]
  BY <1>1, <1>2 DEF IInv, TypeOK, Write
<1>5. /\ now' \in Nat /\ file' \in [Ids -> LeaseRecords]
      /\ lock' \in Workers \cup {Free}
      /\ pc' \in [Workers -> {"idle", "open", "write"}]
      /\ copy' \in [Workers -> [Ids -> LeaseRecords]]
      /\ did' \in [Workers -> Decisions]
  BY <1>1, EmptyTypes DEF IInv, TypeOK, Write, Leave
<1> QED
  BY <1>3, <1>4, <1>5 DEF TypeOK

LEMMA WriteStep ==
  ASSUME IInv, NEW w \in Workers, Write(w)
  PROVE  IInv'
<1> DEFINE d == did[w]
<1>1. /\ lock = w /\ lock' = Free /\ now' = now
      /\ d \in Decisions /\ d.token \in Tokens /\ d.id \in Ids /\ d.at \in Nat
      /\ file' = copy[w]
      /\ WriteOK(w)
  BY DEF IInv, TypeOK, LockOK, Write, WriteOK, Leave, Decisions
<1>2. ASSUME NEW v \in Workers
      PROVE  LockOK(v)' /\ (pc[v] = "write" => WriteOK(v))'
  <2>1. pc'[v] = "idle" /\ did'[v].op = "none" /\ did'[v].at <= now
    <3>1. CASE v = w
      BY <3>1 DEF IInv, TypeOK, Write, Leave, NothingDone
    <3>2. CASE v # w
      <4>1. pc[v] = "idle" /\ did[v].op = "none"
        BY <3>2, OneInside DEF Write
      <4> QED
        BY <4>1, <3>2 DEF IInv, TypeOK, LockOK, Write, Leave
    <3> QED
      BY <3>1, <3>2
  <2> QED
    BY <1>1, <2>1 DEF LockOK
<1>3. ASSUME NEW i \in Ids PROVE (LeaseOK(file[i]) /\ HistoryOK(i))'
  <2>1. file[i] \in LeaseRecords /\ LeaseOK(file[i]) /\ HistoryOK(i)
    BY DEF IInv, TypeOK
  <2>2. CASE d.op = "cleanup"
    <3>1. file'[i] = Swept(file[i], d.at)
      BY <1>1, <2>2 DEF WriteOK, LeaseStep
    <3>2. accepted' = accepted /\ promised' = promised
      BY <1>1, <2>2 DEF Write, IInv, TypeOK
    <3>3. LeaseOK(file'[i]) /\ (file'[i] = file[i] \/ file'[i] = Removed)
      BY <1>1, <2>1, <3>1, SweptRecord
    <3>4. CASE file'[i] = file[i]
      BY <2>1, <3>2, <3>3, <3>4 DEF HistoryOK
    <3>5. CASE file'[i] = Removed
      <4>1. Removed.kind = "gone" /\ Removed.prevUntil = 0
        BY DEF Removed, NotCreated
      <4> QED
        BY <3>3, <3>5, <4>1 DEF HistoryOK, InFile
    <3> QED
      BY <3>3, <3>4, <3>5
  <2>3. CASE d.op # "cleanup" /\ i = d.id
    <3>1. LeaseStep(d, file[i], file'[i])
      BY <1>1, <2>3 DEF WriteOK
    <3>2. LeaseOK(file'[i])
      BY <1>1, <2>1, <3>1, StepKeepsLease
    <3>3. HistoryOK(i)'
      BY <2>3, WriteHistory
    <3> QED
      BY <3>2, <3>3
  <2>4. CASE d.op # "cleanup" /\ i # d.id
    <3>1. file'[i] = file[i]
      BY <1>1, <2>4 DEF WriteOK, IInv, TypeOK
    <3>2. accepted'[i] = accepted[i] /\ promised'[i] = promised[i]
      BY <1>1, <2>4 DEF Write, IInv, TypeOK
    <3> QED
      BY <2>1, <3>1, <3>2 DEF HistoryOK
  <2> QED
    BY <2>2, <2>3, <2>4
<1> QED
  BY <1>2, <1>3, WriteTypes DEF IInv
-------------------------------------------------------------------------------
(* Each decision is a legal step of the record it changes.                   *)

\* A change of one record of the store as it was loaded.
LEMMA ChangeStep ==
  ASSUME IInv, NEW w \in Workers, NEW op \in Ops \ {"none"}, NEW i \in Ids,
         NEW k \in Tokens, NEW m, Change(w, op, i, k, m),
         LeaseStep([op |-> op, id |-> i, token |-> k, at |-> now], file[i], m)
  PROVE  IInv'
<1>1. /\ copy[w] = file /\ file \in [Ids -> LeaseRecords] /\ now \in Nat
  BY DEF IInv, TypeOK, LockOK, Change, Decide
<1>2. [op |-> op, id |-> i, token |-> k, at |-> now] \in Decisions
  BY <1>1 DEF Decisions, Tokens
<1>3. m \in LeaseRecords
  BY <1>1, <1>2, StepTypes
<1> DEFINE store == [file EXCEPT ![i] = m]
<1>4. store \in [Ids -> LeaseRecords] /\ store[i] = m
  BY <1>1, <1>3
<1>5. Decide(w, op, i, k, store) /\ store = [file EXCEPT ![i] = store[i]]
  BY <1>1, <1>4 DEF Change
<1> HIDE DEF store
<1> QED
  BY <1>4, <1>5, DecideStep

LEMMA Opened ==
  ASSUME IInv, NEW w \in Workers, pc[w] = "open"
  PROVE  copy[w] = file /\ file \in [Ids -> LeaseRecords] /\ now \in Nat
BY DEF IInv, TypeOK, LockOK

LEMMA CreateStep ==
  ASSUME IInv, NEW w \in Workers, Create(w)
  PROVE  IInv'
<1>1. PICK i \in Ids, ttl \in TTLs, limit \in Limits :
        /\ copy[w][i].kind = "none"
        /\ \/ Change(w, "create", i, 0, Plain(now, ttl, limit))
           \/ \E grant \in Grants :
                /\ grant >= ttl
                /\ Change(w, "create", i, 0, Renewable(now, ttl, grant, limit))
  BY DEF Create
<1>2. copy[w] = file /\ 0 \in Tokens /\ "create" \in Ops \ {"none"}
  BY <1>1, Opened DEF Change, Decide, Tokens, Ops
<1>3. CASE Change(w, "create", i, 0, Plain(now, ttl, limit))
  BY <1>1, <1>2, <1>3, ChangeStep DEF LeaseStep
<1>4. ASSUME NEW grant \in Grants, grant >= ttl,
             Change(w, "create", i, 0, Renewable(now, ttl, grant, limit))
      PROVE  IInv'
  BY <1>1, <1>2, <1>4, ChangeStep DEF LeaseStep
<1> QED
  BY <1>1, <1>3, <1>4

LEMMA CallStep ==
  ASSUME IInv, NEW w \in Workers, Call(w)
  PROVE  IInv'
<1>1. PICK i \in Ids, k \in Tokens :
        MayUse(copy[w][i], k, now) /\ Change(w, "call", i, k, Used(copy[w][i]))
  BY DEF Call
<1>2. copy[w] = file /\ "call" \in Ops \ {"none"}
  BY <1>1, Opened DEF Change, Decide, Ops
<1> QED
  BY <1>1, <1>2, ChangeStep DEF LeaseStep

LEMMA RenewStep ==
  ASSUME IInv, NEW w \in Workers, Renew(w)
  PROVE  IInv'
<1>1. PICK i \in Ids :
        /\ MayRenew(copy[w][i], now) /\ Due(copy[w][i], now)
        /\ copy[w][i].gen < MaxTokens
        /\ Change(w, "renew", i, copy[w][i].gen + 1, Renewed(copy[w][i], now))
  BY DEF Renew
<1>2. copy[w] = file /\ file[i] \in LeaseRecords /\ "renew" \in Ops \ {"none"}
  BY <1>1, Opened DEF Change, Decide, Ops
<1>3. file[i].gen + 1 \in Tokens
  BY <1>1, <1>2 DEF Tokens, LeaseRecords
<1> QED
  BY <1>1, <1>2, <1>3, ChangeStep DEF LeaseStep

LEMMA RevokeStep ==
  ASSUME IInv, NEW w \in Workers, Revoke(w) \/ StopRenewal(w)
  PROVE  IInv'
<1>1. 0 \in Tokens /\ {"revoke", "stop"} \subseteq Ops \ {"none"}
  BY DEF Tokens, Ops
<1>2. CASE Revoke(w)
  <2>1. PICK i \in Ids :
          /\ InFile(copy[w][i])
          /\ Change(w, "revoke", i, 0, [copy[w][i] EXCEPT !.revoked = TRUE])
    BY <1>2 DEF Revoke
  <2>2. copy[w] = file
    BY <2>1, Opened DEF Change, Decide
  <2> QED
    BY <1>1, <2>1, <2>2, ChangeStep DEF LeaseStep
<1>3. CASE StopRenewal(w)
  <2>1. PICK i \in Ids :
          /\ copy[w][i].kind = "renewable"
          /\ Change(w, "stop", i, 0, [copy[w][i] EXCEPT !.stopped = TRUE])
    BY <1>3 DEF StopRenewal
  <2>2. copy[w] = file
    BY <2>1, Opened DEF Change, Decide
  <2> QED
    BY <1>1, <2>1, <2>2, ChangeStep DEF LeaseStep
<1> QED
  BY <1>2, <1>3

LEMMA ReactivateStep ==
  ASSUME IInv, NEW w \in Workers, Reactivate(w)
  PROVE  IInv'
<1>1. PICK i \in Ids, ttl \in TTLs, limit \in Limits :
        /\ copy[w][i].kind = "plain" /\ copy[w][i].token < MaxTokens
        /\ Change(w, "reactivate", i, copy[w][i].token + 1,
                  Reactivated(copy[w][i], now, ttl, limit))
  BY DEF Reactivate
<1>2. copy[w] = file /\ file[i] \in LeaseRecords /\ "reactivate" \in Ops \ {"none"}
  BY <1>1, Opened DEF Change, Decide, Ops
<1>3. file[i].token + 1 \in Tokens
  BY <1>1, <1>2 DEF Tokens, LeaseRecords
<1> QED
  BY <1>1, <1>2, <1>3, ChangeStep DEF LeaseStep

LEMMA CleanupStep ==
  ASSUME IInv, NEW w \in Workers, Cleanup(w)
  PROVE  IInv'
<1> DEFINE store == [j \in Ids |-> Swept(file[j], now)]
<1>1. PICK i \in Ids :
        Decide(w, "cleanup", i, 0,
               [j \in Ids |-> IF InFile(copy[w][j]) /\ ~Kept(copy[w][j], now)
                              THEN Removed ELSE copy[w][j]])
  BY DEF Cleanup
<1>2. copy[w] = file /\ file \in [Ids -> LeaseRecords] /\ now \in Nat
  BY <1>1, Opened DEF Decide
<1>3. Decide(w, "cleanup", i, 0, store)
  BY <1>1, <1>2 DEF Swept
<1>4. store \in [Ids -> LeaseRecords]
  BY <1>2, SweptRecord
<1>5. 0 \in Tokens /\ "cleanup" \in Ops \ {"none"}
  BY DEF Tokens, Ops
<1> QED
  BY <1>3, <1>4, <1>5, DecideStep

LEMMA InvStep == IInv /\ [Next]_vars => IInv'
<1> SUFFICES ASSUME IInv, [Next]_vars PROVE IInv'
  OBVIOUS
<1>1. CASE UNCHANGED vars
  BY <1>1 DEF IInv, TypeOK, LockOK, WriteOK, HistoryOK, vars
<1>2. CASE Tick
  BY <1>2, TickStep
<1>3. ASSUME NEW w \in Workers, WorkerNext(w) PROVE IInv'
  BY <1>3, EnterStep, CreateStep, CallStep, RenewStep, RevokeStep, ReactivateStep,
     CleanupStep, RefuseStep, WriteStep DEF WorkerNext
<1> QED
  BY <1>1, <1>2, <1>3 DEF Next

(* The strengthened invariant holds of every reachable state.                *)
THEOREM Invariance == Spec => []IInv
BY InvInit, InvStep, PTL DEF Spec

(* Every variable keeps its type.                                            *)
THEOREM TypeCorrect == Spec => []TypeOK
BY Invariance, PTL DEF IInv

(* No lease lets through more calls than its budget, however many workers    *)
(* use it.                                                                  *)
THEOREM BudgetKeptHolds == Spec => []BudgetKept
<1>1. IInv => BudgetKept
  BY DEF IInv, BudgetKept, LeaseOK, HistoryOK
<1> QED
  BY <1>1, Invariance, PTL

\* What is known of a decision other than a cleanup before it is written.
LEMMA Decided ==
  ASSUME IInv, NEW w \in Workers, did[w].op \notin {"none", "cleanup"}
  PROVE  /\ did[w].id \in Ids /\ did[w].token \in Tokens
         /\ did[w].at \in Nat /\ did[w].at <= now
         /\ file[did[w].id] \in LeaseRecords
         /\ LeaseOK(file[did[w].id]) /\ HistoryOK(did[w].id)
         /\ LeaseStep(did[w], file[did[w].id], copy[w][did[w].id])
         /\ copy[w] = [file EXCEPT ![did[w].id] = copy[w][did[w].id]]
<1>1. did[w] \in Decisions
  BY DEF IInv, TypeOK
<1>2. pc[w] = "write" /\ WriteOK(w) /\ did[w].at <= now
  BY DEF IInv, LockOK
<1> QED
  BY <1>1, <1>2 DEF IInv, TypeOK, WriteOK, Decisions

(* No call is let through under a token after the expiry announced with it,  *)
(* and none is announced beyond the authorization.                          *)
THEOREM TokenLifetimeHolds == Spec => []TokenLifetime
<1>1. ASSUME IInv, NEW w \in Workers, did[w].op = "call"
      PROVE  did[w].at < promised[did[w].id][did[w].token]
  <2> DEFINE l == file[did[w].id]
  <2>1. MayUse(l, did[w].token, did[w].at)
    BY <1>1, Decided DEF LeaseStep
  <2>2. /\ promised[did[w].id] \in [Tokens -> Nat] /\ l \in LeaseRecords
        /\ did[w].at \in Nat /\ HistoryOK(did[w].id) /\ did[w].token \in Tokens
    BY <1>1, Decided DEF IInv, TypeOK
  <2>3. CASE l.token = did[w].token
    BY <2>1, <2>2, <2>3 DEF MayUse, LeaseActive, HistoryOK
  <2>4. CASE l.prevUntil > did[w].at /\ l.prev = did[w].token
    <3>1. l.prevUntil > 0 /\ l.prevUntil \in Nat
      BY <2>2, <2>4 DEF LeaseRecords
    <3>2. l.prevUntil <= promised[did[w].id][did[w].token]
      BY <2>2, <2>4, <3>1 DEF HistoryOK
    <3> QED
      BY <2>2, <2>4, <3>1, <3>2
  <2> QED
    BY <2>1, <2>3, <2>4 DEF MayUse, Finds
<1>2. IInv => TokenLifetime
  BY <1>1 DEF TokenLifetime, IInv, HistoryOK
<1> QED
  BY <1>2, Invariance, PTL

(* No call is counted on a lease that was revoked or removed meanwhile.      *)
THEOREM NoUseAfterRevokeHolds == Spec => []NoUseAfterRevoke
<1>1. IInv => NoUseAfterRevoke
  BY Decided DEF NoUseAfterRevoke, LeaseStep, MayUse, LeaseActive
<1> QED
  BY <1>1, Invariance, PTL

(* An overlap that was promised is over, but for a fraction of a second,     *)
(* when the next renewal ends it.                                           *)
THEOREM OverlapHonouredHolds == Spec => []OverlapHonoured
<1>1. ASSUME IInv, NEW w \in Workers, did[w].op = "renew"
      PROVE  file[did[w].id].prevUntil < did[w].at + Second
  <2> DEFINE l == file[did[w].id]
             t == did[w].at
  <2>1. /\ l \in LeaseRecords /\ t \in Nat /\ LeaseOK(l)
        /\ l.kind = "renewable" /\ Due(l, t)
    BY <1>1, Decided DEF LeaseStep, MayRenew, RenewalActive
  <2>2. RenewableOK(l)
    BY <2>1 DEF LeaseOK
  <2> HIDE DEF l, t
  <2>3. l.expires # l.until
    BY <2>1, NextExpiryBounds DEF Due, LeaseRecords
  <2>4. 2 * (l.expires - t) <= l.ttl /\ 2 * l.prevUntil < 2 * l.expires - l.ttl + 2 * Second
    BY <2>1, <2>2, <2>3 DEF Due, RenewableOK
  <2>5. l.prevUntil < t + Second
    BY <2>1, <2>4 DEF LeaseRecords
  <2> QED
    BY <2>5 DEF l, t
<1>2. IInv => OverlapHonoured
  BY <1>1 DEF OverlapHonoured
<1> QED
  BY <1>2, Invariance, PTL

(* A renewal that is not denied answers with a token that can be used.       *)
THEOREM RenewalUsableHolds == Spec => []RenewalUsable
<1>1. ASSUME IInv, NEW i \in Ids, MayRenew(file[i], now)
      PROVE  LET l == IF Due(file[i], now) THEN Renewed(file[i], now) ELSE file[i]
             IN  MayUse(l, l.gen, now)
  <2> DEFINE o == file[i]
             m == Renewed(o, now)
  <2>1. /\ o \in LeaseRecords /\ now \in Nat /\ RenewableOK(o)
        /\ o.kind = "renewable" /\ ~o.revoked /\ o.until > now /\ ~MaxCallsExceeded(o)
    BY <1>1 DEF IInv, TypeOK, MayRenew, RenewalActive, LeaseOK
  <2> HIDE DEF o
  <2>2. CASE Due(o, now)
    <3>1. /\ m.kind = "renewable" /\ ~m.revoked /\ m.limit = o.limit /\ m.uses = o.uses
          /\ m.token = m.gen /\ m.expires = Stamp(NextExpiry(o, now))
      BY <2>1, RenewedFields
    <3>2. Stamp(NextExpiry(o, now)) > now
      <4>1. CASE NextExpiry(o, now) = o.until
        BY <2>1, <4>1 DEF RenewableOK
      <4>2. CASE NextExpiry(o, now) = now + o.ttl
        <5>1. o.ttl \in Nat /\ o.ttl >= Second
          BY <2>1 DEF RenewableOK, LeaseRecords
        <5> DEFINE n == now + o.ttl
        <5>2. n \in Nat /\ n >= now + Second
          BY <2>1, <5>1
        <5>3. Stamp(NextExpiry(o, now)) = Stamp(n)
          BY <4>2
        <5> HIDE DEF n
        <5>4. Stamp(n) \in Nat /\ Stamp(n) > n - Second
          BY <5>2, StampBounds
        <5>5. Stamp(n) > now
          BY <2>1, <5>2, <5>4
        <5> QED
          BY <5>3, <5>5
      <4> QED
        BY <2>1, <4>1, <4>2, NextExpiryBounds
    <3> HIDE DEF m
    <3>3. MayUse(m, m.gen, now)
      BY <2>1, <3>1, <3>2 DEF MayUse, Finds, InFile, LeaseActive, MaxCallsExceeded
    <3> QED
      BY <2>2, <3>3 DEF m, o
  <2>3. CASE ~Due(o, now)
    <3>1. o.expires > now
      <4>1. CASE 2 * (o.expires - now) > o.ttl
        BY <2>1, <4>1 DEF LeaseRecords
      <4>2. CASE NextExpiry(o, now) <= o.expires
        <5>1. o.ttl \in Nat /\ o.ttl > 0
          BY <2>1 DEF RenewableOK, LeaseRecords
        <5>2. NextExpiry(o, now) > now
          BY <2>1, <5>1 DEF NextExpiry, Earlier, LeaseRecords
        <5> QED
          BY <2>1, <4>2, <5>2, NextExpiryBounds DEF LeaseRecords
      <4> QED
        BY <2>1, <2>3, <4>1, <4>2, NextExpiryBounds DEF Due, LeaseRecords
    <3>2. MayUse(o, o.gen, now)
      BY <2>1, <3>1 DEF MayUse, Finds, InFile, LeaseActive, RenewableOK
    <3> QED
      BY <2>3, <3>2 DEF o
  <2> QED
    BY <2>2, <2>3
<1>2. IInv => RenewalUsable
  BY <1>1 DEF RenewalUsable
<1> QED
  BY <1>2, Invariance, PTL
-------------------------------------------------------------------------------
(* What one step may do to the file.                                         *)

\* The file changes by a write only: a decision on one lease, or a cleanup.
LEMMA FileStep ==
  ASSUME IInv, [Next]_vars, NEW i \in Ids, file'[i] # file[i]
  PROVE  /\ file[i] \in LeaseRecords
         /\ LeaseOK(file[i])
         /\ \E d \in Decisions :
              /\ d.at <= now
              /\ \/ LeaseStep(d, file[i], file'[i])
                 \/ ~Kept(file[i], d.at) /\ file'[i] = Removed
<1>1. PICK w \in Workers : Write(w)
  BY DEF Next, WorkerNext, Tick, Enter, Create, Call, Renew, Revoke, StopRenewal,
         Reactivate, Cleanup, Change, Decide, Refuse, vars
<1>2. /\ did[w] \in Decisions /\ did[w].at <= now /\ WriteOK(w) /\ file' = copy[w]
      /\ file[i] \in LeaseRecords /\ LeaseOK(file[i])
  BY <1>1 DEF IInv, TypeOK, LockOK, Write
<1>3. CASE copy[w] = [j \in Ids |-> Swept(file[j], did[w].at)]
  <2>1. file'[i] = Swept(file[i], did[w].at)
    BY <1>2, <1>3
  <2> QED
    BY <1>2, <2>1 DEF Swept
<1>4. CASE /\ copy[w] = [file EXCEPT ![did[w].id] = copy[w][did[w].id]]
           /\ LeaseStep(did[w], file[did[w].id], copy[w][did[w].id])
  <2>1. i = did[w].id
    BY <1>2, <1>4 DEF IInv, TypeOK
  <2> QED
    BY <1>2, <1>4, <2>1
<1> QED
  BY <1>2, <1>3, <1>4 DEF WriteOK

\* No decision takes a lease out of the file; only a cleanup does.
LEMMA StepStaysInFile ==
  ASSUME NEW d \in Decisions, NEW l \in LeaseRecords, NEW m,
         LeaseStep(d, l, m), InFile(l)
  PROVE  InFile(m)
<1>0. d.at \in Nat
  BY DEF Decisions
<1>1. CASE d.op = "renew"
  <2>1. m = Renewed(l, d.at)
    BY <1>1 DEF LeaseStep
  <2>2. m.kind = l.kind
    BY <1>0, <2>1, RenewedFields
  <2> QED
    BY <2>2 DEF InFile
<1>2. CASE d.op \in {"call", "revoke", "stop"}
  BY <1>2 DEF LeaseStep, InFile, Used, LeaseRecords
<1>3. CASE d.op = "reactivate"
  <2>1. PICK ttl \in TTLs, limit \in Limits : m = Reactivated(l, d.at, ttl, limit)
    BY <1>3 DEF LeaseStep
  <2>2. m.kind = l.kind
    BY <1>0, <2>1, ReactivatedFields
  <2> QED
    BY <2>2 DEF InFile
<1> QED
  BY <1>1, <1>2, <1>3 DEF LeaseStep, InFile

\* What a decision leaves alone in a renewable lease.
LEMMA RenewableStep ==
  ASSUME NEW d \in Decisions, NEW l \in LeaseRecords, NEW m,
         LeaseStep(d, l, m), l.kind = "renewable"
  PROVE  /\ (l.revoked => m.revoked) /\ (l.stopped => m.stopped)
         /\ m.until = l.until /\ m.ttl = l.ttl /\ m.limit = l.limit
         /\ m.uses >= l.uses /\ m.gen >= l.gen
<1>0. d.at \in Nat /\ l.uses \in Nat /\ l.gen \in Nat
  BY DEF Decisions, LeaseRecords
<1>1. CASE d.op = "renew"
  <2>1. m = Renewed(l, d.at)
    BY <1>1 DEF LeaseStep
  <2> QED
    BY <1>0, <2>1, RenewedKeeps
<1>2. CASE d.op \in {"call", "revoke", "stop"}
  BY <1>0, <1>2 DEF LeaseStep, Used, LeaseRecords
<1> QED
  BY <1>1, <1>2 DEF LeaseStep

(* A revocation of a renewable lease, or of its renewal, stands.             *)
THEOREM RevocationFinalHolds == Spec => RevocationFinal
<1> DEFINE A == \A i \in Ids :
                  file[i].kind = "renewable" /\ file'[i].kind = "renewable" =>
                    /\ file[i].revoked => file'[i].revoked
                    /\ file[i].stopped => file'[i].stopped
<1>1. ASSUME IInv, [Next]_vars, NEW i \in Ids, file[i].kind = "renewable",
             file'[i].kind = "renewable"
      PROVE  /\ file[i].revoked => file'[i].revoked
             /\ file[i].stopped => file'[i].stopped
  <2> DEFINE l == file[i]
             m == file'[i]
  <2>1. CASE m = l
    BY <2>1
  <2>2. CASE m # l
    <3>1. Removed.kind = "gone"
      BY DEF Removed, NotCreated
    <3>2. PICK d \in Decisions : l \in LeaseRecords /\ LeaseStep(d, l, m)
      BY <1>1, <2>2, <3>1, FileStep
    <3> QED
      BY <1>1, <3>2, RenewableStep
  <2> QED
    BY <2>1, <2>2
<1>2. IInv /\ [Next]_vars => [A]_vars
  BY <1>1
<1> QED
  BY <1>2, Invariance, PTL DEF Spec, RevocationFinal

(* No step changes what a renewable lease was authorized for, or gives calls *)
(* back.                                                                    *)
THEOREM RenewalNeverWidensHolds == Spec => RenewalNeverWidens
<1> DEFINE A == \A i \in Ids :
                  file[i].kind = "renewable" /\ file'[i].kind = "renewable" =>
                    /\ file'[i].until = file[i].until
                    /\ file'[i].ttl = file[i].ttl
                    /\ file'[i].limit = file[i].limit
                    /\ file'[i].uses >= file[i].uses
                    /\ file'[i].gen >= file[i].gen
<1>1. ASSUME IInv, [Next]_vars, NEW i \in Ids, file[i].kind = "renewable",
             file'[i].kind = "renewable"
      PROVE  /\ file'[i].until = file[i].until
             /\ file'[i].ttl = file[i].ttl
             /\ file'[i].limit = file[i].limit
             /\ file'[i].uses >= file[i].uses
             /\ file'[i].gen >= file[i].gen
  <2> DEFINE l == file[i]
             m == file'[i]
  <2>0. l \in LeaseRecords
    BY <1>1 DEF IInv, TypeOK
  <2>1. CASE m = l
    BY <2>0, <2>1 DEF LeaseRecords
  <2>2. CASE m # l
    <3>1. Removed.kind = "gone"
      BY DEF Removed, NotCreated
    <3>2. PICK d \in Decisions : LeaseStep(d, l, m)
      BY <1>1, <2>2, <3>1, FileStep
    <3> QED
      BY <1>1, <2>0, <3>2, RenewableStep
  <2> QED
    BY <2>1, <2>2
<1>2. IInv /\ [Next]_vars => [A]_vars
  BY <1>1
<1> QED
  BY <1>2, Invariance, PTL DEF Spec, RenewalNeverWidens

(* Only a lease that is over for good is cleaned up.                         *)
THEOREM RemovedWhenDeadHolds == Spec => RemovedWhenDead
<1> DEFINE A == \A i \in Ids :
                  InFile(file[i]) /\ ~InFile(file'[i]) =>
                    ~LeaseActive(file[i], now) /\ ~RenewalActive(file[i], now)
<1>1. ASSUME IInv, [Next]_vars, NEW i \in Ids, InFile(file[i]), ~InFile(file'[i])
      PROVE  ~LeaseActive(file[i], now) /\ ~RenewalActive(file[i], now)
  <2> DEFINE l == file[i]
             m == file'[i]
  <2>1. PICK d \in Decisions :
          /\ d.at <= now
          /\ LeaseStep(d, l, m) \/ ~Kept(l, d.at)
    BY <1>1, FileStep
  <2>2. l \in LeaseRecords /\ d.at \in Nat /\ now \in Nat /\ InFile(l) /\ ~InFile(m)
    BY <1>1 DEF IInv, TypeOK, Decisions
  <2> HIDE DEF l, m
  <2>3. ~LeaseStep(d, l, m)
    BY <2>2, StepStaysInFile
  <2>4. ~LeaseActive(l, now) /\ ~RenewalActive(l, now)
    BY <2>1, <2>2, <2>3 DEF Kept, LeaseActive, RenewalActive, LeaseRecords
  <2> QED
    BY <2>4 DEF l
<1>2. IInv /\ [Next]_vars => [A]_vars
  BY <1>1
<1> QED
  BY <1>2, Invariance, PTL DEF Spec, RemovedWhenDead
===============================================================================
