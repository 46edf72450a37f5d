-------------------------- MODULE FabricRuntimeProofs --------------------------
(***************************************************************************)
(* An open gate belongs to the holder of the lease, for every number of       *)
(* processes, lifetimes of lease and heartbeat, and however late a process    *)
(* writes.  Once its stop is told, nothing that an instance still saves opens *)
(* the gate.  Where owners have ids of their own, a lost lease stays lost.    *)
(***************************************************************************)
EXTENDS FabricRuntime, TLAPS

USE RuntimeLeaseAssumption, FabricRuntimeAssumption
    DEF RuntimeLeaseAssumption, FabricRuntimeAssumption, Steps

\* The lease l is no news for a store whose lease is le at time n with the tokens fr
\* released: its token was released, it has run out, or le is the same, or later.
\* No lease ends later than a lifetime from now.
Covered(l, le, fr, n) ==
  /\ l.expires <= n + TTL
  /\ \/ l.token \in fr
     \/ l.expires <= n
     \/ l.token = le.token /\ l.expires <= le.expires

Cov(l) == Covered(l, lease, freed, now)

LeaseOK ==
  /\ lease # NoLease => lease.token \in 1 .. generation
  /\ lease.released => lease.token \in freed
  /\ lease.expires <= now + TTL

\* Whatever copy of a lease a process has is covered, and may be written late.
CopiesOK(p) ==
  /\ Cov(latest[p].owner) /\ Cov(myLease[p])
  /\ \A t \in Threads : Cov(got[p][t]) /\ Cov(snap[p][t].owner)

CopyInv ==
  /\ TypeOK /\ LeaseOK
  /\ Cov(status.what.owner)
  /\ \A p \in Procs : CopiesOK(p)

\* The lease that a renewal has tested and will swap is one of its own, and ends no
\* later than the one that it will write.
SwapOK(p) ==
  \A t \in Threads : step[p][t] = "swap" =>
    /\ got[p][t].owner = OwnerOf[p] /\ ~got[p][t].released
    /\ since[p][t] <= now /\ got[p][t].expires <= since[p][t] + TTL

IInv == CopyInv /\ \A p \in Procs : SwapOK(p)

\* A copy that a step makes: of an old one, of the lease in the store, or one
\* without an expiry.
New(l) == Cov(l) \/ l = lease' \/ l.expires = 0

-------------------------------------------------------------------------------
(* Types.                                                                   *)

LEMMA Records ==
  /\ NoLease \in Leases /\ EmptyStatus \in Statuses
  /\ \A l \in Leases : Claim(l) \in Leases /\ Claim(l).expires = 0
                       /\ Claim(l).token = l.token /\ Claim(l).owner = l.owner
BY DEF NoLease, Leases, EmptyStatus, Statuses, Planes, Claim

LEMMA NewRecords ==
  ASSUME NEW l \in Leases, NEW n \in Nat
  PROVE  /\ RenewedLease(l, n) \in Leases /\ ReleasedLease(l, n) \in Leases
         /\ \A o \in OwnerIds, t \in Nat : NewLease(o, t, n) \in Leases
         /\ RenewedLease(l, n).token = l.token /\ RenewedLease(l, n).owner = l.owner
         /\ RenewedLease(l, n).expires = n + TTL /\ RenewedLease(l, n).released = FALSE
         /\ ReleasedLease(l, n).token = l.token /\ ReleasedLease(l, n).owner = l.owner
         /\ ReleasedLease(l, n).expires = n /\ ReleasedLease(l, n).released = TRUE
<1>0. n + TTL \in Nat
  OBVIOUS
<1>1. RenewedLease(l, n) \in Leases /\ ReleasedLease(l, n) \in Leases
  BY <1>0 DEF RenewedLease, ReleasedLease, Leases
<1>2. \A o \in OwnerIds, t \in Nat : NewLease(o, t, n) \in Leases
  BY <1>0 DEF NewLease, Leases
<1>3. /\ RenewedLease(l, n).token = l.token /\ RenewedLease(l, n).owner = l.owner
      /\ RenewedLease(l, n).expires = n + TTL /\ RenewedLease(l, n).released = FALSE
  BY DEF RenewedLease, Leases
<1>4. /\ ReleasedLease(l, n).token = l.token /\ ReleasedLease(l, n).owner = l.owner
      /\ ReleasedLease(l, n).expires = n /\ ReleasedLease(l, n).released = TRUE
  BY DEF ReleasedLease, Leases
<1> QED
  BY <1>1, <1>2, <1>3, <1>4

\* The updates of a status that a publish makes.
LEMMA WithOwner ==
  \A s \in Statuses, l \in Leases, b \in BOOLEAN :
    /\ [s EXCEPT !.owner = l, !.lost = b] \in Statuses
    /\ [s EXCEPT !.owner = l, !.lost = b].owner = l
BY DEF Statuses

LEMMA WithPlane ==
  \A s \in Statuses, pl \in Planes, n \in Nat :
    /\ [s EXCEPT !.plane = pl, !.beat = n] \in Statuses
    /\ [s EXCEPT !.plane = pl, !.beat = n].owner = s.owner
BY DEF Statuses

LEMMA WithFailure ==
  \A s \in Statuses, pl \in Planes, n \in Nat :
    /\ [s EXCEPT !.ok = FALSE, !.plane = pl, !.beat = n] \in Statuses
    /\ [s EXCEPT !.ok = FALSE, !.plane = pl, !.beat = n].owner = s.owner
BY DEF Statuses

LEMMA UpdateTypes ==
  ASSUME TypeOK, NEW p \in Procs, NEW t \in Threads, NEW s \in Updated(p, t)
  PROVE  s \in Statuses /\ (s.owner = NoLease \/ s.owner = latest[p].owner
                            \/ s.owner = snap[p]["ctl"].owner)
<1>1. latest[p] \in Statuses /\ snap[p]["ctl"] \in Statuses /\ now \in Nat
      /\ plane[p] \in Planes \cup {"keep"}
  BY DEF TypeOK, Threads
<1>2. Beat(latest[p]) \in Nat /\ (IF plane[p] = "running" THEN now ELSE 0) \in Nat
  BY <1>1 DEF Beat, Statuses
<1>3. CASE t = "main" /\ plane[p] # "keep"
  <2>1. s \in WithRuntime(p) /\ plane[p] \in Planes
    BY <1>1, <1>3 DEF Updated
  <2>2. PICK n \in Nat : s = [latest[p] EXCEPT !.plane = plane[p], !.beat = n]
    BY <1>2, <2>1 DEF WithRuntime
  <2> QED
    BY <1>1, <2>1, <2>2, WithPlane
<1>4. CASE ~(t = "main" /\ plane[p] # "keep") /\ t = "ctl" /\ ctl[p] = "failing"
  <2>1. s \in Failed(p)
    BY <1>4 DEF Updated
  <2>2. \E pl \in Planes, n \in Nat :
          s = [snap[p]["ctl"] EXCEPT !.ok = FALSE, !.plane = pl, !.beat = n]
    <3>1. CASE snap[p]["ctl"].plane = "none"
      <4>1. PICK n \in Nat : n = Beat(latest[p])
        BY <1>2
      <4>2. [latest[p] EXCEPT !.beat = n].plane \in Planes
            /\ [latest[p] EXCEPT !.beat = n].beat = n
        BY <1>1 DEF Statuses
      <4> QED
        BY <2>1, <3>1, <4>1, <4>2 DEF Failed
    <3>2. CASE snap[p]["ctl"].plane # "none"
      BY <1>1, <2>1, <3>2 DEF Failed, Statuses
    <3> QED
      BY <3>1, <3>2
  <2>3. PICK pl \in Planes, n \in Nat :
          s = [snap[p]["ctl"] EXCEPT !.ok = FALSE, !.plane = pl, !.beat = n]
    BY <2>2
  <2>4. s \in Statuses /\ s.owner = snap[p]["ctl"].owner
    BY <1>1, <2>3, WithFailure
  <2> QED
    BY <2>4
<1>5. CASE ~(t = "main" /\ plane[p] # "keep") /\ ~(t = "ctl" /\ ctl[p] = "failing")
  <2>1. s \in Reconciled(p)
    BY <1>5 DEF Updated
  <2>2. PICK h \in BOOLEAN, n \in Nat :
          s = [latest[p] EXCEPT !.owner = NoLease, !.lost = FALSE, !.ok = h, !.beat = n]
    BY <1>2, <2>1 DEF Reconciled
  <2>3. s \in Statuses /\ s.owner = NoLease
    BY <1>1, <2>2, Records DEF Statuses
  <2> QED
    BY <2>3
<1> QED
  BY <1>3, <1>4, <1>5

\* What the publishes and the main thread put into a status keeps its type.
LEMMA OwnerTypes ==
  ASSUME TypeOK, NEW p \in Procs, NEW l \in Leases, NEW b \in BOOLEAN
  PROVE  /\ [latest[p] EXCEPT !.owner = l, !.lost = b] \in Statuses
         /\ [latest[p] EXCEPT !.owner = l, !.lost = b].owner = l
<1>1. latest[p] \in Statuses
  BY DEF TypeOK
<1> QED
  BY <1>1, WithOwner

LEMMA GoneTypes ==
  ASSUME TypeOK, NEW p \in Procs, Gone(p), UNCHANGED <<now, freed, failures, lease, generation>>,
         status' \in [by : Procs \cup {NoBody}, what : Statuses]
  PROVE  TypeOK'
<1>1. step' \in [Procs -> [Threads -> Steps]] /\ since' \in [Procs -> [Threads -> Nat]]
  BY DEF Gone, TypeOK
<1>2. got' \in [Procs -> [Threads -> Leases]] /\ snap' \in [Procs -> [Threads -> Statuses]]
  BY Records DEF Gone, TypeOK
<1>3. myLease' \in [Procs -> Leases] /\ latest' \in [Procs -> Statuses] /\ halted' \subseteq Procs
  BY Records DEF Gone, TypeOK
<1>4. /\ main' \in [Procs -> {"off", "initial", "serving", "ending",
                              "release", "load", "save", "put"}]
      /\ ctl' \in [Procs -> {"off", "on", "failing"}]
      /\ mutex' \in [Procs -> {"free"} \cup Threads]
      /\ plane' \in [Procs -> Planes \cup {"keep"}]
  BY DEF Gone, TypeOK
<1> QED
  BY <1>1, <1>2, <1>3, <1>4 DEF TypeOK

\* Every way to leave a publish.
LEMMA LeaveTypes ==
  ASSUME TypeOK, NEW p \in Procs, NEW t \in Threads, NEW l \in Steps, LeaveTo(p, t, l)
  PROVE  /\ step' \in [Procs -> [Threads -> Steps]]
         /\ got' \in [Procs -> [Threads -> Leases]]
         /\ since' \in [Procs -> [Threads -> Nat]]
         /\ snap' \in [Procs -> [Threads -> Statuses]]
         /\ plane' \in [Procs -> Planes \cup {"keep"}]
<1>1. step' \in [Procs -> [Threads -> Steps]] /\ since' \in [Procs -> [Threads -> Nat]]
  BY DEF LeaveTo, Goto, TypeOK
<1>2. got' \in [Procs -> [Threads -> Leases]] /\ snap' \in [Procs -> [Threads -> Statuses]]
  BY Records DEF LeaveTo, TypeOK
<1>3. plane' \in [Procs -> Planes \cup {"keep"}]
  BY DEF LeaveTo, TypeOK
<1> QED
  BY <1>1, <1>2, <1>3

LEMMA RaisedTypes ==
  ASSUME TypeOK, NEW p \in Procs, NEW t \in Threads, Raised(p, t)
  PROVE  /\ \E l \in Steps : LeaveTo(p, t, l)
         /\ step' \in [Procs -> [Threads -> Steps]]
         /\ got' \in [Procs -> [Threads -> Leases]]
         /\ since' \in [Procs -> [Threads -> Nat]]
         /\ snap' \in [Procs -> [Threads -> Statuses]]
         /\ plane' \in [Procs -> Planes \cup {"keep"}]
         /\ mutex' \in [Procs -> {"free"} \cup Threads]
         /\ main' \in [Procs -> {"off", "initial", "serving", "ending",
                                 "release", "load", "save", "put"}]
         /\ ctl' \in [Procs -> {"off", "on", "failing"}]
<1>1. \E l \in Steps : LeaveTo(p, t, l)
  BY DEF Raised, Leave
<1>2. mutex' \in [Procs -> {"free"} \cup Threads]
  BY DEF Raised, Unlock, TypeOK
<1>3. /\ main' \in [Procs -> {"off", "initial", "serving", "ending",
                              "release", "load", "save", "put"}]
      /\ ctl' \in [Procs -> {"off", "on", "failing"}]
  BY DEF Raised, TypeOK
<1> QED
  BY <1>1, <1>2, <1>3, LeaveTypes

LEMMA ExtendsTypes ==
  ASSUME TypeOK, NEW p \in Procs, NEW t \in Threads, Extends(p, t)
  PROVE  /\ lease' \in Leases
         /\ lease'.owner = lease.owner /\ lease'.token = lease.token /\ ~lease'.released
         /\ \E n \in since[p][t] .. now : n \in Nat /\ lease' = RenewedLease(lease, n)
<1>1. PICK n \in since[p][t] .. now : lease' = RenewedLease(lease, n)
  BY DEF Extends
<1>2. n \in Nat /\ lease \in Leases
  BY <1>1 DEF TypeOK
<1> QED
  BY <1>1, <1>2, NewRecords

LEMMA PublishTypes ==
  ASSUME TypeOK, NEW p \in Procs, NEW t \in Threads, Publishing(p, t)
  PROVE  TypeOK'
<1>0. Threads = {"main", "ctl"} /\ OwnerOf[p] \in OwnerIds
  BY DEF Threads
<1>1. CASE PublishLock(p, t)
  <2>1. PICK s \in Updated(p, t) : latest' = [latest EXCEPT ![p] = s]
    BY <1>1 DEF PublishLock
  <2>2. latest' \in [Procs -> Statuses]
    BY <2>1, UpdateTypes DEF TypeOK
  <2>3. /\ mutex' \in [Procs -> {"free"} \cup Threads]
        /\ step' \in [Procs -> [Threads -> Steps]]
        /\ snap' \in [Procs -> [Threads -> Statuses]]
        /\ halted' \subseteq Procs
    BY <1>1, Records DEF PublishLock, Halting, Goto, TypeOK
  <2> QED
    BY <1>1, <2>2, <2>3 DEF PublishLock, TypeOK, store
<1>2. CASE PublishRenew(p, t)
  <2>1. /\ got' \in [Procs -> [Threads -> Leases]]
        /\ since' \in [Procs -> [Threads -> Nat]]
        /\ step' \in [Procs -> [Threads -> Steps]]
    BY <1>2 DEF PublishRenew, Reading, Goto, TypeOK
  <2> QED
    BY <1>2, <2>1 DEF PublishRenew, Reading, TypeOK, store, server
<1>8. CASE PublishSwap(p, t)
  <2>1. lease' \in Leases
    BY <1>8, ExtendsTypes DEF PublishSwap
  <2>2. /\ got' \in [Procs -> [Threads -> Leases]]
        /\ since' \in [Procs -> [Threads -> Nat]]
        /\ step' \in [Procs -> [Threads -> Steps]]
    BY <1>8, <2>1 DEF PublishSwap, Goto, TypeOK
  <2> QED
    BY <1>8, <2>1, <2>2 DEF PublishSwap, TypeOK, server
<1>9. CASE PublishAgain(p, t)
  BY <1>9, LeaveTypes DEF PublishAgain, TypeOK, store, server
<1>3. CASE PublishLost(p, t)
  <2>1. latest' = [latest EXCEPT ![p] = [latest[p] EXCEPT !.owner = myLease[p], !.lost = TRUE]]
    BY <1>3 DEF PublishLost
  <2>2. latest' \in [Procs -> Statuses]
    BY <2>1, OwnerTypes DEF TypeOK
  <2>3. mutex' \in [Procs -> {"free"} \cup Threads]
    BY <1>3 DEF PublishLost, Unlock, TypeOK
  <2>4. LeaveTo(p, t, "none")
    BY <1>3 DEF PublishLost, Leave
  <2> QED
    BY <1>3, <2>2, <2>3, <2>4, LeaveTypes DEF PublishLost, TypeOK, store
<1>10. CASE RenewRaises(p, t)
  <2>1. lease' \in Leases
    BY <1>10, ExtendsTypes DEF RenewRaises, TypeOK
  <2>2. failures' \in 0 .. MaxFailures
    BY <1>10 DEF RenewRaises, Fails, TypeOK
  <2>3. Raised(p, t) /\ UNCHANGED <<now, freed, generation, status, server>>
    BY <1>10 DEF RenewRaises
  <2> QED
    BY <2>1, <2>2, <2>3, RaisedTypes DEF TypeOK, server
<1>4. ASSUME latest' = [latest EXCEPT ![p] = Noted(p, t)],
             myLease' = [myLease EXCEPT ![p] = Claim(got[p][t])]
      PROVE  Noted(p, t) \in Statuses /\ latest' \in [Procs -> Statuses]
             /\ myLease' \in [Procs -> Leases]
  <2>1. got[p][t] \in Leases
    BY DEF TypeOK
  <2>2. Noted(p, t) \in Statuses
    BY <2>1, OwnerTypes DEF Noted
  <2> QED
    BY <1>4, <2>1, <2>2, Records DEF TypeOK
<1>5. CASE PublishCheck(p, t)
  <2>1. Noted(p, t) \in Statuses /\ latest' \in [Procs -> Statuses] /\ myLease' \in [Procs -> Leases]
    BY <1>4, <1>5 DEF PublishCheck
  <2>2. snap' \in [Procs -> [Threads -> Statuses]]
    BY <1>5, <2>1 DEF PublishCheck, TypeOK
  <2>3. step' \in [Procs -> [Threads -> Steps]]
    BY <1>5 DEF PublishCheck, Goto, TypeOK
  <2> QED
    BY <1>5, <2>1, <2>2, <2>3 DEF PublishCheck, TypeOK, store
<1>6. CASE PublishRefused(p, t)
  <2>1. latest' \in [Procs -> Statuses] /\ myLease' \in [Procs -> Leases]
    BY <1>4, <1>6 DEF PublishRefused
  <2>2. Raised(p, t) /\ UNCHANGED <<now, freed, store, halted>>
    BY <1>6 DEF PublishRefused
  <2>3. failures' \in 0 .. MaxFailures
    BY <1>6 DEF PublishRefused, Fails, TypeOK
  <2> QED
    BY <2>1, <2>2, <2>3, RaisedTypes DEF TypeOK, store
<1>7. CASE PublishPut(p, t)
  <2>1. status' \in [by : Procs \cup {NoBody}, what : Statuses]
    BY <1>7 DEF PublishPut, Saved, TypeOK
  <2>2. mutex' \in [Procs -> {"free"} \cup Threads] /\ LeaveTo(p, t, "none")
    BY <1>7 DEF PublishPut, Unlock, Leave, TypeOK
  <2> QED
    BY <1>7, <2>1, <2>2, LeaveTypes DEF PublishPut, TypeOK, server
<1>11. CASE PutRaises(p, t)
  <2>1. status' \in [by : Procs \cup {NoBody}, what : Statuses]
    BY <1>11 DEF PutRaises, Saved, TypeOK
  <2>2. failures' \in 0 .. MaxFailures
    BY <1>11 DEF PutRaises, Fails, TypeOK
  <2>3. Raised(p, t) /\ UNCHANGED <<now, freed, lease, generation, server>>
    BY <1>11 DEF PutRaises
  <2> QED
    BY <2>1, <2>2, <2>3, RaisedTypes DEF TypeOK, server
<1> QED
  BY <1>1, <1>2, <1>3, <1>5, <1>6, <1>7, <1>8, <1>9, <1>10, <1>11 DEF Publishing

LEMMA CtlTypes ==
  ASSUME TypeOK, NEW p \in Procs, CtlRound(p) \/ CtlFails(p) \/ CtlReads(p) \/ CtlEnd(p)
  PROVE  TypeOK'
<1>0. Threads = {"main", "ctl"}
  BY DEF Threads
<1>1. CASE CtlRound(p)
  BY <1>0, <1>1 DEF CtlRound, Goto, TypeOK, store, server
<1>2. CASE CtlFails(p)
  BY <1>0, <1>2 DEF CtlFails, Fails, Goto, TypeOK, store, server
<1>3. CASE CtlReads(p)
  BY <1>0, <1>3 DEF CtlReads, Goto, TypeOK, store, server
<1>4. CASE CtlEnd(p)
  BY <1>0, <1>4 DEF CtlEnd, TypeOK, store, server
<1> QED
  BY <1>1, <1>2, <1>3, <1>4

LEMMA MainTypes ==
  ASSUME TypeOK, NEW p \in Procs,
         \/ Acquire(p) \/ MainStart(p) \/ MainBlocked(p) \/ MainStopped(p)
         \/ MainEnding(p) \/ MainAborted(p)
         \/ MainRelease(p) \/ MainNotOwner(p) \/ MainLoad(p) \/ MainSave(p)
         \/ MainSaveRefused(p) \/ MainPut(p) \/ Crash(p)
  PROVE  TypeOK' \/ MainRelease(p)
<1>0. Threads = {"main", "ctl"} /\ OwnerOf[p] \in OwnerIds
  BY DEF Threads
<1>1. CASE Acquire(p)
  <2>1. PICK l \in Leases : Begin(p, l)
    <3>1. CASE Begin(p, RenewedLease(lease, now))
      BY <3>1, NewRecords DEF TypeOK
    <3>2. CASE Begin(p, NewLease(OwnerOf[p], generation', now)) /\ generation' = generation + 1
      <4>1. generation + 1 \in Nat
        BY DEF TypeOK
      <4> QED
        BY <1>0, <3>2, <4>1, NewRecords DEF TypeOK
    <3> QED
      BY <1>1, <3>1, <3>2 DEF Acquire
  <2>2. generation' \in Nat /\ freed' \subseteq 1 .. generation'
    BY <1>1, <2>1 DEF Acquire, Begin, TypeOK
  <2>3. /\ main' \in [Procs -> {"off", "initial", "serving", "ending",
                               "release", "load", "save", "put"}]
        /\ step' \in [Procs -> [Threads -> Steps]]
    BY <1>0, <2>1 DEF Begin, Goto, TypeOK
  <2>4. lease' \in Leases /\ myLease' \in [Procs -> Leases] /\ latest' \in [Procs -> Statuses]
    BY <2>1, Records DEF Begin, TypeOK
  <2> QED
    BY <2>1, <2>2, <2>3, <2>4 DEF Begin, TypeOK
<1>2. CASE MainStart(p) \/ MainBlocked(p) \/ MainStopped(p)
  <2>1. PICK pl \in Planes, m \in {"serving", "ending"} : MainPublishes(p, pl, m)
    BY <1>2 DEF MainStart, MainBlocked, MainStopped, Planes
  <2>2. /\ main' \in [Procs -> {"off", "initial", "serving", "ending",
                               "release", "load", "save", "put"}]
        /\ plane' \in [Procs -> Planes \cup {"keep"}]
        /\ step' \in [Procs -> [Threads -> Steps]]
    BY <1>0, <2>1 DEF MainPublishes, Goto, TypeOK
  <2>3. ctl' \in [Procs -> {"off", "on", "failing"}]
    BY <1>2 DEF MainStart, MainBlocked, MainStopped, TypeOK
  <2> QED
    BY <2>1, <2>2, <2>3 DEF MainPublishes, TypeOK, store, server
<1>3. CASE MainEnding(p) \/ MainAborted(p)
  BY <1>3 DEF MainEnding, MainAborted, Finish, TypeOK, store, server
<1>4. CASE MainNotOwner(p) \/ MainSaveRefused(p) \/ Crash(p)
  <2>1. Gone(p) /\ UNCHANGED <<now, freed, failures, lease, generation, status>>
    BY <1>4 DEF MainNotOwner, MainSaveRefused, Crash, store
  <2> QED
    BY <2>1, GoneTypes DEF TypeOK
<1>5. CASE MainPut(p)
  <2>1. status' \in [by : Procs \cup {NoBody}, what : Statuses]
    BY <1>0, <1>5 DEF MainPut, Saved, TypeOK
  <2> QED
    BY <1>5, <2>1, GoneTypes DEF MainPut
<1>6. CASE MainLoad(p)
  <2>1. myLease' \in [Procs -> Leases]
    BY <1>6, Records DEF MainLoad, TypeOK
  <2>2. latest' = [latest EXCEPT ![p] = [latest[p] EXCEPT !.owner = lease, !.lost = FALSE]]
    BY <1>6 DEF MainLoad
  <2>3. latest' \in [Procs -> Statuses]
    BY <2>2, OwnerTypes DEF TypeOK
  <2>4. main' \in [Procs -> {"off", "initial", "serving", "ending",
                             "release", "load", "save", "put"}]
    BY <1>6 DEF MainLoad, TypeOK
  <2> QED
    BY <1>6, <2>1, <2>3, <2>4 DEF MainLoad, TypeOK, store
<1>7. CASE MainSave(p)
  BY <1>0, <1>7 DEF MainSave, TypeOK, store, server
<1> QED
  BY <1>1, <1>2, <1>3, <1>4, <1>5, <1>6, <1>7
-------------------------------------------------------------------------------
(* Copies stay covered.                                                     *)

LEMMA InitInv == Init => IInv
<1> SUFFICES ASSUME Init PROVE IInv
  OBVIOUS
<1>1. TypeOK
  BY Records DEF Init, TypeOK, NoBody
<1>2. LeaseOK
  BY DEF Init, LeaseOK, NoLease
<1>3. Cov(status.what.owner) /\ \A p \in Procs : CopiesOK(p)
  BY DEF Init, Cov, Covered, CopiesOK, EmptyStatus, NoLease
<1>4. \A p \in Procs : SwapOK(p)
  BY DEF Init, SwapOK
<1> QED
  BY <1>1, <1>2, <1>3, <1>4 DEF IInv, CopyInv

\* A renewal: no shorter than the lease was, and no longer than a lifetime from now.
Extended ==
  /\ lease # NoLease /\ ~lease.released
  /\ \E n \in Nat : n <= now /\ lease.expires <= n + TTL /\ lease' = RenewedLease(lease, n)
  /\ UNCHANGED <<now, generation, freed>>

\* The steps that change the lease, its tokens or the clock.
LeaseMoves ==
  \/ UNCHANGED <<now, lease, generation, freed>>
  \/ Tick
  \/ \E p \in Procs : Acquire(p) \/ MainRelease(p)
  \/ Extended

LEMMA LeaseStep ==
  ASSUME TypeOK, LeaseOK, LeaseMoves
  PROVE  /\ LeaseOK' /\ lease' \in Leases /\ now' \in Nat
         /\ freed' \subseteq 1 .. generation'
         /\ \A l \in Leases : New(l) => Covered(l, lease', freed', now')
<1>1. /\ now \in Nat /\ lease \in Leases /\ generation \in Nat /\ freed \subseteq 1 .. generation
      /\ lease.token \in Nat /\ lease.expires \in Nat
  BY DEF TypeOK, Leases
<1>2. \A l \in Leases : l.token \in Nat /\ l.expires \in Nat
  BY DEF Leases
<1>a. ASSUME lease' \in Leases, now' \in Nat, now <= now', freed \subseteq freed', LeaseOK',
             \/ lease'.token = lease.token /\ lease.expires <= lease'.expires
             \/ lease.token \in freed' \/ lease.expires <= now'
      PROVE  \A l \in Leases : New(l) => Covered(l, lease', freed', now')
  <2> SUFFICES ASSUME NEW l \in Leases, New(l) PROVE Covered(l, lease', freed', now')
    OBVIOUS
  <2>0. l.expires \in Nat /\ lease'.expires \in Nat /\ lease'.expires <= now' + TTL
    BY <1>2, <1>a DEF LeaseOK
  <2>1. CASE l = lease'
    BY <2>0, <2>1 DEF Covered
  <2>2. CASE l.expires = 0
    BY <1>a, <2>2 DEF Covered
  <2>3. CASE Cov(l)
    <3>0. l.expires <= now' + TTL
      BY <1>1, <1>a, <2>0, <2>3 DEF Cov, Covered
    <3>1. CASE l.token \in freed
      BY <1>a, <3>0, <3>1 DEF Covered
    <3>2. CASE l.expires <= now
      BY <1>1, <1>a, <2>0, <3>0, <3>2 DEF Covered
    <3>3. CASE l.token = lease.token /\ l.expires <= lease.expires
      <4>1. CASE lease'.token = lease.token /\ lease.expires <= lease'.expires
        BY <1>1, <2>0, <3>0, <3>3, <4>1 DEF Covered
      <4>2. CASE lease.token \in freed' \/ lease.expires <= now'
        BY <1>1, <1>a, <2>0, <3>0, <3>3, <4>2 DEF Covered
      <4> QED
        BY <1>a, <4>1, <4>2
    <3> QED
      BY <2>3, <3>1, <3>2, <3>3 DEF Cov, Covered
  <2> QED
    BY <2>1, <2>2, <2>3 DEF New
<1>3. CASE UNCHANGED <<now, lease, generation, freed>>
  <2>1. LeaseOK'
    BY <1>3 DEF LeaseOK
  <2> QED
    BY <1>1, <1>3, <1>a, <2>1
<1>4. CASE Tick
  <2>1. now' = now + 1 /\ UNCHANGED <<lease, generation, freed>>
    BY <1>4 DEF Tick, store
  <2>2. LeaseOK'
    BY <1>1, <2>1 DEF LeaseOK
  <2> QED
    BY <1>1, <1>a, <2>1, <2>2
<1>5. CASE Extended
  <2>1. PICK n \in Nat : n <= now /\ lease.expires <= n + TTL /\ lease' = RenewedLease(lease, n)
    BY <1>5 DEF Extended
  <2>2. /\ lease' \in Leases /\ lease'.token = lease.token /\ lease'.expires = n + TTL
        /\ ~lease'.released
    BY <1>1, <2>1, NewRecords
  <2>3. lease # NoLease /\ UNCHANGED <<now, generation, freed>>
    BY <1>5 DEF Extended
  <2>4. LeaseOK'
    BY <1>1, <2>1, <2>2, <2>3 DEF LeaseOK
  <2>5. lease.expires <= lease'.expires
    BY <2>1, <2>2
  <2> QED
    BY <1>1, <1>a, <2>2, <2>3, <2>4, <2>5
<1>6. ASSUME NEW p \in Procs, Acquire(p), ~LeaseIsActive(lease, now)
      PROVE  /\ LeaseOK' /\ lease' \in Leases /\ now' \in Nat
             /\ freed' \subseteq 1 .. generation'
             /\ \A l \in Leases : New(l) => Covered(l, lease', freed', now')
  <2>1. lease' = NewLease(OwnerOf[p], generation', now) /\ generation' = generation + 1
        /\ UNCHANGED <<now, freed, failures>>
    BY <1>6 DEF Acquire, Begin
  <2>2. OwnerOf[p] \in OwnerIds /\ generation' \in Nat
    BY <1>1, <2>1
  <2>3. lease' \in Leases
    BY <1>1, <2>1, <2>2, NewRecords
  <2>4. lease'.token = generation + 1 /\ lease'.expires = now + TTL /\ ~lease'.released
    BY <2>1 DEF NewLease
  <2>5. LeaseOK'
    BY <1>1, <2>1, <2>4 DEF LeaseOK
  <2>6. lease.token \in freed' \/ lease.expires <= now'
    BY <1>1, <1>6, <2>1 DEF LeaseIsActive, LeaseOK
  <2> QED
    BY <1>1, <1>a, <2>1, <2>3, <2>5, <2>6
<1>7. ASSUME NEW p \in Procs, MainRelease(p)
      PROVE  /\ LeaseOK' /\ lease' \in Leases /\ now' \in Nat
             /\ freed' \subseteq 1 .. generation'
             /\ \A l \in Leases : New(l) => Covered(l, lease', freed', now')
  <2>1. /\ lease' = ReleasedLease(lease, now) /\ freed' = freed \cup {lease.token}
        /\ UNCHANGED <<now, generation>> /\ lease # NoLease
    BY <1>7 DEF MainRelease, LeaseMatches
  <2>2. lease' \in Leases /\ lease'.token = lease.token /\ lease'.expires = now
    BY <1>1, <2>1, NewRecords
  <2>3. lease.token \in 1 .. generation
    BY <2>1 DEF LeaseOK
  <2>4. LeaseOK'
    <3>1. lease'.token \in freed' /\ lease'.token \in 1 .. generation'
      BY <2>1, <2>2, <2>3
    <3>2. lease'.expires <= now' + TTL
      BY <1>1, <2>1, <2>2
    <3> QED
      BY <3>1, <3>2 DEF LeaseOK
  <2>5. now' \in Nat /\ now <= now' /\ freed \subseteq freed' /\ lease.token \in freed'
    BY <1>1, <2>1
  <2>6. freed' \subseteq 1 .. generation'
    BY <1>1, <2>1, <2>3
  <2>7. \A l \in Leases : New(l) => Covered(l, lease', freed', now')
    BY <1>a, <2>2, <2>4, <2>5
  <2> QED
    BY <2>2, <2>4, <2>5, <2>6, <2>7
<1>8. CASE \E p \in Procs : Acquire(p) \/ MainRelease(p)
  <2>1. PICK p \in Procs : Acquire(p) \/ MainRelease(p)
    BY <1>8
  <2>2. CASE Acquire(p) /\ LeaseIsActive(lease, now)
    <3>1. lease' = RenewedLease(lease, now) /\ UNCHANGED <<now, generation, freed>>
      BY <2>2 DEF Acquire, Begin
    <3>2. Extended
      BY <1>1, <2>2, <3>1 DEF Extended, LeaseIsActive, LeaseOK, NoLease
    <3> QED
      BY <1>5, <3>2
  <2> QED
    BY <1>6, <1>7, <2>1, <2>2
<1> QED
  BY <1>3, <1>4, <1>5, <1>8 DEF LeaseMoves

\* The copies of one process change, into old copies, the lease, or no lease.
LEMMA CopyStep ==
  ASSUME CopyInv, LeaseMoves, TypeOK', NEW p \in Procs,
         \A q \in Procs : q # p => /\ latest'[q] = latest[q] /\ myLease'[q] = myLease[q]
                                   /\ got'[q] = got[q] /\ snap'[q] = snap[q],
         New(latest'[p].owner), New(myLease'[p]),
         \A t \in Threads : New(got'[p][t]) /\ New(snap'[p][t].owner),
         New(status'.what.owner)
  PROVE  CopyInv'
<1> DEFINE Kept(l) == Covered(l, lease', freed', now')
<1>1. LeaseOK' /\ \A l \in Leases : New(l) => Kept(l)
  BY LeaseStep DEF CopyInv
<1>2. \A q \in Procs : /\ latest'[q].owner \in Leases /\ myLease'[q] \in Leases
                       /\ \A t \in Threads : got'[q][t] \in Leases /\ snap'[q][t].owner \in Leases
  BY DEF TypeOK, Statuses
<1>3. status'.what.owner \in Leases
  BY DEF TypeOK, Statuses
<1>4. \A q \in Procs : /\ New(latest'[q].owner) /\ New(myLease'[q])
                       /\ \A t \in Threads : New(got'[q][t]) /\ New(snap'[q][t].owner)
  <2> TAKE q \in Procs
  <2>1. CASE q = p
    BY <2>1
  <2>2. CASE q # p
    BY <2>2 DEF CopyInv, CopiesOK, New
  <2> QED
    BY <2>1, <2>2
<1>5. \A q \in Procs : /\ Kept(latest'[q].owner) /\ Kept(myLease'[q])
                       /\ \A t \in Threads : Kept(got'[q][t]) /\ Kept(snap'[q][t].owner)
  BY <1>1, <1>2, <1>4
<1>6. Kept(status'.what.owner)
  BY <1>1, <1>3
<1> QED
  BY <1>1, <1>5, <1>6 DEF CopyInv, CopiesOK, Cov

LEMMA NoLeaseNew == New(NoLease) /\ New(EmptyStatus.owner) /\ \A l \in Leases : New(Claim(l))
BY Records DEF New, NoLease, EmptyStatus

\* A step that does not touch the lease.
LEMMA Still ==
  ASSUME NEW p, NEW t,
         \/ PublishLock(p, t) \/ PublishRenew(p, t) \/ PublishAgain(p, t) \/ PublishLost(p, t)
         \/ PublishCheck(p, t) \/ PublishRefused(p, t) \/ PublishPut(p, t) \/ PutRaises(p, t)
  PROVE  UNCHANGED <<now, lease, generation, freed>>
BY DEF PublishLock, PublishRenew, Reading, PublishAgain, PublishLost, PublishCheck,
       PublishRefused, PublishPut, PutRaises, store

\* A swap extends the lease that the renewal has tested.
LEMMA SwapExtends ==
  ASSUME CopyInv, NEW p \in Procs, NEW t \in Threads, SwapOK(p), Extends(p, t),
         UNCHANGED <<now, generation, freed>>
  PROVE  Extended
<1>1. lease = got[p][t] /\ step[p][t] = "swap"
  BY DEF Extends
<1>2. PICK n \in since[p][t] .. now : n \in Nat /\ lease' = RenewedLease(lease, n)
  BY ExtendsTypes DEF CopyInv
<1>3. /\ ~lease.released /\ lease.owner \in OwnerIds /\ lease.expires <= since[p][t] + TTL
      /\ since[p][t] \in Nat /\ now \in Nat /\ lease.expires \in Nat
  BY <1>1 DEF SwapOK, CopyInv, TypeOK, Leases
<1>4. n <= now /\ lease.expires <= n + TTL
  BY <1>2, <1>3
<1>5. lease # NoLease
  BY <1>3 DEF NoLease
<1> QED
  BY <1>2, <1>3, <1>4, <1>5 DEF Extended

LEMMA PublishMoves ==
  ASSUME CopyInv, NEW p \in Procs, NEW t \in Threads, SwapOK(p), Publishing(p, t)
  PROVE  LeaseMoves
<1>1. CASE PublishSwap(p, t) \/ (RenewRaises(p, t) /\ Extends(p, t))
  <2>1. Extends(p, t) /\ UNCHANGED <<now, generation, freed>>
    BY <1>1 DEF PublishSwap, RenewRaises
  <2> QED
    BY <2>1, SwapExtends DEF LeaseMoves
<1>2. CASE RenewRaises(p, t) /\ UNCHANGED lease
  BY <1>2 DEF RenewRaises, LeaseMoves
<1>3. CASE ~PublishSwap(p, t) /\ ~RenewRaises(p, t)
  BY <1>3, Still DEF Publishing, LeaseMoves
<1> QED
  BY <1>1, <1>2, <1>3 DEF RenewRaises

LEMMA LeaveCopies ==
  ASSUME CopyInv, NEW p \in Procs, NEW t \in Threads, NEW l \in Steps, LeaveTo(p, t, l)
  PROVE  /\ \A q \in Procs : q # p => got'[q] = got[q] /\ snap'[q] = snap[q]
         /\ \A u \in Threads : New(got'[p][u]) /\ New(snap'[p][u].owner)
<1>1. got \in [Procs -> [Threads -> Leases]] /\ snap \in [Procs -> [Threads -> Statuses]]
  BY DEF CopyInv, TypeOK
<1>2. \A u \in Threads : /\ got'[p][u] = IF u = t THEN NoLease ELSE got[p][u]
                         /\ snap'[p][u] = IF u = t THEN EmptyStatus ELSE snap[p][u]
  BY <1>1 DEF LeaveTo
<1>3. \A u \in Threads : New(got[p][u]) /\ New(snap[p][u].owner)
  BY DEF CopyInv, CopiesOK, New
<1>4. \A q \in Procs : q # p => got'[q] = got[q] /\ snap'[q] = snap[q]
  BY <1>1 DEF LeaveTo
<1> QED
  BY <1>2, <1>3, <1>4, NoLeaseNew

\* What a process has stays what it was.
LEMMA OldNew ==
  ASSUME CopyInv
  PROVE  /\ New(status.what.owner)
         /\ \A p \in Procs : /\ New(latest[p].owner) /\ New(myLease[p])
                             /\ \A t \in Threads : New(got[p][t]) /\ New(snap[p][t].owner)
BY DEF CopyInv, CopiesOK, New

LEMMA PublishCopies ==
  ASSUME CopyInv, NEW p \in Procs, NEW t \in Threads, SwapOK(p),
         Publishing(p, t)
  PROVE  CopyInv'
<1>0. TypeOK' /\ TypeOK
  BY PublishTypes DEF CopyInv
<1> USE <1>0
<1>m. LeaseMoves
  BY PublishMoves
<1>t. "ctl" \in Threads /\ "main" \in Threads
  BY DEF Threads
<1>1. CASE PublishLock(p, t)
  <2>1. PICK s \in Updated(p, t) : latest' = [latest EXCEPT ![p] = s]
    BY <1>1 DEF PublishLock
  <2>2. New(s.owner)
    BY <1>t, <2>1, UpdateTypes, NoLeaseNew, OldNew
  <2>3. /\ \A q \in Procs : q # p => latest'[q] = latest[q] /\ snap'[q] = snap[q]
        /\ latest'[p] = s /\ UNCHANGED <<myLease, got, status>>
        /\ \A u \in Threads : snap'[p][u] = IF u = t THEN EmptyStatus ELSE snap[p][u]
    BY <1>1, <2>1 DEF PublishLock, TypeOK, store
  <2>4. \A u \in Threads : New(snap'[p][u].owner)
    BY <2>3, NoLeaseNew, OldNew
  <2>5. New(latest'[p].owner) /\ New(myLease'[p]) /\ New(status'.what.owner)
        /\ \A u \in Threads : New(got'[p][u])
    BY <2>2, <2>3, OldNew
  <2> QED
    BY <1>m, <2>3, <2>4, <2>5, CopyStep
<1>2. CASE PublishRenew(p, t) \/ PublishSwap(p, t)
  <2>1. /\ \A q \in Procs : q # p => got'[q] = got[q]
        /\ UNCHANGED <<latest, myLease, snap, status>>
        /\ \A u \in Threads : got'[p][u] = IF u = t THEN lease' ELSE got[p][u]
    BY <1>2 DEF PublishRenew, Reading, PublishSwap, TypeOK, store, server
  <2>2. \A u \in Threads : New(got'[p][u])
    BY <2>1, OldNew DEF New
  <2>3. New(latest'[p].owner) /\ New(myLease'[p]) /\ New(status'.what.owner)
        /\ \A u \in Threads : New(snap'[p][u].owner)
    BY <2>1, OldNew
  <2> QED
    BY <1>m, <2>1, <2>2, <2>3, CopyStep
<1>8. CASE PublishAgain(p, t)
  <2>1. LeaveTo(p, t, "renew") /\ UNCHANGED <<latest, myLease, status>>
    BY <1>8 DEF PublishAgain, store, server
  <2>2. New(latest'[p].owner) /\ New(myLease'[p]) /\ New(status'.what.owner)
    BY <2>1, OldNew
  <2> QED
    BY <1>m, <2>1, <2>2, LeaveCopies, CopyStep
<1>9. CASE RenewRaises(p, t)
  <2>1. UNCHANGED <<latest, myLease, status>>
    BY <1>9 DEF RenewRaises, server
  <2>2. PICK l \in Steps : LeaveTo(p, t, l)
    BY <1>9, RaisedTypes DEF RenewRaises
  <2>3. New(latest'[p].owner) /\ New(myLease'[p]) /\ New(status'.what.owner)
    BY <2>1, OldNew
  <2> QED
    BY <1>m, <2>1, <2>2, <2>3, LeaveCopies, CopyStep
<1>3. CASE PublishLost(p, t)
  <2>1. /\ latest' = [latest EXCEPT ![p] = [latest[p] EXCEPT !.owner = myLease[p], !.lost = TRUE]]
        /\ UNCHANGED <<myLease, status>> /\ LeaveTo(p, t, "none")
    BY <1>3 DEF PublishLost, Leave, store
  <2>2. [latest[p] EXCEPT !.owner = myLease[p], !.lost = TRUE].owner = myLease[p]
    BY DEF TypeOK, Statuses
  <2>3. latest'[p].owner = myLease[p] /\ \A q \in Procs : q # p => latest'[q] = latest[q]
    BY <2>1, <2>2 DEF TypeOK
  <2>4. New(latest'[p].owner) /\ New(myLease'[p]) /\ New(status'.what.owner)
    BY <2>1, <2>3, OldNew
  <2> QED
    BY <1>m, <2>1, <2>3, <2>4, LeaveCopies, CopyStep
<1>4. ASSUME latest' = [latest EXCEPT ![p] = Noted(p, t)],
             myLease' = [myLease EXCEPT ![p] = Claim(got[p][t])]
      PROVE  /\ \A q \in Procs : q # p => latest'[q] = latest[q] /\ myLease'[q] = myLease[q]
             /\ New(latest'[p].owner) /\ New(myLease'[p]) /\ New(Noted(p, t).owner)
  <2>1. got[p][t] \in Leases
    BY DEF TypeOK
  <2>2. Noted(p, t).owner = got[p][t]
    BY <2>1, OwnerTypes DEF Noted
  <2>3. New(Noted(p, t).owner)
    BY <2>2, OldNew
  <2>4. New(Claim(got[p][t]))
    BY <2>1, NoLeaseNew
  <2>5. latest'[p] = Noted(p, t) /\ myLease'[p] = Claim(got[p][t])
        /\ \A q \in Procs : q # p => latest'[q] = latest[q] /\ myLease'[q] = myLease[q]
    BY <1>4 DEF TypeOK
  <2> QED
    BY <2>3, <2>4, <2>5
<1>5. CASE PublishCheck(p, t)
  <2>1. /\ latest' = [latest EXCEPT ![p] = Noted(p, t)] /\ UNCHANGED <<got, status>>
        /\ myLease' = [myLease EXCEPT ![p] = Claim(got[p][t])]
        /\ \A q \in Procs : q # p => snap'[q] = snap[q]
        /\ \A u \in Threads : snap'[p][u] = IF u = t THEN Noted(p, t) ELSE snap[p][u]
    BY <1>5 DEF PublishCheck, TypeOK, store
  <2>2. /\ \A q \in Procs : q # p => latest'[q] = latest[q] /\ myLease'[q] = myLease[q]
        /\ New(latest'[p].owner) /\ New(myLease'[p]) /\ New(Noted(p, t).owner)
    BY <1>4, <2>1
  <2>3. \A u \in Threads : New(snap'[p][u].owner) /\ New(got'[p][u])
    BY <2>1, <2>2, OldNew
  <2>4. New(status'.what.owner)
    BY <2>1, OldNew
  <2> QED
    BY <1>m, <2>1, <2>2, <2>3, <2>4, CopyStep
<1>6. CASE PublishRefused(p, t)
  <2>1. /\ latest' = [latest EXCEPT ![p] = Noted(p, t)] /\ UNCHANGED status
        /\ myLease' = [myLease EXCEPT ![p] = Claim(got[p][t])]
    BY <1>6 DEF PublishRefused, store
  <2>2. /\ \A q \in Procs : q # p => latest'[q] = latest[q] /\ myLease'[q] = myLease[q]
        /\ New(latest'[p].owner) /\ New(myLease'[p])
    BY <1>4, <2>1
  <2>3. PICK l \in Steps : LeaveTo(p, t, l)
    BY <1>6, RaisedTypes DEF PublishRefused
  <2>4. New(status'.what.owner)
    BY <2>1, OldNew
  <2> QED
    BY <1>m, <2>2, <2>3, <2>4, LeaveCopies, CopyStep
<1>7. CASE PublishPut(p, t) \/ PutRaises(p, t)
  <2>1. /\ status'.what = snap[p][t] \/ status' = status
        /\ UNCHANGED <<latest, myLease>>
    BY <1>7 DEF PublishPut, PutRaises, Saved, server
  <2>2. PICK l \in Steps : LeaveTo(p, t, l)
    BY <1>7, RaisedTypes DEF PublishPut, PutRaises, Leave
  <2>3. New(latest'[p].owner) /\ New(myLease'[p]) /\ New(status'.what.owner)
    BY <2>1, OldNew
  <2> QED
    BY <1>m, <2>1, <2>2, <2>3, LeaveCopies, CopyStep
<1> QED
  BY <1>1, <1>2, <1>3, <1>5, <1>6, <1>7, <1>8, <1>9 DEF Publishing

\* A step after which no copy is new.
LEMMA SameCopies ==
  ASSUME CopyInv, LeaseMoves, TypeOK', UNCHANGED <<status, latest, myLease, got, snap>>
  PROVE  CopyInv'
<1> DEFINE Kept(l) == Covered(l, lease', freed', now')
<1>1. LeaseOK' /\ \A l \in Leases : New(l) => Kept(l)
  BY LeaseStep DEF CopyInv
<1>2. status.what.owner \in Leases
      /\ \A q \in Procs : /\ latest[q].owner \in Leases /\ myLease[q] \in Leases
                          /\ \A t \in Threads : got[q][t] \in Leases /\ snap[q][t].owner \in Leases
  BY DEF CopyInv, TypeOK, Statuses
<1>3. Kept(status.what.owner)
      /\ \A q \in Procs : /\ Kept(latest[q].owner) /\ Kept(myLease[q])
                          /\ \A t \in Threads : Kept(got[q][t]) /\ Kept(snap[q][t].owner)
  BY <1>1, <1>2, OldNew
<1> QED
  BY <1>1, <1>3 DEF CopyInv, CopiesOK, Cov

LEMMA GoneCopies ==
  ASSUME CopyInv, NEW p \in Procs, Gone(p), UNCHANGED <<now, lease, generation, freed>>,
         status' = status \/ status'.what = snap[p]["main"], TypeOK'
  PROVE  CopyInv'
<1>1. /\ \A q \in Procs : q # p => /\ latest'[q] = latest[q] /\ myLease'[q] = myLease[q]
                                   /\ got'[q] = got[q] /\ snap'[q] = snap[q]
      /\ latest'[p] = EmptyStatus /\ myLease'[p] = NoLease
      /\ \A t \in Threads : got'[p][t] = NoLease /\ snap'[p][t] = EmptyStatus
  BY DEF Gone, CopyInv, TypeOK
<1>2. New(status'.what.owner)
  BY OldNew DEF Threads
<1>3. LeaseMoves
  BY DEF LeaseMoves
<1> QED
  BY <1>1, <1>2, <1>3, NoLeaseNew, CopyStep

LEMMA MainCopies ==
  ASSUME CopyInv, NEW p \in Procs,
         \/ Acquire(p) \/ MainStart(p) \/ MainBlocked(p) \/ MainStopped(p)
         \/ MainEnding(p) \/ MainAborted(p)
         \/ MainRelease(p) \/ MainNotOwner(p) \/ MainLoad(p) \/ MainSave(p)
         \/ MainSaveRefused(p) \/ MainPut(p) \/ Crash(p)
  PROVE  CopyInv'
<1>0. TypeOK /\ (TypeOK' \/ MainRelease(p)) /\ "main" \in Threads
  BY MainTypes DEF CopyInv, Threads
<1>1. CASE MainRelease(p)
  <2>1. LeaseMoves
    BY <1>1 DEF LeaseMoves
  <2>2. lease' \in Leases /\ freed' \subseteq 1 .. generation'
    BY <2>1, LeaseStep DEF CopyInv
  <2>3. main' \in [Procs -> {"off", "initial", "serving", "ending",
                             "release", "load", "save", "put"}]
    BY <1>0, <1>1 DEF MainRelease, TypeOK
  <2>4. TypeOK'
    BY <1>0, <1>1, <2>2, <2>3 DEF MainRelease, TypeOK, server
  <2>5. UNCHANGED <<status, latest, myLease, got, snap>>
    BY <1>1 DEF MainRelease, server
  <2> QED
    BY <2>1, <2>4, <2>5, SameCopies
<1>2. CASE Acquire(p)
  <2>1. TypeOK' /\ LeaseMoves
    BY <1>0, <1>2 DEF LeaseMoves, MainRelease, Acquire
  <2>2. /\ \A q \in Procs : q # p => latest'[q] = latest[q] /\ myLease'[q] = myLease[q]
        /\ latest'[p] = EmptyStatus /\ myLease'[p] = Claim(lease')
        /\ UNCHANGED <<got, snap, status>>
    BY <1>0, <1>2 DEF Acquire, Begin, TypeOK
  <2>3. lease' \in Leases
    BY <2>1 DEF TypeOK
  <2>4. New(latest'[p].owner) /\ New(myLease'[p])
    BY <2>2, <2>3, NoLeaseNew
  <2>5. New(status'.what.owner) /\ \A t \in Threads : New(got'[p][t]) /\ New(snap'[p][t].owner)
    BY <2>2, OldNew
  <2> QED
    BY <2>1, <2>2, <2>4, <2>5, CopyStep
<1>3. CASE MainStart(p) \/ MainBlocked(p) \/ MainStopped(p) \/ MainEnding(p) \/ MainAborted(p)
  <2>1. UNCHANGED <<now, lease, generation, freed, status, latest, myLease, got, snap>>
    BY <1>3 DEF MainStart, MainBlocked, MainStopped, MainEnding, MainAborted, MainPublishes,
                Finish, store, server
  <2>2. ~MainRelease(p)
    BY <1>3 DEF MainStart, MainBlocked, MainStopped, MainEnding, MainAborted, MainRelease
  <2> QED
    BY <1>0, <2>1, <2>2, SameCopies DEF LeaseMoves
<1>4. CASE MainNotOwner(p) \/ MainSaveRefused(p) \/ Crash(p)
  <2>1. Gone(p) /\ UNCHANGED <<now, lease, generation, freed, failures, status>>
    BY <1>4 DEF MainNotOwner, MainSaveRefused, Crash, store
  <2>2. TypeOK'
    BY <1>0, <2>1, GoneTypes DEF TypeOK
  <2> QED
    BY <2>1, <2>2, GoneCopies
<1>5. CASE MainPut(p)
  <2>1. Gone(p) /\ UNCHANGED <<now, lease, generation, freed>>
        /\ status'.what = snap[p]["main"]
    BY <1>5 DEF MainPut, Saved
  <2>2. ~MainRelease(p)
    BY <1>5 DEF MainPut, MainRelease
  <2> QED
    BY <1>0, <2>1, <2>2, GoneCopies
<1>6. CASE MainLoad(p)
  <2>1. UNCHANGED <<now, lease, generation, freed, status, got, snap>>
    BY <1>6 DEF MainLoad, store
  <2>2. latest' = [latest EXCEPT ![p] = [latest[p] EXCEPT !.owner = lease, !.lost = FALSE]]
        /\ myLease' = [myLease EXCEPT ![p] = Claim(lease)]
    BY <1>6 DEF MainLoad
  <2>3. [latest[p] EXCEPT !.owner = lease, !.lost = FALSE].owner = lease /\ lease \in Leases
    BY <1>0 DEF TypeOK, Statuses
  <2>4. /\ latest'[p].owner = lease /\ myLease'[p] = Claim(lease)
        /\ \A q \in Procs : q # p => latest'[q] = latest[q] /\ myLease'[q] = myLease[q]
    BY <1>0, <2>2, <2>3 DEF TypeOK
  <2>5. New(latest'[p].owner) /\ New(myLease'[p])
    BY <2>1, <2>3, <2>4, NoLeaseNew DEF New
  <2>6. New(status'.what.owner) /\ \A t \in Threads : New(got'[p][t]) /\ New(snap'[p][t].owner)
    BY <2>1, OldNew
  <2>7. TypeOK' /\ LeaseMoves
    BY <1>0, <1>6, <2>1 DEF MainLoad, MainRelease, LeaseMoves
  <2> QED
    BY <2>1, <2>4, <2>5, <2>6, <2>7, CopyStep
<1>7. CASE MainSave(p)
  <2>1. UNCHANGED <<now, lease, generation, freed, status, got, latest, myLease>>
        /\ snap' = [snap EXCEPT ![p]["main"] = latest[p]]
    BY <1>7 DEF MainSave, store, server
  <2>2. /\ \A q \in Procs : q # p => snap'[q] = snap[q]
        /\ \A t \in Threads : snap'[p][t] = IF t = "main" THEN latest[p] ELSE snap[p][t]
    BY <1>0, <2>1 DEF TypeOK
  <2>3. \A t \in Threads : New(snap'[p][t].owner) /\ New(got'[p][t])
    BY <2>1, <2>2, OldNew
  <2>4. New(latest'[p].owner) /\ New(myLease'[p]) /\ New(status'.what.owner)
    BY <2>1, OldNew
  <2>5. TypeOK' /\ LeaseMoves
    BY <1>0, <1>7, <2>1 DEF MainSave, MainRelease, LeaseMoves
  <2> QED
    BY <2>1, <2>2, <2>3, <2>4, <2>5, CopyStep
<1> QED
  BY <1>1, <1>2, <1>3, <1>4, <1>5, <1>6, <1>7

LEMMA CtlCopies ==
  ASSUME CopyInv, NEW p \in Procs, CtlRound(p) \/ CtlFails(p) \/ CtlReads(p) \/ CtlEnd(p)
  PROVE  CopyInv'
<1>1. TypeOK /\ TypeOK'
  BY CtlTypes DEF CopyInv
<1>2. UNCHANGED <<now, lease, generation, freed, status, got, latest, myLease>> /\ LeaseMoves
  BY DEF CtlRound, CtlFails, CtlReads, CtlEnd, store, server, LeaseMoves
<1>3. CASE CtlReads(p)
  <2>1. snap' = [snap EXCEPT ![p]["ctl"] = latest[p]]
    BY <1>3 DEF CtlReads
  <2>2. /\ \A q \in Procs : q # p => snap'[q] = snap[q]
        /\ \A t \in Threads : snap'[p][t] = IF t = "ctl" THEN latest[p] ELSE snap[p][t]
    BY <1>1, <2>1 DEF TypeOK
  <2>3. \A t \in Threads : New(snap'[p][t].owner) /\ New(got'[p][t])
    BY <1>2, <2>2, OldNew
  <2>4. New(latest'[p].owner) /\ New(myLease'[p]) /\ New(status'.what.owner)
    BY <1>2, OldNew
  <2> QED
    BY <1>1, <1>2, <2>2, <2>3, <2>4, CopyStep
<1>4. CASE CtlRound(p) \/ CtlFails(p) \/ CtlEnd(p)
  <2>1. UNCHANGED snap
    BY <1>4 DEF CtlRound, CtlFails, CtlEnd
  <2> QED
    BY <1>1, <1>2, <2>1, SameCopies
<1> QED
  BY <1>3, <1>4

\* A thread stands before a swap or after it with the lease of its own step, or has
\* stood there.
LEMMA SwapSteps ==
  ASSUME TypeOK, [Next]_vars, NEW q \in Procs, NEW u \in Threads,
         step'[q][u] \in {"swap", "check"}
  PROVE  \/ PublishRenew(q, u) \/ PublishSwap(q, u)
         \/ step[q][u] = step'[q][u] /\ got'[q][u] = got[q][u] /\ since'[q][u] = since[q][u]
<1> DEFINE Same == /\ step[q][u] = step'[q][u] /\ got'[q][u] = got[q][u]
                   /\ since'[q][u] = since[q][u]
<1>0. "ctl" \in Threads /\ "main" \in Threads
  BY DEF Threads
<1>1. CASE Tick \/ UNCHANGED vars
  BY <1>1 DEF Tick, vars, threads
<1>m. ASSUME NEW p \in Procs, NEW t \in Threads, NEW l \in {"lock", "read"}, Goto(p, t, l),
             UNCHANGED <<got, since>>
      PROVE  Same
  BY <1>m DEF Goto, TypeOK
<1>2. ASSUME NEW p \in Procs, NEW t \in Threads, Publishing(p, t)
      PROVE  PublishRenew(q, u) \/ PublishSwap(q, u) \/ Same
  <2>1. CASE PublishLock(p, t)
    BY <2>1 DEF PublishLock, Goto, TypeOK
  <2>2. CASE PublishRenew(p, t)
    BY <2>2 DEF PublishRenew, Reading, Goto, TypeOK
  <2>3. CASE PublishSwap(p, t)
    BY <2>3 DEF PublishSwap, Goto, TypeOK
  <2>4. CASE PublishCheck(p, t)
    BY <2>4 DEF PublishCheck, Goto, TypeOK
  <2>5. ASSUME NEW l \in {"none", "read", "renew"}, LeaveTo(p, t, l) PROVE Same
    BY <2>5 DEF LeaveTo, Goto, TypeOK
  <2>6. CASE PublishAgain(p, t) \/ PublishLost(p, t) \/ PublishPut(p, t)
    BY <2>5, <2>6 DEF PublishAgain, PublishLost, PublishPut, Leave
  <2>7. CASE RenewRaises(p, t) \/ PublishRefused(p, t) \/ PutRaises(p, t)
    <3>1. Raised(p, t)
      BY <2>7 DEF RenewRaises, PublishRefused, PutRaises
    <3> QED
      BY <2>5, <3>1 DEF Raised, Leave
  <2> QED
    BY <1>2, <2>1, <2>2, <2>3, <2>4, <2>6, <2>7 DEF Publishing
<1>3. ASSUME NEW p \in Procs, CtlRound(p) \/ CtlFails(p) \/ CtlReads(p) \/ CtlEnd(p)
      PROVE  Same
  <2>1. CASE CtlEnd(p)
    BY <2>1 DEF CtlEnd
  <2>2. CASE CtlRound(p) \/ CtlFails(p) \/ CtlReads(p)
    <3>1. UNCHANGED <<got, since>> /\ (Goto(p, "ctl", "lock") \/ Goto(p, "ctl", "read"))
      BY <2>2 DEF CtlRound, CtlFails, CtlReads
    <3> QED
      BY <1>m, <1>0, <3>1
  <2> QED
    BY <1>3, <2>1, <2>2
<1>4. ASSUME NEW p \in Procs,
             Acquire(p) \/ MainStart(p) \/ MainBlocked(p) \/ MainStopped(p)
      PROVE  Same
  <2>1. UNCHANGED <<got, since>> /\ Goto(p, "main", "lock")
    BY <1>4 DEF Acquire, Begin, MainStart, MainBlocked, MainStopped, MainPublishes
  <2> QED
    BY <1>m, <1>0, <2>1
<1>5. ASSUME NEW p \in Procs,
             MainEnding(p) \/ MainAborted(p) \/ MainRelease(p) \/ MainLoad(p) \/ MainSave(p)
      PROVE  Same
  BY <1>5 DEF MainEnding, MainAborted, Finish, MainRelease, MainLoad, MainSave, TypeOK
<1>6. ASSUME NEW p \in Procs,
             MainNotOwner(p) \/ MainSaveRefused(p) \/ MainPut(p) \/ Crash(p)
      PROVE  Same
  <2>1. Gone(p)
    BY <1>6 DEF MainNotOwner, MainSaveRefused, MainPut, Crash
  <2> QED
    BY <2>1 DEF Gone, TypeOK
<1> QED
  BY <1>1, <1>2, <1>3, <1>4, <1>5, <1>6 DEF Next, ProcNext

LEMMA SwapStep ==
  ASSUME CopyInv, \A p \in Procs : SwapOK(p), [Next]_vars, now' \in Nat, now <= now'
  PROVE  \A p \in Procs : SwapOK(p)'
<1> SUFFICES ASSUME NEW p \in Procs, NEW t \in Threads, step'[p][t] = "swap"
             PROVE  /\ got'[p][t].owner = OwnerOf[p] /\ ~got'[p][t].released
                    /\ since'[p][t] <= now' /\ got'[p][t].expires <= since'[p][t] + TTL
  BY DEF SwapOK
<1>0. TypeOK /\ now \in Nat
  BY DEF CopyInv, TypeOK
<1>1. CASE PublishRenew(p, t)
  <2>1. got'[p][t] = lease /\ since'[p][t] = now /\ now' = now
    BY <1>0, <1>1 DEF PublishRenew, Reading, TypeOK
  <2>2. lease.owner = OwnerOf[p] /\ ~lease.released /\ lease.expires <= now + TTL
    BY <1>1 DEF PublishRenew, CanRenew, LeaseMatches, LeaseIsActive, CopyInv, LeaseOK
  <2> QED
    BY <1>0, <2>1, <2>2
<1>2. CASE ~PublishRenew(p, t)
  <2>1. step[p][t] = "swap" /\ got'[p][t] = got[p][t] /\ since'[p][t] = since[p][t]
    BY <1>0, <1>2, SwapSteps DEF PublishSwap, Goto, TypeOK
  <2>2. since[p][t] \in Nat
    BY <1>0 DEF TypeOK
  <2> QED
    BY <1>0, <2>1, <2>2 DEF SwapOK
<1> QED
  BY <1>1, <1>2

\* What an invariant of the lease may use of any step.
LEMMA NextMoves == IInv /\ [Next]_vars => LeaseMoves
<1> SUFFICES ASSUME IInv, [Next]_vars PROVE LeaseMoves
  OBVIOUS
<1>1. CASE Tick \/ UNCHANGED vars
  BY <1>1 DEF LeaseMoves, vars, store
<1>2. ASSUME NEW p \in Procs, NEW t \in Threads, Publishing(p, t) PROVE LeaseMoves
  BY <1>2, PublishMoves DEF IInv
<1>3. ASSUME NEW p \in Procs, CtlRound(p) \/ CtlFails(p) \/ CtlReads(p) \/ CtlEnd(p)
      PROVE  LeaseMoves
  BY <1>3 DEF CtlRound, CtlFails, CtlReads, CtlEnd, store, LeaseMoves
<1>4. ASSUME NEW p \in Procs, Acquire(p) \/ MainRelease(p) PROVE LeaseMoves
  BY <1>4 DEF LeaseMoves
<1>5. ASSUME NEW p \in Procs,
             \/ MainStart(p) \/ MainBlocked(p) \/ MainStopped(p) \/ MainEnding(p)
             \/ MainAborted(p) \/ MainNotOwner(p) \/ MainLoad(p) \/ MainSave(p)
             \/ MainSaveRefused(p) \/ MainPut(p) \/ Crash(p)
      PROVE  LeaseMoves
  BY <1>5 DEF MainStart, MainBlocked, MainStopped, MainPublishes, MainEnding, MainAborted, Finish,
              MainNotOwner, MainLoad, MainSave, MainSaveRefused, MainPut, Crash, store, LeaseMoves
<1> QED
  BY <1>1, <1>2, <1>3, <1>4, <1>5 DEF Next, ProcNext

LEMMA StepInv == IInv /\ [Next]_vars => IInv'
<1> SUFFICES ASSUME IInv, [Next]_vars PROVE IInv'
  OBVIOUS
<1>0. CopyInv /\ \A p \in Procs : SwapOK(p)
  BY DEF IInv
<1>1. ASSUME Tick PROVE CopyInv'
  <2>1. now' \in Nat /\ UNCHANGED <<store, threads, server, freed, failures>>
    BY <1>0, <1>1 DEF Tick, CopyInv, TypeOK
  <2>2. TypeOK'
    BY <1>0, <2>1 DEF CopyInv, TypeOK, store, threads, server
  <2> QED
    BY <1>0, <1>1, <2>1, <2>2, SameCopies DEF LeaseMoves, store, threads, server
<1>2. ASSUME UNCHANGED vars PROVE CopyInv'
  <2>1. TypeOK'
    BY <1>0, <1>2 DEF CopyInv, TypeOK, vars, store, threads, server
  <2> QED
    BY <1>0, <1>2, <2>1, SameCopies DEF LeaseMoves, vars, store, threads, server
<1>3. ASSUME NEW p \in Procs, ProcNext(p) PROVE CopyInv'
  BY <1>0, <1>3, PublishCopies, MainCopies, CtlCopies DEF ProcNext
<1>4. CopyInv'
  BY <1>1, <1>2, <1>3 DEF Next
<1>5. now' \in Nat /\ now <= now'
  <2>1. LeaseMoves /\ now \in Nat
    BY <1>0, NextMoves DEF CopyInv, TypeOK
  <2> QED
    BY <2>1 DEF LeaseMoves, Tick, Acquire, Begin, MainRelease, Extended
<1> QED
  BY <1>0, <1>4, <1>5, SwapStep DEF IInv

\* Types, and copies of leases that are covered by the lease in the store.
THEOREM Invariance == Spec => []IInv
<1>1. Init /\ [][Next]_vars => []IInv
  BY InitInv, StepInv, PTL
<1> QED
  BY <1>1, PTL DEF Spec

\* The variables keep their types.
THEOREM TypeCorrect == Spec => []TypeOK
<1>1. IInv => TypeOK
  BY DEF IInv, CopyInv
<1> QED
  BY <1>1, Invariance, PTL

\* An open gate in the store belongs to the holder of the lease or to one who has
\* released it, whoever crashes or writes late.
THEOREM GateMeansHolderHolds == Spec => []GateMeansHolder
<1>1. IInv => GateMeansHolder
  <2> SUFFICES ASSUME IInv, Advertised
               PROVE  \/ lease.token = status.what.owner.token
                      \/ status.what.owner.token \in freed
    BY DEF GateMeansHolder
  <2>1. status.what.owner.expires \in Nat /\ now \in Nat
    BY DEF IInv, CopyInv, TypeOK, Statuses, Leases
  <2>2. ~(status.what.owner.expires <= now)
    BY DEF Advertised, GateOpen, OwnerBlocks
  <2> QED
    BY <2>2 DEF IInv, CopyInv, Cov, Covered
<1> QED
  BY <1>1, Invariance, PTL
-------------------------------------------------------------------------------
(* A lost lease stays lost, where every process has an owner id of its own.   *)

DistinctIds == \A p, q \in Procs : OwnerOf[p] = OwnerOf[q] => p = q

Ended == {"load", "save", "put"}

\* A process that is off does nothing; the lease that a publish has tested or renewed
\* is the one that its process goes by, until the process releases it; after that
\* every lease under its id is released.
OwnOK(p) ==
  /\ main[p] = "off" => ctl[p] = "off" /\ \A t \in Threads : step[p][t] = "none"
  /\ \A t \in Threads : step[p][t] \in {"swap", "check"} /\ main[p] \notin Ended =>
                          got[p][t].token = myLease[p].token
  /\ main[p] \in Ended \cup {"release"} => step[p]["main"] = "none"
  /\ main[p] \in Ended => lease.owner # OwnerOf[p] \/ lease.released

OwnInv == \A p \in Procs : OwnOK(p)

\* What a step does to the lease, for process p: it is left alone, released, or not
\* under the id of p.
NotRevived(p) == lease'.owner = OwnerOf[p] /\ ~lease'.released => lease' = lease

\* Only a renewal that was in time takes a lease under its id, of a process that is on.
LEMMA NoRevival ==
  ASSUME DistinctIds, IInv, [Next]_vars, NEW p \in Procs, main[p] # "off", ~InTime(p)
  PROVE  NotRevived(p)
<1>0. /\ \A q \in Procs : OwnerOf[q] \in OwnerIds /\ (q # p => OwnerOf[q] # OwnerOf[p])
      /\ lease \in Leases /\ now \in Nat /\ TypeOK
  BY DEF DistinctIds, IInv, CopyInv, TypeOK
<1>1. CASE UNCHANGED lease
  BY <1>1 DEF NotRevived
<1>2. ASSUME NEW q \in Procs, Acquire(q) PROVE NotRevived(p)
  <2>1. q # p
    BY <1>2 DEF Acquire
  <2>2. CASE LeaseIsActive(lease, now)
    <3>1. lease.owner = OwnerOf[q] /\ lease' = RenewedLease(lease, now)
      BY <1>2, <2>2 DEF Acquire, Begin
    <3>2. lease'.owner = lease.owner
      BY <1>0, <3>1, NewRecords
    <3> QED
      BY <1>0, <2>1, <3>1, <3>2 DEF NotRevived
  <2>3. CASE ~LeaseIsActive(lease, now)
    <3>1. lease' = NewLease(OwnerOf[q], generation', now)
      BY <1>2, <2>3 DEF Acquire, Begin
    <3>2. lease'.owner = OwnerOf[q]
      BY <3>1 DEF NewLease
    <3> QED
      BY <1>0, <2>1, <3>2 DEF NotRevived
  <2> QED
    BY <2>2, <2>3
<1>3. ASSUME NEW q \in Procs, NEW t \in Threads, Extends(q, t) PROVE NotRevived(p)
  <2>1. step[q][t] = "swap" /\ lease = got[q][t]
    BY <1>3 DEF Extends
  <2>2. q # p
    BY <2>1 DEF InTime
  <2>3. lease.owner = OwnerOf[q]
    BY <2>1 DEF IInv, SwapOK
  <2>4. lease'.owner = lease.owner
    BY <1>0, <1>3, ExtendsTypes
  <2> QED
    BY <1>0, <2>2, <2>3, <2>4 DEF NotRevived
<1>4. ASSUME NEW q \in Procs, MainRelease(q) PROVE NotRevived(p)
  BY <1>0, <1>4, NewRecords DEF MainRelease, NotRevived
<1>5. ASSUME NEW q \in Procs, NEW t \in Threads, Publishing(q, t)
      PROVE  UNCHANGED lease \/ Extends(q, t)
  BY <1>5, Still DEF Publishing, PublishSwap, RenewRaises
<1>6. ASSUME NEW q \in Procs,
             \/ MainStart(q) \/ MainBlocked(q) \/ MainStopped(q) \/ MainEnding(q)
             \/ MainAborted(q) \/ MainNotOwner(q) \/ MainLoad(q) \/ MainSave(q)
             \/ MainSaveRefused(q) \/ MainPut(q) \/ Crash(q)
             \/ CtlRound(q) \/ CtlFails(q) \/ CtlReads(q) \/ CtlEnd(q)
      PROVE  UNCHANGED lease
  BY <1>6 DEF MainStart, MainBlocked, MainStopped, MainEnding, MainAborted, MainPublishes, Finish,
     MainNotOwner, MainLoad, MainSave, MainSaveRefused, MainPut, CtlRound, CtlFails, CtlReads,
     CtlEnd, Crash, store
<1>7. CASE Tick \/ UNCHANGED vars
  BY <1>1, <1>7 DEF Tick, vars, store
<1> QED
  BY <1>1, <1>2, <1>3, <1>4, <1>5, <1>6, <1>7 DEF Next, ProcNext

\* What another process has.
OthersKept(p) ==
  /\ main'[p] = main[p] /\ ctl'[p] = ctl[p] /\ mutex'[p] = mutex[p] /\ step'[p] = step[p]
  /\ plane'[p] = plane[p] /\ got'[p] = got[p] /\ since'[p] = since[p] /\ snap'[p] = snap[p]
  /\ myLease'[p] = myLease[p] /\ latest'[p] = latest[p] /\ (p \in halted' <=> p \in halted)

\* The steps of others leave a process its variables.
LEMMA OthersVariables ==
  ASSUME TypeOK, NEW p \in Procs, NEW q \in Procs, q # p, ProcNext(q)
  PROVE  OthersKept(p)
<1>1. ASSUME NEW t \in Threads, Publishing(q, t) PROVE OthersKept(p)
  <2>1. CASE PublishLock(q, t)
    <3>1. PICK s : latest' = [latest EXCEPT ![q] = s]
      BY <2>1 DEF PublishLock
    <3> QED
      BY <2>1, <3>1 DEF PublishLock, Halting, Goto, TypeOK, OthersKept
  <2>2. CASE PublishRenew(q, t) \/ PublishSwap(q, t)
    BY <2>2 DEF PublishRenew, Reading, PublishSwap, Goto, server, TypeOK, OthersKept
  <2>3. CASE PublishCheck(q, t)
    BY <2>3 DEF PublishCheck, Goto, TypeOK, OthersKept
  <2>4. ASSUME NEW l \in Steps, LeaveTo(q, t, l)
        PROVE  /\ step'[p] = step[p] /\ plane'[p] = plane[p] /\ got'[p] = got[p]
               /\ since'[p] = since[p] /\ snap'[p] = snap[p]
    BY <2>4 DEF LeaveTo, Goto, TypeOK
  <2>5. CASE PublishAgain(q, t)
    BY <2>4, <2>5 DEF PublishAgain, server, OthersKept
  <2>6. CASE PublishLost(q, t)
    BY <2>4, <2>6 DEF PublishLost, Leave, Unlock, TypeOK, OthersKept
  <2>7. CASE PublishPut(q, t)
    BY <2>4, <2>7 DEF PublishPut, Leave, Unlock, server, TypeOK, OthersKept
  <2>8. CASE RenewRaises(q, t) \/ PublishRefused(q, t) \/ PutRaises(q, t)
    <3>1. Raised(q, t)
      BY <2>8 DEF RenewRaises, PublishRefused, PutRaises
    <3>2. main'[p] = main[p] /\ ctl'[p] = ctl[p] /\ mutex'[p] = mutex[p]
      BY <3>1 DEF Raised, Unlock, TypeOK
    <3>3. \E l \in Steps : LeaveTo(q, t, l)
      BY <3>1, RaisedTypes
    <3>4. myLease'[p] = myLease[p] /\ latest'[p] = latest[p] /\ halted' = halted
      BY <2>8 DEF RenewRaises, PublishRefused, PutRaises, server, TypeOK
    <3> QED
      BY <2>4, <3>2, <3>3, <3>4 DEF OthersKept
  <2> QED
    BY <1>1, <2>1, <2>2, <2>3, <2>5, <2>6, <2>7, <2>8 DEF Publishing
<1>2. CASE Acquire(q)
  BY <1>2 DEF Acquire, Begin, Goto, TypeOK, OthersKept
<1>3. CASE MainStart(q) \/ MainBlocked(q) \/ MainStopped(q)
  BY <1>3 DEF MainStart, MainBlocked, MainStopped, MainPublishes, Goto, server, TypeOK, OthersKept
<1>4. CASE MainEnding(q) \/ MainAborted(q) \/ MainRelease(q) \/ MainLoad(q) \/ MainSave(q)
  BY <1>4 DEF MainEnding, MainAborted, Finish, MainRelease, MainLoad, MainSave, server, TypeOK,
              OthersKept
<1>5. CASE MainNotOwner(q) \/ MainSaveRefused(q) \/ MainPut(q) \/ Crash(q)
  <2>1. Gone(q)
    BY <1>5 DEF MainNotOwner, MainSaveRefused, MainPut, Crash
  <2> QED
    BY <2>1 DEF Gone, TypeOK, OthersKept
<1>6. CASE CtlRound(q) \/ CtlFails(q) \/ CtlReads(q) \/ CtlEnd(q)
  BY <1>6 DEF CtlRound, CtlFails, CtlReads, CtlEnd, Goto, server, TypeOK, OthersKept
<1> QED
  BY <1>1, <1>2, <1>3, <1>4, <1>5, <1>6 DEF ProcNext

\* What the own steps of a process do to where it is and to its token.
OwnMove(p) ==
  /\ main'[p] = "off" => ctl'[p] = "off" /\ \A t \in Threads : step'[p][t] = "none"
  /\ main'[p] \in Ended \cup {"release"} => step'[p]["main"] = "none"
  /\ main'[p] \in Ended => main[p] \in Ended \/ MainRelease(p)
  /\ main[p] \in Ended => main'[p] \in Ended \cup {"off"}
  /\ main[p] \notin Ended \cup {"off"} /\ main'[p] # "off" =>
       myLease'[p].token = myLease[p].token

LEMMA OwnStep ==
  ASSUME TypeOK, NEW p \in Procs, OwnOK(p), ProcNext(p)
  PROVE  OwnMove(p)
<1>0. "main" \in Threads /\ "ctl" \in Threads
  BY DEF Threads
<1>1. ASSUME NEW t \in Threads, Publishing(p, t) PROVE OwnMove(p)
  <2>1. /\ step[p][t] # "none" /\ main[p] # "off"
        /\ t = "main" => main[p] \notin Ended \cup {"release"}
    BY <1>1 DEF Publishing, PublishLock, PublishRenew, PublishSwap, Extends, PublishAgain, SwapFails,
       PublishLost, RenewRaises, PublishCheck, PublishRefused, PublishPut, PutRaises, OwnOK
  <2>2. ASSUME NEW l \in Steps, Goto(p, t, l), UNCHANGED main,
               main[p] \in Ended \/ myLease'[p].token = myLease[p].token
        PROVE  OwnMove(p)
    <3>1. \A u \in Threads : u # t => step'[p][u] = step[p][u]
      BY <2>2 DEF Goto, TypeOK
    <3> QED
      BY <1>0, <2>1, <2>2, <3>1 DEF OwnOK, OwnMove
  <2>3. CASE PublishLock(p, t) \/ PublishRenew(p, t) \/ PublishSwap(p, t)
    BY <2>2, <2>3 DEF PublishLock, PublishRenew, Reading, PublishSwap, server
  <2>4. CASE PublishAgain(p, t) \/ PublishLost(p, t) \/ PublishPut(p, t)
    BY <2>2, <2>4 DEF PublishAgain, PublishLost, PublishPut, LeaveTo, Leave, server
  <2>5. ASSUME step[p][t] = "check", myLease' = [myLease EXCEPT ![p] = Claim(got[p][t])]
        PROVE  main[p] \in Ended \/ myLease'[p].token = myLease[p].token
    <3>1. got[p][t] \in Leases
      BY DEF TypeOK
    <3>2. myLease'[p].token = got[p][t].token
      BY <2>5, <3>1, Records DEF TypeOK
    <3> QED
      BY <2>5, <3>2 DEF OwnOK
  <2>6. CASE PublishCheck(p, t)
    BY <2>2, <2>5, <2>6 DEF PublishCheck
  <2>7. CASE RenewRaises(p, t) \/ PublishRefused(p, t) \/ PutRaises(p, t)
    <3>1. Raised(p, t)
      BY <2>7 DEF RenewRaises, PublishRefused, PutRaises
    <3>2. main[p] \in Ended \/ myLease'[p].token = myLease[p].token
      BY <2>5, <2>7 DEF RenewRaises, PublishRefused, PutRaises, server
    <3>3. CASE t = "ctl"
      <4>1. \E l \in Steps : Goto(p, t, l)
        BY <3>1, RaisedTypes DEF LeaveTo
      <4>2. UNCHANGED main
        BY <3>1, <3>3 DEF Raised
      <4> QED
        BY <2>2, <3>2, <4>1, <4>2
    <3>4. CASE t = "main"
      <4>1. main'[p] = "release" /\ step'[p]["main"] = "none"
        BY <3>1, <3>4 DEF Raised, Leave, LeaveTo, Goto, TypeOK
      <4> QED
        BY <2>1, <3>2, <3>4, <4>1 DEF OwnMove, Ended
    <3> QED
      BY <3>3, <3>4 DEF Threads
  <2> QED
    BY <1>1, <2>3, <2>4, <2>6, <2>7 DEF Publishing
<1>2. CASE Acquire(p)
  <2>1. main[p] = "off" /\ main'[p] = "initial"
    BY <1>2 DEF Acquire, Begin, TypeOK
  <2> QED
    BY <2>1 DEF OwnMove, Ended
<1>3. CASE MainStart(p) \/ MainBlocked(p) \/ MainStopped(p)
  <2>1. main'[p] \in {"serving", "ending"} /\ UNCHANGED myLease /\ main[p] \notin Ended
    BY <1>3 DEF MainStart, MainBlocked, MainStopped, MainPublishes, server, TypeOK, Ended
  <2> QED
    BY <2>1 DEF OwnMove, Ended
<1>4. CASE MainEnding(p) \/ MainAborted(p)
  <2>1. /\ main'[p] = "release" /\ UNCHANGED <<myLease, step>>
        /\ step[p]["main"] = "none" /\ main[p] \notin Ended
    BY <1>4 DEF MainEnding, MainAborted, Idle, Finish, server, TypeOK, Ended
  <2> QED
    BY <2>1 DEF OwnMove, Ended
<1>5. CASE MainNotOwner(p) \/ MainSaveRefused(p) \/ MainPut(p) \/ Crash(p)
  <2>1. Gone(p)
    BY <1>5 DEF MainNotOwner, MainSaveRefused, MainPut, Crash
  <2>2. main'[p] = "off" /\ ctl'[p] = "off" /\ \A t \in Threads : step'[p][t] = "none"
    BY <2>1 DEF Gone, TypeOK
  <2> QED
    BY <2>2 DEF OwnMove, Ended
<1>6. CASE MainRelease(p)
  <2>1. main'[p] = "load" /\ main[p] = "release" /\ UNCHANGED <<step, myLease>>
    BY <1>6 DEF MainRelease, server, TypeOK
  <2> QED
    BY <1>6, <2>1 DEF OwnOK, OwnMove, Ended
<1>7. CASE MainLoad(p) \/ MainSave(p)
  <2>1. main'[p] \in Ended /\ main[p] \in Ended /\ UNCHANGED step
    BY <1>7 DEF MainLoad, MainSave, TypeOK, Ended
  <2> QED
    BY <2>1 DEF OwnOK, OwnMove, Ended
<1>8. CASE CtlRound(p) \/ CtlFails(p) \/ CtlReads(p)
  <2>1. /\ UNCHANGED <<main, myLease>> /\ main[p] # "off"
        /\ step'[p]["main"] = step[p]["main"]
    BY <1>0, <1>8 DEF CtlRound, CtlFails, CtlReads, Goto, server, TypeOK, OwnOK
  <2> QED
    BY <2>1 DEF OwnOK, OwnMove
<1>9. CASE CtlEnd(p)
  <2>1. UNCHANGED <<main, myLease, step>> /\ ctl'[p] = "off"
    BY <1>9 DEF CtlEnd, server, TypeOK
  <2> QED
    BY <2>1 DEF OwnOK, OwnMove
<1> QED
  BY <1>1, <1>2, <1>3, <1>4, <1>5, <1>6, <1>7, <1>8, <1>9 DEF ProcNext

LEMMA AnyMove ==
  ASSUME TypeOK, NEW p \in Procs, OwnOK(p), [Next]_vars
  PROVE  OwnMove(p)
<1>1. ASSUME NEW q \in Procs, ProcNext(q), q # p PROVE OwnMove(p)
  BY <1>1, OthersVariables DEF OthersKept, OwnOK, OwnMove
<1>2. CASE Tick \/ UNCHANGED vars
  BY <1>2 DEF Tick, vars, threads, server, OwnOK, OwnMove
<1> QED
  BY <1>1, <1>2, OwnStep DEF Next

LEMMA OwnInit == Init => OwnInv
BY DEF Init, OwnInv, OwnOK, Ended

\* A step keeps OwnInv.
LEMMA OwnNext ==
  ASSUME DistinctIds, IInv, OwnInv, [Next]_vars
  PROVE  OwnInv'
<1> SUFFICES ASSUME NEW p \in Procs PROVE OwnOK(p)'
  BY DEF OwnInv
<1>0. TypeOK /\ OwnOK(p) /\ SwapOK(p) /\ lease \in Leases
  BY DEF IInv, CopyInv, TypeOK, OwnInv
<1>1. OwnMove(p)
  BY <1>0, AnyMove
<1>2. main'[p] \in Ended => lease'.owner # OwnerOf[p] \/ lease'.released
  <2>1. CASE main[p] \in Ended
    <3>1. lease.owner # OwnerOf[p] \/ lease.released
      BY <1>0, <2>1 DEF OwnOK
    <3>2. ~InTime(p) /\ main[p] # "off"
      BY <1>0, <2>1, <3>1 DEF InTime, SwapOK, Ended
    <3> QED
      BY <3>1, <3>2, NoRevival DEF NotRevived
  <2>2. CASE MainRelease(p)
    BY <1>0, <2>2, NewRecords DEF MainRelease, TypeOK
  <2> QED
    BY <1>1, <2>1, <2>2 DEF OwnMove
<1>3. ASSUME NEW t \in Threads, step'[p][t] \in {"swap", "check"}, main'[p] \notin Ended
      PROVE  got'[p][t].token = myLease'[p].token
  <2>1. main'[p] # "off" /\ main[p] \notin Ended
    BY <1>1, <1>3 DEF OwnMove
  <2>2. CASE PublishRenew(p, t)
    <3>1. got'[p][t] = lease /\ UNCHANGED myLease /\ lease.token = myLease[p].token
      BY <1>0, <2>2 DEF PublishRenew, Reading, CanRenew, LeaseMatches, server, TypeOK
    <3> QED
      BY <3>1
  <2>3. CASE PublishSwap(p, t)
    <3>1. lease = got[p][t] /\ step[p][t] = "swap" /\ UNCHANGED myLease /\ got'[p][t] = lease'
      BY <1>0, <2>3 DEF PublishSwap, Extends, server, TypeOK
    <3>2. lease'.token = lease.token
      BY <1>0, <2>3, ExtendsTypes DEF PublishSwap
    <3> QED
      BY <1>0, <2>1, <3>1, <3>2 DEF OwnOK
  <2>4. CASE step[p][t] = step'[p][t] /\ got'[p][t] = got[p][t]
    <3>1. got[p][t].token = myLease[p].token /\ main[p] # "off"
      BY <1>0, <1>3, <2>1, <2>4 DEF OwnOK
    <3> QED
      BY <1>1, <2>1, <2>4, <3>1 DEF OwnMove
  <2> QED
    BY <1>0, <1>3, <2>2, <2>3, <2>4, SwapSteps
<1> QED
  BY <1>1, <1>2, <1>3 DEF OwnOK, OwnMove

\* A process that stays on does not get a lost lease back.
LEMMA LostStep ==
  ASSUME DistinctIds, IInv, OwnInv, [Next]_vars, NEW p \in Procs,
         main[p] # "off", main'[p] # "off", Lost(p)
  PROVE  Lost(p)'
<1>0. TypeOK /\ OwnOK(p) /\ SwapOK(p) /\ ~CanRenew(p) /\ ~InTime(p)
  BY DEF IInv, CopyInv, OwnInv, Lost
<1>1. NotRevived(p) /\ OwnMove(p)
  BY <1>0, NoRevival, AnyMove
<1>2. now <= now' /\ now \in Nat /\ now' \in Nat /\ lease.expires \in Nat
  <2>1. LeaseMoves /\ now \in Nat /\ lease.expires \in Nat
    BY <1>0, NextMoves DEF TypeOK, Leases
  <2> QED
    BY <2>1 DEF LeaseMoves, Tick, Acquire, Begin, MainRelease, Extended
<1>3. ~InTime(p)'
  <2> SUFFICES ASSUME NEW t \in Threads, step'[p][t] = "swap", lease' = got'[p][t] PROVE FALSE
    BY DEF InTime
  <2>1. ~PublishRenew(p, t) /\ ~PublishSwap(p, t)
    BY <1>0 DEF PublishRenew, PublishSwap, Extends, InTime
  <2>2. step[p][t] = "swap" /\ lease' = got[p][t]
    BY <1>0, <2>1, SwapSteps
  <2>3. lease' = lease
    BY <1>0, <1>1, <2>2 DEF SwapOK, NotRevived
  <2> QED
    BY <1>0, <2>2, <2>3 DEF InTime
<1>4. ~CanRenew(p)'
  <2> SUFFICES ASSUME lease'.owner = OwnerOf[p], lease'.token = myLease'[p].token,
                      LeaseIsActive(lease', now'), lease' # NoLease
               PROVE  FALSE
    BY DEF CanRenew, LeaseMatches
  <2>1. lease' = lease
    BY <1>1 DEF NotRevived, LeaseIsActive
  <2>2. main[p] \notin Ended
    BY <1>0, <2>1 DEF OwnOK, LeaseIsActive
  <2>3. myLease'[p].token = myLease[p].token
    BY <1>1, <2>2 DEF OwnMove
  <2>4. LeaseIsActive(lease, now)
    BY <1>2, <2>1 DEF LeaseIsActive
  <2> QED
    BY <1>0, <2>1, <2>3, <2>4 DEF CanRenew, LeaseMatches
<1> QED
  BY <1>3, <1>4 DEF Lost

\* The invariant of a process and its claim, where no other uses its owner id.
THEOREM OwnInvariance == DistinctIds => (Spec => []OwnInv)
<1>1. ASSUME DistinctIds PROVE Spec => []OwnInv
  <2>1. IInv /\ OwnInv /\ [Next]_vars => OwnInv'
    BY <1>1, OwnNext
  <2>2. Init => OwnInv
    BY OwnInit
  <2> QED
    BY <2>1, <2>2, Invariance, PTL DEF Spec
<1> QED
  BY <1>1

\* A process that has lost its lease, and has no renewal left that was in time, never
\* has it again, if no other uses its owner id.
THEOREM LossIsFinalHolds == DistinctIds => (Spec => LossIsFinal)
<1>1. ASSUME DistinctIds PROVE Spec => LossIsFinal
  <2>1. IInv /\ OwnInv /\ [Next]_vars =>
          [\A p \in Procs : main[p] # "off" /\ main'[p] # "off" /\ Lost(p) => Lost(p)']_vars
    BY <1>1, LostStep
  <2>2. Spec => []OwnInv
    BY <1>1, OwnInvariance
  <2> QED
    BY <2>1, <2>2, Invariance, PTL DEF Spec, LossIsFinal
<1> QED
  BY <1>1
-------------------------------------------------------------------------------
(* Once its stop is told, nothing that a process still saves opens the gate.  *)

Quiet(s) == s.plane = "stopped" \/ ~s.ok

Locked == {"renew", "swap", "check", "put"}

\* Only the thread that has the lock is inside a publish, and what it puts is of the
\* latest status; a process that is off, or shutting down, publishes nothing by its
\* main thread.
LockOK(p) ==
  /\ \A t \in Threads : step[p][t] \in Locked => mutex[p] = t
  /\ \A t \in Threads : step[p][t] = "put" => /\ snap[p][t].plane = latest[p].plane
                                              /\ snap[p][t].ok = latest[p].ok
  /\ ctl[p] = "off" => step[p]["ctl"] = "none"
  /\ main[p] = "off" => ctl[p] = "off"
  /\ main[p] \in Ended \cup {"release", "off"} => step[p]["main"] = "none"
  /\ plane[p] = "stopped" => main[p] = "ending" /\ step[p]["main"] # "none"

\* After the stop the latest status is a stopped one, or the unhealthy one of a
\* controller thread that has failed and makes no other.
HaltOK(p) ==
  p \in halted =>
    /\ main[p] \in Ended \cup {"ending", "release"} /\ step[p]["main"] # "lock"
    /\ latest[p].plane = "stopped" \/ (~latest[p].ok /\ ctl[p] # "on")
    /\ main[p] = "put" => Quiet(snap[p]["main"])

HaltInv == \A p \in Procs : LockOK(p) /\ HaltOK(p)

LEMMA HaltInit == Init => HaltInv
BY DEF Init, HaltInv, LockOK, HaltOK, Locked, Threads

\* A thread that leaves a publish, and has not changed what the latest status says.
LEMMA HaltLeaves ==
  ASSUME TypeOK, NEW p \in Procs, LockOK(p), HaltOK(p), NEW t \in Threads,
         step[p][t] \in Locked, NEW l \in {"none", "read"}, LeaveTo(p, t, l), Unlock(p),
         l = "none" \/ t = "ctl",
         latest'[p].plane = latest[p].plane, latest'[p].ok = latest[p].ok,
         main'[p] = main[p] \/ (t = "main" /\ main'[p] = "release"),
         ctl'[p] = ctl[p] \/ (ctl[p] = "on" /\ ctl'[p] = "failing"),
         UNCHANGED halted
  PROVE  LockOK(p)' /\ HaltOK(p)'
<1>1. "main" \in Threads /\ "ctl" \in Threads /\ Threads = {"main", "ctl"}
  BY DEF Threads
<1>2. /\ \A u \in Threads : step'[p][u] = IF u = t THEN l ELSE step[p][u]
      /\ \A u \in Threads : u # t => snap'[p][u] = snap[p][u]
      /\ plane'[p] = IF t = "main" THEN "keep" ELSE plane[p]
      /\ mutex'[p] = "free"
  BY DEF LeaveTo, Goto, Unlock, TypeOK
<1>3. \A u \in Threads : u # t => step[p][u] \notin Locked
  BY DEF LockOK
<1>4. \A u \in Threads : step'[p][u] \notin Locked
  BY <1>2, <1>3 DEF Locked
<1>5. /\ t = "main" => main[p] \notin Ended \cup {"release", "off"}
      /\ main[p] # "off"
      /\ ctl'[p] = "off" => ctl[p] = "off"
  BY <1>1 DEF LockOK, Locked
<1>6. t = "main" => step'[p]["main"] = "none" /\ plane'[p] = "keep"
  BY <1>2
<1>7. LockOK(p)'
  <2>1. ctl'[p] = "off" => step'[p]["ctl"] = "none"
    BY <1>1, <1>2, <1>5 DEF LockOK, Locked
  <2>2. main'[p] # "off"
    BY <1>5
  <2>3. main'[p] \in Ended \cup {"release", "off"} => step'[p]["main"] = "none"
    BY <1>1, <1>2, <1>6 DEF LockOK
  <2>4. plane'[p] = "stopped" => main'[p] = "ending" /\ step'[p]["main"] # "none"
    BY <1>1, <1>2, <1>6 DEF LockOK
  <2> QED
    BY <1>4, <2>1, <2>2, <2>3, <2>4 DEF LockOK, Locked
<1>8. HaltOK(p)'
  <2> SUFFICES ASSUME p \in halted
               PROVE  /\ main'[p] \in Ended \cup {"ending", "release"} /\ step'[p]["main"] # "lock"
                      /\ latest'[p].plane = "stopped" \/ (~latest'[p].ok /\ ctl'[p] # "on")
                      /\ main'[p] = "put" => Quiet(snap'[p]["main"])
    BY DEF HaltOK
  <2>1. main'[p] \in Ended \cup {"ending", "release"} /\ step'[p]["main"] # "lock"
    BY <1>1, <1>2 DEF HaltOK
  <2>2. latest'[p].plane = "stopped" \/ (~latest'[p].ok /\ ctl'[p] # "on")
    BY DEF HaltOK
  <2>3. main'[p] = "put" => Quiet(snap'[p]["main"])
    BY <1>1, <1>2, <1>5 DEF HaltOK, Ended
  <2> QED
    BY <2>1, <2>2, <2>3
<1> QED
  BY <1>7, <1>8

\* A thread goes on inside its publish.
LEMMA HaltGoesOn ==
  ASSUME TypeOK, NEW p \in Procs, LockOK(p), HaltOK(p), NEW t \in Threads,
         step[p][t] \in Locked, NEW l \in Locked, Goto(p, t, l),
         latest'[p].plane = latest[p].plane, latest'[p].ok = latest[p].ok,
         \A u \in Threads : u # t => snap'[p][u] = snap[p][u],
         l = "put" => snap'[p][t] = latest'[p],
         plane'[p] \in {plane[p], "keep"},
         UNCHANGED <<main, ctl, mutex, halted>>
  PROVE  LockOK(p)' /\ HaltOK(p)'
<1>1. "main" \in Threads /\ "ctl" \in Threads /\ Threads = {"main", "ctl"}
  BY DEF Threads
<1>2. \A u \in Threads : step'[p][u] = IF u = t THEN l ELSE step[p][u]
  BY DEF Goto, TypeOK
<1>3. \A u \in Threads : u # t => step[p][u] \notin Locked
  BY DEF LockOK
<1>4. mutex[p] = t /\ l # "none" /\ l # "lock"
  BY DEF LockOK, Locked
<1>5. t = "main" => main[p] \notin Ended \cup {"release", "off"}
  BY DEF LockOK, Locked
<1>6. t = "ctl" => ctl[p] # "off"
  BY DEF LockOK, Locked
<1>7. LockOK(p)'
  <2>1. \A u \in Threads : step'[p][u] \in Locked => mutex'[p] = u
    BY <1>2, <1>3, <1>4
  <2>2. \A u \in Threads : step'[p][u] = "put" => /\ snap'[p][u].plane = latest'[p].plane
                                                  /\ snap'[p][u].ok = latest'[p].ok
    BY <1>2, <1>3 DEF Locked
  <2>3. ctl[p] = "off" => step'[p]["ctl"] = "none"
    BY <1>1, <1>2, <1>6 DEF LockOK
  <2>4. main[p] \in Ended \cup {"release", "off"} => step'[p]["main"] = "none"
    BY <1>1, <1>2, <1>5 DEF LockOK
  <2>5. plane'[p] = "stopped" => main[p] = "ending" /\ step'[p]["main"] # "none"
    BY <1>1, <1>2, <1>4 DEF LockOK
  <2> QED
    BY <2>1, <2>2, <2>3, <2>4, <2>5 DEF LockOK
<1>8. HaltOK(p)'
  BY <1>1, <1>2, <1>4, <1>5 DEF HaltOK, Ended
<1> QED
  BY <1>7, <1>8

\* What an update makes of a status.
LEMMA UpdateQuiet ==
  ASSUME TypeOK, NEW p \in Procs, NEW t \in Threads, NEW s \in Updated(p, t)
  PROVE  /\ t = "main" /\ plane[p] = "stopped" => s.plane = "stopped"
         /\ t = "ctl" /\ ctl[p] = "failing" => ~s.ok
         /\ t = "ctl" /\ ctl[p] # "failing" => s.plane = latest[p].plane
<1>1. latest[p] \in Statuses /\ snap[p]["ctl"] \in Statuses
  BY DEF TypeOK, Threads
<1>2. CASE t = "main" /\ plane[p] # "keep"
  <2>1. \E n : s = [latest[p] EXCEPT !.plane = plane[p], !.beat = n]
    BY <1>2 DEF Updated, WithRuntime
  <2> QED
    BY <1>1, <1>2, <2>1 DEF Statuses
<1>3. CASE t = "ctl" /\ ctl[p] = "failing"
  <2>1. \E pl, n : s = [snap[p]["ctl"] EXCEPT !.ok = FALSE, !.plane = pl, !.beat = n]
    BY <1>3 DEF Updated, Failed
  <2> QED
    BY <1>1, <1>3, <2>1 DEF Statuses
<1>4. CASE ~(t = "main" /\ plane[p] # "keep") /\ ~(t = "ctl" /\ ctl[p] = "failing")
  <2>1. \E h, n : s = [latest[p] EXCEPT !.owner = NoLease, !.lost = FALSE, !.ok = h, !.beat = n]
    BY <1>4 DEF Updated, Reconciled
  <2> QED
    BY <1>1, <1>4, <2>1 DEF Statuses
<1> QED
  BY <1>2, <1>3, <1>4

LEMMA HaltLock ==
  ASSUME TypeOK, NEW p \in Procs, LockOK(p), HaltOK(p), NEW t \in Threads, PublishLock(p, t)
  PROVE  LockOK(p)' /\ HaltOK(p)'
<1>1. "main" \in Threads /\ "ctl" \in Threads /\ Threads = {"main", "ctl"}
  BY DEF Threads
<1>2. PICK s \in Updated(p, t) : latest' = [latest EXCEPT ![p] = s]
  BY DEF PublishLock
<1>3. /\ step[p][t] = "lock" /\ mutex[p] = "free" /\ mutex'[p] = t /\ latest'[p] = s
      /\ \A u \in Threads : step'[p][u] = IF u = t THEN "renew" ELSE step[p][u]
      /\ \A u \in Threads : u # t => snap'[p][u] = snap[p][u]
      /\ UNCHANGED <<main, ctl, plane>>
  BY <1>2 DEF PublishLock, Goto, TypeOK
<1>4. \A u \in Threads : step[p][u] \notin Locked
  BY <1>1, <1>3 DEF LockOK
<1>5. /\ t = "main" => main[p] \notin Ended \cup {"release", "off"}
      /\ t = "ctl" => ctl[p] # "off"
  BY <1>3 DEF LockOK
<1>6. LockOK(p)'
  <2>1. \A u \in Threads : step'[p][u] \in Locked => mutex'[p] = u
    BY <1>3, <1>4
  <2>2. \A u \in Threads : step'[p][u] # "put"
    BY <1>3, <1>4 DEF Locked
  <2>3. ctl[p] = "off" => step'[p]["ctl"] = "none"
    BY <1>1, <1>3, <1>5 DEF LockOK
  <2>4. main[p] \in Ended \cup {"release", "off"} => step'[p]["main"] = "none"
    BY <1>1, <1>3, <1>5 DEF LockOK
  <2>5. plane[p] = "stopped" => main[p] = "ending" /\ step'[p]["main"] # "none"
    BY <1>1, <1>3 DEF LockOK
  <2> QED
    BY <1>3, <2>1, <2>2, <2>3, <2>4, <2>5 DEF LockOK
<1>7. HaltOK(p)'
  <2> SUFFICES ASSUME p \in halted'
               PROVE  /\ main[p] \in Ended \cup {"ending", "release"} /\ step'[p]["main"] # "lock"
                      /\ s.plane = "stopped" \/ (~s.ok /\ ctl[p] # "on")
                      /\ main[p] = "put" => Quiet(snap'[p]["main"])
    BY <1>3 DEF HaltOK
  <2>1. CASE t = "main"
    <3>1. p \notin halted
      BY <1>3, <2>1 DEF HaltOK
    <3>2. plane[p] = "stopped"
      BY <2>1, <3>1 DEF PublishLock, Halting
    <3>3. main[p] = "ending" /\ s.plane = "stopped"
      BY <2>1, <3>2, UpdateQuiet DEF LockOK
    <3> QED
      BY <1>3, <2>1, <3>3
  <2>2. CASE t = "ctl"
    <3>1. p \in halted /\ step'[p]["main"] = step[p]["main"] /\ snap'[p]["main"] = snap[p]["main"]
      BY <1>1, <1>3, <2>2 DEF PublishLock, Halting
    <3>2. s.plane = "stopped" \/ (~s.ok /\ ctl[p] # "on")
      <4>1. ctl[p] \in {"on", "failing"}
        BY <1>5, <2>2 DEF TypeOK
      <4> QED
        BY <2>2, <3>1, <4>1, UpdateQuiet DEF HaltOK
    <3> QED
      BY <3>1, <3>2 DEF HaltOK
  <2> QED
    BY <1>1, <2>1, <2>2
<1> QED
  BY <1>6, <1>7

\* What the owner part of a status is does not matter here.
LEMMA HaltOwner ==
  ASSUME TypeOK, NEW p \in Procs, NEW l, NEW b
  PROVE  LET s == [latest[p] EXCEPT !.owner = l, !.lost = b]
         IN  s.plane = latest[p].plane /\ s.ok = latest[p].ok
BY DEF TypeOK, Statuses

LEMMA HaltPublish ==
  ASSUME TypeOK, NEW p \in Procs, LockOK(p), HaltOK(p), NEW t \in Threads, Publishing(p, t)
  PROVE  LockOK(p)' /\ HaltOK(p)'
<1>1. CASE PublishLock(p, t)
  BY <1>1, HaltLock
<1>2. CASE PublishRenew(p, t) \/ PublishSwap(p, t)
  <2>1. PICK l \in Locked : Goto(p, t, l) /\ l # "put"
    BY <1>2 DEF PublishRenew, Reading, PublishSwap, Locked
  <2>2. /\ step[p][t] \in Locked /\ UNCHANGED <<main, ctl, mutex, plane, snap, latest, halted>>
    BY <1>2 DEF PublishRenew, Reading, PublishSwap, Extends, server, Locked
  <2> QED
    BY <2>1, <2>2, HaltGoesOn
<1>3. CASE PublishAgain(p, t)
  <2>1. /\ step[p][t] \in Locked /\ Goto(p, t, "renew") /\ plane'[p] \in {plane[p], "keep"}
        /\ UNCHANGED <<main, ctl, mutex, latest, halted>>
        /\ \A u \in Threads : u # t => snap'[p][u] = snap[p][u]
    BY <1>3 DEF PublishAgain, SwapFails, LeaveTo, server, Locked, TypeOK
  <2> QED
    BY <2>1, HaltGoesOn DEF Locked
<1>4. CASE PublishLost(p, t)
  <2>1. /\ step[p][t] \in Locked /\ LeaveTo(p, t, "none") /\ Unlock(p)
        /\ UNCHANGED <<main, ctl, halted>>
        /\ latest'[p] = [latest[p] EXCEPT !.owner = myLease[p], !.lost = TRUE]
    BY <1>4 DEF PublishLost, SwapFails, Leave, Locked, TypeOK
  <2>2. latest'[p].plane = latest[p].plane /\ latest'[p].ok = latest[p].ok
    BY <2>1, HaltOwner
  <2> QED
    BY <2>1, <2>2, HaltLeaves
<1>5. ASSUME latest' = [latest EXCEPT ![p] = Noted(p, t)]
      PROVE  /\ latest'[p].plane = latest[p].plane /\ latest'[p].ok = latest[p].ok
             /\ latest'[p] = Noted(p, t)
  <2>1. latest'[p] = [latest[p] EXCEPT !.owner = got[p][t], !.lost = FALSE]
    BY <1>5 DEF Noted, TypeOK
  <2> QED
    BY <2>1, HaltOwner DEF Noted
<1>6. CASE PublishCheck(p, t)
  <2>1. /\ step[p][t] \in Locked /\ Goto(p, t, "put")
        /\ UNCHANGED <<main, ctl, mutex, plane, halted>>
        /\ latest' = [latest EXCEPT ![p] = Noted(p, t)]
        /\ \A u \in Threads : snap'[p][u] = IF u = t THEN Noted(p, t) ELSE snap[p][u]
    BY <1>6 DEF PublishCheck, Locked, TypeOK
  <2> QED
    BY <1>5, <2>1, HaltGoesOn DEF Locked
<1>7. CASE PublishPut(p, t)
  <2>1. /\ step[p][t] \in Locked /\ LeaveTo(p, t, "none") /\ Unlock(p)
        /\ UNCHANGED <<main, ctl, halted, latest>>
    BY <1>7 DEF PublishPut, Leave, server, Locked
  <2> QED
    BY <2>1, HaltLeaves
<1>8. CASE RenewRaises(p, t) \/ PublishRefused(p, t) \/ PutRaises(p, t)
  <2>1. /\ step[p][t] \in Locked /\ Raised(p, t) /\ UNCHANGED halted
        /\ latest'[p].plane = latest[p].plane /\ latest'[p].ok = latest[p].ok
    BY <1>5, <1>8 DEF RenewRaises, PublishRefused, PutRaises, server, Locked
  <2>2. /\ Unlock(p)
        /\ main'[p] = main[p] \/ (t = "main" /\ main'[p] = "release")
        /\ ctl'[p] = ctl[p] \/ (ctl[p] = "on" /\ ctl'[p] = "failing")
    BY <2>1 DEF Raised, TypeOK
  <2>3. \E l \in {"none", "read"} : LeaveTo(p, t, l) /\ (l = "none" \/ t = "ctl")
    BY <2>1 DEF Raised, Leave
  <2> QED
    BY <2>1, <2>2, <2>3, HaltLeaves
<1> QED
  BY <1>1, <1>2, <1>3, <1>4, <1>6, <1>7, <1>8 DEF Publishing

LEMMA HaltCtl ==
  ASSUME TypeOK, NEW p \in Procs, LockOK(p), HaltOK(p),
         CtlRound(p) \/ CtlFails(p) \/ CtlReads(p) \/ CtlEnd(p)
  PROVE  LockOK(p)' /\ HaltOK(p)'
<1>0. "main" \in Threads /\ "ctl" \in Threads /\ Threads = {"main", "ctl"}
  BY DEF Threads
<1>1. CASE CtlRound(p) \/ CtlFails(p) \/ CtlReads(p)
  <2>1. /\ step'[p]["ctl"] \in {"lock", "read"} /\ step'[p]["main"] = step[p]["main"]
        /\ snap'[p]["main"] = snap[p]["main"] /\ UNCHANGED <<main, mutex, plane, latest, halted>>
        /\ ctl[p] # "off" /\ (ctl'[p] = ctl[p] \/ ctl'[p] = "failing")
    BY <1>0, <1>1 DEF CtlRound, CtlFails, CtlReads, Goto, server, TypeOK, LockOK
  <2>2. LockOK(p)'
    BY <1>0, <2>1 DEF LockOK, Locked
  <2>3. HaltOK(p)'
    BY <2>1 DEF HaltOK
  <2> QED
    BY <2>2, <2>3
<1>2. CASE CtlEnd(p)
  <2>1. /\ UNCHANGED <<step, snap, main, mutex, plane, latest, halted>>
        /\ step[p]["ctl"] = "none" /\ ctl'[p] = "off"
    BY <1>2 DEF CtlEnd, server, TypeOK
  <2> QED
    BY <2>1 DEF LockOK, HaltOK
<1> QED
  BY <1>1, <1>2

LEMMA HaltMain ==
  ASSUME TypeOK, NEW p \in Procs, LockOK(p), HaltOK(p),
         \/ Acquire(p) \/ MainStart(p) \/ MainBlocked(p) \/ MainStopped(p)
         \/ MainEnding(p) \/ MainAborted(p)
         \/ MainRelease(p) \/ MainNotOwner(p) \/ MainLoad(p) \/ MainSave(p)
         \/ MainSaveRefused(p) \/ MainPut(p) \/ Crash(p)
  PROVE  LockOK(p)' /\ HaltOK(p)'
<1>0. "main" \in Threads /\ "ctl" \in Threads /\ Threads = {"main", "ctl"}
  BY DEF Threads
<1>1. CASE Acquire(p)
  <2>1. /\ main[p] = "off" /\ main'[p] = "initial" /\ step'[p]["main"] = "lock"
        /\ step'[p]["ctl"] = step[p]["ctl"] /\ UNCHANGED <<ctl, mutex, plane, snap, halted>>
    BY <1>0, <1>1 DEF Acquire, Begin, Goto, TypeOK
  <2>2. step[p]["ctl"] = "none" /\ p \notin halted
    BY <2>1 DEF LockOK, HaltOK, Ended
  <2> QED
    BY <1>0, <2>1, <2>2 DEF LockOK, HaltOK, Locked, Ended
<1>2. CASE MainStart(p) \/ MainBlocked(p) \/ MainStopped(p)
  <2>1. PICK pl \in Planes, m \in {"serving", "ending"} : MainPublishes(p, pl, m)
        /\ (pl = "stopped" => m = "ending")
    BY <1>2 DEF MainStart, MainBlocked, MainStopped, Planes
  <2>2. /\ main'[p] = m /\ plane'[p] = pl /\ step'[p]["main"] = "lock"
        /\ step'[p]["ctl"] = step[p]["ctl"] /\ UNCHANGED <<mutex, snap, latest, halted>>
    BY <1>0, <2>1 DEF MainPublishes, Goto, server, TypeOK
  <2>3. main[p] \in {"initial", "serving"} /\ ctl'[p] \in {ctl[p], "on"}
    BY <1>2 DEF MainStart, MainBlocked, MainStopped, TypeOK
  <2>4. p \notin halted
    BY <2>3 DEF HaltOK, Ended
  <2>5. LockOK(p)'
    BY <1>0, <2>1, <2>2, <2>3 DEF LockOK, Locked, Ended
  <2> QED
    BY <2>2, <2>4, <2>5 DEF HaltOK
<1>3. CASE MainEnding(p) \/ MainAborted(p) \/ MainRelease(p)
  <2>1. /\ main'[p] \in {"release", "load"} /\ UNCHANGED <<ctl, mutex, step, plane, snap, latest, halted>>
        /\ step[p]["main"] = "none"
    BY <1>3 DEF MainEnding, MainAborted, Idle, Finish, MainRelease, server, TypeOK, LockOK, Ended
  <2> QED
    BY <2>1 DEF LockOK, HaltOK, Ended
<1>4. CASE MainLoad(p)
  <2>1. /\ main[p] = "load" /\ main'[p] = "save" /\ UNCHANGED <<ctl, mutex, step, plane, snap, halted>>
        /\ latest'[p] = [latest[p] EXCEPT !.owner = lease, !.lost = FALSE]
    BY <1>4 DEF MainLoad, TypeOK
  <2>2. latest'[p].plane = latest[p].plane /\ latest'[p].ok = latest[p].ok
    BY <2>1, HaltOwner
  <2> QED
    BY <2>1, <2>2 DEF LockOK, HaltOK, Ended
<1>5. CASE MainSave(p)
  <2>1. /\ main[p] = "save" /\ main'[p] = "put"
        /\ UNCHANGED <<ctl, mutex, step, plane, latest, halted>>
        /\ snap'[p]["main"] = latest[p] /\ snap'[p]["ctl"] = snap[p]["ctl"]
    BY <1>0, <1>5 DEF MainSave, server, TypeOK
  <2>2. step[p]["main"] = "none"
    BY <2>1 DEF LockOK, Ended
  <2>3. LockOK(p)'
    BY <1>0, <2>1, <2>2 DEF LockOK, Ended
  <2>4. HaltOK(p)'
    BY <2>1 DEF HaltOK, Quiet, Ended
  <2> QED
    BY <2>3, <2>4
<1>6. CASE MainNotOwner(p) \/ MainSaveRefused(p) \/ MainPut(p) \/ Crash(p)
  <2>1. Gone(p)
    BY <1>6 DEF MainNotOwner, MainSaveRefused, MainPut, Crash
  <2>2. /\ ctl'[p] = "off" /\ \A t \in Threads : step'[p][t] = "none"
        /\ plane'[p] = "keep" /\ p \notin halted'
    BY <2>1 DEF Gone, TypeOK
  <2> QED
    BY <1>0, <2>2 DEF LockOK, HaltOK, Locked
<1> QED
  BY <1>1, <1>2, <1>3, <1>4, <1>5, <1>6

LEMMA HaltNext ==
  ASSUME TypeOK, HaltInv, [Next]_vars
  PROVE  HaltInv'
<1>1. CASE Tick \/ UNCHANGED vars
  BY <1>1 DEF Tick, vars, threads, server, HaltInv, LockOK, HaltOK
<1>2. ASSUME NEW q \in Procs, ProcNext(q) PROVE HaltInv'
  <2> SUFFICES ASSUME NEW p \in Procs PROVE LockOK(p)' /\ HaltOK(p)'
    BY DEF HaltInv
  <2>0. LockOK(p) /\ HaltOK(p)
    BY DEF HaltInv
  <2>1. CASE p = q
    BY <1>2, <2>0, <2>1, HaltPublish, HaltCtl, HaltMain DEF ProcNext
  <2>2. CASE p # q
    <3>1. OthersKept(p)
      BY <1>2, <2>2, OthersVariables
    <3> QED
      BY <2>0, <3>1 DEF OthersKept, LockOK, HaltOK
  <2> QED
    BY <2>1, <2>2
<1> QED
  BY <1>1, <1>2 DEF Next

\* Only a put changes the status in the store.
LEMMA StatusStep ==
  ASSUME TypeOK, HaltInv, [Next]_vars, status' # status, NEW p \in halted, status'.by = p
  PROVE  ~GateOpen(status.what)'
<1>0. p \in Procs /\ LockOK(p) /\ HaltOK(p)
  BY DEF TypeOK, HaltInv
<1>1. PICK q \in Procs : ProcNext(q)
  BY DEF Next, Tick, vars, store
<1>2. ASSUME NEW s, Saved(q, s), q = p => Quiet(s) PROVE ~GateOpen(status.what)'
  BY <1>2 DEF Saved, Quiet, GateOpen
<1>3. ASSUME NEW t \in Threads, Publishing(q, t)
      PROVE  ~GateOpen(status.what)'
  <2>1. step[q][t] = "put" /\ Saved(q, snap[q][t])
    BY <1>3 DEF Publishing, PublishLock, PublishRenew, Reading, PublishSwap, PublishAgain,
       PublishLost, RenewRaises, PublishCheck, PublishRefused, PublishPut, PutRaises, store
  <2>2. q = p => Quiet(snap[q][t])
    BY <1>0, <2>1 DEF LockOK, HaltOK, Quiet
  <2> QED
    BY <1>2, <2>1, <2>2
<1>4. CASE MainPut(q)
  <2>1. main[q] = "put" /\ Saved(q, snap[q]["main"])
    BY <1>4 DEF MainPut
  <2> QED
    BY <1>0, <1>2, <2>1 DEF HaltOK
<1>5. CASE Acquire(q)
  BY <1>5 DEF Acquire, Begin
<1>6. CASE MainStart(q) \/ MainBlocked(q) \/ MainStopped(q) \/ MainEnding(q) \/ MainAborted(q)
  BY <1>6 DEF MainStart, MainBlocked, MainStopped, MainPublishes, MainEnding, MainAborted, Finish,
              store
<1>7. CASE MainRelease(q) \/ MainNotOwner(q) \/ MainLoad(q) \/ MainSave(q) \/ MainSaveRefused(q)
           \/ Crash(q)
  BY <1>7 DEF MainRelease, MainNotOwner, MainLoad, MainSave, MainSaveRefused, Crash, store
<1>8. CASE CtlRound(q) \/ CtlFails(q) \/ CtlReads(q) \/ CtlEnd(q)
  BY <1>8 DEF CtlRound, CtlFails, CtlReads, CtlEnd, store
<1> QED
  BY <1>1, <1>3, <1>4, <1>5, <1>6, <1>7, <1>8 DEF ProcNext

\* The lock, and what the latest status of an instance says after its stop.
THEOREM HaltInvariance == Spec => []HaltInv
<1>1. TypeOK /\ HaltInv /\ [Next]_vars => HaltInv'
  BY HaltNext
<1> QED
  BY <1>1, HaltInit, TypeCorrect, PTL DEF Spec

\* Once its stop has reached the status server, nothing that an instance saves opens
\* the gate.
THEOREM NoOpenAfterStopHolds == Spec => NoOpenAfterStop
<1>1. TypeOK /\ HaltInv /\ [Next]_vars =>
        [\A p \in halted : status' # status /\ status'.by = p => ~GateOpen(status.what)']_vars
  BY StatusStep
<1> QED
  BY <1>1, HaltInvariance, TypeCorrect, PTL DEF Spec, NoOpenAfterStop
================================================================================
