------------------------------ MODULE FencedLease ------------------------------
(***************************************************************************)
(* What the runtime store promises about the ownership lease, whatever the  *)
(* store is: the lease record changes hands only when it is not active, and *)
(* each grant carries a fencing token greater than every earlier one.       *)
(* MemoryFabricRuntimeStateStore does each of these changes under its lock; *)
(* FabricLease shows that the compare-and-swap loops of the store backed by *)
(* SQLite or Redis allow no other change of the record.                     *)
(***************************************************************************)
EXTENDS RuntimeLease

VARIABLES now, lease

Init == now = 0 /\ lease = NoLease

Tick == now' = now + 1 /\ UNCHANGED lease

\* acquire_lease with no active lease: a fresh, greater token.
Grant ==
  /\ ~LeaseIsActive(lease, now)
  /\ lease'.token > lease.token
  /\ lease'.owner \in OwnerIds
  /\ ~lease'.released
  /\ lease'.expires <= now + TTL
  /\ UNCHANGED now

\* A holder's renewal.  The clock is read before the record is swapped, so a
\* lease that ran out in between is still extended: nobody took it meanwhile.
\* A released lease is never extended.
Extend ==
  /\ lease # NoLease
  /\ ~lease.released
  /\ lease' = [lease EXCEPT !.expires = lease'.expires]
  /\ lease'.expires >= lease.expires
  /\ lease'.expires <= now + TTL
  /\ UNCHANGED now

Release ==
  /\ lease # NoLease
  /\ lease' = [lease EXCEPT !.expires = lease'.expires, !.released = TRUE]
  /\ lease'.expires <= now
  /\ UNCHANGED now

Next == Tick \/ Grant \/ Extend \/ Release

vars == <<now, lease>>

Spec == Init /\ [][Next]_vars
================================================================================
