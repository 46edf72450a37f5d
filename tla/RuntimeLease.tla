----------------------------- MODULE RuntimeLease -----------------------------
(***************************************************************************)
(* The runtime-ownership lease record of snulbug/fabric_runtime.py and the  *)
(* pure functions on it.  A lease is a JSON object; the properties tell     *)
(* apart its owner, its fencing token, the instant it expires and whether   *)
(* released_at is set.  heartbeat_at, acquired_at, ttl_seconds and metadata  *)
(* follow from these or decide nothing.                                     *)
(***************************************************************************)
EXTENDS Integers

CONSTANTS OwnerIds,   \* --runtime-instance-id values (or generated ids)
          NoOwner,    \* the owner of the missing lease
          TTL         \* runtime_lease_ttl, in clock ticks

ASSUME RuntimeLeaseAssumption ==
  /\ NoOwner \notin OwnerIds
  /\ TTL \in Nat \ {0}       \* _validate_lease_input: ttl must be positive

Leases == [owner : OwnerIds \cup {NoOwner}, token : Nat,
           expires : Nat, released : BOOLEAN]

\* load_lease() = None: no record under the lease key.
NoLease == [owner |-> NoOwner, token |-> 0, expires |-> 0, released |-> FALSE]

NewLease(o, t, now) ==
  [owner |-> o, token |-> t, expires |-> now + TTL, released |-> FALSE]

\* The renewed record drops released_at and keeps owner and token.
RenewedLease(l, now) == [l EXCEPT !.expires = now + TTL, !.released = FALSE]

ReleasedLease(l, now) == [l EXCEPT !.expires = now, !.released = TRUE]

LeaseIsActive(l, now) == ~l.released /\ l.expires > now

LeaseMatches(l, o, t) == l # NoLease /\ l.owner = o /\ l.token = t
===============================================================================
