------------------------------ MODULE Membership ------------------------------
(***************************************************************************)
(* What the registry of remote fabric members promises, whatever store it   *)
(* is kept in: joining, heartbeats and leaving are single changes of single *)
(* members, so none of them is lost or undone by another member's.          *)
(* StateClients shows that the loops of fabric_members.py over a shared     *)
(* SQLite or Redis store allow no other change of the registry.             *)
(***************************************************************************)
EXTENDS Naturals

CONSTANTS
  Members,     \* the ids of fabric members
  MemberTTL    \* ttl_seconds of registrations and heartbeats, in ticks

VARIABLES now, members

MemberRecords == [status : {"unknown", "active", "left"}, expires : Nat]
Unknown == [status |-> "unknown", expires |-> 0]

Init == now = 0 /\ members = [m \in Members |-> Unknown]

Tick == now' = now + 1 /\ UNCHANGED members

\* register_fabric_member: whether it was there or not.
Join(m) ==
  \E e \in 0 .. now + MemberTTL :
    /\ members' = [members EXCEPT ![m] = [status |-> "active", expires |-> e]]
    /\ UNCHANGED now

\* heartbeat_fabric_member: only for a member the registry knows.
Beat(m) == members[m] # Unknown /\ Join(m)

\* unregister_fabric_member: the record stays, already expired.
Leave(m) ==
  /\ members[m] # Unknown
  /\ \E e \in 0 .. now :
       members' = [members EXCEPT ![m] = [status |-> "left", expires |-> e]]
  /\ UNCHANGED now

Next == Tick \/ \E m \in Members : Join(m) \/ Beat(m) \/ Leave(m)

vars == <<now, members>>

Spec == Init /\ [][Next]_vars
================================================================================
