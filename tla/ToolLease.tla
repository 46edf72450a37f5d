------------------------------- MODULE ToolLease -------------------------------
(***************************************************************************)
(* The task leases of snulbug/leases.py.  Gateway workers, console threads  *)
(* and CLI processes share one lease file; every change of it is a          *)
(* transaction: take the lock, load the file, decide, replace the file,     *)
(* leave the lock.  A worker may die at any point; what it did not write is  *)
(* lost with it.                                                            *)
(*                                                                          *)
(* Time is in clock ticks, Second of them to the second: the code writes    *)
(* whole seconds and compares them with a finer clock.  The clock reads of   *)
(* one decision are one instant.  Which tools, paths, hosts, commands and   *)
(* identities a lease covers decides whether a request is refused and        *)
(* changes nothing; a refused request is Refuse, whatever the reason.       *)
(***************************************************************************)
EXTENDS Integers

CONSTANTS Ids,        \* lease ids
          Workers,    \* threads and processes that use the lease file
          Free,       \* the lock when nobody has it
          Second,     \* clock ticks in a second
          Overlap,    \* how long a renewed lease still takes its last token
          TTLs,       \* lease lifetimes asked for
          Grants,     \* renewal authorizations asked for
          Limits,     \* max_calls; 0 is None, no limit
          MaxTokens,  \* bound on the tokens of one lease (model only)
          MaxUses,    \* bound on the uses of an unlimited lease (model only)
          MaxTime     \* bound on the clock (model only)

ASSUME ToolLeaseAssumption ==
  /\ Ids # {}
  /\ Free \notin Workers
  /\ Second \in Nat \ {0}
  /\ Overlap \in Nat
  /\ TTLs \subseteq Nat
  /\ \A t \in TTLs : t >= Second   \* a shorter lease can be cut to nothing
  /\ Grants \subseteq Nat
  /\ Limits \subseteq Nat
  /\ MaxTokens \in Nat /\ MaxUses \in Nat /\ MaxTime \in Nat

VARIABLES now,
          file,      \* the lease file: a record per id
          lock,      \* who is inside _store_transaction
          pc,        \* where each worker is: "idle", "open" or "write"
          copy,      \* the store each worker loaded, and changed
          did,       \* what its decision was
          accepted,  \* history: calls let through since the lease was (re)activated
          promised   \* history: when a token was said to expire, as it was handed out

vars == <<now, file, lock, pc, copy, did, accepted, promised>>
-------------------------------------------------------------------------------
(* A lease record.                                                          *)

Kinds == {"none", "plain", "renewable", "gone"}   \* "none", "gone": not in the file

LeaseRecords ==
  [kind : Kinds, expires : Nat, revoked : BOOLEAN, token : Nat, limit : Nat,
   uses : Nat, ttl : Nat, until : Nat, stopped : BOOLEAN, gen : Nat,
   prev : Nat, prevUntil : Nat]

NotCreated ==
  [kind |-> "none", expires |-> 0, revoked |-> FALSE, token |-> 0, limit |-> 0,
   uses |-> 0, ttl |-> 0, until |-> 0, stopped |-> FALSE, gen |-> 0,
   prev |-> 0, prevUntil |-> 0]

Removed == [NotCreated EXCEPT !.kind = "gone"]

InFile(l) == l.kind \in {"plain", "renewable"}

\* _format_time drops the fraction of the second.
Stamp(t) == t - (t % Second)

Earlier(s, t) == IF s <= t THEN s ELSE t

LeaseActive(l, t) == InFile(l) /\ ~l.revoked /\ l.expires > t

RenewalActive(l, t) ==
  l.kind = "renewable" /\ ~l.revoked /\ ~l.stopped /\ l.until > t

MaxCallsExceeded(l) == l.limit > 0 /\ l.uses >= l.limit

\* _find_lease: by the token, or by the one before during the overlap.
Finds(l, k, t) ==
  /\ InFile(l)
  /\ l.token = k \/ (l.prevUntil > t /\ l.prev = k)

MayUse(l, k, t) == Finds(l, k, t) /\ LeaseActive(l, t) /\ ~MaxCallsExceeded(l)

Used(l) == [l EXCEPT !.uses = @ + 1]

MayRenew(l, t) == RenewalActive(l, t) /\ ~MaxCallsExceeded(l)

NextExpiry(l, t) == Earlier(l.until, t + l.ttl)

\* Mutant: a new token every time it is asked for.
Due_Always(l, t) == NextExpiry(l, t) > l.expires

\* Mutant: only a lease that is still active is extended.
Due_ActiveOnly(l, t) ==
  l.expires > t /\ 2 * (l.expires - t) <= l.ttl /\ NextExpiry(l, t) > l.expires

\* `changed`: half of the window is over and a later one can be had.
Due(l, t) == 2 * (l.expires - t) <= l.ttl /\ NextExpiry(l, t) > l.expires

\* Mutant: the last token is kept for the whole overlap.
Renewed_LongOverlap(l, t) ==
  [l EXCEPT !.prev = IF l.expires > t THEN l.token ELSE 0,
            !.prevUntil = IF l.expires > t THEN Stamp(t + Overlap) ELSE 0,
            !.gen = @ + 1, !.token = l.gen + 1,
            !.expires = Stamp(NextExpiry(l, t))]

\* Mutant: a renewed lease gets its budget back.
Renewed_NewBudget(l, t) ==
  [l EXCEPT !.prev = 0, !.prevUntil = 0, !.uses = 0,
            !.gen = @ + 1, !.token = l.gen + 1,
            !.expires = Stamp(NextExpiry(l, t))]

Renewed(l, t) ==
  [l EXCEPT !.prev = IF l.expires > t THEN l.token ELSE 0,
            !.prevUntil = IF l.expires > t
                          THEN Stamp(Earlier(l.expires, t + Overlap)) ELSE 0,
            !.gen = @ + 1,
            !.token = l.gen + 1,
            !.expires = Stamp(NextExpiry(l, t))]

\* create_lease.
Plain(t, ttl, limit) ==
  [NotCreated EXCEPT !.kind = "plain", !.expires = Stamp(t + ttl), !.limit = limit]

Renewable(t, ttl, grant, limit) ==
  [Plain(t, ttl, limit) EXCEPT !.kind = "renewable", !.ttl = ttl,
                               !.until = Stamp(t + grant)]

\* reactivate_lease, with a new token; max_calls stays unless it is given.
Reactivated(l, t, ttl, limit) ==
  [l EXCEPT !.revoked = FALSE, !.expires = Stamp(t + ttl), !.token = @ + 1,
            !.uses = 0, !.limit = IF limit = 0 THEN @ ELSE limit]

\* Mutant: cleanup looks at the lease only, not at its renewal.
Kept_LeaseOnly(l, t) == LeaseActive(l, t)

\* cleanup_inactive_leases keeps the leases that are, or may become, active.
Kept(l, t) == LeaseActive(l, t) \/ RenewalActive(l, t)
-------------------------------------------------------------------------------
Tokens == 0 .. MaxTokens

NoFile == [i \in Ids |-> NotCreated]
Ops == {"none", "create", "call", "renew", "revoke", "stop", "reactivate", "cleanup"}

\* A decision: the operation, its lease and token (0 where it has none), and when.
Decisions == [op : Ops, id : Ids, token : Nat, at : Nat]
NothingDone == [op |-> "none", id |-> CHOOSE i \in Ids : TRUE, token |-> 0, at |-> 0]

TypeOK ==
  /\ now \in Nat
  /\ file \in [Ids -> LeaseRecords]
  /\ lock \in Workers \cup {Free}
  /\ pc \in [Workers -> {"idle", "open", "write"}]
  /\ copy \in [Workers -> [Ids -> LeaseRecords]]
  /\ did \in [Workers -> Decisions]
  /\ accepted \in [Ids -> Nat]
  /\ promised \in [Ids -> [Tokens -> Nat]]

Init ==
  /\ now = 0
  /\ file = NoFile
  /\ lock = Free
  /\ pc = [w \in Workers |-> "idle"]
  /\ copy = [w \in Workers |-> NoFile]
  /\ did = [w \in Workers |-> NothingDone]
  /\ accepted = [i \in Ids |-> 0]
  /\ promised = [i \in Ids |-> [k \in Tokens |-> 0]]

Tick ==
  /\ now < MaxTime
  /\ now' = now + 1
  /\ UNCHANGED <<file, lock, pc, copy, did, accepted, promised>>

\* Mutant: the transaction does not wait for the lock.
Enter_NoLock(w) ==
  /\ pc[w] = "idle"
  /\ lock' = w
  /\ pc' = [pc EXCEPT ![w] = "open"]
  /\ copy' = [copy EXCEPT ![w] = file]
  /\ UNCHANGED <<now, file, did, accepted, promised>>

\* _store_transaction is entered and the file loaded.
Enter(w) ==
  /\ pc[w] = "idle"
  /\ lock = Free
  /\ lock' = w
  /\ pc' = [pc EXCEPT ![w] = "open"]
  /\ copy' = [copy EXCEPT ![w] = file]
  /\ UNCHANGED <<now, file, did, accepted, promised>>

Decide(w, op, i, k, store) ==
  /\ pc[w] = "open"
  /\ pc' = [pc EXCEPT ![w] = "write"]
  /\ copy' = [copy EXCEPT ![w] = store]
  /\ did' = [did EXCEPT ![w] = [op |-> op, id |-> i, token |-> k, at |-> now]]
  /\ UNCHANGED <<now, file, lock, accepted, promised>>

\* One record of the loaded store changes.
Change(w, op, i, k, l) == Decide(w, op, i, k, [copy[w] EXCEPT ![i] = l])

Create(w) ==
  \E i \in Ids, ttl \in TTLs, limit \in Limits :
    /\ copy[w][i].kind = "none"
    /\ \/ Change(w, "create", i, 0, Plain(now, ttl, limit))
       \/ \E grant \in Grants :
            /\ grant >= ttl
            /\ Change(w, "create", i, 0, Renewable(now, ttl, grant, limit))

\* A tools/call that the lease covers (consume=True).
Call(w) ==
  \E i \in Ids, k \in Tokens :
    /\ MayUse(copy[w][i], k, now)
    /\ copy[w][i].uses < MaxUses
    /\ Change(w, "call", i, k, Used(copy[w][i]))

\* renew_lease by a client that holds the renewal token and the identity.
Renew(w) ==
  \E i \in Ids :
    LET l == copy[w][i] IN
      /\ MayRenew(l, now)
      /\ Due(l, now)
      /\ l.gen < MaxTokens
      /\ Change(w, "renew", i, l.gen + 1, Renewed(l, now))

Revoke(w) ==
  \E i \in Ids :
    /\ InFile(copy[w][i])
    /\ Change(w, "revoke", i, 0, [copy[w][i] EXCEPT !.revoked = TRUE])

\* revoke_invite_renewal
StopRenewal(w) ==
  \E i \in Ids :
    /\ copy[w][i].kind = "renewable"
    /\ Change(w, "stop", i, 0, [copy[w][i] EXCEPT !.stopped = TRUE])

Reactivate(w) ==
  \E i \in Ids, ttl \in TTLs, limit \in Limits :
    LET l == copy[w][i] IN
      /\ l.kind = "plain"
      /\ l.token < MaxTokens
      /\ Change(w, "reactivate", i, l.token + 1, Reactivated(l, now, ttl, limit))

Cleanup(w) ==
  \E i \in Ids :   \* the id of the decision record stands for nothing here
    Decide(w, "cleanup", i, 0,
           [j \in Ids |-> IF InFile(copy[w][j]) /\ ~Kept(copy[w][j], now)
                          THEN Removed ELSE copy[w][j]])

Leave(w) ==
  /\ pc' = [pc EXCEPT ![w] = "idle"]
  /\ copy' = [copy EXCEPT ![w] = NoFile]
  /\ did' = [did EXCEPT ![w] = NothingDone]
  /\ lock' = IF lock = w THEN Free ELSE lock

\* The request is denied, the lease not found, a renewal recovers the token
\* that is still good, or the worker dies: the file stays as it is.
Refuse(w) ==
  /\ pc[w] # "idle"
  /\ Leave(w)
  /\ UNCHANGED <<now, file, accepted, promised>>

\* _write_store: tmp.replace(path); then the lock is left.
Write(w) ==
  /\ pc[w] = "write"
  /\ file' = copy[w]
  /\ Leave(w)
  /\ LET d == did[w] IN
       /\ accepted' =
            [accepted EXCEPT ![d.id] = CASE d.op = "call" -> @ + 1
                                         [] d.op = "reactivate" -> 0
                                         [] OTHER -> @]
       /\ promised' =
            IF d.op \in {"create", "renew", "reactivate"}
            THEN [promised EXCEPT ![d.id][d.token] = copy[w][d.id].expires]
            ELSE promised
  /\ UNCHANGED now

WorkerNext(w) ==
  \/ Enter(w)
  \/ Create(w) \/ Call(w) \/ Renew(w) \/ Revoke(w) \/ StopRenewal(w)
  \/ Reactivate(w) \/ Cleanup(w)
  \/ Refuse(w) \/ Write(w)

Next == Tick \/ \E w \in Workers : WorkerNext(w)

Spec == Init /\ [][Next]_vars
-------------------------------------------------------------------------------
(* Properties.                                                              *)

(* No lease lets through more calls than its budget between two activations, *)
(* whatever workers use it at the same time, under whichever of its tokens,  *)
(* renewed or not.                                                          *)
BudgetKept ==
  \A i \in Ids :
    InFile(file[i]) /\ file[i].limit > 0 => accepted[i] <= file[i].limit

(* A call is let through under a token only before the expiry that was       *)
(* announced when the token was handed out, and a renewable lease never      *)
(* announces one after the end of its authorization.                        *)
TokenLifetime ==
  /\ \A w \in Workers :
       did[w].op = "call" => did[w].at < promised[did[w].id][did[w].token]
  /\ \A i \in Ids, k \in Tokens :
       file[i].kind = "renewable" => promised[i][k] <= file[i].until

(* The call that is about to be counted is made on a lease that no other     *)
(* worker has revoked or removed meanwhile.                                  *)
NoUseAfterRevoke ==
  \A w \in Workers :
    did[w].op = "call" => InFile(file[did[w].id]) /\ ~file[did[w].id].revoked

(* Whenever a renewal is not denied, what it answers is the current token of *)
(* an active lease: a client whose answer was lost can ask again.            *)
RenewalUsable ==
  \A i \in Ids :
    MayRenew(file[i], now) =>
      LET l == IF Due(file[i], now) THEN Renewed(file[i], now) ELSE file[i]
      IN  MayUse(l, l.gen, now)

(* A renewal never cuts short the overlap that an earlier one promised for   *)
(* calls in flight, except by the fraction of a second lost in writing.      *)
OverlapHonoured ==
  \A w \in Workers :
    did[w].op = "renew" => file[did[w].id].prevUntil < did[w].at + Second

(* The revocation of a renewable lease, or of its renewal, is never undone.  *)
RevocationFinal ==
  [][\A i \in Ids :
       file[i].kind = "renewable" /\ file'[i].kind = "renewable" =>
         /\ file[i].revoked => file'[i].revoked
         /\ file[i].stopped => file'[i].stopped]_vars

(* "never its permissions or budget" (renew_lease): nothing changes the      *)
(* authorization, the lifetime or the limit of a renewable lease, or lowers  *)
(* its use count or its generation.                                          *)
RenewalNeverWidens ==
  [][\A i \in Ids :
       file[i].kind = "renewable" /\ file'[i].kind = "renewable" =>
         /\ file'[i].until = file[i].until
         /\ file'[i].ttl = file[i].ttl
         /\ file'[i].limit = file[i].limit
         /\ file'[i].uses >= file[i].uses
         /\ file'[i].gen >= file[i].gen]_vars

(* Only a lease that can neither be used nor be renewed leaves the file.     *)
RemovedWhenDead ==
  [][\A i \in Ids :
       InFile(file[i]) /\ ~InFile(file'[i]) =>
         ~LeaseActive(file[i], now) /\ ~RenewalActive(file[i], now)]_vars
-------------------------------------------------------------------------------
(* The inductive invariant behind the proofs of ToolLeaseProofs.             *)

\* A worker is inside the transaction exactly when it has the lock, and it has
\* decided something exactly when it is about to write.
LockOK(w) ==
  /\ pc[w] # "idle" <=> lock = w
  /\ pc[w] = "write" <=> did[w].op # "none"
  /\ pc[w] = "open" => copy[w] = file
  /\ did[w].at <= now

\* What a decision d may make of the record l of its lease.
LeaseStep(d, l, m) ==
  \/ /\ d.op = "create" /\ l.kind = "none" /\ d.token = 0
     /\ \E ttl \in TTLs, limit \in Limits :
          \/ m = Plain(d.at, ttl, limit)
          \/ \E grant \in Grants :
               grant >= ttl /\ m = Renewable(d.at, ttl, grant, limit)
  \/ d.op = "call" /\ MayUse(l, d.token, d.at) /\ m = Used(l)
  \/ /\ d.op = "renew" /\ MayRenew(l, d.at) /\ Due(l, d.at)
     /\ d.token = l.gen + 1 /\ m = Renewed(l, d.at)
  \/ d.op = "revoke" /\ InFile(l) /\ m = [l EXCEPT !.revoked = TRUE]
  \/ d.op = "stop" /\ l.kind = "renewable" /\ m = [l EXCEPT !.stopped = TRUE]
  \/ /\ d.op = "reactivate" /\ l.kind = "plain" /\ d.token = l.token + 1
     /\ \E ttl \in TTLs, limit \in Limits : m = Reactivated(l, d.at, ttl, limit)

Swept(l, t) == IF InFile(l) /\ ~Kept(l, t) THEN Removed ELSE l

\* What a worker is about to write is one decision away from the file.
WriteOK(w) ==
  LET d == did[w] IN
    /\ d.token \in Tokens
    /\ \/ /\ d.op = "cleanup"
          /\ copy[w] = [j \in Ids |-> Swept(file[j], d.at)]
       \/ /\ copy[w] = [file EXCEPT ![d.id] = copy[w][d.id]]
          /\ LeaseStep(d, file[d.id], copy[w][d.id])

\* A renewable lease: its token belongs to its generation, whole seconds are
\* written, it ends with its authorization at the latest, and the overlap is
\* over, but for a second, when the next renewal is due.
RenewableOK(l) ==
  /\ l.token = l.gen
  /\ l.ttl >= Second
  /\ Stamp(l.until) = l.until
  /\ l.expires <= l.until
  /\ l.expires = l.until \/ 2 * l.prevUntil < 2 * l.expires - l.ttl + 2 * Second

LeaseOK(l) ==
  /\ l.kind = "renewable" => RenewableOK(l)
  /\ l.kind = "plain" => l.prevUntil = 0
  /\ InFile(l) /\ l.limit > 0 => l.uses <= l.limit

\* The records of the file against the history.
HistoryOK(i) ==
  /\ file[i].kind = "none" =>
       accepted[i] = 0 /\ \A k \in Tokens : promised[i][k] = 0
  /\ InFile(file[i]) =>
       /\ accepted[i] = file[i].uses
       /\ file[i].token \in Tokens
       /\ promised[i][file[i].token] = file[i].expires
  /\ file[i].prevUntil > 0 =>
       /\ file[i].prev \in Tokens
       /\ file[i].prevUntil <= promised[i][file[i].prev]
  /\ file[i].kind = "renewable" =>
       \A k \in Tokens : promised[i][k] <= file[i].until

(* The lock makes the loaded store the file until it is written, so that what *)
(* is written is one legal decision away; the records keep the bounds their   *)
(* fields have on each other; the history agrees with them.                   *)
IInv ==
  /\ TypeOK
  /\ \A w \in Workers : LockOK(w) /\ (pc[w] = "write" => WriteOK(w))
  /\ \A i \in Ids : LeaseOK(file[i]) /\ HistoryOK(i)
================================================================================
