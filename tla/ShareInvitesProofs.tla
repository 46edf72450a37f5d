-------------------------- MODULE ShareInvitesProofs --------------------------
(***************************************************************************)
(* The files of a share stay in order and revocations stand, for every       *)
(* number of invites and operators, with crashes or without.                 *)
(***************************************************************************)
EXTENDS ShareInvites, TLAPS

USE ShareInvitesAssumption DEF ShareInvitesAssumption, Steps, Marks, Torn

Known(i) == leases[i].in # "none"

\* The labels by what an operation may have in its hands there.
Carrying == {"truncate", "write", "secrets", "store", "revoke"}
Between == {"list", "next", "mark", "sign", "rebuild"}

\* A session model with which no file is ahead of the leases.
ModelOK(m) ==
  \A i \in Invites : /\ m[i] # "absent" => Known(i)
                     /\ m[i] = "revoked" => ~RenewalOn(i)

\* What an operator has loaded and will write back is as good as the files: a new
\* lease is about to be made for an invite nobody has heard of, everything else
\* is about invites that have one, and a revocation has ended the renewal first.
OperatorOK(o) ==
  /\ ModelOK(copy[o])
  /\ \A i \in kept[o] : Known(i)
  /\ pc[o] = "lease" => task[o].op = "create" /\ \A i, j \in task[o].id : i = j /\ ~Known(i)
  /\ pc[o] # "lease" => \A i \in task[o].id : Known(i)
  /\ pc[o] \in {"scan", "sort"} => task[o].op = "cleanup"
  /\ pc[o] \in Between => task[o].id = {}
  /\ pc[o] \in Carrying /\ task[o].op \in {"revoke", "close"} =>
       \A i \in task[o].id : ~RenewalOn(i)

OneCreator ==
  \A o, p \in Operators :
    o # p /\ pc[o] = "lease" /\ pc[p] = "lease" => task[o].id \cap task[p].id = {}

FilesOK ==
  /\ session # TornModel => ModelOK(session)
  /\ \A i \in secrets : Known(i)

EndedOK ==
  \A i \in Invites :
    /\ ended[i] # "no" => Known(i) /\ ~RenewalOn(i)
    /\ ended[i] = "all" => ~Usable(i)

IInv ==
  /\ TypeOK
  /\ \A o \in Operators : OperatorOK(o)
  /\ OneCreator /\ FilesOK /\ EndedOK

\* No step forgets a lease or gives one that was there its renewal back.
Later ==
  \A i \in Invites : Known(i) => Known(i)' /\ (RenewalOn(i)' => RenewalOn(i))

\* ... nor makes one usable that was not, unless it could be renewed.
Weaker == \A i \in Invites : Known(i) /\ ~RenewalOn(i) /\ Usable(i)' => Usable(i)

-------------------------------------------------------------------------------
(* What a step leaves alone.                                                *)

LEMMA OthersKept ==
  ASSUME TypeOK, Later, NEW p \in Operators, OperatorOK(p),
         pc'[p] = pc[p], copy'[p] = copy[p], kept'[p] = kept[p],
         task'[p].op = task[p].op, task'[p].id = task[p].id,
         pc[p] = "lease" => \A i \in task[p].id : ~Known(i)'
  PROVE  OperatorOK(p)'
<1>1. /\ copy[p] \in [Invites -> Marks] /\ kept[p] \subseteq Invites
      /\ task[p].id \subseteq Invites
  BY DEF TypeOK, Tasks
<1>2. ModelOK(copy[p])'
  BY <1>1 DEF OperatorOK, ModelOK, Later
<1>3. \A i \in kept'[p] : Known(i)'
  BY <1>1 DEF OperatorOK, Later
<1>4. pc'[p] # "lease" => \A i \in task'[p].id : Known(i)'
  BY <1>1 DEF OperatorOK, Later
<1>5. pc'[p] \in Carrying /\ task'[p].op \in {"revoke", "close"} =>
        \A i \in task'[p].id : ~RenewalOn(i)'
  BY <1>1 DEF OperatorOK, Later, Carrying
<1> QED
  BY <1>2, <1>3, <1>4, <1>5 DEF OperatorOK

LEMMA FilesKept ==
  ASSUME TypeOK, Later, FilesOK, UNCHANGED <<session, secrets>>
  PROVE  FilesOK'
<1>1. secrets \subseteq Invites
  BY DEF TypeOK
<1>2. session # TornModel => ModelOK(session)'
  BY DEF FilesOK, ModelOK, Later
<1> QED
  BY <1>1, <1>2 DEF FilesOK, Later, TornModel

LEMMA EndedKept ==
  ASSUME Later, Weaker, EndedOK, UNCHANGED ended
  PROVE  EndedOK'
BY DEF EndedOK, Later, Weaker

\* A step that leaves the leases alone changes no lease.
LEMMA SameLeases ==
  ASSUME UNCHANGED leases
  PROVE  /\ Later /\ Weaker
         /\ \A i : Known(i)' = Known(i) /\ RenewalOn(i)' = RenewalOn(i) /\ Usable(i)' = Usable(i)
BY DEF Later, Weaker, Known, RenewalOn, Usable

LEMMA InitInv == Init => IInv
<1> SUFFICES ASSUME Init PROVE IInv
  OBVIOUS
<1>1. TypeOK
  BY DEF Init, TypeOK, NoLease, Leases, NoInvites, NoTask, Tasks
<1>2. \A o \in Operators : OperatorOK(o)
  BY DEF Init, OperatorOK, ModelOK, NoInvites, NoTask, Carrying, Between
<1>3. OneCreator
  BY DEF Init, OneCreator
<1>4. FilesOK
  BY DEF Init, FilesOK, ModelOK, NoInvites
<1>5. EndedOK
  BY DEF Init, EndedOK
<1> QED
  BY <1>1, <1>2, <1>3, <1>4, <1>5 DEF IInv
-------------------------------------------------------------------------------
(* The leases alone.                                                        *)

\* An expiry leaves all but the two marks of one lease as they are.
LEMMA ExpireOne ==
  ASSUME leases \in [Invites -> Leases], NEW i \in Invites, Expire(i)
  PROVE  /\ leases' \in [Invites -> Leases]
         /\ \A j \in Invites : j # i => leases'[j] = leases[j]
         /\ leases'[i].in = leases[i].in /\ leases'[i].revoked = leases[i].revoked
         /\ leases'[i].expired = TRUE
         /\ leases'[i].renew = leases[i].renew \/ leases'[i].renew = "over"
<1>1. PICK r \in {leases[i].renew} \cup (IF leases[i].renew = "on" THEN {"over"} ELSE {}) :
        leases' = [leases EXCEPT ![i].expired = TRUE, ![i].renew = r]
  BY DEF Expire
<1>2. r = leases[i].renew \/ r = "over"
  BY <1>1
<1>3. leases[i] \in Leases
  OBVIOUS
<1>4. r \in {"no", "on", "over", "stopped"}
  BY <1>2, <1>3 DEF Leases
<1>5. leases' = [leases EXCEPT ![i] = [[leases[i] EXCEPT !.expired = TRUE] EXCEPT !.renew = r]]
  BY <1>1, <1>3 DEF Leases
<1>6. [[leases[i] EXCEPT !.expired = TRUE] EXCEPT !.renew = r] \in Leases
  BY <1>3, <1>4 DEF Leases
<1> QED
  BY <1>2, <1>3, <1>4, <1>5, <1>6 DEF Leases

\* Time, bots and the lease commands.
LEMMA LeaseSteps ==
  ASSUME IInv, NEW i \in Invites,
         Renew(i) \/ Expire(i) \/ RevokeShareLease(i) \/ Reactivate(i) \/ CleanupLeases
  PROVE  IInv'
<1>0. TypeOK /\ FilesOK /\ EndedOK /\ OneCreator /\ leases \in [Invites -> Leases]
  BY DEF IInv, TypeOK
<1>1. Later /\ leases' \in [Invites -> Leases] /\ \A j \in Invites : ~Known(j) => ~Known(j)'
  <2>1. CASE Renew(i)
    BY <1>0, <2>1 DEF Renew, Later, Known, RenewalOn, Leases
  <2>2. CASE Expire(i)
    BY <1>0, <2>2, ExpireOne DEF Later, Known, RenewalOn
  <2>3. CASE RevokeShareLease(i)
    BY <1>0, <2>3 DEF RevokeShareLease, RevokedLease, Later, Known, RenewalOn, Leases
  <2>4. CASE Reactivate(i)
    BY <1>0, <2>4 DEF Reactivate, Later, Known, RenewalOn, Leases
  <2>5. CASE CleanupLeases
    BY <1>0, <2>5 DEF CleanupLeases, NoLease, Later, Known, RenewalOn, Usable, Leases
  <2> QED
    BY <2>1, <2>2, <2>3, <2>4, <2>5
<1>2. /\ UNCHANGED <<session, secrets, manifest, pc, copy, kept>>
      /\ \A p \in Operators : task'[p].op = task[p].op /\ task'[p].id = task[p].id
  BY <1>0 DEF Renew, Expire, RevokeShareLease, Reactivate, CleanupLeases, TypeOK, Tasks
<1>3. task' \in [Operators -> Tasks] /\ \A p \in Operators : task'[p].before \subseteq made'
  <2>1. CASE Reactivate(i)
    <3>1. \A p \in Operators : task'[p] = [task[p] EXCEPT !.before = @ \ {i}]
      BY <2>1 DEF Reactivate
    <3>2. \A p \in Operators : task'[p] \in Tasks /\ task'[p].before = task[p].before \ {i}
      <4> TAKE p \in Operators
      <4>1. task[p] \in Tasks /\ task[p].before \ {i} \in SUBSET Invites
        BY <1>0 DEF TypeOK, Tasks
      <4>2. task'[p] = [task[p] EXCEPT !.before = task[p].before \ {i}]
        BY <3>1
      <4> QED
        BY <4>1, <4>2 DEF Tasks
    <3> QED
      BY <1>0, <2>1, <3>2 DEF Reactivate, TypeOK
  <2>2. CASE ~Reactivate(i)
    BY <1>0, <2>2 DEF Renew, Expire, RevokeShareLease, CleanupLeases, TypeOK, history
  <2> QED
    BY <2>1, <2>2
<1>4. ended' \in [Invites -> {"no", "kept", "all"}] /\ made' \subseteq Invites
  BY <1>0 DEF Renew, Expire, RevokeShareLease, Reactivate, CleanupLeases, TypeOK, history
<1>5. TypeOK'
  BY <1>0, <1>1, <1>2, <1>3, <1>4 DEF TypeOK, TornModel
<1>6. \A p \in Operators : OperatorOK(p)'
  <2> TAKE p \in Operators
  <2>1. pc[p] = "lease" => \A j \in task[p].id : ~Known(j)'
    BY <1>0, <1>1 DEF IInv, OperatorOK, TypeOK, Tasks
  <2>2. OperatorOK(p)
    BY DEF IInv
  <2> QED
    BY <1>0, <1>1, <1>2, <2>1, <2>2, OthersKept
<1>7. OneCreator'
  BY <1>0, <1>2 DEF OneCreator
<1>8. FilesOK'
  BY <1>0, <1>1, <1>2, FilesKept
<1>9. EndedOK'
  <2>1. CASE Renew(i)
    BY <1>0, <2>1 DEF Renew, EndedOK, Known, RenewalOn, Usable, Leases, history
  <2>2. CASE Expire(i)
    <3>1. UNCHANGED ended
      BY <2>2 DEF Expire, history
    <3> QED
      BY <1>0, <2>2, <3>1, ExpireOne DEF EndedOK, Known, RenewalOn, Usable
  <2>3. CASE RevokeShareLease(i)
    BY <1>0, <2>3 DEF RevokeShareLease, RevokedLease, EndedOK, Known, RenewalOn, Usable, Leases, history
  <2>4. CASE Reactivate(i)
    BY <1>0, <2>4 DEF Reactivate, EndedOK, TypeOK, Known, RenewalOn, Usable, Leases
  <2>5. CASE CleanupLeases
    BY <1>0, <2>5 DEF CleanupLeases, NoLease, EndedOK, Known, RenewalOn, Usable, Leases, history
  <2> QED
    BY <2>1, <2>2, <2>3, <2>4, <2>5
<1> QED
  BY <1>5, <1>6, <1>7, <1>8, <1>9 DEF IInv
-------------------------------------------------------------------------------
(* A step of one operator.                                                  *)

Local(o) ==
  \A p \in Operators \ {o} :
    pc'[p] = pc[p] /\ task'[p] = task[p] /\ copy'[p] = copy[p] /\ kept'[p] = kept[p]

\* It keeps the invariant if it keeps the files and its own part in order, if no
\* other operator's new invite becomes known, and if its own is nobody else's.
LEMMA OneStep ==
  ASSUME IInv, TypeOK', NEW o \in Operators, Local(o), Later,
         \A p \in Operators \ {o} :
           pc[p] = "lease" => \A i \in task[p].id : ~Known(i)'
                              /\ (pc'[o] = "lease" => i \notin task'[o].id),
         OperatorOK(o)', FilesOK', EndedOK'
  PROVE  IInv'
<1>1. \A p \in Operators : OperatorOK(p)'
  <2> TAKE p \in Operators
  <2>1. CASE p = o
    BY <2>1
  <2>2. CASE p # o
    <3>1. TypeOK /\ OperatorOK(p)
      BY DEF IInv
    <3> QED
      BY <2>2, <3>1, OthersKept DEF Local
  <2> QED
    BY <2>1, <2>2
<1>2. OneCreator'
  <2>1. SUFFICES ASSUME NEW p \in Operators, NEW q \in Operators, p # q,
                        pc'[p] = "lease", pc'[q] = "lease"
                 PROVE  task'[p].id \cap task'[q].id = {}
    BY DEF OneCreator
  <2>2. CASE p = o
    BY <2>1, <2>2 DEF Local
  <2>3. CASE q = o
    BY <2>1, <2>3 DEF Local
  <2>4. CASE p # o /\ q # o
    BY <2>1, <2>4 DEF Local, OneCreator, IInv
  <2> QED
    BY <2>2, <2>3, <2>4
<1> QED
  BY <1>1, <1>2 DEF IInv

\* The same for a step that does not begin to make an invite.
LEMMA PlainStep ==
  ASSUME IInv, TypeOK', NEW o \in Operators, Local(o), UNCHANGED leases,
         pc'[o] # "lease", OperatorOK(o)', FilesOK', EndedOK'
  PROVE  IInv'
<1>1. Later /\ \A i : Known(i)' = Known(i)
  BY SameLeases
<1>2. \A p \in Operators \ {o} : pc[p] = "lease" => \A i \in task[p].id : ~Known(i)'
  BY <1>1 DEF IInv, OperatorOK
<1> QED
  BY <1>1, <1>2, OneStep

\* ... and leaves the files and the history as they are.
LEMMA QuietStep ==
  ASSUME IInv, TypeOK', NEW o \in Operators, Local(o), UNCHANGED <<leases, session, secrets, ended>>,
         pc'[o] # "lease", OperatorOK(o)'
  PROVE  IInv'
<1>1. Later /\ Weaker
  BY SameLeases
<1>2. FilesOK' /\ EndedOK'
  BY <1>1, FilesKept, EndedKept DEF IInv
<1> QED
  BY <1>2, PlainStep

\* Done
LEMMA DoneOK ==
  ASSUME TypeOK, NEW o \in Operators, Done(o)
  PROVE  /\ Local(o)
         /\ pc'[o] = "idle" /\ task'[o] = NoTask
         /\ OperatorOK(o)'
         /\ pc' \in [Operators -> Steps] /\ task' \in [Operators -> Tasks]
         /\ copy' \in [Operators -> [Invites -> Marks]]
         /\ kept' \in [Operators -> SUBSET Invites]
         /\ \A p \in Operators : task'[p].before \subseteq made
<1>1. pc' \in [Operators -> Steps] /\ pc'[o] = "idle"
  BY DEF TypeOK, Done, Goto
<1>2. task' \in [Operators -> Tasks] /\ task'[o] = NoTask
  BY DEF TypeOK, Done, NoTask, Tasks
<1>3. copy' \in [Operators -> [Invites -> Marks]] /\ copy'[o] = NoInvites
  BY DEF TypeOK, Done, NoInvites
<1>4. kept' \in [Operators -> SUBSET Invites] /\ kept'[o] = {}
  BY DEF TypeOK, Done
<1>5. Local(o)
  BY DEF TypeOK, Done, Goto, Local
<1>6. OperatorOK(o)'
  <2>1. ModelOK(copy[o])'
    BY <1>3 DEF ModelOK, NoInvites
  <2> QED
    BY <1>1, <1>2, <1>4, <2>1 DEF OperatorOK, NoTask, Carrying, Between
<1>7. \A p \in Operators : task'[p].before \subseteq made
  <2> TAKE p \in Operators
  <2>1. CASE p = o
    BY <1>2, <2>1 DEF NoTask
  <2>2. CASE p # o
    BY <2>2 DEF Done, TypeOK
  <2> QED
    BY <2>1, <2>2
<1> QED
  BY <1>1, <1>2, <1>3, <1>4, <1>5, <1>6, <1>7

\* Begin
LEMMA BeginOK ==
  ASSUME IInv, NEW o \in Operators, NEW t \in Tasks, NEW l \in Steps, t.before = {},
         Begin(o, t, l)
  PROVE  /\ TypeOK' /\ Local(o)
         /\ UNCHANGED <<files, kept, history>>
         /\ pc[o] = "idle" /\ pc'[o] = l /\ task'[o] = t
         /\ session \in [Invites -> Marks]
         /\ ModelOK(copy[o])' /\ \A i \in kept'[o] : Known(i)'
<1>0. TypeOK /\ session # TornModel
  BY DEF IInv, Begin, Readable
<1>1. pc[o] = "idle" /\ pc' = [pc EXCEPT ![o] = l] /\ task' = [task EXCEPT ![o] = t]
      /\ copy' = [copy EXCEPT ![o] = session] /\ UNCHANGED <<files, kept, history>>
  BY DEF Begin, Goto
<1>2. session \in [Invites -> Marks]
  BY <1>0 DEF TypeOK
<1>3. TypeOK'
  BY <1>0, <1>1, <1>2 DEF TypeOK, files, history, TornModel
<1>4. Local(o) /\ pc'[o] = l /\ task'[o] = t /\ copy'[o] = session /\ kept'[o] = kept[o]
  BY <1>0, <1>1 DEF TypeOK, Local
<1>5. UNCHANGED leases
  BY <1>1 DEF files
<1>6. ModelOK(copy[o])'
  BY <1>0, <1>4, <1>5, SameLeases DEF IInv, FilesOK, ModelOK
<1>7. \A i \in kept'[o] : Known(i)'
  BY <1>4, <1>5, SameLeases DEF IInv, OperatorOK
<1> QED
  BY <1>1, <1>2, <1>3, <1>4, <1>6, <1>7
-------------------------------------------------------------------------------
(* The steps that begin an operation, and those that look at a file.         *)

LEMMA CreateInv == ASSUME IInv, NEW o \in Operators, Create(o) PROVE IInv'
<1>1. PICK i \in Invites :
        /\ leases[i].in = "none" /\ \A p \in Operators : i \notin task[p].id
        /\ Begin(o, [NoTask EXCEPT !.op = "create", !.id = {i}], "lease")
  BY DEF Create
<1> DEFINE t == [NoTask EXCEPT !.op = "create", !.id = {i}]
<1>2. t \in Tasks /\ t.before = {} /\ t.op = "create" /\ t.id = {i}
  BY DEF NoTask, Tasks
<1> HIDE DEF t
<1>3. /\ TypeOK' /\ Local(o)
      /\ UNCHANGED <<files, kept, history>>
      /\ pc'[o] = "lease" /\ task'[o] = t
      /\ ModelOK(copy[o])' /\ \A j \in kept'[o] : Known(j)'
  BY <1>1, <1>2, BeginOK DEF t
<1>4. UNCHANGED <<leases, session, secrets, ended>>
  BY <1>3 DEF files, history
<1>5. Later /\ Weaker /\ \A j : Known(j)' = Known(j)
  BY <1>4, SameLeases
<1>6. OperatorOK(o)'
  BY <1>1, <1>2, <1>3, <1>5 DEF OperatorOK, Known, Carrying, Between
<1>7. FilesOK' /\ EndedOK'
  BY <1>4, <1>5, FilesKept, EndedKept DEF IInv
<1>8. \A p \in Operators \ {o} :
        pc[p] = "lease" => \A j \in task[p].id : ~Known(j)'
                           /\ (pc'[o] = "lease" => j \notin task'[o].id)
  BY <1>1, <1>2, <1>3, <1>5 DEF IInv, OperatorOK
<1> QED
  BY <1>3, <1>5, <1>6, <1>7, <1>8, OneStep

LEMMA RevokeInv == ASSUME IInv, NEW o \in Operators, Revoke(o) PROVE IInv'
<1>1. PICK i \in Invites, k \in BOOLEAN :
        /\ session # TornModel /\ session[i] # "absent"
        /\ Begin(o, [NoTask EXCEPT !.op = "revoke", !.id = {i}, !.keep = k], "stop")
  BY DEF Revoke
<1> DEFINE t == [NoTask EXCEPT !.op = "revoke", !.id = {i}, !.keep = k]
<1>2. t \in Tasks /\ t.before = {} /\ t.op = "revoke" /\ t.id = {i}
  BY DEF NoTask, Tasks
<1> HIDE DEF t
<1>3. /\ TypeOK' /\ Local(o)
      /\ UNCHANGED <<files, kept, history>>
      /\ pc'[o] = "stop" /\ task'[o] = t
      /\ ModelOK(copy[o])' /\ \A j \in kept'[o] : Known(j)'
  BY <1>1, <1>2, BeginOK DEF t
<1>4. UNCHANGED <<leases, session, secrets, ended>>
  BY <1>3 DEF files, history
<1>5. Known(i)'
  BY <1>1, <1>4, SameLeases DEF IInv, FilesOK, ModelOK
<1>6. OperatorOK(o)'
  BY <1>2, <1>3, <1>5 DEF OperatorOK, Carrying, Between
<1> QED
  BY <1>3, <1>4, <1>6, QuietStep

LEMMA CleanupInv == ASSUME IInv, NEW o \in Operators, Cleanup(o) PROVE IInv'
<1> DEFINE t == [NoTask EXCEPT !.op = "cleanup"]
<1>1. t \in Tasks /\ t.before = {} /\ t.op = "cleanup" /\ t.id = {}
  BY DEF NoTask, Tasks
<1> HIDE DEF t
<1>2. /\ TypeOK' /\ Local(o)
      /\ UNCHANGED <<files, kept, history>>
      /\ pc'[o] = "scan" /\ task'[o] = t
      /\ ModelOK(copy[o])' /\ \A j \in kept'[o] : Known(j)'
  BY <1>1, BeginOK DEF t, Cleanup
<1>3. UNCHANGED <<leases, session, secrets, ended>>
  BY <1>2 DEF files, history
<1>4. OperatorOK(o)'
  BY <1>1, <1>2 DEF OperatorOK, Carrying, Between
<1> QED
  BY <1>2, <1>3, <1>4, QuietStep

LEMMA TouchInv == ASSUME IInv, NEW o \in Operators, Touch(o) PROVE IInv'
<1> DEFINE t == [NoTask EXCEPT !.op = "touch"]
<1>1. t \in Tasks /\ t.before = {} /\ t.op = "touch" /\ t.id = {}
  BY DEF NoTask, Tasks
<1> HIDE DEF t
<1>2. /\ TypeOK' /\ Local(o)
      /\ UNCHANGED <<files, kept, history>>
      /\ pc'[o] = "truncate" /\ task'[o] = t
      /\ ModelOK(copy[o])' /\ \A j \in kept'[o] : Known(j)'
  BY <1>1, BeginOK DEF t, Touch
<1>3. UNCHANGED <<leases, session, secrets, ended>>
  BY <1>2 DEF files, history
<1>4. OperatorOK(o)'
  BY <1>1, <1>2 DEF OperatorOK, Carrying, Between
<1> QED
  BY <1>2, <1>3, <1>4, QuietStep

LEMMA ScanSecretsInv == ASSUME IInv, NEW o \in Operators, ScanSecrets(o) PROVE IInv'
<1>1. TypeOK /\ OperatorOK(o)
  BY DEF IInv
<1>2. TypeOK' /\ Local(o) /\ pc'[o] # "lease"
  BY <1>1 DEF ScanSecrets, Goto, TypeOK, Local, files, history
<1>3. UNCHANGED <<leases, session, secrets, ended>>
  BY DEF ScanSecrets, files, history
<1>4. OperatorOK(o)'
  BY <1>1, <1>2, <1>3, SameLeases DEF ScanSecrets, Goto, TypeOK, OperatorOK, ModelOK, Carrying, Between, IInv, FilesOK
<1> QED
  BY <1>2, <1>3, <1>4, QuietStep

LEMMA ClosingInv == ASSUME IInv, NEW o \in Operators, Closing(o) PROVE IInv'
<1>1. TypeOK /\ OperatorOK(o)
  BY DEF IInv
<1>2. TypeOK' /\ Local(o) /\ pc'[o] # "lease"
  BY <1>1 DEF Closing, Goto, TypeOK, Local, files, history
<1>3. UNCHANGED <<leases, session, secrets, ended>>
  BY DEF Closing, files, history
<1>4. OperatorOK(o)'
  BY <1>1, <1>2, <1>3, SameLeases DEF Closing, Goto, TypeOK, OperatorOK, ModelOK, Carrying, Between
<1> QED
  BY <1>2, <1>3, <1>4, QuietStep

LEMMA SignManifestInv == ASSUME IInv, NEW o \in Operators, SignManifest(o) PROVE IInv'
<1>1. TypeOK /\ OperatorOK(o)
  BY DEF IInv
<1>2. TypeOK' /\ Local(o) /\ pc'[o] # "lease"
  BY <1>1 DEF SignManifest, Goto, TypeOK, Local, files, history, Tasks
<1>3. UNCHANGED <<leases, session, secrets, ended>>
  BY DEF SignManifest, files, history
<1>4. OperatorOK(o)'
  BY <1>1, <1>2, <1>3, SameLeases DEF SignManifest, Goto, TypeOK, OperatorOK, ModelOK, Carrying, Between
<1> QED
  BY <1>2, <1>3, <1>4, QuietStep

LEMMA CloseInv == ASSUME IInv, NEW o \in Operators, Close(o) PROVE IInv'
<1>1. TypeOK /\ OperatorOK(o)
  BY DEF IInv
<1>2. TypeOK' /\ Local(o) /\ pc'[o] # "lease"
  BY <1>1 DEF Close, Goto, TypeOK, Local, files, history, NoTask, Tasks
<1>3. UNCHANGED <<leases, session, secrets, ended>>
  BY DEF Close, files, history
<1>4. OperatorOK(o)'
  BY <1>1, <1>2, <1>3, SameLeases DEF Close, Goto, TypeOK, OperatorOK, ModelOK, Carrying, Between, NoTask, Tasks
<1> QED
  BY <1>2, <1>3, <1>4, QuietStep

LEMMA ListInvitesInv == ASSUME IInv, NEW o \in Operators, ListInvites(o) PROVE IInv'
<1>1. TypeOK /\ OperatorOK(o)
  BY DEF IInv
<1>2. TypeOK' /\ Local(o) /\ pc'[o] # "lease"
  <2> DEFINE live == {i \in Invites : session[i] = "live"}
  <2>1. task[o] \in Tasks /\ live \in SUBSET Invites
    BY <1>1 DEF TypeOK
  <2>2. [task[o] EXCEPT !.todo = live] \in Tasks
        /\ [task[o] EXCEPT !.todo = live].before = task[o].before
    BY <2>1 DEF Tasks
  <2>3. task' = [task EXCEPT ![o] = [task[o] EXCEPT !.todo = live]]
    BY DEF ListInvites
  <2> HIDE DEF live
  <2> QED
    BY <1>1, <2>2, <2>3 DEF ListInvites, Goto, TypeOK, Local, files, history
<1>3. UNCHANGED <<leases, session, secrets, ended>>
  BY DEF ListInvites, files, history
<1>4. OperatorOK(o)'
  BY <1>1, <1>2, <1>3, SameLeases DEF ListInvites, Goto, TypeOK, OperatorOK, ModelOK, Carrying, Between, Tasks
<1> QED
  BY <1>2, <1>3, <1>4, QuietStep

LEMMA RecordInManifestInv == ASSUME IInv, NEW o \in Operators, RecordInManifest(o) PROVE IInv'
<1>1. TypeOK /\ OperatorOK(o)
  BY DEF IInv
<1>2. TypeOK' /\ Local(o) /\ pc'[o] # "lease"
  <2>1. PICK r \in {manifest, "open"} :
          task' = [task EXCEPT ![o] = [NoTask EXCEPT !.op = "record", !.says = r]]
    BY DEF RecordInManifest
  <2>2. r \in {"open", "closed", "failed"}
    BY <1>1 DEF RecordInManifest, TypeOK
  <2>3. /\ [NoTask EXCEPT !.op = "record", !.says = r] \in Tasks
        /\ [NoTask EXCEPT !.op = "record", !.says = r].before = {}
    BY <2>2 DEF NoTask, Tasks
  <2> QED
    BY <1>1, <2>1, <2>3 DEF RecordInManifest, Goto, TypeOK, Local, files, history
<1>3. UNCHANGED <<leases, session, secrets, ended>>
  BY DEF RecordInManifest, files, history
<1>4. OperatorOK(o)'
  BY <1>1, <1>2, <1>3, SameLeases DEF RecordInManifest, Goto, TypeOK, OperatorOK, ModelOK, Carrying, Between, NoTask, Tasks
<1> QED
  BY <1>2, <1>3, <1>4, QuietStep

LEMMA RebuildInv == ASSUME IInv, NEW o \in Operators, Rebuild(o) PROVE IInv'
<1>1. TypeOK /\ OperatorOK(o)
  BY DEF IInv
<1>2. TypeOK' /\ Local(o) /\ pc'[o] # "lease"
  BY <1>1 DEF Rebuild, Goto, TypeOK, Local, files, history, NoInvites, TornModel
<1>3. UNCHANGED <<leases, session, secrets, ended>>
  BY DEF Rebuild, files, history
<1>4. OperatorOK(o)'
  BY <1>1, <1>2, <1>3, SameLeases DEF Rebuild, Goto, TypeOK, OperatorOK, ModelOK, Carrying, Between, NoInvites, IInv, FilesOK
<1> QED
  BY <1>2, <1>3, <1>4, QuietStep

LEMMA MarkManifestInv == ASSUME IInv, NEW o \in Operators, MarkManifest(o) PROVE IInv'
<1>1. TypeOK /\ OperatorOK(o)
  BY DEF IInv
<1>2. TypeOK' /\ Local(o) /\ pc'[o] # "lease"
  BY <1>1 DEF MarkManifest, Goto, TypeOK, Local, history
<1>3. UNCHANGED <<leases, session, secrets, ended>>
  BY DEF MarkManifest, history
<1>4. OperatorOK(o)'
  BY <1>1, <1>2, <1>3, SameLeases DEF MarkManifest, Goto, TypeOK, OperatorOK, ModelOK, Carrying, Between
<1> QED
  BY <1>2, <1>3, <1>4, QuietStep

\* In a close one invite after the other is read again from the model.
LEMMA NextInviteInv == ASSUME IInv, NEW o \in Operators, NextInvite(o) PROVE IInv'
<1>1. TypeOK /\ OperatorOK(o) /\ task[o] \in Tasks /\ pc[o] = "next" /\ session # TornModel
  BY DEF IInv, TypeOK, NextInvite, Readable
<1>2. UNCHANGED <<leases, session, secrets, manifest, kept, ended, made>>
  BY DEF NextInvite, files, history
<1>3. PICK i \in task[o].todo :
        IF session[i] = "absent"
        THEN /\ task' = [task EXCEPT ![o].todo = @ \ {i}, ![o].says = "failed"]
             /\ UNCHANGED <<pc, copy>>
        ELSE /\ task' = [task EXCEPT ![o].todo = @ \ {i}, ![o].id = {i}]
             /\ copy' = [copy EXCEPT ![o] = session]
             /\ Goto(o, "stop")
  BY DEF NextInvite
<1>4. i \in Invites /\ task[o].todo \ {i} \in SUBSET Invites /\ {i} \in SUBSET Invites
  BY <1>1 DEF Tasks
<1>5. CASE session[i] = "absent"
  <2> DEFINE t == [[task[o] EXCEPT !.todo = task[o].todo \ {i}] EXCEPT !.says = "failed"]
  <2>1. t \in Tasks /\ t.before = task[o].before /\ t.id = task[o].id /\ t.op = task[o].op
    BY <1>1, <1>4 DEF Tasks
  <2>2. task' = [task EXCEPT ![o] = t] /\ UNCHANGED <<pc, copy>>
    BY <1>1, <1>3, <1>5 DEF Tasks
  <2> HIDE DEF t
  <2>3. TypeOK' /\ Local(o) /\ pc'[o] # "lease"
    BY <1>1, <1>2, <2>1, <2>2 DEF TypeOK, Local, TornModel
  <2>4. OperatorOK(o)'
    BY <1>1, <1>2, <2>1, <2>2, SameLeases DEF TypeOK, OperatorOK, ModelOK, Carrying, Between
  <2> QED
    BY <1>2, <2>3, <2>4, QuietStep
<1>6. CASE session[i] # "absent"
  <2> DEFINE t == [[task[o] EXCEPT !.todo = task[o].todo \ {i}] EXCEPT !.id = {i}]
  <2>1. t \in Tasks /\ t.before = task[o].before /\ t.id = {i}
    BY <1>1, <1>4 DEF Tasks
  <2>2. task' = [task EXCEPT ![o] = t] /\ pc' = [pc EXCEPT ![o] = "stop"]
        /\ copy' = [copy EXCEPT ![o] = session]
    BY <1>1, <1>3, <1>6 DEF Tasks, Goto
  <2> HIDE DEF t
  <2>3. TypeOK' /\ Local(o) /\ pc'[o] = "stop"
    BY <1>1, <1>2, <2>1, <2>2 DEF TypeOK, Local, TornModel
  <2>4. ModelOK(session) /\ Known(i)
    BY <1>1, <1>4, <1>6 DEF IInv, FilesOK, ModelOK
  <2>5. OperatorOK(o)'
    BY <1>1, <1>2, <2>1, <2>2, <2>4, SameLeases DEF TypeOK, OperatorOK, ModelOK, Carrying, Between
  <2> QED
    BY <1>2, <2>3, <2>5, QuietStep
<1> QED
  BY <1>5, <1>6

\* A clean-up keeps some of the records it loaded.
LEMMA SortRecordsInv == ASSUME IInv, NEW o \in Operators, SortRecords(o) PROVE IInv'
<1>1. TypeOK /\ OperatorOK(o) /\ task[o] \in Tasks /\ pc[o] = "sort" /\ task[o].op = "cleanup"
  BY DEF IInv, TypeOK, SortRecords, OperatorOK
<1>2. UNCHANGED <<leases, session, secrets, manifest, kept, ended, made>>
  BY DEF SortRecords, files, history
<1> DEFINE live == {i \in Invites : copy[o][i] = "live"}
           stale == {i \in live : Stale(o, i)}
           c == [i \in Invites |-> IF i \in live \ stale THEN "live" ELSE "absent"]
           t == [task[o] EXCEPT !.todo = stale]
<1>3. task' = [task EXCEPT ![o] = t] /\ copy' = [copy EXCEPT ![o] = c]
      /\ pc' = [pc EXCEPT ![o] = "truncate"]
  BY DEF SortRecords, Goto
<1>4. t \in Tasks /\ t.before = task[o].before /\ t.id = task[o].id /\ t.op = "cleanup"
  BY <1>1 DEF Tasks
<1>5. c \in [Invites -> Marks] /\ \A i \in Invites : c[i] = "absent" \/ (c[i] = "live" /\ copy[o][i] = "live")
  OBVIOUS
<1> HIDE DEF t, c
<1>6. TypeOK' /\ Local(o) /\ pc'[o] = "truncate"
  BY <1>1, <1>2, <1>3, <1>4, <1>5 DEF TypeOK, Local, TornModel
<1>7. OperatorOK(o)'
  BY <1>1, <1>2, <1>3, <1>4, <1>5, SameLeases DEF TypeOK, OperatorOK, ModelOK, Carrying, Between
<1> QED
  BY <1>2, <1>6, <1>7, QuietStep
-------------------------------------------------------------------------------
(* The steps that write a file.                                             *)

LEMMA TruncateInv == ASSUME IInv, NEW o \in Operators, Truncate(o) PROVE IInv'
<1>1. TypeOK /\ OperatorOK(o) /\ FilesOK /\ EndedOK
  BY DEF IInv
<1>2. TypeOK' /\ Local(o) /\ pc'[o] # "lease"
  BY <1>1 DEF Truncate, Goto, TypeOK, Local, history, TornModel
<1>3. UNCHANGED <<leases, secrets, ended>> /\ session' = TornModel
  BY DEF Truncate, history
<1>4. OperatorOK(o)'
  BY <1>1, <1>2, <1>3, SameLeases DEF Truncate, Goto, TypeOK, OperatorOK, ModelOK, Carrying, Between
<1>5. FilesOK' /\ EndedOK'
  BY <1>1, <1>3, SameLeases, EndedKept DEF FilesOK, TornModel
<1> QED
  BY <1>2, <1>3, <1>4, <1>5, PlainStep

LEMMA WriteInv == ASSUME IInv, NEW o \in Operators, Write(o) PROVE IInv'
<1>1. TypeOK /\ OperatorOK(o) /\ FilesOK /\ EndedOK
  BY DEF IInv
<1>2. UNCHANGED <<leases, secrets, manifest, ended, made>> /\ session' = copy[o] /\ pc[o] = "write"
  BY DEF Write, history
<1>3. FilesOK' /\ EndedOK'
  BY <1>1, <1>2, SameLeases, EndedKept DEF FilesOK, OperatorOK, ModelOK
<1>4. session' \in [Invites -> Marks]
  BY <1>1, <1>2 DEF TypeOK
<1>5. CASE Done(o)
  <2>1. /\ Local(o) /\ OperatorOK(o)' /\ pc'[o] = "idle" /\ task'[o] = NoTask
        /\ pc' \in [Operators -> Steps] /\ task' \in [Operators -> Tasks]
        /\ copy' \in [Operators -> [Invites -> Marks]]
        /\ kept' \in [Operators -> SUBSET Invites]
      /\ \A p \in Operators : task'[p].before \subseteq made
    BY <1>1, <1>5, DoneOK
  <2>2. TypeOK'
    BY <1>1, <1>2, <1>4, <2>1 DEF TypeOK, Local, NoTask
  <2> QED
    BY <1>2, <1>3, <2>1, <2>2, PlainStep
<1>6. CASE Goto(o, "secrets") /\ UNCHANGED <<task, copy, kept>>
  <2>1. TypeOK' /\ Local(o) /\ pc'[o] = "secrets"
    BY <1>1, <1>2, <1>4, <1>6 DEF Goto, TypeOK, Local
  <2>2. OperatorOK(o)'
    BY <1>1, <1>2, <1>6, <2>1, SameLeases DEF Goto, TypeOK, OperatorOK, ModelOK, Carrying, Between
  <2> QED
    BY <1>2, <1>3, <2>1, <2>2, PlainStep
<1> QED
  BY <1>5, <1>6 DEF Write

LEMMA LoadSecretsInv == ASSUME IInv, NEW o \in Operators, LoadSecrets(o) PROVE IInv'
<1>1. TypeOK /\ OperatorOK(o) /\ FilesOK /\ pc[o] = "secrets" /\ task[o] \in Tasks
  BY DEF IInv, TypeOK, LoadSecrets
<1>2. UNCHANGED <<leases, session, secrets, manifest, task, copy, ended, made>>
  BY DEF LoadSecrets, files, history
<1>3. Secrets(o) \subseteq Invites /\ \A i \in Secrets(o) : Known(i)
  BY <1>1 DEF Secrets, TypeOK, Tasks, OperatorOK, FilesOK
<1>4. PICK l \in {"revoke", "store"} :
        pc' = [pc EXCEPT ![o] = l] /\ kept' = [kept EXCEPT ![o] = Secrets(o)]
  BY DEF LoadSecrets, Goto
<1>5. TypeOK' /\ Local(o) /\ pc'[o] = l
  BY <1>1, <1>2, <1>3, <1>4 DEF TypeOK, Local, TornModel
<1>6. OperatorOK(o)'
  BY <1>1, <1>2, <1>3, <1>4, SameLeases DEF TypeOK, OperatorOK, ModelOK, Carrying, Between
<1> QED
  BY <1>2, <1>5, <1>6, QuietStep

LEMMA StoreSecretsInv == ASSUME IInv, NEW o \in Operators, StoreSecrets(o) PROVE IInv'
<1>1. TypeOK /\ OperatorOK(o) /\ FilesOK /\ EndedOK
  BY DEF IInv
<1>2. TypeOK' /\ Local(o) /\ pc'[o] # "lease"
  BY <1>1 DEF StoreSecrets, Goto, TypeOK, Local, history, TornModel
<1>3. UNCHANGED <<leases, session, ended>> /\ secrets' = kept[o]
  BY DEF StoreSecrets, history
<1>4. OperatorOK(o)'
  BY <1>1, <1>2, <1>3, SameLeases DEF StoreSecrets, Goto, TypeOK, OperatorOK, ModelOK, Carrying, Between
<1>5. FilesOK' /\ EndedOK'
  BY <1>1, <1>3, SameLeases, EndedKept DEF FilesOK, TornModel, OperatorOK, ModelOK
<1> QED
  BY <1>2, <1>3, <1>4, <1>5, PlainStep
-------------------------------------------------------------------------------
(* The steps that change a lease, and those that answer.                     *)

LEMMA CreateLeaseInv == ASSUME IInv, NEW o \in Operators, CreateLease(o) PROVE IInv'
<1>1. TypeOK /\ OperatorOK(o) /\ FilesOK /\ EndedOK /\ OneCreator /\ pc[o] = "lease"
  BY DEF IInv, CreateLease
<1>2. PICK i \in task[o].id, r \in {"no", "on"} :
        /\ leases' = [leases EXCEPT ![i].in = "file", ![i].renew = r]
        /\ copy' = [copy EXCEPT ![o][i] = "live"]
  BY DEF CreateLease
<1>3. UNCHANGED <<session, secrets, manifest, task, kept, ended, made>>
      /\ pc' = [pc EXCEPT ![o] = "truncate"]
  BY DEF CreateLease, Goto, history
<1>4. i \in Invites /\ ~Known(i) /\ task[o].op = "create" /\ task[o] \in Tasks
      /\ leases[i] \in Leases /\ copy[o] \in [Invites -> Marks]
  BY <1>1 DEF TypeOK, Tasks, OperatorOK
<1>5. leases' = [leases EXCEPT ![i] = [[leases[i] EXCEPT !.in = "file"] EXCEPT !.renew = r]]
  BY <1>1, <1>2, <1>4 DEF TypeOK, Leases
<1>6. [[leases[i] EXCEPT !.in = "file"] EXCEPT !.renew = r] \in Leases
  BY <1>4 DEF Leases
<1>7. /\ leases' \in [Invites -> Leases] /\ leases'[i].in = "file"
      /\ \A j \in Invites : j # i => leases'[j] = leases[j]
  BY <1>1, <1>4, <1>5, <1>6 DEF TypeOK, Leases
<1> DEFINE c == [copy[o] EXCEPT ![i] = "live"]
<1>8. copy' = [copy EXCEPT ![o] = c] /\ c \in [Invites -> Marks]
      /\ c[i] = "live" /\ \A j \in Invites : j # i => c[j] = copy[o][j]
  BY <1>1, <1>2, <1>4 DEF TypeOK
<1> HIDE DEF c
<1>9. TypeOK' /\ Local(o) /\ pc'[o] = "truncate"
  BY <1>1, <1>3, <1>7, <1>8 DEF TypeOK, Local, TornModel
<1>10. Later /\ Weaker
  BY <1>4, <1>7 DEF Later, Weaker, Known, RenewalOn, Usable
<1>11. \A j \in Invites : Known(j)' <=> Known(j) \/ j = i
  BY <1>4, <1>7 DEF Known
<1>12. \A p \in Operators \ {o} : pc[p] = "lease" => \A j \in task[p].id : ~Known(j)'
  <2> SUFFICES ASSUME NEW p \in Operators \ {o}, pc[p] = "lease", NEW j \in task[p].id
               PROVE  ~Known(j)'
    OBVIOUS
  <2>1. j \in Invites /\ ~Known(j)
    BY <1>1 DEF IInv, OperatorOK, TypeOK, Tasks
  <2>2. j # i
    BY <1>1 DEF OneCreator
  <2> QED
    BY <1>11, <2>1, <2>2
<1>13. \A j \in task[o].id : Known(j)'
  BY <1>1, <1>4, <1>11 DEF OperatorOK, Tasks
<1>14. OperatorOK(o)'
  <2>1. copy'[o] = c /\ task'[o] = task[o] /\ kept'[o] = kept[o] /\ kept[o] \subseteq Invites
    BY <1>1, <1>3, <1>8 DEF TypeOK
  <2>2. ModelOK(copy[o])'
    BY <1>1, <1>8, <1>10, <1>11, <2>1 DEF OperatorOK, ModelOK, Later
  <2>3. \A j \in kept'[o] : Known(j)'
    BY <1>1, <1>11, <2>1 DEF OperatorOK
  <2> QED
    BY <1>4, <1>9, <1>13, <2>1, <2>2, <2>3 DEF OperatorOK, Carrying, Between
<1>15. FilesOK' /\ EndedOK'
  BY <1>1, <1>3, <1>10, FilesKept, EndedKept
<1> QED
  BY <1>9, <1>10, <1>12, <1>14, <1>15, OneStep

\* The renewal ends before the record says so.
LEMMA StopRenewalInv == ASSUME IInv, NEW o \in Operators, StopRenewal(o) PROVE IInv'
<1>1. /\ TypeOK /\ OperatorOK(o) /\ FilesOK /\ EndedOK /\ pc[o] = "stop"
      /\ task[o] \in Tasks /\ copy[o] \in [Invites -> Marks]
  BY DEF IInv, StopRenewal, TypeOK
<1>2. UNCHANGED <<session, secrets, manifest, task, kept, ended, made>>
      /\ pc' = [pc EXCEPT ![o] = "truncate"]
  BY DEF StopRenewal, Goto, history
<1>3. \A i \in Invites :
        \/ leases'[i] = leases[i] /\ (i \in task[o].id => leases[i].renew = "no")
        \/ leases'[i] = [leases[i] EXCEPT !.renew = "stopped"]
  BY DEF StopRenewal
<1>4. \A i \in Invites :
        /\ leases'[i] \in Leases /\ leases'[i].in = leases[i].in
        /\ leases'[i].revoked = leases[i].revoked /\ leases'[i].expired = leases[i].expired
        /\ leases'[i].renew = "on" => leases[i].renew = "on" /\ i \notin task[o].id
  <2> TAKE i \in Invites
  <2>1. leases[i] \in Leases
    BY <1>1 DEF TypeOK
  <2>2. CASE leases'[i] = leases[i] /\ (i \in task[o].id => leases[i].renew = "no")
    BY <2>1, <2>2
  <2>3. CASE leases'[i] = [leases[i] EXCEPT !.renew = "stopped"]
    BY <2>1, <2>3 DEF Leases
  <2> QED
    BY <1>3, <2>2, <2>3
<1>5. leases' \in [Invites -> Leases]
  <2>1. leases' = [i \in Invites |-> leases'[i]]
    BY DEF StopRenewal
  <2> QED
    BY <1>4, <2>1
<1>6. Later /\ Weaker /\ \A i \in Invites : Known(i)' = Known(i)
  BY <1>4 DEF Later, Weaker, Known, RenewalOn, Usable
<1>7. \A i \in task[o].id : i \in Invites /\ ~RenewalOn(i)'
  BY <1>1, <1>4 DEF Tasks, RenewalOn
<1> DEFINE c == [i \in Invites |-> IF i \in task[o].id THEN "revoked" ELSE copy[o][i]]
<1>8. copy' = [copy EXCEPT ![o] = c]
  BY DEF StopRenewal
<1>9. c \in [Invites -> Marks]
      /\ \A i \in Invites : c[i] = IF i \in task[o].id THEN "revoked" ELSE copy[o][i]
  BY <1>1
<1> HIDE DEF c
<1>10. TypeOK' /\ Local(o) /\ pc'[o] = "truncate"
  BY <1>1, <1>2, <1>5, <1>8, <1>9 DEF TypeOK, Local, TornModel
<1>11. \A p \in Operators \ {o} : pc[p] = "lease" => \A i \in task[p].id : ~Known(i)'
  <2> SUFFICES ASSUME NEW p \in Operators \ {o}, pc[p] = "lease", NEW i \in task[p].id
               PROVE  ~Known(i)'
    OBVIOUS
  <2>1. i \in Invites /\ ~Known(i)
    BY <1>1 DEF IInv, OperatorOK, TypeOK, Tasks
  <2> QED
    BY <1>6, <2>1
<1>12. OperatorOK(o)'
  <2>1. copy'[o] = c /\ task'[o] = task[o] /\ kept'[o] = kept[o] /\ kept[o] \subseteq Invites
    BY <1>1, <1>2, <1>8 DEF TypeOK
  <2>2. ModelOK(copy[o])'
    <3>1. SUFFICES ASSUME NEW i \in Invites
                   PROVE  /\ c[i] # "absent" => Known(i)'
                          /\ c[i] = "revoked" => ~RenewalOn(i)'
      BY <2>1 DEF ModelOK
    <3>2. CASE i \in task[o].id
      <4>1. Known(i) /\ ~RenewalOn(i)'
        BY <1>1, <1>7, <3>2 DEF OperatorOK
      <4> QED
        BY <1>6, <4>1
    <3>3. CASE i \notin task[o].id
      <4>1. c[i] = copy[o][i]
        BY <1>9, <3>3
      <4> QED
        BY <1>1, <1>6, <4>1 DEF OperatorOK, ModelOK, Later
    <3> QED
      BY <3>2, <3>3
  <2>3. \A i \in kept'[o] : Known(i)'
    BY <1>1, <1>6, <2>1 DEF OperatorOK
  <2>4. \A i \in task'[o].id : Known(i)'
    BY <1>1, <1>6, <1>7, <2>1 DEF OperatorOK
  <2> QED
    BY <1>7, <1>10, <2>1, <2>2, <2>3, <2>4 DEF OperatorOK, Carrying, Between
<1>13. FilesOK' /\ EndedOK'
  BY <1>1, <1>2, <1>6, FilesKept, EndedKept
<1> QED
  BY <1>6, <1>10, <1>11, <1>12, <1>13, OneStep

LEMMA RevokeLeaseInv == ASSUME IInv, NEW o \in Operators, RevokeLease(o) PROVE IInv'
<1>1. /\ TypeOK /\ OperatorOK(o) /\ FilesOK /\ EndedOK /\ pc[o] = "revoke"
      /\ task[o] \in Tasks
  BY DEF IInv, RevokeLease, TypeOK
<1>2. UNCHANGED <<session, secrets, manifest, made>>
  BY DEF RevokeLease
<1>3. PICK i \in IF task[o].op = "cleanup" THEN task[o].todo ELSE task[o].id :
        /\ task[o].op \in {"revoke", "close", "cleanup"}
        /\ leases' = [leases EXCEPT ![i] = RevokedLease(@)]
        /\ IF task[o].op = "cleanup"
           THEN task' = [task EXCEPT ![o].todo = @ \ {i}] /\ UNCHANGED <<pc, copy, kept, ended>>
           ELSE /\ ended' = [ended EXCEPT ![i] = "all"]
                /\ IF task[o].op = "revoke" THEN Done(o)
                   ELSE /\ task' = [task EXCEPT ![o].id = {}]
                        /\ Goto(o, "next") /\ UNCHANGED <<copy, kept>>
  BY DEF RevokeLease
<1>4. i \in Invites /\ (task[o].op # "cleanup" => Known(i))
  BY <1>1, <1>3 DEF Tasks, OperatorOK
<1>5. /\ leases' \in [Invites -> Leases]
      /\ \A j \in Invites : j # i => leases'[j] = leases[j]
      /\ leases'[i].in = leases[i].in /\ leases'[i].renew = leases[i].renew
      /\ leases'[i].expired = leases[i].expired
      /\ leases'[i].in = "file" => leases'[i].revoked
  <2>1. leases[i] \in Leases
    BY <1>1, <1>4 DEF TypeOK
  <2>2. /\ RevokedLease(leases[i]) \in Leases
        /\ RevokedLease(leases[i]).in = leases[i].in
        /\ RevokedLease(leases[i]).renew = leases[i].renew
        /\ RevokedLease(leases[i]).expired = leases[i].expired
        /\ RevokedLease(leases[i]).in = "file" => RevokedLease(leases[i]).revoked = TRUE
    BY <2>1 DEF RevokedLease, Leases
  <2>3. leases' = [leases EXCEPT ![i] = RevokedLease(leases[i])]
    BY <1>3
  <2> QED
    BY <1>1, <1>4, <2>2, <2>3 DEF TypeOK
<1>6. Later /\ Weaker /\ (\A j \in Invites : Known(j)' = Known(j))
      /\ ~RenewalOn(i)' /\ ~Usable(i)'
  BY <1>4, <1>5 DEF Later, Weaker, Known, RenewalOn, Usable
<1>7. \A p \in Operators \ {o} : pc[p] = "lease" => \A j \in task[p].id : ~Known(j)'
  <2> SUFFICES ASSUME NEW p \in Operators \ {o}, pc[p] = "lease", NEW j \in task[p].id
               PROVE  ~Known(j)'
    OBVIOUS
  <2>1. j \in Invites /\ ~Known(j)
    BY <1>1 DEF IInv, OperatorOK, TypeOK, Tasks
  <2> QED
    BY <1>6, <2>1
<1>8. FilesOK'
  BY <1>1, <1>2, <1>6, FilesKept
<1>9. CASE task[o].op = "cleanup"
  <2> DEFINE t == [task[o] EXCEPT !.todo = task[o].todo \ {i}]
  <2>1. t \in Tasks /\ t.before = task[o].before /\ t.id = task[o].id /\ t.op = task[o].op
    BY <1>1 DEF Tasks
  <2>2. task' = [task EXCEPT ![o] = t] /\ UNCHANGED <<pc, copy, kept, ended>>
    BY <1>1, <1>3, <1>9 DEF Tasks
  <2> HIDE DEF t
  <2>3. TypeOK' /\ Local(o)
    BY <1>1, <1>2, <1>5, <2>1, <2>2 DEF TypeOK, Local, TornModel
  <2>4. OperatorOK(o)'
    BY <1>1, <1>6, <2>1, <2>2, OthersKept DEF TypeOK
  <2>5. EndedOK'
    BY <1>1, <1>6, <2>2, EndedKept
  <2> QED
    BY <1>1, <1>6, <1>7, <1>8, <2>2, <2>3, <2>4, <2>5, OneStep
<1>10. CASE task[o].op # "cleanup"
  <2>1. ended' = [ended EXCEPT ![i] = "all"] /\ Known(i)
    BY <1>3, <1>4, <1>10
  <2>2. ended' \in [Invites -> {"no", "kept", "all"}]
        /\ ended'[i] = "all" /\ \A j \in Invites : j # i => ended'[j] = ended[j]
    BY <1>1, <1>4, <2>1 DEF TypeOK
  <2>3. EndedOK'
    BY <1>1, <1>4, <1>6, <2>1, <2>2 DEF EndedOK, Later, Weaker
  <2>4. CASE Done(o)
    <3>1. /\ Local(o) /\ OperatorOK(o)' /\ pc'[o] = "idle" /\ task'[o] = NoTask
          /\ pc' \in [Operators -> Steps] /\ task' \in [Operators -> Tasks]
          /\ copy' \in [Operators -> [Invites -> Marks]]
          /\ kept' \in [Operators -> SUBSET Invites]
        /\ \A p \in Operators : task'[p].before \subseteq made
      BY <1>1, <2>4, DoneOK
    <3>2. TypeOK'
      BY <1>1, <1>2, <1>5, <2>2, <3>1 DEF TypeOK, Local, NoTask, TornModel
    <3> QED
      BY <1>6, <1>7, <1>8, <2>3, <3>1, <3>2, OneStep
  <2>5. CASE task' = [task EXCEPT ![o].id = {}] /\ Goto(o, "next") /\ UNCHANGED <<copy, kept>>
    <3> DEFINE t == [task[o] EXCEPT !.id = {}]
    <3>1. t \in Tasks /\ t.before = task[o].before /\ t.id = {}
      BY <1>1 DEF Tasks
    <3>2. task' = [task EXCEPT ![o] = t] /\ pc' = [pc EXCEPT ![o] = "next"]
      BY <2>5 DEF Goto
    <3> HIDE DEF t
    <3>3. TypeOK' /\ Local(o) /\ pc'[o] = "next"
      BY <1>1, <1>2, <1>5, <2>2, <2>5, <3>1, <3>2 DEF TypeOK, Local, TornModel
    <3>4. ModelOK(copy[o])'
      BY <1>1, <1>6, <2>5 DEF OperatorOK, ModelOK, Later
    <3>5. \A j \in kept'[o] : Known(j)'
      BY <1>1, <1>6, <2>5 DEF OperatorOK, TypeOK
    <3>6. task'[o].id = {}
      BY <1>1, <3>1, <3>2 DEF TypeOK
    <3>7. OperatorOK(o)'
      BY <3>3, <3>4, <3>5, <3>6 DEF OperatorOK, Carrying, Between
    <3> QED
      BY <1>6, <1>7, <1>8, <2>3, <3>3, <3>7, OneStep
  <2> QED
    BY <1>3, <1>10, <2>4, <2>5
<1> QED
  BY <1>9, <1>10

LEMMA AnswerInv == ASSUME IInv, NEW o \in Operators, Answer(o) PROVE IInv'
<1>1. TypeOK /\ OperatorOK(o) /\ FilesOK /\ EndedOK /\ task[o] \in Tasks
  BY DEF IInv, TypeOK
<1>2. UNCHANGED <<leases, session, secrets, manifest>> /\ pc[o] = "revoke"
  BY DEF Answer, files
<1>3. /\ Local(o) /\ OperatorOK(o)' /\ pc'[o] = "idle" /\ task'[o] = NoTask
      /\ pc' \in [Operators -> Steps] /\ task' \in [Operators -> Tasks]
      /\ copy' \in [Operators -> [Invites -> Marks]]
      /\ kept' \in [Operators -> SUBSET Invites]
      /\ \A p \in Operators : task'[p].before \subseteq made
  BY <1>1, DoneOK DEF Answer
<1>4. /\ ended' \in [Invites -> {"no", "kept", "all"}]
      /\ made \subseteq made' /\ made' \subseteq Invites
      /\ \A i \in Invites : ended'[i] = ended[i] \/ (ended'[i] = "kept" /\ i \in task[o].id
                                                     /\ task[o].op = "revoke")
  BY <1>1 DEF Answer, TypeOK, Tasks, history
<1>5. TypeOK'
  BY <1>1, <1>2, <1>3, <1>4 DEF TypeOK, Local, NoTask, TornModel
<1>6. \A i \in task[o].id : Known(i) /\ (task[o].op = "revoke" => ~RenewalOn(i))
  BY <1>1, <1>2 DEF OperatorOK, Carrying
<1>7. FilesOK' /\ EndedOK'
  BY <1>1, <1>2, <1>4, <1>6, SameLeases, FilesKept DEF EndedOK
<1> QED
  BY <1>2, <1>3, <1>5, <1>7, PlainStep

\* A failure, or the end of the process: what is written stays, the rest is gone.
LEMMA GiveUpInv == ASSUME IInv, NEW o \in Operators, Fail(o) \/ Crash(o) PROVE IInv'
<1>1. TypeOK /\ Done(o) /\ UNCHANGED <<files, history>>
  BY DEF IInv, Fail, Crash
<1>2. /\ Local(o) /\ OperatorOK(o)' /\ pc'[o] = "idle" /\ task'[o] = NoTask
      /\ pc' \in [Operators -> Steps] /\ task' \in [Operators -> Tasks]
      /\ copy' \in [Operators -> [Invites -> Marks]]
      /\ kept' \in [Operators -> SUBSET Invites]
      /\ \A p \in Operators : task'[p].before \subseteq made
  BY <1>1, DoneOK
<1>3. UNCHANGED <<leases, session, secrets, manifest, ended, made>>
  BY <1>1 DEF files, history
<1>4. TypeOK'
  BY <1>1, <1>2, <1>3 DEF TypeOK, Local, NoTask, TornModel
<1> QED
  BY <1>2, <1>3, <1>4, QuietStep
-------------------------------------------------------------------------------
LEMMA OperatorSteps == ASSUME IInv, NEW o \in Operators, Step(o) PROVE IInv'
BY CreateInv, CreateLeaseInv, RevokeInv, StopRenewalInv, CleanupInv, ScanSecretsInv,
   SortRecordsInv, CloseInv, ListInvitesInv, NextInviteInv, ClosingInv, TouchInv,
   RecordInManifestInv, MarkManifestInv, SignManifestInv, RebuildInv, TruncateInv,
   WriteInv, LoadSecretsInv, StoreSecretsInv, RevokeLeaseInv, AnswerInv, GiveUpInv
   DEF Step

LEMMA StutterInv == ASSUME IInv, UNCHANGED vars PROVE IInv'
<1>1. UNCHANGED <<leases, session, secrets, manifest, pc, task, copy, kept, ended, made>>
  BY DEF vars
<1>2. Later /\ Weaker /\ \A i : Known(i)' = Known(i)
  BY <1>1, SameLeases
<1>3. TypeOK'
  BY <1>1 DEF IInv, TypeOK, TornModel
<1>4. \A p \in Operators : OperatorOK(p)'
  <2> TAKE p \in Operators
  <2>1. TypeOK /\ OperatorOK(p) /\ (pc[p] = "lease" => \A i \in task[p].id : ~Known(i)')
    BY <1>2 DEF IInv, OperatorOK
  <2> QED
    BY <1>1, <1>2, <2>1, OthersKept
<1>5. OneCreator'
  BY <1>1 DEF IInv, OneCreator
<1>6. FilesOK' /\ EndedOK'
  BY <1>1, <1>2, FilesKept, EndedKept DEF IInv
<1> QED
  BY <1>3, <1>4, <1>5, <1>6 DEF IInv

LEMMA NextInv == IInv /\ [Next]_vars => IInv'
<1> SUFFICES ASSUME IInv, [Next]_vars PROVE IInv'
  OBVIOUS
<1>1. CASE \E i \in Invites : Renew(i) \/ Expire(i) \/ RevokeShareLease(i) \/ Reactivate(i)
  BY <1>1, LeaseSteps
<1>2. CASE CleanupLeases
  <2>1. CASE Invites = {}
    <3>1. leases' = leases /\ UNCHANGED <<session, secrets, manifest, pc, task, copy, kept, history>>
      <4>1. leases = [i \in Invites |-> leases[i]]
        BY DEF IInv, TypeOK
      <4>2. leases' = [i \in Invites |-> leases[i]]
        BY <1>2, <2>1 DEF CleanupLeases
      <4> QED
        BY <1>2, <4>1, <4>2 DEF CleanupLeases
    <3> QED
      BY <3>1, StutterInv DEF vars, history
  <2>2. CASE Invites # {}
    BY <1>2, <2>2, LeaseSteps
  <2> QED
    BY <2>1, <2>2
<1>3. CASE \E o \in Operators : Step(o)
  BY <1>3, OperatorSteps
<1>4. CASE UNCHANGED vars
  BY <1>4, StutterInv
<1> QED
  BY <1>1, <1>2, <1>3, <1>4 DEF Next

\* The invariant holds in every behaviour, whatever is read, written back or cut off.
THEOREM Invariance == Spec => []IInv
BY InitInv, NextInv, PTL DEF Spec

\* The files, the operations in progress and the history stay of their types.
THEOREM TypeCorrect == Spec => []TypeOK
<1>1. IInv => TypeOK
  BY DEF IInv
<1> QED
  BY <1>1, Invariance, PTL

\* A revocation that was answered stands for good: no copy of the session model or
\* of the secrets that another operator writes back gives the invite its renewal.
THEOREM RevokedForGoodHolds == Spec => []RevokedForGood
<1>1. IInv => RevokedForGood
  BY DEF IInv, EndedOK, RevokedForGood
<1> QED
  BY <1>1, Invariance, PTL

\* Neither the session model nor the secret store is ever ahead of the leases, with
\* any number of operators and after a crash between any two writes.
THEOREM FilesInOrderHolds == Spec => []FilesInOrder
<1>1. IInv => FilesInOrder
  BY DEF IInv, FilesOK, ModelOK, Known, FilesInOrder
<1> QED
  BY <1>1, Invariance, PTL
================================================================================
