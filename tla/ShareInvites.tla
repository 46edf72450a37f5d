------------------------------ MODULE ShareInvites ------------------------------
(***************************************************************************)
(* The invites of a share (snulbug/share.py, share_session.py).  An invite    *)
(* is spread over four files: its lease in the lease file, its record in the   *)
(* session model, its credentials in the secret store, and the state of the    *)
(* whole share in the manifest.  Console threads and CLI processes change them  *)
(* with no lock but the lease file's.                                         *)
(*                                                                          *)
(* A step is one access to one file.  The lease file and the secret store are   *)
(* replaced whole; the session model and the manifest are opened for writing    *)
(* first, and who reads one then, or after a writer died there, gets an error. *)
(* A lease is ToolLease's, reduced to whether it can be used and renewed.  The  *)
(* invites of a share without renewal are told apart by their lease.          *)
(***************************************************************************)
EXTENDS Integers

CONSTANTS Invites, Operators, Crashes

ASSUME ShareInvitesAssumption == Crashes \in BOOLEAN

VARIABLES leases,   \* leases.json, by invite
          session,  \* session.json: what became of each invite, or torn
          secrets,  \* invite-secrets.json: whose credentials it has
          manifest, \* share.json: the state of the share, or torn
          pc,       \* where each operator is
          task,     \* what it does
          copy,     \* the session model it loaded, and changes
          kept,     \* the secret store it loaded, and changes
          ended,    \* history: revocations that were answered
          made      \* history: invites that were answered

vars == <<leases, session, secrets, manifest, pc, task, copy, kept, ended, made>>
files == <<leases, session, secrets, manifest>>
history == <<ended, made>>

\* in: not there yet, there, or cleaned up.  renew: the renewal authorization.
NoLease == [in |-> "none", renew |-> "no", revoked |-> FALSE, expired |-> FALSE]
Leases == [in : {"none", "file", "gone"}, renew : {"no", "on", "over", "stopped"},
           revoked : BOOLEAN, expired : BOOLEAN]

Marks == {"absent", "live", "revoked"}
Torn == "torn"
TornModel == [i \in Invites |-> Torn]
NoInvites == [i \in Invites |-> "absent"]

\* id: the invite; keep: --keep-lease; todo: leases to revoke, or invites of a
\* close; says: the state for the manifest; before: what a close must end (history).
NoTask == [op |-> "none", id |-> {}, keep |-> FALSE, todo |-> {}, says |-> "open", before |-> {}]

Tasks == [op : {"none", "create", "revoke", "cleanup", "close", "touch", "record"},
          id : SUBSET Invites, keep : BOOLEAN, todo : SUBSET Invites,
          says : {"open", "closed", "failed"}, before : SUBSET Invites]

Steps == {"idle", "lease", "stop", "scan", "sort", "truncate", "write", "secrets", "store",
          "revoke", "list", "next", "mark", "sign", "rebuild"}

TypeOK ==
  /\ leases \in [Invites -> Leases]
  /\ session = TornModel \/ session \in [Invites -> Marks]
  /\ secrets \subseteq Invites
  /\ manifest \in {"open", "closed", "failed", Torn}
  /\ pc \in [Operators -> Steps]
  /\ task \in [Operators -> Tasks]
  /\ \A o \in Operators : task[o].before \subseteq made
  /\ copy \in [Operators -> [Invites -> Marks]]
  /\ kept \in [Operators -> SUBSET Invites]
  /\ ended \in [Invites -> {"no", "kept", "all"}] /\ made \subseteq Invites

Init ==
  /\ leases = [i \in Invites |-> NoLease] /\ session = NoInvites
  /\ secrets = {} /\ manifest = "open"
  /\ pc = [o \in Operators |-> "idle"] /\ task = [o \in Operators |-> NoTask]
  /\ copy = [o \in Operators |-> NoInvites] /\ kept = [o \in Operators |-> {}]
  /\ ended = [i \in Invites |-> "no"] /\ made = {}

\* _load_share_model_context: both files are read.
Readable == session # TornModel /\ manifest # Torn

Usable(i) == leases[i].in = "file" /\ ~leases[i].revoked /\ ~leases[i].expired
RenewalOn(i) == leases[i].in = "file" /\ ~leases[i].revoked /\ leases[i].renew = "on"

Goto(o, l) == pc' = [pc EXCEPT ![o] = l]

\* The operation answers, or fails.
Done(o) ==
  /\ Goto(o, "idle")
  /\ task' = [task EXCEPT ![o] = NoTask]
  /\ copy' = [copy EXCEPT ![o] = NoInvites]
  /\ kept' = [kept EXCEPT ![o] = {}]

\* An operation begins by loading the session model, if it can be read.
Begin(o, t, l) ==
  /\ pc[o] = "idle" /\ Readable
  /\ task' = [task EXCEPT ![o] = t]
  /\ copy' = [copy EXCEPT ![o] = session]
  /\ Goto(o, l)
  /\ UNCHANGED <<files, kept, history>>
-------------------------------------------------------------------------------
(* The leases, by the gateway, time, and the lease commands.                  *)

\* A bot renews its lease.
Renew(i) ==
  /\ RenewalOn(i)
  /\ leases' = [leases EXCEPT ![i].expired = FALSE]
  /\ UNCHANGED <<session, secrets, manifest, pc, task, copy, kept, history>>

\* The lease expires; or the renewal authorization does, and the lease with it.
Expire(i) ==
  /\ leases[i].in = "file" /\ ~leases[i].expired
  /\ \E r \in {leases[i].renew} \cup (IF leases[i].renew = "on" THEN {"over"} ELSE {}) :
       leases' = [leases EXCEPT ![i].expired = TRUE, ![i].renew = r]
  /\ UNCHANGED <<session, secrets, manifest, pc, task, copy, kept, history>>

RevokedLease(l) == IF l.in = "file" THEN [l EXCEPT !.revoked = TRUE] ELSE l

\* revoke_mcp_share_lease
RevokeShareLease(i) ==
  /\ Readable /\ leases[i].in = "file"
  /\ leases' = [leases EXCEPT ![i] = RevokedLease(@)]
  /\ UNCHANGED <<session, secrets, manifest, pc, task, copy, kept, history>>

\* reactivate_mcp_share_lease refuses a renewable lease.
Reactivate(i) ==
  /\ Readable /\ leases[i].in = "file" /\ leases[i].renew = "no"
  /\ leases' = [leases EXCEPT ![i].revoked = FALSE, ![i].expired = FALSE]
  /\ ended' = [ended EXCEPT ![i] = "no"]
  /\ made' = made \ {i}
  /\ task' = [o \in Operators |-> [task[o] EXCEPT !.before = @ \ {i}]]
  /\ UNCHANGED <<session, secrets, manifest, pc, copy, kept>>

\* cleanup_mcp_share_leases
CleanupLeases ==
  /\ Readable
  /\ leases' = [i \in Invites |->
                  IF leases[i].in = "file" /\ ~Usable(i) /\ ~RenewalOn(i)
                  THEN [NoLease EXCEPT !.in = "gone"] ELSE leases[i]]
  /\ UNCHANGED <<session, secrets, manifest, pc, task, copy, kept, history>>
-------------------------------------------------------------------------------
(* The parts of an operation.                                                *)

\* write_share_session_model
Truncate(o) ==
  /\ pc[o] = "truncate"
  /\ session' = TornModel
  /\ Goto(o, "write")
  /\ UNCHANGED <<leases, secrets, manifest, task, copy, kept, history>>

Write(o) ==
  /\ pc[o] = "write"
  /\ session' = copy[o]
  /\ IF task[o].op \in {"touch", "record", "close"} /\ task[o].id = {}
     THEN Done(o)
     ELSE Goto(o, "secrets") /\ UNCHANGED <<task, copy, kept>>
  /\ UNCHANGED <<leases, secrets, manifest, history>>

\* The secrets an operation leaves: a new invite's are added, a revoked one's
\* taken out, and a clean-up keeps those of the records it keeps.
Secrets(o) ==
  CASE task[o].op = "create" -> secrets \cup task[o].id
    [] task[o].op = "cleanup" -> {i \in secrets : copy[o][i] = "live"}
    [] OTHER -> secrets \ task[o].id

LoadSecrets(o) ==
  /\ pc[o] = "secrets"
  /\ kept' = [kept EXCEPT ![o] = Secrets(o)]
  /\ Goto(o, IF Secrets(o) = secrets THEN "revoke" ELSE "store")
  /\ UNCHANGED <<files, task, copy, history>>

StoreSecrets(o) ==
  /\ pc[o] = "store"
  /\ secrets' = kept[o]
  /\ Goto(o, "revoke")
  /\ UNCHANGED <<leases, session, manifest, task, copy, kept, history>>

\* The leases that the operation ends, each after another look at the model.
RevokeLease(o) ==
  /\ pc[o] = "revoke" /\ Readable
  /\ \E i \in IF task[o].op = "cleanup" THEN task[o].todo ELSE task[o].id :
       /\ task[o].op \in {"revoke", "close", "cleanup"} /\ ~task[o].keep
       /\ leases' = [leases EXCEPT ![i] = RevokedLease(@)]
       /\ IF task[o].op = "cleanup"
          THEN task' = [task EXCEPT ![o].todo = @ \ {i}] /\ UNCHANGED <<pc, copy, kept, ended>>
          ELSE /\ ended' = [ended EXCEPT ![i] = "all"]
               /\ IF task[o].op = "revoke" THEN Done(o)
                  ELSE /\ task' = [task EXCEPT ![o].id = {}]
                       /\ Goto(o, "next") /\ UNCHANGED <<copy, kept>>
  /\ UNCHANGED <<session, secrets, manifest, made>>

\* There is none (left): the operation answers.
Answer(o) ==
  /\ pc[o] = "revoke"
  /\ \/ task[o].op = "create" /\ made' = made \cup task[o].id /\ UNCHANGED ended
     \/ task[o].op = "cleanup" /\ task[o].todo = {} /\ UNCHANGED history
     \/ /\ task[o].op = "revoke" /\ task[o].keep /\ UNCHANGED made
        /\ ended' = [i \in Invites |-> IF i \in task[o].id THEN "kept" ELSE ended[i]]
  /\ Done(o)
  /\ UNCHANGED files
-------------------------------------------------------------------------------
(* The operations.                                                          *)

\* create_mcp_share_invite
Create(o) ==
  \E i \in Invites :
    /\ leases[i].in = "none" /\ \A p \in Operators : i \notin task[p].id
    /\ Begin(o, [NoTask EXCEPT !.op = "create", !.id = {i}], "lease")

\* Mutant: the lease is not saved.
CreateLease_Unsaved(o) ==
  /\ pc[o] = "lease" /\ Readable
  /\ copy' = [copy EXCEPT ![o] = [i \in Invites |-> IF i \in task[o].id THEN "live" ELSE @[i]]]
  /\ Goto(o, "truncate")
  /\ UNCHANGED <<files, task, kept, history>>

CreateLease(o) ==
  /\ pc[o] = "lease" /\ Readable
  /\ \E i \in task[o].id, r \in {"no", "on"} :
       /\ leases' = [leases EXCEPT ![i].in = "file", ![i].renew = r]
       /\ copy' = [copy EXCEPT ![o][i] = "live"]
  /\ Goto(o, "truncate")
  /\ UNCHANGED <<session, secrets, manifest, task, kept, history>>

\* revoke_mcp_share_invite, of an invite that the model has.
Revoke(o) ==
  \E i \in Invites, k \in BOOLEAN :
    /\ session # TornModel /\ session[i] # "absent"
    /\ Begin(o, [NoTask EXCEPT !.op = "revoke", !.id = {i}, !.keep = k], "stop")

\* Mutant: the renewal is ended with the lease, and kept with it.
StopRenewal_WithLease(o) ==
  /\ pc[o] = "stop"
  /\ leases' = [i \in Invites |->
                  IF i \in task[o].id /\ leases[i].renew # "no" /\ ~task[o].keep
                  THEN [leases[i] EXCEPT !.renew = "stopped"] ELSE leases[i]]
  /\ copy' = [copy EXCEPT ![o] = [i \in Invites |-> IF i \in task[o].id THEN "revoked" ELSE @[i]]]
  /\ Goto(o, "truncate")
  /\ UNCHANGED <<session, secrets, manifest, task, kept, history>>

\* revoke_invite_renewal, before the record says so.
StopRenewal(o) ==
  /\ pc[o] = "stop"
  /\ leases' = [i \in Invites |->
                  IF i \in task[o].id /\ leases[i].renew # "no"
                  THEN [leases[i] EXCEPT !.renew = "stopped"] ELSE leases[i]]
  /\ copy' = [copy EXCEPT ![o] = [i \in Invites |-> IF i \in task[o].id THEN "revoked" ELSE @[i]]]
  /\ Goto(o, "truncate")
  /\ UNCHANGED <<session, secrets, manifest, task, kept, history>>

\* cleanup_mcp_share_invites, as the console calls it
Cleanup(o) == Begin(o, [NoTask EXCEPT !.op = "cleanup"], "scan")

ScanSecrets(o) ==
  /\ pc[o] = "scan"
  /\ kept' = [kept EXCEPT ![o] = secrets]
  /\ Goto(o, "sort")
  /\ UNCHANGED <<files, task, copy, history>>

\* _share_invite_is_stale
Stale(o, i) == i \notin kept[o] \/ ~(Usable(i) \/ RenewalOn(i))

SortRecords(o) ==
  /\ pc[o] = "sort"
  /\ LET live == {i \in Invites : copy[o][i] = "live"}
         stale == {i \in live : Stale(o, i)}
     IN  /\ task' = [task EXCEPT ![o].todo = stale]
         /\ copy' = [copy EXCEPT ![o] = [i \in Invites |->
                                           IF i \in live \ stale THEN "live" ELSE "absent"]]
  /\ Goto(o, "truncate")
  /\ UNCHANGED <<files, kept, history>>

\* close_mcp_share: the manifest is read (and the share's own lease revoked) ...
Close(o) ==
  /\ pc[o] = "idle" /\ manifest # Torn
  /\ task' = [task EXCEPT ![o] = [NoTask EXCEPT !.op = "close", !.says = "closed",
                                                !.before = made]]
  /\ Goto(o, "list")
  /\ UNCHANGED <<files, copy, kept, history>>

\* ... then the invites listed ...
ListInvites(o) ==
  /\ pc[o] = "list" /\ Readable
  /\ task' = [task EXCEPT ![o].todo = {i \in Invites : session[i] = "live"}]
  /\ Goto(o, "next")
  /\ UNCHANGED <<files, copy, kept, history>>

\* ... and revoked one after the other; one that is not there any more fails ...
NextInvite(o) ==
  /\ pc[o] = "next" /\ Readable
  /\ \E i \in task[o].todo :
       IF session[i] = "absent"
       THEN /\ task' = [task EXCEPT ![o].todo = @ \ {i}, ![o].says = "failed"]
            /\ UNCHANGED <<pc, copy>>
       ELSE /\ task' = [task EXCEPT ![o].todo = @ \ {i}, ![o].id = {i}]
            /\ copy' = [copy EXCEPT ![o] = session]
            /\ Goto(o, "stop")
  /\ UNCHANGED <<files, kept, history>>

\* ... and the manifest says how it went.
Closing(o) ==
  /\ pc[o] = "next" /\ task[o].todo = {}
  /\ Goto(o, "mark")
  /\ UNCHANGED <<files, task, copy, kept, history>>

\* What writes back the whole session model for another part of it: capability
\* reviews, the readiness review, the start of the share.
Touch(o) == Begin(o, [NoTask EXCEPT !.op = "touch"], "truncate")

\* What writes the manifest, and from it the session model: the doctor, the start
\* of the share, a new URL, a contract; or a member or an amendment, with the
\* state of the manifest as it was loaded.
RecordInManifest(o) ==
  /\ pc[o] = "idle" /\ manifest # Torn
  /\ \E s \in {manifest, "open"} :
       task' = [task EXCEPT ![o] = [NoTask EXCEPT !.op = "record", !.says = s]]
  /\ Goto(o, "mark")
  /\ UNCHANGED <<files, copy, kept, history>>

\* _update_share_manifest
MarkManifest(o) ==
  /\ pc[o] = "mark" /\ (task[o].op = "close" => manifest # Torn)
  /\ manifest' = Torn
  /\ Goto(o, "sign")
  /\ UNCHANGED <<leases, session, secrets, task, copy, kept, history>>

SignManifest(o) ==
  /\ pc[o] = "sign"
  /\ manifest' = task[o].says
  /\ Goto(o, "rebuild")
  /\ UNCHANGED <<leases, session, secrets, task, copy, kept, history>>

\* update_share_session_model keeps the invites of the model, if it can be read.
Rebuild(o) ==
  /\ pc[o] = "rebuild"
  /\ copy' = [copy EXCEPT ![o] = IF session = TornModel THEN NoInvites ELSE session]
  /\ Goto(o, "truncate")
  /\ UNCHANGED <<files, task, kept, history>>

\* A file cannot be read in the middle of an operation.
Fail(o) ==
  /\ \/ pc[o] \in {"lease", "list", "next"} /\ ~Readable
     \/ pc[o] = "mark" /\ task[o].op = "close" /\ manifest = Torn
     \/ pc[o] = "revoke" /\ ~Readable /\ ~task[o].keep
        /\ (task[o].op \in {"revoke", "close"} \/ task[o].todo # {})
  /\ Done(o)
  /\ UNCHANGED <<files, history>>

\* The operator's process dies, or an error ends the operation, anywhere.
Crash(o) ==
  /\ Crashes /\ pc[o] # "idle"
  /\ Done(o)
  /\ UNCHANGED <<files, history>>

Step(o) ==
  \/ Create(o) \/ CreateLease(o) \/ Revoke(o) \/ StopRenewal(o)
  \/ Cleanup(o) \/ ScanSecrets(o) \/ SortRecords(o)
  \/ Close(o) \/ ListInvites(o) \/ NextInvite(o) \/ Closing(o)
  \/ Touch(o) \/ RecordInManifest(o) \/ MarkManifest(o) \/ SignManifest(o) \/ Rebuild(o)
  \/ Truncate(o) \/ Write(o) \/ LoadSecrets(o) \/ StoreSecrets(o)
  \/ RevokeLease(o) \/ Answer(o) \/ Fail(o) \/ Crash(o)

Next ==
  \/ \E i \in Invites : Renew(i) \/ Expire(i) \/ RevokeShareLease(i) \/ Reactivate(i)
  \/ CleanupLeases
  \/ \E o \in Operators : Step(o)

Spec == Init /\ [][Next]_vars
-------------------------------------------------------------------------------
\* A revocation that was answered stands, whatever copies of the session model
\* and the secret store are written back over it: the invite is never renewed
\* again, and its lease not used unless it was to be kept
\* (docs/mcp-share.md:209-214), or is plain and reactivated.
RevokedForGood ==
  \A i \in Invites :
    /\ ended[i] # "no" => ~RenewalOn(i)
    /\ ended[i] = "all" => ~Usable(i)

\* What the files say of an invite, after a crash too, is never ahead of the
\* leases: a record that says revoked has no renewal left, and no record and no
\* secret is without a lease.
FilesInOrder ==
  \A i \in Invites :
    /\ session # TornModel /\ session[i] = "revoked" => ~RenewalOn(i)
    /\ (session # TornModel /\ session[i] # "absent") => leases[i].in # "none"
    /\ i \in secrets => leases[i].in # "none"

\* "Closing the share with its default revocation option revokes its invites too"
\* (docs/mcp-share.md:210): those that were answered when it began.
CloseRevokesInvites ==
  [][\A o \in Operators :
       pc[o] = "sign" /\ task[o].op = "close" /\ task[o].says = "closed" /\ pc'[o] = "rebuild"
         => \A i \in task[o].before : ~Usable(i) /\ ~RenewalOn(i)]_vars
================================================================================
