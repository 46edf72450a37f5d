-------------------------------- MODULE StdioMux --------------------------------
(***************************************************************************)
(* ManagedStdioMcpClient (snulbug/mcp_stdio.py), modern requests: the calls  *)
(* of several HTTP clients share one child process.  Ordinary calls go one   *)
(* at a time, subscriptions stay open beside them; one reader routes the     *)
(* child's lines to the queues of the requests; a request that is cut off    *)
(* tells the child, and closes the process when it must.                     *)
(*                                                                          *)
(* The code is asyncio: what a task does between two awaits is one step, and *)
(* a client's disconnect cancels its task at whatever await it is in.  The   *)
(* child is external: it answers what it was asked, in any order, notifies    *)
(* before it answers, says something wrong, or ends.  What it wrote is in the *)
(* pipe until the reader takes it, also when it has ended.                   *)
(***************************************************************************)
EXTENDS Integers, Sequences, FiniteSets

CONSTANTS Ordinary,        \* requests of the ordinary kind, one call each
          Subscriptions,   \* subscriptions/listen requests
          Nobody,
          MaxPending,      \* MAX_PENDING
          MaxQueue,        \* MAX_QUEUE_EVENTS, and the bytes of one queue, in lines
          MaxQueued,       \* MAX_QUEUED_BYTES, in lines
          MaxProcs         \* bound on the processes started (model only)

Requests == Ordinary \cup Subscriptions

ASSUME StdioMuxAssumption ==
  /\ Ordinary \cap Subscriptions = {}
  /\ Nobody \notin Requests
  /\ IsFiniteSet(Requests)
  /\ MaxPending \in Nat \ {0} /\ MaxQueue \in Nat \ {0} /\ MaxQueued \in Nat \ {0}
  /\ MaxProcs \in Nat

VARIABLES process,   \* _process and its _reader_task, by number; 0 is None
          child,     \* the processes: "none" yet, "up", "gone", "exited" (returncode set)
          reaping,   \* _reapers, by process
          asked,     \* the requests the child has read and not answered
          pending,   \* the requests in _pending
          queued,    \* _queued_bytes, in lines
          ordLock, lock,   \* who has _ordinary_lock and _lock
          pc,        \* where each request is
          wire,      \* the process each request wrote to, 0 before
          queue,     \* entry.queue
          completed, \* entry.completed
          acked,     \* `acknowledged`
          next,      \* what each request does after aclose()
          closing,   \* the process its aclose() took, until it has a reaper
          waits,     \* the reapers its aclose() waits for
          cancelled  \* whether its client's disconnect is what it cleans up after

client == <<process, child, reaping, asked>>
entries == <<pending, queued, queue, completed>>
tasks == <<pc, wire, acked, next, closing, waits, cancelled>>
vars == <<client, entries, ordLock, lock, tasks>>

Procs == 1 .. MaxProcs
Items == [kind : {"note", "answer", "error"}, of : Requests \cup {Nobody}]
Failed == [kind |-> "error", of |-> Nobody]

TypeOK ==
  /\ process \in 0 .. MaxProcs
  /\ child \in [Procs -> {"none", "up", "gone", "exited"}]
  /\ reaping \subseteq Procs
  /\ asked \subseteq Requests
  /\ pending \subseteq Requests
  /\ queued \in 0 .. MaxQueued
  /\ ordLock \in Ordinary \cup {Nobody} /\ lock \in Requests \cup {Nobody}
  /\ pc \in [Requests -> {"new", "wait", "spawn", "write", "get", "notify",
                          "cancel", "gather", "reap", "done", "dropped"}]
  /\ wire \in [Requests -> 0 .. MaxProcs]
  /\ queue \in [Requests -> Seq(Items)]
  /\ \A r \in Requests : Len(queue[r]) <= MaxQueue
  /\ completed \in [Requests -> BOOLEAN] /\ acked \in [Requests -> BOOLEAN]
  /\ next \in [Requests -> {"none", "spawn", "check", "leave"}]
  /\ closing \in [Requests -> 0 .. MaxProcs]
  /\ waits \in [Requests -> SUBSET Procs]
  /\ cancelled \in [Requests -> BOOLEAN]

\* No request is being served: `stage` says which are still to come, and `procs`
\* which processes have been used up.
Start(stage, procs) ==
  /\ process = 0 /\ child = procs
  /\ reaping = {} /\ asked = {}
  /\ pending = {} /\ queued = 0
  /\ ordLock = Nobody /\ lock = Nobody
  /\ pc = stage
  /\ wire = [r \in Requests |-> 0]
  /\ queue = [r \in Requests |-> <<>>]
  /\ completed = [r \in Requests |-> FALSE]
  /\ acked = [r \in Requests |-> FALSE]
  /\ next = [r \in Requests |-> "none"]
  /\ closing = [r \in Requests |-> 0]
  /\ waits = [r \in Requests |-> {}]
  /\ cancelled = [r \in Requests |-> FALSE]

Init == Start([r \in Requests |-> "new"], [n \in Procs |-> "none"])
-------------------------------------------------------------------------------
(* The pieces of the steps.                                                 *)

Goto(r, l) == pc' = [pc EXCEPT ![r] = l]

\* entry.queued_bytes of a pending request: the lines in its queue (Failed, which has
\* no bytes, is put there when the request is no longer pending).
QueuedBytes(r) == Len(queue[r])

\* The task of r ends: it has no lock any more and its entry is forgotten.
\* "dropped" tells of a clean-up that was cut short.
End(r, how) ==
  /\ Goto(r, how)
  /\ ordLock' = IF ordLock = r THEN Nobody ELSE ordLock
  /\ lock' = IF lock = r THEN Nobody ELSE lock
  /\ wire' = [wire EXCEPT ![r] = 0]
  /\ acked' = [acked EXCEPT ![r] = FALSE]
  /\ completed' = [completed EXCEPT ![r] = FALSE]
  /\ queue' = [queue EXCEPT ![r] = <<>>]
  /\ next' = [next EXCEPT ![r] = "none"]
  /\ closing' = [closing EXCEPT ![r] = 0]
  /\ waits' = [waits EXCEPT ![r] = {}]
  /\ cancelled' = [cancelled EXCEPT ![r] = FALSE]

Done(r) == End(r, "done")

\* Mutant: the queues of the requests are left to themselves.
FailPending_Silent(keep) ==
  /\ process' = 0
  /\ asked' = {}
  /\ pending' = {}
  /\ queued' = 0
  /\ UNCHANGED queue

\* aclose() takes the process, whose output nobody reads any more, and fails the
\* requests that are pending, without those that have their answer if `keep`.
FailPending(keep) ==
  /\ process' = 0
  /\ asked' = {}
  /\ pending' = {}
  /\ queued' = 0
  /\ queue' = [r \in Requests |->
                 IF r \in pending /\ ~(keep /\ completed[r]) THEN <<Failed>> ELSE queue[r]]

\* Request r calls aclose() and goes on with `then`.  The reader is cancelled at
\* once, and awaited before the process gets a reaper.  (With nothing to wait
\* for the call returns in a step of its own, which the code does not yield for.)
Aclose(r, then) ==
  /\ FailPending(FALSE)
  /\ closing' = [closing EXCEPT ![r] = process]
  /\ next' = [next EXCEPT ![r] = then]
  /\ Goto(r, "gather")
  /\ UNCHANGED <<child, reaping, completed, ordLock, wire, acked, waits, cancelled>>

\* The reader's own aclose(): a reaper at once, and nobody waits for the reader.
ReaderCloses(keep) ==
  /\ FailPending(keep)
  /\ reaping' = reaping \cup {process}
  /\ UNCHANGED <<child, completed, ordLock, lock, tasks>>
-------------------------------------------------------------------------------
(* A request.                                                               *)

\* An ordinary request takes _ordinary_lock before it asks for _lock.
Arrive(r) ==
  /\ pc[r] = "new"
  /\ \/ r \in Subscriptions /\ UNCHANGED ordLock
     \/ r \in Ordinary /\ ordLock = Nobody /\ ordLock' = r
  /\ Goto(r, "wait")
  /\ UNCHANGED <<client, entries, lock, wire, acked, next, closing, waits, cancelled>>

\* The in-flight limit leaves one place to ordinary requests.
LimitReached(r) ==
  \/ Cardinality(pending) >= MaxPending
  \/ r \in Subscriptions /\ Cardinality(pending \cap Subscriptions) >= MaxPending - 1

HasLock(r) == pc[r] = "wait" /\ lock = Nobody

Refused(r) ==
  /\ HasLock(r) /\ LimitReached(r)
  /\ Done(r)
  /\ UNCHANGED <<client, pending, queued>>

\* The request is entered and its line written; drain() may wait.
Register(r, n) ==
  /\ process' = n
  /\ pending' = pending \cup {r}
  /\ wire' = [wire EXCEPT ![r] = n]
  /\ asked' = IF child'[n] = "up" THEN asked \cup {r} ELSE asked
  /\ Goto(r, "write")

\* _ensure_process finds the process running, as far as it knows.
Join(r) ==
  /\ HasLock(r) /\ ~LimitReached(r)
  /\ process # 0 /\ child[process] # "exited"
  /\ lock' = r
  /\ UNCHANGED child
  /\ Register(r, process)
  /\ UNCHANGED <<reaping, queued, queue, completed, ordLock, acked, next, closing,
                 waits, cancelled>>

\* ... finds that it has exited ...
Restart(r) ==
  /\ HasLock(r) /\ ~LimitReached(r)
  /\ process # 0 /\ child[process] = "exited"
  /\ lock' = r
  /\ Aclose(r, "spawn")

\* ... or that there is none.
StartSpawn(r) ==
  /\ HasLock(r) /\ ~LimitReached(r)
  /\ process = 0
  /\ lock' = r
  /\ Goto(r, "spawn")
  /\ UNCHANGED <<client, entries, ordLock, wire, acked, next, closing, waits, cancelled>>

Spawned(r) ==
  /\ pc[r] = "spawn"
  /\ \E n \in Procs :
       /\ child[n] = "none" /\ \A m \in 1 .. n - 1 : child[m] # "none"
       /\ child' = [child EXCEPT ![n] = "up"]
       /\ Register(r, n)
  /\ next' = [next EXCEPT ![r] = "none"]
  /\ UNCHANGED <<reaping, queued, queue, completed, ordLock, lock, acked, closing,
                 waits, cancelled>>

SpawnFails(r) ==
  /\ pc[r] = "spawn"
  /\ Done(r)
  /\ UNCHANGED <<client, pending, queued>>

\* Mutant: _lock is held until the answer comes.
Written_HoldsLock(r) ==
  /\ pc[r] = "write"
  /\ Goto(r, "get")
  /\ UNCHANGED <<client, entries, ordLock, lock, wire, acked, next, closing, waits, cancelled>>

\* drain() returns and _lock is left.
Written(r) ==
  /\ pc[r] = "write"
  /\ lock' = Nobody
  /\ Goto(r, "get")
  /\ UNCHANGED <<client, entries, ordLock, wire, acked, next, closing, waits, cancelled>>

\* Mutant: the bytes of the lines that were never taken stay counted.
Unregister_KeepsBytes(r) ==
  /\ pending' = pending \ {r}
  /\ UNCHANGED queued

\* `finally`: the entry and what is still in its queue are forgotten.
Unregister(r) ==
  /\ pending' = pending \ {r}
  /\ queued' = IF r \in pending THEN queued - QueuedBytes(r) ELSE queued

\* The request ends without its answer, by an error, a timeout or the client.
\* If it still counts and its process is the current one, it tells the child.
CutOff(r, gone) ==
  /\ Unregister(r)
  /\ \/ /\ r \in pending /\ wire[r] = process
        /\ Goto(r, "cancel")
        /\ cancelled' = [cancelled EXCEPT ![r] = gone]
        /\ lock' = IF lock = r THEN Nobody ELSE lock
        /\ queue' = [queue EXCEPT ![r] = <<>>]
        /\ UNCHANGED <<ordLock, wire, acked, completed, next, closing, waits>>
     \/ ~(r \in pending /\ wire[r] = process) /\ Done(r)
  /\ UNCHANGED client

\* drain() times out, or the pipe is broken.
WriteFails(r) == pc[r] = "write" /\ CutOff(r, FALSE)

\* The next item of the queue.
Take(r, kind) ==
  /\ pc[r] = "get" /\ queue[r] # <<>>
  /\ Head(queue[r]).kind = kind

TakeError(r) ==
  /\ Take(r, "error")
  /\ Done(r)
  /\ UNCHANGED <<client, pending, queued>>

TakeNote(r) ==
  /\ Take(r, "note")
  /\ queue' = [queue EXCEPT ![r] = Tail(@)]
  /\ queued' = IF r \in pending THEN queued - 1 ELSE queued
  /\ Goto(r, "notify")
  /\ UNCHANGED <<client, pending, completed, ordLock, lock, wire, acked, next,
                 closing, waits, cancelled>>

\* The answer is returned; it is the last line of its queue.
TakeAnswer(r) ==
  /\ Take(r, "answer")
  /\ Unregister(r)
  /\ Done(r)
  /\ UNCHANGED client

\* The answer is not a valid one for the request.
BadAnswer(r) == Take(r, "answer") /\ CutOff(r, FALSE)

\* on_notification() returns ...
Notified(r) ==
  /\ pc[r] = "notify"
  /\ acked' = [acked EXCEPT ![r] = TRUE]
  /\ Goto(r, "get")
  /\ UNCHANGED <<client, entries, ordLock, lock, wire, next, closing, waits, cancelled>>

\* ... or raises, or the client does not take the notification in time.
NotifyFails(r) == pc[r] = "notify" /\ CutOff(r, FALSE)

\* A subscription may be quiet once it is acknowledged.
TimesOut(r) ==
  /\ pc[r] = "get" /\ queue[r] = <<>>
  /\ ~(r \in Subscriptions /\ acked[r])
  /\ CutOff(r, FALSE)

\* Mutant: a cut-off request of either kind leaves the process to the others.
MustClose_Never(r) == pending = {}

MustClose(r) == r \in Ordinary \/ pending = {}

\* notifications/cancelled is on its way.
CancelSent(r) ==
  /\ pc[r] = "cancel"
  /\ \/ MustClose(r) /\ Aclose(r, "leave") /\ UNCHANGED lock
     \/ ~MustClose(r) /\ Done(r) /\ UNCHANGED <<client, pending, queued>>

CancelFails(r) ==
  /\ pc[r] = "cancel"
  /\ Aclose(r, "check")
  /\ UNCHANGED lock

\* Mutant: the first reaper that is running stands for the new one.
Gathered_NoReaper(r) ==
  /\ pc[r] = "gather"
  /\ reaping' = IF reaping = {} THEN {closing[r]} \ {0} ELSE reaping
  /\ waits' = [waits EXCEPT ![r] = reaping']
  /\ closing' = [closing EXCEPT ![r] = 0]
  /\ Goto(r, "reap")
  /\ UNCHANGED <<process, child, asked, entries, ordLock, lock, wire, acked, next, cancelled>>

\* The cancelled reader has ended: the process gets its reaper, and aclose()
\* waits for all the reapers there are.
Gathered(r) ==
  /\ pc[r] = "gather"
  /\ reaping' = reaping \cup ({closing[r]} \ {0})
  /\ waits' = [waits EXCEPT ![r] = reaping']
  /\ closing' = [closing EXCEPT ![r] = 0]
  /\ Goto(r, "reap")
  /\ UNCHANGED <<process, child, asked, entries, ordLock, lock, wire, acked, next, cancelled>>

\* aclose() returns.
Reaped(r) ==
  /\ pc[r] = "reap" /\ waits[r] \cap reaping = {}
  /\ \/ /\ next[r] = "spawn"
        /\ Goto(r, "spawn")
        /\ UNCHANGED <<client, entries, ordLock, lock, wire, acked, next, closing, waits,
                       cancelled>>
     \/ /\ next[r] = "check" /\ MustClose(r)
        /\ Aclose(r, "leave")
        /\ UNCHANGED lock
     \/ /\ next[r] = "leave" \/ (next[r] = "check" /\ ~MustClose(r))
        /\ Done(r)
        /\ UNCHANGED <<client, pending, queued>>

\* The client disconnects, or its lifetime is over: the task is cancelled where
\* it waits.  In its clean-up that ends the clean-up; the reapers are shielded.
Cancel(r) ==
  /\ ~cancelled[r]
  /\ \/ pc[r] \in {"write", "get", "notify"} /\ CutOff(r, TRUE)
     \/ /\ pc[r] \in {"wait", "spawn"} \/ next[r] = "spawn"
        /\ Done(r)
        /\ UNCHANGED <<client, pending, queued>>
     \/ /\ pc[r] = "cancel" \/ next[r] \in {"check", "leave"}
        /\ End(r, "dropped")
        /\ UNCHANGED <<client, pending, queued>>
-------------------------------------------------------------------------------
(* The reader.                                                              *)

\* A line that cannot be read or routed fails the process.
Garbage == process # 0 /\ ReaderCloses(FALSE)

\* Mutant: nothing counts the lines in the queues.
Full_Never(r) == FALSE

Full(r) == Len(queue[r]) >= MaxQueue \/ queued + 1 > MaxQueued

\* The line is for r: it is queued, or the limits fail the process.
Route(r, item) ==
  \/ /\ ~Full(r)
     /\ queue' = [queue EXCEPT ![r] = Append(@, item)]
     /\ queued' = queued + 1
     /\ completed' = [completed EXCEPT ![r] = @ \/ item.kind = "answer"]
     /\ asked' = IF item.kind = "answer" THEN asked \ {r} ELSE asked
     /\ UNCHANGED <<process, child, reaping, pending, ordLock, lock, tasks>>
  \/ Full(r) /\ ReaderCloses(FALSE)

\* The answer to r, which may not be wanted any more.
ReadAnswer(r) ==
  /\ r \in asked
  /\ \/ r \in pending /\ Route(r, [kind |-> "answer", of |-> r])
     \/ r \notin pending /\ ReaderCloses(FALSE)

\* A notification for subscription r carries its id.
ReadTagged(r) ==
  /\ r \in asked /\ r \in Subscriptions
  /\ \/ r \in pending /\ Route(r, [kind |-> "note", of |-> r])
     \/ r \notin pending /\ ReaderCloses(FALSE)

Open == {q \in pending \cap Ordinary : ~completed[q]}

\* One for an ordinary request r does not: it goes to the one that is open.
ReadUntagged(r) ==
  /\ r \in asked /\ r \in Ordinary
  /\ \/ \E q \in Open : Open = {q} /\ Route(q, [kind |-> "note", of |-> r])
     \/ Cardinality(Open) # 1 /\ ReaderCloses(FALSE)

EndOfOutput ==
  /\ process # 0 /\ child[process] # "up"
  /\ ReaderCloses(TRUE)
-------------------------------------------------------------------------------
(* The processes.                                                           *)

ChildEnds(n) ==
  /\ child[n] = "up"
  /\ child' = [child EXCEPT ![n] = "gone"]
  /\ UNCHANGED <<process, reaping, asked, entries, ordLock, lock, tasks>>

\* asyncio sees that the process has exited.
ExitSeen(n) ==
  /\ child[n] = "gone"
  /\ child' = [child EXCEPT ![n] = "exited"]
  /\ UNCHANGED <<process, reaping, asked, entries, ordLock, lock, tasks>>

\* _stop_process: close stdin, wait, terminate, wait, kill, wait.
Reap(n) ==
  /\ n \in reaping
  /\ child' = [child EXCEPT ![n] = "exited"]
  /\ reaping' = reaping \ {n}
  /\ UNCHANGED <<process, asked, entries, ordLock, lock, tasks>>

\* A request that has _lock in its reach: it gets it, or is told off.
Enter(r) == Refused(r) \/ Join(r) \/ Restart(r) \/ StartSpawn(r)

\* What a request does next by itself, wherever it waits.
Proceed(r) ==
  \/ Spawned(r) \/ SpawnFails(r) \/ Written(r) \/ WriteFails(r)
  \/ TakeError(r) \/ TakeNote(r) \/ TakeAnswer(r) \/ BadAnswer(r)
  \/ Notified(r) \/ NotifyFails(r)
  \/ CancelSent(r) \/ CancelFails(r) \/ Gathered(r) \/ Reaped(r)

RequestNext(r) == Arrive(r) \/ Enter(r) \/ Proceed(r) \/ TimesOut(r) \/ Cancel(r)

ReaderNext ==
  \/ Garbage \/ EndOfOutput
  \/ \E r \in Requests : ReadAnswer(r) \/ ReadTagged(r) \/ ReadUntagged(r)

Next ==
  \/ \E r \in Requests : RequestNext(r)
  \/ ReaderNext
  \/ \E n \in Procs : ChildEnds(n) \/ ExitSeen(n) \/ Reap(n)

\* asyncio.Lock is first come, first served; asyncio runs what is ready, and
\* drain(), on_notification() and spawning end or time out; the reader gets to the
\* end of the output; a killed process exits.
Fairness ==
  /\ \A r \in Requests : SF_vars(Enter(r)) /\ WF_vars(Proceed(r))
  /\ WF_vars(EndOfOutput)
  /\ \A n \in Procs : WF_vars(Reap(n))

Spec == Init /\ [][Next]_vars /\ Fairness
-------------------------------------------------------------------------------
(* Properties.                                                              *)

\* The lines in the queues of the pending requests.
Waiting == UNION {{r} \X (1 .. QueuedBytes(r)) : r \in pending}

(* _queued_bytes is what the queues of the pending requests hold, whoever     *)
(* takes, leaves, fails or overflows in between: the aggregate limit neither  *)
(* leaks away nor is overdrawn.                                              *)
Accounting == queued = Cardinality(Waiting)

(* Nobody waits for ever: a request in flight is pending on the process that  *)
(* is being read, or the end of its waiting is in its queue already.         *)
Attended ==
  /\ pending # {} => process # 0
  /\ \A r \in Requests :
       pc[r] \in {"write", "get", "notify"} =>
         IF r \in pending THEN wire[r] = process
         ELSE queue[r] # <<>> /\ queue[r][Len(queue[r])].kind \in {"answer", "error"}

(* An untagged notification reaches only the request it was sent for, unless  *)
(* the clean-up of that request was itself cut short: the reset after an      *)
(* ordinary request, and the ordinary lock held over it, are what keeps late   *)
(* ones from the next request.                                               *)
NotesToOwner ==
  \A r \in Requests : \A i \in 1 .. Len(queue[r]) :
    queue[r][i].kind = "note" /\ queue[r][i].of # r => pc[queue[r][i].of] = "dropped"

(* A running process that the client does not use any more is on its way out, *)
(* whatever closes met each other, unless a clean-up was cut short.           *)
NoOrphan ==
  \A n \in Procs :
    child[n] = "up" /\ n # process =>
      \/ n \in reaping
      \/ \E r \in Requests : closing[r] = n \/ pc[r] = "dropped"

(* No call, open subscription, restart or clean-up keeps the lock from those   *)
(* that wait to be written: it always comes free again, without any timeout of *)
(* a call.                                                                    *)
NoStarvation == []<>(lock = Nobody)

(* "Cancelling one subscription leaves other active requests alone."           *)
(* (docs/mcp-protocol.md)                                                     *)
CancelLeavesOthers ==
  [][\A s \in Subscriptions :
       pc[s] = "cancel" /\ pc'[s] # "cancel" /\ wire[s] # process => pending' = pending]_vars
================================================================================
