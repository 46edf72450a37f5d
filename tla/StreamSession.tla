----------------------------- MODULE StreamSession -----------------------------
(***************************************************************************)
(* McpStreamSession and Subscription (snulbug/mcp_stream.py,                 *)
(* mcp_subscriptions.py): each modern request of a client runs in a session,  *)
(* that sends on the filtered notifications of the upstream, one terminal     *)
(* message, and nothing after it.  The session runs the application (policy,  *)
(* routing, forwarding) as a task beside a watch for the client's disconnect; *)
(* a subscription has a lifetime.  Disconnect and lifetime cancel the task,   *)
(* and its clean-up is awaited.                                              *)
(*                                                                          *)
(* Sessions of Requests forward to the shared child process of StdioMux,     *)
(* those of Remote read a response of their own over HTTP, JSON or an event   *)
(* stream.  Of the application before and after the forwarding only the way   *)
(* it ends is modelled.  The HTTP upstream is external and sends any bytes;   *)
(* so is the server below: send() waits until there is room for a message,    *)
(* then hands it over without a pause.  A client leaves when its leaving is   *)
(* noticed: what is sent to it before then is no matter of its.              *)
(***************************************************************************)
EXTENDS StdioMux, SseDecoder

CONSTANTS Remote,      \* sessions with an HTTP upstream
          Listens,     \* sessions of subscriptions/listen
          Changes,     \* the kinds of changes
          NotYet, Nothing, Bad,
          Slow,        \* sessions whose client may stop reading (model only)
          MaxEvents,   \* notifications of a session, 1024 in the code
          ByteLimit,   \* `limit * 8`
          MaxChunk     \* bound on the bytes of a chunk (model only)

Sessions == Requests \cup Remote

ASSUME StreamSessionAssumption ==
  /\ Requests \cap Remote = {}
  /\ Listens \subseteq Sessions /\ Listens \cap Requests = Subscriptions
  /\ \A kinds \in SUBSET Changes : kinds # NotYet
  /\ MaxEvents \in Nat /\ ByteLimit \in Nat /\ MaxChunk \in Nat \ {0}

VARIABLES session,   \* the sessions
          http,      \* forward_http() of the remote ones
          stuck      \* the sessions whose client has stopped reading

muxVars == <<client, entries, ordLock, lock, tasks>>
allVars == <<muxVars, session, http, stuck>>

Message(kind, of) == [kind |-> kind, of |-> of]
Notes == {Message("ack", s) : s \in SUBSET Changes}
         \cup {Message("change", {c}) : c \in Changes} \cup {Message("progress", {})}
Result == Message("result", {})
Error == Message("error", {})
Answers == {Result, Error}
Messages == Notes \cup Answers

\* "app", "reply" and "tail": the task runs, sends its answer, has sent it;
\* "expiring" and "leaving": it is cancelled and cleans up; "error": run() sends one;
\* "over" and "left": run() has ended, with its client or without.
Stages == {"app", "reply", "tail", "expiring", "leaving", "error", "over", "left"}

SessionType ==
  [stage : Stages, requested : SUBSET Changes, started : BOOLEAN, finished : BOOLEAN,
   accepted : (SUBSET Changes) \cup {NotYet}, events : 0 .. MaxEvents,
   holding : Messages \cup {Nothing, Bad}, told : BoundedSeq(Messages, MaxEvents + 1)]

StreamTypeOK ==
  /\ session \in [Sessions -> SessionType]
  /\ stuck \subseteq Slow
  /\ \A x \in Remote :
       /\ http[x].at \in {"connect", "start", "read", "events", "notify", "closed"}
       /\ http[x].ended \in BOOLEAN

\* The client has asked for changes of the kinds `filter`.
Opened(stage, filter) ==
  [stage |-> stage, requested |-> filter, started |-> FALSE, finished |-> FALSE, accepted |-> NotYet,
   events |-> 0, holding |-> Nothing, told |-> <<>>]

Idle(at) == [at |-> at, decoder |-> NewDecoder, fed |-> <<>>, found |-> <<>>, ended |-> FALSE]

\* The sessions `xs` are opened, the subscriptions among them with their filters; the
\* others are past, and so are their requests.
StartSessions(xs, filter) ==
  /\ Start([r \in Requests |-> IF r \in xs THEN "new" ELSE "done"], [n \in Procs |-> "none"])
  /\ session = [x \in Sessions |->
       IF x \in xs THEN Opened("app", IF x \in Listens THEN filter[x] ELSE {})
       ELSE Opened("left", {})]
  /\ http = [x \in Remote |-> Idle(IF x \in xs THEN "connect" ELSE "closed")]
  /\ stuck = {}
-------------------------------------------------------------------------------
(* The pieces of the steps.                                                 *)

Stage(x) == session[x].stage

\* The task of x is in its application.
Working(x) == Stage(x) \in {"app", "expiring", "leaving"}

\* A session that is over; its client has what it was told.
Forgotten(s) == [Opened("over", s.requested) EXCEPT !.told = s.told]

Goes(x, stage) ==
  session' = [session EXCEPT ![x] =
    CASE stage = "over" -> Forgotten(@)
      [] stage \in {"leaving", "left"} -> Opened(stage, {})
      [] OTHER -> [@ EXCEPT !.stage = stage, !.holding = Nothing]]

\* Where run() goes on when the cancelled task has ended.
After(stage) ==
  CASE stage = "expiring" -> "error"
    [] stage = "leaving"  -> "left"
    [] OTHER              -> "error"

\* Mutant: notifications are not counted against the limit.
Issue_Unlimited(x, m) ==
  LET s == session[x]
  IN \/ x \notin Listens /\ m.kind # "progress"
     \/ x \in Listens /\
          CASE m.kind = "ack"    -> s.accepted # NotYet \/ ~(m.of \subseteq s.requested)
            [] m.kind = "change" -> s.accepted = NotYet \/ ~(m.of \subseteq s.accepted)
            [] OTHER             -> TRUE

\* Mutant: a change of any kind that the client asked for passes.
Issue_Requested(x, m) ==
  \/ session[x].events >= MaxEvents
  \/ x \notin Listens /\ m.kind # "progress"
  \/ x \in Listens /\ (m.kind = "progress" \/ ~(m.of \subseteq session[x].requested))

\* notification() and notification_issue(): what may not be sent on.
Issue(x, m) ==
  LET s == session[x]
  IN \/ s.events >= MaxEvents
     \/ x \notin Listens /\ m.kind # "progress"
     \/ x \in Listens /\
          CASE m.kind = "ack"    -> s.accepted # NotYet \/ ~(m.of \subseteq s.requested)
            [] m.kind = "change" -> s.accepted = NotYet \/ ~(m.of \subseteq s.accepted)
            [] OTHER             -> TRUE

\* The session takes a notification to send it on, or rejects it: for an issue, or
\* because a policy does.
Takes(x, m) ==
  session' = [session EXCEPT ![x] =
    [session[x] EXCEPT !.events = @ + 1, !.holding = m,
                       !.accepted = IF m.kind = "ack" THEN m.of ELSE @]]

\* terminal(): a subscription that was not acknowledged cannot complete.
Accepts(x, m) == ~(x \in Listens /\ m = Result /\ session[x].accepted = NotYet)

Answered(x, m) ==
  session' = [session EXCEPT ![x] =
    IF Accepts(x, m) THEN [@ EXCEPT !.stage = "reply", !.holding = m]
    ELSE [@ EXCEPT !.stage = "error"]]

\* There is room for a message, with the head of the response before the first.
CanSend(x) == x \notin stuck

Sent(x, m) ==
  [session[x] EXCEPT !.started = TRUE, !.holding = Nothing, !.told = Append(@, m)]

\* forward_http() ends, and its response is closed.
Closed(x) == http' = [http EXCEPT ![x] = Idle("closed")]
-------------------------------------------------------------------------------
(* A request to the child process.                                          *)

\* The session follows its request: an error ends the task.
Follow(r) ==
  Goes(r, IF pc'[r] \in {"done", "dropped"} THEN After(Stage(r)) ELSE Stage(r))

\* Steps of the request in which the session has no part.  Those it takes by itself:
Turns(r) ==
  /\ Working(r)
  /\ Arrive(r) \/ Enter(r)
  /\ Follow(r)
  /\ UNCHANGED <<http, stuck>>

Continues(r) ==
  /\ Working(r)
  /\ \/ Spawned(r) \/ SpawnFails(r) \/ Written(r) \/ WriteFails(r)
     \/ TakeError(r) \/ BadAnswer(r) \/ NotifyFails(r)
     \/ CancelSent(r) \/ CancelFails(r) \/ Gathered(r) \/ Reaped(r)
  /\ Follow(r)
  /\ UNCHANGED <<http, stuck>>

NoAnswerInTime(r) ==
  /\ Working(r)
  /\ TimesOut(r)
  /\ Follow(r)
  /\ UNCHANGED <<http, stuck>>

ReceivesNote(r) ==
  /\ Working(r) /\ TakeNote(r)
  /\ \/ \E m \in Notes : ~Issue(r, m) /\ Takes(r, m)
     \/ session' = [session EXCEPT ![r].holding = Bad]
  /\ UNCHANGED <<http, stuck>>

SendsNote(r) ==
  /\ Working(r) /\ Notified(r)
  /\ session[r].holding # Bad /\ CanSend(r)
  /\ session' = [session EXCEPT ![r] = Sent(r, session[r].holding)]
  /\ UNCHANGED <<http, stuck>>

ReceivesAnswer(r) ==
  /\ Working(r) /\ TakeAnswer(r)
  /\ \E m \in Answers : Answered(r, m)
  /\ UNCHANGED <<http, stuck>>

RequestStep(r) == Continues(r) \/ ReceivesNote(r) \/ SendsNote(r) \/ ReceivesAnswer(r)
-------------------------------------------------------------------------------
(* forward_http().                                                          *)

At(x, at) == Stage(x) = "app" /\ http[x].at = at

HttpJson(x) ==
  /\ At(x, "connect")
  /\ \E m \in Answers : Answered(x, m)
  /\ Closed(x)

HttpStream(x) ==
  /\ At(x, "connect")
  /\ http' = [http EXCEPT ![x].at = "start"]
  /\ UNCHANGED session

SendsHead(x) ==
  /\ At(x, "start") /\ CanSend(x)
  /\ session' = [session EXCEPT ![x].started = TRUE]
  /\ http' = [http EXCEPT ![x].at = "read"]

\* A timeout, a broken connection, an unsuitable response.
HttpFails(x) ==
  /\ At(x, "connect") \/ At(x, "read")
  /\ Goes(x, "error") /\ Closed(x)

Chunk(x) ==
  /\ At(x, "read")
  /\ \E n \in 1 .. Min({MaxChunk, ByteLimit - Len(http[x].fed)}) :
       \E chunk \in [1 .. n -> Bytes] :
         http' = [http EXCEPT ![x] =
           [http[x] EXCEPT !.at = "events", !.fed = @ \o chunk, !.decoder = Fed(@, chunk)]]
  /\ UNCHANGED session

\* A chunk that is past the budget of bytes.
TooMuch(x) ==
  /\ At(x, "read")
  /\ Len(http[x].fed) + MaxChunk > ByteLimit
  /\ Goes(x, "error") /\ Closed(x)

EndOfBody(x) ==
  /\ At(x, "read")
  /\ LET d == http[x].decoder
         more == SubSeq(Finish(d).buffer, Len(d.buffer) + 1, Len(Finish(d).buffer))
     IN http' = [http EXCEPT ![x] =
          [http[x] EXCEPT !.at = "events", !.ended = TRUE, !.fed = @ \o more, !.decoder = Finish(@)]]
  /\ UNCHANGED session

\* The decoder has taken what it was fed.
NoMoreEvents(x) ==
  LET comes == Feed[http[x].decoder]
  IN /\ At(x, "events") /\ comes.what = "end"
     /\ \/ /\ ~http[x].ended
           /\ http' = [http EXCEPT ![x] = [@ EXCEPT !.at = "read", !.decoder = comes.decoder]]
           /\ UNCHANGED session
        \/ http[x].ended /\ Goes(x, "error") /\ Closed(x)

TooLong(x) ==
  /\ At(x, "events") /\ Feed[http[x].decoder].what = "limit"
  /\ Goes(x, "error") /\ Closed(x)

\* An event without data is passed over; one with data is a notification, a terminal
\* message, or neither.
NextEvent(x) ==
  LET comes == Feed[http[x].decoder]
      found == [http[x] EXCEPT !.decoder = comes.decoder, !.found = Append(@, comes.data)]
  IN /\ At(x, "events") /\ comes.what = "event"
     /\ \/ comes.data = <<>> /\ http' = [http EXCEPT ![x] = found] /\ UNCHANGED session
        \/ /\ comes.data # <<>>
           /\ \/ /\ http' = [http EXCEPT ![x] = [found EXCEPT !.at = "notify"]]
                 /\ \E m \in Notes : ~Issue(x, m) /\ Takes(x, m)
              \/ Closed(x) /\ \E m \in Answers : Answered(x, m)
              \/ Closed(x) /\ Goes(x, "error")

SendsEvent(x) ==
  /\ At(x, "notify") /\ CanSend(x)
  /\ session' = [session EXCEPT ![x] = Sent(x, session[x].holding)]
  /\ http' = [http EXCEPT ![x].at = "events"]

HttpStep(x) ==
  /\ \/ HttpJson(x) \/ HttpStream(x) \/ SendsHead(x) \/ HttpFails(x)
     \/ Chunk(x) \/ TooMuch(x) \/ EndOfBody(x)
     \/ NoMoreEvents(x) \/ TooLong(x) \/ NextEvent(x) \/ SendsEvent(x)
  /\ UNCHANGED <<muxVars, stuck>>
-------------------------------------------------------------------------------
(* run().                                                                   *)

NotForwarded(x) == IF x \in Remote THEN At(x, "connect") ELSE Stage(x) = "app" /\ pc[x] = "new"

ClosedIfRemote(x) == IF x \in Remote THEN Closed(x) ELSE UNCHANGED http

\* The application answers by itself, or fails.
AppAnswers(x) ==
  /\ NotForwarded(x)
  /\ \/ session' = [session EXCEPT ![x] = [@ EXCEPT !.stage = "reply", !.holding = Error]]
     \/ Goes(x, "error")
  /\ ClosedIfRemote(x)
  /\ UNCHANGED <<muxVars, stuck>>

\* send() of the answer, or of an error that a policy puts in its place; what is too
\* long is refused.
Reply(x) ==
  /\ Stage(x) = "reply"
  /\ \/ /\ CanSend(x)
        /\ \E m \in {session[x].holding, Error} :
             session' = [session EXCEPT ![x] =
               [Sent(x, m) EXCEPT !.stage = "tail", !.finished = TRUE]]
     \/ session[x].started /\ Goes(x, "error")
  /\ UNCHANGED <<muxVars, http, stuck>>

\* The application ends, well or not.
TaskEnds(x) ==
  /\ Stage(x) = "tail"
  /\ Goes(x, "error") \/ Goes(x, "over")
  /\ UNCHANGED <<muxVars, http, stuck>>

\* The task is cancelled where it waits; a request that has its lines to answer for
\* cleans up first.
Cut(x, stage) ==
  /\ Stage(x) \in {"app", "reply", "tail"}
  /\ IF x \in Requests /\ Stage(x) = "app" /\ pc[x] # "new"
     THEN /\ Cancel(x)
          /\ Goes(x, IF pc'[x] \in {"done", "dropped"} THEN After(stage) ELSE stage)
          /\ UNCHANGED http
     ELSE /\ Goes(x, After(stage))
          /\ ClosedIfRemote(x)
          /\ UNCHANGED muxVars
  /\ UNCHANGED stuck

\* Mutant: the lifetime is watched only until the request is forwarded.
Expire_BeforeForwarding(x) == x \in Listens /\ NotForwarded(x) /\ Cut(x, "expiring")

\* The lifetime of a subscription is over, or its credential's.
Expire(x) == x \in Listens /\ Cut(x, "expiring")

\* Whoever sends the error is not interrupted by a client that leaves.
Disconnect(x) ==
  \/ Cut(x, "leaving")
  \/ Stage(x) = "error" /\ Goes(x, "left") /\ UNCHANGED <<muxVars, http, stuck>>

\* Mutant: the error is sent whether or not the answer was.
SendError_Always(x) ==
  /\ Stage(x) = "error"
  /\ CanSend(x)
  /\ session' = [session EXCEPT ![x] =
       Forgotten(Sent(x, Error))]
  /\ UNCHANGED <<muxVars, http, stuck>>

SendError(x) ==
  /\ Stage(x) = "error"
  /\ \/ session[x].finished /\ Goes(x, "over")
     \/ /\ ~session[x].finished /\ CanSend(x)
        /\ session' = [session EXCEPT ![x] =
             Forgotten(Sent(x, Error))]
  /\ UNCHANGED <<muxVars, http, stuck>>

StopsReading(x) ==
  /\ x \in Slow /\ Stage(x) \notin {"over", "left"}
  /\ stuck' = stuck \cup {x}
  /\ UNCHANGED <<muxVars, session, http>>

RunStep(x) == Reply(x) \/ TaskEnds(x) \/ SendError(x)

\* What the child does, whoever waits for it.
ChildStep ==
  /\ ReaderNext \/ \E n \in Procs : ChildEnds(n) \/ ExitSeen(n) \/ Reap(n)
  /\ UNCHANGED <<session, http, stuck>>

NextStep ==
  \/ \E r \in Requests : Turns(r) \/ RequestStep(r) \/ NoAnswerInTime(r)
  \/ \E x \in Remote : HttpStep(x)
  \/ \E x \in Sessions : AppAnswers(x) \/ RunStep(x) \/ Expire(x) \/ Disconnect(x) \/ StopsReading(x)
  \/ ChildStep

\* asyncio.Lock is first come, first served; asyncio runs what is ready; the reader
\* gets to the end of the output, and a killed process exits.  An ordinary HTTP
\* read has a timeout.  No client need ever read.
StreamFairness ==
  /\ \A r \in Requests : SF_allVars(Turns(r)) /\ WF_allVars(RequestStep(r) \/ RunStep(r))
  /\ \A x \in Remote :
       WF_allVars((x \notin Listens /\ HttpStep(x)) \/ RunStep(x))
  /\ WF_allVars(EndOfOutput /\ UNCHANGED <<session, http, stuck>>)
  /\ \A n \in Procs : WF_allVars(Reap(n) /\ UNCHANGED <<session, http, stuck>>)

\* Any sessions are opened, at once.
StreamInit ==
  \E xs \in SUBSET Sessions, filter \in [Listens -> SUBSET Changes] : StartSessions(xs, filter)

StreamSpec == StreamInit /\ [][NextStep]_allVars /\ StreamFairness

\* The timeout of a call and the lifetime of a subscription run out.
TimeRunsOut ==
  /\ \A r \in Requests : WF_allVars(NoAnswerInTime(r))
  /\ \A x \in Listens : WF_allVars(Expire(x))
-------------------------------------------------------------------------------
(* Properties.                                                              *)

(* However the upstream's bytes are cut into chunks, the decoder finds the     *)
(* events of the whole: those found are the first ones, none that is complete  *)
(* is left when the session reads on (but for a CR at the very end), and the   *)
(* size limit is held against an event that has more bytes, and only then: no  *)
(* more than the limit and a chunk is ever kept.                             *)
EventsWhole ==
  \A x \in Remote :
    LET h == http[x]
        settled == IF h.fed # <<>> /\ Last(h.fed) = CR THEN Front(h.fed) ELSE h.fed
    IN /\ Len(h.fed) <= ByteLimit + 1
       /\ h.decoder.frame + Len(h.decoder.buffer) <= FrameLimit + MaxChunk
       /\ IsPrefix(h.found, EventsOf(h.fed))
       /\ h.at = "read" =>
            /\ h.found = EventsOf(settled)
            /\ \A k \in 1 .. Len(h.found) + 1 : SizeOf(h.fed, k) <= FrameLimit
       /\ h.at = "events" /\ Feed[h.decoder].what = "limit" =>
            SizeOf(h.fed, Len(h.found) + 1) > FrameLimit

(* A client gets one terminal message at most, and nothing after it, whichever *)
(* of answer, failure, expiry and disconnect come together.                   *)
OneTerminal ==
  \A x \in Sessions : \A i \in 1 .. Len(session[x].told) :
    session[x].told[i] \in Answers => i = Len(session[x].told)

(* A subscription's client hears of the acknowledgement first, of no change it *)
(* does not cover, and of no completion without it.                           *)
AcknowledgedFirst ==
  \A x \in Listens : \A i \in 1 .. Len(session[x].told) :
    LET m == session[x].told[i]
    IN /\ m.kind = "ack" <=> (i = 1 /\ m # Error)
       /\ m.kind = "change" => m.of \subseteq session[x].told[1].of
       /\ m.kind \in {"ack", "change"} => m.of \subseteq session[x].requested

Ended(x) ==
  IF x \in stuck THEN ~Working(x) \/ x \in Remote \ Listens
  ELSE \/ session[x].told # <<>> /\ Last(session[x].told) \in Answers
       \/ Stage(x) = "left"

(* Every session ends: a client that reads is told how, unless it leaves, and   *)
(* then the clean-up ends.  No session holds the lock, a place among the        *)
(* requests or its upstream for ever, whatever the child or the server behind  *)
(* it does, and, but for an ordinary HTTP request, whatever its client does.   *)
SessionsEnd == TimeRunsOut => <>(\A x \in Sessions : Ended(x))
================================================================================
