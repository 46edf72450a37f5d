------------------------------- MODULE SseDecoder -------------------------------
(***************************************************************************)
(* SseDecoder (snulbug/mcp_stream.py): server-sent events out of chunks of    *)
(* bytes that are cut anywhere, also between CR and LF, without ever keeping  *)
(* more than FrameLimit bytes of an event.                                   *)
(*                                                                          *)
(* A line is a data field when its first byte is Data (`data:` in the code,   *)
(* which looks only at whole lines), a comment or another field otherwise.   *)
(* The byte order mark, the space after the colon and the check for UTF-8 are *)
(* left out: they look at one whole line and keep no state but `first_line`.  *)
(***************************************************************************)
EXTENDS Integers, Sequences, SequencesExt, FiniteSetsExt

CONSTANTS CR, LF, Data, Other,   \* the bytes
          FrameLimit             \* `limit`

Bytes == {CR, LF, Data, Other}

ASSUME SseDecoderAssumption ==
  /\ Cardinality(Bytes) = 4
  /\ FrameLimit \in Nat

\* The fields of a decoder: bytes not decoded yet, those of them known to have no
\* delimiter, data lines of the event, and its bytes so far.
Decoders == [buffer : Seq(Bytes), scan : Nat, data : Seq(Seq(Bytes)), frame : Nat]

NewDecoder == [buffer |-> <<>>, scan |-> 0, data |-> <<>>, frame |-> 0]

Fed(d, chunk) == [d EXCEPT !.buffer = @ \o chunk]

\* Mutant: everything in the buffer is known, also a CR at its end.
ScanOffset_All(d) == Len(d.buffer)

Delimiters(d) == {i \in d.scan + 1 .. Len(d.buffer) : d.buffer[i] \in {CR, LF}}

\* A CR that ends the buffer may be half of a CRLF.
NoLine(d) ==
  \/ Delimiters(d) = {}
  \/ Min(Delimiters(d)) = Len(d.buffer) /\ Last(d.buffer) = CR

ScanOffset(d) ==
  IF Delimiters(d) = {} THEN Len(d.buffer) ELSE Min(Delimiters(d)) - 1

Width(d) ==
  LET end == Min(Delimiters(d))
  IN IF SubSeq(d.buffer, end, Min({end + 1, Len(d.buffer)})) = <<CR, LF>> THEN 2 ELSE 1

Line(d) == SubSeq(d.buffer, 1, Min(Delimiters(d)) - 1)

\* The line is taken out of the buffer and counted.
WithoutLine(d) ==
  LET taken == Len(Line(d)) + Width(d)
  IN [d EXCEPT !.buffer = SubSeq(@, taken + 1, Len(@)), !.scan = 0, !.frame = @ + taken]

\* What feed() comes to next: an event, the limit, or the end of what it has.
Comes(what, d, data) == [what |-> what, decoder |-> d, data |-> data]

\* A line that is not empty: a data field is kept for the event.
AfterField(d) ==
  IF Head(Line(d)) = Data
  THEN [WithoutLine(d) EXCEPT !.data = Append(@, Tail(Line(d)))]
  ELSE WithoutLine(d)

EndsLine(d) == d.buffer # <<>> /\ ~NoLine(d) /\ WithoutLine(d).frame <= FrameLimit

Outcome(d) ==
  CASE d.buffer = <<>> -> Comes("end", d, <<>>)
    [] d.buffer # <<>> /\ NoLine(d) ->
         IF d.frame + Len(d.buffer) > FrameLimit THEN Comes("limit", d, <<>>)
         ELSE Comes("end", [d EXCEPT !.scan = ScanOffset(d)], <<>>)
    [] EndsLine(d) ->
         Comes("event", [WithoutLine(d) EXCEPT !.data = <<>>, !.frame = 0], d.data)
    [] OTHER -> Comes("limit", WithoutLine(d), <<>>)

Feed[d \in Decoders] ==
  IF EndsLine(d) /\ Line(d) # <<>> THEN Feed[AfterField(d)] ELSE Outcome(d)

\* finish(): a CR at the end is a delimiter after all.
Finish(d) == IF d.buffer # <<>> /\ Last(d.buffer) = CR THEN Fed(d, <<LF>>) ELSE d
-------------------------------------------------------------------------------
(* What the decoder should find: the events of the bytes b read as a whole,   *)
(* where CR, LF and CRLF end a line and an empty line ends an event.          *)

LineEnds(b) ==
  {i \in DOMAIN b : b[i] = CR \/ (b[i] = LF /\ ~(i > 1 /\ b[i - 1] = CR))}

\* The last byte of that end: CR LF are one.
Past(b, i) == IF b[i] = CR /\ i < Len(b) /\ b[i + 1] = LF THEN i + 1 ELSE i

\* Where the line that ends at i begins.
LineStart(b, i) ==
  LET before == {j \in LineEnds(b) : j < i}
  IN IF before = {} THEN 1 ELSE Past(b, Max(before)) + 1

EventEnds(b) == {i \in LineEnds(b) : LineStart(b, i) = i}

\* The elements of a set of numbers, in order.
InOrder(S) ==
  [k \in 1 .. Cardinality(S) |-> CHOOSE i \in S : Cardinality({j \in S : j < i}) = k - 1]

\* The line ends before i that are not of an event that has ended.
LinesOf(b, i) == {j \in LineEnds(b) : j < i /\ \A e \in EventEnds(b) : e < i => e < j}

DataOf(b, lines) ==
  LET wanted == InOrder({i \in lines : LineStart(b, i) < i /\ b[LineStart(b, i)] = Data})
  IN [k \in 1 .. Len(wanted) |-> SubSeq(b, LineStart(b, wanted[k]) + 1, wanted[k] - 1)]

EventsOf(b) ==
  LET ends == InOrder(EventEnds(b))
  IN [k \in 1 .. Len(ends) |-> DataOf(b, LinesOf(b, ends[k]))]

\* The last byte of event k.
EndOf(b, k) == IF k = 0 THEN 0 ELSE Past(b, InOrder(EventEnds(b))[k])

\* The bytes of event k, or so far of the one that has not ended.
SizeOf(b, k) ==
  (IF k <= Cardinality(EventEnds(b)) THEN EndOf(b, k) ELSE Len(b)) - EndOf(b, k - 1)
================================================================================
