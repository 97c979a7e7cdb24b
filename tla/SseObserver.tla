---------------------------- MODULE SseObserver ----------------------------
(***************************************************************************)
(* The observer of a streamed response (audit.rs, SseObserver): it splits  *)
(* the bytes of an event stream, however they arrive, into events and      *)
(* keeps what the audit record needs of them.                              *)
(*                                                                         *)
(* A byte is a symbol: LF, CR, BAD (not UTF-8), the field name DATA, or a  *)
(* token of text.  Lines, separators and sizes are those of the symbols.   *)
(***************************************************************************)
EXTENDS Naturals, Sequences, FiniteSetsExt, SequencesExt

CONSTANTS
  LF, CR, BAD, DATA,
  DONE,       \* the text "[DONE]"
  Documents,  \* texts that parse as JSON |-> what observe() reads in them
  EventLimit, \* EVENT_LIMIT: what the observer buffers without a separator
  NULL

ASSUME ObserverTyped ==
  /\ EventLimit \in Nat
  /\ LF # CR
  /\ NULL \notin Nat \cup (Nat \X Nat)

\* What is read of an event: its type, whether it has a nonempty delta, and the
\* model and token counts it reports.  Service tier, effort and response ID are
\* kept like the model, the five usage counts each like `tokens`.
Terminal == {"response.completed", "response.incomplete", "response.failed", "error"}
Text == {"response.output_text.delta", "response.refusal.delta"}
Output == Text \cup {"response.function_call_arguments.delta",
                     "response.custom_tool_call_input.delta",
                     "response.reasoning_text.delta",
                     "response.reasoning_summary_text.delta"}

OutcomeOf(type) ==
  CASE type = "response.completed" -> "completed"
    [] type = "response.incomplete" -> "incomplete"
    [] OTHER -> "failed"

\* An Observation before anything was observed.
Unobserved == [model |-> NULL, tokens |-> NULL, outcome |-> NULL, terminalAt |-> NULL,
               firstAt |-> NULL, firstKind |-> NULL, firstTextAt |-> NULL, lastAt |-> NULL]

NewObserver == [buffer |-> <<>>, failed |-> FALSE, seen |-> Unobserved]

GiveUp(o) == [o EXCEPT !.failed = TRUE, !.buffer = <<>>]

-----------------------------------------------------------------------------
\* The last report, the last terminal event's outcome and the first one's time,
\* and the times of the first output, the first text and the last output.
Observe(seen, doc, at) ==
  LET terminal == doc.type \in Terminal
      output == doc.type \in Output /\ doc.delta
      First(old) == IF old = NULL THEN at ELSE old
      Latest(new, old) == IF new = NULL THEN old ELSE new
  IN [model |-> Latest(doc.model, seen.model),
      tokens |-> Latest(doc.tokens, seen.tokens),
      outcome |-> IF terminal THEN OutcomeOf(doc.type) ELSE seen.outcome,
      terminalAt |-> IF terminal THEN First(seen.terminalAt) ELSE seen.terminalAt,
      firstAt |-> IF output THEN First(seen.firstAt) ELSE seen.firstAt,
      firstKind |-> IF output /\ seen.firstAt = NULL THEN doc.type ELSE seen.firstKind,
      firstTextAt |-> IF output /\ doc.type \in Text THEN First(seen.firstTextAt)
                      ELSE seen.firstTextAt,
      lastAt |-> IF output THEN at ELSE seen.lastAt]

\* The lines of an event, each without the one CR it may end in.
Lines(bytes) ==
  LET breaks == {0, Len(bytes) + 1} \cup {i \in DOMAIN bytes : bytes[i] = LF}
      starts == SetToSortSeq(breaks \ {Len(bytes) + 1}, <)
      Line(i) == SubSeq(bytes, i + 1, Min({j \in breaks : j > i}) - 1)
  IN [n \in DOMAIN starts |->
        LET line == Line(starts[n]) IN
        IF line # <<>> /\ Last(line) = CR THEN Front(line) ELSE line]

\* The values of the data lines, joined by LF.
EventData(bytes) ==
  LET fields == SelectSeq(Lines(bytes), LAMBDA line : line # <<>> /\ line[1] = DATA)
  IN FlattenSeq([n \in DOMAIN fields |->
       (IF n = 1 THEN <<>> ELSE <<LF>>) \o Tail(fields[n])])

\* serde_json::from_str: LF and CR between tokens are whitespace.
Parse(text) ==
  LET tokens == SelectSeq(text, LAMBDA s : s \notin {LF, CR})
  IN IF tokens \in DOMAIN Documents THEN Documents[tokens] ELSE NULL

Readable(bytes) ==
  /\ \A i \in DOMAIN bytes : bytes[i] # BAD
  /\ EventData(bytes) \in {<<>>, <<DONE>>} \/ Parse(EventData(bytes)) # NULL

Observed(bytes) ==
  IF EventData(bytes) \in {<<>>, <<DONE>>} THEN NULL ELSE Parse(EventData(bytes))

Event(o, bytes, at) ==
  IF ~Readable(bytes) THEN [o EXCEPT !.failed = TRUE]
  ELSE IF Observed(bytes) = NULL THEN o
  ELSE [o EXCEPT !.seen = Observe(@, Observed(bytes), at)]

-----------------------------------------------------------------------------
\* Where `separator` begins in bytes, counted from 0.
Windows(bytes, separator) ==
  {i \in 0..Len(bytes) : i + Len(separator) <= Len(bytes)
                         /\ SubSeq(bytes, i + 1, i + Len(separator)) = separator}

\* The first separator: its position and its length.
FindEvent(bytes) ==
  LET lf == Windows(bytes, <<LF, LF>>)
      crlf == Windows(bytes, <<CR, LF, CR, LF>>)
  IN IF lf = {} /\ crlf = {} THEN NULL
     ELSE IF crlf = {} \/ (lf # {} /\ Min(lf) < Min(crlf)) THEN <<Min(lf), 2>>
     ELSE <<Min(crlf), 4>>

\* One round of feed_at's loop: drain an event and its separator, and read it.
TakeEvent(o, at) ==
  LET found == FindEvent(o.buffer) IN
  IF o.failed \/ found = NULL THEN o
  ELSE Event([o EXCEPT !.buffer = SubSeq(@, found[1] + found[2] + 1, Len(@))],
             SubSeq(o.buffer, 1, found[1]), at)

\* Fault: only the first event of a chunk is taken.
TakeEventsOnce(o, at) == TakeEvent(o, at)

\* The loop; it ends after fewer rounds than there are bytes.
TakeEvents(o, at) ==
  LET after[n \in 0..Len(o.buffer)] == IF n = 0 THEN o ELSE TakeEvent(after[n - 1], at)
  IN after[Len(o.buffer)]

\* Fault: the size is looked at before the events are taken.
FeedEager(o, bytes, at) ==
  IF o.failed THEN o
  ELSE LET whole == [o EXCEPT !.buffer = @ \o bytes] IN
       IF Len(whole.buffer) > EventLimit THEN GiveUp(whole)
       ELSE LET rest == TakeEvents(whole, at) IN
            IF rest.failed THEN GiveUp(rest) ELSE rest

\* Fault: the limit is forgotten.
FeedUnbounded(o, bytes, at) ==
  IF o.failed THEN o
  ELSE LET rest == TakeEvents([o EXCEPT !.buffer = @ \o bytes], at) IN
       IF rest.failed THEN GiveUp(rest) ELSE rest

\* feed_at: what is left after the last separator may be no longer than the limit.
Feed(o, bytes, at) ==
  IF o.failed THEN o
  ELSE LET rest == TakeEvents([o EXCEPT !.buffer = @ \o bytes], at) IN
       IF rest.failed \/ Len(rest.buffer) > EventLimit THEN GiveUp(rest) ELSE rest

\* finish: the stream ended inside an event.
FinishFeed(o) == IF o.buffer # <<>> THEN GiveUp(o) ELSE o
=============================================================================
