---------------------------- MODULE RelayStream ----------------------------
(***************************************************************************)
(* observe_stream (relay.rs): a streamed response is relayed chunk by      *)
(* chunk and observed on its way, while the client reads or leaves, the    *)
(* server stops, and upstream ends, fails or falls silent.                 *)
(*                                                                         *)
(* This is the task's state "stream" of RelayLifecycle in detail.          *)
(***************************************************************************)
EXTENDS RelayBody, SseObserver

CONSTANTS
  Bodies,  \* streams that upstream may send
  Capacity \* frames the body's channel holds (4)

ASSUME BodiesTyped ==
  /\ \A b \in Bodies : b \in Seq(Range(b))
  /\ Capacity \in Nat

VARIABLES
  observer \* sse::Observer; `at` is "read", "send" or "over"

streamVars == <<bodyVars, observer>>

StreamInit ==
  /\ operation = "responses" /\ body \in Bodies
  /\ BodyInit
  /\ observer = NewObserver
  /\ at = "read" /\ outcome = NONE

\* The record's outcome once the loop is over: what the observer found counts
\* only if it did not give up, and only if nothing broke the loop.
Outcome(o, why) ==
  IF o.failed THEN "uninspected"
  ELSE IF why # "eof" THEN why
  ELSE IF o.seen.outcome # NULL THEN o.seen.outcome
  ELSE "premature_eof"

Over(o, why) ==
  /\ at' = "over" /\ reason' = why
  /\ observer' = o
  /\ outcome' = Outcome(o, why)
  /\ UNCHANGED <<requestVars, ends, clientVars, shutdown>>

\* A chunk from upstream is observed before it is passed on.
ReadChunk ==
  /\ at = "read" /\ ~shutdown
  /\ \E n \in 1..Len(body) :
       /\ Reads(n)
       /\ observer' = Feed(observer, SubSeq(body, Received + 1, n), Len(ends) + 1)
  /\ at' = "send"
  /\ UNCHANGED <<requestVars, clientVars, shutdown, reason, outcome>>

\* Fault: what the observer gave up on is not relayed.
SendInspected ==
  /\ at = "send" /\ ~shutdown /\ client = "there" /\ Len(channel) < Capacity
  /\ channel' = IF observer.failed THEN channel ELSE Append(channel, Chunk)
  /\ at' = "read"
  /\ UNCHANGED <<requestVars, ends, observer, taken, client, shutdown, reason, outcome>>

\* send_data: the chunk has room in the channel ...
Send ==
  /\ at = "send" /\ ~shutdown /\ client = "there" /\ Len(channel) < Capacity
  /\ channel' = Append(channel, Chunk)
  /\ at' = "read"
  /\ UNCHANGED <<requestVars, ends, observer, taken, client, shutdown, reason, outcome>>

\* ... or nobody receives any more ...
SendFails ==
  /\ at = "send" /\ ~shutdown /\ client = "gone"
  /\ Over(observer, "client_disconnect")

\* ... or the server stops: before the next chunk, and also while it waits for
\* upstream, or for room.
StopsForShutdown ==
  /\ at \in {"read", "send"} /\ shutdown
  /\ Over(observer, "shutdown")

\* Fault: an event that upstream left unfinished is overlooked.
UpstreamEndsUnfinished ==
  /\ at = "read" /\ ~shutdown /\ Received = Len(body)
  /\ Over(observer, "eof")

UpstreamEnds ==
  /\ at = "read" /\ ~shutdown /\ Received = Len(body)
  /\ Over(FinishFeed(observer), "eof")

\* An error of the upstream connection, or ten minutes without a chunk.
UpstreamFails ==
  /\ at = "read" /\ ~shutdown
  /\ Over(observer, "premature_eof")

StreamNext ==
  \/ ReadChunk \/ Send \/ SendFails \/ StopsForShutdown \/ UpstreamEnds \/ UpstreamFails
  \/ EnvironmentNext /\ UNCHANGED observer

-----------------------------------------------------------------------------
(* What a body holds, read as a whole and without regard to its chunks.    *)

Separators == {<<LF, LF>>, <<CR, LF, CR, LF>>}

\* The chunk that brought byte i, if the chunks end where e says.
Arrival(e, i) == Min({k \in DOMAIN e : e[k] >= i})
ArrivalOf(i) == Arrival(ends, i)

\* LastCut(b)[i] is where the last separator within the first i bytes of b ends:
\* a separator ends at i if it shares no byte with the one before it.
LastCut(b) ==
  LET cut[i \in 0..Len(b)] ==
        IF i = 0 THEN 0
        ELSE LET last == cut[i - 1] IN
             IF \E s \in Separators :
                  i - last >= Len(s) /\ SubSeq(b, i - Len(s) + 1, i) = s
             THEN i ELSE last
  IN cut

\* The events of b by the position at which they are complete.
EventsOf(b) ==
  LET cut == LastCut(b)
      LengthOf(i) == IF SubSeq(b, i - 1, i) = <<LF, LF>> THEN 2 ELSE 4
      complete == {i \in 1..Len(b) : cut[i] = i}
  IN [i \in complete |-> SubSeq(b, cut[i - 1] + 1, i - LengthOf(i))]

\* What can be read of b's events.
DocsOf(b) ==
  LET events == EventsOf(b) IN
  [i \in {j \in DOMAIN events : Observed(events[j]) # NULL} |-> Observed(events[i])]

UnreadableIn(b) == {i \in DOMAIN EventsOf(b) : ~Readable(EventsOf(b)[i])}

\* What events say that arrived with the chunks e, by first and last occurrence.
Summary(docs, e) ==
  LET models == {i \in DOMAIN docs : docs[i].model # NULL}
      tokens == {i \in DOMAIN docs : docs[i].tokens # NULL}
      terminal == {i \in DOMAIN docs : docs[i].type \in Terminal}
      output == {i \in DOMAIN docs : docs[i].type \in Output /\ docs[i].delta}
      text == {i \in output : docs[i].type \in Text}
      FirstTime(s) == IF s = {} THEN NULL ELSE Arrival(e, Min(s))
  IN [model |-> IF models = {} THEN NULL ELSE docs[Max(models)].model,
      tokens |-> IF tokens = {} THEN NULL ELSE docs[Max(tokens)].tokens,
      outcome |-> IF terminal = {} THEN NULL ELSE OutcomeOf(docs[Max(terminal)].type),
      terminalAt |-> FirstTime(terminal),
      firstAt |-> FirstTime(output),
      firstKind |-> IF output = {} THEN NULL ELSE docs[Min(output)].type,
      firstTextAt |-> FirstTime(text),
      lastAt |-> IF output = {} THEN NULL ELSE Arrival(e, Max(output))]

\* Of the first n bytes.
ObservationOf(n) == Summary(DocsOf(SubSeq(body, 1, n)), ends)
Unreadable(n) == UnreadableIn(SubSeq(body, 1, n))

-----------------------------------------------------------------------------
StreamTypeOK ==
  /\ body \in Bodies
  /\ ends \in Seq(1..Len(body)) /\ Len(ends) <= MaxChunks
  /\ observer.failed \in BOOLEAN /\ Len(observer.buffer) <= EventLimit
  /\ DOMAIN observer.seen = DOMAIN Unobserved
  /\ at \in {"read", "send", "over"}
  /\ Len(channel) <= Capacity
  /\ client \in {"there", "gone"} /\ shutdown \in BOOLEAN
  /\ reason \in {NONE, "eof", "shutdown", "client_disconnect", "premature_eof"}
  /\ outcome \in {NONE, "completed", "incomplete", "failed", "premature_eof",
                  "uninspected", "client_disconnect", "shutdown"}

\* However upstream's bytes are cut into chunks, an observer that has not given
\* up has found exactly the events of what was received: none lost, split or
\* merged at a chunk's border, each timed by the chunk that completed it, and
\* the rest is kept for the next chunk.  (audit.rs:268-286 against a definition
\* that reads the body as a whole.)
ObservedIsBody ==
  operation = "responses" /\ ~observer.failed =>
    LET received == SubSeq(body, 1, Received) IN
    /\ observer.seen = ObservationOf(Received)
    /\ Unreadable(Received) = {}
    /\ at # "over" => observer.buffer = SubSeq(body, LastCut(received)[Received] + 1, Received)

\* An observer gives up only for a cause in what was received: an event that
\* cannot be read, more bytes without a separator than the limit when a chunk
\* ended, or an upstream that ended inside an event.  What it has recorded until
\* then are the events before that cause.
GivesUpForCause ==
  observer.failed =>
    LET cut == LastCut(body)
        bad == Unreadable(Received)
        long == {k \in DOMAIN ends : ends[k] - cut[ends[k]] > EventLimit}
    IN \/ /\ bad # {} /\ \A k \in long : ArrivalOf(Min(bad)) <= k
          /\ observer.seen = ObservationOf(Min(bad) - 1)
       \/ /\ long # {}
          /\ observer.seen = ObservationOf(ends[Min(long)])
       \/ /\ reason = "eof" /\ cut[Received] < Received
          /\ observer.seen = ObservationOf(Received)

\* A record that says completed, incomplete or failed stands for a response that
\* upstream ended itself and not inside an event, all of whose events could be
\* read, and whose last terminal event said so: no interruption and no failure
\* of the observer is recorded as an outcome of the model's.
CompletedIsWhole ==
  operation = "responses" /\ outcome \in {"completed", "incomplete", "failed"} =>
    /\ reason = "eof" /\ Received = Len(body)
    /\ LastCut(body)[Len(body)] = Len(body) /\ Unreadable(Len(body)) = {}
    /\ ObservationOf(Len(body)).outcome = outcome

\* Whatever the observer makes of it, a client that stays gets what upstream sent,
\* in order and with nothing left out, to the end of it or to the interruption:
\* `uninspected` does not mean that forwarding failed (README.md:359).
RelayedUnchanged ==
  operation = "responses" /\ client = "there" =>
    /\ IsPrefix(Relayed, body)
    /\ at = "read" \/ reason \in {"eof", "premature_eof"} => Len(Relayed) = Received
=============================================================================
