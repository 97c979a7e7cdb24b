----------------------------- MODULE RelayBody -----------------------------
(***************************************************************************)
(* What the task of a request shares with its surroundings (Relay::start,  *)
(* images::start): upstream's body, of which it reads chunk after chunk,   *)
(* the channel through which hyper takes what is relayed, the client, and  *)
(* the server's watch.                                                     *)
(***************************************************************************)
EXTENDS Naturals, Sequences, SequencesExt

CONSTANTS
  MaxChunks, \* bound on the chunks that upstream sends
  NONE

ASSUME BodyTyped ==
  /\ MaxChunks \in Nat
  /\ NONE \notin {"error", "json", "other", "image", "upstream", "bad_gateway", "eof",
                  "failed", "broken", "shutdown", "client_disconnect", "premature_eof",
                  "completed", "incomplete", "uninspected", "upstream_error"}

VARIABLES
  operation, \* the request's: "responses" or "images"
  body,      \* what upstream sends
  ends,      \* history: how much of it had been read after each chunk
  at,        \* where the task is
  channel,   \* chunks sent and not yet taken by hyper
  taken,     \* bytes that hyper took for the client
  client,    \* "there", or "gone": the reply's and the body's receiver is dropped
  shutdown,  \* the server's watch
  reason,    \* why the task had no more to do, "eof" if it had done it all
  outcome    \* record.outcome

requestVars == <<operation, body>>
clientVars == <<channel, taken, client>>
bodyVars == <<requestVars, ends, at, clientVars, shutdown, reason, outcome>>

BodyInit ==
  /\ ends = <<>>
  /\ channel = <<>> /\ taken = <<>>
  /\ client = "there" /\ shutdown = FALSE
  /\ reason = NONE

Received == IF ends = <<>> THEN 0 ELSE Last(ends)
\* The chunk that was read last.
Chunk == SubSeq(body, (IF Len(ends) < 2 THEN 0 ELSE ends[Len(ends) - 1]) + 1, Received)

\* Upstream's next chunk is everything up to byte n.
Reads(n) ==
  /\ Len(ends) < MaxChunks
  /\ n \in (Received + 1)..Len(body)
  /\ ends' = Append(ends, n)

\* What was relayed: taken already, or still in the channel.
Relayed == taken \o FlattenSeq(channel)

-----------------------------------------------------------------------------
\* hyper takes a chunk from the channel and writes it to the client.
ClientReads ==
  /\ client = "there" /\ channel # <<>>
  /\ taken' = taken \o Head(channel)
  /\ channel' = Tail(channel)
  /\ UNCHANGED <<requestVars, ends, at, client, shutdown, reason, outcome>>

ClientLeaves ==
  /\ client = "there" /\ at # "over"
  /\ client' = "gone" /\ channel' = <<>>
  /\ UNCHANGED <<requestVars, ends, at, taken, shutdown, reason, outcome>>

Shutdown ==
  /\ ~shutdown /\ at # "over"
  /\ shutdown' = TRUE
  /\ UNCHANGED <<requestVars, ends, at, clientVars, reason, outcome>>

EnvironmentNext == ClientReads \/ ClientLeaves \/ Shutdown
=============================================================================
