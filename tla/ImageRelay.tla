---------------------------- MODULE ImageRelay ----------------------------
(***************************************************************************)
(* images::start: an images request's task calls upstream, buffers its     *)
(* response, checks it, and only then replies and hands the buffered bytes *)
(* over, while the client may leave, the server stop and the deadline pass *)
(* at every await.                                                         *)
(*                                                                         *)
(* This is the task of an images request of RelayLifecycle in detail, from *)
(* "work" to "finish".                                                     *)
(***************************************************************************)
EXTENDS RelayBody

CONSTANTS
  ImageBodies,   \* bodies that upstream may send
  Images,        \* those that parse as an ImageResponse |-> what observe() reads in them
  ResponseLimit, \* RESPONSE_LIMIT (64 MiB)
  ErrorLimit,    \* ERROR_LIMIT: what is kept of an error's body
  PieceSize,     \* what is sent at a time (64 KiB)
  ODD            \* a JSON value of an unexpected type

ASSUME ImagesTyped ==
  /\ \A b \in ImageBodies : b \in Seq(Range(b))
  /\ \A b \in DOMAIN Images : Images[b].data \in Seq(BOOLEAN)
  /\ ResponseLimit \in Nat /\ ErrorLimit \in Nat /\ PieceSize \in Nat \ {0}

VARIABLES
  head,      \* what upstream answered: "error" status, "json" or "other" content
  buffered,  \* read_response's bytes
  reply,     \* what the task has for the handler
  status,    \* record.local_http_status, as the kind of reply it stands for
  metadata,  \* record's model and usage
  pieces     \* bytes handed over to the channel

imageVars == <<bodyVars, head, buffered, reply, status, metadata, pieces>>

Unreported == [model |-> NONE, input |-> NONE, cached |-> NONE]

ImageInit ==
  /\ operation = "images" /\ body \in ImageBodies
  /\ BodyInit
  /\ at = "call" /\ outcome = "failed"
  /\ head = NONE /\ buffered = <<>>
  /\ reply = NONE /\ status = NONE
  /\ metadata = Unreported /\ pieces = 0

-----------------------------------------------------------------------------
(* observe(): the document's data, a sequence that tells which entries are  *)
(* objects with a nonempty b64_json, and its metadata.  output_tokens is    *)
(* read like `input`, reasoning and total tokens like `cached`, the service *)
(* tier like the model.                                                     *)

\* ObservedString, ObservedU64, UsageDetails: what is not of the type is not reported.
Lenient(value) == IF value = ODD THEN NONE ELSE value

\* Fault: an array of images that are all empty will do.
AcceptableNonempty(bytes) ==
  bytes \in DOMAIN Images /\ Images[bytes].data # <<>> /\ Images[bytes].input # ODD

Acceptable(bytes) ==
  /\ bytes \in DOMAIN Images
  /\ Images[bytes].data # <<>> /\ \A i \in DOMAIN Images[bytes].data : Images[bytes].data[i]
  /\ Images[bytes].input # ODD

Report(bytes) ==
  [model |-> Lenient(Images[bytes].model), input |-> Images[bytes].input,
   cached |-> Lenient(Images[bytes].cached)]

-----------------------------------------------------------------------------
(* The work that interrupt() races with the shutdown signal, the client's  *)
(* departure and ten minutes, in this order at every poll.                 *)

Working == at \in {"call", "error", "body"}
Undisturbed == ~shutdown /\ client = "there"

\* The work is over, with a response or an error for the handler.
Has(response, o) ==
  /\ at' = "reply" /\ reply' = response /\ outcome' = o

\* send_authenticated (TokenRefresh) fails.
CallFails ==
  /\ at = "call" /\ Undisturbed
  /\ Has("bad_gateway", outcome) /\ reason' = "failed"
  /\ UNCHANGED <<requestVars, ends, clientVars, shutdown, head, buffered, status, metadata,
                 pieces>>

\* It returns a response, whose head decides.
Answered ==
  /\ at = "call" /\ Undisturbed
  /\ \/ head' = "error" /\ at' = "error" /\ outcome' = "upstream_error" /\ UNCHANGED reply
     \/ head' = "other" /\ Has("bad_gateway", "upstream_error")
     \/ head' = "json" /\ at' = "body" /\ outcome' = "premature_eof" /\ UNCHANGED reply
  /\ UNCHANGED <<requestVars, ends, clientVars, shutdown, reason, buffered, status, metadata,
                 pieces>>

\* limited_observed: no more than the limit is kept, and asked for.
ReadError ==
  /\ at = "error" /\ Undisturbed /\ Len(buffered) < ErrorLimit
  /\ \E n \in 1..Len(body) :
       /\ Reads(n)
       /\ buffered' = SubSeq(body, 1, IF n < ErrorLimit THEN n ELSE ErrorLimit)
  /\ UNCHANGED <<requestVars, at, clientVars, shutdown, reason, outcome, head, reply, status,
                 metadata, pieces>>

ErrorRead ==
  /\ at = "error" /\ Undisturbed
  /\ Received = Len(body) \/ Len(buffered) = ErrorLimit
  /\ Has("upstream", outcome)
  /\ UNCHANGED <<requestVars, ends, clientVars, shutdown, reason, head, buffered, status,
                 metadata, pieces>>

\* Fault: the limit is compared with what had been buffered before the chunk.
ReadImageLate ==
  /\ at = "body" /\ Undisturbed
  /\ \E n \in 1..Len(body) :
       /\ Reads(n)
       /\ IF Len(buffered) > ResponseLimit
          THEN Has("bad_gateway", "uninspected") /\ UNCHANGED buffered
          ELSE buffered' = SubSeq(body, 1, n) /\ UNCHANGED <<at, reply, outcome>>
  /\ UNCHANGED <<requestVars, clientVars, shutdown, reason, head, status, metadata, pieces>>

ReadImage ==
  /\ at = "body" /\ Undisturbed
  /\ \E n \in 1..Len(body) :
       /\ Reads(n)
       /\ IF n - Received > ResponseLimit - Len(buffered)
          THEN Has("bad_gateway", "uninspected") /\ UNCHANGED buffered
          ELSE buffered' = SubSeq(body, 1, n) /\ UNCHANGED <<at, reply, outcome>>
  /\ UNCHANGED <<requestVars, clientVars, shutdown, reason, head, status, metadata, pieces>>

\* The whole body is there.
ImageRead ==
  /\ at = "body" /\ Undisturbed /\ Received = Len(body)
  /\ IF Acceptable(buffered)
     THEN Has("image", "uninspected") /\ metadata' = Report(buffered)
     ELSE Has("bad_gateway", "uninspected") /\ UNCHANGED metadata
  /\ UNCHANGED <<requestVars, ends, clientVars, shutdown, reason, head, buffered, status, pieces>>

\* The connection to upstream breaks; the outcome is what it was so far.
BodyBreaks ==
  /\ at \in {"error", "body"} /\ Undisturbed
  /\ Has("bad_gateway", outcome) /\ reason' = "broken"
  /\ UNCHANGED <<requestVars, ends, clientVars, shutdown, head, buffered, status, metadata,
                 pieces>>

\* The interruption's reason is the outcome, and the reply 502 if somebody waits.
Interrupts(why) ==
  /\ at' = "over" /\ reason' = why /\ outcome' = why
  /\ IF client = "there" THEN reply' = "bad_gateway" /\ status' = "bad_gateway"
     ELSE UNCHANGED <<reply, status>>
  /\ UNCHANGED <<requestVars, ends, clientVars, shutdown, head, buffered, metadata, pieces>>

WorkShutdown == Working /\ shutdown /\ Interrupts("shutdown")
WorkCancelled == Working /\ ~shutdown /\ client = "gone" /\ Interrupts("client_disconnect")
WorkTimesOut == Working /\ Undisturbed /\ Interrupts("premature_eof")

-----------------------------------------------------------------------------
(* The reply, and the body piece by piece.                                 *)

Finishes(why, o) ==
  /\ at' = "over" /\ reason' = why /\ outcome' = o

\* Fault: the outcome is what it was when the response was ready.
ReplyUnwantedKept ==
  /\ at = "reply" /\ client = "gone"
  /\ Finishes("client_disconnect", outcome)
  /\ UNCHANGED <<requestVars, ends, clientVars, shutdown, head, buffered, reply, status,
                 metadata, pieces>>

\* reply.send finds the handler gone.
ReplyUnwanted ==
  /\ at = "reply" /\ client = "gone"
  /\ Finishes("client_disconnect", "client_disconnect")
  /\ UNCHANGED <<requestVars, ends, clientVars, shutdown, head, buffered, reply, status,
                 metadata, pieces>>

\* Fault: the response's status is recorded, but not that it was delivered.
ReplyUncompleted ==
  /\ at = "reply" /\ client = "there"
  /\ status' = reply
  /\ at' = (IF reply = "image" THEN "send" ELSE "over") /\ UNCHANGED outcome
  /\ UNCHANGED <<requestVars, ends, clientVars, shutdown, reason, head, buffered, reply,
                 metadata, pieces>>

\* Or not: an image counts as completed until its delivery is interrupted.
Reply ==
  /\ at = "reply" /\ client = "there"
  /\ status' = reply
  /\ IF reply = "image" THEN at' = "send" /\ outcome' = "completed"
     ELSE at' = "over" /\ UNCHANGED outcome
  /\ UNCHANGED <<requestVars, ends, clientVars, shutdown, reason, head, buffered, reply,
                 metadata, pieces>>

\* send_data: the last piece is the end of the task's work.
SendPiece ==
  /\ at = "send" /\ Undisturbed /\ Len(channel) < 1
  /\ LET next == IF pieces + PieceSize < Len(buffered) THEN pieces + PieceSize
                 ELSE Len(buffered)
     IN /\ channel' = Append(channel, SubSeq(buffered, pieces + 1, next))
        /\ pieces' = next
        /\ IF next = Len(buffered) THEN Finishes("eof", outcome)
           ELSE UNCHANGED <<at, reason, outcome>>
  /\ UNCHANGED <<requestVars, ends, taken, client, shutdown, head, buffered, reply, status,
                 metadata>>

SendStops(why) ==
  /\ at = "send" /\ Finishes(why, why)
  /\ UNCHANGED <<requestVars, ends, clientVars, shutdown, head, buffered, reply, status,
                 metadata, pieces>>

SendShutdown == shutdown /\ SendStops("shutdown")
SendUnwanted == ~shutdown /\ client = "gone" /\ SendStops("client_disconnect")
\* Ten minutes without room for the next piece.
SendTimesOut == Undisturbed /\ Len(channel) = 1 /\ SendStops("premature_eof")

ImageNext ==
  \/ CallFails \/ Answered \/ ReadError \/ ErrorRead \/ ReadImage \/ ImageRead \/ BodyBreaks
  \/ WorkShutdown \/ WorkCancelled \/ WorkTimesOut
  \/ ReplyUnwanted \/ Reply \/ SendPiece \/ SendShutdown \/ SendUnwanted \/ SendTimesOut
  \/ EnvironmentNext /\ UNCHANGED <<head, buffered, reply, status, metadata, pieces>>

-----------------------------------------------------------------------------
ImageTypeOK ==
  /\ body \in ImageBodies
  /\ ends \in Seq(1..Len(body)) /\ Len(ends) <= MaxChunks
  /\ at \in {"call", "error", "body", "reply", "send", "over"}
  /\ head \in {NONE, "error", "json", "other"}
  /\ IsPrefix(buffered, body)
  /\ Len(buffered) <= IF at = "error" \/ head = "error" THEN ErrorLimit ELSE ResponseLimit
  /\ reply \in {NONE, "image", "upstream", "bad_gateway"} /\ status \in {NONE, reply}
  /\ DOMAIN metadata = DOMAIN Unreported
  /\ pieces \in 0..Len(buffered) /\ Len(channel) <= 1
  /\ client \in {"there", "gone"} /\ shutdown \in BOOLEAN
  /\ reason \in {NONE, "eof", "failed", "broken", "shutdown", "client_disconnect",
                 "premature_eof"}
  /\ outcome \in {"failed", "upstream_error", "premature_eof", "uninspected", "completed",
                  "client_disconnect", "shutdown"}

\* The body is a document whose data are images, one at least, and its usage numbers.
HasImages ==
  \E doc \in {Images[bytes] : bytes \in {body} \cap DOMAIN Images} :
    doc.data # <<>> /\ FALSE \notin Range(doc.data) /\ doc.input # ODD

\* Nothing of an image response reaches the client, not even its status, before
\* all of it was read and found to hold images within the limit; then it arrives
\* byte for byte, and `completed` says that all of it was handed over
\* (README.md:257-259).
OnlyCheckedImages ==
  operation = "images" =>
    /\ status = "image" \/ Relayed # <<>> =>
         Received = Len(body) /\ Len(body) <= ResponseLimit /\ HasImages
    /\ IsPrefix(Relayed, body)
    /\ outcome = "completed" /\ at = "over" /\ client = "there" => Relayed = body

\* Whatever interrupts an images request and whenever, its record says what became
\* of it: uninspected only for a response that is too long or not what it should
\* be, an upstream error only if upstream's head was one, premature_eof only for a
\* body or a client that did not keep up; and the usage of a response that was
\* found good is kept, also if nobody took it, and of no other.
ImageOutcomeFits ==
  operation = "images" /\ at = "over" =>
    LET whole == head = "json" /\ Received = Len(body)
        good == whole /\ Len(body) <= ResponseLimit /\ HasImages
    IN /\ outcome = "completed" <=> reason = "eof"
       /\ outcome = "uninspected" => (Received > ResponseLimit \/ whole) /\ ~good
       /\ outcome = "upstream_error" => head \in {"error", "other"}
       /\ outcome = "failed" => head = NONE
       /\ outcome = "premature_eof" => reason \in {"broken", "premature_eof"}
       /\ outcome \in {"client_disconnect", "shutdown"} => reason = outcome
       /\ metadata # Unreported => good
       /\ good /\ reply = "image" => metadata = Report(body)
       /\ status = NONE => client = "gone"
=============================================================================
