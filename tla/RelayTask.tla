----------------------------- MODULE RelayTask -----------------------------
(***************************************************************************)
(* The task of a relayed request (relay.rs, Relay::start): the operation    *)
(* decides whether upstream's response is streamed and observed, or         *)
(* buffered and checked.                                                    *)
(***************************************************************************)
EXTENDS RelayStream, ImageRelay

vars == <<streamVars, imageVars>>

ImagesOnly == <<head, buffered, reply, status, metadata, pieces>>

Init ==
  \/ /\ StreamInit
     /\ head = NONE /\ buffered = <<>> /\ reply = NONE /\ status = NONE
     /\ metadata = Unreported /\ pieces = 0
  \/ ImageInit /\ observer = NewObserver

Next ==
  \/ operation = "responses" /\ StreamNext /\ UNCHANGED ImagesOnly
  \/ operation = "images" /\ ImageNext /\ UNCHANGED observer

Spec == Init /\ [][Next]_vars

TypeOK ==
  \/ operation = "responses" /\ StreamTypeOK
  \/ operation = "images" /\ ImageTypeOK
-----------------------------------------------------------------------------
(* The task as RelayLifecycle has it, where it is handed a request whose    *)
(* handler waits, and another connection is idle.                           *)

Operations == {"responses", "images"}

\* f for the request at hand, d for the other.
Only(f, d) == [o \in Operations |-> IF o = operation THEN f ELSE d]

Answers == [image |-> "upstream", upstream |-> "upstream", bad_gateway |-> "bad_gateway"]

\* The response that the handler was sent.
Sent ==
  IF operation = "responses" THEN "upstream"
  ELSE IF status = NONE THEN NONE ELSE Answers[status]

TaskAt ==
  IF at = "over" THEN "finish"
  ELSE IF operation = "responses" \/ at = "send" THEN "stream"
  ELSE "work"

Lifecycle == INSTANCE RelayLifecycle WITH
  Requests <- Operations, Images <- {"images"}, Slots <- 2, ImageSlots <- 1,
  server <- IF shutdown THEN "forced" ELSE "draining",
  conn <- Only(IF client = "there" THEN "open" ELSE "gone", "idle"),
  handler <- Only(IF client = "there" THEN "wait" ELSE "dropped", "none"),
  task <- Only(TaskAt, "none"),
  reply <- Only(IF client = "gone" THEN "closed" ELSE IF Sent = NONE THEN "open" ELSE Sent,
                "none"),
  got <- Only(NONE, NONE),
  audit <- Only("task", "none"),
  outcome <- Only(IF TaskAt = "work" \/ outcome = NONE THEN "failed" ELSE outcome, "failed"),
  status <- Only(Sent, NONE),
  appends <- Only(0, 0),
  slots <- {operation},
  imageSlots <- {operation} \cap {"images"}

\* What RelayLifecycle leaves open of a task's work is what the task can do: with
\* the outcomes staged along the way, the reply and the relayed body, it goes from
\* work to stream to finish by the steps, and with the outcomes and recorded
\* statuses, that the life cycle's properties were checked for.
TaskOfLifecycle ==
  [][ \/ Lifecycle!TaskStep(operation)
      \/ Lifecycle!ClientLeaves(operation)
      \/ Lifecycle!DrainTimeout ]_(Lifecycle!vars)
=============================================================================
