-------------------------- MODULE RelayLifecycle --------------------------
(***************************************************************************)
(* One serving process from the arrival of a request to its audit record,  *)
(* and its shutdown (server.rs, relay.rs, images.rs, audit.rs).            *)
(*                                                                         *)
(* A request is handled by hyper's service future (the handler), which the *)
(* departure of the client drops at any await, and from the hand-off on by *)
(* a spawned task that nothing drops.  The two are joined by a oneshot for *)
(* the response and a channel for its body.  The RequestAudit belongs to   *)
(* one of them; finishing or dropping it spawns the append of the record.  *)
(***************************************************************************)
EXTENDS Naturals, FiniteSets

CONSTANTS
  Requests,    \* requests, each on a connection of its own
  Images,      \* those for an images route
  Slots,       \* permits of the server's semaphore (16)
  ImageSlots,  \* permits of relay.image_slots (2)
  NONE

ASSUME ConstantsTyped ==
  /\ Images \subseteq Requests
  /\ Slots \in Nat /\ ImageSlots \in Nat

VARIABLES
  server,    \* serve(): "running", "draining", "forced", "waiting", "aborting",
             \* "returned" or "aborted", and the process "exited"
  conn,      \* the client's connection
  handler,   \* where the service future is
  task,      \* where the spawned task is
  reply,     \* the oneshot: "open", a response, or "closed" by its receiver
  got,       \* the response hyper was given for the client
  audit,     \* who has the RequestAudit, or what became of its record
  outcome,   \* record.outcome
  status,    \* record.local_http_status
  appends,   \* history: appends spawned for the request
  slots,     \* requests that hold a permit
  imageSlots \* requests that hold an image permit

vars == <<server, conn, handler, task, reply, got, audit, outcome, status, appends,
          slots, imageSlots>>

recordVars == <<audit, outcome, status, appends>>
permitVars == <<slots, imageSlots>>

Responses == {"reject", "bad_gateway", "upstream"}
\* How an observed response ends, and how sending or reading one fails.
Observed(r) == IF r \in Images THEN {"completed", "premature_eof"}
               ELSE {"completed", "incomplete", "failed", "premature_eof", "uninspected"}
Failures(r) == {"failed", "upstream_error"}
               \cup (IF r \in Images THEN {"premature_eof", "uninspected"} ELSE {})

Init ==
  /\ server = "running"
  /\ conn = [r \in Requests |-> "absent"]
  /\ handler = [r \in Requests |-> "none"]
  /\ task = [r \in Requests |-> "none"]
  /\ reply = [r \in Requests |-> "none"]
  /\ got = [r \in Requests |-> NONE]
  /\ audit = [r \in Requests |-> "none"]
  /\ outcome = [r \in Requests |-> "failed"]
  /\ status = [r \in Requests |-> NONE]
  /\ appends = [r \in Requests |-> 0]
  /\ slots = {} /\ imageSlots = {}

\* Fault: the tasks are told to stop when draining begins.
ShutdownEarly == server # "running"

\* What a task's watch receiver sees: true was sent, or the sender is gone with
\* serve()'s frame (changed() is an error then, and ends the select as well).
Shutdown == server \in {"forced", "waiting", "aborting", "returned", "aborted"}

Alive == server # "exited"
Serving == server \in {"running", "draining", "forced", "waiting", "aborting"}

-----------------------------------------------------------------------------
(* RequestAudit                                                            *)

\* finish(): finalize with outcome o and status s, and spawn the append.
Finish(r, o, s) ==
  /\ outcome' = [outcome EXCEPT ![r] = o]
  /\ status' = [status EXCEPT ![r] = s]
  /\ audit' = [audit EXCEPT ![r] = "appending"]
  /\ appends' = [appends EXCEPT ![r] = @ + 1]

\* The record as the task leaves it, to be finished by TaskFinish.
Conclude(r, o, s) ==
  /\ outcome' = [outcome EXCEPT ![r] = o]
  /\ status' = [status EXCEPT ![r] = s]
  /\ UNCHANGED <<audit, appends>>

\* append() returned (whether or not it could write: that is AuditLog).
AppendRecord(r) ==
  /\ Alive /\ audit[r] = "appending"
  /\ audit' = [audit EXCEPT ![r] = "written"]
  /\ UNCHANGED <<server, conn, handler, task, reply, got, outcome, status, appends, permitVars>>

\* Fault: the permits stay with the handler and go when it is dropped.
DropHandlersPermits(rs) ==
  LET own == {r \in rs : audit[r] = "handler"} IN
  /\ handler' = [r \in Requests |-> IF r \in rs THEN "dropped" ELSE handler[r]]
  /\ reply' = [r \in Requests |-> IF r \in rs /\ reply[r] # "none" THEN "closed" ELSE reply[r]]
  /\ audit' = [r \in Requests |-> IF r \in own THEN "appending" ELSE audit[r]]
  /\ outcome' = [r \in Requests |-> IF r \in own THEN "client_disconnect" ELSE outcome[r]]
  /\ appends' = [r \in Requests |-> IF r \in own THEN appends[r] + 1 ELSE appends[r]]
  /\ slots' = slots \ rs /\ imageSlots' = imageSlots \ rs
  /\ UNCHANGED <<task, got, status>>

\* Fault: Drop does not look at `finished`.
DropHandlersTwice(rs) ==
  LET own == {r \in rs : handler[r] \in {"admit", "body", "recording"}} IN
  /\ handler' = [r \in Requests |-> IF r \in rs THEN "dropped" ELSE handler[r]]
  /\ reply' = [r \in Requests |-> IF r \in rs /\ reply[r] # "none" THEN "closed" ELSE reply[r]]
  /\ audit' = [r \in Requests |-> IF r \in own THEN "appending" ELSE audit[r]]
  /\ outcome' = [r \in Requests |-> IF r \in own THEN "client_disconnect" ELSE outcome[r]]
  /\ appends' = [r \in Requests |-> IF r \in own THEN appends[r] + 1 ELSE appends[r]]
  /\ slots' = slots \ own /\ imageSlots' = imageSlots \ own
  /\ UNCHANGED <<task, got, status>>

\* The service futures of the requests rs are dropped: Drop for those that still
\* own their RequestAudit (it keeps no outcome but "shutdown", which no handler
\* sets), the receiver's end of the oneshot, and the permits not handed off.
DropHandlers(rs) ==
  LET own == {r \in rs : audit[r] = "handler"} IN
  /\ handler' = [r \in Requests |-> IF r \in rs THEN "dropped" ELSE handler[r]]
  /\ reply' = [r \in Requests |-> IF r \in rs /\ reply[r] # "none" THEN "closed" ELSE reply[r]]
  /\ audit' = [r \in Requests |-> IF r \in own THEN "appending" ELSE audit[r]]
  /\ outcome' = [r \in Requests |-> IF r \in own THEN "client_disconnect" ELSE outcome[r]]
  /\ appends' = [r \in Requests |-> IF r \in own THEN appends[r] + 1 ELSE appends[r]]
  /\ slots' = slots \ own /\ imageSlots' = imageSlots \ own
  /\ UNCHANGED <<task, got, status>>

-----------------------------------------------------------------------------
(* The connection and the handler: handle, handle_inner                    *)

Connect(r) ==
  /\ server = "running" /\ conn[r] = "absent"
  /\ conn' = [conn EXCEPT ![r] = "idle"]
  /\ UNCHANGED <<server, handler, task, reply, got, recordVars, permitVars>>

\* The request's head arrives; its audit exists from here on.
Arrive(r) ==
  /\ Serving /\ conn[r] = "idle"
  /\ conn' = [conn EXCEPT ![r] = "open"]
  /\ handler' = [handler EXCEPT ![r] = "admit"]
  /\ audit' = [audit EXCEPT ![r] = "handler"]
  /\ UNCHANGED <<server, task, reply, got, outcome, status, appends, permitVars>>

Goto(r, h) == handler' = [handler EXCEPT ![r] = h]

\* Route, method, content type, permit or image permit is refused (404, 405,
\* 415, 503), or there is no request ID (502): handle finishes the record
\* before it responds.
RefuseHead(r) ==
  /\ Serving /\ handler[r] = "admit"
  /\ \/ Finish(r, "rejected", "reject")
     \/ Finish(r, "failed", "bad_gateway")
  /\ Goto(r, "recording")
  /\ UNCHANGED <<server, conn, task, reply, got, permitVars>>

\* try_acquire_owned on both semaphores.  acquire_many_owned, while it waits,
\* takes every permit that is free.
Free(r) ==
  /\ server # "waiting" /\ Cardinality(slots) < Slots
  /\ r \in Images => Cardinality(imageSlots) < ImageSlots

Admit(r) ==
  /\ Serving /\ handler[r] = "admit" /\ Free(r)
  /\ slots' = slots \cup {r}
  /\ imageSlots' = IF r \in Images THEN imageSlots \cup {r} ELSE imageSlots
  /\ Goto(r, "body")
  /\ UNCHANGED <<server, conn, task, reply, got, recordVars>>

\* Too large, timed out after 60 s, unreadable, or refused by validation (413,
\* 408, 400).  The permits go when handle_inner returns.
RefuseBody(r) ==
  /\ Serving /\ handler[r] = "body"
  /\ Finish(r, "rejected", "reject")
  /\ slots' = slots \ {r} /\ imageSlots' = imageSlots \ {r}
  /\ Goto(r, "recording")
  /\ UNCHANGED <<server, conn, task, reply, got>>

\* Relay::start: the task takes the audit and the permits, the handler waits.
HandOff(r) ==
  /\ Serving /\ handler[r] = "body"
  /\ task' = [task EXCEPT ![r] = "work"]
  /\ reply' = [reply EXCEPT ![r] = "open"]
  /\ audit' = [audit EXCEPT ![r] = "task"]
  /\ Goto(r, "wait")
  /\ UNCHANGED <<server, conn, got, outcome, status, appends, permitVars>>

\* The service future returns its response: handle's own once its record is
\* appended, or the task's.
Respond(r) ==
  /\ Serving
  /\ \/ /\ handler[r] = "recording" /\ audit[r] = "written"
        /\ got' = [got EXCEPT ![r] = status[r]]
     \/ /\ handler[r] = "wait" /\ reply[r] \in Responses
        /\ got' = [got EXCEPT ![r] = reply[r]]
  /\ Goto(r, "responded")
  /\ UNCHANGED <<server, conn, task, reply, recordVars, permitVars>>

\* The body's end reached the client, and it closes the connection.
ConnectionEnds(r) ==
  /\ Serving /\ conn[r] = "open" /\ handler[r] = "responded" /\ task[r] # "stream"
  /\ conn' = [conn EXCEPT ![r] = "ended"]
  /\ UNCHANGED <<server, handler, task, reply, got, recordVars, permitVars>>

\* The client goes away before that.
ClientLeaves(r) ==
  /\ Serving /\ conn[r] \in {"idle", "open"}
  /\ conn' = [conn EXCEPT ![r] = "gone"]
  /\ DropHandlers({r})
  /\ UNCHANGED server

-----------------------------------------------------------------------------
(* The task of Relay::start or images::start                               *)

Deliver(r, response) ==
  reply' = [reply EXCEPT ![r] = IF @ = "open" THEN response ELSE "closed"]

\* Fault: the status is recorded for streams only.
EndsUnrecorded(r, o, response) ==
  /\ Deliver(r, response)
  /\ Conclude(r, o, NONE)
  /\ task' = [task EXCEPT ![r] = "finish"]
  /\ UNCHANGED <<server, conn, handler, got, permitVars>>

\* The record of a task that ends with outcome o and a local response, or with
\* no status when reply.send found the receiver gone.
Ends(r, o, response) ==
  /\ Deliver(r, response)
  /\ Conclude(r, o, IF reply[r] = "open" THEN response ELSE NONE)
  /\ task' = [task EXCEPT ![r] = "finish"]
  /\ UNCHANGED <<server, conn, handler, got, permitVars>>

\* select!: the shutdown signal first, then the receiver's departure.
TaskShutdown(r) ==
  /\ Alive /\ task[r] = "work" /\ Shutdown
  /\ Ends(r, "shutdown", "bad_gateway")

\* Fault: only the image task watches for its receiver's departure.
TaskCancelledImages(r) ==
  /\ Alive /\ task[r] = "work" /\ reply[r] = "closed" /\ r \in Images
  /\ Ends(r, "client_disconnect", "bad_gateway")

TaskCancelled(r) ==
  /\ Alive /\ task[r] = "work" /\ reply[r] = "closed"
  /\ Ends(r, "client_disconnect", "bad_gateway")

\* images::interrupt's ten minutes are over.
TaskDeadline(r) ==
  /\ Alive /\ task[r] = "work" /\ r \in Images
  /\ Ends(r, "premature_eof", "bad_gateway")

\* The upstream call fails, or its response is refused: 502.
TaskFails(r) ==
  /\ Alive /\ task[r] = "work"
  /\ \E o \in Failures(r) :
       Ends(r, IF reply[r] = "open" THEN o ELSE "client_disconnect", "bad_gateway")

\* An upstream error status is passed on.
TaskPassesError(r) ==
  /\ Alive /\ task[r] = "work"
  /\ Ends(r, IF reply[r] = "open" THEN "upstream_error" ELSE "client_disconnect", "upstream")

\* A success: the response goes to the handler, its body follows chunk by chunk.
TaskStreams(r) ==
  /\ Alive /\ task[r] = "work" /\ reply[r] = "open"
  /\ Deliver(r, "upstream")
  /\ Conclude(r, IF r \in Images THEN "completed" ELSE "failed", "upstream")
  /\ task' = [task EXCEPT ![r] = "stream"]
  /\ UNCHANGED <<server, conn, handler, got, permitVars>>

\* The stream is over and the body's sender is dropped; the record comes next.
StreamOver(r, o) ==
  /\ Conclude(r, o, status[r])
  /\ task' = [task EXCEPT ![r] = "finish"]
  /\ UNCHANGED <<server, conn, handler, reply, got, permitVars>>

\* Upstream's end, its error, or ten minutes without a chunk.
StreamEnds(r) ==
  /\ Alive /\ task[r] = "stream"
  /\ \E o \in Observed(r) : StreamOver(r, o)

\* The reason for the interruption, unless the observer had given up.
Interrupted(r, reason) == {reason} \cup (IF r \in Images THEN {} ELSE {"uninspected"})

\* send_data finds the body dropped.
StreamClientGone(r) ==
  /\ Alive /\ task[r] = "stream" /\ handler[r] = "dropped"
  /\ \E o \in Interrupted(r, "client_disconnect") : StreamOver(r, o)

StreamShutdown(r) ==
  /\ Alive /\ task[r] = "stream" /\ Shutdown
  /\ \E o \in Interrupted(r, "shutdown") : StreamOver(r, o)

\* Fault: the permits are dropped before the record is appended.
TaskFinishReleasing(r) ==
  /\ Alive /\ task[r] = "finish"
  /\ Finish(r, outcome[r], status[r])
  /\ task' = [task EXCEPT ![r] = "record"]
  /\ slots' = slots \ {r} /\ imageSlots' = imageSlots \ {r}
  /\ UNCHANGED <<server, conn, handler, reply, got>>

\* audit.finish() spawns the append and waits for it ...
TaskFinish(r) ==
  /\ Alive /\ task[r] = "finish"
  /\ Finish(r, outcome[r], status[r])
  /\ task' = [task EXCEPT ![r] = "record"]
  /\ UNCHANGED <<server, conn, handler, reply, got, permitVars>>

\* ... and only then does the task return and drop its permits.
TaskEnds(r) ==
  /\ Alive /\ task[r] = "record" /\ audit[r] = "written"
  /\ task' = [task EXCEPT ![r] = "ended"]
  /\ slots' = slots \ {r} /\ imageSlots' = imageSlots \ {r}
  /\ UNCHANGED <<server, conn, handler, reply, got, recordVars>>

-----------------------------------------------------------------------------
(* serve(): accepting, and the shutdown                                    *)

Live == {r \in Requests : conn[r] \in {"idle", "open"}}
ServerGoes(from, to) ==
  /\ server = from /\ server' = to
  /\ UNCHANGED <<handler, task, reply, got, recordVars, permitVars>>

\* SIGTERM or SIGINT: no more connections are accepted.
Stop == ServerGoes("running", "draining") /\ UNCHANGED conn

\* Every connection is over within 30 seconds.  The requests' tasks are not in
\* the set that is joined.
Drained == Live = {} /\ ServerGoes("draining", "returned") /\ UNCHANGED conn

\* Fault: draining is given up only for relays, not for idle connections.
DrainTimeoutRelays == slots # {} /\ ServerGoes("draining", "forced") /\ UNCHANGED conn

\* They are not: the tasks are told, and their permits awaited for 5 seconds.
DrainTimeout == Live # {} /\ ServerGoes("draining", "forced") /\ UNCHANGED conn
AwaitPermits == ServerGoes("forced", "waiting") /\ UNCHANGED conn
AllReleased == slots = {} /\ ServerGoes("waiting", "aborting") /\ UNCHANGED conn
WaitTimeout == slots # {} /\ ServerGoes("waiting", "aborting") /\ UNCHANGED conn

\* abort_all: the connections that are left are dropped with their handlers.
Abort ==
  /\ server = "aborting" /\ server' = "aborted"
  /\ conn' = [r \in Requests |-> IF r \in Live THEN "cut" ELSE conn[r]]
  /\ DropHandlers(Live)

\* main drops the runtime, and with it every task: a record not yet appended is
\* lost (Drop for RequestAudit finds no runtime to spawn on).
Exit ==
  /\ server \in {"returned", "aborted"} /\ server' = "exited"
  /\ audit' = [r \in Requests |-> IF audit[r] \in {"none", "written"} THEN audit[r] ELSE "lost"]
  /\ UNCHANGED <<conn, handler, task, reply, got, outcome, status, appends, permitVars>>

-----------------------------------------------------------------------------
HandlerStep(r) ==
  Connect(r) \/ Arrive(r) \/ RefuseHead(r) \/ Admit(r) \/ RefuseBody(r) \/ HandOff(r)
  \/ Respond(r) \/ ConnectionEnds(r) \/ ClientLeaves(r)

TaskStep(r) ==
  TaskShutdown(r) \/ TaskCancelled(r) \/ TaskDeadline(r) \/ TaskFails(r)
  \/ TaskPassesError(r) \/ TaskStreams(r) \/ StreamEnds(r) \/ StreamClientGone(r)
  \/ StreamShutdown(r) \/ TaskFinish(r) \/ TaskEnds(r)

ServerStep ==
  Stop \/ Drained \/ DrainTimeout \/ AwaitPermits \/ AllReleased \/ WaitTimeout
  \/ Abort \/ Exit

Next ==
  \/ \E r \in Requests : HandlerStep(r) \/ TaskStep(r) \/ AppendRecord(r)
  \/ ServerStep

Spec == Init /\ [][Next]_vars

\* The scheduler runs what is ready and timers fire.  Nothing makes upstream
\* answer or a client read: a task whose client is there may wait for ever.
\* One whose client left is woken by the closed oneshot, and a stream by its
\* next chunk or, without one, by the idle timeout.
Wakes(r) ==
  \/ TaskShutdown(r) \/ TaskCancelled(r) \/ StreamShutdown(r) \/ StreamClientGone(r)
  \/ handler[r] = "dropped" /\ StreamEnds(r)
  \/ TaskFinish(r) \/ TaskEnds(r)

Fairness ==
  /\ \A r \in Requests : WF_vars(Wakes(r)) /\ WF_vars(AppendRecord(r))
  /\ WF_vars(Drained \/ DrainTimeout) /\ WF_vars(AwaitPermits)
  /\ WF_vars(AllReleased \/ WaitTimeout) /\ WF_vars(Abort) /\ WF_vars(Exit)

FairSpec == Spec /\ Fairness

-----------------------------------------------------------------------------
TypeOK ==
  /\ server \in {"running", "draining", "forced", "waiting", "aborting", "returned",
                 "aborted", "exited"}
  /\ conn \in [Requests -> {"absent", "idle", "open", "ended", "gone", "cut"}]
  /\ handler \in [Requests -> {"none", "admit", "body", "recording", "wait", "responded",
                               "dropped"}]
  /\ task \in [Requests -> {"none", "work", "stream", "finish", "record", "ended"}]
  /\ reply \in [Requests -> {"none", "open", "closed"} \cup Responses]
  /\ got \in [Requests -> Responses \cup {NONE}]
  /\ audit \in [Requests -> {"none", "handler", "task", "appending", "written", "lost"}]
  /\ outcome \in [Requests -> {"completed", "incomplete", "failed", "premature_eof",
                               "uninspected", "upstream_error", "rejected",
                               "client_disconnect", "shutdown"}]
  /\ status \in [Requests -> Responses \cup {NONE}]
  /\ appends \in [Requests -> Nat]
  /\ slots \subseteq Requests /\ imageSlots \subseteq slots \cap Images

\* A request has at most one line, however the handler's departure, the task's
\* end and the shutdown fall together: finish() and Drop for RequestAudit never
\* both append, although the audit changes hands and both run on cancellation.
OneRecord ==
  \A r \in Requests :
    /\ appends[r] <= 1
    /\ audit[r] \in {"none", "handler", "task"} => appends[r] = 0
    /\ audit[r] \in {"appending", "written"} => appends[r] = 1

\* The line says what the client was told: the status in the record is that of
\* the response hyper was given, whoever made it.
RecordedStatus == \A r \in Requests : got[r] # NONE => status[r] = got[r]

Recorded(r) == audit[r] \in {"appending", "written"}

\* The outcome is what happened: a disconnect is blamed on the client only if
\* its connection is gone, a shutdown is named only once draining was given up
\* or serve() returned, and a completed or refused request was answered so.
OutcomeIsReal ==
  \A r \in Requests : Recorded(r) =>
    /\ outcome[r] = "client_disconnect" => conn[r] \in {"gone", "cut"}
    /\ outcome[r] = "shutdown" => server \notin {"running", "draining"}
    /\ outcome[r] \in {"completed", "incomplete"} => status[r] = "upstream"
    /\ outcome[r] = "rejected" => status[r] = "reject" /\ task[r] = "none"

\* What runs upstream is bounded by the permits, also when clients give up and
\* come back: an abandoned request holds its permits until its task is through.
UpstreamBounded ==
  LET running == {r \in Requests : task[r] \in {"work", "stream"}} IN
  /\ Cardinality(running) <= Slots
  /\ Cardinality(running \cap Images) <= ImageSlots

\* Permits outlive records: a handed-off request without a permit has its record
\* appended.  serve() relies on it when it takes all permits for the sign that
\* the relays are done.
PermitCoversRecord ==
  \A r \in Requests : task[r] # "none" /\ r \notin slots => audit[r] \in {"written", "lost"}

\* A client that goes away leaves nothing behind: its record is written (or lost
\* with the process) and its permits come back, whatever upstream does.
GoneIsReleased ==
  \A r \in Requests :
    (conn[r] = "gone" /\ audit[r] # "none")
      ~> (audit[r] \in {"written", "lost"} /\ (r \notin slots \/ server = "exited"))

\* A stop signal stops the process, whatever clients and upstream do.
StopExits == (server = "draining") ~> (server = "exited")

\* The README's promise for a stop that forces nothing: when all connections
\* drained, every handled request has its final line.
DrainKeepsRecords ==
  [][server = "returned" /\ server' = "exited" => \A r \in Requests : audit'[r] # "lost"]_vars
=============================================================================
