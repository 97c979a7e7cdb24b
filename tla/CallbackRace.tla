--------------------------- MODULE CallbackRace ---------------------------
(***************************************************************************)
(* `c2a chatgpt login` while it waits for the browser (chatgpt.rs,         *)
(* wait_callback): the loopback listener serves several connections, each  *)
(* in a task of its own, the user may paste the URL instead, and both race *)
(* for the one callback that the login goes on with, against the deadline  *)
(* and the signals that cancel it.  No clock is kept: the deadline, the    *)
(* five seconds of a connection and the second of the drain may pass at    *)
(* any time.                                                               *)
(***************************************************************************)
EXTENDS Naturals, Sequences, FiniteSets

CONSTANTS
  Tabs,           \* connections to the listener
  Urls,           \* URLs that reach c2a, as the parts that callback() looks at
  Registered,     \* attempt.client_id, NULL for a first login
  Dynamic,        \* DYNAMIC_CLIENT
  Lines,          \* what the user may type: URLs, BLANK, GARBLED, LONG
  MaxLines,       \* bound on the lines typed
  MaxConnections, \* connections served at a time (16)
  BLANK,          \* an empty line
  GARBLED,        \* a line that is not UTF-8
  LONG,           \* more bytes than CALLBACK_LIMIT
  INVALID,        \* callback()'s error
  DECLINED,       \* callback()'s Ok(None)
  NULL

VARIABLES
  wait,       \* wait_callback: "waiting", "draining", or how it ended
  slot,       \* the channel of capacity one
  tab,        \* where each connection is
  url,        \* the URL its request is for
  connections,\* the JoinSet: connections accepted and not yet joined
  typed,      \* lines on stdin that were not read
  lines,      \* CallbackInput.bytes: lines that were read and not looked at
  result,     \* the callback that wait_callback took
  pasted,     \* history: whether the result was pasted
  sent        \* history: callbacks put into the channel

callbackVars == <<wait, slot, tab, url, connections, typed, lines, result, pasted, sent>>

inputVars == <<typed, lines>>
channelVars == <<slot, sent>>

Ended == {"returned", "failed", "cancelled", "expired"}

CallbackInit ==
  /\ wait = "waiting"
  /\ slot = NULL
  /\ tab = [t \in Tabs |-> "away"]
  /\ url = [t \in Tabs |-> NULL]
  /\ connections = {}
  /\ typed = <<>> /\ lines = <<>>
  /\ result = NULL /\ pasted = FALSE /\ sent = <<>>

\* Attempt::callback: the exact redirect with each parameter once, this attempt's
\* state, and either an error or a code for an issued client that is the
\* registered one if there is one.
Callback(u) ==
  LET client == IF u.client = NULL THEN Registered ELSE u.client IN
  IF ~u.exact \/ ~u.own THEN INVALID
  ELSE IF u.error THEN (IF u.code = NULL THEN DECLINED ELSE INVALID)
  ELSE IF u.code = NULL \/ client \in {NULL, Dynamic}
          \/ (Registered # NULL /\ client # Registered) THEN INVALID
  ELSE [code |-> u.code, client |-> client]

\* wait_callback returns or is dropped, and with it the listener, the channel and
\* the tasks of the connections.
EndWait(how) ==
  /\ wait' = how
  /\ tab' = [t \in Tabs |-> IF tab[t] \in {"backlog", "open"} THEN "cut" ELSE tab[t]]
  /\ connections' = {}

-----------------------------------------------------------------------------
(* Standard input                                                          *)

\* Lines are typed whole; the end of input ends an unfinished one like Enter.
TypeLine ==
  /\ wait \in {"waiting", "draining"} /\ Len(typed) + Len(lines) < MaxLines
  /\ \E line \in Lines : typed' = Append(typed, line)
  /\ UNCHANGED <<wait, channelVars, tab, url, connections, lines, result, pasted>>

\* poll.tick with no line in the buffer: read what there is, for the next tick.
ReadInput ==
  /\ wait = "waiting" /\ lines = <<>> /\ typed # <<>>
  /\ \E n \in 1..Len(typed) :
       /\ typed' = SubSeq(typed, n + 1, Len(typed))
       /\ IF \E i \in 1..n : typed[i] = LONG
          THEN EndWait("failed") /\ UNCHANGED lines
          ELSE lines' = SubSeq(typed, 1, n) /\ UNCHANGED <<wait, tab, connections>>
  /\ UNCHANGED <<channelVars, url, result, pasted>>

\* Fault: what was read after the line's end is dropped with it.
LookAtLineOnly ==
  /\ wait = "waiting" /\ lines # <<>>
  /\ lines' = <<>>
  /\ LET line == Head(lines) IN
     IF line = GARBLED THEN EndWait("failed") /\ UNCHANGED <<result, pasted>>
     ELSE IF line = BLANK \/ Callback(line) = INVALID
     THEN UNCHANGED <<wait, tab, connections, result, pasted>>
     ELSE EndWait("returned") /\ result' = Callback(line) /\ pasted' = TRUE
  /\ UNCHANGED <<channelVars, url, typed>>

\* poll.tick with a line in the buffer: a callback ends the wait, whatever the
\* connections are at; a URL that is refused may be pasted again.
LookAtLine ==
  /\ wait = "waiting" /\ lines # <<>>
  /\ lines' = Tail(lines)
  /\ LET line == Head(lines) IN
     IF line = GARBLED THEN EndWait("failed") /\ UNCHANGED <<result, pasted>>
     ELSE IF line = BLANK \/ Callback(line) = INVALID
     THEN UNCHANGED <<wait, tab, connections, result, pasted>>
     ELSE EndWait("returned") /\ result' = Callback(line) /\ pasted' = TRUE
  /\ UNCHANGED <<channelVars, url, typed>>

-----------------------------------------------------------------------------
(* The listener and its connections                                        *)

\* A browser connects; the kernel completes the connection.
Connect(t) ==
  /\ wait \in {"waiting", "draining"} /\ tab[t] = "away"
  /\ \E u \in Urls : url' = [url EXCEPT ![t] = u]
  /\ tab' = [tab EXCEPT ![t] = "backlog"]
  /\ UNCHANGED <<wait, channelVars, connections, inputVars, result, pasted>>

\* Fault: there is no limit.
AcceptUnlimited(t) ==
  /\ wait = "waiting" /\ tab[t] = "backlog"
  /\ tab' = [tab EXCEPT ![t] = "open"]
  /\ connections' = connections \cup {t}
  /\ UNCHANGED <<wait, channelVars, url, inputVars, result, pasted>>

Accept(t) ==
  /\ wait = "waiting" /\ tab[t] = "backlog" /\ Cardinality(connections) < MaxConnections
  /\ tab' = [tab EXCEPT ![t] = "open"]
  /\ connections' = connections \cup {t}
  /\ UNCHANGED <<wait, channelVars, url, inputVars, result, pasted>>

\* The service function: 200 for a callback that the channel took, else 400.
Serve(t) ==
  /\ wait \in {"waiting", "draining"} /\ tab[t] = "open"
  /\ LET callback == Callback(url[t]) IN
     IF callback # INVALID /\ slot = NULL
     THEN /\ slot' = callback /\ sent' = Append(sent, callback)
          /\ tab' = [tab EXCEPT ![t] = "accepted"]
     ELSE tab' = [tab EXCEPT ![t] = "refused"] /\ UNCHANGED channelVars
  /\ UNCHANGED <<wait, url, connections, inputVars, result, pasted>>

\* Five seconds without a request, or the browser goes away.
ConnectionFails(t) ==
  /\ wait \in {"waiting", "draining"} /\ tab[t] = "open"
  /\ tab' = [tab EXCEPT ![t] = "dropped"]
  /\ UNCHANGED <<wait, channelVars, url, connections, inputVars, result, pasted>>

\* join_next, in the loop and while draining.
Join(t) ==
  /\ wait \in {"waiting", "draining"} /\ t \in connections /\ tab[t] # "open"
  /\ connections' = connections \ {t}
  /\ UNCHANGED <<wait, channelVars, tab, url, inputVars, result, pasted>>

\* receiver.recv: the callback is taken, and the connections may finish their
\* responses.
Receive ==
  /\ wait = "waiting" /\ slot # NULL
  /\ wait' = "draining" /\ result' = slot /\ slot' = NULL
  /\ UNCHANGED <<tab, url, connections, inputVars, pasted, sent>>

\* Fault: a callback that came meanwhile replaces the one that was taken.
DrainedLatest ==
  /\ wait = "draining"
  /\ EndWait("returned")
  /\ result' = IF slot # NULL THEN slot ELSE result
  /\ UNCHANGED <<channelVars, url, inputVars, pasted>>

\* They have, or a second is over.
Drained ==
  /\ wait = "draining"
  /\ EndWait("returned")
  /\ UNCHANGED <<channelVars, url, inputVars, result, pasted>>

\* The 15 minutes are over, a signal arrives, or accepting or reading fails.
Interrupt ==
  /\ wait \in {"waiting", "draining"}
  /\ \/ EndWait("expired")
     \/ EndWait("cancelled")
     \/ wait = "waiting" /\ EndWait("failed")
  /\ UNCHANGED <<channelVars, url, inputVars, result, pasted>>

CallbackNext ==
  \/ TypeLine \/ ReadInput \/ LookAtLine
  \/ \E t \in Tabs : Connect(t) \/ Accept(t) \/ Serve(t) \/ ConnectionFails(t) \/ Join(t)
  \/ Receive \/ Drained \/ Interrupt

\* select! picks among the branches that are ready by chance, so that none of
\* them is passed over for ever.
CallbackFairness ==
  /\ WF_callbackVars(ReadInput) /\ WF_callbackVars(LookAtLine)
  /\ WF_callbackVars(Receive) /\ WF_callbackVars(Drained)

CallbackSpec == CallbackInit /\ [][CallbackNext]_callbackVars /\ CallbackFairness

-----------------------------------------------------------------------------
Pasted == Lines \ {BLANK, GARBLED, LONG}
Callbacks == {Callback(u) : u \in Urls \cup Pasted} \ {INVALID}

ASSUME CallbacksTyped == MaxConnections \in Nat /\ NULL \notin Callbacks

CallbackTypeOK ==
  /\ wait \in {"waiting", "draining"} \cup Ended
  /\ slot \in Callbacks \cup {NULL} /\ result \in Callbacks \cup {NULL}
  /\ tab \in [Tabs -> {"away", "backlog", "open", "accepted", "refused", "dropped", "cut"}]
  /\ url \in [Tabs -> Urls \cup {NULL}]
  /\ connections \subseteq Tabs /\ Cardinality(connections) <= MaxConnections
  /\ typed \in Seq(Lines) /\ lines \in Seq(Lines \ {LONG})
  /\ pasted \in BOOLEAN /\ sent \in Seq(Callbacks)

\* The login goes on with the callback of the first browser that was told to
\* return to c2a, or with a pasted one: a connection that comes later, also in
\* the second that is left to the connections, changes nothing, and at most one
\* browser besides the first is told so in vain.
FirstCallbackWins ==
  /\ result # NULL /\ ~pasted => result = Head(sent)
  /\ wait = "waiting" => Len(sent) <= 1
  /\ Len(sent) = Cardinality({t \in Tabs : tab[t] = "accepted"}) /\ Len(sent) <= 2

\* A browser that was told to return to c2a is not left waiting there, and a
\* pasted URL that fits is answered: whatever else is typed or connects, the wait
\* ends.
AcceptedIsUsed ==
  /\ sent # <<>> ~> wait \in Ended
  /\ (\E i \in DOMAIN lines : lines[i] \in Pasted /\ Callback(lines[i]) # INVALID)
       ~> wait \in Ended
=============================================================================
