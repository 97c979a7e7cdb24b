------------------------ MODULE LoginCommandProofs ------------------------
(***************************************************************************)
(* Theorems about LoginCommand: the device logins for any timeouts,        *)
(* intervals and lifetimes, and the race for ChatGPT's callback for any    *)
(* number of connections, whatever the user and the server do.             *)
(***************************************************************************)
EXTENDS LoginCommand, SequenceTheorems, FiniteSetTheorems, TLAPS

-----------------------------------------------------------------------------
(* The device logins                                                       *)

\* How far past the deadline the clock may be: each request adds its timeout.
InTime ==
  /\ at = "start" => now = 0
  /\ at = "poll" \/ (at = "sleep" /\ provider = "copilot") => now <= deadline
  /\ at \in {"loop", "sleep", "exchange", "user"} => now <= deadline + RequestTimeout
  /\ at = "discover" => now <= deadline + 2 * RequestTimeout
  /\ now <= deadline + 3 * RequestTimeout

\* The last poll was sent before the user decided, and answered within the
\* timeout; Codex then slept for at most an interval.
Answering == decidedAt + RequestTimeout > now
NotMissed ==
  /\ at # "over" => outcome = NONE
  /\ says = "approve" =>
       /\ at = "loop" /\ now >= deadline =>
            decidedAt + RequestTimeout + (IF provider = "codex" THEN interval ELSE 0) > now
       /\ at = "sleep" /\ provider = "codex" => Answering
  /\ ApprovalNotMissed

\* What the server asked for is what the program waits, counted from its answer.
Waiting ==
  /\ at \notin {"start", "over"} => interval = asked /\ asked > 0
  /\ provider = "copilot" /\ at \in {"loop", "sleep"} => answered = now
  /\ provider = "codex" /\ at = "sleep" => answered = now
  /\ provider = "codex" /\ at = "loop" /\ now < deadline /\ answered # NONE =>
       now >= answered + asked

Inv ==
  /\ DeviceTypeOK /\ provider \in {"codex", "copilot"}
  /\ InTime /\ NotMissed /\ Waiting

-----------------------------------------------------------------------------
LEMMA Margins ==
  /\ RequestTimeout \in Nat
  /\ 2 * RequestTimeout = RequestTimeout + RequestTimeout
  /\ 3 * RequestTimeout = RequestTimeout + RequestTimeout + RequestTimeout
BY TimesTyped

LEMMA InitInv == DeviceInit => Inv
<1> SUFFICES ASSUME DeviceInit PROVE Inv
  OBVIOUS
<1>1. DeviceTypeOK /\ provider \in {"codex", "copilot"}
  BY TimesTyped DEF DeviceInit, DeviceTypeOK, Outcomes
<1>2. InTime
  BY Margins DEF DeviceInit, InTime
<1>3. NotMissed /\ Waiting
  BY TimesTyped DEF DeviceInit, Outcomes, NotMissed, ApprovalNotMissed, Waiting
<1> QED
  BY <1>1, <1>2, <1>3 DEF Inv

LEMMA DeadlineAhead ==
  ASSUME NEW time \in Nat, NEW life \in Nat \ {0}
  PROVE  /\ ~(time >= time + life) /\ time <= time + life
         /\ time <= time + life + RequestTimeout
         /\ time <= time + life + 3 * RequestTimeout
BY Margins

LEMMA RequestCodeInv == ASSUME Inv, RequestCode PROVE Inv'
<1>1. PICK d \in 0..RequestTimeout, i \in Intervals, lifetime \in Lifetimes :
        /\ now' = now + d
        /\ provider = "copilot" => lifetime # 0
        /\ interval' = AtLeastOne(i) /\ asked' = interval'
        /\ deadline' = now' + IF provider = "codex" THEN LoginTimeout
                              ELSE Least(lifetime, LoginTimeout)
        /\ answered' = IF provider = "codex" THEN NONE ELSE now'
  BY DEF RequestCode, Takes
<1>2. d \in Nat /\ i \in Nat /\ lifetime \in Nat /\ interval' \in Nat /\ interval' > 0
  BY <1>1, TimesTyped DEF AtLeastOne
<1>3. now' \in Nat /\ \E life \in Nat \ {0} : deadline' = now' + life
  <2>1. now' \in Nat
    BY <1>1, <1>2 DEF Inv, DeviceTypeOK
  <2>2. CASE provider = "codex"
    BY <1>1, <2>1, <2>2, TimesTyped
  <2>3. CASE provider # "codex"
    <3>1. Least(lifetime, LoginTimeout) \in Nat \ {0}
      BY <1>1, <1>2, <2>3, TimesTyped DEF Inv, Least
    <3> QED
      BY <1>1, <2>1, <2>3, <3>1
  <2> QED
    BY <2>2, <2>3
<1>4. PICK life \in Nat \ {0} : deadline' = now' + life
  BY <1>3
<1>5. at' = "loop" /\ outcome' = NONE /\ UNCHANGED userVars
  BY DEF RequestCode, Goto, Inv, NotMissed
<1>6. DeviceTypeOK' /\ provider' \in {"codex", "copilot"}
  BY <1>1, <1>2, <1>3, <1>4, <1>5 DEF Inv, DeviceTypeOK, Outcomes, userVars
<1>7. InTime'
  BY <1>3, <1>4, <1>5, DeadlineAhead DEF InTime
<1>8. NotMissed'
  BY <1>3, <1>4, <1>5, DeadlineAhead, TimesTyped DEF NotMissed, ApprovalNotMissed, Outcomes
<1>9. Waiting'
  BY <1>1, <1>2, <1>3, <1>4, <1>5, TimesTyped DEF Waiting, userVars
<1> QED
  BY <1>6, <1>7, <1>8, <1>9 DEF Inv

LEMMA TimedOutInv == ASSUME Inv, TimedOut PROVE Inv'
<1>1. DeviceTypeOK' /\ provider' \in {"codex", "copilot"} /\ InTime' /\ Waiting'
  BY TimesTyped DEF Inv, DeviceTypeOK, Outcomes, InTime, Waiting, TimedOut, End, userVars
<1>2. NotMissed'
  BY TimesTyped DEF Inv, DeviceTypeOK, Outcomes, NotMissed, ApprovalNotMissed, TimedOut, End, userVars
<1> QED
  BY <1>1, <1>2 DEF Inv

LEMMA ContinueInv == ASSUME Inv, Continue PROVE Inv'
<1>1. DeviceTypeOK' /\ provider' \in {"codex", "copilot"} /\ InTime' /\ Waiting'
  BY TimesTyped DEF Inv, DeviceTypeOK, Outcomes, InTime, Waiting, Continue, Goto, userVars
<1>2. NotMissed'
  BY TimesTyped DEF Inv, DeviceTypeOK, Outcomes, NotMissed, ApprovalNotMissed, Continue, Goto, userVars
<1> QED
  BY <1>1, <1>2 DEF Inv

\* The sleep is the interval, or what is left until the deadline, or nothing
\* after it.
LEMMA SleepTime ==
  ASSUME Inv, Sleep
  PROVE  /\ now' \in Nat /\ now <= now' /\ now' <= now + interval
         /\ now' = now + interval \/ now' = deadline \/ (now >= deadline /\ now' = now)
         /\ now <= deadline => now' <= deadline
         /\ now >= deadline => now' = now
BY DEF Sleep, Least, Until, Inv, DeviceTypeOK

LEMMA SleepInv == ASSUME Inv, Sleep PROVE Inv'
<1>1. /\ at = "sleep" /\ outcome' = outcome
      /\ at' = IF provider = "codex" THEN "loop" ELSE "poll"
      /\ UNCHANGED <<provider, decidedAt, says, deadline, interval, asked, answered>>
  BY DEF Sleep, Goto, userVars
<1>2. DeviceTypeOK' /\ provider' \in {"codex", "copilot"}
  BY <1>1, SleepTime DEF Inv, DeviceTypeOK
<1>3. InTime'
  BY <1>1, SleepTime, TimesTyped DEF Inv, InTime, DeviceTypeOK
<1>4. NotMissed'
  BY <1>1, SleepTime, TimesTyped DEF Inv, DeviceTypeOK, Outcomes, NotMissed, ApprovalNotMissed, Answering
<1>5. Waiting'
  BY <1>1, SleepTime, TimesTyped DEF Inv, DeviceTypeOK, Outcomes, Waiting
<1> QED
  BY <1>2, <1>3, <1>4, <1>5 DEF Inv

LEMMA PendingInv == ASSUME Inv, Pending PROVE Inv'
<1>1. PICK d \in 0..RequestTimeout, more \in {0, SlowDown} :
        /\ now' = now + d /\ interval' = interval + more /\ asked' = asked + more
        /\ provider = "codex" => more = 0
  BY DEF Pending, Takes
<1>2. /\ at = "poll" /\ outcome' = outcome /\ answered' = now'
      /\ says = "approve" => now < decidedAt
      /\ at' = IF provider = "codex" THEN "sleep" ELSE "loop"
      /\ UNCHANGED <<provider, decidedAt, says, deadline>>
  BY DEF Pending, Goto, userVars
<1>3. d \in Nat /\ more \in Nat
  BY <1>1, TimesTyped
<1>4. DeviceTypeOK' /\ provider' \in {"codex", "copilot"}
  BY <1>1, <1>2, <1>3 DEF Inv, DeviceTypeOK
<1>5. InTime' /\ Waiting'
  BY <1>1, <1>2, <1>3, TimesTyped DEF Inv, DeviceTypeOK, Outcomes, InTime, Waiting
<1>6. NotMissed'
  BY <1>1, <1>2, <1>3, TimesTyped
     DEF Inv, DeviceTypeOK, Outcomes, NotMissed, ApprovalNotMissed, Answering
<1> QED
  BY <1>4, <1>5, <1>6 DEF Inv

\* A request other than a poll that goes on: it may take its timeout, and leads
\* to a place that allows for it.
LEMMA RequestInv ==
  ASSUME Inv, at # "over", at' \in {"exchange", "user", "discover", "granted", "over"},
         outcome' \in {NONE, "denied", "expired", "failed"}, at' # "over" => outcome' = NONE,
         \E d \in 0..RequestTimeout : Takes(d),
         UNCHANGED <<userVars, deadline, interval, asked, answered>>,
         at' \in {"exchange", "user"} => at = "poll",
         at' = "discover" => at = "user",
         at \notin {"loop", "sleep", "granted"},
         at = "start" => at' = "over"
  PROVE  Inv'
<1>1. PICK d \in 0..RequestTimeout : now' = now + d
  BY DEF Takes
<1>2. d \in Nat
  BY <1>1, TimesTyped
<1>3. at \in {"start", "poll", "exchange", "user", "discover"}
  BY DEF Inv, DeviceTypeOK
<1>4. DeviceTypeOK' /\ provider' \in {"codex", "copilot"}
  BY <1>1, <1>2 DEF Inv, DeviceTypeOK, Outcomes, userVars
<1>5. InTime'
  BY <1>1, <1>2, <1>3, TimesTyped DEF Inv, DeviceTypeOK, Outcomes, InTime, userVars
<1>6. NotMissed'
  BY <1>1, TimesTyped DEF Inv, NotMissed, ApprovalNotMissed, userVars
<1>7. Waiting'
  BY <1>3 DEF Inv, Waiting, userVars
<1> QED
  BY <1>4, <1>5, <1>6, <1>7 DEF Inv

LEMMA StoreCredentialsInv == ASSUME Inv, StoreCredentials PROVE Inv'
<1>1. DeviceTypeOK' /\ provider' \in {"codex", "copilot"} /\ InTime' /\ Waiting'
  BY DEF Inv, DeviceTypeOK, Outcomes, InTime, Waiting, StoreCredentials, End, userVars
<1>2. NotMissed'
  BY TimesTyped DEF Inv, NotMissed, ApprovalNotMissed, StoreCredentials, End, userVars
<1> QED
  BY <1>1, <1>2 DEF Inv

LEMMA NextInv == Inv /\ [DeviceNext]_deviceVars => Inv'
<1> SUFFICES ASSUME Inv, [DeviceNext]_deviceVars PROVE Inv'
  OBVIOUS
<1>1. CASE UNCHANGED deviceVars
  <2>1. DeviceTypeOK' /\ provider' \in {"codex", "copilot"} /\ InTime' /\ Waiting'
    BY <1>1 DEF Inv, DeviceTypeOK, Outcomes, InTime, Waiting, deviceVars
  <2>2. NotMissed'
    BY <1>1 DEF Inv, NotMissed, ApprovalNotMissed, Answering, deviceVars
  <2> QED
    BY <2>1, <2>2 DEF Inv
<1>2. CASE Approved
  BY <1>2, RequestInv DEF Approved, Goto, Inv, NotMissed
<1>3. CASE Refused
  <2>1. outcome' \in {"denied", "expired"} /\ at' = "over" /\ at = "poll"
    BY <1>3 DEF Refused, End
  <2>2. \E d \in 0..RequestTimeout : Takes(d)
    BY <1>3 DEF Refused
  <2> QED
    BY <1>3, <2>1, <2>2, RequestInv DEF Refused
<1>4. CASE RequestFails
  BY <1>4, RequestInv DEF RequestFails, End
<1>5. CASE Exchange \/ LookUpUser \/ DiscoverEndpoint
  BY <1>5, RequestInv
     DEF Exchange, LookUpUser, DiscoverEndpoint, Completed, Goto, Inv, NotMissed
<1> QED
  BY <1>1, <1>2, <1>3, <1>4, <1>5, RequestCodeInv, TimedOutInv, ContinueInv, SleepInv,
     PendingInv, StoreCredentialsInv DEF DeviceNext

-----------------------------------------------------------------------------
\* A step to a poll keeps the server's distance from the last answer.
LEMMA PollStep ==
  Inv /\ [DeviceNext]_deviceVars =>
        [at # "poll" /\ at' = "poll" =>
           /\ now' <= deadline
           /\ answered # NONE => \/ now' > answered /\ now' >= answered + asked
                                 \/ provider = "copilot" /\ now' = deadline]_deviceVars
<1> SUFFICES ASSUME Inv, DeviceNext, at # "poll", at' = "poll"
             PROVE  /\ now' <= deadline
                    /\ answered # NONE => \/ now' > answered /\ now' >= answered + asked
                                          \/ provider = "copilot" /\ now' = deadline
  BY DEF deviceVars
<1>1. Continue \/ Sleep
  BY DEF DeviceNext, RequestCode, TimedOut, Pending, Approved, Refused, RequestFails,
         Exchange, LookUpUser, DiscoverEndpoint, Completed, StoreCredentials, End, Goto
<1>2. CASE Continue
  BY <1>2 DEF Continue, Goto, Inv, DeviceTypeOK, Outcomes, Waiting
<1>3. CASE Sleep
  <2>1. provider = "copilot" /\ at = "sleep"
    BY <1>3 DEF Sleep, Goto, Inv
  <2> QED
    BY <1>3, <2>1, SleepTime DEF Inv, DeviceTypeOK, Outcomes, InTime, Waiting
<1> QED
  BY <1>1, <1>2, <1>3

-----------------------------------------------------------------------------
(* ChatGPT's callback                                                      *)

Accepted == {t \in Tabs : tab[t] = "accepted"}

\* The channel holds the callback that was put into it last, unless it was taken:
\* the first one, and nothing is pasted any more once it was.
Raced ==
  /\ wait = "waiting" =>
       result = NULL /\ ~pasted /\ sent = IF slot = NULL THEN <<>> ELSE <<slot>>
  /\ wait = "draining" =>
       result # NULL /\ ~pasted /\ Len(sent) = IF slot = NULL THEN 1 ELSE 2
  /\ result # NULL /\ ~pasted => sent # <<>> /\ result = sent[1]
  /\ Len(sent) <= 2

CallbackInv ==
  /\ CallbackTypeOK /\ Raced
  /\ \A t \in Tabs : tab[t] # "away" => url[t] \in Urls
  /\ IsFiniteSet(connections)
  /\ IsFiniteSet(Accepted) /\ Len(sent) = Cardinality(Accepted)

LEMMA CallbackStarts == CallbackInit => CallbackInv
<1> SUFFICES ASSUME CallbackInit PROVE CallbackInv
  OBVIOUS
<1>1. Accepted = {} /\ IsFiniteSet({}) /\ Cardinality({}) = 0 /\ Len(<<>>) = 0
  BY FS_EmptySet DEF CallbackInit, Accepted
<1>2. CallbackTypeOK
  <2>1. /\ <<>> \in Seq(Lines) /\ <<>> \in Seq(Lines \ {LONG}) /\ <<>> \in Seq(Callbacks)
    OBVIOUS
  <2>2. /\ [t \in Tabs |-> "away"]
             \in [Tabs -> {"away", "backlog", "open", "accepted", "refused", "dropped", "cut"}]
        /\ [t \in Tabs |-> NULL] \in [Tabs -> Urls \cup {NULL}]
    OBVIOUS
  <2>3. Cardinality({}) <= MaxConnections
    BY <1>1, CallbacksTyped
  <2> QED
    BY <2>1, <2>2, <2>3 DEF CallbackInit, CallbackTypeOK
<1> QED
  BY <1>1, <1>2 DEF CallbackInit, CallbackInv, Raced

\* What keeps the number of browsers that were told to return to c2a.
LEMMA SameAccepted ==
  ASSUME CallbackInv, UNCHANGED sent,
         \A t \in Tabs : tab'[t] = "accepted" <=> tab[t] = "accepted"
  PROVE  IsFiniteSet(Accepted') /\ Len(sent') = Cardinality(Accepted')
<1>1. Accepted' = Accepted
  BY DEF Accepted
<1> QED
  BY <1>1 DEF CallbackInv

LEMMA EndWaitFacts ==
  ASSUME CallbackInv, NEW how \in Ended, EndWait(how)
  PROVE  /\ wait' = how /\ wait' \notin {"waiting", "draining"}
         /\ tab' \in [Tabs -> {"away", "backlog", "open", "accepted", "refused", "dropped",
                               "cut"}]
         /\ \A t \in Tabs : tab'[t] = "accepted" <=> tab[t] = "accepted"
         /\ \A t \in Tabs : tab'[t] # "away" => tab[t] # "away"
         /\ connections' \subseteq Tabs /\ IsFiniteSet(connections')
         /\ Cardinality(connections') <= MaxConnections
<1>1. IsFiniteSet({}) /\ Cardinality({}) = 0
  BY FS_EmptySet
<1>2. /\ wait' = how /\ connections' = {}
      /\ tab' = [t \in Tabs |-> IF tab[t] \in {"backlog", "open"} THEN "cut" ELSE tab[t]]
      /\ tab \in [Tabs -> {"away", "backlog", "open", "accepted", "refused", "dropped", "cut"}]
  BY DEF EndWait, CallbackInv, CallbackTypeOK
<1> QED
  BY <1>1, <1>2, CallbacksTyped DEF Ended

LEMMA TypeLineKeeps ==
  ASSUME CallbackInv, TypeLine
  PROVE  CallbackInv'
<1>1. typed' \in Seq(Lines)
  BY DEF CallbackInv, CallbackTypeOK, TypeLine
<1>2. UNCHANGED <<wait, slot, sent, tab, url, connections, lines, result, pasted>>
  BY DEF TypeLine, channelVars
<1> QED
  BY <1>1, <1>2, SameAccepted DEF CallbackInv, CallbackTypeOK, Raced

LEMMA ReadInputKeeps ==
  ASSUME CallbackInv, ReadInput
  PROVE  CallbackInv'
<1>1. UNCHANGED <<slot, sent, url, result, pasted>> /\ wait = "waiting"
  BY DEF ReadInput, channelVars
<1>2. PICK n \in 1..Len(typed) :
       /\ typed' = SubSeq(typed, n + 1, Len(typed))
       /\ IF \E i \in 1..n : typed[i] = LONG
          THEN EndWait("failed") /\ UNCHANGED lines
          ELSE lines' = SubSeq(typed, 1, n) /\ UNCHANGED <<wait, tab, connections>>
  BY DEF ReadInput
<1>3. typed \in Seq(Lines) /\ Len(typed) \in Nat /\ n \in Nat
  BY DEF CallbackInv, CallbackTypeOK
<1>4. typed' \in Seq(Lines)
  <2>1. \A i \in (n + 1)..Len(typed) : typed[i] \in Lines
    BY <1>3
  <2> QED
    BY <1>2, <1>3, <2>1, SubSeqProperties
<1>5. CASE \E i \in 1..n : typed[i] = LONG
  <2>1. EndWait("failed") /\ lines' = lines /\ "failed" \in Ended
    BY <1>2, <1>5 DEF Ended
  <2> QED
    BY <1>1, <1>4, <2>1, EndWaitFacts, SameAccepted
       DEF CallbackInv, CallbackTypeOK, Raced
<1>6. CASE ~\E i \in 1..n : typed[i] = LONG
  <2>1. lines' = SubSeq(typed, 1, n) /\ UNCHANGED <<wait, tab, connections>>
    BY <1>2, <1>6
  <2>2. \A i \in 1..n : typed[i] \in Lines \ {LONG}
    BY <1>3, <1>6
  <2>3. lines' \in Seq(Lines \ {LONG})
    BY <1>3, <2>1, <2>2, SubSeqProperties
  <2> QED
    BY <1>1, <1>4, <2>1, <2>3, SameAccepted DEF CallbackInv, CallbackTypeOK, Raced
<1> QED
  BY <1>5, <1>6

LEMMA LookAtLineKeeps ==
  ASSUME CallbackInv, LookAtLine
  PROVE  CallbackInv'
<1>1. UNCHANGED <<slot, sent, url, typed>> /\ wait = "waiting" /\ lines # <<>>
  BY DEF LookAtLine, channelVars
<1>2. lines' \in Seq(Lines \ {LONG}) /\ Head(lines) \in Lines \ {LONG}
  BY <1>1 DEF CallbackInv, CallbackTypeOK, LookAtLine
<1>3. CASE Head(lines) = GARBLED
  <2>1. EndWait("failed") /\ UNCHANGED <<result, pasted>> /\ "failed" \in Ended
    BY <1>3 DEF LookAtLine, Ended
  <2> QED
    BY <1>1, <1>2, <2>1, EndWaitFacts, SameAccepted DEF CallbackInv, CallbackTypeOK, Raced
<1>4. CASE Head(lines) # GARBLED /\ (Head(lines) = BLANK \/ Callback(Head(lines)) = INVALID)
  <2>1. UNCHANGED <<wait, tab, connections, result, pasted>>
    BY <1>4 DEF LookAtLine
  <2> QED
    BY <1>1, <1>2, <2>1, SameAccepted DEF CallbackInv, CallbackTypeOK, Raced
<1>5. CASE Head(lines) \notin {GARBLED, BLANK} /\ Callback(Head(lines)) # INVALID
  <2>1. EndWait("returned") /\ result' = Callback(Head(lines)) /\ pasted' = TRUE
    BY <1>5 DEF LookAtLine
  <2>2. result' \in Callbacks /\ "returned" \in Ended
    BY <1>2, <1>5, <2>1 DEF Callbacks, Pasted, Ended
  <2> QED
    BY <1>1, <1>2, <2>1, <2>2, EndWaitFacts, SameAccepted
       DEF CallbackInv, CallbackTypeOK, Raced
<1> QED
  BY <1>3, <1>4, <1>5

LEMMA ConnectKeeps ==
  ASSUME CallbackInv, NEW t \in Tabs, Connect(t)
  PROVE  CallbackInv'
<1>1. PICK u \in Urls : url' = [url EXCEPT ![t] = u]
  BY DEF Connect
<1>2. /\ UNCHANGED <<wait, slot, sent, connections, typed, lines, result, pasted>>
      /\ tab[t] = "away" /\ tab' = [tab EXCEPT ![t] = "backlog"]
  BY DEF Connect, channelVars, inputVars
<1>3. \A s \in Tabs : tab'[s] = "accepted" <=> tab[s] = "accepted"
  BY <1>2 DEF CallbackInv, CallbackTypeOK
<1>4. CallbackTypeOK' /\ \A s \in Tabs : tab'[s] # "away" => url'[s] \in Urls
  BY <1>1, <1>2 DEF CallbackInv, CallbackTypeOK
<1> QED
  BY <1>2, <1>3, <1>4, SameAccepted DEF CallbackInv, Raced

LEMMA AcceptKeeps ==
  ASSUME CallbackInv, NEW t \in Tabs, Accept(t)
  PROVE  CallbackInv'
<1>1. /\ UNCHANGED <<wait, slot, sent, url, typed, lines, result, pasted>>
      /\ tab[t] = "backlog" /\ tab' = [tab EXCEPT ![t] = "open"]
      /\ connections' = connections \cup {t} /\ Cardinality(connections) < MaxConnections
  BY DEF Accept, channelVars, inputVars
<1>2. \A s \in Tabs : tab'[s] = "accepted" <=> tab[s] = "accepted"
  BY <1>1 DEF CallbackInv, CallbackTypeOK
<1>3. IsFiniteSet(connections') /\ Cardinality(connections') <= MaxConnections
  <2>1. IsFiniteSet(connections) /\ Cardinality(connections) \in Nat
    BY FS_CardinalityType DEF CallbackInv
  <2> QED
    BY <1>1, <2>1, FS_AddElement, CallbacksTyped
<1>4. CallbackTypeOK' /\ \A s \in Tabs : tab'[s] # "away" => url'[s] \in Urls
  BY <1>1, <1>3 DEF CallbackInv, CallbackTypeOK
<1> QED
  BY <1>1, <1>2, <1>3, <1>4, SameAccepted DEF CallbackInv, Raced

LEMMA ServeKeeps ==
  ASSUME CallbackInv, NEW t \in Tabs, Serve(t)
  PROVE  CallbackInv'
<1>1. /\ UNCHANGED <<wait, url, connections, typed, lines, result, pasted>>
      /\ tab[t] = "open" /\ wait \in {"waiting", "draining"} /\ url[t] \in Urls
  BY DEF Serve, inputVars, CallbackInv
<1>2. CASE ~(Callback(url[t]) # INVALID /\ slot = NULL)
  <2>1. tab' = [tab EXCEPT ![t] = "refused"] /\ UNCHANGED <<slot, sent>>
    BY <1>2 DEF Serve, channelVars
  <2>2. \A s \in Tabs : tab'[s] = "accepted" <=> tab[s] = "accepted"
    BY <1>1, <2>1 DEF CallbackInv, CallbackTypeOK
  <2>3. CallbackTypeOK' /\ \A s \in Tabs : tab'[s] # "away" => url'[s] \in Urls
    BY <1>1, <2>1 DEF CallbackInv, CallbackTypeOK
  <2> QED
    BY <1>1, <2>1, <2>2, <2>3, SameAccepted DEF CallbackInv, Raced
<1>3. CASE Callback(url[t]) # INVALID /\ slot = NULL
  <2> DEFINE c == Callback(url[t])
  <2>1. /\ slot' = c /\ sent' = Append(sent, c) /\ tab' = [tab EXCEPT ![t] = "accepted"]
        /\ c \in Callbacks /\ c # NULL
    BY <1>1, <1>3, CallbacksTyped DEF Serve, Callbacks
  <2> HIDE DEF c
  <2>2. sent \in Seq(Callbacks)
    BY DEF CallbackInv, CallbackTypeOK
  <2>3. /\ sent' \in Seq(Callbacks) /\ Len(sent') = Len(sent) + 1
        /\ sent # <<>> => sent'[1] = sent[1] /\ sent' # <<>>
        /\ sent = <<>> => sent' = <<c>>
    <3>1. sent' \in Seq(Callbacks) /\ Len(sent') = Len(sent) + 1
      BY <2>1, <2>2, AppendProperties
    <3>2. ASSUME sent # <<>> PROVE sent'[1] = sent[1] /\ sent' # <<>>
      <4>1. Len(sent) \in Nat /\ Len(sent) >= 1
        BY <2>2, <3>2
      <4> QED
        BY <2>1, <2>2, <3>1, <4>1, AppendProperties
    <3>3. ASSUME sent = <<>> PROVE sent' = <<c>>
      BY <2>1, <3>3
    <3> QED
      BY <3>1, <3>2, <3>3
  <2>4. CallbackTypeOK' /\ \A s \in Tabs : tab'[s] # "away" => url'[s] \in Urls
    BY <1>1, <2>1, <2>3 DEF CallbackInv, CallbackTypeOK
  <2>5. Accepted' = Accepted \cup {t} /\ t \notin Accepted
    BY <1>1, <2>1 DEF Accepted, CallbackInv, CallbackTypeOK
  <2>6. IsFiniteSet(Accepted') /\ Len(sent') = Cardinality(Accepted')
    BY <2>3, <2>5, FS_AddElement DEF CallbackInv
  <2>7. Raced'
    <3>1. CASE wait = "waiting"
      BY <1>1, <1>3, <2>1, <2>3, <3>1 DEF CallbackInv, Raced
    <3>2. CASE wait = "draining"
      <4>1. Len(sent) = 1 /\ sent # <<>> /\ result = sent[1]
        BY <1>1, <1>3, <2>2, <3>2 DEF CallbackInv, Raced
      <4> QED
        BY <1>1, <1>3, <2>1, <2>3, <3>2, <4>1 DEF CallbackInv, Raced
    <3> QED
      BY <1>1, <3>1, <3>2
  <2> QED
    BY <1>1, <2>4, <2>6, <2>7 DEF CallbackInv
<1> QED
  BY <1>2, <1>3

LEMMA ConnectionKeeps ==
  ASSUME CallbackInv, NEW t \in Tabs, ConnectionFails(t) \/ Join(t)
  PROVE  CallbackInv'
<1>1. UNCHANGED <<wait, slot, sent, url, typed, lines, result, pasted>>
  BY DEF ConnectionFails, Join, channelVars, inputVars
<1>2. /\ tab' \in [Tabs -> {"away", "backlog", "open", "accepted", "refused", "dropped", "cut"}]
      /\ \A s \in Tabs : tab'[s] = "accepted" <=> tab[s] = "accepted"
      /\ \A s \in Tabs : tab'[s] # "away" => tab[s] # "away"
  BY DEF CallbackInv, CallbackTypeOK, ConnectionFails, Join
<1>3. /\ connections' \subseteq connections /\ IsFiniteSet(connections')
      /\ Cardinality(connections') <= MaxConnections
  <2>1. connections' \subseteq connections
    BY DEF ConnectionFails, Join
  <2>2. IsFiniteSet(connections) /\ Cardinality(connections) <= MaxConnections
    BY DEF CallbackInv, CallbackTypeOK
  <2>3. /\ IsFiniteSet(connections') /\ Cardinality(connections') <= Cardinality(connections)
        /\ Cardinality(connections') \in Nat /\ Cardinality(connections) \in Nat
    BY <2>1, <2>2, FS_Subset, FS_CardinalityType
  <2> QED
    BY <2>1, <2>2, <2>3, CallbacksTyped
<1> QED
  BY <1>1, <1>2, <1>3, SameAccepted DEF CallbackInv, CallbackTypeOK, Raced

LEMMA ReceiveKeeps ==
  ASSUME CallbackInv, Receive
  PROVE  CallbackInv'
<1>1. /\ wait = "waiting" /\ slot # NULL /\ wait' = "draining" /\ result' = slot /\ slot' = NULL
      /\ UNCHANGED <<tab, url, connections, typed, lines, pasted, sent>>
  BY DEF Receive, inputVars
<1>2. sent = <<slot>> /\ ~pasted
  BY <1>1 DEF CallbackInv, Raced
<1>3. Raced'
  BY <1>1, <1>2 DEF Raced
<1> QED
  BY <1>1, <1>3, SameAccepted DEF CallbackInv, CallbackTypeOK

LEMMA EndKeeps ==
  ASSUME CallbackInv, Drained \/ Interrupt
  PROVE  CallbackInv'
<1>1. UNCHANGED <<slot, sent, url, typed, lines, result, pasted>>
  BY DEF Drained, Interrupt, channelVars, inputVars
<1>2. \E how \in Ended : EndWait(how)
  BY DEF Drained, Interrupt, Ended
<1> QED
  BY <1>1, <1>2, EndWaitFacts, SameAccepted DEF CallbackInv, CallbackTypeOK, Raced

LEMMA CallbackSteps == CallbackInv /\ [CallbackNext]_callbackVars => CallbackInv'
<1> SUFFICES ASSUME CallbackInv, [CallbackNext]_callbackVars PROVE CallbackInv'
  OBVIOUS
<1>1. CASE UNCHANGED callbackVars
  BY <1>1, SameAccepted DEF callbackVars, CallbackInv, CallbackTypeOK, Raced
<1> QED
  BY <1>1, TypeLineKeeps, ReadInputKeeps, LookAtLineKeeps, ConnectKeeps, AcceptKeeps,
     ServeKeeps, ConnectionKeeps, ReceiveKeeps, EndKeeps DEF CallbackNext

-----------------------------------------------------------------------------
(* The command                                                             *)

\* The device login of another provider than ChatGPT, which has none.
Idle ==
  /\ DeviceTypeOK /\ at = "start" /\ outcome = NONE
  /\ now = 0 /\ deadline = 0

LoginInv ==
  /\ IF provider = "chatgpt" THEN Idle ELSE Inv
  /\ CallbackInv

LEMMA LoginStarts == Init => LoginInv
BY InitInv, CallbackStarts
   DEF Init, LoginInv, Idle, DeviceTypeOK, DeviceInit

LEMMA LoginSteps == LoginInv /\ [Next]_vars => LoginInv'
<1> SUFFICES ASSUME LoginInv, [Next]_vars PROVE LoginInv'
  OBVIOUS
<1>1. CASE UNCHANGED vars
  <2>1. UNCHANGED callbackVars /\ UNCHANGED deviceVars /\ provider' = provider
    BY <1>1 DEF vars, deviceVars
  <2>2. provider # "chatgpt" => Inv'
    BY <2>1, NextInv DEF LoginInv
  <2>3. provider = "chatgpt" => Idle'
    BY <2>1 DEF LoginInv, Idle, DeviceTypeOK, deviceVars
  <2> QED
    BY <2>1, <2>2, <2>3, CallbackSteps DEF LoginInv
<1>2. CASE provider # "chatgpt" /\ DeviceNext /\ UNCHANGED callbackVars
  <2>1. Inv' /\ provider' # "chatgpt"
    BY <1>2, NextInv DEF LoginInv, Inv
  <2> QED
    BY <1>2, <2>1, CallbackSteps DEF LoginInv
<1>3. CASE provider = "chatgpt" /\ CallbackNext /\ UNCHANGED deviceVars
  <2>1. provider' = provider /\ Idle'
    BY <1>3 DEF LoginInv, Idle, DeviceTypeOK, deviceVars
  <2> QED
    BY <1>3, <2>1, CallbackSteps DEF LoginInv
<1> QED
  BY <1>1, <1>2, <1>3 DEF Next

LEMMA LoginAlways == Spec => []LoginInv
BY LoginStarts, LoginSteps, PTL DEF Spec

\* The type invariant: in particular no more connections are served at a time than
\* the limit, and nothing but a callback reaches the login.
THEOREM LoginTyped == Spec => []TypeOK
<1>1. LoginInv => TypeOK
  BY DEF LoginInv, Idle, Inv, CallbackInv, TypeOK
<1> QED
  BY <1>1, LoginAlways, PTL

\* However many browsers connect, and whatever is typed meanwhile, the login goes on
\* with the first callback that was accepted, or with a pasted one.
THEOREM FirstWins == Spec => []FirstCallbackWins
<1>1. LoginInv => FirstCallbackWins
  <2> SUFFICES ASSUME LoginInv PROVE FirstCallbackWins
    OBVIOUS
  <2>1. sent \in Seq(Callbacks) /\ Raced /\ Len(sent) = Cardinality(Accepted)
    BY DEF LoginInv, CallbackInv, CallbackTypeOK
  <2>2. result # NULL /\ ~pasted => result = Head(sent)
    BY <2>1 DEF Raced
  <2>3. wait = "waiting" => Len(sent) <= 1
    BY <2>1 DEF Raced
  <2> QED
    BY <2>1, <2>2, <2>3 DEF FirstCallbackWins, Accepted, Raced
<1> QED
  BY <1>1, LoginAlways, PTL

\* Whatever the server answers and however often it slows the program down, a
\* device login is over three requests after its deadline.
THEOREM Bounded == Spec => []LoginBounded
<1>1. LoginInv => LoginBounded
  BY Margins DEF LoginInv, Idle, Inv, InTime, LoginBounded
<1> QED
  BY <1>1, LoginAlways, PTL

\* A device login that gives up has polled as late as its deadline allowed.
THEOREM NotOverlooked == Spec => []ApprovalNotMissed
<1>1. LoginInv => ApprovalNotMissed
  BY TimesTyped DEF LoginInv, Idle, Inv, NotMissed, ApprovalNotMissed, Outcomes
<1> QED
  BY <1>1, LoginAlways, PTL

\* Polls keep the server's distance and the deadline.
THEOREM Spaced == Spec => PollsSpaced
<1>1. LoginInv /\ [Next]_vars =>
        [at # "poll" /\ at' = "poll" =>
           /\ now' <= deadline
           /\ answered # NONE => \/ now' > answered /\ now' >= answered + asked
                                 \/ provider = "copilot" /\ now' = deadline]_deviceVars
  <2>1. LoginInv /\ [Next]_vars => [DeviceNext]_deviceVars
    BY DEF Next, vars, deviceVars
  <2>2. LoginInv /\ [Next]_vars => Inv \/ UNCHANGED deviceVars
    BY DEF LoginInv, Next, vars, deviceVars
  <2> QED
    BY <2>1, <2>2, PollStep DEF deviceVars
<1> QED
  BY <1>1, LoginAlways, PTL DEF Spec, PollsSpaced
=============================================================================
