---------------------------- MODULE DeviceLogin ----------------------------
(***************************************************************************)
(* `c2a codex login` and `c2a copilot login` (device.rs, copilot.rs): the  *)
(* program asks for a device code, polls until the user has approved it on *)
(* another device, and completes the login.  One task, but it shares time  *)
(* with the user, the server and its own deadline.                         *)
(*                                                                         *)
(* Time is counted in units; every request takes up to RequestTimeout of   *)
(* them, after which the HTTP client fails it.                             *)
(***************************************************************************)
EXTENDS Naturals

CONSTANTS
  LoginTimeout,   \* LOGIN_TIMEOUT (15 minutes)
  RequestTimeout, \* the client's timeout for one request (30 seconds)
  SlowDown,       \* what slow_down adds to the interval (5 seconds)
  Intervals,      \* polling intervals the server may ask for
  Lifetimes,      \* GitHub's expires_in
  Decisions,      \* when the user may decide; too late stands for never
  NONE

Outcomes == {"stored", "timed_out", "denied", "expired", "failed"}

ASSUME TimesTyped ==
  /\ LoginTimeout \in Nat \ {0} /\ RequestTimeout \in Nat /\ SlowDown \in Nat
  /\ Intervals \subseteq Nat /\ Lifetimes \subseteq Nat /\ Decisions \subseteq Nat
  /\ NONE \notin Nat \cup Outcomes

VARIABLES
  provider,  \* the command line: "codex", "copilot", or "chatgpt" (CallbackRace)
  decidedAt, \* when the user decides ...
  says,      \* ... "approve" or "deny"
  now,
  at,        \* where login() is
  deadline,
  interval,
  asked,     \* history: the interval as the server asked for it
  answered,  \* history: when the last wait began, NONE before the first poll of Codex
  outcome

deviceVars == <<provider, decidedAt, says, now, at, deadline, interval, asked, answered,
                outcome>>

userVars == <<provider, decidedAt, says>>

AtLeastOne(n) == IF n = 0 THEN 1 ELSE n
Least(m, n) == IF m <= n THEN m ELSE n
Until(t) == IF now < t THEN t - now ELSE 0

DeviceInit ==
  /\ provider \in {"codex", "copilot"}
  /\ decidedAt \in Decisions /\ says \in {"approve", "deny"}
  /\ now = 0 /\ at = "start"
  /\ deadline = 0 /\ interval = 0
  /\ asked = 0 /\ answered = NONE /\ outcome = NONE

End(o) == at' = "over" /\ outcome' = o
Goto(a) == at' = a /\ UNCHANGED outcome

\* A request that was sent at `now` is over d units later.
Takes(d) == d \in 0..RequestTimeout /\ now' = now + d

\* The device code: GitHub's must not have expired already.
RequestCode ==
  /\ at = "start"
  /\ \E d \in 0..RequestTimeout, i \in Intervals, lifetime \in Lifetimes :
       /\ Takes(d)
       /\ provider = "copilot" => lifetime # 0
       /\ interval' = AtLeastOne(i) /\ asked' = interval'
       /\ deadline' = now' + IF provider = "codex" THEN LoginTimeout
                             ELSE Least(lifetime, LoginTimeout)
       /\ answered' = IF provider = "codex" THEN NONE ELSE now'
  /\ Goto("loop")
  /\ UNCHANGED userVars

\* Fault: the login gives up when the next wait would reach the deadline.
TimedOutEarly ==
  /\ at = "loop" /\ now + interval >= deadline
  /\ End("timed_out")
  /\ UNCHANGED <<userVars, now, deadline, interval, asked, answered>>

\* The top of the loop.
TimedOut ==
  /\ at = "loop" /\ now >= deadline
  /\ End("timed_out")
  /\ UNCHANGED <<userVars, now, deadline, interval, asked, answered>>

\* Codex polls first and sleeps after the answer, Copilot sleeps before it polls.
Continue ==
  /\ at = "loop" /\ now < deadline
  /\ Goto(IF provider = "codex" THEN "poll" ELSE "sleep")
  /\ UNCHANGED <<userVars, now, deadline, interval, asked, answered>>

\* Fault: the sleep is not clipped to the deadline.
SleepUnclipped ==
  /\ at = "sleep"
  /\ now' = now + interval
  /\ Goto(IF provider = "codex" THEN "loop" ELSE "poll")
  /\ UNCHANGED <<userVars, deadline, interval, asked, answered>>

Sleep ==
  /\ at = "sleep"
  /\ now' = now + Least(interval, Until(deadline))
  /\ Goto(IF provider = "codex" THEN "loop" ELSE "poll")
  /\ UNCHANGED <<userVars, deadline, interval, asked, answered>>

\* Fault: slow_down is taken for authorization_pending.
PendingHurried ==
  /\ at = "poll" /\ now < decidedAt
  /\ \E d \in 0..RequestTimeout : Takes(d)
  /\ asked' \in {asked} \cup (IF provider = "copilot" THEN {asked + SlowDown} ELSE {})
  /\ Goto(IF provider = "codex" THEN "sleep" ELSE "loop")
  /\ answered' = now'
  /\ UNCHANGED <<userVars, deadline, interval>>

\* The server may have seen the poll before the user decided: 403 or 404 for
\* Codex, which knows no other answer to a user who declines, and
\* authorization_pending or slow_down for Copilot.
Pending ==
  /\ at = "poll"
  /\ now < decidedAt \/ (provider = "codex" /\ says = "deny")
  /\ \E d \in 0..RequestTimeout : Takes(d)
  /\ \E more \in {0} \cup (IF provider = "copilot" THEN {SlowDown} ELSE {}) :
       interval' = interval + more /\ asked' = asked + more
  /\ Goto(IF provider = "codex" THEN "sleep" ELSE "loop")
  /\ answered' = now'
  /\ UNCHANGED <<userVars, deadline>>

Approved ==
  /\ at = "poll" /\ says = "approve"
  /\ \E d \in 0..RequestTimeout : Takes(d) /\ now' >= decidedAt
  /\ Goto(IF provider = "codex" THEN "exchange" ELSE "user")
  /\ UNCHANGED <<userVars, deadline, interval, asked, answered>>

\* access_denied, or expired_token, which is the server's word alone.
Refused ==
  /\ at = "poll" /\ provider = "copilot"
  /\ \E d \in 0..RequestTimeout :
       /\ Takes(d)
       /\ \/ says = "deny" /\ now' >= decidedAt /\ End("denied")
          \/ End("expired")
  /\ UNCHANGED <<userVars, deadline, interval, asked, answered>>

\* A request is not answered in time, with an error, or with what cannot be used:
\* a code that is empty or has expired, a PKCE verifier that does not fit, a
\* missing token, claims without an account, a user without a login.
RequestFails ==
  /\ at \in {"start", "poll", "exchange", "user", "discover"}
  /\ \E d \in 0..RequestTimeout : Takes(d)
  /\ End("failed")
  /\ UNCHANGED <<userVars, deadline, interval, asked, answered>>

\* Codex exchanges the authorization code for tokens; Copilot has its token and
\* looks up the user, then the endpoint.
Completed(from, to) ==
  /\ at = from
  /\ \E d \in 0..RequestTimeout : Takes(d)
  /\ Goto(to)
  /\ UNCHANGED <<userVars, deadline, interval, asked, answered>>

Exchange == Completed("exchange", "granted")
LookUpUser == Completed("user", "discover")
DiscoverEndpoint == Completed("discover", "granted")

\* main: the credentials replace the file's (TokenRefresh!LoginStore), or cannot.
StoreCredentials ==
  /\ at = "granted"
  /\ End("stored") \/ End("failed")
  /\ UNCHANGED <<userVars, now, deadline, interval, asked, answered>>

DeviceNext ==
  \/ RequestCode \/ TimedOut \/ Continue \/ Sleep \/ Pending \/ Approved \/ Refused
  \/ RequestFails \/ Exchange \/ LookUpUser \/ DiscoverEndpoint \/ StoreCredentials

-----------------------------------------------------------------------------
DeviceTypeOK ==
  /\ decidedAt \in Decisions \cup {0} /\ says \in {"approve", "deny"}
  /\ now \in Nat /\ deadline \in Nat /\ interval \in Nat /\ asked \in Nat
  /\ answered \in Nat \cup {NONE}
  /\ at \in {"start", "loop", "sleep", "poll", "exchange", "user", "discover", "granted",
             "over"}
  /\ outcome \in Outcomes \cup {NONE}

\* No poll begins after the deadline, and none earlier than the server asked for:
\* its interval, longer by every slow_down and never zero, lies between an answer
\* and the next poll.  Only Copilot's last poll, at the deadline, may be earlier.
PollsSpaced ==
  [][at # "poll" /\ at' = "poll" =>
       /\ now' <= deadline
       /\ answered # NONE => \/ now' > answered /\ now' >= answered + asked
                             \/ provider = "copilot" /\ now' = deadline]_deviceVars

\* A login that times out has not overlooked the user: the approval came later
\* than the deadline less one request and, for Codex, which does not poll at the
\* deadline, one interval.
ApprovalNotMissed ==
  outcome = "timed_out" /\ says = "approve" =>
    decidedAt + RequestTimeout + (IF provider = "codex" THEN interval ELSE 0) > deadline

\* However the server and the user behave, the program is done three requests
\* after its deadline; no sleep and no number of slow_downs takes it further.
LoginBounded == now <= deadline + 3 * RequestTimeout
=============================================================================
