--------------------------- MODULE LoginCommand ---------------------------
(***************************************************************************)
(* `c2a <provider> login` (main.rs, login): the provider of the command    *)
(* line decides whether a device code is polled or a callback awaited.     *)
(***************************************************************************)
EXTENDS DeviceLogin, CallbackRace

vars == <<deviceVars, callbackVars>>

\* ChatGPT's login is after LoginStart of ChatgptCredentials, which goes on with
\* the callback.
Init ==
  /\ CallbackInit
  /\ \/ DeviceInit
     \/ /\ provider = "chatgpt"
        /\ decidedAt = 0 /\ says = "approve" /\ now = 0 /\ at = "start"
        /\ deadline = 0 /\ interval = 0 /\ asked = 0 /\ answered = NONE /\ outcome = NONE

Next ==
  \/ provider # "chatgpt" /\ DeviceNext /\ UNCHANGED callbackVars
  \/ provider = "chatgpt" /\ CallbackNext /\ UNCHANGED deviceVars

Spec == Init /\ [][Next]_vars /\ CallbackFairness

TypeOK == DeviceTypeOK /\ CallbackTypeOK
=============================================================================
