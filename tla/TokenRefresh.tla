--------------------------- MODULE TokenRefresh ---------------------------
(***************************************************************************)
(* The Codex and Copilot credential files: refresh::credentials and        *)
(* copilot::credentials, the call upstream with its one retry after a 401  *)
(* (relay.rs), the cache of Copilot's endpoint, and the login and logout   *)
(* commands.                                                               *)
(*                                                                         *)
(* Unlike the ChatGPT refresh, this one runs in the request's own future:  *)
(* it is dropped with the request at any await.  Within a process a mutex  *)
(* lets one request at a time look for credentials; between processes only *)
(* the flock does.                                                         *)
(*                                                                         *)
(* A grant is one reply of a token endpoint: an access token and, maybe, a *)
(* refresh token.  The file names the grants its two tokens come from.     *)
(***************************************************************************)
EXTENDS Naturals, Sequences

CONSTANTS
  Requests,   \* relayed requests; a run of `c2a codex quota`, `c2a copilot quota` or
              \* `c2a copilot status` is one alone in its process, without a retry
  Procs,      \* the processes they run in
  procOf,     \* the process of each request
  Logins,     \* runs of `c2a codex login` or `c2a copilot login`
  Copilot,    \* TRUE for Copilot, FALSE for Codex
  Accounts,   \* accounts a token can name (Codex)
  MaxGrants,  \* bound on the grants the server issues
  NONE, EMPTY, CORRUPT

Actors == Requests \cup Logins
Grants == 1..MaxGrants
File == [access: Grants, refresh: Grants \cup {NONE}]

ASSUME ConstantsTyped ==
  /\ procOf \in [Requests -> Procs]
  /\ Requests \cap Logins = {} /\ NONE \notin Actors /\ NONE \notin Grants
  /\ Copilot \in BOOLEAN /\ MaxGrants \in Nat
  /\ {NONE, EMPTY, CORRUPT} \cap File = {} /\ EMPTY # CORRUPT
  /\ {NONE, EMPTY, CORRUPT} \cap (Accounts \cup Actors) = {}

Grant == [age: {"fresh", "due", "expired"}, account: Accounts,
          renewal: {"none", "live", "lapsed", "consumed"}]

VARIABLES
  file,       \* contents of codex.json or copilot.json
  lock,       \* holder of the exclusive flock, or NONE
  mutex,      \* request that holds Relay::credentials in each process
  pc,         \* where each actor is
  rejected,   \* access token upstream answered with 401, in the retry
  saved,      \* `current`, then `latest`
  out,        \* the credentials being stored
  token,      \* access token the request goes on with
  cache,      \* access token of the endpoint each process has cached
  endpoint,   \* access token whose discovery gave the request its endpoint
  discovering,\* holder of the cache's mutex during a discovery
  grant,      \* the grants, in the order they were issued
  lost,       \* history: consumed refresh tokens whose replacement was dropped
  owner       \* history: account of the last login stored; NONE once logged out

vars == <<file, lock, mutex, pc, rejected, saved, out, token, cache, endpoint, discovering,
          grant, lost, owner>>

cacheVars == <<cache, discovering>>
historyVars == <<lost, owner>>

PCs == {"idle", "mutex", "load", "lock", "post", "truncate", "write", "endpoint", "discover",
        "send", "store"}

NewGrant(account, renewable) ==
  [age |-> "fresh", account |-> account, renewal |-> IF renewable THEN "live" ELSE "none"]

\* What happens to the refresh token, or the access token, of grant g.
SetRenewal(g, x) == [grant EXCEPT ![g].renewal = x]
SetAge(g, x) == [grant EXCEPT ![g].age = x]

Init ==
  /\ file = EMPTY /\ lock = NONE
  /\ mutex = [p \in Procs |-> NONE]
  /\ pc = [a \in Actors |-> "idle"]
  /\ rejected = [r \in Requests |-> NONE]
  /\ saved = [r \in Requests |-> NONE]
  /\ out = [a \in Actors |-> NONE]
  /\ token = [r \in Requests |-> NONE]
  /\ cache = [p \in Procs |-> NONE]
  /\ endpoint = [r \in Requests |-> NONE]
  /\ discovering = [p \in Procs |-> NONE]
  /\ grant = <<>> /\ lost = {} /\ owner = NONE

Goto(a, p) == pc' = [pc EXCEPT ![a] = p]

\* The file parses and has what validate_codex and validate_copilot ask for.
Loaded == file \notin {EMPTY, CORRUPT}

-----------------------------------------------------------------------------
(* The end of a request, wherever its future is dropped or returns         *)

\* Guards and descriptors go with the futures of the requests rs.
Drop(rs) ==
  /\ pc' = [a \in Actors |-> IF a \in rs THEN "idle" ELSE pc[a]]
  /\ rejected' = [r \in Requests |-> IF r \in rs THEN NONE ELSE rejected[r]]
  /\ saved' = [r \in Requests |-> IF r \in rs THEN NONE ELSE saved[r]]
  /\ out' = [a \in Actors |-> IF a \in rs THEN NONE ELSE out[a]]
  /\ token' = [r \in Requests |-> IF r \in rs THEN NONE ELSE token[r]]
  /\ endpoint' = [r \in Requests |-> IF r \in rs THEN NONE ELSE endpoint[r]]
  /\ mutex' = [p \in Procs |-> IF mutex[p] \in rs THEN NONE ELSE mutex[p]]
  /\ discovering' = [p \in Procs |-> IF discovering[p] \in rs THEN NONE ELSE discovering[p]]
  /\ lock' = IF lock \in rs THEN NONE ELSE lock

\* The refresh request of r may have rotated the token, unseen.
Unseen(r) ==
  \/ UNCHANGED <<grant, lost>>
  \/ LET t == saved[r].refresh IN
     /\ grant[t].renewal = "live"
     /\ grant' = SetRenewal(t, "consumed")
     /\ lost' = lost \cup {t}

\* The request is dropped: its client left, or the service shuts down.  The
\* code awaits the mutexes, the refresh, the discovery and upstream; between
\* them, and in a store, it cannot be dropped.
Cancel(r) ==
  /\ pc[r] \in {"mutex", "post", "endpoint", "discover", "send"}
  /\ Drop({r})
  /\ IF pc[r] = "post" THEN Unseen(r) ELSE UNCHANGED <<grant, lost>>
  /\ UNCHANGED <<file, cache, owner>>

\* `?` returns an error.
Fail(r) == Drop({r}) /\ UNCHANGED <<file, cache, grant, historyVars>>

-----------------------------------------------------------------------------
(* credentials                                                             *)

Begin(r) ==
  /\ pc[r] = "idle"
  /\ Goto(r, "mutex")
  /\ UNCHANGED <<file, lock, mutex, rejected, saved, out, token, endpoint, cacheVars, grant,
                 historyVars>>

\* Fault: nobody waits for the mutex.
TakeMutexNever(r) ==
  /\ pc[r] = "mutex"
  /\ mutex' = [mutex EXCEPT ![procOf[r]] = r]
  /\ Goto(r, "load")
  /\ UNCHANGED <<file, lock, rejected, saved, out, token, endpoint, cacheVars, grant, historyVars>>

TakeMutex(r) ==
  /\ pc[r] = "mutex" /\ mutex[procOf[r]] = NONE
  /\ mutex' = [mutex EXCEPT ![procOf[r]] = r]
  /\ Goto(r, "load")
  /\ UNCHANGED <<file, lock, rejected, saved, out, token, endpoint, cacheVars, grant,
                 historyVars>>

\* Fault: a rejected token is good as long as it is not expired.
ReusableRejected(g, r) ==
  IF rejected[r] = NONE THEN grant[g].age = "fresh" ELSE grant[g].age # "expired"

\* reusable_access_token: with a margin, or without it for the retry after a 401.
Reusable(g, r) ==
  IF rejected[r] = NONE THEN grant[g].age = "fresh"
  ELSE g # rejected[r] /\ grant[g].age # "expired"

\* credentials returns access token g: the guard is dropped, and Copilot still
\* needs an endpoint.
Return(r, g) ==
  /\ token' = [token EXCEPT ![r] = g]
  /\ mutex' = [mutex EXCEPT ![procOf[r]] = NONE]
  /\ saved' = [saved EXCEPT ![r] = NONE]
  /\ Goto(r, IF Copilot THEN "endpoint" ELSE "send")
  /\ UNCHANGED <<rejected, endpoint, cacheVars>>

\* Under a shared lock, released at once.  It fails when there is nothing to load,
\* and when the file cannot be opened, locked or read.
Load(r) ==
  /\ pc[r] = "load" /\ lock = NONE
  /\ \/ Fail(r)
     \/ /\ Loaded /\ Reusable(file.access, r)
        /\ Return(r, file.access)
        /\ UNCHANGED <<file, lock, out, grant, historyVars>>
     \/ /\ Loaded /\ ~Reusable(file.access, r)
        /\ saved' = [saved EXCEPT ![r] = file]
        /\ Goto(r, "lock")
        /\ UNCHANGED <<file, lock, mutex, rejected, out, token, endpoint, cacheVars, grant,
                       historyVars>>

\* Somebody replaced what was read, by something to go on with.
Replaced(r) ==
  /\ file.access # saved[r].access
  /\ Copilot => rejected[r] = NONE \/ grant[file.access].age # "expired"

\* Fault: what was read before the lock counts, not what is there now.
ReloadNot(r) ==
  /\ pc[r] = "lock" /\ lock = NONE
  /\ saved[r].refresh # NONE
  /\ lock' = r
  /\ Goto(r, "post")
  /\ UNCHANGED <<file, mutex, rejected, saved, out, token, endpoint, cacheVars, grant,
                 historyVars>>

\* Under the exclusive lock: look again, and refresh if nobody else has.  It fails as
\* Load does, and without a refresh token that is still good.
Reload(r) ==
  /\ pc[r] = "lock" /\ lock = NONE
  /\ \/ Fail(r)
     \/ /\ Loaded /\ Replaced(r)
        /\ Return(r, file.access)
        /\ UNCHANGED <<file, lock, out, grant, historyVars>>
     \/ /\ Loaded /\ ~Replaced(r)
        /\ file.refresh # NONE /\ grant[file.refresh].renewal # "lapsed"
        /\ lock' = r
        /\ saved' = [saved EXCEPT ![r] = file]
        /\ Goto(r, "post")
        /\ UNCHANGED <<file, mutex, rejected, out, token, endpoint, cacheVars, grant,
                       historyVars>>

\* The token endpoint answers with a grant; with a new refresh token it
\* uses up the old one.
Rotate(t, account, renewable) ==
  /\ grant[t].renewal = "live" /\ Len(grant) < MaxGrants
  /\ grant' = Append(IF renewable THEN SetRenewal(t, "consumed") ELSE grant,
                     NewGrant(account, renewable))

\* Fault: the account of the new token is not compared.
SameAccountAlways(g, h) == TRUE

\* Codex compares the accounts of the two tokens; Copilot's name none.
SameAccount(g, h) == Copilot \/ grant'[g].account = grant'[h].account

\* Fault: the refresh token of the reply is dropped.
RenewalOld(g, t) == t

\* The refresh token to store after g was issued for t.
Renewal(g, t) == IF grant'[g].renewal = "none" THEN t ELSE g

\* The reply is stored, if it is for the same account; a reply without a refresh
\* token keeps the old one.
Refresh(r) ==
  /\ pc[r] = "post"
  /\ LET t == saved[r].refresh
         g == Len(grant) + 1 IN
     \E a \in Accounts, renewable \in BOOLEAN :
       /\ Copilot => a = grant[t].account
       /\ Rotate(t, a, renewable)
       /\ \/ /\ SameAccount(g, saved[r].access)
             /\ out' = [out EXCEPT ![r] =
                  [access |-> g, refresh |-> Renewal(g, t)]]
             /\ Goto(r, "truncate")
             /\ UNCHANGED <<lock, mutex, rejected, saved, token, endpoint, cacheVars, lost>>
          \/ /\ ~SameAccount(g, saved[r].access)
             /\ Drop({r})
             /\ lost' = IF renewable THEN lost \cup {t} ELSE lost
             /\ UNCHANGED cache
  /\ UNCHANGED <<file, owner>>

\* Fault: an error leaves the credentials locked.
RefreshFailsLocked(r) ==
  /\ pc[r] = "post"
  /\ Unseen(r)
  /\ mutex' = [mutex EXCEPT ![procOf[r]] = NONE]
  /\ rejected' = [rejected EXCEPT ![r] = NONE]
  /\ saved' = [saved EXCEPT ![r] = NONE]
  /\ Goto(r, "idle")
  /\ UNCHANGED <<file, lock, out, token, endpoint, cacheVars, owner>>

\* The request fails or its reply is unusable.
RefreshFails(r) ==
  /\ pc[r] = "post"
  /\ Drop({r}) /\ Unseen(r)
  /\ UNCHANGED <<file, cache, owner>>

-----------------------------------------------------------------------------
(* store, login, logout                                                    *)

Truncate(a) ==
  /\ pc[a] = "truncate"
  /\ file' = EMPTY
  /\ Goto(a, "write")
  /\ UNCHANGED <<lock, mutex, rejected, saved, out, token, endpoint, cacheVars, grant,
                 historyVars>>

Write(a) ==
  /\ pc[a] = "write"
  /\ file' = out[a] /\ lock' = NONE
  /\ out' = [out EXCEPT ![a] = NONE]
  /\ IF a \in Requests
     THEN Return(a, out[a].access) /\ UNCHANGED owner
     ELSE /\ Goto(a, "idle")
          /\ owner' = grant[out[a].access].account
          /\ UNCHANGED <<mutex, rejected, saved, token, endpoint, cacheVars>>
  /\ UNCHANGED <<grant, lost>>

\* set_len, write_all or sync_all fails, or the process dies in between: the old
\* contents, none, a prefix, or all of it.
Tear(a) ==
  \/ pc[a] \in {"store", "truncate"} /\ UNCHANGED <<file, owner>>
  \/ pc[a] = "write" /\ file' \in {EMPTY, CORRUPT} /\ UNCHANGED owner
  \/ /\ pc[a] = "write" /\ file' = out[a]
     /\ owner' = IF a \in Logins THEN grant[out[a].access].account ELSE owner

Unstored(a) ==
  IF a \in Requests /\ grant[saved[a].refresh].renewal = "consumed"
  THEN lost \cup {saved[a].refresh} ELSE lost

\* Fault: a request goes on with what it could not store.
StoreFailsIgnored(a) ==
  /\ a \in Requests /\ pc[a] \in {"truncate", "write"}
  /\ Tear(a) /\ lock' = NONE
  /\ out' = [out EXCEPT ![a] = NONE]
  /\ Return(a, out[a].access)
  /\ lost' = Unstored(a)
  /\ UNCHANGED grant

\* Neither the flock nor the mutex outlives the error.
StoreFails(a) ==
  /\ pc[a] \in {"store", "truncate", "write"}
  /\ Drop({a}) /\ Tear(a)
  /\ lost' = Unstored(a)
  /\ UNCHANGED <<cache, grant>>

\* The device flow ends with a grant; only storing it takes the lock.
LoginGranted(l) ==
  /\ pc[l] = "idle" /\ Len(grant) < MaxGrants
  /\ \E a \in Accounts, renewable \in BOOLEAN :
       /\ ~Copilot => renewable
       /\ grant' = Append(grant, NewGrant(a, renewable))
       /\ LET g == Len(grant) + 1 IN
          out' = [out EXCEPT ![l] = [access |-> g, refresh |-> IF renewable THEN g ELSE NONE]]
  /\ Goto(l, "store")
  /\ UNCHANGED <<file, lock, mutex, rejected, saved, token, endpoint, cacheVars, historyVars>>

LoginStore(l) ==
  /\ pc[l] = "store" /\ lock = NONE
  /\ lock' = l
  /\ Goto(l, "truncate")
  /\ UNCHANGED <<file, mutex, rejected, saved, out, token, endpoint, cacheVars, grant,
                 historyVars>>

\* storage::clear, whatever the file holds.
Logout ==
  /\ lock = NONE
  /\ file' = EMPTY /\ owner' = NONE
  /\ UNCHANGED <<lock, mutex, pc, rejected, saved, out, token, endpoint, cacheVars, grant,
                 lost>>

-----------------------------------------------------------------------------
(* copilot_endpoint, send, send_authenticated                              *)

\* Fault: any cached endpoint will do.
CachedAny(r) == cache[procOf[r]] # NONE

Cached(r) == cache[procOf[r]] = token[r]

\* Copilot: the cached endpoint, if it is for this token, or a discovery, which
\* keeps the cache's mutex.
FindEndpoint(r) ==
  /\ pc[r] = "endpoint" /\ discovering[procOf[r]] = NONE
  /\ \/ /\ Cached(r)
        /\ endpoint' = [endpoint EXCEPT ![r] = cache[procOf[r]]]
        /\ Goto(r, "send")
        /\ UNCHANGED discovering
     \/ /\ ~Cached(r)
        /\ discovering' = [discovering EXCEPT ![procOf[r]] = r]
        /\ Goto(r, "discover")
        /\ UNCHANGED endpoint
  /\ UNCHANGED <<file, lock, mutex, rejected, saved, out, token, cache, grant, historyVars>>

Discovered(r) ==
  /\ pc[r] = "discover"
  /\ cache' = [cache EXCEPT ![procOf[r]] = token[r]]
  /\ endpoint' = [endpoint EXCEPT ![r] = token[r]]
  /\ discovering' = [discovering EXCEPT ![procOf[r]] = NONE]
  /\ Goto(r, "send")
  /\ UNCHANGED <<file, lock, mutex, rejected, saved, out, token, grant, historyVars>>

DiscoveryFails(r) == pc[r] = "discover" /\ Fail(r)

\* Upstream rejects the token, the first time: once more with other credentials.
Unauthorized(r) ==
  /\ pc[r] = "send" /\ rejected[r] = NONE
  /\ rejected' = [rejected EXCEPT ![r] = token[r]]
  /\ token' = [token EXCEPT ![r] = NONE]
  /\ endpoint' = [endpoint EXCEPT ![r] = NONE]
  /\ Goto(r, "mutex")
  /\ UNCHANGED <<file, lock, mutex, saved, out, cacheVars, grant, historyVars>>

\* Any other answer, or a failure, or a second 401.
Answered(r) == pc[r] = "send" /\ Fail(r)

-----------------------------------------------------------------------------
\* A process dies with all its requests.
Crash(p) ==
  LET rs == {r \in Requests : procOf[r] = p /\ pc[r] # "idle"} IN
  /\ rs # {}
  /\ Drop(rs)
  /\ cache' = [cache EXCEPT ![p] = NONE]
  /\ \/ /\ lock \notin rs
        /\ UNCHANGED <<file, grant, lost, owner>>
     \/ /\ lock \in rs /\ pc[lock] = "post"
        /\ Unseen(lock)
        /\ UNCHANGED <<file, owner>>
     \/ /\ lock \in rs /\ pc[lock] # "post"
        /\ Tear(lock) /\ lost' = Unstored(lock)
        /\ UNCHANGED grant

\* Time passes for the tokens in the file.
Tick(g) ==
  /\ Loaded
  /\ \/ g = file.access /\ grant[g].age = "fresh" /\ grant' = SetAge(g, "due")
     \/ g = file.access /\ grant[g].age = "due" /\ grant' = SetAge(g, "expired")
     \/ /\ Copilot /\ g = file.refresh /\ grant[g].renewal = "live"
        /\ grant' = SetRenewal(g, "lapsed")
  /\ UNCHANGED <<file, lock, mutex, pc, rejected, saved, out, token, endpoint, cacheVars,
                 historyVars>>

RequestStep(r) ==
  \/ Begin(r) \/ TakeMutex(r) \/ Load(r) \/ Reload(r) \/ Refresh(r) \/ RefreshFails(r)
  \/ FindEndpoint(r) \/ Discovered(r) \/ DiscoveryFails(r) \/ Unauthorized(r) \/ Answered(r)
  \/ Cancel(r)

Next ==
  \/ \E r \in Requests : RequestStep(r)
  \/ \E l \in Logins : LoginGranted(l) \/ LoginStore(l)
  \/ \E a \in Actors : Truncate(a) \/ Write(a) \/ StoreFails(a)
  \/ Logout
  \/ \E p \in Procs : Crash(p)
  \/ \E g \in Grants : Tick(g)

Spec == Init /\ [][Next]_vars

\* Codex only: its refresh has a timeout of its own.  Both locks serve those who
\* wait in turn; what a process does without waiting, it goes on to do.
Waits(a) == IF a \in Requests THEN Load(a) \/ Reload(a) ELSE LoginStore(a)

FairSpec ==
  /\ Spec
  /\ \A r \in Requests : SF_vars(TakeMutex(r)) /\ WF_vars(Refresh(r) \/ RefreshFails(r))
  /\ \A a \in Actors : /\ SF_vars(Waits(a))
                       /\ WF_vars(Truncate(a) \/ Write(a) \/ StoreFails(a))

-----------------------------------------------------------------------------
(* Properties                                                              *)

\* Every variable has its type, and the mutex and the flock are held by those who
\* are between taking and releasing them, and by nobody else.
TypeOK ==
  /\ file \in File \cup {EMPTY, CORRUPT}
  /\ pc \in [Actors -> PCs]
  /\ lock \in Actors \cup {NONE}
  /\ {mutex, discovering} \subseteq [Procs -> Requests \cup {NONE}]
  /\ out \in [Actors -> File \cup {NONE}]
  /\ saved \in [Requests -> File \cup {NONE}]
  /\ {rejected, token, endpoint} \subseteq [Requests -> Grants \cup {NONE}]
  /\ cache \in [Procs -> Grants \cup {NONE}]
  /\ grant \in Seq(Grant) /\ Len(grant) <= MaxGrants
  /\ lost \subseteq Grants /\ owner \in Accounts \cup {NONE}
  /\ \A a \in Actors : (pc[a] \in {"post", "truncate", "write"}) <=> (lock = a)
  /\ \A r \in Requests :
       /\ (pc[r] \in {"load", "lock", "post", "truncate", "write"}) <=> (mutex[procOf[r]] = r)
       /\ (pc[r] = "discover") <=> (discovering[procOf[r]] = r)

\* The stored refresh token has been used up only if the reply that replaced it
\* was refused, never arrived, or could not be stored.
SpentOnlyIfLost ==
  lock = NONE /\ Loaded /\ file.refresh # NONE /\ grant[file.refresh].renewal = "consumed"
    => file.refresh \in lost

\* Nobody refreshes while the file already has a token to go on with: of several
\* requests that find one token stale, or rejected, one refreshes it.
OnlyStaleIsRefreshed ==
  \A r \in Requests : pc[r] = "post" =>
    /\ Loaded
    /\ file.access = rejected[r] \/ grant[file.access].age # "fresh"

\* The retry after a 401 sends another token than the one rejected.
RetryDiffers ==
  \A r \in Requests : pc[r] \in {"endpoint", "discover", "send"} /\ rejected[r] # NONE
    => token[r] # rejected[r]

\* The stored token is of the account that logged in last; no refresh in flight
\* brings back a session that was logged out or replaced.
FileIsOwners ==
  Loaded => grant[file.access].account = owner

\* Copilot: a request goes to the endpoint discovered with the token it sends,
\* though other requests of the process replace the cache.
EndpointIsTokens ==
  Copilot => \A r \in Requests : pc[r] = "send" => endpoint[r] = token[r]

\* A request goes on with a token that is, at that moment, in the file.
AnswersAreStored ==
  [][\A r \in Requests :
       token'[r] \notin {NONE, token[r]} =>
         file' \notin {EMPTY, CORRUPT} /\ file'.access = token'[r]]_vars

\* Codex: whoever asks for credentials gets an answer, whatever the requests of
\* this and other processes do, and whether they are dropped, fail or die.
CredentialsAnswer ==
  \A r \in Requests : pc[r] = "mutex" ~> pc[r] \in {"idle", "send"}
=============================================================================
