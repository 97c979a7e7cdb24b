------------------------ MODULE ChatgptCredentials ------------------------
(***************************************************************************)
(* The ChatGPT credential file (storage.rs) and the three operations that  *)
(* read and rewrite it (chatgpt.rs): the refresh every relayed request     *)
(* runs before it is sent, `c2a chatgpt login` and `c2a chatgpt logout`.   *)
(*                                                                         *)
(* The actors are processes or blocking tasks that share nothing but the   *)
(* file, its flock and the OAuth server.  A store is two steps because the *)
(* code truncates the file and then writes it in place; an actor can crash *)
(* or fail at either.                                                      *)
(*                                                                         *)
(* A grant is one reply of the token endpoint: its access token, refresh   *)
(* token, optional ID token, scopes and expiry.  A session is the grant it *)
(* was built from; it is in `pending` as long as its ID token is unchecked.*)
(***************************************************************************)
EXTENDS Naturals

CONSTANTS
  Refreshers,   \* tasks that run chatgpt::credentials
  Logins,       \* runs of `c2a chatgpt login`
  Logouts,      \* runs of `c2a chatgpt logout`
  Clients,      \* client IDs the server can issue
  Subjects,     \* identities an ID token can prove
  Offers,       \* the token replies the server may send
  MaxGrants,    \* bound on the grants the server issues
  MaxHosts,     \* bound on the host IDs generated
  NONE,         \* Option::None
  INVALID,      \* an ID token whose signature or claims do not verify
  EMPTY,        \* a file of zero bytes
  CORRUPT       \* nonempty contents read_json cannot parse

Actors == Refreshers \cup Logins \cup Logouts
Grants == 1..MaxGrants
Hosts == 1..MaxHosts

ASSUME ActorsDistinct ==
  /\ Refreshers \cap Logins = {}
  /\ Refreshers \cap Logouts = {}
  /\ Logins \cap Logouts = {}
  /\ NONE \notin Actors

ASSUME BoundsAreNat == MaxGrants \in Nat /\ MaxHosts \in Nat

\* What a stored ID token proves once the keys are there: a subject, nothing
\* (the reply had no ID token), or that it is not genuine.
Proofs == Subjects \cup {NONE, INVALID}

ASSUME OffersTyped ==
  /\ Offers \subseteq [id: Proofs, scope: BOOLEAN \cup {NONE}, hold: BOOLEAN]
  /\ NONE \notin Subjects /\ INVALID \notin Subjects /\ NONE # INVALID
  /\ NONE \notin Clients /\ NONE \notin Grants /\ NONE \notin BOOLEAN

State == [host: Hosts, client: Clients \cup {NONE}, subject: Subjects \cup {NONE},
          session: Grants \cup {NONE}, pending: Grants \cup {NONE}]

ASSUME ContentsDistinct == EMPTY \notin State /\ CORRUPT \notin State /\ EMPTY # CORRUPT

Grant == [status: {"unissued", "live", "consumed", "revoked"}, id: Proofs,
          sharing: BOOLEAN, hold: BOOLEAN, age: {"fresh", "due", "expired"}]

VARIABLES
  file,      \* contents of chatgpt.json
  lock,      \* holder of the exclusive flock, or NONE
  pc,        \* where each actor is
  saved,     \* each actor's `saved`: the state it last read or stored
  out,       \* what the store in progress writes
  then,      \* where the actor goes on when that store is done
  waiting,   \* is the future that awaits the refresh task still there?
  result,    \* the session the last refresh returned to its caller, or NONE
  grant,     \* the grants and what the server thinks of them
  issued,    \* number of grants issued
  hosts,     \* number of host IDs generated
  durable,   \* history: the last contents completely written
  torn,      \* history: a store was interrupted and none completed since
  lost       \* history: consumed tokens whose replacement never got stored

vars == <<file, lock, pc, saved, out, then, waiting, result, grant, issued, hosts,
          durable, torn, lost>>

fileVars == <<file, durable, torn>>
serverVars == <<grant, issued>>
callerVars == <<waiting, result>>
storeVars == <<out, then>>

PCs == {"idle", "request", "verify", "revoke", "callback", "exchange", "commit",
        "truncate", "write"}

Fresh == [host |-> 1, client |-> NONE, subject |-> NONE, session |-> NONE, pending |-> NONE]

Unissued == [status |-> "unissued", id |-> NONE, sharing |-> FALSE, hold |-> FALSE,
             age |-> "fresh"]

Init ==
  /\ file = EMPTY /\ durable = EMPTY
  /\ lock = NONE
  /\ pc = [a \in Actors |-> "idle"]
  /\ saved = [a \in Actors |-> NONE]
  /\ out = [a \in Actors |-> NONE]
  /\ then = [a \in Actors |-> "idle"]
  /\ waiting = [r \in Refreshers |-> FALSE]
  /\ result = [r \in Refreshers |-> NONE]
  /\ grant = [g \in Grants |-> Unissued]
  /\ issued = 0 /\ hosts = 0
  /\ torn = FALSE
  /\ lost = {}

-----------------------------------------------------------------------------
(* The file: load, store, and the ways a store ends early                  *)

\* validate_chatgpt: a session needs the registration it belongs to.
Valid(s) ==
  (s.session # NONE \/ s.pending # NONE) => (s.client # NONE /\ s.subject # NONE)

\* load_chatgpt returns Some: the file is neither empty nor refused.
Loaded == file \notin {EMPTY, CORRUPT} /\ Valid(file)

Goto(a, p) == pc' = [pc EXCEPT ![a] = p]

\* The operation is over and its local variables are gone.
Finish(a) ==
  /\ Goto(a, "idle")
  /\ saved' = [saved EXCEPT ![a] = NONE]
  /\ out' = [out EXCEPT ![a] = NONE]
  /\ then' = [then EXCEPT ![a] = "idle"]

\* lock.store(&s)?, to go on at p.
Store(a, s, p) ==
  /\ out' = [out EXCEPT ![a] = s]
  /\ then' = [then EXCEPT ![a] = p]
  /\ Goto(a, "truncate")

Truncate(a) ==
  /\ pc[a] = "truncate"
  /\ file' = EMPTY
  /\ Goto(a, "write")
  /\ UNCHANGED <<lock, saved, storeVars, callerVars, serverVars, hosts, durable, torn, lost>>

\* Fault: the expiry is checked and the scope is not.
PermittedUnscoped(g) == grant[g].age # "expired"

\* permitted(), after the expiry check a promoted session still has to pass.
Permitted(g) == grant[g].sharing /\ grant[g].age # "expired"

\* What the caller of refresh r gets: the session, if it may be used and the
\* caller still waits for it.
Answer(r, g) ==
  /\ result' = [result EXCEPT ![r] = IF waiting[r] /\ Permitted(g) THEN g ELSE NONE]
  /\ waiting' = [waiting EXCEPT ![r] = FALSE]

\* The caller gets an error, or nothing because its process died.
Refuse(a) ==
  IF a \in Refreshers
  THEN /\ result' = [result EXCEPT ![a] = NONE]
       /\ waiting' = [waiting EXCEPT ![a] = FALSE]
  ELSE UNCHANGED callerVars

\* The store is done and the operation goes on with what it stored.
Continue(a) ==
  /\ Goto(a, then[a])
  /\ saved' = [saved EXCEPT ![a] = out[a]]
  /\ out' = [out EXCEPT ![a] = NONE]
  /\ then' = [then EXCEPT ![a] = "idle"]

Write(a) ==
  /\ pc[a] = "write"
  /\ file' = out[a] /\ durable' = out[a] /\ torn' = FALSE
  /\ IF then[a] \in {"idle", "answer"} THEN Finish(a) ELSE Continue(a)
  /\ lock' = IF then[a] = "verify" THEN lock ELSE NONE
  /\ CASE then[a] = "answer" -> Answer(a, out[a].session)
       [] then[a] = "idle" -> Refuse(a)
       [] OTHER -> UNCHANGED callerVars
  /\ UNCHANGED <<serverVars, hosts, lost>>

\* The actor is gone: its descriptor is closed and with it the flock.  When it
\* had a replacement token that was not stored yet, that token is lost.
Leave(a) ==
  /\ Finish(a)
  /\ lock' = IF lock = a THEN NONE ELSE lock
  /\ lost' = IF pc[a] \in {"truncate", "write"} /\ then[a] = "verify"
             THEN lost \cup {saved[a].session} ELSE lost
  /\ Refuse(a)

\* Stopping inside write_all leaves a prefix of the new contents.
Tear == file' \in {EMPTY, CORRUPT} /\ torn' = TRUE /\ UNCHANGED durable

\* set_len, write_all or sync_all fails; sync_all fails on complete contents.
StoreFails(a) ==
  /\ pc[a] \in {"truncate", "write"}
  /\ Leave(a)
  /\ \/ pc[a] = "truncate" /\ UNCHANGED fileVars
     \/ pc[a] = "write" /\ Tear
     \/ pc[a] = "write" /\ file' = out[a] /\ durable' = out[a] /\ torn' = FALSE
  /\ UNCHANGED <<serverVars, hosts>>

\* The process dies; for a login also: it is declined, interrupted by a signal,
\* or times out.
Crash(a) ==
  /\ pc[a] # "idle"
  /\ Leave(a)
  /\ IF pc[a] = "write" THEN Tear ELSE UNCHANGED fileVars
  /\ UNCHANGED <<serverVars, hosts>>

-----------------------------------------------------------------------------
(* The OAuth server                                                        *)

\* The next grant, as offer o.  A reply that names no scope keeps the scopes
\* of the grant it replaces.
NewGrant(o, previous) ==
  [status |-> "live", id |-> o.id, hold |-> o.hold, age |-> "fresh",
   sharing |-> IF o.scope = NONE THEN grant[previous].sharing ELSE o.scope]

\* A refresh token is good for one rotation: t is used up and replaced.
Rotate(t, o) ==
  /\ grant[t].status = "live" /\ issued < MaxGrants
  /\ issued' = issued + 1
  /\ grant' = [grant EXCEPT ![t].status = "consumed", ![issued + 1] = NewGrant(o, t)]

\* Time passes: a token nears its expiry and then passes it, or the server's
\* earliest_refresh_at comes.  Nothing looks at the age of a grant before it is
\* stored, or after it is replaced.
Tick(g) ==
  /\ durable # EMPTY /\ g \in {durable.session, durable.pending}
  /\ \/ grant[g].age = "fresh" /\ grant' = [grant EXCEPT ![g].age = "due"]
     \/ grant[g].age = "due" /\ grant' = [grant EXCEPT ![g].age = "expired"]
     \/ grant[g].hold /\ grant' = [grant EXCEPT ![g].hold = FALSE]
  /\ UNCHANGED <<fileVars, lock, pc, saved, storeVars, callerVars, issued, hosts, lost>>

-----------------------------------------------------------------------------
(* credentials, credentials_locked                                         *)

\* No refresh yet.  The relay never passes a rejected token for ChatGPT: its 401
\* is an answer to pass on, not a reason to refresh (send_authenticated).
Reuse(g) == grant[g].age = "fresh" \/ grant[g].hold

\* Take the flock, load, and decide.  A path that returns at once gives the
\* flock back in the same step.
RefreshLoad(r) ==
  /\ pc[r] = "idle" /\ lock = NONE
  /\ LET usable == Loaded /\ file.client # NONE
         recover == usable /\ file.pending # NONE
         current == usable /\ file.pending = NONE /\ file.session # NONE
     IN \/ /\ ~recover /\ (current => Reuse(file.session))
           /\ result' = [result EXCEPT ![r] =
                            IF current /\ Permitted(file.session) THEN file.session ELSE NONE]
           /\ waiting' = [waiting EXCEPT ![r] = FALSE]
           /\ UNCHANGED <<lock, pc, saved>>
        \/ /\ recover \/ (current /\ ~Reuse(file.session))
           /\ lock' = r
           /\ Goto(r, IF recover THEN "verify" ELSE "request")
           /\ saved' = [saved EXCEPT ![r] = file]
           /\ waiting' = [waiting EXCEPT ![r] = TRUE]
           /\ UNCHANGED result
  /\ UNCHANGED <<fileVars, storeVars, serverVars, hosts, lost>>

\* The future that awaits the blocking task is dropped; the task runs on.
CallerLeaves(r) ==
  /\ waiting[r]
  /\ waiting' = [waiting EXCEPT ![r] = FALSE]
  /\ UNCHANGED <<fileVars, lock, pc, saved, storeVars, result, serverVars, hosts, lost>>

\* Fault: the new tokens are verified before they are stored.
CheckpointLate(r) ==
  /\ pc[r] = "request"
  /\ \E o \in Offers : Rotate(saved[r].session, o)
  /\ saved' = [saved EXCEPT ![r].session = NONE, ![r].pending = issued']
  /\ Goto(r, "verify")
  /\ UNCHANGED <<fileVars, lock, storeVars, callerVars, hosts, lost>>

\* Fault: the checkpoint keeps the session it replaces.
CheckpointBoth(r) ==
  /\ pc[r] = "request"
  /\ \E o \in Offers : Rotate(saved[r].session, o)
  /\ Store(r, [saved[r] EXCEPT !.pending = issued'], "verify")
  /\ UNCHANGED <<fileVars, lock, saved, callerVars, hosts, lost>>

\* New tokens: checkpoint them before anything else can fail.
Checkpoint(r) ==
  /\ pc[r] = "request"
  /\ \E o \in Offers : Rotate(saved[r].session, o)
  /\ Store(r, [saved[r] EXCEPT !.session = NONE, !.pending = issued'], "verify")
  /\ UNCHANGED <<fileVars, lock, saved, callerVars, hosts, lost>>

\* Fault: the request is tried again after the session was cleared.
ReauthenticateRetrying(r) ==
  /\ pc[r] = "request"
  /\ Store(r, [saved[r] EXCEPT !.session = NONE], "request")
  /\ UNCHANGED <<fileVars, lock, saved, callerVars, serverVars, hosts, lost>>

\* invalid_grant and its kin: the session is over.
Reauthenticate(r) ==
  /\ pc[r] = "request"
  /\ LET t == saved[r].session IN
     grant' = [grant EXCEPT ![t].status = IF @ = "live" THEN "revoked" ELSE @]
  /\ Store(r, [saved[r] EXCEPT !.session = NONE], "idle")
  /\ UNCHANGED <<fileVars, lock, saved, callerVars, issued, hosts, lost>>

\* Fault: an early return that leaves the file locked.
RequestFailsLocked(r) ==
  /\ pc[r] = "request"
  /\ Finish(r) /\ Refuse(r)
  /\ UNCHANGED <<fileVars, lock, serverVars, hosts, lost>>

\* The request fails, times out, or its reply is unusable: `?` returns and the
\* server may have rotated the token all the same.
RequestFails(r) ==
  /\ pc[r] = "request"
  /\ Finish(r) /\ lock' = NONE /\ Refuse(r)
  /\ LET t == saved[r].session IN
     \/ UNCHANGED <<grant, lost>>
     \/ /\ grant[t].status = "live"
        /\ grant' = [grant EXCEPT ![t].status = "consumed"]
        /\ lost' = lost \cup {t}
  /\ UNCHANGED <<fileVars, issued, hosts>>

\* Fault: the signature is verified and the subject is not compared.
GenuineForAnyone(s) == grant[s.pending].id # INVALID

\* The checkpointed session has no ID token, or one for this subject.
Genuine(s) == grant[s.pending].id \in {NONE, s.subject}

Promote(r) ==
  /\ pc[r] = "verify" /\ Genuine(saved[r])
  /\ Store(r, [saved[r] EXCEPT !.session = saved[r].pending, !.pending = NONE], "answer")
  /\ UNCHANGED <<fileVars, lock, saved, callerVars, serverVars, hosts, lost>>

\* The keys cannot be fetched: leave the checkpoint for the next refresh.
KeysUnavailable(r) ==
  /\ pc[r] = "verify" /\ grant[saved[r].pending].id # NONE
  /\ Finish(r) /\ lock' = NONE /\ Refuse(r)
  /\ UNCHANGED <<fileVars, serverVars, hosts, lost>>

RejectIdentity(r) ==
  /\ pc[r] = "verify" /\ ~Genuine(saved[r])
  /\ Store(r, [saved[r] EXCEPT !.session = NONE, !.pending = NONE], "idle")
  /\ UNCHANGED <<fileVars, lock, saved, callerVars, serverVars, hosts, lost>>

-----------------------------------------------------------------------------
(* login_inner                                                             *)

\* Load the state, or create and store one with a new host ID.  A file that
\* does not load ends the login.
LoginStart(l) ==
  /\ pc[l] = "idle" /\ lock = NONE
  /\ \/ /\ Loaded
        /\ saved' = [saved EXCEPT ![l] = file]
        /\ Goto(l, "callback")
        /\ UNCHANGED <<lock, storeVars, hosts>>
     \/ /\ file = EMPTY /\ hosts < MaxHosts
        /\ hosts' = hosts + 1
        /\ lock' = l
        /\ Store(l, [Fresh EXCEPT !.host = hosts + 1], "callback")
        /\ UNCHANGED saved
  /\ UNCHANGED <<fileVars, callerVars, serverVars, lost>>

SameRegistration(s, t) == s.host = t.host /\ s.client = t.client /\ s.subject = t.subject

\* The browser comes back with the client ID (a registered client keeps its
\* own).  Store it, unless the registration changed in the meantime.
LoginRegister(l) ==
  /\ pc[l] = "callback" /\ lock = NONE
  /\ \/ /\ Loaded /\ SameRegistration(file, saved[l])
        /\ saved' = [saved EXCEPT ![l] = file]
        /\ lock' = l
        /\ \E c \in Clients :
             /\ saved[l].client \in {NONE, c}
             /\ Store(l, [file EXCEPT !.client = c], "exchange")
     \/ /\ ~(Loaded /\ SameRegistration(file, saved[l]))
        /\ Finish(l)
        /\ UNCHANGED lock
  /\ UNCHANGED <<fileVars, callerVars, serverVars, hosts, lost>>

\* Exchange the code, verify the ID token and its subject, check the scope:
\* nothing of it touches the file.  out is the state to commit.
LoginExchange(l) ==
  /\ pc[l] = "exchange"
  /\ \/ /\ issued < MaxGrants
        /\ \E o \in Offers :
             /\ o.id \in Subjects /\ o.scope # NONE
             /\ saved[l].subject \in {NONE, o.id}
             /\ issued' = issued + 1
             /\ grant' = [grant EXCEPT ![issued + 1] = NewGrant(o, NONE)]
             /\ out' = [out EXCEPT ![l] =
                  [saved[l] EXCEPT !.subject = o.id, !.pending = NONE,
                                   !.session = IF o.scope THEN issued + 1 ELSE NONE]]
        /\ Goto(l, "commit")
        /\ UNCHANGED <<saved, then>>
     \/ /\ Finish(l)
        /\ UNCHANGED serverVars
  /\ UNCHANGED <<fileVars, lock, callerVars, hosts, lost>>

\* Fault: the commit compares the registration only, as the first check does.
LoginCommitBlind(l) ==
  /\ pc[l] = "commit" /\ lock = NONE
  /\ Loaded /\ SameRegistration(file, saved[l])
  /\ lock' = l
  /\ Store(l, out[l], "idle")
  /\ UNCHANGED <<fileVars, saved, callerVars, serverVars, hosts, lost>>

\* Commit, unless the file is no longer what this login registered.
LoginCommit(l) ==
  /\ pc[l] = "commit" /\ lock = NONE
  /\ \/ /\ Loaded /\ file = saved[l]
        /\ lock' = l
        /\ Store(l, out[l], "idle")
        /\ UNCHANGED saved
     \/ /\ ~(Loaded /\ file = saved[l])
        /\ Finish(l)
        /\ UNCHANGED lock
  /\ UNCHANGED <<fileVars, callerVars, serverVars, hosts, lost>>

-----------------------------------------------------------------------------
(* logout                                                                  *)

Renewable(s) == IF s.pending # NONE THEN s.pending ELSE s.session

\* Fault: logout forgets the client registration with the tokens.
LoggedOutEntirely(s) == [s EXCEPT !.session = NONE, !.pending = NONE, !.client = NONE]

LoggedOut(s) == [s EXCEPT !.session = NONE, !.pending = NONE]

LogoutLoad(o) ==
  /\ pc[o] = "idle" /\ lock = NONE /\ Loaded
  /\ saved' = [saved EXCEPT ![o] = file]
  /\ lock' = o
  /\ IF Renewable(file) # NONE
     THEN Goto(o, "revoke") /\ UNCHANGED storeVars
     ELSE Store(o, LoggedOut(file), "idle")
  /\ UNCHANGED <<fileVars, callerVars, serverVars, hosts, lost>>

\* Ask the server to revoke, and clear the tokens whether it did or not.
LogoutRevoke(o) ==
  /\ pc[o] = "revoke"
  /\ \/ UNCHANGED grant
     \/ grant' = [grant EXCEPT ![Renewable(saved[o])].status = "revoked"]
  /\ Store(o, LoggedOut(saved[o]), "idle")
  /\ UNCHANGED <<fileVars, lock, saved, callerVars, issued, hosts, lost>>

-----------------------------------------------------------------------------
RefreshStep(r) ==
  \/ RefreshLoad(r) \/ CallerLeaves(r) \/ Checkpoint(r) \/ Reauthenticate(r)
  \/ RequestFails(r) \/ Promote(r) \/ KeysUnavailable(r) \/ RejectIdentity(r)

LoginStep(l) == LoginStart(l) \/ LoginRegister(l) \/ LoginExchange(l) \/ LoginCommit(l)

LogoutStep(o) == LogoutLoad(o) \/ LogoutRevoke(o)

StorageStep(a) == Truncate(a) \/ Write(a) \/ StoreFails(a) \/ Crash(a)

Next ==
  \/ \E r \in Refreshers : RefreshStep(r)
  \/ \E l \in Logins : LoginStep(l)
  \/ \E o \in Logouts : LogoutStep(o)
  \/ \E a \in Actors : StorageStep(a)
  \/ \E g \in Grants : Tick(g)

Spec == Init /\ [][Next]_vars

\* Every step of a lock holder ends: requests time out after 30 s and file
\* operations return.  No fairness for waiting on the flock, for the user who
\* signs in, for crashes or for failures.
HolderStep(a) ==
  \/ Truncate(a) \/ Write(a)
  \/ a \in Refreshers /\ (Checkpoint(a) \/ Reauthenticate(a) \/ RequestFails(a)
                           \/ Promote(a) \/ KeysUnavailable(a) \/ RejectIdentity(a))
  \/ a \in Logouts /\ LogoutRevoke(a)

FairSpec == Spec /\ \A a \in Actors : WF_vars(HolderStep(a))

-----------------------------------------------------------------------------
(* Properties                                                              *)

\* The type invariant.
TypeOK ==
  /\ file \in State \cup {EMPTY, CORRUPT} /\ durable \in State \cup {EMPTY}
  /\ lock \in Actors \cup {NONE}
  /\ pc \in [Actors -> PCs]
  /\ saved \in [Actors -> State \cup {NONE}]
  /\ out \in [Actors -> State \cup {NONE}]
  /\ then \in [Actors -> {"verify", "answer", "callback", "exchange", "idle"}]
  /\ waiting \in [Refreshers -> BOOLEAN]
  /\ result \in [Refreshers -> Grants \cup {NONE}]
  /\ grant \in [Grants -> Grant]
  /\ issued \in 0..MaxGrants /\ hosts \in 0..MaxHosts
  /\ torn \in BOOLEAN
  /\ lost \subseteq Grants

Stored == file \notin {EMPTY, CORRUPT}

Holds(g) == Stored /\ g \in {file.session, file.pending}

\* A refresh token the server has used up is not in the file once the flock is
\* free: whatever rotation the server confirmed was checkpointed before anything
\* else could end the refresh.  The exceptions are exactly the rotations whose
\* reply never arrived and the checkpoints whose store broke off.
\* credentials_locked stores pending_refresh before it fetches keys.
NoSpentToken ==
  lock = NONE => \A g \in Grants : Holds(g) /\ grant[g].status = "consumed" => g \in lost

\* What is in the file, a later load accepts (validate_chatgpt), and no more
\* than one renewable session is in it, so that logout, which revokes one,
\* leaves none behind; whatever logins, refreshes and logouts interleave.
OneValidSession ==
  Stored => Valid(file) /\ (file.session = NONE \/ file.pending = NONE)

\* The session in use never came with an ID token of someone else than the
\* registered subject: only a checked checkpoint is promoted, and a login of
\* another account cannot slip in under a refresh.
SessionIsSubjects ==
  Stored /\ file.session # NONE => grant[file.session].id \in {NONE, file.subject}

\* What a refresh hands to the relay is in the file as the current session, so
\* the next refresh finds its refresh token; it was granted for sharing and is
\* the registered subject's.  A checkpoint is unusable until it is promoted.
AnswersAreStored ==
  [][\A r \in Refreshers : result'[r] \notin {NONE, result[r]} =>
       LET g == result'[r] IN
       /\ file'.session = g
       /\ grant[g].sharing /\ grant[g].age # "expired"
       /\ grant[g].id \in {NONE, file'.subject}]_vars

\* A login's commit replaces only the session that was there when it registered:
\* a refresh or another login that finished in between wins, and its token is
\* not overwritten with the newcomer's (login_inner compares with `saved`).
LoginReplacesWhatItSaw ==
  [][\A l \in Logins :
       pc[l] = "write" /\ then[l] = "idle" /\ durable' # durable =>
         /\ durable.session = saved[l].session
         /\ durable.pending = saved[l].pending]_vars

\* The registration survives: while no store was interrupted, no operation
\* replaces the host ID, the client ID or the verified subject once stored.
\* Logout clears tokens, not the file.
Keeps(old, new) == old = NONE \/ new = old

RegistrationKept ==
  [][~torn /\ durable # EMPTY =>
       /\ durable'.host = durable.host
       /\ Keeps(durable.client, durable'.client)
       /\ Keeps(durable.subject, durable'.subject)]_vars

\* The same without the proviso, as the README states it: chatgpt.json retains
\* a stable host ID, and login refuses a damaged file rather than lose it.
HostIdStable == [][durable # EMPTY => durable'.host = durable.host]_vars

\* Whoever holds the flock lets go of it, whichever of the calls fails on the
\* way: no request waits for ever behind a refresh, a login or a logout.
LockReleased == \A a \in Actors : (lock = a) ~> (lock # a)
=============================================================================
