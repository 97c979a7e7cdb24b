------------------------ MODULE ChatgptGrantsProofs ------------------------
(***************************************************************************)
(* Which grants are in the credential file, and who may put them there:    *)
(* theorems about ChatgptCredentials on top of the invariant Inv, for any  *)
(* number of refreshes, logins and logouts and any offers of the server.   *)
(***************************************************************************)
EXTENDS ChatgptCredentialsProofs

\* The grants a state names.
Tokens(s) == {s.session, s.pending} \ {NONE}

Issued == 1..issued

\* Used up, and not because a reply or a checkpoint was lost.
Spent == {g \in Grants : grant[g].status = "consumed" /\ g \notin lost}

\* Somebody is about to replace the file's session g by its checkpointed successor.
Replacing(g) ==
  \E a \in Actors : pc[a] \in Storing /\ then[a] = "verify" /\ saved[a].session = g

\* The session in use is nobody else's.
Theirs(s) == s.session # NONE => grant[s.session].id \in {NONE, s.subject}

\* What is on its way to the file, and a login's new session before it is.
Writes(a) == pc[a] \in Storing \cup {"commit"}

FileGrants ==
  Stored =>
    /\ Tokens(file) \subseteq Issued
    /\ Theirs(file)
    /\ \A g \in Tokens(file) \cap Spent : Replacing(g)

OutGrants(a) ==
  Writes(a) =>
    /\ Tokens(out[a]) \subseteq Issued \ Spent
    /\ Theirs(out[a])

\* Nobody else knows the grant of a login before its commit.
Private(l) ==
  pc[l] = "commit" =>
    /\ Stored => Tokens(out[l]) \cap Tokens(file) = {}
    /\ \A a \in Actors \ {l} : Writes(a) => Tokens(out[l]) \cap Tokens(out[a]) = {}

GrantInv ==
  /\ FileGrants
  /\ \A a \in Actors : OutGrants(a) /\ Private(a)

-----------------------------------------------------------------------------
(* What was stored last                                                    *)

\* The registration of s goes on in t.
Continues(s, t) ==
  t.host = s.host /\ Keeps(s.client, t.client) /\ Keeps(s.subject, t.subject)

\* Contents that are there are those last written; without an interrupted store
\* they are there, except between a holder's truncation and its write.
DurableFile ==
  /\ Stored => file = durable /\ ~torn
  /\ ~torn /\ (\A a \in Actors : pc[a] # "write") => file = durable

\* What is stored, or committed, continues what was there.
DurableActor(a) ==
  /\ pc[a] \in Storing /\ ~torn /\ durable # EMPTY => Continues(durable, out[a])
  /\ pc[a] \in Storing /\ a \in Logins /\ then[a] = "idle" => saved[a] = durable
  /\ pc[a] = "commit" => Continues(saved[a], out[a])

DurableInv ==
  /\ DurableFile
  /\ \A a \in Actors : DurableActor(a)

-----------------------------------------------------------------------------
(* Who is left alone                                                       *)

\* A step of a changes nobody else's place and locals.
Frame(a) ==
  \A b \in Actors \ {a} :
    pc'[b] = pc[b] /\ saved'[b] = saved[b] /\ out'[b] = out[b] /\ then'[b] = then[b]

ActorStep(a) ==
  \/ a \in Refreshers /\ RefreshStep(a)
  \/ a \in Logins /\ LoginStep(a)
  \/ a \in Logouts /\ LogoutStep(a)
  \/ StorageStep(a)

LEMMA NextIsActors ==
  [Next]_vars => \/ \E a \in Actors : ActorStep(a)
                 \/ \E g \in Grants : Tick(g)
                 \/ UNCHANGED vars
BY DEF Next, ActorStep, Actors

LEMMA FinishFrame == ASSUME NEW a \in Actors, TypeOK, Finish(a) PROVE Frame(a)
BY DEF TypeOK, Finish, Goto, Frame

LEMMA StoreFrame ==
  ASSUME NEW a \in Actors, TypeOK, NEW s, NEW p, Store(a, s, p),
         \A b \in Actors \ {a} : saved'[b] = saved[b]
  PROVE  Frame(a) /\ pc'[a] = "truncate" /\ out'[a] = s /\ then'[a] = p
BY DEF TypeOK, Store, Goto, Frame

LEMMA Framed == ASSUME NEW a \in Actors, Inv, ActorStep(a) PROVE Frame(a)
<1> USE DEF Inv
<1>1. CASE StorageStep(a)
  <2>1. CASE Truncate(a)
    BY <2>1 DEF Truncate, TypeOK, Goto, Frame, storeVars
  <2>2. CASE Write(a)
    BY <2>2, FinishFrame DEF Write, Continue, TypeOK, Goto, Frame
  <2>3. CASE StoreFails(a) \/ Crash(a)
    BY <2>3, FinishFrame DEF StoreFails, Crash, Leave
  <2> QED
    BY <1>1, <2>1, <2>2, <2>3 DEF StorageStep
<1>2. CASE a \in Refreshers /\ RefreshStep(a)
  <2>1. CASE RefreshLoad(a)
    BY <2>1 DEF RefreshLoad, TypeOK, Goto, Frame, storeVars
  <2>2. CASE CallerLeaves(a)
    BY <2>2 DEF CallerLeaves, Frame, storeVars
  <2>3. CASE RequestFails(a) \/ KeysUnavailable(a)
    BY <2>3, FinishFrame DEF RequestFails, KeysUnavailable
  <2>4. CASE Checkpoint(a) \/ Reauthenticate(a) \/ Promote(a) \/ RejectIdentity(a)
    BY <2>4, StoreFrame DEF Checkpoint, Reauthenticate, Promote, RejectIdentity
  <2> QED
    BY <1>2, <2>1, <2>2, <2>3, <2>4 DEF RefreshStep
<1>3. CASE a \in Logins /\ LoginStep(a)
  <2>1. CASE LoginStart(a)
    BY <2>1, StoreFrame DEF LoginStart, TypeOK, Goto, Frame, storeVars
  <2>2. CASE LoginRegister(a)
    BY <2>2, StoreFrame, FinishFrame DEF LoginRegister, TypeOK
  <2>3. CASE LoginExchange(a)
    BY <2>3, FinishFrame DEF LoginExchange, TypeOK, Goto, Frame
  <2>4. CASE LoginCommit(a)
    BY <2>4, StoreFrame, FinishFrame DEF LoginCommit
  <2> QED
    BY <1>3, <2>1, <2>2, <2>3, <2>4 DEF LoginStep
<1>4. CASE a \in Logouts /\ LogoutStep(a)
  <2>1. CASE LogoutLoad(a)
    BY <2>1, StoreFrame DEF LogoutLoad, TypeOK, Goto, Frame, storeVars
  <2>2. CASE LogoutRevoke(a)
    BY <2>2, StoreFrame DEF LogoutRevoke
  <2> QED
    BY <1>4, <2>1, <2>2 DEF LogoutStep
<1> QED
  BY <1>1, <1>2, <1>3, <1>4 DEF ActorStep

\* A place in a store is its actor's alone.
LEMMA OneWriter ==
  ASSUME Inv, NEW a \in Actors, pc[a] \in Holding
  PROVE  \A b \in Actors \ {a} : pc[b] \notin Holding
BY DEF Inv, Exclusion

-----------------------------------------------------------------------------
(* What is stored continues what was                                       *)

LEMMA DurableInit == Init => DurableInv
BY DEF Init, DurableInv, DurableFile, DurableActor, Stored, Storing

\* A step that leaves the file alone and neither is in a store nor ends one.
LEMMA DurableQuiet ==
  ASSUME Inv, DurableInv, NEW a \in Actors, Frame(a), UNCHANGED fileVars,
         pc[a] \notin Storing, pc'[a] # "write", DurableActor(a)'
  PROVE  DurableInv'
<1>1. ASSUME NEW b \in Actors, b # a PROVE DurableActor(b)'
  BY <1>1 DEF Frame, DurableInv, DurableActor, fileVars
<1>2. DurableFile'
  BY DEF Frame, DurableInv, DurableFile, Stored, fileVars, Storing
<1> QED
  BY <1>1, <1>2 DEF DurableInv

\* A step after which its actor neither stores nor is about to commit.
LEMMA DurableAside ==
  ASSUME Inv, DurableInv, NEW a \in Actors, Frame(a), UNCHANGED fileVars,
         pc[a] \notin Storing, pc'[a] \notin Storing \cup {"commit"}
  PROVE  DurableInv'
BY DurableQuiet DEF DurableActor, Storing

\* Without an interrupted store, and with nobody in one, the file is what was stored last.
LEMMA FileIsDurable ==
  ASSUME Inv, DurableInv, lock = NONE \/ \E a \in Actors : lock = a /\ pc[a] # "write", ~torn
  PROVE  file = durable
BY ActorsDistinct DEF Inv, Exclusion, Holding, DurableInv, DurableFile

LEMMA HeldIsDurable ==
  ASSUME Inv, DurableInv, NEW a \in Actors, pc[a] \in {"request", "verify", "revoke"}
  PROVE  saved[a] \in State /\ saved[a] = durable /\ ~torn
<1>1. file = saved[a] /\ saved[a] \in State
  BY Saved
<1> QED
  BY <1>1, ContentsDistinct DEF DurableInv, DurableFile, Stored
\* A holder of the flock replaces the contents it has read.
LEMMA DurableStores ==
  ASSUME Inv, DurableInv, NEW a \in Refreshers \cup Logouts,
         pc[a] \in {"request", "verify", "revoke"},
         NEW s, NEW p, Store(a, s, p), Continues(saved[a], s),
         UNCHANGED <<fileVars, saved>>
  PROVE  DurableInv'
<1>1. a \in Actors /\ a \notin Logins
  BY ActorsDistinct DEF Actors
<1>2. saved[a] = durable
  BY <1>1, HeldIsDurable
<1>3. Frame(a) /\ pc'[a] = "truncate" /\ out'[a] = s
  BY <1>1, StoreFrame DEF Inv
<1>4. DurableActor(a)'
  BY <1>1, <1>2, <1>3 DEF DurableActor, fileVars, Continues
<1> QED
  BY <1>1, <1>3, <1>4, DurableQuiet DEF Storing

LEMMA DurableTruncate ==
  ASSUME Inv, DurableInv, NEW a \in Actors, Truncate(a) PROVE DurableInv'
<1>1. pc'[a] = "write"
  BY DEF Inv, TypeOK, Truncate, Goto
<1>2. DurableFile'
  BY <1>1 DEF Truncate, DurableFile, Stored
<1>3. ASSUME NEW b \in Actors PROVE DurableActor(b)'
  BY DEF Inv, TypeOK, Truncate, Goto, storeVars, DurableInv, DurableActor, Storing, Continues
<1> QED
  BY <1>2, <1>3 DEF DurableInv

\* A step that completes a store of a, or breaks it off.
LEMMA DurableStored ==
  ASSUME Inv, DurableInv, NEW a \in Actors, Frame(a), pc[a] \in Storing,
         pc'[a] \notin Storing \cup {"commit"},
         \/ file' = durable' /\ ~torn' /\ file' \notin {EMPTY, CORRUPT}
         \/ Tear
         \/ pc[a] = "truncate" /\ UNCHANGED fileVars
  PROVE  DurableInv'
<1>1. \A b \in Actors \ {a} : pc[b] \notin Storing /\ pc'[b] \notin Storing
  BY OneWriter DEF Holding, Storing, Frame
<1>2. ASSUME NEW b \in Actors PROVE DurableActor(b)'
  BY <1>1 DEF Frame, DurableInv, DurableActor, Storing, Continues
<1>3. DurableFile'
  <2>1. CASE pc[a] = "truncate" /\ UNCHANGED fileVars
    BY <1>1, <2>1 DEF DurableInv, DurableFile, Stored, Storing, fileVars
  <2>2. CASE Tear
    BY <2>2 DEF Tear, DurableFile, Stored
  <2> QED
    BY <2>1, <2>2 DEF DurableFile, Stored
<1> QED
  BY <1>2, <1>3 DEF DurableInv

LEMMA FinishPlace == ASSUME TypeOK, NEW a \in Actors, Finish(a) PROVE pc'[a] = "idle"
BY DEF TypeOK, Finish, Goto

LEMMA DurableStorage ==
  ASSUME Inv, DurableInv, NEW a \in Actors, Frame(a), StorageStep(a) PROVE DurableInv'
<1>1. pc[a] \in Storing => out[a] \notin {EMPTY, CORRUPT}
  BY ContentsDistinct DEF Inv, ActorSound, Sound
<1>2. CASE Write(a)
  <2>1. pc'[a] \notin Storing \cup {"commit"}
    BY <1>2, FinishPlace DEF Inv, TypeOK, Write, Continue, Goto, Storing
  <2> QED
    BY <1>1, <1>2, <2>1, DurableStored DEF Write, Storing
<1>3. CASE StoreFails(a)
  <2>1. pc'[a] = "idle"
    BY <1>3, FinishPlace DEF Inv, StoreFails, Leave
  <2> QED
    BY <1>1, <1>3, <2>1, DurableStored DEF StoreFails, Storing
<1>4. CASE Crash(a)
  <2>1. pc'[a] = "idle"
    BY <1>4, FinishPlace DEF Inv, Crash, Leave
  <2> QED
    BY <1>1, <1>4, <2>1, DurableStored, DurableAside DEF Crash, Storing
<1> QED
  BY <1>2, <1>3, <1>4, DurableTruncate DEF StorageStep

LEMMA DurableRefresh ==
  ASSUME Inv, DurableInv, NEW a \in Refreshers, Frame(a), RefreshStep(a) PROVE DurableInv'
<1>1. a \in Actors /\ a \notin Logins /\ TypeOK
  BY ActorsDistinct DEF Inv, Actors
<1>2. CASE RefreshLoad(a)
  <2>1. pc'[a] \notin Storing \cup {"commit"} /\ pc[a] \notin Storing
    BY <1>1, <1>2 DEF RefreshLoad, TypeOK, Goto, Storing
  <2> QED
    BY <1>1, <1>2, <2>1, DurableAside DEF RefreshLoad
<1>3. CASE CallerLeaves(a)
  BY <1>1, <1>3 DEF CallerLeaves, DurableInv, DurableFile, DurableActor, fileVars, storeVars,
                    Stored, Continues
<1>4. CASE RequestFails(a) \/ KeysUnavailable(a)
  BY <1>1, <1>4, FinishPlace, DurableAside DEF RequestFails, KeysUnavailable, Storing
<1>5. CASE Checkpoint(a) \/ Reauthenticate(a) \/ Promote(a) \/ RejectIdentity(a)
  <2>1. pc[a] \in {"request", "verify"} /\ saved[a] \in State
    BY <1>1, <1>5, HeldIsDurable DEF Checkpoint, Reauthenticate, Promote, RejectIdentity
  <2>2. \A x, y : Continues(saved[a], [saved[a] EXCEPT !.session = x, !.pending = y])
    BY <2>1 DEF State, Continues, Keeps
  <2>3. \A x : Continues(saved[a], [saved[a] EXCEPT !.session = x])
    BY <2>1 DEF State, Continues, Keeps
  <2> QED
    BY <1>5, <2>1, <2>2, <2>3, DurableStores
       DEF Checkpoint, Reauthenticate, Promote, RejectIdentity
<1> QED
  BY <1>2, <1>3, <1>4, <1>5 DEF RefreshStep

LEMMA DurableLogin ==
  ASSUME Inv, DurableInv, NEW a \in Logins, Frame(a), LoginStep(a) PROVE DurableInv'
<1>1. a \in Actors /\ TypeOK
  BY DEF Inv, Actors
<1>2. ASSUME NEW s, NEW p, Store(a, s, p), lock = NONE, UNCHANGED fileVars, pc[a] \notin Storing,
             Loaded => Continues(file, s), ~Loaded => file = EMPTY,
             p = "idle" => saved'[a] = file /\ Loaded
      PROVE  DurableInv'
  <2>1. pc'[a] = "truncate" /\ out'[a] = s /\ then'[a] = p
    BY <1>1, <1>2 DEF TypeOK, Store, Goto
  <2>2. Loaded => durable = file
    BY DEF Loaded, DurableInv, DurableFile, Stored
  <2>3. ~torn => durable = file
    BY <1>2, FileIsDurable
  <2>4. DurableActor(a)'
    BY <1>2, <2>1, <2>2, <2>3 DEF DurableActor, fileVars, Continues
  <2> QED
    BY <1>1, <1>2, <2>1, <2>4, DurableQuiet
<1>3. CASE LoginStart(a)
  <2>1. CASE Goto(a, "callback")
    BY <1>1, <1>3, <2>1, DurableAside DEF LoginStart, TypeOK, Goto, Storing
  <2>2. CASE file = EMPTY /\ Store(a, [Fresh EXCEPT !.host = hosts + 1], "callback")
    BY <1>2, <1>3, <2>2 DEF LoginStart, Loaded, Storing
  <2> QED
    BY <1>3, <2>1, <2>2 DEF LoginStart
<1>4. CASE LoginRegister(a)
  <2>1. CASE Finish(a)
    BY <1>1, <1>4, <2>1, FinishPlace, DurableAside DEF LoginRegister, Storing
  <2>2. ASSUME NEW c \in Clients, Loaded, SameRegistration(file, saved[a]),
               saved[a].client \in {NONE, c}, Store(a, [file EXCEPT !.client = c], "exchange")
        PROVE  DurableInv'
    <3>1. file \in State
      BY <2>2, FileLoaded
    <3>2. Continues(file, [file EXCEPT !.client = c])
      BY <2>2, <3>1 DEF State, Continues, Keeps, SameRegistration
    <3> QED
      BY <1>2, <1>4, <2>2, <3>2 DEF LoginRegister, Storing
  <2> QED
    BY <1>4, <2>1, <2>2 DEF LoginRegister
<1>5. CASE LoginExchange(a)
  <2>1. CASE Finish(a)
    BY <1>1, <1>5, <2>1, FinishPlace, DurableAside DEF LoginExchange, Storing
  <2>2. ASSUME NEW o \in Offers, saved[a].subject \in {NONE, o.id},
               out' = [out EXCEPT ![a] =
                  [saved[a] EXCEPT !.subject = o.id, !.pending = NONE,
                                   !.session = IF o.scope THEN issued + 1 ELSE NONE]],
               Goto(a, "commit"), UNCHANGED <<saved, then>>
        PROVE  DurableInv'
    <3>1. saved[a] \in State
      BY <1>1, <1>5 DEF Inv, ActorSound, Sound, LoginExchange
    <3>2. Continues(saved[a], out'[a])
      BY <1>1, <2>2, <3>1 DEF TypeOK, State, Continues, Keeps
    <3>3. pc'[a] = "commit"
      BY <1>1, <2>2 DEF TypeOK, Goto
    <3>4. DurableActor(a)'
      BY <2>2, <3>2, <3>3 DEF DurableActor, Storing, Continues
    <3> QED
      BY <1>1, <1>5, <3>3, <3>4, DurableQuiet DEF LoginExchange, Storing
  <2> QED
    BY <1>5, <2>1, <2>2 DEF LoginExchange
<1>6. CASE LoginCommit(a)
  <2>1. CASE Finish(a)
    BY <1>1, <1>6, <2>1, FinishPlace, DurableAside DEF LoginCommit, Storing
  <2>2. CASE Loaded /\ file = saved[a] /\ Store(a, out[a], "idle") /\ UNCHANGED saved
    <3>1. Continues(file, out[a])
      BY <1>1, <1>6, <2>2 DEF DurableInv, DurableActor, LoginCommit
    <3> QED
      BY <1>1, <1>2, <1>6, <2>2, <3>1 DEF LoginCommit, Storing
  <2> QED
    BY <1>6, <2>1, <2>2 DEF LoginCommit
<1> QED
  BY <1>3, <1>4, <1>5, <1>6 DEF LoginStep

LEMMA DurableLogout ==
  ASSUME Inv, DurableInv, NEW a \in Logouts, Frame(a), LogoutStep(a) PROVE DurableInv'
<1>1. a \in Actors /\ a \notin Logins /\ TypeOK
  BY ActorsDistinct DEF Inv, Actors
<1>2. \A s \in State : Continues(s, LoggedOut(s))
  BY DEF State, Continues, Keeps, LoggedOut
<1>3. CASE LogoutLoad(a)
  <2>1. CASE Goto(a, "revoke")
    BY <1>1, <1>3, <2>1, DurableAside DEF LogoutLoad, TypeOK, Goto, Storing
  <2>2. CASE Store(a, LoggedOut(file), "idle")
    <3>1. pc'[a] = "truncate" /\ out'[a] = LoggedOut(file)
      BY <1>1, <2>2 DEF TypeOK, Store, Goto
    <3>2. file = durable /\ Continues(file, out'[a])
      BY <1>2, <1>3, <3>1, FileLoaded DEF LogoutLoad, Loaded, DurableInv, DurableFile, Stored
    <3>3. DurableActor(a)'
      BY <1>1, <1>3, <3>1, <3>2 DEF LogoutLoad, DurableActor, fileVars, Continues
    <3> QED
      BY <1>1, <1>3, <3>1, <3>3, DurableQuiet DEF LogoutLoad, Storing
  <2> QED
    BY <1>3, <2>1, <2>2 DEF LogoutLoad
<1>4. CASE LogoutRevoke(a)
  BY <1>1, <1>2, <1>4, HeldIsDurable, DurableStores DEF LogoutRevoke
<1> QED
  BY <1>3, <1>4 DEF LogoutStep

LEMMA DurableNext == Inv /\ DurableInv /\ [Next]_vars => DurableInv'
<1> SUFFICES ASSUME Inv, DurableInv, [Next]_vars PROVE DurableInv'
  OBVIOUS
<1>1. ASSUME NEW a \in Actors, ActorStep(a) PROVE DurableInv'
  BY <1>1, Framed, DurableStorage, DurableRefresh, DurableLogin, DurableLogout DEF ActorStep
<1>2. CASE UNCHANGED vars \/ \E g \in Grants : Tick(g)
  BY <1>2 DEF vars, Tick, storeVars, fileVars, DurableInv, DurableFile, DurableActor, Stored,
              Continues
<1> QED
  BY <1>1, <1>2, NextIsActors

LEMMA DurableInvariance == Spec => [](Inv /\ DurableInv)
<1>1. Init => Inv /\ DurableInv
  BY InitInv, DurableInit
<1>2. (Inv /\ DurableInv) /\ [Next]_vars => (Inv /\ DurableInv)'
  BY InvInductive, DurableNext
<1> QED
  BY <1>1, <1>2, PTL DEF Spec
\* Only the end of a store changes what is durable.
LEMMA DurableChanges ==
  ASSUME Inv, [Next]_vars, durable' # durable
  PROVE  \E a \in Actors : pc[a] = "write" /\ durable' = out[a]
<1>1. PICK a \in Actors : ActorStep(a)
  BY NextIsActors DEF vars, Tick, fileVars
<1>2. CASE StorageStep(a)
  BY <1>2 DEF StorageStep, Truncate, Write, StoreFails, Crash, Tear, fileVars
<1>3. CASE RefreshStep(a) \/ LoginStep(a) \/ LogoutStep(a)
  BY <1>3 DEF RefreshStep, RefreshLoad, CallerLeaves, Checkpoint, Reauthenticate, RequestFails,
              Promote, KeysUnavailable, RejectIdentity, LoginStep, LoginStart, LoginRegister,
              LoginExchange, LoginCommit, LogoutStep, LogoutLoad, LogoutRevoke, fileVars
<1> QED
  BY <1>1, <1>2, <1>3 DEF ActorStep

\* Host ID, client ID and verified subject stay as long as no store was interrupted,
\* whatever logins, refreshes and logouts write over each other.
THEOREM RegistrationSurvives == Spec => RegistrationKept
<1>1. ASSUME Inv, DurableInv, [Next]_vars, ~torn, durable # EMPTY
      PROVE  /\ durable'.host = durable.host
             /\ Keeps(durable.client, durable'.client)
             /\ Keeps(durable.subject, durable'.subject)
  BY <1>1, DurableChanges DEF DurableInv, DurableActor, Continues, Storing, Keeps
<1> DEFINE Kept == ~torn /\ durable # EMPTY =>
                     /\ durable'.host = durable.host
                     /\ Keeps(durable.client, durable'.client)
                     /\ Keeps(durable.subject, durable'.subject)
<1>2. (Inv /\ DurableInv) /\ [Next]_vars => [Kept]_vars
  BY <1>1
<1> QED
  BY <1>2, DurableInvariance, PTL DEF Spec, RegistrationKept

\* A login's commit overwrites the session that its registration saw, and no other.
THEOREM LoginsReplaceWhatTheySaw == Spec => LoginReplacesWhatItSaw
<1> DEFINE Replaces(l) == pc[l] = "write" /\ then[l] = "idle" /\ durable' # durable =>
                            /\ durable.session = saved[l].session
                            /\ durable.pending = saved[l].pending
<1>1. ASSUME Inv, DurableInv, NEW l \in Logins PROVE Replaces(l)
  BY <1>1 DEF DurableInv, DurableActor, Storing, Actors
<1>2. (Inv /\ DurableInv) /\ [Next]_vars => [\A l \in Logins : Replaces(l)]_vars
  BY <1>1
<1> QED
  BY <1>2, DurableInvariance, PTL DEF Spec, LoginReplacesWhatItSaw
-----------------------------------------------------------------------------
(* The grants in the file                                                  *)

\* Issued grants keep what they prove, and none is spent that was not.
GrantsKept ==
  /\ issued <= issued'
  /\ \A g \in Issued : grant'[g].id = grant[g].id
  /\ Issued \cap Spent' \subseteq Spent

LEMMA GrantInit == Init => GrantInv
BY DEF Init, GrantInv, FileGrants, OutGrants, Private, Stored, Writes, Storing

LEMMA IssuedGrants ==
  ASSUME TypeOK
  PROVE  Issued \subseteq Grants /\ (issued <= issued' /\ issued' \in Nat => Issued \subseteq Issued')
BY BoundsAreNat DEF TypeOK, Issued, Grants

LEMMA TokensTyped == ASSUME NEW s \in State PROVE Tokens(s) \subseteq Grants
BY DEF Tokens, State

\* What is on its way to the file stays as good as it was.
LEMMA OutKept ==
  ASSUME Inv, GrantInv, Inv', GrantsKept, NEW b \in Actors, pc'[b] = pc[b], out'[b] = out[b]
  PROVE  OutGrants(b)'
<1>1. Issued \subseteq Issued' /\ issued' \in Nat
  BY IssuedGrants DEF Inv, TypeOK, GrantsKept
<1>2. SUFFICES ASSUME Writes(b) PROVE Tokens(out[b]) \subseteq Issued' \ Spent' /\ Theirs(out[b])'
  BY DEF OutGrants, Writes, Tokens, Theirs
<1>3. Tokens(out[b]) \subseteq Issued \ Spent /\ Theirs(out[b])
  BY <1>2 DEF GrantInv, OutGrants
<1>4. out[b].session # NONE => out[b].session \in Issued
  BY <1>3 DEF Tokens
<1> QED
  BY <1>1, <1>3, <1>4 DEF GrantsKept, Theirs

\* A step that leaves the file alone, of an actor that was not storing.
LEMMA GrantQuiet ==
  ASSUME Inv, GrantInv, Inv', GrantsKept, NEW a \in Actors, Frame(a), UNCHANGED file,
         pc[a] \notin Storing, OutGrants(a)', Private(a)',
         \A l \in Actors \ {a} : pc[l] = "commit" /\ Writes(a)' =>
            Tokens(out[l]) \cap Tokens(out'[a]) = {}
  PROVE  GrantInv'
<1>1. Issued \subseteq Issued' /\ issued' \in Nat
  BY IssuedGrants DEF Inv, TypeOK, GrantsKept
<1>2. FileGrants'
  <2> SUFFICES ASSUME Stored
               PROVE  /\ Tokens(file) \subseteq Issued' /\ Theirs(file)'
                      /\ \A g \in Tokens(file) \cap Spent' : Replacing(g)'
    BY DEF FileGrants, Stored, Tokens, Theirs
  <2>1. /\ Tokens(file) \subseteq Issued /\ Theirs(file)
        /\ \A g \in Tokens(file) \cap Spent : Replacing(g)
    BY DEF GrantInv, FileGrants
  <2>2. file.session # NONE => file.session \in Issued
    BY <2>1 DEF Tokens
  <2>3. Theirs(file)'
    BY <2>1, <2>2 DEF Theirs, GrantsKept
  <2>4. ASSUME NEW g \in Tokens(file) \cap Spent' PROVE Replacing(g)'
    <3>1. Replacing(g)
      BY <2>1 DEF GrantsKept
    <3> QED
      BY <3>1 DEF Replacing, Frame
  <2> QED
    BY <1>1, <2>1, <2>3, <2>4
<1>3. ASSUME NEW b \in Actors PROVE OutGrants(b)'
  BY OutKept DEF Frame
<1>4. ASSUME NEW l \in Actors PROVE Private(l)'
  <2>1. CASE l = a
    BY <2>1
  <2>2. CASE l # a
    BY <2>2 DEF Frame, GrantInv, Private, Writes, Stored, Tokens
  <2> QED
    BY <2>1, <2>2
<1> QED
  BY <1>2, <1>3, <1>4 DEF GrantInv

\* A step after which its actor neither stores nor is about to commit.
LEMMA GrantAside ==
  ASSUME Inv, GrantInv, Inv', GrantsKept, NEW a \in Actors, Frame(a), UNCHANGED file,
         pc[a] \notin Storing, pc'[a] \notin Storing \cup {"commit"}
  PROVE  GrantInv'
BY GrantQuiet DEF OutGrants, Private, Writes

\* The flock's holder begins to store tokens that it found in the file.
LEMMA GrantStores ==
  ASSUME Inv, GrantInv, Inv', GrantsKept, NEW a \in Actors, Frame(a), UNCHANGED file,
         pc[a] \notin Storing, pc'[a] = "truncate", Stored, lock \in {a, NONE},
         Tokens(out'[a]) \subseteq Tokens(file), Theirs(out'[a])
  PROVE  GrantInv'
<1>1. \A g \in Grants : ~Replacing(g)
  BY ActorsDistinct DEF Inv, Exclusion, Holding, Storing, Replacing
<1>2. Tokens(file) \subseteq Issued \ Spent
  <2>1. Tokens(file) \subseteq Issued
    BY DEF GrantInv, FileGrants
  <2> QED
    BY <1>1, <2>1 DEF GrantInv, FileGrants, Spent
<1>3. OutGrants(a)'
  <2>1. Issued \subseteq Issued'
    BY IssuedGrants DEF Inv, TypeOK, GrantsKept
  <2>2. out'[a].session # NONE => out'[a].session \in Issued
    BY <1>2 DEF Tokens
  <2>3. Theirs(out[a])'
    BY <2>2 DEF Theirs, GrantsKept
  <2>4. Tokens(out'[a]) \subseteq Issued' \ Spent'
    BY <1>2, <2>1 DEF GrantsKept
  <2> QED
    BY <2>3, <2>4 DEF OutGrants, Tokens, Theirs
<1>4. Private(a)'
  BY DEF Private
<1>5. ASSUME NEW l \in Actors, pc[l] = "commit" PROVE Tokens(out[l]) \cap Tokens(out'[a]) = {}
  BY <1>5 DEF GrantInv, Private
<1> QED
  BY <1>3, <1>4, <1>5, GrantQuiet
\* What may happen to grants without disturbing what the invariant says of them.
LEMMA GrantsSame == ASSUME TypeOK, UNCHANGED serverVars, lost \subseteq lost' PROVE GrantsKept
BY DEF TypeOK, GrantsKept, serverVars, Spent

LEMMA GrantsRevoked ==
  ASSUME TypeOK, NEW t \in Grants, NEW x \in {"live", "consumed", "revoked", "unissued"},
         grant' = [grant EXCEPT ![t].status = x],
         x = "consumed" => t \in lost' \/ grant[t].status = "consumed",
         issued' = issued, lost \subseteq lost'
  PROVE  GrantsKept
<1>1. \A g \in Grants : /\ grant'[g].id = grant[g].id
                       /\ grant'[g].status = IF g = t THEN x ELSE grant[g].status
  BY DEF TypeOK, Grant
<1> QED
  BY <1>1, IssuedGrants DEF TypeOK, GrantsKept, Spent

LEMMA GrantsIssued ==
  ASSUME TypeOK, NEW n, grant' = [grant EXCEPT ![issued + 1] = n],
         issued' = issued + 1, lost \subseteq lost'
  PROVE  GrantsKept
<1>1. \A g \in Issued : g # issued + 1 /\ g \in Grants
  BY IssuedGrants DEF TypeOK, Issued
<1> QED
  BY <1>1 DEF TypeOK, GrantsKept, Spent

LEMMA GrantStorage ==
  ASSUME Inv, GrantInv, Inv', NEW a \in Actors, Frame(a), StorageStep(a) PROVE GrantInv'
<1>1. GrantsKept /\ Issued \subseteq Issued' /\ \A g \in Grants : g \in Spent' => g \in Spent
  BY GrantsSame, IssuedGrants DEF Inv, TypeOK, StorageStep, Truncate, Write, StoreFails, Crash,
     Leave, serverVars, Spent
<1>g. UNCHANGED serverVars
  BY DEF StorageStep, Truncate, Write, StoreFails, Crash
<1>2. ASSUME pc[a] \in Storing, pc'[a] \notin Storing \cup {"commit"},
             ~Stored' \/ file' = out[a]
      PROVE  GrantInv'
  <2>1. \A b \in Actors : Writes(b)' => b # a /\ Writes(b) /\ out'[b] = out[b] /\ pc'[b] = pc[b]
    BY <1>2 DEF Frame, Writes
  <2>2. ASSUME NEW b \in Actors PROVE OutGrants(b)'
    BY <1>1, <2>1, OutKept DEF OutGrants, Writes
  <2>3. ASSUME NEW l \in Actors PROVE Private(l)'
    <3> SUFFICES ASSUME pc'[l] = "commit"
                 PROVE  /\ Stored' => Tokens(out'[l]) \cap Tokens(file') = {}
                        /\ \A b \in Actors \ {l} : Writes(b)' => Tokens(out'[l]) \cap Tokens(out'[b]) = {}
      BY DEF Private, Tokens
    <3>1. l # a /\ pc[l] = "commit" /\ out'[l] = out[l]
      BY <1>2, <2>1 DEF Writes
    <3>2. \A b \in Actors \ {l} : Writes(b) => Tokens(out[l]) \cap Tokens(out[b]) = {}
      BY <3>1 DEF GrantInv, Private
    <3> QED
      BY <1>2, <2>1, <3>1, <3>2 DEF Writes
  <2>4. FileGrants'
    <3> SUFFICES ASSUME Stored', file' = out[a] PROVE FileGrants'
      BY <1>2 DEF FileGrants, Stored
    <3>1. Tokens(out[a]) \subseteq Issued \ Spent /\ Theirs(out[a])
      BY <1>2 DEF GrantInv, OutGrants, Writes
    <3>2. Theirs(file)'
      BY <1>g, <3>1 DEF Theirs, serverVars
    <3>3. Tokens(file)' \subseteq Issued' /\ Tokens(file)' \cap Spent' = {}
      BY <1>1, <3>1 DEF GrantsKept, Tokens
    <3> QED
      BY <3>2, <3>3 DEF FileGrants
  <2> QED
    BY <2>2, <2>3, <2>4 DEF GrantInv
<1>3. ASSUME Leave(a), UNCHANGED file, pc[a] # "idle" PROVE GrantInv'
  <2>1. pc'[a] = "idle"
    BY <1>3, FinishPlace DEF Inv, Leave
  <2>2. CASE pc[a] \notin Storing
    BY <1>1, <1>3, <2>1, <2>2, GrantAside DEF Storing
  <2>3. CASE pc[a] \in Storing
    <3>1. \A b \in Actors \ {a} : pc[b] \notin Storing
      BY <2>3, OneWriter DEF Holding, Storing
    <3>2. \A g \in Grants : Replacing(g) => g \in lost'
      BY <1>3, <3>1 DEF Replacing, Leave, Storing
    <3>3. FileGrants'
      <4>1. Stored => /\ Tokens(file) \subseteq Issued /\ Theirs(file)
                      /\ \A g \in Tokens(file) \cap Spent : g \in lost'
        BY <3>2, IssuedGrants DEF GrantInv, FileGrants, Inv
      <4>2. Stored => Theirs(file)'
        BY <1>3, <1>g, <4>1 DEF Theirs, serverVars
      <4>3. Stored => Tokens(file)' \subseteq Issued' /\ Tokens(file)' \cap Spent' = {}
        BY <1>1, <1>3, <4>1 DEF Tokens, Spent
      <4> QED
        BY <1>3, <4>2, <4>3 DEF FileGrants, Stored
    <3>4. ASSUME NEW b \in Actors PROVE OutGrants(b)'
      BY <1>1, <2>1, OutKept DEF Frame, OutGrants, Writes, Storing
    <3>5. ASSUME NEW l \in Actors PROVE Private(l)'
      BY <1>3, <2>1 DEF Frame, GrantInv, Private, Writes, Storing, Stored, Tokens
    <3> QED
      BY <3>3, <3>4, <3>5 DEF GrantInv
  <2> QED
    BY <2>2, <2>3
<1>4. CASE Truncate(a)
  <2>1. /\ pc' = [pc EXCEPT ![a] = "write"] /\ pc[a] = "truncate"
        /\ UNCHANGED <<out, saved, then, grant, issued, lost>> /\ ~Stored'
    BY <1>4 DEF Truncate, Goto, storeVars, serverVars, Stored
  <2>2. ASSUME NEW b \in Actors PROVE Writes(b)' => Writes(b)
    BY <2>1 DEF Inv, TypeOK, Writes, Storing
  <2>3. ASSUME NEW b \in Actors PROVE OutGrants(b)'
    BY <2>1, <2>2 DEF GrantInv, OutGrants, Tokens, Theirs, Issued, Spent
  <2>4. ASSUME NEW l \in Actors PROVE Private(l)'
    BY <2>1, <2>2 DEF Inv, TypeOK, GrantInv, Private, Tokens
  <2> QED
    BY <2>1, <2>3, <2>4 DEF GrantInv, FileGrants
<1>5. CASE Write(a)
  <2>1. pc'[a] \notin Storing \cup {"commit"}
    BY <1>5, FinishPlace DEF Inv, TypeOK, Write, Continue, Goto, Storing
  <2> QED
    BY <1>2, <1>5, <2>1 DEF Write, Storing
<1>6. CASE StoreFails(a) \/ Crash(a)
  <2>1. pc'[a] = "idle"
    BY <1>6, FinishPlace DEF Inv, StoreFails, Crash, Leave
  <2> QED
    BY <1>2, <1>3, <1>6, <2>1 DEF StoreFails, Crash, Tear, fileVars, Storing, Stored
<1> QED
  BY <1>4, <1>5, <1>6 DEF StorageStep
\* The session that is used up is the file's, its holder is about to replace it, and
\* no login has it.
LEMMA GrantCheckpoint ==
  ASSUME Inv, GrantInv, Inv', NEW a \in Refreshers, Frame(a), Checkpoint(a) PROVE GrantInv'
<1> DEFINE t == saved[a].session
           n == issued + 1
           s == [saved[a] EXCEPT !.session = NONE, !.pending = n]
<1>1. /\ a \in Actors /\ pc[a] = "request" /\ t \in Grants /\ saved[a] \in State
      /\ file = saved[a] /\ lock = a /\ saved[a].pending = NONE
  BY Saved DEF Actors, Checkpoint, Inv, ActorSound, State
<1>2. PICK o \in Offers : Rotate(t, o)
  BY DEF Checkpoint
<1>3. /\ issued' = n /\ n \in Grants /\ n \notin Issued /\ Issued' = Issued \cup {n}
      /\ Issued \subseteq Grants
  BY <1>2, BoundsAreNat DEF Inv, TypeOK, Rotate, Issued, Grants
<1>4. /\ grant' = [[grant EXCEPT ![t].status = "consumed"] EXCEPT ![n] = NewGrant(o, t)]
      /\ UNCHANGED <<fileVars, lock, saved, lost>>
  BY <1>2 DEF Rotate, Checkpoint
<1>5. /\ \A g \in Issued : grant'[g].id = grant[g].id
      /\ \A g \in Issued \ {t} : grant'[g].status = grant[g].status
      /\ grant'[n].status = "live"
  BY <1>1, <1>3, <1>4 DEF Inv, TypeOK, Grant, NewGrant
<1>6. Spent' \cap Issued \subseteq Spent \cup {t} /\ n \notin Spent'
  BY <1>4, <1>5 DEF Spent
<1>7. pc'[a] = "truncate" /\ out'[a] = s /\ then'[a] = "verify"
  BY <1>1, <1>3, StoreFrame DEF Inv, Checkpoint
<1>8. Replacing(t)' /\ Stored /\ \A g \in Grants : ~Replacing(g)
  BY <1>1, <1>4, <1>7, ContentsDistinct, OneWriter
     DEF Replacing, Storing, Holding, Stored
<1>9. /\ Tokens(file) \subseteq Issued /\ Theirs(file) /\ t \in Tokens(file)
      /\ \A g \in Tokens(file) : g \notin Spent
  BY <1>1, <1>3, <1>8 DEF GrantInv, FileGrants, Tokens, Inv, ActorSound
<1>10. FileGrants'
  <2>1. Theirs(file)'
    BY <1>4, <1>5, <1>9 DEF Theirs, fileVars, Tokens
  <2>2. \A g \in Tokens(file) \cap Spent' : g = t
    BY <1>6, <1>9
  <2> QED
    BY <1>3, <1>4, <1>8, <1>9, <2>1, <2>2 DEF FileGrants, fileVars, Tokens
<1>11. Tokens(out'[a]) = {n}
  BY <1>1, <1>3, <1>7, OffersTyped DEF Tokens, State
<1>12. ASSUME NEW b \in Actors PROVE OutGrants(b)'
  <2>1. CASE b = a
    BY <1>1, <1>3, <1>6, <1>7, <1>11, <2>1 DEF OutGrants, Theirs, Tokens, State
  <2>2. CASE b # a
    <3> SUFFICES ASSUME Writes(b) PROVE OutGrants(b)'
      BY <2>2 DEF OutGrants, Writes, Frame
    <3>1. Tokens(out[b]) \subseteq Issued \ Spent /\ Theirs(out[b]) /\ out'[b] = out[b]
      BY <2>2 DEF GrantInv, OutGrants, Frame
    <3>2. t \notin Tokens(out[b])
      BY <1>1, <1>8, <1>9, <2>2, OneWriter DEF Writes, Holding, Storing, GrantInv, Private
    <3>3. Theirs(out[b])'
      BY <1>5, <3>1 DEF Theirs, Tokens
    <3> QED
      BY <1>3, <1>6, <3>1, <3>2, <3>3 DEF OutGrants, Tokens
  <2> QED
    BY <2>1, <2>2
<1>13. ASSUME NEW l \in Actors PROVE Private(l)'
  <2>1. pc'[l] = "commit" => /\ l # a /\ pc[l] = "commit" /\ out'[l] = out[l]
                            /\ n \notin Tokens(out[l])
    BY <1>3, <1>7 DEF Frame, GrantInv, OutGrants, Writes
  <2>2. pc'[l] = "commit" => \A b \in Actors \ {l} : Writes(b)' =>
                               Tokens(out'[l]) \cap Tokens(out'[b]) = {}
    BY <1>11, <2>1 DEF Frame, GrantInv, Private, Writes
  <2>3. pc'[l] = "commit" => Tokens(out'[l]) \cap Tokens(file') = {}
    BY <1>4, <1>8, <2>1 DEF GrantInv, Private, fileVars
  <2> QED
    BY <2>2, <2>3 DEF Private, Tokens
<1> QED
  BY <1>10, <1>12, <1>13 DEF GrantInv

LEMMA GrantRefresh ==
  ASSUME Inv, GrantInv, Inv', NEW a \in Refreshers, Frame(a), RefreshStep(a) PROVE GrantInv'
<1>1. a \in Actors /\ TypeOK
  BY DEF Inv, Actors
<1>2. CASE RefreshLoad(a)
  <2>1. pc'[a] \notin Storing \cup {"commit"} /\ pc[a] \notin Storing
    BY <1>1, <1>2 DEF RefreshLoad, TypeOK, Goto, Storing
  <2> QED
    BY <1>1, <1>2, <2>1, GrantsSame, GrantAside DEF RefreshLoad, fileVars
<1>3. CASE CallerLeaves(a)
  <2>1. UNCHANGED <<file, pc, saved, out, then, grant, issued, lost>>
    BY <1>3 DEF CallerLeaves, fileVars, storeVars, serverVars
  <2> QED
    BY <2>1 DEF GrantInv, FileGrants, OutGrants, Private, Tokens, Theirs, Issued, Spent, Replacing,
       Writes, Stored
<1>4. CASE KeysUnavailable(a)
  BY <1>1, <1>4, FinishPlace, GrantsSame, GrantAside DEF KeysUnavailable, Storing, fileVars
<1>5. CASE RequestFails(a)
  <2>1. pc[a] = "request" /\ saved[a].session \in Grants
    BY <1>1, <1>5, Saved DEF RequestFails, Inv, ActorSound, State
  <2>2. GrantsKept
    BY <1>1, <1>5, <2>1, GrantsRevoked, GrantsSame DEF RequestFails, serverVars
  <2> QED
    BY <1>1, <1>5, <2>1, <2>2, FinishPlace, GrantAside DEF RequestFails, Storing, fileVars
<1>6. ASSUME pc[a] \in {"request", "verify"}, GrantsKept, NEW s, NEW p, Store(a, s, p),
             UNCHANGED <<fileVars, saved>>,
             Tokens(s) \subseteq Tokens(saved[a]), Theirs(s)
      PROVE  GrantInv'
  <2>1. Stored /\ file = saved[a] /\ lock = a
    BY <1>1, <1>6, Saved, ContentsDistinct DEF Stored
  <2>2. pc'[a] = "truncate" /\ out'[a] = s
    BY <1>1, <1>6, StoreFrame
  <2> QED
    BY <1>1, <1>6, <2>1, <2>2, GrantStores DEF Storing, fileVars
<1>7. CASE Reauthenticate(a)
  <2>1. pc[a] = "request" /\ saved[a].session \in Grants /\ saved[a] \in State
    BY <1>1, <1>7, Saved DEF Reauthenticate, Inv, ActorSound, State
  <2>2. grant[saved[a].session].status \in {"live", "consumed", "revoked", "unissued"}
    BY <1>1, <2>1 DEF TypeOK, Grant
  <2>3. GrantsKept
    BY <1>1, <1>7, <2>1, <2>2, GrantsRevoked DEF Reauthenticate
  <2>4. LET s == [saved[a] EXCEPT !.session = NONE]
        IN Tokens(s) \subseteq Tokens(saved[a]) /\ Theirs(s)
    BY <2>1 DEF Tokens, Theirs, State
  <2> QED
    BY <1>6, <1>7, <2>1, <2>3, <2>4 DEF Reauthenticate
<1>8. CASE Promote(a)
  <2>1. pc[a] = "verify" /\ saved[a].pending # NONE /\ saved[a] \in State
    BY <1>1, <1>8, Saved DEF Promote, Inv, ActorSound
  <2>2. LET s == [saved[a] EXCEPT !.session = saved[a].pending, !.pending = NONE]
        IN Tokens(s) \subseteq Tokens(saved[a]) /\ Theirs(s)
    BY <1>8, <2>1 DEF Promote, Genuine, Tokens, Theirs, State
  <2> QED
    BY <1>1, <1>6, <1>8, <2>1, <2>2, GrantsSame DEF Promote
<1>9. CASE RejectIdentity(a)
  <2>1. pc[a] = "verify" /\ saved[a] \in State
    BY <1>1, <1>9, Saved DEF RejectIdentity
  <2>2. LET s == [saved[a] EXCEPT !.session = NONE, !.pending = NONE]
        IN Tokens(s) \subseteq Tokens(saved[a]) /\ Theirs(s)
    BY <2>1 DEF Tokens, Theirs, State
  <2> QED
    BY <1>1, <1>6, <1>9, <2>1, <2>2, GrantsSame DEF RejectIdentity
<1> QED
  BY <1>2, <1>3, <1>4, <1>5, <1>7, <1>8, <1>9, GrantCheckpoint DEF RefreshStep

LEMMA GrantLogin ==
  ASSUME Inv, GrantInv, Inv', NEW a \in Logins, Frame(a), LoginStep(a) PROVE GrantInv'
<1>1. a \in Actors /\ TypeOK
  BY DEF Inv, Actors
<1>2. ASSUME Finish(a), GrantsKept, UNCHANGED file, pc[a] \notin Storing PROVE GrantInv'
  BY <1>1, <1>2, FinishPlace, GrantAside DEF Storing
<1>3. CASE LoginStart(a)
  <2>1. GrantsKept /\ UNCHANGED file /\ pc[a] \notin Storing
    BY <1>1, <1>3, GrantsSame DEF LoginStart, fileVars, Storing
  <2>2. CASE Goto(a, "callback")
    BY <1>1, <2>1, <2>2, GrantAside DEF TypeOK, Goto, Storing
  <2>3. CASE Store(a, [Fresh EXCEPT !.host = hosts + 1], "callback")
    <3>1. pc'[a] = "truncate" /\ out'[a] = [Fresh EXCEPT !.host = hosts + 1]
      BY <1>1, <2>3 DEF TypeOK, Store, Goto
    <3>2. Tokens(out'[a]) = {} /\ Theirs(out[a])'
      BY <3>1 DEF Fresh, Tokens, Theirs
    <3> QED
      BY <1>1, <2>1, <3>1, <3>2, GrantQuiet DEF OutGrants, Private, Tokens
  <2> QED
    BY <1>3, <2>2, <2>3 DEF LoginStart
<1>4. CASE LoginRegister(a)
  <2>1. GrantsKept /\ UNCHANGED file /\ pc[a] \notin Storing /\ lock = NONE
    BY <1>1, <1>4, GrantsSame DEF LoginRegister, fileVars, Storing
  <2>2. ASSUME NEW c \in Clients, Loaded, Store(a, [file EXCEPT !.client = c], "exchange")
        PROVE  GrantInv'
    <3>1. file \in State /\ Stored
      BY <2>2, FileLoaded DEF Loaded, Stored
    <3>2. pc'[a] = "truncate" /\ out'[a] = [file EXCEPT !.client = c]
      BY <1>1, <2>2 DEF TypeOK, Store, Goto
    <3>3. Tokens(out'[a]) \subseteq Tokens(file) /\ Theirs(out'[a])
      BY <3>1, <3>2 DEF Tokens, Theirs, State, GrantInv, FileGrants
    <3> QED
      BY <1>1, <2>1, <3>1, <3>2, <3>3, GrantStores
  <2> QED
    BY <1>2, <1>4, <2>1, <2>2 DEF LoginRegister
<1>5. CASE LoginExchange(a)
  <2>1. UNCHANGED file /\ pc[a] \notin Storing
    BY <1>5 DEF LoginExchange, fileVars, Storing
  <2>2. CASE Finish(a) /\ UNCHANGED serverVars
    BY <1>1, <1>2, <1>5, <2>1, <2>2, GrantsSame DEF LoginExchange
  <2>3. ASSUME NEW o \in Offers, issued' = issued + 1, o.id \in Subjects,
               grant' = [grant EXCEPT ![issued + 1] = NewGrant(o, NONE)], issued < MaxGrants,
               out' = [out EXCEPT ![a] =
                  [saved[a] EXCEPT !.subject = o.id, !.pending = NONE,
                                   !.session = IF o.scope THEN issued + 1 ELSE NONE]],
               Goto(a, "commit")
        PROVE  GrantInv'
    <3> DEFINE n == issued + 1
    <3>1. GrantsKept
      BY <1>1, <1>5, <2>3, GrantsIssued DEF LoginExchange
    <3>2. saved[a] \in State
      BY <1>1, <1>5 DEF Inv, ActorSound, Sound, LoginExchange
    <3>3. pc'[a] = "commit" /\ Tokens(out'[a]) \subseteq {n} /\ out'[a].subject = o.id
      BY <1>1, <2>3, <3>2 DEF TypeOK, Goto, Tokens, State
    <3>4. n \in Grants /\ n \in Issued' /\ n \notin Issued
      BY <1>1, <2>3, BoundsAreNat DEF TypeOK, Issued, Grants
    <3>5. grant'[n].id = o.id /\ grant'[n].status = "live"
      BY <1>1, <2>3, <3>4 DEF TypeOK, NewGrant
    <3>6. OutGrants(a)'
      <4>1. Tokens(out'[a]) \subseteq Issued' \ Spent'
        BY <3>3, <3>4, <3>5 DEF Spent
      <4>2. Theirs(out[a])'
        BY <3>3, <3>5 DEF Theirs, Tokens
      <4> QED
        BY <4>1, <4>2 DEF OutGrants, Tokens
    <3>7. Stored => n \notin Tokens(file)
      BY <3>4 DEF GrantInv, FileGrants
    <3>8. \A b \in Actors \ {a} : Writes(b) => n \notin Tokens(out[b])
      BY <3>4 DEF GrantInv, OutGrants
    <3>9. Private(a)'
      BY <2>1, <3>3, <3>7, <3>8 DEF Private, Frame, Writes, Stored, Tokens
    <3> QED
      BY <1>1, <2>1, <3>1, <3>3, <3>6, <3>8, <3>9, GrantQuiet DEF Writes
  <2> QED
    BY <1>5, <2>2, <2>3 DEF LoginExchange
<1>6. CASE LoginCommit(a)
  <2>1. GrantsKept /\ UNCHANGED <<file, serverVars, lost>> /\ pc[a] = "commit"
    BY <1>1, <1>6, GrantsSame DEF LoginCommit, fileVars
  <2>2. CASE Store(a, out[a], "idle")
    <3>1. pc'[a] = "truncate" /\ out'[a] = out[a]
      BY <1>1, <2>2 DEF TypeOK, Store, Goto
    <3>2. OutGrants(a)'
      BY <1>1, <2>1, <3>1 DEF GrantInv, OutGrants, Writes, Tokens, Theirs, Issued, Spent, serverVars
    <3>3. ASSUME NEW l \in Actors \ {a}, pc[l] = "commit"
          PROVE  Tokens(out[l]) \cap Tokens(out'[a]) = {}
      BY <1>1, <2>1, <3>1, <3>3 DEF GrantInv, Private, Writes
    <3> QED
      BY <1>1, <2>1, <3>1, <3>2, <3>3, GrantQuiet DEF Storing, Private
  <2> QED
    BY <1>2, <1>6, <2>1, <2>2 DEF LoginCommit, Storing
<1> QED
  BY <1>3, <1>4, <1>5, <1>6 DEF LoginStep

LEMMA GrantLogout ==
  ASSUME Inv, GrantInv, Inv', NEW a \in Logouts, Frame(a), LogoutStep(a) PROVE GrantInv'
<1>1. a \in Actors /\ TypeOK
  BY DEF Inv, Actors
<1>2. \A s \in State : Tokens(LoggedOut(s)) = {} /\ Theirs(LoggedOut(s))
  BY DEF State, Tokens, LoggedOut, Theirs
<1>3. CASE LogoutLoad(a)
  <2>1. GrantsKept /\ UNCHANGED file /\ pc[a] \notin Storing /\ lock = NONE
    BY <1>1, <1>3, GrantsSame DEF LogoutLoad, fileVars, Storing
  <2>2. CASE Goto(a, "revoke")
    BY <1>1, <2>1, <2>2, GrantAside DEF TypeOK, Goto, Storing
  <2>3. CASE Store(a, LoggedOut(file), "idle")
    <3>1. pc'[a] = "truncate" /\ out'[a] = LoggedOut(file)
      BY <1>1, <2>3 DEF TypeOK, Store, Goto
    <3>2. file \in State /\ Stored
      BY <1>3, FileLoaded DEF LogoutLoad, Loaded, Stored
    <3> QED
      BY <1>1, <1>2, <2>1, <3>1, <3>2, GrantStores
  <2> QED
    BY <1>3, <2>2, <2>3 DEF LogoutLoad
<1>4. CASE LogoutRevoke(a)
  <2>1. pc[a] = "revoke" /\ Renewable(saved[a]) \in Grants /\ saved[a] \in State
    BY <1>1, <1>4, Saved DEF LogoutRevoke, Inv, ActorSound, State, Renewable
  <2>2. GrantsKept
    BY <1>1, <1>4, <2>1, GrantsRevoked, GrantsSame DEF LogoutRevoke, serverVars
  <2>3. Stored /\ file = saved[a] /\ lock = a
    BY <1>1, <2>1, Saved, ContentsDistinct DEF Stored
  <2>4. pc'[a] = "truncate" /\ out'[a] = LoggedOut(saved[a])
    BY <1>1, <1>4, StoreFrame DEF LogoutRevoke
  <2> QED
    BY <1>1, <1>2, <1>4, <2>1, <2>2, <2>3, <2>4, GrantStores DEF LogoutRevoke, Storing, fileVars
<1> QED
  BY <1>3, <1>4 DEF LogoutStep

LEMMA GrantTick == ASSUME Inv, GrantInv, Inv', NEW g \in Grants, Tick(g) PROVE GrantInv'
<1>1. /\ UNCHANGED <<file, pc, saved, out, then, issued, lost>>
      /\ \A h \in Grants : grant'[h].status = grant[h].status /\ grant'[h].id = grant[h].id
  BY DEF Tick, fileVars, storeVars, Inv, TypeOK, Grant
<1>2. /\ Issued' = Issued /\ Spent' = Spent /\ Issued \subseteq Grants
      /\ \A h : Replacing(h)' <=> Replacing(h)
  BY <1>1, IssuedGrants DEF Issued, Spent, Replacing, Inv
<1>3. FileGrants'
  BY <1>1, <1>2 DEF GrantInv, FileGrants, Stored, Tokens, Theirs
<1>4. \A a \in Actors : OutGrants(a)' /\ Private(a)'
  BY <1>1, <1>2 DEF GrantInv, OutGrants, Private, Writes, Stored, Tokens, Theirs
<1> QED
  BY <1>3, <1>4 DEF GrantInv

LEMMA GrantNext == Inv /\ GrantInv /\ [Next]_vars => GrantInv'
<1> SUFFICES ASSUME Inv, GrantInv, [Next]_vars PROVE GrantInv'
  OBVIOUS
<1>0. Inv'
  BY InvInductive
<1>1. ASSUME NEW a \in Actors, ActorStep(a) PROVE GrantInv'
  BY <1>0, <1>1, Framed, GrantStorage, GrantRefresh, GrantLogin, GrantLogout DEF ActorStep
<1>2. CASE UNCHANGED vars
  BY <1>2 DEF vars, GrantInv, FileGrants, OutGrants, Private, Tokens, Theirs, Issued, Spent,
     Replacing, Writes, Stored
<1> QED
  BY <1>0, <1>1, <1>2, GrantTick, NextIsActors

LEMMA GrantInvariance == Spec => [](Inv /\ GrantInv)
<1>1. Init => Inv /\ GrantInv
  BY InitInv, GrantInit
<1>2. (Inv /\ GrantInv) /\ [Next]_vars => (Inv /\ GrantInv)'
  BY InvInductive, GrantNext
<1> QED
  BY <1>1, <1>2, PTL DEF Spec

\* With the flock free, a token that was used up is in the file only if the reply that
\* replaced it never came, or its checkpoint could not be stored.
THEOREM SpentTokensAreLost == Spec => []NoSpentToken
<1>1. Inv /\ GrantInv => NoSpentToken
  BY ActorsDistinct, ContentsDistinct, OffersTyped
     DEF Inv, Exclusion, Holding, GrantInv, FileGrants, Replacing, Storing, Spent, Tokens,
         NoSpentToken, Holds, Stored
<1> QED
  BY <1>1, GrantInvariance, PTL

\* The session in use is the registered subject's, or came without an ID token.
THEOREM SessionsAreTheSubjects == Spec => []SessionIsSubjects
<1>1. GrantInv => SessionIsSubjects
  BY DEF GrantInv, FileGrants, Theirs, SessionIsSubjects
<1> QED
  BY <1>1, GrantInvariance, PTL

\* What a refresh returns is in the file, for sharing, not expired, and the subject's.
THEOREM AnswersStored == Spec => AnswersAreStored
<1> DEFINE Good(r) == result'[r] \notin {NONE, result[r]} =>
                        LET g == result'[r] IN
                        /\ file'.session = g
                        /\ grant[g].sharing /\ grant[g].age # "expired"
                        /\ grant[g].id \in {NONE, file'.subject}
<1>1. ASSUME Inv, GrantInv, [Next]_vars, NEW r \in Refreshers PROVE Good(r)
  <2>1. CASE UNCHANGED result
    BY <2>1
  <2>2. ASSUME NEW a \in Actors, Refuse(a) PROVE Good(r)
    BY <1>1, <2>2 DEF Inv, TypeOK, Refuse, callerVars
  <2>3. ASSUME NEW a \in Actors, Write(a) PROVE Good(r)
    <3>1. CASE then[a] = "answer"
      <4>1. a \in Refreshers /\ Theirs(out[a]) /\ file' = out[a] /\ Answer(a, out[a].session)
        BY <1>1, <2>3, <3>1
           DEF Write, Inv, StoreSound, Storing, GrantInv, OutGrants, Writes
      <4> QED
        BY <1>1, <4>1 DEF Inv, TypeOK, Answer, Permitted, Theirs
    <3> QED
      BY <2>2, <2>3, <3>1 DEF Write, callerVars
  <2>4. ASSUME NEW a \in Refreshers, RefreshLoad(a) PROVE Good(r)
    <3>1. Loaded => Theirs(file)
      BY <1>1 DEF Loaded, Stored, GrantInv, FileGrants
    <3> QED
      BY <1>1, <2>4, <3>1 DEF Inv, TypeOK, RefreshLoad, Permitted, Theirs, fileVars
  <2>5. ASSUME NEW a \in Actors, StorageStep(a) PROVE Good(r)
    BY <2>1, <2>2, <2>3, <2>5 DEF StorageStep, Truncate, StoreFails, Crash, Leave, callerVars
  <2>6. ASSUME NEW a \in Refreshers, RefreshStep(a) PROVE Good(r)
    BY <2>1, <2>2, <2>4, <2>6 DEF RefreshStep, CallerLeaves, Checkpoint, Reauthenticate, RequestFails,
       Promote, KeysUnavailable, RejectIdentity, callerVars, Actors
  <2>7. ASSUME NEW a \in Actors, LoginStep(a) \/ LogoutStep(a) PROVE Good(r)
    BY <2>1, <2>7 DEF LoginStep, LoginStart, LoginRegister, LoginExchange, LoginCommit, LogoutStep,
       LogoutLoad, LogoutRevoke, callerVars
  <2>8. CASE UNCHANGED vars \/ \E g \in Grants : Tick(g)
    BY <2>1, <2>8 DEF vars, Tick, callerVars
  <2> QED
    BY <1>1, <2>5, <2>6, <2>7, <2>8, NextIsActors DEF ActorStep
<1>2. (Inv /\ GrantInv) /\ [Next]_vars => [\A r \in Refreshers : Good(r)]_vars
  BY <1>1
<1> QED
  BY <1>2, GrantInvariance, PTL DEF Spec, AnswersAreStored
=============================================================================
