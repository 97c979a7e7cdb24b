-------------------- MODULE ChatgptCredentialsProofs --------------------
(***************************************************************************)
(* Theorems about ChatgptCredentials, for any number of refreshes, logins  *)
(* and logouts, any offers of the server and any bounds.                   *)
(***************************************************************************)
EXTENDS ChatgptCredentials, TLAPS

Holding == {"request", "verify", "revoke", "truncate", "write"}
Storing == {"truncate", "write"}

\* The flock's holder is the one actor at a place that needs it.
Exclusion == \A a \in Actors : pc[a] \in Holding <=> lock = a

\* A state that loads and has at most one renewable session.
Sound(s) ==
  /\ s \in State /\ Valid(s)
  /\ s.session = NONE \/ s.pending = NONE

\* What an actor's locals are, depending on where it is.  Between the load and
\* the truncation the holder's `saved` is the file.
ActorSound(a) ==
  /\ pc[a] \in {"request", "verify"} => a \in Refreshers
  /\ pc[a] = "revoke" => a \in Logouts
  /\ pc[a] \in {"callback", "exchange", "commit"} => a \in Logins
  /\ pc[a] \in {"request", "verify", "revoke"} =>
       Sound(saved[a]) /\ file = saved[a] /\ saved[a].client # NONE
  /\ pc[a] = "request" => saved[a].session # NONE /\ saved[a].pending = NONE
  /\ pc[a] = "verify" => saved[a].pending # NONE
  /\ pc[a] = "revoke" => Renewable(saved[a]) # NONE
  /\ pc[a] \in {"callback", "exchange", "commit"} => Sound(saved[a])
  /\ pc[a] \in {"exchange", "commit"} => saved[a].client # NONE
  /\ pc[a] \in Storing \cup {"commit"} => Sound(out[a])

\* Where the actor goes on after the store, it finds what it needs there.
StoreSound(a) ==
  pc[a] \in Storing =>
    /\ then[a] \in {"verify", "answer"} => a \in Refreshers
    /\ then[a] \in {"callback", "exchange"} => a \in Logins
    /\ then[a] = "verify" => /\ saved[a] \in State /\ saved[a].session # NONE
                             /\ out[a].pending # NONE /\ out[a].client # NONE
    /\ then[a] = "answer" => out[a].session # NONE
    /\ then[a] = "exchange" => out[a].client # NONE

FileSound == Stored => Sound(file)

Inv ==
  /\ TypeOK
  /\ Exclusion
  /\ \A a \in Actors : ActorSound(a) /\ StoreSound(a)
  /\ FileSound

-----------------------------------------------------------------------------

LEMMA InitInv == Init => Inv
<1> SUFFICES ASSUME Init PROVE Inv
  OBVIOUS
<1>0. Unissued \in Grant
  BY DEF Unissued, Grant, Proofs
<1>w. waiting \in [Refreshers -> BOOLEAN] /\ torn \in BOOLEAN
  BY DEF Init
<1>t. then \in [Actors -> {"verify", "answer", "callback", "exchange", "idle"}]
  BY DEF Init
<1>p. pc \in [Actors -> PCs]
  BY DEF Init, PCs
<1>r. /\ issued \in 0..MaxGrants /\ hosts \in 0..MaxHosts
      /\ lost \subseteq Grants /\ lock = NONE
      /\ file = EMPTY /\ durable = EMPTY
  BY BoundsAreNat DEF Init
<1>g. grant \in [Grants -> Grant]
  BY <1>0 DEF Init
<1>s. /\ saved \in [Actors -> State \cup {NONE}]
      /\ out \in [Actors -> State \cup {NONE}]
      /\ result \in [Refreshers -> Grants \cup {NONE}]
  BY DEF Init
<1>1. TypeOK
  BY <1>w, <1>t, <1>p, <1>r, <1>g, <1>s DEF TypeOK
<1>2. Exclusion
  BY ActorsDistinct DEF Init, Exclusion, Holding
<1>3. \A a \in Actors : ActorSound(a) /\ StoreSound(a)
  BY DEF Init, ActorSound, StoreSound, Storing
<1>4. FileSound
  BY DEF Init, FileSound, Stored
<1> QED
  BY <1>1, <1>2, <1>3, <1>4 DEF Inv

-----------------------------------------------------------------------------
(* What the shared pieces of the actions preserve                          *)

Thens == {"verify", "answer", "callback", "exchange", "idle"}

\* The variables that hold actors' locals.
LocalsTyped ==
  /\ pc \in [Actors -> PCs]
  /\ saved \in [Actors -> State \cup {NONE}]
  /\ out \in [Actors -> State \cup {NONE}]
  /\ then \in [Actors -> Thens]

CallersTyped ==
  waiting \in [Refreshers -> BOOLEAN] /\ result \in [Refreshers -> Grants \cup {NONE}]

ServerTyped == grant \in [Grants -> Grant] /\ issued \in 0..MaxGrants

FileTyped ==
  /\ file \in State \cup {EMPTY, CORRUPT} /\ durable \in State \cup {EMPTY}
  /\ torn \in BOOLEAN /\ lock \in Actors \cup {NONE}

\* The types after a step, from those of the groups.
LEMMA TypeParts ==
  ASSUME LocalsTyped', CallersTyped', ServerTyped', FileTyped',
         hosts' \in 0..MaxHosts, lost' \subseteq Grants
  PROVE  TypeOK'
BY DEF TypeOK, LocalsTyped, CallersTyped, ServerTyped, FileTyped, Thens

LEMMA FinishTyped ==
  ASSUME TypeOK, NEW a \in Actors, Finish(a)
  PROVE  LocalsTyped'
BY DEF TypeOK, Finish, Goto, LocalsTyped, PCs, Thens

LEMMA StoreTyped ==
  ASSUME TypeOK, NEW a \in Actors, NEW s \in State, NEW p \in Thens, Store(a, s, p),
         saved' \in [Actors -> State \cup {NONE}]
  PROVE  LocalsTyped'
BY DEF TypeOK, Store, Goto, LocalsTyped, PCs, Thens

LEMMA RefuseTyped ==
  ASSUME TypeOK, NEW a \in Actors, Refuse(a)
  PROVE  CallersTyped'
<1>1. CASE a \in Refreshers
  <2>1. result' \in [Refreshers -> Grants \cup {NONE}]
    BY <1>1 DEF TypeOK, Refuse
  <2>2. waiting' \in [Refreshers -> BOOLEAN]
    BY <1>1 DEF TypeOK, Refuse
  <2> QED
    BY <2>1, <2>2 DEF CallersTyped
<1>2. CASE a \notin Refreshers
  BY <1>2 DEF TypeOK, Refuse, CallersTyped, callerVars
<1> QED
  BY <1>1, <1>2

LEMMA AnswerTyped ==
  ASSUME TypeOK, NEW r \in Refreshers, NEW g \in Grants, Answer(r, g)
  PROVE  CallersTyped'
<1>1. result' \in [Refreshers -> Grants \cup {NONE}]
  BY DEF TypeOK, Answer
<1>2. waiting' \in [Refreshers -> BOOLEAN]
  BY DEF TypeOK, Answer
<1> QED
  BY <1>1, <1>2 DEF CallersTyped

LEMMA NewGrantTyped ==
  ASSUME TypeOK, NEW o \in Offers, NEW t, t \in Grants \/ o.scope # NONE
  PROVE  NewGrant(o, t) \in Grant
<1>1. o \in [id: Proofs, scope: BOOLEAN \cup {NONE}, hold: BOOLEAN]
  BY OffersTyped
<1>2. (IF o.scope = NONE THEN grant[t].sharing ELSE o.scope) \in BOOLEAN
  <2>1. CASE o.scope = NONE
    BY <2>1 DEF TypeOK, Grant
  <2>2. CASE o.scope # NONE
    BY <1>1, <2>2
  <2> QED
    BY <2>1, <2>2
<1> QED
  BY <1>1, <1>2 DEF NewGrant, Grant

\* One entry of grant may change its status.
LEMMA StatusTyped ==
  ASSUME TypeOK, NEW t \in Grants,
         NEW s \in {"unissued", "live", "consumed", "revoked"}
  PROVE  [grant EXCEPT ![t].status = s] \in [Grants -> Grant]
BY DEF TypeOK, Grant

LEMMA RotateTyped ==
  ASSUME TypeOK, NEW t \in Grants, NEW o \in Offers, Rotate(t, o)
  PROVE  ServerTyped' /\ issued' \in Grants
<1>1. issued + 1 \in Grants /\ issued + 1 \in 0..MaxGrants
  BY BoundsAreNat DEF TypeOK, Rotate, Grants
<1>2. NewGrant(o, t) \in Grant
  BY NewGrantTyped
<1>3. [grant EXCEPT ![t].status = "consumed"] \in [Grants -> Grant]
  BY StatusTyped
<1>4. grant' = [[grant EXCEPT ![t].status = "consumed"] EXCEPT ![issued + 1] = NewGrant(o, t)]
  BY DEF Rotate
<1> QED
  BY <1>1, <1>2, <1>3, <1>4 DEF Rotate, ServerTyped

\* A step of a that leaves the locals of b alone, and the file unless a holds
\* the flock, leaves b sound.
LEMMA OthersSound ==
  ASSUME Inv, NEW a \in Actors, NEW b \in Actors, b # a,
         pc'[b] = pc[b], saved'[b] = saved[b], out'[b] = out[b], then'[b] = then[b],
         file' = file \/ lock = a
  PROVE  (ActorSound(b) /\ StoreSound(b))'
BY DEF Inv, Exclusion, Holding, ActorSound, StoreSound, Storing, Sound

\* The same for a step that begins a store.
LEMMA StoreBegun ==
  ASSUME Inv, NEW a \in Actors, NEW s, NEW p \in Thens, Store(a, s, p), Sound(s),
         UNCHANGED file,
         \A b \in Actors : b # a => saved'[b] = saved[b],
         p \in {"verify", "answer"} => a \in Refreshers,
         p \in {"callback", "exchange"} => a \in Logins,
         p = "verify" => /\ saved'[a] \in State /\ saved'[a].session # NONE
                         /\ s.pending # NONE /\ s.client # NONE,
         p = "answer" => s.session # NONE,
         p = "exchange" => s.client # NONE
  PROVE  \A b \in Actors : (ActorSound(b) /\ StoreSound(b))'
<1>1. ASSUME NEW b \in Actors, b # a
      PROVE  (ActorSound(b) /\ StoreSound(b))'
  BY <1>1, OthersSound DEF Inv, TypeOK, Store, Goto
<1>2. pc'[a] = "truncate" /\ out'[a] = s /\ then'[a] = p
  BY DEF Inv, TypeOK, Store, Goto
<1>3. ActorSound(a)'
  BY <1>2 DEF ActorSound, Storing, Sound
<1>4. StoreSound(a)'
  BY <1>2 DEF StoreSound, Storing
<1> QED
  BY <1>1, <1>3, <1>4

LEMMA Saved ==
  ASSUME Inv, NEW a \in Actors, pc[a] \in {"request", "verify", "revoke"}
  PROVE  Sound(saved[a]) /\ file = saved[a] /\ saved[a] \in State /\ lock = a
BY DEF Inv, ActorSound, Sound, Exclusion, Holding

-----------------------------------------------------------------------------
(* Every action preserves the invariant                                    *)

LEMMA TruncateInv ==
  ASSUME Inv, NEW a \in Actors, Truncate(a)
  PROVE  Inv'
<1> USE DEF Truncate, Goto, storeVars, callerVars, serverVars
<1>1. TypeOK'
  BY DEF Inv, TypeOK, PCs
<1>2. Exclusion'
  BY DEF Inv, TypeOK, Exclusion, Holding
<1>3. ASSUME NEW b \in Actors PROVE (ActorSound(b) /\ StoreSound(b))'
  BY DEF Inv, TypeOK, Exclusion, Holding, ActorSound, StoreSound, Storing
<1>4. FileSound'
  BY DEF FileSound, Stored
<1> QED
  BY <1>1, <1>2, <1>3, <1>4 DEF Inv

LEMMA WriteInv ==
  ASSUME Inv, NEW a \in Actors, Write(a)
  PROVE  Inv'
<1>0. pc[a] = "write" /\ lock = a /\ Sound(out[a]) /\ out[a] \in State
  BY DEF Inv, Write, ActorSound, Storing, Sound, Exclusion, Holding
<1>1. TypeOK'
  <2>1. LocalsTyped'
    <3>1. CASE then[a] \in {"idle", "answer"}
      BY <3>1, FinishTyped DEF Inv, Write
    <3>2. CASE then[a] \notin {"idle", "answer"}
      BY <3>2, <1>0 DEF Inv, Write, Continue, Goto, TypeOK, LocalsTyped, PCs, Thens
    <3> QED
      BY <3>1, <3>2
  <2>2. CallersTyped'
    <3>1. CASE then[a] = "answer"
      <4>1. a \in Refreshers /\ out[a].session \in Grants
        BY <3>1, <1>0 DEF Inv, StoreSound, Storing, State
      <4> QED
        BY <3>1, <4>1, AnswerTyped DEF Inv, Write
    <3>2. CASE then[a] = "idle"
      BY <3>2, RefuseTyped DEF Inv, Write
    <3>3. CASE then[a] \notin {"answer", "idle"}
      BY <3>3 DEF Inv, Write, TypeOK, CallersTyped, callerVars
    <3> QED
      BY <3>1, <3>2, <3>3
  <2>3. FileTyped'
    BY <1>0 DEF Inv, Write, TypeOK, FileTyped
  <2>4. ServerTyped' /\ hosts' \in 0..MaxHosts /\ lost' \subseteq Grants
    BY DEF Inv, Write, TypeOK, ServerTyped, serverVars
  <2> QED
    BY <2>1, <2>2, <2>3, <2>4, TypeParts
<1>2. Exclusion'
  BY <1>0, ActorsDistinct DEF Inv, TypeOK, Exclusion, Holding, Write, Finish, Continue, Goto
<1>3. ASSUME NEW b \in Actors PROVE (ActorSound(b) /\ StoreSound(b))'
  BY <1>0, OffersTyped DEF Inv, TypeOK, Exclusion, Holding, ActorSound, StoreSound, Storing,
     Sound, Write, Finish, Continue, Goto
<1>4. FileSound'
  BY <1>0 DEF Write, FileSound
<1> QED
  BY <1>1, <1>2, <1>3, <1>4 DEF Inv

\* Leave and Tear, for StoreFails and Crash.
LEMMA LeaveInv ==
  ASSUME Inv, NEW a \in Actors, Leave(a), UNCHANGED <<serverVars, hosts>>,
         FileTyped', FileSound', file' = file \/ lock = a
  PROVE  Inv'
<1>1. TypeOK'
  <2>1. LocalsTyped' /\ CallersTyped'
    BY FinishTyped, RefuseTyped DEF Inv, Leave
  <2>2. lost' \subseteq Grants
    BY DEF Inv, Leave, TypeOK, StoreSound, Storing, State
  <2> QED
    <3>1. ServerTyped' /\ hosts' \in 0..MaxHosts
      BY DEF Inv, TypeOK, serverVars, ServerTyped
    <3> QED
      BY <2>1, <2>2, <3>1, TypeParts
<1>2. Exclusion'
  BY ActorsDistinct DEF Inv, TypeOK, Exclusion, Holding, Leave, Finish, Goto
<1>3. ASSUME NEW b \in Actors PROVE (ActorSound(b) /\ StoreSound(b))'
  <2>1. CASE b = a
    BY <2>1 DEF Inv, TypeOK, Leave, Finish, Goto, ActorSound, StoreSound, Storing
  <2>2. CASE b # a
    BY <2>2, OthersSound DEF Inv, TypeOK, Leave, Finish, Goto
  <2> QED
    BY <2>1, <2>2
<1> QED
  BY <1>1, <1>2, <1>3 DEF Inv

LEMMA StoreFailsInv ==
  ASSUME Inv, NEW a \in Actors, StoreFails(a)
  PROVE  Inv'
<1>1. lock = a /\ Sound(out[a]) /\ out[a] \in State
  BY DEF Inv, StoreFails, ActorSound, Storing, Sound, Exclusion, Holding
<1>2. FileTyped'
  BY <1>1 DEF Inv, StoreFails, Leave, Tear, TypeOK, FileTyped, fileVars
<1>3. FileSound'
  BY <1>1 DEF Inv, StoreFails, Tear, FileSound, Stored, fileVars
<1> QED
  BY <1>1, <1>2, <1>3, LeaveInv DEF StoreFails

LEMMA CrashInv ==
  ASSUME Inv, NEW a \in Actors, Crash(a)
  PROVE  Inv'
<1>1. pc[a] = "write" => lock = a
  BY DEF Inv, Exclusion, Holding
<1>2. FileTyped'
  BY DEF Inv, Crash, Leave, Tear, TypeOK, FileTyped, fileVars
<1>3. FileSound'
  BY DEF Inv, Crash, Tear, FileSound, Stored, fileVars
<1>4. file' = file \/ lock = a
  BY <1>1 DEF Crash, fileVars
<1> QED
  BY <1>2, <1>3, <1>4, LeaveInv DEF Crash

LEMMA TickInv ==
  ASSUME Inv, NEW g \in Grants, Tick(g)
  PROVE  Inv'
<1> USE DEF Tick, fileVars, storeVars, callerVars
<1>1. grant' \in [Grants -> Grant]
  <2>1. [grant EXCEPT ![g].age = "due"] \in [Grants -> Grant]
    BY DEF Inv, TypeOK, Grant
  <2>2. [grant EXCEPT ![g].age = "expired"] \in [Grants -> Grant]
    BY DEF Inv, TypeOK, Grant
  <2>3. [grant EXCEPT ![g].hold = FALSE] \in [Grants -> Grant]
    BY DEF Inv, TypeOK, Grant
  <2> QED
    BY <2>1, <2>2, <2>3
<1>2. TypeOK'
  BY <1>1 DEF Inv, TypeOK
<1> QED
  BY <1>2 DEF Inv, Exclusion, ActorSound, StoreSound, FileSound, Stored, Sound, Renewable, Valid

LEMMA RefreshLoadInv ==
  ASSUME Inv, NEW a \in Refreshers, RefreshLoad(a)
  PROVE  Inv'
<1>a. a \in Actors
  BY DEF Actors
<1> DEFINE usable == Loaded /\ file.client # NONE
           recover == usable /\ file.pending # NONE
           current == usable /\ file.pending = NONE /\ file.session # NONE
<1>b. pc[a] = "idle" /\ lock = NONE /\ UNCHANGED <<fileVars, storeVars, serverVars, hosts, lost>>
  BY DEF RefreshLoad
<1>1. CASE UNCHANGED <<lock, pc, saved>> /\ CallersTyped'
  <2>1. TypeOK'
    BY <1>1, <1>b DEF Inv, TypeOK, CallersTyped, fileVars, storeVars, serverVars
  <2> QED
    BY <1>1, <1>b, <2>1 DEF Inv, fileVars, storeVars, serverVars, Exclusion, ActorSound,
       StoreSound, FileSound, Stored, Sound, Renewable, Valid
<1>2. CASE /\ recover \/ (current /\ ~Reuse(file.session))
           /\ lock' = a
           /\ Goto(a, IF recover THEN "verify" ELSE "request")
           /\ saved' = [saved EXCEPT ![a] = file]
           /\ CallersTyped'
  <2>0. Sound(file) /\ file \in State
    BY <1>2 DEF Inv, Loaded, FileSound, Stored, Sound
  <2>1. LocalsTyped'
    BY <1>a, <1>b, <1>2, <2>0 DEF Inv, TypeOK, LocalsTyped, Goto, PCs, Thens, storeVars
  <2>2. FileTyped'
    BY <1>a, <1>b, <1>2 DEF Inv, TypeOK, FileTyped, fileVars
  <2>3. ServerTyped' /\ hosts' \in 0..MaxHosts /\ lost' \subseteq Grants
    BY <1>b DEF Inv, TypeOK, ServerTyped, serverVars
  <2>4. TypeOK'
    BY <1>2, <2>1, <2>2, <2>3, TypeParts
  <2>5. Exclusion'
    BY <1>a, <1>b, <1>2, ActorsDistinct DEF Inv, TypeOK, Exclusion, Holding, Goto
  <2>6. (ActorSound(a) /\ StoreSound(a))'
    BY <1>a, <1>b, <1>2, <2>0 DEF Inv, TypeOK, Goto, ActorSound, StoreSound, Storing, fileVars
  <2>7. ASSUME NEW b \in Actors, b # a PROVE (ActorSound(b) /\ StoreSound(b))'
    BY <1>a, <1>b, <1>2, <2>7, OthersSound DEF Inv, TypeOK, Goto, fileVars, storeVars
  <2>8. FileSound'
    BY <1>b DEF Inv, FileSound, Stored, fileVars
  <2> QED
    BY <2>4, <2>5, <2>6, <2>7, <2>8 DEF Inv
<1>3. CallersTyped'
  <2>1. result' \in [Refreshers -> Grants \cup {NONE}]
    <3>1. current => file.session \in Grants
      BY DEF Inv, TypeOK, Loaded, State
    <3> QED
      BY <3>1 DEF Inv, TypeOK, RefreshLoad
  <2>2. waiting' \in [Refreshers -> BOOLEAN]
    <3>1. [waiting EXCEPT ![a] = TRUE] \in [Refreshers -> BOOLEAN]
      BY DEF Inv, TypeOK
    <3>2. [waiting EXCEPT ![a] = FALSE] \in [Refreshers -> BOOLEAN]
      BY DEF Inv, TypeOK
    <3> QED
      BY <3>1, <3>2 DEF RefreshLoad
  <2> QED
    BY <2>1, <2>2 DEF CallersTyped
<1> QED
  BY <1>1, <1>2, <1>3 DEF RefreshLoad

LEMMA CallerLeavesInv ==
  ASSUME Inv, NEW a \in Refreshers, CallerLeaves(a)
  PROVE  Inv'
<1> USE DEF CallerLeaves, fileVars, storeVars, serverVars
<1>1. waiting' \in [Refreshers -> BOOLEAN]
  BY DEF Inv, TypeOK
<1>2. TypeOK'
  BY <1>1 DEF Inv, TypeOK
<1> QED
  BY <1>2 DEF Inv, Exclusion, ActorSound, StoreSound, FileSound, Stored, Sound, Renewable, Valid

\* An action of the flock's holder that begins a store of s, to go on at p.
LEMMA HolderStores ==
  ASSUME Inv, NEW a \in Actors, pc[a] \in {"request", "verify", "revoke"},
         NEW s, NEW p \in Thens, Store(a, s, p), Sound(s),
         UNCHANGED <<fileVars, lock, saved, callerVars, hosts, lost>>, ServerTyped',
         p \in {"verify", "answer"} => a \in Refreshers,
         p \notin {"callback", "exchange"},
         p = "verify" => /\ saved[a].session # NONE
                         /\ s.pending # NONE /\ s.client # NONE,
         p = "answer" => s.session # NONE
  PROVE  Inv'
<1>0. s \in State /\ saved[a] \in State /\ lock = a
  BY Saved DEF Sound
<1>1. TypeOK'
  <2>1. LocalsTyped'
    BY <1>0, StoreTyped DEF Inv, TypeOK
  <2>2. CallersTyped' /\ FileTyped' /\ hosts' \in 0..MaxHosts /\ lost' \subseteq Grants
    BY DEF Inv, TypeOK, CallersTyped, FileTyped, callerVars, fileVars
  <2> QED
    BY <2>1, <2>2, TypeParts
<1>2. Exclusion'
  BY DEF Inv, TypeOK, Exclusion, Holding, Store, Goto
<1>3. \A b \in Actors : (ActorSound(b) /\ StoreSound(b))'
  BY <1>0, StoreBegun DEF fileVars
<1>4. FileSound'
  BY DEF Inv, FileSound, Stored, fileVars
<1> QED
  BY <1>1, <1>2, <1>3, <1>4 DEF Inv

LEMMA CheckpointInv ==
  ASSUME Inv, NEW a \in Refreshers, Checkpoint(a)
  PROVE  Inv'
<1> DEFINE t == saved[a].session
           s == [saved[a] EXCEPT !.session = NONE, !.pending = issued']
<1>1. a \in Actors /\ pc[a] = "request" /\ Store(a, s, "verify")
  BY DEF Actors, Checkpoint
<1>2. Sound(saved[a]) /\ saved[a] \in State /\ t \in Grants /\ saved[a].client # NONE
  BY <1>1, Saved DEF Inv, ActorSound, State
<1>3. ServerTyped' /\ issued' \in Grants
  BY <1>2, RotateTyped DEF Inv, Checkpoint
<1>4. Sound(s) /\ s.pending # NONE /\ s.client # NONE
  BY <1>2, <1>3, OffersTyped DEF Sound, Valid, State
<1>5. t # NONE
  BY <1>2, OffersTyped
<1> QED
  BY <1>1, <1>3, <1>4, <1>5, HolderStores DEF Checkpoint, Thens

LEMMA ReauthenticateInv ==
  ASSUME Inv, NEW a \in Refreshers, Reauthenticate(a)
  PROVE  Inv'
<1> DEFINE t == saved[a].session
           s == [saved[a] EXCEPT !.session = NONE]
<1>1. a \in Actors /\ pc[a] = "request" /\ Store(a, s, "idle")
  BY DEF Actors, Reauthenticate
<1>2. Sound(saved[a]) /\ saved[a] \in State /\ t \in Grants
  BY <1>1, Saved DEF Inv, ActorSound, State
<1>3. ServerTyped'
  <2> DEFINE v == IF grant[t].status = "live" THEN "revoked" ELSE grant[t].status
  <2>1. v \in {"unissued", "live", "consumed", "revoked"}
    BY <1>2 DEF Inv, TypeOK, Grant
  <2>2. grant' = [grant EXCEPT ![t].status = v]
    BY DEF Reauthenticate
  <2> HIDE DEF v
  <2>3. [grant EXCEPT ![t].status = v] \in [Grants -> Grant]
    BY <1>2, <2>1, StatusTyped DEF Inv
  <2> QED
    BY <2>2, <2>3 DEF Inv, TypeOK, ServerTyped, Reauthenticate
<1>4. Sound(s)
  BY <1>2 DEF Sound, Valid, State
<1> QED
  BY <1>1, <1>3, <1>4, HolderStores DEF Reauthenticate, Thens

\* An operation that ends in one step, holding the flock or not, and leaves the
\* file alone.
LEMMA EndsQuietly ==
  ASSUME Inv, NEW a \in Actors, Finish(a), CallersTyped', ServerTyped',
         lost' \subseteq Grants, UNCHANGED <<fileVars, hosts>>,
         lock' = IF lock = a THEN NONE ELSE lock
  PROVE  Inv'
<1>1. LocalsTyped' /\ FileTyped' /\ hosts' \in 0..MaxHosts
  BY FinishTyped DEF Inv, TypeOK, FileTyped, fileVars
<1>2. TypeOK'
  BY <1>1, TypeParts
<1>3. Exclusion'
  BY ActorsDistinct DEF Inv, TypeOK, Exclusion, Holding, Finish, Goto
<1>4. (ActorSound(a) /\ StoreSound(a))'
  BY DEF Inv, TypeOK, Finish, Goto, ActorSound, StoreSound, Storing
<1>5. ASSUME NEW b \in Actors, b # a PROVE (ActorSound(b) /\ StoreSound(b))'
  BY <1>5, OthersSound DEF Inv, TypeOK, Finish, Goto, fileVars
<1>6. FileSound'
  BY DEF Inv, FileSound, Stored, fileVars
<1> QED
  BY <1>2, <1>3, <1>4, <1>5, <1>6 DEF Inv

LEMMA RequestFailsInv ==
  ASSUME Inv, NEW a \in Refreshers, RequestFails(a)
  PROVE  Inv'
<1> DEFINE t == saved[a].session
<1>1. a \in Actors /\ pc[a] = "request"
  BY DEF Actors, RequestFails
<1>2. t \in Grants /\ lock = a
  BY <1>1, Saved DEF Inv, ActorSound, State
<1>3. CallersTyped'
  BY <1>1, RefuseTyped DEF Inv, RequestFails
<1>4. ServerTyped'
  <2>1. [grant EXCEPT ![t].status = "consumed"] \in [Grants -> Grant]
    BY <1>2, StatusTyped DEF Inv
  <2> QED
    BY <2>1 DEF Inv, TypeOK, ServerTyped, RequestFails
<1>5. lost' \subseteq Grants
  BY <1>2 DEF Inv, TypeOK, RequestFails
<1> QED
  BY <1>1, <1>2, <1>3, <1>4, <1>5, EndsQuietly DEF RequestFails

LEMMA PromoteInv ==
  ASSUME Inv, NEW a \in Refreshers, Promote(a)
  PROVE  Inv'
<1> DEFINE s == [saved[a] EXCEPT !.session = saved[a].pending, !.pending = NONE]
<1>1. a \in Actors /\ pc[a] = "verify" /\ Store(a, s, "answer")
  BY DEF Actors, Promote
<1>2. Sound(saved[a]) /\ saved[a] \in State /\ saved[a].pending # NONE
  BY <1>1, Saved DEF Inv, ActorSound
<1>3. Sound(s) /\ s.session # NONE
  BY <1>2 DEF Sound, Valid, State
<1>4. ServerTyped'
  BY DEF Inv, TypeOK, ServerTyped, serverVars, Promote
<1> QED
  BY <1>1, <1>3, <1>4, HolderStores DEF Promote, Thens

LEMMA KeysUnavailableInv ==
  ASSUME Inv, NEW a \in Refreshers, KeysUnavailable(a)
  PROVE  Inv'
<1>1. a \in Actors /\ pc[a] = "verify" /\ lock = a
  BY Saved DEF Actors, KeysUnavailable
<1>2. CallersTyped'
  BY <1>1, RefuseTyped DEF Inv, KeysUnavailable
<1>3. ServerTyped' /\ lost' \subseteq Grants
  BY DEF Inv, TypeOK, ServerTyped, serverVars, KeysUnavailable
<1> QED
  BY <1>1, <1>2, <1>3, EndsQuietly DEF KeysUnavailable

LEMMA RejectIdentityInv ==
  ASSUME Inv, NEW a \in Refreshers, RejectIdentity(a)
  PROVE  Inv'
<1> DEFINE s == [saved[a] EXCEPT !.session = NONE, !.pending = NONE]
<1>1. a \in Actors /\ pc[a] = "verify" /\ Store(a, s, "idle")
  BY DEF Actors, RejectIdentity
<1>2. Sound(saved[a])
  BY <1>1, Saved
<1>3. Sound(s)
  BY <1>2 DEF Sound, Valid, State
<1>4. ServerTyped'
  BY DEF Inv, TypeOK, ServerTyped, serverVars, RejectIdentity
<1> QED
  BY <1>1, <1>3, <1>4, HolderStores DEF RejectIdentity, Thens

LEMMA LogoutRevokeInv ==
  ASSUME Inv, NEW a \in Logouts, LogoutRevoke(a)
  PROVE  Inv'
<1>1. a \in Actors /\ pc[a] = "revoke" /\ Store(a, LoggedOut(saved[a]), "idle")
  BY DEF Actors, LogoutRevoke
<1>2. Sound(saved[a]) /\ Renewable(saved[a]) \in Grants
  BY <1>1, Saved DEF Inv, ActorSound, State, Renewable
<1>3. Sound(LoggedOut(saved[a]))
  BY <1>2 DEF Sound, Valid, State, LoggedOut
<1>4. ServerTyped'
  BY <1>2, StatusTyped DEF Inv, TypeOK, ServerTyped, LogoutRevoke
<1> QED
  BY <1>1, <1>3, <1>4, HolderStores DEF LogoutRevoke, Thens

\* An actor that takes the free flock and begins a store of s.
LEMMA TakesAndStores ==
  ASSUME Inv, NEW a \in Actors, lock = NONE, lock' = a,
         NEW s, NEW p \in Thens, Store(a, s, p), Sound(s),
         UNCHANGED <<fileVars, callerVars, serverVars, lost>>, hosts' \in 0..MaxHosts,
         saved' \in [Actors -> State \cup {NONE}],
         \A b \in Actors : b # a => saved'[b] = saved[b],
         p \notin {"verify", "answer"},
         p \in {"callback", "exchange"} => a \in Logins,
         p = "exchange" => s.client # NONE
  PROVE  Inv'
<1>1. TypeOK'
  <2>1. LocalsTyped'
    BY StoreTyped DEF Inv, Sound
  <2>2. CallersTyped' /\ FileTyped' /\ ServerTyped' /\ lost' \subseteq Grants
    BY DEF Inv, TypeOK, CallersTyped, FileTyped, ServerTyped, callerVars, fileVars, serverVars
  <2> QED
    BY <2>1, <2>2, TypeParts
<1>2. Exclusion'
  BY ActorsDistinct DEF Inv, TypeOK, Exclusion, Holding, Store, Goto
<1>3. \A b \in Actors : (ActorSound(b) /\ StoreSound(b))'
  BY StoreBegun DEF fileVars
<1>4. FileSound'
  BY DEF Inv, FileSound, Stored, fileVars
<1> QED
  BY <1>1, <1>2, <1>3, <1>4 DEF Inv

LEMMA FileLoaded ==
  ASSUME Inv, Loaded
  PROVE  Sound(file) /\ file \in State
BY DEF Inv, Loaded, FileSound, Stored, Sound

LEMMA LoginStartInv ==
  ASSUME Inv, NEW a \in Logins, LoginStart(a)
  PROVE  Inv'
<1>1. a \in Actors /\ pc[a] = "idle" /\ lock = NONE
  BY DEF Actors, LoginStart
<1>2. CASE Loaded /\ saved' = [saved EXCEPT ![a] = file] /\ Goto(a, "callback")
           /\ UNCHANGED <<lock, storeVars, hosts>>
  <2> USE DEF LoginStart, fileVars, callerVars, serverVars, storeVars
  <2>1. Sound(file) /\ file \in State
    BY <1>2, FileLoaded
  <2>2. TypeOK'
    BY <1>1, <1>2, <2>1 DEF Inv, TypeOK, Goto, PCs
  <2>3. Exclusion'
    BY <1>1, <1>2 DEF Inv, TypeOK, Exclusion, Holding, Goto
  <2>4. (ActorSound(a) /\ StoreSound(a))'
    BY <1>1, <1>2, <2>1 DEF Inv, TypeOK, Goto, ActorSound, StoreSound, Storing
  <2>5. ASSUME NEW b \in Actors, b # a PROVE (ActorSound(b) /\ StoreSound(b))'
    BY <1>1, <1>2, <2>5, OthersSound DEF Inv, TypeOK, Goto
  <2>6. FileSound'
    BY DEF Inv, FileSound, Stored
  <2> QED
    BY <2>2, <2>3, <2>4, <2>5, <2>6 DEF Inv
<1>3. CASE /\ file = EMPTY /\ hosts < MaxHosts /\ hosts' = hosts + 1 /\ lock' = a
           /\ Store(a, [Fresh EXCEPT !.host = hosts + 1], "callback") /\ UNCHANGED saved
  <2>1. hosts + 1 \in Hosts /\ hosts' \in 0..MaxHosts
    BY <1>3, BoundsAreNat DEF Inv, TypeOK, Hosts
  <2>2. Sound([Fresh EXCEPT !.host = hosts + 1])
    BY <2>1 DEF Fresh, Sound, Valid, State
  <2>3. UNCHANGED <<fileVars, callerVars, serverVars, lost>>
    BY DEF LoginStart
  <2> QED
    BY <1>1, <1>3, <2>1, <2>2, <2>3, TakesAndStores DEF Inv, TypeOK, Thens
<1> QED
  BY <1>2, <1>3 DEF LoginStart

LEMMA LoginRegisterInv ==
  ASSUME Inv, NEW a \in Logins, LoginRegister(a)
  PROVE  Inv'
<1>1. /\ a \in Actors /\ pc[a] = "callback" /\ lock = NONE
      /\ UNCHANGED <<fileVars, callerVars, serverVars, hosts, lost>>
  BY DEF Actors, LoginRegister
<1>2. ASSUME NEW c \in Clients, Loaded, saved' = [saved EXCEPT ![a] = file], lock' = a,
             Store(a, [file EXCEPT !.client = c], "exchange")
      PROVE  Inv'
  <2>1. Sound(file) /\ file \in State
    BY <1>2, FileLoaded
  <2>2. Sound([file EXCEPT !.client = c]) /\ [file EXCEPT !.client = c].client # NONE
    BY <2>1, OffersTyped DEF Sound, Valid, State
  <2>3. /\ saved' \in [Actors -> State \cup {NONE}]
        /\ \A b \in Actors : b # a => saved'[b] = saved[b]
    BY <1>1, <1>2, <2>1 DEF Inv, TypeOK
  <2>4. hosts' \in 0..MaxHosts
    BY <1>1 DEF Inv, TypeOK
  <2> QED
    BY <1>1, <1>2, <2>2, <2>3, <2>4, TakesAndStores DEF Thens
<1>3. CASE Finish(a) /\ UNCHANGED lock
  <2>1. CallersTyped' /\ ServerTyped' /\ lost' \subseteq Grants
    BY <1>1 DEF Inv, TypeOK, CallersTyped, ServerTyped, callerVars, serverVars
  <2>2. lock' = IF lock = a THEN NONE ELSE lock
    BY <1>1, <1>3
  <2> QED
    BY <1>1, <1>3, <2>1, <2>2, EndsQuietly
<1> QED
  BY <1>2, <1>3 DEF LoginRegister

LEMMA LoginExchangeInv ==
  ASSUME Inv, NEW a \in Logins, LoginExchange(a)
  PROVE  Inv'
<1>1. /\ a \in Actors /\ pc[a] = "exchange"
      /\ UNCHANGED <<fileVars, lock, callerVars, hosts, lost>>
  BY DEF Actors, LoginExchange
<1>2. Sound(saved[a]) /\ saved[a] \in State /\ saved[a].client # NONE
  BY <1>1 DEF Inv, ActorSound, Sound
<1>3. ASSUME NEW o \in Offers, issued < MaxGrants, o.id \in Subjects, o.scope # NONE,
             issued' = issued + 1, grant' = [grant EXCEPT ![issued + 1] = NewGrant(o, NONE)],
             out' = [out EXCEPT ![a] =
                  [saved[a] EXCEPT !.subject = o.id, !.pending = NONE,
                                   !.session = IF o.scope THEN issued + 1 ELSE NONE]],
             Goto(a, "commit"), UNCHANGED <<saved, then>>
      PROVE  Inv'
  <2> DEFINE s == [saved[a] EXCEPT !.subject = o.id, !.pending = NONE,
                                   !.session = IF o.scope THEN issued + 1 ELSE NONE]
  <2>1. issued + 1 \in Grants /\ issued + 1 \in 0..MaxGrants
    BY <1>3, BoundsAreNat DEF Inv, TypeOK, Grants
  <2>2. Sound(s)
    <3>1. (IF o.scope THEN issued + 1 ELSE NONE) \in Grants \cup {NONE}
      BY <2>1
    <3> QED
      BY <1>2, <1>3, <3>1, OffersTyped DEF Sound, Valid, State
  <2>3. ServerTyped'
    <3>1. NewGrant(o, NONE) \in Grant
      BY <1>3, NewGrantTyped DEF Inv
    <3> QED
      BY <1>3, <2>1, <3>1 DEF Inv, TypeOK, ServerTyped
  <2>4. LocalsTyped'
    BY <1>1, <1>3, <2>2 DEF Inv, TypeOK, LocalsTyped, Goto, PCs, Thens, Sound
  <2>5. CallersTyped' /\ FileTyped' /\ hosts' \in 0..MaxHosts /\ lost' \subseteq Grants
    BY <1>1 DEF Inv, TypeOK, CallersTyped, FileTyped, callerVars, fileVars
  <2>6. TypeOK'
    BY <2>3, <2>4, <2>5, TypeParts
  <2>7. Exclusion'
    BY <1>1, <1>3 DEF Inv, TypeOK, Exclusion, Holding, Goto
  <2>8. (ActorSound(a) /\ StoreSound(a))'
    BY <1>1, <1>2, <1>3, <2>2 DEF Inv, TypeOK, Goto, ActorSound, StoreSound, Storing, Sound
  <2>9. ASSUME NEW b \in Actors, b # a PROVE (ActorSound(b) /\ StoreSound(b))'
    BY <1>1, <1>3, <2>9, OthersSound DEF Inv, TypeOK, Goto, fileVars
  <2>10. FileSound'
    BY <1>1 DEF Inv, FileSound, Stored, fileVars
  <2> QED
    BY <2>6, <2>7, <2>8, <2>9, <2>10 DEF Inv
<1>4. CASE Finish(a) /\ UNCHANGED serverVars
  <2>1. CallersTyped' /\ ServerTyped' /\ lost' \subseteq Grants
    BY <1>1, <1>4 DEF Inv, TypeOK, CallersTyped, ServerTyped, callerVars, serverVars
  <2>2. lock' = IF lock = a THEN NONE ELSE lock
    BY <1>1 DEF Inv, Exclusion, Holding
  <2> QED
    BY <1>1, <1>4, <2>1, <2>2, EndsQuietly
<1> QED
  BY <1>3, <1>4 DEF LoginExchange

LEMMA LoginCommitInv ==
  ASSUME Inv, NEW a \in Logins, LoginCommit(a)
  PROVE  Inv'
<1>1. /\ a \in Actors /\ pc[a] = "commit" /\ lock = NONE
      /\ UNCHANGED <<fileVars, callerVars, serverVars, hosts, lost>>
  BY DEF Actors, LoginCommit
<1>2. CASE lock' = a /\ Store(a, out[a], "idle") /\ UNCHANGED saved
  <2>1. Sound(out[a])
    BY <1>1 DEF Inv, ActorSound
  <2> QED
    BY <1>1, <1>2, <2>1, TakesAndStores DEF Inv, TypeOK, Thens
<1>3. CASE Finish(a) /\ UNCHANGED lock
  <2>1. CallersTyped' /\ ServerTyped' /\ lost' \subseteq Grants
    BY <1>1 DEF Inv, TypeOK, CallersTyped, ServerTyped, callerVars, serverVars
  <2>2. lock' = IF lock = a THEN NONE ELSE lock
    BY <1>1, <1>3
  <2> QED
    BY <1>1, <1>3, <2>1, <2>2, EndsQuietly
<1> QED
  BY <1>2, <1>3 DEF LoginCommit

LEMMA LogoutLoadInv ==
  ASSUME Inv, NEW a \in Logouts, LogoutLoad(a)
  PROVE  Inv'
<1>1. /\ a \in Actors /\ pc[a] = "idle" /\ lock = NONE /\ lock' = a /\ Loaded
      /\ saved' = [saved EXCEPT ![a] = file]
      /\ UNCHANGED <<fileVars, callerVars, serverVars, hosts, lost>>
  BY DEF Actors, LogoutLoad
<1>2. Sound(file) /\ file \in State
  BY <1>1, FileLoaded
<1>3. /\ saved' \in [Actors -> State \cup {NONE}]
      /\ \A b \in Actors : b # a => saved'[b] = saved[b]
  BY <1>1, <1>2 DEF Inv, TypeOK
<1>4. CASE Renewable(file) # NONE /\ Goto(a, "revoke") /\ UNCHANGED storeVars
  <2>1. LocalsTyped'
    BY <1>1, <1>3, <1>4 DEF Inv, TypeOK, LocalsTyped, Goto, PCs, Thens, storeVars
  <2>2. CallersTyped' /\ FileTyped' /\ ServerTyped' /\ hosts' \in 0..MaxHosts /\ lost' \subseteq Grants
    BY <1>1 DEF Inv, TypeOK, CallersTyped, FileTyped, ServerTyped, callerVars, fileVars, serverVars
  <2>3. TypeOK'
    BY <2>1, <2>2, TypeParts
  <2>4. Exclusion'
    BY <1>1, <1>4, ActorsDistinct DEF Inv, TypeOK, Exclusion, Holding, Goto
  <2>5. file.client # NONE
    BY <1>1, <1>4 DEF Loaded, Valid, Renewable
  <2>6. (ActorSound(a) /\ StoreSound(a))'
    BY <1>1, <1>2, <1>4, <2>5 DEF Inv, TypeOK, Goto, ActorSound, StoreSound, Storing, fileVars
  <2>7. ASSUME NEW b \in Actors, b # a PROVE (ActorSound(b) /\ StoreSound(b))'
    BY <1>1, <1>3, <1>4, <2>7, OthersSound DEF Inv, TypeOK, Goto, fileVars, storeVars
  <2>8. FileSound'
    BY <1>1 DEF Inv, FileSound, Stored, fileVars
  <2> QED
    BY <2>3, <2>4, <2>6, <2>7, <2>8 DEF Inv
<1>5. CASE Store(a, LoggedOut(file), "idle")
  <2>1. Sound(LoggedOut(file))
    BY <1>2 DEF Sound, Valid, State, LoggedOut
  <2>2. hosts' \in 0..MaxHosts
    BY <1>1 DEF Inv, TypeOK
  <2> QED
    BY <1>1, <1>3, <1>5, <2>1, <2>2, TakesAndStores DEF Thens
<1> QED
  BY <1>4, <1>5 DEF LogoutLoad

LEMMA InvInductive == Inv /\ [Next]_vars => Inv'
<1> SUFFICES ASSUME Inv, [Next]_vars PROVE Inv'
  OBVIOUS
<1>1. CASE UNCHANGED vars
  BY <1>1 DEF vars, Inv, TypeOK, Exclusion, ActorSound, StoreSound, FileSound, Stored,
     Sound, Valid, Renewable
<1>2. ASSUME NEW r \in Refreshers, RefreshStep(r) PROVE Inv'
  BY <1>2, RefreshLoadInv, CallerLeavesInv, CheckpointInv, ReauthenticateInv, RequestFailsInv,
     PromoteInv, KeysUnavailableInv, RejectIdentityInv DEF RefreshStep
<1>3. ASSUME NEW l \in Logins, LoginStep(l) PROVE Inv'
  BY <1>3, LoginStartInv, LoginRegisterInv, LoginExchangeInv, LoginCommitInv DEF LoginStep
<1>4. ASSUME NEW o \in Logouts, LogoutStep(o) PROVE Inv'
  BY <1>4, LogoutLoadInv, LogoutRevokeInv DEF LogoutStep
<1>5. ASSUME NEW a \in Actors, StorageStep(a) PROVE Inv'
  BY <1>5, TruncateInv, WriteInv, StoreFailsInv, CrashInv DEF StorageStep
<1>6. ASSUME NEW g \in Grants, Tick(g) PROVE Inv'
  BY <1>6, TickInv
<1> QED
  BY <1>1, <1>2, <1>3, <1>4, <1>5, <1>6 DEF Next

LEMMA Invariance == Spec => []Inv
BY InitInv, InvInductive, PTL DEF Spec

\* Every variable keeps its type.
THEOREM TypeCorrect == Spec => []TypeOK
<1>1. Inv => TypeOK
  BY DEF Inv
<1> QED
  BY <1>1, Invariance, PTL

\* The flock excludes: the operations that are between a load and the end of the
\* last store that depends on it are at most one, in any mix of processes.
THEOREM OneHolder ==
  Spec => [](\A a, b \in Actors : pc[a] \in Holding /\ pc[b] \in Holding => a = b)
<1>1. Inv => \A a, b \in Actors : pc[a] \in Holding /\ pc[b] \in Holding => a = b
  BY DEF Inv, Exclusion
<1> QED
  BY <1>1, Invariance, PTL

\* What any operation leaves in the file, the next load accepts, and it names at
\* most one renewable session (validate_chatgpt; logout revokes only one).
THEOREM FileStaysValid == Spec => []OneValidSession
<1>1. Inv => OneValidSession
  BY DEF Inv, FileSound, Sound, OneValidSession
<1> QED
  BY <1>1, Invariance, PTL
=============================================================================
