----------------------- MODULE TokenRefreshProofs -----------------------
(***************************************************************************)
(* Theorems about TokenRefresh, for both providers and any requests,       *)
(* processes, logins, accounts and number of grants.                       *)
(***************************************************************************)
EXTENDS TokenRefresh, TLAPS

Storing == {"truncate", "write"}
Refreshing == {"post"} \cup Storing

Known == 1..Len(grant)

\* Credentials made of grants of one account.
Issued(f) ==
  /\ f.access \in Known /\ f.refresh \in Known \cup {NONE}
  /\ f.refresh # NONE => grant[f.refresh].account = grant[f.access].account

\* A request that waits for the flock, or refreshes, found its token stale; what
\* it read under the flock is the file until it truncates it, and its owner's.
RequestSound(r) ==
  /\ pc[r] # "store"
  /\ saved[r] # NONE => Issued(saved[r])
  /\ pc[r] \in {"lock"} \cup Refreshing => saved[r] \in File
  /\ pc[r] \in {"lock", "post"} =>
       saved[r].access = rejected[r] \/ grant[saved[r].access].age # "fresh"
  /\ pc[r] \in Refreshing => saved[r].refresh # NONE /\ grant[saved[r].access].account = owner
  /\ pc[r] \in {"post", "truncate"} => file = saved[r]
  /\ pc[r] \in Storing => grant[out[r].access].account = owner

ActorSound(a) ==
  /\ out[a] # NONE => Issued(out[a])
  /\ pc[a] \in Storing \cup {"store"} => out[a] \in File

FileSound == Loaded => Issued(file) /\ grant[file.access].account = owner

Inv ==
  /\ TypeOK
  /\ \A r \in Requests : RequestSound(r)
  /\ \A a \in Actors : ActorSound(a)
  /\ FileSound

-----------------------------------------------------------------------------

\* Grants keep their accounts and do not get younger.
Grown ==
  /\ grant' \in Seq(Grant) /\ Len(grant) <= Len(grant') /\ Len(grant') <= MaxGrants
  /\ \A g \in Known : /\ grant'[g].account = grant[g].account
                      /\ grant[g].age # "fresh" => grant'[g].age # "fresh"

LEMMA InitInv == Init => Inv
<1> SUFFICES ASSUME Init PROVE Inv
  OBVIOUS
<1>1. TypeOK
  BY ConstantsTyped DEF Init, TypeOK, PCs, Actors
<1>2. \A r \in Requests : RequestSound(r)
  BY DEF Init, RequestSound, Refreshing, Storing, Actors
<1>3. \A a \in Actors : ActorSound(a)
  BY DEF Init, ActorSound, Storing
<1>4. FileSound
  BY DEF Init, FileSound, Loaded
<1> QED
  BY <1>1, <1>2, <1>3, <1>4 DEF Inv

LEMMA Same == ASSUME TypeOK, UNCHANGED grant PROVE Grown
BY DEF TypeOK, Grown, Known

LEMMA GrownIssued ==
  ASSUME Grown, NEW f \in File, Issued(f), ConstantsTyped
  PROVE  /\ f.access \in Known' /\ f.refresh \in Known' \cup {NONE}
         /\ f.refresh # NONE => grant'[f.refresh].account = grant'[f.access].account
         /\ grant'[f.access].account = grant[f.access].account
         /\ grant[f.access].age # "fresh" => grant'[f.access].age # "fresh"
BY DEF Grown, Issued, Known, File, Grants

\* A step does not disturb a request that keeps its locals, and, if it refreshes,
\* its file.
LEMMA RequestKept ==
  ASSUME Inv, Grown, NEW r \in Requests,
         pc'[r] = pc[r] /\ saved'[r] = saved[r] /\ rejected'[r] = rejected[r] /\ out'[r] = out[r],
         pc[r] \in Refreshing => UNCHANGED <<file, owner>>
  PROVE  RequestSound(r)'
<1>1. saved[r] \in File => saved[r] # NONE
  BY ConstantsTyped
<1>2. saved[r] # NONE => saved[r] \in File /\ Issued(saved[r])
  BY DEF Inv, TypeOK, RequestSound
<1>3. pc[r] \in Storing => out[r] \in File /\ Issued(out[r])
  BY ConstantsTyped DEF Inv, TypeOK, ActorSound, Actors
<1> QED
  BY <1>1, <1>2, <1>3, GrownIssued, ConstantsTyped
     DEF Inv, RequestSound, Refreshing, Storing, Issued

LEMMA ActorKept ==
  ASSUME Inv, Grown, NEW a \in Actors, pc'[a] = pc[a] /\ out'[a] = out[a]
  PROVE  ActorSound(a)'
<1>1. out[a] # NONE => out[a] \in File /\ Issued(out[a])
  BY DEF Inv, TypeOK, ActorSound
<1> QED
  BY <1>1, GrownIssued, ConstantsTyped DEF Inv, ActorSound, Issued

LEMMA FileKept ==
  ASSUME Inv, Grown, UNCHANGED <<file, owner>> PROVE FileSound'
BY GrownIssued, ConstantsTyped DEF Inv, TypeOK, FileSound, Loaded, Issued

\* A step of request r that changes none of the shared data but what r holds.
LEMMA LocalStep ==
  ASSUME Inv, Grown, NEW r \in Requests, TypeOK', RequestSound(r)', UNCHANGED <<file, owner, out>>,
         \A a \in Actors \ {r} : pc'[a] = pc[a],
         \A q \in Requests \ {r} : saved'[q] = saved[q] /\ rejected'[q] = rejected[q],
         pc'[r] \notin Storing \cup {"store"}
  PROVE  Inv'
<1>1. \A q \in Requests : RequestSound(q)'
  BY RequestKept DEF Actors
<1>2. ActorSound(r)'
  <2>1. out[r] # NONE => out[r] \in File /\ Issued(out[r])
    BY DEF Inv, TypeOK, ActorSound, Actors
  <2> QED
    BY <2>1, GrownIssued, ConstantsTyped DEF ActorSound, Issued
<1>3. \A a \in Actors : ActorSound(a)'
  BY <1>2, ActorKept
<1> QED
  BY <1>1, <1>3, FileKept DEF Inv

\* A request that goes where nothing is asked of its locals.
LEMMA Unburdened ==
  ASSUME Inv, Grown, NEW r \in Requests, pc'[r] \notin {"store", "lock"} \cup Refreshing,
         saved'[r] \in {saved[r], NONE}
  PROVE  RequestSound(r)'
<1>1. saved[r] # NONE => saved[r] \in File /\ Issued(saved[r])
  BY DEF Inv, TypeOK, RequestSound
<1> QED
  BY <1>1, GrownIssued, ConstantsTyped DEF RequestSound, Refreshing, Storing, Issued

LEMMA BeginInv ==
  ASSUME Inv, NEW r \in Requests, Begin(r) PROVE Inv'
<1>1. Grown
  BY Same DEF Begin, Inv
<1>2. TypeOK'
  BY ConstantsTyped DEF Inv, TypeOK, Begin, Goto, PCs, Actors, cacheVars, historyVars
<1>3. pc'[r] = "mutex" /\ \A a \in Actors \ {r} : pc'[a] = pc[a]
  BY DEF Begin, Goto, Inv, TypeOK, Actors
<1> QED
  BY <1>1, <1>2, <1>3, LocalStep, Unburdened DEF Begin, historyVars, Refreshing, Storing

LEMMA TakeMutexInv ==
  ASSUME Inv, NEW r \in Requests, TakeMutex(r) PROVE Inv'
<1>1. Grown
  BY Same DEF TakeMutex, Inv
<1>2. TypeOK'
  BY ConstantsTyped DEF Inv, TypeOK, TakeMutex, Goto, PCs, Actors, cacheVars, historyVars
<1>3. pc'[r] = "load" /\ \A a \in Actors \ {r} : pc'[a] = pc[a]
  BY DEF TakeMutex, Goto, Inv, TypeOK, Actors
<1> QED
  BY <1>1, <1>2, <1>3, LocalStep, Unburdened DEF TakeMutex, historyVars, Refreshing, Storing

LEMMA DropTyped ==
  ASSUME TypeOK, NEW rs \in SUBSET Actors, Drop(rs),
         file' \in File \cup {EMPTY, CORRUPT}, cache' \in [Procs -> Grants \cup {NONE}],
         Grown, lost' \subseteq Grants, owner' \in Accounts \cup {NONE}
  PROVE  TypeOK'
<1>1. /\ pc' \in [Actors -> PCs]
      /\ out' \in [Actors -> File \cup {NONE}]
      /\ saved' \in [Requests -> File \cup {NONE}]
      /\ rejected' \in [Requests -> Grants \cup {NONE}]
      /\ token' \in [Requests -> Grants \cup {NONE}]
      /\ endpoint' \in [Requests -> Grants \cup {NONE}]
      /\ mutex' \in [Procs -> Requests \cup {NONE}]
      /\ discovering' \in [Procs -> Requests \cup {NONE}]
      /\ lock' \in Actors \cup {NONE}
  BY DEF TypeOK, Drop, PCs
<1>2. \A a \in Actors : (pc'[a] \in {"post", "truncate", "write"}) <=> (lock' = a)
  BY ConstantsTyped DEF TypeOK, Drop
<1>3. \A r \in Requests :
       (pc'[r] \in {"load", "lock", "post", "truncate", "write"}) <=> (mutex'[procOf[r]] = r)
  BY ConstantsTyped DEF TypeOK, Drop, Actors
<1>4. \A r \in Requests : (pc'[r] = "discover") <=> (discovering'[procOf[r]] = r)
  BY ConstantsTyped DEF TypeOK, Drop, Actors
<1> QED
  BY <1>1, <1>2, <1>3, <1>4 DEF TypeOK, Grown

LEMMA AccountsTyped ==
  ASSUME TypeOK, NEW g \in Known PROVE grant[g] \in Grant /\ grant[g].account \in Accounts
<1>1. grant[g] \in Grant
  BY DEF TypeOK, Known
<1> QED
  BY <1>1 DEF Grant

\* The actors of rs go; their holder of the flock may have torn the file.
LEMMA DropInv ==
  ASSUME Inv, NEW rs \in SUBSET Actors, Drop(rs), Grown, lost' \subseteq Grants,
         cache' \in [Procs -> Grants \cup {NONE}],
         UNCHANGED <<file, owner>> \/ \E a \in rs : lock = a /\ Tear(a)
  PROVE  Inv'
<1>f. /\ file' \in File \cup {EMPTY, CORRUPT} /\ owner' \in Accounts \cup {NONE}
      /\ \A a \in Actors \ rs : pc[a] \in Refreshing => UNCHANGED <<file, owner>>
  <2>1. CASE UNCHANGED <<file, owner>>
    BY <2>1 DEF Inv, TypeOK
  <2>2. CASE \E a \in rs : lock = a /\ Tear(a)
    <3>1. PICK a \in rs : lock = a /\ Tear(a)
      BY <2>2
    <3>2. /\ out[a] \in File => /\ Issued(out[a])
                               /\ grant[out[a].access].account \in Accounts
          /\ pc[a] \in Storing => out[a] \in File
      <4>1. \A g \in Known : grant[g].account \in Accounts
        BY AccountsTyped DEF Inv
      <4>2. /\ out[a] \in File => Issued(out[a])
            /\ pc[a] \in Storing => out[a] \in File
        BY <3>1, ConstantsTyped DEF Inv, ActorSound
      <4> QED
        BY <4>1, <4>2 DEF Issued
    <3> QED
      BY <3>1, <3>2 DEF Tear, Inv, TypeOK, Refreshing, Storing
  <2> QED
    BY <2>1, <2>2
<1>1. TypeOK'
  BY <1>f, DropTyped DEF Inv
<1>2. \A r \in Requests : RequestSound(r)'
  <2> SUFFICES ASSUME NEW r \in Requests PROVE RequestSound(r)'
    OBVIOUS
  <2>1. CASE r \in rs
    BY <2>1 DEF Drop, RequestSound, Refreshing, Storing, Actors
  <2>2. CASE r \notin rs
    <3>1. pc'[r] = pc[r] /\ saved'[r] = saved[r] /\ rejected'[r] = rejected[r] /\ out'[r] = out[r]
      BY <2>2 DEF Drop, Actors
    <3>2. pc[r] \in Refreshing => UNCHANGED <<file, owner>>
      BY <1>f, <2>2 DEF Actors
    <3> QED
      BY <3>1, <3>2, RequestKept
  <2> QED
    BY <2>1, <2>2
<1>3. \A a \in Actors : ActorSound(a)'
  <2> SUFFICES ASSUME NEW a \in Actors PROVE ActorSound(a)'
    OBVIOUS
  <2>1. CASE a \in rs
    BY <2>1 DEF Drop, ActorSound, Storing
  <2>2. CASE a \notin rs
    <3>1. pc'[a] = pc[a] /\ out'[a] = out[a]
      BY <2>2 DEF Drop
    <3> QED
      BY <3>1, ActorKept
  <2> QED
    BY <2>1, <2>2
<1>4. FileSound'
  <2> SUFFICES ASSUME file' \notin {EMPTY, CORRUPT}
               PROVE  Issued(file)' /\ grant'[file'.access].account = owner'
    BY DEF FileSound, Loaded
  <2>1. CASE UNCHANGED <<file, owner>>
    BY <2>1, FileKept DEF FileSound, Loaded
  <2>2. CASE \E a \in rs : lock = a /\ Tear(a)
    <3>1. PICK a \in rs : lock = a /\ Tear(a)
      BY <2>2
    <3>2. CASE UNCHANGED <<file, owner>>
      BY <3>2, <2>1
    <3>3. CASE pc[a] = "write" /\ file' = out[a]
      <4>1. out[a] \in File /\ Issued(out[a])
        BY <3>3, ConstantsTyped DEF Inv, ActorSound, Storing
      <4>2. grant[out[a].access].account = owner'
        BY <3>1, <3>3, <4>1, ConstantsTyped
           DEF Tear, Inv, RequestSound, Refreshing, Storing, Actors
      <4> QED
        BY <3>3, <4>1, <4>2, GrownIssued, ConstantsTyped DEF Issued
    <3> QED
      BY <3>1, <3>2, <3>3 DEF Tear
  <2> QED
    BY <2>1, <2>2
<1> QED
  BY <1>1, <1>2, <1>3, <1>4 DEF Inv

\* What a change of one grant's renewal leaves alone.
LEMMA Renewed ==
  ASSUME TypeOK, NEW t \in Known, NEW x \in {"none", "live", "lapsed", "consumed"}
  PROVE  /\ SetRenewal(t, x) \in Seq(Grant) /\ Len(SetRenewal(t, x)) = Len(grant)
         /\ \A g \in Known : /\ SetRenewal(t, x)[g].account = grant[g].account
                             /\ SetRenewal(t, x)[g].age = grant[g].age
<1> DEFINE s == [grant EXCEPT ![t].renewal = x]
<1>1. grant \in Seq(Grant) /\ \A g \in Known : grant[g] \in Grant
  BY DEF TypeOK, Known
<1>2. [grant[t] EXCEPT !.renewal = x] \in Grant
  BY <1>1 DEF Grant
<1>3. \A g \in Known : s[g] = IF g = t THEN [grant[t] EXCEPT !.renewal = x] ELSE grant[g]
  BY <1>1 DEF Known
<1>4. s \in Seq(Grant) /\ Len(s) = Len(grant)
  BY <1>1, <1>2 DEF Known
<1>5. \A g \in Known : s[g].account = grant[g].account /\ s[g].age = grant[g].age
  BY <1>1, <1>3 DEF Grant
<1> QED
  BY <1>4, <1>5 DEF SetRenewal

LEMMA Aged ==
  ASSUME TypeOK, NEW t \in Known, NEW x \in {"due", "expired"}
  PROVE  /\ SetAge(t, x) \in Seq(Grant) /\ Len(SetAge(t, x)) = Len(grant)
         /\ \A g \in Known : /\ SetAge(t, x)[g].account = grant[g].account
                             /\ grant[g].age # "fresh" => SetAge(t, x)[g].age # "fresh"
<1> DEFINE s == [grant EXCEPT ![t].age = x]
<1>1. grant \in Seq(Grant) /\ \A g \in Known : grant[g] \in Grant
  BY DEF TypeOK, Known
<1>2. [grant[t] EXCEPT !.age = x] \in Grant
  BY <1>1 DEF Grant
<1>3. \A g \in Known : s[g] = IF g = t THEN [grant[t] EXCEPT !.age = x] ELSE grant[g]
  BY <1>1 DEF Known
<1>4. s \in Seq(Grant) /\ Len(s) = Len(grant)
  BY <1>1, <1>2 DEF Known
<1>5. \A g \in Known : /\ s[g].account = grant[g].account
                      /\ grant[g].age # "fresh" => s[g].age # "fresh"
  BY <1>1, <1>3 DEF Grant
<1> QED
  BY <1>4, <1>5 DEF SetAge

\* A grant is consumed, nothing else of it changes.
LEMMA UnseenGrown ==
  ASSUME Inv, NEW r \in Requests, pc[r] = "post", Unseen(r)
  PROVE  Grown /\ lost' \subseteq Grants
<1>1. saved[r].refresh \in Grants
  BY DEF Inv, TypeOK, RequestSound, Refreshing, File
<1>2. CASE UNCHANGED <<grant, lost>>
  BY <1>2, Same DEF Inv, TypeOK
<1>3. CASE ~UNCHANGED <<grant, lost>>
  <2> DEFINE t == saved[r].refresh
  <2>1. grant' = SetRenewal(t, "consumed") /\ lost' \subseteq Grants
    BY <1>1, <1>3 DEF Inv, TypeOK, Unseen
  <2>2. t \in Known
    BY ConstantsTyped DEF Inv, TypeOK, RequestSound, Refreshing, Issued
  <2> QED
    BY <2>1, <2>2, Renewed DEF Inv, TypeOK, Grown
<1> QED
  BY <1>2, <1>3

LEMMA FailInv ==
  ASSUME Inv, NEW r \in Requests, Fail(r) PROVE Inv'
<1>1. Grown
  BY Same DEF Fail, Inv
<1> QED
  BY <1>1, DropInv DEF Fail, Inv, TypeOK, historyVars, Actors

LEMMA CancelInv ==
  ASSUME Inv, NEW r \in Requests, Cancel(r) PROVE Inv'
<1>1. Grown /\ lost' \subseteq Grants
  BY Same, UnseenGrown DEF Cancel, Inv, TypeOK
<1> QED
  BY <1>1, DropInv DEF Cancel, Inv, TypeOK, Actors

LEMMA RefreshFailsInv ==
  ASSUME Inv, NEW r \in Requests, RefreshFails(r) PROVE Inv'
<1>1. Grown /\ lost' \subseteq Grants
  BY UnseenGrown DEF RefreshFails
<1> QED
  BY <1>1, DropInv DEF RefreshFails, Inv, TypeOK, Actors

\* What a store that fails adds to lost.
LEMMA UnstoredTyped ==
  ASSUME Inv, NEW a \in Actors, pc[a] \in Storing \cup {"store"}
  PROVE  Unstored(a) \subseteq Grants
<1>1. a \in Requests => saved[a].refresh \in Grants
  BY DEF Inv, TypeOK, RequestSound, Refreshing, Storing, File
<1> QED
  BY <1>1 DEF Unstored, Inv, TypeOK

LEMMA StoreFailsInv ==
  ASSUME Inv, NEW a \in Actors, StoreFails(a) PROVE Inv'
<1>1. Grown
  BY Same DEF StoreFails, Inv
<1>2. lost' \subseteq Grants
  BY UnstoredTyped DEF StoreFails, Storing
<1>3. UNCHANGED <<file, owner>> \/ lock = a
  BY DEF StoreFails, Tear, Inv, TypeOK
<1> QED
  BY <1>1, <1>2, <1>3, DropInv DEF StoreFails, Inv, TypeOK

LEMMA CrashInv ==
  ASSUME Inv, NEW p \in Procs, Crash(p) PROVE Inv'
<1> DEFINE rs == {r \in Requests : procOf[r] = p /\ pc[r] # "idle"}
<1>1. Drop(rs) /\ rs \in SUBSET Actors /\ cache' \in [Procs -> Grants \cup {NONE}]
  BY DEF Crash, Actors, Inv, TypeOK
<1>2. CASE lock \notin rs /\ UNCHANGED <<file, grant, lost, owner>>
  BY <1>1, <1>2, Same, DropInv DEF Inv, TypeOK
<1>3. CASE lock \in rs /\ pc[lock] = "post" /\ Unseen(lock) /\ UNCHANGED <<file, owner>>
  BY <1>1, <1>3, UnseenGrown, DropInv
<1>4. CASE lock \in rs /\ pc[lock] # "post" /\ Tear(lock) /\ lost' = Unstored(lock) /\ UNCHANGED grant
  <2>1. pc[lock] \in Storing
    BY <1>4 DEF Inv, TypeOK, Storing, Actors
  <2>2. lost' \subseteq Grants
    BY <1>4, <2>1, UnstoredTyped DEF Actors
  <2>3. Grown
    BY <1>4, Same DEF Inv
  <2> QED
    BY <1>1, <1>4, <2>2, <2>3, DropInv
<1> QED
  BY <1>2, <1>3, <1>4 DEF Crash

\* credentials returns what is in the file.
LEMMA ReturnInv ==
  ASSUME Inv, NEW r \in Requests, pc[r] \in {"load", "lock"}, Loaded, Return(r, file.access),
         UNCHANGED <<file, lock, out, grant, historyVars>>
  PROVE  Inv'
<1>1. Grown
  BY Same DEF Inv
<1>2. file.access \in Grants
  BY DEF Inv, TypeOK, Loaded, File
<1>3. TypeOK'
  <2>1. PICK p \in {"endpoint", "send"} : Goto(r, p)
    BY DEF Return
  <2>2. /\ pc' \in [Actors -> PCs] /\ token' \in [Requests -> Grants \cup {NONE}]
        /\ saved' \in [Requests -> File \cup {NONE}]
        /\ mutex' \in [Procs -> Requests \cup {NONE}]
    BY <1>2, <2>1, ConstantsTyped DEF Inv, TypeOK, Return, Goto, PCs
  <2>3. \A a \in Actors : (pc'[a] \in {"post", "truncate", "write"}) <=> (lock' = a)
    BY <2>1, ConstantsTyped DEF Inv, TypeOK, Goto, Actors
  <2>4. \A q \in Requests :
         /\ (pc'[q] \in {"load", "lock", "post", "truncate", "write"}) <=> (mutex'[procOf[q]] = q)
         /\ (pc'[q] = "discover") <=> (discovering'[procOf[q]] = q)
    <3> SUFFICES ASSUME NEW q \in Requests
                 PROVE  /\ (pc'[q] \in {"load", "lock", "post", "truncate", "write"})
                              <=> (mutex'[procOf[q]] = q)
                        /\ (pc'[q] = "discover") <=> (discovering'[procOf[q]] = q)
      OBVIOUS
    <3>1. /\ pc'[q] = IF q = r THEN p ELSE pc[q]
          /\ mutex'[procOf[q]] = IF procOf[q] = procOf[r] THEN NONE ELSE mutex[procOf[q]]
          /\ discovering' = discovering
      BY <2>1, ConstantsTyped DEF Inv, TypeOK, Return, Goto, Actors, cacheVars
    <3>2. /\ mutex[procOf[r]] = r /\ q # NONE
          /\ (pc[q] \in {"load", "lock", "post", "truncate", "write"}) <=> (mutex[procOf[q]] = q)
          /\ (pc[q] = "discover") <=> (discovering[procOf[q]] = q)
      BY ConstantsTyped DEF Inv, TypeOK, Actors
    <3> QED
      BY <3>1, <3>2
  <2> QED
    BY <2>2, <2>3, <2>4 DEF Inv, TypeOK, Return, cacheVars, historyVars
<1>4. /\ pc'[r] \in {"endpoint", "send"} /\ \A a \in Actors \ {r} : pc'[a] = pc[a]
      /\ saved'[r] = NONE /\ \A q \in Requests \ {r} : saved'[q] = saved[q]
  BY DEF Return, Goto, Inv, TypeOK, Actors
<1> QED
  BY <1>1, <1>3, <1>4, LocalStep, Unburdened DEF Return, historyVars, Refreshing, Storing

LEMMA LoadInv ==
  ASSUME Inv, NEW r \in Requests, Load(r) PROVE Inv'
<1>1. CASE Fail(r)
  BY <1>1, FailInv
<1>2. CASE Return(r, file.access) /\ Loaded /\ UNCHANGED <<file, lock, out, grant, historyVars>>
  BY <1>2, ReturnInv DEF Load
<1>3. CASE /\ Loaded /\ ~Reusable(file.access, r)
           /\ saved' = [saved EXCEPT ![r] = file]
           /\ Goto(r, "lock")
           /\ UNCHANGED <<file, lock, mutex, rejected, out, token, endpoint, cacheVars, grant,
                          historyVars>>
  <2>1. Grown
    BY <1>3, Same DEF Inv
  <2>2. pc[r] = "load" /\ lock = NONE
    BY DEF Load
  <2>3. TypeOK'
    BY <1>3, <2>2, ConstantsTyped
       DEF Inv, TypeOK, Loaded, Goto, PCs, Actors, cacheVars, historyVars
  <2>4. /\ pc'[r] = "lock" /\ \A a \in Actors \ {r} : pc'[a] = pc[a]
        /\ saved'[r] = file /\ \A q \in Requests \ {r} : saved'[q] = saved[q]
    BY <1>3 DEF Goto, Inv, TypeOK, Actors
  <2>5. file \in File /\ Issued(file)
    BY <1>3 DEF Inv, TypeOK, FileSound, Loaded
  <2>6. file.access = rejected[r] \/ grant[file.access].age # "fresh"
    BY <1>3, <2>5, AccountsTyped DEF Reusable, Issued, Inv
  <2>7. RequestSound(r)'
    BY <1>3, <2>1, <2>4, <2>5, <2>6, GrownIssued, ConstantsTyped
       DEF RequestSound, Refreshing, Storing, Issued
  <2> QED
    BY <1>3, <2>1, <2>3, <2>4, <2>7, LocalStep DEF Storing, historyVars
<1> QED
  BY <1>1, <1>2, <1>3 DEF Load

LEMMA ReloadInv ==
  ASSUME Inv, NEW r \in Requests, Reload(r) PROVE Inv'
<1>1. CASE Fail(r)
  BY <1>1, FailInv
<1>2. CASE Return(r, file.access) /\ Loaded /\ UNCHANGED <<file, lock, out, grant, historyVars>>
  BY <1>2, ReturnInv DEF Reload
<1>3. CASE /\ Loaded /\ ~Replaced(r)
           /\ file.refresh # NONE /\ grant[file.refresh].renewal # "lapsed"
           /\ lock' = r
           /\ saved' = [saved EXCEPT ![r] = file]
           /\ Goto(r, "post")
           /\ UNCHANGED <<file, mutex, rejected, out, token, endpoint, cacheVars, grant,
                          historyVars>>
  <2>1. Grown
    BY <1>3, Same DEF Inv
  <2>2. pc[r] = "lock" /\ lock = NONE
    BY DEF Reload
  <2>3. TypeOK'
    BY <1>3, <2>2, ConstantsTyped
       DEF Inv, TypeOK, Loaded, Goto, PCs, Actors, cacheVars, historyVars
  <2>4. /\ pc'[r] = "post" /\ \A a \in Actors \ {r} : pc'[a] = pc[a]
        /\ saved'[r] = file /\ \A q \in Requests \ {r} : saved'[q] = saved[q]
    BY <1>3 DEF Goto, Inv, TypeOK, Actors
  <2>5. file \in File /\ Issued(file) /\ grant[file.access].account = owner
    BY <1>3 DEF Inv, TypeOK, FileSound, Loaded
  <2>6. file.access = rejected[r] \/ grant[file.access].age # "fresh"
    BY <1>3, <2>2, <2>5 DEF Replaced, Inv, RequestSound
  <2>7. RequestSound(r)'
    BY <1>3, <2>1, <2>4, <2>5, <2>6, GrownIssued, ConstantsTyped
       DEF RequestSound, Refreshing, Storing, Issued, historyVars
  <2> QED
    BY <1>3, <2>1, <2>3, <2>4, <2>7, LocalStep DEF Storing, historyVars
<1> QED
  BY <1>1, <1>2, <1>3 DEF Reload

LEMMA FindEndpointInv ==
  ASSUME Inv, NEW r \in Requests, FindEndpoint(r) PROVE Inv'
<1>1. Grown
  BY Same DEF FindEndpoint, Inv
<1>2. TypeOK'
  BY ConstantsTyped DEF Inv, TypeOK, FindEndpoint, Goto, PCs, Actors, cacheVars, historyVars
<1>3. pc'[r] \in {"send", "discover"} /\ \A a \in Actors \ {r} : pc'[a] = pc[a]
  BY DEF FindEndpoint, Goto, Inv, TypeOK, Actors
<1> QED
  BY <1>1, <1>2, <1>3, LocalStep, Unburdened DEF FindEndpoint, historyVars, Refreshing, Storing

LEMMA DiscoveredInv ==
  ASSUME Inv, NEW r \in Requests, Discovered(r) PROVE Inv'
<1>1. Grown
  BY Same DEF Discovered, Inv
<1>2. TypeOK'
  <2>1. /\ pc' \in [Actors -> PCs] /\ endpoint' \in [Requests -> Grants \cup {NONE}]
        /\ cache' \in [Procs -> Grants \cup {NONE}]
        /\ discovering' \in [Procs -> Requests \cup {NONE}]
    BY ConstantsTyped DEF Inv, TypeOK, Discovered, Goto, PCs
  <2>2. \A q \in Requests : (pc'[q] = "discover") <=> (discovering'[procOf[q]] = q)
    <3> SUFFICES ASSUME NEW q \in Requests
                 PROVE  (pc'[q] = "discover") <=> (discovering'[procOf[q]] = q)
      OBVIOUS
    <3>1. /\ pc'[q] = IF q = r THEN "send" ELSE pc[q]
          /\ discovering'[procOf[q]] =
               IF procOf[q] = procOf[r] THEN NONE ELSE discovering[procOf[q]]
      BY ConstantsTyped DEF Inv, TypeOK, Discovered, Goto, Actors
    <3>2. /\ discovering[procOf[r]] = r /\ q # NONE
          /\ (pc[q] = "discover") <=> (discovering[procOf[q]] = q)
      BY ConstantsTyped DEF Inv, TypeOK, Discovered, Actors
    <3> QED
      BY <3>1, <3>2
  <2> QED
    BY <2>1, <2>2 DEF Inv, TypeOK, Discovered, Goto, Actors, historyVars
<1>3. pc'[r] = "send" /\ \A a \in Actors \ {r} : pc'[a] = pc[a]
  BY DEF Discovered, Goto, Inv, TypeOK, Actors
<1> QED
  BY <1>1, <1>2, <1>3, LocalStep, Unburdened DEF Discovered, historyVars, Refreshing, Storing

LEMMA UnauthorizedInv ==
  ASSUME Inv, NEW r \in Requests, Unauthorized(r) PROVE Inv'
<1>1. Grown
  BY Same DEF Unauthorized, Inv
<1>2. TypeOK'
  BY ConstantsTyped DEF Inv, TypeOK, Unauthorized, Goto, PCs, Actors, cacheVars, historyVars
<1>3. /\ pc'[r] = "mutex" /\ \A a \in Actors \ {r} : pc'[a] = pc[a]
      /\ \A q \in Requests \ {r} : rejected'[q] = rejected[q]
  BY DEF Unauthorized, Goto, Inv, TypeOK, Actors
<1> QED
  BY <1>1, <1>2, <1>3, LocalStep, Unburdened DEF Unauthorized, historyVars, Refreshing, Storing

\* What a new grant leaves alone.
LEMMA Granted ==
  ASSUME TypeOK, Len(grant) < MaxGrants, NEW s \in Seq(Grant), Len(s) = Len(grant),
         \A g \in Known : s[g].account = grant[g].account /\ s[g].age = grant[g].age,
         NEW x \in Grant, grant' = Append(s, x)
  PROVE  /\ Grown
         /\ Len(grant) + 1 \in Known' /\ Len(grant) + 1 \in Grants
         /\ grant'[Len(grant) + 1] = x
<1>1. /\ grant' \in Seq(Grant) /\ Len(grant') = Len(grant) + 1
      /\ grant'[Len(grant) + 1] = x /\ \A g \in Known : grant'[g] = s[g]
  BY DEF Known
<1>2. Len(grant) \in Nat /\ MaxGrants \in Nat
  BY ConstantsTyped DEF TypeOK
<1> QED
  BY <1>1, <1>2 DEF Grown, Known, Grants

LEMMA RefreshInv ==
  ASSUME Inv, NEW r \in Requests, Refresh(r) PROVE Inv'
<1> DEFINE t == saved[r].refresh
           g == Len(grant) + 1
<1>1. /\ pc[r] = "post" /\ lock = r /\ UNCHANGED <<file, owner>>
      /\ saved[r] \in File /\ Issued(saved[r]) /\ t \in Known /\ t \in Grants
      /\ saved[r] = file /\ grant[saved[r].access].account = owner
  BY ConstantsTyped DEF Refresh, Inv, TypeOK, RequestSound, Refreshing, Issued, File, Actors
<1>2. PICK a \in Accounts, renewable \in BOOLEAN :
        /\ Copilot => a = grant[t].account
        /\ Rotate(t, a, renewable)
        /\ \/ /\ SameAccount(g, saved[r].access)
              /\ out' = [out EXCEPT ![r] = [access |-> g, refresh |-> Renewal(g, t)]]
              /\ Goto(r, "truncate")
              /\ UNCHANGED <<lock, mutex, rejected, saved, token, endpoint, cacheVars, lost>>
           \/ /\ ~SameAccount(g, saved[r].access)
              /\ Drop({r})
              /\ lost' = IF renewable THEN lost \cup {t} ELSE lost
              /\ UNCHANGED cache
  BY DEF Refresh
<1> DEFINE u == IF renewable THEN SetRenewal(t, "consumed") ELSE grant
<1>3. /\ u \in Seq(Grant) /\ Len(u) = Len(grant)
      /\ \A h \in Known : u[h].account = grant[h].account /\ u[h].age = grant[h].age
  BY <1>1, Renewed DEF Inv, TypeOK
<1>4. NewGrant(a, renewable) \in Grant /\ NewGrant(a, renewable).account = a
  BY DEF NewGrant, Grant
<1>5. /\ Grown /\ g \in Known' /\ g \in Grants
      /\ grant'[g] = NewGrant(a, renewable)
  BY <1>2, <1>3, <1>4, Granted DEF Rotate, Inv
<1>6. CASE ~SameAccount(g, saved[r].access)
  <2>1. lost' \subseteq Grants
    BY <1>1, <1>2, <1>6 DEF Inv, TypeOK
  <2> QED
    BY <1>1, <1>2, <1>5, <1>6, <2>1, DropInv DEF Inv, TypeOK, Actors
<1>7. CASE SameAccount(g, saved[r].access)
  <2>1. /\ out' = [out EXCEPT ![r] = [access |-> g, refresh |-> Renewal(g, t)]]
        /\ pc' = [pc EXCEPT ![r] = "truncate"]
        /\ UNCHANGED <<lock, mutex, rejected, saved, token, endpoint, cacheVars, lost>>
    BY <1>2, <1>7 DEF Goto
  <2>2. /\ Renewal(g, t) \in {g, t}
        /\ grant'[t].account = grant[t].account
        /\ grant'[saved[r].access].account = owner
        /\ grant[t].account = owner
    BY <1>1, <1>5, GrownIssued, ConstantsTyped DEF Renewal, Issued, Grown
  <2>3. grant'[g].account = owner
    BY <1>2, <1>4, <1>5, <1>7, <2>2 DEF SameAccount
  <2>4. /\ out'[r] \in File /\ Issued(out[r])' /\ out'[r].access = g
    <3>1. out'[r] = [access |-> g, refresh |-> Renewal(g, t)]
      BY <2>1 DEF Inv, TypeOK, Actors
    <3>2. t \in Known'
      BY <1>1, <1>5, GrownIssued, ConstantsTyped
    <3> QED
      BY <1>1, <1>5, <2>2, <2>3, <3>1, <3>2 DEF File, Issued
  <2>5. /\ out' \in [Actors -> File \cup {NONE}] /\ pc' \in [Actors -> PCs]
        /\ pc'[r] = "truncate" /\ \A b \in Actors \ {r} : pc'[b] = pc[b] /\ out'[b] = out[b]
    BY <2>1, <2>4 DEF Inv, TypeOK, Actors, PCs
  <2>6. TypeOK'
    BY <1>1, <1>5, <2>1, <2>5 DEF Inv, TypeOK, Actors, cacheVars, Grown
  <2>7. \A q \in Requests : RequestSound(q)'
    <3>1. RequestSound(r)'
      BY <1>1, <1>5, <2>1, <2>2, <2>3, <2>4, <2>5, GrownIssued, ConstantsTyped
         DEF RequestSound, Refreshing, Storing, Issued
    <3> QED
      BY <1>1, <1>5, <2>1, <2>5, <3>1, RequestKept DEF Actors
  <2>8. \A b \in Actors : ActorSound(b)'
    <3>1. ActorSound(r)'
      BY <2>4 DEF ActorSound
    <3> QED
      BY <1>5, <2>5, <3>1, ActorKept
  <2> QED
    BY <1>1, <1>5, <2>6, <2>7, <2>8, FileKept DEF Inv
<1> QED
  BY <1>6, <1>7

LEMMA TruncateInv ==
  ASSUME Inv, NEW a \in Actors, Truncate(a) PROVE Inv'
<1>1. Grown
  BY Same DEF Truncate, Inv
<1>2. /\ pc' = [pc EXCEPT ![a] = "write"] /\ pc[a] = "truncate" /\ lock = a /\ file' = EMPTY
      /\ UNCHANGED <<lock, mutex, rejected, saved, out, token, endpoint, cacheVars, grant, owner>>
  BY DEF Truncate, Goto, Inv, TypeOK, historyVars
<1>3. TypeOK'
  BY <1>2, ConstantsTyped DEF Inv, TypeOK, Truncate, PCs, Actors, cacheVars, historyVars
<1>4. /\ pc'[a] = "write" /\ \A b \in Actors \ {a} : pc'[b] = pc[b]
      /\ \A b \in Actors \ {a} : pc[b] \notin Refreshing
  BY <1>2 DEF Inv, TypeOK, Actors, Refreshing, Storing
<1>5. \A r \in Requests : RequestSound(r)'
  <2> SUFFICES ASSUME NEW r \in Requests PROVE RequestSound(r)'
    OBVIOUS
  <2>1. CASE r = a
    BY <1>2, <1>4, <2>1, ConstantsTyped
       DEF Inv, RequestSound, Refreshing, Storing, Issued, Known, cacheVars
  <2>2. CASE r # a
    BY <1>1, <1>2, <1>4, <2>2, RequestKept DEF Actors
  <2> QED
    BY <2>1, <2>2
<1>6. \A b \in Actors : ActorSound(b)'
  BY <1>2, <1>4 DEF Inv, ActorSound, Storing, Issued, Known
<1>7. FileSound'
  BY <1>2 DEF FileSound, Loaded
<1> QED
  BY <1>3, <1>5, <1>6, <1>7 DEF Inv

LEMMA WriteInv ==
  ASSUME Inv, NEW a \in Actors, Write(a) PROVE Inv'
<1>1. Grown
  BY Same DEF Write, Inv
<1>2. /\ pc[a] = "write" /\ lock = a /\ file' = out[a] /\ lock' = NONE
      /\ out[a] \in File /\ Issued(out[a]) /\ out[a].access \in Grants
      /\ out' = [out EXCEPT ![a] = NONE] /\ UNCHANGED grant
  BY ConstantsTyped DEF Write, Inv, TypeOK, ActorSound, Storing, File
<1>3. /\ owner' = grant[out[a].access].account /\ owner' \in Accounts \cup {NONE}
      /\ a \in Requests => owner' = owner
  BY <1>2, AccountsTyped DEF Write, Inv, TypeOK, RequestSound, Storing, Issued, Actors
<1>4. PICK p \in {"idle", "endpoint", "send"} : pc' = [pc EXCEPT ![a] = p]
  BY DEF Write, Return, Goto
<1>5. /\ pc'[a] = p /\ out'[a] = NONE
      /\ \A b \in Actors \ {a} : pc'[b] = pc[b] /\ out'[b] = out[b]
      /\ \A b \in Actors \ {a} : pc[b] \notin Refreshing
      /\ \A r \in Requests \ {a} : saved'[r] = saved[r] /\ rejected'[r] = rejected[r]
      /\ a \in Requests => saved'[a] = NONE
  BY <1>2, <1>4 DEF Write, Return, Inv, TypeOK, Actors, Refreshing, Storing
<1>6. TypeOK'
  <2>1. /\ pc' \in [Actors -> PCs] /\ out' \in [Actors -> File \cup {NONE}]
        /\ saved' \in [Requests -> File \cup {NONE}]
        /\ token' \in [Requests -> Grants \cup {NONE}]
        /\ mutex' \in [Procs -> Requests \cup {NONE}]
    BY <1>2, <1>4, ConstantsTyped DEF Write, Return, Inv, TypeOK, PCs
  <2>2. \A b \in Actors : (pc'[b] \in {"post", "truncate", "write"}) <=> (lock' = b)
    BY <1>2, <1>5, ConstantsTyped DEF Refreshing, Storing
  <2>3. \A q \in Requests :
         /\ (pc'[q] \in {"load", "lock", "post", "truncate", "write"}) <=> (mutex'[procOf[q]] = q)
         /\ (pc'[q] = "discover") <=> (discovering'[procOf[q]] = q)
    <3> SUFFICES ASSUME NEW q \in Requests
                 PROVE  /\ (pc'[q] \in {"load", "lock", "post", "truncate", "write"})
                              <=> (mutex'[procOf[q]] = q)
                        /\ (pc'[q] = "discover") <=> (discovering'[procOf[q]] = q)
      OBVIOUS
    <3>1. /\ pc'[q] = IF q = a THEN p ELSE pc[q]
          /\ discovering' = discovering
      BY <1>5 DEF Write, Return, Actors, cacheVars
    <3>2. /\ q # NONE
          /\ (pc[q] \in {"load", "lock", "post", "truncate", "write"}) <=> (mutex[procOf[q]] = q)
          /\ (pc[q] = "discover") <=> (discovering[procOf[q]] = q)
      BY ConstantsTyped DEF Inv, TypeOK, Actors
    <3>3. mutex'[procOf[q]] =
            IF a \in Requests /\ procOf[q] = procOf[a] THEN NONE ELSE mutex[procOf[q]]
      BY ConstantsTyped DEF Write, Return, Inv, TypeOK
    <3>4. a \in Requests => mutex[procOf[a]] = a
      BY <1>2 DEF Inv, TypeOK
    <3> QED
      BY <1>2, <3>1, <3>2, <3>3, <3>4
  <2> QED
    BY <1>2, <1>3, <2>1, <2>2, <2>3 DEF Inv, TypeOK, Write, Return, cacheVars
<1>7. \A r \in Requests : RequestSound(r)'
  <2> SUFFICES ASSUME NEW r \in Requests PROVE RequestSound(r)'
    OBVIOUS
  <2>1. CASE r = a
    BY <1>1, <1>4, <1>5, <2>1, Unburdened DEF Refreshing, Storing
  <2>2. CASE r # a
    BY <1>1, <1>5, <2>2, RequestKept DEF Actors
  <2> QED
    BY <2>1, <2>2
<1>8. \A b \in Actors : ActorSound(b)'
  <2>1. ActorSound(a)'
    BY <1>5 DEF ActorSound, Storing
  <2> QED
    BY <1>1, <1>5, <2>1, ActorKept
<1>9. FileSound'
  BY <1>2, <1>3 DEF FileSound, Issued, Known
<1> QED
  BY <1>6, <1>7, <1>8, <1>9 DEF Inv

LEMMA LoginStoreInv ==
  ASSUME Inv, NEW l \in Logins, LoginStore(l) PROVE Inv'
<1>1. Grown
  BY Same DEF LoginStore, Inv
<1>2. TypeOK'
  BY ConstantsTyped DEF Inv, TypeOK, LoginStore, Goto, PCs, Actors, cacheVars, historyVars
<1>3. pc'[l] = "truncate" /\ pc[l] = "store" /\ \A a \in Actors \ {l} : pc'[a] = pc[a]
  BY DEF LoginStore, Goto, Inv, TypeOK, Actors
<1>4. \A r \in Requests : RequestSound(r)'
  BY <1>1, <1>3, RequestKept, ConstantsTyped DEF LoginStore, historyVars, Actors
<1>5. \A a \in Actors : ActorSound(a)'
  BY <1>3 DEF Inv, ActorSound, LoginStore, Storing, Issued, Known
<1> QED
  BY <1>1, <1>2, <1>4, <1>5, FileKept DEF Inv, LoginStore, historyVars

LEMMA LoginGrantedInv ==
  ASSUME Inv, NEW l \in Logins, LoginGranted(l) PROVE Inv'
<1> DEFINE g == Len(grant) + 1
<1>1. PICK a \in Accounts, renewable \in BOOLEAN :
        /\ grant' = Append(grant, NewGrant(a, renewable))
        /\ out' = [out EXCEPT ![l] = [access |-> g, refresh |-> IF renewable THEN g ELSE NONE]]
  BY DEF LoginGranted
<1>2. NewGrant(a, renewable) \in Grant
  BY DEF NewGrant, Grant
<1>3. Grown /\ g \in Known' /\ g \in Grants
  BY <1>1, <1>2, Granted DEF LoginGranted, Inv, TypeOK
<1>4. /\ pc[l] = "idle" /\ pc'[l] = "store" /\ \A b \in Actors \ {l} : pc'[b] = pc[b]
      /\ \A b \in Actors \ {l} : out'[b] = out[b]
      /\ out'[l] = [access |-> g, refresh |-> IF renewable THEN g ELSE NONE]
      /\ UNCHANGED <<file, saved, rejected, owner>>
  BY <1>1 DEF LoginGranted, Goto, Inv, TypeOK, Actors, historyVars
<1>5. out'[l] \in File /\ Issued(out[l])'
  BY <1>3, <1>4 DEF File, Issued
<1>6. TypeOK'
  <2>1. out' \in [Actors -> File \cup {NONE}] /\ pc' \in [Actors -> PCs]
    BY <1>1, <1>4, <1>5 DEF Inv, TypeOK, LoginGranted, Goto, PCs, Actors
  <2>2. UNCHANGED <<lock, mutex, rejected, saved, token, endpoint, cacheVars, file, historyVars>>
    BY DEF LoginGranted
  <2>3. \A b \in Actors : (pc'[b] \in {"post", "truncate", "write"}) <=> (lock' = b)
    BY <1>4, <2>2 DEF Inv, TypeOK
  <2>4. \A q \in Requests :
         /\ (pc'[q] \in {"load", "lock", "post", "truncate", "write"}) <=> (mutex'[procOf[q]] = q)
         /\ (pc'[q] = "discover") <=> (discovering'[procOf[q]] = q)
    BY <1>4, <2>2, ConstantsTyped DEF Inv, TypeOK, Actors, cacheVars
  <2> QED
    BY <1>3, <2>1, <2>2, <2>3, <2>4 DEF Inv, TypeOK, Grown, cacheVars, historyVars
<1>7. \A r \in Requests : RequestSound(r)'
  BY <1>3, <1>4, RequestKept, ConstantsTyped DEF Actors
<1>8. \A b \in Actors : ActorSound(b)'
  <2>1. ActorSound(l)'
    BY <1>5 DEF ActorSound
  <2> QED
    BY <1>3, <1>4, <2>1, ActorKept
<1> QED
  BY <1>3, <1>4, <1>6, <1>7, <1>8, FileKept DEF Inv

LEMMA LogoutInv == ASSUME Inv, Logout PROVE Inv'
<1>1. Grown
  BY Same DEF Logout, Inv
<1>2. TypeOK'
  BY DEF Inv, TypeOK, Logout, cacheVars
<1>3. \A a \in Actors : pc[a] \notin Refreshing
  BY ConstantsTyped DEF Inv, TypeOK, Logout, Refreshing, Storing
<1>4. \A r \in Requests : RequestSound(r)'
  BY <1>1, <1>3, RequestKept DEF Logout, Actors
<1>5. \A a \in Actors : ActorSound(a)'
  BY <1>1, ActorKept DEF Logout
<1>6. FileSound'
  BY DEF FileSound, Loaded, Logout
<1> QED
  BY <1>2, <1>4, <1>5, <1>6 DEF Inv

LEMMA TickInv == ASSUME Inv, NEW g \in Grants, Tick(g) PROVE Inv'
<1>1. UNCHANGED <<file, lock, mutex, pc, rejected, saved, out, token, endpoint, cacheVars,
                  historyVars>>
  BY DEF Tick
<1>2. g \in Known
  BY ConstantsTyped DEF Tick, Inv, FileSound, Issued, Grants
<1>3. Grown
  <2>1. CASE grant' = SetRenewal(g, "lapsed")
    BY <1>2, <2>1, Renewed DEF Inv, TypeOK, Grown
  <2>2. CASE grant' \in {SetAge(g, "due"), SetAge(g, "expired")}
    BY <1>2, <2>2, Aged DEF Inv, TypeOK, Grown
  <2> QED
    BY <2>1, <2>2 DEF Tick
<1>4. TypeOK'
  BY <1>1, <1>3 DEF Inv, TypeOK, Grown, cacheVars, historyVars
<1>5. \A r \in Requests : RequestSound(r)'
  BY <1>1, <1>3, RequestKept DEF historyVars
<1>6. \A a \in Actors : ActorSound(a)'
  BY <1>1, <1>3, ActorKept
<1> QED
  BY <1>1, <1>3, <1>4, <1>5, <1>6, FileKept DEF Inv, historyVars

-----------------------------------------------------------------------------
(* The theorems                                                            *)

LEMMA NextInv == Inv /\ [Next]_vars => Inv'
<1> SUFFICES ASSUME Inv, [Next]_vars PROVE Inv'
  OBVIOUS
<1>1. ASSUME NEW r \in Requests, RequestStep(r) PROVE Inv'
  <2>1. CASE DiscoveryFails(r) \/ Answered(r)
    BY <2>1, FailInv DEF DiscoveryFails, Answered
  <2> QED
    BY <1>1, <2>1, BeginInv, TakeMutexInv, LoadInv, ReloadInv, RefreshInv, RefreshFailsInv,
       FindEndpointInv, DiscoveredInv, UnauthorizedInv, CancelInv DEF RequestStep
<1>2. CASE UNCHANGED vars
  <2>1. Grown
    BY <1>2, Same DEF Inv, vars
  <2>2. TypeOK'
    BY <1>2 DEF Inv, TypeOK, vars
  <2>3. \A r \in Requests : RequestSound(r)'
    BY <1>2, <2>1, RequestKept DEF vars
  <2>4. \A a \in Actors : ActorSound(a)'
    BY <1>2, <2>1, ActorKept DEF vars
  <2> QED
    BY <1>2, <2>1, <2>2, <2>3, <2>4, FileKept DEF Inv, vars
<1> QED
  BY <1>1, <1>2, LoginGrantedInv, LoginStoreInv, TruncateInv, WriteInv, StoreFailsInv, LogoutInv,
     CrashInv, TickInv DEF Next

LEMMA Invariance == Spec => []Inv
BY InitInv, NextInv, PTL DEF Spec

\* Types, and the mutual exclusion that the mutex gives in a process, the flock
\* between all of them: its holder is the one actor between taking and releasing.
THEOREM TypeCorrect == Spec => []TypeOK
<1>1. Inv => TypeOK
  BY DEF Inv
<1> QED
  BY <1>1, Invariance, PTL

\* The stored token is of the account of the user's last login, and there is none
\* after a logout, whatever refreshes, failures, crashes and dropped requests do.
THEOREM FileFollowsUser == Spec => []FileIsOwners
<1>1. Inv => FileIsOwners
  BY DEF Inv, FileSound, FileIsOwners
<1> QED
  BY <1>1, Invariance, PTL

\* No request refreshes while the file has a token to go on with.
THEOREM OneRefreshes == Spec => []OnlyStaleIsRefreshed
<1>1. Inv => OnlyStaleIsRefreshed
  BY ConstantsTyped DEF Inv, RequestSound, Refreshing, Storing, OnlyStaleIsRefreshed, Loaded
<1> QED
  BY <1>1, Invariance, PTL

\* No request goes on with a token that was not stored.
THEOREM AnswersStored == Spec => AnswersAreStored
<1> DEFINE Stored(r) == token'[r] \notin {NONE, token[r]} =>
                          file' \notin {EMPTY, CORRUPT} /\ file'.access = token'[r]
<1>1. ASSUME Inv, [Next]_vars, NEW r \in Requests PROVE Stored(r)
  <2>1. CASE UNCHANGED token
    BY <2>1
  <2>2. ASSUME NEW rs, Drop(rs) PROVE Stored(r)
    BY <2>2 DEF Drop
  <2>3. ASSUME NEW q \in Requests, Loaded, Return(q, file.access), UNCHANGED file PROVE Stored(r)
    BY <2>3 DEF Return, Loaded, Inv, TypeOK
  <2>4. ASSUME NEW a \in Actors, Write(a) PROVE Stored(r)
    <3>1. file' = out[a] /\ out[a] \in File
      BY <1>1, <2>4 DEF Write, Inv, ActorSound, Storing
    <3>2. CASE a \in Requests
      BY <1>1, <2>4, <3>1, <3>2, ConstantsTyped DEF Write, Return, Inv, TypeOK
    <3>3. CASE a \notin Requests
      BY <2>4, <3>3 DEF Write
    <3> QED
      BY <3>2, <3>3
  <2>5. ASSUME NEW q \in Requests, RequestStep(q) PROVE Stored(r)
    <3>1. CASE Load(q)
      BY <3>1, <2>1, <2>2, <2>3 DEF Load, Fail
    <3>2. CASE Reload(q)
      BY <3>2, <2>1, <2>2, <2>3 DEF Reload, Fail
    <3>3. CASE Refresh(q)
      BY <3>3, <2>1, <2>2 DEF Refresh
    <3>4. CASE Unauthorized(q)
      BY <3>4 DEF Unauthorized, Inv, TypeOK
    <3>5. CASE Begin(q) \/ TakeMutex(q) \/ FindEndpoint(q) \/ Discovered(q)
      BY <3>5, <2>1 DEF Begin, TakeMutex, FindEndpoint, Discovered
    <3>6. CASE RefreshFails(q) \/ DiscoveryFails(q) \/ Answered(q) \/ Cancel(q)
      BY <3>6, <2>2 DEF RefreshFails, DiscoveryFails, Answered, Cancel, Fail
    <3> QED
      BY <2>5, <3>1, <3>2, <3>3, <3>4, <3>5, <3>6 DEF RequestStep
  <2>6. ASSUME NEW a \in Actors, StoreFails(a) PROVE Stored(r)
    BY <2>6, <2>2 DEF StoreFails
  <2>7. ASSUME NEW p \in Procs, Crash(p) PROVE Stored(r)
    BY <2>7, <2>2 DEF Crash
  <2>8. ASSUME NEW a \in Actors, Truncate(a) PROVE Stored(r)
    BY <2>8, <2>1 DEF Truncate
  <2>9. ASSUME NEW l \in Logins, LoginGranted(l) \/ LoginStore(l) PROVE Stored(r)
    BY <2>9, <2>1 DEF LoginGranted, LoginStore
  <2>10. CASE Logout
    BY <2>10, <2>1 DEF Logout
  <2>11. ASSUME NEW g \in Grants, Tick(g) PROVE Stored(r)
    BY <2>11, <2>1 DEF Tick
  <2>12. CASE UNCHANGED vars
    BY <2>12, <2>1 DEF vars
  <2> QED
    BY <1>1, <2>4, <2>5, <2>6, <2>7, <2>8, <2>9, <2>10, <2>11, <2>12 DEF Next
<1>2. Inv /\ [Next]_vars => [\A r \in Requests : Stored(r)]_vars
  BY <1>1
<1> QED
  BY <1>2, Invariance, PTL DEF Spec, AnswersAreStored
-----------------------------------------------------------------------------
(***************************************************************************)
(* Which access and refresh tokens a request may still meet, on top of Inv *)
(***************************************************************************)

\* What a has to store has not been in the file yet.
Pending(a) == pc[a] \in Storing \cup {"store"}

-----------------------------------------------------------------------------
(* Access tokens: none returns to the file                                 *)

\* The access tokens that are in the file, or were when a request took them from it.
Seen ==
  {rejected[r] : r \in Requests} \cup {token[r] : r \in Requests}
  \cup (IF Loaded THEN {file.access} ELSE {})

NewAccess(a) ==
  Pending(a) =>
    /\ out[a].access \notin Seen
    /\ \A b \in Actors \ {a} : Pending(b) => out[b].access # out[a].access

\* Whoever still waits for the flock, after another token than the rejected one had
\* expired, does not find the rejected one when it looks again.
RetrySound(r) ==
  /\ pc[r] = "lock" /\ Loaded /\ saved[r].access # rejected[r] => file.access # rejected[r]
  /\ pc[r] \in {"endpoint", "discover", "send"} => token[r] \notin {NONE, rejected[r]}

AccessInv ==
  /\ Seen \subseteq Known \cup {NONE}
  /\ \A a \in Actors : NewAccess(a)
  /\ \A r \in Requests : RetrySound(r)

-----------------------------------------------------------------------------
(* Refresh tokens: a used one is replaced, or lost                         *)

Spent == {g \in Known : grant[g].renewal = "consumed" /\ g \notin lost}

\* A request is about to replace the file's refresh token t.
Replacing(t) == \E r \in Requests : pc[r] = "truncate" /\ saved[r].refresh = t

\* Nobody else has the refresh token of a login before its store.
Private(l) ==
  pc[l] = "store" /\ out[l].refresh # NONE =>
    /\ Loaded => file.refresh # out[l].refresh
    /\ \A b \in Actors \ {l} : Pending(b) => out[b].refresh # out[l].refresh

RenewalInv ==
  /\ Loaded /\ file.refresh \in Spent => Replacing(file.refresh)
  /\ \A a \in Actors : Pending(a) => out[a].refresh \notin Spent
  /\ \A l \in Actors : Private(l)
-----------------------------------------------------------------------------
(* What steps have in common                                               *)

\* The actors outside of S keep their place and locals.
Frame(S) ==
  /\ \A a \in Actors \ S : pc'[a] = pc[a] /\ out'[a] = out[a]
  /\ \A r \in Requests \ S : /\ saved'[r] = saved[r] /\ rejected'[r] = rejected[r]
                             /\ token'[r] = token[r] /\ endpoint'[r] = endpoint[r]

\* The file is what it was, or torn by the one of rs who was storing.
LeftOrTorn(rs) == UNCHANGED file \/ \E a \in rs : lock = a /\ Tear(a)

LEMMA DropFrame ==
  ASSUME NEW rs \in SUBSET Actors, Drop(rs)
  PROVE  /\ Frame(rs)
         /\ \A a \in rs : pc'[a] = "idle"
         /\ \A r \in Requests \cap rs : saved'[r] = NONE /\ rejected'[r] = NONE /\ token'[r] = NONE
BY DEF Drop, Frame, Actors

LEMMA SeenTokens ==
  ASSUME TypeOK
  PROVE  /\ \A r \in Requests : rejected[r] \in Seen /\ token[r] \in Seen
         /\ Loaded => file.access \in Seen
BY DEF Seen

LEMMA Returning ==
  ASSUME TypeOK, NEW r \in Requests, NEW g, Return(r, g)
  PROVE  /\ token'[r] = g /\ pc'[r] \in {"endpoint", "send"}
         /\ UNCHANGED <<rejected, endpoint>>
         /\ Copilot => pc'[r] = "endpoint"
         /\ \A a \in Actors \ {r} : pc'[a] = pc[a]
         /\ \A q \in Requests \ {r} : token'[q] = token[q] /\ saved'[q] = saved[q]
BY DEF TypeOK, Return, Goto, Actors

LEMMA Going ==
  ASSUME TypeOK, NEW a \in Actors, NEW p, Goto(a, p)
  PROVE  pc'[a] = p /\ \A b \in Actors \ {a} : pc'[b] = pc[b]
BY DEF TypeOK, Goto

LEMMA PendingOut ==
  ASSUME Inv, NEW a \in Actors, Pending(a)
  PROVE  /\ out[a] \in File /\ out[a].access \in Known
         /\ out[a].refresh \in Known \cup {NONE}
BY ConstantsTyped DEF Inv, ActorSound, Pending, Issued

\* Two actors are never both between taking and releasing the flock.
LEMMA OneWriter ==
  ASSUME TypeOK, NEW a \in Actors, lock = a \/ pc[a] \in Refreshing
  PROVE  \A b \in Actors \ {a} : pc[b] \notin Refreshing
BY DEF TypeOK, Refreshing, Storing

-----------------------------------------------------------------------------
(* Access tokens                                                           *)

LEMMA AccessInit == Init => AccessInv
BY DEF Init, AccessInv, Seen, Loaded, NewAccess, RetrySound, Pending, Storing, Actors

\* A step that stores nothing and begins no store.
LEMMA AccessLocal ==
  ASSUME Inv, AccessInv, NEW S \in SUBSET Actors, Frame(S), Known \subseteq Known',
         UNCHANGED file \/ file' \in {EMPTY, CORRUPT},
         \A a \in S : ~Pending(a)' \/ (Pending(a) /\ out'[a] = out[a]),
         \A r \in Requests \cap S : /\ {rejected'[r], token'[r]} \subseteq Seen \cup {NONE}
                                    /\ RetrySound(r)'
  PROVE  AccessInv'
<1>1. \A r \in Requests : {rejected'[r], token'[r]} \subseteq Seen \cup {NONE}
  BY SeenTokens DEF Frame, Inv
<1>2. Seen' \subseteq Seen \cup {NONE}
  BY <1>1, SeenTokens DEF Seen, Loaded, Inv
<1>3. \A a \in Actors : Pending(a)' => Pending(a) /\ out'[a] = out[a]
  BY DEF Frame, Pending
<1>4. ASSUME NEW a \in Actors PROVE NewAccess(a)'
  <2>1. Pending(a) => out[a].access \notin Seen \cup {NONE}
    BY PendingOut, ConstantsTyped DEF AccessInv, NewAccess, File
  <2> QED
    BY <1>2, <1>3, <2>1 DEF AccessInv, NewAccess
<1>5. ASSUME NEW r \in Requests PROVE RetrySound(r)'
  <2>1. CASE r \in S
    BY <2>1
  <2>2. CASE r \notin S
    BY <2>2 DEF Frame, AccessInv, RetrySound, Loaded, Actors
  <2> QED
    BY <2>1, <2>2
<1> QED
  BY <1>2, <1>4, <1>5 DEF AccessInv

\* The actors of rs go, one of which may have completed its store.
LEMMA AccessStored ==
  ASSUME Inv, AccessInv, NEW rs \in SUBSET Actors, Frame(rs), Known \subseteq Known',
         NEW a \in rs, Pending(a), file' = out[a], \A b \in rs : ~Pending(b)',
         \A r \in Requests \cap rs :
           /\ rejected'[r] \in {rejected[r], NONE}
           /\ token'[r] \in {token[r], out[a].access, NONE}
           /\ RetrySound(r)'
  PROVE  AccessInv'
<1>1. out[a].access \in Known /\ out[a] \in File /\ out[a].access \notin Seen
  BY PendingOut DEF AccessInv, NewAccess
<1>2. \A r \in Requests : {rejected'[r], token'[r]} \subseteq Seen \cup {NONE, out[a].access}
  BY SeenTokens DEF Frame, Inv
<1>3. Seen' \subseteq Seen \cup {NONE, out[a].access}
  BY <1>2 DEF Seen, Loaded
<1>4. \A b \in Actors : Pending(b)' => b \notin rs /\ Pending(b) /\ out'[b] = out[b] /\ pc'[b] = pc[b]
  BY DEF Frame, Pending
<1>5. ASSUME NEW b \in Actors PROVE NewAccess(b)'
  <2>1. Pending(b) => out[b].access \notin Seen \cup {NONE}
    BY PendingOut, ConstantsTyped DEF AccessInv, NewAccess, File
  <2>2. Pending(b) /\ b \notin rs => out[b].access # out[a].access
    BY DEF AccessInv, NewAccess
  <2>3. Pending(b)' => out'[b].access \notin Seen'
    BY <1>3, <1>4, <2>1, <2>2
  <2>4. \A c \in Actors \ {b} : Pending(b)' /\ Pending(c)' => out'[c].access # out'[b].access
    BY <1>4 DEF AccessInv, NewAccess
  <2> QED
    BY <2>3, <2>4 DEF NewAccess
<1>6. ASSUME NEW r \in Requests PROVE RetrySound(r)'
  <2>1. CASE r \in rs
    BY <2>1
  <2>2. CASE r \notin rs
    <3>1. out[a].access # rejected[r]
      BY <1>1, SeenTokens DEF Inv
    <3> QED
      BY <2>2, <3>1 DEF Frame, AccessInv, RetrySound, Actors
  <2> QED
    BY <2>1, <2>2
<1> QED
  BY <1>1, <1>3, <1>5, <1>6 DEF AccessInv

LEMMA AccessDrop ==
  ASSUME Inv, AccessInv, NEW rs \in SUBSET Actors, Drop(rs), Grown, LeftOrTorn(rs)
  PROVE  AccessInv'
<1>1. Frame(rs) /\ Known \subseteq Known' /\ \A b \in rs : ~Pending(b)'
  BY DropFrame DEF Grown, Known, Pending, Storing, Inv, TypeOK
<1>2. \A r \in Requests \cap rs : rejected'[r] = NONE /\ token'[r] = NONE /\ RetrySound(r)'
  BY DropFrame DEF RetrySound
<1>3. CASE UNCHANGED file \/ file' \in {EMPTY, CORRUPT}
  <2>1. \A r \in Requests \cap rs : /\ {rejected'[r], token'[r]} \subseteq Seen \cup {NONE}
                                  /\ RetrySound(r)'
    BY <1>2
  <2> QED
    BY <1>1, <1>3, <2>1, AccessLocal
<1>4. ASSUME NEW a \in rs, pc[a] = "write", file' = out[a] PROVE AccessInv'
  BY <1>1, <1>2, <1>4, AccessStored DEF Pending, Storing
<1> QED
  BY <1>3, <1>4 DEF LeftOrTorn, Tear
\* A step of request r outside of the critical section: what it goes on with, and
\* what was rejected, it had already.
LEMMA AccessRequest ==
  ASSUME Inv, AccessInv, NEW r \in Requests,
         UNCHANGED <<file, out, grant>>,
         \A a \in Actors \ {r} : pc'[a] = pc[a],
         \A q \in Requests \ {r} : /\ saved'[q] = saved[q] /\ rejected'[q] = rejected[q]
                                   /\ token'[q] = token[q] /\ endpoint'[q] = endpoint[q],
         ~Pending(r)', {rejected'[r], token'[r]} \subseteq Seen \cup {NONE}, RetrySound(r)'
  PROVE  AccessInv'
<1>1. Frame({r}) /\ Known \subseteq Known' /\ {r} \in SUBSET Actors
  BY DEF Frame, Known, Actors
<1> QED
  BY <1>1, AccessLocal

LEMMA AccessBegin ==
  ASSUME Inv, AccessInv, NEW r \in Requests, Begin(r) \/ TakeMutex(r) PROVE AccessInv'
<1>1. /\ pc'[r] \in {"mutex", "load"} /\ \A a \in Actors \ {r} : pc'[a] = pc[a]
      /\ UNCHANGED <<file, saved, rejected, token, endpoint, out, grant>>
  BY DEF Begin, TakeMutex, Goto, Inv, TypeOK, Actors
<1>2. {rejected'[r], token'[r]} \subseteq Seen \cup {NONE} /\ RetrySound(r)'
  BY <1>1, SeenTokens DEF RetrySound, Inv
<1> QED
  BY <1>1, <1>2, AccessRequest DEF Pending, Storing

LEMMA AccessEndpoint ==
  ASSUME Inv, AccessInv, NEW r \in Requests, FindEndpoint(r) \/ Discovered(r) PROVE AccessInv'
<1>1. /\ pc[r] \in {"endpoint", "discover"}
      /\ pc'[r] \in {"discover", "send"} /\ \A a \in Actors \ {r} : pc'[a] = pc[a]
      /\ UNCHANGED <<file, saved, rejected, token, out, grant>>
      /\ \A q \in Requests \ {r} : endpoint'[q] = endpoint[q]
  BY DEF FindEndpoint, Discovered, Goto, Inv, TypeOK, Actors
<1>2. {rejected'[r], token'[r]} \subseteq Seen \cup {NONE} /\ RetrySound(r)'
  BY <1>1, SeenTokens DEF RetrySound, AccessInv, Inv
<1> QED
  BY <1>1, <1>2, AccessRequest DEF Pending, Storing

LEMMA AccessUnauthorized ==
  ASSUME Inv, AccessInv, NEW r \in Requests, Unauthorized(r) PROVE AccessInv'
<1>1. /\ pc'[r] = "mutex" /\ \A a \in Actors \ {r} : pc'[a] = pc[a]
      /\ UNCHANGED <<file, saved, out, grant>>
      /\ rejected'[r] = token[r] /\ token'[r] = NONE
      /\ \A q \in Requests \ {r} : /\ rejected'[q] = rejected[q] /\ token'[q] = token[q]
                                   /\ endpoint'[q] = endpoint[q]
  BY DEF Unauthorized, Goto, Inv, TypeOK, Actors
<1>2. {rejected'[r], token'[r]} \subseteq Seen \cup {NONE} /\ RetrySound(r)'
  BY <1>1, SeenTokens DEF RetrySound, Inv
<1> QED
  BY <1>1, <1>2, AccessRequest DEF Pending, Storing

\* credentials returns the token in the file, which is not the rejected one.
LEMMA AccessReturn ==
  ASSUME Inv, AccessInv, NEW r \in Requests, Loaded, file.access # rejected[r],
         Return(r, file.access), UNCHANGED <<file, out, grant>>
  PROVE  AccessInv'
<1>1. /\ token'[r] = file.access /\ pc'[r] \in {"endpoint", "send"}
      /\ UNCHANGED <<rejected, endpoint>>
      /\ \A a \in Actors \ {r} : pc'[a] = pc[a]
      /\ \A q \in Requests \ {r} : token'[q] = token[q] /\ saved'[q] = saved[q]
  BY Returning DEF Inv
<1>2. file.access # NONE
  BY ConstantsTyped DEF Inv, TypeOK, Loaded, File
<1>3. {rejected'[r], token'[r]} \subseteq Seen \cup {NONE} /\ RetrySound(r)'
  BY <1>1, <1>2, SeenTokens DEF RetrySound, Inv
<1> QED
  BY <1>1, <1>3, AccessRequest DEF Pending, Storing

\* r waits for the flock, or holds it, with the file in saved.
LEMMA AccessSaved ==
  ASSUME Inv, AccessInv, NEW r \in Requests, NEW p \in {"lock", "post"},
         saved' = [saved EXCEPT ![r] = file], Goto(r, p),
         UNCHANGED <<file, rejected, token, endpoint, out, grant>>
  PROVE  AccessInv'
<1>1. /\ pc'[r] = p /\ \A a \in Actors \ {r} : pc'[a] = pc[a]
      /\ saved'[r] = file /\ \A q \in Requests \ {r} : saved'[q] = saved[q]
  BY DEF Goto, Inv, TypeOK, Actors
<1>2. {rejected'[r], token'[r]} \subseteq Seen \cup {NONE} /\ RetrySound(r)'
  BY <1>1, SeenTokens DEF RetrySound, Loaded, Inv
<1> QED
  BY <1>1, <1>2, AccessRequest DEF Pending, Storing

LEMMA AccessFail ==
  ASSUME Inv, AccessInv, NEW r \in Requests, Fail(r) PROVE AccessInv'
<1>1. Grown /\ LeftOrTorn({r})
  BY Same DEF Fail, Inv, LeftOrTorn
<1> QED
  BY <1>1, AccessDrop DEF Fail, Actors

LEMMA AccessLoad ==
  ASSUME Inv, AccessInv, NEW r \in Requests, Load(r) PROVE AccessInv'
<1>1. CASE Fail(r)
  BY <1>1, AccessFail
<1>2. CASE /\ Loaded /\ Reusable(file.access, r)
           /\ Return(r, file.access)
           /\ UNCHANGED <<file, lock, out, grant, historyVars>>
  <2>1. file.access # NONE
    BY <1>2, ConstantsTyped DEF Inv, TypeOK, Loaded, File
  <2> QED
    BY <1>2, <2>1, AccessReturn DEF Reusable
<1>3. CASE /\ Loaded /\ ~Reusable(file.access, r)
           /\ saved' = [saved EXCEPT ![r] = file]
           /\ Goto(r, "lock")
           /\ UNCHANGED <<file, lock, mutex, rejected, out, token, endpoint, cacheVars, grant,
                          historyVars>>
  BY <1>3, AccessSaved
<1> QED
  BY <1>1, <1>2, <1>3 DEF Load

\* Replaced alone does not say that the token is not the rejected one: AccessInv does.
LEMMA AccessReload ==
  ASSUME Inv, AccessInv, NEW r \in Requests, Reload(r) PROVE AccessInv'
<1>1. CASE Fail(r)
  BY <1>1, AccessFail
<1>2. CASE /\ Loaded /\ Replaced(r)
           /\ Return(r, file.access)
           /\ UNCHANGED <<file, lock, out, grant, historyVars>>
  <2>1. file.access # rejected[r]
    BY <1>2 DEF Replaced, Reload, AccessInv, RetrySound
  <2> QED
    BY <1>2, <2>1, AccessReturn
<1>3. CASE /\ Loaded /\ ~Replaced(r)
           /\ file.refresh # NONE /\ grant[file.refresh].renewal # "lapsed"
           /\ lock' = r
           /\ saved' = [saved EXCEPT ![r] = file]
           /\ Goto(r, "post")
           /\ UNCHANGED <<file, mutex, rejected, out, token, endpoint, cacheVars, grant,
                          historyVars>>
  BY <1>3, AccessSaved
<1> QED
  BY <1>1, <1>2, <1>3 DEF Reload
\* a is to store the grant that was just issued.
LEMMA AccessNew ==
  ASSUME Inv, AccessInv, NEW a \in Actors,
         UNCHANGED <<file, saved, rejected, token>>, Known \subseteq Known',
         pc'[a] \in {"truncate", "store"}, out'[a].access = Len(grant) + 1,
         Len(grant) + 1 \in Grants,
         \A b \in Actors \ {a} : pc'[b] = pc[b] /\ out'[b] = out[b]
  PROVE  AccessInv'
<1>1. Len(grant) + 1 \notin Known \cup {NONE} /\ Seen' = Seen
  BY ConstantsTyped DEF Inv, TypeOK, Known, Seen, Loaded
<1>2. ASSUME NEW b \in Actors PROVE NewAccess(b)'
  <2>1. \A c \in Actors \ {a} : Pending(c)' =>
          Pending(c) /\ out'[c] = out[c] /\ out'[c].access # out'[a].access
    BY <1>1, PendingOut DEF Pending
  <2>2. CASE b = a
    BY <1>1, <2>1, <2>2 DEF AccessInv, NewAccess
  <2>3. CASE b # a
    BY <1>1, <2>1, <2>3 DEF AccessInv, NewAccess
  <2> QED
    BY <2>2, <2>3
<1>3. ASSUME NEW r \in Requests PROVE RetrySound(r)'
  BY DEF AccessInv, RetrySound, Loaded, Actors
<1> QED
  BY <1>1, <1>2, <1>3 DEF AccessInv

LEMMA RefreshGrown ==
  ASSUME Inv, NEW r \in Requests, Refresh(r)
  PROVE  Grown /\ Len(grant) + 1 \in Grants /\ Len(grant') = Len(grant) + 1
<1> DEFINE t == saved[r].refresh
<1>1. t \in Known
  BY ConstantsTyped DEF Refresh, Inv, TypeOK, RequestSound, Refreshing, Issued, File, Actors
<1>2. PICK a \in Accounts, renewable \in BOOLEAN : Rotate(t, a, renewable)
  BY DEF Refresh
<1> DEFINE u == IF renewable THEN SetRenewal(t, "consumed") ELSE grant
<1>3. /\ u \in Seq(Grant) /\ Len(u) = Len(grant)
      /\ \A h \in Known : u[h].account = grant[h].account /\ u[h].age = grant[h].age
  BY <1>1, Renewed DEF Inv, TypeOK
<1>4. NewGrant(a, renewable) \in Grant
  BY DEF NewGrant, Grant
<1>5. grant' = Append(u, NewGrant(a, renewable)) /\ Len(grant) < MaxGrants
  BY <1>2 DEF Rotate
<1>6. Grown /\ Len(grant) + 1 \in Grants
  BY <1>3, <1>4, <1>5, Granted DEF Inv
<1>7. Len(grant') = Len(grant) + 1
  BY <1>3, <1>4, <1>5
<1> QED
  BY <1>6, <1>7

LEMMA AccessRefresh ==
  ASSUME Inv, AccessInv, NEW r \in Requests, Refresh(r) PROVE AccessInv'
<1> DEFINE t == saved[r].refresh
           g == Len(grant) + 1
<1>1. Grown /\ g \in Grants
  BY RefreshGrown
<1>2. CASE Drop({r}) /\ UNCHANGED file
  BY <1>1, <1>2, AccessDrop DEF LeftOrTorn, Actors
<1>3. CASE /\ \E f : out' = [out EXCEPT ![r] = [access |-> g, refresh |-> f]]
           /\ Goto(r, "truncate")
           /\ UNCHANGED <<file, rejected, saved, token>>
  <2>1. /\ out'[r].access = g /\ pc'[r] = "truncate"
        /\ \A b \in Actors \ {r} : pc'[b] = pc[b] /\ out'[b] = out[b]
    BY <1>3 DEF Goto, Inv, TypeOK, Actors
  <2>2. Known \subseteq Known'
    BY <1>1 DEF Grown, Known, Inv, TypeOK
  <2> QED
    BY <1>1, <1>3, <2>1, <2>2, AccessNew DEF Actors
<1> QED
  BY <1>2, <1>3 DEF Refresh

LEMMA AccessGranted ==
  ASSUME Inv, AccessInv, NEW l \in Logins, LoginGranted(l) PROVE AccessInv'
<1>1. PICK a \in Accounts, renewable \in BOOLEAN :
        /\ grant' = Append(grant, NewGrant(a, renewable))
        /\ out' = [out EXCEPT ![l] = [access |-> Len(grant) + 1,
                                     refresh |-> IF renewable THEN Len(grant) + 1 ELSE NONE]]
  BY DEF LoginGranted
<1>2. /\ out'[l].access = Len(grant) + 1 /\ pc'[l] = "store"
      /\ \A b \in Actors \ {l} : pc'[b] = pc[b] /\ out'[b] = out[b]
  BY <1>1 DEF LoginGranted, Goto, Inv, TypeOK, Actors
<1>3. Known \subseteq Known' /\ Len(grant) + 1 \in Grants
  BY <1>1, ConstantsTyped DEF LoginGranted, Known, Grants, Inv, TypeOK
<1> QED
  BY <1>2, <1>3, AccessNew DEF LoginGranted, Actors

LEMMA AccessStoring ==
  ASSUME Inv, AccessInv, NEW a \in Actors, Truncate(a) \/ (a \in Logins /\ LoginStore(a))
  PROVE  AccessInv'
<1>1. /\ pc[a] \in {"truncate", "store"} /\ pc'[a] \in Storing
      /\ \A b \in Actors \ {a} : pc'[b] = pc[b]
      /\ UNCHANGED <<saved, rejected, token, endpoint, out, grant>>
      /\ file' \in {file, EMPTY}
  BY DEF Truncate, LoginStore, Goto, Storing, Inv, TypeOK, Actors
<1>2. Frame({a}) /\ Known \subseteq Known' /\ (UNCHANGED file \/ file' \in {EMPTY, CORRUPT})
  BY <1>1 DEF Frame, Known, Actors
<1>3. Pending(a) /\ UNCHANGED out
  BY <1>1 DEF Pending, Storing
<1>4. \A r \in Requests \cap {a} : /\ {rejected'[r], token'[r]} \subseteq Seen \cup {NONE}
                                   /\ RetrySound(r)'
  BY <1>1, SeenTokens DEF RetrySound, Storing, Inv
<1> QED
  BY <1>2, <1>3, <1>4, AccessLocal

LEMMA AccessWrite ==
  ASSUME Inv, AccessInv, NEW a \in Actors, Write(a) PROVE AccessInv'
<1>1. /\ pc[a] = "write" /\ file' = out[a] /\ Pending(a)
      /\ out[a].access \in Known /\ out[a].access # NONE /\ out[a].access \notin Seen
      /\ \A b \in Actors \ {a} : out'[b] = out[b]
      /\ UNCHANGED grant
  BY PendingOut, ConstantsTyped DEF Write, Pending, Storing, AccessInv, NewAccess, File, Inv, TypeOK
<1>2. CASE a \in Requests
  <2>1. Return(a, out[a].access)
    BY <1>2 DEF Write
  <2>2. /\ token'[a] = out[a].access /\ pc'[a] \in {"endpoint", "send"}
        /\ UNCHANGED <<rejected, endpoint>>
        /\ \A b \in Actors \ {a} : pc'[b] = pc[b]
        /\ \A q \in Requests \ {a} : token'[q] = token[q] /\ saved'[q] = saved[q]
    BY <1>2, <2>1, Returning DEF Inv
  <2>3. Frame({a}) /\ ~Pending(a)' /\ Known \subseteq Known'
    BY <1>1, <2>2 DEF Frame, Pending, Storing, Known, Actors
  <2>4. out[a].access # rejected[a]
    BY <1>1, <1>2, SeenTokens DEF Inv
  <2>5. RetrySound(a)'
    BY <1>1, <2>2, <2>4 DEF RetrySound
  <2> QED
    BY <1>1, <2>2, <2>3, <2>5, AccessStored
<1>3. CASE a \notin Requests
  <2>1. Frame({a}) /\ ~Pending(a)' /\ Known \subseteq Known'
    BY <1>1, <1>3 DEF Write, Goto, Frame, Pending, Storing, Known, Actors, Inv, TypeOK
  <2> QED
    BY <1>1, <1>3, <2>1, AccessStored
<1> QED
  BY <1>2, <1>3
LEMMA TickGrown ==
  ASSUME Inv, NEW g \in Grants, Tick(g)
  PROVE  Grown /\ Len(grant') = Len(grant)
<1>1. g \in Known
  BY ConstantsTyped DEF Tick, Inv, FileSound, Issued, Grants
<1>2. CASE grant' = SetRenewal(g, "lapsed")
  BY <1>1, <1>2, Renewed DEF Inv, TypeOK, Grown
<1>3. CASE grant' \in {SetAge(g, "due"), SetAge(g, "expired")}
  BY <1>1, <1>3, Aged DEF Inv, TypeOK, Grown
<1> QED
  BY <1>2, <1>3 DEF Tick

\* Requests or logins go: those of a process that dies, or one whose future is
\* dropped or returns an error.
LEMMA GoneGrown ==
  ASSUME Inv, NEW rs \in SUBSET Actors, Drop(rs),
         \/ UNCHANGED <<file, grant>>
         \/ \E r \in rs : r \in Requests /\ pc[r] = "post" /\ Unseen(r) /\ UNCHANGED file
         \/ \E a \in rs : lock = a /\ Tear(a) /\ UNCHANGED grant
  PROVE  Grown /\ LeftOrTorn(rs)
BY Same, UnseenGrown DEF LeftOrTorn, Inv

LEMMA CrashGoes ==
  ASSUME Inv, NEW p \in Procs, Crash(p)
  PROVE  \E rs \in SUBSET Actors : Drop(rs) /\ Grown /\ LeftOrTorn(rs)
<1> DEFINE rs == {r \in Requests : procOf[r] = p /\ pc[r] # "idle"}
<1>1. rs \in SUBSET Actors /\ Drop(rs)
  BY DEF Crash, Actors
<1>2. \/ UNCHANGED <<file, grant>>
      \/ \E r \in rs : r \in Requests /\ pc[r] = "post" /\ Unseen(r) /\ UNCHANGED file
      \/ \E a \in rs : lock = a /\ Tear(a) /\ UNCHANGED grant
  BY DEF Crash
<1> QED
  BY <1>1, <1>2, GoneGrown

\* A store that fails before it holds the flock leaves the file alone.
LEMMA StoreFailsGoes ==
  ASSUME Inv, NEW a \in Actors, StoreFails(a)
  PROVE  Drop({a}) /\ Grown /\ LeftOrTorn({a})
<1>1. Drop({a}) /\ UNCHANGED grant
  BY DEF StoreFails
<1>2. UNCHANGED <<file, grant>> \/ (lock = a /\ Tear(a) /\ UNCHANGED grant)
  BY DEF StoreFails, Tear, Inv, TypeOK
<1> QED
  BY <1>1, <1>2, GoneGrown

LEMMA AccessNext == Inv /\ AccessInv /\ [Next]_vars => AccessInv'
<1> SUFFICES ASSUME Inv, AccessInv, [Next]_vars PROVE AccessInv'
  OBVIOUS
<1>1. ASSUME NEW r \in Requests, RequestStep(r) PROVE AccessInv'
  <2>1. CASE DiscoveryFails(r) \/ Answered(r)
    BY <2>1, AccessFail DEF DiscoveryFails, Answered
  <2>2. CASE Cancel(r) \/ RefreshFails(r)
    <3>1. {r} \in SUBSET Actors /\ Drop({r})
      BY <2>2 DEF Cancel, RefreshFails, Actors
    <3>2. UNCHANGED <<file, grant>> \/ (pc[r] = "post" /\ Unseen(r) /\ UNCHANGED file)
      BY <2>2 DEF Cancel, RefreshFails
    <3>3. Grown /\ LeftOrTorn({r})
      BY <3>1, <3>2, GoneGrown
    <3> QED
      BY <3>1, <3>3, AccessDrop
  <2> QED
    BY <1>1, <2>1, <2>2, AccessBegin, AccessLoad, AccessReload, AccessRefresh, AccessEndpoint,
       AccessUnauthorized DEF RequestStep
<1>2. ASSUME NEW l \in Logins, LoginGranted(l) \/ LoginStore(l) PROVE AccessInv'
  BY <1>2, AccessGranted, AccessStoring DEF Actors
<1>3. ASSUME NEW a \in Actors, Truncate(a) \/ Write(a) \/ StoreFails(a) PROVE AccessInv'
  BY <1>3, AccessStoring, AccessWrite, StoreFailsGoes, AccessDrop
<1>4. ASSUME NEW p \in Procs, Crash(p) PROVE AccessInv'
  BY <1>4, CrashGoes, AccessDrop
<1>5. ASSUME Known \subseteq Known', file' \in {file, EMPTY},
             UNCHANGED <<pc, rejected, saved, out, token, endpoint>>
      PROVE  AccessInv'
  <2>1. Frame({}) /\ {} \in SUBSET Actors
    BY <1>5 DEF Frame
  <2> QED
    BY <1>5, <2>1, AccessLocal
<1>6. CASE Logout
  BY <1>5, <1>6 DEF Logout, Known
<1>7. ASSUME NEW g \in Grants, Tick(g) PROVE AccessInv'
  BY <1>5, <1>7, TickGrown DEF Tick, Known
<1>8. CASE UNCHANGED vars
  BY <1>5, <1>8 DEF vars, Known
<1> QED
  BY <1>1, <1>2, <1>3, <1>4, <1>6, <1>7, <1>8 DEF Next

\* The retry after a 401 never goes out with the token upstream has rejected: none
\* returns to the file, and a request that looks a second time finds another.
THEOREM RetryHasAnotherToken == Spec => []RetryDiffers
<1>1. AccessInv => RetryDiffers
  BY DEF AccessInv, RetrySound, RetryDiffers
<1>2. Spec => []AccessInv
  BY InitInv, AccessInit, NextInv, AccessNext, PTL DEF Spec
<1> QED
  BY <1>1, <1>2, PTL

-----------------------------------------------------------------------------
(* Copilot's endpoints                                                     *)

\* Copilot: a request goes to the endpoint that was discovered with the token it
\* sends, whatever others do with the cache they share.
THEOREM EndpointOfToken == Spec => []EndpointIsTokens
<1>1. Init => EndpointIsTokens
  BY DEF Init, EndpointIsTokens, Actors
<1>2. Inv /\ EndpointIsTokens /\ [Next]_vars => EndpointIsTokens'
  <2> SUFFICES ASSUME Inv, EndpointIsTokens, [Next]_vars, Copilot, NEW r \in Requests,
                      pc'[r] = "send"
               PROVE  endpoint'[r] = token'[r]
    BY DEF EndpointIsTokens
  <2>1. CASE pc'[r] = pc[r] /\ endpoint'[r] = endpoint[r] /\ token'[r] = token[r]
    BY <2>1 DEF EndpointIsTokens
  <2>2. ASSUME NEW rs \in SUBSET Actors, Drop(rs) PROVE endpoint'[r] = token'[r]
    BY <2>1, <2>2 DEF Drop, Actors
  <2>3. ASSUME NEW q \in Requests, NEW g, Return(q, g) PROVE endpoint'[r] = token'[r]
    BY <2>1, <2>3, Returning DEF Inv, Actors
  <2>4. ASSUME NEW q \in Requests, RequestStep(q) PROVE endpoint'[r] = token'[r]
    <3>1. ASSUME UNCHANGED <<token, endpoint>>, NEW p \in PCs \ {"send"}, Goto(q, p)
          PROVE  endpoint'[r] = token'[r]
      BY <2>1, <3>1, Going DEF Inv, Actors
    <3>2. CASE Begin(q) \/ TakeMutex(q) \/ Load(q) \/ Reload(q) \/ Refresh(q)
      BY <3>1, <3>2, <2>2, <2>3
         DEF Begin, TakeMutex, Load, Reload, Refresh, Fail, PCs, Actors
    <3>3. CASE RefreshFails(q) \/ DiscoveryFails(q) \/ Answered(q) \/ Cancel(q)
      BY <3>3, <2>2 DEF RefreshFails, DiscoveryFails, Answered, Cancel, Fail, Actors
    <3>4. CASE FindEndpoint(q) \/ Discovered(q) \/ Unauthorized(q)
      BY <2>1, <3>4
         DEF FindEndpoint, Cached, Discovered, Unauthorized, Goto, Inv, TypeOK, Actors
    <3> QED
      BY <2>4, <3>2, <3>3, <3>4 DEF RequestStep
  <2>5. ASSUME NEW a \in Actors, Truncate(a) \/ Write(a) \/ StoreFails(a)
        PROVE  endpoint'[r] = token'[r]
    BY <2>1, <2>2, <2>3, <2>5 DEF Truncate, Write, StoreFails, Goto, Inv, TypeOK, Actors
  <2>6. ASSUME NEW l \in Logins, LoginGranted(l) \/ LoginStore(l) PROVE endpoint'[r] = token'[r]
    BY <2>1, <2>6 DEF LoginGranted, LoginStore, Goto, Inv, TypeOK, Actors
  <2>7. ASSUME NEW p \in Procs, Crash(p) PROVE endpoint'[r] = token'[r]
    BY <2>2, <2>7, CrashGoes
  <2>8. CASE Logout \/ (\E g \in Grants : Tick(g)) \/ UNCHANGED vars
    BY <2>1, <2>8 DEF Logout, Tick, vars
  <2> QED
    BY <2>4, <2>5, <2>6, <2>7, <2>8 DEF Next
<1> QED
  BY <1>1, <1>2, Invariance, PTL DEF Spec
-----------------------------------------------------------------------------
(* Refresh tokens                                                          *)

LEMMA RenewalInit == Init => RenewalInv
BY DEF Init, RenewalInv, Private, Loaded, Pending, Storing, Actors

\* A step that stores, or is to store, nothing that was not pending, and consumes no
\* refresh token that is not lost.  Whoever was to replace one keeps at it, or the
\* token is not in the file any more, or lost.
LEMMA RenewalLocal ==
  ASSUME Inv, RenewalInv, NEW S \in SUBSET Actors, Frame(S), Spent' \subseteq Spent,
         \/ UNCHANGED file
         \/ file' \in {EMPTY, CORRUPT}
         \/ \E a \in S : Pending(a) /\ file' = out[a] /\ ~Pending(a)',
         \A a \in S : Pending(a)' => /\ Pending(a) /\ out'[a] = out[a]
                                     /\ pc'[a] = "store" => pc[a] = "store",
         \A r \in Requests \cap S : pc[r] = "truncate" =>
           saved[r].refresh \notin Spent' \/ file' \in {EMPTY, CORRUPT}
  PROVE  RenewalInv'
<1>1. \A a \in Actors : Pending(a)' => /\ Pending(a) /\ out'[a] = out[a]
                                       /\ pc'[a] = "store" => pc[a] = "store"
  BY DEF Frame, Pending
<1>2. file' \notin {EMPTY, CORRUPT} /\ file'.refresh \in Spent' => Replacing(file.refresh)'
  <2> SUFFICES ASSUME file' \notin {EMPTY, CORRUPT}, file'.refresh \in Spent'
               PROVE  Replacing(file.refresh)'
    OBVIOUS
  <2>1. UNCHANGED file
    BY DEF RenewalInv
  <2>2. PICK r \in Requests : pc[r] = "truncate" /\ saved[r].refresh = file.refresh
    BY <2>1 DEF RenewalInv, Replacing, Loaded
  <2>3. r \notin S
    BY <2>1, <2>2
  <2> QED
    BY <2>1, <2>2, <2>3 DEF Frame, Replacing, Actors
<1>3. \A a \in Actors : Pending(a)' => out'[a].refresh \notin Spent'
  BY <1>1 DEF RenewalInv
<1>4. ASSUME NEW l \in Actors PROVE Private(l)'
  <2> SUFFICES ASSUME pc'[l] = "store", out'[l].refresh # NONE PROVE Private(l)'
    BY DEF Private
  <2>1. pc[l] = "store" /\ out'[l] = out[l] /\ Pending(l)'
    BY <1>1 DEF Pending
  <2>2. \A b \in Actors \ {l} : Pending(b) => out[b].refresh # out[l].refresh
    BY <2>1 DEF RenewalInv, Private
  <2>3. file' \notin {EMPTY, CORRUPT} => file'.refresh # out[l].refresh
    BY <2>1, <2>2 DEF RenewalInv, Private, Loaded
  <2> QED
    BY <1>1, <2>1, <2>2, <2>3 DEF Private, Loaded
<1> QED
  BY <1>2, <1>3, <1>4 DEF RenewalInv, Loaded

LEMMA SpentSame ==
  ASSUME UNCHANGED grant, lost \subseteq lost' PROVE Spent' \subseteq Spent
BY DEF Spent, Known

\* A step that leaves the critical section, the pending stores and the grants alone.
LEMMA RenewalQuiet ==
  ASSUME Inv, RenewalInv, NEW r \in Requests, Frame({r}), UNCHANGED <<file, grant, lost>>,
         pc[r] # "truncate", ~Pending(r)'
  PROVE  RenewalInv'
<1>1. {r} \in SUBSET Actors /\ Spent' \subseteq Spent
  BY SpentSame DEF Actors
<1> QED
  BY <1>1, RenewalLocal

\* Requests or logins go, one of which may have been writing.
LEMMA RenewalDrop ==
  ASSUME Inv, RenewalInv, NEW rs \in SUBSET Actors, Drop(rs), LeftOrTorn(rs),
         Spent' \subseteq Spent,
         \A r \in Requests \cap rs : pc[r] = "truncate" => saved[r].refresh \notin Spent'
  PROVE  RenewalInv'
<1>1. Frame(rs) /\ \A a \in rs : ~Pending(a)'
  BY DropFrame DEF Pending, Storing
<1>2. \/ UNCHANGED file
      \/ file' \in {EMPTY, CORRUPT}
      \/ \E a \in rs : Pending(a) /\ file' = out[a] /\ ~Pending(a)'
  BY <1>1 DEF LeftOrTorn, Tear, Pending, Storing
<1> QED
  BY <1>1, <1>2, RenewalLocal

\* What the grants' changes of renewal do.
LEMMA RenewalOf ==
  ASSUME TypeOK, NEW t \in Known, NEW x
  PROVE  \A g \in Known : SetRenewal(t, x)[g].renewal = IF g = t THEN x ELSE grant[g].renewal
<1>1. \A g \in Known : grant[g] \in Grant
  BY DEF TypeOK, Known
<1>2. \A g \in Known : SetRenewal(t, x)[g] =
        IF g = t THEN [grant[t] EXCEPT !.renewal = x] ELSE grant[g]
  BY DEF TypeOK, Known, SetRenewal
<1> QED
  BY <1>1, <1>2 DEF Grant

LEMMA SpentUnseen ==
  ASSUME Inv, NEW r \in Requests, pc[r] = "post", Unseen(r) PROVE Spent' \subseteq Spent
<1> DEFINE t == saved[r].refresh
<1>1. t \in Known
  BY ConstantsTyped DEF Inv, TypeOK, RequestSound, Refreshing, Issued
<1>2. CASE UNCHANGED <<grant, lost>>
  BY <1>2, SpentSame
<1>3. CASE grant' = SetRenewal(t, "consumed") /\ lost' = lost \cup {t}
  <2>1. Known' = Known
    BY <1>1, <1>3, Renewed DEF Inv, Known
  <2> QED
    BY <1>1, <1>3, <2>1, RenewalOf DEF Spent, Inv
<1> QED
  BY <1>2, <1>3 DEF Unseen

\* A store that fails leaves its refresh token in the file, or lost.
LEMMA SpentUnstored ==
  ASSUME Inv, NEW a \in Actors, pc[a] \in Storing \cup {"store"}, UNCHANGED grant,
         lost' = Unstored(a)
  PROVE  /\ Spent' \subseteq Spent
         /\ a \in Requests => saved[a].refresh \notin Spent'
<1>1. lost \subseteq lost'
  BY DEF Unstored
<1> QED
  BY <1>1, SpentSame DEF Spent, Unstored
LEMMA RenewalFail ==
  ASSUME Inv, RenewalInv, NEW r \in Requests, Fail(r), pc[r] # "truncate" PROVE RenewalInv'
<1>1. {r} \in SUBSET Actors /\ Spent' \subseteq Spent /\ Drop({r}) /\ LeftOrTorn({r})
  BY SpentSame DEF Fail, Actors, LeftOrTorn, historyVars
<1> QED
  BY <1>1, RenewalDrop

\* The request is over, and with it a rotation it may not have heard of.
LEMMA RenewalOver ==
  ASSUME Inv, RenewalInv, NEW r \in Requests, Cancel(r) \/ RefreshFails(r) PROVE RenewalInv'
<1>1. {r} \in SUBSET Actors /\ Drop({r}) /\ LeftOrTorn({r}) /\ pc[r] # "truncate"
  BY DEF Cancel, RefreshFails, LeftOrTorn, Actors
<1>2. Spent' \subseteq Spent
  BY SpentSame, SpentUnseen DEF Cancel, RefreshFails
<1> QED
  BY <1>1, <1>2, RenewalDrop

LEMMA RenewalStep ==
  ASSUME Inv, RenewalInv, NEW r \in Requests,
         \/ Begin(r) \/ TakeMutex(r) \/ Load(r) \/ Reload(r) \/ FindEndpoint(r) \/ Discovered(r)
         \/ DiscoveryFails(r) \/ Unauthorized(r) \/ Answered(r)
  PROVE  RenewalInv'
<1>1. pc[r] # "truncate"
  BY DEF Begin, TakeMutex, Load, Reload, FindEndpoint, Discovered, DiscoveryFails, Unauthorized,
         Answered
<1>2. CASE Fail(r)
  BY <1>1, <1>2, RenewalFail
<1>3. CASE ~Fail(r)
  <2>1. UNCHANGED <<file, out, grant, lost>>
    BY <1>3 DEF Begin, TakeMutex, Load, Reload, FindEndpoint, Discovered, DiscoveryFails,
                Unauthorized, Answered, Return, historyVars
  <2>2. \E p \in PCs \ (Storing \cup {"store"}) : Goto(r, p)
    BY <1>3 DEF Begin, TakeMutex, Load, Reload, FindEndpoint, Discovered, DiscoveryFails,
                Unauthorized, Answered, Return, PCs, Storing
  <2>3. ~Pending(r)' /\ \A a \in Actors \ {r} : pc'[a] = pc[a]
    BY <2>2, Going DEF Inv, Pending, Actors
  <2>4. \A q \in Requests \ {r} : /\ saved'[q] = saved[q] /\ rejected'[q] = rejected[q]
                                  /\ token'[q] = token[q] /\ endpoint'[q] = endpoint[q]
    BY <1>3 DEF Begin, TakeMutex, Load, Reload, FindEndpoint, Discovered, DiscoveryFails,
                Unauthorized, Answered, Return, Inv, TypeOK
  <2>5. Frame({r})
    BY <2>1, <2>3, <2>4 DEF Frame
  <2> QED
    BY <1>1, <2>1, <2>3, <2>5, RenewalQuiet
<1> QED
  BY <1>2, <1>3

LEMMA RenewalStoring ==
  ASSUME Inv, RenewalInv, NEW a \in Actors, Truncate(a) \/ (a \in Logins /\ LoginStore(a))
  PROVE  RenewalInv'
<1>1. /\ pc[a] \in {"truncate", "store"} /\ pc'[a] \in Storing
      /\ \A b \in Actors \ {a} : pc'[b] = pc[b]
      /\ UNCHANGED <<saved, rejected, token, endpoint, out, grant, lost>>
      /\ UNCHANGED file \/ file' = EMPTY
      /\ pc[a] = "truncate" => file' = EMPTY
  BY DEF Truncate, LoginStore, Goto, Storing, Inv, TypeOK, Actors, historyVars
<1>2. Frame({a}) /\ {a} \in SUBSET Actors /\ Spent' \subseteq Spent
  BY <1>1, SpentSame DEF Frame, Actors
<1>3. Pending(a) /\ out'[a] = out[a] /\ pc'[a] # "store"
  BY <1>1 DEF Pending, Storing
<1> QED
  BY <1>1, <1>2, <1>3, RenewalLocal

LEMMA RenewalWrite ==
  ASSUME Inv, RenewalInv, NEW a \in Actors, Write(a) PROVE RenewalInv'
<1>1. /\ pc[a] = "write" /\ Pending(a) /\ file' = out[a]
      /\ \A b \in Actors \ {a} : out'[b] = out[b]
      /\ Spent' \subseteq Spent
  BY SpentSame DEF Write, Pending, Storing, Inv, TypeOK
<1>2. \E p \in {"idle", "endpoint", "send"} : Goto(a, p)
  BY DEF Write, Return
<1>3. ~Pending(a)' /\ \A b \in Actors \ {a} : pc'[b] = pc[b]
  BY <1>2, Going DEF Pending, Storing, Inv
<1>4. \A q \in Requests \ {a} : /\ saved'[q] = saved[q] /\ rejected'[q] = rejected[q]
                                /\ token'[q] = token[q] /\ endpoint'[q] = endpoint[q]
  BY DEF Write, Return, Inv, TypeOK
<1>5. Frame({a}) /\ {a} \in SUBSET Actors
  BY <1>1, <1>3, <1>4 DEF Frame, Actors
<1>6. \A b \in {a} : Pending(b)' => /\ Pending(b) /\ out'[b] = out[b]
                                    /\ pc'[b] = "store" => pc[b] = "store"
  BY <1>3
<1>7. \A r \in Requests \cap {a} : pc[r] # "truncate"
  BY <1>1
<1> QED
  BY <1>1, <1>3, <1>5, <1>6, <1>7, RenewalLocal

LEMMA RenewalStoreFails ==
  ASSUME Inv, RenewalInv, NEW a \in Actors, StoreFails(a) PROVE RenewalInv'
<1>1. Drop({a}) /\ LeftOrTorn({a}) /\ {a} \in SUBSET Actors
  BY StoreFailsGoes
<1>2. Spent' \subseteq Spent /\ (a \in Requests => saved[a].refresh \notin Spent')
  BY SpentUnstored DEF StoreFails, Storing
<1> QED
  BY <1>1, <1>2, RenewalDrop

LEMMA RenewalCrash ==
  ASSUME Inv, RenewalInv, NEW p \in Procs, Crash(p) PROVE RenewalInv'
<1> DEFINE rs == {r \in Requests : procOf[r] = p /\ pc[r] # "idle"}
<1>1. rs \in SUBSET Actors /\ Drop(rs)
  BY DEF Crash, Actors
<1>2. \A r \in Requests : pc[r] = "truncate" => lock = r
  BY DEF Inv, TypeOK, Actors
<1>3. CASE lock \notin rs /\ UNCHANGED <<file, grant, lost>>
  BY <1>1, <1>2, <1>3, SpentSame, RenewalDrop DEF LeftOrTorn
<1>4. CASE lock \in rs /\ pc[lock] = "post" /\ Unseen(lock) /\ UNCHANGED file
  BY <1>1, <1>2, <1>4, SpentUnseen, RenewalDrop DEF LeftOrTorn
<1>5. CASE lock \in rs /\ pc[lock] # "post" /\ Tear(lock) /\ lost' = Unstored(lock) /\ UNCHANGED grant
  <2>1. pc[lock] \in Storing \cup {"store"} /\ lock \in Actors /\ lock \in Requests
    BY <1>5 DEF Tear, Storing, Actors
  <2>2. Spent' \subseteq Spent /\ saved[lock].refresh \notin Spent'
    BY <1>5, <2>1, SpentUnstored
  <2> QED
    BY <1>1, <1>2, <1>5, <2>2, RenewalDrop DEF LeftOrTorn
<1> QED
  BY <1>3, <1>4, <1>5 DEF Crash
\* The reply to a refresh: its grant is unused, the token it renews is used up, or
\* as good as before.
LEMMA RotateOf ==
  ASSUME TypeOK, NEW t \in Known, NEW a, NEW renewable \in BOOLEAN, Rotate(t, a, renewable)
  PROVE  /\ Known' = Known \cup {Len(grant) + 1}
         /\ \A h \in Known : grant'[h].renewal =
              IF renewable /\ h = t THEN "consumed" ELSE grant[h].renewal
         /\ grant'[Len(grant) + 1].renewal = IF renewable THEN "live" ELSE "none"
<1> DEFINE u == IF renewable THEN SetRenewal(t, "consumed") ELSE grant
<1>1. /\ u \in Seq(Grant) /\ Len(u) = Len(grant)
      /\ \A h \in Known : u[h].renewal =
           IF renewable /\ h = t THEN "consumed" ELSE grant[h].renewal
  BY Renewed, RenewalOf DEF TypeOK
<1> HIDE DEF u
<1>2. grant' = Append(u, NewGrant(a, renewable))
  BY DEF Rotate, u
<1>3. /\ Len(grant') = Len(grant) + 1 /\ \A h \in Known : grant'[h] = u[h]
      /\ grant'[Len(grant) + 1] = NewGrant(a, renewable)
  BY <1>1, <1>2 DEF Known
<1>4. Known' = Known \cup {Len(grant) + 1}
  BY <1>3 DEF Known, TypeOK
<1> QED
  BY <1>1, <1>3, <1>4 DEF NewGrant

\* While one actor refreshes, whoever else has a store pending is a login.
LEMMA OthersAreLogins ==
  ASSUME Inv, NEW r \in Requests, pc[r] = "post"
  PROVE  \A b \in Actors \ {r} : Pending(b) => pc[b] = "store"
BY OneWriter DEF Inv, Pending, Refreshing, Actors

LEMMA RenewalRefresh ==
  ASSUME Inv, RenewalInv, NEW r \in Requests, Refresh(r) PROVE RenewalInv'
<1> DEFINE t == saved[r].refresh
           g == Len(grant) + 1
<1>1. /\ pc[r] = "post" /\ lock = r /\ UNCHANGED file /\ t \in Known /\ saved[r] = file
      /\ file \in File
  BY ConstantsTyped DEF Refresh, Inv, TypeOK, RequestSound, Refreshing, Issued, File, Actors
<1>2. PICK a \in Accounts, renewable \in BOOLEAN :
        /\ Rotate(t, a, renewable)
        /\ \/ /\ out' = [out EXCEPT ![r] = [access |-> g, refresh |-> Renewal(g, t)]]
              /\ Goto(r, "truncate")
              /\ UNCHANGED <<saved, lost>>
           \/ /\ Drop({r})
              /\ lost' = IF renewable THEN lost \cup {t} ELSE lost
  BY DEF Refresh
<1>3. /\ Known' = Known \cup {g}
      /\ \A h \in Known : grant'[h].renewal =
           IF renewable /\ h = t THEN "consumed" ELSE grant[h].renewal
      /\ grant'[g].renewal = IF renewable THEN "live" ELSE "none"
      /\ grant[t].renewal = "live"
  BY <1>1, <1>2, RotateOf DEF Inv, Rotate
<1>4. CASE Drop({r}) /\ lost' = IF renewable THEN lost \cup {t} ELSE lost
  <2>1. Spent' \subseteq Spent
    BY <1>1, <1>3, <1>4 DEF Spent
  <2> QED
    BY <1>1, <1>4, <2>1, RenewalDrop DEF LeftOrTorn, Actors
<1>5. CASE /\ out' = [out EXCEPT ![r] = [access |-> g, refresh |-> Renewal(g, t)]]
           /\ Goto(r, "truncate")
           /\ UNCHANGED <<saved, lost>>
  <2>1. /\ pc'[r] = "truncate" /\ out'[r].refresh = IF renewable THEN g ELSE t
        /\ \A b \in Actors \ {r} : pc'[b] = pc[b] /\ out'[b] = out[b]
    BY <1>3, <1>5 DEF Goto, Renewal, Inv, TypeOK, Actors
  <2>2. /\ Spent' \subseteq Spent \cup {t} /\ g \notin Spent'
        /\ ~renewable => t \notin Spent'
    BY <1>1, <1>3, <1>5 DEF Spent
  <2>3. Replacing(file.refresh)' /\ file' = file /\ file.refresh = t
    BY <1>1, <1>5, <2>1 DEF Replacing
  <2>4. \A b \in Actors \ {r} : Pending(b)' =>
          /\ Pending(b) /\ pc[b] = "store" /\ out'[b] = out[b] /\ pc'[b] = pc[b]
          /\ out[b].refresh \notin Spent \cup {t, g}
    <3> SUFFICES ASSUME NEW b \in Actors \ {r}, Pending(b)'
                 PROVE  /\ Pending(b) /\ pc[b] = "store"
                        /\ out'[b] = out[b] /\ pc'[b] = pc[b]
                        /\ out[b].refresh \notin Spent \cup {t, g}
      OBVIOUS
    <3>1. Pending(b) /\ pc[b] = "store" /\ out'[b] = out[b] /\ pc'[b] = pc[b]
      BY <1>1, <2>1, OthersAreLogins DEF Pending
    <3>2. out[b].refresh \in Known \cup {NONE} /\ out[b].refresh \notin Spent
      BY <3>1, PendingOut DEF RenewalInv
    <3>3. out[b].refresh # NONE => out[b].refresh # t
      BY <1>1, <3>1, ConstantsTyped DEF RenewalInv, Private, Loaded
    <3>4. g \notin Known /\ NONE \notin {t, g}
      BY <1>1, RefreshGrown, ConstantsTyped DEF Known, Inv, TypeOK, Grants
    <3> QED
      BY <1>1, <3>1, <3>2, <3>3, <3>4
  <2>5. \A a1 \in Actors : Pending(a1)' => out'[a1].refresh \notin Spent'
    BY <2>1, <2>2, <2>4
  <2>6. ASSUME NEW l \in Actors PROVE Private(l)'
    <3> SUFFICES ASSUME pc'[l] = "store", out'[l].refresh # NONE PROVE Private(l)'
      BY DEF Private
    <3>1. l # r /\ Pending(l)'
      BY <2>1 DEF Pending
    <3>2. /\ out'[l] = out[l] /\ pc[l] = "store" /\ out[l].refresh \notin {t, g}
          /\ \A b \in Actors \ {l} : Pending(b) => out[b].refresh # out[l].refresh
      BY <2>4, <3>1 DEF RenewalInv, Private
    <3>3. \A b \in Actors \ {l} : Pending(b)' => out'[b].refresh # out'[l].refresh
      BY <2>1, <2>4, <3>2
    <3> QED
      BY <2>3, <3>2, <3>3 DEF Private
  <2> QED
    BY <2>3, <2>5, <2>6 DEF RenewalInv
<1> QED
  BY <1>2, <1>4, <1>5

LEMMA RenewalGranted ==
  ASSUME Inv, RenewalInv, NEW l \in Logins, LoginGranted(l) PROVE RenewalInv'
<1> DEFINE g == Len(grant) + 1
<1>1. PICK a \in Accounts, renewable \in BOOLEAN :
        /\ grant' = Append(grant, NewGrant(a, renewable))
        /\ out' = [out EXCEPT ![l] = [access |-> g, refresh |-> IF renewable THEN g ELSE NONE]]
  BY DEF LoginGranted
<1>2. /\ pc'[l] = "store" /\ UNCHANGED <<file, saved, lost>> /\ l \in Actors
      /\ \A b \in Actors \ {l} : pc'[b] = pc[b] /\ out'[b] = out[b]
      /\ out'[l].refresh \in {g, NONE}
      /\ pc[l] = "idle"
  BY <1>1 DEF LoginGranted, Goto, Inv, TypeOK, Actors, historyVars
<1>3. /\ Known' = Known \cup {g} /\ g \notin Known
      /\ \A h \in Known : grant'[h] = grant[h]
      /\ grant'[g].renewal # "consumed"
  <2>1. /\ Len(grant') = g /\ grant'[g] = NewGrant(a, renewable)
        /\ \A h \in Known : grant'[h] = grant[h]
    BY <1>1 DEF Known, Inv, TypeOK
  <2> QED
    BY <2>1 DEF Known, NewGrant, Inv, TypeOK
<1>4. Spent' \subseteq Spent /\ g \notin Spent' /\ NONE \notin Spent'
  <2>1. NONE \notin Known'
    BY <1>1, ConstantsTyped DEF LoginGranted, Known, Grants, Inv, TypeOK
  <2> QED
    BY <1>2, <1>3, <2>1 DEF Spent
<1>5. \A b \in Actors \ {l} : Pending(b)' =>
        Pending(b) /\ out'[b] = out[b] /\ pc'[b] = pc[b] /\ out[b].refresh # g
  BY <1>1, <1>2, <1>3, PendingOut, ConstantsTyped DEF Pending, LoginGranted, Inv, TypeOK, Grants
<1>6. Loaded => file.refresh # g
  BY <1>1, <1>3, ConstantsTyped DEF Inv, TypeOK, FileSound, Issued, LoginGranted, Grants
<1>7. Loaded' /\ file'.refresh \in Spent' => Replacing(file.refresh)'
  BY <1>2, <1>4 DEF RenewalInv, Replacing, Loaded, Actors
<1>8. \A b \in Actors : Pending(b)' => out'[b].refresh \notin Spent'
  BY <1>2, <1>4, <1>5 DEF RenewalInv
<1>9. ASSUME NEW k \in Actors PROVE Private(k)'
  <2> SUFFICES ASSUME pc'[k] = "store", out'[k].refresh # NONE PROVE Private(k)'
    BY DEF Private
  <2>1. CASE k = l
    BY <1>2, <1>5, <1>6, <2>1 DEF Private, Loaded
  <2>2. CASE k # l
    <3>1. Pending(k)' /\ pc[k] = "store" /\ out'[k] = out[k] /\ out[k].refresh # g
      BY <1>2, <1>5, <2>2 DEF Pending
    <3>2. \A b \in Actors \ {k} : Pending(b)' => out'[b].refresh # out'[k].refresh
      BY <1>2, <1>5, <3>1 DEF RenewalInv, Private
    <3> QED
      BY <1>2, <3>1, <3>2 DEF RenewalInv, Private, Loaded
  <2> QED
    BY <2>1, <2>2
<1> QED
  BY <1>2, <1>7, <1>8, <1>9 DEF RenewalInv

LEMMA RenewalNext == Inv /\ RenewalInv /\ [Next]_vars => RenewalInv'
<1> SUFFICES ASSUME Inv, RenewalInv, [Next]_vars PROVE RenewalInv'
  OBVIOUS
<1>1. ASSUME Spent' \subseteq Spent, UNCHANGED file \/ file' = EMPTY,
             UNCHANGED <<pc, rejected, saved, out, token, endpoint>>
      PROVE  RenewalInv'
  <2>1. Frame({}) /\ {} \in SUBSET Actors
    BY <1>1 DEF Frame
  <2> QED
    BY <1>1, <2>1, RenewalLocal
<1>2. CASE Logout \/ UNCHANGED vars
  BY <1>1, <1>2, SpentSame DEF Logout, vars
<1>3. ASSUME NEW g \in Grants, Tick(g) PROVE RenewalInv'
  <2>1. g \in Known
    BY <1>3, ConstantsTyped DEF Tick, Inv, FileSound, Issued, Grants
  <2>2. \A h \in Known : grant'[h].renewal \in {grant[h].renewal, "lapsed"}
    <3>1. \A h \in Known : grant[h] \in Grant
      BY DEF Inv, TypeOK, Known
    <3>2. CASE grant' = SetRenewal(g, "lapsed")
      BY <2>1, <3>2, RenewalOf DEF Inv
    <3>3. ASSUME NEW x, grant' = SetAge(g, x)
          PROVE  \A h \in Known : grant'[h].renewal = grant[h].renewal
      <4>1. \A h \in Known : grant'[h] = IF h = g THEN [grant[g] EXCEPT !.age = x] ELSE grant[h]
        BY <2>1, <3>3 DEF SetAge, Inv, TypeOK, Known
      <4> QED
        BY <2>1, <3>1, <4>1 DEF Grant
    <3> QED
      BY <1>3, <3>2, <3>3 DEF Tick
  <2>3. Spent' \subseteq Spent
    BY <1>3, <2>2, TickGrown DEF Spent, Known, Tick, historyVars
  <2> QED
    BY <1>1, <1>3, <2>3 DEF Tick
<1>4. ASSUME NEW r \in Requests, RequestStep(r) PROVE RenewalInv'
  BY <1>4, RenewalStep, RenewalRefresh, RenewalOver DEF RequestStep
<1>5. ASSUME NEW l \in Logins, LoginGranted(l) \/ LoginStore(l) PROVE RenewalInv'
  BY <1>5, RenewalGranted, RenewalStoring DEF Actors
<1>6. ASSUME NEW a \in Actors, Truncate(a) \/ Write(a) \/ StoreFails(a) PROVE RenewalInv'
  BY <1>6, RenewalStoring, RenewalWrite, RenewalStoreFails
<1> QED
  BY <1>2, <1>3, <1>4, <1>5, <1>6, RenewalCrash DEF Next

\* Whoever finds the file unlocked finds a refresh token that is good for a refresh,
\* or that a reply which was dropped, refused or not stored has used up.
THEOREM SpentMeansLost == Spec => []SpentOnlyIfLost
<1>1. Inv /\ RenewalInv => SpentOnlyIfLost
  BY ConstantsTyped
     DEF Inv, TypeOK, FileSound, Issued, RenewalInv, Replacing, Spent, SpentOnlyIfLost, Loaded,
         Actors
<1>2. Spec => []RenewalInv
  BY InitInv, RenewalInit, NextInv, RenewalNext, PTL DEF Spec
<1> QED
  BY <1>1, <1>2, Invariance, PTL
=============================================================================
