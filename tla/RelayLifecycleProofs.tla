------------------------ MODULE RelayLifecycleProofs ------------------------
(***************************************************************************)
(* Theorems about RelayLifecycle, for any set of requests and any number   *)
(* of permits.                                                             *)
(***************************************************************************)
EXTENDS RelayLifecycle, FiniteSetTheorems, TLAPS

Upstream == {"work", "stream", "finish"}

\* Who has the audit: a handler that has not handed off, or a task that has not
\* recorded.  Both append once, when they give it up; it is lost in the end only.
Owned(r) ==
  /\ audit[r] = "lost" => server = "exited" /\ appends[r] <= 1
  /\ audit[r] \in {"none", "handler", "task"} => appends[r] = 0
  /\ audit[r] \in {"appending", "written"} => appends[r] = 1
  /\ conn[r] \in {"absent", "idle"} => handler[r] = "none"
  /\ handler[r] = "none" => audit[r] = "none"
  /\ handler[r] \in {"none", "admit", "body", "recording"} => task[r] = "none"
  /\ handler[r] \in {"admit", "body"} => audit[r] \in {"handler", "lost"}
  /\ audit[r] \in {"none", "handler"} => task[r] = "none"
  /\ task[r] \in Upstream => audit[r] \in {"task", "lost"}
  /\ task[r] = "ended" => audit[r] \in {"written", "lost"}

\* What the client was, or will be, given is what the record says.
Told(r) ==
  /\ handler[r] \in {"none", "admit", "body", "recording", "wait"} => got[r] = NONE
  /\ task[r] = "none" => reply[r] = "none"
  /\ task[r] = "work" => reply[r] \in {"open", "closed"} /\ got[r] = NONE
  /\ reply[r] \in Responses => status[r] = reply[r]
  /\ got[r] # NONE => status[r] = got[r]

\* The outcome has its cause.
Caused(r) ==
  /\ handler[r] = "dropped" \/ reply[r] = "closed" \/ outcome[r] = "client_disconnect" =>
       conn[r] \in {"gone", "cut"}
  /\ outcome[r] = "shutdown" => server \notin {"running", "draining"}
  /\ outcome[r] \in {"completed", "incomplete"} \/ task[r] = "stream" => status[r] = "upstream"
  /\ outcome[r] = "rejected" =>
       status[r] = "reject" /\ task[r] = "none" /\ handler[r] \in {"recording", "responded", "dropped"}

\* A request that is read, runs or is recorded by its task holds its permits.
Holds(r) ==
  handler[r] = "body" \/ task[r] \in Upstream \cup {"record"} =>
    r \in slots /\ (r \in Images => r \in imageSlots)

Sound(r) == Owned(r) /\ Told(r) /\ Caused(r) /\ Holds(r)

Counted ==
  /\ IsFiniteSet(slots) /\ Cardinality(slots) <= Slots
  /\ IsFiniteSet(imageSlots) /\ Cardinality(imageSlots) <= ImageSlots

Inv == TypeOK /\ Counted /\ \A r \in Requests : Sound(r)

-----------------------------------------------------------------------------
LEMMA InitInv == Init => Inv
<1> SUFFICES ASSUME Init PROVE Inv
  OBVIOUS
<1>1. TypeOK
  BY DEF Init, TypeOK
<1>2. Counted
  BY FS_EmptySet, ConstantsTyped DEF Init, Counted
<1>3. ASSUME NEW r \in Requests PROVE Sound(r)
  BY DEF Init, Sound, Owned, Told, Caused, Holds, Responses, Upstream
<1> QED
  BY <1>1, <1>2, <1>3 DEF Inv

\* The server's way goes from running to its end, and an exit is final.
Onward ==
  /\ server \notin {"running", "draining"} => server' \notin {"running", "draining"}
  /\ server = "exited" => server' = "exited"

\* A request of which a step changes nothing.
Still(r) ==
  /\ conn'[r] = conn[r] /\ handler'[r] = handler[r] /\ task'[r] = task[r]
  /\ reply'[r] = reply[r] /\ got'[r] = got[r] /\ audit'[r] = audit[r]
  /\ outcome'[r] = outcome[r] /\ status'[r] = status[r] /\ appends'[r] = appends[r]
  /\ (r \in slots => r \in slots') /\ (r \in imageSlots => r \in imageSlots')

LEMMA StillSound ==
  ASSUME NEW r \in Requests, Sound(r), Onward, Still(r) PROVE Sound(r)'
<1>1. Owned(r)' /\ Told(r)'
  BY DEF Sound, Owned, Told, Onward, Still
<1>2. Caused(r)' /\ Holds(r)'
  BY DEF Sound, Caused, Holds, Onward, Still
<1> QED
  BY <1>1, <1>2 DEF Sound

\* Permits that are given back leave the count within its bounds.
LEMMA FewerCounted ==
  ASSUME TypeOK, Counted, slots' \subseteq slots, imageSlots' \subseteq imageSlots
  PROVE  Counted'
<1>1. IsFiniteSet(slots') /\ Cardinality(slots') <= Cardinality(slots)
  BY FS_Subset, slots' \in SUBSET slots DEF Counted
<1>2. IsFiniteSet(imageSlots') /\ Cardinality(imageSlots') <= Cardinality(imageSlots)
  BY FS_Subset, imageSlots' \in SUBSET imageSlots DEF Counted
<1>3. /\ Cardinality(slots) \in Nat /\ Cardinality(slots') \in Nat
      /\ Cardinality(imageSlots) \in Nat /\ Cardinality(imageSlots') \in Nat
  BY <1>1, <1>2, FS_CardinalityType DEF Counted
<1> QED
  BY <1>1, <1>2, <1>3, ConstantsTyped DEF Counted

\* A step of one request.
LEMMA OneMoves ==
  ASSUME Inv, NEW r \in Requests, TypeOK', Counted', Sound(r)', UNCHANGED server,
         \A q \in Requests \ {r} : Still(q)
  PROVE  Inv'
<1>1. \A q \in Requests \ {r} : Sound(q)'
  BY StillSound DEF Inv, Onward
<1> QED
  BY <1>1 DEF Inv

LEMMA ConnectInv == ASSUME Inv, NEW r \in Requests, Connect(r) PROVE Inv'
<1>1. TypeOK'
  BY DEF Inv, TypeOK, Responses, Connect, recordVars, permitVars
<1>2. Counted'
  BY FewerCounted DEF Inv, Connect, recordVars, permitVars
<1>3. \A q \in Requests \ {r} : Still(q)
  BY DEF Inv, TypeOK, Still, Connect, recordVars, permitVars
<1>4. Sound(r)'
  <2>1. Owned(r)'
    BY DEF Inv, TypeOK, Sound, Owned, Upstream, Connect, recordVars, permitVars
  <2>2. Told(r)'
    BY DEF Inv, TypeOK, Sound, Owned, Told, Responses, Connect, recordVars, permitVars
  <2>3. Caused(r)'
    BY DEF Inv, TypeOK, Sound, Owned, Told, Caused, Responses, Connect, recordVars,
           permitVars
  <2>4. Holds(r)'
    BY DEF Inv, TypeOK, Sound, Owned, Holds, Upstream, Connect, recordVars, permitVars
  <2> QED
    BY <2>1, <2>2, <2>3, <2>4 DEF Sound
<1> QED
  BY <1>1, <1>2, <1>3, <1>4, OneMoves DEF Connect, recordVars, permitVars

LEMMA ArriveInv == ASSUME Inv, NEW r \in Requests, Arrive(r) PROVE Inv'
<1>1. TypeOK'
  BY DEF Inv, TypeOK, Responses, Arrive, Serving, permitVars
<1>2. Counted'
  BY FewerCounted DEF Inv, Arrive, Serving, permitVars
<1>3. \A q \in Requests \ {r} : Still(q)
  BY DEF Inv, TypeOK, Still, Arrive, Serving, permitVars
<1>4. Sound(r)'
  <2>1. Owned(r)'
    BY DEF Inv, TypeOK, Sound, Owned, Upstream, Arrive, Serving, permitVars
  <2>2. Told(r)'
    BY DEF Inv, TypeOK, Sound, Owned, Told, Responses, Arrive, Serving, permitVars
  <2>3. Caused(r)'
    BY DEF Inv, TypeOK, Sound, Owned, Told, Caused, Responses, Arrive, Serving, permitVars
  <2>4. Holds(r)'
    BY DEF Inv, TypeOK, Sound, Owned, Holds, Upstream, Arrive, Serving, permitVars
  <2> QED
    BY <2>1, <2>2, <2>3, <2>4 DEF Sound
<1> QED
  BY <1>1, <1>2, <1>3, <1>4, OneMoves DEF Arrive, Serving, permitVars

LEMMA RefuseHeadInv == ASSUME Inv, NEW r \in Requests, RefuseHead(r) PROVE Inv'
<1>1. TypeOK'
  BY DEF Inv, TypeOK, Responses, RefuseHead, Serving, Goto, Finish, permitVars
<1>2. Counted'
  BY FewerCounted DEF Inv, RefuseHead, Serving, Goto, Finish, permitVars
<1>3. \A q \in Requests \ {r} : Still(q)
  BY DEF Inv, TypeOK, Still, RefuseHead, Serving, Goto, Finish, permitVars
<1>4. Sound(r)'
  <2>1. Owned(r)'
    BY DEF Inv, TypeOK, Sound, Owned, Upstream, RefuseHead, Serving, Goto, Finish,
           permitVars
  <2>2. Told(r)'
    BY DEF Inv, TypeOK, Sound, Owned, Told, Responses, RefuseHead, Serving, Goto, Finish,
           permitVars
  <2>3. Caused(r)'
    BY DEF Inv, TypeOK, Sound, Owned, Told, Caused, Responses, RefuseHead, Serving, Goto,
           Finish, permitVars
  <2>4. Holds(r)'
    BY DEF Inv, TypeOK, Sound, Owned, Holds, Upstream, RefuseHead, Serving, Goto, Finish,
           permitVars
  <2> QED
    BY <2>1, <2>2, <2>3, <2>4 DEF Sound
<1> QED
  BY <1>1, <1>2, <1>3, <1>4, OneMoves DEF RefuseHead, Serving, Goto, Finish, permitVars

LEMMA AdmitInv == ASSUME Inv, NEW r \in Requests, Admit(r) PROVE Inv'
<1>1. TypeOK'
  BY DEF Inv, TypeOK, Responses, Admit, Serving, Goto, recordVars
<1>2. Counted'
  <2>1. Cardinality(slots) \in Nat /\ Cardinality(imageSlots) \in Nat
    BY FS_CardinalityType DEF Inv, Counted
  <2>2. /\ IsFiniteSet(slots \cup {r})
        /\ Cardinality(slots \cup {r}) <= Cardinality(slots) + 1
    <3>1. IsFiniteSet(slots)
      BY DEF Inv, Counted
    <3> QED
      BY <2>1, <3>1, FS_AddElement
  <2>3. /\ IsFiniteSet(imageSlots \cup {r})
        /\ Cardinality(imageSlots \cup {r}) <= Cardinality(imageSlots) + 1
    BY <2>1, FS_AddElement DEF Inv, Counted
  <2>4. Cardinality(slots \cup {r}) \in Nat /\ Cardinality(imageSlots \cup {r}) \in Nat
    BY <2>2, <2>3, FS_CardinalityType
  <2>5. Cardinality(slots') <= Slots /\ IsFiniteSet(slots')
    BY <2>1, <2>2, <2>4, ConstantsTyped DEF Admit, Free
  <2>6. Cardinality(imageSlots') <= ImageSlots /\ IsFiniteSet(imageSlots')
    BY <2>1, <2>3, <2>4, ConstantsTyped DEF Inv, Counted, Admit, Free
  <2> QED
    BY <2>5, <2>6 DEF Counted
<1>3. \A q \in Requests \ {r} : Still(q)
  BY DEF Inv, TypeOK, Still, Admit, Serving, Goto, recordVars
<1>4. Sound(r)'
  <2>1. Owned(r)'
    BY DEF Inv, TypeOK, Sound, Owned, Upstream, Admit, Serving, Goto, recordVars
  <2>2. Told(r)'
    BY DEF Inv, TypeOK, Sound, Owned, Told, Responses, Admit, Serving, Goto, recordVars
  <2>3. Caused(r)'
    BY DEF Inv, TypeOK, Sound, Owned, Told, Caused, Responses, Admit, Serving, Goto,
           recordVars
  <2>4. Holds(r)'
    BY DEF Inv, TypeOK, Sound, Owned, Holds, Upstream, Admit, Serving, Goto, recordVars
  <2> QED
    BY <2>1, <2>2, <2>3, <2>4 DEF Sound
<1> QED
  BY <1>1, <1>2, <1>3, <1>4, OneMoves DEF Admit, Serving, Goto, recordVars

LEMMA RefuseBodyInv == ASSUME Inv, NEW r \in Requests, RefuseBody(r) PROVE Inv'
<1>1. TypeOK'
  BY DEF Inv, TypeOK, Responses, RefuseBody, Serving, Goto, Finish
<1>2. Counted'
  BY FewerCounted DEF Inv, RefuseBody, Serving, Goto, Finish
<1>3. \A q \in Requests \ {r} : Still(q)
  BY DEF Inv, TypeOK, Still, RefuseBody, Serving, Goto, Finish
<1>4. Sound(r)'
  <2>1. Owned(r)'
    BY DEF Inv, TypeOK, Sound, Owned, Upstream, RefuseBody, Serving, Goto, Finish
  <2>2. Told(r)'
    BY DEF Inv, TypeOK, Sound, Owned, Told, Responses, RefuseBody, Serving, Goto, Finish
  <2>3. Caused(r)'
    BY DEF Inv, TypeOK, Sound, Owned, Told, Caused, Responses, RefuseBody, Serving, Goto,
           Finish
  <2>4. Holds(r)'
    BY DEF Inv, TypeOK, Sound, Owned, Holds, Upstream, RefuseBody, Serving, Goto, Finish
  <2> QED
    BY <2>1, <2>2, <2>3, <2>4 DEF Sound
<1> QED
  BY <1>1, <1>2, <1>3, <1>4, OneMoves DEF RefuseBody, Serving, Goto, Finish

LEMMA HandOffInv == ASSUME Inv, NEW r \in Requests, HandOff(r) PROVE Inv'
<1>1. TypeOK'
  BY DEF Inv, TypeOK, Responses, HandOff, Serving, Goto, permitVars
<1>2. Counted'
  BY FewerCounted DEF Inv, HandOff, Serving, Goto, permitVars
<1>3. \A q \in Requests \ {r} : Still(q)
  BY DEF Inv, TypeOK, Still, HandOff, Serving, Goto, permitVars
<1>4. Sound(r)'
  <2>1. Owned(r)'
    BY DEF Inv, TypeOK, Sound, Owned, Upstream, HandOff, Serving, Goto, permitVars
  <2>2. Told(r)'
    BY DEF Inv, TypeOK, Sound, Owned, Told, Responses, HandOff, Serving, Goto, permitVars
  <2>3. Caused(r)'
    BY DEF Inv, TypeOK, Sound, Owned, Told, Caused, Responses, HandOff, Serving, Goto,
           permitVars
  <2>4. Holds(r)'
    BY DEF Inv, TypeOK, Sound, Owned, Holds, Upstream, HandOff, Serving, Goto, permitVars
  <2> QED
    BY <2>1, <2>2, <2>3, <2>4 DEF Sound
<1> QED
  BY <1>1, <1>2, <1>3, <1>4, OneMoves DEF HandOff, Serving, Goto, permitVars

LEMMA RespondInv == ASSUME Inv, NEW r \in Requests, Respond(r) PROVE Inv'
<1>1. TypeOK'
  BY DEF Inv, TypeOK, Responses, Respond, Serving, Goto, recordVars, permitVars
<1>2. Counted'
  BY FewerCounted DEF Inv, Respond, Serving, Goto, recordVars, permitVars
<1>3. \A q \in Requests \ {r} : Still(q)
  BY DEF Inv, TypeOK, Still, Respond, Serving, Goto, recordVars, permitVars
<1>4. Sound(r)'
  <2>1. Owned(r)'
    BY DEF Inv, TypeOK, Sound, Owned, Upstream, Respond, Serving, Goto, recordVars,
           permitVars
  <2>2. Told(r)'
    BY DEF Inv, TypeOK, Sound, Owned, Told, Responses, Respond, Serving, Goto, recordVars,
           permitVars
  <2>3. Caused(r)'
    BY DEF Inv, TypeOK, Sound, Owned, Told, Caused, Responses, Respond, Serving, Goto,
           recordVars, permitVars
  <2>4. Holds(r)'
    BY DEF Inv, TypeOK, Sound, Owned, Holds, Upstream, Respond, Serving, Goto, recordVars,
           permitVars
  <2> QED
    BY <2>1, <2>2, <2>3, <2>4 DEF Sound
<1> QED
  BY <1>1, <1>2, <1>3, <1>4, OneMoves DEF Respond, Serving, Goto, recordVars, permitVars

LEMMA ConnectionEndsInv == ASSUME Inv, NEW r \in Requests, ConnectionEnds(r) PROVE Inv'
<1>1. TypeOK'
  BY DEF Inv, TypeOK, Responses, ConnectionEnds, Serving, recordVars, permitVars
<1>2. Counted'
  BY FewerCounted DEF Inv, ConnectionEnds, Serving, recordVars, permitVars
<1>3. \A q \in Requests \ {r} : Still(q)
  BY DEF Inv, TypeOK, Still, ConnectionEnds, Serving, recordVars, permitVars
<1>4. Sound(r)'
  <2>1. Owned(r)'
    BY DEF Inv, TypeOK, Sound, Owned, Upstream, ConnectionEnds, Serving, recordVars,
           permitVars
  <2>2. Told(r)'
    BY DEF Inv, TypeOK, Sound, Owned, Told, Responses, ConnectionEnds, Serving, recordVars,
           permitVars
  <2>3. Caused(r)'
    BY DEF Inv, TypeOK, Sound, Owned, Told, Caused, Responses, ConnectionEnds, Serving,
           recordVars, permitVars
  <2>4. Holds(r)'
    BY DEF Inv, TypeOK, Sound, Owned, Holds, Upstream, ConnectionEnds, Serving, recordVars,
           permitVars
  <2> QED
    BY <2>1, <2>2, <2>3, <2>4 DEF Sound
<1> QED
  BY <1>1, <1>2, <1>3, <1>4, OneMoves DEF ConnectionEnds, Serving, recordVars, permitVars

LEMMA ClientLeavesInv == ASSUME Inv, NEW r \in Requests, ClientLeaves(r) PROVE Inv'
<1>1. TypeOK'
  BY DEF Inv, TypeOK, Responses, ClientLeaves, Serving, DropHandlers
<1>2. Counted'
  BY FewerCounted DEF Inv, ClientLeaves, Serving, DropHandlers
<1>3. \A q \in Requests \ {r} : Still(q)
  BY DEF Inv, TypeOK, Still, ClientLeaves, Serving, DropHandlers
<1>4. Sound(r)'
  <2>1. Owned(r)'
    BY DEF Inv, TypeOK, Sound, Owned, Upstream, ClientLeaves, Serving, DropHandlers
  <2>2. Told(r)'
    BY DEF Inv, TypeOK, Sound, Owned, Told, Responses, ClientLeaves, Serving, DropHandlers
  <2>3. Caused(r)'
    BY DEF Inv, TypeOK, Sound, Owned, Told, Caused, Responses, ClientLeaves, Serving,
           DropHandlers
  <2>4. Holds(r)'
    BY DEF Inv, TypeOK, Sound, Owned, Holds, Upstream, ClientLeaves, Serving, DropHandlers
  <2> QED
    BY <2>1, <2>2, <2>3, <2>4 DEF Sound
<1> QED
  BY <1>1, <1>2, <1>3, <1>4, OneMoves DEF ClientLeaves, Serving, DropHandlers

LEMMA AppendRecordInv == ASSUME Inv, NEW r \in Requests, AppendRecord(r) PROVE Inv'
<1>1. TypeOK'
  BY DEF Inv, TypeOK, Responses, AppendRecord, Alive, permitVars
<1>2. Counted'
  BY FewerCounted DEF Inv, AppendRecord, Alive, permitVars
<1>3. \A q \in Requests \ {r} : Still(q)
  BY DEF Inv, TypeOK, Still, AppendRecord, Alive, permitVars
<1>4. Sound(r)'
  <2>1. Owned(r)'
    BY DEF Inv, TypeOK, Sound, Owned, Upstream, AppendRecord, Alive, permitVars
  <2>2. Told(r)'
    BY DEF Inv, TypeOK, Sound, Owned, Told, Responses, AppendRecord, Alive, permitVars
  <2>3. Caused(r)'
    BY DEF Inv, TypeOK, Sound, Owned, Told, Caused, Responses, AppendRecord, Alive,
           permitVars
  <2>4. Holds(r)'
    BY DEF Inv, TypeOK, Sound, Owned, Holds, Upstream, AppendRecord, Alive, permitVars
  <2> QED
    BY <2>1, <2>2, <2>3, <2>4 DEF Sound
<1> QED
  BY <1>1, <1>2, <1>3, <1>4, OneMoves DEF AppendRecord, Alive, permitVars

LEMMA TaskShutdownInv == ASSUME Inv, NEW r \in Requests, TaskShutdown(r) PROVE Inv'
<1>1. TypeOK'
  BY DEF Inv, TypeOK, Responses, TaskShutdown, Alive, Ends, Deliver, Conclude, Shutdown,
         permitVars
<1>2. Counted'
  BY FewerCounted DEF Inv, TaskShutdown, Alive, Ends, Deliver, Conclude, Shutdown,
     permitVars
<1>3. \A q \in Requests \ {r} : Still(q)
  BY DEF Inv, TypeOK, Still, TaskShutdown, Alive, Ends, Deliver, Conclude, Shutdown,
         permitVars
<1>4. Sound(r)'
  <2>1. Owned(r)'
    BY DEF Inv, TypeOK, Sound, Owned, Upstream, TaskShutdown, Alive, Ends, Deliver,
           Conclude, Shutdown, permitVars
  <2>2. Told(r)'
    BY DEF Inv, TypeOK, Sound, Owned, Told, Responses, TaskShutdown, Alive, Ends, Deliver,
           Conclude, Shutdown, permitVars
  <2>3. Caused(r)'
    BY DEF Inv, TypeOK, Sound, Owned, Told, Caused, Responses, TaskShutdown, Alive, Ends,
           Deliver, Conclude, Shutdown, permitVars
  <2>4. Holds(r)'
    BY DEF Inv, TypeOK, Sound, Owned, Holds, Upstream, TaskShutdown, Alive, Ends, Deliver,
           Conclude, Shutdown, permitVars
  <2> QED
    BY <2>1, <2>2, <2>3, <2>4 DEF Sound
<1> QED
  BY <1>1, <1>2, <1>3, <1>4, OneMoves DEF TaskShutdown, Alive, Ends, Deliver, Conclude,
     Shutdown, permitVars

LEMMA TaskCancelledInv == ASSUME Inv, NEW r \in Requests, TaskCancelled(r) PROVE Inv'
<1>1. TypeOK'
  BY DEF Inv, TypeOK, Responses, TaskCancelled, Alive, Ends, Deliver, Conclude, permitVars
<1>2. Counted'
  BY FewerCounted DEF Inv, TaskCancelled, Alive, Ends, Deliver, Conclude, permitVars
<1>3. \A q \in Requests \ {r} : Still(q)
  BY DEF Inv, TypeOK, Still, TaskCancelled, Alive, Ends, Deliver, Conclude, permitVars
<1>4. Sound(r)'
  <2>1. Owned(r)'
    BY DEF Inv, TypeOK, Sound, Owned, Upstream, TaskCancelled, Alive, Ends, Deliver,
           Conclude, permitVars
  <2>2. Told(r)'
    BY DEF Inv, TypeOK, Sound, Owned, Told, Responses, TaskCancelled, Alive, Ends, Deliver,
           Conclude, permitVars
  <2>3. Caused(r)'
    BY DEF Inv, TypeOK, Sound, Owned, Told, Caused, Responses, TaskCancelled, Alive, Ends,
           Deliver, Conclude, permitVars
  <2>4. Holds(r)'
    BY DEF Inv, TypeOK, Sound, Owned, Holds, Upstream, TaskCancelled, Alive, Ends, Deliver,
           Conclude, permitVars
  <2> QED
    BY <2>1, <2>2, <2>3, <2>4 DEF Sound
<1> QED
  BY <1>1, <1>2, <1>3, <1>4, OneMoves DEF TaskCancelled, Alive, Ends, Deliver, Conclude,
     permitVars

LEMMA TaskDeadlineInv == ASSUME Inv, NEW r \in Requests, TaskDeadline(r) PROVE Inv'
<1>1. TypeOK'
  BY DEF Inv, TypeOK, Responses, TaskDeadline, Alive, Ends, Deliver, Conclude, permitVars
<1>2. Counted'
  BY FewerCounted DEF Inv, TaskDeadline, Alive, Ends, Deliver, Conclude, permitVars
<1>3. \A q \in Requests \ {r} : Still(q)
  BY DEF Inv, TypeOK, Still, TaskDeadline, Alive, Ends, Deliver, Conclude, permitVars
<1>4. Sound(r)'
  <2>1. Owned(r)'
    BY DEF Inv, TypeOK, Sound, Owned, Upstream, TaskDeadline, Alive, Ends, Deliver,
           Conclude, permitVars
  <2>2. Told(r)'
    BY DEF Inv, TypeOK, Sound, Owned, Told, Responses, TaskDeadline, Alive, Ends, Deliver,
           Conclude, permitVars
  <2>3. Caused(r)'
    BY DEF Inv, TypeOK, Sound, Owned, Told, Caused, Responses, TaskDeadline, Alive, Ends,
           Deliver, Conclude, permitVars
  <2>4. Holds(r)'
    BY DEF Inv, TypeOK, Sound, Owned, Holds, Upstream, TaskDeadline, Alive, Ends, Deliver,
           Conclude, permitVars
  <2> QED
    BY <2>1, <2>2, <2>3, <2>4 DEF Sound
<1> QED
  BY <1>1, <1>2, <1>3, <1>4, OneMoves DEF TaskDeadline, Alive, Ends, Deliver, Conclude,
     permitVars

LEMMA TaskFailsInv == ASSUME Inv, NEW r \in Requests, TaskFails(r) PROVE Inv'
<1>1. TypeOK'
  BY DEF Inv, TypeOK, Responses, TaskFails, Alive, Ends, Deliver, Conclude, Failures,
         permitVars
<1>2. Counted'
  BY FewerCounted DEF Inv, TaskFails, Alive, Ends, Deliver, Conclude, Failures, permitVars
<1>3. \A q \in Requests \ {r} : Still(q)
  BY DEF Inv, TypeOK, Still, TaskFails, Alive, Ends, Deliver, Conclude, Failures, permitVars
<1>4. Sound(r)'
  <2>1. Owned(r)'
    BY DEF Inv, TypeOK, Sound, Owned, Upstream, TaskFails, Alive, Ends, Deliver, Conclude,
           Failures, permitVars
  <2>2. Told(r)'
    BY DEF Inv, TypeOK, Sound, Owned, Told, Responses, TaskFails, Alive, Ends, Deliver,
           Conclude, Failures, permitVars
  <2>3. Caused(r)'
    BY DEF Inv, TypeOK, Sound, Owned, Told, Caused, Responses, TaskFails, Alive, Ends,
           Deliver, Conclude, Failures, permitVars
  <2>4. Holds(r)'
    BY DEF Inv, TypeOK, Sound, Owned, Holds, Upstream, TaskFails, Alive, Ends, Deliver,
           Conclude, Failures, permitVars
  <2> QED
    BY <2>1, <2>2, <2>3, <2>4 DEF Sound
<1> QED
  BY <1>1, <1>2, <1>3, <1>4, OneMoves DEF TaskFails, Alive, Ends, Deliver, Conclude,
     Failures, permitVars

LEMMA TaskPassesErrorInv == ASSUME Inv, NEW r \in Requests, TaskPassesError(r) PROVE Inv'
<1>1. TypeOK'
  BY DEF Inv, TypeOK, Responses, TaskPassesError, Alive, Ends, Deliver, Conclude, permitVars
<1>2. Counted'
  BY FewerCounted DEF Inv, TaskPassesError, Alive, Ends, Deliver, Conclude, permitVars
<1>3. \A q \in Requests \ {r} : Still(q)
  BY DEF Inv, TypeOK, Still, TaskPassesError, Alive, Ends, Deliver, Conclude, permitVars
<1>4. Sound(r)'
  <2>1. Owned(r)'
    BY DEF Inv, TypeOK, Sound, Owned, Upstream, TaskPassesError, Alive, Ends, Deliver,
           Conclude, permitVars
  <2>2. Told(r)'
    BY DEF Inv, TypeOK, Sound, Owned, Told, Responses, TaskPassesError, Alive, Ends,
           Deliver, Conclude, permitVars
  <2>3. Caused(r)'
    BY DEF Inv, TypeOK, Sound, Owned, Told, Caused, Responses, TaskPassesError, Alive, Ends,
           Deliver, Conclude, permitVars
  <2>4. Holds(r)'
    BY DEF Inv, TypeOK, Sound, Owned, Holds, Upstream, TaskPassesError, Alive, Ends,
           Deliver, Conclude, permitVars
  <2> QED
    BY <2>1, <2>2, <2>3, <2>4 DEF Sound
<1> QED
  BY <1>1, <1>2, <1>3, <1>4, OneMoves DEF TaskPassesError, Alive, Ends, Deliver, Conclude,
     permitVars

LEMMA TaskStreamsInv == ASSUME Inv, NEW r \in Requests, TaskStreams(r) PROVE Inv'
<1>1. TypeOK'
  BY DEF Inv, TypeOK, Responses, TaskStreams, Alive, Ends, Deliver, Conclude, permitVars
<1>2. Counted'
  BY FewerCounted DEF Inv, TaskStreams, Alive, Ends, Deliver, Conclude, permitVars
<1>3. \A q \in Requests \ {r} : Still(q)
  BY DEF Inv, TypeOK, Still, TaskStreams, Alive, Ends, Deliver, Conclude, permitVars
<1>4. Sound(r)'
  <2>1. Owned(r)'
    BY DEF Inv, TypeOK, Sound, Owned, Upstream, TaskStreams, Alive, Ends, Deliver, Conclude,
           permitVars
  <2>2. Told(r)'
    BY DEF Inv, TypeOK, Sound, Owned, Told, Responses, TaskStreams, Alive, Ends, Deliver,
           Conclude, permitVars
  <2>3. Caused(r)'
    BY DEF Inv, TypeOK, Sound, Owned, Told, Caused, Responses, TaskStreams, Alive, Ends,
           Deliver, Conclude, permitVars
  <2>4. Holds(r)'
    BY DEF Inv, TypeOK, Sound, Owned, Holds, Upstream, TaskStreams, Alive, Ends, Deliver,
           Conclude, permitVars
  <2> QED
    BY <2>1, <2>2, <2>3, <2>4 DEF Sound
<1> QED
  BY <1>1, <1>2, <1>3, <1>4, OneMoves DEF TaskStreams, Alive, Ends, Deliver, Conclude,
     permitVars

LEMMA StreamEndsInv == ASSUME Inv, NEW r \in Requests, StreamEnds(r) PROVE Inv'
<1>1. TypeOK'
  BY DEF Inv, TypeOK, Responses, StreamEnds, Alive, StreamOver, Conclude, Observed,
         permitVars
<1>2. Counted'
  BY FewerCounted DEF Inv, StreamEnds, Alive, StreamOver, Conclude, Observed, permitVars
<1>3. \A q \in Requests \ {r} : Still(q)
  BY DEF Inv, TypeOK, Still, StreamEnds, Alive, StreamOver, Conclude, Observed, permitVars
<1>4. Sound(r)'
  <2>1. Owned(r)'
    BY DEF Inv, TypeOK, Sound, Owned, Upstream, StreamEnds, Alive, StreamOver, Conclude,
           Observed, permitVars
  <2>2. Told(r)'
    BY DEF Inv, TypeOK, Sound, Owned, Told, Responses, StreamEnds, Alive, StreamOver,
           Conclude, Observed, permitVars
  <2>3. Caused(r)'
    BY DEF Inv, TypeOK, Sound, Owned, Told, Caused, Responses, StreamEnds, Alive,
           StreamOver, Conclude, Observed, permitVars
  <2>4. Holds(r)'
    BY DEF Inv, TypeOK, Sound, Owned, Holds, Upstream, StreamEnds, Alive, StreamOver,
           Conclude, Observed, permitVars
  <2> QED
    BY <2>1, <2>2, <2>3, <2>4 DEF Sound
<1> QED
  BY <1>1, <1>2, <1>3, <1>4, OneMoves DEF StreamEnds, Alive, StreamOver, Conclude, Observed,
     permitVars

LEMMA StreamClientGoneInv == ASSUME Inv, NEW r \in Requests, StreamClientGone(r) PROVE Inv'
<1>1. TypeOK'
  BY DEF Inv, TypeOK, Responses, StreamClientGone, Alive, StreamOver, Conclude, Interrupted,
         permitVars
<1>2. Counted'
  BY FewerCounted DEF Inv, StreamClientGone, Alive, StreamOver, Conclude, Interrupted,
     permitVars
<1>3. \A q \in Requests \ {r} : Still(q)
  BY DEF Inv, TypeOK, Still, StreamClientGone, Alive, StreamOver, Conclude, Interrupted,
         permitVars
<1>4. Sound(r)'
  <2>1. Owned(r)'
    BY DEF Inv, TypeOK, Sound, Owned, Upstream, StreamClientGone, Alive, StreamOver,
           Conclude, Interrupted, permitVars
  <2>2. Told(r)'
    BY DEF Inv, TypeOK, Sound, Owned, Told, Responses, StreamClientGone, Alive, StreamOver,
           Conclude, Interrupted, permitVars
  <2>3. Caused(r)'
    BY DEF Inv, TypeOK, Sound, Owned, Told, Caused, Responses, StreamClientGone, Alive,
           StreamOver, Conclude, Interrupted, permitVars
  <2>4. Holds(r)'
    BY DEF Inv, TypeOK, Sound, Owned, Holds, Upstream, StreamClientGone, Alive, StreamOver,
           Conclude, Interrupted, permitVars
  <2> QED
    BY <2>1, <2>2, <2>3, <2>4 DEF Sound
<1> QED
  BY <1>1, <1>2, <1>3, <1>4, OneMoves DEF StreamClientGone, Alive, StreamOver, Conclude,
     Interrupted, permitVars

LEMMA StreamShutdownInv == ASSUME Inv, NEW r \in Requests, StreamShutdown(r) PROVE Inv'
<1>1. TypeOK'
  BY DEF Inv, TypeOK, Responses, StreamShutdown, Alive, StreamOver, Conclude, Interrupted,
         Shutdown, permitVars
<1>2. Counted'
  BY FewerCounted DEF Inv, StreamShutdown, Alive, StreamOver, Conclude, Interrupted,
     Shutdown, permitVars
<1>3. \A q \in Requests \ {r} : Still(q)
  BY DEF Inv, TypeOK, Still, StreamShutdown, Alive, StreamOver, Conclude, Interrupted,
         Shutdown, permitVars
<1>4. Sound(r)'
  <2>1. Owned(r)'
    BY DEF Inv, TypeOK, Sound, Owned, Upstream, StreamShutdown, Alive, StreamOver, Conclude,
           Interrupted, Shutdown, permitVars
  <2>2. Told(r)'
    BY DEF Inv, TypeOK, Sound, Owned, Told, Responses, StreamShutdown, Alive, StreamOver,
           Conclude, Interrupted, Shutdown, permitVars
  <2>3. Caused(r)'
    BY DEF Inv, TypeOK, Sound, Owned, Told, Caused, Responses, StreamShutdown, Alive,
           StreamOver, Conclude, Interrupted, Shutdown, permitVars
  <2>4. Holds(r)'
    BY DEF Inv, TypeOK, Sound, Owned, Holds, Upstream, StreamShutdown, Alive, StreamOver,
           Conclude, Interrupted, Shutdown, permitVars
  <2> QED
    BY <2>1, <2>2, <2>3, <2>4 DEF Sound
<1> QED
  BY <1>1, <1>2, <1>3, <1>4, OneMoves DEF StreamShutdown, Alive, StreamOver, Conclude,
     Interrupted, Shutdown, permitVars

LEMMA TaskFinishInv == ASSUME Inv, NEW r \in Requests, TaskFinish(r) PROVE Inv'
<1>1. TypeOK'
  BY DEF Inv, TypeOK, Responses, TaskFinish, Alive, Finish, permitVars
<1>2. Counted'
  BY FewerCounted DEF Inv, TaskFinish, Alive, Finish, permitVars
<1>3. \A q \in Requests \ {r} : Still(q)
  BY DEF Inv, TypeOK, Still, TaskFinish, Alive, Finish, permitVars
<1>4. Sound(r)'
  <2>1. Owned(r)'
    BY DEF Inv, TypeOK, Sound, Owned, Upstream, TaskFinish, Alive, Finish, permitVars
  <2>2. Told(r)'
    BY DEF Inv, TypeOK, Sound, Owned, Told, Responses, TaskFinish, Alive, Finish, permitVars
  <2>3. Caused(r)'
    BY DEF Inv, TypeOK, Sound, Owned, Told, Caused, Responses, TaskFinish, Alive, Finish,
           permitVars
  <2>4. Holds(r)'
    BY DEF Inv, TypeOK, Sound, Owned, Holds, Upstream, TaskFinish, Alive, Finish, permitVars
  <2> QED
    BY <2>1, <2>2, <2>3, <2>4 DEF Sound
<1> QED
  BY <1>1, <1>2, <1>3, <1>4, OneMoves DEF TaskFinish, Alive, Finish, permitVars

LEMMA TaskEndsInv == ASSUME Inv, NEW r \in Requests, TaskEnds(r) PROVE Inv'
<1>1. TypeOK'
  BY DEF Inv, TypeOK, Responses, TaskEnds, Alive, recordVars
<1>2. Counted'
  BY FewerCounted DEF Inv, TaskEnds, Alive, recordVars
<1>3. \A q \in Requests \ {r} : Still(q)
  BY DEF Inv, TypeOK, Still, TaskEnds, Alive, recordVars
<1>4. Sound(r)'
  <2>1. Owned(r)'
    BY DEF Inv, TypeOK, Sound, Owned, Upstream, TaskEnds, Alive, recordVars
  <2>2. Told(r)'
    BY DEF Inv, TypeOK, Sound, Owned, Told, Responses, TaskEnds, Alive, recordVars
  <2>3. Caused(r)'
    BY DEF Inv, TypeOK, Sound, Owned, Told, Caused, Responses, TaskEnds, Alive, recordVars
  <2>4. Holds(r)'
    BY DEF Inv, TypeOK, Sound, Owned, Holds, Upstream, TaskEnds, Alive, recordVars
  <2> QED
    BY <2>1, <2>2, <2>3, <2>4 DEF Sound
<1> QED
  BY <1>1, <1>2, <1>3, <1>4, OneMoves DEF TaskEnds, Alive, recordVars

\* The steps of serve() but the last two touch no request.
LEMMA ServerGoesInv ==
  ASSUME Inv, NEW from, NEW to, ServerGoes(from, to), UNCHANGED conn,
         <<from, to>> \in {<<"running", "draining">>, <<"draining", "returned">>,
                           <<"draining", "forced">>, <<"forced", "waiting">>,
                           <<"waiting", "aborting">>}
  PROVE  Inv'
<1>1. TypeOK' /\ Onward /\ \A q \in Requests : Still(q)
  BY DEF Inv, TypeOK, Onward, Still, ServerGoes, recordVars, permitVars
<1>2. Counted'
  BY FewerCounted DEF Inv, ServerGoes, permitVars
<1> QED
  BY <1>1, <1>2, StillSound DEF Inv

LEMMA AbortInv == ASSUME Inv, Abort PROVE Inv'
<1>1. TypeOK'
  BY DEF Inv, TypeOK, Abort, DropHandlers, Live
<1>2. Counted'
  BY FewerCounted DEF Inv, Abort, DropHandlers
<1>3. ASSUME NEW r \in Requests PROVE Sound(r)'
  <2>1. Owned(r)'
    BY DEF Inv, TypeOK, Sound, Owned, Upstream, Abort, DropHandlers, Live
  <2>2. Told(r)'
    BY DEF Inv, TypeOK, Sound, Owned, Told, Responses, Abort, DropHandlers, Live
  <2>3. Caused(r)'
    BY DEF Inv, TypeOK, Sound, Owned, Caused, Abort, DropHandlers, Live
  <2>4. Holds(r)'
    BY DEF Inv, TypeOK, Sound, Owned, Holds, Upstream, Abort, DropHandlers, Live
  <2> QED
    BY <2>1, <2>2, <2>3, <2>4 DEF Sound
<1> QED
  BY <1>1, <1>2, <1>3 DEF Inv

LEMMA ExitInv == ASSUME Inv, Exit PROVE Inv'
<1>1. TypeOK'
  BY DEF Inv, TypeOK, Exit, permitVars
<1>2. Counted'
  BY FewerCounted DEF Inv, Exit, permitVars
<1>3. ASSUME NEW r \in Requests PROVE Sound(r)'
  <2>1. Owned(r)'
    BY DEF Inv, TypeOK, Sound, Owned, Upstream, Exit
  <2>2. Told(r)' /\ Caused(r)' /\ Holds(r)'
    BY DEF Inv, TypeOK, Sound, Told, Caused, Holds, Exit, permitVars
  <2> QED
    BY <2>1, <2>2 DEF Sound
<1> QED
  BY <1>1, <1>2, <1>3 DEF Inv

LEMMA NextInv == Inv /\ [Next]_vars => Inv'
<1> SUFFICES ASSUME Inv, [Next]_vars PROVE Inv'
  OBVIOUS
<1>1. CASE UNCHANGED vars
  <2>1. TypeOK' /\ Onward /\ \A q \in Requests : Still(q)
    BY <1>1 DEF Inv, TypeOK, Onward, Still, vars
  <2>2. Counted'
    BY <1>1, FewerCounted DEF Inv, vars
  <2> QED
    BY <2>1, <2>2, StillSound DEF Inv
<1>2. ASSUME NEW r \in Requests, HandlerStep(r) PROVE Inv'
  BY <1>2, ConnectInv, ArriveInv, RefuseHeadInv, AdmitInv, RefuseBodyInv, HandOffInv,
     RespondInv, ConnectionEndsInv, ClientLeavesInv DEF HandlerStep
<1>3. ASSUME NEW r \in Requests, TaskStep(r) PROVE Inv'
  BY <1>3, TaskShutdownInv, TaskCancelledInv, TaskDeadlineInv, TaskFailsInv,
     TaskPassesErrorInv, TaskStreamsInv, StreamEndsInv, StreamClientGoneInv,
     StreamShutdownInv, TaskFinishInv, TaskEndsInv DEF TaskStep
<1>4. ASSUME ServerStep PROVE Inv'
  BY <1>4, ServerGoesInv, AbortInv, ExitInv
     DEF ServerStep, Stop, Drained, DrainTimeout, AwaitPermits, AllReleased, WaitTimeout
<1> QED
  BY <1>1, <1>2, <1>3, <1>4, AppendRecordInv DEF Next

LEMMA Invariant == Spec => []Inv
BY InitInv, NextInv, PTL DEF Spec

-----------------------------------------------------------------------------
\* The process, its requests and their records are typed in every state.
THEOREM TypeCorrect == Spec => []TypeOK
<1>1. Inv => TypeOK
  BY DEF Inv
<1> QED
  BY <1>1, Invariant, PTL

\* finish() and Drop for RequestAudit append at most one line between them,
\* wherever the request is dropped, cancelled or shut down.
THEOREM AtMostOneRecord == Spec => []OneRecord
<1>1. Inv => OneRecord
  BY DEF Inv, TypeOK, Sound, Owned, OneRecord
<1> QED
  BY <1>1, Invariant, PTL

\* The status in the record is that of the response hyper was given, by the
\* handler or through the task's oneshot.
THEOREM StatusRecorded == Spec => []RecordedStatus
<1>1. Inv => RecordedStatus
  BY DEF Inv, Sound, Told, RecordedStatus
<1> QED
  BY <1>1, Invariant, PTL

\* No outcome is recorded that its cause did not bring about.
THEOREM OutcomesReal == Spec => []OutcomeIsReal
<1>1. Inv => OutcomeIsReal
  BY DEF Inv, Sound, Caused, OutcomeIsReal, Recorded
<1> QED
  BY <1>1, Invariant, PTL

\* The tasks that run upstream are no more than the permits, the images tasks no
\* more than the image permits, however many clients give up and come back.
THEOREM BoundedUpstream == Spec => []UpstreamBounded
<1>1. ASSUME Inv PROVE UpstreamBounded
  <2> DEFINE running == {r \in Requests : task[r] \in {"work", "stream"}}
  <2>1. running \in SUBSET slots /\ running \cap Images \in SUBSET imageSlots
    BY <1>1 DEF Inv, Sound, Holds, Upstream
  <2>2. /\ Cardinality(running) <= Cardinality(slots)
        /\ Cardinality(running \cap Images) <= Cardinality(imageSlots)
        /\ IsFiniteSet(running) /\ IsFiniteSet(running \cap Images)
    BY <1>1, <2>1, FS_Subset DEF Inv, Counted
  <2>3. /\ Cardinality(running) \in Nat /\ Cardinality(running \cap Images) \in Nat
        /\ Cardinality(slots) \in Nat /\ Cardinality(imageSlots) \in Nat
    BY <1>1, <2>2, FS_CardinalityType DEF Inv, Counted
  <2>4. Cardinality(running) <= Slots /\ Cardinality(running \cap Images) <= ImageSlots
    BY <1>1, <2>2, <2>3, ConstantsTyped DEF Inv, Counted
  <2> QED
    BY <2>4 DEF UpstreamBounded
<1> QED
  BY <1>1, Invariant, PTL

\* A task gives its permits back only after its record is appended.
THEOREM PermitsCoverRecords == Spec => []PermitCoversRecord
<1>1. Inv => PermitCoversRecord
  BY DEF Inv, TypeOK, Sound, Owned, Holds, Upstream, PermitCoversRecord
<1> QED
  BY <1>1, Invariant, PTL
=============================================================================
