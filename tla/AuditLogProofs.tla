------------------------- MODULE AuditLogProofs -------------------------
(***************************************************************************)
(* Theorems about AuditLog, for any tasks, processes and numbers of parts. *)
(***************************************************************************)
EXTENDS AuditLog, TLAPS

Inside == {"locked", "writing", "unlock"}

\* The mutex of a process is held by its one task inside, and the flock by the
\* process of whoever writes.
Exclusion ==
  /\ \A t \in Tasks : pc[t] \in Inside <=> mutex[procOf[t]] = t
  /\ \A t \in Tasks : pc[t] \in {"writing", "unlock"} => flock = procOf[t]

Progress ==
  \A t \in Tasks :
    /\ pc[t] \in {"start", "locked"} => written[t] = 0
    /\ pc[t] = "writing" => written[t] < Parts

\* What a record has in the file is what was written of it; what the writer has
\* written is together at the end; and a record in the middle of its line is the
\* one that is being written or was cut short.
LastPart ==
  /\ \A i \in 1..Len(log) : log[i].part <= written[log[i].task]
  /\ \A t \in Tasks : pc[t] = "writing" => Run(t, written[t], Len(log))
  /\ log # <<>> =>
       LET e == log[Len(log)] IN e.part = Parts \/ Cut(e.task) \/ pc[e.task] = "writing"

Inv == TypeOK /\ Exclusion /\ Progress /\ LastPart /\ Contiguous /\ LinesAreClean

-----------------------------------------------------------------------------
LEMMA InitInv == Init => Inv
BY ConstantsTyped DEF Init, Inv, TypeOK, Places, Exclusion, Inside, Progress, LastPart, Run,
   Contiguous, LinesAreClean

\* At most one task writes, in all processes together.
LEMMA OneWriter ==
  ASSUME Inv, NEW t \in Tasks, NEW u \in Tasks,
         pc[t] \in {"writing", "unlock"}, pc[u] \in {"writing", "unlock"}
  PROVE  t = u
BY DEF Inv, Exclusion, Inside

\* The steps that do not write leave the lines as they are, provided that no
\* record that was cut short, and no record in the middle of its line, resumes.
LEMMA Quiet ==
  ASSUME Inv, TypeOK', Exclusion', UNCHANGED <<log, written>>,
         \A t \in Tasks : pc'[t] # pc[t] =>
           /\ pc'[t] = "start" => FALSE
           /\ pc'[t] = "locked" => pc[t] = "start"
           /\ pc'[t] = "writing" => pc[t] = "locked"
           /\ pc[t] \in {"failed", "dead"} => FALSE
           /\ pc[t] = "unlock" => pc'[t] \in {"failed", "dead"} \/ written[t] = Parts
           /\ pc[t] = "writing" => pc'[t] \in {"unlock", "dead"}
  PROVE  Inv'
<1>1. Progress'
  BY ConstantsTyped DEF Inv, TypeOK, Progress
<1>2. \A t \in Tasks : Cut(t) => Cut(t)'
  BY ConstantsTyped DEF Inv, TypeOK, Cut
<1>3. ASSUME log # <<>> PROVE log[Len(log)] \in Part /\ Len(log) \in 1..Len(log)
  BY <1>3 DEF Inv, TypeOK
<1>4. LastPart'
  <2>1. ASSUME log # <<>>
        PROVE  LET e == log[Len(log)] IN e.part = Parts \/ Cut(e.task)' \/ pc'[e.task] = "writing"
    <3> DEFINE e == log[Len(log)]
    <3>1. e.task \in Tasks /\ e.part \in 1..Parts /\ e.part <= written[e.task]
      BY <1>3, <2>1 DEF Part, Inv, LastPart
    <3>2. e.part = Parts \/ Cut(e.task) \/ pc[e.task] = "writing"
      BY <2>1 DEF Inv, LastPart
    <3>3. CASE pc[e.task] = "writing" /\ pc'[e.task] # "writing"
      <4>1. written[e.task] \in 1..(Parts - 1)
        BY <3>1, <3>3, ConstantsTyped DEF Inv, TypeOK, Progress
      <4> QED
        BY <3>1, <3>3, <4>1 DEF Cut
    <3> QED
      BY <1>2, <3>1, <3>2, <3>3
  <2>2. ASSUME NEW t \in Tasks, pc'[t] = "writing"
        PROVE  Run(t, written[t], Len(log))'
    <3>1. CASE pc[t] = "writing"
      BY <3>1 DEF Inv, LastPart, Run
    <3>2. CASE pc[t] # "writing"
      <4>1. written[t] = 0 /\ Len(log) \in Nat
        BY <2>2, <3>2 DEF Inv, TypeOK, Progress
      <4> QED
        BY <4>1 DEF Run
    <3> QED
      BY <3>1, <3>2
  <2> QED
    BY <2>1, <2>2 DEF Inv, LastPart
<1>5. LinesAreClean'
  <2> SUFFICES ASSUME NEW i \in 1..Len(log), log[i].part = 1
               PROVE  StartsLine(i)' \/ Cut(log[i - 1].task)'
    BY DEF LinesAreClean
  <2>1. CASE i = 1
    BY <2>1 DEF StartsLine
  <2>2. CASE i # 1
    <3>1. log[i - 1].task \in Tasks
      <4>1. i - 1 \in 1..Len(log) /\ log \in Seq(Part)
        BY <2>2 DEF Inv, TypeOK
      <4>2. log[i - 1] \in Part
        BY <4>1
      <4> QED
        BY <4>2 DEF Part
    <3> QED
      BY <1>2, <3>1 DEF Inv, LinesAreClean, StartsLine
  <2> QED
    BY <2>1, <2>2
<1>6. Contiguous'
  BY DEF Inv, Contiguous
<1> QED
  BY <1>1, <1>4, <1>5, <1>6 DEF Inv

LEMMA LockMutexInv == ASSUME Inv, NEW t \in Tasks, LockMutex(t) PROVE Inv'
<1> USE DEF LockMutex, Goto
<1>1. TypeOK'
  BY ConstantsTyped DEF Inv, TypeOK, Places
<1>2. Exclusion'
  <2>1. ASSUME NEW u \in Tasks
        PROVE  (pc[u] \in Inside <=> mutex[procOf[u]] = u)'
    <3>1. procOf[t] \in Procs /\ procOf[u] \in Procs /\ NONE \notin Tasks
      BY ConstantsTyped
    <3>2. CASE u = t
      BY <3>1, <3>2 DEF Inv, TypeOK, Exclusion, Inside
    <3>3. CASE u # t
      BY <3>1, <3>3 DEF Inv, TypeOK, Exclusion, Inside
    <3> QED
      BY <3>2, <3>3
  <2>2. ASSUME NEW u \in Tasks, pc'[u] \in {"writing", "unlock"}
        PROVE  flock' = procOf[u]
    BY <2>2 DEF Inv, TypeOK, Exclusion
  <2> QED
    BY <2>1, <2>2 DEF Exclusion
<1> QED
  BY <1>1, <1>2, Quiet DEF Inv, TypeOK

LEMMA LockFileInv == ASSUME Inv, NEW t \in Tasks, LockFile(t) PROVE Inv'
<1> USE DEF LockFile, Goto
<1>1. TypeOK'
  BY ConstantsTyped DEF Inv, TypeOK, Places
<1>2. Exclusion'
  <2>1. ASSUME NEW u \in Tasks
        PROVE  (pc[u] \in Inside <=> mutex[procOf[u]] = u)'
    <3>1. procOf[t] \in Procs /\ procOf[u] \in Procs /\ NONE \notin Tasks
      BY ConstantsTyped
    <3>2. CASE u = t
      BY <3>1, <3>2 DEF Inv, TypeOK, Exclusion, Inside
    <3>3. CASE u # t
      BY <3>1, <3>3 DEF Inv, TypeOK, Exclusion, Inside
    <3> QED
      BY <3>2, <3>3
  <2>2. ASSUME NEW u \in Tasks, pc'[u] \in {"writing", "unlock"}
        PROVE  flock' = procOf[u]
    <3>1. CASE u = t
      BY <3>1
    <3>2. CASE u # t
      <4>1. flock = procOf[u]
        BY <2>2, <3>2 DEF Inv, TypeOK, Exclusion
      <4>2. procOf[u] \in Procs /\ NONE \notin Procs
        BY ConstantsTyped
      <4> QED
        BY <4>1, <4>2
    <3> QED
      BY <3>1, <3>2
  <2> QED
    BY <2>1, <2>2 DEF Exclusion
<1> QED
  BY <1>1, <1>2, Quiet DEF Inv, TypeOK

LEMMA LockFileFailsInv == ASSUME Inv, NEW t \in Tasks, LockFileFails(t) PROVE Inv'
<1> USE DEF LockFileFails, Goto, Release
<1>1. TypeOK'
  BY ConstantsTyped DEF Inv, TypeOK, Places
<1>2. Exclusion'
  BY ConstantsTyped DEF Inv, TypeOK, Exclusion, Inside
<1> QED
  BY <1>1, <1>2, Quiet DEF Inv, TypeOK

LEMMA WriteFailsInv == ASSUME Inv, NEW t \in Tasks, WriteFails(t) PROVE Inv'
<1> USE DEF WriteFails, Goto
<1>1. TypeOK'
  BY DEF Inv, TypeOK, Places
<1>2. Exclusion'
  BY DEF Inv, TypeOK, Exclusion, Inside
<1> QED
  BY <1>1, <1>2, Quiet DEF Inv, TypeOK

LEMMA UnlockInv == ASSUME Inv, NEW t \in Tasks, Unlock(t) PROVE Inv'
<1> USE DEF Unlock, Goto, Release
<1>1. TypeOK'
  BY ConstantsTyped DEF Inv, TypeOK, Places
<1>2. Exclusion'
  <2>1. ASSUME NEW u \in Tasks
        PROVE  (pc[u] \in Inside <=> mutex[procOf[u]] = u)'
    <3>1. procOf[t] \in Procs /\ procOf[u] \in Procs /\ NONE \notin Tasks
      BY ConstantsTyped
    <3>2. CASE u = t
      BY <3>1, <3>2 DEF Inv, TypeOK, Exclusion, Inside
    <3>3. CASE u # t
      BY <3>1, <3>3 DEF Inv, TypeOK, Exclusion, Inside
    <3> QED
      BY <3>2, <3>3
  <2>2. ASSUME NEW u \in Tasks, pc'[u] \in {"writing", "unlock"}
        PROVE  flock' = procOf[u]
    <3>1. u # t /\ pc[u] \in {"writing", "unlock"}
      BY <2>2 DEF Inv, TypeOK
    <3> QED
      BY <3>1, OneWriter
  <2> QED
    BY <2>1, <2>2 DEF Exclusion
<1> QED
  BY <1>1, <1>2, Quiet DEF Inv, TypeOK

LEMMA CrashInv == ASSUME Inv, NEW p \in Procs, Crash(p) PROVE Inv'
<1> USE DEF Crash
<1>1. TypeOK'
  BY ConstantsTyped DEF Inv, TypeOK, Places
<1>2. Exclusion'
  BY ConstantsTyped DEF Inv, TypeOK, Exclusion, Inside
<1> QED
  BY <1>1, <1>2, Quiet DEF Inv, TypeOK

LEMMA WritePartInv == ASSUME Inv, NEW t \in Tasks, WritePart(t) PROVE Inv'
<1> DEFINE e == [task |-> t, part |-> written[t] + 1]
           n == Len(log)
<1>1. /\ pc[t] = "writing" /\ written[t] \in 0..(Parts - 1) /\ log \in Seq(Part)
      /\ log' = Append(log, e) /\ UNCHANGED <<mutex, flock>>
      /\ written' = [written EXCEPT ![t] = written[t] + 1]
      /\ pc' = [pc EXCEPT ![t] = IF written[t] + 1 = Parts THEN "unlock" ELSE "writing"]
  BY ConstantsTyped DEF Inv, TypeOK, Progress, WritePart, Goto
<1>2. e \in Part
  BY <1>1, ConstantsTyped DEF Part
<1>3. /\ Len(log') = n + 1 /\ log'[n + 1] = e /\ n \in Nat /\ log' # <<>>
      /\ \A i \in 1..n : log'[i] = log[i] /\ log[i] \in Part /\ log[i].task \in Tasks
  <2>1. \A i \in 1..n : log[i] \in Part
    BY <1>1
  <2>2. \A i \in 1..n : log[i].task \in Tasks
    BY <2>1 DEF Part
  <2>3. Len(log') = n + 1 /\ log'[n + 1] = e /\ n \in Nat
    BY <1>1, <1>2
  <2>4. \A i \in 1..n : log'[i] = log[i]
    BY <1>1, <1>2
  <2>5. log' # <<>>
    BY <1>1, <1>2
  <2> QED
    BY <2>1, <2>2, <2>3, <2>4, <2>5
<1>4. TypeOK'
  BY <1>1, <1>2, ConstantsTyped DEF Inv, TypeOK, Places
<1>5. Exclusion'
  BY <1>1 DEF Inv, TypeOK, Exclusion, Inside
<1>6. Progress'
  BY <1>1, ConstantsTyped DEF Inv, TypeOK, Progress
<1>7. \A u \in Tasks : Cut(u) => Cut(u)'
  BY <1>1, ConstantsTyped DEF Inv, TypeOK, Cut
<1>8. LastPart'
  <2>1. \A i \in 1..Len(log') : log'[i].part <= written'[log'[i].task]
    BY <1>1, <1>3 DEF Inv, TypeOK, LastPart, Part
  <2>2. ASSUME NEW u \in Tasks, pc'[u] = "writing"
        PROVE  Run(u, written[u], Len(log))'
    <3>1. u = t /\ written'[t] = written[t] + 1
      BY <1>1, <2>2, OneWriter DEF Inv, TypeOK
    <3>2. Run(t, written[t], n)
      BY <1>1 DEF Inv, LastPart
    <3>3. ASSUME NEW k \in 1..(written[t] + 1)
          PROVE  log'[n - written[t] + k] = [task |-> t, part |-> k]
      <4>1. CASE k = written[t] + 1
        BY <1>1, <1>3, <4>1
      <4>2. CASE k \in 1..written[t]
        <5>1. n - written[t] + k \in 1..n
          BY <1>1, <1>3, <3>2, <4>2 DEF Run
        <5> QED
          BY <1>3, <3>2, <4>2, <5>1 DEF Run
      <4> QED
        <5>1. written[t] \in Nat
          BY <1>1, ConstantsTyped
        <5> QED
          BY <4>1, <4>2, <5>1
    <3>4. /\ Len(log') - written'[t] = n - written[t] /\ written'[t] <= Len(log')
          /\ 1..written'[t] = 1..(written[t] + 1)
      BY <1>1, <1>3, <3>1, <3>2, ConstantsTyped DEF Run
    <3>5. \A k \in 1..written'[t] : log'[Len(log') - written'[t] + k] = [task |-> t, part |-> k]
      BY <3>3, <3>4
    <3> QED
      BY <3>1, <3>4, <3>5 DEF Run
  <2>3. e.part = Parts \/ pc'[e.task] = "writing"
    BY <1>1 DEF Inv, TypeOK
  <2> QED
    BY <1>3, <2>1, <2>2, <2>3 DEF LastPart
<1>9. Contiguous'
  <2> SUFFICES ASSUME NEW i \in 1..(n + 1), log'[i].part > 1
               PROVE  i > 1 /\ log'[i - 1] = [task |-> log'[i].task, part |-> log'[i].part - 1]
    BY <1>3 DEF Contiguous
  <2>1. CASE i = n + 1
    <3>1. written[t] > 0
      BY <1>1, <1>3, <2>1
    <3>2. n >= 1 /\ log[n] = [task |-> t, part |-> written[t]]
      <4>1. Run(t, written[t], n) /\ written[t] \in 1..written[t]
        BY <1>1, <3>1 DEF Inv, LastPart
      <4> QED
        BY <1>1, <1>3, <4>1 DEF Run
    <3> QED
      BY <1>1, <1>3, <2>1, <3>2
  <2>2. CASE i \in 1..n
    <3>1. i > 1 /\ log[i - 1] = [task |-> log[i].task, part |-> log[i].part - 1]
      BY <1>3, <2>2 DEF Inv, Contiguous
    <3> QED
      BY <1>3, <2>2, <3>1
  <2> QED
    BY <1>3, <2>1, <2>2
<1>10. LinesAreClean'
  <2> SUFFICES ASSUME NEW i \in 1..(n + 1), log'[i].part = 1
               PROVE  (StartsLine(i) \/ Cut(log[i - 1].task))'
    BY <1>3 DEF LinesAreClean
  <2>1. CASE i = n + 1 /\ n # 0
    <3> DEFINE d == log[n]
    <3>1. written[t] = 0 /\ log # <<>> /\ d \in Part /\ log'[n] = d
      BY <1>1, <1>3, <2>1
    <3>2. d.task \in Tasks /\ d.part >= 1 /\ d.part <= written[d.task]
      BY <1>3, <2>1, <3>1, ConstantsTyped DEF Part, Inv, LastPart
    <3>3. pc[d.task] # "writing"
      <4>1. d.task # t
        <5>1. d.part \in 1..Parts
          BY <3>1 DEF Part
        <5> QED
          BY <3>1, <3>2, <5>1, ConstantsTyped
      <4> QED
        BY <1>1, <3>2, <4>1, OneWriter
    <3>4. d.part = Parts \/ Cut(d.task)
      BY <3>1, <3>3 DEF Inv, LastPart
    <3> QED
      BY <1>3, <1>7, <2>1, <3>1, <3>2, <3>4 DEF StartsLine
  <2>2. CASE i = 1
    BY <2>2 DEF StartsLine
  <2>3. CASE i \in 1..n /\ i # 1
    <3>1. StartsLine(i) \/ Cut(log[i - 1].task)
      BY <1>3, <2>3 DEF Inv, LinesAreClean
    <3>2. i - 1 \in 1..n /\ log'[i - 1] = log[i - 1] /\ log[i - 1].task \in Tasks
      BY <1>3, <2>3
    <3> QED
      BY <1>7, <3>1, <3>2 DEF StartsLine
  <2> QED
    BY <1>3, <2>1, <2>2, <2>3
<1> QED
  BY <1>4, <1>5, <1>6, <1>8, <1>9, <1>10 DEF Inv

LEMMA InvInductive == Inv /\ [Next]_vars => Inv'
<1> SUFFICES ASSUME Inv, [Next]_vars PROVE Inv'
  OBVIOUS
<1>1. CASE UNCHANGED vars
  BY <1>1 DEF vars, Inv, TypeOK, Exclusion, Progress, LastPart, Run, Contiguous,
     LinesAreClean, StartsLine, Cut
<1>2. ASSUME NEW t \in Tasks, AppendStep(t) PROVE Inv'
  BY <1>2, LockMutexInv, LockFileInv, LockFileFailsInv, WritePartInv, WriteFailsInv, UnlockInv
     DEF AppendStep
<1>3. ASSUME NEW p \in Procs, Crash(p) PROVE Inv'
  BY <1>3, CrashInv
<1> QED
  BY <1>1, <1>2, <1>3 DEF Next

LEMMA Invariance == Spec => []Inv
BY InitInv, InvInductive, PTL DEF Spec

\* The parts of no two records are interleaved: the mutex keeps the tasks of one
\* process apart and the flock the processes; neither alone would.
THEOREM RecordsContiguous == Spec => []Contiguous
<1>1. Inv => Contiguous
  BY DEF Inv
<1> QED
  BY <1>1, Invariance, PTL

\* A line can be damaged only by the record just before it, and only when that
\* one was cut short by a failed write or the death of its process.
THEOREM DamageIsLocal == Spec => []LinesAreClean
<1>1. Inv => LinesAreClean
  BY DEF Inv
<1> QED
  BY <1>1, Invariance, PTL

\* The variables have their types, and the locks never more than one holder.
THEOREM TypeCorrect == Spec => []TypeOK
<1>1. Inv => TypeOK
  BY DEF Inv
<1> QED
  BY <1>1, Invariance, PTL

-----------------------------------------------------------------------------
(* AuditLog implements AtomicLog: a step is an atomic append, gives records *)
(* up, or changes nothing that a reader of the file can see.                *)

LEMMA InitAtomic == Init => Atomic!Init
BY ConstantsTyped DEF Init, Atomic!Init, Before, Fate, Whole, OwnLine, Torn, InProgress, StartsLine

\* What leaves the file as it is changes neither the whole records nor their order.
LEMMA SameFile ==
  ASSUME UNCHANGED log
  PROVE  /\ UNCHANGED [t \in Tasks |-> Before(t)]
         /\ \A t \in Tasks, i \in 1..Len(log) :
              UNCHANGED Whole(t, i) /\ UNCHANGED OwnLine(t, i)
BY DEF Before, Whole, OwnLine, Run, StartsLine

\* The last entry of the file.
LEMMA LastEntry ==
  ASSUME Inv, log # <<>>
  PROVE  LET e == log[Len(log)] IN
           /\ e.task \in Tasks /\ e.part \in 1..Parts /\ e.part <= written[e.task]
           /\ written[e.task] \in Nat \ {0}
<1> DEFINE e == log[Len(log)]
<1>1. e \in Part /\ Len(log) \in 1..Len(log)
  BY DEF Inv, TypeOK
<1>2. e.task \in Tasks /\ e.part \in 1..Parts /\ e.part <= written[e.task]
  BY <1>1 DEF Part, Inv, LastPart
<1> QED
  BY <1>2, ConstantsTyped DEF Inv, TypeOK

\* While a record is written, the end is torn if the record does not start a line.
LEMMA TornWhileWriting ==
  ASSUME Inv, NEW t \in Tasks, pc[t] = "writing"
  PROVE  Torn <=> ~StartsLine(Len(log) - written[t] + 1)
<1>1. Len(log) \in Nat /\ written[t] \in Nat /\ Run(t, written[t], Len(log))
  BY ConstantsTyped DEF Inv, TypeOK, LastPart
<1>2. CASE written[t] = 0
  <2>1. ASSUME log # <<>> PROVE pc[log[Len(log)].task] # "writing"
    BY <1>2, <2>1, LastEntry, OneWriter
  <2>2. InProgress = 0
    BY <2>1 DEF InProgress
  <2> QED
    BY <1>2, <2>2 DEF Torn
<1>3. CASE written[t] > 0
  <2>1. log # <<>> /\ log[Len(log)] = [task |-> t, part |-> written[t]]
    BY <1>1, <1>3 DEF Run
  <2>2. InProgress = written[t]
    BY <2>1 DEF InProgress
  <2> QED
    BY <2>2 DEF Torn
<1> QED
  BY <1>1, <1>2, <1>3

\* A writer that stops may leave the end torn.
LEMMA MayTear ==
  ASSUME Inv, UNCHANGED log,
         \A t \in Tasks : written[t] > 0 /\ pc'[t] = "writing" => pc[t] = "writing"
  PROVE  Torn' \in {Torn, TRUE}
<1>1. CASE log # <<>> /\ pc[log[Len(log)].task] = "writing" /\ pc'[log[Len(log)].task] # "writing"
  <2> DEFINE e == log[Len(log)]
  <2>1. e.part \in 1..Parts /\ e.part < Parts
    BY <1>1, LastEntry, ConstantsTyped DEF Inv, TypeOK, Progress
  <2>2. InProgress' = 0 /\ Len(log) \in Nat \ {0}
    BY <1>1 DEF InProgress, Inv, TypeOK
  <2>3. ~StartsLine(Len(log) + 1)'
    BY <2>1, <2>2 DEF StartsLine
  <2>4. Len(log') - InProgress' + 1 = Len(log) + 1
    BY <2>2
  <2> QED
    BY <2>3, <2>4 DEF Torn
<1>2. CASE ~(log # <<>> /\ pc[log[Len(log)].task] = "writing" /\ pc'[log[Len(log)].task] # "writing")
  <2>1. InProgress' = InProgress
    BY <1>2, LastEntry DEF InProgress
  <2> QED
    BY <2>1 DEF Torn, StartsLine
<1> QED
  BY <1>1, <1>2

LEMMA SameEnd ==
  ASSUME Inv, UNCHANGED log,
         \A t \in Tasks : written[t] > 0 => (pc'[t] = "writing" <=> pc[t] = "writing")
  PROVE  Torn' = Torn
<1>1. InProgress' = InProgress
  BY LastEntry DEF InProgress
<1> QED
  BY <1>1 DEF Torn, StartsLine

\* A record that is not complete is not whole in the file yet.
LEMMA NotWholeYet ==
  ASSUME Inv, NEW t \in Tasks, written[t] < Parts, NEW i \in 1..Len(log)
  PROVE  ~Whole(t, i)
<1> SUFFICES ASSUME Run(t, Parts, i) PROVE FALSE
  BY DEF Whole
<1>1. log[i] = [task |-> t, part |-> Parts]
  BY ConstantsTyped DEF Run
<1>2. Parts <= written[t]
  BY <1>1 DEF Inv, LastPart
<1> QED
  BY <1>2, ConstantsTyped DEF Inv, TypeOK

LEMMA Pending ==
  ASSUME Inv, NEW t \in Tasks, pc[t] \in {"start", "locked", "writing"}
  PROVE  written[t] < Parts /\ Fate(t) = "pending"
<1>1. written[t] < Parts
  BY ConstantsTyped DEF Inv, TypeOK, Progress
<1> QED
  BY <1>1, NotWholeYet DEF Fate, OwnLine

\* A write call leaves the whole records that are there as they are.
LEMMA OldRecordsStay ==
  ASSUME Inv, NEW t \in Tasks, WritePart(t), NEW u \in Tasks, NEW i \in 1..Len(log)
  PROVE  (Whole(u, i)' <=> Whole(u, i)) /\ (OwnLine(u, i)' <=> OwnLine(u, i))
<1>1. /\ Len(log') = Len(log) + 1 /\ Len(log) \in Nat
      /\ \A j \in 1..Len(log) : log'[j] = log[j]
  BY DEF Inv, TypeOK, WritePart
<1>2. Run(u, Parts, i)' <=> Run(u, Parts, i)
  <2>1. ASSUME Parts <= i, NEW k \in 1..Parts PROVE log'[i - Parts + k] = log[i - Parts + k]
    <3>1. i - Parts + k \in 1..Len(log)
      BY <2>1, ConstantsTyped
    <3> QED
      BY <1>1, <3>1
  <2> QED
    BY <2>1 DEF Run
<1>3. ASSUME Parts <= i PROVE StartsLine(i - Parts + 1)' <=> StartsLine(i - Parts + 1)
  <2>1. CASE i = Parts
    BY <2>1, ConstantsTyped DEF StartsLine
  <2>2. CASE i # Parts
    <3>1. i - Parts \in 1..Len(log) /\ (i - Parts + 1) - 1 = i - Parts
      BY <1>3, <2>2, ConstantsTyped
    <3> QED
      BY <1>1, <3>1 DEF StartsLine
  <2> QED
    BY <2>1, <2>2
<1> QED
  BY <1>1, <1>2, <1>3 DEF Whole, OwnLine, Run

\* The new end completes a record only if it is the last part, and then all parts
\* are together (no other task came between: LastPart, hence the locks).
LEMMA NewRecord ==
  ASSUME Inv, NEW t \in Tasks, WritePart(t),
         NEW n \in Nat, n = Len(log), NEW w \in Nat, w = written[t]
  PROVE  /\ \A u \in Tasks : Whole(u, n + 1)' <=> u = t /\ w + 1 = Parts
         /\ w + 1 = Parts => (OwnLine(t, n + 1)' <=> ~Torn)
         /\ Torn' <=> Torn /\ w + 1 # Parts
<1>1. /\ pc[t] = "writing" /\ w \in 0..(Parts - 1) /\ Run(t, w, n)
      /\ pc' = [pc EXCEPT ![t] = IF w + 1 = Parts THEN "unlock" ELSE "writing"]
      /\ pc \in [Tasks -> Places]
  BY ConstantsTyped DEF Inv, TypeOK, Progress, LastPart, WritePart, Goto
<1>2. /\ Len(log') = n + 1 /\ log' # <<>>
      /\ log'[n + 1] = [task |-> t, part |-> w + 1]
      /\ \A i \in 1..n : log'[i] = log[i]
  BY DEF Inv, TypeOK, WritePart
<1>3. ASSUME NEW u \in Tasks
      PROVE  Whole(u, n + 1)' <=> u = t /\ w + 1 = Parts
  <2>1. ASSUME Whole(u, n + 1)' PROVE u = t /\ w + 1 = Parts
    <3>1. log'[n + 1] = [task |-> u, part |-> Parts]
      BY <2>1, ConstantsTyped DEF Whole, Run
    <3> QED
      BY <1>2, <3>1
  <2>2. ASSUME u = t, w + 1 = Parts PROVE Whole(u, n + 1)'
    <3>1. ASSUME NEW k \in 1..Parts PROVE log'[(n + 1) - Parts + k] = [task |-> t, part |-> k]
      <4>1. CASE k = Parts
        <5>1. (n + 1) - Parts + k = n + 1
          BY <4>1, ConstantsTyped
        <5> QED
          BY <1>2, <2>2, <4>1, <5>1
      <4>2. CASE k # Parts
        <5>1. k \in 1..w /\ (n + 1) - Parts + k = n - w + k
          BY <1>1, <2>2, <4>2, ConstantsTyped
        <5>2. n - w + k \in 1..n
          BY <1>1, <5>1 DEF Run
        <5> QED
          BY <1>1, <1>2, <5>1, <5>2 DEF Run
      <4> QED
        BY <4>1, <4>2
    <3>2. Parts <= n + 1 /\ n + 1 \in 1..Len(log')
      BY <1>1, <1>2, <2>2, ConstantsTyped DEF Run
    <3> QED
      BY <2>2, <3>1, <3>2 DEF Whole, Run
  <2> QED
    BY <2>1, <2>2
<1>4. StartsLine(n - w + 1)' <=> StartsLine(n - w + 1)
  <2>1. CASE n = w
    BY <2>1 DEF StartsLine
  <2>2. CASE n # w
    <3>1. n - w \in 1..n /\ (n - w + 1) - 1 = n - w
      BY <1>1, <2>2 DEF Run
    <3> QED
      BY <1>2, <3>1 DEF StartsLine
  <2> QED
    BY <2>1, <2>2
<1>5. Torn <=> ~StartsLine(n - w + 1)
  BY <1>1, TornWhileWriting
<1>6. CASE w + 1 = Parts
  <2>1. (n + 1) - Parts + 1 = n - w + 1
    BY <1>1, <1>6, ConstantsTyped
  <2>2. OwnLine(t, n + 1)' <=> ~Torn
    BY <1>3, <1>4, <1>5, <1>6, <2>1 DEF OwnLine
  <2>3. InProgress' = 0
    BY <1>1, <1>2, <1>6 DEF InProgress
  <2>4. StartsLine(n + 2)'
    BY <1>2, <1>6 DEF StartsLine
  <2>5. ~Torn'
    <3>1. Len(log') - InProgress' + 1 = n + 2
      BY <1>2, <2>3
    <3> QED
      BY <2>4, <3>1 DEF Torn
  <2> QED
    BY <1>3, <1>6, <2>2, <2>5
<1>7. CASE w + 1 # Parts
  <2>1. InProgress' = w + 1
    BY <1>1, <1>2, <1>7 DEF InProgress
  <2>2. Len(log') - InProgress' + 1 = n - w + 1
    BY <1>1, <1>2, <2>1
  <2>3. Torn' <=> Torn
    BY <1>4, <1>5, <2>2 DEF Torn
  <2> QED
    BY <1>3, <1>7, <2>3
<1> QED
  BY <1>6, <1>7

\* The last part of a record is the atomic append: the record is a line, or damaged
\* if the end was torn, behind exactly the records that are there.
LEMMA LastPartLogs ==
  ASSUME Inv, NEW t \in Tasks, WritePart(t), written[t] + 1 = Parts
  PROVE  Atomic!Log(t)
<1>1. PICK n \in Nat, w \in Nat : n = Len(log) /\ w = written[t]
  BY DEF Inv, TypeOK
<1>2. /\ Len(log') = n + 1 /\ 1..(n + 1) = (1..n) \cup {n + 1}
      /\ pc[t] = "writing" /\ written \in [Tasks -> 0..Parts] /\ pc \in [Tasks -> Places]
      /\ pc' = [pc EXCEPT ![t] = "unlock"] /\ written' = [written EXCEPT ![t] = @ + 1]
  <2>1. 1..(n + 1) = (1..n) \cup {n + 1}
    OBVIOUS
  <2> QED
    BY <1>1, <2>1 DEF Inv, TypeOK, WritePart, Goto
<1>3. \A u \in Tasks, i \in 1..n :
        (Whole(u, i)' <=> Whole(u, i)) /\ (OwnLine(u, i)' <=> OwnLine(u, i))
  BY <1>1, OldRecordsStay
<1>4. /\ \A u \in Tasks : Whole(u, n + 1)' <=> u = t
      /\ OwnLine(t, n + 1)' <=> ~Torn
      /\ ~Torn'
  BY <1>1, NewRecord
<1>5. \A u \in Tasks \ {t} : ~OwnLine(u, n + 1)'
  BY <1>4 DEF OwnLine
<1>6. Fate(t) = "pending" /\ \A i \in 1..n : ~Whole(t, i) /\ ~OwnLine(t, i)
  BY <1>1, <1>2, Pending, NotWholeYet DEF OwnLine
<1>7. Fate(t)' = IF Torn THEN "damaged" ELSE "line"
  BY <1>2, <1>3, <1>4, <1>6 DEF Fate
<1>8. ASSUME NEW u \in Tasks \ {t} PROVE Fate(u)' = Fate(u)
  <2>1. /\ (\E i \in 1..Len(log') : OwnLine(u, i)') <=> (\E i \in 1..n : OwnLine(u, i))
        /\ (\E i \in 1..Len(log') : Whole(u, i)') <=> (\E i \in 1..n : Whole(u, i))
    BY <1>2, <1>3, <1>4, <1>5
  <2>2. pc'[u] = pc[u] /\ written'[u] = written[u]
    BY <1>2
  <2> QED
    BY <1>1, <2>1, <2>2 DEF Fate
<1>9. Atomic!Recorded = {u \in Tasks : \E i \in 1..n : Whole(u, i)}
  BY <1>1 DEF Atomic!Recorded, Fate, OwnLine
<1>10. Before(t)' = Atomic!Recorded
  <2>1. ASSUME NEW u \in Tasks
        PROVE  (\E i, j \in 1..Len(log') : i < j /\ Whole(u, i)' /\ Whole(t, j)')
                 <=> \E i \in 1..n : Whole(u, i)
    <3>1. ASSUME NEW i \in 1..n, Whole(u, i)
          PROVE  i < n + 1 /\ Whole(u, i)' /\ Whole(t, n + 1)' /\ i \in 1..Len(log')
                 /\ n + 1 \in 1..Len(log')
      BY <1>2, <1>3, <1>4, <3>1
    <3>2. ASSUME NEW i \in 1..Len(log'), NEW j \in 1..Len(log'), i < j, Whole(u, i)', Whole(t, j)'
          PROVE  i \in 1..n /\ Whole(u, i)
      BY <1>2, <1>3, <1>6, <3>2
    <3> QED
      BY <3>1, <3>2
  <2> QED
    BY <1>9, <2>1 DEF Before
<1>11. ASSUME NEW v \in Tasks \ {t} PROVE Before(v)' = Before(v)
  <2>1. \A u \in Tasks :
          (\E i, j \in 1..Len(log') : i < j /\ Whole(u, i)' /\ Whole(v, j)')
            <=> \E i, j \in 1..n : i < j /\ Whole(u, i) /\ Whole(v, j)
    BY <1>2, <1>3, <1>4
  <2> QED
    BY <1>1, <2>1 DEF Before
<1>12. Torn' = FALSE
  BY <1>4 DEF Torn
<1>13. [u \in Tasks |-> Fate(u)]' =
         [[u \in Tasks |-> Fate(u)] EXCEPT ![t] = IF Torn THEN "damaged" ELSE "line"]
  BY <1>7, <1>8
<1>14. [u \in Tasks |-> Before(u)]' =
         [[u \in Tasks |-> Before(u)] EXCEPT ![t] = Atomic!Recorded]
  BY <1>10, <1>11
<1> QED
  BY <1>6, <1>12, <1>13, <1>14 DEF Atomic!Log

\* A part before the last is invisible.
LEMMA PartIsInvisible ==
  ASSUME Inv, NEW t \in Tasks, WritePart(t), written[t] + 1 # Parts
  PROVE  UNCHANGED Atomic!vars
<1>1. PICK n \in Nat, w \in Nat : n = Len(log) /\ w = written[t]
  BY DEF Inv, TypeOK
<1>2. /\ Len(log') = n + 1 /\ 1..(n + 1) = (1..n) \cup {n + 1}
      /\ written \in [Tasks -> 0..Parts] /\ pc' = pc
      /\ written' = [written EXCEPT ![t] = @ + 1] /\ pc[t] = "writing"
  BY <1>1 DEF Inv, TypeOK, WritePart, Goto
<1>3. \A u \in Tasks, i \in 1..n :
        (Whole(u, i)' <=> Whole(u, i)) /\ (OwnLine(u, i)' <=> OwnLine(u, i))
  BY <1>1, OldRecordsStay
<1>4. (\A u \in Tasks : ~Whole(u, n + 1)' /\ ~OwnLine(u, n + 1)') /\ (Torn' <=> Torn)
  BY <1>1, NewRecord DEF OwnLine
<1>5. Torn' = Torn
  BY <1>4 DEF Torn
<1>6. ASSUME NEW u \in Tasks PROVE Before(u)' = Before(u) /\ Fate(u)' = Fate(u)
  <2>1. \A v \in Tasks :
          (\E i, j \in 1..Len(log') : i < j /\ Whole(v, i)' /\ Whole(u, j)')
            <=> \E i, j \in 1..n : i < j /\ Whole(v, i) /\ Whole(u, j)
    BY <1>2, <1>3, <1>4
  <2>2. /\ (\E i \in 1..Len(log') : OwnLine(u, i)') <=> (\E i \in 1..n : OwnLine(u, i))
        /\ (\E i \in 1..Len(log') : Whole(u, i)') <=> (\E i \in 1..n : Whole(u, i))
    BY <1>2, <1>3, <1>4
  <2>3. pc[u] \in {"start", "locked", "writing"} \/ written'[u] = written[u]
    BY <1>2
  <2> QED
    BY <1>1, <1>2, <2>1, <2>2, <2>3 DEF Before, Fate
<1> QED
  BY <1>5, <1>6 DEF Atomic!vars

\* What becomes of a record when the file stays as it is.
LEMMA SameFate ==
  ASSUME UNCHANGED <<log, written>>, NEW t \in Tasks,
         pc'[t] \in {"start", "locked", "writing"} <=> pc[t] \in {"start", "locked", "writing"}
  PROVE  Fate(t)' = Fate(t)
BY SameFile DEF Fate

LEMMA DroppedFate ==
  ASSUME Inv, UNCHANGED <<log, written>>, NEW t \in Tasks,
         pc[t] \in {"start", "locked", "writing"}, pc'[t] \in {"unlock", "failed", "dead"}
  PROVE  Fate(t) = "pending" /\ Fate(t)' = "dropped"
<1>1. written[t] < Parts /\ Fate(t) = "pending"
  BY Pending
<1>2. \A i \in 1..Len(log) : ~Whole(t, i)' /\ ~OwnLine(t, i)'
  BY <1>1, NotWholeYet, SameFile DEF OwnLine
<1>3. written[t] # Parts
  BY <1>1, ConstantsTyped DEF Inv, TypeOK
<1> QED
  BY <1>1, <1>2, <1>3 DEF Fate

\* An append that fails is given up; what it has written tears the end.
LEMMA FailureGivesUp ==
  ASSUME Inv, NEW t \in Tasks, LockFileFails(t) \/ WriteFails(t)
  PROVE  Atomic!GiveUp({t})
<1>1. /\ UNCHANGED <<log, written>> /\ pc[t] \in {"locked", "writing"}
      /\ pc' = [pc EXCEPT ![t] = IF pc[t] = "locked" THEN "failed" ELSE "unlock"]
      /\ pc \in [Tasks -> Places]
  BY DEF Inv, TypeOK, LockFileFails, WriteFails, Goto
<1>2. Fate(t) = "pending" /\ Fate(t)' = "dropped"
  BY <1>1, DroppedFate
<1>3. \A u \in Tasks \ {t} : Fate(u)' = Fate(u)
  BY <1>1, SameFate
<1>4. Torn' \in {Torn, TRUE}
  BY <1>1, MayTear
<1> QED
  BY <1>1, <1>2, <1>3, <1>4, SameFile DEF Atomic!GiveUp

LEMMA LockingIsInvisible ==
  ASSUME Inv, NEW t \in Tasks, LockMutex(t) \/ LockFile(t) \/ Unlock(t)
  PROVE  UNCHANGED Atomic!vars
<1>1. UNCHANGED <<log, written>> /\ pc \in [Tasks -> Places]
  BY DEF Inv, TypeOK, LockMutex, LockFile, Unlock
<1>2. \A u \in Tasks : Fate(u)' = Fate(u)
  BY <1>1, SameFate DEF LockMutex, LockFile, Unlock, Goto
<1>3. \A u \in Tasks : written[u] > 0 => (pc'[u] = "writing" <=> pc[u] = "writing")
  BY <1>1 DEF Inv, Progress, LockMutex, LockFile, Unlock, Goto
<1>4. Torn' = Torn
  BY <1>1, <1>3, SameEnd
<1> QED
  BY <1>1, <1>2, <1>4, SameFile DEF Atomic!vars

\* A crash gives up every record of its process that has no result yet.
LEMMA CrashGivesUp ==
  ASSUME Inv, NEW p \in Procs, Crash(p)
  PROVE  (\E ts \in SUBSET Tasks : Atomic!GiveUp(ts)) \/ UNCHANGED Atomic!vars
<1> DEFINE ts == {t \in Tasks : procOf[t] = p /\ pc[t] \in {"start", "locked", "writing"}}
<1>1. /\ UNCHANGED <<log, written>> /\ pc \in [Tasks -> Places]
      /\ \A t \in ts : pc'[t] = "dead"
      /\ \A t \in Tasks \ ts :
           pc'[t] \in {"start", "locked", "writing"} <=> pc[t] \in {"start", "locked", "writing"}
      /\ \A t \in Tasks : pc'[t] = "writing" <=> pc[t] = "writing" /\ t \notin ts
  BY DEF Inv, TypeOK, Crash, Places
<1>2. \A t \in ts : Fate(t) = "pending" /\ Fate(t)' = "dropped"
  BY <1>1, DroppedFate
<1>3. \A t \in Tasks \ ts : Fate(t)' = Fate(t)
  BY <1>1, SameFate
<1>4. CASE ts # {}
  <2>1. Torn' \in {Torn, TRUE}
    BY <1>1, MayTear
  <2> QED
    BY <1>1, <1>2, <1>3, <1>4, <2>1, SameFile DEF Atomic!GiveUp
<1>5. CASE ts = {}
  <2>1. Torn' = Torn
    BY <1>1, <1>5, SameEnd
  <2> QED
    BY <1>1, <1>3, <1>5, <2>1, SameFile DEF Atomic!vars
<1> QED
  BY <1>4, <1>5

LEMMA StepAtomic == Inv /\ [Next]_vars => [Atomic!Next]_(Atomic!vars)
<1> SUFFICES ASSUME Inv, [Next]_vars PROVE Atomic!Next \/ UNCHANGED Atomic!vars
  OBVIOUS
<1>1. CASE UNCHANGED vars
  <2>1. UNCHANGED <<log, written, pc>>
    BY <1>1 DEF vars
  <2>2. \A u \in Tasks : Fate(u)' = Fate(u)
    BY <2>1, SameFate
  <2>3. Torn' = Torn
    BY <2>1, SameEnd
  <2> QED
    BY <2>1, <2>2, <2>3, SameFile DEF Atomic!vars
<1>2. ASSUME NEW t \in Tasks, AppendStep(t)
      PROVE  Atomic!Next \/ UNCHANGED Atomic!vars
  <2>1. CASE WritePart(t)
    BY <2>1, LastPartLogs, PartIsInvisible DEF Atomic!Next
  <2>2. CASE LockFileFails(t) \/ WriteFails(t)
    BY <2>2, FailureGivesUp DEF Atomic!Next
  <2>3. CASE LockMutex(t) \/ LockFile(t) \/ Unlock(t)
    BY <2>3, LockingIsInvisible
  <2> QED
    BY <1>2, <2>1, <2>2, <2>3 DEF AppendStep
<1>3. ASSUME NEW p \in Procs, Crash(p) PROVE Atomic!Next \/ UNCHANGED Atomic!vars
  BY <1>3, CrashGivesUp DEF Atomic!Next
<1> QED
  BY <1>1, <1>2, <1>3 DEF Next

\* The audit file is an atomic log: whatever tasks and processes append at the same
\* time, the parts of each record that was appended without an error are together,
\* behind all that were recorded before, and the record is a line of its own unless
\* it is the next after one that failed or died in the middle of its line.
THEOREM Refines == Spec => AppendsAtomically
BY InitAtomic, StepAtomic, Invariance, PTL DEF Spec, AppendsAtomically, Atomic!Spec
=============================================================================
