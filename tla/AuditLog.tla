---------------------------- MODULE AuditLog ----------------------------
(***************************************************************************)
(* audit::append: many tasks of several processes append one line each to  *)
(* audit.jsonl.  A process opens the file once (O_APPEND), so the flock    *)
(* belongs to the process and does not keep its own tasks apart; the       *)
(* process's mutex does.  write_all may need several write calls, and may  *)
(* fail after some of them.                                                *)
(***************************************************************************)
EXTENDS Naturals, Sequences

CONSTANTS
  Tasks,    \* the appends, one record each
  Procs,    \* the processes that share the file
  procOf,   \* the process of each task
  Parts,    \* the write calls a record takes; the last one has the newline
  NONE      \* no holder

ASSUME ConstantsTyped ==
  /\ procOf \in [Tasks -> Procs]
  /\ Parts \in Nat \ {0}
  /\ NONE \notin Tasks /\ NONE \notin Procs

VARIABLES
  log,      \* the file: the parts written, in order
  mutex,    \* holder of each process's tokio Mutex
  flock,    \* process whose open file holds the exclusive flock
  pc,       \* where each append is
  written   \* parts of each record that are in the file

vars == <<log, mutex, flock, pc, written>>

Part == [task: Tasks, part: 1..Parts]

Places == {"start", "locked", "writing", "unlock", "done", "failed", "dead"}

Init ==
  /\ log = <<>>
  /\ mutex = [p \in Procs |-> NONE]
  /\ flock = NONE
  /\ pc = [t \in Tasks |-> "start"]
  /\ written = [t \in Tasks |-> 0]

-----------------------------------------------------------------------------
Goto(t, p) == pc' = [pc EXCEPT ![t] = p]

Release(t) == mutex' = [mutex EXCEPT ![procOf[t]] = NONE]

\* Fault: no mutex, only the flock, which the process's tasks share.
LockMutexNever(t) ==
  /\ pc[t] = "start"
  /\ Goto(t, "locked")
  /\ UNCHANGED <<log, mutex, flock, written>>

\* audit.lock().await
LockMutex(t) ==
  /\ pc[t] = "start" /\ mutex[procOf[t]] = NONE
  /\ mutex' = [mutex EXCEPT ![procOf[t]] = t]
  /\ Goto(t, "locked")
  /\ UNCHANGED <<log, flock, written>>

\* Fault: flock's failure (EWOULDBLOCK) is taken for success.
LockFileUnchecked(t) ==
  /\ pc[t] = "locked"
  /\ flock' = IF flock = NONE THEN procOf[t] ELSE flock
  /\ Goto(t, "writing")
  /\ UNCHANGED <<log, mutex, written>>

\* flock(LOCK_EX) on the shared descriptor: granted also when this process has
\* the lock already.
LockFile(t) ==
  /\ pc[t] = "locked" /\ flock \in {NONE, procOf[t]}
  /\ flock' = procOf[t]
  /\ Goto(t, "writing")
  /\ UNCHANGED <<log, mutex, written>>

\* Fault: the early return keeps the mutex.
LockFileFailsLocked(t) ==
  /\ pc[t] = "locked"
  /\ Goto(t, "failed")
  /\ UNCHANGED <<log, mutex, flock, written>>

LockFileFails(t) ==
  /\ pc[t] = "locked"
  /\ Release(t)
  /\ Goto(t, "failed")
  /\ UNCHANGED <<log, flock, written>>

\* One write call of write_all; after the last the result is Ok.
WritePart(t) ==
  /\ pc[t] = "writing"
  /\ log' = Append(log, [task |-> t, part |-> written[t] + 1])
  /\ written' = [written EXCEPT ![t] = @ + 1]
  /\ Goto(t, IF written[t] + 1 = Parts THEN "unlock" ELSE "writing")
  /\ UNCHANGED <<mutex, flock>>

WriteFails(t) ==
  /\ pc[t] = "writing"
  /\ Goto(t, "unlock")
  /\ UNCHANGED <<log, mutex, flock, written>>

\* flock(LOCK_UN), and the guard of the mutex is dropped on return.
Unlock(t) ==
  /\ pc[t] = "unlock"
  /\ flock' = NONE
  /\ Release(t)
  /\ Goto(t, IF written[t] = Parts THEN "done" ELSE "failed")
  /\ UNCHANGED <<log, written>>

\* The process dies: its descriptor is closed and its appends stay as they are.
Crash(p) ==
  /\ \E t \in Tasks : procOf[t] = p /\ pc[t] \notin {"done", "failed", "dead"}
  /\ pc' = [t \in Tasks |-> IF procOf[t] = p /\ pc[t] \notin {"done", "failed"}
                            THEN "dead" ELSE pc[t]]
  /\ mutex' = [mutex EXCEPT ![p] = NONE]
  /\ flock' = IF flock = p THEN NONE ELSE flock
  /\ UNCHANGED <<log, written>>

AppendStep(t) ==
  LockMutex(t) \/ LockFile(t) \/ LockFileFails(t) \/ WritePart(t) \/ WriteFails(t) \/ Unlock(t)

Next == (\E t \in Tasks : AppendStep(t)) \/ (\E p \in Procs : Crash(p))

Spec == Init /\ [][Next]_vars

\* The runtime keeps polling a spawned append; flock and the mutex are granted in
\* turn (both queue their waiters), so an append is not passed over for ever.
FairSpec ==
  Spec /\ \A t \in Tasks : SF_vars(LockMutex(t) \/ LockFile(t)) /\ WF_vars(WritePart(t) \/ Unlock(t))

-----------------------------------------------------------------------------
\* The type invariant.
TypeOK ==
  /\ log \in Seq(Part)
  /\ mutex \in [Procs -> Tasks \cup {NONE}]
  /\ flock \in Procs \cup {NONE}
  /\ pc \in [Tasks -> Places]
  /\ written \in [Tasks -> 0..Parts]

Cut(t) == pc[t] \in {"unlock", "failed", "dead"} /\ written[t] \in 1..(Parts - 1)

\* No two records are interleaved: a later part of a record comes right after
\* its earlier one, whatever tasks and processes append at the same time.
Contiguous ==
  \A i \in 1..Len(log) : log[i].part > 1 =>
    i > 1 /\ log[i - 1] = [task |-> log[i].task, part |-> log[i].part - 1]

StartsLine(i) == i = 1 \/ log[i - 1].part = Parts

\* A line begins where the line before ended, except after a record that was cut
\* short, by a failed write or a dead process: an append that runs through
\* cannot damage a neighbour's line.
LinesAreClean ==
  \A i \in 1..Len(log) : log[i].part = 1 => StartsLine(i) \/ Cut(log[i - 1].task)

\* As documented: a record that was appended without an error is one JSON line.
EachRecordIsALine ==
  \A t \in Tasks : pc[t] = "done" =>
    \E i \in 1..Len(log) : log[i] = [task |-> t, part |-> 1] /\ StartsLine(i)

\* Every append ends, done, failed or dead with its process: a failed neighbour
\* leaves neither lock behind.
AppendsEnd == \A t \in Tasks : <>(pc[t] \in {"done", "failed", "dead"})

-----------------------------------------------------------------------------
\* The first n parts of t's record are adjacent in the file, up to its i-th part.
Run(t, n, i) == n <= i /\ \A k \in 1..n : log[i - n + k] = [task |-> t, part |-> k]

Whole(t, i) == i \in 1..Len(log) /\ Run(t, Parts, i)
OwnLine(t, i) == Whole(t, i) /\ StartsLine(i - Parts + 1)

Before(t) ==
  {u \in Tasks : \E i, j \in 1..Len(log) : i < j /\ Whole(u, i) /\ Whole(t, j)}

\* What the file shows of a record; "lost" is one whose parts were all written but
\* are not together, which the abstract log has no step for.
Fate(t) ==
  IF \E i \in 1..Len(log) : OwnLine(t, i) THEN "line"
  ELSE IF \E i \in 1..Len(log) : Whole(t, i) THEN "damaged"
  ELSE IF pc[t] \in {"start", "locked", "writing"} THEN "pending"
  ELSE IF written[t] = Parts THEN "lost" ELSE "dropped"

\* The parts at the end of the file that are still being continued.
InProgress ==
  IF log # <<>> /\ pc[log[Len(log)].task] = "writing" THEN log[Len(log)].part ELSE 0

\* Apart from these, the file ends in the middle of a line.
Torn == ~StartsLine(Len(log) - InProgress + 1)

\* Each append is atomic for a reader of the file, at its last write call.
Atomic == INSTANCE AtomicLog WITH
  fate <- [t \in Tasks |-> Fate(t)],
  before <- [t \in Tasks |-> Before(t)],
  torn <- Torn

\* The file is an atomic log (the abstract specification): whatever is appended at
\* the same time, the parts of a record that was appended without an error are
\* together, and it is a line of its own unless it follows the torn end of a record
\* that was given up, which damages this one line only.
AppendsAtomically == Atomic!Spec
=============================================================================
