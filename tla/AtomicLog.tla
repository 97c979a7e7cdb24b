---------------------------- MODULE AtomicLog ----------------------------
(***************************************************************************)
(* What the audit file promises its readers: a record appears in one step, *)
(* behind all that are there and for good, and is a line of its own.  The  *)
(* one exception: a record that is given up may leave a torn end, and the  *)
(* next one to be recorded shares the line with it.                        *)
(***************************************************************************)
CONSTANT Tasks   \* the records to append, each by a task of its own

VARIABLES
  fate,    \* of each record: pending, a line of its own, damaged, or dropped
  before,  \* for each record, those recorded when it was
  torn     \* the file ends in a piece of a record that was given up

vars == <<fate, before, torn>>

Init ==
  /\ fate = [t \in Tasks |-> "pending"]
  /\ before = [t \in Tasks |-> {}]
  /\ torn = FALSE

Recorded == {t \in Tasks : fate[t] \in {"line", "damaged"}}

Log(t) ==
  /\ fate[t] = "pending"
  /\ fate' = [fate EXCEPT ![t] = IF torn THEN "damaged" ELSE "line"]
  /\ before' = [before EXCEPT ![t] = Recorded]
  /\ torn' = FALSE

\* Appends fail or die with their process before the record is complete.  One
\* crash takes every record of its process along.
GiveUp(ts) ==
  /\ ts # {} /\ \A t \in ts : fate[t] = "pending"
  /\ fate' = [t \in Tasks |-> IF t \in ts THEN "dropped" ELSE fate[t]]
  /\ torn' \in {torn, TRUE}
  /\ UNCHANGED before

Next == (\E t \in Tasks : Log(t)) \/ (\E ts \in SUBSET Tasks : GiveUp(ts))

Spec == Init /\ [][Next]_vars
=============================================================================
