------------------------- MODULE SseObserverProofs -------------------------
(***************************************************************************)
(* Lemmas about the observer of an event stream: what its loop does to any *)
(* bytes in any chunks is what reading the body as a whole finds.          *)
(***************************************************************************)
EXTENDS RelayTask, SequenceTheorems, WellFoundedInduction, TLAPS

\* What bodies are made of.
Bytes == UNION {Range(b) : b \in Bodies \cup ImageBodies}

-----------------------------------------------------------------------------
(* Induction                                                               *)

LEMMA LeastNatural ==
  ASSUME NEW T \in SUBSET Nat, T # {}
  PROVE  \E n \in T : \A m \in T : n <= m
<1> DEFINE R == OpToRel(<, Nat)
<1>1. IsWellFoundedOn(R, Nat)
  BY NatLessThanWellFounded
<1>2. \A m, n \in Nat : m < n => <<m, n>> \in R
  BY DEF OpToRel
<1> HIDE DEF R
<1>3. PICK n \in T : \A m \in T : ~(<<m, n>> \in R)
  BY <1>1, WFMin
<1>4. \A m \in T : ~(m < n)
  BY <1>2, <1>3
<1> QED
  BY <1>4

\* Induction over the numbers for which something holds, as a set.
LEMMA SetInduction ==
  ASSUME NEW T, 0 \in T, \A n \in Nat : n \in T => n + 1 \in T
  PROVE  Nat \subseteq T
<1> SUFFICES ASSUME Nat \ T # {} PROVE FALSE
  OBVIOUS
<1>1. PICK n \in Nat \ T : \A m \in Nat \ T : n <= m
  BY LeastNatural
<1>2. n # 0 /\ n - 1 \in Nat /\ n - 1 \in T /\ (n - 1) + 1 = n
  BY <1>1
<1> QED
  BY <1>1, <1>2

Recurs(f, x0, step, k) == f[0] = x0 /\ \A i \in 1..k : f[i] = step[<<i, f[i - 1]>>]

\* A function that is defined by recursion over 0..k exists, and has its type.
LEMMA Recursion ==
  ASSUME NEW X, NEW x0 \in X, NEW step \in [Nat \X X -> X], NEW k \in Nat
  PROVE  \E f \in [0..k -> X] : Recurs(f, x0, step, k)
<1> DEFINE T == {n \in Nat : \E f \in [0..n -> X] :
                   f[0] = x0 /\ \A i \in 1..n : f[i] = step[<<i, f[i - 1]>>]}
<1>1. 0 \in T
  <2> DEFINE f == [i \in 0..0 |-> x0]
  <2>1. f \in [0..0 -> X] /\ f[0] = x0
    OBVIOUS
  <2>2. \A i \in 1..0 : f[i] = step[<<i, f[i - 1]>>]
    OBVIOUS
  <2>3. 0 \in Nat
    OBVIOUS
  <2> HIDE DEF f
  <2> QED
    BY <2>1, <2>2, <2>3
<1>2. ASSUME NEW n \in Nat, n \in T PROVE n + 1 \in T
  <2>1. PICK f \in [0..n -> X] : f[0] = x0 /\ \A i \in 1..n : f[i] = step[<<i, f[i - 1]>>]
    BY <1>2
  <2> DEFINE g == [i \in 0..(n + 1) |-> IF i = n + 1 THEN step[<<n + 1, f[n]>>] ELSE f[i]]
  <2>2. f[n] \in X /\ step[<<n + 1, f[n]>>] \in X
    OBVIOUS
  <2>3. g \in [0..(n + 1) -> X] /\ g[0] = x0
    BY <2>1, <2>2
  <2>4. ASSUME NEW i \in 1..(n + 1) PROVE g[i] = step[<<i, g[i - 1]>>]
    <3>1. i \in 0..(n + 1) /\ i - 1 \in 0..(n + 1) /\ i - 1 # n + 1
      OBVIOUS
    <3>2. g[i - 1] = f[i - 1]
      BY <3>1
    <3>3. CASE i = n + 1
      <4>1. i - 1 = n /\ g[i] = step[<<n + 1, f[n]>>]
        BY <3>1, <3>3
      <4> QED
        BY <3>2, <3>3, <4>1
    <3>4. CASE i # n + 1
      <4>1. i \in 1..n /\ g[i] = f[i]
        BY <3>1, <3>4
      <4> QED
        BY <2>1, <3>2, <4>1
    <3> QED
      BY <3>3, <3>4
  <2> HIDE DEF g
  <2> QED
    BY <2>3, <2>4
<1> HIDE DEF T
<1>3. k \in T
  BY <1>1, <1>2, SetInduction
<1> QED
  BY <1>3 DEF T, Recurs

-----------------------------------------------------------------------------
(* Types                                                                   *)

\* What an observer is made of.
Seen ==
  LET Reports == Range(Documents)
      Times == Nat \cup {NULL}
  IN [model : {NULL} \cup {doc.model : doc \in Reports},
      tokens : {NULL} \cup {doc.tokens : doc \in Reports},
      outcome : {NULL, "completed", "incomplete", "failed"},
      terminalAt : Times, firstAt : Times,
      firstKind : {NULL} \cup Output,
      firstTextAt : Times, lastAt : Times]

Observers == [buffer : Seq(Bytes), failed : BOOLEAN, seen : Seen]

LEMMA LeastWindow ==
  ASSUME NEW T \in SUBSET Nat, T # {}
  PROVE  Min(T) \in T /\ \A m \in T : Min(T) <= m
BY LeastNatural DEF Min

LEMMA FindEventFacts ==
  ASSUME NEW b \in Seq(Bytes), FindEvent(b) # NULL
  PROVE  /\ FindEvent(b)[1] \in Nat /\ FindEvent(b)[2] \in {2, 4}
         /\ FindEvent(b)[1] + FindEvent(b)[2] <= Len(b)
<1> DEFINE lf == Windows(b, <<LF, LF>>)
           crlf == Windows(b, <<CR, LF, CR, LF>>)
<1>1. lf \in SUBSET Nat /\ crlf \in SUBSET Nat
  BY DEF Windows
<1>2. \A i \in lf : i + 2 <= Len(b)
  BY DEF Windows
<1>3. \A i \in crlf : i + 4 <= Len(b)
  BY DEF Windows
<1>4. FindEvent(b) =
        IF lf = {} /\ crlf = {} THEN NULL
        ELSE IF crlf = {} \/ (lf # {} /\ Min(lf) < Min(crlf)) THEN <<Min(lf), 2>>
        ELSE <<Min(crlf), 4>>
  BY DEF FindEvent
<1>5. lf # {} => Min(lf) \in lf
  BY <1>1, LeastWindow
<1>6. crlf # {} => Min(crlf) \in crlf
  BY <1>1, LeastWindow
<1> HIDE DEF lf, crlf
<1>7. CASE lf # {} /\ FindEvent(b) = <<Min(lf), 2>>
  <2>1. Min(lf) \in Nat /\ Min(lf) + 2 <= Len(b)
    BY <1>1, <1>2, <1>5, <1>7
  <2>2. FindEvent(b)[1] = Min(lf) /\ FindEvent(b)[2] = 2
    BY <1>7
  <2> QED
    BY <2>1, <2>2
<1>8. CASE crlf # {} /\ FindEvent(b) = <<Min(crlf), 4>>
  <2>1. Min(crlf) \in Nat /\ Min(crlf) + 4 <= Len(b)
    BY <1>1, <1>3, <1>6, <1>8
  <2>2. FindEvent(b)[1] = Min(crlf) /\ FindEvent(b)[2] = 4
    BY <1>8
  <2> QED
    BY <2>1, <2>2
<1> QED
  BY <1>4, <1>7, <1>8

LEMMA ObserveTyped ==
  ASSUME NEW seen \in Seen, NEW doc \in Range(Documents), NEW k \in Nat
  PROVE  Observe(seen, doc, k) \in Seen
<1>1. OutcomeOf(doc.type) \in {"completed", "incomplete", "failed"}
  BY DEF OutcomeOf
<1> QED
  BY <1>1 DEF Observe, Seen, Output, Text

LEMMA TakeEventTyped ==
  ASSUME NEW o \in Observers, NEW k \in Nat
  PROVE  TakeEvent(o, k) \in Observers
<1> DEFINE found == FindEvent(o.buffer)
           rest == [o EXCEPT !.buffer = SubSeq(@, found[1] + found[2] + 1, Len(@))]
           event == SubSeq(o.buffer, 1, found[1])
<1>1. CASE o.failed \/ found = NULL
  BY <1>1 DEF TakeEvent
<1>2. CASE ~o.failed /\ found # NULL
  <2>1. rest \in Observers
    <3>1. o.buffer \in Seq(Bytes)
      BY DEF Observers
    <3>2. /\ found[1] + found[2] + 1 \in Int /\ Len(o.buffer) \in Int
          /\ \A i \in (found[1] + found[2] + 1)..Len(o.buffer) : o.buffer[i] \in Bytes
      BY <1>2, <3>1, FindEventFacts
    <3>3. SubSeq(o.buffer, found[1] + found[2] + 1, Len(o.buffer)) \in Seq(Bytes)
      BY <3>2, SubSeqProperties
    <3> QED
      BY <3>3 DEF Observers
  <2> HIDE DEF rest, event
  <2>2. Event(rest, event, k) \in Observers
    <3>1. Observed(event) # NULL => Observed(event) \in Range(Documents)
      BY DEF Observed, Parse, Range
    <3>2. Observed(event) # NULL => Observe(rest.seen, Observed(event), k) \in Seen
      BY <2>1, <3>1, ObserveTyped DEF Observers
    <3> QED
      BY <2>1, <3>2 DEF Event, Observers
  <2> QED
    BY <1>2, <2>2 DEF TakeEvent, rest, event
<1> QED
  BY <1>1, <1>2

\* The loop's rounds, one after the other.
LEMMA Rounds ==
  ASSUME NEW o \in Observers, NEW k \in Nat
  PROVE  \E f \in [0..Len(o.buffer) -> Observers] :
           /\ f[0] = o /\ TakeEvents(o, k) = f[Len(o.buffer)]
           /\ \A i \in 1..Len(o.buffer) : f[i] = TakeEvent(f[i - 1], k)
<1> DEFINE n == Len(o.buffer)
           Unfolds(f) == f = [i \in 0..n |-> IF i = 0 THEN o ELSE TakeEvent(f[i - 1], k)]
           step == [p \in Nat \X Observers |-> TakeEvent(p[2], k)]
           h == CHOOSE h : Unfolds(h)
<1>1. n \in Nat
  BY DEF Observers
<1>2. step \in [Nat \X Observers -> Observers]
  BY TakeEventTyped
<1>3. PICK f \in [0..n -> Observers] : Recurs(f, o, step, n)
  <2> HIDE DEF n, step
  <2> QED
    BY <1>1, <1>2, Recursion
<1>4. Unfolds(f)
  <2>1. ASSUME NEW i \in 0..n
        PROVE  f[i] = IF i = 0 THEN o ELSE TakeEvent(f[i - 1], k)
    <3>1. CASE i = 0
      BY <1>3, <3>1 DEF Recurs
    <3>2. CASE i # 0
      <4>1. i \in 1..n /\ i \in Nat /\ i - 1 \in 0..n
        BY <1>1, <3>2
      <4>2. f[i] = step[<<i, f[i - 1]>>] /\ f[i - 1] \in Observers
        <5> HIDE DEF n, step
        <5> QED
          BY <1>3, <4>1 DEF Recurs
      <4>3. step[<<i, f[i - 1]>>] = TakeEvent(f[i - 1], k)
        BY <4>1, <4>2
      <4> QED
        BY <3>2, <4>2, <4>3
    <3> QED
      BY <3>1, <3>2
  <2> QED
    BY <1>3, <2>1
<1>5. Unfolds(h)
  <2> HIDE DEF Unfolds
  <2> QED
    BY <1>4
<1>6. TakeEvents(o, k) = h[n]
  BY DEF TakeEvents
<1>7. \A i \in 0..n : h[i] = IF i = 0 THEN o ELSE TakeEvent(h[i - 1], k)
  BY <1>5
<1> HIDE DEF h, step
<1> DEFINE T == {i \in Nat : i <= n => h[i] = f[i]}
<1>8. 0 \in T
  BY <1>1, <1>3, <1>7 DEF Recurs
<1>9. \A i \in 0..n : f[i] = IF i = 0 THEN o ELSE TakeEvent(f[i - 1], k)
  BY <1>4
<1>10. ASSUME NEW i \in Nat, i \in T PROVE i + 1 \in T
  <2>1. CASE i + 1 <= n
    <3>1. h[i] = f[i]
      BY <1>1, <1>10, <2>1
    <3>2. i + 1 \in 0..n /\ i + 1 # 0 /\ (i + 1) - 1 = i
      BY <1>1, <2>1
    <3>3. h[i + 1] = TakeEvent(h[i], k) /\ f[i + 1] = TakeEvent(f[i], k)
      BY <1>7, <1>9, <3>2
    <3> QED
      BY <3>1, <3>3
  <2>2. CASE ~(i + 1 <= n)
    BY <2>2
  <2> QED
    BY <2>1, <2>2
<1>11. h[n] = f[n]
  <2> HIDE DEF T
  <2>1. Nat \subseteq T
    BY <1>8, <1>10, SetInduction
  <2>2. n \in T
    BY <1>1, <2>1
  <2> QED
    BY <1>1, <2>2 DEF T
<1>12. f[0] = o /\ \A i \in 1..n : f[i] = TakeEvent(f[i - 1], k)
  <2>1. 0 \in 0..n /\ \A i \in 1..n : i \in 0..n /\ i # 0
    BY <1>1
  <2> HIDE DEF n
  <2> QED
    BY <1>9, <2>1
<1> QED
  BY <1>3, <1>6, <1>11, <1>12

LEMMA TakeEventsTyped ==
  ASSUME NEW o \in Observers, NEW k \in Nat
  PROVE  TakeEvents(o, k) \in Observers
<1>1. Len(o.buffer) \in 0..Len(o.buffer)
  BY DEF Observers
<1> QED
  BY <1>1, Rounds

LEMMA FeedTyped ==
  ASSUME NEW o \in Observers, NEW bytes \in Seq(Bytes), NEW k \in Nat,
         Len(o.buffer) <= EventLimit
  PROVE  Feed(o, bytes, k) \in Observers /\ Len(Feed(o, bytes, k).buffer) <= EventLimit
<1> DEFINE whole == [o EXCEPT !.buffer = @ \o bytes]
           rest == TakeEvents(whole, k)
<1>1. whole \in Observers
  <2>1. o.buffer \o bytes \in Seq(Bytes)
    BY ConcatProperties DEF Observers
  <2> QED
    BY <2>1 DEF Observers
<1>2. rest \in Observers
  <2> HIDE DEF whole
  <2> QED
    BY <1>1, TakeEventsTyped
<1>3. Feed(o, bytes, k) = IF o.failed THEN o
        ELSE IF rest.failed \/ Len(rest.buffer) > EventLimit THEN GiveUp(rest) ELSE rest
  BY DEF Feed
<1> HIDE DEF rest
<1>4. GiveUp(rest) \in Observers /\ Len(GiveUp(rest).buffer) <= EventLimit
  <2>1. <<>> \in Seq(Bytes) /\ Len(<<>>) = 0
    OBVIOUS
  <2>2. GiveUp(rest) = [rest EXCEPT !.failed = TRUE, !.buffer = <<>>]
    BY DEF GiveUp
  <2>3. GiveUp(rest) \in Observers /\ GiveUp(rest).buffer = <<>>
    BY <1>2, <2>1, <2>2 DEF Observers
  <2> QED
    BY <2>1, <2>3, ObserverTyped
<1>5. Len(rest.buffer) \in Nat /\ EventLimit \in Nat
  BY <1>2, ObserverTyped DEF Observers
<1> QED
  BY <1>2, <1>3, <1>4, <1>5

LEMMA FinishTyped ==
  ASSUME NEW o \in Observers, Len(o.buffer) <= EventLimit
  PROVE  FinishFeed(o) \in Observers /\ Len(FinishFeed(o).buffer) <= EventLimit
<1>1. <<>> \in Seq(Bytes) /\ Len(<<>>) = 0
  OBVIOUS
<1>2. GiveUp(o) \in Observers /\ GiveUp(o).buffer = <<>>
  BY <1>1 DEF GiveUp, Observers
<1> QED
  BY <1>1, <1>2, ObserverTyped DEF FinishFeed

-----------------------------------------------------------------------------
(* Separators                                                              *)

LEMMA SubSeqElements ==
  ASSUME NEW b \in Seq(Bytes), NEW i \in 1..(Len(b) + 1), NEW j \in (i - 1)..Len(b)
  PROVE  /\ SubSeq(b, i, j) \in Seq(Bytes) /\ Len(SubSeq(b, i, j)) = j - i + 1
         /\ \A k \in 1..(j - i + 1) : SubSeq(b, i, j)[k] = b[i + k - 1]
<1>1. \A k \in i..j : b[k] \in Bytes
  OBVIOUS
<1>2. i \in Int /\ j \in Int /\ ~(i > j + 1)
  OBVIOUS
<1> QED
  BY <1>1, <1>2, SubSeqProperties

LEMMA PairIs ==
  ASSUME NEW b \in Seq(Bytes), NEW i \in 1..Len(b), i + 1 <= Len(b)
  PROVE  SubSeq(b, i, i + 1) = <<b[i], b[i + 1]>>
<1>1. i \in 1..(Len(b) + 1) /\ i + 1 \in (i - 1)..Len(b) /\ (i + 1) - i + 1 = 2
  OBVIOUS
<1> DEFINE s == SubSeq(b, i, i + 1)
<1>2. s \in Seq(Bytes) /\ Len(s) = 2 /\ s[1] = b[i] /\ s[2] = b[i + 1]
  <2>1. s \in Seq(Bytes) /\ Len(s) = 2 /\ \A k \in 1..2 : s[k] = b[i + k - 1]
    BY <1>1, SubSeqElements
  <2>2. i + 1 - 1 = i /\ i + 2 - 1 = i + 1
    OBVIOUS
  <2> HIDE DEF s
  <2> QED
    BY <2>1, <2>2
<1> HIDE DEF s
<1>3. s = <<s[1], s[2]>>
  BY <1>2
<1> QED
  BY <1>2, <1>3 DEF s

LEMMA FourAre ==
  ASSUME NEW b \in Seq(Bytes), NEW i \in 1..Len(b), i + 3 <= Len(b)
  PROVE  SubSeq(b, i, i + 3) = <<b[i], b[i + 1], b[i + 2], b[i + 3]>>
<1>1. i \in 1..(Len(b) + 1) /\ i + 3 \in (i - 1)..Len(b) /\ (i + 3) - i + 1 = 4
  OBVIOUS
<1> DEFINE s == SubSeq(b, i, i + 3)
<1>2. s \in Seq(Bytes) /\ Len(s) = 4
      /\ s[1] = b[i] /\ s[2] = b[i + 1] /\ s[3] = b[i + 2] /\ s[4] = b[i + 3]
  BY <1>1, SubSeqElements
<1> HIDE DEF s
<1>3. s = <<s[1], s[2], s[3], s[4]>>
  BY <1>2
<1> QED
  BY <1>2, <1>3 DEF s

\* A separator of b is at i to i + n - 1.
LfLfAt(b, i) == b[i] = LF /\ b[i + 1] = LF
CrLfsAt(b, i) == b[i] = CR /\ b[i + 1] = LF /\ b[i + 2] = CR /\ b[i + 3] = LF

\* A separator ends at i that begins after last.
EndsAt(b, last, i) ==
  \/ last + 2 <= i /\ LfLfAt(b, i - 1)
  \/ last + 4 <= i /\ CrLfsAt(b, i - 3)

LEMMA SeparatorEnds ==
  ASSUME NEW b \in Seq(Bytes), NEW i \in 1..Len(b), NEW last \in Nat
  PROVE  (\E s \in Separators : i - last >= Len(s) /\ SubSeq(b, i - Len(s) + 1, i) = s)
           <=> EndsAt(b, last, i)
<1>1. Len(<<LF, LF>>) = 2 /\ Len(<<CR, LF, CR, LF>>) = 4
  OBVIOUS
<1>2. (\E s \in Separators : i - last >= Len(s) /\ SubSeq(b, i - Len(s) + 1, i) = s) <=>
        \/ i - last >= 2 /\ SubSeq(b, i - 2 + 1, i) = <<LF, LF>>
        \/ i - last >= 4 /\ SubSeq(b, i - 4 + 1, i) = <<CR, LF, CR, LF>>
  BY <1>1 DEF Separators
<1>3. i - last >= 2 => (SubSeq(b, i - 2 + 1, i) = <<LF, LF>> <=> LfLfAt(b, i - 1))
  <2> SUFFICES ASSUME i - last >= 2
               PROVE  SubSeq(b, i - 2 + 1, i) = <<LF, LF>> <=> LfLfAt(b, i - 1)
    OBVIOUS
  <2> DEFINE k == i - 1
  <2>1. k \in 1..Len(b) /\ k + 1 = i /\ i - 2 + 1 = k /\ k + 1 <= Len(b)
    OBVIOUS
  <2> HIDE DEF k
  <2>2. SubSeq(b, k, k + 1) = <<b[k], b[k + 1]>>
    BY <2>1, PairIs
  <2>3. k = i - 1
    BY DEF k
  <2> QED
    BY <2>1, <2>2, <2>3 DEF LfLfAt
<1>4. i - last >= 4 => (SubSeq(b, i - 4 + 1, i) = <<CR, LF, CR, LF>> <=> CrLfsAt(b, i - 3))
  <2> SUFFICES ASSUME i - last >= 4
               PROVE  SubSeq(b, i - 4 + 1, i) = <<CR, LF, CR, LF>> <=> CrLfsAt(b, i - 3)
    OBVIOUS
  <2> DEFINE k == i - 3
  <2>1. k \in 1..Len(b) /\ k + 3 = i /\ i - 4 + 1 = k /\ k + 3 <= Len(b)
    OBVIOUS
  <2> HIDE DEF k
  <2>2. SubSeq(b, k, k + 3) = <<b[k], b[k + 1], b[k + 2], b[k + 3]>>
    BY <2>1, FourAre
  <2>3. k = i - 3
    BY DEF k
  <2> QED
    BY <2>1, <2>2, <2>3 DEF CrLfsAt
<1> QED
  BY <1>2, <1>3, <1>4 DEF EndsAt

\* What LastCut is.
Cuts(b, cut) ==
  /\ cut[0] = 0
  /\ \A i \in 1..Len(b) : cut[i] = IF EndsAt(b, cut[i - 1], i) THEN i ELSE cut[i - 1]

LEMMA CutsExist ==
  ASSUME NEW b \in Seq(Bytes)
  PROVE  LastCut(b) \in [0..Len(b) -> Nat] /\ Cuts(b, LastCut(b))
<1> DEFINE n == Len(b)
           ends2(i, last) == \E s \in Separators :
                          i - last >= Len(s) /\ SubSeq(b, i - Len(s) + 1, i) = s
           Unfolds(f) == f = [i \in 0..n |-> IF i = 0 THEN 0
                               ELSE LET last == f[i - 1] IN
                                    IF \E s \in Separators :
                          i - last >= Len(s) /\ SubSeq(b, i - Len(s) + 1, i) = s
                                    THEN i ELSE last]
           step == [p \in Nat \X Nat |-> IF ends2(p[1], p[2]) THEN p[1] ELSE p[2]]
           h == CHOOSE h : Unfolds(h)
<1>1. n \in Nat /\ step \in [Nat \X Nat -> Nat] /\ 0 \in Nat
  OBVIOUS
<1>2. PICK f \in [0..n -> Nat] : Recurs(f, 0, step, n)
  <2> HIDE DEF n, step
  <2> QED
    BY <1>1, Recursion
<1>3. Unfolds(f)
  <2>1. ASSUME NEW i \in 0..n
        PROVE  f[i] = IF i = 0 THEN 0 ELSE IF ends2(i, f[i - 1]) THEN i ELSE f[i - 1]
    <3>1. CASE i = 0
      BY <1>2, <3>1 DEF Recurs
    <3>2. CASE i # 0
      <4>1. i \in 1..n /\ i \in Nat /\ i - 1 \in 0..n
        BY <1>1, <3>2
      <4>2. f[i] = step[<<i, f[i - 1]>>] /\ f[i - 1] \in Nat
        <5> HIDE DEF n, step
        <5> QED
          BY <1>2, <4>1 DEF Recurs
      <4> HIDE DEF n
      <4>3. step[<<i, f[i - 1]>>] = IF ends2(i, f[i - 1]) THEN i ELSE f[i - 1]
        BY <4>1, <4>2
      <4> QED
        BY <3>2, <4>2, <4>3
    <3> QED
      BY <3>1, <3>2
  <2> QED
    BY <1>2, <2>1
<1>4. Unfolds(h)
  <2> HIDE DEF Unfolds
  <2> QED
    BY <1>3
<1>5. LastCut(b) = h
  BY DEF LastCut
<1> HIDE DEF h
<1>6. \A i \in 0..n : h[i] = IF i = 0 THEN 0 ELSE IF ends2(i, h[i - 1]) THEN i ELSE h[i - 1]
  BY <1>4
<1> DEFINE T == {i \in Nat : i <= n => h[i] \in Nat}
<1>7. 0 \in T
  BY <1>1, <1>6
<1>8. ASSUME NEW i \in Nat, i \in T PROVE i + 1 \in T
  <2>1. CASE i + 1 <= n
    <3>1. h[i] \in Nat /\ i + 1 \in 0..n /\ (i + 1) - 1 = i /\ i + 1 # 0
      BY <1>1, <1>8, <2>1
    <3>2. h[i + 1] = IF ends2(i + 1, h[i]) THEN i + 1 ELSE h[i]
      <4> HIDE DEF n, ends2
      <4> QED
        BY <1>6, <3>1
    <3> QED
      BY <3>1, <3>2
  <2> QED
    BY <2>1
<1>9. \A i \in 0..n : h[i] \in Nat
  <2> HIDE DEF T
  <2>1. Nat \subseteq T
    BY <1>7, <1>8, SetInduction
  <2> QED
    BY <1>1, <2>1 DEF T
<1>10. h \in [0..n -> Nat]
  <2>1. \E g : h = [i \in 0..n |-> g[i]]
    BY <1>4
  <2> HIDE DEF Unfolds
  <2> QED
    BY <1>9, <2>1
<1>11. ASSUME NEW i \in 1..n
       PROVE  h[i] = IF EndsAt(b, h[i - 1], i) THEN i ELSE h[i - 1]
  <2>1. h[i] = IF ends2(i, h[i - 1]) THEN i ELSE h[i - 1]
    BY <1>6
  <2>2. h[i - 1] \in Nat
    BY <1>9
  <2>3. ends2(i, h[i - 1]) <=> EndsAt(b, h[i - 1], i)
    BY <2>2, SeparatorEnds
  <2> HIDE DEF ends2
  <2> QED
    BY <2>1, <2>3
<1> QED
  BY <1>1, <1>5, <1>6, <1>10, <1>11 DEF Cuts

\* Cuts only move forward, each to where it is.
LEMMA CutFacts ==
  ASSUME NEW b \in Seq(Bytes), NEW i \in 0..Len(b)
  PROVE  LastCut(b)[i] \in 0..i /\ LastCut(b)[LastCut(b)[i]] = LastCut(b)[i]
<1> DEFINE cut == LastCut(b)
           T == {k \in Nat : k <= Len(b) => cut[k] \in 0..k /\ cut[cut[k]] = cut[k]}
<1>1. Len(b) \in Nat /\ cut \in [0..Len(b) -> Nat] /\ Cuts(b, cut)
  BY CutsExist
<1> HIDE DEF cut
<1>2. 0 \in T
  BY <1>1 DEF Cuts
<1>3. ASSUME NEW k \in Nat, k \in T PROVE k + 1 \in T
  <2> SUFFICES ASSUME k + 1 <= Len(b)
               PROVE  cut[k + 1] \in 0..(k + 1) /\ cut[cut[k + 1]] = cut[k + 1]
    OBVIOUS
  <2>1. cut[k] \in 0..k /\ cut[cut[k]] = cut[k] /\ k + 1 \in 1..Len(b) /\ (k + 1) - 1 = k
    BY <1>1, <1>3
  <2>2. cut[k + 1] = IF EndsAt(b, cut[k], k + 1) THEN k + 1 ELSE cut[k]
    BY <1>1, <2>1 DEF Cuts
  <2> QED
    BY <2>1, <2>2
<1>4. i \in T
  <2> HIDE DEF T
  <2> QED
    BY <1>1, <1>2, <1>3, SetInduction
<1> QED
  BY <1>1, <1>4 DEF cut

LEMMA CutMoves ==
  ASSUME NEW b \in Seq(Bytes), NEW i \in 0..Len(b), NEW j \in i..Len(b)
  PROVE  LastCut(b)[j] = LastCut(b)[i] \/ LastCut(b)[j] > i
<1> DEFINE cut == LastCut(b)
           T == {k \in Nat : i + k <= Len(b) => cut[i + k] = cut[i] \/ cut[i + k] > i}
<1>1. Len(b) \in Nat /\ cut \in [0..Len(b) -> Nat] /\ Cuts(b, cut)
  BY CutsExist
<1> HIDE DEF cut
<1>2. 0 \in T
  BY <1>1
<1>3. ASSUME NEW k \in Nat, k \in T PROVE k + 1 \in T
  <2> SUFFICES ASSUME i + (k + 1) <= Len(b)
               PROVE  cut[i + (k + 1)] = cut[i] \/ cut[i + (k + 1)] > i
    OBVIOUS
  <2>1. /\ cut[i + k] = cut[i] \/ cut[i + k] > i
        /\ i + (k + 1) \in 1..Len(b) /\ (i + (k + 1)) - 1 = i + k
    BY <1>1, <1>3
  <2>2. cut[i + (k + 1)] = IF EndsAt(b, cut[i + k], i + (k + 1)) THEN i + (k + 1)
                           ELSE cut[i + k]
    BY <1>1, <2>1 DEF Cuts
  <2> QED
    BY <2>1, <2>2
<1>4. j - i \in T
  <2> HIDE DEF T
  <2>1. j - i \in Nat
    BY <1>1
  <2> QED
    BY <1>1, <1>2, <1>3, <2>1, SetInduction
<1>5. i + (j - i) = j /\ j <= Len(b)
  BY <1>1
<1> QED
  BY <1>4, <1>5 DEF cut

\* Nothing is cut behind the last cut.
LEMMA CutStays ==
  ASSUME NEW b \in Seq(Bytes), NEW n \in 0..Len(b)
  PROVE  \A i \in LastCut(b)[n]..n : LastCut(b)[i] = LastCut(b)[n]
<1> DEFINE cut == LastCut(b)[n]
<1> SUFFICES ASSUME NEW i \in cut..n PROVE LastCut(b)[i] = cut
  OBVIOUS
<1>1. cut \in 0..n /\ LastCut(b)[cut] = cut
  BY CutFacts
<1>2. cut \in 0..Len(b) /\ i \in cut..Len(b) /\ i \in 0..Len(b) /\ n \in i..Len(b)
  BY <1>1
<1>3. LastCut(b)[i] = cut \/ LastCut(b)[i] > cut
  <2> HIDE DEF cut
  <2> QED
    BY <1>1, <1>2, CutMoves
<1>4. /\ LastCut(b)[i] \in 0..i /\ LastCut(b)[LastCut(b)[i]] = LastCut(b)[i]
      /\ (LastCut(b)[n] = LastCut(b)[i] \/ LastCut(b)[n] > i)
  BY <1>2, CutFacts, CutMoves
<1> QED
  BY <1>1, <1>2, <1>3, <1>4

\* Where no separator ends, no event does.
LEMMA Uncut ==
  ASSUME NEW b \in Seq(Bytes), NEW c \in 0..Len(b), NEW m \in c..Len(b), LastCut(b)[c] = c,
         \A k \in (c + 1)..m : ~EndsAt(b, c, k)
  PROVE  \A k \in c..m : LastCut(b)[k] = c
<1> DEFINE cut == LastCut(b)
           T == {k \in Nat : c + k <= m => cut[c + k] = c}
<1>1. Len(b) \in Nat /\ cut \in [0..Len(b) -> Nat] /\ Cuts(b, cut) /\ cut[c] = c
  BY CutsExist
<1> HIDE DEF cut
<1>2. 0 \in T
  BY <1>1
<1>3. ASSUME NEW k \in Nat, k \in T PROVE k + 1 \in T
  <2> SUFFICES ASSUME c + (k + 1) <= m PROVE cut[c + (k + 1)] = c
    OBVIOUS
  <2>1. /\ cut[c + k] = c /\ c + (k + 1) \in 1..Len(b) /\ c + (k + 1) \in (c + 1)..m
        /\ (c + (k + 1)) - 1 = c + k
    BY <1>1, <1>3
  <2>2. cut[c + (k + 1)] = IF EndsAt(b, cut[c + k], c + (k + 1)) THEN c + (k + 1)
                           ELSE cut[c + k]
    BY <1>1, <2>1 DEF Cuts
  <2> QED
    BY <2>1, <2>2
<1>4. ASSUME NEW k \in c..m PROVE cut[k] = c
  <2>1. k - c \in Nat /\ c + (k - c) = k /\ k <= m
    OBVIOUS
  <2>2. k - c \in T
    <3> HIDE DEF T
    <3> QED
      BY <1>2, <1>3, <2>1, SetInduction
  <2> QED
    BY <2>1, <2>2
<1> QED
  BY <1>4 DEF cut

LEMMA EndsAtPrefix ==
  ASSUME NEW b \in Seq(Bytes), NEW n \in 0..Len(b), NEW i \in 1..n, NEW last \in Nat
  PROVE  EndsAt(SubSeq(b, 1, n), last, i) <=> EndsAt(b, last, i)
<1> DEFINE p == SubSeq(b, 1, n)
<1>1. \A k \in 1..n : p[k] = b[k]
  <2>1. 1 \in 1..(Len(b) + 1) /\ n \in (1 - 1)..Len(b) /\ n - 1 + 1 = n
    OBVIOUS
  <2>2. \A k \in 1..n : p[k] = b[1 + k - 1]
    BY <2>1, SubSeqElements
  <2> HIDE DEF p
  <2> QED
    BY <2>2
<1> HIDE DEF p
<1>2. last + 2 <= i => i - 1 \in 1..n /\ (i - 1) + 1 \in 1..n
  OBVIOUS
<1>3. last + 4 <= i => i - 3 \in 1..n /\ (i - 3) + 1 \in 1..n /\ (i - 3) + 2 \in 1..n
                       /\ (i - 3) + 3 \in 1..n
  OBVIOUS
<1> QED
  BY <1>1, <1>2, <1>3 DEF EndsAt, LfLfAt, CrLfsAt, p

\* What is cut does not depend on what comes later.
LEMMA CutPrefix ==
  ASSUME NEW b \in Seq(Bytes), NEW n \in 0..Len(b)
  PROVE  /\ SubSeq(b, 1, n) \in Seq(Bytes) /\ Len(SubSeq(b, 1, n)) = n
         /\ \A i \in 0..n : LastCut(SubSeq(b, 1, n))[i] = LastCut(b)[i]
<1> DEFINE p == SubSeq(b, 1, n)
           c == LastCut(b)
           d == LastCut(p)
           T == {i \in Nat : i <= n => d[i] = c[i]}
<1>1. p \in Seq(Bytes) /\ Len(p) = n /\ Len(b) \in Nat
  <2>1. 1 \in 1..(Len(b) + 1) /\ n \in (1 - 1)..Len(b) /\ n - 1 + 1 = n
    OBVIOUS
  <2> QED
    BY <2>1, SubSeqElements
<1>2. c \in [0..Len(b) -> Nat] /\ Cuts(b, c)
  BY CutsExist
<1>3. Cuts(p, d)
  <2> HIDE DEF p
  <2> QED
    BY <1>1, CutsExist
<1>4. ASSUME NEW i \in 1..n, NEW last \in Nat PROVE EndsAt(p, last, i) <=> EndsAt(b, last, i)
  BY EndsAtPrefix
<1> HIDE DEF p, c, d
<1>5. 0 \in T
  BY <1>2, <1>3 DEF Cuts
<1>6. ASSUME NEW i \in Nat, i \in T PROVE i + 1 \in T
  <2> SUFFICES ASSUME i + 1 <= n PROVE d[i + 1] = c[i + 1]
    OBVIOUS
  <2>1. /\ d[i] = c[i] /\ c[i] \in Nat /\ i + 1 \in 1..Len(b) /\ i + 1 \in 1..Len(p)
        /\ i + 1 \in 1..n /\ (i + 1) - 1 = i
    BY <1>1, <1>2, <1>6
  <2>2. c[i + 1] = IF EndsAt(b, c[i], i + 1) THEN i + 1 ELSE c[i]
    BY <1>2, <2>1 DEF Cuts
  <2>3. d[i + 1] = IF EndsAt(p, d[i], i + 1) THEN i + 1 ELSE d[i]
    BY <1>3, <2>1 DEF Cuts
  <2>4. EndsAt(p, d[i], i + 1) <=> EndsAt(b, c[i], i + 1)
    BY <1>4, <2>1
  <2> QED
    BY <2>1, <2>2, <2>3, <2>4
<1>7. \A i \in 0..n : d[i] = c[i]
  <2> HIDE DEF T
  <2>1. Nat \subseteq T
    BY <1>5, <1>6, SetInduction
  <2> QED
    BY <2>1 DEF T
<1> QED
  BY <1>1, <1>7 DEF p, c, d

LEMMA WindowsAre ==
  ASSUME NEW b \in Seq(Bytes), NEW c \in 0..Len(b), NEW m \in c..Len(b)
  PROVE  /\ Windows(SubSeq(b, c + 1, m), <<LF, LF>>)
              = {i \in Nat : c + i + 2 <= m /\ LfLfAt(b, c + i + 1)}
         /\ Windows(SubSeq(b, c + 1, m), <<CR, LF, CR, LF>>)
              = {i \in Nat : c + i + 4 <= m /\ CrLfsAt(b, c + i + 1)}
<1> DEFINE w == SubSeq(b, c + 1, m)
<1>1. w \in Seq(Bytes) /\ Len(w) = m - c /\ \A k \in 1..(m - c) : w[k] = b[c + k]
  <2>1. /\ c + 1 \in 1..(Len(b) + 1) /\ m \in ((c + 1) - 1)..Len(b) /\ m - (c + 1) + 1 = m - c
        /\ \A k \in 1..(m - c) : (c + 1) + k - 1 = c + k
    OBVIOUS
  <2>2. /\ w \in Seq(Bytes) /\ Len(w) = m - (c + 1) + 1
        /\ \A k \in 1..(m - (c + 1) + 1) : w[k] = b[(c + 1) + k - 1]
    BY <2>1, SubSeqElements
  <2> HIDE DEF w
  <2> QED
    BY <2>1, <2>2
<1> HIDE DEF w
<1>2. Len(<<LF, LF>>) = 2 /\ Len(<<CR, LF, CR, LF>>) = 4
  OBVIOUS
<1>3. ASSUME NEW i \in Nat, c + i + 2 <= m
      PROVE  SubSeq(w, i + 1, i + 2) = <<LF, LF>> <=> LfLfAt(b, c + i + 1)
  <2> DEFINE k == i + 1
  <2>1. k \in 1..Len(w) /\ k + 1 <= Len(w) /\ i + 2 = k + 1 /\ i + 1 = k /\ w \in Seq(Bytes)
    BY <1>1, <1>3
  <2>2. w[k] = b[c + i + 1] /\ w[k + 1] = b[c + i + 1 + 1]
    BY <1>1, <1>3
  <2> HIDE DEF k
  <2>3. SubSeq(w, k, k + 1) = <<w[k], w[k + 1]>>
    BY <2>1, PairIs
  <2> QED
    BY <2>1, <2>2, <2>3 DEF LfLfAt
<1>4. ASSUME NEW i \in Nat, c + i + 4 <= m
      PROVE  SubSeq(w, i + 1, i + 4) = <<CR, LF, CR, LF>> <=> CrLfsAt(b, c + i + 1)
  <2> DEFINE k == i + 1
  <2>1. k \in 1..Len(w) /\ k + 3 <= Len(w) /\ i + 4 = k + 3 /\ i + 1 = k /\ w \in Seq(Bytes)
    BY <1>1, <1>4
  <2>2. \A j \in 0..3 : k + j \in 1..(m - c) /\ c + (k + j) = c + i + 1 + j
    BY <1>4
  <2>3. ASSUME NEW j \in 0..3 PROVE w[k + j] = b[c + i + 1 + j]
    <3>1. k + j \in 1..(m - c) /\ c + (k + j) = c + i + 1 + j
      BY <2>2
    <3>2. w[k + j] = b[c + (k + j)]
      BY <1>1, <3>1
    <3> QED
      BY <3>1, <3>2
  <2>4. k + 0 = k /\ c + i + 1 + 0 = c + i + 1
    OBVIOUS
  <2>5. /\ w[k] = b[c + i + 1] /\ w[k + 1] = b[c + i + 1 + 1]
        /\ w[k + 2] = b[c + i + 1 + 2] /\ w[k + 3] = b[c + i + 1 + 3]
    BY <2>3, <2>4
  <2> HIDE DEF k
  <2>6. SubSeq(w, k, k + 3) = <<w[k], w[k + 1], w[k + 2], w[k + 3]>>
    BY <2>1, FourAre
  <2> QED
    BY <2>1, <2>5, <2>6 DEF CrLfsAt
<1>5. Windows(w, <<LF, LF>>) = {i \in 0..Len(w) : i + 2 <= Len(w)
                                      /\ SubSeq(w, i + 1, i + 2) = <<LF, LF>>}
  BY <1>2 DEF Windows
<1>6. Windows(w, <<CR, LF, CR, LF>>) = {i \in 0..Len(w) : i + 4 <= Len(w)
                                      /\ SubSeq(w, i + 1, i + 4) = <<CR, LF, CR, LF>>}
  BY <1>2 DEF Windows
<1>7. \A i : (i \in 0..Len(w) /\ i + 2 <= Len(w)) <=> (i \in Nat /\ c + i + 2 <= m)
  BY <1>1
<1>8. \A i : (i \in 0..Len(w) /\ i + 4 <= Len(w)) <=> (i \in Nat /\ c + i + 4 <= m)
  BY <1>1
<1>9. Windows(w, <<LF, LF>>) = {i \in Nat : c + i + 2 <= m /\ LfLfAt(b, c + i + 1)}
  BY <1>3, <1>5, <1>7
<1>10. Windows(w, <<CR, LF, CR, LF>>) = {i \in Nat : c + i + 4 <= m /\ CrLfsAt(b, c + i + 1)}
  BY <1>4, <1>6, <1>8
<1> QED
  BY <1>9, <1>10 DEF w

\* An observer that finds no separator behind the last cut has none to find.
LEMMA FoundNone ==
  ASSUME NEW b \in Seq(Bytes), NEW c \in 0..Len(b), NEW m \in c..Len(b), LastCut(b)[c] = c,
         FindEvent(SubSeq(b, c + 1, m)) = NULL
  PROVE  \A k \in c..m : LastCut(b)[k] = c
<1> DEFINE w == SubSeq(b, c + 1, m)
           lf == Windows(w, <<LF, LF>>)
           crlf == Windows(w, <<CR, LF, CR, LF>>)
<1>1. /\ lf = {i \in Nat : c + i + 2 <= m /\ LfLfAt(b, c + i + 1)}
      /\ crlf = {i \in Nat : c + i + 4 <= m /\ CrLfsAt(b, c + i + 1)}
  BY WindowsAre
<1>2. FindEvent(w) =
        IF lf = {} /\ crlf = {} THEN NULL
        ELSE IF crlf = {} \/ (lf # {} /\ Min(lf) < Min(crlf)) THEN <<Min(lf), 2>>
        ELSE <<Min(crlf), 4>>
  BY DEF FindEvent
<1>3. FindEvent(w) = NULL
  OBVIOUS
<1> HIDE DEF lf, crlf, w
<1>4. (lf # {} => Min(lf) \in Nat) /\ (crlf # {} => Min(crlf) \in Nat)
  BY <1>1, LeastWindow
<1>5. \A n \in Nat : <<n, 2>> # NULL /\ <<n, 4>> # NULL
  <2>1. \A n \in Nat : <<n, 2>> \in Nat \X Nat /\ <<n, 4>> \in Nat \X Nat
    OBVIOUS
  <2> QED
    BY <2>1, ObserverTyped
<1>6. lf = {} /\ crlf = {}
  BY <1>2, <1>3, <1>4, <1>5
<1>7. ASSUME NEW k \in (c + 1)..m PROVE ~EndsAt(b, c, k)
  <2>1. c + 2 <= k => k - 2 - c \in Nat /\ c + (k - 2 - c) + 2 <= m
                      /\ c + (k - 2 - c) + 1 = k - 1
    OBVIOUS
  <2>2. c + 4 <= k => k - 4 - c \in Nat /\ c + (k - 4 - c) + 4 <= m
                      /\ c + (k - 4 - c) + 1 = k - 3
    OBVIOUS
  <2>3. c + 2 <= k => ~LfLfAt(b, k - 1)
    BY <1>1, <1>6, <2>1
  <2>4. c + 4 <= k => ~CrLfsAt(b, k - 3)
    BY <1>1, <1>6, <2>2
  <2> QED
    BY <2>3, <2>4 DEF EndsAt
<1> QED
  BY <1>7, Uncut

\* The first separator it finds is the one that ends first, so that it drains as
\* much as is cut next.
LEMMA FoundFirst ==
  ASSUME NEW b \in Seq(Bytes), NEW c \in 0..Len(b), NEW m \in c..Len(b), LastCut(b)[c] = c,
         NEW p \in Nat, NEW l \in Nat, FindEvent(SubSeq(b, c + 1, m)) = <<p, l>>,
         FindEvent(SubSeq(b, c + 1, m)) # NULL
  PROVE  /\ c + p + l \in (c + 1)..m /\ l \in {2, 4}
         /\ LastCut(b)[c + p + l] = c + p + l
         /\ \A k \in c..(c + p + l - 1) : LastCut(b)[k] = c
         /\ (l = 2) <=> LfLfAt(b, c + p + l - 1)
<1> DEFINE w == SubSeq(b, c + 1, m)
           lf == Windows(w, <<LF, LF>>)
           crlf == Windows(w, <<CR, LF, CR, LF>>)
<1>1. /\ lf = {i \in Nat : c + i + 2 <= m /\ LfLfAt(b, c + i + 1)}
      /\ crlf = {i \in Nat : c + i + 4 <= m /\ CrLfsAt(b, c + i + 1)}
  BY WindowsAre
<1>2. FindEvent(w) =
        IF lf = {} /\ crlf = {} THEN NULL
        ELSE IF crlf = {} \/ (lf # {} /\ Min(lf) < Min(crlf)) THEN <<Min(lf), 2>>
        ELSE <<Min(crlf), 4>>
  BY DEF FindEvent
<1>3. FindEvent(w) = <<p, l>> /\ FindEvent(w) # NULL
  OBVIOUS
<1> HIDE DEF lf, crlf, w
<1>4. /\ lf # {} => Min(lf) \in lf /\ \A i \in lf : Min(lf) <= i
      /\ crlf # {} => Min(crlf) \in crlf /\ \A i \in crlf : Min(crlf) <= i
      /\ lf \subseteq Nat /\ crlf \subseteq Nat
  BY <1>1, LeastWindow
<1>5. \/ l = 2 /\ p \in lf /\ (\A i \in lf : p <= i) /\ (\A i \in crlf : p < i)
      \/ l = 4 /\ p \in crlf /\ (\A i \in lf : p <= i) /\ (\A i \in crlf : p <= i)
  <2>1. CASE crlf = {} \/ (lf # {} /\ Min(lf) < Min(crlf))
    <3>1. lf # {} /\ <<p, l>> = <<Min(lf), 2>>
      BY <1>2, <1>3, <2>1
    <3>2. p = Min(lf) /\ l = 2
      BY <3>1
    <3>3. ASSUME NEW i \in crlf PROVE p < i
      <4>1. Min(lf) < Min(crlf) /\ Min(crlf) <= i
        BY <1>4, <2>1, <3>3
      <4>2. Min(lf) \in Nat /\ Min(crlf) \in Nat /\ i \in Nat
        BY <1>4, <3>1, <3>3
      <4> QED
        BY <3>2, <4>1, <4>2
    <3> QED
      BY <1>4, <3>1, <3>2, <3>3
  <2>2. CASE ~(crlf = {} \/ (lf # {} /\ Min(lf) < Min(crlf)))
    <3>1. crlf # {} /\ <<p, l>> = <<Min(crlf), 4>>
      BY <1>2, <1>3, <2>2
    <3>2. p = Min(crlf) /\ l = 4
      BY <3>1
    <3>3. ASSUME NEW i \in lf PROVE p <= i
      <4>1. ~(Min(lf) < Min(crlf)) /\ Min(lf) <= i
        BY <1>4, <2>2, <3>3
      <4>2. Min(lf) \in Nat /\ Min(crlf) \in Nat /\ i \in Nat
        BY <1>4, <3>1, <3>3
      <4> QED
        BY <3>2, <4>1, <4>2
    <3> QED
      BY <1>4, <3>1, <3>2, <3>3
  <2> QED
    BY <2>1, <2>2
<1> DEFINE q == c + p + l
<1>6. q \in (c + 1)..m /\ EndsAt(b, c, q) /\ (l = 2 <=> LfLfAt(b, q - 1))
  <2>1. CASE l = 2
    <3>1. q <= m /\ LfLfAt(b, c + p + 1) /\ c + p + 1 = q - 1 /\ c + 2 <= q
      BY <1>1, <1>4, <1>5, <2>1
    <3> QED
      BY <2>1, <3>1 DEF EndsAt
  <2>2. CASE l = 4
    <3>1. /\ q <= m /\ CrLfsAt(b, c + p + 1) /\ c + p + 1 = q - 3 /\ c + 4 <= q
          /\ (q - 3) + 2 = q - 1
      BY <1>1, <1>4, <1>5, <2>2
    <3>2. b[q - 1] = CR
      BY <3>1 DEF CrLfsAt
    <3>3. ~LfLfAt(b, q - 1)
      BY <3>2, ObserverTyped DEF LfLfAt
    <3> QED
      BY <2>2, <3>1, <3>3 DEF EndsAt
  <2> QED
    BY <1>5, <2>1, <2>2
<1>7. ASSUME NEW k \in (c + 1)..(q - 1) PROVE ~EndsAt(b, c, k)
  <2>1. ASSUME c + 2 <= k, LfLfAt(b, k - 1) PROVE FALSE
    <3>1. k - 2 - c \in Nat /\ c + (k - 2 - c) + 2 <= m /\ c + (k - 2 - c) + 1 = k - 1
      BY <1>6, <2>1
    <3>2. k - 2 - c \in lf
      BY <1>1, <2>1, <3>1
    <3>3. p <= k - 2 - c
      BY <1>5, <3>2
    <3>4. l = 4 /\ p \in crlf
      BY <1>5, <3>3
    <3>5. CrLfsAt(b, c + p + 1)
      BY <1>1, <3>4
    <3>6. k - 1 = c + p + 1 \/ k - 1 = c + p + 1 + 1
      BY <3>3, <3>4
    <3>7. (k - 1) + 1 = c + p + 1 + 2 \/ k - 1 = c + p + 1
      BY <3>6
    <3> QED
      BY <2>1, <3>5, <3>7, ObserverTyped DEF LfLfAt, CrLfsAt
  <2>2. ASSUME c + 4 <= k, CrLfsAt(b, k - 3) PROVE FALSE
    <3>1. k - 4 - c \in Nat /\ c + (k - 4 - c) + 4 <= m /\ c + (k - 4 - c) + 1 = k - 3
      BY <1>6, <2>2
    <3>2. k - 4 - c \in crlf
      BY <1>1, <2>2, <3>1
    <3> QED
      BY <1>5, <3>1, <3>2
  <2> QED
    BY <2>1, <2>2 DEF EndsAt
<1>8. \A k \in c..(q - 1) : LastCut(b)[k] = c
  <2>1. q - 1 \in c..Len(b)
    BY <1>6
  <2> HIDE DEF q
  <2> QED
    BY <1>7, <2>1, Uncut
<1>9. LastCut(b)[q] = q
  <2>1. LastCut(b)[q - 1] = c /\ q \in 1..Len(b)
    BY <1>6, <1>8
  <2>2. Cuts(b, LastCut(b))
    BY CutsExist
  <2> HIDE DEF q
  <2> QED
    BY <1>6, <2>1, <2>2 DEF Cuts
<1> QED
  BY <1>5, <1>6, <1>8, <1>9

-----------------------------------------------------------------------------
(* Events                                                                  *)

LEMMA SubSeqOf ==
  ASSUME NEW b \in Seq(Bytes), NEW c \in 0..Len(b), NEW m \in c..Len(b),
         NEW x \in 1..(m - c + 1), NEW y \in (x - 1)..(m - c)
  PROVE  /\ SubSeq(SubSeq(b, c + 1, m), x, y) = SubSeq(b, c + x, c + y)
         /\ Len(SubSeq(b, c + 1, m)) = m - c
<1> DEFINE w == SubSeq(b, c + 1, m)
<1>1. w \in Seq(Bytes) /\ Len(w) = m - c /\ \A k \in 1..(m - c) : w[k] = b[c + k]
  <2>1. /\ c + 1 \in 1..(Len(b) + 1) /\ m \in ((c + 1) - 1)..Len(b) /\ m - (c + 1) + 1 = m - c
        /\ \A k \in 1..(m - c) : (c + 1) + k - 1 = c + k
    OBVIOUS
  <2>2. /\ w \in Seq(Bytes) /\ Len(w) = m - (c + 1) + 1
        /\ \A k \in 1..(m - (c + 1) + 1) : w[k] = b[(c + 1) + k - 1]
    BY <2>1, SubSeqElements
  <2> HIDE DEF w
  <2> QED
    BY <2>1, <2>2
<1> HIDE DEF w
<1> DEFINE u == SubSeq(w, x, y)
           v == SubSeq(b, c + x, c + y)
<1>2. x \in 1..(Len(w) + 1) /\ y \in (x - 1)..Len(w)
  BY <1>1
<1>3. /\ u \in Seq(Bytes) /\ Len(u) = y - x + 1
      /\ \A k \in 1..(y - x + 1) : u[k] = w[x + k - 1]
  BY <1>1, <1>2, SubSeqElements
<1>4. c + x \in 1..(Len(b) + 1) /\ c + y \in ((c + x) - 1)..Len(b)
      /\ (c + y) - (c + x) + 1 = y - x + 1
  OBVIOUS
<1>5. /\ v \in Seq(Bytes) /\ Len(v) = (c + y) - (c + x) + 1
      /\ \A k \in 1..((c + y) - (c + x) + 1) : v[k] = b[(c + x) + k - 1]
  BY <1>4, SubSeqElements
<1> HIDE DEF u, v
<1>6. ASSUME NEW k \in 1..(y - x + 1) PROVE u[k] = v[k]
  <2>1. x + k - 1 \in 1..(m - c) /\ c + (x + k - 1) = (c + x) + k - 1
    OBVIOUS
  <2>2. u[k] = w[x + k - 1] /\ v[k] = b[(c + x) + k - 1]
    BY <1>3, <1>4, <1>5
  <2> QED
    BY <1>1, <2>1, <2>2
<1>7. u = v
  BY <1>3, <1>4, <1>5, <1>6, SeqEqual
<1> QED
  BY <1>1, <1>7 DEF u, v, w

LEMMA SubSeqOfPrefix ==
  ASSUME NEW b \in Seq(Bytes), NEW n \in 0..Len(b),
         NEW x \in 1..(n + 1), NEW y \in (x - 1)..n
  PROVE  SubSeq(SubSeq(b, 1, n), x, y) = SubSeq(b, x, y)
<1>1. /\ 0 \in 0..Len(b) /\ n \in 0..Len(b) /\ x \in 1..(n - 0 + 1) /\ y \in (x - 1)..(n - 0)
      /\ 0 + 1 = 1 /\ 0 + x = x /\ 0 + y = y
  OBVIOUS
<1>2. SubSeq(SubSeq(b, 0 + 1, n), x, y) = SubSeq(b, 0 + x, 0 + y)
  BY <1>1, SubSeqOf
<1> QED
  BY <1>1, <1>2

\* Where the events of the first n bytes end, and the event that ends at i.
Complete(b, n) == {i \in 1..n : LastCut(b)[i] = i}

EventAt(b, i) ==
  SubSeq(b, LastCut(b)[i - 1] + 1,
         i - (IF SubSeq(b, i - 1, i) = <<LF, LF>> THEN 2 ELSE 4))

LEMMA CompleteEnds ==
  ASSUME NEW b \in Seq(Bytes), NEW n \in 0..Len(b), NEW i \in Complete(b, n)
  PROVE  /\ i \in 1..n /\ i \in 2..Len(b) /\ LastCut(b)[i - 1] \in 0..(i - 1)
         /\ EndsAt(b, LastCut(b)[i - 1], i)
         /\ SubSeq(b, i - 1, i) = <<LF, LF>> <=> LfLfAt(b, i - 1)
         /\ \E l \in {2, 4} : /\ LastCut(b)[i - 1] + l <= i
                              /\ l = IF SubSeq(b, i - 1, i) = <<LF, LF>> THEN 2 ELSE 4
<1>1. i \in 1..n /\ LastCut(b)[i] = i /\ i - 1 \in 0..Len(b) /\ i \in 1..Len(b)
  BY DEF Complete
<1>2. LastCut(b)[i - 1] \in 0..(i - 1)
  BY <1>1, CutFacts
<1>3. EndsAt(b, LastCut(b)[i - 1], i)
  <2>1. LastCut(b)[i] = IF EndsAt(b, LastCut(b)[i - 1], i) THEN i ELSE LastCut(b)[i - 1]
    BY <1>1, CutsExist DEF Cuts
  <2> QED
    BY <1>1, <1>2, <2>1
<1>4. i \in 2..Len(b)
  BY <1>1, <1>2, <1>3 DEF EndsAt
<1>5. SubSeq(b, i - 1, i) = <<LF, LF>> <=> LfLfAt(b, i - 1)
  <2> DEFINE k == i - 1
  <2>1. k \in 1..Len(b) /\ k + 1 <= Len(b) /\ i = k + 1
    BY <1>4
  <2> HIDE DEF k
  <2>2. SubSeq(b, k, k + 1) = <<b[k], b[k + 1]>>
    BY <2>1, PairIs
  <2>3. SubSeq(b, k, i) = <<LF, LF>> <=> LfLfAt(b, k)
    BY <2>1, <2>2 DEF LfLfAt
  <2> QED
    BY <2>3 DEF k
<1>6. LfLfAt(b, i - 1) => LastCut(b)[i - 1] + 2 <= i
  BY <1>1, <1>2, <1>3 DEF EndsAt
<1>7. ~LfLfAt(b, i - 1) => LastCut(b)[i - 1] + 4 <= i
  BY <1>3 DEF EndsAt
<1>8. \E l \in {2, 4} : /\ LastCut(b)[i - 1] + l <= i
                        /\ l = IF SubSeq(b, i - 1, i) = <<LF, LF>> THEN 2 ELSE 4
  BY <1>5, <1>6, <1>7
<1> QED
  BY <1>1, <1>2, <1>3, <1>4, <1>5, <1>8

\* The events of a prefix are those of the body that are complete in it.
LEMMA EventsOfPrefix ==
  ASSUME NEW b \in Seq(Bytes), NEW n \in 0..Len(b)
  PROVE  EventsOf(SubSeq(b, 1, n)) = [i \in Complete(b, n) |-> EventAt(b, i)]
<1> DEFINE p == SubSeq(b, 1, n)
           LengthOf(i) == IF SubSeq(p, i - 1, i) = <<LF, LF>> THEN 2 ELSE 4
<1>1. EventsOf(p) = [i \in {i \in 1..Len(p) : LastCut(p)[i] = i} |->
                       SubSeq(p, LastCut(p)[i - 1] + 1, i - LengthOf(i))]
  BY DEF EventsOf
<1>2. Len(p) = n /\ \A i \in 0..n : LastCut(p)[i] = LastCut(b)[i]
  BY CutPrefix
<1>3. {i \in 1..Len(p) : LastCut(p)[i] = i} = Complete(b, n)
  <2> HIDE DEF p
  <2> QED
    BY <1>2 DEF Complete
<1>4. ASSUME NEW i \in Complete(b, n)
      PROVE  SubSeq(p, LastCut(p)[i - 1] + 1, i - LengthOf(i)) = EventAt(b, i)
  <2>1. PICK l \in {2, 4} : /\ LastCut(b)[i - 1] + l <= i
                            /\ l = IF SubSeq(b, i - 1, i) = <<LF, LF>> THEN 2 ELSE 4
    BY CompleteEnds
  <2>2. /\ i \in 1..n /\ i \in 2..Len(b) /\ LastCut(b)[i - 1] \in 0..(i - 1)
        /\ i - 1 \in 1..(n + 1) /\ i \in ((i - 1) - 1)..n /\ i - 1 \in 0..n
    BY CompleteEnds
  <2>3. SubSeq(p, i - 1, i) = SubSeq(b, i - 1, i)
    BY <2>2, SubSeqOfPrefix
  <2>4. LengthOf(i) = l
    BY <2>1, <2>3
  <2>5. /\ LastCut(b)[i - 1] + 1 \in 1..(n + 1)
        /\ i - l \in ((LastCut(b)[i - 1] + 1) - 1)..n
    BY <2>1, <2>2
  <2>6. SubSeq(p, LastCut(b)[i - 1] + 1, i - l) = SubSeq(b, LastCut(b)[i - 1] + 1, i - l)
    BY <2>5, SubSeqOfPrefix
  <2>7. EventAt(b, i) = SubSeq(b, LastCut(b)[i - 1] + 1, i - l)
    BY <2>1 DEF EventAt
  <2>8. LastCut(p)[i - 1] = LastCut(b)[i - 1]
    BY <1>2, <2>2
  <2> HIDE DEF LengthOf, p
  <2> QED
    BY <2>4, <2>6, <2>7, <2>8
<1> HIDE DEF LengthOf, p
<1>5. EventsOf(p) = [i \in Complete(b, n) |-> EventAt(b, i)]
  BY <1>1, <1>3, <1>4
<1> QED
  BY <1>5 DEF p

DocsAt(b, n) ==
  [i \in {j \in Complete(b, n) : Observed(EventAt(b, j)) # NULL} |-> Observed(EventAt(b, i))]

LEMMA DocsOfPrefix ==
  ASSUME NEW b \in Seq(Bytes), NEW n \in 0..Len(b)
  PROVE  /\ DocsOf(SubSeq(b, 1, n)) = DocsAt(b, n)
         /\ UnreadableIn(SubSeq(b, 1, n)) = {i \in Complete(b, n) : ~Readable(EventAt(b, i))}
<1> DEFINE p == SubSeq(b, 1, n)
           E == EventsOf(p)
<1>1. E = [i \in Complete(b, n) |-> EventAt(b, i)]
  BY EventsOfPrefix
<1>2. DocsOf(p) = [i \in {j \in DOMAIN E : Observed(E[j]) # NULL} |-> Observed(E[i])]
  BY DEF DocsOf
<1>3. UnreadableIn(p) = {i \in DOMAIN E : ~Readable(E[i])}
  BY DEF UnreadableIn
<1> HIDE DEF E, p
<1>4. {j \in DOMAIN E : Observed(E[j]) # NULL}
        = {j \in Complete(b, n) : Observed(EventAt(b, j)) # NULL}
  BY <1>1
<1>5. DocsOf(p) = DocsAt(b, n)
  BY <1>1, <1>2, <1>4 DEF DocsAt
<1>6. UnreadableIn(p) = {i \in Complete(b, n) : ~Readable(EventAt(b, i))}
  BY <1>1, <1>3
<1> QED
  BY <1>5, <1>6 DEF p

LEMMA NothingCompleted ==
  ASSUME NEW b \in Seq(Bytes), NEW c \in 0..Len(b), NEW m \in c..Len(b),
         \A k \in c..m : LastCut(b)[k] = c
  PROVE  Complete(b, m) = Complete(b, c)
<1>1. \A k \in 1..m : k \in 1..c \/ (k \in c..m /\ k # c)
  OBVIOUS
<1>2. \A k \in 1..c : k \in 1..m
  OBVIOUS
<1> QED
  BY <1>1, <1>2 DEF Complete

LEMMA OneCompleted ==
  ASSUME NEW b \in Seq(Bytes), NEW c \in 0..Len(b), NEW q \in (c + 1)..Len(b),
         LastCut(b)[q] = q, \A k \in c..(q - 1) : LastCut(b)[k] = c
  PROVE  Complete(b, q) = Complete(b, c) \cup {q} /\ q \notin Complete(b, c)
<1>1. \A k \in 1..q : k \in 1..c \/ k = q \/ (k \in c..(q - 1) /\ k # c)
  OBVIOUS
<1>2. (\A k \in 1..c : k \in 1..q) /\ q \in 1..q /\ q \notin 1..c
  OBVIOUS
<1> QED
  BY <1>1, <1>2 DEF Complete

-----------------------------------------------------------------------------
(* The observation                                                         *)

LEMMA Greatest ==
  ASSUME NEW c \in Nat, NEW T \in SUBSET (1..c), T # {}
  PROVE  Max(T) \in T /\ \A m \in T : Max(T) >= m
<1> DEFINE U == {c - i : i \in T}
<1>1. U \in SUBSET Nat /\ U # {}
  <2>1. \A i \in T : c - i \in Nat
    OBVIOUS
  <2> QED
    BY <2>1
<1>2. PICK u \in U : \A m \in U : u <= m
  BY <1>1, LeastNatural
<1>3. PICK i \in T : u = c - i
  BY <1>2
<1>4. \A m \in T : c - i <= c - m
  BY <1>2, <1>3
<1>5. \A m \in T : i >= m
  BY <1>4
<1> QED
  BY <1>3, <1>5 DEF Max

LEMMA MaxMinAdd ==
  ASSUME NEW c \in Nat, NEW T \in SUBSET (1..c), NEW q \in Nat, q > c
  PROVE  /\ Max(T \cup {q}) = q
         /\ Min(T \cup {q}) = IF T = {} THEN q ELSE Min(T)
<1> DEFINE U == T \cup {q}
<1>1. U \in SUBSET (1..q) /\ U \in SUBSET Nat /\ U # {} /\ q \in U /\ q \in Nat
  OBVIOUS
<1>2. Max(U) = q
  <2> HIDE DEF U
  <2>1. Max(U) \in U /\ \A m \in U : Max(U) >= m
    BY <1>1, Greatest
  <2>2. Max(U) \in 1..q /\ Max(U) >= q
    BY <1>1, <2>1
  <2> QED
    BY <2>2
<1>3. CASE T = {}
  <2>1. Min(U) \in U
    BY <1>1, LeastWindow
  <2> QED
    BY <1>2, <1>3, <2>1
<1>4. CASE T # {}
  <2>1. T \in SUBSET Nat /\ Min(T) \in T /\ \A m \in T : Min(T) <= m
    BY <1>4, LeastWindow
  <2>2. Min(U) \in U /\ \A m \in U : Min(U) <= m
    BY <1>1, LeastWindow
  <2>3. Min(U) <= Min(T) /\ Min(U) # q
    <3>1. Min(T) \in U /\ Min(T) \in 1..c
      BY <2>1
    <3>2. Min(U) <= Min(T)
      BY <2>2, <3>1
    <3> QED
      BY <3>1, <3>2
  <2>4. Min(U) \in T
    BY <2>2, <2>3
  <2>5. Min(T) <= Min(U)
    BY <2>1, <2>4
  <2>6. Min(U) = Min(T)
    <3>1. Min(T) \in Nat /\ Min(U) \in Nat
      BY <2>1, <2>4
    <3> QED
      BY <2>3, <2>5, <3>1
  <2> QED
    BY <1>2, <1>4, <2>6
<1> QED
  BY <1>3, <1>4

\* Where the chunks end, each behind the one before.
Ordered(e) ==
  /\ e \in Seq(Nat)
  /\ \A j, k \in 1..Len(e) : j < k => e[j] < e[k]

EndOf(e) == IF e = <<>> THEN 0 ELSE Last(e)

LEMMA ArrivalTyped ==
  ASSUME NEW e, Ordered(e), NEW i \in 1..EndOf(e)
  PROVE  /\ Arrival(e, i) \in 1..Len(e) /\ e[Arrival(e, i)] >= i
         /\ \A k \in 1..Len(e) : e[k] >= i => Arrival(e, i) <= k
<1> DEFINE T == {k \in DOMAIN e : e[k] >= i}
<1>1. e \in Seq(Nat) /\ DOMAIN e = 1..Len(e) /\ Len(e) \in Nat
  BY DEF Ordered
<1>2. e # <<>> /\ Len(e) \in 1..Len(e) /\ e[Len(e)] >= i
  BY <1>1 DEF EndOf, Last
<1>3. T \in SUBSET Nat /\ T # {}
  BY <1>1, <1>2
<1>4. Min(T) \in T /\ \A m \in T : Min(T) <= m
  BY <1>3, LeastWindow
<1>5. Arrival(e, i) = Min(T)
  BY DEF Arrival
<1> QED
  BY <1>1, <1>4, <1>5

\* A chunk more changes nothing for what was there, and brings the rest.
LEMMA ArrivalAppends ==
  ASSUME NEW e, Ordered(e), NEW n \in Nat, n > EndOf(e)
  PROVE  /\ Ordered(Append(e, n)) /\ EndOf(Append(e, n)) = n
         /\ \A i \in 1..EndOf(e) : Arrival(Append(e, n), i) = Arrival(e, i)
         /\ \A i \in (EndOf(e) + 1)..n : Arrival(Append(e, n), i) = Len(e) + 1
<1> DEFINE f == Append(e, n)
<1>1. e \in Seq(Nat) /\ Len(e) \in Nat
  BY DEF Ordered
<1>2. /\ f \in Seq(Nat) /\ Len(f) = Len(e) + 1 /\ f # <<>> /\ f[Len(e) + 1] = n
      /\ \A k \in 1..Len(e) : f[k] = e[k]
  BY <1>1, AppendProperties
<1>3. \A k \in 1..Len(e) : e[k] \in Nat /\ e[k] <= EndOf(e)
  <2> SUFFICES ASSUME NEW k \in 1..Len(e) PROVE e[k] \in Nat /\ e[k] <= EndOf(e)
    OBVIOUS
  <2>1. e # <<>> /\ Len(e) \in 1..Len(e) /\ EndOf(e) = e[Len(e)] /\ EndOf(e) \in Nat
    BY <1>1 DEF EndOf, Last
  <2>2. k < Len(e) => e[k] < e[Len(e)]
    BY <2>1 DEF Ordered
  <2> QED
    BY <1>1, <2>1, <2>2
<1>4. EndOf(e) \in Nat
  BY <1>1, <1>3 DEF EndOf, Last
<1> HIDE DEF f
<1>5. EndOf(f) = n
  BY <1>2 DEF EndOf, Last
<1>6. Ordered(f)
  <2> SUFFICES ASSUME NEW j \in 1..Len(f), NEW k \in 1..Len(f), j < k PROVE f[j] < f[k]
    BY <1>2 DEF Ordered
  <2>1. j \in 1..Len(e) /\ f[j] = e[j] /\ f[j] <= EndOf(e) /\ f[j] \in Nat
    BY <1>1, <1>2, <1>3
  <2>2. CASE k = Len(e) + 1
    BY <1>2, <1>4, <2>1, <2>2
  <2>3. CASE k # Len(e) + 1
    <3>1. k \in 1..Len(e)
      BY <1>1, <1>2, <2>3
    <3>2. f[k] = e[k]
      BY <1>2, <3>1
    <3> QED
      BY <2>1, <3>1, <3>2 DEF Ordered
  <2> QED
    BY <2>2, <2>3
<1>7. ASSUME NEW i \in 1..EndOf(e) PROVE Arrival(f, i) = Arrival(e, i)
  <2>1. /\ Arrival(e, i) \in 1..Len(e) /\ e[Arrival(e, i)] >= i
        /\ \A k \in 1..Len(e) : e[k] >= i => Arrival(e, i) <= k
    BY ArrivalTyped
  <2>2. i \in 1..EndOf(f)
    BY <1>4, <1>5
  <2>3. /\ Arrival(f, i) \in 1..Len(f) /\ f[Arrival(f, i)] >= i
        /\ \A k \in 1..Len(f) : f[k] >= i => Arrival(f, i) <= k
    BY <1>6, <2>2, ArrivalTyped
  <2>4. Arrival(f, i) <= Arrival(e, i)
    BY <1>1, <1>2, <2>1, <2>3
  <2>5. Arrival(f, i) \in 1..Len(e) /\ e[Arrival(f, i)] >= i
    BY <1>1, <1>2, <2>1, <2>3, <2>4
  <2> QED
    BY <1>1, <2>1, <2>4, <2>5
<1>8. ASSUME NEW i \in (EndOf(e) + 1)..n PROVE Arrival(f, i) = Len(e) + 1
  <2>1. i \in 1..EndOf(f)
    BY <1>4, <1>5
  <2>2. Arrival(f, i) \in 1..Len(f) /\ f[Arrival(f, i)] >= i
    BY <1>6, <2>1, ArrivalTyped
  <2>3. Arrival(f, i) \notin 1..Len(e)
    BY <1>2, <1>3, <1>4, <2>2
  <2> QED
    BY <1>1, <1>2, <2>2, <2>3
<1> QED
  BY <1>5, <1>6, <1>7, <1>8 DEF f

\* docs with one document more, read of an event that ends at q.
Extends(docs2, docs, c, q, d) ==
  /\ DOMAIN docs \in SUBSET (1..c)
  /\ DOMAIN docs2 = DOMAIN docs \cup {q} /\ docs2[q] = d
  /\ \A i \in DOMAIN docs : docs2[i] = docs[i]

\* The first and last of the documents of a kind, when d is not of that kind ...
LEMMA KindStays ==
  ASSUME NEW docs, NEW docs2, NEW c \in Nat, NEW q \in Nat, q > c, NEW d,
         Extends(docs2, docs, c, q, d), NEW T \in SUBSET DOMAIN docs, T # {}
  PROVE  /\ Max(T) \in T /\ Max(T) \in 1..c /\ docs2[Max(T)] = docs[Max(T)]
         /\ Min(T) \in T /\ Min(T) \in 1..c /\ docs2[Min(T)] = docs[Min(T)]
<1>1. T \in SUBSET (1..c) /\ T \in SUBSET Nat
  BY DEF Extends
<1>2. Max(T) \in T /\ Min(T) \in T
  BY <1>1, Greatest, LeastWindow
<1> QED
  BY <1>1, <1>2 DEF Extends

\* ... and when it is, so that they gain the one that ends at q.
Gains(T2, T, docs, q) == T \in SUBSET DOMAIN docs /\ T2 = T \cup {q}

LEMMA KindAdds ==
  ASSUME NEW docs, NEW docs2, NEW c \in Nat, NEW q \in Nat, q > c, NEW d,
         Extends(docs2, docs, c, q, d), NEW T, NEW T2, Gains(T2, T, docs, q)
  PROVE  /\ T2 # {} /\ Max(T2) = q /\ docs2[Max(T2)] = d
         /\ Min(T2) = IF T = {} THEN q ELSE Min(T)
         /\ docs2[Min(T2)] = IF T = {} THEN d ELSE docs[Min(T)]
<1>1. T \in SUBSET (1..c) /\ T \in SUBSET DOMAIN docs /\ T2 = T \cup {q}
  BY DEF Extends, Gains
<1>2. Max(T2) = q /\ Min(T2) = IF T = {} THEN q ELSE Min(T)
  BY <1>1, MaxMinAdd
<1>3. docs2[q] = d
  BY DEF Extends
<1>4. T # {} => docs2[Min(T)] = docs[Min(T)]
  BY <1>1, KindStays
<1> QED
  BY <1>1, <1>2, <1>3, <1>4

Models(docs) == {i \in DOMAIN docs : docs[i].model # NULL}
Counts(docs) == {i \in DOMAIN docs : docs[i].tokens # NULL}
Terminals(docs) == {i \in DOMAIN docs : docs[i].type \in Terminal}
Outputs(docs) == {i \in DOMAIN docs : docs[i].type \in Output /\ docs[i].delta}
Texts(docs) == {i \in Outputs(docs) : docs[i].type \in Text}

FirstArrival(e, T) == IF T = {} THEN NULL ELSE Arrival(e, Min(T))

LEMMA SummaryIs ==
  ASSUME NEW docs, NEW e
  PROVE  Summary(docs, e) =
    [model |-> IF Models(docs) = {} THEN NULL ELSE docs[Max(Models(docs))].model,
     tokens |-> IF Counts(docs) = {} THEN NULL ELSE docs[Max(Counts(docs))].tokens,
     outcome |-> IF Terminals(docs) = {} THEN NULL
                 ELSE OutcomeOf(docs[Max(Terminals(docs))].type),
     terminalAt |-> FirstArrival(e, Terminals(docs)),
     firstAt |-> FirstArrival(e, Outputs(docs)),
     firstKind |-> IF Outputs(docs) = {} THEN NULL ELSE docs[Min(Outputs(docs))].type,
     firstTextAt |-> FirstArrival(e, Texts(docs)),
     lastAt |-> IF Outputs(docs) = {} THEN NULL ELSE Arrival(e, Max(Outputs(docs)))]
BY DEF Summary, Models, Counts, Terminals, Outputs, Texts, FirstArrival

\* Observing one event more is reading one event more.
LEMMA SummaryAdds ==
  ASSUME NEW docs, NEW docs2, NEW c \in Nat, NEW q \in Nat, q > c, NEW d,
         Extends(docs2, docs, c, q, d), NEW e, Ordered(e), q <= EndOf(e)
  PROVE  Summary(docs2, e) = Observe(Summary(docs, e), d, Arrival(e, q))
<1> DEFINE s == Summary(docs, e)
           s2 == Summary(docs2, e)
           at0 == Arrival(e, q)
           terminal == d.type \in Terminal
           output == d.type \in Output /\ d.delta
<1>1. \A i \in 1..q : Arrival(e, i) # NULL
  <2>1. e \in Seq(Nat) /\ Len(e) \in Nat
    BY DEF Ordered
  <2>2. EndOf(e) \in Nat
    <3>1. e # <<>> => e[Len(e)] \in Nat
      BY <2>1
    <3> QED
      BY <3>1 DEF EndOf, Last
  <2>3. \A i \in 1..q : i \in 1..EndOf(e)
    BY <2>2
  <2>4. \A i \in 1..q : Arrival(e, i) \in Nat
    BY <2>1, <2>3, ArrivalTyped
  <2> QED
    BY <2>4, ObserverTyped
<1>2. (\A i \in 1..c : i \in 1..q) /\ q \in 1..q
  OBVIOUS
<1>3. \A i \in DOMAIN docs2 : (i \in DOMAIN docs /\ docs2[i] = docs[i]) \/ (i = q /\ docs2[i] = d)
  BY DEF Extends
<1>4. q \notin DOMAIN docs /\ q \in DOMAIN docs2 /\ DOMAIN docs \subseteq DOMAIN docs2
      /\ \A i \in DOMAIN docs : docs2[i] = docs[i]
  BY DEF Extends
<1>5. Observe(s, d, at0) =
        [model |-> IF d.model = NULL THEN s.model ELSE d.model,
         tokens |-> IF d.tokens = NULL THEN s.tokens ELSE d.tokens,
         outcome |-> IF terminal THEN OutcomeOf(d.type) ELSE s.outcome,
         terminalAt |-> IF terminal THEN (IF s.terminalAt = NULL THEN at0 ELSE s.terminalAt)
                        ELSE s.terminalAt,
         firstAt |-> IF output THEN (IF s.firstAt = NULL THEN at0 ELSE s.firstAt)
                     ELSE s.firstAt,
         firstKind |-> IF output /\ s.firstAt = NULL THEN d.type ELSE s.firstKind,
         firstTextAt |-> IF output /\ d.type \in Text
                         THEN (IF s.firstTextAt = NULL THEN at0 ELSE s.firstTextAt)
                         ELSE s.firstTextAt,
         lastAt |-> IF output THEN at0 ELSE s.lastAt]
  BY DEF Observe
<1>6. s2.model = IF d.model = NULL THEN s.model ELSE d.model
  <2> DEFINE T == Models(docs)
             T2 == Models(docs2)
  <2>1. T \in SUBSET DOMAIN docs /\ T2 = IF d.model # NULL THEN T \cup {q} ELSE T
    BY <1>3, <1>4 DEF Models
  <2>2. /\ s.model = IF T = {} THEN NULL ELSE docs[Max(T)].model
        /\ s2.model = IF T2 = {} THEN NULL ELSE docs2[Max(T2)].model
    BY SummaryIs
  <2> HIDE DEF T, T2, s, s2
  <2>3. CASE d.model = NULL
    BY <2>1, <2>2, <2>3, KindStays
  <2>4. CASE d.model # NULL
    <3>1. T2 = T \cup {q}
      BY <2>1, <2>4
    <3>2. Gains(T2, T, docs, q)
      BY <2>1, <3>1 DEF Gains
    <3>3. /\ T2 # {} /\ Max(T2) = q /\ docs2[Max(T2)] = d
          /\ Min(T2) = IF T = {} THEN q ELSE Min(T)
          /\ docs2[Min(T2)] = IF T = {} THEN d ELSE docs[Min(T)]
      BY <3>2, KindAdds
    <3> QED
      BY <2>2, <2>4, <3>3
  <2> QED
    BY <2>3, <2>4
<1>7. s2.tokens = IF d.tokens = NULL THEN s.tokens ELSE d.tokens
  <2> DEFINE T == Counts(docs)
             T2 == Counts(docs2)
  <2>1. T \in SUBSET DOMAIN docs /\ T2 = IF d.tokens # NULL THEN T \cup {q} ELSE T
    BY <1>3, <1>4 DEF Counts
  <2>2. /\ s.tokens = IF T = {} THEN NULL ELSE docs[Max(T)].tokens
        /\ s2.tokens = IF T2 = {} THEN NULL ELSE docs2[Max(T2)].tokens
    BY SummaryIs
  <2> HIDE DEF T, T2, s, s2
  <2>3. CASE d.tokens = NULL
    BY <2>1, <2>2, <2>3, KindStays
  <2>4. CASE d.tokens # NULL
    <3>1. T2 = T \cup {q}
      BY <2>1, <2>4
    <3>2. Gains(T2, T, docs, q)
      BY <2>1, <3>1 DEF Gains
    <3>3. /\ T2 # {} /\ Max(T2) = q /\ docs2[Max(T2)] = d
          /\ Min(T2) = IF T = {} THEN q ELSE Min(T)
          /\ docs2[Min(T2)] = IF T = {} THEN d ELSE docs[Min(T)]
      BY <3>2, KindAdds
    <3> QED
      BY <2>2, <2>4, <3>3
  <2> QED
    BY <2>3, <2>4
<1>8. /\ s2.outcome = IF terminal THEN OutcomeOf(d.type) ELSE s.outcome
      /\ s2.terminalAt = IF terminal THEN (IF s.terminalAt = NULL THEN at0 ELSE s.terminalAt)
                         ELSE s.terminalAt
  <2> DEFINE T == Terminals(docs)
             T2 == Terminals(docs2)
  <2>1. T \in SUBSET DOMAIN docs /\ T2 = IF terminal THEN T \cup {q} ELSE T
    BY <1>3, <1>4 DEF Terminals
  <2>2. /\ s.outcome = IF T = {} THEN NULL ELSE OutcomeOf(docs[Max(T)].type)
        /\ s2.outcome = IF T2 = {} THEN NULL ELSE OutcomeOf(docs2[Max(T2)].type)
        /\ s.terminalAt = IF T = {} THEN NULL ELSE Arrival(e, Min(T))
        /\ s2.terminalAt = IF T2 = {} THEN NULL ELSE Arrival(e, Min(T2))
    BY SummaryIs DEF FirstArrival
  <2> HIDE DEF T, T2, s, s2, terminal
  <2>3. T # {} => s.terminalAt # NULL
    BY <1>1, <1>2, <2>1, <2>2, KindStays
  <2>4. CASE ~terminal
    BY <2>1, <2>2, <2>4, KindStays
  <2>5. CASE terminal
    <3>1. T2 = T \cup {q}
      BY <2>1, <2>5
    <3>2. Gains(T2, T, docs, q)
      BY <2>1, <3>1 DEF Gains
    <3>3. /\ T2 # {} /\ Max(T2) = q /\ docs2[Max(T2)] = d
          /\ Min(T2) = IF T = {} THEN q ELSE Min(T)
          /\ docs2[Min(T2)] = IF T = {} THEN d ELSE docs[Min(T)]
      BY <3>2, KindAdds
    <3> QED
      BY <2>2, <2>5, <3>3, <2>3
  <2> QED
    BY <2>4, <2>5
<1>9. /\ s2.firstAt = IF output THEN (IF s.firstAt = NULL THEN at0 ELSE s.firstAt) ELSE s.firstAt
      /\ s2.firstKind = IF output /\ s.firstAt = NULL THEN d.type ELSE s.firstKind
      /\ s2.lastAt = IF output THEN at0 ELSE s.lastAt
  <2> DEFINE T == Outputs(docs)
             T2 == Outputs(docs2)
  <2>1. T \in SUBSET DOMAIN docs /\ T2 = IF output THEN T \cup {q} ELSE T
    BY <1>3, <1>4 DEF Outputs
  <2>2. /\ s.firstAt = IF T = {} THEN NULL ELSE Arrival(e, Min(T))
        /\ s2.firstAt = IF T2 = {} THEN NULL ELSE Arrival(e, Min(T2))
        /\ s.firstKind = IF T = {} THEN NULL ELSE docs[Min(T)].type
        /\ s2.firstKind = IF T2 = {} THEN NULL ELSE docs2[Min(T2)].type
        /\ s.lastAt = IF T = {} THEN NULL ELSE Arrival(e, Max(T))
        /\ s2.lastAt = IF T2 = {} THEN NULL ELSE Arrival(e, Max(T2))
    BY SummaryIs DEF FirstArrival
  <2> HIDE DEF T, T2, s, s2, output
  <2>3. T # {} => s.firstAt # NULL
    BY <1>1, <1>2, <2>1, <2>2, KindStays
  <2>4. CASE ~output
    BY <2>1, <2>2, <2>4, KindStays
  <2>5. CASE output
    <3>1. T2 = T \cup {q}
      BY <2>1, <2>5
    <3>2. Gains(T2, T, docs, q)
      BY <2>1, <3>1 DEF Gains
    <3>3. /\ T2 # {} /\ Max(T2) = q /\ docs2[Max(T2)] = d
          /\ Min(T2) = IF T = {} THEN q ELSE Min(T)
          /\ docs2[Min(T2)] = IF T = {} THEN d ELSE docs[Min(T)]
      BY <3>2, KindAdds
    <3> QED
      BY <2>2, <2>5, <3>3, <2>3
  <2> QED
    BY <2>4, <2>5
<1>10. s2.firstTextAt = IF output /\ d.type \in Text
                        THEN (IF s.firstTextAt = NULL THEN at0 ELSE s.firstTextAt)
                        ELSE s.firstTextAt
  <2> DEFINE T == Texts(docs)
             T2 == Texts(docs2)
             text == output /\ d.type \in Text
  <2>1. T \in SUBSET DOMAIN docs /\ T2 = IF text THEN T \cup {q} ELSE T
    BY <1>3, <1>4 DEF Texts, Outputs
  <2>2. /\ s.firstTextAt = IF T = {} THEN NULL ELSE Arrival(e, Min(T))
        /\ s2.firstTextAt = IF T2 = {} THEN NULL ELSE Arrival(e, Min(T2))
    BY SummaryIs DEF FirstArrival
  <2> HIDE DEF T, T2, s, s2, text
  <2>3. T # {} => s.firstTextAt # NULL
    BY <1>1, <1>2, <2>1, <2>2, KindStays
  <2>4. CASE ~text
    BY <2>1, <2>2, <2>4, KindStays DEF text
  <2>5. CASE text
    <3>1. T2 = T \cup {q}
      BY <2>1, <2>5
    <3>2. Gains(T2, T, docs, q)
      BY <2>1, <3>1 DEF Gains
    <3>3. /\ T2 # {} /\ Max(T2) = q /\ docs2[Max(T2)] = d
          /\ Min(T2) = IF T = {} THEN q ELSE Min(T)
          /\ docs2[Min(T2)] = IF T = {} THEN d ELSE docs[Min(T)]
      BY <3>2, KindAdds
    <3> QED
      BY <2>2, <2>5, <3>3, <2>3 DEF text
  <2> QED
    BY <2>4, <2>5
<1>11. s2 = [model |-> s2.model, tokens |-> s2.tokens, outcome |-> s2.outcome,
             terminalAt |-> s2.terminalAt, firstAt |-> s2.firstAt, firstKind |-> s2.firstKind,
             firstTextAt |-> s2.firstTextAt, lastAt |-> s2.lastAt]
  BY SummaryIs
<1> HIDE DEF s, s2, at0, terminal, output
<1>12. s2 = Observe(s, d, at0)
  BY <1>5, <1>6, <1>7, <1>8, <1>9, <1>10, <1>11
<1> QED
  BY <1>12 DEF s, s2, at0

\* A chunk more leaves the observation of what was there as it is.
LEMMA SummaryKeeps ==
  ASSUME NEW e, Ordered(e), NEW n \in Nat, n > EndOf(e),
         NEW docs, DOMAIN docs \in SUBSET (1..EndOf(e))
  PROVE  Summary(docs, Append(e, n)) = Summary(docs, e)
<1> DEFINE f == Append(e, n)
<1>1. EndOf(e) \in Nat
  <2>1. e \in Seq(Nat)
    BY DEF Ordered
  <2> QED
    BY <2>1 DEF EndOf, Last
<1>2. \A i \in 1..EndOf(e) : Arrival(f, i) = Arrival(e, i)
  BY ArrivalAppends
<1>3. \A T \in SUBSET DOMAIN docs : T # {} => Max(T) \in 1..EndOf(e) /\ Min(T) \in 1..EndOf(e)
  <2> TAKE T \in SUBSET DOMAIN docs
  <2> HAVE T # {}
  <2>1. T \in SUBSET (1..EndOf(e)) /\ T \in SUBSET Nat
    OBVIOUS
  <2>2. Max(T) \in T /\ Min(T) \in T
    BY <1>1, <2>1, Greatest, LeastWindow
  <2> QED
    BY <2>1, <2>2
<1> HIDE DEF f
<1>4. FirstArrival(f, Terminals(docs)) = FirstArrival(e, Terminals(docs))
  <2>1. Terminals(docs) \in SUBSET DOMAIN docs
    BY DEF Terminals
  <2> QED
    BY <1>2, <1>3, <2>1 DEF FirstArrival
<1>5. FirstArrival(f, Outputs(docs)) = FirstArrival(e, Outputs(docs))
      /\ (Outputs(docs) # {} => Arrival(f, Max(Outputs(docs))) = Arrival(e, Max(Outputs(docs))))
  <2>1. Outputs(docs) \in SUBSET DOMAIN docs
    BY DEF Outputs
  <2> QED
    BY <1>2, <1>3, <2>1 DEF FirstArrival
<1>6. FirstArrival(f, Texts(docs)) = FirstArrival(e, Texts(docs))
  <2>1. Texts(docs) \in SUBSET DOMAIN docs
    BY DEF Texts, Outputs
  <2> QED
    BY <1>2, <1>3, <2>1 DEF FirstArrival
<1>7. Summary(docs, f) = Summary(docs, e)
  BY <1>4, <1>5, <1>6, SummaryIs
<1> QED
  BY <1>7 DEF f

-----------------------------------------------------------------------------
(* The loop                                                                *)

\* No event of the first n bytes is unreadable; the one that ends at q is the
\* first that is.
Clean(b, n) == \A i \in Complete(b, n) : Readable(EventAt(b, i))
FirstBad(b, q) ==
  LastCut(b)[q] = q /\ ~Readable(EventAt(b, q)) /\ Clean(b, q - 1)

LEMMA DocsWithin ==
  ASSUME NEW b \in Seq(Bytes), NEW n \in 0..Len(b)
  PROVE  DOMAIN DocsAt(b, n) \in SUBSET (1..n)
BY DEF DocsAt, Complete

\* What an event more is read as.
LEMMA DocsStay ==
  ASSUME NEW b \in Seq(Bytes), NEW c \in 0..Len(b), NEW m \in c..Len(b),
         \A k \in c..m : LastCut(b)[k] = c
  PROVE  DocsAt(b, m) = DocsAt(b, c) /\ (Clean(b, m) <=> Clean(b, c))
BY NothingCompleted DEF DocsAt, Clean

LEMMA DocsAdd ==
  ASSUME NEW b \in Seq(Bytes), NEW c \in 0..Len(b), NEW q \in (c + 1)..Len(b),
         LastCut(b)[q] = q, \A k \in c..(q - 1) : LastCut(b)[k] = c
  PROVE  /\ Observed(EventAt(b, q)) = NULL => DocsAt(b, q) = DocsAt(b, c)
         /\ Observed(EventAt(b, q)) # NULL =>
              Extends(DocsAt(b, q), DocsAt(b, c), c, q, Observed(EventAt(b, q)))
         /\ Clean(b, c) /\ Readable(EventAt(b, q)) => Clean(b, q)
<1>1. Complete(b, q) = Complete(b, c) \cup {q} /\ q \notin Complete(b, c)
  BY OneCompleted
<1>2. Observed(EventAt(b, q)) = NULL => DocsAt(b, q) = DocsAt(b, c)
  <2> SUFFICES ASSUME Observed(EventAt(b, q)) = NULL PROVE DocsAt(b, q) = DocsAt(b, c)
    OBVIOUS
  <2>1. {j \in Complete(b, q) : Observed(EventAt(b, j)) # NULL}
          = {j \in Complete(b, c) : Observed(EventAt(b, j)) # NULL}
    BY <1>1
  <2> QED
    BY <2>1 DEF DocsAt
<1>3. ASSUME Observed(EventAt(b, q)) # NULL
      PROVE  Extends(DocsAt(b, q), DocsAt(b, c), c, q, Observed(EventAt(b, q)))
  <2>1. DOMAIN DocsAt(b, c) \in SUBSET (1..c)
    BY DocsWithin
  <2>2. {j \in Complete(b, q) : Observed(EventAt(b, j)) # NULL}
          = {j \in Complete(b, c) : Observed(EventAt(b, j)) # NULL} \cup {q}
    BY <1>1, <1>3
  <2> QED
    BY <2>1, <2>2 DEF DocsAt, Extends
<1>4. Clean(b, c) /\ Readable(EventAt(b, q)) => Clean(b, q)
  BY <1>1 DEF Clean
<1> QED
  BY <1>2, <1>3, <1>4

Finds(buffer, p, l) == FindEvent(buffer) = <<p, l>> /\ FindEvent(buffer) # NULL

\* What is drained of the bytes behind the cut c is the event that ends next.
LEMMA NextEvent ==
  ASSUME NEW b \in Seq(Bytes), NEW c \in 0..Len(b), NEW m \in c..Len(b), LastCut(b)[c] = c,
         NEW p \in Nat, NEW l \in Nat, Finds(SubSeq(b, c + 1, m), p, l)
  PROVE  /\ SubSeq(SubSeq(b, c + 1, m), 1, p) = EventAt(b, c + p + l)
         /\ SubSeq(SubSeq(b, c + 1, m), p + l + 1, Len(SubSeq(b, c + 1, m)))
              = SubSeq(b, c + p + l + 1, m)
<1> DEFINE q == c + p + l
<1>1. /\ q \in (c + 1)..m /\ l \in {2, 4} /\ LastCut(b)[q] = q
      /\ \A k \in c..(q - 1) : LastCut(b)[k] = c
      /\ (l = 2) <=> LfLfAt(b, q - 1)
  BY FoundFirst DEF Finds
<1>2. Len(b) \in Nat /\ q \in 1..Len(b) /\ c + 2 <= q /\ q \in Nat /\ q - 1 \in c..(q - 1)
  BY <1>1
<1>3. q \in Complete(b, Len(b))
  BY <1>1, <1>2 DEF Complete
<1>4. SubSeq(b, q - 1, q) = <<LF, LF>> <=> LfLfAt(b, q - 1)
  <2> HIDE DEF q
  <2> QED
    BY <1>2, <1>3, CompleteEnds
<1>5. LastCut(b)[q - 1] = c
  BY <1>1, <1>2
<1>6. l = IF SubSeq(b, q - 1, q) = <<LF, LF>> THEN 2 ELSE 4
  BY <1>1, <1>4
<1>7. q - l = c + p
  BY <1>2
<1>8. EventAt(b, q) = SubSeq(b, c + 1, c + p)
  <2> HIDE DEF q
  <2> QED
    BY <1>5, <1>6, <1>7 DEF EventAt
<1>9. SubSeq(SubSeq(b, c + 1, m), 1, p) = SubSeq(b, c + 1, c + p)
  <2>1. 1 \in 1..(m - c + 1) /\ p \in (1 - 1)..(m - c)
    BY <1>1
  <2> QED
    BY <2>1, SubSeqOf
<1>10. SubSeq(SubSeq(b, c + 1, m), p + l + 1, Len(SubSeq(b, c + 1, m)))
         = SubSeq(b, q + 1, m)
  <2>1. p + l + 1 \in 1..(m - c + 1) /\ m - c \in ((p + l + 1) - 1)..(m - c)
    BY <1>1
  <2>2. /\ SubSeq(SubSeq(b, c + 1, m), p + l + 1, m - c) = SubSeq(b, c + (p + l + 1), c + (m - c))
        /\ Len(SubSeq(b, c + 1, m)) = m - c
    BY <2>1, SubSeqOf
  <2>3. c + (p + l + 1) = q + 1 /\ c + (m - c) = m
    BY <1>2
  <2> QED
    BY <2>2, <2>3
<1> QED
  BY <1>8, <1>9, <1>10

\* An observer with m bytes of b behind it, chunks that ended at e: everything up
\* to the cut c is observed, the rest is kept ...
Observes(o, b, e, m, c) ==
  /\ ~o.failed
  /\ c \in 0..m /\ LastCut(b)[c] = c
  /\ o.buffer = SubSeq(b, c + 1, m)
  /\ o.seen = Summary(DocsAt(b, c), e) /\ Clean(b, c)

\* ... or there is an event that ends behind r and that it could not read.
Rejects(o, b, e, r, m) ==
  /\ o.failed
  /\ \E q \in (r + 1)..m : FirstBad(b, q) /\ o.seen = Summary(DocsAt(b, q - 1), e)

\* A round of the loop, while bytes r + 1 to m arrive with chunk k.
LEMMA TakeOne ==
  ASSUME NEW b \in Seq(Bytes), NEW r \in 0..Len(b), NEW m \in r..Len(b), NEW k \in Nat,
         NEW e, Ordered(e), EndOf(e) = m, \A i \in (r + 1)..m : Arrival(e, i) = k,
         NEW c \in 0..m, c >= LastCut(b)[r],
         NEW o \in Observers, Observes(o, b, e, m, c)
  PROVE  \/ Rejects(TakeEvent(o, k), b, e, r, m)
         \/ LastCut(b)[m] = c /\ TakeEvent(o, k) = o
         \/ \E q \in (c + 1)..m : Observes(TakeEvent(o, k), b, e, m, q)
<1> DEFINE found == FindEvent(o.buffer)
<1>1. ~o.failed /\ LastCut(b)[c] = c /\ o.buffer = SubSeq(b, c + 1, m)
      /\ o.seen = Summary(DocsAt(b, c), e) /\ Clean(b, c)
  BY DEF Observes
<1>2. Len(b) \in Nat /\ c \in 0..Len(b) /\ m \in c..Len(b) /\ m \in 0..Len(b)
  OBVIOUS
<1>3. CASE found = NULL
  <2>1. \A i \in c..m : LastCut(b)[i] = c
    BY <1>1, <1>2, <1>3, FoundNone
  <2>2. m \in c..m
    OBVIOUS
  <2>3. TakeEvent(o, k) = o
    BY <1>3 DEF TakeEvent
  <2> QED
    BY <2>1, <2>2, <2>3
<1>4. CASE found # NULL
  <2> DEFINE p == found[1]
             l == found[2]
             q == c + p + l
             event == SubSeq(o.buffer, 1, p)
             rest == [o EXCEPT !.buffer = SubSeq(@, p + l + 1, Len(@))]
             d == Observed(EventAt(b, q))
  <2>1. p \in Nat /\ l \in Nat /\ found = <<p, l>>
    <3>1. o.buffer \in Seq(Bytes)
      BY DEF Observers
    <3>2. p \in Nat /\ l \in {2, 4}
      BY <1>4, <3>1, FindEventFacts
    <3>3. found = <<p, l>>
      BY <1>4 DEF FindEvent
    <3> QED
      BY <3>2, <3>3
  <2>2. /\ q \in (c + 1)..m /\ LastCut(b)[q] = q
        /\ \A i \in c..(q - 1) : LastCut(b)[i] = c
    <3> HIDE DEF p, l
    <3> QED
      BY <1>1, <1>2, <1>4, <2>1, FoundFirst
  <2>3. event = EventAt(b, q) /\ rest.buffer = SubSeq(b, q + 1, m)
    <3>1. /\ SubSeq(o.buffer, 1, p) = EventAt(b, q)
          /\ SubSeq(o.buffer, p + l + 1, Len(o.buffer)) = SubSeq(b, q + 1, m)
      <4> DEFINE buffer == SubSeq(b, c + 1, m)
      <4>1. Finds(buffer, p, l)
        BY <1>1, <1>4, <2>1 DEF Finds
      <4> HIDE DEF p, l
      <4>2. ASSUME NEW x \in Nat, NEW y \in Nat, Finds(buffer, x, y)
            PROVE  /\ SubSeq(buffer, 1, x) = EventAt(b, c + x + y)
                   /\ SubSeq(buffer, x + y + 1, Len(buffer)) = SubSeq(b, c + x + y + 1, m)
        <5>1. b \in Seq(Bytes) /\ c \in 0..Len(b) /\ m \in c..Len(b) /\ LastCut(b)[c] = c
          BY <1>1, <1>2
        <5>2. Finds(SubSeq(b, c + 1, m), x, y)
          BY <4>2
        <5> HIDE DEF buffer
        <5>3. /\ SubSeq(SubSeq(b, c + 1, m), 1, x) = EventAt(b, c + x + y)
              /\ SubSeq(SubSeq(b, c + 1, m), x + y + 1, Len(SubSeq(b, c + 1, m)))
                   = SubSeq(b, c + x + y + 1, m)
          BY ONLY <5>1, <5>2, x \in Nat, y \in Nat, NextEvent, Zenon
        <5> QED
          BY <5>3 DEF buffer
      <4> QED
        BY <1>1, <2>1, <4>1, <4>2
    <3>2. rest.buffer = SubSeq(o.buffer, p + l + 1, Len(o.buffer))
      BY DEF Observers
    <3> QED
      BY <3>1, <3>2
  <2>4. rest.seen = o.seen /\ rest.failed = FALSE /\ rest \in [buffer : {rest.buffer}, failed : BOOLEAN, seen : Seen]
    BY <1>1 DEF Observers
  <2>5. TakeEvent(o, k) = Event(rest, EventAt(b, q), k)
    BY <1>1, <1>4, <2>3 DEF TakeEvent
  <2> HIDE DEF p, l, q, event, rest, d, found
  <2>6. q \in (c + 1)..Len(b) /\ q \in 1..m /\ q \in Nat /\ q > c /\ c \in Nat
        /\ q - 1 \in c..Len(b) /\ c \in 0..q
    BY <1>2, <2>2
  <2>7. q \in (r + 1)..m
    <3>1. CASE q <= r
      <4>1. q \in 0..Len(b) /\ r \in q..Len(b)
        BY <2>6, <3>1
      <4>2. LastCut(b)[r] = LastCut(b)[q] \/ LastCut(b)[r] > q
        BY <4>1, CutMoves
      <4>3. LastCut(b)[r] \in 0..r
        BY CutFacts
      <4> QED
        BY <2>2, <2>6, <4>2, <4>3
    <3> QED
      BY <2>6, <3>1
  <2>8. Arrival(e, q) = k /\ q <= EndOf(e)
    BY <2>7
  <2>9. CASE ~Readable(EventAt(b, q))
    <3>1. TakeEvent(o, k).failed = TRUE /\ TakeEvent(o, k).seen = o.seen
      BY <2>4, <2>5, <2>9 DEF Event
    <3>2. DocsAt(b, q - 1) = DocsAt(b, c) /\ Clean(b, q - 1)
      <4>1. \A i \in c..(q - 1) : LastCut(b)[i] = c
        BY <2>2
      <4> QED
        BY <1>1, <1>2, <2>6, <4>1, DocsStay
    <3>3. FirstBad(b, q)
      BY <2>2, <2>9, <3>2 DEF FirstBad
    <3> QED
      BY <1>1, <2>7, <3>1, <3>2, <3>3 DEF Rejects
  <2>10. CASE Readable(EventAt(b, q))
    <3>1. Clean(b, q) /\ (d = NULL => DocsAt(b, q) = DocsAt(b, c))
          /\ (d # NULL => Extends(DocsAt(b, q), DocsAt(b, c), c, q, d))
      BY <1>1, <1>2, <2>2, <2>6, <2>10, DocsAdd DEF d
    <3>2. CASE d = NULL
      <4>1. TakeEvent(o, k) = rest
        BY <2>5, <2>10, <3>2 DEF Event, d
      <4>2. Observes(rest, b, e, m, q)
        BY <1>1, <2>2, <2>3, <2>4, <2>6, <3>1, <3>2 DEF Observes
      <4> QED
        BY <2>2, <4>1, <4>2
    <3>3. CASE d # NULL
      <4>1. TakeEvent(o, k) = [rest EXCEPT !.seen = Observe(@, d, k)]
        BY <2>5, <2>10, <3>3 DEF Event, d
      <4>2. /\ TakeEvent(o, k).failed = FALSE /\ TakeEvent(o, k).buffer = rest.buffer
            /\ TakeEvent(o, k).seen = Observe(o.seen, d, k)
        BY <2>4, <4>1
      <4>3. Summary(DocsAt(b, q), e) = Observe(Summary(DocsAt(b, c), e), d, Arrival(e, q))
        BY <2>6, <2>8, <3>1, <3>3, SummaryAdds
      <4>4. Observes(TakeEvent(o, k), b, e, m, q)
        BY <1>1, <2>2, <2>3, <2>6, <2>8, <3>1, <4>2, <4>3 DEF Observes
      <4> QED
        BY <2>2, <4>4
    <3> QED
      BY <3>2, <3>3
  <2> QED
    BY <2>9, <2>10
<1> QED
  BY <1>3, <1>4

LEMMA TakeAll ==
  ASSUME NEW b \in Seq(Bytes), NEW r \in 0..Len(b), NEW m \in r..Len(b), NEW k \in Nat,
         NEW e, Ordered(e), EndOf(e) = m, \A i \in (r + 1)..m : Arrival(e, i) = k,
         NEW o \in Observers, Observes(o, b, e, m, LastCut(b)[r])
  PROVE  \/ Rejects(TakeEvents(o, k), b, e, r, m)
         \/ Observes(TakeEvents(o, k), b, e, m, LastCut(b)[m])
<1> DEFINE n == Len(o.buffer)
           c0 == LastCut(b)[r]
           Went(x, i) == \/ Rejects(x, b, e, r, m)
                         \/ \E c \in 0..m : /\ Observes(x, b, e, m, c) /\ c >= c0
                                            /\ c = LastCut(b)[m] \/ c >= c0 + i
<1>1. Len(b) \in Nat /\ m \in 0..Len(b) /\ c0 \in 0..r /\ c0 \in 0..m /\ c0 \in Nat
  BY CutFacts
<1>2. n = m - c0
  <2>1. c0 + 1 \in 1..(Len(b) + 1) /\ m \in ((c0 + 1) - 1)..Len(b)
    BY <1>1
  <2>2. Len(SubSeq(b, c0 + 1, m)) = m - (c0 + 1) + 1
    BY <2>1, SubSeqElements
  <2>3. o.buffer = SubSeq(b, c0 + 1, m)
    BY DEF Observes
  <2> HIDE DEF c0
  <2> QED
    BY <1>1, <2>2, <2>3
<1>3. n \in Nat
  BY <1>1, <1>2
<1>4. PICK f \in [0..n -> Observers] :
        /\ f[0] = o /\ TakeEvents(o, k) = f[n]
        /\ \A i \in 1..n : f[i] = TakeEvent(f[i - 1], k)
  BY Rounds
<1> HIDE DEF n, c0
<1>5. Went(f[0], 0)
  <2>1. Observes(f[0], b, e, m, c0) /\ c0 \in 0..m /\ c0 >= c0 /\ c0 >= c0 + 0
    BY <1>1, <1>4 DEF c0
  <2> QED
    BY <2>1
<1>6. ASSUME NEW i \in Nat, i + 1 \in 0..n, Went(f[i], i) PROVE Went(f[i + 1], i + 1)
  <2>1. i \in 0..n /\ i + 1 \in 1..n /\ (i + 1) - 1 = i
    BY <1>3, <1>6
  <2>2. f[i + 1] = TakeEvent(f[i], k) /\ f[i] \in Observers
    BY <1>4, <2>1
  <2>3. CASE Rejects(f[i], b, e, r, m)
    <3>1. TakeEvent(f[i], k) = f[i]
      BY <2>3 DEF Rejects, TakeEvent
    <3> QED
      BY <2>2, <2>3, <3>1
  <2>4. CASE ~Rejects(f[i], b, e, r, m)
    <3>1. PICK c \in 0..m : /\ Observes(f[i], b, e, m, c) /\ c >= c0
                            /\ c = LastCut(b)[m] \/ c >= c0 + i
      BY <1>6, <2>4
    <3>2. \/ Rejects(f[i + 1], b, e, r, m)
          \/ LastCut(b)[m] = c /\ f[i + 1] = f[i]
          \/ \E q \in (c + 1)..m : Observes(f[i + 1], b, e, m, q)
      BY <2>2, <3>1, TakeOne DEF c0
    <3>3. CASE Rejects(f[i + 1], b, e, r, m)
      BY <3>3
    <3>4. CASE LastCut(b)[m] = c /\ f[i + 1] = f[i]
      BY <3>1, <3>4
    <3>5. CASE \E q \in (c + 1)..m : Observes(f[i + 1], b, e, m, q)
      <4>1. PICK q \in (c + 1)..m : Observes(f[i + 1], b, e, m, q)
        BY <3>5
      <4>2. CASE c >= c0 + i
        <5>1. q \in 0..m /\ q >= c0 /\ q >= c0 + (i + 1)
          BY <1>1, <3>1, <4>2
        <5> QED
          BY <4>1, <5>1
      <4>3. CASE c = LastCut(b)[m]
        <5>1. q \in 0..Len(b) /\ m \in q..Len(b) /\ LastCut(b)[q] = q
          BY <1>1, <4>1 DEF Observes
        <5>2. LastCut(b)[m] = q \/ LastCut(b)[m] > q
          BY <5>1, CutMoves
        <5> QED
          BY <4>3, <5>2
      <4> QED
        BY <3>1, <4>2, <4>3
    <3> QED
      BY <3>2, <3>3, <3>4, <3>5
  <2> QED
    BY <2>3, <2>4
<1>7. Went(f[n], n)
  <2> DEFINE T == {i \in Nat : i \in 0..n => Went(f[i], i)}
  <2> HIDE DEF Went
  <2>1. 0 \in T
    BY <1>5
  <2>2. ASSUME NEW i \in Nat, i \in T PROVE i + 1 \in T
    <3>1. i + 1 \in 0..n => i \in 0..n
      BY <1>3
    <3> QED
      BY <1>6, <2>2, <3>1
  <2> HIDE DEF T
  <2>3. Nat \subseteq T
    BY <2>1, <2>2, SetInduction
  <2>4. n \in T /\ n \in 0..n
    BY <1>3, <2>3
  <2> QED
    BY <2>4 DEF T
<1>8. CASE Rejects(f[n], b, e, r, m)
  BY <1>4, <1>8
<1>9. ASSUME NEW c \in 0..m, Observes(f[n], b, e, m, c), c = LastCut(b)[m] \/ c >= c0 + n
      PROVE  Observes(f[n], b, e, m, LastCut(b)[m])
  <2>1. CASE c = LastCut(b)[m]
    BY <1>9, <2>1
  <2>2. CASE c >= c0 + n
    <3>1. c = m
      BY <1>1, <1>2, <2>2
    <3>2. LastCut(b)[c] = c
      BY <1>9 DEF Observes
    <3> QED
      BY <1>9, <3>1, <3>2
  <2> QED
    BY <1>9, <2>1, <2>2
<1> QED
  BY <1>4, <1>7, <1>8, <1>9

\* Feeding the chunk of bytes r + 1 to n.
LEMMA FeedObserves ==
  ASSUME NEW b \in Seq(Bytes), NEW e, Ordered(e), NEW n \in (EndOf(e) + 1)..Len(b),
         EndOf(e) \in 0..Len(b),
         NEW o \in Observers, Observes(o, b, e, EndOf(e), LastCut(b)[EndOf(e)])
  PROVE  LET f == Append(e, n)
             fed == Feed(o, SubSeq(b, EndOf(e) + 1, n), Len(e) + 1)
         IN \/ Observes(fed, b, f, n, LastCut(b)[n]) /\ n - LastCut(b)[n] <= EventLimit
            \/ Rejects(fed, b, f, EndOf(e), n)
            \/ /\ fed.failed /\ n - LastCut(b)[n] > EventLimit
               /\ Clean(b, n) /\ fed.seen = Summary(DocsAt(b, n), f)
<1> DEFINE r == EndOf(e)
           f == Append(e, n)
           c == LastCut(b)[r]
           k == Len(e) + 1
           chunk == SubSeq(b, r + 1, n)
           whole == [o EXCEPT !.buffer = @ \o chunk]
           rest == TakeEvents(whole, k)
           cut == LastCut(b)[n]
<1>1. r \in 0..Len(b) /\ n \in r..Len(b) /\ n \in Nat /\ n > r /\ n \in 0..Len(b)
  OBVIOUS
<1>2. c \in 0..r /\ cut \in 0..n
  BY <1>1, CutFacts
<1>3. /\ Ordered(f) /\ EndOf(f) = n /\ \A i \in (r + 1)..n : Arrival(f, i) = k
  BY <1>1, ArrivalAppends
<1>4. k \in Nat
  BY DEF Ordered
<1>5. ~o.failed /\ LastCut(b)[c] = c /\ o.buffer = SubSeq(b, c + 1, r)
      /\ o.seen = Summary(DocsAt(b, c), e) /\ Clean(b, c)
  BY DEF Observes
<1>6. /\ chunk \in Seq(Bytes) /\ Len(chunk) = n - r
      /\ \A i \in 1..(n - r) : chunk[i] = b[r + i]
  <2>1. r + 1 \in 1..(Len(b) + 1) /\ n \in ((r + 1) - 1)..Len(b)
    BY <1>1
  <2>2. /\ SubSeq(b, r + 1, n) \in Seq(Bytes) /\ Len(SubSeq(b, r + 1, n)) = n - (r + 1) + 1
        /\ \A i \in 1..(n - (r + 1) + 1) : SubSeq(b, r + 1, n)[i] = b[(r + 1) + i - 1]
    <3> HIDE DEF r
    <3> QED
      BY <2>1, SubSeqElements
  <2> HIDE DEF r
  <2> QED
    BY <1>1, <2>2
<1>7. o.buffer \o chunk = SubSeq(b, c + 1, n)
  <2> DEFINE x == SubSeq(b, c + 1, r)
             y == SubSeq(b, c + 1, n)
  <2>1. c + 1 \in 1..(Len(b) + 1) /\ r \in ((c + 1) - 1)..Len(b) /\ n \in ((c + 1) - 1)..Len(b)
    BY <1>1, <1>2
  <2>2. /\ x \in Seq(Bytes) /\ Len(x) = r - c
        /\ \A i \in 1..(r - c) : x[i] = b[c + i]
    <3>1. /\ SubSeq(b, c + 1, r) \in Seq(Bytes) /\ Len(SubSeq(b, c + 1, r)) = r - (c + 1) + 1
          /\ \A i \in 1..(r - (c + 1) + 1) : SubSeq(b, c + 1, r)[i] = b[(c + 1) + i - 1]
      <4> HIDE DEF r, c
      <4> QED
        BY <2>1, SubSeqElements
    <3> HIDE DEF r, c
    <3> QED
      BY <1>1, <1>2, <3>1
  <2>3. /\ y \in Seq(Bytes) /\ Len(y) = n - c
        /\ \A i \in 1..(n - c) : y[i] = b[c + i]
    <3>1. /\ SubSeq(b, c + 1, n) \in Seq(Bytes) /\ Len(SubSeq(b, c + 1, n)) = n - (c + 1) + 1
          /\ \A i \in 1..(n - (c + 1) + 1) : SubSeq(b, c + 1, n)[i] = b[(c + 1) + i - 1]
      <4> HIDE DEF r, c
      <4> QED
        BY <2>1, SubSeqElements
    <3> HIDE DEF r, c
    <3> QED
      BY <1>1, <1>2, <3>1
  <2>4. r \in Nat /\ c \in Nat /\ n \in Nat /\ c <= r /\ r <= n
    BY <1>1, <1>2
  <2> HIDE DEF r, c, chunk, x, y
  <2>5. x \o chunk \in Seq(Bytes) /\ Len(x \o chunk) = n - c
    <3>1. x \o chunk \in Seq(Bytes) /\ Len(x \o chunk) = Len(x) + Len(chunk)
      BY <1>6, <2>2, ConcatProperties
    <3> QED
      BY <1>6, <2>2, <2>4, <3>1
  <2>6. \A i \in 1..(n - c) : (x \o chunk)[i] = y[i]
    <3> TAKE i \in 1..(n - c)
    <3>1. CASE i <= r - c
      BY <1>6, <2>2, <2>3, <2>4, <3>1
    <3>2. CASE i > r - c
      <4>1. i - (r - c) \in 1..(n - r) /\ r + (i - (r - c)) = c + i
        BY <2>4, <3>2
      <4>2. (x \o chunk)[i] = chunk[i - (r - c)]
        BY <1>6, <2>2, <2>4, <3>2
      <4> QED
        BY <1>6, <2>3, <4>1, <4>2
    <3>3. i <= r - c \/ i > r - c
      BY <2>4
    <3> QED
      BY <3>1, <3>2, <3>3
  <2>7. x \o chunk = y
    BY <2>3, <2>4, <2>5, <2>6, SeqEqual
  <2> QED
    BY <1>5, <2>7 DEF x, y
<1>8. whole \in Observers /\ whole.failed = FALSE /\ whole.seen = o.seen
      /\ whole.buffer = SubSeq(b, c + 1, n)
  <2>1. SubSeq(b, c + 1, n) \in Seq(Bytes)
    <3>1. o.buffer \in Seq(Bytes)
      BY DEF Observers
    <3> HIDE DEF chunk
    <3> QED
      BY <1>6, <1>7, <3>1, ConcatProperties
  <2> HIDE DEF chunk
  <2> QED
    BY <1>5, <1>7, <2>1 DEF Observers
<1>9. Observes(whole, b, f, n, c)
  <2>1. DOMAIN DocsAt(b, c) \in SUBSET (1..EndOf(e))
    <3>1. c \in 0..Len(b) /\ \A i \in 1..c : i \in 1..r
      BY <1>1, <1>2
    <3>2. DOMAIN DocsAt(b, c) \in SUBSET (1..c)
      BY <3>1, DocsWithin
    <3> QED
      BY <3>1, <3>2
  <2>2. Summary(DocsAt(b, c), f) = Summary(DocsAt(b, c), e)
    <3> HIDE DEF c
    <3> QED
      BY <1>1, <2>1, SummaryKeeps
  <2>3. c \in 0..n
    BY <1>1, <1>2
  <2> HIDE DEF c, f, whole, r
  <2> QED
    BY <1>5, <1>8, <2>2, <2>3 DEF Observes
<1>10. \/ Rejects(rest, b, f, r, n)
       \/ Observes(rest, b, f, n, cut)
  <2> HIDE DEF r, f, whole, k
  <2> QED
    BY <1>1, <1>3, <1>4, <1>8, <1>9, TakeAll
<1>11. rest \in Observers
  BY <1>4, <1>8, TakeEventsTyped
<1>12. Feed(o, chunk, k) = IF rest.failed \/ Len(rest.buffer) > EventLimit THEN GiveUp(rest) ELSE rest
  BY <1>5 DEF Feed
<1>13. GiveUp(rest).failed = TRUE /\ GiveUp(rest).seen = rest.seen
  BY <1>11 DEF GiveUp, Observers
<1>14. CASE Rejects(rest, b, f, r, n)
  <2> HIDE DEF r, f, rest
  <2> QED
    BY <1>12, <1>13, <1>14 DEF Rejects, r, f
<1>15. CASE Observes(rest, b, f, n, cut)
  <2>1. Len(rest.buffer) = n - cut
    <3>1. cut + 1 \in 1..(Len(b) + 1) /\ n \in ((cut + 1) - 1)..Len(b)
      BY <1>1, <1>2
    <3>2. Len(SubSeq(b, cut + 1, n)) = n - (cut + 1) + 1
      BY <3>1, SubSeqElements
    <3> HIDE DEF cut, rest
    <3> QED
      BY <1>1, <1>2, <1>15, <3>2 DEF Observes
  <2>2. CASE n - cut > EventLimit
    <3>1. \A i \in cut..n : LastCut(b)[i] = cut
      BY <1>1, CutStays
    <3>2. DocsAt(b, n) = DocsAt(b, cut) /\ (Clean(b, n) <=> Clean(b, cut))
      <4>1. cut \in 0..Len(b) /\ n \in cut..Len(b)
        BY <1>1, <1>2
      <4> HIDE DEF cut
      <4> QED
        BY <3>1, <4>1, DocsStay
    <3> HIDE DEF rest, cut, f
    <3> QED
      BY <1>12, <1>13, <1>15, <2>1, <2>2, <3>2 DEF Observes, cut, f
  <2>3. CASE n - cut <= EventLimit
    <3> HIDE DEF rest, f
    <3>1. ~rest.failed /\ ~(Len(rest.buffer) > EventLimit)
      BY <1>1, <1>2, <1>15, <2>1, <2>3, ObserverTyped DEF Observes
    <3> QED
      BY <1>12, <1>15, <2>3, <3>1 DEF f
  <2> QED
    BY <1>1, <1>2, <2>2, <2>3, ObserverTyped
<1> QED
  BY <1>10, <1>14, <1>15

\* What is observed up to the last cut is all that is to observe.
LEMMA ObservesAll ==
  ASSUME NEW b \in Seq(Bytes), NEW n \in 0..Len(b), NEW e, NEW o
  PROVE  Observes(o, b, e, n, LastCut(b)[n]) <=>
           /\ ~o.failed /\ o.buffer = SubSeq(b, LastCut(b)[n] + 1, n)
           /\ o.seen = Summary(DocsAt(b, n), e) /\ Clean(b, n)
<1> DEFINE cut == LastCut(b)[n]
<1>1. cut \in 0..n /\ LastCut(b)[cut] = cut /\ \A i \in cut..n : LastCut(b)[i] = cut
  BY CutFacts, CutStays
<1>2. DocsAt(b, n) = DocsAt(b, cut) /\ (Clean(b, n) <=> Clean(b, cut))
  <2>1. cut \in 0..Len(b) /\ n \in cut..Len(b)
    BY <1>1
  <2> HIDE DEF cut
  <2> QED
    BY <1>1, <2>1, DocsStay
<1> HIDE DEF cut
<1>3. Observes(o, b, e, n, cut) <=>
        /\ ~o.failed /\ o.buffer = SubSeq(b, cut + 1, n)
        /\ o.seen = Summary(DocsAt(b, n), e) /\ Clean(b, n)
  BY <1>1, <1>2 DEF Observes
<1> QED
  BY <1>3 DEF cut

-----------------------------------------------------------------------------
(* What is known of an observer, chunk after chunk                         *)

\* More than the limit was kept when chunk k of e had arrived.
LongAfter(b, e, k) == e[k] - LastCut(b)[e[k]] > EventLimit

\* What it gave up for, which of several causes came first, and what it had
\* observed until then.
RejectedFirst(b, o, e) ==
  \E q \in 1..EndOf(e) :
    /\ FirstBad(b, q)
    /\ \A k \in 1..Len(e) : LongAfter(b, e, k) => Arrival(e, q) <= k
    /\ o.seen = Summary(DocsAt(b, q - 1), e)

OverflowedFirst(b, o, e) ==
  \E j \in 1..Len(e) :
    /\ LongAfter(b, e, j) /\ \A k \in 1..(j - 1) : ~LongAfter(b, e, k)
    /\ o.seen = Summary(DocsAt(b, e[j]), e)

EndedInside(b, o, e) ==
  LastCut(b)[EndOf(e)] < EndOf(e) /\ o.seen = Summary(DocsAt(b, EndOf(e)), e)

Faithful(b, o, e) ==
  /\ o.seen = Summary(DocsAt(b, EndOf(e)), e) /\ Clean(b, EndOf(e))
  /\ \A k \in 1..Len(e) : ~LongAfter(b, e, k)

Keeps(b, o, e) == o.buffer = SubSeq(b, LastCut(b)[EndOf(e)] + 1, EndOf(e))

Caused(b, o, e, why) ==
  \/ RejectedFirst(b, o, e)
  \/ OverflowedFirst(b, o, e)
  \/ why = "eof" /\ EndedInside(b, o, e)

LEMMA EndsFacts ==
  ASSUME NEW b \in Seq(Bytes), NEW e \in Seq(1..Len(b)), Ordered(e)
  PROVE  /\ EndOf(e) \in 0..Len(b) /\ Len(e) \in Nat
         /\ \A k \in 1..Len(e) : e[k] \in 1..EndOf(e)
<1>1. CASE e = <<>>
  BY <1>1 DEF EndOf
<1>2. CASE e # <<>>
  <2>1. Len(e) \in 1..Len(e) /\ EndOf(e) = e[Len(e)] /\ e[Len(e)] \in 1..Len(b)
    BY <1>2 DEF EndOf, Last
  <2>2. \A k \in 1..Len(e) : e[k] \in 1..Len(b) /\ (k < Len(e) => e[k] < e[Len(e)])
    BY <2>1 DEF Ordered
  <2> QED
    BY <2>1, <2>2
<1> QED
  BY <1>1, <1>2

\* Another chunk changes nothing of the cause that an observer gave up for.
LEMMA CauseStays ==
  ASSUME NEW b \in Seq(Bytes), NEW e \in Seq(1..Len(b)), Ordered(e),
         NEW n \in (EndOf(e) + 1)..Len(b), NEW o,
         RejectedFirst(b, o, e) \/ OverflowedFirst(b, o, e)
  PROVE  RejectedFirst(b, o, Append(e, n)) \/ OverflowedFirst(b, o, Append(e, n))
<1> DEFINE f == Append(e, n)
           r == EndOf(e)
<1>1. /\ r \in 0..Len(b) /\ Len(e) \in Nat /\ n \in Nat /\ n > r
      /\ \A k \in 1..Len(e) : e[k] \in 1..r
  BY EndsFacts
<1>2. /\ Len(f) = Len(e) + 1 /\ f[Len(e) + 1] = n /\ \A k \in 1..Len(e) : f[k] = e[k]
  BY <1>1, AppendProperties
<1>3. /\ EndOf(f) = n /\ \A i \in 1..r : Arrival(f, i) = Arrival(e, i)
      /\ \A i \in (r + 1)..n : Arrival(f, i) = Len(e) + 1
  BY <1>1, ArrivalAppends
<1>4. \A i \in 0..r : Summary(DocsAt(b, i), f) = Summary(DocsAt(b, i), e)
  <2> TAKE i \in 0..r
  <2>1. i \in 0..Len(b) /\ \A j \in 1..i : j \in 1..r
    BY <1>1
  <2>2. DOMAIN DocsAt(b, i) \in SUBSET (1..EndOf(e))
    BY <2>1, DocsWithin
  <2> QED
    BY <1>1, <2>2, SummaryKeeps
<1> HIDE DEF f, r
<1>5. \A k \in 1..Len(e) : LongAfter(b, f, k) <=> LongAfter(b, e, k)
  BY <1>2 DEF LongAfter
<1>6. CASE RejectedFirst(b, o, e)
  <2>1. PICK q \in 1..r :
          /\ FirstBad(b, q)
          /\ \A k \in 1..Len(e) : LongAfter(b, e, k) => Arrival(e, q) <= k
          /\ o.seen = Summary(DocsAt(b, q - 1), e)
    BY <1>6 DEF RejectedFirst, r
  <2>2. Arrival(f, q) = Arrival(e, q) /\ Arrival(e, q) \in 1..Len(e)
    BY <1>3, <2>1, ArrivalTyped DEF r
  <2>3. ASSUME NEW k \in 1..Len(f), LongAfter(b, f, k) PROVE Arrival(f, q) <= k
    <3>1. CASE k \in 1..Len(e)
      BY <1>5, <2>1, <2>2, <2>3, <3>1
    <3>2. CASE k = Len(e) + 1
      BY <1>1, <2>2, <3>2
    <3> QED
      BY <1>1, <1>2, <3>1, <3>2
  <2>4. q \in 1..n /\ q - 1 \in 0..r
    BY <1>1
  <2>5. o.seen = Summary(DocsAt(b, q - 1), f)
    BY <1>4, <2>1, <2>4
  <2>6. RejectedFirst(b, o, f)
    BY <1>3, <2>1, <2>3, <2>4, <2>5 DEF RejectedFirst
  <2> QED
    BY <2>6 DEF f
<1>7. CASE OverflowedFirst(b, o, e)
  <2>1. PICK j \in 1..Len(e) :
          /\ LongAfter(b, e, j) /\ \A k \in 1..(j - 1) : ~LongAfter(b, e, k)
          /\ o.seen = Summary(DocsAt(b, e[j]), e)
    BY <1>7 DEF OverflowedFirst
  <2>2. j \in 1..Len(f) /\ \A k \in 1..(j - 1) : k \in 1..Len(e)
    BY <1>1, <1>2
  <2>3. o.seen = Summary(DocsAt(b, f[j]), f)
    <3>1. e[j] \in 0..r
      BY <1>1
    <3> QED
      BY <1>2, <1>4, <2>1, <3>1
  <2>4. OverflowedFirst(b, o, f)
    BY <1>5, <2>1, <2>2, <2>3 DEF OverflowedFirst
  <2> QED
    BY <2>4 DEF f
<1> QED
  BY <1>6, <1>7

\* Whatever a chunk holds and wherever it is cut off, the observer goes on to say
\* what the body holds, or gives up for a cause.
LEMMA FeedFollows ==
  ASSUME NEW b \in Seq(Bytes), NEW e \in Seq(1..Len(b)), Ordered(e),
         NEW n \in (EndOf(e) + 1)..Len(b), NEW o \in Observers,
         ~o.failed, Faithful(b, o, e), Keeps(b, o, e)
  PROVE  LET f == Append(e, n)
             fed == Feed(o, SubSeq(b, EndOf(e) + 1, n), Len(e) + 1)
         IN IF fed.failed THEN RejectedFirst(b, fed, f) \/ OverflowedFirst(b, fed, f)
            ELSE Faithful(b, fed, f) /\ Keeps(b, fed, f)
<1> DEFINE f == Append(e, n)
           r == EndOf(e)
           fed == Feed(o, SubSeq(b, EndOf(e) + 1, n), Len(e) + 1)
<1>1. /\ r \in 0..Len(b) /\ Len(e) \in Nat /\ n \in 0..Len(b) /\ n > r
      /\ \A k \in 1..Len(e) : e[k] \in 1..r
  BY EndsFacts
<1>2. /\ Len(f) = Len(e) + 1 /\ f[Len(e) + 1] = n /\ \A k \in 1..Len(e) : f[k] = e[k]
  BY <1>1, AppendProperties
<1>3. EndOf(f) = n /\ \A i \in (r + 1)..n : Arrival(f, i) = Len(e) + 1
  BY <1>1, ArrivalAppends
<1>4. Observes(o, b, e, r, LastCut(b)[r])
  <2>1. r \in 0..Len(b)
    BY <1>1
  <2> QED
    BY <2>1, ObservesAll DEF Faithful, Keeps
<1>5. \/ Observes(fed, b, f, n, LastCut(b)[n]) /\ n - LastCut(b)[n] <= EventLimit
      \/ Rejects(fed, b, f, r, n)
      \/ /\ fed.failed /\ n - LastCut(b)[n] > EventLimit
         /\ Clean(b, n) /\ fed.seen = Summary(DocsAt(b, n), f)
  BY <1>1, <1>4, FeedObserves
<1> HIDE DEF f, fed, r
<1>6. \A k \in 1..Len(e) : ~LongAfter(b, f, k)
  BY <1>2 DEF LongAfter, Faithful
<1>7. \A k \in 1..Len(f) : k \in 1..Len(e) \/ k = Len(e) + 1
  BY <1>1, <1>2
<1>8. LongAfter(b, f, Len(e) + 1) <=> n - LastCut(b)[n] > EventLimit
  BY <1>2 DEF LongAfter
<1>9. CASE Observes(fed, b, f, n, LastCut(b)[n]) /\ n - LastCut(b)[n] <= EventLimit
  <2>1. ~fed.failed /\ fed.buffer = SubSeq(b, LastCut(b)[n] + 1, n)
        /\ fed.seen = Summary(DocsAt(b, n), f) /\ Clean(b, n)
    BY <1>1, <1>9, ObservesAll
  <2>2. ~(n - LastCut(b)[n] > EventLimit)
    <3>1. LastCut(b)[n] \in 0..n
      BY <1>1, CutFacts
    <3> QED
      BY <1>1, <1>9, <3>1, ObserverTyped
  <2>3. Faithful(b, fed, f) /\ Keeps(b, fed, f)
    BY <1>3, <1>6, <1>7, <1>8, <2>1, <2>2 DEF Faithful, Keeps
  <2> QED
    BY <2>1, <2>3 DEF f, fed
<1>10. CASE Rejects(fed, b, f, r, n)
  <2>1. PICK q \in (r + 1)..n : FirstBad(b, q) /\ fed.seen = Summary(DocsAt(b, q - 1), f)
    BY <1>10 DEF Rejects
  <2>2. q \in 1..n /\ Arrival(f, q) = Len(e) + 1
    BY <1>1, <1>3
  <2>3. \A k \in 1..Len(f) : LongAfter(b, f, k) => Arrival(f, q) <= k
    BY <1>1, <1>6, <1>7, <2>2
  <2>4. RejectedFirst(b, fed, f)
    BY <1>3, <2>1, <2>2, <2>3 DEF RejectedFirst
  <2>5. fed.failed
    BY <1>10 DEF Rejects
  <2> QED
    BY <2>4, <2>5 DEF f, fed
<1>11. CASE /\ fed.failed /\ n - LastCut(b)[n] > EventLimit
            /\ Clean(b, n) /\ fed.seen = Summary(DocsAt(b, n), f)
  <2>1. Len(e) + 1 \in 1..Len(f) /\ \A k \in 1..((Len(e) + 1) - 1) : k \in 1..Len(e)
    BY <1>1, <1>2
  <2>2. OverflowedFirst(b, fed, f)
    BY <1>2, <1>6, <1>8, <1>11, <2>1 DEF OverflowedFirst
  <2> QED
    BY <1>11, <2>2 DEF f, fed
<1> QED
  BY <1>5, <1>9, <1>10, <1>11
=============================================================================
