-------------------------- MODULE RelayTaskProofs --------------------------
(***************************************************************************)
(* Theorems about RelayTask: what a streamed and a buffered response bring *)
(* to the client and to the record, for any bodies, chunks, limits and     *)
(* interruptions.                                                          *)
(***************************************************************************)
EXTENDS SseObserverProofs

\* What the task shares with its surroundings.
BodySound ==
  /\ body \in Seq(Bytes)
  /\ ends \in Seq(1..Len(body)) /\ Len(ends) <= MaxChunks
  /\ taken \in Seq(Bytes) /\ channel \in Seq(Seq(Bytes))
  /\ client \in {"there", "gone"} /\ shutdown \in BOOLEAN
  /\ client = "gone" => channel = <<>>

\* What the client got, or will if it stays, are the first k bytes.
Delivers(k) ==
  /\ IsPrefix(taken, body)
  /\ client = "there" => Relayed = SubSeq(body, 1, k)

-----------------------------------------------------------------------------
(* Images                                                                  *)

Whole == head = "json" /\ Received = Len(body)
Good == Whole /\ Len(body) <= ResponseLimit /\ HasImages

\* What is known of the response while the task calls, reads and replies.
Progress ==
  /\ at = "call" => head = NONE /\ ends = <<>> /\ buffered = <<>> /\ outcome = "failed"
  /\ at = "error" => head = "error" /\ outcome = "upstream_error"
  /\ at = "body" => head = "json" /\ outcome = "premature_eof"
                    /\ buffered = SubSeq(body, 1, Received)
  /\ Working => reply = NONE /\ reason = NONE
  /\ Working \/ at = "reply" => status = NONE
  /\ at = "reply" => reply # NONE /\ reason \in {NONE, "failed", "broken"}
                     /\ (reply = "image" => reason = NONE)
  /\ at = "send" => outcome = "completed" /\ status = "image" /\ reason = NONE

\* An image reply, and nothing else, stands for a response that was checked.
Checked ==
  /\ IF reply = "image" THEN Good /\ buffered = body /\ metadata = Report(body)
     ELSE metadata = Unreported
  /\ status # "image" => taken = <<>> /\ channel = <<>> /\ pieces = 0
  /\ Delivers(pieces)
  /\ at = "over" /\ outcome = "completed" => pieces = Len(body) /\ status = "image"

\* The outcome before the reply, for a task that has to send no image.
Fits ==
  at = "reply" =>
    /\ outcome \in {"failed", "upstream_error", "premature_eof", "uninspected"}
    /\ outcome = "failed" => head = NONE
    /\ outcome = "upstream_error" => head \in {"error", "other"}
    /\ outcome = "premature_eof" => reason = "broken"
    /\ outcome = "uninspected" =>
         (Received > ResponseLimit \/ Whole) /\ (Good => reply = "image")
    /\ reply = "image" => outcome = "uninspected"
    /\ reply = "upstream" => outcome = "upstream_error"

ImageInv ==
  operation = "images" =>
    BodySound /\ ImageTypeOK /\ Progress /\ Checked /\ Fits /\ ImageOutcomeFits
-----------------------------------------------------------------------------
(* The sequences that a sequence of chunks flattens to                      *)

Concatenates(f, ss) == f[1] = ss[1] /\ \A i \in 2..Len(ss) : f[i] = f[i - 1] \o ss[i]

\* FlattenSeq adds one sequence after the other.
LEMMA Flattens ==
  ASSUME NEW S, NEW ss \in Seq(Seq(S)), ss # <<>>
  PROVE  \E f \in [1..Len(ss) -> Seq(S)] : Concatenates(f, ss) /\ FlattenSeq(ss) = f[Len(ss)]
<1> DEFINE n == Len(ss)
           Unfolds(f) == f = [i \in 1..n |-> IF i = 1 THEN ss[i] ELSE f[i - 1] \o ss[i]]
           step == [p \in Nat \X Seq(S) |-> IF p[1] \in 1..n THEN p[2] \o ss[p[1]] ELSE <<>>]
<1>1. n \in Nat /\ n # 0 /\ \A i \in 1..n : ss[i] \in Seq(S)
  OBVIOUS
<1>2. step \in [Nat \X Seq(S) -> Seq(S)]
  <2>1. ASSUME NEW p \in Nat \X Seq(S) PROVE step[p] \in Seq(S)
    <3>1. p[1] \in 1..n => p[2] \o ss[p[1]] \in Seq(S)
      BY <1>1, ConcatProperties
    <3> QED
      BY <3>1
  <2> QED
    BY <2>1
<1>3. PICK f \in [0..n -> Seq(S)] :
        f[0] = <<>> /\ \A i \in 1..n : f[i] = step[<<i, f[i - 1]>>]
  <2>1. <<>> \in Seq(S)
    OBVIOUS
  <2>2. \E f \in [0..n -> Seq(S)] : Recurs(f, <<>>, step, n)
    <3> HIDE DEF step, n
    <3> QED
      BY <1>1, <1>2, <2>1, Recursion
  <2> QED
    BY <2>2 DEF Recurs
<1>4. ASSUME NEW i \in 1..n PROVE f[i] = f[i - 1] \o ss[i]
  <2>1. i \in Nat /\ i - 1 \in 0..n
    BY <1>1
  <2>2. f[i - 1] \in Seq(S)
    <3> HIDE DEF n
    <3> QED
      BY <1>3, <2>1
  <2>3. <<i, f[i - 1]>> \in Nat \X Seq(S)
    BY <2>1, <2>2
  <2>4. step[<<i, f[i - 1]>>] = f[i - 1] \o ss[i]
    BY <2>3
  <2> QED
    BY <1>3, <2>4
<1>5. f[1] = ss[1]
  <2>1. 1 \in 1..n /\ 1 - 1 = 0
    BY <1>1
  <2>2. f[1] = <<>> \o ss[1]
    BY <1>3, <1>4, <2>1
  <2> QED
    BY <1>1, <2>1, <2>2, ConcatEmptySeq
<1> DEFINE g == [i \in 1..n |-> f[i]]
<1>6. Unfolds(g) /\ g \in [1..n -> Seq(S)]
  <2>1. \A i \in 1..n : f[i] \in Seq(S) /\ i - 1 \in 0..n
    <3> HIDE DEF n
    <3> QED
      BY <1>1, <1>3
  <2>2. ASSUME NEW i \in 1..n
        PROVE  f[i] = IF i = 1 THEN ss[i] ELSE g[i - 1] \o ss[i]
    <3>1. i # 1 => i - 1 \in 1..n
      BY <1>1
    <3> QED
      BY <1>4, <1>5, <3>1
  <2> QED
    BY <2>1, <2>2
<1> DEFINE h == CHOOSE h : Unfolds(h)
<1>7. Unfolds(h)
  <2> HIDE DEF Unfolds
  <2> QED
    BY <1>6
<1>8. FlattenSeq(ss) = h[n]
  BY <1>1 DEF FlattenSeq
<1>9. \A i \in 1..n : h[i] = g[i]
  <2> HIDE DEF h, g
  <2> DEFINE T == {i \in Nat : i \in 1..n => h[i] = g[i]}
  <2>1. 0 \in T
    OBVIOUS
  <2>2. ASSUME NEW i \in Nat, i \in T, i + 1 \in 1..n PROVE h[i + 1] = g[i + 1]
    <3>1. /\ h[i + 1] = IF i + 1 = 1 THEN ss[i + 1] ELSE h[(i + 1) - 1] \o ss[i + 1]
          /\ g[i + 1] = IF i + 1 = 1 THEN ss[i + 1] ELSE g[(i + 1) - 1] \o ss[i + 1]
      BY <1>6, <1>7, <2>2
    <3>2. i + 1 # 1 => i \in 1..n /\ (i + 1) - 1 = i
      BY <1>1, <2>2
    <3> QED
      BY <2>2, <3>1, <3>2
  <2>3. \A i \in Nat : i \in T => i + 1 \in T
    BY <2>2
  <2> HIDE DEF T
  <2>4. Nat \subseteq T
    BY <2>1, <2>3, SetInduction
  <2>5. \A i \in 1..n : i \in T
    BY <1>1, <2>4
  <2> QED
    BY <2>5 DEF T
<1>10. Concatenates(g, ss) /\ FlattenSeq(ss) = g[n]
  <2>1. 1 \in 1..n /\ n \in 1..n /\ \A i \in 2..n : i \in 1..n /\ i # 1
    BY <1>1
  <2> HIDE DEF g, h
  <2> QED
    BY <1>6, <1>8, <1>9, <2>1 DEF Concatenates
<1> HIDE DEF g
<1> QED
  BY <1>6, <1>10

\* ConcatAssociative in a form the provers match.
LEMMA Reassociate ==
  \A S : \A a, b, c \in Seq(S) : (a \o b) \o c = a \o (b \o c)
BY ConcatAssociative

LEMMA FlattenNone == FlattenSeq(<<>>) = <<>>
BY DEF FlattenSeq

LEMMA FlattenTyped ==
  ASSUME NEW S, NEW ss \in Seq(Seq(S))
  PROVE  FlattenSeq(ss) \in Seq(S)
<1>1. CASE ss = <<>>
  <2>1. <<>> \in Seq(S)
    OBVIOUS
  <2> QED
    BY <1>1, <2>1, FlattenNone
<1>2. CASE ss # <<>>
  <2>1. Len(ss) \in 1..Len(ss)
    BY <1>2
  <2>2. PICK f \in [1..Len(ss) -> Seq(S)] : FlattenSeq(ss) = f[Len(ss)]
    BY <1>2, Flattens
  <2> QED
    BY <2>1, <2>2
<1> QED
  BY <1>1, <1>2

LEMMA FlattenAppend ==
  ASSUME NEW S, NEW ss \in Seq(Seq(S)), NEW x \in Seq(S)
  PROVE  FlattenSeq(Append(ss, x)) = FlattenSeq(ss) \o x
<1> DEFINE n == Len(ss)
           tt == Append(ss, x)
<1>1. /\ n \in Nat /\ tt \in Seq(Seq(S)) /\ tt # <<>> /\ Len(tt) = n + 1
      /\ tt[n + 1] = x /\ \A i \in 1..n : tt[i] = ss[i]
  BY AppendProperties
<1> HIDE DEF tt
<1>2. PICK g \in [1..(n + 1) -> Seq(S)] :
        Concatenates(g, tt) /\ FlattenSeq(tt) = g[n + 1]
  BY <1>1, Flattens
<1>3. CASE ss = <<>>
  <2>1. n = 0 /\ FlattenSeq(tt) = x
    BY <1>1, <1>2, <1>3 DEF Concatenates
  <2> QED
    BY <1>3, <2>1, FlattenNone, ConcatEmptySeq DEF tt
<1>4. CASE ss # <<>>
  <2>1. PICK f \in [1..n -> Seq(S)] : Concatenates(f, ss) /\ FlattenSeq(ss) = f[n]
    BY <1>4, Flattens
  <2> DEFINE T == {i \in Nat : i \in 1..n => g[i] = f[i]}
  <2>2. 0 \in T
    OBVIOUS
  <2>3. ASSUME NEW i \in Nat, i \in T, i + 1 \in 1..n PROVE g[i + 1] = f[i + 1]
    <3>1. CASE i = 0
      BY <1>1, <1>2, <2>1, <2>3, <3>1 DEF Concatenates
    <3>2. CASE i # 0
      <4>1. /\ i \in 1..n /\ i + 1 \in 2..n /\ i + 1 \in 2..(n + 1) /\ (i + 1) - 1 = i
        BY <1>1, <2>3, <3>2
      <4>2. g[i] = f[i] /\ tt[i + 1] = ss[i + 1]
        BY <1>1, <2>3, <4>1
      <4>3. g[i + 1] = g[(i + 1) - 1] \o tt[i + 1] /\ f[i + 1] = f[(i + 1) - 1] \o ss[i + 1]
        BY <1>1, <1>2, <2>1, <4>1 DEF Concatenates
      <4> QED
        BY <4>1, <4>2, <4>3
    <3> QED
      BY <3>1, <3>2
  <2>4. \A i \in Nat : i \in T => i + 1 \in T
    BY <2>3
  <2>5. n \in T /\ n \in 1..n /\ n + 1 \in 2..(n + 1) /\ (n + 1) - 1 = n
    <3> HIDE DEF T
    <3>1. n \in T
      BY <1>1, <2>2, <2>4, SetInduction
    <3> QED
      BY <1>1, <1>4, <3>1
  <2>6. g[n] = f[n] /\ g[n + 1] = g[(n + 1) - 1] \o tt[n + 1]
    BY <1>1, <1>2, <2>5 DEF Concatenates
  <2> QED
    BY <1>1, <1>2, <2>1, <2>5, <2>6 DEF tt
<1> QED
  BY <1>3, <1>4

LEMMA FlattenCons ==
  ASSUME NEW S, NEW ss \in Seq(Seq(S)), ss # <<>>
  PROVE  FlattenSeq(ss) = Head(ss) \o FlattenSeq(Tail(ss))
<1> DEFINE n == Len(ss)
           tt == Tail(ss)
<1>1. /\ n \in Nat /\ n >= 1 /\ tt \in Seq(Seq(S)) /\ Len(tt) = n - 1
      /\ ss[1] = Head(ss) /\ ss[1] \in Seq(S) /\ \A i \in 1..(n - 1) : tt[i] = ss[i + 1]
      /\ \A i \in 1..(n - 1) : tt[i] \in Seq(S)
  OBVIOUS
<1> HIDE DEF tt
<1>2. PICK g \in [1..n -> Seq(S)] : Concatenates(g, ss) /\ FlattenSeq(ss) = g[n]
  BY <1>1, Flattens
<1>3. CASE n = 1
  <2>1. tt = <<>> /\ FlattenSeq(ss) = ss[1]
    BY <1>1, <1>2, <1>3 DEF Concatenates
  <2> QED
    BY <1>1, <2>1, FlattenNone, ConcatEmptySeq DEF tt
<1>4. CASE n # 1
  <2>1. PICK f \in [1..(n - 1) -> Seq(S)] :
          Concatenates(f, tt) /\ FlattenSeq(tt) = f[n - 1]
    <3>1. tt # <<>> /\ n - 1 = Len(tt)
      BY <1>1, <1>4
    <3>2. \E f \in [1..Len(tt) -> Seq(S)] :
            Concatenates(f, tt) /\ FlattenSeq(tt) = f[Len(tt)]
      BY <1>1, <3>1, Flattens
    <3> QED
      BY <3>1, <3>2
  <2> DEFINE T == {i \in Nat : i \in 1..(n - 1) => g[i + 1] = ss[1] \o f[i]}
  <2>2. 0 \in T
    OBVIOUS
  <2>3. ASSUME NEW i \in Nat, i \in T
        PROVE  i + 1 \in 1..(n - 1) => g[(i + 1) + 1] = ss[1] \o f[i + 1]
    <3> SUFFICES ASSUME i + 1 \in 1..(n - 1) PROVE g[(i + 1) + 1] = ss[1] \o f[i + 1]
      OBVIOUS
    <3>1. /\ (i + 1) + 1 \in 2..n /\ ((i + 1) + 1) - 1 = i + 1
          /\ tt[i + 1] = ss[(i + 1) + 1] /\ tt[i + 1] \in Seq(S)
      BY <1>1, <2>3
    <3>2. g[(i + 1) + 1] = g[i + 1] \o tt[i + 1]
      BY <1>2, <3>1 DEF Concatenates
    <3>3. CASE i = 0
      <4>1. i + 1 = 1 /\ g[1] = ss[1] /\ f[1] = tt[1]
        BY <1>2, <2>1, <3>3 DEF Concatenates
      <4> QED
        BY <3>2, <4>1
    <3>4. CASE i # 0
      <4>1. i \in 1..(n - 1) /\ i + 1 \in 2..(n - 1) /\ (i + 1) - 1 = i
        BY <1>1, <2>3, <3>4
      <4>2. g[i + 1] = ss[1] \o f[i] /\ f[i] \in Seq(S)
        BY <2>1, <2>3, <4>1
      <4>3. f[i + 1] = f[i] \o tt[i + 1]
        BY <1>1, <2>1, <4>1 DEF Concatenates
      <4>4. (ss[1] \o f[i]) \o tt[i + 1] = ss[1] \o (f[i] \o tt[i + 1])
        <5>1. ss[1] \in Seq(S) /\ f[i] \in Seq(S) /\ tt[i + 1] \in Seq(S)
          BY <1>1, <3>1, <4>2
        <5>2. \A a, b, c \in Seq(S) : (a \o b) \o c = a \o (b \o c)
          BY ONLY Reassociate
        <5> QED
          BY ONLY <5>1, <5>2, Zenon
      <4> QED
        BY <3>2, <4>2, <4>3, <4>4
    <3> QED
      BY <3>3, <3>4
  <2>4. \A i \in Nat : i \in T => i + 1 \in T
    <3> TAKE i \in Nat
    <3> HAVE i \in T
    <3>1. i + 1 \in Nat
      OBVIOUS
    <3> QED
      BY <2>3, <3>1
  <2>5. n - 1 \in T /\ n - 1 \in 1..(n - 1) /\ (n - 1) + 1 = n
    <3> HIDE DEF T
    <3>1. n - 1 \in T
      <4>1. Nat \subseteq T
        BY <2>2, <2>4, SetInduction
      <4> QED
        BY <1>1, <4>1
    <3> QED
      BY <1>1, <1>4, <3>1
  <2>6. g[n] = ss[1] \o f[n - 1]
    BY <2>5
  <2> QED
    BY <1>1, <1>2, <2>1, <2>6 DEF tt
<1> QED
  BY <1>3, <1>4

-----------------------------------------------------------------------------
(* What is received and relayed                                            *)

LEMMA BodyFacts ==
  ASSUME BodySound
  PROVE  /\ Len(body) \in Nat /\ Received \in 0..Len(body)
         /\ \A n \in 0..Len(body) : /\ SubSeq(body, 1, n) \in Seq(Bytes)
                                    /\ Len(SubSeq(body, 1, n)) = n
         /\ SubSeq(body, 1, Len(body)) = body
         /\ Relayed \in Seq(Bytes)
<1>1. Len(body) \in Nat /\ body \in Seq(Bytes)
  BY DEF BodySound
<1>2. Received \in 0..Len(body)
  <2>1. CASE ends = <<>>
    BY <1>1, <2>1 DEF Received
  <2>2. CASE ends # <<>>
    <3>1. ends[Len(ends)] \in 1..Len(body)
      BY <2>2 DEF BodySound
    <3> QED
      BY <1>1, <2>2, <3>1 DEF Received, Last
  <2> QED
    BY <2>1, <2>2
<1>3. ASSUME NEW n \in 0..Len(body)
      PROVE  SubSeq(body, 1, n) \in Seq(Bytes) /\ Len(SubSeq(body, 1, n)) = n
  <2>1. \A i \in 1..n : body[i] \in Bytes
    BY <1>1
  <2> QED
    BY <1>1, <2>1, SubSeqProperties
<1>4. Relayed \in Seq(Bytes)
  <2>1. FlattenSeq(channel) \in Seq(Bytes)
    BY FlattenTyped DEF BodySound
  <2> QED
    BY <2>1 DEF Relayed, BodySound
<1> QED
  BY <1>1, <1>2, <1>3, <1>4, SubSeqFull

LEMMA ReadsFacts ==
  ASSUME BodySound, NEW n, Reads(n), body' = body
  PROVE  /\ n \in 1..Len(body) /\ n > Received /\ Received' = n
         /\ ends' \in Seq(1..Len(body)) /\ Len(ends') <= MaxChunks
<1>1. n \in 1..Len(body) /\ n > Received
  BY BodyFacts DEF Reads
<1>2. /\ ends' \in Seq(1..Len(body)) /\ ends' # <<>> /\ Len(ends') = Len(ends) + 1
      /\ ends'[Len(ends) + 1] = n
  <2>1. ends \in Seq(1..Len(body)) /\ n \in 1..Len(body) /\ ends' = Append(ends, n)
    BY <1>1 DEF Reads, BodySound
  <2> QED
    BY ONLY <2>1, AppendProperties
<1>3. Received' = n
  BY <1>2 DEF Received, Last
<1> QED
  BY <1>1, <1>2, <1>3, BodyTyped DEF Reads, BodySound

LEMMA BodyStill ==
  ASSUME UNCHANGED <<body, ends>>
  PROVE  Received' = Received /\ (HasImages' <=> HasImages)
BY DEF Received, HasImages

LEMMA RelayedStill ==
  ASSUME UNCHANGED <<taken, channel>>
  PROVE  Relayed' = Relayed
BY DEF Relayed

LEMMA RelayedReads ==
  ASSUME BodySound, ClientReads
  PROVE  Relayed' = Relayed
<1> DEFINE a == taken
           b == Head(channel)
           c == FlattenSeq(Tail(channel))
<1>1. a \in Seq(Bytes) /\ b \in Seq(Bytes) /\ Tail(channel) \in Seq(Seq(Bytes))
  BY DEF BodySound, ClientReads
<1>2. c \in Seq(Bytes)
  BY <1>1, FlattenTyped
<1>3. FlattenSeq(channel) = b \o c
  BY FlattenCons DEF BodySound, ClientReads
<1>4. Relayed' = (a \o b) \o c
  BY DEF Relayed, ClientReads
<1>5. (a \o b) \o c = a \o (b \o c)
  <2>1. \A x, y, z \in Seq(Bytes) : (x \o y) \o z = x \o (y \o z)
    BY ONLY Reassociate
  <2> HIDE DEF a, b, c
  <2> QED
    BY ONLY <1>1, <1>2, <2>1, Zenon
<1> QED
  BY <1>3, <1>4, <1>5 DEF Relayed

LEMMA RelayedSends ==
  ASSUME BodySound, NEW x \in Seq(Bytes), taken' = taken, channel' = Append(channel, x)
  PROVE  Relayed' = Relayed \o x
<1> DEFINE a == taken
           b == FlattenSeq(channel)
<1>1. a \in Seq(Bytes) /\ b \in Seq(Bytes)
  BY FlattenTyped DEF BodySound
<1>2. FlattenSeq(Append(channel, x)) = b \o x
  BY FlattenAppend DEF BodySound
<1>3. (a \o b) \o x = a \o (b \o x)
  <2>1. \A u, v, w \in Seq(Bytes) : (u \o v) \o w = u \o (v \o w)
    BY ONLY Reassociate
  <2> HIDE DEF a, b
  <2> QED
    BY ONLY <1>1, x \in Seq(Bytes), <2>1, Zenon
<1> QED
  BY <1>2, <1>3 DEF Relayed

LEMMA PrefixOfBody ==
  ASSUME NEW S, NEW b \in Seq(S), NEW k \in 0..Len(b),
         NEW s \in Seq(S), NEW t \in Seq(S), s \o t = SubSeq(b, 1, k)
  PROVE  IsPrefix(s, b)
<1> DEFINE m == Len(s)
<1>1. \A i \in 1..k : b[i] \in S
  OBVIOUS
<1>2. Len(SubSeq(b, 1, k)) = k /\ \A i \in 1..k : SubSeq(b, 1, k)[i] = b[i]
  BY <1>1, SubSeqProperties
<1>3. /\ m \in 0..k /\ Len(s \o t) = m + Len(t)
      /\ \A i \in 1..m : (s \o t)[i] = s[i]
  BY <1>2, ConcatProperties
<1>4. \A i \in 1..m : s[i] = b[i]
  BY <1>2, <1>3
<1>5. SubSeq(b, 1, m) \in Seq(S) /\ Len(SubSeq(b, 1, m)) = m
      /\ \A i \in 1..m : SubSeq(b, 1, m)[i] = b[i]
  <2>1. \A i \in 1..m : b[i] \in S
    BY <1>1, <1>3
  <2> QED
    BY <1>3, <2>1, SubSeqProperties
<1>6. SubSeq(b, 1, m) = s
  BY <1>4, <1>5, SeqEqual
<1>7. SubSeq(s, 1, m) = s
  BY SubSeqFull
<1> QED
  BY <1>3, <1>6, <1>7 DEF IsPrefix

\* The case of nothing more, for what is buffered or was relayed.
LEMMA StartsBody ==
  ASSUME NEW S, NEW b \in Seq(S), NEW k \in 0..Len(b)
  PROVE  IsPrefix(SubSeq(b, 1, k), b)
<1>1. <<>> \in Seq(S) /\ SubSeq(b, 1, k) \in Seq(S)
  <2>1. \A i \in 1..k : b[i] \in S
    OBVIOUS
  <2> QED
    BY <2>1, SubSeqProperties
<1>2. SubSeq(b, 1, k) \o <<>> = SubSeq(b, 1, k)
  BY <1>1, ConcatEmptySeq
<1> QED
  BY <1>1, <1>2, PrefixOfBody

LEMMA AcceptableIsGood ==
  ASSUME NEW b, b = body
  PROVE  Acceptable(b) <=> HasImages
<1>1. ASSUME b \in DOMAIN Images
      PROVE  (\A i \in DOMAIN Images[b].data : Images[b].data[i])
               <=> FALSE \notin Range(Images[b].data)
  <2>1. Images[b].data \in Seq(BOOLEAN)
    BY <1>1, ImagesTyped
  <2>2. \A i \in DOMAIN Images[b].data : Images[b].data[i] \in BOOLEAN
    BY <2>1
  <2> QED
    BY <2>2 DEF Range
<1> QED
  BY <1>1 DEF Acceptable, HasImages

-----------------------------------------------------------------------------
(* Images: one lemma per action                                            *)

LEMMA KeepsCallFails ==
  ASSUME ImageInv, operation = "images", CallFails
  PROVE  ImageInv'
<1>1. BodySound /\ ImageTypeOK /\ Progress /\ Checked /\ Fits /\ ImageOutcomeFits
  BY DEF ImageInv
<1>2. UNCHANGED <<operation, body, ends, taken, channel, client, shutdown>>
  BY DEF CallFails, Has, requestVars, clientVars
<1>3. Received' = Received /\ (HasImages' <=> HasImages) /\ Relayed' = Relayed
  BY <1>2, BodyStill, RelayedStill
<1>4. BodySound'
  BY <1>1, <1>2 DEF BodySound
<1>5. ImageTypeOK'
  BY <1>1, <1>2, BodyTyped DEF ImageTypeOK, CallFails, Has, Progress, Working
<1>6. Progress'
  BY <1>1, <1>2, <1>3, BodyTyped DEF CallFails, Has, Progress, Working
<1>7. Checked'
  BY <1>1, <1>2, <1>3, BodyTyped DEF CallFails, Has, Checked, Progress, Working, Fits, Delivers, Good, Whole
<1>8. Fits' /\ ImageOutcomeFits'
  BY <1>1, <1>2, <1>3, BodyTyped DEF CallFails, Has, Progress, Working, Checked, Fits, ImageOutcomeFits, Good, Whole
<1> QED
  BY <1>4, <1>5, <1>6, <1>7, <1>8 DEF ImageInv

LEMMA KeepsAnswered ==
  ASSUME ImageInv, operation = "images", Answered
  PROVE  ImageInv'
<1>1. BodySound /\ ImageTypeOK /\ Progress /\ Checked /\ Fits /\ ImageOutcomeFits
  BY DEF ImageInv
<1>2. UNCHANGED <<operation, body, ends, taken, channel, client, shutdown>>
  BY DEF Answered, Has, requestVars, clientVars
<1>3. Received' = Received /\ (HasImages' <=> HasImages) /\ Relayed' = Relayed
  BY <1>2, BodyStill, RelayedStill
<1>4. BodySound'
  BY <1>1, <1>2 DEF BodySound
<1>9. /\ ErrorLimit \in Nat /\ ResponseLimit \in Nat /\ buffered = <<>> /\ Len(buffered) = 0
      /\ Received = 0 /\ buffered = SubSeq(body, 1, 0)
  BY <1>1, ImagesTyped DEF Answered, Progress, Received, BodySound
<1>5. ImageTypeOK'
  BY <1>1, <1>2, BodyTyped, <1>9 DEF ImageTypeOK, Answered, Has, Progress, Working
<1>6. Progress'
  BY <1>1, <1>2, <1>3, BodyTyped, <1>9 DEF Answered, Has, Progress, Working
<1>7. Checked'
  BY <1>1, <1>2, <1>3, BodyTyped, <1>9 DEF Answered, Has, Checked, Progress, Working, Fits, Delivers, Good, Whole
<1>8. Fits' /\ ImageOutcomeFits'
  BY <1>1, <1>2, <1>3, BodyTyped, <1>9 DEF Answered, Has, Progress, Working, Checked, Fits, ImageOutcomeFits, Good, Whole
<1> QED
  BY <1>4, <1>5, <1>6, <1>7, <1>8 DEF ImageInv

LEMMA KeepsErrorRead ==
  ASSUME ImageInv, operation = "images", ErrorRead
  PROVE  ImageInv'
<1>1. BodySound /\ ImageTypeOK /\ Progress /\ Checked /\ Fits /\ ImageOutcomeFits
  BY DEF ImageInv
<1>2. UNCHANGED <<operation, body, ends, taken, channel, client, shutdown>>
  BY DEF ErrorRead, Has, requestVars, clientVars
<1>3. Received' = Received /\ (HasImages' <=> HasImages) /\ Relayed' = Relayed
  BY <1>2, BodyStill, RelayedStill
<1>4. BodySound'
  BY <1>1, <1>2 DEF BodySound
<1>5. ImageTypeOK'
  BY <1>1, <1>2, BodyTyped DEF ImageTypeOK, ErrorRead, Has, Progress, Working
<1>6. Progress'
  BY <1>1, <1>2, <1>3, BodyTyped DEF ErrorRead, Has, Progress, Working
<1>7. Checked'
  BY <1>1, <1>2, <1>3, BodyTyped DEF ErrorRead, Has, Checked, Progress, Working, Fits, Delivers, Good, Whole
<1>8. Fits' /\ ImageOutcomeFits'
  BY <1>1, <1>2, <1>3, BodyTyped DEF ErrorRead, Has, Progress, Working, Checked, Fits, ImageOutcomeFits, Good, Whole
<1> QED
  BY <1>4, <1>5, <1>6, <1>7, <1>8 DEF ImageInv

LEMMA KeepsImageRead ==
  ASSUME ImageInv, operation = "images", ImageRead
  PROVE  ImageInv'
<1>1. BodySound /\ ImageTypeOK /\ Progress /\ Checked /\ Fits /\ ImageOutcomeFits
  BY DEF ImageInv
<1>2. UNCHANGED <<operation, body, ends, taken, channel, client, shutdown>>
  BY DEF ImageRead, Has, requestVars, clientVars
<1>3. Received' = Received /\ (HasImages' <=> HasImages) /\ Relayed' = Relayed
  BY <1>2, BodyStill, RelayedStill
<1>4. BodySound'
  BY <1>1, <1>2 DEF BodySound
<1>9. /\ buffered = body /\ head = "json" /\ Received = Len(body) /\ Len(body) <= ResponseLimit
      /\ reply = NONE
      /\ Acceptable(buffered) <=> HasImages
  <2>1. buffered = body /\ head = "json" /\ reply = NONE
    BY <1>1, BodyFacts DEF ImageRead, Progress, Working
  <2> QED
    BY <1>1, <2>1, AcceptableIsGood DEF ImageRead, ImageTypeOK
<1>5. ImageTypeOK'
  BY <1>1, <1>2, BodyTyped, <1>9
    DEF ImageTypeOK, ImageRead, Has, Progress, Working, Report, Unreported
<1>6. Progress'
  BY <1>1, <1>2, <1>3, BodyTyped, <1>9 DEF ImageRead, Has, Progress, Working
<1>7. Checked'
  BY <1>1, <1>2, <1>3, BodyTyped, <1>9 DEF ImageRead, Has, Checked, Progress, Working, Fits, Delivers, Good, Whole
<1>8. Fits' /\ ImageOutcomeFits'
  BY <1>1, <1>2, <1>3, BodyTyped, <1>9 DEF ImageRead, Has, Progress, Working, Checked, Fits, ImageOutcomeFits, Good, Whole
<1> QED
  BY <1>4, <1>5, <1>6, <1>7, <1>8 DEF ImageInv

LEMMA KeepsBodyBreaks ==
  ASSUME ImageInv, operation = "images", BodyBreaks
  PROVE  ImageInv'
<1>1. BodySound /\ ImageTypeOK /\ Progress /\ Checked /\ Fits /\ ImageOutcomeFits
  BY DEF ImageInv
<1>2. UNCHANGED <<operation, body, ends, taken, channel, client, shutdown>>
  BY DEF BodyBreaks, Has, requestVars, clientVars
<1>3. Received' = Received /\ (HasImages' <=> HasImages) /\ Relayed' = Relayed
  BY <1>2, BodyStill, RelayedStill
<1>4. BodySound'
  BY <1>1, <1>2 DEF BodySound
<1>5. ImageTypeOK'
  BY <1>1, <1>2, BodyTyped DEF ImageTypeOK, BodyBreaks, Has, Progress, Working
<1>6. Progress'
  BY <1>1, <1>2, <1>3, BodyTyped DEF BodyBreaks, Has, Progress, Working
<1>7. Checked'
  BY <1>1, <1>2, <1>3, BodyTyped DEF BodyBreaks, Has, Checked, Progress, Working, Fits, Delivers, Good, Whole
<1>8. Fits' /\ ImageOutcomeFits'
  BY <1>1, <1>2, <1>3, BodyTyped DEF BodyBreaks, Has, Progress, Working, Checked, Fits, ImageOutcomeFits, Good, Whole
<1> QED
  BY <1>4, <1>5, <1>6, <1>7, <1>8 DEF ImageInv

LEMMA KeepsWorkShutdown ==
  ASSUME ImageInv, operation = "images", WorkShutdown
  PROVE  ImageInv'
<1>1. BodySound /\ ImageTypeOK /\ Progress /\ Checked /\ Fits /\ ImageOutcomeFits
  BY DEF ImageInv
<1>2. UNCHANGED <<operation, body, ends, taken, channel, client, shutdown>>
  BY DEF WorkShutdown, Interrupts, requestVars, clientVars
<1>3. Received' = Received /\ (HasImages' <=> HasImages) /\ Relayed' = Relayed
  BY <1>2, BodyStill, RelayedStill
<1>4. BodySound'
  BY <1>1, <1>2 DEF BodySound
<1>5. ImageTypeOK'
  BY <1>1, <1>2, BodyTyped DEF ImageTypeOK, WorkShutdown, Interrupts, Progress, Working
<1>6. Progress'
  BY <1>1, <1>2, <1>3, BodyTyped DEF WorkShutdown, Interrupts, Progress, Working
<1>7. Checked'
  BY <1>1, <1>2, <1>3, BodyTyped DEF WorkShutdown, Interrupts, Checked, Progress, Working, Fits, Delivers, Good, Whole
<1>8. Fits' /\ ImageOutcomeFits'
  BY <1>1, <1>2, <1>3, BodyTyped DEF BodySound, WorkShutdown, Interrupts, Progress, Working, Checked, Fits, ImageOutcomeFits, Good, Whole
<1> QED
  BY <1>4, <1>5, <1>6, <1>7, <1>8 DEF ImageInv

LEMMA KeepsWorkCancelled ==
  ASSUME ImageInv, operation = "images", WorkCancelled
  PROVE  ImageInv'
<1>1. BodySound /\ ImageTypeOK /\ Progress /\ Checked /\ Fits /\ ImageOutcomeFits
  BY DEF ImageInv
<1>2. UNCHANGED <<operation, body, ends, taken, channel, client, shutdown>>
  BY DEF WorkCancelled, Interrupts, requestVars, clientVars
<1>3. Received' = Received /\ (HasImages' <=> HasImages) /\ Relayed' = Relayed
  BY <1>2, BodyStill, RelayedStill
<1>4. BodySound'
  BY <1>1, <1>2 DEF BodySound
<1>5. ImageTypeOK'
  BY <1>1, <1>2, BodyTyped DEF ImageTypeOK, WorkCancelled, Interrupts, Progress, Working
<1>6. Progress'
  BY <1>1, <1>2, <1>3, BodyTyped DEF WorkCancelled, Interrupts, Progress, Working
<1>7. Checked'
  BY <1>1, <1>2, <1>3, BodyTyped DEF WorkCancelled, Interrupts, Checked, Progress, Working, Fits, Delivers, Good, Whole
<1>8. Fits' /\ ImageOutcomeFits'
  BY <1>1, <1>2, <1>3, BodyTyped DEF WorkCancelled, Interrupts, Progress, Working, Checked, Fits, ImageOutcomeFits, Good, Whole
<1> QED
  BY <1>4, <1>5, <1>6, <1>7, <1>8 DEF ImageInv

LEMMA KeepsWorkTimesOut ==
  ASSUME ImageInv, operation = "images", WorkTimesOut
  PROVE  ImageInv'
<1>1. BodySound /\ ImageTypeOK /\ Progress /\ Checked /\ Fits /\ ImageOutcomeFits
  BY DEF ImageInv
<1>2. UNCHANGED <<operation, body, ends, taken, channel, client, shutdown>>
  BY DEF WorkTimesOut, Interrupts, Undisturbed, requestVars, clientVars
<1>3. Received' = Received /\ (HasImages' <=> HasImages) /\ Relayed' = Relayed
  BY <1>2, BodyStill, RelayedStill
<1>4. BodySound'
  BY <1>1, <1>2 DEF BodySound
<1>5. ImageTypeOK'
  BY <1>1, <1>2, BodyTyped DEF ImageTypeOK, WorkTimesOut, Interrupts, Undisturbed, Progress, Working
<1>6. Progress'
  BY <1>1, <1>2, <1>3, BodyTyped DEF WorkTimesOut, Interrupts, Undisturbed, Progress, Working
<1>7. Checked'
  BY <1>1, <1>2, <1>3, BodyTyped DEF WorkTimesOut, Interrupts, Undisturbed, Checked, Progress, Working, Fits, Delivers, Good, Whole
<1>8. Fits' /\ ImageOutcomeFits'
  BY <1>1, <1>2, <1>3, BodyTyped DEF WorkTimesOut, Interrupts, Undisturbed, Progress, Working, Checked, Fits, ImageOutcomeFits, Good, Whole
<1> QED
  BY <1>4, <1>5, <1>6, <1>7, <1>8 DEF ImageInv

LEMMA KeepsReplyUnwanted ==
  ASSUME ImageInv, operation = "images", ReplyUnwanted
  PROVE  ImageInv'
<1>1. BodySound /\ ImageTypeOK /\ Progress /\ Checked /\ Fits /\ ImageOutcomeFits
  BY DEF ImageInv
<1>2. UNCHANGED <<operation, body, ends, taken, channel, client, shutdown>>
  BY DEF ReplyUnwanted, Finishes, requestVars, clientVars
<1>3. Received' = Received /\ (HasImages' <=> HasImages) /\ Relayed' = Relayed
  BY <1>2, BodyStill, RelayedStill
<1>4. BodySound'
  BY <1>1, <1>2 DEF BodySound
<1>5. ImageTypeOK'
  BY <1>1, <1>2, BodyTyped DEF ImageTypeOK, ReplyUnwanted, Finishes, Progress, Working
<1>6. Progress'
  BY <1>1, <1>2, <1>3, BodyTyped DEF ReplyUnwanted, Finishes, Progress, Working
<1>7. Checked'
  BY <1>1, <1>2, <1>3, BodyTyped DEF ReplyUnwanted, Finishes, Checked, Progress, Working, Fits, Delivers, Good, Whole
<1>8. Fits' /\ ImageOutcomeFits'
  BY <1>1, <1>2, <1>3, BodyTyped DEF ReplyUnwanted, Finishes, Progress, Working, Checked, Fits, ImageOutcomeFits, Good, Whole
<1> QED
  BY <1>4, <1>5, <1>6, <1>7, <1>8 DEF ImageInv

LEMMA KeepsReply ==
  ASSUME ImageInv, operation = "images", Reply
  PROVE  ImageInv'
<1>1. BodySound /\ ImageTypeOK /\ Progress /\ Checked /\ Fits /\ ImageOutcomeFits
  BY DEF ImageInv
<1>2. UNCHANGED <<operation, body, ends, taken, channel, client, shutdown>>
  BY DEF Reply, requestVars, clientVars
<1>3. Received' = Received /\ (HasImages' <=> HasImages) /\ Relayed' = Relayed
  BY <1>2, BodyStill, RelayedStill
<1>4. BodySound'
  BY <1>1, <1>2 DEF BodySound
<1>5. ImageTypeOK'
  BY <1>1, <1>2, BodyTyped DEF ImageTypeOK, Reply, Progress, Working
<1>6. Progress'
  BY <1>1, <1>2, <1>3, BodyTyped DEF Reply, Progress, Working
<1>7. Checked'
  BY <1>1, <1>2, <1>3, BodyTyped DEF Reply, Checked, Progress, Working, Fits, Delivers, Good, Whole
<1>8. Fits' /\ ImageOutcomeFits'
  BY <1>1, <1>2, <1>3, BodyTyped DEF Reply, Progress, Working, Checked, Fits, ImageOutcomeFits, Good, Whole
<1> QED
  BY <1>4, <1>5, <1>6, <1>7, <1>8 DEF ImageInv

LEMMA KeepsSendShutdown ==
  ASSUME ImageInv, operation = "images", SendShutdown
  PROVE  ImageInv'
<1>1. BodySound /\ ImageTypeOK /\ Progress /\ Checked /\ Fits /\ ImageOutcomeFits
  BY DEF ImageInv
<1>2. UNCHANGED <<operation, body, ends, taken, channel, client, shutdown>>
  BY DEF SendShutdown, SendStops, Finishes, requestVars, clientVars
<1>3. Received' = Received /\ (HasImages' <=> HasImages) /\ Relayed' = Relayed
  BY <1>2, BodyStill, RelayedStill
<1>4. BodySound'
  BY <1>1, <1>2 DEF BodySound
<1>5. ImageTypeOK'
  BY <1>1, <1>2, BodyTyped DEF ImageTypeOK, SendShutdown, SendStops, Finishes, Progress, Working
<1>6. Progress'
  BY <1>1, <1>2, <1>3, BodyTyped DEF SendShutdown, SendStops, Finishes, Progress, Working
<1>7. Checked'
  BY <1>1, <1>2, <1>3, BodyTyped DEF SendShutdown, SendStops, Finishes, Checked, Progress, Working, Fits, Delivers, Good, Whole
<1>8. Fits' /\ ImageOutcomeFits'
  BY <1>1, <1>2, <1>3, BodyTyped DEF SendShutdown, SendStops, Finishes, Progress, Working, Checked, Fits, ImageOutcomeFits, Good, Whole
<1> QED
  BY <1>4, <1>5, <1>6, <1>7, <1>8 DEF ImageInv

LEMMA KeepsSendUnwanted ==
  ASSUME ImageInv, operation = "images", SendUnwanted
  PROVE  ImageInv'
<1>1. BodySound /\ ImageTypeOK /\ Progress /\ Checked /\ Fits /\ ImageOutcomeFits
  BY DEF ImageInv
<1>2. UNCHANGED <<operation, body, ends, taken, channel, client, shutdown>>
  BY DEF SendUnwanted, SendStops, Finishes, requestVars, clientVars
<1>3. Received' = Received /\ (HasImages' <=> HasImages) /\ Relayed' = Relayed
  BY <1>2, BodyStill, RelayedStill
<1>4. BodySound'
  BY <1>1, <1>2 DEF BodySound
<1>5. ImageTypeOK'
  BY <1>1, <1>2, BodyTyped DEF ImageTypeOK, SendUnwanted, SendStops, Finishes, Progress, Working
<1>6. Progress'
  BY <1>1, <1>2, <1>3, BodyTyped DEF SendUnwanted, SendStops, Finishes, Progress, Working
<1>7. Checked'
  BY <1>1, <1>2, <1>3, BodyTyped DEF SendUnwanted, SendStops, Finishes, Checked, Progress, Working, Fits, Delivers, Good, Whole
<1>8. Fits' /\ ImageOutcomeFits'
  BY <1>1, <1>2, <1>3, BodyTyped DEF SendUnwanted, SendStops, Finishes, Progress, Working, Checked, Fits, ImageOutcomeFits, Good, Whole
<1> QED
  BY <1>4, <1>5, <1>6, <1>7, <1>8 DEF ImageInv

LEMMA KeepsSendTimesOut ==
  ASSUME ImageInv, operation = "images", SendTimesOut
  PROVE  ImageInv'
<1>1. BodySound /\ ImageTypeOK /\ Progress /\ Checked /\ Fits /\ ImageOutcomeFits
  BY DEF ImageInv
<1>2. UNCHANGED <<operation, body, ends, taken, channel, client, shutdown>>
  BY DEF SendTimesOut, SendStops, Finishes, Undisturbed, requestVars, clientVars
<1>3. Received' = Received /\ (HasImages' <=> HasImages) /\ Relayed' = Relayed
  BY <1>2, BodyStill, RelayedStill
<1>4. BodySound'
  BY <1>1, <1>2 DEF BodySound
<1>5. ImageTypeOK'
  BY <1>1, <1>2, BodyTyped DEF ImageTypeOK, SendTimesOut, SendStops, Finishes, Undisturbed, Progress, Working
<1>6. Progress'
  BY <1>1, <1>2, <1>3, BodyTyped DEF SendTimesOut, SendStops, Finishes, Undisturbed, Progress, Working
<1>7. Checked'
  BY <1>1, <1>2, <1>3, BodyTyped DEF SendTimesOut, SendStops, Finishes, Undisturbed, Checked, Progress, Working, Fits, Delivers, Good, Whole
<1>8. Fits' /\ ImageOutcomeFits'
  BY <1>1, <1>2, <1>3, BodyTyped DEF SendTimesOut, SendStops, Finishes, Undisturbed, Progress, Working, Checked, Fits, ImageOutcomeFits, Good, Whole
<1> QED
  BY <1>4, <1>5, <1>6, <1>7, <1>8 DEF ImageInv

LEMMA KeepsReadError ==
  ASSUME ImageInv, operation = "images", ReadError
  PROVE  ImageInv'
<1>1. BodySound /\ ImageTypeOK /\ Progress /\ Checked /\ Fits /\ ImageOutcomeFits
  BY DEF ImageInv
<1>2. UNCHANGED <<operation, body, taken, channel, client, shutdown>>
  BY DEF ReadError, requestVars, clientVars
<1>3. PICK n \in 1..Len(body) :
        /\ Reads(n)
        /\ buffered' = SubSeq(body, 1, IF n < ErrorLimit THEN n ELSE ErrorLimit)
  BY DEF ReadError
<1>4. Received' = n /\ ends' \in Seq(1..Len(body)) /\ Len(ends') <= MaxChunks
  BY <1>1, <1>2, <1>3, ReadsFacts
<1>5. (HasImages' <=> HasImages) /\ Relayed' = Relayed
  BY <1>2, RelayedStill DEF HasImages
<1>6. BodySound'
  BY <1>1, <1>2, <1>4 DEF BodySound
<1>7. IsPrefix(buffered', body) /\ Len(buffered') <= ErrorLimit
  <2> DEFINE k == IF n < ErrorLimit THEN n ELSE ErrorLimit
  <2>1. k \in 0..Len(body) /\ k <= ErrorLimit /\ body \in Seq(Bytes)
    BY <1>1, <1>3, BodyFacts, ImagesTyped DEF BodySound
  <2> HIDE DEF k
  <2> QED
    BY <1>1, <1>3, <2>1, BodyFacts, StartsBody DEF k
<1>8. at = "error" /\ head = "error" /\ pieces = 0 /\ buffered' \in Seq(Bytes)
  BY <1>1, <1>3, BodyFacts, BodyTyped, ImagesTyped
     DEF ReadError, Progress, Checked, Working
<1>9. ImageTypeOK'
  BY <1>1, <1>2, <1>4, <1>7, <1>8, BodyTyped DEF ImageTypeOK, ReadError
<1>10. Progress'
  BY <1>1, <1>2, <1>8, BodyTyped DEF ReadError, Progress, Working
<1>11. Checked'
  BY <1>1, <1>2, <1>5, <1>8, BodyTyped DEF ReadError, Checked, Progress, Working, Delivers
<1>12. Fits' /\ ImageOutcomeFits'
  BY <1>1, <1>2, <1>8, BodyTyped DEF ReadError, Fits, ImageOutcomeFits
<1> QED
  BY <1>6, <1>9, <1>10, <1>11, <1>12 DEF ImageInv

LEMMA KeepsReadImage ==
  ASSUME ImageInv, operation = "images", ReadImage
  PROVE  ImageInv'
<1>1. BodySound /\ ImageTypeOK /\ Progress /\ Checked /\ Fits /\ ImageOutcomeFits
  BY DEF ImageInv
<1>2. UNCHANGED <<operation, body, taken, channel, client, shutdown>>
  BY DEF ReadImage, requestVars, clientVars
<1>3. PICK n \in 1..Len(body) :
        /\ Reads(n)
        /\ IF n - Received > ResponseLimit - Len(buffered)
           THEN Has("bad_gateway", "uninspected") /\ UNCHANGED buffered
           ELSE buffered' = SubSeq(body, 1, n) /\ UNCHANGED <<at, reply, outcome>>
  BY DEF ReadImage
<1>4. Received' = n /\ ends' \in Seq(1..Len(body)) /\ Len(ends') <= MaxChunks
  BY <1>1, <1>2, <1>3, ReadsFacts
<1>5. (HasImages' <=> HasImages) /\ Relayed' = Relayed
  BY <1>2, RelayedStill DEF HasImages
<1>6. BodySound'
  BY <1>1, <1>2, <1>4 DEF BodySound
<1>7. /\ at = "body" /\ head = "json" /\ pieces = 0 /\ reply = NONE /\ reason = NONE
      /\ status = NONE /\ outcome = "premature_eof" /\ Len(buffered) = Received
      /\ Len(buffered) <= ResponseLimit
  BY <1>1, BodyFacts, BodyTyped DEF ReadImage, Progress, Checked, Working, ImageTypeOK
<1>8. Received \in Nat /\ n \in Nat /\ body \in Seq(Bytes)
  BY <1>1, <1>3, BodyFacts DEF BodySound
<1>9. CASE n - Received > ResponseLimit - Len(buffered)
  <2>1. n > ResponseLimit /\ Has("bad_gateway", "uninspected") /\ UNCHANGED buffered
    BY <1>3, <1>7, <1>8, <1>9, ImagesTyped
  <2>2. ImageTypeOK'
    BY <1>1, <1>2, <1>4, <1>7, <2>1, BodyTyped DEF ImageTypeOK, ReadImage, Has
  <2>3. Progress' /\ Checked'
    BY <1>1, <1>2, <1>5, <1>7, <2>1, BodyTyped
       DEF ReadImage, Progress, Working, Checked, Delivers, Has
  <2>4. Fits' /\ ImageOutcomeFits'
    BY <1>1, <1>2, <1>4, <1>7, <1>8, <2>1, BodyTyped, ImagesTyped
       DEF ReadImage, Fits, ImageOutcomeFits, Good, Whole, Has
  <2> QED
    BY <1>6, <2>2, <2>3, <2>4 DEF ImageInv
<1>10. CASE ~(n - Received > ResponseLimit - Len(buffered))
  <2>1. n <= ResponseLimit /\ buffered' = SubSeq(body, 1, n) /\ UNCHANGED <<at, reply, outcome>>
    BY <1>3, <1>7, <1>8, <1>10, ImagesTyped
  <2>2. IsPrefix(buffered', body) /\ Len(buffered') <= ResponseLimit /\ Len(buffered') \in Nat
    BY <1>1, <1>8, <2>1, BodyFacts, StartsBody
  <2>3. ImageTypeOK'
    BY <1>1, <1>2, <1>4, <1>7, <2>1, <2>2, BodyTyped DEF ImageTypeOK, ReadImage
  <2>4. Progress' /\ Checked'
    BY <1>1, <1>2, <1>4, <1>5, <1>7, <2>1, BodyTyped
       DEF ReadImage, Progress, Working, Checked, Delivers
  <2>5. Fits' /\ ImageOutcomeFits'
    BY <1>1, <1>2, <1>7, <2>1, BodyTyped DEF ReadImage, Fits, ImageOutcomeFits
  <2> QED
    BY <1>6, <2>3, <2>4, <2>5 DEF ImageInv
<1> QED
  BY <1>9, <1>10

\* Both kinds of response: what the environment does to what is delivered.
LEMMA ClientReadsDelivers ==
  ASSUME BodySound, ClientReads, NEW k \in 0..Len(body), Delivers(k)
  PROVE  BodySound' /\ IsPrefix(taken', body) /\ Relayed' = SubSeq(body, 1, k)
<1>1. Relayed' = SubSeq(body, 1, k)
  BY RelayedReads DEF ClientReads, Delivers
<1>2. taken' \in Seq(Bytes) /\ channel' \in Seq(Seq(Bytes))
  BY DEF BodySound, ClientReads
<1>3. BodySound'
  BY <1>2 DEF BodySound, ClientReads, requestVars
<1>4. FlattenSeq(channel') \in Seq(Bytes) /\ taken' \o FlattenSeq(channel') = Relayed'
  BY <1>2, FlattenTyped DEF Relayed
<1>5. IsPrefix(taken', body)
  <2>1. body \in Seq(Bytes)
    BY DEF BodySound
  <2> QED
    BY <1>1, <1>2, <1>4, <2>1, PrefixOfBody
<1> QED
  BY <1>1, <1>3, <1>5

LEMMA KeepsSendPiece ==
  ASSUME ImageInv, operation = "images", SendPiece
  PROVE  ImageInv'
<1>1. BodySound /\ ImageTypeOK /\ Progress /\ Checked /\ Fits /\ ImageOutcomeFits
  BY DEF ImageInv
<1>2. UNCHANGED <<operation, body, ends, taken, client, shutdown, head, buffered, reply, status,
                  metadata>>
  BY DEF SendPiece, requestVars
<1>3. /\ at = "send" /\ client = "there" /\ outcome = "completed" /\ reason = NONE
      /\ status = "image" /\ reply = "image" /\ Good /\ buffered = body
      /\ metadata = Report(body)
  BY <1>1, BodyTyped DEF SendPiece, Undisturbed, Progress, Checked, ImageTypeOK
<1>4. PICK next \in pieces..Len(body) :
        /\ channel' = Append(channel, SubSeq(body, pieces + 1, next))
        /\ pieces' = next
        /\ IF next = Len(body) THEN Finishes("eof", outcome)
           ELSE UNCHANGED <<at, reason, outcome>>
  <2> DEFINE next == IF pieces + PieceSize < Len(buffered) THEN pieces + PieceSize
                     ELSE Len(buffered)
  <2>1. next \in pieces..Len(body)
    BY <1>1, <1>3, BodyFacts, ImagesTyped DEF ImageTypeOK
  <2>2. /\ channel' = Append(channel, SubSeq(body, pieces + 1, next))
        /\ pieces' = next
        /\ IF next = Len(body) THEN Finishes("eof", outcome)
           ELSE UNCHANGED <<at, reason, outcome>>
    BY <1>3 DEF SendPiece
  <2> HIDE DEF next
  <2> QED
    BY <2>1, <2>2
<1>5. /\ Received' = Received /\ (HasImages' <=> HasImages)
  BY <1>2, BodyStill
<1>6. /\ body \in Seq(Bytes) /\ pieces \in 0..Len(body) /\ next \in 0..Len(body)
      /\ channel \in Seq(Seq(Bytes)) /\ channel = <<>>
  <2>1. body \in Seq(Bytes) /\ channel \in Seq(Seq(Bytes)) /\ Len(channel) < 1
    BY <1>1 DEF BodySound, SendPiece
  <2>2. pieces \in 0..Len(body)
    BY <1>1, <1>3 DEF ImageTypeOK
  <2> QED
    BY <1>4, <2>1, <2>2
<1>7. SubSeq(body, pieces + 1, next) \in Seq(Bytes)
  <2>1. \A i \in (pieces + 1)..next : body[i] \in Bytes
    BY <1>4, <1>6
  <2> QED
    BY <1>6, <2>1, SubSeqProperties
<1>8. Relayed' = SubSeq(body, 1, next)
  <2>1. Relayed' = Relayed \o SubSeq(body, pieces + 1, next)
    BY <1>1, <1>2, <1>4, <1>7, RelayedSends
  <2>2. Relayed = SubSeq(body, 1, pieces)
    BY <1>1, <1>3 DEF Checked, Delivers
  <2>3. 1 \in 1..(Len(body) + 1) /\ pieces \in (1 - 1)..Len(body) /\ next \in pieces..Len(body)
    BY <1>4, <1>6
  <2> QED
    BY <1>6, <2>1, <2>2, <2>3, ConcatAdjacentSubSeq
<1>9. channel' \in Seq(Seq(Bytes)) /\ Len(channel') = 1
  BY <1>4, <1>6, <1>7
<1>10. BodySound'
  BY <1>1, <1>2, <1>3, <1>9 DEF BodySound
<1>11. ImageTypeOK'
  BY <1>1, <1>2, <1>3, <1>4, <1>6, <1>9, BodyTyped DEF ImageTypeOK, Finishes
<1>12. Progress' /\ Fits'
  BY <1>1, <1>2, <1>3, <1>4, BodyTyped DEF Progress, Working, Fits, Finishes
<1>13. Checked'
  BY <1>1, <1>2, <1>3, <1>4, <1>5, <1>8
     DEF Checked, Delivers, Good, Whole, Finishes
<1>14. ImageOutcomeFits'
  BY <1>1, <1>2, <1>3, <1>4, <1>5, BodyTyped
     DEF ImageOutcomeFits, Good, Whole, Finishes
<1> QED
  BY <1>10, <1>11, <1>12, <1>13, <1>14 DEF ImageInv

LEMMA KeepsEnvironment ==
  ASSUME ImageInv, operation = "images", EnvironmentNext,
         UNCHANGED <<head, buffered, reply, status, metadata, pieces>>
  PROVE  ImageInv'
<1>1. BodySound /\ ImageTypeOK /\ Progress /\ Checked /\ Fits /\ ImageOutcomeFits
  BY DEF ImageInv
<1>2. UNCHANGED <<operation, body, ends, at, reason, outcome>>
  BY DEF EnvironmentNext, ClientReads, ClientLeaves, Shutdown, requestVars
<1>3. Received' = Received /\ (HasImages' <=> HasImages)
  BY <1>2, BodyStill
<1>4. Progress' /\ Fits'
  BY <1>1, <1>2, <1>3 DEF Progress, Working, Fits, Good, Whole
<1>5. CASE ClientReads
  <2>1. client = "there" /\ client' = client /\ shutdown' = shutdown /\ channel # <<>>
    BY <1>5 DEF ClientReads
  <2>2. status = "image" /\ pieces \in 0..Len(body) /\ Delivers(pieces)
    BY <1>1, <2>1, BodyFacts, BodyTyped DEF Checked, ImageTypeOK
  <2>3. BodySound' /\ IsPrefix(taken', body) /\ Relayed' = SubSeq(body, 1, pieces)
    BY <1>1, <1>5, <2>2, ClientReadsDelivers
  <2>4. Len(channel') <= 1
    BY <1>1, <1>5 DEF ClientReads, BodySound, ImageTypeOK
  <2>5. ImageTypeOK' /\ ImageOutcomeFits'
    BY <1>1, <1>2, <1>3, <2>1, <2>4 DEF ImageTypeOK, ImageOutcomeFits
  <2>6. Checked'
    BY <1>1, <1>2, <1>3, <2>2, <2>3 DEF Checked, Delivers, Good, Whole
  <2> QED
    BY <1>4, <2>3, <2>5, <2>6 DEF ImageInv
<1>6. CASE ClientLeaves
  <2>1. client' = "gone" /\ channel' = <<>> /\ taken' = taken /\ shutdown' = shutdown
    BY <1>6 DEF ClientLeaves
  <2>2. BodySound' /\ Len(channel') <= 1
    BY <1>1, <1>2, <2>1 DEF BodySound
  <2>3. ImageTypeOK' /\ ImageOutcomeFits'
    BY <1>1, <1>2, <1>3, <2>1, <2>2 DEF ImageTypeOK, ImageOutcomeFits
  <2>4. Checked'
    BY <1>1, <1>2, <1>3, <2>1 DEF Checked, Delivers, Good, Whole
  <2> QED
    BY <1>4, <2>2, <2>3, <2>4 DEF ImageInv
<1>7. CASE Shutdown
  <2>1. UNCHANGED <<taken, channel, client>> /\ shutdown' = TRUE
    BY <1>7 DEF Shutdown, clientVars
  <2>2. Relayed' = Relayed
    BY <2>1, RelayedStill
  <2>3. BodySound' /\ ImageTypeOK' /\ ImageOutcomeFits'
    BY <1>1, <1>2, <1>3, <2>1 DEF BodySound, ImageTypeOK, ImageOutcomeFits
  <2>4. Checked'
    BY <1>1, <1>2, <1>3, <2>1, <2>2 DEF Checked, Delivers, Good, Whole
  <2> QED
    BY <1>4, <2>3, <2>4 DEF ImageInv
<1> QED
  BY <1>5, <1>6, <1>7 DEF EnvironmentNext

-----------------------------------------------------------------------------
(* Streams                                                                 *)

\* How much had been read before the last chunk.
Before == IF Len(ends) < 2 THEN 0 ELSE ends[Len(ends) - 1]

\* The channel was handed all that was read, but for the chunk at hand.
StreamInv ==
  operation = "responses" =>
    /\ BodySound /\ StreamTypeOK
    /\ observer \in Observers
    /\ Before \in 0..Received
    /\ \E k \in {Before, Received} : Delivers(k)
    /\ at = "read" \/ reason \in {"eof", "premature_eof"} => Delivers(Received)
    /\ at = "send" => Delivers(Before)
    /\ at # "over" => reason = NONE
    /\ reason = "client_disconnect" => client = "gone"

LEMMA BeforeStill ==
  ASSUME UNCHANGED ends
  PROVE  Before' = Before /\ Received' = Received
BY DEF Before, Received

LEMMA KeepsReadChunk ==
  ASSUME StreamInv, operation = "responses", ReadChunk
  PROVE  StreamInv'
<1>1. BodySound /\ StreamTypeOK /\ observer \in Observers /\ Delivers(Received) /\ reason = NONE
  BY DEF StreamInv, ReadChunk
<1>2. UNCHANGED <<operation, body, channel, taken, client, shutdown, reason, outcome>>
  BY DEF ReadChunk, requestVars, clientVars
<1>3. PICK n \in 1..Len(body) :
        /\ Reads(n)
        /\ observer' = Feed(observer, SubSeq(body, Received + 1, n), Len(ends) + 1)
  BY DEF ReadChunk
<1>4. Received' = n /\ n > Received /\ ends' \in Seq(1..Len(body)) /\ Len(ends') <= MaxChunks
  BY <1>1, <1>2, <1>3, ReadsFacts
<1>5. Before' = Received
  <2>1. ends \in Seq(1..Len(body)) /\ n \in 1..Len(body) /\ ends' = Append(ends, n)
    BY <1>1, <1>3 DEF Reads, BodySound
  <2>2. /\ Len(ends') = Len(ends) + 1 /\ Len(ends) \in Nat
        /\ (ends = <<>>) <=> (Len(ends) = 0)
        /\ \A i \in 1..Len(ends) : ends'[i] = ends[i]
    BY ONLY <2>1, AppendProperties, EmptySeq
  <2> QED
    BY <2>2 DEF Before, Received, Last
<1>6. observer' \in Observers /\ Len(observer'.buffer) <= EventLimit
  <2>1. \A i \in (Received + 1)..n : body[i] \in Bytes
    BY <1>1, BodyFacts DEF BodySound
  <2>2. SubSeq(body, Received + 1, n) \in Seq(Bytes)
    BY <1>1, <2>1, BodyFacts, SubSeqProperties
  <2>3. Len(ends) + 1 \in Nat /\ Len(observer.buffer) <= EventLimit
    BY <1>1 DEF BodySound, StreamTypeOK
  <2> QED
    BY <1>1, <1>3, <2>2, <2>3, FeedTyped
<1>7. BodySound' /\ StreamTypeOK'
  <2>1. at' = "send" /\ observer'.failed \in BOOLEAN /\ DOMAIN observer'.seen = DOMAIN Unobserved
    BY <1>6 DEF ReadChunk, Observers, Seen, Unobserved
  <2> QED
    BY <1>1, <1>2, <1>4, <1>6, <2>1 DEF BodySound, StreamTypeOK
<1>8. Delivers(Before)'
  BY <1>1, <1>2, <1>5, RelayedStill DEF Delivers
<1>9. at' = "send" /\ reason' = NONE /\ Before' \in 0..Received'
  BY <1>1, <1>2, <1>4, <1>5, BodyFacts DEF ReadChunk
<1> QED
  BY <1>6, <1>7, <1>8, <1>9, BodyTyped DEF StreamInv

LEMMA KeepsSend ==
  ASSUME StreamInv, operation = "responses", Send
  PROVE  StreamInv'
<1>1. /\ BodySound /\ StreamTypeOK /\ observer \in Observers /\ Delivers(Before)
      /\ reason = NONE /\ Before \in 0..Received
  BY DEF StreamInv, Send
<1>2. UNCHANGED <<operation, body, ends, observer, taken, client, shutdown, reason, outcome>>
  BY DEF Send, requestVars
<1>3. Before' = Before /\ Received' = Received
  BY <1>2, BeforeStill
<1>4. body \in Seq(Bytes) /\ Received \in 0..Len(body) /\ Before \in 0..Len(body)
  BY <1>1, BodyFacts DEF BodySound
<1>5. Chunk \in Seq(Bytes) /\ Chunk = SubSeq(body, Before + 1, Received)
  <2>1. Chunk = SubSeq(body, Before + 1, Received)
    BY DEF Chunk, Before
  <2>2. \A i \in (Before + 1)..Received : body[i] \in Bytes
    BY <1>4
  <2> QED
    BY <1>4, <2>1, <2>2, SubSeqProperties
<1>6. Relayed' = SubSeq(body, 1, Received)
  <2>1. Relayed' = Relayed \o SubSeq(body, Before + 1, Received)
    BY <1>1, <1>2, <1>5, RelayedSends DEF Send
  <2>2. Relayed = SubSeq(body, 1, Before)
    BY <1>1 DEF Delivers, Send
  <2>3. 1 \in 1..(Len(body) + 1) /\ Before \in (1 - 1)..Len(body) /\ Received \in Before..Len(body)
    BY <1>1, <1>4
  <2> QED
    BY <1>4, <2>1, <2>2, <2>3, ConcatAdjacentSubSeq
<1>7. Delivers(Received)'
  BY <1>1, <1>2, <1>3, <1>6 DEF Delivers
<1>8. channel' \in Seq(Seq(Bytes)) /\ Len(channel') <= Capacity
  BY <1>1, <1>5, BodiesTyped DEF Send, BodySound
<1>9. BodySound' /\ StreamTypeOK'
  BY <1>1, <1>2, <1>8 DEF BodySound, StreamTypeOK, Send
<1>10. at' = "read" /\ reason' = NONE
  BY <1>1, <1>2 DEF Send
<1> QED
  BY <1>1, <1>2, <1>3, <1>7, <1>9, <1>10, BodyTyped DEF StreamInv

\* However it ends, what was handed over stays.
LEMMA KeepsOver ==
  ASSUME StreamInv, operation = "responses", at # "over", NEW o \in Observers,
         Len(o.buffer) <= EventLimit,
         NEW why \in {"eof", "shutdown", "client_disconnect", "premature_eof"},
         why \in {"eof", "premature_eof"} => at = "read",
         why = "client_disconnect" => client = "gone",
         Over(o, why)
  PROVE  StreamInv'
<1>1. /\ BodySound /\ StreamTypeOK /\ Before \in 0..Received
      /\ \E k \in {Before, Received} : Delivers(k)
      /\ at = "read" => Delivers(Received)
  BY DEF StreamInv
<1>2. /\ UNCHANGED <<operation, body, ends, taken, channel, client, shutdown>>
      /\ at' = "over" /\ reason' = why /\ observer' = o
  BY DEF Over, requestVars, clientVars
<1>3. Before' = Before /\ Received' = Received /\ Relayed' = Relayed
  BY <1>2, BeforeStill, RelayedStill
<1>4. \A k \in {Before, Received} : Delivers(k) =>
        IsPrefix(taken', body') /\ (client' = "there" => Relayed' = SubSeq(body', 1, k))
  BY <1>2, <1>3 DEF Delivers
<1>5. \E k \in {Before', Received'} : Delivers(k)'
  BY <1>1, <1>3, <1>4 DEF Delivers
<1>6. reason' \in {"eof", "premature_eof"} => Delivers(Received)'
  BY <1>1, <1>2, <1>3, <1>4 DEF Delivers
<1>7. outcome' \in {"completed", "incomplete", "failed", "premature_eof",
                    "uninspected", "client_disconnect", "shutdown"}
  <2>1. o.seen.outcome \in {NULL, "completed", "incomplete", "failed"}
    BY DEF Observers, Seen
  <2> QED
    BY <2>1 DEF Over, Outcome
<1>8. BodySound' /\ StreamTypeOK'
  <2>1. o.failed \in BOOLEAN /\ DOMAIN o.seen = DOMAIN Unobserved
    BY DEF Observers, Seen, Unobserved
  <2> QED
    BY <1>1, <1>2, <1>7, <2>1 DEF BodySound, StreamTypeOK
<1> QED
  BY <1>1, <1>2, <1>3, <1>5, <1>6, <1>8 DEF StreamInv

LEMMA KeepsStreamEnvironment ==
  ASSUME StreamInv, operation = "responses", EnvironmentNext, UNCHANGED observer
  PROVE  StreamInv'
<1>1. /\ BodySound /\ StreamTypeOK /\ observer \in Observers /\ Before \in 0..Received
      /\ Received \in 0..Len(body)
  BY BodyFacts DEF StreamInv
<1>2. UNCHANGED <<operation, body, ends, at, reason, outcome, observer>>
  BY DEF EnvironmentNext, ClientReads, ClientLeaves, Shutdown, requestVars
<1>3. Before' = Before /\ Received' = Received
  BY <1>2, BeforeStill
<1>4. /\ BodySound' /\ Len(channel') <= Capacity
      /\ client = "gone" => client' = "gone"
      /\ \A k \in {Before, Received} : Delivers(k) =>
           IsPrefix(taken', body) /\ (client' = "there" => Relayed' = SubSeq(body, 1, k))
  <2>1. CASE ClientReads
    <3>1. Len(channel') <= Capacity
      BY <1>1, <2>1, BodiesTyped DEF ClientReads, BodySound, StreamTypeOK
    <3>2. BodySound'
      <4>1. taken' \in Seq(Bytes) /\ channel' \in Seq(Seq(Bytes))
        BY <1>1, <2>1 DEF BodySound, ClientReads
      <4> QED
        BY <1>1, <2>1, <4>1 DEF BodySound, ClientReads, requestVars
    <3>3. \A k \in {Before, Received} : k \in 0..Len(body)
      BY <1>1
    <3> QED
      BY <1>1, <2>1, <3>1, <3>2, <3>3, ClientReadsDelivers DEF ClientReads
  <2>2. CASE ClientLeaves
    BY <1>1, <1>2, <2>2, BodiesTyped DEF ClientLeaves, BodySound, Delivers
  <2>3. CASE Shutdown
    <3>1. UNCHANGED <<taken, channel, client>> /\ shutdown' = TRUE
      BY <2>3 DEF Shutdown, clientVars
    <3> QED
      BY <1>1, <1>2, <3>1, RelayedStill DEF BodySound, StreamTypeOK, Delivers
  <2> QED
    BY <2>1, <2>2, <2>3 DEF EnvironmentNext
<1>5. StreamTypeOK'
  BY <1>1, <1>2, <1>4 DEF StreamTypeOK, BodySound
<1>6. \A k \in {Before, Received} : Delivers(k) =>
        IsPrefix(taken', body') /\ (client' = "there" => Relayed' = SubSeq(body', 1, k))
  BY <1>2, <1>4
<1>7. \E k \in {Before', Received'} : Delivers(k)'
  BY <1>3, <1>6 DEF Delivers, StreamInv
<1>8. /\ (at' = "read" \/ reason' \in {"eof", "premature_eof"}) => Delivers(Received)'
      /\ at' = "send" => Delivers(Before)'
  BY <1>2, <1>3, <1>6 DEF Delivers, StreamInv
<1> QED
  BY <1>1, <1>2, <1>3, <1>4, <1>5, <1>7, <1>8 DEF StreamInv

LEMMA KeepsStream ==
  ASSUME StreamInv, operation = "responses", StreamNext
  PROVE  StreamInv'
<1>1. /\ BodySound /\ StreamTypeOK /\ observer \in Observers
      /\ Len(observer.buffer) <= EventLimit
  BY DEF StreamInv, StreamTypeOK
<1>2. CASE ReadChunk
  BY <1>2, KeepsReadChunk
<1>3. CASE Send
  BY <1>3, KeepsSend
<1>4. CASE SendFails
  BY <1>1, <1>4, KeepsOver DEF SendFails
<1>5. CASE StopsForShutdown
  BY <1>1, <1>5, KeepsOver DEF StopsForShutdown
<1>6. CASE UpstreamEnds
  BY <1>1, <1>6, KeepsOver, FinishTyped DEF UpstreamEnds
<1>7. CASE UpstreamFails
  BY <1>1, <1>7, KeepsOver DEF UpstreamFails
<1>8. CASE EnvironmentNext /\ UNCHANGED observer
  BY <1>8, KeepsStreamEnvironment
<1> QED
  BY <1>2, <1>3, <1>4, <1>5, <1>6, <1>7, <1>8 DEF StreamNext

LEMMA KeepsImages ==
  ASSUME ImageInv, operation = "images", ImageNext
  PROVE  ImageInv'
<1>1. CASE CallFails \/ Answered \/ ReadError \/ ErrorRead
  BY <1>1, KeepsCallFails, KeepsAnswered, KeepsReadError, KeepsErrorRead
<1>2. CASE ReadImage \/ ImageRead \/ BodyBreaks
  BY <1>2, KeepsReadImage, KeepsImageRead, KeepsBodyBreaks
<1>3. CASE WorkShutdown \/ WorkCancelled \/ WorkTimesOut
  BY <1>3, KeepsWorkShutdown, KeepsWorkCancelled, KeepsWorkTimesOut
<1>4. CASE ReplyUnwanted \/ Reply
  BY <1>4, KeepsReplyUnwanted, KeepsReply
<1>5. CASE SendPiece
  BY <1>5, KeepsSendPiece
<1>6. CASE SendShutdown \/ SendUnwanted \/ SendTimesOut
  BY <1>6, KeepsSendShutdown, KeepsSendUnwanted, KeepsSendTimesOut
<1>7. CASE EnvironmentNext /\ UNCHANGED <<head, buffered, reply, status, metadata, pieces>>
  BY <1>7, KeepsEnvironment
<1> QED
  BY <1>1, <1>2, <1>3, <1>4, <1>5, <1>6, <1>7 DEF ImageNext

-----------------------------------------------------------------------------
(* The task                                                                *)

TaskInv == operation \in {"responses", "images"} /\ StreamInv /\ ImageInv

LEMMA BodyStarts ==
  ASSUME BodyInit, body \in Bodies \cup ImageBodies
  PROVE  BodySound /\ Received = 0 /\ Before = 0 /\ Delivers(0)
<1>1. body \in Seq(Bytes)
  <2>1. body \in Seq(Range(body)) /\ Range(body) \subseteq Bytes
    BY BodiesTyped, ImagesTyped DEF Bytes
  <2> QED
    BY <2>1, SeqMonotonic
<1>2. /\ ends = <<>> /\ taken = <<>> /\ channel = <<>> /\ client = "there" /\ shutdown = FALSE
      /\ Len(<<>>) = 0
  BY DEF BodyInit
<1>3. BodySound
  <2>1. /\ <<>> \in Seq(1..Len(body)) /\ <<>> \in Seq(Bytes) /\ <<>> \in Seq(Seq(Bytes))
        /\ 0 <= MaxChunks
    BY BodyTyped
  <2> QED
    BY <1>1, <1>2, <2>1 DEF BodySound
<1>4. Received = 0 /\ Before = 0
  BY <1>2 DEF Received, Before
<1>5. SubSeq(body, 1, 0) = <<>>
  OBVIOUS
<1>6. Relayed = <<>>
  <2>1. <<>> \o <<>> = <<>>
    BY ONLY ConcatEmptySeq, EmptySeq
  <2> QED
    BY <1>2, <2>1, FlattenNone DEF Relayed
<1>7. IsPrefix(<<>>, body)
  <2>1. 0 \in 0..Len(body)
    BY <1>1
  <2> QED
    BY <1>1, <1>5, <2>1, StartsBody
<1> QED
  BY <1>2, <1>3, <1>4, <1>5, <1>6, <1>7 DEF Delivers

LEMMA TaskStarts == Init => TaskInv
<1> SUFFICES ASSUME Init PROVE TaskInv
  OBVIOUS
<1>1. CASE StreamInit
  <2>1. BodySound /\ Received = 0 /\ Before = 0 /\ Delivers(0)
    BY <1>1, BodyStarts DEF StreamInit
  <2>2. observer \in Observers /\ Len(observer.buffer) = 0
    BY <1>1 DEF StreamInit, NewObserver, Unobserved, Observers, Seen
  <2>3. StreamTypeOK
    BY <1>1, <2>1, <2>2, ObserverTyped, BodiesTyped
       DEF StreamInit, BodyInit, BodySound, StreamTypeOK, NewObserver
  <2>4. StreamInv
    BY <1>1, <2>1, <2>2, <2>3, BodyTyped DEF StreamInit, BodyInit, StreamInv
  <2> QED
    BY <1>1, <2>4 DEF StreamInit, TaskInv, ImageInv
<1>2. CASE ImageInit
  <2>1. BodySound /\ Received = 0 /\ Before = 0 /\ Delivers(0)
    BY <1>2, BodyStarts DEF ImageInit
  <2>2. IsPrefix(<<>>, body)
    BY <1>2, <2>1 DEF Delivers, ImageInit, BodyInit
  <2>3. ImageTypeOK
    BY <1>2, <2>1, <2>2, BodyTyped, ImagesTyped
       DEF ImageInit, BodyInit, BodySound, ImageTypeOK
  <2>4. Progress /\ Fits /\ ImageOutcomeFits
    BY <1>2, BodyTyped DEF ImageInit, BodyInit, Progress, Working, Fits, ImageOutcomeFits
  <2>5. Checked
    BY <1>2, <2>1, BodyTyped DEF ImageInit, BodyInit, Checked
  <2>6. ImageInv
    BY <2>1, <2>3, <2>4, <2>5 DEF ImageInv
  <2> QED
    BY <1>2, <2>6 DEF ImageInit, TaskInv, StreamInv
<1> QED
  BY <1>1, <1>2 DEF Init

LEMMA TaskSteps == TaskInv /\ [Next]_vars => TaskInv'
<1> SUFFICES ASSUME TaskInv, [Next]_vars PROVE TaskInv'
  OBVIOUS
<1>1. CASE operation = "responses" /\ StreamNext
  <2>1. operation' = operation
    BY <1>1 DEF StreamNext, ReadChunk, Send, SendFails, StopsForShutdown, UpstreamEnds,
       UpstreamFails, Over, EnvironmentNext, ClientReads, ClientLeaves, Shutdown, requestVars
  <2> QED
    BY <1>1, <2>1, KeepsStream DEF TaskInv, ImageInv
<1>2. CASE operation = "images" /\ ImageNext
  <2>1. operation' = operation
    BY <1>2 DEF ImageNext, CallFails, Answered, ReadError, ErrorRead, ReadImage, ImageRead,
       BodyBreaks, WorkShutdown, WorkCancelled, WorkTimesOut, Interrupts, ReplyUnwanted, Reply,
       SendPiece, SendShutdown, SendUnwanted, SendTimesOut, SendStops, EnvironmentNext,
       ClientReads, ClientLeaves, Shutdown, requestVars
  <2> QED
    BY <1>2, <2>1, KeepsImages DEF TaskInv, StreamInv
<1>3. CASE UNCHANGED vars
  <2>1. UNCHANGED <<operation, body, ends, at, channel, taken, client, shutdown, reason,
                    outcome, observer, head, buffered, reply, status, metadata, pieces>>
    BY <1>3 DEF vars, streamVars, imageVars, bodyVars, requestVars, clientVars
  <2>2. /\ Received' = Received /\ Before' = Before /\ Relayed' = Relayed
        /\ (HasImages' <=> HasImages)
    BY <2>1, BodyStill, BeforeStill, RelayedStill
  <2>3. operation = "responses" => StreamInv'
    BY <2>1, <2>2 DEF TaskInv, StreamInv, BodySound, StreamTypeOK, Delivers
  <2>4. operation = "images" => ImageInv'
    BY <2>1, <2>2 DEF TaskInv, ImageInv, BodySound, ImageTypeOK, Progress, Checked, Fits,
       ImageOutcomeFits, Working, Whole, Good, Delivers
  <2> QED
    BY <2>1, <2>3, <2>4 DEF TaskInv, StreamInv, ImageInv
<1> QED
  BY <1>1, <1>2, <1>3 DEF Next

LEMMA TaskAlways == Spec => []TaskInv
BY TaskStarts, TaskSteps, PTL DEF Spec

\* The type invariant: in particular neither the observer nor an image's buffer
\* ever holds more than its limit, and the channel no more than its capacity.
THEOREM TaskTyped == Spec => []TypeOK
<1>1. TaskInv => TypeOK
  BY DEF TaskInv, StreamInv, ImageInv, TypeOK
<1> QED
  BY <1>1, TaskAlways, PTL

\* Whatever upstream sends in whatever chunks, whatever the observer makes of it
\* and whatever interrupts the task, a client that stays gets a prefix of it, and
\* all that was received if the task was not stopped.
THEOREM StreamsUnchanged == Spec => []RelayedUnchanged
<1>1. TaskInv => RelayedUnchanged
  <2> SUFFICES ASSUME TaskInv, operation = "responses", client = "there"
               PROVE  /\ IsPrefix(Relayed, body)
                      /\ at = "read" \/ reason \in {"eof", "premature_eof"} =>
                           Len(Relayed) = Received
    BY DEF RelayedUnchanged
  <2>1. BodySound /\ body \in Seq(Bytes) /\ Before \in 0..Received
    BY DEF TaskInv, StreamInv, BodySound
  <2>2. PICK k \in {Before, Received} : Relayed = SubSeq(body, 1, k)
    BY DEF TaskInv, StreamInv, Delivers
  <2>3. k \in 0..Len(body)
    BY <2>1, BodyFacts
  <2>4. IsPrefix(Relayed, body)
    BY <2>1, <2>2, <2>3, StartsBody
  <2>5. at = "read" \/ reason \in {"eof", "premature_eof"} => Relayed = SubSeq(body, 1, Received)
    BY DEF TaskInv, StreamInv, Delivers
  <2> QED
    BY <2>1, <2>4, <2>5, BodyFacts
<1> QED
  BY <1>1, TaskAlways, PTL

\* Nothing of an image response is relayed before all of it was checked, then it
\* arrives byte for byte, and all of it if the record says so.
THEOREM ImagesAreChecked == Spec => []OnlyCheckedImages
<1>1. TaskInv => OnlyCheckedImages
  <2> SUFFICES ASSUME TaskInv, operation = "images" PROVE OnlyCheckedImages
    BY DEF OnlyCheckedImages
  <2>1. BodySound /\ ImageTypeOK /\ Checked /\ body \in Seq(Bytes)
    BY DEF TaskInv, ImageInv, BodySound
  <2>2. client = "gone" => Relayed = taken
    <3>1. taken \o <<>> = taken
      BY <2>1, ConcatEmptySeq DEF BodySound
    <3> QED
      BY <2>1, <3>1, FlattenNone DEF BodySound, Relayed
  <2>3. status # "image" => Relayed = <<>>
    <3>1. <<>> \o <<>> = <<>>
      BY ONLY ConcatEmptySeq, EmptySeq
    <3> QED
      BY <2>1, <3>1, FlattenNone DEF Checked, Relayed
  <2>4. status = "image" => Received = Len(body) /\ Len(body) <= ResponseLimit /\ HasImages
    BY <2>1, BodyTyped DEF ImageTypeOK, Checked, Good, Whole
  <2>5. pieces \in 0..Len(body) \/ status # "image"
    BY <2>1, BodyTyped DEF ImageTypeOK, Checked
  <2>6. IsPrefix(Relayed, body)
    <3>1. CASE client = "gone"
      BY <2>1, <2>2, <3>1 DEF Checked, Delivers
    <3>2. CASE client = "there" /\ status = "image"
      BY <2>1, <2>5, <3>2, StartsBody DEF Checked, Delivers
    <3>3. CASE client = "there" /\ status # "image"
      <4>1. 0 \in 0..Len(body) /\ SubSeq(body, 1, 0) = <<>>
        BY <2>1, BodyFacts
      <4> QED
        BY <2>1, <2>3, <3>3, <4>1, StartsBody
    <3> QED
      BY <2>1, <3>1, <3>2, <3>3 DEF BodySound
  <2>7. outcome = "completed" /\ at = "over" /\ client = "there" => Relayed = body
    BY <2>1, BodyFacts DEF Checked, Delivers
  <2> QED
    BY <2>3, <2>4, <2>6, <2>7 DEF OnlyCheckedImages
<1> QED
  BY <1>1, TaskAlways, PTL

\* The outcome and the usage that an images request is recorded with are those of
\* what became of it.
THEOREM ImageOutcomesFit == Spec => []ImageOutcomeFits
<1>1. TaskInv => ImageOutcomeFits
  BY DEF TaskInv, ImageInv, ImageOutcomeFits
<1> QED
  BY <1>1, TaskAlways, PTL

-----------------------------------------------------------------------------
(* The task as the life cycle has it: what its variables stand for changes  *)
(* as in the step of the life cycle that each step of the task is.          *)

LEMMA StreamOverMaps ==
  ASSUME operation \in Operations, TaskAt = "stream", TaskAt' = "finish",
         NEW o, outcome' = o, o # NONE,
         UNCHANGED <<operation, client, shutdown>>, Sent' = Sent
  PROVE  Lifecycle!StreamOver(operation, o)
BY DEF Lifecycle!StreamOver, Lifecycle!Conclude, Lifecycle!permitVars, Only, Operations

LEMMA EndsMaps ==
  ASSUME operation \in Operations, TaskAt = "work", TaskAt' = "finish",
         NEW o, outcome' = o, o # NONE,
         UNCHANGED <<operation, client, shutdown>>, client \in {"there", "gone"},
         NEW response \in {"bad_gateway", "upstream"},
         Sent = NONE, Sent' = IF client = "there" THEN response ELSE NONE
  PROVE  Lifecycle!Ends(operation, o, response)
BY BodyTyped DEF Lifecycle!Ends, Lifecycle!Deliver, Lifecycle!Conclude, Lifecycle!permitVars,
   Only, Operations

LEMMA StreamsMaps ==
  ASSUME operation = "images", TaskAt = "work", TaskAt' = "stream", outcome' = "completed",
         UNCHANGED <<operation, client, shutdown>>, client = "there",
         Sent = NONE, Sent' = "upstream"
  PROVE  Lifecycle!TaskStreams(operation)
BY BodyTyped DEF Lifecycle!TaskStreams, Lifecycle!Alive, Lifecycle!Deliver, Lifecycle!Conclude,
   Lifecycle!permitVars, Only, Operations

LEMMA StutterMaps ==
  ASSUME UNCHANGED <<operation, client, shutdown>>, TaskAt' = TaskAt, Sent' = Sent,
         TaskAt = "work" \/ outcome' = outcome
  PROVE  UNCHANGED Lifecycle!vars
BY DEF Lifecycle!vars, Only, Operations

LEMMA DepartureMaps ==
  ASSUME operation \in Operations, client = "there", client' = "gone", TaskAt # "finish",
         UNCHANGED <<operation, shutdown, outcome>>, TaskAt' = TaskAt, Sent' = Sent,
         Sent \in {NONE, "upstream", "bad_gateway"}
  PROVE  Lifecycle!ClientLeaves(operation)
<1>1. Lifecycle!Serving
  BY DEF Lifecycle!Serving
<1>2. Lifecycle!DropHandlers({operation})
  BY BodyTyped DEF Lifecycle!DropHandlers, Only, Operations
<1> QED
  BY <1>1, <1>2 DEF Lifecycle!ClientLeaves, Only, Operations

LEMMA ShutdownMaps ==
  ASSUME operation \in Operations, shutdown = FALSE, shutdown' = TRUE,
         UNCHANGED <<operation, client, outcome>>, TaskAt' = TaskAt, Sent' = Sent
  PROVE  Lifecycle!DrainTimeout
<1>1. Lifecycle!Live # {}
  <2>1. \E o \in Operations : o # operation
    BY DEF Operations
  <2> QED
    BY <2>1 DEF Lifecycle!Live, Only
<1> QED
  BY <1>1 DEF Lifecycle!DrainTimeout, Lifecycle!ServerGoes, Lifecycle!recordVars,
     Lifecycle!permitVars, Only, Operations

\* What the life cycle's step needs to know of the outcome of an images request.
LEMMA ImageStepMaps ==
  ASSUME ImageInv, operation = "images", ImageNext
  PROVE  \/ Lifecycle!TaskStep(operation) \/ Lifecycle!ClientLeaves(operation)
         \/ Lifecycle!DrainTimeout \/ UNCHANGED Lifecycle!vars
<1> USE DEF Operations
<1>1. /\ BodySound /\ ImageTypeOK /\ Progress /\ Checked /\ Fits
      /\ client \in {"there", "gone"} /\ operation \in Operations
  BY DEF ImageInv, BodySound
<1>2. TaskAt = IF at = "over" THEN "finish" ELSE IF at = "send" THEN "stream" ELSE "work"
  BY DEF TaskAt
<1>3. operation' = operation =>
        TaskAt' = IF at' = "over" THEN "finish" ELSE IF at' = "send" THEN "stream" ELSE "work"
  BY DEF TaskAt
<1>4. Sent = IF status = NONE THEN NONE ELSE Answers[status]
  BY DEF Sent
<1>5. operation' = operation =>
        Sent' = IF status' = NONE THEN NONE ELSE Answers[status']
  BY DEF Sent, Answers
<1>6. TaskAt = "work" => status = NONE /\ Sent = NONE
  BY <1>1, <1>2, <1>4 DEF Progress, Working, ImageTypeOK
<1>7. /\ Answers["image"] = "upstream" /\ Answers["upstream"] = "upstream"
      /\ Answers["bad_gateway"] = "bad_gateway"
  BY DEF Answers
<1>8. Sent \in {NONE, "upstream", "bad_gateway"}
  BY <1>1, <1>4, <1>7 DEF ImageTypeOK
<1>9. CASE CallFails \/ Answered \/ ReadError \/ ErrorRead \/ ReadImage \/ ImageRead \/ BodyBreaks
  <2>1. /\ UNCHANGED <<operation, client, shutdown, status>>
        /\ at \in {"call", "error", "body"} /\ at' \in {"call", "error", "body", "reply"}
    BY <1>9 DEF CallFails, Answered, ReadError, ErrorRead, ReadImage, ImageRead, BodyBreaks,
       Has, requestVars, clientVars
  <2>2. TaskAt = "work" /\ TaskAt' = TaskAt /\ Sent' = Sent
    BY <1>2, <1>3, <1>4, <1>5, <2>1
  <2> QED
    BY <2>1, <2>2, StutterMaps
<1>10. ASSUME NEW why \in {"shutdown", "client_disconnect", "premature_eof"},
              Working, Interrupts(why)
       PROVE  Lifecycle!Ends(operation, why, "bad_gateway")
  <2>1. /\ UNCHANGED <<operation, client, shutdown>> /\ at' = "over" /\ outcome' = why
        /\ status' = IF client = "there" THEN "bad_gateway" ELSE status
    BY <1>10 DEF Interrupts, requestVars, clientVars
  <2>2. TaskAt = "work" /\ TaskAt' = "finish"
    BY <1>2, <1>3, <1>10, <2>1 DEF Working
  <2>3. Sent = NONE /\ Sent' = IF client = "there" THEN "bad_gateway" ELSE NONE
    BY <1>5, <1>6, <1>7, <2>1, <2>2, BodyTyped
  <2> QED
    BY <1>1, <2>1, <2>2, <2>3, BodyTyped, EndsMaps
<1>11. CASE WorkShutdown \/ WorkCancelled \/ WorkTimesOut
  <2>1. TaskAt = "work" /\ Sent = NONE
    BY <1>2, <1>6, <1>11 DEF WorkShutdown, WorkCancelled, WorkTimesOut, Working
  <2>2. CASE WorkShutdown
    <3>1. Lifecycle!TaskShutdown(operation)
      BY <1>10, <2>1, <2>2
         DEF WorkShutdown, Lifecycle!TaskShutdown, Lifecycle!Alive, Lifecycle!Shutdown, Only
    <3> QED
      BY <3>1 DEF Lifecycle!TaskStep
  <2>3. CASE WorkCancelled
    <3>1. Lifecycle!TaskCancelled(operation)
      BY <1>10, <2>1, <2>3 DEF WorkCancelled, Lifecycle!TaskCancelled, Lifecycle!Alive, Only
    <3> QED
      BY <3>1 DEF Lifecycle!TaskStep
  <2>4. CASE WorkTimesOut
    <3>1. Lifecycle!TaskDeadline(operation)
      BY <1>10, <2>1, <2>4 DEF WorkTimesOut, Lifecycle!TaskDeadline, Lifecycle!Alive, Only
    <3> QED
      BY <3>1 DEF Lifecycle!TaskStep
  <2> QED
    BY <1>11, <2>2, <2>3, <2>4
<1>12. CASE ReplyUnwanted
  <2>1. /\ UNCHANGED <<operation, client, shutdown, status>> /\ client = "gone" /\ at = "reply"
        /\ at' = "over" /\ outcome' = "client_disconnect"
    BY <1>12 DEF ReplyUnwanted, Finishes, requestVars, clientVars
  <2>2. TaskAt = "work" /\ TaskAt' = "finish" /\ Sent = NONE /\ Sent' = NONE
    BY <1>2, <1>3, <1>5, <1>6, <2>1
  <2>3. Lifecycle!Ends(operation, "client_disconnect", "bad_gateway")
    BY <1>1, <2>1, <2>2, BodyTyped, EndsMaps
  <2>4. Lifecycle!TaskFails(operation)
    BY <2>1, <2>2, <2>3
       DEF Lifecycle!TaskFails, Lifecycle!Alive, Lifecycle!Failures, Only
  <2> QED
    BY <2>4 DEF Lifecycle!TaskStep
<1>13. CASE Reply
  <2>1. /\ UNCHANGED <<operation, client, shutdown>> /\ client = "there" /\ at = "reply"
        /\ status' = reply /\ reply \in {"image", "upstream", "bad_gateway"}
    BY <1>1, <1>13 DEF Reply, Progress, ImageTypeOK, requestVars, clientVars
  <2>2. TaskAt = "work" /\ Sent = NONE /\ Sent' = Answers[reply]
    BY <1>2, <1>5, <1>6, <2>1, BodyTyped
  <2>3. CASE reply = "image"
    <3>1. at' = "send" /\ outcome' = "completed"
      BY <1>13, <2>3 DEF Reply
    <3>2. TaskAt' = "stream" /\ Sent' = "upstream"
      BY <1>3, <1>7, <2>1, <2>2, <2>3, <3>1
    <3>3. Lifecycle!TaskStreams(operation)
      BY <2>1, <2>2, <3>1, <3>2, StreamsMaps
    <3> QED
      BY <3>3 DEF Lifecycle!TaskStep
  <2>4. CASE reply # "image"
    <3>1. at' = "over" /\ outcome' = outcome
      BY <1>13, <2>4 DEF Reply
    <3>2. TaskAt' = "finish" /\ Sent' = reply /\ reply \in {"bad_gateway", "upstream"}
      BY <1>3, <1>7, <2>1, <2>2, <2>4, <3>1
    <3>3. outcome \in {"failed", "upstream_error", "premature_eof", "uninspected"}
      BY <1>1, <2>1 DEF Fits
    <3>4. PICK o \in {"failed", "upstream_error", "premature_eof", "uninspected"} : outcome = o
      BY <3>3
    <3>5. CASE reply = "bad_gateway"
      <4>1. Lifecycle!Ends(operation, o, "bad_gateway")
        <5>1. o # NONE /\ outcome' = o /\ Sent' = IF client = "there" THEN "bad_gateway" ELSE NONE
          BY <2>1, <3>1, <3>2, <3>4, <3>5, BodyTyped
        <5> QED
          BY <1>1, <2>1, <2>2, <3>2, <5>1, EndsMaps
      <4>2. o \in Lifecycle!Failures(operation)
        BY DEF Lifecycle!Failures
      <4>3. Lifecycle!TaskFails(operation)
        BY <2>1, <2>2, <4>1, <4>2 DEF Lifecycle!TaskFails, Lifecycle!Alive, Only
      <4> QED
        BY <4>3 DEF Lifecycle!TaskStep
    <3>6. CASE reply = "upstream"
      <4>1. o = "upstream_error"
        BY <1>1, <2>1, <3>4, <3>6 DEF Fits
      <4>2. Lifecycle!Ends(operation, o, "upstream")
        <5>1. o # NONE /\ outcome' = o /\ Sent' = IF client = "there" THEN "upstream" ELSE NONE
          BY <2>1, <3>1, <3>2, <3>4, <3>6, BodyTyped
        <5> QED
          BY <1>1, <2>1, <2>2, <3>2, <5>1, EndsMaps
      <4>3. Lifecycle!TaskPassesError(operation)
        BY <2>1, <2>2, <4>1, <4>2 DEF Lifecycle!TaskPassesError, Lifecycle!Alive, Only
      <4> QED
        BY <4>3 DEF Lifecycle!TaskStep
    <3> QED
      BY <3>2, <3>5, <3>6
  <2> QED
    BY <2>1, <2>3, <2>4
<1>14. ASSUME UNCHANGED <<operation, client, shutdown, status>>, at = "send", at' = "over",
              NEW o, outcome' = o, o # NONE
       PROVE  TaskAt = "stream" /\ Lifecycle!StreamOver(operation, o)
  <2>1. TaskAt = "stream" /\ TaskAt' = "finish" /\ Sent' = Sent
    BY <1>2, <1>3, <1>4, <1>5, <1>14
  <2> QED
    BY <1>1, <1>14, <2>1, StreamOverMaps
<1>15. CASE SendPiece
  <2>1. /\ UNCHANGED <<operation, client, shutdown, status>> /\ at = "send"
        /\ outcome = "completed" /\ outcome' = outcome
        /\ at' \in {"send", "over"}
    BY <1>1, <1>15 DEF SendPiece, Finishes, requestVars, Progress
  <2>2. CASE at' = "send"
    <3>1. TaskAt' = TaskAt /\ Sent' = Sent
      BY <1>2, <1>3, <1>4, <1>5, <2>1, <2>2
    <3> QED
      BY <2>1, <3>1, StutterMaps
  <2>3. CASE at' = "over"
    <3>1. Lifecycle!StreamEnds(operation)
      <4>1. TaskAt = "stream" /\ Lifecycle!StreamOver(operation, "completed")
        BY <1>14, <2>1, <2>3, BodyTyped
      <4> QED
        BY <4>1 DEF Lifecycle!StreamEnds, Lifecycle!Alive, Lifecycle!Observed, Only
    <3> QED
      BY <3>1 DEF Lifecycle!TaskStep
  <2> QED
    BY <2>1, <2>2, <2>3
<1>16. CASE SendShutdown \/ SendUnwanted \/ SendTimesOut
  <2>1. /\ UNCHANGED <<operation, client, shutdown, status>> /\ at = "send" /\ at' = "over"
        /\ \/ shutdown /\ outcome' = "shutdown"
           \/ client = "gone" /\ outcome' = "client_disconnect"
           \/ outcome' = "premature_eof"
    BY <1>16 DEF SendShutdown, SendUnwanted, SendTimesOut, SendStops, Finishes, requestVars,
       clientVars
  <2>2. CASE shutdown /\ outcome' = "shutdown"
    <3>1. TaskAt = "stream" /\ Lifecycle!StreamOver(operation, "shutdown")
      BY <1>14, <2>1, <2>2, BodyTyped
    <3> QED
      BY <2>2, <3>1 DEF Lifecycle!TaskStep, Lifecycle!StreamShutdown, Lifecycle!Alive, Lifecycle!Shutdown,
         Lifecycle!Interrupted, Only
  <2>3. CASE client = "gone" /\ outcome' = "client_disconnect"
    <3>1. TaskAt = "stream" /\ Lifecycle!StreamOver(operation, "client_disconnect")
      BY <1>14, <2>1, <2>3, BodyTyped
    <3> QED
      BY <2>3, <3>1 DEF Lifecycle!TaskStep, Lifecycle!StreamClientGone, Lifecycle!Alive,
         Lifecycle!Interrupted, Only
  <2>4. CASE outcome' = "premature_eof"
    <3>1. TaskAt = "stream" /\ Lifecycle!StreamOver(operation, "premature_eof")
      BY <1>14, <2>1, <2>4, BodyTyped
    <3> QED
      BY <3>1 DEF Lifecycle!TaskStep, Lifecycle!StreamEnds, Lifecycle!Alive,
         Lifecycle!Observed, Only
  <2> QED
    BY <2>1, <2>2, <2>3, <2>4
<1>17. CASE EnvironmentNext /\ UNCHANGED <<head, buffered, reply, status, metadata, pieces>>
  <2>1. UNCHANGED <<operation, at, outcome, status>>
    BY <1>17 DEF EnvironmentNext, ClientReads, ClientLeaves, Shutdown, requestVars
  <2>2. TaskAt' = TaskAt /\ Sent' = Sent
    BY <1>2, <1>3, <1>4, <1>5, <2>1
  <2>3. at # "over" => TaskAt # "finish"
    BY <1>2
  <2>4. CASE ClientReads
    BY <2>1, <2>2, <2>4, StutterMaps DEF ClientReads
  <2>5. CASE ClientLeaves
    BY <1>1, <1>8, <2>1, <2>2, <2>3, <2>5, DepartureMaps DEF ClientLeaves
  <2>6. CASE Shutdown
    <3>1. shutdown = FALSE /\ shutdown' = TRUE /\ client' = client
      BY <1>1, <2>6 DEF Shutdown, BodySound, clientVars
    <3> QED
      BY <1>1, <2>1, <2>2, <3>1, ShutdownMaps
  <2> QED
    BY <1>17, <2>4, <2>5, <2>6 DEF EnvironmentNext
<1> QED
  BY <1>9, <1>11, <1>12, <1>13, <1>15, <1>16, <1>17 DEF ImageNext

LEMMA StreamStepMaps ==
  ASSUME StreamInv, operation = "responses", StreamNext
  PROVE  \/ Lifecycle!TaskStep(operation) \/ Lifecycle!ClientLeaves(operation)
         \/ Lifecycle!DrainTimeout \/ UNCHANGED Lifecycle!vars
<1> USE DEF Operations
<1>1. /\ BodySound /\ StreamTypeOK /\ observer \in Observers /\ Len(observer.buffer) <= EventLimit
      /\ client \in {"there", "gone"} /\ operation \in Operations
      /\ at \in {"read", "send", "over"}
  BY DEF StreamInv, BodySound, StreamTypeOK
<1>2. TaskAt = IF at = "over" THEN "finish" ELSE "stream"
  BY DEF TaskAt
<1>3. operation' = operation => TaskAt' = IF at' = "over" THEN "finish" ELSE "stream"
  BY DEF TaskAt
<1>4. Sent = "upstream" /\ (operation' = operation => Sent' = "upstream")
  BY DEF Sent
<1>5. CASE ReadChunk \/ Send
  <2>1. /\ UNCHANGED <<operation, client, shutdown, outcome>>
        /\ at \in {"read", "send"} /\ at' \in {"read", "send"}
    BY <1>5 DEF ReadChunk, Send, requestVars, clientVars
  <2>2. TaskAt' = TaskAt /\ Sent' = Sent
    BY <1>2, <1>3, <1>4, <2>1
  <2> QED
    BY <2>1, <2>2, StutterMaps
\* What the life cycle allows as the outcome of an interruption, and of any other end.
<1>6. ASSUME NEW o \in Observers,
             NEW why \in {"eof", "shutdown", "client_disconnect", "premature_eof"},
             Over(o, why), at # "over"
      PROVE  \E end \in {"completed", "incomplete", "failed", "premature_eof", "uninspected"}
                          \cup {why} :
               /\ why \in {"shutdown", "client_disconnect"} => end \in {why, "uninspected"}
               /\ end # "eof"
               /\ Lifecycle!StreamOver(operation, end)
  <2>1. /\ UNCHANGED <<operation, client, shutdown>> /\ at' = "over"
        /\ outcome' = Outcome(o, why)
    BY <1>6 DEF Over, requestVars, clientVars
  <2>2. TaskAt = "stream" /\ TaskAt' = "finish" /\ Sent' = Sent
    BY <1>2, <1>3, <1>4, <1>6, <2>1
  <2>3. o.seen.outcome \in {NULL, "completed", "incomplete", "failed"}
    BY DEF Observers, Seen
  <2>4. PICK end \in {"completed", "incomplete", "failed", "premature_eof", "uninspected"}
                       \cup {why} :
          /\ outcome' = end /\ end # "eof"
          /\ why \in {"shutdown", "client_disconnect"} => end \in {why, "uninspected"}
    BY <2>1, <2>3 DEF Outcome
  <2>5. end # NONE
    BY BodyTyped
  <2>6. Lifecycle!StreamOver(operation, end)
    BY <1>1, <2>1, <2>2, <2>4, <2>5, StreamOverMaps
  <2> QED
    BY <2>4, <2>6
<1>7. at # "over" => Lifecycle!Alive /\ TaskAt = "stream"
  BY <1>2 DEF Lifecycle!Alive
<1>8. CASE SendFails
  <2>1. \E end \in {"client_disconnect", "uninspected"} : Lifecycle!StreamOver(operation, end)
    BY <1>1, <1>6, <1>8 DEF SendFails
  <2>2. Lifecycle!StreamClientGone(operation)
    BY <1>7, <1>8, <2>1 DEF SendFails, Lifecycle!StreamClientGone, Lifecycle!Interrupted, Only
  <2> QED
    BY <2>2 DEF Lifecycle!TaskStep
<1>9. CASE StopsForShutdown
  <2>1. \E end \in {"shutdown", "uninspected"} : Lifecycle!StreamOver(operation, end)
    BY <1>1, <1>6, <1>9 DEF StopsForShutdown
  <2>2. Lifecycle!StreamShutdown(operation)
    BY <1>7, <1>9, <2>1
       DEF StopsForShutdown, Lifecycle!StreamShutdown, Lifecycle!Shutdown,
           Lifecycle!Interrupted, Only
  <2> QED
    BY <2>2 DEF Lifecycle!TaskStep
<1>10. CASE UpstreamEnds \/ UpstreamFails
  <2>1. FinishFeed(observer) \in Observers
    BY <1>1, FinishTyped
  <2>2. \E end \in {"completed", "incomplete", "failed", "premature_eof", "uninspected"} :
          Lifecycle!StreamOver(operation, end)
    BY <1>1, <1>6, <1>10, <2>1 DEF UpstreamEnds, UpstreamFails
  <2>3. Lifecycle!StreamEnds(operation)
    BY <1>7, <1>10, <2>2
       DEF UpstreamEnds, UpstreamFails, Lifecycle!StreamEnds, Lifecycle!Observed, Only
  <2> QED
    BY <2>3 DEF Lifecycle!TaskStep
<1>11. CASE EnvironmentNext /\ UNCHANGED observer
  <2>1. UNCHANGED <<operation, at, outcome>>
    BY <1>11 DEF EnvironmentNext, ClientReads, ClientLeaves, Shutdown, requestVars
  <2>2. TaskAt' = TaskAt /\ Sent' = Sent
    BY <1>2, <1>3, <1>4, <2>1
  <2>3. at # "over" => TaskAt # "finish"
    BY <1>2
  <2>4. CASE ClientReads
    BY <2>1, <2>2, <2>4, StutterMaps DEF ClientReads
  <2>5. CASE ClientLeaves
    BY <1>1, <1>4, <2>1, <2>2, <2>3, <2>5, DepartureMaps DEF ClientLeaves
  <2>6. CASE Shutdown
    <3>1. shutdown = FALSE /\ shutdown' = TRUE /\ client' = client
      BY <1>1, <2>6 DEF Shutdown, BodySound, clientVars
    <3> QED
      BY <1>1, <2>1, <2>2, <3>1, ShutdownMaps
  <2> QED
    BY <1>11, <2>4, <2>5, <2>6 DEF EnvironmentNext
<1> QED
  BY <1>5, <1>8, <1>9, <1>10, <1>11 DEF StreamNext

LEMMA TaskMaps ==
  TaskInv /\ [Next]_vars =>
    [ \/ Lifecycle!TaskStep(operation)
      \/ Lifecycle!ClientLeaves(operation)
      \/ Lifecycle!DrainTimeout ]_(Lifecycle!vars)
<1> SUFFICES ASSUME TaskInv, [Next]_vars
             PROVE  \/ Lifecycle!TaskStep(operation) \/ Lifecycle!ClientLeaves(operation)
                    \/ Lifecycle!DrainTimeout \/ UNCHANGED Lifecycle!vars
  OBVIOUS
<1>1. CASE UNCHANGED vars
  <2>1. UNCHANGED <<operation, client, shutdown, at, status, outcome>>
    BY <1>1 DEF vars, streamVars, imageVars, bodyVars, requestVars, clientVars
  <2>2. TaskAt' = TaskAt /\ Sent' = Sent
    BY <2>1 DEF TaskAt, Sent
  <2> QED
    BY <2>1, <2>2, StutterMaps
<1> QED
  BY <1>1, StreamStepMaps, ImageStepMaps DEF Next, TaskInv

\* Every step of the task, with any bodies, limits and interruptions, is a step of
\* its request's task in the life cycle, or of its surroundings, or none.
THEOREM TaskImplementsLifecycle == Spec => TaskOfLifecycle
BY TaskAlways, TaskMaps, PTL DEF Spec, TaskOfLifecycle

-----------------------------------------------------------------------------
(* What the observer says of a stream, and the record                       *)

\* An observer that goes on says what was received, one that gave up has a cause,
\* and a record of the model's outcome has the whole body for it.
ObserverInv ==
  operation = "responses" =>
    /\ Ordered(ends)
    /\ ~observer.failed =>
         /\ Faithful(body, observer, ends)
         /\ at # "over" => Keeps(body, observer, ends)
    /\ observer.failed => Caused(body, observer, ends, reason)
    /\ at # "over" => outcome = NONE
    /\ outcome \in {"completed", "incomplete", "failed"} =>
         /\ ~observer.failed /\ reason = "eof" /\ Received = Len(body)
         /\ LastCut(body)[Received] = Received /\ observer.seen.outcome = outcome

\* The observer of an images request is never fed.
Unfed == operation = "images" => observer = NewObserver

LEMMA ObserverStarts == StreamInit => ObserverInv
<1> SUFFICES ASSUME StreamInit PROVE ObserverInv
  OBVIOUS
<1>1. /\ ends = <<>> /\ observer = NewObserver /\ at = "read" /\ outcome = NONE
      /\ Ordered(<<>>) /\ EndOf(<<>>) = 0 /\ Len(<<>>) = 0
  BY DEF StreamInit, BodyInit, Ordered, EndOf
<1>2. body \in Seq(Bytes)
  BY BodyStarts DEF StreamInit, BodySound
<1>3. Complete(body, 0) = {} /\ DocsAt(body, 0) = <<>> /\ Clean(body, 0)
  BY DEF Complete, DocsAt, Clean
<1>4. Summary(<<>>, <<>>) = Unobserved
  <2>1. DOMAIN <<>> = {}
    OBVIOUS
  <2>2. Models(<<>>) = {} /\ Counts(<<>>) = {} /\ Terminals(<<>>) = {} /\ Outputs(<<>>) = {}
        /\ Texts(<<>>) = {}
    BY <2>1 DEF Models, Counts, Terminals, Outputs, Texts
  <2> QED
    BY <2>2, SummaryIs DEF Unobserved, FirstArrival
<1>5. NewObserver.failed = FALSE /\ NewObserver.seen = Unobserved /\ NewObserver.buffer = <<>>
  BY DEF NewObserver
<1>6. Faithful(body, observer, ends)
  BY <1>1, <1>3, <1>4, <1>5 DEF Faithful
<1>7. Keeps(body, observer, ends)
  <2>1. LastCut(body)[0] = 0
    BY <1>2, CutsExist DEF Cuts
  <2>2. SubSeq(body, 1, 0) = <<>>
    OBVIOUS
  <2> QED
    BY <1>1, <1>5, <2>1, <2>2 DEF Keeps
<1> QED
  BY <1>1, <1>5, <1>6, <1>7, BodyTyped DEF ObserverInv

LEMMA ReadChunkObserved ==
  ASSUME StreamInv, ObserverInv, operation = "responses", ReadChunk
  PROVE  ObserverInv'
<1>1. BodySound /\ observer \in Observers /\ body \in Seq(Bytes) /\ reason = NONE
      /\ ends \in Seq(1..Len(body))
  BY DEF StreamInv, BodySound, ReadChunk
<1>2. UNCHANGED <<operation, body, reason, outcome>> /\ at' = "send" /\ outcome = NONE
      /\ at # "over"
  BY DEF ReadChunk, requestVars, ObserverInv
<1>3. Received = EndOf(ends)
  BY DEF Received, EndOf
<1>4. PICK n \in 1..Len(body) :
        /\ Reads(n)
        /\ observer' = Feed(observer, SubSeq(body, Received + 1, n), Len(ends) + 1)
  BY DEF ReadChunk
<1>5. n \in (EndOf(ends) + 1)..Len(body) /\ ends' = Append(ends, n)
  BY <1>3, <1>4 DEF Reads
<1>6. Ordered(ends) /\ EndOf(ends) \in 0..Len(body)
  BY <1>1, EndsFacts DEF ObserverInv
<1>7. Ordered(ends')
  <2>1. n \in Nat /\ n > EndOf(ends)
    BY <1>5, <1>6
  <2> QED
    BY <1>5, <1>6, <2>1, ArrivalAppends
<1>8. CASE observer.failed
  <2>1. observer' = observer
    BY <1>4, <1>8 DEF Feed
  <2>2. RejectedFirst(body, observer, ends) \/ OverflowedFirst(body, observer, ends)
    BY <1>1, <1>8, BodyTyped DEF ObserverInv, Caused
  <2>3. RejectedFirst(body, observer, ends') \/ OverflowedFirst(body, observer, ends')
    BY <1>1, <1>5, <1>6, <2>2, CauseStays
  <2> QED
    BY <1>2, <1>7, <1>8, <2>1, <2>3, BodyTyped DEF ObserverInv, Caused
<1>9. CASE ~observer.failed
  <2>1. Faithful(body, observer, ends) /\ Keeps(body, observer, ends)
    BY <1>2, <1>9 DEF ObserverInv
  <2>2. IF observer'.failed
        THEN RejectedFirst(body, observer', ends') \/ OverflowedFirst(body, observer', ends')
        ELSE Faithful(body, observer', ends') /\ Keeps(body, observer', ends')
    BY <1>1, <1>3, <1>4, <1>5, <1>6, <1>9, <2>1, FeedFollows
  <2> QED
    BY <1>2, <1>7, <2>2, BodyTyped DEF ObserverInv, Caused
<1> QED
  BY <1>8, <1>9

\* An interruption leaves the observer as it is, and is what is recorded.
LEMMA InterruptedObserved ==
  ASSUME StreamInv, ObserverInv, operation = "responses", at # "over",
         NEW why \in {"shutdown", "client_disconnect", "premature_eof"}, Over(observer, why)
  PROVE  ObserverInv'
<1>1. /\ UNCHANGED <<operation, body, ends, observer>> /\ at' = "over" /\ reason' = why
      /\ outcome' \in {"uninspected", why} /\ Received' = Received
  BY DEF Over, requestVars, Outcome, Received
<1>2. reason = NONE
  BY DEF StreamInv
<1> QED
  BY <1>1, <1>2, BodyTyped DEF ObserverInv, Caused

LEMMA UpstreamEndsObserved ==
  ASSUME StreamInv, ObserverInv, operation = "responses", UpstreamEnds
  PROVE  ObserverInv'
<1> DEFINE o == FinishFeed(observer)
           cut == LastCut(body)[Received]
<1>1. /\ UNCHANGED <<operation, body, ends>> /\ at' = "over" /\ reason' = "eof"
      /\ observer' = o /\ outcome' = Outcome(o, "eof") /\ Received' = Received
      /\ at = "read" /\ Received = Len(body)
  BY DEF UpstreamEnds, Over, requestVars, Received
<1>2. body \in Seq(Bytes) /\ observer \in Observers /\ Received \in 0..Len(body)
      /\ reason = NONE /\ Received = EndOf(ends)
  BY <1>1, BodyFacts DEF StreamInv, BodySound, Received, EndOf
<1>3. o.seen = observer.seen /\ o.failed = (observer.failed \/ observer.buffer # <<>>)
  BY <1>2 DEF FinishFeed, GiveUp, Observers
<1>4. Ordered(ends)
  BY DEF ObserverInv
<1>5. CASE observer.failed
  <2>1. RejectedFirst(body, observer, ends) \/ OverflowedFirst(body, observer, ends)
    BY <1>2, <1>5, BodyTyped DEF ObserverInv, Caused
  <2>2. RejectedFirst(body, o, ends) \/ OverflowedFirst(body, o, ends)
    BY <1>3, <2>1 DEF RejectedFirst, OverflowedFirst
  <2>3. o.failed /\ outcome' = "uninspected"
    BY <1>1, <1>3, <1>5 DEF Outcome
  <2> HIDE DEF o
  <2> QED
    BY <1>1, <1>4, <2>2, <2>3 DEF ObserverInv, Caused
<1>6. CASE ~observer.failed
  <2>1. Faithful(body, observer, ends) /\ Keeps(body, observer, ends)
    BY <1>1, <1>6 DEF ObserverInv
  <2>2. cut \in 0..Received
    BY <1>2, CutFacts
  <2>3. observer.buffer = SubSeq(body, cut + 1, Received) /\ Len(observer.buffer) = Received - cut
    <3>1. cut + 1 \in 1..(Len(body) + 1) /\ Received \in ((cut + 1) - 1)..Len(body)
      BY <1>2, <2>2
    <3>2. Len(SubSeq(body, cut + 1, Received)) = Received - (cut + 1) + 1
      BY <1>2, <3>1, SubSeqElements
    <3>3. observer.buffer = SubSeq(body, cut + 1, Received)
      BY <1>2, <2>1 DEF Keeps
    <3> HIDE DEF cut
    <3> QED
      BY <1>2, <2>2, <3>2, <3>3
  <2>4. observer.buffer \in Seq(Bytes)
    BY <1>2 DEF Observers
  <2> HIDE DEF o, cut
  <2>5. observer.buffer = <<>> <=> cut = Received
    <3>1. observer.buffer = <<>> <=> Len(observer.buffer) = 0
      BY ONLY <2>4, EmptySeq
    <3>2. Received - cut = 0 <=> cut = Received
      BY <1>2, <2>2
    <3> QED
      BY ONLY <2>3, <3>1, <3>2, Zenon
  <2>6. CASE cut = Received
    <3>1. ~o.failed /\ Faithful(body, o, ends)
      BY <1>3, <1>6, <2>1, <2>5, <2>6 DEF Faithful
    <3>2. outcome' \in {"completed", "incomplete", "failed"} => o.seen.outcome = outcome'
      BY <1>1, <3>1 DEF Outcome
    <3> QED
      BY <1>1, <1>4, <2>6, <3>1, <3>2 DEF ObserverInv, cut
  <2>7. CASE cut # Received
    <3>1. o.failed
      BY <1>3, <2>5, <2>7
    <3>2. EndedInside(body, o, ends)
      BY <1>2, <1>3, <2>1, <2>2, <2>7 DEF EndedInside, Faithful, cut
    <3>3. outcome' = "uninspected"
      BY <1>1, <3>1 DEF Outcome
    <3> QED
      BY <1>1, <1>4, <3>1, <3>2, <3>3 DEF ObserverInv, Caused
  <2> QED
    BY <2>6, <2>7
<1> QED
  BY <1>5, <1>6

LEMMA StreamObserved ==
  ASSUME StreamInv, ObserverInv, operation = "responses", StreamNext
  PROVE  ObserverInv'
<1>1. CASE ReadChunk
  BY <1>1, ReadChunkObserved
<1>2. CASE Send \/ (EnvironmentNext /\ UNCHANGED observer)
  <2>1. /\ UNCHANGED <<operation, body, ends, observer, reason, outcome>>
        /\ at # "over" \/ UNCHANGED at
    BY <1>2 DEF Send, EnvironmentNext, ClientReads, ClientLeaves, Shutdown, requestVars
  <2>2. Received' = Received
    BY <2>1 DEF Received
  <2> QED
    BY <2>1, <2>2 DEF ObserverInv
<1>3. CASE SendFails \/ StopsForShutdown \/ UpstreamFails
  BY <1>3, InterruptedObserved DEF SendFails, StopsForShutdown, UpstreamFails
<1>4. CASE UpstreamEnds
  BY <1>4, UpstreamEndsObserved
<1> QED
  BY <1>1, <1>2, <1>3, <1>4 DEF StreamNext

ObservedInv == TaskInv /\ ObserverInv /\ Unfed

LEMMA ObservedStarts == Init => ObservedInv
BY TaskStarts, ObserverStarts DEF Init, StreamInit, ImageInit, ObservedInv, ObserverInv, Unfed

LEMMA ObservedSteps == ObservedInv /\ [Next]_vars => ObservedInv'
<1> SUFFICES ASSUME ObservedInv, [Next]_vars PROVE ObserverInv' /\ Unfed'
  BY TaskSteps DEF ObservedInv
<1>1. CASE operation = "responses" /\ StreamNext
  <2>1. operation' = operation
    BY <1>1 DEF StreamNext, ReadChunk, Send, SendFails, StopsForShutdown, UpstreamEnds,
       UpstreamFails, Over, EnvironmentNext, ClientReads, ClientLeaves, Shutdown, requestVars
  <2>2. ObserverInv'
    BY <1>1, StreamObserved DEF ObservedInv, TaskInv
  <2> QED
    BY <1>1, <2>1, <2>2 DEF Unfed
<1>2. CASE operation = "images" /\ ImageNext /\ UNCHANGED observer
  <2>1. operation' = operation
    BY <1>2 DEF ImageNext, CallFails, Answered, ReadError, ErrorRead, ReadImage, ImageRead,
       BodyBreaks, WorkShutdown, WorkCancelled, WorkTimesOut, Interrupts, ReplyUnwanted, Reply,
       SendPiece, SendShutdown, SendUnwanted, SendTimesOut, SendStops, EnvironmentNext,
       ClientReads, ClientLeaves, Shutdown, requestVars
  <2> QED
    BY <1>2, <2>1 DEF ObservedInv, ObserverInv, Unfed
<1>3. CASE UNCHANGED vars
  <2>1. UNCHANGED <<operation, body, ends, at, reason, outcome, observer>>
    BY <1>3 DEF vars, streamVars, imageVars, bodyVars, requestVars, clientVars
  <2>2. Received' = Received
    BY <2>1 DEF Received
  <2> QED
    BY <2>1, <2>2 DEF ObservedInv, ObserverInv, Unfed
<1> QED
  BY <1>1, <1>2, <1>3 DEF Next

LEMMA ObservedAlways == Spec => []ObservedInv
BY ObservedStarts, ObservedSteps, PTL DEF Spec

\* The properties in terms of the body itself.
LEMMA Observations ==
  ASSUME TaskInv, operation = "responses"
  PROVE  /\ body \in Seq(Bytes) /\ Received \in 0..Len(body) /\ Received = EndOf(ends)
         /\ DOMAIN ends = 1..Len(ends)
         /\ \A n \in 0..Len(body) :
              /\ ObservationOf(n) = Summary(DocsAt(body, n), ends)
              /\ Unreadable(n) = {i \in Complete(body, n) : ~Readable(EventAt(body, i))}
              /\ LastCut(SubSeq(body, 1, n))[n] = LastCut(body)[n]
<1>1. body \in Seq(Bytes) /\ Received \in 0..Len(body) /\ Received = EndOf(ends)
      /\ DOMAIN ends = 1..Len(ends)
  BY BodyFacts DEF TaskInv, StreamInv, BodySound, Received, EndOf
<1>2. ASSUME NEW n \in 0..Len(body)
      PROVE  /\ ObservationOf(n) = Summary(DocsAt(body, n), ends)
             /\ Unreadable(n) = {i \in Complete(body, n) : ~Readable(EventAt(body, i))}
             /\ LastCut(SubSeq(body, 1, n))[n] = LastCut(body)[n]
  <2>1. n \in 0..n
    OBVIOUS
  <2> QED
    BY <1>1, <2>1, DocsOfPrefix, CutPrefix DEF ObservationOf, Unreadable
<1> QED
  BY <1>1, <1>2

\* However upstream's bytes are cut into chunks, an observer that has not given up
\* says of what was received what reading it as a whole says: no event lost, split
\* or merged at a chunk's border, each timed by the chunk that completed it.
THEOREM StreamsObserved == Spec => []ObservedIsBody
<1>1. ObservedInv => ObservedIsBody
  <2> SUFFICES ASSUME ObservedInv, operation = "responses", ~observer.failed
               PROVE  LET received == SubSeq(body, 1, Received) IN
                      /\ observer.seen = ObservationOf(Received)
                      /\ Unreadable(Received) = {}
                      /\ at # "over" =>
                           observer.buffer = SubSeq(body, LastCut(received)[Received] + 1, Received)
    BY DEF ObservedIsBody
  <2>1. /\ Faithful(body, observer, ends)
        /\ at # "over" => Keeps(body, observer, ends)
    BY DEF ObservedInv, ObserverInv
  <2> QED
    BY <2>1, Observations DEF ObservedInv, Faithful, Keeps, Clean
<1> QED
  BY <1>1, ObservedAlways, PTL

\* An observer gives up only for the first cause there is in what was received, and
\* has then recorded what the events before that cause say.
THEOREM ObserversHaveCause == Spec => []GivesUpForCause
<1>1. ObservedInv => GivesUpForCause
  <2> SUFFICES ASSUME ObservedInv, observer.failed PROVE GivesUpForCause
    BY DEF GivesUpForCause
  <2> DEFINE bad == Unreadable(Received)
             long == {k \in DOMAIN ends : ends[k] - LastCut(body)[ends[k]] > EventLimit}
  <2>1. operation = "responses" /\ TaskInv
    <3>1. NewObserver.failed = FALSE
      BY DEF NewObserver
    <3> QED
      BY <3>1 DEF ObservedInv, Unfed, TaskInv
  <2>2. Ordered(ends) /\ Caused(body, observer, ends, reason)
        /\ ends \in Seq(1..Len(body))
    BY <2>1 DEF ObservedInv, ObserverInv, TaskInv, StreamInv, BodySound
  <2>3. /\ body \in Seq(Bytes) /\ Received \in 0..Len(body) /\ Received = EndOf(ends)
        /\ DOMAIN ends = 1..Len(ends) /\ Len(ends) \in Nat
        /\ \A k \in 1..Len(ends) : ends[k] \in 1..Received
    BY <2>1, <2>2, Observations, EndsFacts
  <2>4. \A n \in 0..Len(body) : ObservationOf(n) = Summary(DocsAt(body, n), ends)
    BY <2>1, Observations
  <2>5. bad = {i \in Complete(body, Received) : ~Readable(EventAt(body, i))}
    BY <2>1, <2>3, Observations
  <2>6. \A k \in 1..Len(ends) : k \in long <=> LongAfter(body, ends, k)
    BY <2>3 DEF LongAfter
  <2>7. long \in SUBSET (1..Len(ends)) /\ long \in SUBSET Nat
    BY <2>3
  <2> HIDE DEF bad, long
  <2>8. CASE RejectedFirst(body, observer, ends)
    <3>1. PICK q \in 1..Received :
            /\ FirstBad(body, q)
            /\ \A k \in 1..Len(ends) : LongAfter(body, ends, k) => Arrival(ends, q) <= k
            /\ observer.seen = Summary(DocsAt(body, q - 1), ends)
      BY <2>3, <2>8 DEF RejectedFirst
    <3>2. q \in bad
      BY <2>5, <3>1 DEF FirstBad, Complete
    <3>3. \A i \in bad : i >= q
      <4> TAKE i \in bad
      <4>1. i \in 1..Received /\ LastCut(body)[i] = i /\ ~Readable(EventAt(body, i))
        BY <2>5 DEF Complete
      <4>2. CASE i < q
        <5>1. i \in 1..(q - 1)
          BY <4>1, <4>2
        <5>2. i \in Complete(body, q - 1)
          BY <4>1, <5>1 DEF Complete
        <5> QED
          BY <3>1, <4>1, <5>2 DEF FirstBad, Clean
      <4>3. i \in Int /\ q \in Int
        BY <4>1
      <4> QED
        BY <4>2, <4>3
    <3>4. bad \in SUBSET Nat
      BY <2>5 DEF Complete
    <3>5. Min(bad) = q
      <4>1. Min(bad) \in bad /\ \A i \in bad : Min(bad) <= i
        BY <3>2, <3>4, LeastWindow
      <4>2. Min(bad) >= q /\ Min(bad) <= q /\ Min(bad) \in Nat /\ q \in Nat
        BY <3>2, <3>3, <3>4, <4>1
      <4> QED
        BY <4>2
    <3>6. q - 1 \in 0..Len(body)
      BY <2>3
    <3>7. \A k \in long : ArrivalOf(Min(bad)) <= k
      BY <2>6, <2>7, <3>1, <3>5 DEF ArrivalOf
    <3>8. observer.seen = ObservationOf(Min(bad) - 1)
      BY <2>4, <3>1, <3>5, <3>6
    <3> QED
      BY <3>2, <3>7, <3>8 DEF GivesUpForCause, bad, long
  <2>9. CASE OverflowedFirst(body, observer, ends)
    <3>1. PICK j \in 1..Len(ends) :
            /\ LongAfter(body, ends, j)
            /\ \A k \in 1..(j - 1) : ~LongAfter(body, ends, k)
            /\ observer.seen = Summary(DocsAt(body, ends[j]), ends)
      BY <2>9 DEF OverflowedFirst
    <3>2. j \in long
      BY <2>6, <3>1
    <3>3. \A k \in long : k >= j
      <4> TAKE k \in long
      <4>1. k \in 1..Len(ends) /\ LongAfter(body, ends, k)
        BY <2>6, <2>7
      <4>2. k \notin 1..(j - 1)
        BY <3>1, <4>1
      <4> QED
        BY <2>3, <4>1, <4>2
    <3>4. Min(long) = j
      <4>1. Min(long) \in long /\ \A k \in long : Min(long) <= k
        BY <2>7, <3>2, LeastWindow
      <4>2. Min(long) >= j /\ Min(long) <= j /\ Min(long) \in Nat /\ j \in Nat
        BY <2>7, <3>2, <3>3, <4>1
      <4> QED
        BY <4>2
    <3>5. observer.seen = ObservationOf(ends[Min(long)])
      <4>1. ends[j] \in 0..Len(body)
        BY <2>3
      <4> QED
        BY <2>4, <3>1, <3>4, <4>1
    <3> QED
      BY <3>2, <3>5 DEF GivesUpForCause, bad, long
  <2>10. CASE reason = "eof" /\ EndedInside(body, observer, ends)
    <3>1. LastCut(body)[Received] < Received
          /\ observer.seen = ObservationOf(Received)
      BY <2>3, <2>4, <2>10 DEF EndedInside
    <3> QED
      BY <2>10, <3>1 DEF GivesUpForCause
  <2> QED
    BY <2>2, <2>8, <2>9, <2>10 DEF Caused
<1> QED
  BY <1>1, ObservedAlways, PTL

\* A record that says completed, incomplete or failed stands for a whole response,
\* every event of which was readable and whose last terminal event said so.
THEOREM OutcomesAreWhole == Spec => []CompletedIsWhole
<1>1. ObservedInv => CompletedIsWhole
  <2> SUFFICES ASSUME ObservedInv, operation = "responses",
                      outcome \in {"completed", "incomplete", "failed"}
               PROVE  /\ reason = "eof" /\ Received = Len(body)
                      /\ LastCut(body)[Len(body)] = Len(body) /\ Unreadable(Len(body)) = {}
                      /\ ObservationOf(Len(body)).outcome = outcome
    BY DEF CompletedIsWhole
  <2>1. /\ ~observer.failed /\ reason = "eof" /\ Received = Len(body)
        /\ LastCut(body)[Received] = Received /\ observer.seen.outcome = outcome
        /\ Faithful(body, observer, ends)
    BY DEF ObservedInv, ObserverInv
  <2> QED
    BY <2>1, Observations DEF ObservedInv, Faithful, Clean
<1> QED
  BY <1>1, ObservedAlways, PTL
=============================================================================
