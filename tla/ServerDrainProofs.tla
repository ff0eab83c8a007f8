------------------------- MODULE ServerDrainProofs --------------------------
(***************************************************************************)
(* That a draining server loses no call and keeps its promise, for any     *)
(* calls, quota and client.                                                *)
(***************************************************************************)
EXTENDS ServerDrain, Totals, FiniteSetTheorems, SequenceTheorems, TLAPS

-----------------------------------------------------------------------------
(***************************************************************************)
(* Counting the places of a sequence.                                      *)
(***************************************************************************)

\* The places are finitely many.
LEMMA CountType ==
  ASSUME NEW S, NEW s \in Seq(S), NEW T
  PROVE  /\ PlacesOf(s, T) = {i \in 1..Len(s) : s[i] \in T} /\ Len(s) \in Nat
         /\ IsFiniteSet(PlacesOf(s, T)) /\ CountIn(s, T) \in Nat
<1>1. Len(s) \in Nat /\ DOMAIN s = 1..Len(s)
  OBVIOUS
<1>2. PlacesOf(s, T) = {i \in 1..Len(s) : s[i] \in T}
  BY <1>1 DEF PlacesOf
<1>3. IsFiniteSet(1..Len(s))
  BY <1>1, FS_Interval
<1>4. PlacesOf(s, T) \subseteq 1..Len(s)
  BY <1>2
<1>5. IsFiniteSet(PlacesOf(s, T)) /\ Cardinality(PlacesOf(s, T)) \in Nat
  BY <1>3, <1>4, FS_Subset, FS_CardinalityType
<1> QED BY <1>1, <1>2, <1>5 DEF CountIn

\* Nothing is counted where nothing is.
LEMMA CountZero ==
  ASSUME NEW S, NEW s \in Seq(S), NEW T
  PROVE  CountIn(s, T) = 0 <=> \A i \in DOMAIN s : s[i] \notin T
<1>1. IsFiniteSet(PlacesOf(s, T))
  BY CountType
<1>2. CountIn(s, T) = 0 <=> PlacesOf(s, T) = {}
  BY <1>1, FS_EmptySet DEF CountIn
<1> QED BY <1>2 DEF PlacesOf

\* A sequence of one.
LEMMA CountOne ==
  ASSUME NEW S, NEW x \in S, NEW T
  PROVE  CountIn(<<x>>, T) = IF x \in T THEN 1 ELSE 0
<1>1. <<x>> \in Seq(S) /\ DOMAIN <<x>> = {1} /\ <<x>>[1] = x
  OBVIOUS
<1>2. CASE x \in T
  <2>1. PlacesOf(<<x>>, T) = {1}
    BY <1>1, <1>2 DEF PlacesOf
  <2> QED BY <1>2, <2>1, FS_Singleton DEF CountIn
<1>3. CASE x \notin T
  BY <1>1, <1>3, CountZero
<1> QED BY <1>2, <1>3

\* The places of one sequence and then of another.
LEMMA CountConcat ==
  ASSUME NEW S, NEW s \in Seq(S), NEW t \in Seq(S), NEW T
  PROVE  CountIn(s \o t, T) = CountIn(s, T) + CountIn(t, T)
<1> DEFINE A == PlacesOf(s, T)
           B == PlacesOf(t, T)
           n == Len(s)
           f == [j \in B |-> n + j]
           C == {i \in n + 1 .. n + Len(t) : t[i - n] \in T}
<1>1. /\ A = {i \in 1..n : s[i] \in T} /\ n \in Nat /\ IsFiniteSet(A) /\ Cardinality(A) \in Nat
      /\ B = {i \in 1..Len(t) : t[i] \in T} /\ Len(t) \in Nat /\ IsFiniteSet(B) /\ Cardinality(B) \in Nat
  BY CountType DEF CountIn
<1>2. /\ s \o t \in Seq(S) /\ Len(s \o t) = n + Len(t)
      /\ \A i \in 1..(n + Len(t)) : (s \o t)[i] = IF i <= n THEN s[i] ELSE t[i - n]
  OBVIOUS
<1>3. PlacesOf(s \o t, T) = {i \in 1..(n + Len(t)) : (s \o t)[i] \in T}
  BY <1>2, CountType
<1> HIDE DEF A, B, n
<1>4. PlacesOf(s \o t, T) = A \cup C
  <2>1. ASSUME NEW i \in 1..(n + Len(t)), (s \o t)[i] \in T PROVE i \in A \cup C
    <3>1. CASE i <= n
      BY <1>1, <1>2, <2>1, <3>1
    <3>2. CASE ~(i <= n)
      <4>1. i \in n + 1 .. n + Len(t)
        BY <1>1, <3>2
      <4> QED BY <1>2, <2>1, <3>2, <4>1
    <3> QED BY <3>1, <3>2
  <2>2. ASSUME NEW i \in A PROVE i \in 1..(n + Len(t)) /\ (s \o t)[i] \in T
    <3>1. i \in 1..n /\ s[i] \in T
      BY <1>1
    <3>2. i \in 1..(n + Len(t)) /\ i <= n
      BY <1>1, <3>1
    <3> QED BY <1>2, <3>1, <3>2
  <2>3. ASSUME NEW i \in C PROVE i \in 1..(n + Len(t)) /\ (s \o t)[i] \in T
    <3>1. i \in n + 1 .. n + Len(t) /\ t[i - n] \in T
      OBVIOUS
    <3>2. i \in 1..(n + Len(t)) /\ ~(i <= n)
      BY <1>1, <3>1
    <3> QED BY <1>2, <3>1, <3>2
  <2> QED BY <1>3, <2>1, <2>2, <2>3
<1>5. A \cap C = {}
  BY <1>1
<1>6. f \in [B -> C]
  <2>1. ASSUME NEW j \in B PROVE n + j \in C
    <3>1. j \in 1..Len(t) /\ t[j] \in T
      BY <1>1
    <3>2. n + j \in n + 1 .. n + Len(t) /\ (n + j) - n = j
      BY <1>1, <3>1
    <3> QED BY <3>1, <3>2
  <2> QED BY <2>1
<1>7. \A i, j \in B : f[i] = f[j] => i = j
  <2>1. \A i, j \in B : i \in Int /\ j \in Int
    BY <1>1
  <2> QED BY <1>1, <2>1
<1>8. \A i \in C : \E j \in B : f[j] = i
  <2> SUFFICES ASSUME NEW i \in C PROVE \E j \in B : f[j] = i
    OBVIOUS
  <2>1. i \in n + 1 .. n + Len(t) /\ t[i - n] \in T
    OBVIOUS
  <2>2. i - n \in 1..Len(t) /\ n + (i - n) = i
    BY <1>1, <2>1
  <2>3. i - n \in B
    BY <1>1, <2>1, <2>2
  <2> QED BY <2>2, <2>3
<1> HIDE DEF f, C
<1>9. f \in Surjection(B, C) /\ f \in Injection(B, C)
  BY <1>6, <1>7, <1>8 DEF Surjection, Injection, IsInjective
<1>10. IsFiniteSet(C) /\ Cardinality(C) = Cardinality(B)
  BY <1>1, <1>9, FS_Surjection
<1>11. Cardinality(A \cup C) = Cardinality(A) + Cardinality(C) - Cardinality(A \cap C)
  BY <1>1, <1>10, FS_Union
<1>12. Cardinality(A \cap C) = 0
  BY <1>5, FS_EmptySet
<1>13. Cardinality(PlacesOf(s \o t, T)) = Cardinality(A) + Cardinality(B)
  BY <1>1, <1>4, <1>10, <1>11, <1>12
<1> QED BY <1>13 DEF CountIn, A, B

\* A sequence that gains an element, and one that loses its head.
LEMMA CountAppend ==
  ASSUME NEW S, NEW s \in Seq(S), NEW x \in S, NEW T
  PROVE  CountIn(Append(s, x), T) = CountIn(s, T) + (IF x \in T THEN 1 ELSE 0)
<1>1. Append(s, x) = s \o <<x>> /\ <<x>> \in Seq(S)
  BY AppendIsConcat
<1>2. CountIn(s \o <<x>>, T) = CountIn(s, T) + CountIn(<<x>>, T)
  BY <1>1, CountConcat
<1> QED BY <1>1, <1>2, CountOne

\* A sequence that loses its head.
LEMMA CountTail ==
  ASSUME NEW S, NEW s \in Seq(S), s # <<>>, NEW T
  PROVE  CountIn(s, T) = CountIn(Tail(s), T) + (IF Head(s) \in T THEN 1 ELSE 0)
<1>1. Head(s) \in S /\ Tail(s) \in Seq(S) /\ s = <<Head(s)>> \o Tail(s) /\ <<Head(s)>> \in Seq(S)
  BY HeadTailProperties
<1> DEFINE h == <<Head(s)>>
           r == Tail(s)
<1>2. CountIn(h \o r, T) = CountIn(h, T) + CountIn(r, T)
  <2>1. h \in Seq(S) /\ r \in Seq(S)
    BY <1>1
  <2> HIDE DEF h, r
  <2> QED BY <2>1, CountConcat
<1>3. CountIn(<<Head(s)>>, T) = IF Head(s) \in T THEN 1 ELSE 0
  BY <1>1, CountOne
<1>4. CountIn(Tail(s), T) \in Nat
  BY <1>1, CountType
<1>5. CountIn(s, T) = CountIn(h \o r, T)
  BY <1>1
<1>6. CountIn(s, T) = CountIn(h, T) + CountIn(r, T) /\ CountIn(h, T) \in Nat
  BY <1>2, <1>3, <1>5
<1> HIDE DEF h
<1> QED BY <1>3, <1>4, <1>6 DEF h

\* A sequence that is cut in two.
LEMMA CountCut ==
  ASSUME NEW S, NEW s \in Seq(S), NEW k \in 0..Len(s), NEW T
  PROVE  CountIn(s, T) = CountIn(SubSeq(s, 1, k), T) + CountIn(SubSeq(s, k + 1, Len(s)), T)
<1>1. SubSeq(s, 1, k) \in Seq(S) /\ SubSeq(s, k + 1, Len(s)) \in Seq(S)
  OBVIOUS
<1>2. 1 \in 1..(Len(s) + 1) /\ k \in (1 - 1)..Len(s) /\ Len(s) \in k..Len(s)
  OBVIOUS
<1>3. SubSeq(s, 1, k) \o SubSeq(s, k + 1, Len(s)) = SubSeq(s, 1, Len(s))
  BY <1>2, ConcatAdjacentSubSeq
<1>4. SubSeq(s, 1, Len(s)) = s
  BY SubSeqFull
<1>5. CountIn(SubSeq(s, 1, k) \o SubSeq(s, k + 1, Len(s)), T)
        = CountIn(SubSeq(s, 1, k), T) + CountIn(SubSeq(s, k + 1, Len(s)), T)
  BY <1>1, CountConcat
<1> QED BY <1>3, <1>4, <1>5

-----------------------------------------------------------------------------
(***************************************************************************)
(* The inductive invariant.                                                *)
(***************************************************************************)

Requests == [op : {"Request", "Trailer", "PayloadCredit"}, id : Calls]
Credits == {m \in Requests : m.op = "PayloadCredit"}
Responses == {m \in Answers : m.op = "Response"}
Of(c) == {m \in Answers : m.id = c}

\* The quota is in the budget, in what the scheduler has started, or with the
\* client; what a client that leaves had of it is gone.
QuotaBound ==
  budget + Len(active) + CountIn(down, Responses) + Cardinality(holding) + CountIn(up, Credits) <= Quota

UploadsOnly == \A m \in Range(up) : m.op = "Trailer" => m.id \in Uploads

\* The receive driver ends only after the client, and is sealed only while it
\* drains.
Drained ==
  /\ linked => recv = "running"
  /\ mode = "Graceful" => draining

\* Where a call of a connected client is, counted.
Held(c) ==
  CountIn(up, {Message("Request", c)}) + (IF task[c] = "running" THEN 1 ELSE 0)
  + CountIn(channel, Of(c)) + CountIn(control, {c}) + CountIn(waiting, {c}) + CountIn(active, {c})
  + CountIn(down, Of(c))

HeldOnce == linked => \A c \in Calls : Held(c) = IF call[c] = "sent" THEN 1 ELSE 0

\* A request waits to be read once, and its call is undecided.
AskedOnce ==
  \A c \in Calls :
    /\ CountIn(up, {Message("Request", c)}) <= 1
    /\ CountIn(up, {Message("Request", c)}) = 1 => task[c] = "none" /\ call[c] \in {"sent", "lost"}
    /\ call[c] = "new" => task[c] = "none"

\* A call has a response only after it had a handler, and is refused only by a
\* server that drains.
Responded(c) ==
  \/ Message("Response", c) \in Range(channel) \cup Range(down)
  \/ c \in Range(waiting) \cup Range(active)
Refused(c) == Message("Error", c) \in Range(channel) \cup Range(down) \/ c \in Range(control)

AnswersFit ==
  \A c \in Calls : /\ Responded(c) => task[c] # "none"
                   /\ task[c] = "none" /\ Refused(c) => draining

\* A shutdown was asked for by a handler whose call has, or will have, its
\* response.
AskedFor ==
  shutdown # "armed" =>
    \E c \in Stoppers : \/ call[c] \in {"answered", "lost"}
                        \/ call[c] = "sent" /\ task[c] \in {"responded", "done"} /\ ~Refused(c)

\* A running handler's call is open, and no call of a client that left is.
RunningIsOpen ==
  \A c \in Calls : /\ task[c] = "running" => call[c] \in {"sent", "lost"}
                   /\ ~linked => call[c] # "sent"

DrainInv ==
  /\ TypeOK /\ QuotaBound /\ UploadsOnly /\ Drained /\ SealedMeansAnswered
  /\ HeldOnce /\ AskedOnce /\ AnswersFit /\ AskedFor /\ RunningIsOpen

-----------------------------------------------------------------------------
(***************************************************************************)
(* Sequences and messages.                                                 *)
(***************************************************************************)

\* What a queue holds after it gains an element, or loses its head.
LEMMA RangeSteps ==
  ASSUME NEW S, NEW s \in Seq(S)
  PROVE  /\ Range(s) \subseteq S /\ Range(s) = {s[i] : i \in 1..Len(s)}
         /\ \A x \in S : Range(Append(s, x)) = Range(s) \cup {x}
         /\ s # <<>> => Head(s) \in Range(s) /\ Range(Tail(s)) \subseteq Range(s)
<1>1. Len(s) \in Nat /\ DOMAIN s = 1..Len(s) /\ \A i \in 1..Len(s) : s[i] \in S
  OBVIOUS
<1>2. Range(s) = {s[i] : i \in 1..Len(s)} /\ Range(s) \subseteq S
  BY <1>1 DEF Range
<1>3. ASSUME NEW x \in S PROVE Range(Append(s, x)) = Range(s) \cup {x}
  <2>1. /\ Append(s, x) \in Seq(S) /\ Len(Append(s, x)) = Len(s) + 1
        /\ \A i \in 1..Len(s) : Append(s, x)[i] = s[i]
        /\ Append(s, x)[Len(s) + 1] = x
    BY AppendProperties
  <2>2. DOMAIN Append(s, x) = 1..(Len(s) + 1)
    BY <2>1
  <2>3. 1..(Len(s) + 1) = (1..Len(s)) \cup {Len(s) + 1}
    BY <1>1
  <2> QED BY <1>1, <2>1, <2>2, <2>3 DEF Range
<1>4. ASSUME s # <<>> PROVE Head(s) \in Range(s) /\ Range(Tail(s)) \subseteq Range(s)
  <2>1. /\ Tail(s) \in Seq(S) /\ Len(Tail(s)) = Len(s) - 1
        /\ \A i \in 1..Len(Tail(s)) : Tail(s)[i] = s[i + 1]
    BY <1>4, HeadTailProperties
  <2>2. Head(s) = s[1] /\ 1 \in 1..Len(s) /\ DOMAIN Tail(s) = 1..(Len(s) - 1)
    BY <1>4, <2>1
  <2>3. \A i \in 1..(Len(s) - 1) : i + 1 \in 1..Len(s)
    BY <1>1
  <2> QED BY <1>1, <2>1, <2>2, <2>3 DEF Range
<1> QED BY <1>2, <1>3, <1>4

\* A queue that is cut, and two that are joined.
LEMMA RangeParts ==
  ASSUME NEW S, NEW s \in Seq(S), NEW t \in Seq(S)
  PROVE  /\ Range(s \o t) = Range(s) \cup Range(t)
         /\ \A j \in 1..(Len(s) + 1), k \in 0..Len(s) :
              SubSeq(s, j, k) \in Seq(S) /\ Range(SubSeq(s, j, k)) \subseteq Range(s)
<1>1. Range(s \o t) = Range(s) \cup Range(t)
  BY RangeConcatenation
<1>2. ASSUME NEW j \in 1..(Len(s) + 1), NEW k \in 0..Len(s)
      PROVE  SubSeq(s, j, k) \in Seq(S) /\ Range(SubSeq(s, j, k)) \subseteq Range(s)
  <2>1. Len(s) \in Nat /\ DOMAIN s = 1..Len(s)
    OBVIOUS
  <2>2. \A i \in j..k : i \in DOMAIN s /\ s[i] \in Range(s)
    BY <2>1 DEF Range
  <2>3. SubSeq(s, j, k) \in Seq(Range(s))
    BY <2>2, SubSeqProperties
  <2>4. Range(s) \subseteq S
    BY RangeSteps
  <2>5. SubSeq(s, j, k) \in Seq(S)
    BY <2>3, <2>4, SeqMonotonic
  <2>6. Range(SubSeq(s, j, k)) \subseteq Range(s)
    BY <2>3, RangeSteps
  <2> QED BY <2>5, <2>6
<1> QED BY <1>1, <1>2

\* What a message is.
LEMMA MessageFacts ==
  ASSUME NEW c \in Calls
  PROVE  /\ \A op \in {"Response", "Error"} : Message(op, c) \in Answers
         /\ \A op \in {"Request", "Trailer", "PayloadCredit"} : Message(op, c) \in Requests
         /\ \A op : Message(op, c).op = op /\ Message(op, c).id = c
         /\ \A d \in Calls, op \in {"Response", "Error"} : Message(op, d) \in Of(c) <=> c = d
         /\ \A m \in Requests \cup Answers : m = Message(m.op, m.id) /\ m.id \in Calls
         /\ \A m \in Answers : (m \in Of(c) <=> m.id = c) /\ (m \in Responses <=> m.op = "Response")
         /\ \A m \in Answers : m.op \in {"Response", "Error"}
         /\ \A m \in Requests : m \in Credits <=> m.op = "PayloadCredit"
         /\ \A m \in Requests : m \in {Message("Request", c)} <=> m.op = "Request" /\ m.id = c
<1>1. /\ \A op \in {"Response", "Error"} : Message(op, c) \in Answers
      /\ \A op \in {"Request", "Trailer", "PayloadCredit"} : Message(op, c) \in Requests
      /\ \A op : Message(op, c).op = op /\ Message(op, c).id = c
  BY DEF Message, Answers, Requests
<1>2. \A d \in Calls, op \in {"Response", "Error"} : Message(op, d) \in Of(c) <=> c = d
  BY DEF Message, Of, Answers
<1>3. \A m \in Requests \cup Answers : m = Message(m.op, m.id) /\ m.id \in Calls
  BY DEF Message, Requests, Answers
<1>4. /\ \A m \in Answers : (m \in Of(c) <=> m.id = c) /\ (m \in Responses <=> m.op = "Response")
      /\ \A m \in Answers : m.op \in {"Response", "Error"}
  BY DEF Of, Answers, Responses
<1>5. \A m \in Requests : m \in Credits <=> m.op = "PayloadCredit"
  BY DEF Credits
<1>6. \A m \in Requests : m \in {Message("Request", c)} <=> m.op = "Request" /\ m.id = c
  BY <1>1, <1>3
<1> QED BY <1>1, <1>2, <1>3, <1>4, <1>5, <1>6

\* A finite set as a sequence.
LEMMA SetToSeqType ==
  ASSUME NEW S, IsFiniteSet(S)
  PROVE  SetToSeq(S) \in Seq(S)
<1>1. Cardinality(S) \in Nat /\ ExistsBijection(1..Cardinality(S), S)
  BY FS_CardinalityType, FS_NatBijection
<1>2. PICK f \in [1..Cardinality(S) -> S] : IsInjective(f)
  BY <1>1 DEF ExistsBijection, Bijection, Injection
<1>3. SetToSeq(S) \in [1..Cardinality(S) -> S]
  BY <1>2 DEF SetToSeq
<1> QED BY <1>1, <1>3


-----------------------------------------------------------------------------
(***************************************************************************)
(* What the actions do to the queues.                                      *)
(***************************************************************************)

\* The types of the queues, one by one.
LEMMA QueueTypes ==
  ASSUME TypeOK
  PROVE  /\ up \in Seq(Requests) /\ down \in Seq(Answers) /\ channel \in Seq(Answers)
         /\ control \in Seq(Calls) /\ waiting \in Seq(Calls) /\ active \in Seq(Calls)
         /\ call \in [Calls -> {"new", "sent", "answered", "error", "lost"}]
         /\ task \in [Calls -> {"none", "running", "responded", "done"}]
         /\ budget \in Nat /\ Quota \in Nat /\ IsFiniteSet(holding) /\ Cardinality(holding) \in Nat
<1>1. holding \subseteq Calls
  BY DEF TypeOK
<1>2. IsFiniteSet(holding) /\ Cardinality(holding) \in Nat
  BY <1>1, CallsAssumption, FS_Subset, FS_CardinalityType
<1> QED BY <1>2, QuotaAssumption DEF TypeOK, Requests

\* A send that takes its turn, with the waiting ones that the quota lets in.
LEMMA DueFacts ==
  ASSUME TypeOK, NEW n \in 0..Len(waiting), NEW due, due = active \o SubSeq(waiting, 1, n), due # <<>>
  PROVE  LET rest == SubSeq(waiting, n + 1, Len(waiting))
         IN  /\ Head(due) \in Calls /\ Tail(due) \in Seq(Calls) /\ rest \in Seq(Calls)
             /\ Len(Tail(due)) + 1 = Len(active) + n
             /\ Head(due) \in Range(active) \cup Range(waiting)
             /\ Range(Tail(due)) \cup Range(rest) \subseteq Range(active) \cup Range(waiting)
             /\ \A T : /\ CountIn(Tail(due), T) + CountIn(rest, T) + (IF Head(due) \in T THEN 1 ELSE 0)
                          = CountIn(active, T) + CountIn(waiting, T)
                       /\ CountIn(Tail(due), T) \in Nat /\ CountIn(rest, T) \in Nat
<1> DEFINE front == SubSeq(waiting, 1, n)
           rest == SubSeq(waiting, n + 1, Len(waiting))
<1>1. active \in Seq(Calls) /\ waiting \in Seq(Calls) /\ Len(waiting) \in Nat /\ Len(active) \in Nat
  BY QueueTypes
<1>2. /\ 1 \in 1..(Len(waiting) + 1) /\ n + 1 \in 1..(Len(waiting) + 1)
      /\ n \in 0..Len(waiting) /\ Len(waiting) \in 0..Len(waiting)
  BY <1>1
<1>3. /\ front \in Seq(Calls) /\ rest \in Seq(Calls)
      /\ Range(front) \subseteq Range(waiting) /\ Range(rest) \subseteq Range(waiting)
  BY <1>1, <1>2, RangeParts
<1>4. Len(front) = n
  BY <1>1
<1>5. \A T : CountIn(waiting, T) = CountIn(front, T) + CountIn(rest, T)
  BY <1>1, CountCut
<1> HIDE DEF front, rest
<1>6. due \in Seq(Calls) /\ Len(due) = Len(active) + n /\ due = active \o front
  BY <1>1, <1>3, <1>4 DEF front
<1>7. Range(due) = Range(active) \cup Range(front)
  BY <1>1, <1>3, <1>6, RangeParts
<1>8. /\ Head(due) \in Calls /\ Tail(due) \in Seq(Calls) /\ Len(Tail(due)) = Len(due) - 1
      /\ Head(due) \in Range(due) /\ Range(Tail(due)) \subseteq Range(due)
  BY <1>6, HeadTailProperties, RangeSteps
<1>9. Len(Tail(due)) + 1 = Len(active) + n
  <2> DEFINE tail == Tail(due)
  <2>1. Len(tail) = Len(due) - 1
    BY <1>8
  <2> HIDE DEF tail
  <2>2. Len(due) = Len(active) + n
    BY <1>6
  <2>3. Len(active) \in Nat /\ n \in Nat
    BY <1>1
  <2>4. Len(tail) + 1 = Len(active) + n
    BY <2>1, <2>2, <2>3
  <2> QED BY <2>4 DEF tail
<1>10. ASSUME NEW T
       PROVE  /\ CountIn(Tail(due), T) + CountIn(rest, T) + (IF Head(due) \in T THEN 1 ELSE 0)
                 = CountIn(active, T) + CountIn(waiting, T)
              /\ CountIn(Tail(due), T) \in Nat /\ CountIn(rest, T) \in Nat
  <2>1. CountIn(due, T) = CountIn(Tail(due), T) + (IF Head(due) \in T THEN 1 ELSE 0)
    BY <1>6, CountTail
  <2>2. CountIn(due, T) = CountIn(active, T) + CountIn(front, T)
    <3>1. CountIn(active \o front, T) = CountIn(active, T) + CountIn(front, T)
      BY <1>1, <1>3, CountConcat
    <3> QED BY <1>6, <3>1
  <2>3. /\ CountIn(Tail(due), T) \in Nat /\ CountIn(rest, T) \in Nat
        /\ CountIn(active, T) \in Nat /\ CountIn(front, T) \in Nat
    BY <1>1, <1>3, <1>8, CountType
  <2>4. CountIn(waiting, T) = CountIn(front, T) + CountIn(rest, T)
    BY <1>5
  <2>5. CASE Head(due) \in T
    BY <2>1, <2>2, <2>3, <2>4, <2>5
  <2>6. CASE Head(due) \notin T
    BY <2>1, <2>2, <2>3, <2>4, <2>6
  <2> QED BY <2>3, <2>5, <2>6
<1> QED BY <1>3, <1>7, <1>8, <1>9, <1>10 DEF rest

\* The send driver writes one answer: what it takes from the scheduler, and what
\* it puts on the wire.
LEMMA AdvanceFacts ==
  ASSUME TypeOK, Advance
  PROVE  \E m \in Answers, n \in 0..budget :
           /\ down' = (IF linked THEN Append(down, m) ELSE down)
           /\ control' \in Seq(Calls) /\ waiting' \in Seq(Calls) /\ active' \in Seq(Calls)
           /\ budget' = budget - n
           /\ Len(active') + (IF m \in Responses THEN 1 ELSE 0) = Len(active) + n
           /\ Range(control') \subseteq Range(control)
           /\ Range(active') \cup Range(waiting') \subseteq Range(active) \cup Range(waiting)
           /\ m.op = "Error" => m.id \in Range(control)
           /\ m.op = "Response" => m.id \in Range(active) \cup Range(waiting)
           /\ \A c \in Calls :
                CountIn(control', {c}) + CountIn(waiting', {c}) + CountIn(active', {c})
                  + (IF m.id = c THEN 1 ELSE 0)
                = CountIn(control, {c}) + CountIn(waiting, {c}) + CountIn(active, {c})
<1>0. /\ control \in Seq(Calls) /\ waiting \in Seq(Calls) /\ active \in Seq(Calls) /\ budget \in Nat
      /\ Len(active) \in Nat /\ Len(waiting) \in Nat
  BY QueueTypes
<1>c. \A c \in Calls : /\ CountIn(control, {c}) \in Nat /\ CountIn(waiting, {c}) \in Nat
                       /\ CountIn(active, {c}) \in Nat
  BY <1>0, CountType
<1>1. CASE control # <<>> /\ Deliver("Error", Head(control)) /\ control' = Tail(control)
           /\ UNCHANGED <<waiting, active, budget>>
  <2> DEFINE h == Head(control)
             m == Message("Error", h)
  <2>1. h \in Calls /\ Tail(control) \in Seq(Calls) /\ h \in Range(control)
        /\ Range(Tail(control)) \subseteq Range(control)
    BY <1>0, <1>1, HeadTailProperties, RangeSteps
  <2>2. m \in Answers /\ m.op = "Error" /\ m.id = h /\ m \notin Responses
    BY <2>1, MessageFacts
  <2>3. down' = IF linked THEN Append(down, m) ELSE down
    BY <1>1 DEF Deliver
  <2>4. \A c \in Calls : /\ CountIn(control, {c}) = CountIn(Tail(control), {c}) + (IF h = c THEN 1 ELSE 0)
                         /\ CountIn(Tail(control), {c}) \in Nat
    <3> SUFFICES ASSUME NEW c \in Calls
                 PROVE  /\ CountIn(control, {c}) = CountIn(Tail(control), {c}) + (IF h = c THEN 1 ELSE 0)
                        /\ CountIn(Tail(control), {c}) \in Nat
      OBVIOUS
    <3>1. CountIn(control, {c}) = CountIn(Tail(control), {c}) + (IF h \in {c} THEN 1 ELSE 0)
      BY <1>0, <1>1, CountTail
    <3>2. CountIn(Tail(control), {c}) \in Nat
      BY <2>1, CountType
    <3> QED BY <3>1, <3>2
  <2>5. 0 \in 0..budget /\ budget' = budget - 0 /\ Len(active') + 0 = Len(active) + 0
    BY <1>0, <1>1
  <2> HIDE DEF h, m
  <2>6. \A c \in Calls :
          CountIn(control', {c}) + CountIn(waiting', {c}) + CountIn(active', {c}) + (IF m.id = c THEN 1 ELSE 0)
          = CountIn(control, {c}) + CountIn(waiting, {c}) + CountIn(active, {c})
    <3>1. \A c \in Calls : /\ CountIn(waiting', {c}) = CountIn(waiting, {c})
                           /\ CountIn(active', {c}) = CountIn(active, {c})
                           /\ CountIn(control', {c}) = CountIn(Tail(control), {c})
      BY <1>1
    <3>2. \A c \in Calls : (IF m.id = c THEN 1 ELSE 0) = IF h = c THEN 1 ELSE 0
      BY <2>2
    <3> SUFFICES ASSUME NEW c \in Calls
                 PROVE  CountIn(control', {c}) + CountIn(waiting', {c}) + CountIn(active', {c})
                          + (IF m.id = c THEN 1 ELSE 0)
                        = CountIn(control, {c}) + CountIn(waiting, {c}) + CountIn(active, {c})
      OBVIOUS
    <3>3. CASE h = c
      BY <1>c, <2>4, <3>1, <3>2, <3>3
    <3>4. CASE h # c
      BY <1>c, <2>4, <3>1, <3>2, <3>4
    <3> QED BY <3>3, <3>4
  <2>7. /\ control' \in Seq(Calls) /\ waiting' \in Seq(Calls) /\ active' \in Seq(Calls)
        /\ Range(control') \subseteq Range(control)
        /\ Range(active') \cup Range(waiting') \subseteq Range(active) \cup Range(waiting)
    BY <1>0, <1>1, <2>1
  <2>8. Len(active') + (IF m \in Responses THEN 1 ELSE 0) = Len(active) + 0
    BY <2>2, <2>5
  <2>9. m.op # "Response"
    BY <2>2
  <2> QED BY <2>1, <2>2, <2>3, <2>5, <2>6, <2>7, <2>8, <2>9
<1>2. CASE control = <<>> /\ control' = control /\ ~(control # <<>>) /\ Transmission
  <2> DEFINE n == IF Len(waiting) < budget THEN Len(waiting) ELSE budget
             due == active \o SubSeq(waiting, 1, n)
             rest == SubSeq(waiting, n + 1, Len(waiting))
             m == Message("Response", Head(due))
  <2>1. /\ due # <<>> /\ Deliver("Response", Head(due)) /\ active' = Tail(due)
        /\ waiting' = rest /\ n <= budget /\ budget' = budget - n
    BY <1>2 DEF Transmission, TryDebit
  <2>2. n \in 0..Len(waiting) /\ n \in 0..budget
    BY <1>0
  <2> HIDE DEF n
  <2>3. /\ Head(due) \in Calls /\ Tail(due) \in Seq(Calls) /\ rest \in Seq(Calls)
        /\ Len(Tail(due)) + 1 = Len(active) + n
        /\ Head(due) \in Range(active) \cup Range(waiting)
        /\ Range(Tail(due)) \cup Range(rest) \subseteq Range(active) \cup Range(waiting)
        /\ \A T : /\ CountIn(Tail(due), T) + CountIn(rest, T) + (IF Head(due) \in T THEN 1 ELSE 0)
                     = CountIn(active, T) + CountIn(waiting, T)
                  /\ CountIn(Tail(due), T) \in Nat /\ CountIn(rest, T) \in Nat
    BY <2>1, <2>2, DueFacts
  <2> HIDE DEF due, rest
  <2>4. m \in Answers /\ m.op = "Response" /\ m.id = Head(due) /\ m \in Responses
    BY <2>3, MessageFacts
  <2>5. down' = IF linked THEN Append(down, m) ELSE down
    BY <2>1 DEF Deliver
  <2>6. \A c \in Calls :
          CountIn(control', {c}) + CountIn(waiting', {c}) + CountIn(active', {c}) + (IF m.id = c THEN 1 ELSE 0)
          = CountIn(control, {c}) + CountIn(waiting, {c}) + CountIn(active, {c})
    <3> SUFFICES ASSUME NEW c \in Calls
                 PROVE  CountIn(control', {c}) + CountIn(waiting', {c}) + CountIn(active', {c})
                          + (IF m.id = c THEN 1 ELSE 0)
                        = CountIn(control, {c}) + CountIn(waiting, {c}) + CountIn(active, {c})
      OBVIOUS
    <3>1. /\ CountIn(active', {c}) + CountIn(waiting', {c}) + (IF Head(due) \in {c} THEN 1 ELSE 0)
             = CountIn(active, {c}) + CountIn(waiting, {c})
          /\ CountIn(active', {c}) \in Nat /\ CountIn(waiting', {c}) \in Nat
      BY <2>1, <2>3
    <3>2. (IF Head(due) \in {c} THEN 1 ELSE 0) = (IF m.id = c THEN 1 ELSE 0)
      BY <2>4
    <3>3. CountIn(control', {c}) = CountIn(control, {c})
      BY <1>2
    <3> HIDE DEF m
    <3> QED BY <1>c, <3>1, <3>2, <3>3
  <2> HIDE DEF m
  <2>7. /\ control' \in Seq(Calls) /\ waiting' \in Seq(Calls) /\ active' \in Seq(Calls)
        /\ Range(control') \subseteq Range(control)
        /\ Range(active') \cup Range(waiting') \subseteq Range(active) \cup Range(waiting)
    BY <1>0, <1>2, <2>1, <2>3
  <2>8. Len(active') + (IF m \in Responses THEN 1 ELSE 0) = Len(active) + n
    BY <2>1, <2>3, <2>4
  <2>9. m.op # "Error" /\ m.id \in Range(active) \cup Range(waiting)
    BY <2>3, <2>4
  <2> QED BY <2>1, <2>2, <2>4, <2>5, <2>6, <2>7, <2>8, <2>9
<1> QED BY <1>1, <1>2 DEF Advance, Transmission


\* The send driver admits one answer to the scheduler.
LEMMA AdmitFacts ==
  ASSUME TypeOK, Admit
  PROVE  \E n \in 0..budget :
           LET m == Head(channel)
           IN  /\ channel # <<>> /\ channel' = Tail(channel) /\ m \in Answers /\ m \in Range(channel)
               /\ control' \in Seq(Calls) /\ waiting' \in Seq(Calls) /\ active' \in Seq(Calls)
               /\ budget' = budget - n /\ Len(active') = Len(active) + n
               /\ Range(control') \subseteq Range(control) \cup {d \in {m.id} : m.op = "Error"}
               /\ Range(active') \cup Range(waiting')
                    \subseteq Range(active) \cup Range(waiting) \cup {d \in {m.id} : m.op = "Response"}
               /\ \A c \in Calls :
                    CountIn(control', {c}) + CountIn(waiting', {c}) + CountIn(active', {c})
                    = CountIn(control, {c}) + CountIn(waiting, {c}) + CountIn(active, {c})
                        + (IF m.id = c THEN 1 ELSE 0)
<1> DEFINE m == Head(channel)
           d == m.id
<1>0. /\ control \in Seq(Calls) /\ waiting \in Seq(Calls) /\ active \in Seq(Calls) /\ budget \in Nat
      /\ channel \in Seq(Answers) /\ Len(active) \in Nat
  BY QueueTypes
<1>c. \A c \in Calls : /\ CountIn(control, {c}) \in Nat /\ CountIn(waiting, {c}) \in Nat
                       /\ CountIn(active, {c}) \in Nat
  BY <1>0, CountType
<1>1. channel # <<>> /\ channel' = Tail(channel)
  BY DEF Admit
<1>2. m \in Answers /\ m \in Range(channel) /\ d \in Calls
  <2>1. m \in Answers /\ m \in Range(channel)
    BY <1>0, <1>1, HeadTailProperties, RangeSteps
  <2> QED BY <2>1 DEF Answers
<1>3. ASSUME NEW q \in Seq(Calls)
      PROVE  /\ Append(q, d) \in Seq(Calls) /\ Range(Append(q, d)) = Range(q) \cup {d}
             /\ Len(Append(q, d)) = Len(q) + 1
             /\ \A c \in Calls : CountIn(Append(q, d), {c}) = CountIn(q, {c}) + (IF d = c THEN 1 ELSE 0)
  <2>1. /\ Append(q, d) \in Seq(Calls) /\ Range(Append(q, d)) = Range(q) \cup {d}
        /\ Len(Append(q, d)) = Len(q) + 1
    BY <1>2, AppendProperties, RangeSteps
  <2>2. ASSUME NEW c \in Calls
        PROVE  CountIn(Append(q, d), {c}) = CountIn(q, {c}) + (IF d = c THEN 1 ELSE 0)
    <3>1. CountIn(Append(q, d), {c}) = CountIn(q, {c}) + (IF d \in {c} THEN 1 ELSE 0)
      BY <1>2, CountAppend
    <3> QED BY <3>1
  <2> QED BY <2>1, <2>2
<1> DEFINE Placed(n) ==
             /\ control' \in Seq(Calls) /\ waiting' \in Seq(Calls) /\ active' \in Seq(Calls)
             /\ budget' = budget - n /\ Len(active') = Len(active) + n
             /\ Range(control') \subseteq Range(control) \cup {e \in {m.id} : m.op = "Error"}
             /\ Range(active') \cup Range(waiting')
                  \subseteq Range(active) \cup Range(waiting) \cup {e \in {m.id} : m.op = "Response"}
             /\ \A c \in Calls :
                  CountIn(control', {c}) + CountIn(waiting', {c}) + CountIn(active', {c})
                  = CountIn(control, {c}) + CountIn(waiting, {c}) + CountIn(active, {c})
                      + (IF m.id = c THEN 1 ELSE 0)
<1>k. ASSUME NEW x \in Nat, NEW y \in Nat, NEW z \in Nat, NEW i \in {0, 1}
      PROVE  (x + i) + y + z = x + y + z + i /\ x + (y + i) + z = x + y + z + i /\ x + y + (z + i) = x + y + z + i
  OBVIOUS
<1>i. \A c \in Calls : (IF d = c THEN 1 ELSE 0) \in {0, 1} /\ (IF d = c THEN 1 ELSE 0) = IF m.id = c THEN 1 ELSE 0
  OBVIOUS
<1>4. CASE m.op = "Error" /\ control' = Append(control, d) /\ UNCHANGED <<waiting, active, budget>>
  <2>1. /\ control' \in Seq(Calls) /\ waiting' \in Seq(Calls) /\ active' \in Seq(Calls)
        /\ Range(control') \subseteq Range(control) \cup {e \in {m.id} : m.op = "Error"}
        /\ Range(active') \cup Range(waiting')
             \subseteq Range(active) \cup Range(waiting) \cup {e \in {m.id} : m.op = "Response"}
    BY <1>0, <1>3, <1>4
  <2>2. budget' = budget - 0 /\ Len(active') = Len(active) + 0
    BY <1>0, <1>4
  <2>3. ASSUME NEW c \in Calls
        PROVE  CountIn(control', {c}) + CountIn(waiting', {c}) + CountIn(active', {c})
                  = CountIn(control, {c}) + CountIn(waiting, {c}) + CountIn(active, {c})
                      + (IF m.id = c THEN 1 ELSE 0)
    <3>1. /\ CountIn(control', {c}) = CountIn(control, {c}) + (IF d = c THEN 1 ELSE 0)
          /\ CountIn(waiting', {c}) = CountIn(waiting, {c}) /\ CountIn(active', {c}) = CountIn(active, {c})
      BY <1>0, <1>3, <1>4
    <3> HIDE DEF m, d
    <3> QED BY <1>c, <1>k, <1>i, <3>1
  <2>4. Placed(0)
    BY <2>1, <2>2, <2>3
  <2>5. 0 \in 0..budget
    BY <1>0
  <2> HIDE DEF Placed
  <2> QED BY <1>1, <1>2, <2>4, <2>5 DEF Placed
<1>5. CASE m.op = "Response" /\ 1 <= budget /\ budget' = budget - 1 /\ active' = Append(active, d)
           /\ UNCHANGED <<control, waiting>>
  <2>1. /\ control' \in Seq(Calls) /\ waiting' \in Seq(Calls) /\ active' \in Seq(Calls)
        /\ Range(control') \subseteq Range(control) \cup {e \in {m.id} : m.op = "Error"}
        /\ Range(active') \cup Range(waiting')
             \subseteq Range(active) \cup Range(waiting) \cup {e \in {m.id} : m.op = "Response"}
    BY <1>0, <1>3, <1>5
  <2>2. budget' = budget - 1 /\ Len(active') = Len(active) + 1
    BY <1>0, <1>3, <1>5
  <2>3. ASSUME NEW c \in Calls
        PROVE  CountIn(control', {c}) + CountIn(waiting', {c}) + CountIn(active', {c})
                  = CountIn(control, {c}) + CountIn(waiting, {c}) + CountIn(active, {c})
                      + (IF m.id = c THEN 1 ELSE 0)
    <3>1. /\ CountIn(active', {c}) = CountIn(active, {c}) + (IF d = c THEN 1 ELSE 0)
          /\ CountIn(waiting', {c}) = CountIn(waiting, {c}) /\ CountIn(control', {c}) = CountIn(control, {c})
      BY <1>0, <1>3, <1>5
    <3> HIDE DEF m, d
    <3> QED BY <1>c, <1>k, <1>i, <3>1
  <2>4. Placed(1)
    BY <2>1, <2>2, <2>3
  <2>5. 1 \in 0..budget
    BY <1>0, <1>5
  <2> HIDE DEF Placed
  <2> QED BY <1>1, <1>2, <2>4, <2>5 DEF Placed
<1>6. CASE m.op = "Response" /\ waiting' = Append(waiting, d) /\ UNCHANGED <<control, active, budget>>
  <2>1. /\ control' \in Seq(Calls) /\ waiting' \in Seq(Calls) /\ active' \in Seq(Calls)
        /\ Range(control') \subseteq Range(control) \cup {e \in {m.id} : m.op = "Error"}
        /\ Range(active') \cup Range(waiting')
             \subseteq Range(active) \cup Range(waiting) \cup {e \in {m.id} : m.op = "Response"}
    BY <1>0, <1>3, <1>6
  <2>2. budget' = budget - 0 /\ Len(active') = Len(active) + 0
    BY <1>0, <1>6
  <2>3. ASSUME NEW c \in Calls
        PROVE  CountIn(control', {c}) + CountIn(waiting', {c}) + CountIn(active', {c})
                  = CountIn(control, {c}) + CountIn(waiting, {c}) + CountIn(active, {c})
                      + (IF m.id = c THEN 1 ELSE 0)
    <3>1. /\ CountIn(waiting', {c}) = CountIn(waiting, {c}) + (IF d = c THEN 1 ELSE 0)
          /\ CountIn(control', {c}) = CountIn(control, {c}) /\ CountIn(active', {c}) = CountIn(active, {c})
      BY <1>0, <1>3, <1>6
    <3> HIDE DEF m, d
    <3> QED BY <1>c, <1>k, <1>i, <3>1
  <2>4. Placed(0)
    BY <2>1, <2>2, <2>3
  <2>5. 0 \in 0..budget
    BY <1>0
  <2> HIDE DEF Placed
  <2> QED BY <1>1, <1>2, <2>4, <2>5 DEF Placed
<1> QED BY <1>4, <1>5, <1>6 DEF Admit, TryDebit

\* The queues keep their types.
LEMMA QueuesStep ==
  ASSUME TypeOK, [Next]_vars
  PROVE  /\ up' \in Seq(Requests) /\ down' \in Seq(Answers) /\ channel' \in Seq(Answers)
         /\ control' \in Seq(Calls) /\ waiting' \in Seq(Calls) /\ active' \in Seq(Calls)
<1>0. /\ up \in Seq(Requests) /\ down \in Seq(Answers) /\ channel \in Seq(Answers)
      /\ control \in Seq(Calls) /\ waiting \in Seq(Calls) /\ active \in Seq(Calls)
  BY QueueTypes
<1>u. ASSUME NEW c \in Calls, NEW op \in {"Request", "Trailer", "PayloadCredit"}, Transmit(op, c)
      PROVE  up' \in Seq(Requests)
  BY <1>0, <1>u, MessageFacts, AppendProperties DEF Transmit
<1>a. \A c \in Calls, op \in {"Response", "Error"} :
        Append(channel, Message(op, c)) \in Seq(Answers) /\ channel \o <<Message(op, c)>> \in Seq(Answers)
  <2> SUFFICES ASSUME NEW c \in Calls, NEW op \in {"Response", "Error"}
               PROVE  Append(channel, Message(op, c)) \in Seq(Answers)
                      /\ channel \o <<Message(op, c)>> \in Seq(Answers)
    OBVIOUS
  <2>1. Message(op, c) \in Answers
    BY MessageFacts
  <2> QED BY <1>0, <2>1, AppendProperties, AppendIsConcat
<1>1. ASSUME NEW c \in Calls, Issue(c) \/ Upload(c) \/ ReturnQuota(c)
      PROVE  up' \in Seq(Requests) /\ UNCHANGED <<down, channel, control, waiting, active>>
  BY <1>u, <1>1 DEF Issue, Upload, ReturnQuota, sendVars, schedVars
<1>2. CASE ClientReceive
  <2>1. down # <<>> /\ down' = Tail(down) /\ UNCHANGED <<up, channel, control, waiting, active>>
    BY <1>2 DEF ClientReceive, sendVars, schedVars
  <2> QED BY <1>0, <2>1, HeadTailProperties
<1>3. CASE ClientClose \/ ClientVanish
  <2>1. down' = <<>> /\ UNCHANGED <<up, channel, control, waiting, active>>
    BY <1>3 DEF ClientClose, ClientVanish, Depart, sendVars, schedVars
  <2>2. down' \in Seq(Answers)
    BY <2>1
  <2> QED BY <1>0, <2>1, <2>2
<1>4. ASSUME NEW c \in Calls, Handler(c)
      PROVE  channel' \in Seq(Answers) /\ UNCHANGED <<up, down, control, waiting, active>>
  BY <1>0, <1>a, <1>4 DEF Handler, Respond, GiveUp, TaskDone, Answer, sendVars, schedVars
<1>5. CASE RecvMessage
  <2>1. /\ up # <<>> /\ up' = Tail(up) /\ UNCHANGED <<down, control, waiting, active>>
        /\ channel' = channel \/ channel' = Append(channel, Message("Error", Head(up).id))
    BY <1>5 DEF RecvMessage, RecvRequest
  <2>2. Head(up) \in Requests /\ Tail(up) \in Seq(Requests)
    BY <1>0, <2>1, HeadTailProperties
  <2>3. Head(up).id \in Calls
    BY <2>2 DEF Requests
  <2> QED BY <1>0, <1>a, <2>1, <2>2, <2>3
<1>6. CASE RecvEnd
  <2>1. UNCHANGED <<up, down, control, waiting, active>> /\ (channel' = channel \/ DropTasks)
    BY <1>6 DEF RecvEnd, sendVars, schedVars
  <2>2. ASSUME DropTasks PROVE channel' \in Seq(Answers)
    <3> DEFINE R == {c \in Calls : task[c] = "running"}
               E == {Message("Error", c) : c \in R}
    <3>1. channel' = channel \o SetToSeq(E)
      BY <2>2 DEF DropTasks
    <3>2. IsFiniteSet(R)
      BY CallsAssumption, FS_Subset
    <3>3. IsFiniteSet(E)
      <4> DEFINE f == [c \in R |-> Message("Error", c)]
      <4>1. f \in Surjection(R, E)
        BY DEF Surjection
      <4> HIDE DEF f, R, E
      <4> QED BY <3>2, <4>1, FS_Surjection
    <3>4. E \subseteq Answers
      BY MessageFacts
    <3> HIDE DEF E
    <3>5. SetToSeq(E) \in Seq(Answers)
      BY <3>3, <3>4, SetToSeqType, SeqMonotonic
    <3> QED BY <1>0, <3>1, <3>5, ConcatProperties
  <2> QED BY <1>0, <2>1, <2>2
<1>7. CASE Admit
  <2>1. UNCHANGED <<up, down>>
    BY <1>7 DEF Admit
  <2>2. channel' \in Seq(Answers) /\ control' \in Seq(Calls) /\ waiting' \in Seq(Calls) /\ active' \in Seq(Calls)
    BY <1>0, <1>7, AdmitFacts, HeadTailProperties
  <2> QED BY <1>0, <2>1, <2>2
<1>8. CASE Advance
  <2>1. UNCHANGED <<up, channel>>
    BY <1>8 DEF Advance
  <2>2. PICK m \in Answers :
          /\ down' = (IF linked THEN Append(down, m) ELSE down)
          /\ control' \in Seq(Calls) /\ waiting' \in Seq(Calls) /\ active' \in Seq(Calls)
    BY <1>8, AdvanceFacts
  <2>3. down' \in Seq(Answers)
    BY <1>0, <2>2, AppendProperties
  <2> QED BY <1>0, <2>1, <2>2, <2>3
<1>9. CASE UNCHANGED <<up, down, channel, control, waiting, active>>
  BY <1>0, <1>9
<1>10. \/ \E c \in Calls : Issue(c) \/ Upload(c) \/ ReturnQuota(c) \/ Handler(c)
       \/ ClientReceive \/ ClientClose \/ ClientVanish \/ RecvMessage \/ RecvEnd \/ Admit \/ Advance
       \/ UNCHANGED <<up, down, channel, control, waiting, active>>
  BY DEF Next, Client, RecvDriver, SendDriver, RecvShutdown, RecvSettle, SendHead, ChannelClosed,
     DrainChanged, SendFail, vars, sendVars, schedVars
<1> QED BY <1>0, <1>1, <1>2, <1>3, <1>4, <1>5, <1>6, <1>7, <1>8, <1>9, <1>10


-----------------------------------------------------------------------------
(***************************************************************************)
(* Every step keeps the invariant.                                         *)
(***************************************************************************)

\* The quota stays within its bound.
LEMMA QuotaStep ==
  ASSUME TypeOK, QuotaBound, [Next]_vars
  PROVE  QuotaBound' /\ budget' \in Nat
<1>0. /\ up \in Seq(Requests) /\ down \in Seq(Answers) /\ active \in Seq(Calls)
      /\ budget \in Nat /\ Quota \in Nat /\ IsFiniteSet(holding) /\ Cardinality(holding) \in Nat
      /\ Len(active) \in Nat
  BY QueueTypes
<1>n. CountIn(down, Responses) \in Nat /\ CountIn(up, Credits) \in Nat
  BY <1>0, CountType
<1>q. budget + Len(active) + CountIn(down, Responses) + Cardinality(holding) + CountIn(up, Credits) <= Quota
  BY DEF QuotaBound
<1>u. ASSUME NEW c \in Calls, NEW op \in {"Request", "Trailer", "PayloadCredit"}, linked, Transmit(op, c)
      PROVE  CountIn(up', Credits) = CountIn(up, Credits) + (IF op = "PayloadCredit" THEN 1 ELSE 0)
  <2>1. up' = Append(up, Message(op, c)) /\ Message(op, c) \in Requests
    BY <1>u, MessageFacts DEF Transmit
  <2>2. Message(op, c) \in Credits <=> op = "PayloadCredit"
    BY <2>1, MessageFacts
  <2>3. CountIn(up', Credits) = CountIn(up, Credits) + (IF Message(op, c) \in Credits THEN 1 ELSE 0)
    BY <1>0, <2>1, CountAppend
  <2> QED BY <2>2, <2>3
<1>1. ASSUME NEW c \in Calls, Issue(c) \/ Upload(c) PROVE QuotaBound' /\ budget' \in Nat
  <2>1. UNCHANGED <<budget, active, down, holding>> /\ linked /\ (Transmit("Request", c) \/ Transmit("Trailer", c))
    BY <1>1 DEF Issue, Upload, sendVars, schedVars
  <2>2. CountIn(up', Credits) = CountIn(up, Credits) + 0
    BY <1>u, <2>1
  <2> QED BY <1>0, <1>n, <1>q, <2>1, <2>2 DEF QuotaBound
<1>2. ASSUME NEW c \in Calls, ReturnQuota(c) PROVE QuotaBound' /\ budget' \in Nat
  <2>1. /\ UNCHANGED <<budget, active, down>> /\ linked /\ Transmit("PayloadCredit", c)
        /\ c \in holding /\ holding' = holding \ {c}
    BY <1>2 DEF ReturnQuota, sendVars, schedVars
  <2>2. CountIn(up', Credits) = CountIn(up, Credits) + 1
    BY <1>u, <2>1
  <2>3. Cardinality(holding') = Cardinality(holding) - 1
    BY <1>0, <2>1, FS_RemoveElement
  <2> QED BY <1>0, <1>n, <1>q, <2>1, <2>2, <2>3 DEF QuotaBound
<1>3. CASE ClientReceive
  <2> DEFINE m == Head(down)
  <2>1. /\ UNCHANGED <<budget, active, up>> /\ down # <<>> /\ down' = Tail(down)
        /\ holding' = IF m.op = "Response" THEN holding \cup {m.id} ELSE holding
    BY <1>3 DEF ClientReceive, sendVars, schedVars
  <2>2. m \in Answers
    BY <1>0, <2>1, HeadTailProperties
  <2>3. m \in Responses <=> m.op = "Response"
    BY <2>2 DEF Responses
  <2>4. CountIn(down, Responses) = CountIn(down', Responses) + (IF m \in Responses THEN 1 ELSE 0)
    BY <1>0, <2>1, CountTail
  <2>5. CountIn(down', Responses) \in Nat
    BY <1>0, <2>1, HeadTailProperties, CountType
  <2>6. /\ Cardinality(holding \cup {m.id}) \in Nat
        /\ Cardinality(holding \cup {m.id}) <= Cardinality(holding) + 1
    <3> DEFINE i == m.id
    <3> HIDE DEF i, m
    <3>1. CASE i \in holding
      <4>1. holding \cup {i} = holding
        BY <3>1
      <4>2. Cardinality(holding) <= Cardinality(holding) + 1
        BY <1>0
      <4> QED BY <1>0, <4>1, <4>2 DEF i
    <3>2. CASE i \notin holding
      <4>1. Cardinality(holding \cup {i}) = Cardinality(holding) + 1
        BY <1>0, <3>2, FS_AddElement
      <4> QED BY <1>0, <4>1 DEF i
    <3> QED BY <3>1, <3>2
  <2> HIDE DEF m
  <2>9. budget' = budget /\ active' = active /\ up' = up
    BY <2>1
  <2>7. CASE m.op = "Response"
    <3>1. /\ CountIn(down, Responses) = CountIn(down', Responses) + 1
          /\ Cardinality(holding') \in Nat /\ Cardinality(holding') <= Cardinality(holding) + 1
      BY <2>1, <2>3, <2>4, <2>6, <2>7
    <3> QED BY <1>0, <1>n, <1>q, <2>9, <2>5, <3>1 DEF QuotaBound
  <2>8. CASE m.op # "Response"
    <3>1. CountIn(down, Responses) = CountIn(down', Responses) + 0 /\ holding' = holding
      BY <2>1, <2>3, <2>4, <2>8
    <3> QED BY <1>0, <1>n, <1>q, <2>9, <2>5, <3>1 DEF QuotaBound
  <2> QED BY <2>7, <2>8
<1>4. CASE ClientClose \/ ClientVanish
  <2>1. UNCHANGED <<budget, active, up>> /\ down' = <<>> /\ holding' = {}
    BY <1>4 DEF ClientClose, ClientVanish, Depart, sendVars, schedVars
  <2>2. CountIn(down', Responses) = 0
    <3>1. down' \in Seq(Answers) /\ DOMAIN down' = {}
      BY <2>1
    <3> QED BY <3>1, CountZero
  <2>3. Cardinality(holding') = 0
    BY <2>1, FS_EmptySet
  <2> QED BY <1>0, <1>n, <1>q, <2>1, <2>2, <2>3 DEF QuotaBound
<1>5. CASE RecvMessage
  <2> DEFINE m == Head(up)
  <2>1. /\ UNCHANGED <<active, down, holding>> /\ up # <<>> /\ up' = Tail(up)
        /\ \/ m.op # "PayloadCredit" /\ budget' = budget
           \/ m.op = "PayloadCredit" /\ budget' = budget + 1
    BY <1>5 DEF RecvMessage, clientVars
  <2>2. m \in Requests
    BY <1>0, <2>1, HeadTailProperties
  <2>3. m \in Credits <=> m.op = "PayloadCredit"
    BY <2>2 DEF Credits
  <2>4. CountIn(up, Credits) = CountIn(up', Credits) + (IF m \in Credits THEN 1 ELSE 0)
    BY <1>0, <2>1, CountTail
  <2>5. CountIn(up', Credits) \in Nat
    BY <1>0, <2>1, HeadTailProperties, CountType
  <2> HIDE DEF m
  <2>6. CASE m.op = "PayloadCredit"
    <3>1. CountIn(up, Credits) = CountIn(up', Credits) + 1 /\ budget' = budget + 1
      BY <2>1, <2>3, <2>4, <2>6
    <3> QED BY <1>0, <1>n, <1>q, <2>1, <2>5, <3>1 DEF QuotaBound
  <2>7. CASE m.op # "PayloadCredit"
    BY <1>0, <1>n, <1>q, <2>1, <2>3, <2>4, <2>5, <2>7 DEF QuotaBound
  <2> QED BY <2>6, <2>7
<1>6. CASE Admit
  <2>1. UNCHANGED <<up, down, holding>>
    BY <1>6 DEF Admit, clientVars
  <2>2. PICK n \in 0..budget : budget' = budget - n /\ Len(active') = Len(active) + n
    BY <1>6, AdmitFacts
  <2> QED BY <1>0, <1>n, <1>q, <2>1, <2>2 DEF QuotaBound
<1>7. CASE Advance
  <2>1. UNCHANGED <<up, holding>>
    BY <1>7 DEF Advance, clientVars
  <2>2. PICK m \in Answers, n \in 0..budget :
          /\ down' = (IF linked THEN Append(down, m) ELSE down)
          /\ budget' = budget - n
          /\ Len(active') + (IF m \in Responses THEN 1 ELSE 0) = Len(active) + n
          /\ active' \in Seq(Calls)
    BY <1>7, AdvanceFacts
  <2>3. CountIn(Append(down, m), Responses) = CountIn(down, Responses) + (IF m \in Responses THEN 1 ELSE 0)
    BY <1>0, CountAppend
  <2>4. Len(active') \in Nat
    BY <2>2
  <2> DEFINE i == IF m \in Responses THEN 1 ELSE 0
  <2>i. i \in Nat /\ Len(active') + i = Len(active) + n /\ budget' = budget - n /\ n \in Nat /\ n <= budget
    BY <1>0, <2>2
  <2>d. CountIn(down', Responses) = CountIn(down, Responses) + (IF linked THEN i ELSE 0)
    BY <1>n, <2>2, <2>3
  <2> HIDE DEF i
  <2>5. CASE linked
    <3>1. CountIn(down', Responses) = CountIn(down, Responses) + i
      BY <2>5, <2>d
    <3> QED BY <1>0, <1>n, <1>q, <2>1, <2>4, <2>i, <3>1 DEF QuotaBound
  <2>6. CASE ~linked
    <3>1. CountIn(down', Responses) = CountIn(down, Responses) + 0
      BY <2>6, <2>d
    <3> QED BY <1>0, <1>n, <1>q, <2>1, <2>4, <2>i, <3>1 DEF QuotaBound
  <2> QED BY <2>5, <2>6
<1>8. CASE UNCHANGED <<up, down, active, holding, budget>>
  BY <1>0, <1>q, <1>8 DEF QuotaBound
<1>9. \/ \E c \in Calls : Issue(c) \/ Upload(c) \/ ReturnQuota(c)
      \/ ClientReceive \/ ClientClose \/ ClientVanish \/ RecvMessage \/ Admit \/ Advance
      \/ UNCHANGED <<up, down, active, holding, budget>>
  BY DEF Next, Client, RecvDriver, SendDriver, RecvShutdown, RecvSettle, RecvEnd, SendHead, ChannelClosed,
     DrainChanged, SendFail, Handler, Respond, GiveUp, TaskDone, vars, clientVars, sendVars, schedVars
<1> QED BY <1>1, <1>2, <1>3, <1>4, <1>5, <1>6, <1>7, <1>8, <1>9

\* Only an upload's request has a trailer.
LEMMA UploadsStep ==
  ASSUME TypeOK, UploadsOnly, [Next]_vars
  PROVE  UploadsOnly'
<1>0. up \in Seq(Requests) /\ \A m \in Range(up) : m.op = "Trailer" => m.id \in Uploads
  BY QueueTypes DEF UploadsOnly
<1>u. ASSUME NEW c \in Calls, NEW op \in {"Request", "Trailer", "PayloadCredit"}, linked, Transmit(op, c),
             op = "Trailer" => c \in Uploads
      PROVE  UploadsOnly'
  <2>1. up' = Append(up, Message(op, c)) /\ Message(op, c) \in Requests
        /\ Message(op, c).op = op /\ Message(op, c).id = c
    BY <1>u, MessageFacts DEF Transmit
  <2>2. Range(up') = Range(up) \cup {Message(op, c)}
    BY <1>0, <2>1, RangeSteps
  <2> QED BY <1>0, <1>u, <2>1, <2>2 DEF UploadsOnly
<1>1. ASSUME NEW c \in Calls, Issue(c) \/ Upload(c) \/ ReturnQuota(c) PROVE UploadsOnly'
  <2>1. sending \subseteq Uploads
    BY DEF TypeOK
  <2> QED BY <1>u, <1>1, <2>1 DEF Issue, Upload, ReturnQuota
<1>2. CASE RecvMessage
  <2>1. Range(up') \subseteq Range(up)
    BY <1>0, <1>2, RangeSteps DEF RecvMessage
  <2> QED BY <1>0, <2>1 DEF UploadsOnly
<1>3. CASE UNCHANGED up
  BY <1>0, <1>3 DEF UploadsOnly
<1>4. \/ \E c \in Calls : Issue(c) \/ Upload(c) \/ ReturnQuota(c)
      \/ RecvMessage \/ UNCHANGED up
  BY DEF Next, Client, ClientReceive, ClientClose, ClientVanish, Depart, RecvDriver, SendDriver, RecvShutdown,
     RecvSettle, RecvEnd, SendHead, Admit, Advance, ChannelClosed, DrainChanged, SendFail, Handler, Respond,
     GiveUp, TaskDone, vars
<1> QED BY <1>1, <1>2, <1>3, <1>4

\* The receive driver ends after the client, and seals only a drain without
\* handlers.
LEMMA DrainedStep ==
  ASSUME TypeOK, Drained, SealedMeansAnswered, [Next]_vars
  PROVE  Drained' /\ SealedMeansAnswered'
<1>0. /\ linked => recv = "running"
      /\ mode = "Graceful" => draining /\ Dispatched(task) = {}
      /\ task \in [Calls -> {"none", "running", "responded", "done"}]
  BY QueueTypes DEF Drained, SealedMeansAnswered
<1> DEFINE Kept == /\ linked' => recv' = "running"
                   /\ mode' = "Graceful" => draining' /\ Dispatched(task') = {}
<1>1. ASSUME RecvMessage PROVE Kept
  <2>1. UNCHANGED <<linked, recv, mode, draining>> /\ (draining => task' = task)
    BY <1>1 DEF RecvMessage, RecvRequest, clientVars, recvVars
  <2> QED BY <1>0, <2>1
<1>2. ASSUME RecvShutdown PROVE Kept
  <2>1. UNCHANGED <<linked, recv, task>> /\ draining' /\ SealIfIdle(TRUE, task) /\ ~draining
    BY <1>2 DEF RecvShutdown, clientVars
  <2> QED BY <1>0, <2>1 DEF SealIfIdle, SetMode
<1>3. ASSUME NEW c \in Calls, TaskDone(c) PROVE Kept
  <2>1. UNCHANGED <<linked, recv, draining>> /\ task' = [task EXCEPT ![c] = "done"]
        /\ (SealIfIdle(draining, task') \/ mode' = mode)
    BY <1>3 DEF TaskDone, clientVars
  <2>2. Dispatched(task') \subseteq Dispatched(task)
    BY <1>0, <2>1 DEF Dispatched
  <2>3. mode' = "Graceful" => mode = "Graceful" \/ (draining /\ Dispatched(task') = {})
    BY <2>1 DEF SealIfIdle, SetMode
  <2> QED BY <1>0, <2>1, <2>2, <2>3
<1>4. ASSUME NEW c \in Calls, Respond(c) \/ GiveUp(c) PROVE Kept
  <2>1. /\ UNCHANGED <<linked, recv, mode, draining>> /\ task[c] = "running"
        /\ task' = [task EXCEPT ![c] = "responded"]
    BY <1>4 DEF Respond, GiveUp, clientVars, recvVars
  <2>2. c \in Dispatched(task)
    BY <2>1 DEF Dispatched
  <2> QED BY <1>0, <2>1, <2>2
<1>5. ASSUME RecvEnd \/ RecvSettle PROVE Kept
  <2>1. linked' = linked /\ ~linked /\ draining' = draining
    BY <1>0, <1>5 DEF RecvEnd, RecvSettle, clientVars
  <2>2. (mode' = mode /\ task' = task) \/ mode' = "Abrupt"
    BY <1>5 DEF RecvEnd, RecvSettle, SetMode, taskVars
  <2> QED BY <1>0, <2>1, <2>2
<1>6. ASSUME SendFail PROVE Kept
  <2>1. ~linked /\ UNCHANGED <<linked, draining, mode>>
        /\ task' = [c \in Calls |-> IF task[c] = "none" THEN "none" ELSE "done"]
    BY <1>6 DEF SendFail, clientVars
  <2>2. Dispatched(task') = {}
    BY <2>1 DEF Dispatched
  <2> QED BY <1>0, <2>1, <2>2
<1>7. ASSUME UNCHANGED <<recv, draining, mode, task>> /\ (linked' => linked) PROVE Kept
  BY <1>0, <1>7
<1>8. \/ RecvMessage \/ RecvShutdown \/ RecvEnd \/ RecvSettle \/ SendFail
      \/ \E c \in Calls : TaskDone(c) \/ Respond(c) \/ GiveUp(c)
      \/ UNCHANGED <<recv, draining, mode, task>> /\ (linked' => linked)
  BY DEF Next, Client, Issue, Upload, ReturnQuota, ClientReceive, ClientClose, ClientVanish, Depart,
     RecvDriver, SendDriver, SendHead, Admit, Advance, ChannelClosed, DrainChanged, Handler, vars,
     clientVars, taskVars, recvVars
<1>9. Kept
  BY <1>1, <1>2, <1>3, <1>4, <1>5, <1>6, <1>7, <1>8
<1> QED BY <1>9 DEF Drained, SealedMeansAnswered, Dispatched


\* Every variable keeps its type.
LEMMA TypeStep ==
  ASSUME TypeOK, QuotaBound, UploadsOnly, [Next]_vars
  PROVE  TypeOK'
<1>1. /\ up' \in Seq(Requests) /\ down' \in Seq(Answers) /\ channel' \in Seq(Answers)
      /\ control' \in Seq(Calls) /\ waiting' \in Seq(Calls) /\ active' \in Seq(Calls)
  BY QueuesStep
<1>2. sending' \subseteq Uploads /\ holding' \subseteq Calls /\ linked' \in BOOLEAN
      /\ call' \in [Calls -> {"new", "sent", "answered", "error", "lost"}]
  <2>0. /\ sending \subseteq Uploads /\ holding \subseteq Calls /\ linked \in BOOLEAN
        /\ call \in [Calls -> {"new", "sent", "answered", "error", "lost"}]
    BY DEF TypeOK
  <2>1. ASSUME NEW c \in Calls, Issue(c) \/ Upload(c) \/ ReturnQuota(c)
        PROVE  /\ sending' \subseteq Uploads /\ holding' \subseteq Calls /\ linked' \in BOOLEAN
               /\ call' \in [Calls -> {"new", "sent", "answered", "error", "lost"}]
    BY <2>0, <2>1 DEF Issue, Upload, ReturnQuota
  <2>2. CASE ClientReceive
    <3>1. Head(down) \in Answers
      BY <2>2, QueueTypes, HeadTailProperties DEF ClientReceive
    <3>2. Head(down).id \in Calls
      BY <3>1 DEF Answers
    <3> QED BY <2>0, <2>2, <3>2 DEF ClientReceive
  <2>3. CASE ClientClose \/ ClientVanish
    BY <2>0, <2>3 DEF ClientClose, ClientVanish, Depart
  <2>4. CASE UNCHANGED clientVars
    BY <2>0, <2>4 DEF clientVars
  <2> QED BY <2>1, <2>2, <2>3, <2>4 DEF Next, Client, Handler, RecvDriver, SendDriver, Respond, GiveUp,
           TaskDone, RecvMessage, RecvShutdown, RecvEnd, RecvSettle, SendHead, Admit, ChannelClosed,
           DrainChanged, Advance, SendFail, vars
<1>3. read' \subseteq Uploads /\ shutdown' \in {"armed", "sent", "taken"}
      /\ task' \in [Calls -> {"none", "running", "responded", "done"}]
  <2>0. /\ read \subseteq Uploads /\ shutdown \in {"armed", "sent", "taken"}
        /\ task \in [Calls -> {"none", "running", "responded", "done"}]
    BY DEF TypeOK
  <2>1. ASSUME NEW c \in Calls, Handler(c)
        PROVE  /\ read' \subseteq Uploads /\ shutdown' \in {"armed", "sent", "taken"}
               /\ task' \in [Calls -> {"none", "running", "responded", "done"}]
    BY <2>0, <2>1 DEF Handler, Respond, GiveUp, TaskDone
  <2>2. CASE RecvMessage
    <3>1. Head(up) \in Requests /\ Head(up) \in Range(up)
      BY <2>2, QueueTypes, HeadTailProperties, RangeSteps DEF RecvMessage
    <3>2. Head(up).id \in Calls /\ (Head(up).op = "Trailer" => Head(up).id \in Uploads)
      BY <3>1 DEF Requests, UploadsOnly
    <3> QED BY <2>0, <2>2, <3>2 DEF RecvMessage, RecvRequest
  <2>3. CASE RecvShutdown \/ RecvEnd \/ RecvSettle \/ SendFail
    BY <2>0, <2>3 DEF RecvShutdown, RecvEnd, RecvSettle, SendFail, DropTasks, taskVars
  <2>4. CASE UNCHANGED taskVars
    BY <2>0, <2>4 DEF taskVars
  <2> QED BY <2>1, <2>2, <2>3, <2>4 DEF Next, Client, Issue, Upload, ReturnQuota, ClientReceive, ClientClose,
           ClientVanish, Depart, RecvDriver, SendDriver, SendHead, Admit, ChannelClosed, DrainChanged, Advance,
           vars
<1>4. /\ recv' \in {"running", "settling", "ended"} /\ draining' \in BOOLEAN
      /\ mode' \in Modes
  <2>0. recv \in {"running", "settling", "ended"} /\ draining \in BOOLEAN /\ mode \in Modes
    BY DEF TypeOK
  <2>1. ASSUME NEW c \in Calls, Handler(c)
        PROVE  recv' \in {"running", "settling", "ended"} /\ draining' \in BOOLEAN /\ mode' \in Modes
    BY <2>0, <2>1 DEF Handler, Respond, GiveUp, TaskDone, SealIfIdle, SetMode, recvVars, Modes
  <2>2. CASE RecvShutdown \/ RecvEnd \/ RecvSettle \/ SendFail
    BY <2>0, <2>2 DEF RecvShutdown, RecvEnd, RecvSettle, SendFail, SealIfIdle, SetMode, Modes
  <2>3. CASE UNCHANGED recvVars
    BY <2>0, <2>3 DEF recvVars
  <2> QED BY <2>1, <2>2, <2>3 DEF Next, Client, Issue, Upload, ReturnQuota, ClientReceive, ClientClose,
           ClientVanish, Depart, RecvDriver, RecvMessage, SendDriver, SendHead, Admit, ChannelClosed,
           DrainChanged, Advance, vars
<1>5. seen' \in Modes /\ closed' \in BOOLEAN /\ send' \in {"head", "select", "stopped", "failed"}
  <2>0. seen \in Modes /\ closed \in BOOLEAN /\ send \in {"head", "select", "stopped", "failed"} /\ mode \in Modes
    BY DEF TypeOK
  <2>1. CASE SendHead \/ Admit \/ ChannelClosed \/ DrainChanged \/ Advance \/ SendFail
    BY <2>0, <2>1 DEF SendHead, Admit, ChannelClosed, DrainChanged, Advance, SendFail
  <2>2. CASE UNCHANGED <<closed, seen, send>>
    BY <2>0, <2>2
  <2> QED BY <2>1, <2>2 DEF Next, Client, Handler, Issue, Upload, ReturnQuota, ClientReceive, ClientClose,
           ClientVanish, Depart, RecvDriver, RecvMessage, RecvShutdown, RecvEnd, RecvSettle, Respond, GiveUp,
           TaskDone, SendDriver, vars, sendVars
<1>6. budget' \in 0..Quota
  <2>1. budget' \in Nat /\ QuotaBound'
    BY QuotaStep
  <2>2. IsFiniteSet(holding')
    BY <1>2, CallsAssumption, FS_Subset
  <2>3. Len(active') \in Nat /\ CountIn(down', Responses) \in Nat /\ CountIn(up', Credits) \in Nat
        /\ Cardinality(holding') \in Nat
    BY <1>1, <2>2, CountType, FS_CardinalityType
  <2>4. budget' + Len(active') + CountIn(down', Responses) + Cardinality(holding') + CountIn(up', Credits) <= Quota
    BY <2>1 DEF QuotaBound
  <2> QED BY <2>1, <2>3, <2>4, QuotaAssumption
<1> QED BY <1>1, <1>2, <1>3, <1>4, <1>5, <1>6 DEF TypeOK, Requests

\* A request is read once, and until then its call is undecided.
LEMMA AskedStep ==
  ASSUME TypeOK, HeldOnce, AskedOnce, [Next]_vars
  PROVE  AskedOnce'
<1> SUFFICES ASSUME NEW c \in Calls
             PROVE  /\ CountIn(up', {Message("Request", c)}) <= 1
                    /\ CountIn(up', {Message("Request", c)}) = 1
                         => task'[c] = "none" /\ call'[c] \in {"sent", "lost"}
                    /\ call'[c] = "new" => task'[c] = "none"
  BY DEF AskedOnce
<1> DEFINE T == {Message("Request", c)}
           Fine == /\ CountIn(up', T) <= 1
                   /\ CountIn(up', T) = 1 => task'[c] = "none" /\ call'[c] \in {"sent", "lost"}
                   /\ call'[c] = "new" => task'[c] = "none"
<1>0. /\ up \in Seq(Requests) /\ down \in Seq(Answers) /\ CountIn(up, T) \in Nat
      /\ call \in [Calls -> {"new", "sent", "answered", "error", "lost"}]
      /\ task \in [Calls -> {"none", "running", "responded", "done"}]
  BY QueueTypes, CountType
<1>a. /\ CountIn(up, T) <= 1
      /\ CountIn(up, T) = 1 => task[c] = "none" /\ call[c] \in {"sent", "lost"}
      /\ call[c] = "new" => task[c] = "none"
  BY DEF AskedOnce
<1>u. ASSUME NEW d \in Calls, NEW op \in {"Request", "Trailer", "PayloadCredit"}, linked, Transmit(op, d)
      PROVE  CountIn(up', T) = CountIn(up, T) + (IF op = "Request" /\ d = c THEN 1 ELSE 0)
  <2>1. up' = Append(up, Message(op, d)) /\ Message(op, d) \in Requests
        /\ Message(op, d).op = op /\ Message(op, d).id = d
    BY <1>u, MessageFacts DEF Transmit
  <2>2. Message(op, d) \in T <=> op = "Request" /\ d = c
    BY <2>1, MessageFacts
  <2>3. CountIn(up', T) = CountIn(up, T) + (IF Message(op, d) \in T THEN 1 ELSE 0)
    BY <1>0, <2>1, CountAppend
  <2> QED BY <2>2, <2>3
<1>z. ASSUME call[c] = "new", linked PROVE CountIn(up, T) = 0
  BY <1>0, <1>a, <1>z
<1> HIDE DEF T
<1>1. ASSUME NEW d \in Calls, Issue(d) PROVE Fine
  <2>1. linked /\ call[d] = "new" /\ call' = [call EXCEPT ![d] = "sent"] /\ task' = task
        /\ Transmit("Request", d)
    BY <1>1 DEF Issue, taskVars
  <2>2. CountIn(up', T) = CountIn(up, T) + (IF d = c THEN 1 ELSE 0)
    BY <1>u, <2>1
  <2>3. CASE d = c
    <3>1. CountIn(up', T) = 1 /\ call'[c] = "sent" /\ task'[c] = "none"
      BY <1>0, <1>a, <1>z, <2>1, <2>2, <2>3
    <3> QED BY <3>1
  <2>4. CASE d # c
    <3>1. CountIn(up', T) = CountIn(up, T) /\ call'[c] = call[c]
      BY <1>0, <2>1, <2>2, <2>4
    <3> QED BY <1>a, <2>1, <3>1
  <2> QED BY <2>3, <2>4
<1>2. ASSUME NEW d \in Calls, Upload(d) \/ ReturnQuota(d) PROVE Fine
  <2>1. linked /\ call' = call /\ task' = task /\ (Transmit("Trailer", d) \/ Transmit("PayloadCredit", d))
    BY <1>2 DEF Upload, ReturnQuota, taskVars
  <2>2. CountIn(up', T) = CountIn(up, T) + 0
    BY <1>u, <2>1
  <2> QED BY <1>0, <1>a, <2>1, <2>2
<1>3. ASSUME ClientReceive PROVE Fine
  <2>1. Head(down) \in Answers /\ linked /\ up' = up /\ task' = task /\ down # <<>>
        /\ call' = [call EXCEPT ![Head(down).id] = IF Head(down).op = "Response" THEN "answered" ELSE "error"]
    BY <1>0, <1>3, HeadTailProperties DEF ClientReceive, taskVars
  <2>2. CASE Head(down).id = c
    <3>1. CountIn(down, Of(c)) >= 1 /\ CountIn(down, Of(c)) \in Nat
      <4>1. Head(down) \in Of(c)
        BY <2>1, <2>2, MessageFacts
      <4>2. CountIn(down, Of(c)) = CountIn(Tail(down), Of(c)) + 1
        BY <1>0, <2>1, <4>1, CountTail
      <4>3. CountIn(Tail(down), Of(c)) \in Nat /\ CountIn(down, Of(c)) \in Nat
        BY <1>0, <2>1, CountType, HeadTailProperties
      <4> QED BY <4>2, <4>3
    <3>2. Held(c) <= 1
      BY <2>1 DEF HeldOnce
    <3>3. /\ CountIn(channel, Of(c)) \in Nat /\ CountIn(control, {c}) \in Nat
          /\ CountIn(waiting, {c}) \in Nat /\ CountIn(active, {c}) \in Nat
      BY QueueTypes, CountType
    <3>4. CountIn(up, T) = 0
      <4>1. Held(c) = CountIn(up, T) + (IF task[c] = "running" THEN 1 ELSE 0)
                      + CountIn(channel, Of(c)) + CountIn(control, {c}) + CountIn(waiting, {c})
                      + CountIn(active, {c}) + CountIn(down, Of(c))
        BY DEF Held, T
      <4>2. (IF task[c] = "running" THEN 1 ELSE 0) \in Nat
        OBVIOUS
      <4> QED BY <1>0, <3>1, <3>2, <3>3, <4>1, <4>2
    <3>5. call'[c] # "new"
      BY <1>0, <2>1, <2>2
    <3> QED BY <2>1, <3>4, <3>5
  <2>3. CASE Head(down).id # c
    <3>1. call'[c] = call[c]
      BY <1>0, <2>1, <2>3
    <3> QED BY <1>a, <2>1, <3>1
  <2> QED BY <2>2, <2>3
<1>4. ASSUME ClientClose \/ ClientVanish PROVE Fine
  <2>1. up' = up /\ task' = task /\ call' = [d \in Calls |-> IF call[d] = "sent" THEN "lost" ELSE call[d]]
    BY <1>4 DEF ClientClose, ClientVanish, Depart, taskVars
  <2> QED BY <1>a, <2>1
<1>5. ASSUME RecvMessage PROVE Fine
  <2>1. /\ up # <<>> /\ up' = Tail(up) /\ call' = call
        /\ task' = task \/ (Head(up).op = "Request" /\ task' = [task EXCEPT ![Head(up).id] = "running"])
    BY <1>5 DEF RecvMessage, RecvRequest, clientVars
  <2>2. Head(up) \in Requests /\ Tail(up) \in Seq(Requests)
    BY <1>0, <2>1, HeadTailProperties
  <2>3. Head(up) \in T <=> Head(up).op = "Request" /\ Head(up).id = c
    BY <2>2, MessageFacts DEF T
  <2>4. CountIn(up, T) = CountIn(up', T) + (IF Head(up) \in T THEN 1 ELSE 0)
    BY <1>0, <2>1, CountTail
  <2>5. CountIn(up', T) \in Nat
    BY <2>1, <2>2, CountType
  <2>6. CASE Head(up) \in T
    <3>1. CountIn(up', T) = 0 /\ CountIn(up, T) = 1
      BY <1>0, <1>a, <2>4, <2>5, <2>6
    <3>2. call'[c] # "new"
      BY <1>a, <2>1, <3>1
    <3> QED BY <3>1, <3>2
  <2>7. CASE Head(up) \notin T
    <3>1. CountIn(up', T) = CountIn(up, T)
      BY <1>0, <2>4, <2>5, <2>7
    <3>2. task'[c] = task[c]
      BY <1>0, <2>1, <2>3, <2>7
    <3> QED BY <1>a, <2>1, <3>1, <3>2
  <2> QED BY <2>6, <2>7
<1>6. ASSUME UNCHANGED <<up, call>>, task[c] = "none" => task'[c] = "none" PROVE Fine
  BY <1>a, <1>6
<1>7. ASSUME NEW d \in Calls, Handler(d) PROVE UNCHANGED <<up, call>> /\ (task[c] = "none" => task'[c] = "none")
  BY <1>0, <1>7 DEF Handler, Respond, GiveUp, TaskDone, clientVars
<1>8. ASSUME RecvShutdown \/ RecvEnd \/ RecvSettle \/ SendFail
      PROVE  UNCHANGED <<up, call>> /\ (task[c] = "none" => task'[c] = "none")
  BY <1>0, <1>8 DEF RecvShutdown, RecvEnd, RecvSettle, SendFail, DropTasks, clientVars, taskVars
<1>9. ASSUME SendHead \/ Admit \/ ChannelClosed \/ DrainChanged \/ Advance \/ UNCHANGED vars
      PROVE  UNCHANGED <<up, call>> /\ (task[c] = "none" => task'[c] = "none")
  BY <1>9 DEF SendHead, Admit, ChannelClosed, DrainChanged, Advance, clientVars, taskVars, vars
<1>10. Fine
  BY <1>1, <1>2, <1>3, <1>4, <1>5, <1>6, <1>7, <1>8, <1>9 DEF Next, Client, RecvDriver, SendDriver
<1> QED BY <1>10 DEF T


\* No step loses a call of a connected client, or doubles it.
LEMMA HeldStep ==
  ASSUME TypeOK, Drained, HeldOnce, AskedOnce, [Next]_vars
  PROVE  HeldOnce'
<1> SUFFICES ASSUME linked', NEW c \in Calls
             PROVE  Held(c)' = IF call'[c] = "sent" THEN 1 ELSE 0
  BY DEF HeldOnce
<1> DEFINE T == {Message("Request", c)}
           a == CountIn(up, T)
           r == IF task[c] = "running" THEN 1 ELSE 0
           h == CountIn(channel, Of(c))
           s == CountIn(control, {c}) + CountIn(waiting, {c}) + CountIn(active, {c})
           w == CountIn(down, Of(c))
           k == IF call[c] = "sent" THEN 1 ELSE 0
           a1 == CountIn(up', T)
           r1 == IF task'[c] = "running" THEN 1 ELSE 0
           h1 == CountIn(channel', Of(c))
           s1 == CountIn(control', {c}) + CountIn(waiting', {c}) + CountIn(active', {c})
           w1 == CountIn(down', Of(c))
           k1 == IF call'[c] = "sent" THEN 1 ELSE 0
           Balanced == a1 + r1 + h1 + s1 + w1 = k1
           Turn(d) == IF d = c THEN 1 ELSE 0
<1>0. /\ up \in Seq(Requests) /\ down \in Seq(Answers) /\ channel \in Seq(Answers)
      /\ control \in Seq(Calls) /\ waiting \in Seq(Calls) /\ active \in Seq(Calls)
      /\ call \in [Calls -> {"new", "sent", "answered", "error", "lost"}]
      /\ task \in [Calls -> {"none", "running", "responded", "done"}]
  BY QueueTypes
<1>z. /\ up' \in Seq(Requests) /\ down' \in Seq(Answers) /\ channel' \in Seq(Answers)
      /\ control' \in Seq(Calls) /\ waiting' \in Seq(Calls) /\ active' \in Seq(Calls)
  BY QueuesStep
<1>n. a \in Nat /\ r \in Nat /\ h \in Nat /\ s \in Nat /\ w \in Nat /\ k \in Nat /\ k <= 1
  <2>1. a \in Nat /\ h \in Nat /\ w \in Nat
    BY <1>0, CountType
  <2>2. CountIn(control, {c}) \in Nat /\ CountIn(waiting, {c}) \in Nat /\ CountIn(active, {c}) \in Nat
    BY <1>0, CountType
  <2> QED BY <2>1, <2>2
<1>p. a1 \in Nat /\ r1 \in Nat /\ h1 \in Nat /\ s1 \in Nat /\ w1 \in Nat /\ k1 \in Nat
  <2>1. a1 \in Nat /\ h1 \in Nat /\ w1 \in Nat
    BY <1>z, CountType
  <2>2. CountIn(control', {c}) \in Nat /\ CountIn(waiting', {c}) \in Nat /\ CountIn(active', {c}) \in Nat
    BY <1>z, CountType
  <2> QED BY <2>1, <2>2
<1>l. linked /\ recv = "running"
  <2>1. linked' => linked
    BY DEF Next, Client, Issue, Upload, ReturnQuota, ClientReceive, ClientClose, ClientVanish, Depart, Handler,
       Respond, GiveUp, TaskDone, RecvDriver, RecvMessage, RecvShutdown, RecvEnd, RecvSettle, SendDriver,
       SendHead, Admit, ChannelClosed, DrainChanged, Advance, SendFail, vars, clientVars
  <2> QED BY <2>1 DEF Drained
<1>b. a + r + h + s + w = k
  <2>1. Held(c) = k
    BY <1>l DEF HeldOnce
  <2>2. CountIn(control, {c}) \in Nat /\ CountIn(waiting, {c}) \in Nat /\ CountIn(active, {c}) \in Nat
    BY <1>0, CountType
  <2>3. Held(c) = a + r + h + CountIn(control, {c}) + CountIn(waiting, {c}) + CountIn(active, {c}) + w
    BY DEF Held
  <2> HIDE DEF a, r, h, w, k, a1, r1, h1, w1, k1
  <2> QED BY <1>n, <2>1, <2>2, <2>3
<1>t. \A d : Turn(d) \in {0, 1}
  OBVIOUS
<1>q. ASSUME Balanced PROVE Held(c)' = k1
  <2>2. CountIn(control', {c}) \in Nat /\ CountIn(waiting', {c}) \in Nat /\ CountIn(active', {c}) \in Nat
    BY <1>z, CountType
  <2>3. Held(c)' = a1 + r1 + h1 + CountIn(control', {c}) + CountIn(waiting', {c}) + CountIn(active', {c}) + w1
    BY DEF Held
  <2>4. s1 = CountIn(control', {c}) + CountIn(waiting', {c}) + CountIn(active', {c})
    OBVIOUS
  <2> HIDE DEF a, r, h, w, k, a1, r1, h1, w1, k1, s, s1
  <2> QED BY <1>p, <1>q, <2>2, <2>3, <2>4
<1>u. ASSUME NEW d \in Calls, NEW op \in {"Request", "Trailer", "PayloadCredit"}, Transmit(op, d)
      PROVE  a1 = a + (IF op = "Request" THEN Turn(d) ELSE 0)
  <2>1. up' = Append(up, Message(op, d)) /\ Message(op, d) \in Requests
        /\ Message(op, d).op = op /\ Message(op, d).id = d
    BY <1>l, <1>u, MessageFacts DEF Transmit
  <2>2. Message(op, d) \in T <=> op = "Request" /\ d = c
    BY <2>1, MessageFacts
  <2>3. a1 = a + (IF Message(op, d) \in T THEN 1 ELSE 0)
    BY <1>0, <2>1, CountAppend
  <2> QED BY <1>n, <2>2, <2>3
<1>v. ASSUME NEW d \in Calls, NEW op \in {"Response", "Error"},
             channel' = Append(channel, Message(op, d)) \/ channel' = channel \o <<Message(op, d)>>
      PROVE  h1 = h + Turn(d)
  <2>1. Message(op, d) \in Answers /\ (Message(op, d) \in Of(c) <=> d = c)
    BY MessageFacts
  <2>2. channel' = Append(channel, Message(op, d))
    BY <1>0, <1>v, <2>1, AppendIsConcat
  <2>3. h1 = h + (IF Message(op, d) \in Of(c) THEN 1 ELSE 0)
    BY <1>0, <2>1, <2>2, CountAppend
  <2> QED BY <2>1, <2>3
<1> HIDE DEF T
<1>1. ASSUME NEW d \in Calls, Issue(d) PROVE Balanced
  <2>1. /\ call[d] = "new" /\ call' = [call EXCEPT ![d] = "sent"] /\ Transmit("Request", d)
        /\ UNCHANGED <<task, channel, control, waiting, active, down>>
    BY <1>1 DEF Issue, taskVars, sendVars, schedVars
  <2>2. a1 = a + Turn(d)
    BY <1>u, <2>1
  <2>3. r1 = r /\ h1 = h /\ s1 = s /\ w1 = w
    BY <2>1
  <2>4. CASE d = c
    <3>1. k = 0 /\ k1 = 1 /\ a1 = a + 1
      BY <1>0, <2>1, <2>2, <2>4
    <3> HIDE DEF a, r, h, s, w, k, a1, r1, h1, s1, w1, k1
    <3> QED BY <1>n, <1>b, <2>3, <3>1
  <2>5. CASE d # c
    <3>1. k1 = k /\ a1 = a + 0
      BY <1>0, <2>1, <2>2, <2>5
    <3> HIDE DEF a, r, h, s, w, k, a1, r1, h1, s1, w1, k1
    <3> QED BY <1>n, <1>b, <2>3, <3>1
  <2> QED BY <2>4, <2>5
<1>2. ASSUME NEW d \in Calls, Upload(d) \/ ReturnQuota(d) PROVE Balanced
  <2>1. /\ Transmit("Trailer", d) \/ Transmit("PayloadCredit", d)
        /\ UNCHANGED <<call, task, channel, control, waiting, active, down>>
    BY <1>2 DEF Upload, ReturnQuota, taskVars, sendVars, schedVars
  <2>2. a1 = a + 0
    BY <1>u, <2>1
  <2>3. r1 = r /\ h1 = h /\ s1 = s /\ w1 = w /\ k1 = k
    BY <2>1
  <2> HIDE DEF a, r, h, s, w, k, a1, r1, h1, s1, w1, k1
  <2> QED BY <1>n, <1>b, <2>2, <2>3
<1>3. ASSUME ClientReceive PROVE Balanced
  <2> DEFINE m == Head(down)
  <2>1. /\ call' = [call EXCEPT ![m.id] = IF m.op = "Response" THEN "answered" ELSE "error"]
        /\ down # <<>> /\ down' = Tail(down) /\ UNCHANGED <<up, task, channel, control, waiting, active>>
    BY <1>3 DEF ClientReceive, taskVars, sendVars, schedVars
  <2>2. m \in Answers
    BY <1>0, <2>1, HeadTailProperties
  <2>3. m \in Of(c) <=> m.id = c
    BY <2>2, MessageFacts
  <2>4. w = w1 + Turn(m.id)
    BY <1>0, <2>1, <2>3, CountTail
  <2>5. a1 = a /\ r1 = r /\ h1 = h /\ s1 = s
    BY <2>1
  <2>6. CASE m.id = c
    <3>1. k1 = 0 /\ w1 + 1 = w
      BY <1>0, <2>1, <2>4, <2>6
    <3>9. w1 \in Nat
      BY <1>p
    <3> HIDE DEF a, r, h, s, w, k, a1, r1, h1, s1, w1, k1, m, Turn
    <3> QED BY <1>n, <3>9, <1>b, <2>5, <3>1
  <2>7. CASE m.id # c
    <3>1. k1 = k /\ w1 + 0 = w
      BY <1>0, <2>1, <2>4, <2>7
    <3>9. w1 \in Nat
      BY <1>p
    <3> HIDE DEF a, r, h, s, w, k, a1, r1, h1, s1, w1, k1, m, Turn
    <3> QED BY <1>n, <3>9, <1>b, <2>5, <3>1
  <2> QED BY <2>6, <2>7
<1>5. ASSUME RecvMessage PROVE Balanced
  <2> DEFINE m == Head(up)
  <2>1. /\ up # <<>> /\ up' = Tail(up) /\ UNCHANGED <<call, control, waiting, active, down>>
        /\ \/ m.op = "Request" /\ RecvRequest(m.id)
           \/ m.op # "Request" /\ UNCHANGED <<task, channel>>
    BY <1>5 DEF RecvMessage, clientVars
  <2>2. m \in Requests /\ m.id \in Calls
    <3>1. m \in Requests
      BY <1>0, <2>1, HeadTailProperties
    <3> QED BY <3>1 DEF Requests
  <2>3. m \in T <=> m.op = "Request" /\ m.id = c
    BY <2>2, MessageFacts DEF T
  <2>4. a = a1 + (IF m \in T THEN 1 ELSE 0)
    BY <1>0, <2>1, CountTail
  <2>5. s1 = s /\ w1 = w /\ k1 = k
    BY <2>1
  <2>6. CASE m.op # "Request"
    <3>1. a1 + 0 = a /\ r1 = r /\ h1 = h
      BY <2>1, <2>3, <2>4, <2>6
    <3>9. a1 \in Nat
      BY <1>p
    <3> HIDE DEF a, r, h, s, w, k, a1, r1, h1, s1, w1, k1, m, Turn
    <3> QED BY <1>n, <3>9, <1>b, <2>5, <3>1
  <2>7. CASE m.op = "Request"
    <3>1. a = a1 + Turn(m.id)
      BY <2>3, <2>4, <2>7
    <3>2. CASE draining
      <4>1. channel' = Append(channel, Message("Error", m.id)) /\ task' = task
        BY <2>1, <2>7, <3>2 DEF RecvRequest
      <4>2. h1 = h + Turn(m.id) /\ r1 = r
        BY <1>v, <2>2, <4>1
      <4> HIDE DEF a, r, h, s, w, k, a1, r1, h1, s1, w1, k1, m, Turn
      <4> QED BY <1>n, <1>p, <1>t, <1>b, <2>5, <3>1, <4>2
    <3>3. CASE ~draining
      <4>1. task' = [task EXCEPT ![m.id] = "running"] /\ channel' = channel
        BY <2>1, <2>7, <3>3 DEF RecvRequest
      <4>2. CASE m.id = c
        <5>1. a1 + 1 = a
          BY <3>1, <4>2
        <5>2. a = 1
          <6>1. a <= 1
            BY DEF AskedOnce, T
          <6> HIDE DEF a, a1
          <6> QED BY <1>n, <1>p, <5>1, <6>1
        <5>3. task[c] = "none"
          BY <5>2 DEF AskedOnce, T
        <5>4. r = 0 /\ r1 = 1 /\ h1 = h
          BY <1>0, <4>1, <4>2, <5>3
        <5>9. a1 \in Nat
          BY <1>p
        <5> HIDE DEF a, r, h, s, w, k, a1, r1, h1, s1, w1, k1, m, Turn
        <5> QED BY <1>n, <5>9, <1>b, <2>5, <5>1, <5>4
      <4>3. CASE m.id # c
        <5>1. a1 + 0 = a /\ r1 = r /\ h1 = h
          BY <1>0, <3>1, <4>1, <4>3
        <5>9. a1 \in Nat
          BY <1>p
        <5> HIDE DEF a, r, h, s, w, k, a1, r1, h1, s1, w1, k1, m, Turn
        <5> QED BY <1>n, <5>9, <1>b, <2>5, <5>1
      <4> QED BY <4>2, <4>3
    <3> QED BY <3>2, <3>3
  <2> QED BY <2>6, <2>7
<1>6. ASSUME NEW d \in Calls, Respond(d) \/ GiveUp(d) PROVE Balanced
  <2>1. /\ task[d] = "running" /\ task' = [task EXCEPT ![d] = "responded"]
        /\ UNCHANGED <<call, up, down, control, waiting, active>>
        /\ \/ channel' = channel \o <<Message("Response", d)>>
           \/ channel' = Append(channel, Message("Error", d))
    BY <1>6 DEF Respond, GiveUp, Answer, clientVars, sendVars, schedVars
  <2>2. h1 = h + Turn(d)
    BY <1>v, <2>1
  <2>3. r = r1 + Turn(d)
    BY <1>0, <2>1
  <2>4. a1 = a /\ s1 = s /\ w1 = w /\ k1 = k
    BY <2>1
  <2> HIDE DEF a, r, h, s, w, k, a1, r1, h1, s1, w1, k1, Turn
  <2> QED BY <1>n, <1>p, <1>t, <1>b, <2>2, <2>3, <2>4
<1>7. ASSUME NEW d \in Calls, TaskDone(d) PROVE Balanced
  <2>1. /\ task[d] = "responded" /\ task' = [task EXCEPT ![d] = "done"]
        /\ UNCHANGED <<call, up, down, channel, control, waiting, active>>
    BY <1>7 DEF TaskDone, clientVars, sendVars, schedVars
  <2>2. a1 = a /\ r1 = r /\ h1 = h /\ s1 = s /\ w1 = w /\ k1 = k
    BY <1>0, <2>1
  <2> HIDE DEF a, r, h, s, w, k, a1, r1, h1, s1, w1, k1
  <2> QED BY <1>b, <2>2
<1>8. ASSUME Admit PROVE Balanced
  <2> DEFINE m == Head(channel)
  <2>1. UNCHANGED <<call, up, down, task>>
    BY <1>8 DEF Admit, clientVars, taskVars
  <2>2. /\ channel # <<>> /\ channel' = Tail(channel) /\ m \in Answers
        /\ s1 = s + (IF m.id = c THEN 1 ELSE 0)
    BY <1>8, AdmitFacts
  <2>3. m \in Of(c) <=> m.id = c
    BY <2>2, MessageFacts
  <2>4. h = h1 + Turn(m.id)
    BY <1>0, <2>2, <2>3, CountTail
  <2>5. s1 = s + Turn(m.id)
    BY <2>2
  <2>6. a1 = a /\ r1 = r /\ w1 = w /\ k1 = k
    BY <2>1
  <2> HIDE DEF a, r, h, s, w, k, a1, r1, h1, s1, w1, k1, m, Turn
  <2> QED BY <1>n, <1>p, <1>t, <1>b, <2>4, <2>5, <2>6
<1>9. ASSUME Advance PROVE Balanced
  <2>1. UNCHANGED <<call, up, channel, task>>
    BY <1>9 DEF Advance, clientVars, taskVars
  <2>2. PICK m \in Answers :
          /\ down' = Append(down, m)
          /\ s1 + (IF m.id = c THEN 1 ELSE 0) = s
    BY <1>l, <1>9, AdvanceFacts
  <2>3. m \in Of(c) <=> m.id = c
    BY <2>2, MessageFacts
  <2>4. w1 = w + Turn(m.id)
    BY <1>0, <2>2, <2>3, CountAppend
  <2>5. s1 + Turn(m.id) = s
    BY <2>2
  <2>6. a1 = a /\ r1 = r /\ h1 = h /\ k1 = k
    BY <2>1
  <2>7. Turn(m.id) \in Nat
    OBVIOUS
  <2> HIDE DEF a, r, h, s, w, k, a1, r1, h1, s1, w1, k1, Turn
  <2> QED BY <1>n, <1>p, <1>b, <2>4, <2>5, <2>6, <2>7
<1>10. ASSUME UNCHANGED <<call, task, up, down, channel, control, waiting, active>> PROVE Balanced
  <2>1. a1 = a /\ r1 = r /\ h1 = h /\ s1 = s /\ w1 = w /\ k1 = k
    BY <1>10
  <2> HIDE DEF a, r, h, s, w, k, a1, r1, h1, s1, w1, k1
  <2> QED BY <1>b, <2>1
<1>11. ASSUME RecvShutdown \/ SendHead \/ ChannelClosed \/ DrainChanged \/ UNCHANGED vars
       PROVE  UNCHANGED <<call, task, up, down, channel, control, waiting, active>>
  BY <1>11 DEF RecvShutdown, SendHead, ChannelClosed, DrainChanged, vars, clientVars, taskVars, sendVars, schedVars
<1>12. ~ClientClose /\ ~ClientVanish /\ ~RecvEnd /\ ~RecvSettle /\ ~SendFail
  BY <1>l DEF ClientClose, ClientVanish, Depart, RecvEnd, RecvSettle, SendFail
<1> HIDE DEF Balanced
<1>13. Balanced
  BY <1>1, <1>2, <1>3, <1>5, <1>6, <1>7, <1>8, <1>9, <1>10, <1>11, <1>12
     DEF Next, Client, Handler, RecvDriver, SendDriver
<1> QED BY <1>q, <1>13


\* Where a new answer comes from: a handler, or a request that a draining server
\* refuses.
LEMMA AnswerSources ==
  ASSUME TypeOK, [Next]_vars, NEW c \in Calls
  PROVE  /\ Responded(c)' => Responded(c) \/ task[c] = "running"
         /\ Refused(c)' => \/ Refused(c)
                           \/ task[c] = "running" /\ ~Respond(c)
                           \/ draining /\ Message("Request", c) \in Range(up)
<1> DEFINE R == Message("Response", c)
           E == Message("Error", c)
           Sourced == /\ R \in Range(channel') \cup Range(down') \/ c \in Range(waiting') \cup Range(active')
                           => \/ R \in Range(channel) \cup Range(down)
                              \/ c \in Range(waiting) \cup Range(active)
                              \/ task[c] = "running"
                      /\ E \in Range(channel') \cup Range(down') \/ c \in Range(control')
                           => \/ E \in Range(channel) \cup Range(down)
                              \/ c \in Range(control)
                              \/ task[c] = "running" /\ ~Respond(c)
                              \/ draining /\ Message("Request", c) \in Range(up)
<1>0. /\ up \in Seq(Requests) /\ down \in Seq(Answers) /\ channel \in Seq(Answers)
      /\ control \in Seq(Calls) /\ waiting \in Seq(Calls) /\ active \in Seq(Calls)
  BY QueueTypes
<1>m. /\ R \in Answers /\ E \in Answers /\ R # E
      /\ \A d \in Calls : /\ Message("Response", d) \in Answers /\ Message("Error", d) \in Answers
                          /\ R # Message("Error", d) /\ E # Message("Response", d)
                          /\ (R = Message("Response", d) => d = c) /\ (E = Message("Error", d) => d = c)
  <2>1. \A d \in Calls : /\ Message("Response", d) \in Answers /\ Message("Error", d) \in Answers
                         /\ Message("Response", d).op = "Response" /\ Message("Error", d).op = "Error"
                         /\ Message("Response", d).id = d /\ Message("Error", d).id = d
    BY MessageFacts
  <2> QED BY <2>1
<1> HIDE DEF R, E
<1>1. ASSUME Range(channel') \subseteq Range(channel), Range(down') \subseteq Range(down),
             UNCHANGED <<control, waiting, active>>
      PROVE  Sourced
  BY <1>1
<1>2. ASSUME ClientReceive PROVE Sourced
  <2>1. Range(down') \subseteq Range(down) /\ UNCHANGED <<channel, control, waiting, active>>
    BY <1>0, <1>2, RangeSteps DEF ClientReceive, sendVars, schedVars
  <2> QED BY <1>1, <2>1
<1>3. ASSUME ClientClose \/ ClientVanish PROVE Sourced
  <2>1. down' = <<>> /\ UNCHANGED <<channel, control, waiting, active>>
    BY <1>3 DEF ClientClose, ClientVanish, Depart, sendVars, schedVars
  <2>2. Range(down') = {}
    BY <2>1 DEF Range
  <2> QED BY <1>1, <2>1, <2>2
<1>4. ASSUME NEW d \in Calls, Respond(d) PROVE Sourced
  <2>1. /\ channel' = channel \o <<Message("Response", d)>> /\ task[d] = "running"
        /\ UNCHANGED <<down, control, waiting, active>>
    BY <1>4 DEF Respond, Answer, sendVars, schedVars
  <2>2. Range(channel') = Range(channel) \cup {Message("Response", d)}
    <3>1. channel' = Append(channel, Message("Response", d))
      BY <1>0, <1>m, <2>1, AppendIsConcat
    <3> QED BY <1>0, <1>m, <3>1, RangeSteps
  <2> QED BY <1>m, <2>1, <2>2
<1>5. ASSUME NEW d \in Calls, GiveUp(d) PROVE Sourced
  <2>1. /\ channel' = Append(channel, Message("Error", d)) /\ task[d] = "running" /\ d \notin Stoppers
        /\ UNCHANGED <<down, control, waiting, active>>
    BY <1>5 DEF GiveUp, sendVars, schedVars
  <2>2. Range(channel') = Range(channel) \cup {Message("Error", d)}
    BY <1>0, <1>m, <2>1, RangeSteps
  <2>3. ~Respond(c) \/ c # d
    <3>1. ASSUME Respond(c), c = d PROVE FALSE
      <4>1. channel' = Append(channel, Message("Response", c))
        BY <1>0, <1>m, <3>1, AppendIsConcat DEF Respond, Answer
      <4>2. channel'[Len(channel) + 1] = Message("Response", c) /\ channel'[Len(channel) + 1] = Message("Error", c)
        BY <1>0, <1>m, <2>1, <3>1, <4>1, AppendProperties
      <4> QED BY <1>m, <4>2 DEF E
    <3> QED BY <3>1
  <2> QED BY <1>m, <2>1, <2>2, <2>3
<1>6. ASSUME RecvMessage PROVE Sourced
  <2> DEFINE d == Head(up).id
  <2>1. /\ up # <<>> /\ UNCHANGED <<down, control, waiting, active>>
        /\ \/ channel' = channel
           \/ draining /\ Head(up).op = "Request" /\ channel' = Append(channel, Message("Error", d))
    BY <1>6 DEF RecvMessage, RecvRequest
  <2>2. Head(up) \in Requests /\ Head(up) \in Range(up)
    BY <1>0, <2>1, HeadTailProperties, RangeSteps
  <2>3. d \in Calls /\ (Head(up).op = "Request" => Head(up) = Message("Request", d))
    BY <2>2, MessageFacts
  <2>4. CASE channel' = channel
    BY <1>1, <2>1, <2>4
  <2>5. CASE draining /\ Head(up).op = "Request" /\ channel' = Append(channel, Message("Error", d))
    <3>1. Range(channel') = Range(channel) \cup {Message("Error", d)}
      BY <1>0, <1>m, <2>3, <2>5, RangeSteps
    <3>2. Message("Request", d) \in Range(up)
      BY <2>2, <2>3, <2>5
    <3> HIDE DEF d
    <3> QED BY <1>m, <2>1, <2>3, <2>5, <3>1, <3>2
  <2> QED BY <2>1, <2>4, <2>5
<1>7. ASSUME RecvEnd PROVE Sourced
  <2>1. UNCHANGED <<down, control, waiting, active>> /\ (channel' = channel \/ DropTasks)
    BY <1>7 DEF RecvEnd, sendVars, schedVars
  <2>2. ASSUME DropTasks PROVE Sourced
    <3> DEFINE Q == {x \in Calls : task[x] = "running"}
               S == {Message("Error", x) : x \in Q}
    <3>1. channel' = channel \o SetToSeq(S)
      BY <2>2 DEF DropTasks
    <3>2. IsFiniteSet(S)
      <4>1. IsFiniteSet(Q)
        BY CallsAssumption, FS_Subset
      <4> DEFINE f == [x \in Q |-> Message("Error", x)]
      <4>2. f \in Surjection(Q, S)
        BY DEF Surjection
      <4> HIDE DEF f, Q, S
      <4> QED BY <4>1, <4>2, FS_Surjection
    <3>3. S \subseteq Answers /\ R \notin S /\ (E \in S => task[c] = "running")
      BY <1>m
    <3> HIDE DEF S
    <3>4. SetToSeq(S) \in Seq(S) /\ SetToSeq(S) \in Seq(Answers)
      BY <3>2, <3>3, SetToSeqType, SeqMonotonic
    <3>5. Range(SetToSeq(S)) \subseteq S
      BY <3>4, RangeSteps
    <3>6. Range(channel') = Range(channel) \cup Range(SetToSeq(S))
      BY <1>0, <3>1, <3>4, RangeParts
    <3>7. ~Respond(c)
      BY <2>2 DEF Respond, DropTasks
    <3> QED BY <2>1, <3>3, <3>5, <3>6, <3>7
  <2> QED BY <1>1, <2>1, <2>2
<1>8. ASSUME Admit PROVE Sourced
  <2> DEFINE m == Head(channel)
  <2>1. down' = down
    BY <1>8 DEF Admit
  <2>2. /\ channel # <<>> /\ channel' = Tail(channel) /\ m \in Answers /\ m \in Range(channel)
        /\ Range(control') \subseteq Range(control) \cup {d \in {m.id} : m.op = "Error"}
        /\ Range(active') \cup Range(waiting')
             \subseteq Range(active) \cup Range(waiting) \cup {d \in {m.id} : m.op = "Response"}
    BY <1>8, AdmitFacts
  <2>3. m = Message(m.op, m.id)
    BY <2>2, MessageFacts
  <2>4. Range(channel') \subseteq Range(channel)
    BY <1>0, <2>2, RangeSteps
  <2>5. /\ c \in Range(control') => c \in Range(control) \/ E \in Range(channel)
        /\ c \in Range(active') \cup Range(waiting') => c \in Range(active) \cup Range(waiting) \/ R \in Range(channel)
    BY <2>2, <2>3 DEF R, E
  <2> QED BY <2>1, <2>4, <2>5
<1>9. ASSUME Advance PROVE Sourced
  <2>1. channel' = channel
    BY <1>9 DEF Advance
  <2>2. PICK m \in Answers :
           /\ down' = (IF linked THEN Append(down, m) ELSE down)
           /\ Range(control') \subseteq Range(control)
           /\ Range(active') \cup Range(waiting') \subseteq Range(active) \cup Range(waiting)
           /\ m.op = "Error" => m.id \in Range(control)
           /\ m.op = "Response" => m.id \in Range(active) \cup Range(waiting)
    BY <1>9, AdvanceFacts
  <2>3. Range(down') \subseteq Range(down) \cup {m}
    BY <1>0, <2>2, RangeSteps
  <2>4. (m = R => m.op = "Response" /\ m.id = c) /\ (m = E => m.op = "Error" /\ m.id = c)
    BY MessageFacts DEF R, E
  <2> QED BY <2>1, <2>2, <2>3, <2>4
<1>10. ASSUME UNCHANGED <<down, channel, control, waiting, active>> PROVE Sourced
  BY <1>1, <1>10
<1>11. \/ ClientReceive \/ ClientClose \/ ClientVanish \/ RecvMessage \/ RecvEnd \/ Admit \/ Advance
       \/ \E d \in Calls : Respond(d) \/ GiveUp(d)
       \/ UNCHANGED <<down, channel, control, waiting, active>>
  BY DEF Next, Client, Issue, Upload, ReturnQuota, Handler, TaskDone, RecvDriver, RecvShutdown, RecvSettle,
     SendDriver, SendHead, ChannelClosed, DrainChanged, SendFail, vars, sendVars, schedVars
<1> HIDE DEF Sourced
<1>12. Sourced
  BY <1>2, <1>3, <1>4, <1>5, <1>6, <1>7, <1>8, <1>9, <1>10, <1>11
<1> USE DEF Sourced
<1>13. ASSUME Responded(c)' PROVE Responded(c) \/ task[c] = "running"
  <2>1. R \in Range(channel') \cup Range(down') \/ c \in Range(waiting') \cup Range(active')
    BY <1>13 DEF Responded, R
  <2> QED BY <1>12, <2>1 DEF Responded, R
<1>14. ASSUME Refused(c)'
       PROVE  \/ Refused(c)
              \/ task[c] = "running" /\ ~Respond(c)
              \/ draining /\ Message("Request", c) \in Range(up)
  <2>1. E \in Range(channel') \cup Range(down') \/ c \in Range(control')
    BY <1>14 DEF Refused, E
  <2> QED BY <1>12, <2>1 DEF Refused, E
<1> HIDE DEF Sourced
<1> QED BY <1>13, <1>14


\* What is in a queue is counted.
LEMMA CountMember ==
  ASSUME NEW S, NEW s \in Seq(S), NEW T, NEW x \in Range(s), x \in T
  PROVE  CountIn(s, T) \in Nat /\ CountIn(s, T) >= 1
<1>1. CountIn(s, T) # 0
  BY CountZero DEF Range
<1>2. CountIn(s, T) \in Nat
  BY CountType
<1> QED BY <1>1, <1>2

\* A request that waits to be read has no handler yet, and its call is open.
LEMMA AskedFacts ==
  ASSUME TypeOK, AskedOnce, NEW c \in Calls, Message("Request", c) \in Range(up)
  PROVE  task[c] = "none" /\ call[c] \in {"sent", "lost"}
<1> DEFINE n == CountIn(up, {Message("Request", c)})
<1>1. n \in Nat /\ n >= 1
  BY QueueTypes, CountMember
<1>2. n <= 1 /\ (n = 1 => task[c] = "none" /\ call[c] \in {"sent", "lost"})
  BY DEF AskedOnce
<1> HIDE DEF n
<1>3. n = 1
  BY <1>1, <1>2
<1> QED BY <1>2, <1>3

\* While the client is there, a call whose handler runs has no answer, and one
\* whose answer is on the wire has no handler that runs.
LEMMA HeldFacts ==
  ASSUME TypeOK, HeldOnce, linked, NEW c \in Calls
  PROVE  /\ task[c] = "running" => call[c] = "sent" /\ ~Refused(c)
         /\ \A m \in Range(down) : m.id = c => call[c] = "sent" /\ task[c] # "running"
<1> DEFINE a == CountIn(up, {Message("Request", c)})
           r == IF task[c] = "running" THEN 1 ELSE 0
           h == CountIn(channel, Of(c))
           o == CountIn(control, {c})
           v == CountIn(waiting, {c})
           b == CountIn(active, {c})
           w == CountIn(down, Of(c))
           k == IF call[c] = "sent" THEN 1 ELSE 0
<1>0. /\ up \in Seq(Requests) /\ down \in Seq(Answers) /\ channel \in Seq(Answers)
      /\ control \in Seq(Calls) /\ waiting \in Seq(Calls) /\ active \in Seq(Calls)
  BY QueueTypes
<1>1. a \in Nat /\ h \in Nat /\ o \in Nat /\ v \in Nat /\ b \in Nat /\ w \in Nat
  BY <1>0, CountType
<1>2. r \in Nat /\ k \in Nat /\ k <= 1
  OBVIOUS
<1>3. a + r + h + o + v + b + w = k
  BY DEF HeldOnce, Held
<1>4. ASSUME task[c] = "running" PROVE call[c] = "sent" /\ ~Refused(c)
  <2>1. r = 1
    BY <1>4
  <2>2. k = 1 /\ h = 0 /\ o = 0 /\ w = 0
    <3> HIDE DEF a, r, h, o, v, b, w, k
    <3> QED BY <1>1, <1>2, <1>3, <2>1
  <2>3. call[c] = "sent"
    BY <2>2
  <2>4. Message("Error", c) \in Of(c)
    BY MessageFacts
  <2>5. c \notin Range(control)
    <3>1. ASSUME c \in Range(control) PROVE o >= 1
      BY <1>0, <3>1, CountMember
    <3> QED BY <2>2, <3>1
  <2>6. Message("Error", c) \notin Range(channel)
    <3>1. ASSUME Message("Error", c) \in Range(channel) PROVE h >= 1
      BY <1>0, <2>4, <3>1, CountMember
    <3> QED BY <2>2, <3>1
  <2>7. Message("Error", c) \notin Range(down)
    <3>1. ASSUME Message("Error", c) \in Range(down) PROVE w >= 1
      BY <1>0, <2>4, <3>1, CountMember
    <3> QED BY <2>2, <3>1
  <2> QED BY <2>3, <2>5, <2>6, <2>7 DEF Refused
<1>5. ASSUME NEW m \in Range(down), m.id = c PROVE call[c] = "sent" /\ task[c] # "running"
  <2>1. m \in Answers
    BY <1>0, RangeSteps
  <2>2. m \in Of(c)
    BY <1>5, <2>1, MessageFacts
  <2>3. w >= 1
    BY <1>0, <2>2, CountMember
  <2>4. k = 1 /\ r = 0
    <3> HIDE DEF a, r, h, o, v, b, w, k
    <3> QED BY <1>1, <1>2, <1>3, <2>3
  <2> QED BY <2>4
<1> QED BY <1>4, <1>5

\* How a handler and the drain go on.
LEMMA TaskSteps ==
  ASSUME TypeOK, [Next]_vars, NEW c \in Calls
  PROVE  /\ task[c] # "none" => task'[c] # "none"
         /\ draining => draining'
         /\ task[c] \in {"responded", "done"} /\ Message("Request", c) \notin Range(up)
              => task'[c] \in {"responded", "done"}
         /\ task'[c] = "running" => task[c] = "running" \/ Message("Request", c) \in Range(up)
<1> DEFINE Goes == /\ task[c] # "none" => task'[c] # "none"
                   /\ draining => draining'
                   /\ task[c] \in {"responded", "done"} /\ Message("Request", c) \notin Range(up)
                        => task'[c] \in {"responded", "done"}
                   /\ task'[c] = "running" => task[c] = "running" \/ Message("Request", c) \in Range(up)
<1>0. task \in [Calls -> {"none", "running", "responded", "done"}] /\ up \in Seq(Requests)
  BY QueueTypes
<1>1. ASSUME NEW d \in Calls, Handler(d) PROVE Goes
  <2>1. /\ draining' = draining
        /\ \/ task[d] = "running" /\ task' = [task EXCEPT ![d] = "responded"]
           \/ task[d] = "responded" /\ task' = [task EXCEPT ![d] = "done"]
    BY <1>1 DEF Handler, Respond, GiveUp, TaskDone, recvVars
  <2> QED BY <1>0, <2>1
<1>2. ASSUME RecvMessage PROVE Goes
  <2>1. /\ up # <<>> /\ draining' = draining
        /\ \/ task' = task
           \/ Head(up).op = "Request" /\ task' = [task EXCEPT ![Head(up).id] = "running"]
    BY <1>2 DEF RecvMessage, RecvRequest, recvVars
  <2>2. Head(up) \in Requests /\ Head(up) \in Range(up)
    BY <1>0, <2>1, HeadTailProperties, RangeSteps
  <2>3. Head(up).op = "Request" => Head(up) = Message("Request", Head(up).id)
    BY <2>2, MessageFacts
  <2>4. CASE task' = task
    BY <2>1, <2>4
  <2>5. CASE Head(up).op = "Request" /\ task' = [task EXCEPT ![Head(up).id] = "running"]
    <3>1. CASE Head(up).id = c
      <4>1. Message("Request", c) \in Range(up) /\ task'[c] = "running"
        BY <1>0, <2>2, <2>3, <2>5, <3>1
      <4> QED BY <2>1, <4>1
    <3>2. CASE Head(up).id # c
      <4>1. task'[c] = task[c]
        BY <1>0, <2>5, <3>2
      <4> QED BY <2>1, <4>1
    <3> QED BY <3>1, <3>2
  <2> QED BY <2>1, <2>4, <2>5
<1>3. ASSUME RecvShutdown \/ RecvEnd \/ RecvSettle \/ SendFail PROVE Goes
  <2>1. draining => draining'
    BY <1>3 DEF RecvShutdown, RecvEnd, RecvSettle, SendFail
  <2>2. task' = task \/ task' = [x \in Calls |-> IF task[x] = "none" THEN "none" ELSE "done"]
    BY <1>3 DEF RecvShutdown, RecvEnd, RecvSettle, SendFail, DropTasks, taskVars
  <2>3. task'[c] = task[c] \/ (task[c] # "none" /\ task'[c] = "done")
    BY <1>0, <2>2
  <2> QED BY <2>1, <2>3
<1>4. ASSUME UNCHANGED <<task, draining>> PROVE Goes
  BY <1>4
<1>5. \/ \E d \in Calls : Handler(d)
      \/ RecvMessage \/ RecvShutdown \/ RecvEnd \/ RecvSettle \/ SendFail
      \/ UNCHANGED <<task, draining>>
  BY DEF Next, Client, Issue, Upload, ReturnQuota, ClientReceive, ClientClose, ClientVanish, Depart, RecvDriver,
     SendDriver, SendHead, Admit, ChannelClosed, DrainChanged, Advance, vars, taskVars, recvVars
<1> HIDE DEF Goes
<1>6. Goes
  BY <1>1, <1>2, <1>3, <1>4, <1>5
<1> QED BY <1>6 DEF Goes

\* How the client's view of a call goes on.
LEMMA CallSteps ==
  ASSUME TypeOK, HeldOnce, RunningIsOpen, [Next]_vars, NEW c \in Calls
  PROVE  /\ call[c] \in {"answered", "error", "lost"} => call'[c] = call[c]
         /\ call[c] = "sent" => \/ call'[c] \in {"sent", "lost"}
                                \/ call'[c] = "answered" /\ Message("Response", c) \in Range(down)
                                \/ call'[c] = "error" /\ Message("Error", c) \in Range(down)
         /\ call[c] = "sent" /\ task[c] = "running" => call'[c] \in {"sent", "lost"}
         /\ call'[c] = "sent" => linked'
<1> DEFINE Goes == /\ call[c] \in {"answered", "error", "lost"} => call'[c] = call[c]
                   /\ call[c] = "sent" => \/ call'[c] \in {"sent", "lost"}
                                          \/ call'[c] = "answered" /\ Message("Response", c) \in Range(down)
                                          \/ call'[c] = "error" /\ Message("Error", c) \in Range(down)
                   /\ call[c] = "sent" /\ task[c] = "running" => call'[c] \in {"sent", "lost"}
                   /\ call'[c] = "sent" => linked'
<1>0. /\ call \in [Calls -> {"new", "sent", "answered", "error", "lost"}] /\ down \in Seq(Answers)
      /\ ~linked => call[c] # "sent"
  BY QueueTypes DEF RunningIsOpen
<1>1. ASSUME NEW d \in Calls, Issue(d) PROVE Goes
  BY <1>0, <1>1 DEF Issue
<1>2. ASSUME ClientReceive PROVE Goes
  <2> DEFINE m == Head(down)
  <2>1. /\ linked /\ linked' = linked /\ down # <<>>
        /\ call' = [call EXCEPT ![m.id] = IF m.op = "Response" THEN "answered" ELSE "error"]
    BY <1>2 DEF ClientReceive
  <2>2. m \in Answers /\ m \in Range(down)
    BY <1>0, <2>1, HeadTailProperties, RangeSteps
  <2>3. m = Message(m.op, m.id) /\ m.op \in {"Response", "Error"}
    BY <2>2, MessageFacts
  <2>4. CASE m.id = c
    <3>1. call[c] = "sent" /\ task[c] # "running"
      BY <2>1, <2>2, <2>4, HeldFacts
    <3>2. \/ call'[c] = "answered" /\ Message("Response", c) \in Range(down)
          \/ call'[c] = "error" /\ Message("Error", c) \in Range(down)
      BY <1>0, <2>1, <2>2, <2>3, <2>4
    <3> QED BY <3>1, <3>2
  <2>5. CASE m.id # c
    <3>1. call'[c] = call[c]
      BY <1>0, <2>1, <2>5
    <3> QED BY <2>1, <3>1
  <2> QED BY <2>4, <2>5
<1>3. ASSUME ClientClose \/ ClientVanish PROVE Goes
  <2>1. call' = [d \in Calls |-> IF call[d] = "sent" THEN "lost" ELSE call[d]]
    BY <1>3 DEF ClientClose, ClientVanish, Depart
  <2> QED BY <2>1
<1>4. ASSUME UNCHANGED <<call, linked>> PROVE Goes
  BY <1>0, <1>4
<1>5. \/ \E d \in Calls : Issue(d)
      \/ ClientReceive \/ ClientClose \/ ClientVanish \/ UNCHANGED <<call, linked>>
  BY DEF Next, Client, Upload, ReturnQuota, Handler, Respond, GiveUp, TaskDone, RecvDriver, RecvMessage,
     RecvShutdown, RecvEnd, RecvSettle, SendDriver, SendHead, Admit, ChannelClosed, DrainChanged, Advance,
     SendFail, vars, clientVars
<1> HIDE DEF Goes
<1>6. Goes
  BY <1>1, <1>2, <1>3, <1>4, <1>5
<1> QED BY <1>6 DEF Goes


\* A running handler's call stays open.
LEMMA OpenStep ==
  ASSUME TypeOK, HeldOnce, AskedOnce, RunningIsOpen, [Next]_vars
  PROVE  RunningIsOpen'
<1> SUFFICES ASSUME NEW c \in Calls
             PROVE  /\ task'[c] = "running" => call'[c] \in {"sent", "lost"}
                    /\ ~linked' => call'[c] # "sent"
  BY DEF RunningIsOpen
<1>1. /\ call[c] \in {"answered", "error", "lost"} => call'[c] = call[c]
      /\ call[c] = "sent" => \/ call'[c] \in {"sent", "lost"}
                             \/ call'[c] = "answered" /\ Message("Response", c) \in Range(down)
                             \/ call'[c] = "error" /\ Message("Error", c) \in Range(down)
      /\ call[c] = "sent" /\ task[c] = "running" => call'[c] \in {"sent", "lost"}
      /\ call'[c] = "sent" => linked'
  BY CallSteps
<1>2. ASSUME task'[c] = "running" PROVE call'[c] \in {"sent", "lost"}
  <2>1. task[c] = "running" \/ Message("Request", c) \in Range(up)
    BY <1>2, TaskSteps
  <2>2. CASE task[c] = "running"
    <3>1. call[c] \in {"sent", "lost"}
      BY <2>2 DEF RunningIsOpen
    <3> QED BY <1>1, <2>2, <3>1
  <2>3. CASE task[c] # "running" /\ Message("Request", c) \in Range(up)
    <3>1. task[c] = "none" /\ call[c] \in {"sent", "lost"}
      BY <2>3, AskedFacts
    <3>2. call' = call
      <4>1. task'[c] # task[c]
        BY <1>2, <3>1
      <4>2. task \in [Calls -> {"none", "running", "responded", "done"}]
        BY QueueTypes
      <4>3. task' # task
        BY <4>1
      <4> QED BY <4>3 DEF Next, Client, Issue, Upload, ReturnQuota, ClientReceive, ClientClose, ClientVanish,
               Depart, Handler, Respond, GiveUp, TaskDone, RecvDriver, RecvMessage, RecvShutdown, RecvEnd,
               RecvSettle, SendDriver, SendHead, Admit, ChannelClosed, DrainChanged, Advance, SendFail, vars,
               clientVars, taskVars
    <3> QED BY <3>1, <3>2
  <2> QED BY <2>1, <2>2, <2>3
<1> QED BY <1>1, <1>2

\* Responses come from handlers, and refusals from a server that drains.
LEMMA AnswersStep ==
  ASSUME TypeOK, AnswersFit, [Next]_vars
  PROVE  AnswersFit'
<1> SUFFICES ASSUME NEW c \in Calls
             PROVE  /\ Responded(c)' => task'[c] # "none"
                    /\ task'[c] = "none" /\ Refused(c)' => draining'
  BY DEF AnswersFit
<1>0. (Responded(c) => task[c] # "none") /\ (task[c] = "none" /\ Refused(c) => draining)
  BY DEF AnswersFit
<1>1. (task[c] # "none" => task'[c] # "none") /\ (draining => draining')
  BY TaskSteps
<1>2. ASSUME Responded(c)' PROVE task'[c] # "none"
  <2>1. Responded(c) \/ task[c] = "running"
    BY <1>2, AnswerSources
  <2> QED BY <1>0, <1>1, <2>1
<1>3. ASSUME Refused(c)', task'[c] = "none" PROVE draining'
  <2>1. Refused(c) \/ task[c] = "running" \/ draining
    BY <1>3, AnswerSources
  <2> QED BY <1>0, <1>1, <1>3, <2>1
<1> QED BY <1>2, <1>3

\* A shutdown keeps a handler that asked for it.
LEMMA AskedForStep ==
  ASSUME TypeOK, HeldOnce, AskedOnce, RunningIsOpen, AskedFor, [Next]_vars
  PROVE  AskedFor'
<1> DEFINE Good(c) == \/ call[c] \in {"answered", "lost"}
                      \/ call[c] = "sent" /\ task[c] \in {"responded", "done"} /\ ~Refused(c)
           Good1(c) == \/ call'[c] \in {"answered", "lost"}
                       \/ call'[c] = "sent" /\ task'[c] \in {"responded", "done"} /\ ~Refused(c)'
<1> SUFFICES ASSUME shutdown' # "armed" PROVE \E c \in Stoppers : Good1(c)
  BY DEF AskedFor
<1>0. Stoppers \subseteq Calls
  BY CallsAssumption
<1>1. ASSUME NEW c \in Stoppers, Good(c) PROVE Good1(c)
  <2>1. CASE call[c] \in {"answered", "lost"}
    <3>1. call'[c] = call[c]
      BY <1>0, <2>1, CallSteps
    <3> QED BY <2>1, <3>1
  <2>2. CASE call[c] = "sent" /\ task[c] \in {"responded", "done"} /\ ~Refused(c)
    <3>1. Message("Request", c) \notin Range(up)
      <4>1. ASSUME Message("Request", c) \in Range(up) PROVE FALSE
        <5>1. task[c] = "none"
          BY <1>0, <4>1, AskedFacts
        <5> QED BY <2>2, <5>1
      <4> QED BY <4>1
    <3>2. task'[c] \in {"responded", "done"}
      BY <1>0, <2>2, <3>1, TaskSteps
    <3>3. ~Refused(c)'
      <4>1. ASSUME Refused(c)' PROVE FALSE
        <5>1. \/ Refused(c)
              \/ task[c] = "running" /\ ~Respond(c)
              \/ draining /\ Message("Request", c) \in Range(up)
          BY <1>0, <4>1, AnswerSources
        <5> QED BY <2>2, <3>1, <5>1
      <4> QED BY <4>1
    <3>4. Message("Error", c) \notin Range(down)
      BY <2>2 DEF Refused
    <3>5. call'[c] \in {"sent", "lost", "answered"}
      BY <1>0, <2>2, <3>4, CallSteps
    <3> QED BY <3>2, <3>3, <3>5
  <2> QED BY <1>1, <2>1, <2>2
<1>2. CASE shutdown # "armed"
  <2>1. PICK c \in Stoppers : Good(c)
    BY <1>2 DEF AskedFor
  <2>2. Good1(c)
    BY <1>1, <2>1
  <2> HIDE DEF Good, Good1
  <2> QED BY <2>2
<1>3. CASE shutdown = "armed"
  <2>1. PICK c \in Calls : Respond(c) /\ c \in Stoppers
    BY <1>3 DEF Next, Client, Issue, Upload, ReturnQuota, ClientReceive, ClientClose, ClientVanish, Depart,
       Handler, Respond, GiveUp, TaskDone, RecvDriver, RecvMessage, RecvShutdown, RecvEnd, RecvSettle, SendDriver,
       SendHead, Admit, ChannelClosed, DrainChanged, Advance, SendFail, vars, taskVars
  <2>2. /\ task[c] = "running" /\ task' = [task EXCEPT ![c] = "responded"] /\ call' = call
    BY <2>1 DEF Respond, clientVars
  <2>3. task'[c] = "responded"
    BY <2>2, QueueTypes
  <2>4. call[c] \in {"sent", "lost"} /\ (call[c] = "sent" => linked)
    BY <2>2 DEF RunningIsOpen
  <2>5. ASSUME call[c] = "sent" PROVE ~Refused(c)'
    <3>1. ~Refused(c)
      BY <2>2, <2>4, <2>5, HeldFacts
    <3>2. Message("Request", c) \notin Range(up)
      <4>1. ASSUME Message("Request", c) \in Range(up) PROVE FALSE
        <5>1. task[c] = "none"
          BY <4>1, AskedFacts
        <5> QED BY <2>2, <5>1
      <4> QED BY <4>1
    <3>3. ASSUME Refused(c)' PROVE FALSE
      <4>1. \/ Refused(c)
            \/ task[c] = "running" /\ ~Respond(c)
            \/ draining /\ Message("Request", c) \in Range(up)
        BY <3>3, AnswerSources
      <4> QED BY <2>1, <3>1, <3>2, <4>1
    <3> QED BY <3>3
  <2>6. Good1(c)
    BY <2>2, <2>3, <2>4, <2>5
  <2> HIDE DEF Good, Good1
  <2> QED BY <2>1, <2>6
<1> QED BY <1>2, <1>3


-----------------------------------------------------------------------------
(***************************************************************************)
(* The theorems.                                                           *)
(***************************************************************************)

\* The invariant holds of a connection that begins.
LEMMA DrainInit ==
  ASSUME Init
  PROVE  DrainInv
<1>0. /\ <<>> \in Seq(Requests) /\ <<>> \in Seq(Answers) /\ <<>> \in Seq(Calls) /\ Len(<<>>) = 0
      /\ DOMAIN <<>> = {}
  OBVIOUS
<1>1. /\ up = <<>> /\ down = <<>> /\ channel = <<>> /\ control = <<>> /\ waiting = <<>> /\ active = <<>>
      /\ call = [c \in Calls |-> "new"] /\ task = [c \in Calls |-> "none"]
      /\ linked = TRUE /\ recv = "running" /\ mode = "Running" /\ shutdown = "armed"
      /\ budget = Quota /\ holding = {}
  BY DEF Init
<1>e. \A T : /\ CountIn(up, T) = 0 /\ CountIn(down, T) = 0 /\ CountIn(channel, T) = 0
             /\ CountIn(control, T) = 0 /\ CountIn(waiting, T) = 0 /\ CountIn(active, T) = 0
  BY <1>0, <1>1, CountZero
<1>r. /\ Range(up) = {} /\ Range(down) = {} /\ Range(channel) = {} /\ Range(control) = {}
      /\ Range(waiting) = {} /\ Range(active) = {}
  BY <1>0, <1>1 DEF Range
<1>2. TypeOK
  <2>1. /\ up \in Seq([op : {"Request", "Trailer", "PayloadCredit"}, id : Calls])
        /\ down \in Seq(Answers) /\ channel \in Seq(Answers)
        /\ control \in Seq(Calls) /\ waiting \in Seq(Calls) /\ active \in Seq(Calls)
    BY <1>0, <1>1 DEF Requests
  <2>2. budget \in 0..Quota
    BY <1>1, QuotaAssumption
  <2>3. /\ call \in [Calls -> {"new", "sent", "answered", "error", "lost"}]
        /\ task \in [Calls -> {"none", "running", "responded", "done"}]
    BY <1>1
  <2> QED BY <2>1, <2>2, <2>3 DEF Init, TypeOK, Modes
<1>3. QuotaBound
  <2>1. Cardinality(holding) = 0 /\ Len(active) = 0
    BY <1>0, <1>1, FS_EmptySet
  <2> QED BY <1>1, <1>e, <2>1, QuotaAssumption DEF QuotaBound
<1>4. UploadsOnly /\ Drained /\ SealedMeansAnswered
  BY <1>1, <1>r DEF UploadsOnly, Drained, SealedMeansAnswered
<1>5. HeldOnce
  <2>1. \A c \in Calls : call[c] # "sent" /\ task[c] # "running"
    BY <1>1
  <2> QED BY <1>e, <2>1 DEF HeldOnce, Held
<1>6. AskedOnce
  BY <1>1, <1>e DEF AskedOnce
<1>7. AnswersFit /\ AskedFor /\ RunningIsOpen
  BY <1>1, <1>r DEF AnswersFit, Responded, Refused, AskedFor, RunningIsOpen
<1> QED BY <1>2, <1>3, <1>4, <1>5, <1>6, <1>7 DEF DrainInv

\* Every step keeps the whole invariant.
LEMMA DrainStep ==
  ASSUME DrainInv, [Next]_vars
  PROVE  DrainInv'
<1>1. /\ TypeOK /\ QuotaBound /\ UploadsOnly /\ Drained /\ SealedMeansAnswered
      /\ HeldOnce /\ AskedOnce /\ AnswersFit /\ AskedFor /\ RunningIsOpen
  BY DEF DrainInv
<1>2. TypeOK' /\ QuotaBound' /\ UploadsOnly'
  BY <1>1, TypeStep, QuotaStep, UploadsStep
<1>3. Drained' /\ SealedMeansAnswered'
  BY <1>1, DrainedStep
<1>4. HeldOnce' /\ AskedOnce'
  BY <1>1, HeldStep, AskedStep
<1>5. AnswersFit' /\ AskedFor' /\ RunningIsOpen'
  BY <1>1, AnswersStep, AskedForStep, OpenStep
<1> QED BY <1>2, <1>3, <1>4, <1>5 DEF DrainInv

\* The invariant holds throughout a connection.
LEMMA DrainAlways ==
  Spec => []DrainInv
<1>1. Init => DrainInv
  BY DrainInit
<1>2. DrainInv /\ [Next]_vars => DrainInv'
  BY DrainStep
<1> QED BY <1>1, <1>2, PTL DEF Spec

\* Every variable of the end of a connection keeps its type; in particular the
\* response quota (PayloadBudget) stays between zero and what the client gave,
\* whatever the client returns and in whichever order.
THEOREM DrainTypes == Spec => []TypeOK
<1>1. DrainInv => TypeOK
  BY DEF DrainInv
<1> QED BY <1>1, DrainAlways, PTL

\* DrainSignal is sealed (seal_if_idle) only when no handler is still to answer,
\* for any calls, uploads and stoppers.
THEOREM SealedDrainOwesNothing == Spec => []SealedMeansAnswered
<1>1. DrainInv => SealedMeansAnswered
  BY DEF DrainInv
<1> QED BY <1>1, DrainAlways, PTL

\* As many tagged places as places.
LEMMA TaggedPlaces ==
  ASSUME NEW tag, NEW P, IsFiniteSet(P)
  PROVE  /\ IsFiniteSet({<<tag, i>> : i \in P})
         /\ Cardinality({<<tag, i>> : i \in P}) = Cardinality(P)
<1> DEFINE Q == {<<tag, i>> : i \in P}
           f == [i \in P |-> <<tag, i>>]
<1>1. f \in Bijection(P, Q)
  BY DEF Bijection, Injection, Surjection, IsInjective
<1>2. ExistsBijection(P, Q)
  BY <1>1 DEF ExistsBijection
<1> HIDE DEF Q
<1> QED BY <1>2, FS_Bijection DEF Q

\* The answers on their way, counted queue by queue.
LEMMA CarriedCount ==
  ASSUME TypeOK, NEW c \in Calls
  PROVE  Cardinality(Carried(c)) = CountIn(channel, Of(c)) + CountIn(control, {c}) + CountIn(waiting, {c})
                                   + CountIn(active, {c}) + CountIn(down, Of(c))
<1>0. /\ down \in Seq(Answers) /\ channel \in Seq(Answers)
      /\ control \in Seq(Calls) /\ waiting \in Seq(Calls) /\ active \in Seq(Calls)
  BY QueueTypes
<1> DEFINE At(tag, P) == {<<tag, i>> : i \in P}
           A == At("channel", PlacesOf(channel, Of(c)))
           B == At("control", PlacesOf(control, {c}))
           C == At("waiting", PlacesOf(waiting, {c}))
           D == At("active", PlacesOf(active, {c}))
           E == At("down", PlacesOf(down, Of(c)))
<1>1. /\ PlacesOf(channel, Of(c)) = {i \in DOMAIN channel : channel[i].id = c}
      /\ PlacesOf(down, Of(c)) = {i \in DOMAIN down : down[i].id = c}
  <2>1. \A i \in DOMAIN channel : channel[i] \in Answers
    BY <1>0
  <2>2. \A i \in DOMAIN down : down[i] \in Answers
    BY <1>0
  <2>3. \A m \in Answers : m \in Of(c) <=> m.id = c
    BY MessageFacts
  <2> QED BY <2>1, <2>2, <2>3 DEF PlacesOf
<1>2. /\ PlacesOf(control, {c}) = {i \in DOMAIN control : control[i] = c}
      /\ PlacesOf(waiting, {c}) = {i \in DOMAIN waiting : waiting[i] = c}
      /\ PlacesOf(active, {c}) = {i \in DOMAIN active : active[i] = c}
  BY DEF PlacesOf
<1>3. Carried(c) = A \cup B \cup C \cup D \cup E
  BY <1>1, <1>2 DEF Carried
<1>4. /\ IsFiniteSet(A) /\ Cardinality(A) = CountIn(channel, Of(c))
      /\ IsFiniteSet(E) /\ Cardinality(E) = CountIn(down, Of(c))
  <2>1. IsFiniteSet(PlacesOf(channel, Of(c))) /\ IsFiniteSet(PlacesOf(down, Of(c)))
    BY <1>0, CountType
  <2> QED BY <2>1, TaggedPlaces DEF CountIn
<1>5. /\ IsFiniteSet(B) /\ Cardinality(B) = CountIn(control, {c})
      /\ IsFiniteSet(C) /\ Cardinality(C) = CountIn(waiting, {c})
      /\ IsFiniteSet(D) /\ Cardinality(D) = CountIn(active, {c})
  <2>1. /\ IsFiniteSet(PlacesOf(control, {c})) /\ IsFiniteSet(PlacesOf(waiting, {c}))
        /\ IsFiniteSet(PlacesOf(active, {c}))
    BY <1>0, CountType
  <2> QED BY <2>1, TaggedPlaces DEF CountIn
<1>6. A \cap B = {} /\ (A \cup B) \cap C = {} /\ (A \cup B \cup C) \cap D = {} /\ (A \cup B \cup C \cup D) \cap E = {}
  OBVIOUS
<1> HIDE DEF A, B, C, D, E
<1>7. /\ CountIn(channel, Of(c)) \in Nat /\ CountIn(control, {c}) \in Nat /\ CountIn(waiting, {c}) \in Nat
      /\ CountIn(active, {c}) \in Nat /\ CountIn(down, Of(c)) \in Nat
  BY <1>0, CountType
<1>d. ASSUME NEW S, NEW T, IsFiniteSet(S), IsFiniteSet(T), S \cap T = {}
      PROVE  IsFiniteSet(S \cup T) /\ Cardinality(S \cup T) = Cardinality(S) + Cardinality(T)
  <2>1. /\ IsFiniteSet(S \cup T)
        /\ Cardinality(S \cup T) = Cardinality(S) + Cardinality(T) - Cardinality({})
    BY <1>d, FS_Union
  <2>2. Cardinality({}) = 0 /\ Cardinality(S) \in Nat /\ Cardinality(T) \in Nat
    BY <1>d, FS_EmptySet, FS_CardinalityType
  <2> QED BY <2>1, <2>2
<1>8. IsFiniteSet(A \cup B) /\ Cardinality(A \cup B) = Cardinality(A) + Cardinality(B)
  BY <1>4, <1>5, <1>6, <1>d
<1>9. IsFiniteSet(A \cup B \cup C) /\ Cardinality(A \cup B \cup C) = Cardinality(A) + Cardinality(B) + Cardinality(C)
  BY <1>5, <1>6, <1>8, <1>d
<1>10. /\ IsFiniteSet(A \cup B \cup C \cup D)
       /\ Cardinality(A \cup B \cup C \cup D) = Cardinality(A) + Cardinality(B) + Cardinality(C) + Cardinality(D)
  BY <1>5, <1>6, <1>9, <1>d
<1>11. Cardinality(A \cup B \cup C \cup D \cup E)
         = Cardinality(A) + Cardinality(B) + Cardinality(C) + Cardinality(D) + Cardinality(E)
  BY <1>4, <1>6, <1>10, <1>d
<1> QED BY <1>3, <1>4, <1>5, <1>11

\* Server::serve loses no call of a connected client and answers none twice: each
\* call it waits for is at one place, a request to be read, a handler that has
\* not answered or one answer under way, and a call that has ended is at none.
THEOREM NoCallIsLost == Spec => []EveryCallIsHeldOnce
<1>1. ASSUME DrainInv PROVE EveryCallIsHeldOnce
  <2> SUFFICES ASSUME linked, NEW c \in Calls
               PROVE  (IF In(up, "Request", c) THEN 1 ELSE 0)
                      + (IF task[c] = "running" THEN 1 ELSE 0)
                      + Cardinality(Carried(c)) = (IF call[c] = "sent" THEN 1 ELSE 0)
    BY DEF EveryCallIsHeldOnce
  <2> DEFINE a == CountIn(up, {Message("Request", c)})
             r == IF task[c] = "running" THEN 1 ELSE 0
             h == CountIn(channel, Of(c))
             o == CountIn(control, {c})
             v == CountIn(waiting, {c})
             b == CountIn(active, {c})
             w == CountIn(down, Of(c))
  <2>0. TypeOK /\ AskedOnce /\ HeldOnce
    BY <1>1 DEF DrainInv
  <2>1. /\ up \in Seq(Requests) /\ a \in Nat /\ h \in Nat /\ o \in Nat /\ v \in Nat /\ b \in Nat /\ w \in Nat
    BY <2>0, QueueTypes, CountType
  <2>2. a = IF In(up, "Request", c) THEN 1 ELSE 0
    <3>1. a = 0 <=> ~In(up, "Request", c)
      BY <2>1, CountZero DEF In
    <3>2. a <= 1
      BY <2>0 DEF AskedOnce
    <3> HIDE DEF a
    <3> QED BY <2>1, <3>1, <3>2
  <2>3. Cardinality(Carried(c)) = h + o + v + b + w
    BY <2>0, CarriedCount
  <2>4. a + r + h + o + v + b + w = IF call[c] = "sent" THEN 1 ELSE 0
    BY <2>0 DEF HeldOnce, Held
  <2>5. r \in Nat
    OBVIOUS
  <2>6. a + r + (h + o + v + b + w) = a + r + h + o + v + b + w
    <3> HIDE DEF a, r, h, o, v, b, w
    <3> QED BY <2>1, <2>5
  <2> QED BY <2>2, <2>3, <2>4, <2>6
<1>2. DrainInv => EveryCallIsHeldOnce
  BY <1>1
<1> QED BY <1>2, DrainAlways, PTL


-----------------------------------------------------------------------------
(***************************************************************************)
(* The promise.                                                            *)
(***************************************************************************)

\* Fate, of what the client knows of a call and where its handler is.
FateOf(k, t) ==
  CASE k = "sent" /\ t # "none" -> "accepted"
    [] k = "error" /\ t # "none" -> "failed"
    [] k = "error" /\ t = "none" -> "refused"
    [] OTHER -> k

\* The cases of a fate.
LEMMA FateCases ==
  ASSUME NEW t
  PROVE  /\ FateOf("new", t) = "new" /\ FateOf("answered", t) = "answered" /\ FateOf("lost", t) = "lost"
         /\ t = "none" => FateOf("sent", t) = "sent" /\ FateOf("error", t) = "refused"
         /\ t # "none" => FateOf("sent", t) = "accepted" /\ FateOf("error", t) = "failed"
BY DEF FateOf

\* Every step of the server and its client is a step of the promise, or changes
\* nothing that the promise speaks of.
LEMMA PromiseStep ==
  ASSUME DrainInv, [Next]_vars
  PROVE  [Promise!Next]_(Promise!vars)
<1> DEFINE f == [c \in Calls |-> FateOf(call[c], task[c])]
           g == [c \in Calls |-> FateOf(call'[c], task'[c])]
<1>f. [c \in Calls |-> Fate(c)] = f /\ [c \in Calls |-> Fate(c)]' = g
  BY DEF Fate, FateOf
<1>0. /\ call \in [Calls -> {"new", "sent", "answered", "error", "lost"}]
      /\ task \in [Calls -> {"none", "running", "responded", "done"}]
      /\ up \in Seq(Requests) /\ down \in Seq(Answers)
      /\ TypeOK /\ Drained /\ HeldOnce /\ AskedOnce /\ AnswersFit /\ AskedFor
  BY QueueTypes DEF DrainInv
<1>1. \A c \in Calls : /\ f[c] = FateOf(call[c], task[c]) /\ g[c] = FateOf(call'[c], task'[c])
  OBVIOUS
<1>2. ASSUME NEW c \in Calls, \A d \in Calls \ {c} : g[d] = f[d]
      PROVE  g = [f EXCEPT ![c] = g[c]]
  BY <1>2
<1>3. ASSUME \A c \in Calls : g[c] = f[c] PROVE g = f
  BY <1>3
<1> HIDE DEF f, g
<1>s. ASSUME g = f, draining' = draining, linked' = linked, Served' = Served
      PROVE  UNCHANGED (Promise!vars)
  BY <1>f, <1>s DEF Promise!vars
<1>b. ASSUME NEW c \in Calls, NEW from, NEW to, f[c] = from, g[c] = to, \A d \in Calls \ {c} : g[d] = f[d],
             draining' = draining, linked' = linked, Served' = Served
      PROVE  Promise!Become(c, from, to)
  <2>1. g = [f EXCEPT ![c] = to]
    BY <1>2, <1>b
  <2> QED BY <1>f, <1>b, <2>1 DEF Promise!Become
<1>p. /\ Promise!Next \/ UNCHANGED (Promise!vars) => [Promise!Next]_(Promise!vars)
  OBVIOUS
<1> DEFINE Same(c) == call'[c] = call[c] /\ (task'[c] = "none" <=> task[c] = "none")
<1>t. ASSUME NEW c \in Calls, Same(c) PROVE g[c] = f[c]
  <2>1. call[c] \in {"new", "sent", "answered", "error", "lost"}
    BY <1>0
  <2> QED BY <1>1, <1>t, <2>1, FateCases
<1>4. ASSUME NEW c \in Calls, Issue(c) PROVE Promise!Next
  <2>1. linked /\ linked' = linked /\ call[c] = "new" /\ call' = [call EXCEPT ![c] = "sent"]
        /\ UNCHANGED <<task, draining, recv, send>>
    BY <1>4 DEF Issue, taskVars, recvVars, sendVars
  <2>2. Served' = Served
    BY <2>1 DEF Served
  <2>3. task[c] = "none" /\ call'[c] = "sent" /\ \A d \in Calls \ {c} : Same(d)
    BY <1>0, <2>1 DEF AskedOnce
  <2>4. f[c] = "new" /\ g[c] = "sent"
    BY <1>1, <2>1, <2>3, FateCases
  <2>5. Promise!Become(c, "new", "sent")
    BY <1>b, <1>t, <2>1, <2>2, <2>3, <2>4
  <2> QED BY <2>1, <2>5 DEF Promise!Next, Promise!Send
<1>5. ASSUME ClientReceive PROVE Promise!Next
  <2> DEFINE m == Head(down)
             c == m.id
  <2>1. /\ linked /\ linked' = linked /\ down # <<>>
        /\ call' = [call EXCEPT ![c] = IF m.op = "Response" THEN "answered" ELSE "error"]
        /\ UNCHANGED <<task, draining, recv, send>>
    BY <1>5 DEF ClientReceive, taskVars, recvVars, sendVars
  <2>2. Served' = Served
    BY <2>1 DEF Served
  <2>3. m \in Answers /\ m \in Range(down)
    BY <1>0, <2>1, HeadTailProperties, RangeSteps
  <2>4. c \in Calls /\ m = Message(m.op, c) /\ m.op \in {"Response", "Error"}
    BY <2>3 DEF Answers, Message
  <2>5. call[c] = "sent"
    BY <1>0, <2>1, <2>3, <2>4, HeldFacts
  <2>6. /\ call'[c] = (IF m.op = "Response" THEN "answered" ELSE "error")
        /\ \A d \in Calls \ {c} : Same(d)
    BY <1>0, <2>1, <2>4
  <2>7. /\ m.op = "Response" => task[c] # "none"
        /\ m.op = "Error" /\ task[c] = "none" => draining
    <3>1. (m.op = "Response" => Responded(c)) /\ (m.op = "Error" => Refused(c))
      BY <2>3, <2>4 DEF Responded, Refused
    <3>2. (Responded(c) => task[c] # "none") /\ (task[c] = "none" /\ Refused(c) => draining)
      BY <1>0, <2>4 DEF AnswersFit
    <3> QED BY <3>1, <3>2
  <2> HIDE DEF m, c
  <2>8. \A d \in Calls \ {c} : g[d] = f[d]
    BY <1>t, <2>6
  <2>9. CASE m.op = "Response"
    <3>1. f[c] = "accepted" /\ g[c] = "answered"
      BY <1>1, <2>1, <2>4, <2>5, <2>6, <2>7, <2>9, FateCases
    <3>2. Promise!Become(c, "accepted", "answered")
      BY <1>b, <2>1, <2>2, <2>4, <2>8, <3>1
    <3> QED BY <2>4, <3>2 DEF Promise!Next, Promise!Answer
  <2>10. CASE m.op = "Error" /\ task[c] # "none"
    <3>1. f[c] = "accepted" /\ g[c] = "failed"
      BY <1>1, <2>1, <2>4, <2>5, <2>6, <2>10, FateCases
    <3>2. Promise!Become(c, "accepted", "failed")
      BY <1>b, <2>1, <2>2, <2>4, <2>8, <3>1
    <3> QED BY <2>4, <3>2 DEF Promise!Next, Promise!Fail
  <2>11. CASE m.op = "Error" /\ task[c] = "none"
    <3>1. f[c] = "sent" /\ g[c] = "refused"
      BY <1>1, <2>1, <2>4, <2>5, <2>6, <2>11, FateCases
    <3>2. Promise!Become(c, "sent", "refused") /\ draining
      BY <1>b, <2>1, <2>2, <2>4, <2>7, <2>8, <2>11, <3>1
    <3> QED BY <2>4, <3>2 DEF Promise!Next, Promise!Refuse
  <2> QED BY <2>4, <2>9, <2>10, <2>11
<1>6. ASSUME ClientClose \/ ClientVanish PROVE Promise!Next
  <2>1. /\ linked /\ linked' = FALSE /\ UNCHANGED <<task, draining, recv, send>>
        /\ call' = [c \in Calls |-> IF call[c] = "sent" THEN "lost" ELSE call[c]]
    BY <1>6 DEF ClientClose, ClientVanish, Depart, taskVars, recvVars, sendVars
  <2>2. Served' = Served
    BY <2>1 DEF Served
  <2>3. ASSUME NEW c \in Calls
        PROVE  g[c] = IF f[c] \in {"sent", "accepted"} THEN "lost" ELSE f[c]
    <3>1. call[c] \in {"new", "sent", "answered", "error", "lost"}
          /\ call'[c] = (IF call[c] = "sent" THEN "lost" ELSE call[c]) /\ task'[c] = task[c]
      BY <1>0, <2>1
    <3> QED BY <1>1, <3>1, FateCases
  <2>4. g = [c \in Calls |-> IF f[c] \in {"sent", "accepted"} THEN "lost" ELSE f[c]]
    <3>1. g = [c \in Calls |-> g[c]]
      BY DEF g
    <3> QED BY <2>3, <3>1
  <2>5. Promise!Leave
    BY <1>f, <2>1, <2>2, <2>4 DEF Promise!Leave, Promise!Underway
  <2> QED BY <2>5 DEF Promise!Next
<1>7. ASSUME RecvMessage PROVE Promise!Next \/ UNCHANGED (Promise!vars)
  <2> DEFINE c == Head(up).id
  <2>1. /\ up # <<>> /\ UNCHANGED <<call, linked, draining, recv, send>>
        /\ \/ task' = task
           \/ Head(up).op = "Request" /\ ~draining /\ task' = [task EXCEPT ![c] = "running"]
    BY <1>7 DEF RecvMessage, RecvRequest, clientVars, recvVars
  <2>2. Served' = Served
    BY <2>1 DEF Served
  <2>3. Head(up) \in Requests /\ Head(up) \in Range(up)
    BY <1>0, <2>1, HeadTailProperties, RangeSteps
  <2>4. c \in Calls /\ (Head(up).op = "Request" => Head(up) = Message("Request", c))
    BY <2>3 DEF Requests, Message
  <2>5. CASE task' = task
    <3>1. g = f
      BY <1>3, <1>t, <2>1, <2>5
    <3> QED BY <1>s, <2>1, <2>2, <3>1
  <2>6. CASE Head(up).op = "Request" /\ ~draining /\ task' = [task EXCEPT ![c] = "running"]
    <3>1. task[c] = "none" /\ call[c] \in {"sent", "lost"}
      BY <1>0, <2>3, <2>4, <2>6, AskedFacts
    <3>2. task'[c] = "running" /\ call'[c] = call[c] /\ \A d \in Calls \ {c} : Same(d)
      BY <1>0, <2>1, <2>4, <2>6
    <3> HIDE DEF c
    <3>3. \A d \in Calls \ {c} : g[d] = f[d]
      BY <1>t, <3>2
    <3>4. CASE call[c] = "sent"
      <4>1. f[c] = "sent" /\ g[c] = "accepted"
        BY <1>1, <2>4, <3>1, <3>2, <3>4, FateCases
      <4>2. Promise!Become(c, "sent", "accepted")
        BY <1>b, <2>1, <2>2, <2>4, <3>3, <4>1
      <4> QED BY <2>4, <2>6, <4>2 DEF Promise!Next, Promise!Accept
    <3>5. CASE call[c] = "lost"
      <4>1. g[c] = f[c]
        BY <1>1, <2>4, <3>2, <3>5, FateCases
      <4>2. g = f
        BY <1>3, <3>3, <4>1
      <4> QED BY <1>s, <2>1, <2>2, <4>2
    <3> QED BY <3>1, <3>4, <3>5
  <2> QED BY <2>1, <2>5, <2>6
<1>8. ASSUME RecvShutdown PROVE Promise!Next
  <2>1. /\ shutdown = "sent" /\ ~draining /\ draining' = TRUE
        /\ UNCHANGED <<call, task, linked, recv, send>>
    BY <1>8 DEF RecvShutdown, clientVars, sendVars
  <2>2. Served' = Served
    BY <2>1 DEF Served
  <2>3. g = f
    BY <1>3, <1>t, <2>1
  <2>4. PICK c \in Stoppers : \/ call[c] \in {"answered", "lost"}
                              \/ call[c] = "sent" /\ task[c] \in {"responded", "done"} /\ ~Refused(c)
    BY <1>0, <2>1 DEF AskedFor
  <2>5. c \in Calls
    BY CallsAssumption
  <2>6. f[c] \in {"accepted", "answered", "lost"}
    BY <1>1, <2>4, <2>5, FateCases
  <2>7. Promise!Drain
    BY <1>f, <2>1, <2>2, <2>3, <2>6 DEF Promise!Drain
  <2> QED BY <2>7 DEF Promise!Next
<1>9. ASSUME UNCHANGED <<call, linked, draining>>, \A c \in Calls : task'[c] = "none" <=> task[c] = "none",
             Served => Served', Served' => ~linked
      PROVE  Promise!Next \/ UNCHANGED (Promise!vars)
  <2>1. g = f
    BY <1>3, <1>t, <1>9
  <2>2. CASE Served' = Served
    BY <1>s, <1>9, <2>1, <2>2
  <2>3. CASE ~Served /\ Served'
    <3>1. Served' = TRUE
      BY <2>3 DEF Served
    <3>2. Promise!End
      BY <1>f, <1>9, <2>1, <2>3, <3>1 DEF Promise!End
    <3> QED BY <3>2 DEF Promise!Next
  <2>4. Served' = Served \/ (~Served /\ Served')
    BY <1>9 DEF Served
  <2> QED BY <2>2, <2>3, <2>4
<1>10. ASSUME UNCHANGED <<call, linked, draining>>, \A c \in Calls : task'[c] = "none" <=> task[c] = "none",
              Served' = Served
       PROVE  UNCHANGED (Promise!vars)
  <2>1. g = f
    BY <1>3, <1>t, <1>10
  <2> QED BY <1>s, <1>10, <2>1
<1>11. ASSUME RecvEnd \/ RecvSettle \/ SendFail \/ SendHead PROVE Promise!Next \/ UNCHANGED (Promise!vars)
  <2>1. UNCHANGED <<call, linked, draining>>
    BY <1>11 DEF RecvEnd, RecvSettle, SendFail, SendHead, clientVars, recvVars
  <2>2. task' = task \/ task' = [x \in Calls |-> IF task[x] = "none" THEN "none" ELSE "done"]
    BY <1>11 DEF RecvEnd, RecvSettle, SendFail, SendHead, DropTasks, taskVars
  <2>3. \A c \in Calls : task'[c] = "none" <=> task[c] = "none"
    BY <1>0, <2>2
  <2>4. (Served => Served') /\ (Served' => ~linked)
    BY <1>0, <1>11 DEF RecvEnd, RecvSettle, SendFail, SendHead, Served, Drained, recvVars, sendVars
  <2> QED BY <1>9, <2>1, <2>3, <2>4
<1>12. ASSUME NEW c \in Calls, Handler(c) PROVE UNCHANGED (Promise!vars)
  <2>1. UNCHANGED <<call, linked, draining, recv, send>>
    BY <1>12 DEF Handler, Respond, GiveUp, TaskDone, clientVars, recvVars, sendVars
  <2>2. /\ task[c] \in {"running", "responded"}
        /\ task' = [task EXCEPT ![c] = "responded"] \/ task' = [task EXCEPT ![c] = "done"]
    BY <1>12 DEF Handler, Respond, GiveUp, TaskDone
  <2>3. \A d \in Calls : task'[d] = "none" <=> task[d] = "none"
    BY <1>0, <2>2
  <2>4. Served' = Served
    BY <2>1 DEF Served
  <2> QED BY <1>10, <2>1, <2>3, <2>4
<1>13. ASSUME Admit \/ ChannelClosed \/ DrainChanged \/ Advance PROVE UNCHANGED (Promise!vars)
  <2>1. UNCHANGED <<call, linked, draining, task>> /\ send = "select" /\ send' = "head"
    BY <1>13 DEF Admit, ChannelClosed, DrainChanged, Advance, clientVars, taskVars, recvVars
  <2>2. Served' = Served
    BY <2>1 DEF Served
  <2> QED BY <1>10, <2>1, <2>2
<1>14. ASSUME (\E c \in Calls : Upload(c) \/ ReturnQuota(c)) \/ UNCHANGED vars PROVE UNCHANGED (Promise!vars)
  <2>1. UNCHANGED <<call, linked, draining, task, recv, send>>
    BY <1>14 DEF Upload, ReturnQuota, vars, clientVars, taskVars, recvVars, sendVars
  <2>2. Served' = Served
    BY <2>1 DEF Served
  <2> QED BY <1>10, <2>1, <2>2
<1>15. Promise!Next \/ UNCHANGED (Promise!vars)
  BY <1>4, <1>5, <1>6, <1>7, <1>8, <1>11, <1>12, <1>13, <1>14 DEF Next, Client, RecvDriver, SendDriver
<1> QED BY <1>15

\* Whatever the server and its client do is what the promise allows
\* (Server::serve): it refuses only while it drains, drains only for a handler
\* that asked, never answers what it had refused or refuses what it had
\* accepted, and ends only after the client has left.
THEOREM ServeKeepsItsPromise ==
  Spec => Promise!Init /\ [][Promise!Next]_(Promise!vars)
<1>1. Init => Promise!Init
  <2> SUFFICES ASSUME Init PROVE Promise!Init
    OBVIOUS
  <2>1. /\ call = [c \in Calls |-> "new"] /\ linked = TRUE /\ draining = FALSE /\ send = "head"
    BY DEF Init
  <2>2. \A c \in Calls : Fate(c) = FateOf(call[c], task[c])
    BY DEF Fate, FateOf
  <2>3. \A c \in Calls : Fate(c) = "new"
    BY <2>1, <2>2, FateCases
  <2>4. Served = FALSE
    BY <2>1 DEF Served
  <2> QED BY <2>1, <2>3, <2>4 DEF Promise!Init
<1>2. DrainInv /\ [Next]_vars => [Promise!Next]_(Promise!vars)
  BY PromiseStep
<1> QED BY <1>1, <1>2, DrainAlways, PTL DEF Spec


=============================================================================
