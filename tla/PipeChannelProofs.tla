------------------------- MODULE PipeChannelProofs -------------------------
(***************************************************************************)
(* The pipe channel delivers in order, loses nothing and does not panic.   *)
(*                                                                         *)
(* Order: the proof looks at the channel through what matters for it, the  *)
(* reader the downstream side reads from, the old pipe that is being       *)
(* drained into it, the pipes that can be written, and the stale values on *)
(* their way into a pipe.  Core is the invariant of that view; every step  *)
(* of the channel is one of a few moves of the view, and each move keeps   *)
(* Core.                                                                   *)
(*                                                                         *)
(* Panics: a sender can only panic when it runs a program in a state that  *)
(* has given its end away; the receiver never does.  Three kinds of stages *)
(* are shown not to get there: an upstream stage with a program at most at *)
(* its start (Before, During and Behind it), a downstream stage that reads *)
(* values to the end (OnAll), and one that runs a program, downstream of   *)
(* programs that are apart (Waits, Drains, Pipes, Joined, and then Over).  *)
(*                                                                         *)
(* Losses: in the last two, Delivers counts what was received, what the    *)
(* reader and the old pipe hold and what is on its way as 1, 2, ..., sent. *)
(***************************************************************************)
EXTENDS PipeChannel, SequenceTheorems, TLAPS

(***************************************************************************)
(* Sequences of items.                                                     *)
(***************************************************************************)
Sorted(s) == \A i, j \in 1..Len(s) : i < j => s[i] < s[j]
Below(s, t) == \A i \in 1..Len(s), j \in 1..Len(t) : s[i] < t[j]
Bounded(s, n) == \A i \in 1..Len(s) : s[i] <= n

\* Received, then what the reader holds, then what is still in the old pipe.
Ordered(g, x, y, n) ==
  /\ Sorted(g) /\ Sorted(x) /\ Sorted(y)
  /\ Below(g, x) /\ Below(g, y) /\ Below(x, y)
  /\ Bounded(g, n) /\ Bounded(x, n) /\ Bounded(y, n)

\* Where the items of a sequence are after Append, Tail and \o.
LEMMA AppendPlaces ==
  ASSUME NEW s \in Seq(Nat), NEW v \in Nat
  PROVE  /\ Append(s, v) \in Seq(Nat) /\ Len(Append(s, v)) = Len(s) + 1
         /\ \A i \in 1..Len(s) : Append(s, v)[i] = s[i]
         /\ Append(s, v)[Len(s) + 1] = v
  OBVIOUS

LEMMA TailPlaces ==
  ASSUME NEW s \in Seq(Nat), s # <<>>
  PROVE  /\ Tail(s) \in Seq(Nat) /\ Len(Tail(s)) = Len(s) - 1 /\ Len(s) >= 1
         /\ Head(s) = s[1] /\ Head(s) \in Nat
         /\ \A i \in 1..(Len(s) - 1) : Tail(s)[i] = s[i + 1] /\ i + 1 \in 1..Len(s)
  OBVIOUS

LEMMA ConcatPlaces ==
  ASSUME NEW s \in Seq(Nat), NEW t \in Seq(Nat)
  PROVE  /\ s \o t \in Seq(Nat) /\ Len(s \o t) = Len(s) + Len(t)
         /\ \A i \in 1..Len(s) : (s \o t)[i] = s[i]
         /\ \A i \in 1..Len(t) : (s \o t)[Len(s) + i] = t[i]
  OBVIOUS

LEMMA SameSeq ==
  ASSUME NEW s \in Seq(Nat), NEW t \in Seq(Nat), Len(s) = Len(t),
         \A i \in 1..Len(s) : s[i] = t[i]
  PROVE  s = t
  OBVIOUS

LEMMA LastPlace ==
  ASSUME NEW n \in Nat
  PROVE  /\ \A i \in 1..(n + 1) : i \in 1..n \/ i = n + 1
         /\ \A i, j \in 1..(n + 1) : i < j => i \in 1..n
         /\ n + 1 \in 1..(n + 1) /\ \A i \in 1..n : i \in 1..(n + 1)
  OBVIOUS

LEMMA NoItems == <<>> \in Seq(Nat) /\ Len(<<>>) = 0
  OBVIOUS

\* Nothing, and nothing lost on the way: parts of an ordered stream.
LEMMA OrderedParts ==
  ASSUME NEW g \in Seq(Nat), NEW x \in Seq(Nat), NEW y \in Seq(Nat), NEW n \in Nat,
         Ordered(g, x, y, n)
  PROVE  /\ Ordered(g, <<>>, y, n) /\ Ordered(g, x, <<>>, n) /\ Ordered(g, <<>>, <<>>, n)
         /\ y = <<>> => Ordered(g, <<>>, x, n)
         /\ Ordered(g, x, y, n + 1)
<1>1. Len(<<>>) = 0 /\ 1..0 = {}
  OBVIOUS
<1>2. ASSUME NEW s \in Seq(Nat), Bounded(s, n) PROVE Bounded(s, n + 1)
  <2>1. \A i \in 1..Len(s) : s[i] \in Nat
    OBVIOUS
  <2> QED BY <1>2, <2>1 DEF Bounded
<1> QED BY <1>1, <1>2 DEF Ordered, Sorted, Below, Bounded

\* The next item of the stream is received.
LEMMA OrderedRead ==
  ASSUME NEW g \in Seq(Nat), NEW x \in Seq(Nat), NEW y \in Seq(Nat), NEW n \in Nat,
         Ordered(g, x, y, n), x # <<>>
  PROVE  Ordered(Append(g, Head(x)), Tail(x), y, n)
<1> DEFINE h == Append(g, Head(x))
           t == Tail(x)
<1>1. /\ t \in Seq(Nat) /\ Len(t) = Len(x) - 1 /\ Len(x) >= 1 /\ Head(x) = x[1]
      /\ Head(x) \in Nat /\ \A i \in 1..Len(t) : t[i] = x[i + 1] /\ i + 1 \in 1..Len(x)
  BY TailPlaces
<1>2. /\ h \in Seq(Nat) /\ Len(h) = Len(g) + 1
      /\ \A i \in 1..Len(g) : h[i] = g[i]
      /\ h[Len(g) + 1] = x[1]
  BY <1>1, AppendPlaces
<1>3. Len(g) \in Nat /\ Len(x) \in Nat /\ Len(t) \in Nat /\ Len(y) \in Nat
  BY <1>1
<1>4. \A i \in 1..Len(h) : i \in 1..Len(g) \/ i = Len(g) + 1
  BY <1>2, <1>3, LastPlace
<1> HIDE DEF h, t
<1>5. 1 \in 1..Len(x)
  BY <1>1, <1>3
<1>6. \A i \in 1..Len(g) : i < Len(g) + 1 /\ ~(Len(g) + 1 < i)
  BY <1>3
<1>7. Sorted(h)
  <2> SUFFICES ASSUME NEW i \in 1..Len(h), NEW j \in 1..Len(h), i < j PROVE h[i] < h[j]
    BY DEF Sorted
  <2>1. i \in 1..Len(g)
    BY <1>2, <1>3, LastPlace
  <2>2. CASE j \in 1..Len(g)
    BY <1>2, <2>1, <2>2 DEF Ordered, Sorted
  <2>3. CASE j = Len(g) + 1
    BY <1>2, <1>5, <2>1, <2>3 DEF Ordered, Below
  <2> QED BY <1>4, <2>2, <2>3
<1>8. Sorted(t)
  <2> SUFFICES ASSUME NEW i \in 1..Len(t), NEW j \in 1..Len(t), i < j PROVE t[i] < t[j]
    BY DEF Sorted
  <2>1. i + 1 < j + 1
    BY <1>3
  <2> QED BY <1>1, <2>1 DEF Ordered, Sorted
<1>9. Below(h, t)
  <2> SUFFICES ASSUME NEW i \in 1..Len(h), NEW j \in 1..Len(t) PROVE h[i] < t[j]
    BY DEF Below
  <2>1. CASE i \in 1..Len(g)
    BY <1>1, <1>2, <2>1 DEF Ordered, Below
  <2>2. CASE i = Len(g) + 1
    <3>1. 1 < j + 1
      BY <1>3
    <3> QED BY <1>1, <1>2, <1>5, <2>2, <3>1 DEF Ordered, Sorted
  <2> QED BY <1>4, <2>1, <2>2
<1>10. Below(h, y)
  <2> SUFFICES ASSUME NEW i \in 1..Len(h), NEW j \in 1..Len(y) PROVE h[i] < y[j]
    BY DEF Below
  <2>1. CASE i \in 1..Len(g)
    BY <1>2, <2>1 DEF Ordered, Below
  <2>2. CASE i = Len(g) + 1
    BY <1>2, <1>5, <2>2 DEF Ordered, Below
  <2> QED BY <1>4, <2>1, <2>2
<1>11. Below(t, y)
  BY <1>1 DEF Ordered, Below
<1>12. Bounded(h, n) /\ Bounded(t, n)
  <2>1. Bounded(t, n)
    BY <1>1 DEF Ordered, Bounded
  <2>2. \A i \in 1..Len(h) : h[i] <= n
    BY <1>2, <1>4, <1>5 DEF Ordered, Bounded
  <2> QED BY <2>1, <2>2 DEF Bounded
<1>13. Ordered(h, t, y, n)
  BY <1>7, <1>8, <1>9, <1>10, <1>11, <1>12 DEF Ordered
<1> QED BY <1>13 DEF h, t

\* An item above all others goes to the end of the last part.
LEMMA OrderedTop ==
  ASSUME NEW g \in Seq(Nat), NEW x \in Seq(Nat), NEW y \in Seq(Nat), NEW n \in Nat,
         NEW v \in Nat, NEW k \in Nat, v <= k, n <= k, Ordered(g, x, y, n),
         \A i \in 1..Len(g) : g[i] < v, \A i \in 1..Len(x) : x[i] < v,
         \A i \in 1..Len(y) : y[i] < v
  PROVE  /\ Ordered(g, x, Append(y, v), k)
         /\ y = <<>> => Ordered(g, Append(x, v), <<>>, k)
<1>0. Len(g) \in Nat /\ Len(x) \in Nat /\ Len(y) \in Nat
  OBVIOUS
<1>1. ASSUME NEW s \in Seq(Nat), Sorted(s), \A i \in 1..Len(s) : s[i] < v
      PROVE  Sorted(Append(s, v))
  <2> DEFINE h == Append(s, v)
  <2>1. /\ h \in Seq(Nat) /\ Len(h) = Len(s) + 1 /\ h[Len(s) + 1] = v
        /\ \A i \in 1..Len(s) : h[i] = s[i]
    BY AppendPlaces
  <2>2. Len(s) \in Nat
    OBVIOUS
  <2> HIDE DEF h
  <2>3. ASSUME NEW i \in 1..Len(h), NEW j \in 1..Len(h), i < j PROVE h[i] < h[j]
    <3>1. i \in 1..Len(s) /\ (j \in 1..Len(s) \/ j = Len(s) + 1)
      BY <2>1, <2>2, <2>3, LastPlace
    <3>2. CASE j \in 1..Len(s)
      BY <1>1, <2>1, <2>3, <3>1, <3>2 DEF Sorted
    <3>3. CASE j = Len(s) + 1
      BY <1>1, <2>1, <3>1, <3>3
    <3> QED BY <3>1, <3>2, <3>3
  <2>4. Sorted(h)
    BY <2>3 DEF Sorted
  <2> QED BY <2>4 DEF h
<1>2. ASSUME NEW r \in Seq(Nat), NEW s \in Seq(Nat), Below(r, s),
             \A i \in 1..Len(r) : r[i] < v
      PROVE  Below(r, Append(s, v))
  <2> DEFINE h == Append(s, v)
  <2>1. /\ Len(h) = Len(s) + 1 /\ h[Len(s) + 1] = v
        /\ \A i \in 1..Len(s) : h[i] = s[i]
    BY AppendPlaces
  <2>2. Len(s) \in Nat
    OBVIOUS
  <2> HIDE DEF h
  <2>3. ASSUME NEW i \in 1..Len(r), NEW j \in 1..Len(h) PROVE r[i] < h[j]
    <3>1. j \in 1..Len(s) \/ j = Len(s) + 1
      BY <2>1, <2>2, LastPlace
    <3>2. CASE j \in 1..Len(s)
      BY <1>2, <2>1, <3>2 DEF Below
    <3>3. CASE j = Len(s) + 1
      BY <1>2, <2>1, <3>3
    <3> QED BY <3>1, <3>2, <3>3
  <2>4. Below(r, h)
    BY <2>3 DEF Below
  <2> QED BY <2>4 DEF h
<1>3. ASSUME NEW s \in Seq(Nat), Bounded(s, n) PROVE Bounded(s, k) /\ Bounded(Append(s, v), k)
  <2> DEFINE h == Append(s, v)
  <2>1. /\ Len(h) = Len(s) + 1 /\ h[Len(s) + 1] = v
        /\ \A i \in 1..Len(s) : h[i] = s[i] /\ s[i] \in Nat
    BY AppendPlaces
  <2>2. Len(s) \in Nat
    OBVIOUS
  <2> HIDE DEF h
  <2>3. \A i \in 1..Len(s) : s[i] <= k
    BY <1>3, <2>1 DEF Bounded
  <2>4. ASSUME NEW j \in 1..Len(h) PROVE h[j] <= k
    <3>1. j \in 1..Len(s) \/ j = Len(s) + 1
      BY <2>1, <2>2, LastPlace
    <3> QED BY <2>1, <2>3, <3>1
  <2>5. Bounded(s, k) /\ Bounded(h, k)
    BY <2>3, <2>4 DEF Bounded
  <2> QED BY <2>5 DEF h
<1>4. Ordered(g, x, Append(y, v), k)
  BY <1>1, <1>2, <1>3 DEF Ordered
<1>5. ASSUME y = <<>> PROVE Ordered(g, Append(x, v), <<>>, k)
  <2>1. Sorted(Append(x, v)) /\ Below(g, Append(x, v)) /\ Bounded(Append(x, v), k)
        /\ Sorted(g) /\ Bounded(g, k)
    BY <1>1, <1>2, <1>3 DEF Ordered
  <2>2. Len(<<>>) = 0 /\ 1..0 = {}
    OBVIOUS
  <2>3. \A s : Below(s, <<>>) /\ Sorted(<<>>) /\ Bounded(<<>>, k)
    BY <2>2 DEF Below, Sorted, Bounded
  <2> QED BY <2>1, <2>3 DEF Ordered
<1> QED BY <1>4, <1>5

\* The next item of the old pipe goes to the end of the new one.
LEMMA OrderedDrain ==
  ASSUME NEW g \in Seq(Nat), NEW x \in Seq(Nat), NEW y \in Seq(Nat), NEW n \in Nat,
         Ordered(g, x, y, n), y # <<>>
  PROVE  Ordered(g, Append(x, Head(y)), Tail(y), n) /\ Ordered(g, x, Tail(y), n)
<1> DEFINE h == Append(x, Head(y))
           t == Tail(y)
<1>1. /\ t \in Seq(Nat) /\ Len(t) = Len(y) - 1 /\ Len(y) >= 1 /\ Head(y) = y[1]
      /\ Head(y) \in Nat /\ \A i \in 1..Len(t) : t[i] = y[i + 1] /\ i + 1 \in 1..Len(y)
  BY TailPlaces
<1>2. /\ h \in Seq(Nat) /\ Len(h) = Len(x) + 1
      /\ \A i \in 1..Len(x) : h[i] = x[i]
      /\ h[Len(x) + 1] = y[1]
  BY <1>1, AppendPlaces
<1>3. Ordered(x, y, <<>>, n)
  <2>1. Len(<<>>) = 0 /\ 1..0 = {}
    OBVIOUS
  <2> QED BY <2>1 DEF Ordered, Sorted, Below, Bounded
<1>4. Ordered(h, t, <<>>, n)
  BY <1>3, OrderedRead, NoItems
<1>5. Len(x) \in Nat /\ Len(y) \in Nat
  OBVIOUS
<1> HIDE DEF h, t
<1>6. Below(g, t) /\ Below(x, t)
  BY <1>1 DEF Ordered, Below
<1>7. 1 \in 1..Len(y)
  BY <1>1, <1>5
<1>8. Below(g, h)
  <2> SUFFICES ASSUME NEW i \in 1..Len(g), NEW j \in 1..Len(h) PROVE g[i] < h[j]
    BY DEF Below
  <2>1. j \in 1..Len(x) \/ j = Len(x) + 1
    BY <1>2, <1>5, LastPlace
  <2>2. CASE j \in 1..Len(x)
    BY <1>2, <2>2 DEF Ordered, Below
  <2>3. CASE j = Len(x) + 1
    BY <1>2, <1>7, <2>3 DEF Ordered, Below
  <2> QED BY <2>1, <2>2, <2>3
<1>9. Ordered(g, h, t, n) /\ Ordered(g, x, t, n)
  BY <1>4, <1>6, <1>8 DEF Ordered
<1> QED BY <1>9 DEF h, t

\* The reader loses its buffer.
LEMMA OrderedDiscard ==
  ASSUME NEW g \in Seq(Nat), NEW b \in Seq(Nat), NEW x \in Seq(Nat),
         NEW y \in Seq(Nat), NEW n \in Nat, Ordered(g, b \o x, y, n)
  PROVE  Ordered(g, x, y, n)
<1> DEFINE c == b \o x
<1>1. /\ c \in Seq(Nat) /\ Len(c) = Len(b) + Len(x)
      /\ \A i \in 1..Len(x) : c[Len(b) + i] = x[i]
  BY ConcatPlaces
<1>2. Len(b) \in Nat /\ Len(x) \in Nat /\ Ordered(g, c, y, n)
  OBVIOUS
<1> HIDE DEF c
<1>3. \A i \in 1..Len(x) : Len(b) + i \in 1..Len(c)
  BY <1>1, <1>2
<1>4. \A i, j \in 1..Len(x) : i < j => Len(b) + i < Len(b) + j
  BY <1>2
<1>5. Sorted(x)
  <2> SUFFICES ASSUME NEW i \in 1..Len(x), NEW j \in 1..Len(x), i < j PROVE x[i] < x[j]
    BY DEF Sorted
  <2>1. c[Len(b) + i] < c[Len(b) + j]
    BY <1>2, <1>3, <1>4 DEF Ordered, Sorted
  <2> QED BY <1>1, <2>1
<1>6. Below(g, x)
  <2> SUFFICES ASSUME NEW i \in 1..Len(g), NEW j \in 1..Len(x) PROVE g[i] < x[j]
    BY DEF Below
  <2>1. g[i] < c[Len(b) + j]
    BY <1>2, <1>3 DEF Ordered, Below
  <2> QED BY <1>1, <2>1
<1>7. Below(x, y)
  <2> SUFFICES ASSUME NEW i \in 1..Len(x), NEW j \in 1..Len(y) PROVE x[i] < y[j]
    BY DEF Below
  <2>1. c[Len(b) + i] < y[j]
    BY <1>2, <1>3 DEF Ordered, Below
  <2> QED BY <1>1, <2>1
<1>8. Bounded(x, n)
  <2> SUFFICES ASSUME NEW i \in 1..Len(x) PROVE x[i] <= n
    BY DEF Bounded
  <2>1. c[Len(b) + i] <= n
    BY <1>2, <1>3 DEF Ordered, Bounded
  <2> QED BY <1>1, <2>1
<1> QED BY <1>2, <1>5, <1>6, <1>7, <1>8 DEF Ordered

-----------------------------------------------------------------------------
(***************************************************************************)
(* What a reader still has to deliver: its buffer, then its pipe.          *)
(***************************************************************************)
DataType == [1..MaxPipes -> Seq(Nat)]
Str(d, r) == r.buf \o (IF r.pipe = NoPipe THEN <<>> ELSE d[r.pipe])

LEMMA PipeIdsFact ==
  /\ MaxPipes \in Nat /\ NoPipe \in PipeIds
  /\ \A p : p \in PipeIds <=> p = NoPipe \/ p \in 1..MaxPipes
  /\ NoPipe \notin 1..MaxPipes
  BY SizesAssumption DEF PipeIds, NoPipe

LEMMA ReaderParts ==
  /\ \A r \in ReaderType : r.pipe \in PipeIds /\ r.buf \in Seq(Nat)
                           /\ r = Reader(r.pipe, r.buf)
  /\ \A p \in PipeIds, b \in Seq(Nat) :
       Reader(p, b) \in ReaderType /\ Reader(p, b).pipe = p /\ Reader(p, b).buf = b
  /\ NoReader \in ReaderType /\ NoReader.pipe = NoPipe /\ NoReader.buf = <<>>
<1>1. \A r \in ReaderType : r.pipe \in PipeIds /\ r.buf \in Seq(Nat)
                           /\ r = Reader(r.pipe, r.buf)
  BY DEF ReaderType, Reader
<1>2. \A p \in PipeIds, b \in Seq(Nat) :
       Reader(p, b) \in ReaderType /\ Reader(p, b).pipe = p /\ Reader(p, b).buf = b
  BY DEF ReaderType, Reader
<1>3. NoPipe \in PipeIds /\ <<>> \in Seq(Nat)
  BY PipeIdsFact
<1> QED BY <1>1, <1>2, <1>3 DEF NoReader

LEMMA StrType ==
  ASSUME NEW d \in DataType, NEW r \in ReaderType
  PROVE  /\ Str(d, r) \in Seq(Nat)
         /\ r.pipe # NoPipe => r.pipe \in 1..MaxPipes /\ d[r.pipe] \in Seq(Nat)
                               /\ Str(d, r) = r.buf \o d[r.pipe]
<1>1. r.pipe \in PipeIds /\ r.buf \in Seq(Nat)
  BY ReaderParts
<1>2. CASE r.pipe = NoPipe
  <2>1. Str(d, r) = r.buf \o <<>>
    BY <1>2 DEF Str
  <2>2. r.buf \o <<>> \in Seq(Nat)
    BY <1>1, NoItems, ConcatPlaces
  <2> QED BY <1>2, <2>1, <2>2
<1>3. CASE r.pipe # NoPipe
  <2>1. r.pipe \in 1..MaxPipes
    BY <1>1, <1>3, PipeIdsFact
  <2>2. d[r.pipe] \in Seq(Nat)
    BY <2>1 DEF DataType
  <2>3. Str(d, r) = r.buf \o d[r.pipe]
    BY <1>3 DEF Str
  <2>4. r.buf \o d[r.pipe] \in Seq(Nat)
    BY <1>1, <2>2, ConcatPlaces
  <2> QED BY <2>1, <2>2, <2>3, <2>4
<1> QED BY <1>2, <1>3

LEMMA EmptyConcat ==
  ASSUME NEW s \in Seq(Nat)
  PROVE  <<>> \o s = s /\ s \o <<>> = s
  OBVIOUS

LEMMA ConcatAppend ==
  ASSUME NEW s \in Seq(Nat), NEW t \in Seq(Nat), NEW v \in Nat
  PROVE  s \o Append(t, v) = Append(s \o t, v)
<1> DEFINE l == s \o Append(t, v)
           r == Append(s \o t, v)
<1>0. Len(s) \in Nat /\ Len(t) \in Nat
  OBVIOUS
<1>1. /\ Append(t, v) \in Seq(Nat) /\ Len(Append(t, v)) = Len(t) + 1
      /\ \A i \in 1..Len(t) : Append(t, v)[i] = t[i]
      /\ Append(t, v)[Len(t) + 1] = v
  BY AppendPlaces
<1>2. /\ l \in Seq(Nat) /\ Len(l) = Len(s) + Len(Append(t, v))
      /\ \A i \in 1..Len(s) : l[i] = s[i]
      /\ \A i \in 1..Len(Append(t, v)) : l[Len(s) + i] = Append(t, v)[i]
  BY <1>1, ConcatPlaces
<1>3. /\ s \o t \in Seq(Nat) /\ Len(s \o t) = Len(s) + Len(t)
      /\ \A i \in 1..Len(s) : (s \o t)[i] = s[i]
      /\ \A i \in 1..Len(t) : (s \o t)[Len(s) + i] = t[i]
  BY ConcatPlaces
<1>4. /\ r \in Seq(Nat) /\ Len(r) = Len(s \o t) + 1
      /\ \A i \in 1..Len(s \o t) : r[i] = (s \o t)[i]
      /\ r[Len(s \o t) + 1] = v
  BY <1>3, AppendPlaces
<1>5. Len(l) = Len(s) + Len(t) + 1 /\ Len(r) = Len(l)
  BY <1>0, <1>1, <1>2, <1>3, <1>4
<1> HIDE DEF l, r
<1>6. ASSUME NEW i \in 1..Len(l) PROVE l[i] = r[i]
  <2>1. i \in 1..Len(s) \/ (\E j \in 1..Len(t) : i = Len(s) + j) \/ i = Len(s) + (Len(t) + 1)
    <3>1. CASE i <= Len(s)
      BY <1>0, <3>1
    <3>2. CASE i > Len(s)
      <4>1. i - Len(s) \in 1..(Len(t) + 1) /\ i = Len(s) + (i - Len(s))
        BY <1>0, <1>5, <3>2
      <4> QED BY <1>0, <4>1, LastPlace
    <3> QED BY <1>0, <1>5, <3>1, <3>2
  <2>2. CASE i \in 1..Len(s)
    <3>1. i \in 1..Len(s \o t)
      BY <1>0, <1>3, <2>2
    <3> QED BY <1>2, <1>3, <1>4, <2>2, <3>1
  <2>3. CASE \E j \in 1..Len(t) : i = Len(s) + j
    <3>1. PICK j \in 1..Len(t) : i = Len(s) + j
      BY <2>3
    <3>2. i \in 1..Len(s \o t) /\ j \in 1..Len(Append(t, v))
      BY <1>0, <1>1, <1>3, <3>1
    <3>3. r[i] = t[j]
      BY <1>3, <1>4, <3>1, <3>2
    <3>4. l[i] = t[j]
      BY <1>1, <1>2, <3>1, <3>2
    <3> QED BY <3>3, <3>4
  <2>4. CASE i = Len(s) + (Len(t) + 1)
    <3>1. i = Len(s \o t) + 1 /\ Len(t) + 1 \in 1..Len(Append(t, v))
      BY <1>0, <1>1, <1>3, <2>4
    <3>2. r[i] = v
      BY <1>4, <3>1
    <3>3. l[i] = v
      BY <1>1, <1>2, <2>4, <3>1
    <3> QED BY <3>2, <3>3
  <2> QED BY <2>1, <2>2, <2>3, <2>4
<1>7. l = r
  BY <1>2, <1>4, <1>5, <1>6, SameSeq
<1> QED BY <1>7 DEF l, r

\* A write reaches the readers of that pipe and no others.
WriteFacts(d, e, p, v) ==
  /\ e \in DataType
  /\ \A q \in 1..MaxPipes : q # p => e[q] = d[q]
  /\ \A r \in ReaderType :
       /\ r.pipe = p => Str(e, r) = Append(Str(d, r), v)
       /\ r.pipe # p => Str(e, r) = Str(d, r)

LEMMA StrWrite ==
  ASSUME NEW d \in DataType, NEW p \in 1..MaxPipes, NEW v \in Nat
  PROVE  WriteFacts(d, [d EXCEPT ![p] = Append(@, v)], p, v)
<1> DEFINE e == [d EXCEPT ![p] = Append(@, v)]
<1>0. d[p] \in Seq(Nat) /\ Append(d[p], v) \in Seq(Nat)
  BY AppendPlaces DEF DataType
<1>1. e \in DataType /\ e[p] = Append(d[p], v) /\ \A q \in 1..MaxPipes : q # p => e[q] = d[q]
  BY <1>0 DEF DataType
<1> HIDE DEF e
<1>2. ASSUME NEW r \in ReaderType, r.pipe = p PROVE Str(e, r) = Append(Str(d, r), v)
  <2>1. r.buf \in Seq(Nat) /\ r.pipe # NoPipe
    BY <1>2, ReaderParts, PipeIdsFact
  <2>2. Str(e, r) = r.buf \o Append(d[p], v) /\ Str(d, r) = r.buf \o d[p]
    BY <1>1, <1>2, <2>1 DEF Str
  <2> QED BY <1>0, <2>1, <2>2, ConcatAppend
<1>3. ASSUME NEW r \in ReaderType, r.pipe # p PROVE Str(e, r) = Str(d, r)
  <2>1. CASE r.pipe = NoPipe
    BY <2>1 DEF Str
  <2>2. CASE r.pipe # NoPipe
    <3>1. e[r.pipe] = d[r.pipe]
      BY <1>1, <1>3, <2>2, StrType
    <3> QED BY <3>1 DEF Str
  <2> QED BY <2>1, <2>2
<1>4. WriteFacts(d, e, p, v)
  BY <1>1, <1>2, <1>3 DEF WriteFacts
<1> QED BY <1>4 DEF e

LEMMA ConcatTail ==
  ASSUME NEW s \in Seq(Nat), NEW t \in Seq(Nat), s # <<>>
  PROVE  /\ s \o t # <<>> /\ Head(s \o t) = Head(s)
         /\ Tail(s \o t) = Tail(s) \o t
<1> DEFINE c == s \o t
           l == Tail(s) \o t
<1>0. Len(s) \in Nat /\ Len(t) \in Nat
  OBVIOUS
<1>1. /\ c \in Seq(Nat) /\ Len(c) = Len(s) + Len(t)
      /\ \A i \in 1..Len(s) : c[i] = s[i]
      /\ \A i \in 1..Len(t) : c[Len(s) + i] = t[i]
  BY ConcatPlaces
<1>2. /\ Tail(s) \in Seq(Nat) /\ Len(Tail(s)) = Len(s) - 1 /\ Len(s) >= 1
      /\ Head(s) = s[1]
      /\ \A i \in 1..(Len(s) - 1) : Tail(s)[i] = s[i + 1] /\ i + 1 \in 1..Len(s)
  BY TailPlaces
<1>3. /\ l \in Seq(Nat) /\ Len(l) = Len(Tail(s)) + Len(t)
      /\ \A i \in 1..Len(Tail(s)) : l[i] = Tail(s)[i]
      /\ \A i \in 1..Len(t) : l[Len(Tail(s)) + i] = t[i]
  BY <1>2, ConcatPlaces
<1>4. c # <<>>
  BY <1>0, <1>1, <1>2
<1> HIDE DEF c, l
<1>5. /\ Tail(c) \in Seq(Nat) /\ Len(Tail(c)) = Len(c) - 1 /\ Head(c) = c[1]
      /\ \A i \in 1..(Len(c) - 1) : Tail(c)[i] = c[i + 1]
  BY <1>1, <1>4, TailPlaces
<1>6. Head(c) = Head(s)
  <2>1. 1 \in 1..Len(s)
    BY <1>0, <1>2
  <2> QED BY <1>1, <1>2, <1>5, <2>1
<1>7. Len(l) = Len(Tail(c))
  BY <1>0, <1>1, <1>2, <1>3, <1>5
<1>8. ASSUME NEW i \in 1..Len(l) PROVE l[i] = Tail(c)[i]
  <2>0. i \in 1..(Len(c) - 1)
    BY <1>5, <1>7
  <2>1. CASE i \in 1..(Len(s) - 1)
    BY <1>1, <1>2, <1>3, <1>5, <2>0, <2>1
  <2>2. CASE i \notin 1..(Len(s) - 1)
    <3> DEFINE j == i - (Len(s) - 1)
    <3>1. j \in 1..Len(t) /\ Len(Tail(s)) + j = i /\ Len(s) + j = i + 1
      BY <1>0, <1>1, <1>2, <2>0, <2>2
    <3> HIDE DEF j
    <3>2. l[i] = t[j]
      BY <1>3, <3>1
    <3>3. c[i + 1] = t[j]
      BY <1>1, <3>1
    <3> QED BY <1>5, <2>0, <3>2, <3>3
  <2> QED BY <2>1, <2>2
<1>9. l = Tail(c)
  BY <1>3, <1>5, <1>7, <1>8, SameSeq
<1> QED BY <1>4, <1>6, <1>9 DEF c, l

LEMMA SplitSeq ==
  ASSUME NEW s \in Seq(Nat), NEW m \in 0..Len(s)
  PROVE  /\ SubSeq(s, 1, m) \in Seq(Nat) /\ Len(SubSeq(s, 1, m)) = m
         /\ SubSeq(s, m + 1, Len(s)) \in Seq(Nat)
         /\ SubSeq(s, 1, m) \o SubSeq(s, m + 1, Len(s)) = s
<1> DEFINE f == SubSeq(s, 1, m)
           r == SubSeq(s, m + 1, Len(s))
<1>0. Len(s) \in Nat /\ m \in Nat /\ m <= Len(s)
  OBVIOUS
<1>1. /\ f \in Seq(Nat) /\ Len(f) = m /\ \A i \in 1..m : f[i] = s[i]
  <2>1. \A i \in 1..m : s[i] \in Nat
    BY <1>0
  <2> QED BY <1>0, <2>1
<1>2. /\ r \in Seq(Nat) /\ Len(r) = Len(s) - m
      /\ \A i \in 1..(Len(s) - m) : r[i] = s[m + i]
  <2>1. \A i \in (m + 1)..Len(s) : s[i] \in Nat
    BY <1>0
  <2>2. Len(r) = Len(s) - m
    BY <1>0
  <2> QED BY <1>0, <2>1, <2>2
<1>3. /\ f \o r \in Seq(Nat) /\ Len(f \o r) = Len(f) + Len(r)
      /\ \A i \in 1..Len(f) : (f \o r)[i] = f[i]
      /\ \A i \in 1..Len(r) : (f \o r)[Len(f) + i] = r[i]
  BY <1>1, <1>2, ConcatPlaces
<1> HIDE DEF f, r
<1>4. Len(f \o r) = Len(s)
  BY <1>0, <1>1, <1>2, <1>3
<1>5. ASSUME NEW i \in 1..Len(s) PROVE (f \o r)[i] = s[i]
  <2>1. CASE i \in 1..m
    BY <1>1, <1>3, <2>1
  <2>2. CASE i \notin 1..m
    <3> DEFINE j == i - m
    <3>1. j \in 1..(Len(s) - m) /\ m + j = i
      BY <1>0, <2>2
    <3> HIDE DEF j
    <3> QED BY <1>1, <1>2, <1>3, <3>1
  <2> QED BY <2>1, <2>2
<1>6. f \o r = s
  BY <1>3, <1>4, <1>5, SameSeq
<1> QED BY <1>1, <1>2, <1>6 DEF f, r

\* A read through a BufReader takes the first item its stream has.
ReadFacts(r) ==
  /\ Filled(r) \in Seq(Nat) /\ Tail(Filled(r)) \in Seq(Nat) /\ Head(Filled(r)) \in Nat
  /\ Unread(r) \in DataType
  /\ \A q \in 1..MaxPipes : q # r.pipe => Unread(r)[q] = data[q]
  /\ Str(data, r) # <<>> /\ Head(Filled(r)) = Head(Str(data, r))
  /\ Str(Unread(r), Reader(r.pipe, Tail(Filled(r)))) = Tail(Str(data, r))
  /\ Len(Unread(r)[r.pipe]) <= Len(data[r.pipe])

LEMMA StrRead ==
  ASSUME data \in DataType, NEW r \in ReaderType, r.pipe # NoPipe, Filled(r) # <<>>
  PROVE  ReadFacts(r)
<1> DEFINE p == r.pipe
           f == Filled(r)
           m == IF Len(data[p]) < BufCapacity THEN Len(data[p]) ELSE BufCapacity
<1>1. /\ p \in 1..MaxPipes /\ data[p] \in Seq(Nat) /\ r.buf \in Seq(Nat)
      /\ Str(data, r) = r.buf \o data[p] /\ p \in PipeIds /\ p # NoPipe
  BY StrType, ReaderParts
<1>2. ASSUME NEW e \in DataType, f \in Seq(Nat), Str(data, r) = f \o e[p], Unread(r) = e,
             \A q \in 1..MaxPipes : q # p => e[q] = data[q], Len(e[p]) <= Len(data[p])
      PROVE  ReadFacts(r)
  <2>1. e[p] \in Seq(Nat) /\ f # <<>>
    BY <1>1 DEF DataType
  <2>2. /\ f \o e[p] # <<>> /\ Head(f \o e[p]) = Head(f)
        /\ Tail(f \o e[p]) = Tail(f) \o e[p]
    BY <1>2, <2>1, ConcatTail
  <2>3. Tail(f) \in Seq(Nat) /\ Head(f) \in Nat
    BY <1>2, <2>1, TailPlaces
  <2> HIDE DEF f, p
  <2>4. Reader(p, Tail(f)).buf = Tail(f) /\ Reader(p, Tail(f)).pipe = p
    BY <1>1, <2>3, ReaderParts
  <2>5. Str(e, Reader(p, Tail(f))) = Tail(f) \o e[p]
    BY <1>1, <2>4 DEF Str
  <2>6. f \in Seq(Nat)
    BY <1>2
  <2>7. Filled(r) = f /\ r.pipe = p
    BY DEF f, p
  <2> QED BY <1>2, <2>2, <2>3, <2>5, <2>6, <2>7 DEF ReadFacts
<1>3. CASE r.buf # <<>>
  <2>1. f = r.buf /\ Unread(r) = data
    BY <1>3 DEF Filled, Unread
  <2>2. Len(data[p]) <= Len(data[p])
    BY <1>1
  <2> QED BY <1>1, <1>2, <2>1, <2>2
<1>4. CASE r.buf = <<>>
  <2>1. f = SubSeq(data[p], 1, m)
    BY <1>4 DEF Filled
  <2>2. m \in 0..Len(data[p]) /\ Len(data[p]) \in Nat
    BY <1>1, SizesAssumption
  <2>3. /\ f \in Seq(Nat) /\ Len(f) = m
        /\ SubSeq(data[p], m + 1, Len(data[p])) \in Seq(Nat)
        /\ f \o SubSeq(data[p], m + 1, Len(data[p])) = data[p]
    <3> HIDE DEF m, p, f
    <3>1. data[p] \in Seq(Nat) /\ m \in 0..Len(data[p])
      BY <1>1, <2>2
    <3> QED BY <2>1, <3>1, SplitSeq
  <2> DEFINE e == [data EXCEPT ![p] = SubSeq(@, m + 1, Len(@))]
  <2>4. Unread(r) = e
    <3>1. Unread(r) = [data EXCEPT ![r.pipe] = SubSeq(@, Len(f) + 1, Len(@))]
      BY <1>4 DEF Unread
    <3> QED BY <2>3, <3>1
  <2>5. /\ e \in DataType /\ e[p] = SubSeq(data[p], m + 1, Len(data[p]))
        /\ \A q \in 1..MaxPipes : q # p => e[q] = data[q]
    <3> HIDE DEF m
    <3> QED BY <1>1, <2>3 DEF DataType
  <2>6. Str(data, r) = f \o e[p]
    <3>1. Str(data, r) = data[p]
      BY <1>1, <1>4, EmptyConcat
    <3> QED BY <2>3, <2>5, <3>1
  <2>7. Len(e[p]) <= Len(data[p])
    <3> DEFINE t == SubSeq(data[p], m + 1, Len(data[p]))
    <3>1. Len(f \o t) = Len(f) + Len(t) /\ Len(f) \in Nat /\ Len(t) \in Nat
      BY <2>3, ConcatPlaces
    <3>2. Len(f \o t) = Len(data[p]) /\ e[p] = t
      BY <2>3, <2>5
    <3> HIDE DEF t, e, f, p
    <3> QED BY <3>1, <3>2, <2>2
  <2> HIDE DEF e, f, p, m
  <2> QED BY <1>2, <2>3, <2>4, <2>5, <2>6, <2>7
<1> QED BY <1>3, <1>4

-----------------------------------------------------------------------------
(***************************************************************************)
(* The view: m the reader the downstream side reads from, o the old reader *)
(* that is drained into the pipe w, W the pipes new items can be written   *)
(* to, P the stale values on their way, F the pipes opened but not yet in  *)
(* use, b the value in the slot, d the pipes, k how many there are, n the  *)
(* items sent, g the items received.                                       *)
(***************************************************************************)
PendingType == [pipe : 1..MaxPipes, item : Nat]

ViewTyped(m, o, w, W, P, F, b, d, k, n, g) ==
  /\ m \in ReaderType /\ o \in ReaderType /\ w \in PipeIds
  /\ W \subseteq 1..MaxPipes /\ P \subseteq PendingType /\ F \subseteq 1..MaxPipes
  /\ b \in Nat /\ d \in DataType /\ k \in PipeIds /\ n \in Nat /\ g \in Seq(Nat)
  /\ m.pipe = NoPipe => Str(d, m) = <<>>
  /\ o.pipe = NoPipe => Str(d, o) = <<>>

\* The pipes that can still deliver.
Live(m, o) == {m.pipe, o.pipe} \ {NoPipe}

\* A value in the slot is the only thing on its way.
SlotOK(m, o, b, n, g) ==
  b # 0 => /\ m.pipe = NoPipe /\ o.pipe = NoPipe
           /\ b <= n /\ \A i \in 1..Len(g) : g[i] < b

\* A stale value is alone with the pipe it goes to: nobody else writes to that
\* pipe before it, and if it can still arrive it is the next to arrive.
PendingOK(m, o, w, W, P, d, n, g) ==
  \A t \in P :
    /\ t.pipe \notin W /\ t.pipe # w
    /\ \A u \in P : u.pipe = t.pipe => u = t
    /\ t.pipe \in Live(m, o) =>
         /\ Str(d, m) = <<>> /\ Str(d, o) = <<>>
         /\ t.item <= n /\ \A i \in 1..Len(g) : g[i] < t.item

\* A new item goes behind everything that can still arrive.
WritersOK(m, o, W, P) ==
  \A p \in W : p \in Live(m, o) =>
    /\ \A t \in P : t.pipe \notin Live(m, o)
    /\ p = m.pipe => o.pipe = NoPipe

\* An old pipe is drained into the pipe that is read from, by its only writer.
DrainOK(m, o, w, W) ==
  /\ o.pipe # NoPipe => w # NoPipe /\ w # o.pipe /\ m.pipe \in {NoPipe, w}
  /\ o.pipe = NoPipe => w = NoPipe
  /\ w \notin W

\* Nobody has touched a pipe that is not in use yet.
FreshOK(m, o, w, W, P, F, d, k) ==
  /\ \A p \in F : p <= k
  /\ \A p \in 1..MaxPipes : p \in F \/ p > k =>
       /\ d[p] = <<>>
       /\ p \notin W /\ p # w /\ p # m.pipe /\ p # o.pipe
       /\ \A t \in P : t.pipe # p

Core(m, o, w, W, P, F, b, d, k, n, g) ==
  /\ ViewTyped(m, o, w, W, P, F, b, d, k, n, g)
  /\ Ordered(g, Str(d, m), Str(d, o), n)
  /\ SlotOK(m, o, b, n, g)
  /\ PendingOK(m, o, w, W, P, d, n, g)
  /\ WritersOK(m, o, W, P)
  /\ DrainOK(m, o, w, W)
  /\ FreshOK(m, o, w, W, P, F, d, k)

LEMMA StrOfEmpty ==
  ASSUME NEW d \in DataType
  PROVE  /\ Str(d, NoReader) = <<>>
         /\ \A p \in 1..MaxPipes : Str(d, Reader(p, <<>>)) = d[p]
         /\ \A p \in PipeIds : p # NoPipe => p \in 1..MaxPipes
<1>1. Str(d, NoReader) = <<>>
  BY ReaderParts, EmptyConcat, NoItems DEF Str
<1>2. ASSUME NEW p \in 1..MaxPipes PROVE Str(d, Reader(p, <<>>)) = d[p]
  <2>1. Reader(p, <<>>).pipe = p /\ Reader(p, <<>>).buf = <<>> /\ p # NoPipe
    BY ReaderParts, PipeIdsFact, NoItems
  <2>2. d[p] \in Seq(Nat)
    BY DEF DataType
  <2> QED BY <2>1, <2>2, EmptyConcat DEF Str
<1> QED BY <1>1, <1>2, PipeIdsFact

\* What Core says of the types.
CoreTypes(m, o, w, W, P, F, b, d, k, n, g) ==
  /\ m \in ReaderType /\ o \in ReaderType /\ w \in PipeIds
  /\ m.pipe \in PipeIds /\ o.pipe \in PipeIds
  /\ W \subseteq 1..MaxPipes /\ P \subseteq PendingType /\ F \subseteq 1..MaxPipes
  /\ b \in Nat /\ d \in DataType /\ k \in PipeIds /\ n \in Nat /\ g \in Seq(Nat)
  /\ Str(d, m) \in Seq(Nat) /\ Str(d, o) \in Seq(Nat)
  /\ m.pipe = NoPipe => Str(d, m) = <<>>
  /\ o.pipe = NoPipe => Str(d, o) = <<>>
  /\ \A t \in P : t.pipe \in 1..MaxPipes /\ t.item \in Nat
  /\ NoPipe \notin W /\ NoPipe \notin F /\ \A t \in P : t.pipe # NoPipe

LEMMA CoreTyped ==
  ASSUME NEW m, NEW o, NEW w, NEW W, NEW P, NEW F, NEW b, NEW d, NEW k, NEW n, NEW g,
         Core(m, o, w, W, P, F, b, d, k, n, g)
  PROVE  CoreTypes(m, o, w, W, P, F, b, d, k, n, g)
<1>1. /\ m \in ReaderType /\ o \in ReaderType /\ w \in PipeIds
      /\ W \subseteq 1..MaxPipes /\ P \subseteq PendingType /\ F \subseteq 1..MaxPipes
      /\ b \in Nat /\ d \in DataType /\ k \in PipeIds /\ n \in Nat /\ g \in Seq(Nat)
      /\ m.pipe = NoPipe => Str(d, m) = <<>>
      /\ o.pipe = NoPipe => Str(d, o) = <<>>
  BY DEF Core, ViewTyped
<1>2. Str(d, m) \in Seq(Nat) /\ Str(d, o) \in Seq(Nat)
  BY <1>1, StrType
<1>3. m.pipe \in PipeIds /\ o.pipe \in PipeIds
  BY <1>1, ReaderParts
<1>4. \A t \in P : t.pipe \in 1..MaxPipes /\ t.item \in Nat
  BY <1>1 DEF PendingType
<1>5. NoPipe \notin W /\ NoPipe \notin F /\ \A t \in P : t.pipe # NoPipe
  BY <1>1, <1>4, PipeIdsFact
<1> QED BY <1>1, <1>2, <1>3, <1>4, <1>5 DEF CoreTypes

\* Handles are dropped, and nothing else happens.
LEMMA MoveShrink ==
  ASSUME NEW m, NEW o, NEW w, NEW W, NEW P, NEW F, NEW b, NEW d, NEW k, NEW n, NEW g,
         Core(m, o, w, W, P, F, b, d, k, n, g),
         NEW m1, NEW o1, NEW w1, NEW W1, NEW P1, NEW F1, NEW b1,
         \/ m1 = m \/ m1 = Reader(m.pipe, <<>>) \/ m1 = NoReader,
         \/ o1 = o /\ w1 = w
         \/ o1 = NoReader /\ w1 = NoPipe,
         W1 \subseteq W, P1 \subseteq P, F1 \subseteq F, b1 = b \/ b1 = 0
  PROVE  Core(m1, o1, w1, W1, P1, F1, b1, d, k, n, g)
<1>1. ViewTyped(m, o, w, W, P, F, b, d, k, n, g)
  BY DEF Core
<1>2. /\ m \in ReaderType /\ o \in ReaderType /\ d \in DataType /\ g \in Seq(Nat) /\ n \in Nat
      /\ Str(d, m) \in Seq(Nat) /\ Str(d, o) \in Seq(Nat)
  BY CoreTyped DEF CoreTypes
<1>3. /\ m1 \in ReaderType /\ m1.pipe \in {m.pipe, NoPipe}
      /\ (m1.pipe = NoPipe => Str(d, m1) = <<>>)
      /\ Ordered(g, Str(d, m1), Str(d, o), n)
      /\ (Str(d, m) = <<>> => Str(d, m1) = <<>>)
  <2>1. CASE m1 = m
    BY <1>1, <1>2, <2>1 DEF Core, ViewTyped
  <2>2. CASE m1 = NoReader
    <3>1. Str(d, m1) = <<>> /\ m1 \in ReaderType /\ m1.pipe = NoPipe
      BY <1>2, <2>2, StrOfEmpty, ReaderParts
    <3> QED BY <1>2, <3>1, OrderedParts DEF Core
  <2>3. CASE m1 = Reader(m.pipe, <<>>) /\ m.pipe = NoPipe
    <3>1. m1 = NoReader
      BY <2>3 DEF NoReader
    <3> QED BY <2>2, <3>1
  <2>4. CASE m1 = Reader(m.pipe, <<>>) /\ m.pipe # NoPipe
    <3>1. /\ m.pipe \in 1..MaxPipes /\ d[m.pipe] \in Seq(Nat) /\ m.pipe \in PipeIds
          /\ Str(d, m) = m.buf \o d[m.pipe] /\ m.buf \in Seq(Nat)
      BY <1>2, <2>4, StrType, ReaderParts
    <3>2. Str(d, m1) = d[m.pipe]
      BY <1>2, <2>4, <3>1, StrOfEmpty
    <3>3. m1 \in ReaderType /\ m1.pipe = m.pipe
      BY <2>4, <3>1, ReaderParts, NoItems
    <3>4. Ordered(g, d[m.pipe], Str(d, o), n)
      <4>1. Ordered(g, m.buf \o d[m.pipe], Str(d, o), n)
        BY <3>1 DEF Core
      <4> QED BY <1>2, <3>1, <4>1, OrderedDiscard
    <3>5. m.buf \o d[m.pipe] = <<>> => d[m.pipe] = <<>>
      BY <3>1, ConcatPlaces
    <3> QED BY <2>4, <3>1, <3>2, <3>3, <3>4, <3>5
  <2> QED BY <2>1, <2>2, <2>3, <2>4
<1>4. /\ o1 \in ReaderType /\ o1.pipe \in {o.pipe, NoPipe}
      /\ (o1.pipe = NoPipe => Str(d, o1) = <<>>)
      /\ Ordered(g, Str(d, m1), Str(d, o1), n)
      /\ (Str(d, o) = <<>> => Str(d, o1) = <<>>)
  <2>0. Str(d, m1) \in Seq(Nat)
    BY <1>2, <1>3, StrType
  <2>1. CASE o1 = o
    BY <1>1, <1>2, <1>3, <2>1 DEF ViewTyped
  <2>2. CASE o1 = NoReader
    <3>1. Str(d, o1) = <<>> /\ o1 \in ReaderType /\ o1.pipe = NoPipe
      BY <1>2, <2>2, StrOfEmpty, ReaderParts
    <3> QED BY <1>2, <1>3, <2>0, <3>1, OrderedParts
  <2> QED BY <2>1, <2>2
<1>5. ViewTyped(m1, o1, w1, W1, P1, F1, b1, d, k, n, g)
  <2>1. w1 \in PipeIds
    BY <1>1, PipeIdsFact DEF ViewTyped
  <2>2. b1 \in Nat
    BY <1>1 DEF ViewTyped
  <2>3. /\ W \subseteq 1..MaxPipes /\ P \subseteq PendingType /\ F \subseteq 1..MaxPipes
        /\ d \in DataType /\ k \in PipeIds /\ n \in Nat /\ g \in Seq(Nat)
    BY <1>1 DEF ViewTyped
  <2>4. W1 \subseteq 1..MaxPipes /\ P1 \subseteq PendingType /\ F1 \subseteq 1..MaxPipes
    BY <2>3
  <2> QED BY <1>3, <1>4, <2>1, <2>2, <2>3, <2>4 DEF ViewTyped
<1>6. SlotOK(m1, o1, b1, n, g)
  BY <1>3, <1>4 DEF Core, SlotOK
<1>7. Live(m1, o1) \subseteq Live(m, o)
  BY <1>3, <1>4 DEF Live
<1>8. PendingOK(m1, o1, w1, W1, P1, d, n, g)
  <2> SUFFICES ASSUME NEW t \in P1
               PROVE  /\ t.pipe \notin W1 /\ t.pipe # w1
                      /\ \A u \in P1 : u.pipe = t.pipe => u = t
                      /\ t.pipe \in Live(m1, o1) =>
                           /\ Str(d, m1) = <<>> /\ Str(d, o1) = <<>>
                           /\ t.item <= n /\ \A i \in 1..Len(g) : g[i] < t.item
    BY DEF PendingOK
  <2>1. t \in P /\ t.pipe \in 1..MaxPipes
    BY <1>1 DEF ViewTyped, PendingType
  <2>2. t.pipe # NoPipe
    BY <2>1, PipeIdsFact
  <2> QED BY <1>3, <1>4, <1>7, <2>1, <2>2 DEF Core, PendingOK
<1>9. WritersOK(m1, o1, W1, P1)
  <2> SUFFICES ASSUME NEW p \in W1, p \in Live(m1, o1)
               PROVE  /\ \A t \in P1 : t.pipe \notin Live(m1, o1)
                      /\ p = m1.pipe => o1.pipe = NoPipe
    BY DEF WritersOK
  <2>1. p \in W /\ p \in Live(m, o)
    BY <1>7
  <2>2. /\ \A t \in P : t.pipe \notin Live(m, o)
        /\ p = m.pipe => o.pipe = NoPipe
    BY <2>1 DEF Core, WritersOK
  <2>3. p # NoPipe
    BY DEF Live
  <2> QED BY <1>3, <1>4, <1>7, <2>2, <2>3
<1>10. DrainOK(m1, o1, w1, W1)
  <2>1. DrainOK(m, o, w, W)
    BY DEF Core
  <2>2. NoPipe \notin W
    BY <1>1, PipeIdsFact DEF ViewTyped
  <2>3. CASE o1 = o /\ w1 = w
    BY <1>3, <2>1, <2>3 DEF DrainOK
  <2>4. CASE o1 = NoReader /\ w1 = NoPipe
    BY <2>2, <2>4, ReaderParts DEF DrainOK
  <2> QED BY <2>3, <2>4
<1>11. FreshOK(m1, o1, w1, W1, P1, F1, d, k)
  <2>1. FreshOK(m, o, w, W, P, F, d, k)
    BY DEF Core
  <2> SUFFICES ASSUME NEW p \in 1..MaxPipes, p \in F1 \/ p > k
               PROVE  /\ d[p] = <<>>
                      /\ p \notin W1 /\ p # w1 /\ p # m1.pipe /\ p # o1.pipe
                      /\ \A t \in P1 : t.pipe # p
    BY <2>1 DEF FreshOK
  <2>2. /\ d[p] = <<>>
        /\ p \notin W /\ p # w /\ p # m.pipe /\ p # o.pipe
        /\ \A t \in P : t.pipe # p
    BY <2>1 DEF FreshOK
  <2>3. p # NoPipe
    BY PipeIdsFact
  <2> QED BY <1>3, <1>4, <2>2, <2>3
<1> QED BY <1>4, <1>5, <1>6, <1>8, <1>9, <1>10, <1>11 DEF Core

\* A pipe is opened.
LEMMA MoveOpen ==
  ASSUME NEW m, NEW o, NEW w, NEW W, NEW P, NEW F, NEW b, NEW d, NEW k, NEW n, NEW g,
         Core(m, o, w, W, P, F, b, d, k, n, g), k < MaxPipes
  PROVE  Core(m, o, w, W, P, F \cup {k + 1}, b, d, k + 1, n, g)
<1>1. CoreTypes(m, o, w, W, P, F, b, d, k, n, g)
  BY CoreTyped
<1>2. k \in Nat /\ k + 1 \in 1..MaxPipes /\ k + 1 \in PipeIds /\ k + 1 > k
  BY <1>1, PipeIdsFact DEF CoreTypes, PipeIds
<1>3. ViewTyped(m, o, w, W, P, F \cup {k + 1}, b, d, k + 1, n, g)
  BY <1>1, <1>2 DEF CoreTypes, ViewTyped
<1>4. FreshOK(m, o, w, W, P, F \cup {k + 1}, d, k + 1)
  <2>1. FreshOK(m, o, w, W, P, F, d, k)
    BY DEF Core
  <2>2. \A p \in F : p <= k + 1
    BY <1>1, <1>2, <2>1 DEF CoreTypes, FreshOK
  <2>3. \A p \in 1..MaxPipes : p > k + 1 => p > k
    BY <1>2
  <2> QED BY <1>2, <2>1, <2>2, <2>3 DEF FreshOK
<1> QED BY <1>3, <1>4 DEF Core

\* The next item of the stream is received.
LEMMA MoveRead ==
  ASSUME NEW m, NEW o, NEW w, NEW W, NEW P, NEW F, NEW b, NEW d, NEW k, NEW n, NEW g,
         Core(m, o, w, W, P, F, b, d, k, n, g), m.pipe # NoPipe, Str(d, m) # <<>>,
         NEW d1 \in DataType, NEW m1 \in ReaderType, m1.pipe = m.pipe,
         Str(d1, m1) = Tail(Str(d, m)),
         \A q \in 1..MaxPipes : q # m.pipe => d1[q] = d[q]
  PROVE  Core(m1, o, w, W, P, F, b, d1, k, n, Append(g, Head(Str(d, m))))
<1> DEFINE h == Append(g, Head(Str(d, m)))
<1>1. CoreTypes(m, o, w, W, P, F, b, d, k, n, g)
  BY CoreTyped
<1>2. DrainOK(m, o, w, W) /\ SlotOK(m, o, b, n, g)
  BY DEF Core
<1>3. o.pipe = NoPipe \/ o.pipe # m.pipe
  BY <1>2 DEF DrainOK
<1>4. Str(d1, o) = Str(d, o)
  <2>1. CASE o.pipe = NoPipe
    BY <2>1 DEF Str
  <2>2. CASE o.pipe # NoPipe
    <3>1. o.pipe \in 1..MaxPipes
      BY <1>1, <2>2, PipeIdsFact DEF CoreTypes
    <3> QED BY <1>3, <2>2, <3>1 DEF Str
  <2> QED BY <2>1, <2>2
<1>5. h \in Seq(Nat) /\ Ordered(h, Str(d1, m1), Str(d1, o), n)
  <2>1. Ordered(g, Str(d, m), Str(d, o), n)
    BY DEF Core
  <2>2. Head(Str(d, m)) \in Nat
    BY <1>1, TailPlaces DEF CoreTypes
  <2>3. h \in Seq(Nat)
    BY <1>1, <2>2, AppendPlaces DEF CoreTypes
  <2> QED BY <1>1, <1>4, <2>1, <2>3, OrderedRead DEF CoreTypes
<1> HIDE DEF h
<1>6. ViewTyped(m1, o, w, W, P, F, b, d1, k, n, h)
  <2>1. m1.pipe # NoPipe
    OBVIOUS
  <2> QED BY <1>1, <1>4, <1>5, <2>1 DEF CoreTypes, ViewTyped
<1>7. Live(m1, o) = Live(m, o)
  BY DEF Live
<1>8. SlotOK(m1, o, b, n, h)
  BY <1>2 DEF SlotOK
<1>9. PendingOK(m1, o, w, W, P, d1, n, h)
  BY <1>7 DEF Core, PendingOK
<1>10. WritersOK(m1, o, W, P)
  BY <1>7 DEF Core, WritersOK
<1>11. DrainOK(m1, o, w, W)
  BY <1>2 DEF DrainOK
<1>12. FreshOK(m1, o, w, W, P, F, d1, k)
  <2>1. FreshOK(m, o, w, W, P, F, d, k)
    BY DEF Core
  <2> QED BY <2>1 DEF FreshOK
<1>13. Core(m1, o, w, W, P, F, b, d1, k, n, h)
  BY <1>5, <1>6, <1>8, <1>9, <1>10, <1>11, <1>12 DEF Core
<1> QED BY <1>13 DEF h

\* A value is put into the slot.
LEMMA MovePut ==
  ASSUME NEW m, NEW o, NEW w, NEW W, NEW P, NEW F, NEW b, NEW d, NEW k, NEW n, NEW g,
         Core(m, o, w, W, P, F, b, d, k, n, g), m.pipe = NoPipe, o.pipe = NoPipe
  PROVE  Core(m, o, w, W, P, F, n + 1, d, k, n + 1, g)
<1>1. CoreTypes(m, o, w, W, P, F, b, d, k, n, g)
  BY CoreTyped
<1>2. n + 1 \in Nat /\ n <= n + 1 /\ n + 1 <= n + 1
  BY <1>1 DEF CoreTypes
<1>3. Ordered(g, Str(d, m), Str(d, o), n)
  BY DEF Core
<1>4. Ordered(g, Str(d, m), Str(d, o), n + 1)
  BY <1>1, <1>3, OrderedParts DEF CoreTypes
<1>5. ViewTyped(m, o, w, W, P, F, n + 1, d, k, n + 1, g)
  BY <1>1, <1>2 DEF CoreTypes, ViewTyped
<1>6. SlotOK(m, o, n + 1, n + 1, g)
  <2>1. \A i \in 1..Len(g) : g[i] < n + 1
    <3>1. \A i \in 1..Len(g) : g[i] \in Nat /\ g[i] <= n
      BY <1>1, <1>3 DEF CoreTypes, Ordered, Bounded
    <3> QED BY <1>1, <3>1 DEF CoreTypes
  <2> QED BY <1>2, <2>1 DEF SlotOK
<1>7. Live(m, o) = {}
  BY DEF Live
<1>8. PendingOK(m, o, w, W, P, d, n + 1, g)
  BY <1>7 DEF Core, PendingOK
<1> QED BY <1>4, <1>5, <1>6, <1>8 DEF Core

\* The value in the slot is received.
LEMMA MoveTake ==
  ASSUME NEW m, NEW o, NEW w, NEW W, NEW P, NEW F, NEW b, NEW d, NEW k, NEW n, NEW g,
         Core(m, o, w, W, P, F, b, d, k, n, g), b # 0
  PROVE  Core(m, o, w, W, P, F, 0, d, k, n, Append(g, b))
<1> DEFINE h == Append(g, b)
           x == Append(<<>>, b)
<1>1. CoreTypes(m, o, w, W, P, F, b, d, k, n, g)
  BY CoreTyped
<1>2. SlotOK(m, o, b, n, g)
  BY DEF Core
<1>3. /\ m.pipe = NoPipe /\ o.pipe = NoPipe /\ b <= n
      /\ Str(d, m) = <<>> /\ Str(d, o) = <<>>
      /\ \A i \in 1..Len(g) : g[i] < b
  BY <1>1, <1>2 DEF SlotOK, CoreTypes
<1>4. Ordered(g, <<>>, <<>>, n)
  BY <1>3 DEF Core
<1>5. Ordered(g, x, <<>>, n)
  <2>1. \A i \in 1..Len(<<>>) : <<>>[i] < b
    BY NoItems
  <2>2. n <= n /\ n \in Nat /\ g \in Seq(Nat) /\ b \in Nat
    BY <1>1 DEF CoreTypes
  <2> QED BY <1>3, <1>4, <2>1, <2>2, NoItems, OrderedTop
<1>6. x \in Seq(Nat) /\ x # <<>> /\ Head(x) = b /\ Tail(x) = <<>>
  <2>1. b \in Nat
    BY <1>1 DEF CoreTypes
  <2> QED BY <2>1
<1>7. h \in Seq(Nat)
  BY <1>1, AppendPlaces DEF CoreTypes
<1> HIDE DEF x
<1>8. Ordered(h, <<>>, <<>>, n)
  <2>1. Ordered(Append(g, Head(x)), Tail(x), <<>>, n)
    BY <1>1, <1>5, <1>6, NoItems, OrderedRead DEF CoreTypes
  <2> QED BY <1>6, <2>1
<1> HIDE DEF h
<1>9. ViewTyped(m, o, w, W, P, F, 0, d, k, n, h)
  BY <1>1, <1>7 DEF CoreTypes, ViewTyped
<1>10. SlotOK(m, o, 0, n, h)
  BY DEF SlotOK
<1>11. Live(m, o) = {}
  BY <1>3 DEF Live
<1>12. PendingOK(m, o, w, W, P, d, n, h)
  BY <1>11 DEF Core, PendingOK
<1>13. Ordered(h, Str(d, m), Str(d, o), n)
  BY <1>3, <1>8
<1>14. Core(m, o, w, W, P, F, 0, d, k, n, h)
  BY <1>9, <1>10, <1>12, <1>13 DEF Core
<1> QED BY <1>14 DEF h

\* A new item is written to a pipe that can be written.
LEMMA MoveWrite ==
  ASSUME NEW m, NEW o, NEW w, NEW W, NEW P, NEW F, NEW b, NEW d, NEW k, NEW n, NEW g,
         Core(m, o, w, W, P, F, b, d, k, n, g), NEW p \in W
  PROVE  Core(m, o, w, W, P, F, b, [d EXCEPT ![p] = Append(@, n + 1)], k, n + 1, g)
<1> DEFINE e == [d EXCEPT ![p] = Append(@, n + 1)]
<1>1. CoreTypes(m, o, w, W, P, F, b, d, k, n, g)
  BY CoreTyped
<1>2. p \in 1..MaxPipes /\ p # NoPipe /\ n + 1 \in Nat /\ n <= n + 1 /\ n + 1 <= n + 1
  BY <1>1, PipeIdsFact DEF CoreTypes
<1>3. /\ e \in DataType
      /\ \A q \in 1..MaxPipes : q # p => e[q] = d[q]
      /\ m.pipe = p => Str(e, m) = Append(Str(d, m), n + 1)
      /\ m.pipe # p => Str(e, m) = Str(d, m)
      /\ o.pipe = p => Str(e, o) = Append(Str(d, o), n + 1)
      /\ o.pipe # p => Str(e, o) = Str(d, o)
  <2>1. d \in DataType /\ m \in ReaderType /\ o \in ReaderType
    BY <1>1 DEF CoreTypes
  <2>2. WriteFacts(d, e, p, n + 1)
    BY <1>2, <2>1, StrWrite
  <2> HIDE DEF e
  <2> QED BY <2>1, <2>2 DEF WriteFacts
<1> HIDE DEF e
<1>4. /\ Ordered(g, Str(d, m), Str(d, o), n) /\ WritersOK(m, o, W, P)
      /\ DrainOK(m, o, w, W) /\ SlotOK(m, o, b, n, g)
  BY DEF Core
<1>5. ASSUME NEW s \in Seq(Nat), Bounded(s, n) PROVE \A i \in 1..Len(s) : s[i] < n + 1
  <2>1. \A i \in 1..Len(s) : s[i] \in Nat /\ s[i] <= n
    BY <1>5 DEF Bounded
  <2> QED BY <1>1, <2>1 DEF CoreTypes
<1>6. /\ \A i \in 1..Len(g) : g[i] < n + 1
      /\ \A i \in 1..Len(Str(d, m)) : Str(d, m)[i] < n + 1
      /\ \A i \in 1..Len(Str(d, o)) : Str(d, o)[i] < n + 1
  BY <1>1, <1>4, <1>5 DEF CoreTypes, Ordered
<1>7. /\ Ordered(g, Str(d, m), Append(Str(d, o), n + 1), n + 1)
      /\ Str(d, o) = <<>> => Ordered(g, Append(Str(d, m), n + 1), <<>>, n + 1)
      /\ Ordered(g, Str(d, m), Str(d, o), n + 1)
  BY <1>1, <1>2, <1>4, <1>6, OrderedTop, OrderedParts DEF CoreTypes
<1>8. Ordered(g, Str(e, m), Str(e, o), n + 1)
  <2>1. CASE m.pipe = p
    <3>1. o.pipe = NoPipe
      BY <1>2, <1>4, <2>1 DEF WritersOK, Live
    <3>2. Str(d, o) = <<>> /\ Str(e, o) = <<>>
      BY <1>1, <1>2, <1>3, <3>1 DEF CoreTypes
    <3> QED BY <1>3, <1>7, <2>1, <3>2
  <2>2. CASE m.pipe # p /\ o.pipe = p
    BY <1>3, <1>7, <2>2
  <2>3. CASE m.pipe # p /\ o.pipe # p
    BY <1>3, <1>7, <2>3
  <2> QED BY <2>1, <2>2, <2>3
<1>9. ViewTyped(m, o, w, W, P, F, b, e, k, n + 1, g)
  BY <1>1, <1>2, <1>3 DEF CoreTypes, ViewTyped
<1>10. SlotOK(m, o, b, n + 1, g)
  <2>1. b <= n => b <= n + 1
    BY <1>1 DEF CoreTypes
  <2> QED BY <1>4, <2>1 DEF SlotOK
<1>11. PendingOK(m, o, w, W, P, e, n + 1, g)
  <2> SUFFICES ASSUME NEW t \in P, t.pipe \in Live(m, o)
               PROVE  /\ Str(e, m) = <<>> /\ Str(e, o) = <<>>
                      /\ t.item <= n + 1 /\ \A i \in 1..Len(g) : g[i] < t.item
    BY DEF Core, PendingOK
  <2>1. p \notin Live(m, o)
    BY <1>4 DEF WritersOK
  <2>2. m.pipe # p /\ o.pipe # p
    BY <1>2, <2>1 DEF Live
  <2>3. /\ Str(d, m) = <<>> /\ Str(d, o) = <<>>
        /\ t.item <= n /\ \A i \in 1..Len(g) : g[i] < t.item
    BY DEF Core, PendingOK
  <2>4. t.item <= n + 1
    BY <1>1, <2>3 DEF CoreTypes
  <2> QED BY <1>3, <2>2, <2>3, <2>4
<1>12. FreshOK(m, o, w, W, P, F, e, k)
  <2>1. FreshOK(m, o, w, W, P, F, d, k)
    BY DEF Core
  <2> QED BY <1>3, <2>1 DEF FreshOK
<1>13. Core(m, o, w, W, P, F, b, e, k, n + 1, g)
  BY <1>4, <1>8, <1>9, <1>10, <1>11, <1>12 DEF Core
<1> QED BY <1>13 DEF e

\* At most one of the stale values can still arrive.
LEMMA OneLivePending ==
  ASSUME NEW m, NEW o, NEW w, NEW W, NEW P, NEW F, NEW b, NEW d, NEW k, NEW n, NEW g,
         Core(m, o, w, W, P, F, b, d, k, n, g), NEW t \in P, NEW u \in P, u # t,
         t.pipe \in Live(m, o)
  PROVE  u.pipe \notin Live(m, o) /\ (t.pipe = m.pipe => o.pipe = NoPipe)
<1>1. /\ t.pipe # w /\ u.pipe # w /\ u.pipe # t.pipe
  BY DEF Core, PendingOK
<1>2. /\ o.pipe # NoPipe => m.pipe \in {NoPipe, w}
  BY DEF Core, DrainOK
<1> QED BY <1>1, <1>2 DEF Live

\* A stale value leaves for its pipe, or is dropped, and the write end of that
\* pipe goes back to the channel.
LEMMA MovePending ==
  ASSUME NEW m, NEW o, NEW w, NEW W, NEW P, NEW F, NEW b, NEW d, NEW k, NEW n, NEW g,
         Core(m, o, w, W, P, F, b, d, k, n, g), NEW t \in P, NEW P1, P1 \subseteq P \ {t},
         NEW W1, W1 \subseteq W \cup {t.pipe}, NEW e,
         e = d \/ e = [d EXCEPT ![t.pipe] = Append(@, t.item)]
  PROVE  Core(m, o, w, W1, P1, F, b, e, k, n, g)
<1> DEFINE p == t.pipe
           v == t.item
<1>1. CoreTypes(m, o, w, W, P, F, b, d, k, n, g)
  BY CoreTyped
<1>2. p \in 1..MaxPipes /\ p # NoPipe /\ v \in Nat /\ n \in Nat /\ n <= n
  BY <1>1 DEF CoreTypes
<1>3. /\ Ordered(g, Str(d, m), Str(d, o), n) /\ WritersOK(m, o, W, P)
      /\ DrainOK(m, o, w, W) /\ SlotOK(m, o, b, n, g) /\ FreshOK(m, o, w, W, P, F, d, k)
  BY DEF Core
<1>4. /\ p \notin W /\ p # w
      /\ \A u \in P : u.pipe = p => u = t
      /\ p \in Live(m, o) =>
           /\ Str(d, m) = <<>> /\ Str(d, o) = <<>>
           /\ v <= n /\ \A i \in 1..Len(g) : g[i] < v
  BY DEF Core, PendingOK
<1>5. /\ e \in DataType
      /\ \A q \in 1..MaxPipes : q # p => e[q] = d[q]
      /\ \A r \in ReaderType : r.pipe # p => Str(e, r) = Str(d, r)
      /\ Ordered(g, Str(e, m), Str(e, o), n)
  <2>1. CASE e = d
    BY <1>1, <1>3, <2>1 DEF CoreTypes
  <2>2. CASE e # d
    <3>1. WriteFacts(d, e, p, v)
      BY <1>1, <1>2, <2>2, StrWrite DEF CoreTypes
    <3>2. /\ e \in DataType
          /\ \A q \in 1..MaxPipes : q # p => e[q] = d[q]
          /\ \A r \in ReaderType : r.pipe # p => Str(e, r) = Str(d, r)
      BY <3>1 DEF WriteFacts
    <3>3. ASSUME p \in Live(m, o)
          PROVE  /\ Ordered(g, <<>>, Append(<<>>, v), n)
                 /\ Ordered(g, Append(<<>>, v), <<>>, n)
      <4>1. \A i \in 1..Len(<<>>) : <<>>[i] < v
        BY NoItems
      <4>2. Ordered(g, <<>>, <<>>, n) /\ g \in Seq(Nat)
        BY <1>1, <1>3, <1>4, <3>3 DEF CoreTypes
      <4>3. v <= n /\ \A i \in 1..Len(g) : g[i] < v
        BY <1>4, <3>3
      <4> HIDE DEF v
      <4> QED BY <1>2, <4>1, <4>2, <4>3, NoItems, OrderedTop
    <3>4. CASE m.pipe = p
      <4>1. o.pipe # p
        BY <1>2, <1>3, <1>4, <3>4 DEF DrainOK
      <4>2. p \in Live(m, o)
        BY <1>2, <3>4 DEF Live
      <4>3. Str(e, o) = Str(d, o) /\ Str(e, m) = Append(Str(d, m), v)
        BY <1>1, <3>1, <3>4, <4>1 DEF CoreTypes, WriteFacts
      <4>4. Str(d, o) = <<>> /\ Str(d, m) = <<>>
        BY <1>4, <4>2
      <4>5. Ordered(g, Str(e, m), Str(e, o), n)
        BY <3>3, <4>2, <4>3, <4>4
      <4> QED BY <3>2, <4>5
    <3>5. CASE m.pipe # p /\ o.pipe = p
      <4>2. p \in Live(m, o)
        BY <1>2, <3>5 DEF Live
      <4>3. Str(e, m) = Str(d, m) /\ Str(e, o) = Append(Str(d, o), v)
        BY <1>1, <3>1, <3>5 DEF CoreTypes, WriteFacts
      <4>4. Str(d, o) = <<>> /\ Str(d, m) = <<>>
        BY <1>4, <4>2
      <4>5. Ordered(g, Str(e, m), Str(e, o), n)
        BY <3>3, <4>2, <4>3, <4>4
      <4> QED BY <3>2, <4>5
    <3>6. CASE m.pipe # p /\ o.pipe # p
      <4>1. Str(e, m) = Str(d, m) /\ Str(e, o) = Str(d, o)
        BY <1>1, <3>2, <3>6 DEF CoreTypes
      <4> QED BY <1>3, <3>2, <4>1
    <3> QED BY <3>4, <3>5, <3>6
  <2> QED BY <2>1, <2>2
<1>6. m.pipe = NoPipe => Str(e, m) = <<>>
  BY <1>1, <1>2, <1>5 DEF CoreTypes
<1>7. o.pipe = NoPipe => Str(e, o) = <<>>
  BY <1>1, <1>2, <1>5 DEF CoreTypes
<1>8. ViewTyped(m, o, w, W1, P1, F, b, e, k, n, g)
  <2>1. W1 \subseteq 1..MaxPipes /\ P1 \subseteq PendingType
    BY <1>1, <1>2 DEF CoreTypes
  <2> QED BY <1>1, <1>5, <1>6, <1>7, <2>1 DEF CoreTypes, ViewTyped
<1>9. PendingOK(m, o, w, W1, P1, e, n, g)
  <2> SUFFICES ASSUME NEW u \in P1
               PROVE  /\ u.pipe \notin W1 /\ u.pipe # w
                      /\ \A x \in P1 : x.pipe = u.pipe => x = u
                      /\ u.pipe \in Live(m, o) =>
                           /\ Str(e, m) = <<>> /\ Str(e, o) = <<>>
                           /\ u.item <= n /\ \A i \in 1..Len(g) : g[i] < u.item
    BY DEF PendingOK
  <2>1. u \in P /\ u # t
    OBVIOUS
  <2>2. /\ u.pipe \notin W /\ u.pipe # w
        /\ \A x \in P : x.pipe = u.pipe => x = u
        /\ u.pipe \in Live(m, o) =>
             /\ Str(d, m) = <<>> /\ Str(d, o) = <<>>
             /\ u.item <= n /\ \A i \in 1..Len(g) : g[i] < u.item
    BY <2>1 DEF Core, PendingOK
  <2>3. u.pipe # p
    BY <1>4, <2>1
  <2>4. ASSUME u.pipe \in Live(m, o) PROVE Str(e, m) = Str(d, m) /\ Str(e, o) = Str(d, o)
    <3>1. p \notin Live(m, o)
      BY <2>1, <2>4, OneLivePending
    <3>2. m.pipe # p /\ o.pipe # p
      BY <1>2, <3>1 DEF Live
    <3> QED BY <1>1, <1>5, <3>2 DEF CoreTypes
  <2> QED BY <2>2, <2>3, <2>4
<1>10. WritersOK(m, o, W1, P1)
  <2> SUFFICES ASSUME NEW q \in W1, q \in Live(m, o)
               PROVE  /\ \A u \in P1 : u.pipe \notin Live(m, o)
                      /\ q = m.pipe => o.pipe = NoPipe
    BY DEF WritersOK
  <2>1. CASE q \in W
    BY <1>3, <2>1 DEF WritersOK
  <2>2. CASE q = p
    <3>1. \A u \in P1 : u.pipe \notin Live(m, o)
      BY <2>2, OneLivePending
    <3>2. q = m.pipe => o.pipe = NoPipe
      BY <1>2, <1>3, <1>4, <2>2 DEF DrainOK
    <3> QED BY <3>1, <3>2
  <2> QED BY <2>1, <2>2
<1>11. DrainOK(m, o, w, W1)
  BY <1>3, <1>4 DEF DrainOK
<1>12. FreshOK(m, o, w, W1, P1, F, e, k)
  <2> SUFFICES ASSUME NEW q \in 1..MaxPipes, q \in F \/ q > k
               PROVE  /\ e[q] = <<>>
                      /\ q \notin W1 /\ q # w /\ q # m.pipe /\ q # o.pipe
                      /\ \A u \in P1 : u.pipe # q
    BY <1>3 DEF FreshOK
  <2>1. /\ d[q] = <<>>
        /\ q \notin W /\ q # w /\ q # m.pipe /\ q # o.pipe
        /\ \A u \in P : u.pipe # q
    BY <1>3 DEF FreshOK
  <2> QED BY <1>5, <2>1
<1> QED BY <1>3, <1>5, <1>8, <1>9, <1>10, <1>11, <1>12 DEF Core

\* A new pipe is put to use, and its write end is the channel's.
LEMMA MoveFresh ==
  ASSUME NEW m, NEW o, NEW w, NEW W, NEW P, NEW F, NEW b, NEW d, NEW k, NEW n, NEW g,
         Core(m, o, w, W, P, F, b, d, k, n, g), m.pipe = NoPipe, o.pipe = NoPipe,
         NEW p \in F, NEW F1, F1 \subseteq F \ {p}, NEW W1, NEW P1,
         \/ W1 = W \cup {p} /\ P1 = P
         \/ W1 = W /\ P1 = P \cup {[pipe |-> p, item |-> b]} /\ b # 0
  PROVE  Core(Reader(p, <<>>), o, w, W1, P1, F1, 0, d, k, n, g)
<1> DEFINE m1 == Reader(p, <<>>)
           t == [pipe |-> p, item |-> b]
<1>1. CoreTypes(m, o, w, W, P, F, b, d, k, n, g)
  BY CoreTyped
<1>2. /\ DrainOK(m, o, w, W) /\ SlotOK(m, o, b, n, g) /\ FreshOK(m, o, w, W, P, F, d, k)
      /\ Ordered(g, Str(d, m), Str(d, o), n)
  BY DEF Core
<1>3. p \in 1..MaxPipes /\ p # NoPipe /\ p \in PipeIds
  BY <1>1, PipeIdsFact DEF CoreTypes
<1>4. /\ d[p] = <<>> /\ p \notin W /\ p # w /\ p # o.pipe
      /\ \A u \in P : u.pipe # p
  BY <1>2, <1>3 DEF FreshOK
<1>5. m1 \in ReaderType /\ m1.pipe = p /\ Str(d, m1) = <<>> /\ w = NoPipe
  BY <1>1, <1>2, <1>3, <1>4, ReaderParts, StrOfEmpty, NoItems DEF CoreTypes, DrainOK
<1>6. t.pipe = p /\ t.item = b /\ t \in PendingType
  BY <1>1, <1>3 DEF CoreTypes, PendingType
<1>7. Str(d, o) = <<>> /\ Str(d, m) = <<>>
  BY <1>1 DEF CoreTypes
<1> HIDE DEF m1, t
<1>8. Live(m1, o) = {p}
  BY <1>3, <1>5 DEF Live
<1>9. ViewTyped(m1, o, w, W1, P1, F1, 0, d, k, n, g)
  <2>1. W1 \subseteq 1..MaxPipes /\ P1 \subseteq PendingType /\ F1 \subseteq 1..MaxPipes
    BY <1>1, <1>3, <1>6 DEF CoreTypes, t
  <2> QED BY <1>1, <1>5, <1>7, <2>1 DEF CoreTypes, ViewTyped
<1>10. Ordered(g, Str(d, m1), Str(d, o), n)
  BY <1>2, <1>5, <1>7
<1>11. PendingOK(m1, o, w, W1, P1, d, n, g)
  <2> SUFFICES ASSUME NEW u \in P1
               PROVE  /\ u.pipe \notin W1 /\ u.pipe # w
                      /\ \A x \in P1 : x.pipe = u.pipe => x = u
                      /\ u.pipe \in Live(m1, o) =>
                           /\ Str(d, m1) = <<>> /\ Str(d, o) = <<>>
                           /\ u.item <= n /\ \A i \in 1..Len(g) : g[i] < u.item
    BY DEF PendingOK
  <2>1. ASSUME NEW x \in P
        PROVE x.pipe \notin W /\ x.pipe # p /\ x.pipe # w /\ \A y \in P : y.pipe = x.pipe => y = x
    BY <1>4 DEF Core, PendingOK
  <2>2. CASE W1 = W \cup {p} /\ P1 = P
    BY <1>8, <2>1, <2>2
  <2>3. CASE W1 = W /\ P1 = P \cup {t} /\ b # 0
    <3>1. CASE u \in P
      BY <1>6, <1>8, <2>1, <2>3, <3>1
    <3>2. CASE u = t
      BY <1>2, <1>4, <1>5, <1>6, <1>7, <2>1, <2>3, <3>2 DEF SlotOK
    <3> QED BY <2>3, <3>1, <3>2
  <2> QED BY <2>2, <2>3 DEF t
<1>12. WritersOK(m1, o, W1, P1)
  <2> SUFFICES ASSUME NEW q \in W1, q \in Live(m1, o)
               PROVE  /\ \A u \in P1 : u.pipe \notin Live(m1, o)
                      /\ q = m1.pipe => o.pipe = NoPipe
    BY DEF WritersOK
  <2>1. q = p
    BY <1>8
  <2>2. W1 # W
    BY <1>4, <2>1
  <2>3. P1 = P
    BY <2>2
  <2> QED BY <1>4, <1>8, <2>3
<1>13. DrainOK(m1, o, w, W1)
  <2>1. w \notin W1
    BY <1>2, <1>4 DEF DrainOK
  <2> QED BY <1>5, <2>1 DEF DrainOK
<1>14. FreshOK(m1, o, w, W1, P1, F1, d, k)
  <2> SUFFICES ASSUME NEW q \in 1..MaxPipes, q \in F1 \/ q > k
               PROVE  /\ d[q] = <<>>
                      /\ q \notin W1 /\ q # w /\ q # m1.pipe /\ q # o.pipe
                      /\ \A u \in P1 : u.pipe # q
    BY <1>2 DEF FreshOK
  <2>1. q # p
    <3>1. p <= k /\ k \in Nat /\ p \in Nat
      BY <1>1, <1>2, <1>3 DEF FreshOK, CoreTypes, PipeIds
    <3> QED BY <3>1
  <2>2. /\ d[q] = <<>>
        /\ q \notin W /\ q # w /\ q # m.pipe /\ q # o.pipe
        /\ \A u \in P : u.pipe # q
    BY <1>2 DEF FreshOK
  <2> QED BY <1>5, <1>6, <2>1, <2>2 DEF t
<1>15. SlotOK(m1, o, 0, n, g)
  BY DEF SlotOK
<1>16. Core(m1, o, w, W1, P1, F1, 0, d, k, n, g)
  BY <1>9, <1>10, <1>11, <1>12, <1>13, <1>14, <1>15 DEF Core
<1> QED BY <1>16 DEF m1

\* A new pipe takes the place of the one that is read from, which is drained
\* into it.
LEMMA MoveDrainStart ==
  ASSUME NEW m, NEW o, NEW w, NEW W, NEW P, NEW F, NEW b, NEW d, NEW k, NEW n, NEW g,
         Core(m, o, w, W, P, F, b, d, k, n, g), m.pipe # NoPipe, o.pipe = NoPipe,
         NEW p \in F, NEW F1, F1 \subseteq F \ {p}, NEW W1, W1 \subseteq W
  PROVE  Core(Reader(p, <<>>), m, p, W1, P, F1, b, d, k, n, g)
<1> DEFINE m1 == Reader(p, <<>>)
<1>1. CoreTypes(m, o, w, W, P, F, b, d, k, n, g)
  BY CoreTyped
<1>2. /\ DrainOK(m, o, w, W) /\ SlotOK(m, o, b, n, g) /\ FreshOK(m, o, w, W, P, F, d, k)
      /\ Ordered(g, Str(d, m), Str(d, o), n)
  BY DEF Core
<1>3. p \in 1..MaxPipes /\ p # NoPipe /\ p \in PipeIds
  BY <1>1, PipeIdsFact DEF CoreTypes
<1>4. /\ d[p] = <<>> /\ p \notin W /\ p # m.pipe
      /\ \A u \in P : u.pipe # p
  BY <1>2, <1>3 DEF FreshOK
<1>5. m1 \in ReaderType /\ m1.pipe = p /\ Str(d, m1) = <<>>
  BY <1>1, <1>3, <1>4, ReaderParts, StrOfEmpty, NoItems DEF CoreTypes
<1>6. Str(d, o) = <<>> /\ b = 0
  BY <1>1, <1>2 DEF CoreTypes, SlotOK
<1> HIDE DEF m1
<1>7. Live(m, o) = {m.pipe} /\ Live(m1, m) = {m.pipe, p}
  BY <1>3, <1>5 DEF Live
<1>8. ViewTyped(m1, m, p, W1, P, F1, b, d, k, n, g)
  <2>1. W1 \subseteq 1..MaxPipes /\ F1 \subseteq 1..MaxPipes
    BY <1>1 DEF CoreTypes
  <2> QED BY <1>1, <1>3, <1>5, <2>1 DEF CoreTypes, ViewTyped
<1>9. Ordered(g, Str(d, m1), Str(d, m), n)
  <2>1. Ordered(g, <<>>, Str(d, m), n)
    BY <1>1, <1>2, <1>6, OrderedParts DEF CoreTypes
  <2> QED BY <1>5, <2>1
<1>10. PendingOK(m1, m, p, W1, P, d, n, g)
  <2> SUFFICES ASSUME NEW u \in P
               PROVE  /\ u.pipe \notin W1 /\ u.pipe # p
                      /\ \A x \in P : x.pipe = u.pipe => x = u
                      /\ u.pipe \in Live(m1, m) =>
                           /\ Str(d, m1) = <<>> /\ Str(d, m) = <<>>
                           /\ u.item <= n /\ \A i \in 1..Len(g) : g[i] < u.item
    BY DEF PendingOK
  <2>1. /\ u.pipe \notin W
        /\ \A x \in P : x.pipe = u.pipe => x = u
        /\ u.pipe \in Live(m, o) =>
             /\ Str(d, m) = <<>>
             /\ u.item <= n /\ \A i \in 1..Len(g) : g[i] < u.item
    BY DEF Core, PendingOK
  <2> QED BY <1>4, <1>5, <1>7, <2>1
<1>11. WritersOK(m1, m, W1, P)
  <2> SUFFICES ASSUME NEW q \in W1, q \in Live(m1, m)
               PROVE  /\ \A u \in P : u.pipe \notin Live(m1, m)
                      /\ q = m1.pipe => m.pipe = NoPipe
    BY DEF WritersOK
  <2>1. q = m.pipe /\ q \in W
    BY <1>4, <1>7
  <2>2. \A u \in P : u.pipe \notin Live(m, o)
    BY <1>7, <2>1 DEF Core, WritersOK
  <2> QED BY <1>4, <1>5, <1>7, <2>1, <2>2
<1>12. DrainOK(m1, m, p, W1)
  BY <1>3, <1>4, <1>5 DEF DrainOK
<1>13. FreshOK(m1, m, p, W1, P, F1, d, k)
  <2> SUFFICES ASSUME NEW q \in 1..MaxPipes, q \in F1 \/ q > k
               PROVE  /\ d[q] = <<>>
                      /\ q \notin W1 /\ q # p /\ q # m1.pipe /\ q # m.pipe
                      /\ \A u \in P : u.pipe # q
    BY <1>2 DEF FreshOK
  <2>1. q # p
    <3>1. p <= k /\ k \in Nat /\ p \in Nat
      BY <1>1, <1>2, <1>3 DEF FreshOK, CoreTypes, PipeIds
    <3> QED BY <3>1
  <2>2. /\ d[q] = <<>> /\ q \notin W /\ q # m.pipe
        /\ \A u \in P : u.pipe # q
    BY <1>2 DEF FreshOK
  <2> QED BY <1>5, <2>1, <2>2
<1>14. SlotOK(m1, m, b, n, g)
  BY <1>6 DEF SlotOK
<1>15. Core(m1, m, p, W1, P, F1, b, d, k, n, g)
  BY <1>8, <1>9, <1>10, <1>11, <1>12, <1>13, <1>14 DEF Core
<1> QED BY <1>15 DEF m1

\* The next item of the old pipe goes into the new one.
LEMMA MoveDrain ==
  ASSUME NEW m, NEW o, NEW w, NEW W, NEW P, NEW F, NEW b, NEW d, NEW k, NEW n, NEW g,
         Core(m, o, w, W, P, F, b, d, k, n, g), o.pipe # NoPipe, Str(d, o) # <<>>,
         NEW d0 \in DataType, NEW o1 \in ReaderType, o1.pipe = o.pipe,
         Str(d0, o1) = Tail(Str(d, o)),
         \A q \in 1..MaxPipes : q # o.pipe => d0[q] = d[q],
         NEW v, v = Head(Str(d, o))
  PROVE  Core(m, o1, w, W, P, F, b, [d0 EXCEPT ![w] = Append(@, v)], k, n, g)
<1> DEFINE e == [d0 EXCEPT ![w] = Append(@, v)]
<1>1. CoreTypes(m, o, w, W, P, F, b, d, k, n, g)
  BY CoreTyped
<1>2. /\ DrainOK(m, o, w, W) /\ SlotOK(m, o, b, n, g) /\ FreshOK(m, o, w, W, P, F, d, k)
      /\ Ordered(g, Str(d, m), Str(d, o), n)
  BY DEF Core
<1>3. w # NoPipe /\ w # o.pipe /\ m.pipe \in {NoPipe, w} /\ w \in 1..MaxPipes /\ b = 0
  BY <1>1, <1>2, PipeIdsFact DEF CoreTypes, DrainOK, SlotOK
<1>4. v \in Nat
  BY <1>1, TailPlaces DEF CoreTypes
<1>5. WriteFacts(d0, e, w, v)
  BY <1>3, <1>4, StrWrite
<1> HIDE DEF e
<1>6. Str(e, o1) = Tail(Str(d, o))
  BY <1>3, <1>5 DEF WriteFacts
<1>7. Str(d0, m) = Str(d, m)
  <2>1. CASE m.pipe = NoPipe
    BY <2>1 DEF Str
  <2>2. CASE m.pipe = w
    BY <1>3, <2>2 DEF Str
  <2> QED BY <1>3, <2>1, <2>2
<1>8. /\ m.pipe = w => Str(e, m) = Append(Str(d, m), v)
      /\ m.pipe = NoPipe => Str(e, m) = Str(d, m)
  BY <1>1, <1>3, <1>5, <1>7 DEF CoreTypes, WriteFacts
<1>9. Ordered(g, Str(e, m), Str(e, o1), n)
  <2>1. /\ Ordered(g, Append(Str(d, m), v), Tail(Str(d, o)), n)
        /\ Ordered(g, Str(d, m), Tail(Str(d, o)), n)
    BY <1>1, <1>2, OrderedDrain DEF CoreTypes
  <2> QED BY <1>3, <1>6, <1>8, <2>1
<1>10. Live(m, o1) = Live(m, o)
  BY DEF Live
<1>11. ViewTyped(m, o1, w, W, P, F, b, e, k, n, g)
  <2>1. e \in DataType
    BY <1>5 DEF WriteFacts
  <2>2. m.pipe = NoPipe => Str(e, m) = <<>>
    BY <1>1, <1>8 DEF CoreTypes
  <2> QED BY <1>1, <2>1, <2>2 DEF CoreTypes, ViewTyped
<1>12. PendingOK(m, o1, w, W, P, e, n, g)
  BY <1>10 DEF Core, PendingOK
<1>13. WritersOK(m, o1, W, P)
  BY <1>10 DEF Core, WritersOK
<1>14. DrainOK(m, o1, w, W)
  BY <1>2 DEF DrainOK
<1>15. FreshOK(m, o1, w, W, P, F, e, k)
  <2>1. \A q \in 1..MaxPipes : q # o.pipe /\ q # w => e[q] = d[q]
    BY <1>5 DEF WriteFacts
  <2> QED BY <1>2, <2>1 DEF FreshOK
<1>16. SlotOK(m, o1, b, n, g)
  BY <1>3 DEF SlotOK
<1>17. Core(m, o1, w, W, P, F, b, e, k, n, g)
  BY <1>9, <1>11, <1>12, <1>13, <1>14, <1>15, <1>16 DEF Core
<1> QED BY <1>17 DEF e

\* The old pipe is gone, and the write end of the new one is the channel's.
LEMMA MoveDrainEnd ==
  ASSUME NEW m, NEW o, NEW w, NEW W, NEW P, NEW F, NEW b, NEW d, NEW k, NEW n, NEW g,
         Core(m, o, w, W, P, F, b, d, k, n, g), o.pipe # NoPipe,
         NEW W1, W1 \subseteq W \cup {w}
  PROVE  Core(m, NoReader, NoPipe, W1, P, F, b, d, k, n, g)
<1>1. CoreTypes(m, o, w, W, P, F, b, d, k, n, g)
  BY CoreTyped
<1>2. /\ DrainOK(m, o, w, W) /\ SlotOK(m, o, b, n, g) /\ FreshOK(m, o, w, W, P, F, d, k)
      /\ Ordered(g, Str(d, m), Str(d, o), n)
  BY DEF Core
<1>3. w # NoPipe /\ m.pipe \in {NoPipe, w} /\ w \in 1..MaxPipes /\ b = 0
  BY <1>1, <1>2, PipeIdsFact DEF CoreTypes, DrainOK, SlotOK
<1>4. NoReader \in ReaderType /\ NoReader.pipe = NoPipe /\ Str(d, NoReader) = <<>>
  BY <1>1, ReaderParts, StrOfEmpty DEF CoreTypes
<1>5. Live(m, NoReader) \subseteq {w}
  BY <1>3, <1>4 DEF Live
<1>6. \A t \in P : t.pipe \notin W /\ t.pipe # w /\ t.pipe \notin Live(m, NoReader)
  BY <1>5 DEF Core, PendingOK
<1>7. ViewTyped(m, NoReader, NoPipe, W1, P, F, b, d, k, n, g)
  BY <1>1, <1>3, <1>4, PipeIdsFact DEF CoreTypes, ViewTyped
<1>8. Ordered(g, Str(d, m), Str(d, NoReader), n)
  BY <1>1, <1>2, <1>4, OrderedParts DEF CoreTypes
<1>9. PendingOK(m, NoReader, NoPipe, W1, P, d, n, g)
  BY <1>1, <1>6 DEF Core, PendingOK, CoreTypes
<1>10. WritersOK(m, NoReader, W1, P)
  BY <1>4, <1>6 DEF WritersOK
<1>11. DrainOK(m, NoReader, NoPipe, W1)
  BY <1>1, <1>3, <1>4 DEF DrainOK, CoreTypes
<1>12. FreshOK(m, NoReader, NoPipe, W1, P, F, d, k)
  <2> SUFFICES ASSUME NEW q \in 1..MaxPipes, q \in F \/ q > k
               PROVE  /\ d[q] = <<>>
                      /\ q \notin W1 /\ q # NoPipe /\ q # m.pipe /\ q # NoReader.pipe
                      /\ \A u \in P : u.pipe # q
    BY <1>2 DEF FreshOK
  <2>1. /\ d[q] = <<>> /\ q \notin W /\ q # w /\ q # m.pipe
        /\ \A u \in P : u.pipe # q
    BY <1>2 DEF FreshOK
  <2> QED BY <1>4, <2>1, PipeIdsFact
<1>13. SlotOK(m, NoReader, b, n, g)
  BY <1>3 DEF SlotOK
<1> QED BY <1>7, <1>8, <1>9, <1>10, <1>11, <1>12, <1>13 DEF Core

-----------------------------------------------------------------------------
(***************************************************************************)
(* The view of a channel c, its sender s and its receiver r, with the      *)
(* tasks ts.  A program reads past the buffer of the channel's reader.     *)
(***************************************************************************)
MainOf(c, r) ==
  IF r.pc = "running" THEN Reader(r.prog, <<>>)
  ELSE IF r.pc = "cloning" THEN Reader(r.read.pipe, <<>>)
  ELSE IF r.pc = "reading" THEN r.read
  ELSE IF c.recv.is = "present" THEN c.recv.reader
  ELSE NoReader

OldOf(s, r) ==
  IF s.pc = "draining" THEN s.read
  ELSE IF r.pc = "draining" THEN r.read
  ELSE NoReader

IntoOf(s, r) ==
  IF s.pc = "draining" THEN s.write
  ELSE IF r.pc = "draining" THEN r.write
  ELSE NoPipe

WritersOf(c, s) ==
  {p \in 1..MaxPipes :
     \/ c.send.is = "present" /\ c.send.pipe = p
     \/ s.pc \in {"writing", "cloning"} /\ s.write = p
     \/ s.pc = "running" /\ s.prog = p}

StaleOf(s) == [pipe |-> s.write, item |-> s.stale]
PendingOf(ts, s) == ts \cup (IF s.pc = "flushing" THEN {StaleOf(s)} ELSE {})

FreshOf(s, r) == {s.fresh, r.fresh} \ {NoPipe}

\* A strand that holds no end of a pipe in use.
Handless == {"idle", "parked", "opening", "negotiating", "failed", "closed", "panicked"}
Resting == {"idle", "failed", "closed", "panicked"}

StrandOK(x) ==
  /\ x.fresh # NoPipe => x.pc = "negotiating"
  /\ x.pc \notin Resting => x.script # <<>>

\* What each strand holds in the states where it holds something.
SenderOK(c, s, r, ts) ==
  /\ s.pc # "reading"
  /\ s.pc = "draining" => s.read.pipe # NoPipe /\ c.state \in {"SendPipe", "Direct"}
  /\ s.pc = "draining" => r.pc # "draining"
  /\ s.pc \in {"writing", "flushing", "cloning"} => s.write # NoPipe
  /\ s.pc = "running" => s.prog # NoPipe
  /\ s.pc = "flushing" => StaleOf(s) \notin ts
  /\ s.fresh # NoPipe => s.fresh # r.fresh
  /\ c.sendClosed => s.pc = "closed"

ReceiverOK(c, r) ==
  /\ r.pc \notin {"writing", "flushing", "panicked"}
  /\ r.pc \in {"reading", "cloning", "draining"} => r.read.pipe # NoPipe
  /\ r.pc = "running" => r.prog # NoPipe
  /\ r.pc \in {"draining", "cloning", "running"} => c.state \in {"RecvPipe", "Direct"}
  /\ r.pc = "reading" => c.state \in {"SendPipe", "Draining"}
  /\ r.pc \in {"reading", "cloning"} => c.recv.is = "taken"
  /\ r.pc \in {"running", "draining"} => c.recv.is = "present"
  /\ r.pc = "running" => c.recv.reader.pipe = r.prog
  /\ r.pc = "running" => (c.state = "RecvPipe" /\ c.sendClosed) \/ c.recv.reader.buf = <<>>
  /\ r.pc = "cloning" => (c.state = "RecvPipe" /\ c.sendClosed) \/ r.read.buf = <<>>
  /\ r.pc = "draining" => c.recv.reader.buf = <<>>
  /\ c.recvClosed => r.pc = "closed"

\* What the state of the channel says of its ends.
EndsOK(c) ==
  /\ c.state = "Value" => c.recv.is # "present"
  /\ c.state # "Value" => c.buffered = 0
  /\ c.state # "Value" /\ ~c.recvClosed => c.recv.is # "absent"
  /\ c.recv.is = "present" => c.recv.reader.pipe # NoPipe
  /\ c.send.is = "present" => c.send.pipe # NoPipe

Control(c, s, r, ts) ==
  /\ c \in ChannelType /\ s \in StrandType /\ r \in StrandType /\ ts \subseteq TaskType
  /\ StrandOK(s) /\ StrandOK(r)
  /\ SenderOK(c, s, r, ts) /\ ReceiverOK(c, r) /\ EndsOK(c)

View(c, s, r, ts, d, k, n, g) ==
  Core(MainOf(c, r), OldOf(s, r), IntoOf(s, r), WritersOf(c, s), PendingOf(ts, s),
       FreshOf(s, r), c.buffered, d, k, n, g)

Good(c, s, r, ts, d, k, n, g) == Control(c, s, r, ts) /\ View(c, s, r, ts, d, k, n, g)

\* Channels that differ in the wakers only.
Same(c, e) ==
  /\ e \in ChannelType
  /\ e.state = c.state /\ e.buffered = c.buffered /\ e.send = c.send /\ e.recv = c.recv
  /\ e.sendClosed = c.sendClosed /\ e.recvClosed = c.recvClosed

LEMMA SameGood ==
  ASSUME NEW c, NEW s, NEW r, NEW ts, NEW d, NEW k, NEW n, NEW g,
         Good(c, s, r, ts, d, k, n, g), NEW e, Same(c, e)
  PROVE  Good(e, s, r, ts, d, k, n, g)
<1>1. MainOf(e, r) = MainOf(c, r) /\ WritersOf(e, s) = WritersOf(c, s) /\ e.buffered = c.buffered
  BY DEF Same, MainOf, WritersOf
<1>2. View(e, s, r, ts, d, k, n, g)
  BY <1>1 DEF Good, View
<1>3. Control(e, s, r, ts)
  BY DEF Good, Same, Control, SenderOK, ReceiverOK, EndsOK
<1> QED BY <1>2, <1>3 DEF Good

LEMMA SameWake ==
  ASSUME NEW c, NEW e, Same(c, e)
  PROVE  /\ Same(c, WakeSenders(e)) /\ Same(c, WakeReceivers(e))
         /\ Same(c, WakeNegotiators(e)) /\ Same(c, WakeAll(e))
         /\ Same(c, WakeSenders(WakeNegotiators(e)))
         /\ Same(c, WakeReceivers(WakeNegotiators(e)))
<1>1. ASSUME NEW x, Same(c, x) PROVE Same(c, WakeSenders(x))
  BY <1>1 DEF Same, WakeSenders, ChannelType
<1>2. ASSUME NEW x, Same(c, x) PROVE Same(c, WakeReceivers(x))
  BY <1>2 DEF Same, WakeReceivers, ChannelType
<1>3. ASSUME NEW x, Same(c, x) PROVE Same(c, WakeNegotiators(x))
  BY <1>3 DEF Same, WakeNegotiators, ChannelType
<1>4. Same(c, WakeAll(e))
  BY <1>1, <1>2, <1>3 DEF WakeAll
<1> QED BY <1>1, <1>2, <1>3, <1>4

LEMMA SameWaiting ==
  ASSUME NEW c \in ChannelType, NEW x \in SUBSET Strands
  PROVE  /\ Same(c, c)
         /\ Same(c, [c EXCEPT !.sendWakers = x]) /\ Same(c, [c EXCEPT !.recvWakers = x])
         /\ Same(c, [c EXCEPT !.negotiateWakers = @ \cup x])
         /\ Same(c, [c EXCEPT !.woken = @ \cup x]) /\ Same(c, [c EXCEPT !.woken = @ \ x])
<1>1. Same(c, c) /\ Same(c, [c EXCEPT !.sendWakers = x]) /\ Same(c, [c EXCEPT !.recvWakers = x])
  BY DEF Same, ChannelType
<1>2. /\ c.negotiateWakers \cup x \in SUBSET Strands /\ c.woken \cup x \in SUBSET Strands
      /\ c.woken \ x \in SUBSET Strands
  BY DEF ChannelType
<1>3. Same(c, [c EXCEPT !.negotiateWakers = @ \cup x])
  BY <1>2 DEF Same, ChannelType
<1>4. Same(c, [c EXCEPT !.woken = @ \cup x]) /\ Same(c, [c EXCEPT !.woken = @ \ x])
  BY <1>2 DEF Same, ChannelType
<1> QED BY <1>1, <1>3, <1>4

LEMMA SameTransitive ==
  ASSUME NEW c, NEW e, NEW f, Same(c, e), Same(e, f)
  PROVE  Same(c, f)
  BY DEF Same

-----------------------------------------------------------------------------
(***************************************************************************)
(* Steps of the sender.                                                    *)
(***************************************************************************)
\* It drops what it holds.
LEMMA SenderRests ==
  ASSUME NEW c, NEW s, NEW r, NEW ts, NEW d, NEW k, NEW n, NEW g,
         Good(c, s, r, ts, d, k, n, g),
         NEW x \in StrandType, x.pc \in Handless, StrandOK(x), x.fresh \in {NoPipe, s.fresh},
         c.sendClosed => x.pc = "closed"
  PROVE  Good(c, x, r, ts, d, k, n, g)
<1>1. Control(c, s, r, ts)
  BY DEF Good
<1>2. Control(c, x, r, ts)
  <2>1. SenderOK(c, x, r, ts)
    BY <1>1 DEF Control, SenderOK, Handless
  <2> QED BY <1>1, <2>1 DEF Control
<1>3. \/ OldOf(x, r) = OldOf(s, r) /\ IntoOf(x, r) = IntoOf(s, r)
      \/ OldOf(x, r) = NoReader /\ IntoOf(x, r) = NoPipe
  <2>1. CASE s.pc = "draining"
    <3>1. r.pc # "draining"
      BY <1>1, <2>1 DEF Control, SenderOK
    <3> QED BY <2>1, <3>1 DEF OldOf, IntoOf, Handless
  <2>2. CASE s.pc # "draining"
    BY <2>2 DEF OldOf, IntoOf, Handless
  <2> QED BY <2>1, <2>2
<1>4. WritersOf(c, x) \subseteq WritersOf(c, s)
  BY DEF WritersOf, Handless
<1>5. PendingOf(ts, x) \subseteq PendingOf(ts, s)
  BY DEF PendingOf, Handless
<1>6. FreshOf(x, r) \subseteq FreshOf(s, r)
  BY DEF FreshOf
<1>7. View(c, s, r, ts, d, k, n, g)
  BY DEF Good
<1>8. View(c, x, r, ts, d, k, n, g)
  BY <1>3, <1>4, <1>5, <1>6, <1>7, MoveShrink DEF View
<1> QED BY <1>2, <1>8 DEF Good

\* A channel with these fields, whatever its wakers.
Is(e, st, b, snd, rcv, sc, rc) ==
  /\ e \in ChannelType
  /\ e.state = st /\ e.buffered = b /\ e.send = snd /\ e.recv = rcv
  /\ e.sendClosed = sc /\ e.recvClosed = rc

LEMMA EndParts ==
  /\ \A i, p : SendEnd(i, p).is = i /\ SendEnd(i, p).pipe = p
  /\ \A i, x : RecvEnd(i, x).is = i /\ RecvEnd(i, x).reader = x
  /\ TakenSend.is = "taken" /\ NoSend.is = "absent"
  /\ TakenRecv.is = "taken" /\ NoRecv.is = "absent"
  BY DEF SendEnd, RecvEnd, TakenSend, NoSend, TakenRecv, NoRecv

\* It takes the write end out of the channel.
LEMMA SenderTakes ==
  ASSUME NEW c, NEW s, NEW r, NEW ts, NEW d, NEW k, NEW n, NEW g,
         Good(c, s, r, ts, d, k, n, g), s.pc \in Handless, c.send.is = "present", ~c.sendClosed,
         NEW e, Is(e, c.state, c.buffered, TakenSend, c.recv, c.sendClosed, c.recvClosed),
         NEW x \in StrandType, x.pc \in {"writing", "cloning"}, x.write = c.send.pipe,
         x.fresh = NoPipe, x.script # <<>>
  PROVE  Good(e, x, r, ts, d, k, n, g)
<1>1. Control(c, s, r, ts)
  BY DEF Good
<1>2. Control(e, x, r, ts)
  <2>1. SenderOK(e, x, r, ts)
    BY <1>1 DEF Control, SenderOK, EndsOK, Is
  <2>2. ReceiverOK(e, r) /\ EndsOK(e)
    BY <1>1, EndParts DEF Control, ReceiverOK, EndsOK, Is
  <2>3. StrandOK(x)
    BY DEF StrandOK
  <2> QED BY <1>1, <2>1, <2>2, <2>3 DEF Control, Is
<1>3. OldOf(x, r) = OldOf(s, r) /\ IntoOf(x, r) = IntoOf(s, r)
  BY DEF OldOf, IntoOf, Handless
<1>4. WritersOf(e, x) \subseteq WritersOf(c, s)
  BY EndParts DEF WritersOf, Is
<1>5. PendingOf(ts, x) \subseteq PendingOf(ts, s)
  BY DEF PendingOf
<1>6. FreshOf(x, r) \subseteq FreshOf(s, r)
  BY DEF FreshOf
<1>7. MainOf(e, r) = MainOf(c, r) /\ e.buffered = c.buffered
  BY DEF MainOf, Is
<1>8. View(c, s, r, ts, d, k, n, g)
  BY DEF Good
<1>9. View(e, x, r, ts, d, k, n, g)
  BY <1>3, <1>4, <1>5, <1>6, <1>7, <1>8, MoveShrink DEF View
<1> QED BY <1>2, <1>9 DEF Good

\* The write end it holds goes back to the channel, or is dropped; it may keep
\* a duplicate for a program.
LEMMA SenderRestores ==
  ASSUME NEW c, NEW s, NEW r, NEW ts, NEW d, NEW k, NEW n, NEW g,
         Good(c, s, r, ts, d, k, n, g), NEW p \in WritersOf(c, s),
         s.pc \notin {"draining", "flushing"},
         NEW snd, snd = c.send \/ snd = SendEnd("present", p),
         NEW e, Is(e, c.state, c.buffered, snd, c.recv, c.sendClosed, c.recvClosed),
         NEW x \in StrandType, x.pc \in Handless \/ (x.pc = "running" /\ x.prog = p),
         StrandOK(x), x.fresh \in {NoPipe, s.fresh}, c.sendClosed => x.pc = "closed"
  PROVE  Good(e, x, r, ts, d, k, n, g)
<1>1. Control(c, s, r, ts)
  BY DEF Good
<1>2. p \in 1..MaxPipes /\ p # NoPipe
  BY PipeIdsFact DEF WritersOf
<1>3. Control(e, x, r, ts)
  <2>1. SenderOK(e, x, r, ts)
    BY <1>1, <1>2 DEF Control, SenderOK, Is, Handless
  <2>2. ReceiverOK(e, r) /\ EndsOK(e)
    BY <1>1, <1>2, EndParts DEF Control, ReceiverOK, EndsOK, Is
  <2> QED BY <1>1, <2>1, <2>2 DEF Control, Is
<1>4. OldOf(x, r) = OldOf(s, r) /\ IntoOf(x, r) = IntoOf(s, r)
  BY DEF OldOf, IntoOf, Handless
<1>5. WritersOf(e, x) \subseteq WritersOf(c, s)
  <2> SUFFICES ASSUME NEW q \in WritersOf(e, x) PROVE q \in WritersOf(c, s)
    OBVIOUS
  <2>1. CASE q = p
    BY <2>1
  <2>2. CASE q # p
    BY <2>2, EndParts DEF WritersOf, Is, Handless
  <2> QED BY <2>1, <2>2
<1>6. PendingOf(ts, x) \subseteq PendingOf(ts, s)
  BY DEF PendingOf, Handless
<1>7. FreshOf(x, r) \subseteq FreshOf(s, r)
  BY DEF FreshOf
<1>8. MainOf(e, r) = MainOf(c, r) /\ e.buffered = c.buffered
  BY DEF MainOf, Is
<1>9. View(c, s, r, ts, d, k, n, g)
  BY DEF Good
<1>10. View(e, x, r, ts, d, k, n, g)
  BY <1>4, <1>5, <1>6, <1>7, <1>8, <1>9, MoveShrink DEF View
<1> QED BY <1>3, <1>10 DEF Good

\* A new item goes into a pipe it can write to.
LEMMA SenderWrites ==
  ASSUME NEW c, NEW s, NEW r, NEW ts, NEW d, NEW k, NEW n, NEW g,
         Good(c, s, r, ts, d, k, n, g), NEW p \in WritersOf(c, s)
  PROVE  Good(c, s, r, ts, [d EXCEPT ![p] = Append(@, n + 1)], k, n + 1, g)
<1>1. View(c, s, r, ts, d, k, n, g)
  BY DEF Good
<1>2. View(c, s, r, ts, [d EXCEPT ![p] = Append(@, n + 1)], k, n + 1, g)
  BY <1>1, MoveWrite DEF View
<1> QED BY <1>2 DEF Good

\* It leaves a value in the slot.
LEMMA SenderPuts ==
  ASSUME NEW c, NEW s, NEW r, NEW ts, NEW d, NEW k, NEW n, NEW g,
         Good(c, s, r, ts, d, k, n, g), c.state = "Value",
         NEW e, Is(e, "Value", n + 1, c.send, c.recv, c.sendClosed, c.recvClosed)
  PROVE  Good(e, s, r, ts, d, k, n + 1, g)
<1>1. Control(c, s, r, ts)
  BY DEF Good
<1>2. Control(e, s, r, ts)
  BY <1>1 DEF Control, SenderOK, ReceiverOK, EndsOK, Is
<1>3. MainOf(c, r) = NoReader /\ OldOf(s, r) = NoReader
  BY <1>1 DEF Control, SenderOK, ReceiverOK, EndsOK, MainOf, OldOf
<1>4. MainOf(e, r) = MainOf(c, r) /\ WritersOf(e, s) = WritersOf(c, s) /\ e.buffered = n + 1
  BY DEF MainOf, WritersOf, Is
<1>5. View(c, s, r, ts, d, k, n, g)
  BY DEF Good
<1>6. MainOf(c, r).pipe = NoPipe /\ OldOf(s, r).pipe = NoPipe
  BY <1>3, ReaderParts
<1>7. View(e, s, r, ts, d, k, n + 1, g)
  BY <1>4, <1>5, <1>6, MovePut DEF View
<1> QED BY <1>2, <1>7 DEF Good

\* It closes its end.
LEMMA SenderCloses ==
  ASSUME NEW c, NEW s, NEW r, NEW ts, NEW d, NEW k, NEW n, NEW g,
         Good(c, s, r, ts, d, k, n, g), s.pc \in Handless,
         NEW e, Is(e, c.state, c.buffered, NoSend, c.recv, TRUE, c.recvClosed),
         NEW x \in StrandType, x.pc = "closed", x.fresh = NoPipe
  PROVE  Good(e, x, r, ts, d, k, n, g)
<1>1. Control(c, s, r, ts)
  BY DEF Good
<1>2. Control(e, x, r, ts)
  <2>1. SenderOK(e, x, r, ts)
    BY DEF SenderOK
  <2>2. ReceiverOK(e, r) /\ EndsOK(e)
    BY <1>1, EndParts DEF Control, ReceiverOK, EndsOK, Is
  <2>3. StrandOK(x)
    BY DEF StrandOK, Resting
  <2> QED BY <1>1, <2>1, <2>2, <2>3 DEF Control, Is
<1>3. OldOf(x, r) = OldOf(s, r) /\ IntoOf(x, r) = IntoOf(s, r)
  BY DEF OldOf, IntoOf, Handless
<1>4. WritersOf(e, x) \subseteq WritersOf(c, s)
  BY EndParts DEF WritersOf, Is
<1>5. PendingOf(ts, x) \subseteq PendingOf(ts, s)
  BY DEF PendingOf
<1>6. FreshOf(x, r) \subseteq FreshOf(s, r)
  BY DEF FreshOf
<1>7. MainOf(e, r) = MainOf(c, r) /\ e.buffered = c.buffered
  BY DEF MainOf, Is
<1>8. View(c, s, r, ts, d, k, n, g)
  BY DEF Good
<1>9. View(e, x, r, ts, d, k, n, g)
  BY <1>3, <1>4, <1>5, <1>6, <1>7, <1>8, MoveShrink DEF View
<1> QED BY <1>2, <1>9 DEF Good

\* Its program has exited: send_done.
LEMMA SenderExits ==
  ASSUME NEW c, NEW s, NEW r, NEW ts, NEW d, NEW k, NEW n, NEW g,
         Good(c, s, r, ts, d, k, n, g), MaySendDone(c), ~c.sendClosed,
         NEW x \in StrandType, x.pc \in Handless, StrandOK(x), x.fresh = NoPipe
  PROVE  Good(SendDone(c), x, r, ts, d, k, n, g)
<1> DEFINE st == IF c.state = "SendPipe" THEN "Draining" ELSE "RecvPipe"
           e == [c EXCEPT !.state = st, !.send = NoSend]
<1>1. Control(c, s, r, ts)
  BY DEF Good
<1>2. Is(e, st, c.buffered, NoSend, c.recv, c.sendClosed, c.recvClosed)
  <2>1. st \in States /\ NoSend \in [is : Ends, pipe : PipeIds]
    BY PipeIdsFact DEF States, NoSend, SendEnd, Ends
  <2> QED BY <1>1, <2>1 DEF Control, ChannelType, Is
<1>3. Same(e, SendDone(c))
  <2>1. Same(e, e)
    BY <1>2 DEF Same, Is
  <2>2. SendDone(c) = WakeReceivers(WakeNegotiators(e)) \/ SendDone(c) = WakeSenders(WakeNegotiators(e))
    BY DEF SendDone
  <2> QED BY <2>1, <2>2, SameWake
<1> HIDE DEF e
<1>4. Control(e, x, r, ts)
  <2>1. SenderOK(e, x, r, ts)
    BY <1>1, <1>2 DEF Control, SenderOK, Is, Handless
  <2>2. ReceiverOK(e, r)
    BY <1>1, <1>2 DEF Control, ReceiverOK, Is, MaySendDone
  <2>3. EndsOK(e)
    BY <1>1, <1>2, EndParts DEF Control, EndsOK, Is, MaySendDone
  <2> QED BY <1>1, <1>2, <2>1, <2>2, <2>3 DEF Control, Is
<1>5. \/ OldOf(x, r) = OldOf(s, r) /\ IntoOf(x, r) = IntoOf(s, r)
      \/ OldOf(x, r) = NoReader /\ IntoOf(x, r) = NoPipe
  BY <1>1 DEF OldOf, IntoOf, Handless, Control, SenderOK
<1>6. WritersOf(e, x) \subseteq WritersOf(c, s)
  BY <1>2, EndParts DEF WritersOf, Is, Handless
<1>7. PendingOf(ts, x) \subseteq PendingOf(ts, s)
  BY DEF PendingOf, Handless
<1>8. FreshOf(x, r) \subseteq FreshOf(s, r)
  BY DEF FreshOf
<1>9. MainOf(e, r) = MainOf(c, r) /\ e.buffered = c.buffered
  BY <1>2 DEF MainOf, Is
<1>10. View(c, s, r, ts, d, k, n, g)
  BY DEF Good
<1>11. View(e, x, r, ts, d, k, n, g)
  BY <1>5, <1>6, <1>7, <1>8, <1>9, <1>10, MoveShrink DEF View
<1>12. Good(e, x, r, ts, d, k, n, g)
  BY <1>4, <1>11 DEF Good
<1> QED BY <1>3, <1>12, SameGood

\* It has opened a pipe.
LEMMA SenderOpens ==
  ASSUME NEW c, NEW s, NEW r, NEW ts, NEW d, NEW k, NEW n, NEW g,
         Good(c, s, r, ts, d, k, n, g), s.pc = "opening", k < MaxPipes,
         NEW x \in StrandType, x.pc = "negotiating", x.fresh = k + 1, x.script # <<>>
  PROVE  Good(c, x, r, ts, d, k + 1, n, g)
<1>1. Control(c, s, r, ts) /\ View(c, s, r, ts, d, k, n, g)
  BY DEF Good
<1>2. CoreTypes(MainOf(c, r), OldOf(s, r), IntoOf(s, r), WritersOf(c, s), PendingOf(ts, s),
                FreshOf(s, r), c.buffered, d, k, n, g)
  BY <1>1, CoreTyped DEF View
<1>3. k \in Nat /\ k + 1 # NoPipe /\ ~(k + 1 <= k)
  BY <1>2, PipeIdsFact DEF CoreTypes, PipeIds, NoPipe
<1>4. r.fresh # k + 1
  <2>1. \A p \in FreshOf(s, r) : p <= k
    BY <1>1 DEF View, Core, FreshOK
  <2> QED BY <1>3, <2>1 DEF FreshOf
<1>5. Control(c, x, r, ts)
  <2>1. SenderOK(c, x, r, ts)
    BY <1>1, <1>4 DEF Control, SenderOK
  <2>2. StrandOK(x)
    BY DEF StrandOK
  <2> QED BY <1>1, <2>1, <2>2 DEF Control
<1>6. /\ OldOf(x, r) = OldOf(s, r) /\ IntoOf(x, r) = IntoOf(s, r)
      /\ WritersOf(c, x) = WritersOf(c, s) /\ PendingOf(ts, x) = PendingOf(ts, s)
  BY DEF OldOf, IntoOf, WritersOf, PendingOf
<1>7. FreshOf(x, r) = FreshOf(s, r) \cup {k + 1}
  <2>1. s.fresh = NoPipe
    BY <1>1 DEF Control, StrandOK
  <2> QED BY <1>3, <2>1 DEF FreshOf
<1>8. View(c, x, r, ts, d, k + 1, n, g)
  BY <1>1, <1>6, <1>7, MoveOpen DEF View
<1> QED BY <1>5, <1>8 DEF Good

\* It puts its pipe to use where there was a value or nothing; what was in the
\* slot becomes a stale value that it has yet to write.
LEMMA SenderPipes ==
  ASSUME NEW c, NEW s, NEW r, NEW ts, NEW d, NEW k, NEW n, NEW g,
         Good(c, s, r, ts, d, k, n, g), s.pc \in Handless, c.state = "Value", ~c.sendClosed,
         s.fresh # NoPipe, NEW snd,
         NEW e, Is(e, "SendPipe", 0, snd, RecvEnd("present", Reader(s.fresh, <<>>)),
                   c.sendClosed, c.recvClosed),
         NEW x \in StrandType, x.fresh = NoPipe, StrandOK(x),
         \/ x.pc \in Handless /\ snd = SendEnd("present", s.fresh)
         \/ /\ x.pc = "flushing" /\ snd = TakenSend /\ x.write = s.fresh
            /\ x.stale = c.buffered /\ c.buffered # 0
  PROVE  Good(e, x, r, ts, d, k, n, g)
<1> DEFINE p == s.fresh
           W1 == IF x.pc = "flushing" THEN WritersOf(c, s) ELSE WritersOf(c, s) \cup {p}
<1>1. Control(c, s, r, ts) /\ View(c, s, r, ts, d, k, n, g)
  BY DEF Good
<1>2. CoreTypes(MainOf(c, r), OldOf(s, r), IntoOf(s, r), WritersOf(c, s), PendingOf(ts, s),
                FreshOf(s, r), c.buffered, d, k, n, g)
  BY <1>1, CoreTyped DEF View
<1>3. p \in FreshOf(s, r) /\ p \in 1..MaxPipes
  BY <1>2 DEF FreshOf, CoreTypes
<1>4. \A t \in PendingOf(ts, s) : t.pipe # p
  BY <1>1, <1>3 DEF View, Core, FreshOK
<1>5. /\ r.pc \notin {"reading", "cloning", "draining", "running"} /\ s.pc # "draining"
      /\ c.recv.is # "present"
  BY <1>1 DEF Control, ReceiverOK, SenderOK, EndsOK
<1>6. Control(e, x, r, ts)
  <2>1. SenderOK(e, x, r, ts)
    <3>1. x.pc = "flushing" => StaleOf(x) \notin ts
      <4>1. x.pc = "flushing" => StaleOf(x).pipe = p
        BY DEF StaleOf, Handless
      <4>2. ts \subseteq PendingOf(ts, s)
        BY DEF PendingOf
      <4> QED BY <1>4, <4>1, <4>2
    <3> QED BY <1>1, <3>1 DEF Control, SenderOK, Is, Handless
  <2>2. ReceiverOK(e, r)
    BY <1>1, <1>5 DEF Control, ReceiverOK, Is
  <2>3. EndsOK(e)
    BY <1>3, EndParts, ReaderParts, PipeIdsFact DEF EndsOK, Is
  <2> QED BY <1>1, <2>1, <2>2, <2>3 DEF Control, Is
<1>7. /\ MainOf(c, r) = NoReader /\ OldOf(s, r) = NoReader /\ IntoOf(s, r) = NoPipe
      /\ OldOf(x, r) = NoReader /\ IntoOf(x, r) = NoPipe /\ MainOf(e, r) = Reader(p, <<>>)
  BY <1>5, EndParts DEF MainOf, OldOf, IntoOf, Handless, Is
<1>8. FreshOf(x, r) \subseteq FreshOf(s, r) \ {p}
  BY <1>1 DEF FreshOf, Control, SenderOK
<1>9. WritersOf(e, x) \subseteq W1
  BY <1>3, EndParts DEF WritersOf, Is, Handless
<1>10. \/ W1 = WritersOf(c, s) \cup {p} /\ PendingOf(ts, x) = PendingOf(ts, s)
       \/ /\ W1 = WritersOf(c, s) /\ c.buffered # 0
          /\ PendingOf(ts, x) = PendingOf(ts, s) \cup {[pipe |-> p, item |-> c.buffered]}
  BY DEF PendingOf, StaleOf, Handless
<1>11. NoReader.pipe = NoPipe
  BY ReaderParts
<1> HIDE DEF p, W1
<1>12. Core(Reader(p, <<>>), NoReader, NoPipe, W1, PendingOf(ts, x), FreshOf(x, r), 0, d, k, n, g)
  BY <1>1, <1>3, <1>7, <1>8, <1>10, <1>11, MoveFresh DEF View
<1>13. Core(Reader(p, <<>>), NoReader, NoPipe, WritersOf(e, x), PendingOf(ts, x), FreshOf(x, r),
            0, d, k, n, g)
  BY <1>9, <1>12, MoveShrink
<1>14. View(e, x, r, ts, d, k, n, g)
  BY <1>7, <1>13 DEF View, Is
<1> QED BY <1>6, <1>14 DEF Good

\* It joins the pipe of a downstream program.
LEMMA SenderJoins ==
  ASSUME NEW c, NEW s, NEW r, NEW ts, NEW d, NEW k, NEW n, NEW g,
         Good(c, s, r, ts, d, k, n, g), c.state = "RecvPipe", ~c.sendClosed,
         NEW e, Is(e, "Direct", c.buffered, c.send, c.recv, c.sendClosed, c.recvClosed)
  PROVE  Good(e, s, r, ts, d, k, n, g)
<1>1. Control(c, s, r, ts) /\ View(c, s, r, ts, d, k, n, g)
  BY DEF Good
<1>2. Control(e, s, r, ts)
  BY <1>1 DEF Control, SenderOK, ReceiverOK, EndsOK, Is
<1>3. MainOf(e, r) = MainOf(c, r) /\ WritersOf(e, s) = WritersOf(c, s) /\ e.buffered = c.buffered
  BY DEF MainOf, WritersOf, Is
<1>4. View(e, s, r, ts, d, k, n, g)
  BY <1>1, <1>3 DEF View
<1> QED BY <1>2, <1>4 DEF Good

\* It replaces the pipe that is read from, and will drain it first.
LEMMA SenderReplaces ==
  ASSUME NEW c, NEW s, NEW r, NEW ts, NEW d, NEW k, NEW n, NEW g,
         Good(c, s, r, ts, d, k, n, g), s.pc \in Handless, c.state = "Draining", ~c.sendClosed,
         c.recv.is = "present", s.fresh # NoPipe,
         NEW e, Is(e, "SendPipe", c.buffered, TakenSend, RecvEnd("present", Reader(s.fresh, <<>>)),
                   c.sendClosed, c.recvClosed),
         NEW x \in StrandType, x.pc = "draining", x.fresh = NoPipe, StrandOK(x),
         x.write = s.fresh, x.read = c.recv.reader
  PROVE  Good(e, x, r, ts, d, k, n, g)
<1> DEFINE p == s.fresh
<1>1. Control(c, s, r, ts) /\ View(c, s, r, ts, d, k, n, g)
  BY DEF Good
<1>2. CoreTypes(MainOf(c, r), OldOf(s, r), IntoOf(s, r), WritersOf(c, s), PendingOf(ts, s),
                FreshOf(s, r), c.buffered, d, k, n, g)
  BY <1>1, CoreTyped DEF View
<1>3. p \in FreshOf(s, r) /\ p \in 1..MaxPipes
  BY <1>2 DEF FreshOf, CoreTypes
<1>4. /\ r.pc \notin {"reading", "cloning", "draining", "running"} /\ c.recv.reader.pipe # NoPipe
  BY <1>1 DEF Control, ReceiverOK, EndsOK
<1>5. Control(e, x, r, ts)
  <2>1. SenderOK(e, x, r, ts)
    BY <1>1, <1>4 DEF Control, SenderOK, Is
  <2>2. ReceiverOK(e, r)
    BY <1>1, <1>4 DEF Control, ReceiverOK, Is
  <2>3. EndsOK(e)
    BY <1>1, <1>3, EndParts, ReaderParts, PipeIdsFact DEF Control, EndsOK, Is
  <2> QED BY <1>1, <2>1, <2>2, <2>3 DEF Control, Is
<1>6. /\ MainOf(c, r) = c.recv.reader /\ OldOf(s, r) = NoReader
      /\ OldOf(x, r) = c.recv.reader /\ IntoOf(x, r) = p /\ MainOf(e, r) = Reader(p, <<>>)
  BY <1>4, EndParts DEF MainOf, OldOf, IntoOf, Handless, Is
<1>7. FreshOf(x, r) \subseteq FreshOf(s, r) \ {p}
  BY <1>1 DEF FreshOf, Control, SenderOK
<1>8. WritersOf(e, x) \subseteq WritersOf(c, s)
  BY EndParts DEF WritersOf, Is
<1>9. PendingOf(ts, x) = PendingOf(ts, s)
  BY DEF PendingOf, Handless
<1>10. NoReader.pipe = NoPipe /\ e.buffered = c.buffered
  BY ReaderParts DEF Is
<1> HIDE DEF p
<1>11. View(e, x, r, ts, d, k, n, g)
  BY <1>1, <1>3, <1>4, <1>6, <1>7, <1>8, <1>9, <1>10, MoveDrainStart DEF View
<1> QED BY <1>5, <1>11 DEF Good

\* It moves an item from the old pipe to the new one.
LEMMA SenderDrains ==
  ASSUME NEW c, NEW s, NEW r, NEW ts, NEW d, NEW k, NEW n, NEW g,
         Good(c, s, r, ts, d, k, n, g), s.pc = "draining", Str(d, s.read) # <<>>,
         NEW d0 \in DataType,
         NEW x \in StrandType, x.pc = "draining", x.write = s.write, x.fresh = s.fresh,
         StrandOK(x), x.read.pipe = s.read.pipe, Str(d0, x.read) = Tail(Str(d, s.read)),
         \A q \in 1..MaxPipes : q # s.read.pipe => d0[q] = d[q],
         NEW v, v = Head(Str(d, s.read))
  PROVE  Good(c, x, r, ts, [d0 EXCEPT ![s.write] = Append(@, v)], k, n, g)
<1>1. Control(c, s, r, ts) /\ View(c, s, r, ts, d, k, n, g)
  BY DEF Good
<1>2. Control(c, x, r, ts)
  BY <1>1 DEF Control, SenderOK, StaleOf
<1>3. /\ OldOf(s, r) = s.read /\ IntoOf(s, r) = s.write
      /\ OldOf(x, r) = x.read /\ IntoOf(x, r) = s.write
      /\ WritersOf(c, x) = WritersOf(c, s) /\ PendingOf(ts, x) = PendingOf(ts, s)
      /\ FreshOf(x, r) = FreshOf(s, r)
  BY DEF OldOf, IntoOf, WritersOf, PendingOf, FreshOf
<1>4. s.read.pipe # NoPipe /\ x.read \in ReaderType
  BY <1>1 DEF Control, SenderOK, StrandType
<1>5. View(c, x, r, ts, [d0 EXCEPT ![s.write] = Append(@, v)], k, n, g)
  <2>1. Core(MainOf(c, r), s.read, s.write, WritersOf(c, s), PendingOf(ts, s), FreshOf(s, r),
             c.buffered, d, k, n, g)
    BY <1>1, <1>3 DEF View
  <2>2. Core(MainOf(c, r), x.read, s.write, WritersOf(c, s), PendingOf(ts, s), FreshOf(s, r),
             c.buffered, [d0 EXCEPT ![s.write] = Append(@, v)], k, n, g)
    BY <1>4, <2>1, MoveDrain
  <2> QED BY <1>3, <2>2 DEF View
<1> QED BY <1>2, <1>5 DEF Good

\* It is done with the old pipe, and the write end of the new one goes to the
\* channel.
LEMMA SenderDrained ==
  ASSUME NEW c, NEW s, NEW r, NEW ts, NEW d, NEW k, NEW n, NEW g,
         Good(c, s, r, ts, d, k, n, g), s.pc = "draining",
         NEW e, Is(e, c.state, c.buffered, SendEnd("present", s.write), c.recv,
                   c.sendClosed, c.recvClosed),
         NEW x \in StrandType, x.pc \in Handless, x.fresh = NoPipe, StrandOK(x)
  PROVE  Good(e, x, r, ts, d, k, n, g)
<1>1. Control(c, s, r, ts) /\ View(c, s, r, ts, d, k, n, g)
  BY DEF Good
<1>2. /\ s.read.pipe # NoPipe /\ r.pc # "draining" /\ ~c.sendClosed
      /\ s.fresh = NoPipe
  BY <1>1 DEF Control, SenderOK, StrandOK
<1>3. /\ OldOf(s, r) = s.read /\ IntoOf(s, r) = s.write
      /\ OldOf(x, r) = NoReader /\ IntoOf(x, r) = NoPipe
  BY <1>2 DEF OldOf, IntoOf, Handless
<1>4. s.write # NoPipe
  BY <1>1, <1>2, <1>3 DEF View, Core, DrainOK
<1>5. Control(e, x, r, ts)
  <2>1. SenderOK(e, x, r, ts)
    BY <1>1, <1>2 DEF Control, SenderOK, Is, Handless
  <2>2. ReceiverOK(e, r) /\ EndsOK(e)
    BY <1>1, <1>4, EndParts DEF Control, ReceiverOK, EndsOK, Is
  <2> QED BY <1>1, <2>1, <2>2 DEF Control, Is
<1>6. WritersOf(e, x) \subseteq WritersOf(c, s) \cup {s.write}
  BY EndParts DEF WritersOf, Is, Handless
<1>7. /\ PendingOf(ts, x) = PendingOf(ts, s) /\ FreshOf(x, r) = FreshOf(s, r)
      /\ MainOf(e, r) = MainOf(c, r) /\ e.buffered = c.buffered
  BY <1>2 DEF PendingOf, FreshOf, MainOf, Is, Handless
<1>8. View(e, x, r, ts, d, k, n, g)
  BY <1>1, <1>2, <1>3, <1>6, <1>7, MoveDrainEnd DEF View
<1> QED BY <1>5, <1>8 DEF Good

\* It has written the stale value, or could not, and the write end goes to the
\* channel or is dropped.
LEMMA SenderFlushes ==
  ASSUME NEW c, NEW s, NEW r, NEW ts, NEW d, NEW k, NEW n, NEW g,
         Good(c, s, r, ts, d, k, n, g), s.pc = "flushing",
         NEW snd, snd = c.send \/ snd = SendEnd("present", s.write),
         NEW e, Is(e, c.state, c.buffered, snd, c.recv, c.sendClosed, c.recvClosed),
         NEW f, f = d \/ f = [d EXCEPT ![s.write] = Append(@, s.stale)],
         NEW x \in StrandType, x.pc \in Handless, x.fresh = NoPipe, StrandOK(x)
  PROVE  Good(e, x, r, ts, f, k, n, g)
<1>1. Control(c, s, r, ts) /\ View(c, s, r, ts, d, k, n, g)
  BY DEF Good
<1>2. /\ s.write # NoPipe /\ ~c.sendClosed /\ s.fresh = NoPipe /\ StaleOf(s) \notin ts
  BY <1>1 DEF Control, SenderOK, StrandOK
<1>3. Control(e, x, r, ts)
  <2>1. SenderOK(e, x, r, ts)
    BY <1>1, <1>2 DEF Control, SenderOK, Is, Handless
  <2>2. ReceiverOK(e, r) /\ EndsOK(e)
    BY <1>1, <1>2, EndParts DEF Control, ReceiverOK, EndsOK, Is
  <2> QED BY <1>1, <2>1, <2>2 DEF Control, Is
<1>4. StaleOf(s).pipe = s.write /\ StaleOf(s).item = s.stale
  BY DEF StaleOf
<1>5. StaleOf(s) \in PendingOf(ts, s) /\ PendingOf(ts, x) \subseteq PendingOf(ts, s) \ {StaleOf(s)}
  BY <1>2 DEF PendingOf, Handless
<1>6. WritersOf(e, x) \subseteq WritersOf(c, s) \cup {s.write}
  BY EndParts DEF WritersOf, Is, Handless
<1>7. /\ OldOf(x, r) = OldOf(s, r) /\ IntoOf(x, r) = IntoOf(s, r) /\ FreshOf(x, r) = FreshOf(s, r)
      /\ MainOf(e, r) = MainOf(c, r) /\ e.buffered = c.buffered
  BY <1>2 DEF OldOf, IntoOf, FreshOf, MainOf, Is, Handless
<1>8. View(e, x, r, ts, f, k, n, g)
  BY <1>1, <1>4, <1>5, <1>6, <1>7, MovePending DEF View
<1> QED BY <1>3, <1>8 DEF Good

\* The same for a task.
LEMMA TaskFlushes ==
  ASSUME NEW c, NEW s, NEW r, NEW ts, NEW d, NEW k, NEW n, NEW g,
         Good(c, s, r, ts, d, k, n, g), NEW t \in ts,
         NEW snd, snd = c.send \/ snd = SendEnd("present", t.pipe),
         NEW e, Is(e, c.state, c.buffered, snd, c.recv, c.sendClosed, c.recvClosed),
         NEW f, f = d \/ f = [d EXCEPT ![t.pipe] = Append(@, t.item)]
  PROVE  Good(e, s, r, ts \ {t}, f, k, n, g)
<1>1. Control(c, s, r, ts) /\ View(c, s, r, ts, d, k, n, g)
  BY DEF Good
<1>2. t \in PendingOf(ts, s)
  BY DEF PendingOf
<1>3. t.pipe # NoPipe
  <2>1. CoreTypes(MainOf(c, r), OldOf(s, r), IntoOf(s, r), WritersOf(c, s), PendingOf(ts, s),
                  FreshOf(s, r), c.buffered, d, k, n, g)
    BY <1>1, CoreTyped DEF View
  <2> QED BY <1>2, <2>1 DEF CoreTypes
<1>4. Control(e, s, r, ts \ {t})
  <2>1. SenderOK(e, s, r, ts \ {t})
    BY <1>1 DEF Control, SenderOK, Is
  <2>2. ReceiverOK(e, r) /\ EndsOK(e)
    BY <1>1, <1>3, EndParts DEF Control, ReceiverOK, EndsOK, Is
  <2> QED BY <1>1, <2>1, <2>2 DEF Control, Is
<1>5. PendingOf(ts \ {t}, s) \subseteq PendingOf(ts, s) \ {t}
  <2>1. s.pc = "flushing" => StaleOf(s) # t
    BY <1>1 DEF Control, SenderOK
  <2> QED BY <2>1 DEF PendingOf
<1>6. WritersOf(e, s) \subseteq WritersOf(c, s) \cup {t.pipe}
  BY EndParts DEF WritersOf, Is
<1>7. MainOf(e, r) = MainOf(c, r) /\ e.buffered = c.buffered
  BY DEF MainOf, Is
<1>8. View(e, s, r, ts \ {t}, f, k, n, g)
  <2>1. Core(MainOf(c, r), OldOf(s, r), IntoOf(s, r), WritersOf(c, s), PendingOf(ts, s),
             FreshOf(s, r), c.buffered, d, k, n, g)
    BY <1>1 DEF View
  <2>2. Core(MainOf(c, r), OldOf(s, r), IntoOf(s, r), WritersOf(e, s), PendingOf(ts \ {t}, s),
             FreshOf(s, r), c.buffered, f, k, n, g)
    <3>1. PICK P1 : P1 = PendingOf(ts \ {t}, s)
      OBVIOUS
    <3>2. PICK W1 : W1 = WritersOf(e, s)
      OBVIOUS
    <3>3. P1 \subseteq PendingOf(ts, s) \ {t} /\ W1 \subseteq WritersOf(c, s) \cup {t.pipe}
      BY <1>5, <1>6, <3>1, <3>2
    <3>4. Core(MainOf(c, r), OldOf(s, r), IntoOf(s, r), W1, P1, FreshOf(s, r), c.buffered,
               f, k, n, g)
      BY <1>2, <2>1, <3>3, MovePending
    <3> QED BY <3>1, <3>2, <3>4
  <2> QED BY <1>7, <2>2 DEF View
<1> QED BY <1>4, <1>8 DEF Good

-----------------------------------------------------------------------------
(***************************************************************************)
(* Steps of the receiver.                                                  *)
(***************************************************************************)
\* It goes on without an end of a pipe.
LEMMA ReceiverRests ==
  ASSUME NEW c, NEW s, NEW r, NEW ts, NEW d, NEW k, NEW n, NEW g,
         Good(c, s, r, ts, d, k, n, g), r.pc \in Handless,
         NEW x \in StrandType, x.pc \in Handless, x.pc # "panicked", StrandOK(x),
         x.fresh \in {NoPipe, r.fresh}, c.recvClosed => x.pc = "closed"
  PROVE  Good(c, s, x, ts, d, k, n, g)
<1>1. Control(c, s, r, ts) /\ View(c, s, r, ts, d, k, n, g)
  BY DEF Good
<1>2. Control(c, s, x, ts)
  <2>1. SenderOK(c, s, x, ts)
    BY <1>1 DEF Control, SenderOK, Handless
  <2>2. ReceiverOK(c, x)
    BY DEF ReceiverOK, Handless
  <2> QED BY <1>1, <2>1, <2>2 DEF Control
<1>3. /\ OldOf(s, x) = OldOf(s, r) /\ IntoOf(s, x) = IntoOf(s, r) /\ MainOf(c, x) = MainOf(c, r)
  BY DEF OldOf, IntoOf, MainOf, Handless
<1>4. FreshOf(s, x) \subseteq FreshOf(s, r)
  BY DEF FreshOf
<1>5. View(c, s, x, ts, d, k, n, g)
  BY <1>1, <1>3, <1>4, MoveShrink DEF View
<1> QED BY <1>2, <1>5 DEF Good

\* It takes the read end out of the channel, to read or to duplicate it.
LEMMA ReceiverTakes ==
  ASSUME NEW c, NEW s, NEW r, NEW ts, NEW d, NEW k, NEW n, NEW g,
         Good(c, s, r, ts, d, k, n, g), r.pc \in Handless, c.recv.is = "present", ~c.recvClosed,
         NEW e, Is(e, c.state, c.buffered, c.send, TakenRecv, c.sendClosed, c.recvClosed),
         NEW x \in StrandType, x.read = c.recv.reader, x.fresh = NoPipe, x.script # <<>>,
         \/ x.pc = "reading" /\ c.state \in {"SendPipe", "Draining"}
         \/ /\ x.pc = "cloning" /\ c.state \in {"RecvPipe", "Direct"}
            /\ (c.state = "RecvPipe" /\ c.sendClosed) \/ c.recv.reader.buf = <<>>
  PROVE  Good(e, s, x, ts, d, k, n, g)
<1>1. Control(c, s, r, ts) /\ View(c, s, r, ts, d, k, n, g)
  BY DEF Good
<1>2. Control(e, s, x, ts)
  <2>1. SenderOK(e, s, x, ts)
    BY <1>1 DEF Control, SenderOK, Is
  <2>2. ReceiverOK(e, x) /\ EndsOK(e)
    BY <1>1, EndParts DEF Control, ReceiverOK, EndsOK, Is
  <2>3. StrandOK(x)
    BY DEF StrandOK
  <2> QED BY <1>1, <2>1, <2>2, <2>3 DEF Control, Is
<1>3. /\ OldOf(s, x) = OldOf(s, r) /\ IntoOf(s, x) = IntoOf(s, r)
      /\ MainOf(e, x) = MainOf(c, r) \/ MainOf(e, x) = Reader(MainOf(c, r).pipe, <<>>)
      /\ WritersOf(e, s) = WritersOf(c, s) /\ e.buffered = c.buffered
  BY DEF OldOf, IntoOf, MainOf, Handless, WritersOf, Is
<1>4. FreshOf(s, x) \subseteq FreshOf(s, r)
  BY DEF FreshOf
<1>5. View(e, s, x, ts, d, k, n, g)
  BY <1>1, <1>3, <1>4, MoveShrink DEF View
<1> QED BY <1>2, <1>5 DEF Good

\* It takes the value out of the slot.
LEMMA ReceiverTakesValue ==
  ASSUME NEW c, NEW s, NEW r, NEW ts, NEW d, NEW k, NEW n, NEW g,
         Good(c, s, r, ts, d, k, n, g), c.buffered # 0,
         NEW e, Is(e, c.state, 0, c.send, c.recv, c.sendClosed, c.recvClosed)
  PROVE  Good(e, s, r, ts, d, k, n, Append(g, c.buffered))
<1>1. Control(c, s, r, ts) /\ View(c, s, r, ts, d, k, n, g)
  BY DEF Good
<1>2. Control(e, s, r, ts)
  BY <1>1 DEF Control, SenderOK, ReceiverOK, EndsOK, Is
<1>3. MainOf(e, r) = MainOf(c, r) /\ WritersOf(e, s) = WritersOf(c, s) /\ e.buffered = 0
  BY DEF MainOf, WritersOf, Is
<1>4. View(e, s, r, ts, d, k, n, Append(g, c.buffered))
  BY <1>1, <1>3, MoveTake DEF View
<1> QED BY <1>2, <1>4 DEF Good

\* It reads an item, and the read end goes back to the channel.
LEMMA ReceiverReads ==
  ASSUME NEW c, NEW s, NEW r, NEW ts, NEW d, NEW k, NEW n, NEW g,
         Good(c, s, r, ts, d, k, n, g), r.pc = "reading", Str(d, r.read) # <<>>,
         NEW d1 \in DataType, NEW m1 \in ReaderType, m1.pipe = r.read.pipe,
         Str(d1, m1) = Tail(Str(d, r.read)),
         \A q \in 1..MaxPipes : q # r.read.pipe => d1[q] = d[q],
         NEW e, Is(e, c.state, c.buffered, c.send, RecvEnd("present", m1),
                   c.sendClosed, c.recvClosed),
         NEW x \in StrandType, x.pc \in Handless, x.pc # "panicked", StrandOK(x), x.fresh = NoPipe,
         NEW v, v = Head(Str(d, r.read))
  PROVE  Good(e, s, x, ts, d1, k, n, Append(g, v))
<1>1. Control(c, s, r, ts) /\ View(c, s, r, ts, d, k, n, g)
  BY DEF Good
<1>2. /\ r.read.pipe # NoPipe /\ ~c.recvClosed /\ r.fresh = NoPipe /\ c.recv.is = "taken"
      /\ c.state \in {"SendPipe", "Draining"}
  BY <1>1 DEF Control, ReceiverOK, StrandOK
<1>3. Control(e, s, x, ts)
  <2>1. SenderOK(e, s, x, ts)
    BY <1>1 DEF Control, SenderOK, Is, Handless
  <2>2. ReceiverOK(e, x)
    BY <1>2 DEF ReceiverOK, Is, Handless
  <2>3. EndsOK(e)
    BY <1>1, <1>2, EndParts DEF Control, EndsOK, Is
  <2> QED BY <1>1, <2>1, <2>2, <2>3 DEF Control, Is
<1>4. /\ OldOf(s, x) = OldOf(s, r) /\ IntoOf(s, x) = IntoOf(s, r)
      /\ MainOf(c, r) = r.read /\ MainOf(e, x) = m1
      /\ WritersOf(e, s) = WritersOf(c, s) /\ e.buffered = c.buffered
      /\ FreshOf(s, x) = FreshOf(s, r)
  BY <1>2, EndParts DEF OldOf, IntoOf, MainOf, Handless, WritersOf, Is, FreshOf
<1>5. View(e, s, x, ts, d1, k, n, Append(g, v))
  <2>1. Core(r.read, OldOf(s, r), IntoOf(s, r), WritersOf(c, s), PendingOf(ts, s),
             FreshOf(s, r), c.buffered, d, k, n, g)
    BY <1>1, <1>4 DEF View
  <2>2. Core(m1, OldOf(s, r), IntoOf(s, r), WritersOf(c, s), PendingOf(ts, s),
             FreshOf(s, r), c.buffered, d1, k, n, Append(g, Head(Str(d, r.read))))
    BY <1>2, <2>1, MoveRead
  <2> QED BY <1>4, <2>2 DEF View
<1> QED BY <1>3, <1>5 DEF Good

\* It has read its pipe to the end: the channel is back to values.
LEMMA ReceiverEnds ==
  ASSUME NEW c, NEW s, NEW r, NEW ts, NEW d, NEW k, NEW n, NEW g,
         Good(c, s, r, ts, d, k, n, g), r.pc = "reading", s.pc # "draining",
         NEW e, Is(e, "Value", c.buffered, c.send, c.recv, c.sendClosed, c.recvClosed),
         NEW x \in StrandType, x.pc \in Handless, x.pc # "panicked", StrandOK(x), x.fresh = NoPipe
  PROVE  Good(e, s, x, ts, d, k, n, g)
<1>1. Control(c, s, r, ts) /\ View(c, s, r, ts, d, k, n, g)
  BY DEF Good
<1>2. c.recv.is = "taken" /\ ~c.recvClosed
  BY <1>1 DEF Control, ReceiverOK
<1>3. Control(e, s, x, ts)
  <2>1. SenderOK(e, s, x, ts)
    BY <1>1 DEF Control, SenderOK, Is, Handless
  <2>2. ReceiverOK(e, x)
    BY <1>2 DEF ReceiverOK, Is, Handless
  <2>3. EndsOK(e)
    BY <1>1, <1>2 DEF Control, EndsOK, Is
  <2> QED BY <1>1, <2>1, <2>2, <2>3 DEF Control, Is
<1>4. /\ OldOf(s, x) = OldOf(s, r) /\ IntoOf(s, x) = IntoOf(s, r) /\ MainOf(e, x) = NoReader
      /\ WritersOf(e, s) = WritersOf(c, s) /\ e.buffered = c.buffered
  BY <1>2 DEF OldOf, IntoOf, MainOf, Handless, WritersOf, Is
<1>5. FreshOf(s, x) \subseteq FreshOf(s, r)
  BY DEF FreshOf
<1>6. View(e, s, x, ts, d, k, n, g)
  BY <1>1, <1>4, <1>5, MoveShrink DEF View
<1> QED BY <1>3, <1>6 DEF Good

\* It has opened a pipe.
LEMMA ReceiverOpens ==
  ASSUME NEW c, NEW s, NEW r, NEW ts, NEW d, NEW k, NEW n, NEW g,
         Good(c, s, r, ts, d, k, n, g), r.pc = "opening", k < MaxPipes,
         NEW x \in StrandType, x.pc = "negotiating", x.fresh = k + 1, x.script # <<>>
  PROVE  Good(c, s, x, ts, d, k + 1, n, g)
<1>1. Control(c, s, r, ts) /\ View(c, s, r, ts, d, k, n, g)
  BY DEF Good
<1>2. CoreTypes(MainOf(c, r), OldOf(s, r), IntoOf(s, r), WritersOf(c, s), PendingOf(ts, s),
                FreshOf(s, r), c.buffered, d, k, n, g)
  BY <1>1, CoreTyped DEF View
<1>3. k \in Nat /\ k + 1 # NoPipe /\ ~(k + 1 <= k)
  BY <1>2, PipeIdsFact DEF CoreTypes, PipeIds, NoPipe
<1>4. s.fresh # k + 1
  <2>1. \A p \in FreshOf(s, r) : p <= k
    BY <1>1 DEF View, Core, FreshOK
  <2> QED BY <1>3, <2>1 DEF FreshOf
<1>5. Control(c, s, x, ts)
  <2>1. SenderOK(c, s, x, ts) /\ ReceiverOK(c, x)
    BY <1>1, <1>4 DEF Control, SenderOK, ReceiverOK
  <2>2. StrandOK(x)
    BY DEF StrandOK
  <2> QED BY <1>1, <2>1, <2>2 DEF Control
<1>6. /\ OldOf(s, x) = OldOf(s, r) /\ IntoOf(s, x) = IntoOf(s, r) /\ MainOf(c, x) = MainOf(c, r)
  BY DEF OldOf, IntoOf, MainOf
<1>7. FreshOf(s, x) = FreshOf(s, r) \cup {k + 1}
  <2>1. r.fresh = NoPipe
    BY <1>1 DEF Control, StrandOK
  <2> QED BY <1>3, <2>1 DEF FreshOf
<1>8. View(c, s, x, ts, d, k + 1, n, g)
  BY <1>1, <1>6, <1>7, MoveOpen DEF View
<1> QED BY <1>5, <1>8 DEF Good

\* It puts its pipe to use where there was a value or nothing; a value that was
\* in the slot is left to a task.
LEMMA ReceiverPipes ==
  ASSUME NEW c, NEW s, NEW r, NEW ts, NEW d, NEW k, NEW n, NEW g,
         Good(c, s, r, ts, d, k, n, g), r.pc \in Handless, c.state = "Value", ~c.recvClosed,
         r.fresh # NoPipe, NEW snd, NEW ts1,
         NEW e, Is(e, "RecvPipe", 0, snd, RecvEnd("present", Reader(r.fresh, <<>>)),
                   c.sendClosed, c.recvClosed),
         NEW x \in StrandType, x.pc \in Handless, x.pc # "panicked", x.fresh = NoPipe, StrandOK(x),
         \/ ts1 = ts /\ snd \in {SendEnd("present", r.fresh), TakenSend}
         \/ /\ ts1 = ts \cup {[pipe |-> r.fresh, item |-> c.buffered]}
            /\ snd = TakenSend /\ c.buffered # 0
  PROVE  Good(e, s, x, ts1, d, k, n, g)
<1> DEFINE p == r.fresh
           t == [pipe |-> p, item |-> c.buffered]
           W1 == IF ts1 = ts THEN WritersOf(c, s) \cup {p} ELSE WritersOf(c, s)
<1>1. Control(c, s, r, ts) /\ View(c, s, r, ts, d, k, n, g)
  BY DEF Good
<1>2. CoreTypes(MainOf(c, r), OldOf(s, r), IntoOf(s, r), WritersOf(c, s), PendingOf(ts, s),
                FreshOf(s, r), c.buffered, d, k, n, g)
  BY <1>1, CoreTyped DEF View
<1>3. p \in FreshOf(s, r) /\ p \in 1..MaxPipes /\ t.pipe = p
  BY <1>2 DEF FreshOf, CoreTypes
<1>4. \A u \in PendingOf(ts, s) : u.pipe # p
  BY <1>1, <1>3 DEF View, Core, FreshOK
<1>5. s.pc # "draining" /\ c.recv.is # "present"
  BY <1>1 DEF Control, SenderOK, EndsOK
<1>6. Control(e, s, x, ts1)
  <2>1. SenderOK(e, s, x, ts1)
    <3>1. s.pc = "flushing" => StaleOf(s) \notin ts1
      <4>1. s.pc = "flushing" => StaleOf(s) \in PendingOf(ts, s)
        BY DEF PendingOf
      <4>2. s.pc = "flushing" => StaleOf(s) # t /\ StaleOf(s) \notin ts
        BY <1>1, <1>3, <1>4, <4>1 DEF Control, SenderOK
      <4> QED BY <4>2
    <3> QED BY <1>1, <1>5, <3>1 DEF Control, SenderOK, Is, Handless
  <2>2. ReceiverOK(e, x)
    BY DEF ReceiverOK, Is, Handless
  <2>3. EndsOK(e)
    BY <1>3, EndParts, ReaderParts, PipeIdsFact DEF EndsOK, Is
  <2>4. ts1 \subseteq TaskType
    <3>1. p \in PipeIds /\ c.buffered \in Nat
      BY <1>1 DEF Control, StrandType, ChannelType
    <3>2. t \in TaskType
      BY <3>1 DEF TaskType
    <3> QED BY <1>1, <3>2 DEF Control
  <2> QED BY <1>1, <2>1, <2>2, <2>3, <2>4 DEF Control, Is
<1>7. /\ MainOf(c, r) = NoReader /\ OldOf(s, r) = NoReader /\ IntoOf(s, r) = NoPipe
      /\ OldOf(s, x) = NoReader /\ IntoOf(s, x) = NoPipe /\ MainOf(e, x) = Reader(p, <<>>)
  BY <1>5, EndParts DEF MainOf, OldOf, IntoOf, Handless, Is
<1>8. FreshOf(s, x) \subseteq FreshOf(s, r) \ {p}
  BY <1>1 DEF FreshOf, Control, SenderOK
<1>9. WritersOf(e, s) \subseteq W1
  BY <1>3, EndParts DEF WritersOf, Is
<1>10. \/ W1 = WritersOf(c, s) \cup {p} /\ PendingOf(ts1, s) = PendingOf(ts, s)
       \/ /\ W1 = WritersOf(c, s) /\ c.buffered # 0
          /\ PendingOf(ts1, s) = PendingOf(ts, s) \cup {t}
  <2>1. CASE ts1 = ts
    BY <2>1
  <2>2. CASE ts1 # ts
    BY <2>2 DEF PendingOf
  <2> QED BY <2>1, <2>2
<1>11. NoReader.pipe = NoPipe
  BY ReaderParts
<1>12. Core(Reader(p, <<>>), NoReader, NoPipe, W1, PendingOf(ts1, s), FreshOf(s, x), 0, d, k, n, g)
  <2> HIDE DEF p, W1
  <2> QED BY <1>1, <1>3, <1>7, <1>8, <1>10, <1>11, MoveFresh DEF View
<1> HIDE DEF p, W1
<1>13. Core(Reader(p, <<>>), NoReader, NoPipe, WritersOf(e, s), PendingOf(ts1, s), FreshOf(s, x),
            0, d, k, n, g)
  BY <1>9, <1>12, MoveShrink
<1>14. View(e, s, x, ts1, d, k, n, g)
  BY <1>7, <1>13 DEF View, Is
<1> QED BY <1>6, <1>14 DEF Good

\* It joins the pipe of an upstream program.
LEMMA ReceiverJoins ==
  ASSUME NEW c, NEW s, NEW r, NEW ts, NEW d, NEW k, NEW n, NEW g,
         Good(c, s, r, ts, d, k, n, g), r.pc \in Handless, c.state = "SendPipe",
         c.recv.is = "present",
         NEW e, Is(e, "Direct", c.buffered, c.send,
                   RecvEnd("present", Reader(c.recv.reader.pipe, <<>>)), c.sendClosed, c.recvClosed)
  PROVE  Good(e, s, r, ts, d, k, n, g)
<1>1. Control(c, s, r, ts) /\ View(c, s, r, ts, d, k, n, g)
  BY DEF Good
<1>2. Reader(c.recv.reader.pipe, <<>>).pipe = c.recv.reader.pipe
  BY DEF Reader
<1>3. Control(e, s, r, ts)
  <2>1. SenderOK(e, s, r, ts) /\ ReceiverOK(e, r)
    BY <1>1 DEF Control, SenderOK, ReceiverOK, Is, Handless
  <2>2. EndsOK(e)
    BY <1>1, <1>2, EndParts DEF Control, EndsOK, Is
  <2> QED BY <1>1, <2>1, <2>2 DEF Control, Is
<1>4. /\ MainOf(e, r) = Reader(MainOf(c, r).pipe, <<>>) /\ WritersOf(e, s) = WritersOf(c, s)
      /\ e.buffered = c.buffered
  BY EndParts DEF MainOf, WritersOf, Is, Handless
<1>5. View(e, s, r, ts, d, k, n, g)
  BY <1>1, <1>4, MoveShrink DEF View
<1> QED BY <1>3, <1>5 DEF Good

\* The upstream stage is over: it reads what is left.
LEMMA ReceiverAdopts ==
  ASSUME NEW c, NEW s, NEW r, NEW ts, NEW d, NEW k, NEW n, NEW g,
         Good(c, s, r, ts, d, k, n, g), r.pc \in Handless, c.state = "Draining", c.sendClosed,
         NEW e, Is(e, "RecvPipe", c.buffered, c.send, c.recv, c.sendClosed, c.recvClosed)
  PROVE  Good(e, s, r, ts, d, k, n, g)
<1>1. Control(c, s, r, ts) /\ View(c, s, r, ts, d, k, n, g)
  BY DEF Good
<1>2. Control(e, s, r, ts)
  BY <1>1 DEF Control, SenderOK, ReceiverOK, EndsOK, Is, Handless
<1>3. MainOf(e, r) = MainOf(c, r) /\ WritersOf(e, s) = WritersOf(c, s) /\ e.buffered = c.buffered
  BY DEF MainOf, WritersOf, Is
<1>4. View(e, s, r, ts, d, k, n, g)
  BY <1>1, <1>3 DEF View
<1> QED BY <1>2, <1>4 DEF Good

\* It replaces the pipe that is read from, and will drain it first.
LEMMA ReceiverReplaces ==
  ASSUME NEW c, NEW s, NEW r, NEW ts, NEW d, NEW k, NEW n, NEW g,
         Good(c, s, r, ts, d, k, n, g), r.pc \in Handless, c.state = "Draining", ~c.recvClosed,
         c.recv.is = "present", r.fresh # NoPipe,
         NEW e, Is(e, "RecvPipe", c.buffered, TakenSend, RecvEnd("present", Reader(r.fresh, <<>>)),
                   c.sendClosed, c.recvClosed),
         NEW x \in StrandType, x.pc = "draining", x.fresh = NoPipe, StrandOK(x),
         x.write = r.fresh, x.read = c.recv.reader
  PROVE  Good(e, s, x, ts, d, k, n, g)
<1> DEFINE p == r.fresh
<1>1. Control(c, s, r, ts) /\ View(c, s, r, ts, d, k, n, g)
  BY DEF Good
<1>2. CoreTypes(MainOf(c, r), OldOf(s, r), IntoOf(s, r), WritersOf(c, s), PendingOf(ts, s),
                FreshOf(s, r), c.buffered, d, k, n, g)
  BY <1>1, CoreTyped DEF View
<1>3. p \in FreshOf(s, r) /\ p \in 1..MaxPipes
  BY <1>2 DEF FreshOf, CoreTypes
<1>4. s.pc # "draining" /\ c.recv.reader.pipe # NoPipe
  BY <1>1 DEF Control, SenderOK, EndsOK
<1>5. Reader(p, <<>>).pipe = p /\ Reader(p, <<>>).buf = <<>> /\ p # NoPipe
  BY <1>3, PipeIdsFact DEF Reader
<1>6. Control(e, s, x, ts)
  <2>1. SenderOK(e, s, x, ts)
    BY <1>1, <1>4 DEF Control, SenderOK, Is
  <2>2. ReceiverOK(e, x)
    BY <1>4, <1>5, EndParts DEF ReceiverOK, Is
  <2>3. EndsOK(e)
    BY <1>1, <1>5, EndParts DEF Control, EndsOK, Is
  <2> QED BY <1>1, <2>1, <2>2, <2>3 DEF Control, Is
<1>7. /\ MainOf(c, r) = c.recv.reader /\ OldOf(s, r) = NoReader
      /\ OldOf(s, x) = c.recv.reader /\ IntoOf(s, x) = p /\ MainOf(e, x) = Reader(p, <<>>)
  BY <1>4, EndParts DEF MainOf, OldOf, IntoOf, Handless, Is
<1>8. FreshOf(s, x) \subseteq FreshOf(s, r) \ {p}
  BY <1>1 DEF FreshOf, Control, SenderOK
<1>9. WritersOf(e, s) \subseteq WritersOf(c, s)
  BY EndParts DEF WritersOf, Is
<1>10. NoReader.pipe = NoPipe /\ e.buffered = c.buffered
  BY ReaderParts DEF Is
<1> HIDE DEF p
<1>11. View(e, s, x, ts, d, k, n, g)
  BY <1>1, <1>3, <1>4, <1>7, <1>8, <1>9, <1>10, MoveDrainStart DEF View
<1> QED BY <1>6, <1>11 DEF Good

\* It moves an item from the old pipe to the new one.
LEMMA ReceiverDrains ==
  ASSUME NEW c, NEW s, NEW r, NEW ts, NEW d, NEW k, NEW n, NEW g,
         Good(c, s, r, ts, d, k, n, g), r.pc = "draining", Str(d, r.read) # <<>>,
         NEW d0 \in DataType,
         NEW x \in StrandType, x.pc = "draining", x.write = r.write, x.fresh = r.fresh,
         StrandOK(x), x.read.pipe = r.read.pipe, Str(d0, x.read) = Tail(Str(d, r.read)),
         \A q \in 1..MaxPipes : q # r.read.pipe => d0[q] = d[q],
         NEW v, v = Head(Str(d, r.read))
  PROVE  Good(c, s, x, ts, [d0 EXCEPT ![r.write] = Append(@, v)], k, n, g)
<1>1. Control(c, s, r, ts) /\ View(c, s, r, ts, d, k, n, g)
  BY DEF Good
<1>2. Control(c, s, x, ts)
  BY <1>1 DEF Control, SenderOK, ReceiverOK
<1>3. s.pc # "draining"
  BY <1>1 DEF Control, SenderOK
<1>4. /\ OldOf(s, r) = r.read /\ IntoOf(s, r) = r.write
      /\ OldOf(s, x) = x.read /\ IntoOf(s, x) = r.write
      /\ MainOf(c, x) = MainOf(c, r) /\ FreshOf(s, x) = FreshOf(s, r)
  BY <1>3 DEF OldOf, IntoOf, MainOf, FreshOf
<1>5. r.read.pipe # NoPipe /\ x.read \in ReaderType
  BY <1>1 DEF Control, ReceiverOK, StrandType
<1>6. View(c, s, x, ts, [d0 EXCEPT ![r.write] = Append(@, v)], k, n, g)
  <2>1. Core(MainOf(c, r), r.read, r.write, WritersOf(c, s), PendingOf(ts, s), FreshOf(s, r),
             c.buffered, d, k, n, g)
    BY <1>1, <1>4 DEF View
  <2>2. Core(MainOf(c, r), x.read, r.write, WritersOf(c, s), PendingOf(ts, s), FreshOf(s, r),
             c.buffered, [d0 EXCEPT ![r.write] = Append(@, v)], k, n, g)
    BY <1>5, <2>1, MoveDrain
  <2> QED BY <1>4, <2>2 DEF View
<1> QED BY <1>2, <1>6 DEF Good

\* It is done with the old pipe, and the write end of the new one goes to the
\* channel or is dropped.
LEMMA ReceiverDrained ==
  ASSUME NEW c, NEW s, NEW r, NEW ts, NEW d, NEW k, NEW n, NEW g,
         Good(c, s, r, ts, d, k, n, g), r.pc = "draining",
         NEW snd, snd \in {c.send, SendEnd("present", r.write)},
         NEW e, Is(e, c.state, c.buffered, snd, c.recv, c.sendClosed, c.recvClosed),
         NEW x \in StrandType, x.pc \in Handless, x.pc # "panicked", x.fresh = NoPipe, StrandOK(x)
  PROVE  Good(e, s, x, ts, d, k, n, g)
<1>1. Control(c, s, r, ts) /\ View(c, s, r, ts, d, k, n, g)
  BY DEF Good
<1>2. /\ r.read.pipe # NoPipe /\ s.pc # "draining" /\ ~c.recvClosed /\ r.fresh = NoPipe
  BY <1>1 DEF Control, SenderOK, ReceiverOK, StrandOK
<1>3. /\ OldOf(s, r) = r.read /\ IntoOf(s, r) = r.write
      /\ OldOf(s, x) = NoReader /\ IntoOf(s, x) = NoPipe
  BY <1>2 DEF OldOf, IntoOf, Handless
<1>4. r.write # NoPipe
  BY <1>1, <1>2, <1>3 DEF View, Core, DrainOK
<1>5. Control(e, s, x, ts)
  <2>1. SenderOK(e, s, x, ts)
    BY <1>1, <1>2 DEF Control, SenderOK, Is, Handless
  <2>2. ReceiverOK(e, x)
    BY <1>2 DEF ReceiverOK, Is, Handless
  <2>3. EndsOK(e)
    BY <1>1, <1>4, EndParts DEF Control, EndsOK, Is
  <2> QED BY <1>1, <2>1, <2>2, <2>3 DEF Control, Is
<1>6. WritersOf(e, s) \subseteq WritersOf(c, s) \cup {r.write}
  BY EndParts DEF WritersOf, Is
<1>7. /\ FreshOf(s, x) = FreshOf(s, r) /\ MainOf(e, x) = MainOf(c, r) /\ e.buffered = c.buffered
  BY <1>2 DEF FreshOf, MainOf, Is, Handless
<1>8. View(e, s, x, ts, d, k, n, g)
  BY <1>1, <1>2, <1>3, <1>6, <1>7, MoveDrainEnd DEF View
<1> QED BY <1>5, <1>8 DEF Good

\* The read end goes back, and its program has a duplicate.
LEMMA ReceiverLaunches ==
  ASSUME NEW c, NEW s, NEW r, NEW ts, NEW d, NEW k, NEW n, NEW g,
         Good(c, s, r, ts, d, k, n, g), r.pc = "cloning",
         NEW e, Is(e, c.state, c.buffered, c.send, RecvEnd("present", r.read),
                   c.sendClosed, c.recvClosed),
         NEW x \in StrandType, x.pc = "running", x.prog = r.read.pipe, x.fresh = NoPipe,
         StrandOK(x)
  PROVE  Good(e, s, x, ts, d, k, n, g)
<1>1. Control(c, s, r, ts) /\ View(c, s, r, ts, d, k, n, g)
  BY DEF Good
<1>2. r.fresh = NoPipe
  BY <1>1 DEF Control, StrandOK
<1>3. Control(e, s, x, ts)
  <2>1. SenderOK(e, s, x, ts)
    BY <1>1 DEF Control, SenderOK, Is
  <2>2. ReceiverOK(e, x)
    BY <1>1, EndParts DEF Control, ReceiverOK, Is
  <2>3. EndsOK(e)
    BY <1>1, EndParts DEF Control, EndsOK, ReceiverOK, Is
  <2> QED BY <1>1, <2>1, <2>2, <2>3 DEF Control, Is
<1>4. /\ OldOf(s, x) = OldOf(s, r) /\ IntoOf(s, x) = IntoOf(s, r) /\ MainOf(e, x) = MainOf(c, r)
      /\ WritersOf(e, s) = WritersOf(c, s) /\ FreshOf(s, x) = FreshOf(s, r)
      /\ e.buffered = c.buffered
  BY <1>2 DEF OldOf, IntoOf, MainOf, WritersOf, FreshOf, Is
<1>5. View(e, s, x, ts, d, k, n, g)
  BY <1>1, <1>4 DEF View
<1> QED BY <1>3, <1>5 DEF Good

\* Its program reads an item.
LEMMA ReceiverRuns ==
  ASSUME NEW c, NEW s, NEW r, NEW ts, NEW d, NEW k, NEW n, NEW g,
         Good(c, s, r, ts, d, k, n, g), r.pc = "running", d[r.prog] # <<>>
  PROVE  Good(c, s, r, ts, [d EXCEPT ![r.prog] = Tail(@)], k, n, Append(g, Head(d[r.prog])))
<1> DEFINE p == r.prog
           m == Reader(p, <<>>)
           e == [d EXCEPT ![p] = Tail(@)]
<1>1. Control(c, s, r, ts) /\ View(c, s, r, ts, d, k, n, g)
  BY DEF Good
<1>2. MainOf(c, r) = m
  BY DEF MainOf
<1>3. CoreTypes(m, OldOf(s, r), IntoOf(s, r), WritersOf(c, s), PendingOf(ts, s),
                FreshOf(s, r), c.buffered, d, k, n, g)
  BY <1>1, <1>2, CoreTyped DEF View
<1>4. p # NoPipe /\ p \in 1..MaxPipes /\ m.pipe = p /\ m \in ReaderType /\ d \in DataType
  <2>1. p # NoPipe /\ p \in PipeIds
    BY <1>1 DEF Control, ReceiverOK, StrandType
  <2>2. m \in ReaderType /\ d \in DataType
    BY <1>3 DEF CoreTypes
  <2>3. m.pipe = p
    BY DEF Reader
  <2> QED BY <2>1, <2>2, <2>3, StrOfEmpty
<1>5. d[p] \in Seq(Nat) /\ d[p] # <<>>
  BY <1>4 DEF DataType
<1>6. Tail(d[p]) \in Seq(Nat)
  BY <1>5, TailPlaces
<1>7. e \in DataType /\ e[p] = Tail(d[p]) /\ \A q \in 1..MaxPipes : q # p => e[q] = d[q]
  BY <1>4, <1>6 DEF DataType
<1>8. Str(d, m) = d[p] /\ Str(e, m) = Tail(d[p])
  <2> HIDE DEF e
  <2> QED BY <1>4, <1>7, StrOfEmpty
<1>9. Core(m, OldOf(s, r), IntoOf(s, r), WritersOf(c, s), PendingOf(ts, s),
           FreshOf(s, r), c.buffered, d, k, n, g)
  BY <1>1, <1>2 DEF View
<1>10. Core(m, OldOf(s, r), IntoOf(s, r), WritersOf(c, s), PendingOf(ts, s),
            FreshOf(s, r), c.buffered, e, k, n, Append(g, Head(d[p])))
  <2> HIDE DEF e, m
  <2> QED BY <1>4, <1>5, <1>7, <1>8, <1>9, MoveRead
<1>11. View(c, s, r, ts, e, k, n, Append(g, Head(d[p])))
  BY <1>2, <1>10 DEF View
<1> QED BY <1>1, <1>11 DEF Good

\* Its program has exited: recv_done.
LEMMA ReceiverExits ==
  ASSUME NEW c, NEW s, NEW r, NEW ts, NEW d, NEW k, NEW n, NEW g,
         Good(c, s, r, ts, d, k, n, g), r.pc = "running",
         NEW x \in StrandType, x.pc \in Handless, x.pc # "panicked", StrandOK(x), x.fresh = NoPipe
  PROVE  MayRecvDone(c) /\ Good(RecvDone(c), s, x, ts, d, k, n, g)
<1> DEFINE drop == c.state = "RecvPipe" /\ (c.sendClosed \/ c.send.is # "absent")
           st == IF c.state = "Direct" THEN "SendPipe" ELSE IF drop THEN "Value" ELSE "Draining"
           rcv == IF drop THEN NoRecv ELSE c.recv
           snd == IF drop /\ ~c.sendClosed THEN NoSend ELSE c.send
           e == [c EXCEPT !.state = st, !.recv = rcv, !.send = snd]
<1>1. Control(c, s, r, ts) /\ View(c, s, r, ts, d, k, n, g)
  BY DEF Good
<1>2. /\ c.state \in {"RecvPipe", "Direct"} /\ c.recv.is = "present" /\ c.recv.reader.pipe = r.prog
      /\ ~c.recvClosed /\ r.fresh = NoPipe /\ c \in ChannelType /\ c.recv.reader \in ReaderType
      /\ ~drop => c.recv.reader.buf = <<>>
  BY <1>1 DEF Control, ReceiverOK, StrandOK, ChannelType
<1>3. Is(e, st, c.buffered, snd, rcv, c.sendClosed, c.recvClosed)
  <2>1. /\ st \in States /\ snd \in [is : Ends, pipe : PipeIds]
        /\ rcv \in [is : Ends, reader : ReaderType]
    <3>1. NoSend \in [is : Ends, pipe : PipeIds] /\ NoRecv \in [is : Ends, reader : ReaderType]
      BY PipeIdsFact, ReaderParts DEF NoSend, SendEnd, NoRecv, RecvEnd, Ends
    <3> QED BY <1>2, <3>1 DEF States, ChannelType
  <2> HIDE DEF st, snd, rcv
  <2> QED BY <1>2, <2>1 DEF ChannelType, Is
<1>4. Same(e, RecvDone(c))
  <2>1. Same(e, e)
    BY <1>3 DEF Same, Is
  <2>2. \/ RecvDone(c) = WakeReceivers(WakeNegotiators(e))
        \/ RecvDone(c) = WakeAll(e)
    <3>1. CASE c.state = "Direct"
      <4>1. e = [c EXCEPT !.state = "SendPipe"]
        BY <1>2, <3>1 DEF ChannelType
      <4> QED BY <3>1, <4>1 DEF RecvDone
    <3>2. CASE c.state = "RecvPipe" /\ c.sendClosed
      <4>1. e = [c EXCEPT !.state = "Value", !.recv = NoRecv]
        BY <1>2, <3>2 DEF ChannelType
      <4> QED BY <3>2, <4>1 DEF RecvDone
    <3>3. CASE c.state = "RecvPipe" /\ ~c.sendClosed /\ c.send.is = "absent"
      <4>1. e = [c EXCEPT !.state = "Draining"]
        BY <1>2, <3>3 DEF ChannelType
      <4> QED BY <3>3, <4>1 DEF RecvDone
    <3>4. CASE c.state = "RecvPipe" /\ ~c.sendClosed /\ c.send.is # "absent"
      <4>1. e = [c EXCEPT !.state = "Value", !.recv = NoRecv, !.send = NoSend]
        BY <1>2, <3>4 DEF ChannelType
      <4> QED BY <3>4, <4>1 DEF RecvDone
    <3> QED BY <1>2, <3>1, <3>2, <3>3, <3>4
  <2> QED BY <2>1, <2>2, SameWake
<1> HIDE DEF e
<1>5. Control(e, s, x, ts)
  <2>1. SenderOK(e, s, x, ts)
    BY <1>1, <1>2, <1>3 DEF Control, SenderOK, Is, Handless
  <2>2. ReceiverOK(e, x)
    BY <1>2, <1>3 DEF ReceiverOK, Is, Handless
  <2>3. EndsOK(e)
    BY <1>1, <1>2, <1>3, EndParts DEF Control, EndsOK, Is
  <2> QED BY <1>1, <1>3, <2>1, <2>2, <2>3 DEF Control, Is
<1>6. MainOf(e, x) = MainOf(c, r) \/ MainOf(e, x) = NoReader
  <2>1. CASE drop
    BY <1>3, <2>1, EndParts DEF MainOf, Handless, Is
  <2>2. CASE ~drop
    <3>1. c.recv.reader = Reader(r.prog, <<>>)
      BY <1>2, <2>2 DEF ReaderType, Reader
    <3> QED BY <1>2, <1>3, <2>2, <3>1 DEF MainOf, Handless, Is
  <2> QED BY <2>1, <2>2
<1>7. /\ OldOf(s, x) = OldOf(s, r) /\ IntoOf(s, x) = IntoOf(s, r) /\ FreshOf(s, x) = FreshOf(s, r)
      /\ e.buffered = c.buffered
  BY <1>2, <1>3 DEF OldOf, IntoOf, FreshOf, Handless, Is
<1>8. WritersOf(e, s) \subseteq WritersOf(c, s)
  BY <1>3, EndParts DEF WritersOf, Is
<1>9. View(e, s, x, ts, d, k, n, g)
  BY <1>1, <1>6, <1>7, <1>8, MoveShrink DEF View
<1>10. Good(e, s, x, ts, d, k, n, g)
  BY <1>5, <1>9 DEF Good
<1>11. MayRecvDone(c)
  BY <1>2 DEF MayRecvDone
<1> QED BY <1>4, <1>10, <1>11, SameGood

\* It closes its end.
LEMMA ReceiverCloses ==
  ASSUME NEW c, NEW s, NEW r, NEW ts, NEW d, NEW k, NEW n, NEW g,
         Good(c, s, r, ts, d, k, n, g), r.pc \in Handless,
         NEW e, Is(e, c.state, c.buffered, c.send, NoRecv, c.sendClosed, TRUE),
         NEW x \in StrandType, x.pc = "closed", x.fresh = NoPipe
  PROVE  Good(e, s, x, ts, d, k, n, g)
<1>1. Control(c, s, r, ts) /\ View(c, s, r, ts, d, k, n, g)
  BY DEF Good
<1>2. Control(e, s, x, ts)
  <2>1. SenderOK(e, s, x, ts)
    BY <1>1 DEF Control, SenderOK, Is
  <2>2. ReceiverOK(e, x)
    BY DEF ReceiverOK
  <2>3. EndsOK(e)
    BY <1>1, EndParts DEF Control, EndsOK, Is
  <2>4. StrandOK(x)
    BY DEF StrandOK, Resting
  <2> QED BY <1>1, <2>1, <2>2, <2>3, <2>4 DEF Control, Is
<1>3. /\ OldOf(s, x) = OldOf(s, r) /\ IntoOf(s, x) = IntoOf(s, r) /\ MainOf(e, x) = NoReader
      /\ WritersOf(e, s) = WritersOf(c, s) /\ e.buffered = c.buffered
  BY EndParts DEF OldOf, IntoOf, MainOf, Handless, WritersOf, Is
<1>4. FreshOf(s, x) \subseteq FreshOf(s, r)
  BY DEF FreshOf
<1>5. View(e, s, x, ts, d, k, n, g)
  BY <1>1, <1>3, <1>4, MoveShrink DEF View
<1> QED BY <1>2, <1>5 DEF Good

-----------------------------------------------------------------------------
(***************************************************************************)
(* The invariant of the specification, and what its steps are made of.     *)
(***************************************************************************)
Sound ==
  /\ strand \in [Strands -> StrandType]
  /\ Good(ch, strand["sender"], strand["receiver"], tasks, data, pipes, sent, got)

Room == \A p \in 1..MaxPipes : Len(data[p]) <= PipeCapacity

Inv == plan \in Stages /\ Sound /\ Room

LEMMA SenderStep ==
  ASSUME Sound, NEW x \in StrandType, Become("sender", x),
         Good(ch', x, strand["receiver"], tasks', data', pipes', sent', got')
  PROVE  Sound'
<1>1. /\ strand' \in [Strands -> StrandType]
      /\ strand'["sender"] = x /\ strand'["receiver"] = strand["receiver"]
  BY DEF Sound, Become, Strands
<1> QED BY <1>1 DEF Sound

LEMMA ReceiverStep ==
  ASSUME Sound, NEW x \in StrandType, Become("receiver", x),
         Good(ch', strand["sender"], x, tasks', data', pipes', sent', got')
  PROVE  Sound'
<1>1. /\ strand' \in [Strands -> StrandType]
      /\ strand'["receiver"] = x /\ strand'["sender"] = strand["sender"]
  BY DEF Sound, Become, Strands
<1> QED BY <1>1 DEF Sound

LEMMA ChannelStep ==
  ASSUME Sound, strand' = strand,
         Good(ch', strand["sender"], strand["receiver"], tasks', data', pipes', sent', got')
  PROVE  Sound'
  BY DEF Sound

\* What Sound says of the types.
LEMMA SoundTypes ==
  ASSUME Sound
  PROVE  /\ ch \in ChannelType /\ tasks \subseteq TaskType
         /\ \A s \in Strands : strand[s] \in StrandType /\ StrandOK(strand[s])
         /\ Control(ch, strand["sender"], strand["receiver"], tasks)
         /\ data \in DataType /\ pipes \in PipeIds /\ sent \in Nat /\ got \in Seq(Nat)
<1>1. /\ Control(ch, strand["sender"], strand["receiver"], tasks)
      /\ View(ch, strand["sender"], strand["receiver"], tasks, data, pipes, sent, got)
  BY DEF Sound, Good
<1>2. data \in DataType /\ pipes \in PipeIds /\ sent \in Nat /\ got \in Seq(Nat)
  BY <1>1 DEF View, Core, ViewTyped
<1>3. /\ ch \in ChannelType /\ tasks \subseteq TaskType
      /\ StrandOK(strand["sender"]) /\ StrandOK(strand["receiver"])
  BY <1>1 DEF Control
<1> QED BY <1>1, <1>2, <1>3 DEF Sound, Strands

\* The strands the operators make.
LEMMA IdleTypes ==
  /\ Idle \in StrandType /\ Idle.fresh = NoPipe /\ Idle.pc = "idle"
  /\ \A s \in Strands :
       /\ Failed(s) \in StrandType /\ Failed(s).pc = "failed" /\ Failed(s).fresh = NoPipe
       /\ StrandOK(Failed(s))
       /\ Panicked(s) \in StrandType /\ Panicked(s).pc = "panicked" /\ Panicked(s).fresh = NoPipe
       /\ StrandOK(Panicked(s))
<1>1. NoReader \in ReaderType /\ NoPipe \in PipeIds /\ <<>> \in Seq(SendOps \cup RecvOps)
  BY ReaderParts, PipeIdsFact
<1>2. Idle \in StrandType
  BY <1>1 DEF Idle, StrandType, Pcs
<1> QED BY <1>1, <1>2 DEF Idle, StrandType, Pcs, Failed, Panicked, StrandOK, Resting

AtFacts(s, pc) ==
  /\ At(s, pc) \in StrandType /\ At(s, pc).pc = pc /\ At(s, pc).script = strand[s].script
  /\ At(s, pc).fresh = strand[s].fresh /\ At(s, pc).read = strand[s].read
  /\ At(s, pc).write = strand[s].write

LEMMA AtTypes ==
  ASSUME Sound, NEW s \in Strands, NEW pc \in Pcs
  PROVE  AtFacts(s, pc)
<1>1. strand[s] \in StrandType
  BY SoundTypes
<1> QED BY <1>1 DEF AtFacts, At, StrandType

DoneFacts(s) ==
  /\ Done(s) \in StrandType /\ Done(s).pc = "idle" /\ Done(s).fresh = strand[s].fresh
  /\ [Done(s) EXCEPT !.left = 0] \in StrandType /\ [Done(s) EXCEPT !.left = 0].pc = "idle"
  /\ [Done(s) EXCEPT !.left = 0].fresh = strand[s].fresh

LEMMA DoneTypes ==
  ASSUME Sound, NEW s \in Strands, strand[s].script # <<>>
  PROVE  DoneFacts(s)
<1>1. strand[s] \in StrandType
  BY SoundTypes
<1>2. strand[s].script \in Seq(SendOps \cup RecvOps)
  BY <1>1 DEF StrandType
<1>3. Tail(strand[s].script) \in Seq(SendOps \cup RecvOps)
  BY <1>2
<1>4. NoReader \in ReaderType /\ NoPipe \in PipeIds /\ "idle" \in Pcs
  BY ReaderParts, PipeIdsFact DEF Pcs
<1> QED BY <1>1, <1>3, <1>4 DEF DoneFacts, Done, StrandType

\* What the operators on the channel leave of its fields.
LEMMA IsWake ==
  ASSUME NEW e, NEW st, NEW b, NEW snd, NEW rcv, NEW sc, NEW rc, Is(e, st, b, snd, rcv, sc, rc)
  PROVE  /\ Is(WakeSenders(e), st, b, snd, rcv, sc, rc)
         /\ Is(WakeReceivers(e), st, b, snd, rcv, sc, rc)
         /\ Is(WakeAll(e), st, b, snd, rcv, sc, rc)
         /\ Is(WakeSenders(WakeNegotiators(e)), st, b, snd, rcv, sc, rc)
         /\ Is(WakeReceivers(WakeNegotiators(e)), st, b, snd, rcv, sc, rc)
<1>1. Same(e, e)
  BY DEF Is, Same
<1>2. ASSUME NEW f, Same(e, f) PROVE Is(f, st, b, snd, rcv, sc, rc)
  BY <1>2 DEF Is, Same
<1> QED BY <1>1, <1>2, SameWake

LEMMA EndTypes ==
  /\ \A i \in Ends, p \in PipeIds : SendEnd(i, p) \in [is : Ends, pipe : PipeIds]
  /\ \A i \in Ends, r \in ReaderType : RecvEnd(i, r) \in [is : Ends, reader : ReaderType]
  /\ TakenSend \in [is : Ends, pipe : PipeIds] /\ NoSend \in [is : Ends, pipe : PipeIds]
  /\ TakenRecv \in [is : Ends, reader : ReaderType] /\ NoRecv \in [is : Ends, reader : ReaderType]
<1>1. NoReader \in ReaderType /\ NoPipe \in PipeIds
  BY ReaderParts, PipeIdsFact
<1> QED BY <1>1 DEF SendEnd, RecvEnd, TakenSend, NoSend, TakenRecv, NoRecv, Ends

\* A channel with some of its fields replaced.
LEMMA IsExcept ==
  ASSUME NEW c \in ChannelType
  PROVE  /\ Is(c, c.state, c.buffered, c.send, c.recv, c.sendClosed, c.recvClosed)
         /\ \A st \in States :
              Is([c EXCEPT !.state = st], st, c.buffered, c.send, c.recv, c.sendClosed, c.recvClosed)
         /\ \A b \in Nat :
              Is([c EXCEPT !.buffered = b], c.state, b, c.send, c.recv, c.sendClosed, c.recvClosed)
         /\ \A snd \in [is : Ends, pipe : PipeIds] :
              Is([c EXCEPT !.send = snd], c.state, c.buffered, snd, c.recv, c.sendClosed, c.recvClosed)
         /\ \A rcv \in [is : Ends, reader : ReaderType] :
              Is([c EXCEPT !.recv = rcv], c.state, c.buffered, c.send, rcv, c.sendClosed, c.recvClosed)
         /\ Is([c EXCEPT !.recvClosed = TRUE, !.recv = NoRecv],
               c.state, c.buffered, c.send, NoRecv, c.sendClosed, TRUE)
         /\ Is([c EXCEPT !.sendClosed = TRUE, !.send = NoSend],
               c.state, c.buffered, NoSend, c.recv, TRUE, c.recvClosed)
  BY EndTypes DEF ChannelType, Is

RestoresSend(c, e, p) ==
  \E snd \in {c.send, SendEnd("present", p)} :
    /\ Is(e, c.state, c.buffered, snd, c.recv, c.sendClosed, c.recvClosed)
    /\ ~c.sendClosed /\ c.state \in {"RecvPipe", "SendPipe", "Direct"} => snd = SendEnd("present", p)

LEMMA RestoreSendIs ==
  ASSUME NEW c \in ChannelType, NEW p \in PipeIds
  PROVE  RestoresSend(c, RestoreSend(c, p), p)
<1>1. SendEnd("present", p) \in [is : Ends, pipe : PipeIds]
  BY EndTypes DEF Ends
<1>2. Is([c EXCEPT !.send = SendEnd("present", p)], c.state, c.buffered, SendEnd("present", p),
         c.recv, c.sendClosed, c.recvClosed)
  BY <1>1, IsExcept
<1>3. Is(WakeSenders(WakeNegotiators([c EXCEPT !.send = SendEnd("present", p)])),
         c.state, c.buffered, SendEnd("present", p), c.recv, c.sendClosed, c.recvClosed)
  BY <1>2, IsWake
<1>4. /\ Is(c, c.state, c.buffered, c.send, c.recv, c.sendClosed, c.recvClosed)
      /\ Is(WakeAll(c), c.state, c.buffered, c.send, c.recv, c.sendClosed, c.recvClosed)
  BY IsExcept, IsWake
<1>5. CASE c.sendClosed
  BY <1>4, <1>5 DEF RestoresSend, RestoreSend
<1>6. CASE ~c.sendClosed /\ c.state \in {"RecvPipe", "SendPipe", "Direct"}
  BY <1>3, <1>6 DEF RestoresSend, RestoreSend
<1>7. CASE ~c.sendClosed /\ c.state \notin {"RecvPipe", "SendPipe", "Direct"}
  BY <1>4, <1>7 DEF RestoresSend, RestoreSend
<1> QED BY <1>5, <1>6, <1>7

LEMMA RestoreRecvIs ==
  ASSUME NEW c \in ChannelType, NEW r \in ReaderType, ~c.recvClosed
  PROVE  Is(RestoreRecv(c, r), c.state, c.buffered, c.send, RecvEnd("present", r),
            c.sendClosed, c.recvClosed)
<1>1. RecvEnd("present", r) \in [is : Ends, reader : ReaderType]
  BY EndTypes DEF Ends
<1>2. Is([c EXCEPT !.recv = RecvEnd("present", r)], c.state, c.buffered, c.send,
         RecvEnd("present", r), c.sendClosed, c.recvClosed)
  BY <1>1, IsExcept
<1> QED BY <1>2, IsWake DEF RestoreRecv

\* A strand that was woken goes on with the same channel.
LEMMA AwakeGood ==
  ASSUME Sound, NEW s \in Strands
  PROVE  /\ Same(ch, Awake(s))
         /\ Good(Awake(s), strand["sender"], strand["receiver"], tasks, data, pipes, sent, got)
<1>1. Same(ch, Awake(s))
  BY SoundTypes, SameWaiting DEF Awake
<1> QED BY <1>1, SameGood DEF Sound

-----------------------------------------------------------------------------
(***************************************************************************)
(* Every step of a sender keeps the invariant.                             *)
(***************************************************************************)
LEMMA PutTurnSound ==
  ASSUME Sound, NEW c, Same(ch, c), strand["sender"].pc \in {"idle", "parked"},
         strand["sender"].script # <<>>,
         Good(c, strand["sender"], strand["receiver"], tasks, data, pipes, sent, got),
         PutTurn(c), UNCHANGED <<tasks, data, pipes, got>>
  PROVE  Sound'
<1> DEFINE S == strand["sender"]
           R == strand["receiver"]
<1>1. /\ S \in StrandType /\ S.fresh = NoPipe /\ c \in ChannelType /\ "sender" \in Strands
      /\ ~c.sendClosed /\ S.pc \in Handless /\ sent \in Nat
  BY SoundTypes DEF Control, SenderOK, StrandOK, Strands, Handless, Same
<1>2. CASE ch' = c /\ Become("sender", Failed("sender")) /\ UNCHANGED sent
  <2>1. Failed("sender").pc \in Handless /\ Failed("sender") \in StrandType
    BY <1>1, IdleTypes DEF Handless
  <2>2. Good(c, Failed("sender"), R, tasks, data, pipes, sent, got)
    BY <1>1, <2>1, IdleTypes, SenderRests
  <2> QED BY <1>2, <2>1, <2>2, SenderStep
<1>3. CASE /\ c.state = "Value" /\ ch' = WakeReceivers([c EXCEPT !.buffered = sent + 1])
           /\ sent' = sent + 1 /\ Become("sender", Done("sender"))
  <2>1. Is(ch', "Value", sent + 1, c.send, c.recv, c.sendClosed, c.recvClosed)
    <3>1. sent + 1 \in Nat
      BY <1>1
    <3>2. Is([c EXCEPT !.buffered = sent + 1], "Value", sent + 1, c.send, c.recv,
             c.sendClosed, c.recvClosed)
      BY <1>1, <1>3, <3>1, IsExcept
    <3> QED BY <1>3, <3>2, IsWake
  <2>2. Good(ch', S, R, tasks, data, pipes, sent + 1, got)
    BY <1>3, <2>1, SenderPuts
  <2>3. DoneFacts("sender")
    BY <1>1, DoneTypes
  <2>4. Done("sender") \in StrandType /\ Done("sender").pc \in Handless
        /\ Done("sender").fresh = NoPipe /\ StrandOK(Done("sender"))
    BY <1>1, <2>3 DEF DoneFacts, Handless, StrandOK, Resting
  <2>5. Good(ch', Done("sender"), R, tasks, data, pipes, sent + 1, got)
    BY <1>1, <2>1, <2>2, <2>4, SenderRests DEF Is
  <2> QED BY <1>3, <2>4, <2>5, SenderStep
<1>4. CASE /\ ch' = [c EXCEPT !.sendWakers = {"sender"}]
           /\ Become("sender", At("sender", "parked")) /\ UNCHANGED sent
  <2>1. Same(c, ch')
    BY <1>1, <1>4, SameWaiting
  <2>2. AtFacts("sender", "parked")
    BY <1>1, AtTypes DEF Pcs
  <2>3. /\ At("sender", "parked") \in StrandType /\ At("sender", "parked").pc \in Handless
        /\ At("sender", "parked").fresh = NoPipe /\ StrandOK(At("sender", "parked"))
    BY <1>1, <2>2 DEF AtFacts, Handless, StrandOK
  <2>4. Good(c, At("sender", "parked"), R, tasks, data, pipes, sent, got)
    BY <1>1, <2>3, SenderRests
  <2>5. Good(ch', At("sender", "parked"), R, tasks, data, pipes, sent, got)
    BY <2>1, <2>4, SameGood
  <2> QED BY <1>4, <2>3, <2>5, SenderStep
<1>5. CASE /\ c.send.is = "present" /\ ch' = [c EXCEPT !.send = TakenSend]
           /\ Become("sender", [At("sender", "writing") EXCEPT !.write = c.send.pipe])
           /\ UNCHANGED sent
  <2> DEFINE x == [At("sender", "writing") EXCEPT !.write = c.send.pipe]
  <2>1. Is(ch', c.state, c.buffered, TakenSend, c.recv, c.sendClosed, c.recvClosed)
    BY <1>1, <1>5, IsExcept, EndTypes
  <2>2. AtFacts("sender", "writing")
    BY <1>1, AtTypes DEF Pcs
  <2>3. c.send.pipe \in PipeIds
    BY <1>1 DEF ChannelType
  <2>4. /\ x \in StrandType /\ x.pc \in {"writing", "cloning"} /\ x.write = c.send.pipe
        /\ x.fresh = NoPipe /\ x.script # <<>>
    BY <1>1, <2>2, <2>3 DEF AtFacts, StrandType
  <2> HIDE DEF x
  <2>5. Good(ch', x, R, tasks, data, pipes, sent, got)
    BY <1>1, <1>5, <2>1, <2>4, SenderTakes
  <2> QED BY <1>5, <2>4, <2>5, SenderStep DEF x
<1> QED BY <1>2, <1>3, <1>4, <1>5 DEF PutTurn

LEMMA PutSound ==
  ASSUME Sound, Put
  PROVE  Sound'
<1>1. CASE Starts("sender", "put") /\ PutTurn(ch)
  <2>1. Same(ch, ch)
    BY SoundTypes DEF Same
  <2> QED BY <1>1, <2>1, PutTurnSound DEF Put, Starts, Sound
<1>2. CASE Resumes("sender", "put") /\ PutTurn(Awake("sender"))
  <2>1. strand["sender"].script # <<>>
    BY <1>2, SoundTypes DEF Resumes, StrandOK, Resting, Strands
  <2> QED BY <1>2, <2>1, AwakeGood, PutTurnSound DEF Put, Resumes, Strands
<1>3. CASE /\ ch' = [Awake("sender") EXCEPT !.sendWakers = {"sender"}]
           /\ UNCHANGED <<strand, sent>>
  <2>1. Same(Awake("sender"), ch')
    BY <1>3, AwakeGood, SameWaiting DEF Strands, Same
  <2>2. Good(ch', strand["sender"], strand["receiver"], tasks, data, pipes, sent, got)
    BY <2>1, AwakeGood, SameGood DEF Strands
  <2> QED BY <1>3, <2>2, ChannelStep DEF Put
<1> QED BY <1>1, <1>2, <1>3 DEF Put

\* The sender holds a write end of p and puts it back.
LEMMA SendBack ==
  ASSUME Sound, NEW p \in PipeIds, p # NoPipe,
         strand["sender"].pc \in {"writing", "cloning"}, strand["sender"].write = p,
         NEW x \in StrandType, x.pc \in Handless \/ (x.pc = "running" /\ x.prog = p),
         StrandOK(x), x.fresh = NoPipe
  PROVE  Good(RestoreSend(ch, p), x, strand["receiver"], tasks, data, pipes, sent, got)
<1> DEFINE S == strand["sender"]
           R == strand["receiver"]
<1>1. ch \in ChannelType /\ ~ch.sendClosed
  BY SoundTypes DEF Control, SenderOK
<1>2. p \in WritersOf(ch, S)
  BY PipeIdsFact DEF WritersOf
<1>3. PICK snd \in {ch.send, SendEnd("present", p)} :
        Is(RestoreSend(ch, p), ch.state, ch.buffered, snd, ch.recv, ch.sendClosed, ch.recvClosed)
  BY <1>1, RestoreSendIs DEF RestoresSend
<1>4. Good(ch, S, R, tasks, data, pipes, sent, got) /\ S.pc \notin {"draining", "flushing"}
  BY DEF Sound
<1> QED BY <1>1, <1>2, <1>3, <1>4, SenderRestores

LEMMA PutWriteSound ==
  ASSUME Sound, PutWrite
  PROVE  Sound'
<1> DEFINE S == strand["sender"]
           R == strand["receiver"]
           p == S.write
<1>1. /\ S \in StrandType /\ S.fresh = NoPipe /\ ch \in ChannelType /\ "sender" \in Strands
      /\ S.pc = "writing" /\ p \in PipeIds /\ p # NoPipe /\ S.script # <<>>
  BY SoundTypes DEF Control, SenderOK, StrandOK, Strands, Resting, PutWrite, StrandType
<1>2. p \in WritersOf(ch, S)
  BY <1>1, PipeIdsFact DEF WritersOf
<1>3. CASE ~HasReader(p) /\ Become("sender", Failed("sender")) /\ UNCHANGED <<data, sent>>
  <2>1. /\ Failed("sender").pc \in Handless /\ Failed("sender") \in StrandType
        /\ StrandOK(Failed("sender")) /\ Failed("sender").fresh = NoPipe
    BY <1>1, IdleTypes DEF Handless
  <2>2. Good(RestoreSend(ch, p), Failed("sender"), R, tasks, data, pipes, sent, got)
    BY <1>1, <2>1, SendBack
  <2> QED BY <1>3, <2>1, <2>2, SenderStep DEF PutWrite
<1>4. CASE Write(p, sent + 1) /\ sent' = sent + 1 /\ Become("sender", Done("sender"))
  <2>1. DoneFacts("sender")
    BY <1>1, DoneTypes
  <2>2. Done("sender") \in StrandType /\ Done("sender").pc \in Handless
        /\ Done("sender").fresh = NoPipe /\ StrandOK(Done("sender"))
    BY <1>1, <2>1 DEF DoneFacts, Handless, StrandOK, Resting
  <2>3. Good(ch, S, R, tasks, data', pipes, sent', got)
    BY <1>2, <1>4, SenderWrites DEF Write, Sound
  <2>4. ~ch.sendClosed
    BY <1>1, SoundTypes DEF Control, SenderOK
  <2>5. PICK snd \in {ch.send, SendEnd("present", p)} :
          Is(RestoreSend(ch, p), ch.state, ch.buffered, snd, ch.recv, ch.sendClosed, ch.recvClosed)
    BY <1>1, RestoreSendIs DEF RestoresSend
  <2>6. Good(RestoreSend(ch, p), Done("sender"), R, tasks, data', pipes, sent', got)
    BY <1>1, <1>2, <2>2, <2>3, <2>4, <2>5, SenderRestores
  <2> QED BY <2>2, <2>6, <1>4, SenderStep DEF PutWrite
<1> QED BY <1>3, <1>4 DEF PutWrite

LEMMA SendLaunchSound ==
  ASSUME Sound, SendLaunch
  PROVE  Sound'
<1> DEFINE S == strand["sender"]
           p == S.write
           x == [At("sender", "running") EXCEPT !.write = NoPipe, !.prog = p, !.left = Emits]
<1>1. /\ S \in StrandType /\ S.fresh = NoPipe /\ "sender" \in Strands
      /\ S.pc = "cloning" /\ p \in PipeIds /\ p # NoPipe /\ S.script # <<>>
  BY SoundTypes DEF Control, SenderOK, StrandOK, Strands, Resting, SendLaunch, StrandType
<1>2. AtFacts("sender", "running")
  BY <1>1, AtTypes DEF Pcs
<1>3. /\ x \in StrandType /\ x.pc = "running" /\ x.prog = p /\ x.fresh = NoPipe
      /\ x.script # <<>>
  BY <1>1, <1>2, PipeIdsFact, SizesAssumption DEF AtFacts, StrandType
<1> HIDE DEF x
<1>4. Good(RestoreSend(ch, p), x, strand["receiver"], tasks, data, pipes, sent, got)
  BY <1>1, <1>3, SendBack DEF StrandOK
<1> QED BY <1>3, <1>4, SenderStep DEF SendLaunch, x

LEMMA SendProgramSound ==
  ASSUME Sound, SendProgram
  PROVE  Sound'
<1> DEFINE S == strand["sender"]
           R == strand["receiver"]
           p == S.prog
           x == [S EXCEPT !.left = @ - 1]
<1>1. /\ S \in StrandType /\ S.fresh = NoPipe /\ "sender" \in Strands /\ S.left > 0
      /\ S.pc = "running" /\ p \in PipeIds /\ p # NoPipe /\ S.script # <<>>
  BY SoundTypes DEF Control, SenderOK, StrandOK, Strands, Resting, SendProgram, StrandType
<1>2. p \in WritersOf(ch, S)
  BY <1>1, PipeIdsFact DEF WritersOf
<1>3. Good(ch, S, R, tasks, data', pipes, sent', got)
  BY <1>2, SenderWrites DEF Write, Sound, SendProgram
<1>4. /\ x \in StrandType /\ x.pc = "running" /\ x.prog = p /\ x.fresh = NoPipe
      /\ x.script # <<>>
  BY <1>1 DEF StrandType
<1>5. ch \in ChannelType /\ ~ch.sendClosed
  BY <1>1, SoundTypes DEF Control, SenderOK
<1>6. Is(ch, ch.state, ch.buffered, ch.send, ch.recv, ch.sendClosed, ch.recvClosed)
  BY <1>5, IsExcept
<1> HIDE DEF x
<1>7. Good(ch, x, R, tasks, data', pipes, sent', got)
  BY <1>1, <1>2, <1>3, <1>4, <1>5, <1>6, SenderRestores DEF StrandOK
<1> QED BY <1>4, <1>7, SenderStep DEF SendProgram, x

\* Its guard is dropped.
LEMMA SendDropSound ==
  ASSUME Sound, NEW c, NEW y, ~c.sendClosed,
         Good(c, y, strand["receiver"], tasks', data', pipes', sent', got'),
         NEW x \in StrandType, x.pc \in Handless, StrandOK(x), x.fresh = NoPipe,
         SendGuardDrop(c, x)
  PROVE  Sound'
<1>1. CASE MaySendDone(c)
  <2>1. Good(SendDone(c), x, strand["receiver"], tasks', data', pipes', sent', got')
    BY <1>1, SenderExits
  <2> QED BY <1>1, <2>1, SenderStep DEF SendGuardDrop
<1>2. CASE ~MaySendDone(c)
  <2> DEFINE z == Panicked("sender")
  <2>1. z \in StrandType /\ z.pc \in Handless /\ StrandOK(z) /\ z.fresh = NoPipe
    BY IdleTypes DEF Strands, Handless
  <2> HIDE DEF z
  <2>2. Good(c, z, strand["receiver"], tasks', data', pipes', sent', got')
    BY <2>1, SenderRests
  <2> QED BY <1>2, <2>1, <2>2, SenderStep DEF SendGuardDrop, z
<1> QED BY <1>1, <1>2

LEMMA SendExitSound ==
  ASSUME Sound, SendExit
  PROVE  Sound'
<1> DEFINE S == strand["sender"]
           x == [Done("sender") EXCEPT !.left = 0]
<1>1. /\ S.fresh = NoPipe /\ "sender" \in Strands /\ S.script # <<>> /\ ~ch.sendClosed
  BY SoundTypes DEF Control, SenderOK, StrandOK, Strands, Resting, SendExit
<1>2. DoneFacts("sender")
  BY <1>1, DoneTypes
<1>3. x \in StrandType /\ x.pc \in Handless /\ StrandOK(x) /\ x.fresh = NoPipe
  BY <1>1, <1>2 DEF DoneFacts, Handless, StrandOK, Resting
<1> HIDE DEF x
<1>4. Good(ch, S, strand["receiver"], tasks', data', pipes', sent', got')
  BY DEF SendExit, Sound
<1> QED BY <1>1, <1>3, <1>4, SendDropSound DEF SendExit, x

\* The write end is duplicated for a program.
LEMMA SendDuplicateSound ==
  ASSUME Sound, NEW c, NEW y, ~c.sendClosed, y.pc \in Handless, strand["sender"].script # <<>>,
         Good(c, y, strand["receiver"], tasks', data', pipes', sent', got'),
         Duplicate("sender", c)
  PROVE  Sound'
<1>1. CASE c.send.is = "present"
  <2> DEFINE x == Duplicating("sender", c.send.pipe, NoReader)
  <2>1. c \in ChannelType
    BY DEF Good, Control
  <2>2. c.send.pipe \in PipeIds
    BY <2>1 DEF ChannelType
  <2>3. AtFacts("sender", "cloning")
    BY AtTypes DEF Pcs, Strands
  <2>4. /\ x \in StrandType /\ x.pc = "cloning" /\ x.write = c.send.pipe
        /\ x.fresh = NoPipe /\ x.script # <<>>
    BY <2>2, <2>3, PipeIdsFact, ReaderParts DEF AtFacts, StrandType, Duplicating
  <2>5. ch' = [c EXCEPT !.send = TakenSend] /\ Become("sender", x)
    BY <1>1 DEF Duplicate
  <2>6. Is(ch', c.state, c.buffered, TakenSend, c.recv, c.sendClosed, c.recvClosed)
    BY <2>1, <2>5, IsExcept, EndTypes
  <2> HIDE DEF x
  <2>7. Good(ch', x, strand["receiver"], tasks', data', pipes', sent', got')
    BY <1>1, <2>4, <2>6, SenderTakes
  <2> QED BY <2>4, <2>5, <2>7, SenderStep
<1>2. CASE c.send.is # "present"
  <2> DEFINE z == Failed("sender")
  <2>1. z \in StrandType /\ z.pc \in Handless /\ StrandOK(z) /\ z.fresh = NoPipe
    BY IdleTypes DEF Strands, Handless
  <2>2. SendGuardDrop(c, z)
    BY <1>2 DEF Duplicate
  <2> HIDE DEF z
  <2> QED BY <2>1, <2>2, SendDropSound
<1> QED BY <1>1, <1>2

LEMMA FlushSound ==
  ASSUME Sound, Flush
  PROVE  Sound'
<1> DEFINE S == strand["sender"]
           R == strand["receiver"]
           p == S.write
           z == Failed("sender")
<1>1. /\ S \in StrandType /\ S.fresh = NoPipe /\ ch \in ChannelType /\ ~ch.sendClosed
      /\ S.pc = "flushing" /\ p \in PipeIds /\ S.script # <<>>
  BY SoundTypes DEF Control, SenderOK, StrandOK, Strands, Resting, Flush, StrandType
<1>2. PICK snd \in {ch.send, SendEnd("present", p)} :
        Is(RestoreSend(ch, p), ch.state, ch.buffered, snd, ch.recv, ch.sendClosed, ch.recvClosed)
  BY <1>1, RestoreSendIs DEF RestoresSend
<1>3. z \in StrandType /\ z.pc \in Handless /\ StrandOK(z) /\ z.fresh = NoPipe
  BY IdleTypes DEF Strands, Handless
<1>4. \/ data' = data
      \/ data' = [data EXCEPT ![p] = Append(@, S.stale)]
  BY DEF Flush, Write
<1> HIDE DEF z
<1>5. Good(RestoreSend(ch, p), z, R, tasks, data', pipes, sent, got)
  BY <1>1, <1>2, <1>3, <1>4, SenderFlushes DEF Sound
<1>6. ~RestoreSend(ch, p).sendClosed
  BY <1>1, <1>2 DEF Is
<1>7. CASE Duplicate("sender", RestoreSend(ch, p))
  BY <1>1, <1>3, <1>5, <1>6, <1>7, SendDuplicateSound DEF Flush
<1>8. CASE ch' = RestoreSend(ch, p) /\ Become("sender", z)
  BY <1>3, <1>5, <1>8, SenderStep DEF Flush
<1> QED BY <1>7, <1>8 DEF Flush, z

LEMMA TaskWriteSound ==
  ASSUME Sound, NEW t \in tasks, TaskWrite(t)
  PROVE  Sound'
<1> DEFINE p == t.pipe
<1>1. ch \in ChannelType /\ p \in PipeIds
  BY SoundTypes DEF TaskType
<1>2. PICK snd \in {ch.send, SendEnd("present", p)} :
        Is(RestoreSend(ch, p), ch.state, ch.buffered, snd, ch.recv, ch.sendClosed, ch.recvClosed)
  BY <1>1, RestoreSendIs DEF RestoresSend
<1>3. \/ data' = data
      \/ data' = [data EXCEPT ![p] = Append(@, t.item)]
  BY DEF TaskWrite, Write
<1>4. Good(RestoreSend(ch, p), strand["sender"], strand["receiver"], tasks \ {t}, data',
           pipes, sent, got)
  BY <1>2, <1>3, TaskFlushes DEF Sound
<1> QED BY <1>4, ChannelStep DEF TaskWrite

-----------------------------------------------------------------------------
(***************************************************************************)
(* Every step of a receiver keeps the invariant.                           *)
(***************************************************************************)
LEMMA NextInValueSound ==
  ASSUME Sound, NEW c, NEW y, y.pc \in Handless, ~c.recvClosed,
         strand["receiver"].script # <<>>, strand["receiver"].fresh = NoPipe,
         Good(c, strand["sender"], y, tasks, data, pipes, sent, got),
         NextInValue(c), UNCHANGED <<tasks, data, pipes, sent>>
  PROVE  Sound'
<1> DEFINE S == strand["sender"]
           done == Done("receiver")
           wait == [At("receiver", "parked") EXCEPT !.read = NoReader]
<1>1. c \in ChannelType /\ "receiver" \in Strands
  BY DEF Good, Control, Strands
<1>2. DoneFacts("receiver") /\ AtFacts("receiver", "parked") /\ AtFacts("receiver", "idle")
  BY <1>1, DoneTypes, AtTypes DEF Pcs
<1>3. /\ done \in StrandType /\ done.pc \in Handless /\ done.pc # "panicked" /\ StrandOK(done)
      /\ done.fresh = NoPipe
  BY <1>2 DEF DoneFacts, Handless, StrandOK, Resting
<1>4. /\ wait \in StrandType /\ wait.pc \in Handless /\ wait.pc # "panicked" /\ StrandOK(wait)
      /\ wait.fresh = NoPipe
  BY <1>2, ReaderParts DEF AtFacts, Handless, StrandOK, StrandType
<1>5. /\ Received \in StrandType /\ Received.pc \in Handless /\ Received.pc # "panicked"
      /\ StrandOK(Received) /\ Received.fresh = NoPipe
  BY <1>2 DEF Received, AtFacts, DoneFacts, Handless, StrandOK, Resting
<1> HIDE DEF done, wait
<1>6. CASE /\ c.buffered # 0 /\ got' = Append(got, c.buffered) /\ Become("receiver", Received)
           /\ ch' = WakeSenders(WakeNegotiators([c EXCEPT !.buffered = 0]))
  <2>1. Is([c EXCEPT !.buffered = 0], c.state, 0, c.send, c.recv, c.sendClosed, c.recvClosed)
    BY <1>1, IsExcept
  <2>2. Is(ch', c.state, 0, c.send, c.recv, c.sendClosed, c.recvClosed)
    BY <1>6, <2>1, IsWake
  <2>3. Good(ch', S, y, tasks, data, pipes, sent, got')
    BY <1>6, <2>2, ReceiverTakesValue
  <2>4. Good(ch', S, Received, tasks, data, pipes, sent, got')
    BY <1>5, <2>2, <2>3, ReceiverRests DEF Is
  <2> QED BY <1>5, <1>6, <2>4, ReceiverStep
<1>7. CASE ch' = c /\ Become("receiver", done) /\ UNCHANGED got
  <2>1. Good(c, S, done, tasks, data, pipes, sent, got)
    BY <1>3, ReceiverRests
  <2> QED BY <1>3, <1>7, <2>1, ReceiverStep
<1>8. CASE ch' = [c EXCEPT !.recvWakers = {"receiver"}] /\ Become("receiver", wait) /\ UNCHANGED got
  <2>1. Same(c, ch')
    BY <1>1, <1>8, SameWaiting
  <2>2. Good(c, S, wait, tasks, data, pipes, sent, got)
    BY <1>4, ReceiverRests
  <2>3. Good(ch', S, wait, tasks, data, pipes, sent, got)
    BY <2>1, <2>2, SameGood
  <2> QED BY <1>4, <1>8, <2>3, ReceiverStep
<1> QED BY <1>6, <1>7, <1>8 DEF NextInValue, done, wait

LEMMA NextTurnSound ==
  ASSUME Sound, NEW c, Same(ch, c), strand["receiver"].pc \in {"idle", "parked"},
         strand["receiver"].script # <<>>,
         Good(c, strand["sender"], strand["receiver"], tasks, data, pipes, sent, got),
         NextTurn(c), UNCHANGED <<tasks, data, pipes, sent>>
  PROVE  Sound'
<1> DEFINE S == strand["sender"]
           R == strand["receiver"]
<1>1. /\ R \in StrandType /\ R.fresh = NoPipe /\ c \in ChannelType /\ "receiver" \in Strands
      /\ ~c.recvClosed /\ R.pc \in Handless
      /\ c.state # "Value" => c.recv.is # "absent"
  BY SoundTypes DEF Control, ReceiverOK, EndsOK, StrandOK, Strands, Handless, Same
<1>2. CASE c.state = "Value" /\ NextInValue(c)
  BY <1>1, <1>2, NextInValueSound
<1>3. CASE /\ c.state \in {"SendPipe", "Draining"} /\ c.recv.is = "present"
           /\ ch' = [c EXCEPT !.recv = TakenRecv] /\ UNCHANGED got
           /\ Become("receiver", [At("receiver", "reading") EXCEPT !.read = c.recv.reader])
  <2> DEFINE x == [At("receiver", "reading") EXCEPT !.read = c.recv.reader]
  <2>1. Is(ch', c.state, c.buffered, c.send, TakenRecv, c.sendClosed, c.recvClosed)
    BY <1>1, <1>3, IsExcept, EndTypes
  <2>2. AtFacts("receiver", "reading")
    BY <1>1, AtTypes DEF Pcs
  <2>3. c.recv.reader \in ReaderType
    BY <1>1 DEF ChannelType
  <2>4. /\ x \in StrandType /\ x.pc = "reading" /\ x.read = c.recv.reader
        /\ x.fresh = NoPipe /\ x.script # <<>>
    BY <1>1, <2>2, <2>3 DEF AtFacts, StrandType
  <2> HIDE DEF x
  <2>5. Good(ch', S, x, tasks, data, pipes, sent, got)
    BY <1>1, <1>3, <2>1, <2>4, ReceiverTakes
  <2> QED BY <1>3, <2>4, <2>5, ReceiverStep DEF x
<1>4. CASE ch' = c /\ Become("receiver", Failed("receiver")) /\ UNCHANGED got
  <2> DEFINE z == Failed("receiver")
  <2>1. z \in StrandType /\ z.pc \in Handless /\ z.pc # "panicked" /\ StrandOK(z) /\ z.fresh = NoPipe
    BY <1>1, IdleTypes DEF Handless
  <2> HIDE DEF z
  <2>2. Good(c, S, z, tasks, data, pipes, sent, got)
    BY <1>1, <2>1, ReceiverRests
  <2> QED BY <1>4, <2>1, <2>2, ReceiverStep DEF z
<1> QED BY <1>1, <1>2, <1>3, <1>4 DEF NextTurn

LEMMA Next1Sound ==
  ASSUME Sound, Next1
  PROVE  Sound'
<1>1. PICK op \in Reads :
        \/ Starts("receiver", op) /\ NextTurn(ch)
        \/ Resumes("receiver", op) /\ NextReady /\ NextTurn(Awake("receiver"))
        \/ /\ Resumes("receiver", op) /\ ~NextReady
           /\ ch' = [Awake("receiver") EXCEPT !.recvWakers = {"receiver"}]
           /\ UNCHANGED <<strand, got>>
  BY DEF Next1
<1>2. CASE Starts("receiver", op) /\ NextTurn(ch)
  <2>1. Same(ch, ch)
    BY SoundTypes DEF Same
  <2> QED BY <1>2, <2>1, NextTurnSound DEF Next1, Starts, Sound
<1>3. CASE Resumes("receiver", op) /\ NextTurn(Awake("receiver"))
  <2>1. strand["receiver"].script # <<>>
    BY <1>3, SoundTypes DEF Resumes, StrandOK, Resting, Strands
  <2> QED BY <1>3, <2>1, AwakeGood, NextTurnSound DEF Next1, Resumes, Strands
<1>4. CASE /\ ch' = [Awake("receiver") EXCEPT !.recvWakers = {"receiver"}]
           /\ UNCHANGED <<strand, got>>
  <2>1. Same(Awake("receiver"), ch')
    BY <1>4, AwakeGood, SameWaiting DEF Strands, Same
  <2>2. Good(ch', strand["sender"], strand["receiver"], tasks, data, pipes, sent, got)
    BY <2>1, AwakeGood, SameGood DEF Strands
  <2> QED BY <1>4, <2>2, ChannelStep DEF Next1
<1> QED BY <1>1, <1>2, <1>3, <1>4

\* A pipe that is being drained into has a writer.
LEMMA DrainedIntoHasWriter ==
  ASSUME Sound, strand["receiver"].pc = "reading", ~HasWriter(strand["receiver"].read.pipe)
  PROVE  strand["sender"].pc # "draining"
<1> SUFFICES ASSUME strand["sender"].pc = "draining" PROVE FALSE
  OBVIOUS
<1> DEFINE S == strand["sender"]
           R == strand["receiver"]
<1>1. /\ MainOf(ch, R) = R.read /\ OldOf(S, R) = S.read /\ IntoOf(S, R) = S.write
  BY DEF MainOf, OldOf, IntoOf
<1>2. DrainOK(MainOf(ch, R), OldOf(S, R), IntoOf(S, R), WritersOf(ch, S))
  BY DEF Sound, Good, View, Core
<1>3. S.read.pipe # NoPipe /\ R.read.pipe # NoPipe
  BY SoundTypes DEF Control, SenderOK, ReceiverOK
<1>4. R.read.pipe = S.write
  BY <1>1, <1>2, <1>3 DEF DrainOK
<1> QED BY <1>4 DEF HasWriter, Strands

LEMMA NextReadSound ==
  ASSUME Sound, NextRead
  PROVE  Sound'
<1> DEFINE S == strand["sender"]
           R == strand["receiver"]
           r == R.read
<1>1. /\ R \in StrandType /\ R.fresh = NoPipe /\ ch \in ChannelType /\ "receiver" \in Strands
      /\ R.pc = "reading" /\ r \in ReaderType /\ r.pipe # NoPipe /\ R.script # <<>>
      /\ ~ch.recvClosed /\ data \in DataType
  BY SoundTypes DEF Control, ReceiverOK, StrandOK, Strands, Resting, NextRead, StrandType
<1>2. CASE /\ Filled(r) # <<>> /\ got' = Append(got, Head(Filled(r))) /\ data' = Unread(r)
           /\ ch' = RestoreRecv(ch, Reader(r.pipe, Tail(Filled(r))))
           /\ Become("receiver", [Received EXCEPT !.read = NoReader])
  <2> DEFINE x == [Received EXCEPT !.read = NoReader]
             m == Reader(r.pipe, Tail(Filled(r)))
  <2>1. ReadFacts(r)
    BY <1>1, <1>2, StrRead
  <2>2. r.pipe \in PipeIds /\ Tail(Filled(r)) \in Seq(Nat)
    BY <1>1, <2>1, ReaderParts DEF ReadFacts
  <2>3. m \in ReaderType /\ m.pipe = r.pipe
    BY <2>2 DEF Reader, ReaderType
  <2>4. Is(ch', ch.state, ch.buffered, ch.send, RecvEnd("present", m), ch.sendClosed, ch.recvClosed)
    BY <1>1, <1>2, <2>3, RestoreRecvIs
  <2>5. DoneFacts("receiver") /\ AtFacts("receiver", "idle")
    BY <1>1, DoneTypes, AtTypes DEF Pcs
  <2>6. /\ x \in StrandType /\ x.pc \in Handless /\ x.pc # "panicked" /\ StrandOK(x)
        /\ x.fresh = NoPipe
    <3>1. Received \in StrandType /\ Received.pc = "idle" /\ Received.fresh = NoPipe
      BY <1>1, <2>5 DEF Received, AtFacts, DoneFacts
    <3> QED BY <3>1, ReaderParts DEF StrandType, Handless, StrandOK, Resting
  <2>7. /\ Str(data, r) # <<>> /\ data' \in DataType /\ Str(data', m) = Tail(Str(data, r))
        /\ \A q \in 1..MaxPipes : q # r.pipe => data'[q] = data[q]
        /\ Head(Filled(r)) = Head(Str(data, r))
    BY <1>2, <2>1 DEF ReadFacts
  <2> HIDE DEF x, m
  <2>8. Good(ch', S, x, tasks, data', pipes, sent, Append(got, Head(Filled(r))))
    BY <1>1, <2>3, <2>4, <2>6, <2>7, ReceiverReads DEF Sound
  <2> QED BY <1>2, <2>6, <2>8, ReceiverStep DEF NextRead, x
<1>3. CASE /\ AtEnd(r) /\ NextInValue(WakeAll([ch EXCEPT !.state = "Value"])) /\ UNCHANGED data
  <2> DEFINE c == WakeAll([ch EXCEPT !.state = "Value"])
             y == Failed("receiver")
  <2>1. S.pc # "draining"
    BY <1>1, <1>3, DrainedIntoHasWriter DEF AtEnd
  <2>2. Is([ch EXCEPT !.state = "Value"], "Value", ch.buffered, ch.send, ch.recv,
           ch.sendClosed, ch.recvClosed)
    BY <1>1, IsExcept DEF States
  <2>3. Is(c, "Value", ch.buffered, ch.send, ch.recv, ch.sendClosed, ch.recvClosed)
    BY <2>2, IsWake
  <2>4. y \in StrandType /\ y.pc \in Handless /\ y.pc # "panicked" /\ StrandOK(y) /\ y.fresh = NoPipe
    BY <1>1, IdleTypes DEF Handless
  <2>5. NextInValue(c) /\ UNCHANGED <<tasks, data, pipes, sent>>
    BY <1>3 DEF NextRead
  <2> HIDE DEF c, y
  <2>6. Good(c, S, y, tasks, data, pipes, sent, got)
    BY <1>1, <2>1, <2>3, <2>4, ReceiverEnds DEF Sound
  <2>7. ~c.recvClosed
    BY <1>1, <2>3 DEF Is
  <2> QED BY <1>1, <2>4, <2>5, <2>6, <2>7, NextInValueSound
<1> QED BY <1>2, <1>3 DEF NextRead

LEMMA RecvLaunchSound ==
  ASSUME Sound, RecvLaunch
  PROVE  Sound'
<1> DEFINE S == strand["sender"]
           R == strand["receiver"]
           r == R.read
           x == [At("receiver", "running") EXCEPT !.read = NoReader, !.prog = r.pipe]
<1>1. /\ R.fresh = NoPipe /\ ch \in ChannelType /\ "receiver" \in Strands
      /\ R.pc = "cloning" /\ r \in ReaderType /\ R.script # <<>> /\ ~ch.recvClosed
  BY SoundTypes DEF Control, ReceiverOK, StrandOK, Strands, Resting, RecvLaunch, StrandType
<1>2. AtFacts("receiver", "running") /\ r.pipe \in PipeIds
  BY <1>1, AtTypes, ReaderParts DEF Pcs
<1>3. /\ x \in StrandType /\ x.pc = "running" /\ x.prog = r.pipe /\ x.fresh = NoPipe
      /\ x.script # <<>>
  BY <1>1, <1>2, ReaderParts DEF AtFacts, StrandType
<1>4. Is(ch', ch.state, ch.buffered, ch.send, RecvEnd("present", r), ch.sendClosed, ch.recvClosed)
  BY <1>1, RestoreRecvIs DEF RecvLaunch
<1> HIDE DEF x
<1>5. Good(ch', S, x, tasks, data, pipes, sent, got)
  BY <1>1, <1>3, <1>4, ReceiverLaunches DEF Sound, StrandOK
<1> QED BY <1>3, <1>5, ReceiverStep DEF RecvLaunch, x

LEMMA RecvProgramSound ==
  ASSUME Sound, RecvProgram
  PROVE  Sound'
<1>1. /\ strand["receiver"].pc = "running" /\ data[strand["receiver"].prog] # <<>>
      /\ data' = [data EXCEPT ![strand["receiver"].prog] = Tail(@)]
      /\ got' = Append(got, Head(data[strand["receiver"].prog]))
      /\ UNCHANGED <<ch, strand, tasks, pipes, sent>>
  BY DEF RecvProgram
<1>2. Good(ch, strand["sender"], strand["receiver"], tasks, data', pipes, sent, got')
  BY <1>1, ReceiverRuns DEF Sound
<1> QED BY <1>1, <1>2, ChannelStep

LEMMA RecvExitSound ==
  ASSUME Sound, RecvExit
  PROVE  Sound'
<1> DEFINE x == Done("receiver")
<1>1. /\ strand["receiver"].fresh = NoPipe /\ "receiver" \in Strands
      /\ strand["receiver"].script # <<>> /\ strand["receiver"].pc = "running"
  BY SoundTypes DEF StrandOK, Strands, Resting, RecvExit
<1>2. DoneFacts("receiver")
  BY <1>1, DoneTypes
<1>3. x \in StrandType /\ x.pc \in Handless /\ x.pc # "panicked" /\ StrandOK(x) /\ x.fresh = NoPipe
  BY <1>1, <1>2 DEF DoneFacts, Handless, StrandOK, Resting
<1>4. RecvGuardDrop(ch, x) /\ UNCHANGED <<tasks, data, pipes, sent, got>>
  BY DEF RecvExit
<1> HIDE DEF x
<1>5. MayRecvDone(ch) /\ Good(RecvDone(ch), strand["sender"], x, tasks, data, pipes, sent, got)
  BY <1>1, <1>3, ReceiverExits DEF Sound
<1> QED BY <1>3, <1>4, <1>5, ReceiverStep DEF RecvGuardDrop

\* The read end is duplicated for a program.
LEMMA RecvDuplicateSound ==
  ASSUME Sound, NEW c, NEW y, y.pc \in Handless, strand["receiver"].script # <<>>,
         c.recv.is = "present", ~c.recvClosed, c.state \in {"RecvPipe", "Direct"},
         \/ c.state = "RecvPipe" /\ c.sendClosed
         \/ c.recv.reader.buf = <<>>,
         Good(c, strand["sender"], y, tasks', data', pipes', sent', got'),
         Duplicate("receiver", c)
  PROVE  Sound'
<1> DEFINE x == Duplicating("receiver", NoPipe, c.recv.reader)
<1>1. c \in ChannelType
  BY DEF Good, Control
<1>2. c.recv.reader \in ReaderType
  BY <1>1 DEF ChannelType
<1>3. AtFacts("receiver", "cloning")
  BY AtTypes DEF Pcs, Strands
<1>4. /\ x \in StrandType /\ x.pc = "cloning" /\ x.read = c.recv.reader
      /\ x.fresh = NoPipe /\ x.script # <<>>
  BY <1>2, <1>3, PipeIdsFact DEF AtFacts, StrandType, Duplicating
<1>5. ch' = [c EXCEPT !.recv = TakenRecv] /\ Become("receiver", x)
  BY DEF Duplicate
<1>6. Is(ch', c.state, c.buffered, c.send, TakenRecv, c.sendClosed, c.recvClosed)
  BY <1>1, <1>5, IsExcept, EndTypes
<1> HIDE DEF x
<1>7. Good(ch', strand["sender"], x, tasks', data', pipes', sent', got')
  BY <1>4, <1>6, ReceiverTakes
<1> QED BY <1>4, <1>5, <1>7, ReceiverStep

-----------------------------------------------------------------------------
(***************************************************************************)
(* The steps both strands have: the end of a stage, and negotiations.      *)
(***************************************************************************)
LEMMA CloseStageSound ==
  ASSUME Sound, NEW s \in Strands, CloseStage(s)
  PROVE  Sound'
<1> DEFINE x == At(s, "closed")
<1>1. strand[s].pc \in Handless /\ strand[s].fresh = NoPipe /\ ch \in ChannelType
  BY SoundTypes DEF CloseStage, Handless, StrandOK
<1>2. AtFacts(s, "closed")
  BY AtTypes DEF Pcs
<1>3. x \in StrandType /\ x.pc = "closed" /\ x.fresh = NoPipe
  BY <1>1, <1>2 DEF AtFacts
<1>4. Become(s, x) /\ UNCHANGED <<tasks, data, pipes, sent, got>>
  BY DEF CloseStage
<1> HIDE DEF x
<1>5. CASE s = "sender"
  <2>1. ch' = WakeAll([ch EXCEPT !.sendClosed = TRUE, !.send = NoSend])
    BY <1>5 DEF CloseStage, CloseSend
  <2>2. Is(ch', ch.state, ch.buffered, NoSend, ch.recv, TRUE, ch.recvClosed)
    BY <1>1, <2>1, IsExcept, IsWake
  <2>3. Good(ch', x, strand["receiver"], tasks, data, pipes, sent, got)
    BY <1>1, <1>3, <1>5, <2>2, SenderCloses DEF Sound
  <2> QED BY <1>3, <1>4, <1>5, <2>3, SenderStep
<1>6. CASE s = "receiver"
  <2>1. ch' = WakeAll([ch EXCEPT !.recvClosed = TRUE, !.recv = NoRecv])
    BY <1>6 DEF CloseStage, CloseRecv
  <2>2. Is(ch', ch.state, ch.buffered, ch.send, NoRecv, ch.sendClosed, TRUE)
    BY <1>1, <2>1, IsExcept, IsWake
  <2>3. Good(ch', strand["sender"], x, tasks, data, pipes, sent, got)
    BY <1>1, <1>3, <1>6, <2>2, ReceiverCloses DEF Sound
  <2> QED BY <1>3, <1>4, <1>6, <2>3, ReceiverStep
<1> QED BY <1>5, <1>6 DEF Strands

LEMMA OpenedSound ==
  ASSUME Sound, NEW s \in Strands, Opened(s)
  PROVE  Sound'
<1> DEFINE x == [At(s, "negotiating") EXCEPT !.fresh = pipes + 1]
<1>1. /\ strand[s].pc = "opening" /\ strand[s].script # <<>> /\ ch \in ChannelType
      /\ pipes < MaxPipes /\ pipes' = pipes + 1 /\ pipes + 1 \in PipeIds
  <2>1. /\ strand[s].pc = "opening" /\ pipes < MaxPipes /\ pipes' = pipes + 1
    BY DEF Opened
  <2>2. StrandOK(strand[s]) /\ ch \in ChannelType /\ pipes \in PipeIds
    BY SoundTypes
  <2>3. pipes + 1 \in PipeIds
    BY <2>1, <2>2, SizesAssumption DEF PipeIds
  <2>4. strand[s].script # <<>>
    BY <2>1, <2>2 DEF StrandOK, Resting
  <2> QED BY <2>1, <2>2, <2>3, <2>4
<1>2. AtFacts(s, "negotiating")
  BY AtTypes DEF Pcs
<1>3. x \in StrandType /\ x.pc = "negotiating" /\ x.fresh = pipes + 1 /\ x.script # <<>>
  BY <1>1, <1>2 DEF AtFacts, StrandType
<1>4. Become(s, x) /\ UNCHANGED <<tasks, data, sent, got>>
  BY DEF Opened
<1>5. Same(ch, ch')
  BY <1>1, SameWaiting DEF Opened
<1> HIDE DEF x
<1>6. CASE s = "sender"
  <2>1. Good(ch, x, strand["receiver"], tasks, data, pipes + 1, sent, got)
    BY <1>1, <1>3, <1>6, SenderOpens DEF Sound
  <2>2. Good(ch', x, strand["receiver"], tasks, data, pipes + 1, sent, got)
    BY <1>5, <2>1, SameGood
  <2> QED BY <1>1, <1>3, <1>4, <1>6, <2>2, SenderStep
<1>7. CASE s = "receiver"
  <2>1. Good(ch, strand["sender"], x, tasks, data, pipes + 1, sent, got)
    BY <1>1, <1>3, <1>7, ReceiverOpens DEF Sound
  <2>2. Good(ch', strand["sender"], x, tasks, data, pipes + 1, sent, got)
    BY <1>5, <2>1, SameGood
  <2> QED BY <1>1, <1>3, <1>4, <1>7, <2>2, ReceiverStep
<1> QED BY <1>6, <1>7 DEF Strands

\* The write end a negotiation holds goes back and the ends are duplicated.
LEMMA SenderDrainSound ==
  ASSUME Sound, Drain("sender")
  PROVE  Sound'
<1> DEFINE S == strand["sender"]
           R == strand["receiver"]
           r == S.read
           p == S.write
           z == Failed("sender")
<1>1. /\ S \in StrandType /\ S.fresh = NoPipe /\ ch \in ChannelType /\ "sender" \in Strands
      /\ S.pc = "draining" /\ r \in ReaderType /\ r.pipe # NoPipe /\ S.script # <<>>
      /\ ~ch.sendClosed /\ data \in DataType /\ ch.state \in {"SendPipe", "Direct"} /\ p \in PipeIds
  BY SoundTypes DEF Control, SenderOK, StrandOK, Strands, Resting, Drain, StrandType
<1>2. Is(RestoreSend(ch, p), ch.state, ch.buffered, SendEnd("present", p), ch.recv,
         ch.sendClosed, ch.recvClosed)
  BY <1>1, RestoreSendIs DEF RestoresSend
<1>3. z \in StrandType /\ z.pc \in Handless /\ StrandOK(z) /\ z.fresh = NoPipe
  BY <1>1, IdleTypes DEF Handless
<1>4. p # NoPipe
  <2>1. DrainOK(MainOf(ch, R), OldOf(S, R), IntoOf(S, R), WritersOf(ch, S))
    BY DEF Sound, Good, View, Core
  <2> QED BY <1>1, <2>1 DEF DrainOK, OldOf, IntoOf
<1> HIDE DEF z
<1>5. Good(RestoreSend(ch, p), z, R, tasks, data, pipes, sent, got)
  BY <1>1, <1>2, <1>3, SenderDrained DEF Sound
<1>6. CASE /\ Filled(r) # <<>> /\ data' = [Unread(r) EXCEPT ![p] = Append(@, Head(Filled(r)))]
           /\ Become("sender", [S EXCEPT !.read.buf = Tail(Filled(r))])
           /\ UNCHANGED <<ch, tasks>>
  <2> DEFINE x == [S EXCEPT !.read.buf = Tail(Filled(r))]
  <2>1. ReadFacts(r)
    BY <1>1, <1>6, StrRead
  <2>2. Tail(Filled(r)) \in Seq(Nat) /\ r.pipe \in PipeIds
    BY <1>1, <2>1, ReaderParts DEF ReadFacts
  <2>3. x.read = Reader(r.pipe, Tail(Filled(r)))
    BY <1>1 DEF StrandType, ReaderType, Reader
  <2>4. Reader(r.pipe, Tail(Filled(r))) \in ReaderType
    BY <2>2 DEF Reader, ReaderType
  <2>5. /\ x \in StrandType /\ x.pc = "draining" /\ x.write = p /\ x.fresh = NoPipe
        /\ x.script # <<>>
    BY <1>1, <2>3, <2>4 DEF StrandType
  <2>6. x.read.pipe = r.pipe
    BY <2>3 DEF Reader
  <2>7. StrandOK(x)
    BY <2>5 DEF StrandOK
  <2>8. /\ Str(data, r) # <<>> /\ Unread(r) \in DataType
        /\ Str(Unread(r), x.read) = Tail(Str(data, r))
        /\ \A q \in 1..MaxPipes : q # r.pipe => Unread(r)[q] = data[q]
        /\ Head(Filled(r)) = Head(Str(data, r))
    BY <2>1, <2>3 DEF ReadFacts
  <2> HIDE DEF x
  <2>9. Good(ch, x, R, tasks, data', pipes, sent, got)
    <3>1. Good(ch, S, R, tasks, data, pipes, sent, got) /\ x.fresh = S.fresh
      BY <1>1, <2>5 DEF Sound
    <3>2. Good(ch, x, R, tasks, [Unread(r) EXCEPT ![p] = Append(@, Head(Filled(r)))],
               pipes, sent, got)
      BY <1>1, <2>5, <2>6, <2>7, <2>8, <3>1, SenderDrains
    <3> QED BY <1>6, <3>2
  <2> QED BY <1>6, <2>5, <2>9, SenderStep DEF Drain, x
<1>7. CASE AtEnd(r) /\ FlushStale("sender", ch, p, 0) /\ UNCHANGED data
  <2>1. Duplicate("sender", RestoreSend(ch, p)) /\ UNCHANGED tasks
    BY <1>4, <1>7 DEF FlushStale
  <2>2. ~RestoreSend(ch, p).sendClosed
    BY <1>1, <1>2 DEF Is
  <2> QED BY <1>1, <1>3, <1>5, <1>7, <2>1, <2>2, SendDuplicateSound DEF Drain
<1>8. CASE ch' = RestoreSend(ch, p) /\ Become("sender", z) /\ UNCHANGED <<data, tasks>>
  BY <1>3, <1>5, <1>8, SenderStep DEF Drain
<1> QED BY <1>6, <1>7, <1>8 DEF Drain, z

LEMMA ReceiverDrainSound ==
  ASSUME Sound, Drain("receiver")
  PROVE  Sound'
<1> DEFINE S == strand["sender"]
           R == strand["receiver"]
           r == R.read
           p == R.write
           z == Failed("receiver")
<1>1. /\ R \in StrandType /\ R.fresh = NoPipe /\ ch \in ChannelType /\ "receiver" \in Strands
      /\ R.pc = "draining" /\ r \in ReaderType /\ r.pipe # NoPipe /\ R.script # <<>>
      /\ ~ch.recvClosed /\ data \in DataType /\ ch.state \in {"RecvPipe", "Direct"} /\ p \in PipeIds
      /\ ch.recv.is = "present" /\ ch.recv.reader.buf = <<>>
  BY SoundTypes DEF Control, ReceiverOK, StrandOK, Strands, Resting, Drain, StrandType
<1>2. PICK snd \in {ch.send, SendEnd("present", p)} :
        Is(RestoreSend(ch, p), ch.state, ch.buffered, snd, ch.recv, ch.sendClosed, ch.recvClosed)
  BY <1>1, RestoreSendIs DEF RestoresSend
<1>3. z \in StrandType /\ z.pc \in Handless /\ z.pc # "panicked" /\ StrandOK(z) /\ z.fresh = NoPipe
  BY <1>1, IdleTypes DEF Handless
<1>4. p # NoPipe
  <2>1. DrainOK(MainOf(ch, R), OldOf(S, R), IntoOf(S, R), WritersOf(ch, S))
    BY DEF Sound, Good, View, Core
  <2>2. S.pc # "draining"
    BY <1>1, SoundTypes DEF Control, SenderOK
  <2> QED BY <1>1, <2>1, <2>2 DEF DrainOK, OldOf, IntoOf
<1> HIDE DEF z
<1>5. Good(RestoreSend(ch, p), S, z, tasks, data, pipes, sent, got)
  BY <1>1, <1>2, <1>3, ReceiverDrained DEF Sound
<1>6. CASE /\ Filled(r) # <<>> /\ data' = [Unread(r) EXCEPT ![p] = Append(@, Head(Filled(r)))]
           /\ Become("receiver", [R EXCEPT !.read.buf = Tail(Filled(r))])
           /\ UNCHANGED <<ch, tasks>>
  <2> DEFINE x == [R EXCEPT !.read.buf = Tail(Filled(r))]
  <2>1. ReadFacts(r)
    BY <1>1, <1>6, StrRead
  <2>2. Tail(Filled(r)) \in Seq(Nat) /\ r.pipe \in PipeIds
    BY <1>1, <2>1, ReaderParts DEF ReadFacts
  <2>3. x.read = Reader(r.pipe, Tail(Filled(r)))
    BY <1>1 DEF StrandType, ReaderType, Reader
  <2>4. Reader(r.pipe, Tail(Filled(r))) \in ReaderType
    BY <2>2 DEF Reader, ReaderType
  <2>5. /\ x \in StrandType /\ x.pc = "draining" /\ x.write = p /\ x.fresh = NoPipe
        /\ x.script # <<>>
    BY <1>1, <2>3, <2>4 DEF StrandType
  <2>6. x.read.pipe = r.pipe
    BY <2>3 DEF Reader
  <2>7. StrandOK(x)
    BY <2>5 DEF StrandOK
  <2>8. /\ Str(data, r) # <<>> /\ Unread(r) \in DataType
        /\ Str(Unread(r), x.read) = Tail(Str(data, r))
        /\ \A q \in 1..MaxPipes : q # r.pipe => Unread(r)[q] = data[q]
        /\ Head(Filled(r)) = Head(Str(data, r))
    BY <2>1, <2>3 DEF ReadFacts
  <2> HIDE DEF x
  <2>9. Good(ch, S, x, tasks, data', pipes, sent, got)
    BY <1>1, <1>6, <2>5, <2>6, <2>7, <2>8, ReceiverDrains DEF Sound
  <2> QED BY <1>6, <2>5, <2>9, ReceiverStep DEF Drain, x
<1>7. CASE AtEnd(r) /\ FlushStale("receiver", ch, p, 0) /\ UNCHANGED data
  <2>1. Duplicate("receiver", RestoreSend(ch, p)) /\ UNCHANGED tasks
    BY <1>4, <1>7 DEF FlushStale
  <2>2. /\ RestoreSend(ch, p).recv = ch.recv /\ ~RestoreSend(ch, p).recvClosed
        /\ RestoreSend(ch, p).state = ch.state
    BY <1>1, <1>2 DEF Is
  <2> QED BY <1>1, <1>3, <1>5, <1>7, <2>1, <2>2, RecvDuplicateSound DEF Drain
<1>8. CASE ch' = RestoreSend(ch, p) /\ Become("receiver", z) /\ UNCHANGED <<data, tasks>>
  BY <1>3, <1>5, <1>8, ReceiverStep DEF Drain
<1> QED BY <1>6, <1>7, <1>8 DEF Drain, z

\* A negotiation puts its pipe into the channel.
LEMMA FreshIs ==
  ASSUME Sound, NEW s \in Strands, NEW c \in ChannelType, NEW st \in States
  PROVE  /\ Is(FreshPipe(s, c, st), st, c.buffered, TakenSend,
               RecvEnd("present", Reader(strand[s].fresh, <<>>)), c.sendClosed, c.recvClosed)
         /\ Is(FreshPipe(s, TakeBuffered(c), st), st, 0, TakenSend,
               RecvEnd("present", Reader(strand[s].fresh, <<>>)), c.sendClosed, c.recvClosed)
<1>1. RecvEnd("present", Reader(strand[s].fresh, <<>>)) \in [is : Ends, reader : ReaderType]
  <2>1. strand[s].fresh \in PipeIds
    BY SoundTypes DEF StrandType
  <2>2. Reader(strand[s].fresh, <<>>) \in ReaderType
    BY <2>1, NoItems DEF Reader, ReaderType
  <2> QED BY <2>2, EndTypes DEF Ends
<1>2. ASSUME NEW e \in ChannelType
      PROVE  Is(FreshPipe(s, e, st), st, e.buffered, TakenSend,
                RecvEnd("present", Reader(strand[s].fresh, <<>>)), e.sendClosed, e.recvClosed)
  BY <1>1, <1>2, EndTypes DEF FreshPipe, ChannelType, Is
<1>3. Is(TakeBuffered(c), c.state, 0, c.send, c.recv, c.sendClosed, c.recvClosed)
  <2>1. CASE c.buffered = 0
    BY <2>1, IsExcept DEF TakeBuffered
  <2>2. CASE c.buffered # 0
    <3>1. Is([c EXCEPT !.buffered = 0], c.state, 0, c.send, c.recv, c.sendClosed, c.recvClosed)
      BY IsExcept
    <3> QED BY <2>2, <3>1, IsWake DEF TakeBuffered
  <2> QED BY <2>1, <2>2
<1>4. /\ TakeBuffered(c) \in ChannelType /\ TakeBuffered(c).buffered = 0
      /\ TakeBuffered(c).sendClosed = c.sendClosed /\ TakeBuffered(c).recvClosed = c.recvClosed
  BY <1>3 DEF Is
<1> QED BY <1>2, <1>4

LEMMA BecomeSendPipeSound ==
  ASSUME Sound, NEW c, ~c.sendClosed, strand["sender"].pc \in Handless,
         strand["sender"].script # <<>>,
         c.state \in {"Value", "Draining"} => strand["sender"].fresh # NoPipe,
         Good(c, strand["sender"], strand["receiver"], tasks, data, pipes, sent, got),
         BecomeSendPipe(c), UNCHANGED <<data, pipes, sent, got>>
  PROVE  Sound'
<1> DEFINE S == strand["sender"]
           R == strand["receiver"]
           p == S.fresh
           y == Failed("sender")
           z == Panicked("sender")
           rcv == RecvEnd("present", Reader(S.fresh, <<>>))
<1>1. c \in ChannelType /\ Control(c, S, R, tasks) /\ "sender" \in Strands /\ p \in PipeIds
  BY SoundTypes DEF Good, Control, Strands, StrandType
<1>2. y \in StrandType /\ y.pc \in Handless /\ StrandOK(y) /\ y.fresh = NoPipe
  BY <1>1, IdleTypes DEF Handless
<1>3. z \in StrandType /\ z.pc \in Handless /\ StrandOK(z) /\ z.fresh = NoPipe
  BY <1>1, IdleTypes DEF Handless
<1>4. CASE Panic("sender", c)
  <2> HIDE DEF z
  <2>1. Good(c, z, R, tasks, data, pipes, sent, got)
    BY <1>3, SenderRests
  <2> QED BY <1>3, <1>4, <2>1, SenderStep DEF Panic, z
<1>5. CASE /\ c.state = "Value"
           /\ FlushStale("sender", WakeReceivers(FreshPipe("sender", TakeBuffered(c), "SendPipe")),
                         p, c.buffered)
  <2> DEFINE e == WakeReceivers(FreshPipe("sender", TakeBuffered(c), "SendPipe"))
             x == [At("sender", "flushing") EXCEPT !.write = p, !.fresh = NoPipe,
                                                   !.stale = c.buffered]
  <2>1. Is(e, "SendPipe", 0, TakenSend, rcv, c.sendClosed, c.recvClosed)
    BY <1>1, FreshIs, IsWake DEF States
  <2>2. FlushStale("sender", e, p, c.buffered) /\ p # NoPipe
    BY <1>5
  <2>3. AtFacts("sender", "flushing") /\ c.buffered \in Nat
    BY <1>1, AtTypes DEF Pcs, ChannelType
  <2>4. /\ x \in StrandType /\ x.pc = "flushing" /\ x.write = p /\ x.stale = c.buffered
        /\ x.fresh = NoPipe /\ x.script # <<>>
    BY <1>1, <2>3, PipeIdsFact DEF AtFacts, StrandType
  <2>5. StrandOK(x)
    BY <2>4 DEF StrandOK
  <2>6. CASE c.buffered = 0
    <3> HIDE DEF e, x, y, rcv
    <3>1. Duplicate("sender", RestoreSend(e, p)) /\ UNCHANGED tasks
      BY <2>2, <2>6 DEF FlushStale
    <3>2. Is(RestoreSend(e, p), "SendPipe", 0, SendEnd("present", p), rcv, c.sendClosed, c.recvClosed)
      <4>1. e \in ChannelType /\ ~e.sendClosed /\ e.state = "SendPipe"
        BY <2>1 DEF Is
      <4>2. Is(RestoreSend(e, p), e.state, e.buffered, SendEnd("present", p), e.recv,
               e.sendClosed, e.recvClosed)
        BY <1>1, <4>1, RestoreSendIs DEF RestoresSend
      <4> QED BY <2>1, <4>2 DEF Is
    <3>3. Good(RestoreSend(e, p), y, R, tasks, data, pipes, sent, got)
      BY <1>2, <1>5, <2>2, <3>2, SenderPipes DEF rcv
    <3>4. ~RestoreSend(e, p).sendClosed
      BY <3>2 DEF Is
    <3> QED BY <1>2, <3>1, <3>3, <3>4, SendDuplicateSound
  <2>7. CASE c.buffered # 0
    <3>1. ch' = e /\ Become("sender", x) /\ UNCHANGED tasks
      BY <2>2, <2>7 DEF FlushStale
    <3> HIDE DEF e, x, y
    <3>2. Good(e, x, R, tasks, data, pipes, sent, got)
      BY <1>5, <2>1, <2>2, <2>4, <2>5, <2>7, SenderPipes
    <3> QED BY <2>4, <3>1, <3>2, SenderStep
  <2> QED BY <2>6, <2>7
<1>6. CASE /\ c.state = "RecvPipe" /\ c.send.is = "present"
           /\ FlushStale("sender", [c EXCEPT !.send = TakenSend, !.state = "Direct"], c.send.pipe, 0)
  <2> DEFINE e == [c EXCEPT !.send = TakenSend, !.state = "Direct"]
             q == c.send.pipe
  <2>1. q # NoPipe /\ q \in PipeIds /\ c.send = SendEnd("present", q)
    BY <1>1, <1>6 DEF Control, EndsOK, ChannelType, SendEnd
  <2>2. e \in ChannelType /\ e.state = "Direct" /\ e.buffered = c.buffered /\ e.recv = c.recv
        /\ e.sendClosed = c.sendClosed /\ e.recvClosed = c.recvClosed
    BY <1>1, EndTypes DEF ChannelType, States
  <2>3. Duplicate("sender", RestoreSend(e, q)) /\ UNCHANGED tasks
    BY <1>6, <2>1 DEF FlushStale
  <2> HIDE DEF e, y
  <2>4. Is(RestoreSend(e, q), "Direct", c.buffered, c.send, c.recv, c.sendClosed, c.recvClosed)
    BY <2>1, <2>2, RestoreSendIs DEF RestoresSend
  <2>5. Good(RestoreSend(e, q), S, R, tasks, data, pipes, sent, got)
    BY <1>6, <2>4, SenderJoins
  <2>6. ~RestoreSend(e, q).sendClosed
    BY <2>4 DEF Is
  <2> QED BY <2>3, <2>5, <2>6, SendDuplicateSound
<1>7. CASE /\ c.state = "Draining" /\ c.recv.is = "present"
           /\ DrainFirst("sender", WakeReceivers(FreshPipe("sender", c, "SendPipe")), p, c.recv.reader)
  <2> DEFINE e == WakeReceivers(FreshPipe("sender", c, "SendPipe"))
             x == [At("sender", "draining") EXCEPT !.write = p, !.read = c.recv.reader,
                                                   !.fresh = NoPipe]
  <2>1. Is(e, "SendPipe", c.buffered, TakenSend, rcv, c.sendClosed, c.recvClosed)
    BY <1>1, FreshIs, IsWake DEF States
  <2>2. ch' = e /\ Become("sender", x) /\ UNCHANGED tasks /\ p # NoPipe
    BY <1>7 DEF DrainFirst
  <2>3. AtFacts("sender", "draining") /\ c.recv.reader \in ReaderType
    BY <1>1, AtTypes DEF Pcs, ChannelType
  <2>4. /\ x \in StrandType /\ x.pc = "draining" /\ x.write = p /\ x.read = c.recv.reader
        /\ x.fresh = NoPipe /\ x.script # <<>>
    BY <1>1, <2>3, PipeIdsFact DEF AtFacts, StrandType
  <2>5. StrandOK(x)
    BY <2>4 DEF StrandOK
  <2> HIDE DEF e, x
  <2>6. Good(e, x, R, tasks, data, pipes, sent, got)
    BY <1>7, <2>1, <2>2, <2>4, <2>5, SenderReplaces
  <2> QED BY <2>2, <2>4, <2>6, SenderStep
<1> QED BY <1>4, <1>5, <1>6, <1>7 DEF BecomeSendPipe

\* What discard_recv_buffer leaves when two programs are joined.
LEMMA DirectIs ==
  ASSUME NEW c \in ChannelType, c.recv.is = "present"
  PROVE  Is([DiscardRecvBuffer(c) EXCEPT !.state = "Direct"], "Direct", c.buffered, c.send,
            RecvEnd("present", Reader(c.recv.reader.pipe, <<>>)), c.sendClosed, c.recvClosed)
<1> DEFINE cut == RecvEnd("present", Reader(c.recv.reader.pipe, <<>>))
           e == [DiscardRecvBuffer(c) EXCEPT !.state = "Direct"]
<1>1. c.recv \in [is : Ends, reader : ReaderType]
  BY DEF ChannelType
<1>2. [c.recv EXCEPT !.reader.buf = <<>>] = cut
  BY <1>1 DEF RecvEnd, Reader, ReaderType
<1>3. cut \in [is : Ends, reader : ReaderType]
  <2>1. Reader(c.recv.reader.pipe, <<>>) \in ReaderType
    BY <1>1, NoItems DEF Reader, ReaderType
  <2> QED BY <2>1, EndTypes DEF Ends
<1>4. DiscardRecvBuffer(c) = [c EXCEPT !.recv = cut]
  <2>1. DiscardRecvBuffer(c) = [c EXCEPT !.recv.reader.buf = <<>>]
    BY DEF DiscardRecvBuffer
  <2>2. [c EXCEPT !.recv.reader.buf = <<>>] = [c EXCEPT !.recv = [c.recv EXCEPT !.reader.buf = <<>>]]
    BY <1>1 DEF ChannelType
  <2> QED BY <1>2, <2>1, <2>2
<1> HIDE DEF cut
<1>5. e = [[c EXCEPT !.recv = cut] EXCEPT !.state = "Direct"]
  BY <1>4
<1>6. Is(e, "Direct", c.buffered, c.send, cut, c.sendClosed, c.recvClosed)
  BY <1>3, <1>5 DEF ChannelType, States, Is
<1> QED BY <1>6 DEF cut

LEMMA BecomeRecvPipeSound ==
  ASSUME Sound, NEW c, strand["receiver"].pc \in Handless, ~c.recvClosed,
         strand["receiver"].script # <<>>, RecvVerdict(c) = "go",
         NeedsPipe("receiver", c) => strand["receiver"].fresh # NoPipe,
         Good(c, strand["sender"], strand["receiver"], tasks, data, pipes, sent, got),
         BecomeRecvPipe(c), UNCHANGED <<data, pipes, sent, got>>
  PROVE  Sound'
<1> DEFINE S == strand["sender"]
           R == strand["receiver"]
           p == R.fresh
           y == Failed("receiver")
           rcv == RecvEnd("present", Reader(R.fresh, <<>>))
<1>1. c \in ChannelType /\ Control(c, S, R, tasks) /\ "receiver" \in Strands /\ p \in PipeIds
  BY SoundTypes DEF Good, Control, Strands, StrandType
<1>2. y \in StrandType /\ y.pc \in Handless /\ y.pc # "panicked" /\ StrandOK(y) /\ y.fresh = NoPipe
  BY <1>1, IdleTypes DEF Handless
<1>3. /\ c.state # "Value" => c.recv.is = "present"
      /\ c.state \in {"Value", "SendPipe", "Draining"}
  <2>1. c.recv.is \in Ends /\ (c.state # "Value" => c.recv.is # "absent")
    BY <1>1 DEF ChannelType, Control, EndsOK
  <2> QED BY <2>1 DEF RecvVerdict, Ends
<1>4. CASE /\ c.state = "Value"
           /\ FlushStale("receiver", WakeSenders(FreshPipe("receiver", TakeBuffered(c), "RecvPipe")),
                         p, c.buffered)
  <2> DEFINE e == WakeSenders(FreshPipe("receiver", TakeBuffered(c), "RecvPipe"))
  <2>1. Is(e, "RecvPipe", 0, TakenSend, rcv, c.sendClosed, c.recvClosed)
    BY <1>1, FreshIs, IsWake DEF States
  <2>2. FlushStale("receiver", e, p, c.buffered) /\ p # NoPipe
    BY <1>4 DEF NeedsPipe
  <2>3. rcv.is = "present" /\ rcv.reader.buf = <<>>
    BY EndParts DEF Reader
  <2> HIDE DEF e, y, rcv
  <2>4. CASE c.buffered = 0
    <3>1. Duplicate("receiver", RestoreSend(e, p)) /\ UNCHANGED tasks
      BY <2>2, <2>4 DEF FlushStale
    <3>2. PICK snd \in {TakenSend, SendEnd("present", p)} :
            Is(RestoreSend(e, p), "RecvPipe", 0, snd, rcv, c.sendClosed, c.recvClosed)
      <4>1. e \in ChannelType
        BY <2>1 DEF Is
      <4>2. PICK snd \in {e.send, SendEnd("present", p)} :
              Is(RestoreSend(e, p), e.state, e.buffered, snd, e.recv, e.sendClosed, e.recvClosed)
        BY <1>1, <4>1, RestoreSendIs DEF RestoresSend
      <4> QED BY <2>1, <4>2 DEF Is
    <3>3. Good(RestoreSend(e, p), S, y, tasks, data, pipes, sent, got)
      BY <1>2, <1>4, <2>2, <3>2, ReceiverPipes DEF rcv
    <3>4. /\ RestoreSend(e, p).recv = rcv /\ ~RestoreSend(e, p).recvClosed
          /\ RestoreSend(e, p).state = "RecvPipe"
      BY <3>2 DEF Is
    <3> QED BY <1>2, <2>3, <3>1, <3>3, <3>4, RecvDuplicateSound
  <2>5. CASE c.buffered # 0
    <3>1. /\ tasks' = tasks \cup {[pipe |-> p, item |-> c.buffered]}
          /\ Duplicate("receiver", e)
      BY <2>2, <2>5 DEF FlushStale
    <3>2. Good(e, S, y, tasks', data, pipes, sent, got)
      BY <1>2, <1>4, <2>1, <2>2, <2>5, <3>1, ReceiverPipes DEF rcv
    <3>3. e.recv = rcv /\ ~e.recvClosed /\ e.state = "RecvPipe"
      BY <2>1 DEF Is
    <3> QED BY <1>2, <2>3, <3>1, <3>2, <3>3, RecvDuplicateSound
  <2> QED BY <2>4, <2>5
<1>5. CASE /\ c.state = "SendPipe"
           /\ FlushStale("receiver", [DiscardRecvBuffer(c) EXCEPT !.state = "Direct"], NoPipe, 0)
  <2> DEFINE e == [DiscardRecvBuffer(c) EXCEPT !.state = "Direct"]
             cut == RecvEnd("present", Reader(c.recv.reader.pipe, <<>>))
  <2>1. Duplicate("receiver", e) /\ UNCHANGED tasks
    BY <1>5 DEF FlushStale
  <2>2. Is(e, "Direct", c.buffered, c.send, cut, c.sendClosed, c.recvClosed)
    BY <1>1, <1>3, <1>5, DirectIs
  <2>3. cut.is = "present" /\ cut.reader.buf = <<>>
    BY EndParts DEF Reader
  <2> HIDE DEF e, y
  <2>4. Good(e, S, R, tasks, data, pipes, sent, got)
    BY <1>3, <1>5, <2>2, ReceiverJoins
  <2>5. e.recv = cut /\ ~e.recvClosed /\ e.state = "Direct"
    BY <2>2 DEF Is
  <2> HIDE DEF cut
  <2> QED BY <2>1, <2>3, <2>4, <2>5, RecvDuplicateSound
<1>6. CASE /\ c.state = "Draining" /\ c.sendClosed
           /\ FlushStale("receiver", WakeSenders([c EXCEPT !.state = "RecvPipe"]), NoPipe, 0)
  <2> DEFINE e == WakeSenders([c EXCEPT !.state = "RecvPipe"])
  <2>1. Duplicate("receiver", e) /\ UNCHANGED tasks
    BY <1>6 DEF FlushStale
  <2>2. Is([c EXCEPT !.state = "RecvPipe"], "RecvPipe", c.buffered, c.send, c.recv,
           c.sendClosed, c.recvClosed)
    BY <1>1, IsExcept DEF States
  <2>3. Is(e, "RecvPipe", c.buffered, c.send, c.recv, c.sendClosed, c.recvClosed)
    BY <2>2, IsWake
  <2> HIDE DEF e
  <2>4. Good(e, S, R, tasks, data, pipes, sent, got)
    BY <1>6, <2>3, ReceiverAdopts
  <2>5. e.recv.is = "present" /\ ~e.recvClosed /\ e.state = "RecvPipe" /\ e.sendClosed
    BY <1>3, <1>6, <2>3 DEF Is
  <2> QED BY <2>1, <2>4, <2>5, RecvDuplicateSound
<1>7. CASE /\ c.state = "Draining" /\ ~c.sendClosed
           /\ DrainFirst("receiver", WakeSenders(FreshPipe("receiver", c, "RecvPipe")), p,
                         c.recv.reader)
  <2> DEFINE e == WakeSenders(FreshPipe("receiver", c, "RecvPipe"))
             x == [At("receiver", "draining") EXCEPT !.write = p, !.read = c.recv.reader,
                                                     !.fresh = NoPipe]
  <2>1. Is(e, "RecvPipe", c.buffered, TakenSend, rcv, c.sendClosed, c.recvClosed)
    BY <1>1, FreshIs, IsWake DEF States
  <2>2. ch' = e /\ Become("receiver", x) /\ UNCHANGED tasks /\ p # NoPipe
    BY <1>7 DEF DrainFirst, NeedsPipe
  <2>3. AtFacts("receiver", "draining") /\ c.recv.reader \in ReaderType
    BY <1>1, AtTypes DEF Pcs, ChannelType
  <2>4. /\ x \in StrandType /\ x.pc = "draining" /\ x.write = p /\ x.read = c.recv.reader
        /\ x.fresh = NoPipe /\ x.script # <<>>
    BY <1>1, <2>3, PipeIdsFact DEF AtFacts, StrandType
  <2>5. StrandOK(x)
    BY <2>4 DEF StrandOK
  <2> HIDE DEF e, x
  <2>6. Good(e, S, x, tasks, data, pipes, sent, got)
    BY <1>3, <1>7, <2>1, <2>2, <2>4, <2>5, ReceiverReplaces
  <2> QED BY <2>2, <2>4, <2>6, ReceiverStep
<1> QED BY <1>3, <1>4, <1>5, <1>6, <1>7 DEF BecomeRecvPipe

LEMMA NegotiateTurnSound ==
  ASSUME Sound, NEW s \in Strands, NEW c, Same(ch, c), strand[s].pc \in {"idle", "negotiating"},
         strand[s].script # <<>>,
         Good(c, strand["sender"], strand["receiver"], tasks, data, pipes, sent, got),
         NegotiateTurn(s, c), UNCHANGED <<data, pipes, sent, got>>
  PROVE  Sound'
<1>1. c \in ChannelType /\ Control(ch, strand["sender"], strand["receiver"], tasks)
  BY SoundTypes DEF Same
<1>2. strand[s].pc \in Handless /\ StrandOK(strand[s])
  BY SoundTypes DEF Handless
<1>3. /\ s = "sender" => ~c.sendClosed
      /\ s = "receiver" => ~c.recvClosed
  BY <1>1 DEF Same, Control, SenderOK, ReceiverOK
<1>4. ASSUME NEW e, Same(c, e), ch' = e, UNCHANGED tasks,
             NEW x \in StrandType, x.pc \in Handless, x.pc # "panicked", StrandOK(x),
             x.fresh \in {NoPipe, strand[s].fresh}, Become(s, x)
      PROVE  Sound'
  <2>1. Good(e, strand["sender"], strand["receiver"], tasks, data, pipes, sent, got)
    BY <1>4, SameGood
  <2>2. e.sendClosed = c.sendClosed /\ e.recvClosed = c.recvClosed
    BY <1>4 DEF Same
  <2>3. CASE s = "sender"
    <3>1. Good(e, x, strand["receiver"], tasks, data, pipes, sent, got)
      BY <1>3, <1>4, <2>1, <2>2, <2>3, SenderRests
    <3> QED BY <1>4, <2>3, <3>1, SenderStep
  <2>4. CASE s = "receiver"
    <3>1. Good(e, strand["sender"], x, tasks, data, pipes, sent, got)
      BY <1>2, <1>3, <1>4, <2>1, <2>2, <2>4, ReceiverRests
    <3> QED BY <1>4, <2>4, <3>1, ReceiverStep
  <2> QED BY <2>3, <2>4 DEF Strands
<1>5. Same(c, c) /\ Same(c, [c EXCEPT !.negotiateWakers = @ \cup {s}])
  BY <1>1, SameWaiting
<1>6. CASE ch' = c /\ Become(s, Failed(s)) /\ UNCHANGED tasks
  <2> DEFINE x == Failed(s)
  <2>1. x \in StrandType /\ x.pc \in Handless /\ x.pc # "panicked" /\ StrandOK(x) /\ x.fresh = NoPipe
    BY IdleTypes DEF Handless
  <2> HIDE DEF x
  <2> QED BY <1>4, <1>5, <1>6, <2>1 DEF x
<1>7. CASE /\ ch' = [c EXCEPT !.negotiateWakers = @ \cup {s}]
           /\ Become(s, At(s, "negotiating")) /\ UNCHANGED tasks
  <2> DEFINE x == At(s, "negotiating")
  <2>1. AtFacts(s, "negotiating")
    BY AtTypes DEF Pcs
  <2>2. /\ x \in StrandType /\ x.pc \in Handless /\ x.pc # "panicked" /\ StrandOK(x)
        /\ x.fresh = strand[s].fresh
    BY <2>1 DEF AtFacts, Handless, StrandOK
  <2> HIDE DEF x
  <2> QED BY <1>4, <1>5, <1>7, <2>2 DEF x
<1>8. CASE strand[s].fresh = NoPipe /\ ch' = c /\ Become(s, At(s, "opening")) /\ UNCHANGED tasks
  <2> DEFINE x == At(s, "opening")
  <2>1. AtFacts(s, "opening")
    BY AtTypes DEF Pcs
  <2>2. /\ x \in StrandType /\ x.pc \in Handless /\ x.pc # "panicked" /\ StrandOK(x)
        /\ x.fresh = NoPipe
    BY <1>8, <2>1 DEF AtFacts, Handless, StrandOK
  <2> HIDE DEF x
  <2> QED BY <1>4, <1>5, <1>8, <2>2 DEF x
<1>9. CASE /\ s = "sender" /\ ~(NeedsPipe(s, c) /\ strand[s].fresh = NoPipe) /\ BecomeSendPipe(c)
  BY <1>2, <1>3, <1>9, BecomeSendPipeSound DEF NeedsPipe
<1>10. CASE /\ s = "receiver" /\ ~(NeedsPipe(s, c) /\ strand[s].fresh = NoPipe)
            /\ Verdict(s, c) = "go" /\ BecomeRecvPipe(c)
  <2>1. RecvVerdict(c) = "go"
    BY <1>10 DEF Verdict
  <2> QED BY <1>2, <1>3, <1>10, <2>1, BecomeRecvPipeSound
<1> QED BY <1>6, <1>7, <1>8, <1>9, <1>10 DEF NegotiateTurn, Strands

LEMMA NegotiateSound ==
  ASSUME Sound, NEW s \in Strands, Negotiate(s)
  PROVE  Sound'
<1>1. UNCHANGED <<data, pipes, sent, got>>
  BY DEF Negotiate
<1>2. CASE (\E op \in {"run", "head"} : Starts(s, op)) /\ NegotiateTurn(s, ch)
  <2>1. Same(ch, ch)
    BY SoundTypes DEF Same
  <2> QED BY <1>1, <1>2, <2>1, NegotiateTurnSound DEF Starts, Sound
<1>3. CASE strand[s].pc = "negotiating" /\ NegotiateTurn(s, Awake(s))
  <2>1. strand[s].script # <<>>
    BY <1>3, SoundTypes DEF StrandOK, Resting
  <2> QED BY <1>1, <1>3, <2>1, AwakeGood, NegotiateTurnSound
<1> QED BY <1>2, <1>3 DEF Negotiate

-----------------------------------------------------------------------------
(***************************************************************************)
(* No pipe holds more than it can.                                         *)
(***************************************************************************)
LEMMA WriteRoom ==
  ASSUME Sound, Room, NEW p, NEW v \in Nat, HasRoom(p), Write(p, v)
  PROVE  Room'
<1>1. data \in DataType
  BY SoundTypes
<1> SUFFICES ASSUME NEW q \in 1..MaxPipes PROVE Len(data'[q]) <= PipeCapacity
  BY DEF Room
<1>2. data[q] \in Seq(Nat) /\ Len(data[q]) <= PipeCapacity
  BY <1>1 DEF DataType, Room
<1>3. CASE q = p
  <2>1. data'[q] = Append(data[q], v)
    BY <1>1, <1>3 DEF Write, DataType
  <2>2. Len(data'[q]) = Len(data[q]) + 1
    BY <1>2, <2>1, AppendPlaces
  <2>3. Len(data[q]) < PipeCapacity /\ Len(data[q]) \in Nat
    BY <1>2, <1>3 DEF HasRoom
  <2> QED BY <2>2, <2>3, SizesAssumption
<1>4. CASE q # p
  BY <1>1, <1>2, <1>4 DEF Write, DataType
<1> QED BY <1>3, <1>4

\* Reading leaves no pipe with more than it had.
LEMMA ReadRoom ==
  ASSUME Sound, NEW r \in ReaderType, r.pipe # NoPipe, Filled(r) # <<>>
  PROVE  /\ Unread(r) \in DataType
         /\ \A q \in 1..MaxPipes : Len(Unread(r)[q]) <= Len(data[q])
<1>1. data \in DataType
  BY SoundTypes
<1>2. ReadFacts(r)
  BY <1>1, StrRead
<1>3. ASSUME NEW q \in 1..MaxPipes PROVE Len(Unread(r)[q]) <= Len(data[q])
  <2>1. CASE q = r.pipe
    BY <1>2, <2>1 DEF ReadFacts
  <2>2. CASE q # r.pipe
    <3>1. Unread(r)[q] = data[q] /\ data[q] \in Seq(Nat)
      BY <1>1, <1>2, <2>2 DEF ReadFacts, DataType
    <3> QED BY <3>1
  <2> QED BY <2>1, <2>2
<1> QED BY <1>2, <1>3 DEF ReadFacts

LEMMA DrainRoom ==
  ASSUME Sound, Room, NEW s \in Strands, Drain(s)
  PROVE  Room'
<1> DEFINE r == strand[s].read
           p == strand[s].write
           v == Head(Filled(r))
<1>1. CASE UNCHANGED data
  BY <1>1 DEF Room
<1>2. CASE /\ Filled(r) # <<>> /\ HasRoom(p)
           /\ data' = [Unread(r) EXCEPT ![p] = Append(@, v)]
  <2>1. r \in ReaderType /\ r.pipe # NoPipe /\ data \in DataType
    BY SoundTypes DEF Drain, Strands, StrandType, Control, SenderOK, ReceiverOK
  <2>2. /\ Unread(r) \in DataType
        /\ \A q \in 1..MaxPipes : Len(Unread(r)[q]) <= Len(data[q])
    BY <1>2, <2>1, ReadRoom
  <2>3. v \in Nat
    BY <1>2, <2>1, StrRead DEF ReadFacts
  <2>4. PICK u \in DataType : u = Unread(r)
    BY <2>2
  <2> SUFFICES ASSUME NEW q \in 1..MaxPipes PROVE Len(data'[q]) <= PipeCapacity
    BY DEF Room
  <2>5. /\ data[q] \in Seq(Nat) /\ Len(data[q]) <= PipeCapacity /\ u[q] \in Seq(Nat)
        /\ Len(u[q]) <= Len(data[q]) /\ Len(u[q]) \in Nat /\ Len(data[q]) \in Nat
        /\ PipeCapacity \in Nat
    BY <2>1, <2>2, <2>4, SizesAssumption DEF DataType, Room
  <2> HIDE DEF v
  <2>6. CASE q = p
    <3>1. data'[q] = Append(u[q], v)
      BY <1>2, <2>4, <2>6 DEF DataType
    <3>2. Len(data'[q]) = Len(u[q]) + 1
      BY <2>3, <2>5, <3>1, AppendPlaces
    <3>3. Len(data[q]) < PipeCapacity
      BY <1>2, <2>6 DEF HasRoom
    <3> QED BY <2>5, <3>2, <3>3
  <2>7. CASE q # p
    <3>1. data'[q] = u[q]
      BY <1>2, <2>4, <2>7 DEF DataType
    <3> QED BY <2>5, <3>1
  <2> QED BY <2>6, <2>7
<1> QED BY <1>1, <1>2 DEF Drain

LEMMA NextReadRoom ==
  ASSUME Sound, Room, NextRead
  PROVE  Room'
<1> DEFINE r == strand["receiver"].read
<1>1. CASE UNCHANGED data
  BY <1>1 DEF Room
<1>2. CASE Filled(r) # <<>> /\ data' = Unread(r)
  <2>1. r \in ReaderType /\ r.pipe # NoPipe /\ data \in DataType
    BY SoundTypes DEF NextRead, Strands, StrandType, Control, ReceiverOK
  <2>2. /\ data' \in DataType
        /\ \A q \in 1..MaxPipes : Len(data'[q]) <= Len(data[q])
    BY <1>2, <2>1, ReadRoom
  <2> SUFFICES ASSUME NEW q \in 1..MaxPipes PROVE Len(data'[q]) <= PipeCapacity
    BY DEF Room
  <2>3. /\ data[q] \in Seq(Nat) /\ Len(data[q]) <= PipeCapacity /\ data'[q] \in Seq(Nat)
        /\ Len(data'[q]) <= Len(data[q])
    BY <2>1, <2>2 DEF DataType, Room
  <2> QED BY <2>3, SizesAssumption
<1> QED BY <1>1, <1>2 DEF NextRead

LEMMA RecvProgramRoom ==
  ASSUME Sound, Room, RecvProgram
  PROVE  Room'
<1> DEFINE p == strand["receiver"].prog
<1>1. data \in DataType /\ data[p] # <<>> /\ data' = [data EXCEPT ![p] = Tail(@)]
  BY SoundTypes DEF RecvProgram
<1> SUFFICES ASSUME NEW q \in 1..MaxPipes PROVE Len(data'[q]) <= PipeCapacity
  BY DEF Room
<1>2. data[q] \in Seq(Nat) /\ Len(data[q]) <= PipeCapacity /\ Len(data[q]) \in Nat
  BY <1>1 DEF DataType, Room
<1>3. CASE q = p
  <2>1. data'[q] = Tail(data[q]) /\ data[q] # <<>>
    BY <1>1, <1>3 DEF DataType
  <2>2. Len(data'[q]) = Len(data[q]) - 1
    BY <1>2, <2>1, TailPlaces
  <2> QED BY <1>2, <2>2, SizesAssumption
<1>4. CASE q # p
  BY <1>1, <1>2, <1>4 DEF DataType
<1> QED BY <1>3, <1>4

LEMMA StepRoom ==
  ASSUME Sound, Room, Next
  PROVE  Room'
<1>1. CASE UNCHANGED data
  BY <1>1 DEF Room
<1>2. sent + 1 \in Nat
  BY SoundTypes
<1>3. CASE PutWrite
  BY <1>1, <1>2, <1>3, WriteRoom DEF PutWrite
<1>4. CASE Flush
  <2>1. strand["sender"].stale \in Nat
    BY SoundTypes DEF StrandType, Strands
  <2> QED BY <1>1, <1>4, <2>1, WriteRoom DEF Flush
<1>5. CASE SendProgram
  BY <1>2, <1>5, WriteRoom DEF SendProgram
<1>6. CASE \E t \in tasks : TaskWrite(t)
  <2>1. PICK t \in tasks : TaskWrite(t)
    BY <1>6
  <2>2. t.item \in Nat
    BY SoundTypes DEF TaskType
  <2> QED BY <1>1, <2>1, <2>2, WriteRoom DEF TaskWrite
<1>7. CASE \E s \in Strands : Drain(s)
  BY <1>7, DrainRoom
<1>8. CASE NextRead
  BY <1>8, NextReadRoom
<1>9. CASE RecvProgram
  BY <1>9, RecvProgramRoom
<1>10. CASE \/ Put \/ Next1 \/ SendLaunch \/ SendExit \/ RecvLaunch \/ RecvExit
            \/ \E s \in Strands : Negotiate(s) \/ Opened(s) \/ CloseStage(s)
  BY <1>1, <1>10 DEF Put, Next1, SendLaunch, SendExit, RecvLaunch, RecvExit, Negotiate, Opened,
                     CloseStage
<1> QED BY <1>3, <1>4, <1>5, <1>6, <1>7, <1>8, <1>9, <1>10 DEF Next, Programs

LEMMA StepSound ==
  ASSUME Sound, Next
  PROVE  Sound'
<1>1. CASE Put
  BY <1>1, PutSound
<1>2. CASE PutWrite
  BY <1>2, PutWriteSound
<1>3. CASE Next1
  BY <1>3, Next1Sound
<1>4. CASE NextRead
  BY <1>4, NextReadSound
<1>5. CASE Flush
  BY <1>5, FlushSound
<1>6. CASE \E s \in Strands : Negotiate(s) \/ Opened(s) \/ Drain(s) \/ CloseStage(s)
  <2>1. PICK s \in Strands : Negotiate(s) \/ Opened(s) \/ Drain(s) \/ CloseStage(s)
    BY <1>6
  <2>2. CASE Drain(s)
    BY <2>2, SenderDrainSound, ReceiverDrainSound DEF Strands
  <2> QED BY <2>1, <2>2, NegotiateSound, OpenedSound, CloseStageSound
<1>7. CASE \E t \in tasks : TaskWrite(t)
  BY <1>7, TaskWriteSound
<1>8. CASE Programs
  BY <1>8, SendLaunchSound, SendProgramSound, SendExitSound, RecvLaunchSound, RecvProgramSound,
     RecvExitSound DEF Programs
<1> QED BY <1>1, <1>2, <1>3, <1>4, <1>5, <1>6, <1>7, <1>8 DEF Next

-----------------------------------------------------------------------------
(***************************************************************************)
(* The theorems.                                                           *)
(***************************************************************************)
LEMMA InitSound ==
  ASSUME Init
  PROVE  Inv
<1> DEFINE S == strand["sender"]
           R == strand["receiver"]
<1>1. /\ plan \in Stages /\ tasks = {} /\ pipes = 0 /\ sent = 0 /\ got = <<>>
      /\ data = [p \in 1..MaxPipes |-> <<>>]
  BY DEF Init
<1>2. /\ S = [Idle EXCEPT !.script = plan[1]] /\ R = [Idle EXCEPT !.script = plan[2]]
      /\ strand = [s \in Strands |-> [Idle EXCEPT !.script = plan[IF s = "sender" THEN 1 ELSE 2]]]
  BY DEF Init, Strands
<1>3. plan[1] \in Seq(SendOps \cup RecvOps) /\ plan[2] \in Seq(SendOps \cup RecvOps)
  <2>1. plan[1] \in Seq(SendOps) /\ plan[2] \in Seq(RecvOps)
    BY <1>1, StagesAssumption
  <2> QED BY <2>1
<1>4. /\ S \in StrandType /\ S.pc = "idle" /\ S.fresh = NoPipe
      /\ R \in StrandType /\ R.pc = "idle" /\ R.fresh = NoPipe
  <2>1. ASSUME NEW t \in Seq(SendOps \cup RecvOps)
        PROVE  /\ [Idle EXCEPT !.script = t] \in StrandType
               /\ [Idle EXCEPT !.script = t].pc = "idle" /\ [Idle EXCEPT !.script = t].fresh = NoPipe
    BY IdleTypes DEF StrandType
  <2>2. /\ [Idle EXCEPT !.script = plan[1]] \in StrandType
        /\ [Idle EXCEPT !.script = plan[1]].pc = "idle"
        /\ [Idle EXCEPT !.script = plan[1]].fresh = NoPipe
    BY <1>3, <2>1
  <2>3. /\ [Idle EXCEPT !.script = plan[2]] \in StrandType
        /\ [Idle EXCEPT !.script = plan[2]].pc = "idle"
        /\ [Idle EXCEPT !.script = plan[2]].fresh = NoPipe
    BY <1>3, <2>1
  <2> QED BY <1>2, <2>2, <2>3
<1>5. strand \in [Strands -> StrandType]
  BY <1>2, <1>4 DEF Strands
<1>6. Is(ch, "Value", 0, NoSend, NoRecv, FALSE, FALSE)
  <2>1. /\ ch.state = "Value" /\ ch.buffered = 0 /\ ch.send = NoSend /\ ch.recv = NoRecv
        /\ ch.sendClosed = FALSE /\ ch.recvClosed = FALSE
    BY DEF Init, NoSend, NoRecv, SendEnd, RecvEnd
  <2>2. ch \in ChannelType
    BY EndTypes DEF Init, NoSend, NoRecv, SendEnd, RecvEnd, ChannelType, States
  <2> QED BY <2>1, <2>2 DEF Is
<1>7. Control(ch, S, R, tasks)
  <2>1. StrandOK(S) /\ StrandOK(R)
    BY <1>4 DEF StrandOK, Resting
  <2>2. SenderOK(ch, S, R, tasks) /\ ReceiverOK(ch, R)
    BY <1>4, <1>6 DEF SenderOK, ReceiverOK, Is
  <2>3. EndsOK(ch)
    BY <1>6, EndParts DEF EndsOK, Is
  <2> QED BY <1>1, <1>4, <1>6, <2>1, <2>2, <2>3 DEF Control, Is
<1>8. /\ MainOf(ch, R) = NoReader /\ OldOf(S, R) = NoReader /\ IntoOf(S, R) = NoPipe
      /\ WritersOf(ch, S) = {} /\ PendingOf(tasks, S) = {} /\ FreshOf(S, R) = {}
      /\ ch.buffered = 0
  BY <1>1, <1>4, <1>6, EndParts DEF MainOf, OldOf, IntoOf, WritersOf, PendingOf, FreshOf, Is
<1>9. Core(NoReader, NoReader, NoPipe, {}, {}, {}, 0, data, 0, 0, <<>>)
  <2>1. data \in DataType /\ \A p \in 1..MaxPipes : data[p] = <<>>
    BY <1>1, NoItems DEF DataType
  <2>2. Str(data, NoReader) = <<>> /\ NoReader \in ReaderType /\ NoReader.pipe = NoPipe
        /\ NoPipe \in PipeIds /\ 0 \in PipeIds
    BY <2>1, StrOfEmpty, ReaderParts, PipeIdsFact DEF NoPipe
  <2>3. ViewTyped(NoReader, NoReader, NoPipe, {}, {}, {}, 0, data, 0, 0, <<>>)
    BY <2>1, <2>2, NoItems DEF ViewTyped
  <2>4. Ordered(<<>>, Str(data, NoReader), Str(data, NoReader), 0)
    BY <2>2, NoItems DEF Ordered, Sorted, Below, Bounded
  <2>5. /\ SlotOK(NoReader, NoReader, 0, 0, <<>>)
        /\ PendingOK(NoReader, NoReader, NoPipe, {}, {}, data, 0, <<>>)
        /\ WritersOK(NoReader, NoReader, {}, {})
        /\ DrainOK(NoReader, NoReader, NoPipe, {})
    BY <2>2 DEF SlotOK, PendingOK, WritersOK, DrainOK
  <2>6. FreshOK(NoReader, NoReader, NoPipe, {}, {}, {}, data, 0)
    BY <2>1, <2>2, PipeIdsFact DEF FreshOK
  <2> QED BY <2>3, <2>4, <2>5, <2>6 DEF Core
<1>10. View(ch, S, R, tasks, data, pipes, sent, got)
  BY <1>1, <1>8, <1>9 DEF View
<1>11. Room
  <2>1. \A p \in 1..MaxPipes : data[p] = <<>>
    BY <1>1
  <2> QED BY <2>1, NoItems, SizesAssumption DEF Room
<1> QED BY <1>1, <1>5, <1>7, <1>10, <1>11 DEF Inv, Sound, Good

LEMMA StepInv ==
  ASSUME Inv, [Next]_vars
  PROVE  Inv'
<1>1. CASE Next
  <2>1. plan' = plan
    BY <1>1 DEF Next
  <2> QED BY <1>1, <2>1, StepSound, StepRoom DEF Inv
<1>2. CASE UNCHANGED vars
  BY <1>2 DEF Inv, Sound, Room, vars
<1> QED BY <1>1, <1>2

\* Init, Next and Inv, whatever the stages do and however large the pipes are.
THEOREM PipeInvariant == Spec => []Inv
<1>1. Init => Inv
  BY InitSound
<1>2. Inv /\ [Next]_vars => Inv'
  BY StepInv
<1> QED BY <1>1, <1>2, PTL DEF Spec

\* TypeOK is an invariant: the fields of PipeChannelShared, the guards and the
\* tasks keep their types, and no write overfills a pipe.
THEOREM PipeTypes == Spec => []TypeOK
<1>1. Inv => TypeOK
  <2> SUFFICES ASSUME Inv PROVE TypeOK
    OBVIOUS
  <2>1. Sound /\ plan \in Stages /\ Room
    BY DEF Inv
  <2>2. strand \in [Strands -> StrandType]
    BY <2>1 DEF Sound
  <2> QED BY <2>1, <2>2, SoundTypes DEF TypeOK, DataType, Room
<1> QED BY <1>1, PipeInvariant, PTL

\* InOrder is an invariant: whatever the stages do, however often the channel
\* goes from values to a pipe and back, items arrive in the order they entered
\* and none arrives twice (pipe_channel.rs, negotiate_send and negotiate_recv
\* with the old pipe drained first, and the guards that restore the ends).
THEOREM PipeInOrder == Spec => []InOrder
<1>1. Inv => InOrder
  <2> SUFFICES ASSUME Inv PROVE InOrder
    OBVIOUS
  <2>1. Sorted(got) /\ got \in Seq(Nat)
    BY SoundTypes DEF Inv, Sound, Good, View, Core, Ordered
  <2>2. DOMAIN got = 1..Len(got)
    BY <2>1
  <2> QED BY <2>1, <2>2 DEF InOrder, Sorted
<1> QED BY <1>1, PipeInvariant, PTL

\* The receiver's strand never reaches an unwrap of an absent end or the
\* unreachable!() of recv_done, whatever the stages do.
THEOREM ReceiverNeverPanics == Spec => [](strand["receiver"].pc # "panicked")
<1>1. Inv => strand["receiver"].pc # "panicked"
  BY SoundTypes DEF Inv, Control, ReceiverOK
<1> QED BY <1>1, PipeInvariant, PTL

-----------------------------------------------------------------------------
(***************************************************************************)
(* No panic upstream.  A sender that runs a program at most as the first   *)
(* thing it does goes through three phases: until its negotiation is over  *)
(* the channel has seen nothing of it; while its program is there the      *)
(* state keeps the program's side open; after that it only puts values.    *)
(***************************************************************************)
OnlyPuts(q) == \A i \in 1..Len(q) : q[i] = "put"

\* The upstream stage runs a program at most as its first operation.
RunsFirst == plan[1] # <<>> => OnlyPuts(Tail(plan[1]))

RunAhead(s) == s.script # <<>> /\ OnlyPuts(Tail(s.script))

Before(c, s, r, ts) ==
  /\ s.pc \in {"idle", "opening", "negotiating"} /\ RunAhead(s) /\ Head(s.script) = "run"
  /\ c.state \in {"Value", "RecvPipe"} /\ c.buffered = 0
  /\ c.state = "RecvPipe" => c.send.is = "present" /\ MainOf(c, r).pipe \in {NoPipe, c.send.pipe}
  /\ r.pc # "draining" /\ ts = {}

Held(s) == IF s.pc = "running" THEN s.prog ELSE s.write

During(c, s, r) ==
  /\ s.pc \in {"cloning", "running"} /\ RunAhead(s)
  /\ c.state \in {"SendPipe", "Direct"}
  /\ MainOf(c, r).pipe \in {NoPipe, Held(s)}
  /\ r.pc # "draining"

Behind(s) == s.pc \in {"idle", "parked", "writing", "failed", "closed"} /\ OnlyPuts(s.script)

Phase(c, s, r, ts) == Before(c, s, r, ts) \/ During(c, s, r) \/ Behind(s)

LEMMA TailPuts ==
  ASSUME NEW q \in Seq(SendOps \cup RecvOps), q # <<>>, OnlyPuts(q)
  PROVE  OnlyPuts(Tail(q)) /\ Head(q) = "put"
<1>1. /\ Head(q) = q[1] /\ Len(q) >= 1 /\ Len(Tail(q)) = Len(q) - 1
      /\ \A i \in 1..Len(Tail(q)) : Tail(q)[i] = q[i + 1] /\ i + 1 \in 1..Len(q)
  OBVIOUS
<1>2. 1 \in 1..Len(q)
  BY <1>1
<1> QED BY <1>1, <1>2 DEF OnlyPuts

\* Failed has nothing left to do.
LEMMA FailedBehind == Behind(Failed("sender"))
<1>1. Failed("sender").script = <<>> /\ Failed("sender").pc = "failed"
  BY DEF Failed, Idle
<1>2. OnlyPuts(<<>>)
  BY DEF OnlyPuts
<1> QED BY <1>1, <1>2 DEF Behind

\* The channel keeps the phase when the receiver's step keeps these fields.
LEMMA BeforeKept ==
  ASSUME NEW c, NEW s, NEW r, NEW ts, Before(c, s, r, ts), NEW e, NEW x,
         e.state \in {"Value", "RecvPipe"}, e.buffered = 0, x.pc # "draining",
         e.state = "RecvPipe" => /\ e.send.is = "present"
                                 /\ MainOf(e, x).pipe \in {NoPipe, e.send.pipe}
  PROVE  Before(e, s, x, ts)
  BY DEF Before

LEMMA DuringKept ==
  ASSUME NEW c, NEW s, NEW r, During(c, s, r), NEW e, NEW x,
         e.state \in {"SendPipe", "Direct"}, x.pc # "draining",
         MainOf(e, x).pipe \in {NoPipe, MainOf(c, r).pipe}
  PROVE  During(e, s, x)
  BY DEF During

\* What is known of the sender's side at a step of the receiver.
PhaseNow == Phase(ch, strand["sender"], strand["receiver"], tasks)

LEMMA ReceiverKeepsPhase ==
  ASSUME Sound, PhaseNow, NEW x, Become("receiver", x),
         Before(ch, strand["sender"], strand["receiver"], tasks)
           => Before(ch', strand["sender"], x, tasks'),
         During(ch, strand["sender"], strand["receiver"]) => During(ch', strand["sender"], x)
  PROVE  PhaseNow'
<1>1. strand'["sender"] = strand["sender"] /\ strand'["receiver"] = x
  BY DEF Become, Sound, Strands
<1> QED BY <1>1 DEF Phase, PhaseNow

LEMMA SenderChangesPhase ==
  ASSUME Sound, NEW x, Become("sender", x), Phase(ch', x, strand["receiver"], tasks')
  PROVE  PhaseNow'
<1>1. strand'["sender"] = x /\ strand'["receiver"] = strand["receiver"]
  BY DEF Become, Sound, Strands
<1> QED BY <1>1 DEF PhaseNow

-----------------------------------------------------------------------------
\* The sender's own steps.
LEMMA PutPhase ==
  ASSUME Sound, PhaseNow, Put
  PROVE  PhaseNow'
<1> DEFINE S == strand["sender"]
<1>1. /\ S.pc \in {"idle", "parked"} /\ S.script # <<>> /\ Head(S.script) = "put"
      /\ S \in StrandType /\ S.script \in Seq(SendOps \cup RecvOps)
  <2>1. S.pc \in {"idle", "parked"} /\ Head(S.script) = "put"
    BY DEF Put, Starts, Resumes, Op
  <2>2. S.script # <<>>
    BY SoundTypes DEF Put, Starts, Resumes, StrandOK, Resting, Strands
  <2>3. S \in StrandType
    BY SoundTypes DEF Strands
  <2> QED BY <2>1, <2>2, <2>3 DEF StrandType
<1>2. OnlyPuts(S.script) /\ OnlyPuts(Tail(S.script))
  <2>1. Behind(S)
    BY <1>1 DEF PhaseNow, Phase, Before, During
  <2> QED BY <1>1, <2>1, TailPuts DEF Behind
<1>3. ASSUME NEW c, PutTurn(c)
      PROVE  \E x : Become("sender", x) /\ Behind(x)
  <2>1. Behind(Done("sender"))
    <3>1. Done("sender").pc = "idle" /\ Done("sender").script = Tail(S.script)
      BY <1>1 DEF Done, StrandType
    <3> QED BY <1>2, <3>1 DEF Behind
  <2>2. Behind(At("sender", "parked"))
    <3>1. At("sender", "parked").pc = "parked" /\ At("sender", "parked").script = S.script
      BY <1>1 DEF At, StrandType
    <3> QED BY <1>2, <3>1 DEF Behind
  <2>3. Behind([At("sender", "writing") EXCEPT !.write = c.send.pipe])
    <3> DEFINE x == [At("sender", "writing") EXCEPT !.write = c.send.pipe]
    <3>1. x.pc = "writing" /\ x.script = S.script
      BY <1>1 DEF At, StrandType
    <3> HIDE DEF x
    <3>2. Behind(x)
      BY <1>2, <3>1 DEF Behind
    <3> QED BY <3>2 DEF x
  <2> QED BY <1>3, <2>1, <2>2, <2>3, FailedBehind DEF PutTurn
<1>4. CASE \E c : PutTurn(c)
  <2>1. PICK x : Become("sender", x) /\ Behind(x)
    BY <1>3, <1>4
  <2> QED BY <2>1, SenderChangesPhase DEF Phase
<1>5. CASE UNCHANGED strand
  <2>1. Behind(S)
    BY <1>1 DEF PhaseNow, Phase, Before, During
  <2> QED BY <1>5, <2>1 DEF PhaseNow, Phase
<1> QED BY <1>4, <1>5 DEF Put

LEMMA PutWritePhase ==
  ASSUME Sound, PhaseNow, PutWrite
  PROVE  PhaseNow'
<1> DEFINE S == strand["sender"]
<1>1. /\ S.pc = "writing" /\ S.script # <<>> /\ S \in StrandType
      /\ S.script \in Seq(SendOps \cup RecvOps)
  BY SoundTypes DEF PutWrite, StrandOK, Resting, Strands, StrandType
<1>2. OnlyPuts(Tail(S.script))
  <2>1. Behind(S)
    BY <1>1 DEF PhaseNow, Phase, Before, During
  <2> QED BY <1>1, <2>1, TailPuts DEF Behind
<1>3. Behind(Done("sender"))
  <2>1. Done("sender").pc = "idle" /\ Done("sender").script = Tail(S.script)
    BY <1>1 DEF Done, StrandType
  <2> QED BY <1>2, <2>1 DEF Behind
<1>4. PICK x : Become("sender", x) /\ Behind(x)
  BY <1>3, FailedBehind DEF PutWrite
<1> QED BY <1>4, SenderChangesPhase DEF Phase

LEMMA SendLaunchPhase ==
  ASSUME Sound, PhaseNow, SendLaunch
  PROVE  PhaseNow'
<1> DEFINE S == strand["sender"]
           R == strand["receiver"]
           p == S.write
           x == [At("sender", "running") EXCEPT !.write = NoPipe, !.prog = p, !.left = Emits]
<1>1. /\ S.pc = "cloning" /\ S \in StrandType /\ p \in PipeIds /\ ch \in ChannelType
  BY SoundTypes DEF SendLaunch, Strands, StrandType
<1>2. x.pc = "running" /\ x.prog = p /\ x.script = S.script
  BY <1>1 DEF At, StrandType
<1>3. During(ch, S, R)
  BY <1>1 DEF PhaseNow, Phase, Before, Behind
<1>4. PICK snd : Is(RestoreSend(ch, p), ch.state, ch.buffered, snd, ch.recv,
                    ch.sendClosed, ch.recvClosed)
  BY <1>1, RestoreSendIs DEF RestoresSend
<1>5. ch'.state = ch.state /\ ch'.recv = ch.recv
  BY <1>4 DEF SendLaunch, Is
<1>6. MainOf(ch', R) = MainOf(ch, R)
  BY <1>5 DEF MainOf
<1> HIDE DEF x
<1>7. During(ch', x, R)
  BY <1>1, <1>2, <1>3, <1>5, <1>6 DEF During, RunAhead, Held
<1> QED BY <1>7, SenderChangesPhase DEF Phase, SendLaunch, x

LEMMA SendProgramPhase ==
  ASSUME Sound, PhaseNow, SendProgram
  PROVE  PhaseNow'
<1> DEFINE S == strand["sender"]
           R == strand["receiver"]
           x == [S EXCEPT !.left = @ - 1]
<1>1. S.pc = "running" /\ S \in StrandType
  BY SoundTypes DEF SendProgram, Strands
<1>2. x.pc = "running" /\ x.prog = S.prog /\ x.script = S.script
  BY <1>1 DEF StrandType
<1>3. During(ch, S, R) /\ ch' = ch
  BY <1>1 DEF PhaseNow, Phase, Before, Behind, SendProgram
<1> HIDE DEF x
<1>4. During(ch', x, R)
  BY <1>1, <1>2, <1>3 DEF During, RunAhead, Held
<1> QED BY <1>4, SenderChangesPhase DEF Phase, SendProgram, x

LEMMA SendExitPhase ==
  ASSUME Sound, PhaseNow, SendExit
  PROVE  PhaseNow'
<1> DEFINE S == strand["sender"]
           R == strand["receiver"]
           x == [Done("sender") EXCEPT !.left = 0]
<1>1. S.pc = "running" /\ S \in StrandType
  BY SoundTypes DEF SendExit, Strands
<1>2. x.pc = "idle" /\ x.script = Tail(S.script)
  BY <1>1 DEF Done, StrandType
<1>3. During(ch, S, R)
  BY <1>1 DEF PhaseNow, Phase, Before, Behind
<1>4. MaySendDone(ch) /\ SendGuardDrop(ch, x)
  BY <1>3 DEF During, MaySendDone, SendExit
<1> HIDE DEF x
<1>5. Behind(x) /\ Become("sender", x)
  BY <1>2, <1>3, <1>4 DEF During, RunAhead, Behind, SendGuardDrop
<1> QED BY <1>5, SenderChangesPhase DEF Phase


\* The channel that a strand finds is ch up to its wakers.
LEMMA SamePhase ==
  ASSUME NEW c, Same(ch, c)
  PROVE  /\ Before(ch, strand["sender"], strand["receiver"], tasks)
              => Before(c, strand["sender"], strand["receiver"], tasks)
         /\ During(ch, strand["sender"], strand["receiver"])
              => During(c, strand["sender"], strand["receiver"])
<1>1. MainOf(c, strand["receiver"]) = MainOf(ch, strand["receiver"])
  BY DEF Same, MainOf
<1> QED BY <1>1 DEF Same, Before, During

LEMMA SendBecomesPhase ==
  ASSUME Sound, NEW c, Same(ch, c), Before(c, strand["sender"], strand["receiver"], tasks),
         NeedsPipe("sender", c) => strand["sender"].fresh # NoPipe,
         BecomeSendPipe(c)
  PROVE  PhaseNow'
<1> DEFINE S == strand["sender"]
           R == strand["receiver"]
           p == S.fresh
           rcv == RecvEnd("present", Reader(S.fresh, <<>>))
<1>1. /\ c \in ChannelType /\ S \in StrandType /\ p \in PipeIds /\ ~c.sendClosed
      /\ ReceiverOK(c, R) /\ EndsOK(c) /\ "sender" \in Strands
  <2>1. c \in ChannelType /\ S \in StrandType /\ Control(ch, S, R, tasks)
    BY SoundTypes DEF Same, Strands
  <2>2. ~c.sendClosed
    BY <2>1 DEF Control, SenderOK, Same, Before
  <2>3. ReceiverOK(c, R) /\ EndsOK(c)
    BY <2>1 DEF Control, Same, ReceiverOK, EndsOK
  <2> QED BY <2>1, <2>2, <2>3 DEF StrandType, Strands
<1>2. AtFacts("sender", "cloning")
  BY <1>1, AtTypes DEF Pcs
<1>3. ASSUME NEW q \in PipeIds
      PROVE  /\ Duplicating("sender", q, NoReader).pc = "cloning"
             /\ Duplicating("sender", q, NoReader).write = q
             /\ Duplicating("sender", q, NoReader).script = S.script
  BY <1>2 DEF AtFacts, Duplicating, StrandType
<1>4. ASSUME NEW e, NEW q \in PipeIds, NEW st \in {"SendPipe", "Direct"}, NEW b, NEW rc, NEW sc,
             NEW rv, Is(e, st, b, SendEnd("present", q), rv, sc, rc),
             MainOf(e, R).pipe \in {NoPipe, q}, Duplicate("sender", e)
      PROVE  PhaseNow'
  <2> DEFINE x == Duplicating("sender", q, NoReader)
  <2>1. e \in ChannelType /\ e.state = st /\ e.send = SendEnd("present", q)
    BY <1>4 DEF Is
  <2>2. e.send.is = "present" /\ e.send.pipe = q
    BY <2>1 DEF SendEnd
  <2>3. ch' = [e EXCEPT !.send = TakenSend] /\ Become("sender", x)
    BY <1>4, <2>2 DEF Duplicate
  <2>4. ch'.state = st /\ ch'.recv = e.recv
    BY <2>1, <2>3 DEF ChannelType
  <2>5. MainOf(ch', R) = MainOf(e, R)
    BY <2>4 DEF MainOf
  <2>6. x.pc = "cloning" /\ x.write = q /\ x.script = S.script
    BY <1>3
  <2> HIDE DEF x
  <2>7. During(ch', x, R)
    BY <1>4, <2>4, <2>5, <2>6 DEF During, Before, RunAhead, Held
  <2> QED BY <2>3, <2>7, SenderChangesPhase DEF Phase
<1>5. CASE /\ c.state = "Value"
           /\ FlushStale("sender", WakeReceivers(FreshPipe("sender", TakeBuffered(c), "SendPipe")),
                         p, c.buffered)
  <2> DEFINE e == WakeReceivers(FreshPipe("sender", TakeBuffered(c), "SendPipe"))
  <2>1. Is(e, "SendPipe", 0, TakenSend, rcv, c.sendClosed, c.recvClosed)
    BY <1>1, FreshIs, IsWake DEF States
  <2>2. FlushStale("sender", e, p, c.buffered) /\ p # NoPipe /\ c.buffered = 0
    BY <1>5 DEF NeedsPipe, Before
  <2> HIDE DEF e, rcv
  <2>3. Duplicate("sender", RestoreSend(e, p))
    BY <2>2 DEF FlushStale
  <2>4. Is(RestoreSend(e, p), "SendPipe", 0, SendEnd("present", p), rcv, c.sendClosed, c.recvClosed)
    <3>1. e \in ChannelType /\ ~e.sendClosed /\ e.state = "SendPipe"
      BY <1>1, <2>1 DEF Is
    <3>2. Is(RestoreSend(e, p), e.state, e.buffered, SendEnd("present", p), e.recv,
             e.sendClosed, e.recvClosed)
      BY <1>1, <3>1, RestoreSendIs DEF RestoresSend
    <3> QED BY <2>1, <3>2 DEF Is
  <2>5. MainOf(RestoreSend(e, p), R).pipe = p
    <3>1. R.pc \notin {"running", "cloning", "reading"}
      BY <1>1, <1>5 DEF ReceiverOK
    <3>2. RestoreSend(e, p).recv = rcv
      BY <2>4 DEF Is
    <3>3. rcv.is = "present" /\ rcv.reader.pipe = p
      BY DEF rcv, RecvEnd, Reader
    <3> QED BY <3>1, <3>2, <3>3 DEF MainOf
  <2> QED BY <1>1, <1>4, <2>3, <2>4, <2>5
<1>6. CASE /\ c.state = "RecvPipe" /\ c.send.is = "present"
           /\ FlushStale("sender", [c EXCEPT !.send = TakenSend, !.state = "Direct"], c.send.pipe, 0)
  <2> DEFINE e == [c EXCEPT !.send = TakenSend, !.state = "Direct"]
             q == c.send.pipe
  <2>1. q # NoPipe /\ q \in PipeIds
    BY <1>1, <1>6 DEF EndsOK, ChannelType
  <2>2. e \in ChannelType /\ e.state = "Direct" /\ e.buffered = c.buffered /\ e.recv = c.recv
        /\ e.sendClosed = c.sendClosed /\ e.recvClosed = c.recvClosed
    BY <1>1, EndTypes DEF ChannelType, States
  <2>3. Duplicate("sender", RestoreSend(e, q))
    BY <1>6, <2>1 DEF FlushStale
  <2> HIDE DEF e
  <2>4. Is(RestoreSend(e, q), "Direct", c.buffered, SendEnd("present", q), c.recv, c.sendClosed,
           c.recvClosed)
    BY <1>1, <2>1, <2>2, RestoreSendIs DEF RestoresSend
  <2>5. MainOf(RestoreSend(e, q), R) = MainOf(c, R)
    BY <2>4 DEF MainOf, Is
  <2>6. MainOf(c, R).pipe \in {NoPipe, q}
    BY <1>6 DEF Before
  <2> QED BY <1>4, <2>1, <2>3, <2>4, <2>5, <2>6
<1>7. c.state = "Value" \/ (c.state = "RecvPipe" /\ c.send.is = "present")
  BY DEF Before
<1> QED BY <1>5, <1>6, <1>7 DEF BecomeSendPipe

LEMMA SendNegotiatePhase ==
  ASSUME Sound, PhaseNow, Negotiate("sender")
  PROVE  PhaseNow'
<1> DEFINE S == strand["sender"]
           R == strand["receiver"]
<1>1. S \in StrandType /\ S.script \in Seq(SendOps \cup RecvOps) /\ ch \in ChannelType
  BY SoundTypes DEF Strands, StrandType
<1>2. Before(ch, S, R, tasks)
  <2>1. S.pc \in {"idle", "negotiating"}
    BY DEF Negotiate, Starts
  <2>2. CASE S.pc = "negotiating"
    BY <2>2 DEF PhaseNow, Phase, During, Behind
  <2>3. CASE S.pc = "idle"
    <3>1. S.script # <<>> /\ Head(S.script) # "put"
      BY <2>3 DEF Negotiate, Starts, Op
    <3>2. ~OnlyPuts(S.script)
      BY <1>1, <3>1, TailPuts
    <3> QED BY <2>3, <3>2 DEF PhaseNow, Phase, During, Behind
  <2> QED BY <2>1, <2>2, <2>3
<1>3. PICK c : Same(ch, c) /\ NegotiateTurn("sender", c)
  <2>1. Same(ch, ch) /\ Same(ch, Awake("sender"))
    BY <1>1, AwakeGood DEF Same, Strands
  <2> QED BY <2>1 DEF Negotiate
<1>4. Before(c, S, R, tasks) /\ c \in ChannelType
  BY <1>2, <1>3, SamePhase DEF Same
<1>5. ASSUME NEW pc \in {"opening", "negotiating"}, Become("sender", At("sender", pc)),
             Same(c, ch'), UNCHANGED tasks
      PROVE  PhaseNow'
  <2> DEFINE x == At("sender", pc)
  <2>1. AtFacts("sender", pc)
    BY <1>5, AtTypes DEF Pcs, Strands
  <2>2. x.pc = pc /\ x.script = S.script
    BY <2>1 DEF AtFacts
  <2>3. MainOf(ch', R) = MainOf(c, R)
    BY <1>5 DEF Same, MainOf
  <2> HIDE DEF x
  <2>4. Before(ch', x, R, tasks')
    BY <1>4, <1>5, <2>2, <2>3 DEF Before, Same, RunAhead
  <2> QED BY <1>5, <2>4, SenderChangesPhase DEF Phase, x
<1>6. CASE Become("sender", Failed("sender"))
  BY <1>6, FailedBehind, SenderChangesPhase DEF Phase
<1>7. CASE /\ ch' = [c EXCEPT !.negotiateWakers = @ \cup {"sender"}]
           /\ Become("sender", At("sender", "negotiating")) /\ UNCHANGED tasks
  <2>1. Same(c, ch')
    BY <1>4, <1>7, SameWaiting DEF Strands
  <2> QED BY <1>5, <1>7, <2>1
<1>8. CASE ch' = c /\ Become("sender", At("sender", "opening")) /\ UNCHANGED tasks
  <2>1. Same(c, ch')
    BY <1>4, <1>8 DEF Same
  <2> QED BY <1>5, <1>8, <2>1
<1>9. CASE ~(NeedsPipe("sender", c) /\ S.fresh = NoPipe) /\ BecomeSendPipe(c)
  BY <1>3, <1>4, <1>9, SendBecomesPhase
<1> QED BY <1>3, <1>6, <1>7, <1>8, <1>9 DEF NegotiateTurn


\* The sender is in no other of its own steps.
LEMMA SendOthersPhase ==
  ASSUME Sound, PhaseNow, Opened("sender") \/ CloseStage("sender") \/ Flush \/ Drain("sender")
  PROVE  PhaseNow'
<1> DEFINE S == strand["sender"]
           R == strand["receiver"]
<1>1. S \in StrandType /\ ch \in ChannelType
  BY SoundTypes DEF Strands
<1>2. CASE Opened("sender")
  <2> DEFINE x == [At("sender", "negotiating") EXCEPT !.fresh = pipes + 1]
  <2>1. Before(ch, S, R, tasks)
    BY <1>2 DEF PhaseNow, Phase, During, Behind, Opened
  <2>2. Same(ch, ch')
    BY <1>1, <1>2, SameWaiting DEF Opened, Strands
  <2>3. Before(ch', S, R, tasks)
    BY <2>1, <2>2, SamePhase
  <2>4. x.pc = "negotiating" /\ x.script = S.script
    BY <1>1 DEF At, StrandType
  <2>5. Become("sender", x) /\ UNCHANGED tasks
    BY <1>2 DEF Opened
  <2> HIDE DEF x
  <2>6. Before(ch', x, R, tasks')
    BY <2>3, <2>4, <2>5 DEF Before, RunAhead
  <2> QED BY <2>5, <2>6, SenderChangesPhase DEF Phase
<1>3. CASE CloseStage("sender")
  <2> DEFINE x == At("sender", "closed")
  <2>1. Behind(S)
    BY <1>3 DEF PhaseNow, Phase, Before, During, RunAhead, CloseStage
  <2>2. x.pc = "closed" /\ x.script = S.script
    BY <1>1 DEF At, StrandType
  <2> HIDE DEF x
  <2>3. Behind(x) /\ Become("sender", x)
    BY <1>3, <2>1, <2>2 DEF Behind, CloseStage, x
  <2> QED BY <2>3, SenderChangesPhase DEF Phase
<1>4. ~Flush /\ ~Drain("sender")
  BY DEF PhaseNow, Phase, Before, During, Behind, Flush, Drain
<1> QED BY <1>2, <1>3, <1>4

\* A task may put the write end of the program's pipe, or of a dead one, back.
LEMMA TaskWritePhase ==
  ASSUME Sound, PhaseNow, NEW t, TaskWrite(t)
  PROVE  PhaseNow'
<1> DEFINE S == strand["sender"]
           R == strand["receiver"]
<1>1. ch \in ChannelType /\ t \in tasks /\ t.pipe \in PipeIds
  BY SoundTypes DEF TaskWrite, TaskType
<1>2. ~Before(ch, S, R, tasks)
  BY <1>1 DEF Before
<1>3. PICK snd : Is(RestoreSend(ch, t.pipe), ch.state, ch.buffered, snd, ch.recv,
                    ch.sendClosed, ch.recvClosed)
  BY <1>1, RestoreSendIs DEF RestoresSend
<1>4. ch'.state = ch.state /\ ch'.recv = ch.recv
  BY <1>3 DEF TaskWrite, Is
<1>5. MainOf(ch', R) = MainOf(ch, R)
  BY <1>4 DEF MainOf
<1>6. During(ch, S, R) => During(ch', S, R)
  BY <1>4, <1>5 DEF During
<1>7. strand' = strand
  BY DEF TaskWrite
<1> QED BY <1>2, <1>6, <1>7 DEF PhaseNow, Phase

-----------------------------------------------------------------------------
\* The receiver's steps.
LEMMA NextInValuePhase ==
  ASSUME Sound, PhaseNow, NEW c \in ChannelType, c.state = "Value", UNCHANGED tasks,
         NextInValue(c),
         Before(ch, strand["sender"], strand["receiver"], tasks) => c.buffered = 0,
         ~During(ch, strand["sender"], strand["receiver"]),
         strand["receiver"].script # <<>>
  PROVE  PhaseNow'
<1> DEFINE S == strand["sender"]
           R == strand["receiver"]
<1>1. PICK x : Become("receiver", x) /\ x.pc \in {"idle", "parked"}
  <2>1. "receiver" \in Strands
    BY DEF Strands
  <2>2. DoneFacts("receiver") /\ AtFacts("receiver", "parked") /\ AtFacts("receiver", "idle")
    BY <2>1, DoneTypes, AtTypes DEF Pcs
  <2>3. [At("receiver", "parked") EXCEPT !.read = NoReader].pc = "parked"
    BY <2>2 DEF AtFacts, StrandType
  <2> QED BY <2>2, <2>3 DEF NextInValue, Received, DoneFacts, AtFacts
<1>2. ch'.state = "Value" /\ (c.buffered = 0 => ch'.buffered = 0)
  <2>1. Is([c EXCEPT !.buffered = 0], c.state, 0, c.send, c.recv, c.sendClosed, c.recvClosed)
    BY IsExcept
  <2>2. Is(WakeSenders(WakeNegotiators([c EXCEPT !.buffered = 0])), c.state, 0, c.send, c.recv,
           c.sendClosed, c.recvClosed)
    BY <2>1, IsWake
  <2>3. Same(c, [c EXCEPT !.recvWakers = {"receiver"}])
    BY SameWaiting DEF Strands
  <2> QED BY <2>2, <2>3 DEF NextInValue, Is, Same
<1>3. Before(ch, S, R, tasks) => Before(ch', S, x, tasks')
  BY <1>1, <1>2, BeforeKept
<1> QED BY <1>1, <1>3, ReceiverKeepsPhase

LEMMA NextTurnPhase ==
  ASSUME Sound, PhaseNow, NEW c, Same(ch, c), strand["receiver"].pc \in {"idle", "parked"},
         strand["receiver"].script # <<>>, NextTurn(c), UNCHANGED tasks
  PROVE  PhaseNow'
<1> DEFINE S == strand["sender"]
           R == strand["receiver"]
<1>1. /\ c \in ChannelType /\ "receiver" \in Strands
      /\ c.state # "Value" => c.recv.is # "absent"
  BY SoundTypes DEF Control, ReceiverOK, EndsOK, Strands, Same
<1>2. CASE c.state = "Value" /\ NextInValue(c)
  BY <1>1, <1>2, NextInValuePhase DEF Before, During, Same
<1>3. CASE /\ c.state \in {"SendPipe", "Draining"} /\ c.recv.is = "present"
           /\ ch' = [c EXCEPT !.recv = TakenRecv]
           /\ Become("receiver", [At("receiver", "reading") EXCEPT !.read = c.recv.reader])
  <2> DEFINE x == [At("receiver", "reading") EXCEPT !.read = c.recv.reader]
  <2>1. Is(ch', c.state, c.buffered, c.send, TakenRecv, c.sendClosed, c.recvClosed)
    BY <1>1, <1>3, IsExcept, EndTypes
  <2>2. AtFacts("receiver", "reading")
    BY <1>1, AtTypes DEF Pcs
  <2>3. x.pc = "reading" /\ x.read = c.recv.reader
    BY <2>2 DEF AtFacts, StrandType
  <2> HIDE DEF x
  <2>4. MainOf(ch', x) = c.recv.reader /\ MainOf(ch, R) = c.recv.reader
    BY <1>3, <2>3 DEF MainOf, Same
  <2>5. ~Before(ch, S, R, tasks)
    BY <1>3 DEF Before, Same
  <2>6. During(ch, S, R) => During(ch', S, x)
    <3> SUFFICES ASSUME During(ch, S, R) PROVE During(ch', S, x)
      OBVIOUS
    <3>1. ch'.state = ch.state /\ ch.state \in {"SendPipe", "Direct"}
      BY <2>1 DEF Is, Same, During
    <3> QED BY <2>3, <2>4, <3>1, DuringKept
  <2> QED BY <1>3, <2>5, <2>6, ReceiverKeepsPhase DEF x
<1>4. CASE ch' = c /\ Become("receiver", Failed("receiver"))
  <2> DEFINE z == Failed("receiver")
  <2>1. z.pc = "failed"
    BY <1>1, IdleTypes
  <2> HIDE DEF z
  <2>2. MainOf(ch', z) = MainOf(ch, R)
    BY <1>4, <2>1 DEF MainOf, Same
  <2>3. Before(ch, S, R, tasks) => Before(ch', S, z, tasks')
    BY <1>4, <2>1, <2>2 DEF Before, Same
  <2>4. During(ch, S, R) => During(ch', S, z)
    BY <1>4, <2>1, <2>2 DEF During, Same
  <2> QED BY <1>4, <2>3, <2>4, ReceiverKeepsPhase DEF z
<1> QED BY <1>1, <1>2, <1>3, <1>4 DEF NextTurn

LEMMA Next1Phase ==
  ASSUME Sound, PhaseNow, Next1
  PROVE  PhaseNow'
<1> DEFINE S == strand["sender"]
           R == strand["receiver"]
<1>1. UNCHANGED tasks /\ ch \in ChannelType /\ R.pc \in {"idle", "parked"}
  BY SoundTypes DEF Next1, Starts, Resumes
<1>2. R.script # <<>>
  BY SoundTypes DEF Next1, Starts, Resumes, StrandOK, Resting, Strands
<1>3. Same(ch, ch) /\ Same(ch, Awake("receiver"))
  BY <1>1, AwakeGood DEF Same, Strands
<1>4. CASE NextTurn(ch) \/ NextTurn(Awake("receiver"))
  BY <1>1, <1>2, <1>3, <1>4, NextTurnPhase
<1>5. CASE ch' = [Awake("receiver") EXCEPT !.recvWakers = {"receiver"}] /\ UNCHANGED strand
  <2>1. Same(ch, ch')
    BY <1>3, <1>5, SameWaiting, SameTransitive DEF Same, Strands
  <2>2. /\ Before(ch, S, R, tasks) => Before(ch', S, R, tasks)
        /\ During(ch, S, R) => During(ch', S, R)
    BY <2>1, SamePhase
  <2> QED BY <1>1, <1>5, <2>2 DEF PhaseNow, Phase
<1> QED BY <1>4, <1>5 DEF Next1

LEMMA NextReadPhase ==
  ASSUME Sound, PhaseNow, NextRead
  PROVE  PhaseNow'
<1> DEFINE S == strand["sender"]
           R == strand["receiver"]
           r == R.read
<1>1. /\ ch \in ChannelType /\ "receiver" \in Strands /\ S \in StrandType
      /\ R.pc = "reading" /\ r \in ReaderType /\ r.pipe # NoPipe /\ R.script # <<>>
      /\ ~ch.recvClosed /\ data \in DataType /\ ch.state \in {"SendPipe", "Draining"}
      /\ UNCHANGED tasks
  BY SoundTypes DEF Control, ReceiverOK, StrandOK, Strands, Resting, NextRead, StrandType
<1>2. ~Before(ch, S, R, tasks) /\ MainOf(ch, R) = r
  BY <1>1 DEF Before, MainOf
<1>3. CASE /\ Filled(r) # <<>>
           /\ ch' = RestoreRecv(ch, Reader(r.pipe, Tail(Filled(r))))
           /\ Become("receiver", [Received EXCEPT !.read = NoReader])
  <2> DEFINE x == [Received EXCEPT !.read = NoReader]
             m == Reader(r.pipe, Tail(Filled(r)))
  <2>1. ReadFacts(r)
    BY <1>1, <1>3, StrRead
  <2>2. r.pipe \in PipeIds /\ Tail(Filled(r)) \in Seq(Nat)
    BY <1>1, <2>1, ReaderParts DEF ReadFacts
  <2>3. m \in ReaderType /\ m.pipe = r.pipe
    BY <2>2 DEF Reader, ReaderType
  <2>4. Is(ch', ch.state, ch.buffered, ch.send, RecvEnd("present", m), ch.sendClosed, ch.recvClosed)
    BY <1>1, <1>3, <2>3, RestoreRecvIs
  <2>5. DoneFacts("receiver") /\ AtFacts("receiver", "idle")
    BY <1>1, DoneTypes, AtTypes DEF Pcs
  <2>6. x.pc = "idle"
    <3>1. Received \in StrandType /\ Received.pc = "idle"
      BY <1>1, <2>5 DEF Received, AtFacts, DoneFacts
    <3> QED BY <3>1 DEF StrandType
  <2> HIDE DEF x, m
  <2>7. MainOf(ch', x).pipe = MainOf(ch, R).pipe
    BY <1>2, <2>3, <2>4, <2>6 DEF MainOf, Is, RecvEnd
  <2>8. During(ch, S, R) => During(ch', S, x)
    BY <2>4, <2>6, <2>7 DEF During, Is
  <2> QED BY <1>2, <1>3, <2>8, ReceiverKeepsPhase DEF x
<1>4. CASE AtEnd(r) /\ NextInValue(WakeAll([ch EXCEPT !.state = "Value"]))
  <2> DEFINE c == WakeAll([ch EXCEPT !.state = "Value"])
  <2>1. Is([ch EXCEPT !.state = "Value"], "Value", ch.buffered, ch.send, ch.recv,
           ch.sendClosed, ch.recvClosed)
    BY <1>1, IsExcept DEF States
  <2>2. Is(c, "Value", ch.buffered, ch.send, ch.recv, ch.sendClosed, ch.recvClosed)
    BY <2>1, IsWake
  <2>3. ~During(ch, S, R)
    <3> SUFFICES ASSUME During(ch, S, R) PROVE FALSE
      OBVIOUS
    <3>1. r.pipe = Held(S)
      BY <1>1, <1>2 DEF During
    <3>2. HasWriter(r.pipe)
      BY <3>1 DEF During, Held, HasWriter, Strands
    <3> QED BY <1>4, <3>2 DEF AtEnd
  <2>4. NextInValue(c) /\ c \in ChannelType /\ c.state = "Value"
    BY <1>4, <2>2 DEF Is
  <2> HIDE DEF c
  <2> QED BY <1>1, <1>2, <2>3, <2>4, NextInValuePhase
<1> QED BY <1>3, <1>4 DEF NextRead


LEMMA RecvBecomesPhase ==
  ASSUME Sound, PhaseNow, NEW c, Same(ch, c), strand["receiver"].pc \in {"idle", "negotiating"},
         RecvVerdict(c) = "go", NeedsPipe("receiver", c) => strand["receiver"].fresh # NoPipe,
         BecomeRecvPipe(c)
  PROVE  PhaseNow'
<1> DEFINE S == strand["sender"]
           R == strand["receiver"]
           p == R.fresh
           B == Before(ch, S, R, tasks)
           D == During(ch, S, R)
           rcv == RecvEnd("present", Reader(R.fresh, <<>>))
<1>1. /\ c \in ChannelType /\ R \in StrandType /\ p \in PipeIds
      /\ B => ~c.sendClosed
      /\ ReceiverOK(c, R) /\ EndsOK(c) /\ "receiver" \in Strands /\ ~c.recvClosed
  <2>1. c \in ChannelType /\ R \in StrandType /\ Control(ch, S, R, tasks)
    BY SoundTypes DEF Same, Strands
  <2>2. B => ~c.sendClosed
    BY <2>1 DEF Control, SenderOK, Same, Before
  <2>3. ReceiverOK(c, R) /\ EndsOK(c)
    BY <2>1 DEF Control, Same, ReceiverOK, EndsOK
  <2>4. ~c.recvClosed
    BY <2>3 DEF ReceiverOK
  <2> QED BY <2>1, <2>2, <2>3, <2>4 DEF StrandType, Strands
<1>2. /\ c.state # "Value" => c.recv.is = "present"
      /\ c.state \in {"Value", "SendPipe", "Draining"}
  <2>1. c.recv.is \in Ends /\ (c.state # "Value" => c.recv.is # "absent")
    BY <1>1 DEF ChannelType, EndsOK
  <2> QED BY <2>1 DEF RecvVerdict, Ends
<1>3. AtFacts("receiver", "cloning")
  BY <1>1, AtTypes DEF Pcs
<1>4. ASSUME NEW e \in ChannelType, e.recv.is = "present", Duplicate("receiver", e)
      PROVE  \E x : /\ Become("receiver", x) /\ x.pc = "cloning"
                    /\ MainOf(ch', x).pipe = e.recv.reader.pipe
                    /\ ch'.state = e.state /\ ch'.buffered = e.buffered /\ ch'.send = e.send
  <2> DEFINE x == Duplicating("receiver", NoPipe, e.recv.reader)
  <2>1. x.pc = "cloning" /\ x.read = e.recv.reader
    BY <1>3 DEF AtFacts, Duplicating, StrandType
  <2>2. ch' = [e EXCEPT !.recv = TakenRecv] /\ Become("receiver", x)
    BY <1>4 DEF Duplicate
  <2>3. ch'.state = e.state /\ ch'.buffered = e.buffered /\ ch'.send = e.send
    BY <2>2 DEF ChannelType
  <2> HIDE DEF x
  <2>4. MainOf(ch', x).pipe = e.recv.reader.pipe
    BY <2>1 DEF MainOf, Reader
  <2> QED BY <2>1, <2>2, <2>3, <2>4
<1>5. CASE /\ c.state = "Value"
           /\ FlushStale("receiver", WakeSenders(FreshPipe("receiver", TakeBuffered(c), "RecvPipe")),
                         p, c.buffered)
  <2> DEFINE e == WakeSenders(FreshPipe("receiver", TakeBuffered(c), "RecvPipe"))
             f == RestoreSend(e, p)
  <2>1. Is(e, "RecvPipe", 0, TakenSend, rcv, c.sendClosed, c.recvClosed)
    BY <1>1, FreshIs, IsWake DEF States
  <2>2. FlushStale("receiver", e, p, c.buffered) /\ p # NoPipe
    BY <1>5 DEF NeedsPipe
  <2>3. rcv.is = "present" /\ rcv.reader.pipe = p
    BY DEF rcv, RecvEnd, Reader
  <2>4. ~D
    BY <1>5 DEF During, Same
  <2>5. \E x : Become("receiver", x)
    BY <2>2 DEF FlushStale, Duplicate, RecvGuardDrop
  <2>6. CASE B
    <3>1. c.buffered = 0
      BY <2>6 DEF Before, Same
    <3>2. Duplicate("receiver", RestoreSend(e, p)) /\ UNCHANGED tasks
      BY <2>2, <3>1 DEF FlushStale
    <3> HIDE DEF e, rcv
    <3>3. Is(f, "RecvPipe", 0, SendEnd("present", p), rcv, c.sendClosed, c.recvClosed)
      <4>1. e \in ChannelType /\ ~e.sendClosed /\ e.state = "RecvPipe"
        BY <1>1, <2>1, <2>6 DEF Is
      <4>2. Is(RestoreSend(e, p), e.state, e.buffered, SendEnd("present", p), e.recv,
               e.sendClosed, e.recvClosed)
        BY <1>1, <4>1, RestoreSendIs DEF RestoresSend
      <4> QED BY <2>1, <4>2 DEF Is
    <3>4. Duplicate("receiver", f)
      BY <3>2
    <3> HIDE DEF f
    <3>5. /\ f \in ChannelType /\ f.recv.is = "present" /\ f.recv.reader.pipe = p
          /\ f.state = "RecvPipe" /\ f.buffered = 0 /\ f.send.is = "present" /\ f.send.pipe = p
      BY <2>3, <3>3 DEF Is, SendEnd
    <3>6. PICK x : /\ Become("receiver", x) /\ x.pc = "cloning"
                   /\ MainOf(ch', x).pipe = f.recv.reader.pipe
                   /\ ch'.state = f.state /\ ch'.buffered = f.buffered /\ ch'.send = f.send
      BY <1>4, <3>4, <3>5
    <3>7. Before(ch', S, x, tasks)
      BY <2>6, <3>5, <3>6, BeforeKept
    <3> QED BY <2>4, <3>2, <3>6, <3>7, ReceiverKeepsPhase
  <2>7. CASE ~B
    BY <2>4, <2>5, <2>7, ReceiverKeepsPhase
  <2> QED BY <2>6, <2>7
<1>6. CASE /\ c.state = "SendPipe"
           /\ FlushStale("receiver", [DiscardRecvBuffer(c) EXCEPT !.state = "Direct"], NoPipe, 0)
  <2> DEFINE e == [DiscardRecvBuffer(c) EXCEPT !.state = "Direct"]
  <2>1. Duplicate("receiver", e) /\ UNCHANGED tasks
    BY <1>6 DEF FlushStale
  <2>2. /\ e \in ChannelType /\ e.state = "Direct" /\ e.recv.is = "present"
        /\ e.recv.reader.pipe = c.recv.reader.pipe
    <3>1. Is(e, "Direct", c.buffered, c.send,
             RecvEnd("present", Reader(c.recv.reader.pipe, <<>>)), c.sendClosed, c.recvClosed)
      BY <1>1, <1>2, <1>6, DirectIs
    <3> HIDE DEF e
    <3> QED BY <3>1 DEF Is, RecvEnd, Reader
  <2>3. MainOf(ch, R) = c.recv.reader
    <3>1. c.recv.is = "present" /\ c.recv = ch.recv
      BY <1>2, <1>6 DEF Same
    <3> QED BY <3>1 DEF MainOf
  <2> HIDE DEF e
  <2>4. PICK x : /\ Become("receiver", x) /\ x.pc = "cloning"
                 /\ MainOf(ch', x).pipe = e.recv.reader.pipe
                 /\ ch'.state = e.state /\ ch'.buffered = e.buffered /\ ch'.send = e.send
    BY <1>4, <2>1, <2>2
  <2>5. ~B
    BY <1>6 DEF Before, Same
  <2>6. D => During(ch', S, x)
    BY <2>2, <2>3, <2>4, DuringKept
  <2> QED BY <2>4, <2>5, <2>6, ReceiverKeepsPhase
<1>7. CASE c.state = "Draining"
  <2>1. ~B /\ ~D
    BY <1>7 DEF Before, During, Same
  <2>2. \E x : Become("receiver", x)
    BY <1>7 DEF BecomeRecvPipe, FlushStale, DrainFirst, Panic, Duplicate, RecvGuardDrop
  <2> QED BY <2>1, <2>2, ReceiverKeepsPhase
<1> QED BY <1>2, <1>5, <1>6, <1>7 DEF BecomeRecvPipe

\* Between two phases the receiver may rest and wait.
LEMMA RecvRestsPhase ==
  ASSUME Sound, PhaseNow, Same(ch, ch'), UNCHANGED tasks, NEW x, Become("receiver", x),
         x.pc \in Handless, strand["receiver"].pc \in Handless
  PROVE  PhaseNow'
<1> DEFINE S == strand["sender"]
           R == strand["receiver"]
<1>1. MainOf(ch', x) = MainOf(ch, R)
  BY DEF MainOf, Same, Handless
<1>2. Before(ch, S, R, tasks) => Before(ch', S, x, tasks')
  BY <1>1 DEF Before, Same, Handless
<1>3. During(ch, S, R) => During(ch', S, x)
  BY <1>1 DEF During, Same, Handless
<1> QED BY <1>2, <1>3, ReceiverKeepsPhase

LEMMA RecvNegotiatePhase ==
  ASSUME Sound, PhaseNow, Negotiate("receiver")
  PROVE  PhaseNow'
<1> DEFINE S == strand["sender"]
           R == strand["receiver"]
<1>1. R.pc \in {"idle", "negotiating"} /\ ch \in ChannelType /\ "receiver" \in Strands
  BY SoundTypes DEF Negotiate, Starts, Strands
<1>2. PICK c : Same(ch, c) /\ NegotiateTurn("receiver", c)
  <2>1. Same(ch, ch) /\ Same(ch, Awake("receiver"))
    BY <1>1, AwakeGood DEF Same
  <2> QED BY <2>1 DEF Negotiate
<1>3. c \in ChannelType /\ R.pc \in Handless
  BY <1>1, <1>2 DEF Same, Handless
<1>4. CASE ch' = c /\ Become("receiver", Failed("receiver")) /\ UNCHANGED tasks
  <2>1. Failed("receiver").pc \in Handless
    BY <1>1, IdleTypes DEF Handless
  <2> QED BY <1>2, <1>3, <1>4, <2>1, RecvRestsPhase
<1>5. CASE /\ ch' = [c EXCEPT !.negotiateWakers = @ \cup {"receiver"}]
           /\ Become("receiver", At("receiver", "negotiating")) /\ UNCHANGED tasks
  <2>1. Same(ch, ch')
    BY <1>2, <1>3, <1>5, SameWaiting, SameTransitive DEF Strands
  <2>2. At("receiver", "negotiating").pc \in Handless
    BY <1>1, AtTypes DEF AtFacts, Handless, Pcs
  <2> QED BY <1>3, <1>5, <2>1, <2>2, RecvRestsPhase
<1>6. CASE ch' = c /\ Become("receiver", At("receiver", "opening")) /\ UNCHANGED tasks
  <2>1. At("receiver", "opening").pc \in Handless
    BY <1>1, AtTypes DEF AtFacts, Handless, Pcs
  <2> QED BY <1>2, <1>3, <1>6, <2>1, RecvRestsPhase
<1>7. CASE /\ ~(NeedsPipe("receiver", c) /\ R.fresh = NoPipe) /\ Verdict("receiver", c) = "go"
           /\ BecomeRecvPipe(c)
  <2>1. RecvVerdict(c) = "go"
    BY <1>7 DEF Verdict
  <2> QED BY <1>1, <1>2, <1>7, <2>1, RecvBecomesPhase
<1> QED BY <1>2, <1>4, <1>5, <1>6, <1>7 DEF NegotiateTurn

LEMMA RecvOthersPhase ==
  ASSUME Sound, PhaseNow,
         Opened("receiver") \/ CloseStage("receiver") \/ Drain("receiver") \/ RecvLaunch
         \/ RecvProgram
  PROVE  PhaseNow'
<1> DEFINE S == strand["sender"]
           R == strand["receiver"]
<1>1. R \in StrandType /\ ch \in ChannelType /\ "receiver" \in Strands
  BY SoundTypes DEF Strands
<1>2. CASE Opened("receiver")
  <2> DEFINE x == [At("receiver", "negotiating") EXCEPT !.fresh = pipes + 1]
  <2>1. Same(ch, ch')
    BY <1>1, <1>2, SameWaiting DEF Opened, Strands
  <2>2. x.pc \in Handless /\ R.pc \in Handless
    BY <1>1, <1>2 DEF At, StrandType, Handless, Opened
  <2>3. Become("receiver", x) /\ UNCHANGED tasks
    BY <1>2 DEF Opened
  <2> HIDE DEF x
  <2> QED BY <2>1, <2>2, <2>3, RecvRestsPhase
<1>3. CASE CloseStage("receiver")
  <2> DEFINE x == At("receiver", "closed")
  <2>1. x.pc = "closed" /\ Become("receiver", x) /\ UNCHANGED tasks
    BY <1>1, <1>3 DEF At, StrandType, CloseStage
  <2>2. Is([ch EXCEPT !.recvClosed = TRUE, !.recv = NoRecv],
           ch.state, ch.buffered, ch.send, NoRecv, ch.sendClosed, TRUE)
    BY <1>1, IsExcept
  <2>3. Is(ch', ch.state, ch.buffered, ch.send, NoRecv, ch.sendClosed, TRUE)
    BY <1>3, <2>2, IsWake DEF CloseStage, CloseRecv
  <2> HIDE DEF x
  <2>4. MainOf(ch', x).pipe = NoPipe
    BY <2>1, <2>3 DEF MainOf, Is, NoRecv, RecvEnd, NoReader, Reader
  <2>5. Before(ch, S, R, tasks) => Before(ch', S, x, tasks')
    BY <2>1, <2>3, <2>4 DEF Before, Is
  <2>6. During(ch, S, R) => During(ch', S, x)
    BY <2>1, <2>3, <2>4 DEF During, Is
  <2> QED BY <2>1, <2>5, <2>6, ReceiverKeepsPhase
<1>4. CASE Drain("receiver")
  <2>1. ~Before(ch, S, R, tasks) /\ ~During(ch, S, R)
    BY <1>4 DEF Before, During, Drain
  <2>2. \E x : Become("receiver", x)
    BY <1>4 DEF Drain, FlushStale, Duplicate, RecvGuardDrop
  <2> QED BY <2>1, <2>2, ReceiverKeepsPhase
<1>5. CASE RecvLaunch
  <2> DEFINE r == R.read
             x == [At("receiver", "running") EXCEPT !.read = NoReader, !.prog = r.pipe]
  <2>1. /\ R.pc = "cloning" /\ r \in ReaderType /\ ~ch.recvClosed
    BY <1>1, <1>5, SoundTypes DEF Control, ReceiverOK, RecvLaunch, StrandType
  <2>2. x.pc = "running" /\ x.prog = r.pipe /\ Become("receiver", x) /\ UNCHANGED tasks
    BY <1>1, <1>5 DEF At, StrandType, RecvLaunch
  <2>3. Is(ch', ch.state, ch.buffered, ch.send, RecvEnd("present", r), ch.sendClosed, ch.recvClosed)
    BY <1>1, <1>5, <2>1, RestoreRecvIs DEF RecvLaunch
  <2> HIDE DEF x
  <2>4. MainOf(ch', x) = MainOf(ch, R)
    BY <2>1, <2>2 DEF MainOf
  <2>5. Before(ch, S, R, tasks) => Before(ch', S, x, tasks')
    BY <2>2, <2>3, <2>4 DEF Before, Is
  <2>6. During(ch, S, R) => During(ch', S, x)
    BY <2>2, <2>3, <2>4 DEF During, Is
  <2> QED BY <2>2, <2>5, <2>6, ReceiverKeepsPhase
<1>6. CASE RecvProgram
  BY <1>6 DEF RecvProgram, PhaseNow
<1> QED BY <1>2, <1>3, <1>4, <1>5, <1>6

LEMMA RecvExitPhase ==
  ASSUME Sound, PhaseNow, RecvExit
  PROVE  PhaseNow'
<1> DEFINE S == strand["sender"]
           R == strand["receiver"]
           x == Done("receiver")
<1>1. /\ R.pc = "running" /\ R.script # <<>> /\ ch \in ChannelType /\ "receiver" \in Strands
      /\ ch.state \in {"RecvPipe", "Direct"} /\ UNCHANGED tasks
      /\ ch.recv.is = "present" /\ ch.recv.reader.pipe = R.prog
      /\ ch.sendClosed => S.pc = "closed"
  BY SoundTypes DEF StrandOK, Strands, Resting, RecvExit, Control, ReceiverOK, SenderOK
<1>2. x.pc = "idle"
  BY <1>1, DoneTypes DEF DoneFacts
<1>3. ch' = RecvDone(ch) /\ Become("receiver", x)
  BY <1>1 DEF RecvExit, RecvGuardDrop, MayRecvDone
<1> HIDE DEF x
<1>4. Before(ch, S, R, tasks) => Before(ch', S, x, tasks')
  <2> SUFFICES ASSUME Before(ch, S, R, tasks) PROVE Before(ch', S, x, tasks)
    BY <1>1
  <2> DEFINE e == [ch EXCEPT !.state = "Value", !.recv = NoRecv, !.send = NoSend]
  <2>1. ch.state = "RecvPipe" /\ ~ch.sendClosed /\ ch.send.is # "absent" /\ ch.buffered = 0
    BY <1>1 DEF Before
  <2>2. ch' = WakeAll(e)
    BY <1>3, <2>1 DEF RecvDone
  <2>3. e \in ChannelType /\ e.state = "Value" /\ e.buffered = 0
    BY <1>1, <2>1, EndTypes DEF ChannelType, States
  <2> HIDE DEF e
  <2>4. Same(e, ch')
    <3>1. Same(e, e)
      BY <2>3 DEF Same
    <3> QED BY <2>2, <3>1, SameWake
  <2>5. ch'.state = "Value" /\ ch'.buffered = 0
    BY <2>3, <2>4 DEF Same
  <2> QED BY <1>2, <2>5, BeforeKept
<1>5. During(ch, S, R) => During(ch', S, x)
  <2> SUFFICES ASSUME During(ch, S, R) PROVE During(ch', S, x)
    OBVIOUS
  <2>1. ch.state = "Direct"
    BY <1>1 DEF During
  <2>2. Is([ch EXCEPT !.state = "SendPipe"], "SendPipe", ch.buffered, ch.send, ch.recv,
           ch.sendClosed, ch.recvClosed)
    BY <1>1, IsExcept DEF States
  <2>3. Is(ch', "SendPipe", ch.buffered, ch.send, ch.recv, ch.sendClosed, ch.recvClosed)
    BY <1>3, <2>1, <2>2, IsWake DEF RecvDone
  <2>4. MainOf(ch', x).pipe = MainOf(ch, R).pipe
    BY <1>1, <1>2, <2>3 DEF MainOf, Is, Reader
  <2> QED BY <1>2, <2>3, <2>4, DuringKept DEF Is
<1> QED BY <1>3, <1>4, <1>5, ReceiverKeepsPhase


-----------------------------------------------------------------------------
Calm == Inv /\ (RunsFirst => PhaseNow)

LEMMA StepPhase ==
  ASSUME Sound, PhaseNow, Next
  PROVE  PhaseNow'
<1>1. CASE \E s \in Strands : Negotiate(s) \/ Opened(s) \/ Drain(s) \/ CloseStage(s)
  BY <1>1, SendNegotiatePhase, RecvNegotiatePhase, SendOthersPhase, RecvOthersPhase DEF Strands
<1>2. CASE Put \/ PutWrite \/ Flush
  BY <1>2, PutPhase, PutWritePhase, SendOthersPhase
<1>3. CASE Next1 \/ NextRead
  BY <1>3, Next1Phase, NextReadPhase
<1>4. CASE \E t \in tasks : TaskWrite(t)
  BY <1>4, TaskWritePhase
<1>5. CASE Programs
  BY <1>5, SendLaunchPhase, SendProgramPhase, SendExitPhase, RecvOthersPhase, RecvExitPhase
     DEF Programs
<1> QED BY <1>1, <1>2, <1>3, <1>4, <1>5 DEF Next

LEMMA InitPhase ==
  ASSUME Init, RunsFirst
  PROVE  PhaseNow
<1> DEFINE S == strand["sender"]
           R == strand["receiver"]
<1>1. /\ S = [Idle EXCEPT !.script = plan[1]] /\ R = [Idle EXCEPT !.script = plan[2]]
      /\ plan \in Stages /\ tasks = {} /\ ch.state = "Value" /\ ch.buffered = 0
  BY DEF Init, Strands
<1>2. plan[1] \in Seq(SendOps)
  BY <1>1, StagesAssumption
<1>3. S.script = plan[1] /\ S.pc = "idle" /\ R.pc = "idle"
  BY <1>1 DEF Idle
<1>4. CASE plan[1] = <<>>
  BY <1>3, <1>4 DEF PhaseNow, Phase, Behind, OnlyPuts
<1>5. CASE plan[1] # <<>>
  <2>1. /\ Len(plan[1]) >= 1 /\ Head(plan[1]) = plan[1][1] /\ Head(plan[1]) \in SendOps
        /\ Len(Tail(plan[1])) = Len(plan[1]) - 1
        /\ \A i \in 1..Len(Tail(plan[1])) : Tail(plan[1])[i] = plan[1][i + 1]
    BY <1>2, <1>5
  <2>2. OnlyPuts(Tail(plan[1]))
    BY <1>5 DEF RunsFirst
  <2>3. CASE Head(plan[1]) = "put"
    <3>1. ASSUME NEW i \in 1..Len(plan[1]) PROVE plan[1][i] = "put"
      <4>1. CASE i = 1
        BY <2>1, <2>3, <4>1
      <4>2. CASE i # 1
        <5>1. i - 1 \in 1..Len(Tail(plan[1])) /\ (i - 1) + 1 = i
          BY <1>2, <2>1, <4>2
        <5> QED BY <2>1, <2>2, <5>1 DEF OnlyPuts
      <4> QED BY <4>1, <4>2
    <3> QED BY <1>3, <3>1 DEF PhaseNow, Phase, Behind, OnlyPuts
  <2>4. CASE Head(plan[1]) = "run"
    BY <1>1, <1>3, <1>5, <2>2, <2>4 DEF PhaseNow, Phase, Before, RunAhead
  <2> QED BY <2>1, <2>3, <2>4 DEF SendOps
<1> QED BY <1>4, <1>5

\* NoPanic holds for every pipeline whose upstream stage runs a program, if it
\* does, before it puts a value: whatever is downstream, whichever stage comes
\* first to each negotiation, send_done and recv_done find a state they know and
\* no unwrap meets an absent end (pipe_channel.rs, negotiate_send, send_done).
THEOREM FirstProgramNeverPanics == Spec => [](RunsFirst => NoPanic)
<1>1. Init => Calm
  BY InitSound, InitPhase DEF Calm
<1>2. Calm /\ [Next]_vars => Calm'
  <2> SUFFICES ASSUME Calm, [Next]_vars PROVE Calm'
    OBVIOUS
  <2>1. Inv' /\ Sound
    BY StepInv DEF Calm, Inv
  <2>2. CASE Next
    <3>1. RunsFirst' => RunsFirst
      BY <2>2 DEF Next, RunsFirst
    <3>2. RunsFirst => PhaseNow'
      BY <2>1, <2>2, StepPhase DEF Calm
    <3> QED BY <2>1, <3>1, <3>2 DEF Calm
  <2>3. CASE UNCHANGED vars
    <3>1. (RunsFirst' => RunsFirst) /\ (PhaseNow => PhaseNow')
      BY <2>3 DEF vars, RunsFirst, PhaseNow
    <3> QED BY <2>1, <3>1 DEF Calm
  <2> QED BY <2>2, <2>3
<1>3. Calm => (RunsFirst => NoPanic)
  <2> SUFFICES ASSUME Calm, RunsFirst PROVE NoPanic
    OBVIOUS
  <2>1. strand["receiver"].pc # "panicked"
    BY SoundTypes DEF Calm, Inv, Control, ReceiverOK
  <2>2. strand["sender"].pc # "panicked"
    BY DEF Calm, PhaseNow, Phase, Before, During, Behind
  <2> QED BY <2>1, <2>2 DEF NoPanic, Strands
<1> QED BY <1>1, <1>2, <1>3, PTL DEF Spec


-----------------------------------------------------------------------------
(***************************************************************************)
(* Nothing is lost.  What was received, what the reader still has, what is *)
(* left in the old pipe and the value that has not reached a pipe are      *)
(* together exactly the items sent.                                        *)
(***************************************************************************)
Numbered(q, k) == \A i \in 1..Len(q) : q[i] = k + i

\* v is the value in the slot, or on its way from it to the pipe; 0 if none.
Whole(g, x, y, v, n) ==
  /\ Numbered(g, 0) /\ Numbered(x, Len(g)) /\ Numbered(y, Len(g) + Len(x))
  /\ v = 0 => Len(g) + Len(x) + Len(y) = n
  /\ v # 0 => v = n /\ Len(g) + Len(x) + Len(y) + 1 = n

LEMMA NumberedAppend ==
  ASSUME NEW q \in Seq(Nat), NEW k \in Nat, Numbered(q, k), NEW v \in Nat, v = k + Len(q) + 1
  PROVE  Numbered(Append(q, v), k)
<1>1. /\ Len(Append(q, v)) = Len(q) + 1 /\ Append(q, v)[Len(q) + 1] = v
      /\ \A i \in 1..Len(q) : Append(q, v)[i] = q[i]
  BY AppendPlaces
<1>2. Len(q) \in Nat
  BY LenProperties
<1>3. ASSUME NEW i \in 1..(Len(q) + 1) PROVE Append(q, v)[i] = k + i
  <2>1. CASE i \in 1..Len(q)
    BY <1>1, <2>1 DEF Numbered
  <2>2. CASE i = Len(q) + 1
    BY <1>1, <1>2, <2>2
  <2> QED BY <1>2, <2>1, <2>2, LastPlace
<1> QED BY <1>1, <1>3 DEF Numbered

LEMMA NumberedTail ==
  ASSUME NEW q \in Seq(Nat), NEW k \in Nat, Numbered(q, k), q # <<>>
  PROVE  Numbered(Tail(q), k + 1) /\ Head(q) = k + 1 /\ Len(Tail(q)) + 1 = Len(q)
<1>1. /\ Len(Tail(q)) = Len(q) - 1 /\ Len(q) >= 1 /\ Head(q) = q[1]
      /\ \A i \in 1..(Len(q) - 1) : Tail(q)[i] = q[i + 1] /\ i + 1 \in 1..Len(q)
  BY TailPlaces
<1>2. Len(q) \in Nat
  BY LenProperties
<1>3. ASSUME NEW i \in 1..(Len(q) - 1) PROVE Tail(q)[i] = (k + 1) + i
  <2>1. Tail(q)[i] = k + (i + 1)
    BY <1>1 DEF Numbered
  <2> QED BY <1>2, <2>1
<1>4. Head(q) = k + 1
  BY <1>1, <1>2 DEF Numbered
<1> QED BY <1>1, <1>2, <1>3, <1>4 DEF Numbered

\* The moves of the items.
LEMMA WholeRead ==
  ASSUME NEW g \in Seq(Nat), NEW x \in Seq(Nat), NEW y \in Seq(Nat), NEW v \in Nat, NEW n \in Nat,
         Whole(g, x, y, v, n), x # <<>>
  PROVE  Whole(Append(g, Head(x)), Tail(x), y, v, n)
<1>1. Len(g) \in Nat /\ Len(x) \in Nat /\ Len(y) \in Nat
  BY LenProperties
<1>2. Numbered(Tail(x), Len(g) + 1) /\ Head(x) = Len(g) + 1 /\ Len(Tail(x)) + 1 = Len(x)
  BY <1>1, NumberedTail DEF Whole
<1>3. Head(x) \in Nat /\ Tail(x) \in Seq(Nat) /\ Len(Tail(x)) \in Nat
  BY TailPlaces, LenProperties
<1>4. Numbered(Append(g, Head(x)), 0) /\ Len(Append(g, Head(x))) = Len(g) + 1
  BY <1>1, <1>2, <1>3, NumberedAppend, AppendPlaces DEF Whole
<1>5. Len(g) + 1 + Len(Tail(x)) = Len(g) + Len(x)
  BY <1>1, <1>2, <1>3
<1> QED BY <1>1, <1>2, <1>4, <1>5 DEF Whole

LEMMA WholeWrite ==
  ASSUME NEW g \in Seq(Nat), NEW x \in Seq(Nat), NEW n \in Nat, Whole(g, x, <<>>, 0, n)
  PROVE  Whole(g, Append(x, n + 1), <<>>, 0, n + 1)
<1>1. Len(g) \in Nat /\ Len(x) \in Nat /\ Len(<<>>) = 0
  BY LenProperties, NoItems
<1>2. Len(g) + Len(x) = n
  BY <1>1 DEF Whole
<1>3. Numbered(Append(x, n + 1), Len(g)) /\ Len(Append(x, n + 1)) = Len(x) + 1
  BY <1>1, <1>2, NumberedAppend, AppendPlaces DEF Whole
<1>4. Numbered(<<>>, Len(g) + Len(Append(x, n + 1)))
  BY <1>1 DEF Numbered
<1> QED BY <1>1, <1>2, <1>3, <1>4 DEF Whole

LEMMA WholeSlot ==
  ASSUME NEW g \in Seq(Nat), NEW n \in Nat, Whole(g, <<>>, <<>>, 0, n)
  PROVE  Whole(g, <<>>, <<>>, n + 1, n + 1)
<1>1. Len(g) \in Nat /\ Len(<<>>) = 0
  BY LenProperties, NoItems
<1> QED BY <1>1 DEF Whole

LEMMA WholeTake ==
  ASSUME NEW g \in Seq(Nat), NEW n \in Nat, NEW v \in Nat, v # 0, Whole(g, <<>>, <<>>, v, n)
  PROVE  Whole(Append(g, v), <<>>, <<>>, 0, n)
<1>1. Len(g) \in Nat /\ Len(<<>>) = 0
  BY LenProperties, NoItems
<1>2. v = Len(g) + 1 /\ v = n
  BY <1>1 DEF Whole
<1>3. Numbered(Append(g, v), 0) /\ Len(Append(g, v)) = Len(g) + 1
  BY <1>1, <1>2, NumberedAppend, AppendPlaces DEF Whole
<1>4. Numbered(<<>>, Len(Append(g, v))) /\ Numbered(<<>>, Len(Append(g, v)) + Len(<<>>))
  BY <1>1 DEF Numbered
<1> QED BY <1>1, <1>2, <1>3, <1>4 DEF Whole

LEMMA WholeFlush ==
  ASSUME NEW g \in Seq(Nat), NEW x \in Seq(Nat), NEW n \in Nat, NEW v \in Nat, v # 0,
         Whole(g, x, <<>>, v, n)
  PROVE  Whole(g, Append(x, v), <<>>, 0, n)
<1>1. Len(g) \in Nat /\ Len(x) \in Nat /\ Len(<<>>) = 0
  BY LenProperties, NoItems
<1>2. v = Len(g) + Len(x) + 1 /\ v = n
  BY <1>1 DEF Whole
<1>3. Numbered(Append(x, v), Len(g)) /\ Len(Append(x, v)) = Len(x) + 1
  BY <1>1, <1>2, NumberedAppend, AppendPlaces DEF Whole
<1>4. Numbered(<<>>, Len(g) + Len(Append(x, v)))
  BY <1>1 DEF Numbered
<1> QED BY <1>1, <1>2, <1>3, <1>4 DEF Whole

LEMMA WholeDrain ==
  ASSUME NEW g \in Seq(Nat), NEW x \in Seq(Nat), NEW y \in Seq(Nat), NEW v \in Nat, NEW n \in Nat,
         Whole(g, x, y, v, n), y # <<>>
  PROVE  Whole(g, Append(x, Head(y)), Tail(y), v, n)
<1>1. Len(g) \in Nat /\ Len(x) \in Nat /\ Len(y) \in Nat
  BY LenProperties
<1>2. /\ Numbered(Tail(y), Len(g) + Len(x) + 1) /\ Head(y) = Len(g) + Len(x) + 1
      /\ Len(Tail(y)) + 1 = Len(y)
  BY <1>1, NumberedTail DEF Whole
<1>3. Head(y) \in Nat /\ Tail(y) \in Seq(Nat) /\ Len(Tail(y)) \in Nat
  BY TailPlaces, LenProperties
<1>4. Numbered(Append(x, Head(y)), Len(g)) /\ Len(Append(x, Head(y))) = Len(x) + 1
  BY <1>1, <1>2, <1>3, NumberedAppend, AppendPlaces DEF Whole
<1>5. /\ Len(g) + (Len(x) + 1) = Len(g) + Len(x) + 1
      /\ Len(g) + (Len(x) + 1) + Len(Tail(y)) = Len(g) + Len(x) + Len(y)
  BY <1>1, <1>2, <1>3
<1> QED BY <1>1, <1>2, <1>4, <1>5 DEF Whole

\* The reader's pipe becomes the old one.
LEMMA WholeReplace ==
  ASSUME NEW g \in Seq(Nat), NEW x \in Seq(Nat), NEW v \in Nat, NEW n \in Nat,
         Whole(g, x, <<>>, v, n)
  PROVE  Whole(g, <<>>, x, v, n)
<1>1. Len(g) \in Nat /\ Len(x) \in Nat /\ Len(<<>>) = 0
  BY LenProperties, NoItems
<1>2. Len(g) + Len(<<>>) = Len(g) /\ Len(g) + 0 + Len(x) = Len(g) + Len(x) + 0
  BY <1>1
<1> QED BY <1>1, <1>2 DEF Whole, Numbered

\* With nothing on its way, everything sent was received.
LEMMA WholeEnd ==
  ASSUME NEW g \in Seq(Nat), NEW n \in Nat, Whole(g, <<>>, <<>>, 0, n)
  PROVE  Len(g) = n /\ g = [i \in 1..n |-> i]
<1>1. Len(g) \in Nat /\ Len(<<>>) = 0
  BY LenProperties, NoItems
<1>2. Len(g) = n /\ \A i \in 1..n : g[i] = i
  BY <1>1 DEF Whole, Numbered
<1>3. g \in [1..n -> Nat]
  BY <1>2
<1> QED BY <1>2, <1>3

-----------------------------------------------------------------------------
\* Where v is: in the slot, with the sender that flushes it, or with a task.
OnItsWay(c, s, ts, v) ==
  \/ v = c.buffered /\ ts = {} /\ s.pc # "flushing"
  \/ v # 0 /\ c.buffered = 0 /\ ts = {} /\ s.pc = "flushing" /\ s.stale = v
  \/ v # 0 /\ c.buffered = 0 /\ (\E t \in ts : ts = {t} /\ t.item = v) /\ s.pc # "flushing"

Delivers(c, s, r, ts, d, n, g) ==
  \E v \in Nat : OnItsWay(c, s, ts, v) /\ Whole(g, Str(d, MainOf(c, r)), Str(d, OldOf(s, r)), v, n)

\* The same readers, the same pipes and the same slot deliver the same items.
LEMMA DeliversSame ==
  ASSUME NEW c, NEW s, NEW r, NEW ts, NEW d, NEW n, NEW g, Delivers(c, s, r, ts, d, n, g),
         NEW e, NEW x, NEW z, MainOf(e, z) = MainOf(c, r), OldOf(x, z) = OldOf(s, r),
         e.buffered = c.buffered, s.pc # "flushing", x.pc # "flushing"
  PROVE  Delivers(e, x, z, ts, d, n, g)
  BY DEF Delivers, OnItsWay


\* The two streams of a sound channel, and the pipes nobody has used yet.
Streams ==
  /\ MainOf(ch, strand["receiver"]) \in ReaderType
  /\ OldOf(strand["sender"], strand["receiver"]) \in ReaderType
  /\ Str(data, MainOf(ch, strand["receiver"])) \in Seq(Nat)
  /\ Str(data, OldOf(strand["sender"], strand["receiver"])) \in Seq(Nat)
  /\ MainOf(ch, strand["receiver"]).pipe = NoPipe => Str(data, MainOf(ch, strand["receiver"])) = <<>>
  /\ \A s \in Strands : strand[s].fresh # NoPipe =>
       /\ strand[s].fresh \in 1..MaxPipes
       /\ Reader(strand[s].fresh, <<>>).pipe = strand[s].fresh
       /\ Str(data, Reader(strand[s].fresh, <<>>)) = <<>>
  /\ Str(data, NoReader) = <<>>

LEMMA SoundStreams ==
  ASSUME Sound
  PROVE  Streams
<1> DEFINE S == strand["sender"]
           R == strand["receiver"]
           m == MainOf(ch, R)
           o == OldOf(S, R)
           F == FreshOf(S, R)
<1>1. Core(m, o, IntoOf(S, R), WritersOf(ch, S), PendingOf(tasks, S), F, ch.buffered, data,
           pipes, sent, got)
  BY DEF Sound, Good, View
<1>2. CoreTypes(m, o, IntoOf(S, R), WritersOf(ch, S), PendingOf(tasks, S), F, ch.buffered, data,
                pipes, sent, got)
  BY <1>1, CoreTyped
<1>3. /\ m \in ReaderType /\ o \in ReaderType /\ data \in DataType
      /\ Str(data, m) \in Seq(Nat) /\ Str(data, o) \in Seq(Nat)
      /\ m.pipe = NoPipe => Str(data, m) = <<>>
      /\ F \subseteq 1..MaxPipes
  BY <1>2 DEF CoreTypes
<1>4. \A p \in F : p \in 1..MaxPipes /\ data[p] = <<>>
  BY <1>1, <1>3 DEF Core, FreshOK
<1>5. ASSUME NEW s \in Strands, strand[s].fresh # NoPipe
      PROVE  /\ strand[s].fresh \in 1..MaxPipes
             /\ Reader(strand[s].fresh, <<>>).pipe = strand[s].fresh
             /\ Str(data, Reader(strand[s].fresh, <<>>)) = <<>>
  <2>1. strand[s].fresh \in F
    BY <1>5 DEF FreshOf, Strands
  <2>2. strand[s].fresh \in 1..MaxPipes /\ data[strand[s].fresh] = <<>>
    BY <1>4, <2>1
  <2> QED BY <1>3, <2>2, StrOfEmpty DEF Reader
<1> QED BY <1>3, <1>5, StrOfEmpty DEF Streams

-----------------------------------------------------------------------------
(***************************************************************************)
(* A downstream stage that takes values, and reads to the end at last.     *)
(***************************************************************************)
Streaming(q) ==
  /\ q # <<>> /\ q[Len(q)] = "all"
  /\ \A i \in 1..Len(q) : q[i] \in Reads

LEMMA StreamingTail ==
  ASSUME NEW q \in Seq(SendOps \cup RecvOps), Streaming(q)
  PROVE  /\ Head(q) \in Reads
         /\ Streaming(Tail(q)) \/ (Tail(q) = <<>> /\ Head(q) = "all")
<1>1. /\ Tail(q) \in Seq(SendOps \cup RecvOps) /\ Len(q) \in Nat /\ Len(q) >= 1
      /\ Len(Tail(q)) = Len(q) - 1 /\ Head(q) = q[1]
      /\ \A i \in 1..(Len(q) - 1) : Tail(q)[i] = q[i + 1]
  BY DEF Streaming
<1>2. Head(q) \in Reads
  <2>1. 1 \in 1..Len(q)
    BY <1>1
  <2> QED BY <1>1, <2>1 DEF Streaming
<1>3. CASE Len(q) = 1
  <2>1. Tail(q) = <<>>
    <3>1. Len(Tail(q)) = 0
      BY <1>1, <1>3
    <3> QED BY <1>1, <3>1, EmptySeq
  <2>2. Head(q) = "all"
    BY <1>1, <1>3 DEF Streaming
  <2> QED BY <1>2, <2>1, <2>2
<1>4. CASE Len(q) > 1
  <2>1. Tail(q) # <<>>
    <3>1. Len(Tail(q)) # 0 /\ Len(<<>>) = 0
      BY <1>1, <1>4
    <3> QED BY <3>1
  <2>2. Tail(q)[Len(Tail(q))] = "all"
    <3>1. Len(q) - 1 \in 1..(Len(q) - 1) /\ (Len(q) - 1) + 1 = Len(q)
      BY <1>1, <1>4
    <3>2. Tail(q)[Len(q) - 1] = q[(Len(q) - 1) + 1]
      BY <1>1, <3>1
    <3> QED BY <1>1, <3>1, <3>2 DEF Streaming
  <2>3. ASSUME NEW i \in 1..Len(Tail(q)) PROVE Tail(q)[i] \in Reads
    <3>1. i \in 1..(Len(q) - 1) /\ i + 1 \in 1..Len(q)
      BY <1>1, <2>3
    <3>2. Tail(q)[i] = q[i + 1]
      BY <1>1, <3>1
    <3> QED BY <3>1, <3>2 DEF Streaming
  <2> QED BY <1>2, <2>1, <2>2, <2>3 DEF Streaming
<1> QED BY <1>1, <1>3, <1>4

\* It goes on after an item, and does until the end.
LEMMA StreamsOn ==
  ASSUME Sound, Streaming(strand["receiver"].script)
  PROVE  /\ strand["receiver"].script # <<>> /\ Op("receiver") \in Reads
         /\ Received.pc = "idle" /\ Streaming(Received.script)
         /\ [Received EXCEPT !.read = NoReader].pc = "idle"
         /\ Streaming([Received EXCEPT !.read = NoReader].script)
         /\ Done("receiver").pc = "idle"
         /\ Streaming(Done("receiver").script) \/ Done("receiver").script = <<>>
<1> DEFINE R == strand["receiver"]
<1>1. R \in StrandType /\ R.script # <<>>
  BY SoundTypes DEF Strands, Streaming
<1>2. R.script \in Seq(SendOps \cup RecvOps)
  BY <1>1 DEF StrandType
<1>3. Op("receiver") \in Reads /\ (Streaming(Tail(R.script)) \/ (Tail(R.script) = <<>> /\ Op("receiver") = "all"))
  BY <1>2, StreamingTail DEF Op
<1>4. Done("receiver").pc = "idle" /\ Done("receiver").script = Tail(R.script) /\ Done("receiver") \in StrandType
  BY <1>1, DoneTypes DEF Done, DoneFacts, Strands, StrandType
<1>5. AtFacts("receiver", "idle")
  BY AtTypes DEF Pcs, Strands
<1>6. CASE Op("receiver") = "all"
  <2>1. Received = At("receiver", "idle")
    BY <1>6 DEF Received
  <2>2. Received \in StrandType /\ Received.pc = "idle" /\ Received.script = R.script
    BY <1>5, <2>1 DEF AtFacts
  <2> QED BY <1>1, <1>3, <1>4, <2>2 DEF StrandType
<1>7. CASE Op("receiver") # "all"
  <2>1. Received = Done("receiver")
    BY <1>7 DEF Received
  <2>2. Received \in StrandType /\ Received.pc = "idle" /\ Received.script = Tail(R.script)
    BY <1>4, <2>1
  <2> QED BY <1>1, <1>3, <1>4, <1>7, <2>2 DEF StrandType
<1> QED BY <1>6, <1>7

Sending == {"draining", "flushing", "cloning", "running"}

\* It reads, or it has met the end.
Reading(c, r) ==
  /\ Streaming(r.script) /\ r.pc \in {"idle", "parked", "reading"} /\ ~c.recvClosed
  /\ c.state # "Value" /\ c.recv.is = "taken" => r.pc = "reading"

AtTheEnd(c, r) ==
  /\ r.script = <<>> /\ r.pc \in {"idle", "closed"}
  /\ c.sendClosed /\ c.state = "Value" /\ c.buffered = 0

OnAll(c, s, r, ts) ==
  /\ ts = {} /\ c.state \in {"Value", "SendPipe", "Draining"}
  /\ s.pc \notin {"writing", "failed", "panicked"}
  /\ s.pc \in Sending <=> c.state = "SendPipe"
  /\ s.pc \in Sending => Held(s) = MainOf(c, r).pipe
  /\ Reading(c, r) \/ AtTheEnd(c, r)

AllNow ==
  /\ OnAll(ch, strand["sender"], strand["receiver"], tasks)
  /\ Delivers(ch, strand["sender"], strand["receiver"], tasks, data, sent, got)

LEMMA SenderAll ==
  ASSUME Sound, NEW x, Become("sender", x), OnAll(ch', x, strand["receiver"], tasks'),
         Delivers(ch', x, strand["receiver"], tasks', data', sent', got')
  PROVE  AllNow'
<1>1. strand'["sender"] = x /\ strand'["receiver"] = strand["receiver"]
  BY DEF Become, Sound, Strands
<1> QED BY <1>1 DEF AllNow

LEMMA ReceiverAll ==
  ASSUME Sound, NEW x, Become("receiver", x), OnAll(ch', strand["sender"], x, tasks'),
         Delivers(ch', strand["sender"], x, tasks', data', sent', got')
  PROVE  AllNow'
<1>1. strand'["receiver"] = x /\ strand'["sender"] = strand["sender"]
  BY DEF Become, Sound, Strands
<1> QED BY <1>1 DEF AllNow

\* What the invariants say where the sender is not closed.
AllFacts ==
  LET S == strand["sender"]
      R == strand["receiver"]
  IN  /\ ch \in ChannelType /\ S \in StrandType /\ R \in StrandType /\ data \in DataType
      /\ sent \in Nat /\ got \in Seq(Nat) /\ tasks = {}
      /\ S.pc # "closed" => ~ch.sendClosed /\ ~ch.recvClosed /\ Reading(ch, R)
      /\ ch.state = "Value" => MainOf(ch, R) = NoReader
      /\ ch.state # "Value" => ch.buffered = 0
      /\ ch.state = "Draining" /\ ch.recv.is # "taken" /\ ~ch.recvClosed => ch.recv.is = "present"
      /\ S.pc # "draining" => OldOf(S, R) = NoReader
      /\ Control(ch, S, R, tasks)

LEMMA SoundAll ==
  ASSUME Sound, AllNow
  PROVE  AllFacts
<1> DEFINE S == strand["sender"]
           R == strand["receiver"]
<1>1. /\ ch \in ChannelType /\ S \in StrandType /\ R \in StrandType /\ data \in DataType
      /\ sent \in Nat /\ got \in Seq(Nat) /\ Control(ch, S, R, tasks)
  BY SoundTypes DEF Strands
<1>2. tasks = {} /\ (Reading(ch, R) \/ AtTheEnd(ch, R))
  BY DEF AllNow, OnAll
<1>3. SenderOK(ch, S, R, tasks) /\ ReceiverOK(ch, R) /\ EndsOK(ch)
  BY <1>1 DEF Control
<1>4. S.pc # "closed" => ~ch.sendClosed /\ ~ch.recvClosed /\ Reading(ch, R)
  BY <1>2, <1>3 DEF SenderOK, Reading, AtTheEnd
<1>5. ch.state = "Value" => MainOf(ch, R) = NoReader
  BY <1>3 DEF ReceiverOK, EndsOK, MainOf
<1>6. S.pc # "draining" => OldOf(S, R) = NoReader
  BY <1>2 DEF OldOf, Reading, AtTheEnd
<1>7. ch.state = "Draining" /\ ch.recv.is # "taken" /\ ~ch.recvClosed => ch.recv.is = "present"
  <2>1. ch.recv.is \in Ends
    BY <1>1 DEF ChannelType
  <2> QED BY <1>3, <2>1 DEF EndsOK, Ends
<1> QED BY <1>1, <1>2, <1>3, <1>4, <1>5, <1>6, <1>7 DEF AllFacts, EndsOK

\* The sender changes and the receiver's reader does not.
LEMMA OnAllSender ==
  ASSUME NEW c, NEW s, NEW r, NEW ts, OnAll(c, s, r, ts), NEW e, NEW x,
         e.state \in {"Value", "SendPipe", "Draining"}, MainOf(e, r) = MainOf(c, r),
         e.recv = c.recv, e.recvClosed = c.recvClosed, e.state = "Value" <=> c.state = "Value",
         Reading(c, r), x.pc \notin {"writing", "failed", "panicked"},
         x.pc \in Sending <=> e.state = "SendPipe", x.pc \in Sending => Held(x) = MainOf(c, r).pipe
  PROVE  OnAll(e, x, r, ts)
  BY DEF OnAll, Reading

-----------------------------------------------------------------------------
LEMMA PutTurnAll ==
  ASSUME Sound, AllNow, NEW c, Same(ch, c), PutTurn(c), strand["sender"].pc \in {"idle", "parked"},
         strand["sender"].script # <<>>, UNCHANGED <<tasks, data, got>>
  PROVE  AllNow'
<1> DEFINE S == strand["sender"]
           R == strand["receiver"]
<1>1. AllFacts /\ Streams
  BY SoundAll, SoundStreams
<1>2. /\ c \in ChannelType /\ ~c.recvClosed /\ Reading(ch, R) /\ S.pc \notin Sending
      /\ c.state \in {"Value", "Draining"} /\ OldOf(S, R) = NoReader
      /\ OnAll(ch, S, R, tasks) /\ Delivers(ch, S, R, tasks, data, sent, got)
      /\ "sender" \in Strands /\ R.pc # "draining"
  BY <1>1 DEF AllFacts, AllNow, OnAll, Sending, Same, Reading, Strands
<1>3. DoneFacts("sender") /\ AtFacts("sender", "parked")
  BY <1>2, DoneTypes, AtTypes DEF Pcs
<1>4. CASE /\ c.state = "Value" /\ c.buffered = 0 /\ sent' = sent + 1
           /\ ch' = WakeReceivers([c EXCEPT !.buffered = sent + 1])
           /\ Become("sender", Done("sender"))
  <2> DEFINE x == Done("sender")
  <2>1. x.pc = "idle"
    BY <1>3 DEF DoneFacts
  <2>2. Is([c EXCEPT !.buffered = sent + 1], c.state, sent + 1, c.send, c.recv, c.sendClosed,
           c.recvClosed)
    <3>1. sent + 1 \in Nat
      BY <1>1 DEF AllFacts
    <3> QED BY <1>2, <3>1, IsExcept
  <2>3. Is(ch', c.state, sent + 1, c.send, c.recv, c.sendClosed, c.recvClosed)
    BY <1>4, <2>2, IsWake
  <2>4. /\ ch'.state = ch.state /\ ch'.recv = ch.recv /\ ch'.recvClosed = ch.recvClosed
        /\ ch'.buffered = sent + 1 /\ ch.state = "Value" /\ ch.buffered = 0
    BY <1>4, <2>3 DEF Is, Same
  <2> HIDE DEF x
  <2>5. MainOf(ch', R) = NoReader /\ MainOf(ch, R) = NoReader /\ OldOf(x, R) = NoReader
    BY <1>1, <1>2, <2>1, <2>4 DEF MainOf, AllFacts, OldOf
  <2>6. OnAll(ch', x, R, tasks')
    BY <1>2, <2>1, <2>4, <2>5, OnAllSender DEF Sending
  <2>7. Whole(got, <<>>, <<>>, 0, sent)
    BY <1>1, <1>2, <2>4, <2>5 DEF Delivers, OnItsWay, Streams, AllFacts
  <2>8. Whole(got, <<>>, <<>>, sent + 1, sent + 1)
    BY <1>1, <2>7, WholeSlot DEF AllFacts
  <2>9. OnItsWay(ch', x, tasks', sent + 1) /\ sent + 1 \in Nat
    BY <1>1, <2>1, <2>4 DEF OnItsWay, AllFacts
  <2>10. Delivers(ch', x, R, tasks', data', sent', got')
    BY <1>1, <1>4, <2>5, <2>8, <2>9 DEF Delivers, Streams
  <2> QED BY <1>4, <2>6, <2>10, SenderAll DEF x
<1>5. CASE /\ ch' = [c EXCEPT !.sendWakers = {"sender"}] /\ UNCHANGED sent
           /\ Become("sender", At("sender", "parked"))
  <2> DEFINE x == At("sender", "parked")
  <2>1. x.pc = "parked"
    BY <1>3 DEF AtFacts
  <2>2. Same(ch, ch')
    BY <1>2, <1>5, SameWaiting, SameTransitive DEF Strands
  <2> HIDE DEF x
  <2>3. MainOf(ch', R) = MainOf(ch, R) /\ OldOf(x, R) = OldOf(S, R)
    BY <1>2, <2>1, <2>2 DEF MainOf, OldOf, Same
  <2>4. OnAll(ch', x, R, tasks')
    BY <1>2, <2>1, <2>2, <2>3, OnAllSender DEF Sending, Same
  <2>5. Delivers(ch', x, R, tasks', data', sent', got')
    BY <1>2, <1>5, <2>1, <2>2, <2>3, DeliversSame DEF Same
  <2> QED BY <1>5, <2>4, <2>5, SenderAll DEF x
<1> QED BY <1>2, <1>4, <1>5 DEF PutTurn

LEMMA PutAll ==
  ASSUME Sound, AllNow, Put
  PROVE  AllNow'
<1> DEFINE S == strand["sender"]
           R == strand["receiver"]
<1>1. AllFacts /\ S.pc \in {"idle", "parked"} /\ UNCHANGED <<tasks, data, got>>
  BY SoundAll DEF Put, Starts, Resumes
<1>2. S.script # <<>> /\ ch \in ChannelType
  BY SoundTypes DEF Put, Starts, Resumes, StrandOK, Resting, Strands
<1>3. Same(ch, ch) /\ Same(ch, Awake("sender"))
  BY <1>2, AwakeGood DEF Same, Strands
<1>4. CASE PutTurn(ch) \/ PutTurn(Awake("sender"))
  BY <1>1, <1>2, <1>3, <1>4, PutTurnAll
<1>5. CASE ch' = [Awake("sender") EXCEPT !.sendWakers = {"sender"}] /\ UNCHANGED <<strand, sent>>
  <2>1. Same(ch, ch')
    BY <1>3, <1>5, SameWaiting, SameTransitive DEF Same, Strands
  <2>2. MainOf(ch', R) = MainOf(ch, R)
    BY <2>1 DEF MainOf, Same
  <2>3. OnAll(ch', S, R, tasks)
    BY <2>1, <2>2 DEF AllNow, OnAll, Reading, AtTheEnd, Same
  <2>4. Delivers(ch', S, R, tasks, data, sent, got)
    BY <1>1, <2>1, <2>2, DeliversSame DEF AllNow, Same
  <2> QED BY <1>1, <1>5, <2>3, <2>4 DEF AllNow
<1> QED BY <1>4, <1>5 DEF Put


\* The reader of the pipe the sender works for.
LEMMA HeldHasReader ==
  ASSUME Sound, AllNow, strand["sender"].pc \in Sending
  PROVE  /\ HasReader(Held(strand["sender"])) /\ Held(strand["sender"]) \in 1..MaxPipes
         /\ MainOf(ch, strand["receiver"]).pipe = Held(strand["sender"])
<1> DEFINE S == strand["sender"]
           R == strand["receiver"]
           m == MainOf(ch, R)
<1>1. AllFacts /\ Streams
  BY SoundAll, SoundStreams
<1>2. OnAll(ch, S, R, tasks) /\ Reading(ch, R) /\ ch.state = "SendPipe" /\ m.pipe = Held(S)
  BY <1>1 DEF AllNow, AllFacts, OnAll, Sending
<1>3. Control(ch, S, R, tasks) /\ DrainOK(m, OldOf(S, R), IntoOf(S, R), WritersOf(ch, S))
  BY <1>1 DEF AllFacts, Sound, Good, View, Core
<1>4. Held(S) # NoPipe
  <2>1. CASE S.pc = "draining"
    <3>1. OldOf(S, R).pipe # NoPipe /\ IntoOf(S, R) = S.write
      BY <1>3, <2>1 DEF Control, SenderOK, OldOf, IntoOf
    <3> QED BY <1>3, <2>1, <3>1 DEF DrainOK, Held
  <2>2. CASE S.pc # "draining"
    BY <1>3, <2>2 DEF Control, SenderOK, Held, Sending
  <2> QED BY <2>1, <2>2
<1>5. m.pipe \in PipeIds
  BY <1>1, ReaderParts DEF Streams
<1>6. HasReader(Held(S))
  <2>1. CASE R.pc = "reading"
    BY <1>2, <2>1 DEF MainOf, HasReader, Strands
  <2>2. CASE R.pc # "reading"
    <3>1. m = IF ch.recv.is = "present" THEN ch.recv.reader ELSE NoReader
      BY <1>2, <2>2 DEF MainOf, Reading
    <3>2. ch.recv.is = "present" /\ ch.recv.reader.pipe = Held(S)
      BY <1>2, <1>4, <3>1, ReaderParts
    <3> QED BY <3>2 DEF HasReader
  <2> QED BY <2>1, <2>2
<1> QED BY <1>2, <1>4, <1>5, <1>6, PipeIdsFact

\* The write end is duplicated for a program: e is ch, or a new pipe.
LEMMA DuplicateAll ==
  ASSUME Sound, NEW e, NEW q \in PipeIds, NEW rv, NEW rc, NEW sc,
         Is(e, "SendPipe", 0, SendEnd("present", q), rv, sc, rc), Duplicate("sender", e)
  PROVE  \E x : /\ Become("sender", x) /\ x.pc = "cloning" /\ x.write = q
                /\ Is(ch', "SendPipe", 0, TakenSend, rv, sc, rc)
<1> DEFINE x == Duplicating("sender", q, NoReader)
<1>1. e \in ChannelType /\ e.send = SendEnd("present", q)
  BY DEF Is
<1>2. e.send.is = "present" /\ e.send.pipe = q
  BY <1>1 DEF SendEnd
<1>3. ch' = [e EXCEPT !.send = TakenSend] /\ Become("sender", x)
  BY <1>2 DEF Duplicate
<1>4. Is(ch', e.state, e.buffered, TakenSend, e.recv, e.sendClosed, e.recvClosed)
  BY <1>1, <1>3, IsExcept, EndTypes
<1>5. Is(ch', "SendPipe", 0, TakenSend, rv, sc, rc)
  BY <1>4 DEF Is
<1>6. AtFacts("sender", "cloning")
  BY AtTypes DEF Pcs, Strands
<1>7. x.pc = "cloning" /\ x.write = q
  BY <1>6 DEF AtFacts, Duplicating, StrandType
<1> HIDE DEF x
<1> QED BY <1>3, <1>5, <1>7

\* It happens with the end put back first.
LEMMA RestoredAll ==
  ASSUME Sound, NEW c, NEW q \in PipeIds, NEW snd, NEW rv, NEW rc,
         Is(c, "SendPipe", 0, snd, rv, FALSE, rc), Duplicate("sender", RestoreSend(c, q))
  PROVE  \E x : /\ Become("sender", x) /\ x.pc = "cloning" /\ x.write = q
                /\ Is(ch', "SendPipe", 0, TakenSend, rv, FALSE, rc)
<1>1. c \in ChannelType /\ ~c.sendClosed /\ c.state = "SendPipe"
  BY DEF Is
<1>2. Is(RestoreSend(c, q), c.state, c.buffered, SendEnd("present", q), c.recv,
         c.sendClosed, c.recvClosed)
  BY <1>1, RestoreSendIs DEF RestoresSend
<1>3. Is(RestoreSend(c, q), "SendPipe", 0, SendEnd("present", q), rv, FALSE, rc)
  BY <1>2 DEF Is
<1> QED BY <1>3, DuplicateAll

LEMMA FlushAll ==
  ASSUME Sound, AllNow, Flush
  PROVE  AllNow'
<1> DEFINE S == strand["sender"]
           R == strand["receiver"]
           p == S.write
           m == MainOf(ch, R)
<1>1. AllFacts /\ Streams /\ S.pc = "flushing" /\ S.pc \in Sending
  BY SoundAll, SoundStreams DEF Flush, Sending
<1>2. HasReader(p) /\ p \in 1..MaxPipes /\ m.pipe = p
  BY <1>1, HeldHasReader DEF Held
<1>3. /\ Write(p, S.stale) /\ Duplicate("sender", RestoreSend(ch, p))
      /\ UNCHANGED <<tasks, sent, got>>
  BY <1>2 DEF Flush
<1>4. /\ OnAll(ch, S, R, tasks) /\ ch.state = "SendPipe" /\ ch.buffered = 0 /\ ~ch.sendClosed
      /\ Reading(ch, R) /\ OldOf(S, R) = NoReader /\ p \in PipeIds /\ ch \in ChannelType
      /\ ch.sendClosed \in BOOLEAN /\ S.stale \in Nat /\ R.pc # "draining"
  BY <1>1, <1>2, PipeIdsFact
     DEF AllNow, AllFacts, OnAll, Sending, ChannelType, StrandType, Reading
<1>5. PICK v \in Nat : OnItsWay(ch, S, tasks, v) /\ Whole(got, Str(data, m), Str(data, OldOf(S, R)), v, sent)
  BY DEF AllNow, Delivers
<1>6. v = S.stale /\ v # 0 /\ tasks = {}
  BY <1>1, <1>5 DEF OnItsWay, AllFacts
<1>7. Is(ch, "SendPipe", 0, ch.send, ch.recv, FALSE, ch.recvClosed)
  BY <1>4, IsExcept DEF Is
<1>8. PICK x : /\ Become("sender", x) /\ x.pc = "cloning" /\ x.write = p
               /\ Is(ch', "SendPipe", 0, TakenSend, ch.recv, FALSE, ch.recvClosed)
  BY <1>3, <1>4, <1>7, RestoredAll
<1>9. MainOf(ch', R) = m /\ OldOf(x, R) = NoReader
  BY <1>4, <1>8 DEF MainOf, OldOf, Is
<1>10. OnAll(ch', x, R, tasks')
  BY <1>2, <1>3, <1>4, <1>8, <1>9, OnAllSender DEF Is, Sending, Held
<1>11. Str(data', m) = Append(Str(data, m), v) /\ Str(data', NoReader) = <<>>
  <2>1. WriteFacts(data, data', p, v)
    BY <1>1, <1>2, <1>3, <1>6, StrWrite DEF Write, AllFacts
  <2> QED BY <1>1, <1>2, <2>1, StrOfEmpty DEF WriteFacts, Streams
<1>12. Whole(got, Append(Str(data, m), v), <<>>, 0, sent)
  <2>1. Whole(got, Str(data, m), <<>>, v, sent)
    BY <1>1, <1>4, <1>5 DEF Streams
  <2> QED BY <1>1, <1>6, <2>1, WholeFlush DEF AllFacts, Streams
<1>13. OnItsWay(ch', x, tasks', 0)
  BY <1>3, <1>6, <1>8 DEF OnItsWay, Is
<1>14. Delivers(ch', x, R, tasks', data', sent', got')
  BY <1>3, <1>9, <1>11, <1>12, <1>13 DEF Delivers
<1> QED BY <1>8, <1>10, <1>14, SenderAll

LEMMA SendLaunchAll ==
  ASSUME Sound, AllNow, SendLaunch
  PROVE  AllNow'
<1> DEFINE S == strand["sender"]
           R == strand["receiver"]
           p == S.write
           x == [At("sender", "running") EXCEPT !.write = NoPipe, !.prog = p, !.left = Emits]
<1>1. AllFacts /\ S.pc = "cloning" /\ UNCHANGED <<tasks, data, sent, got>>
  BY SoundAll DEF SendLaunch
<1>2. x.pc = "running" /\ x.prog = p /\ p \in PipeIds
  BY <1>1 DEF At, StrandType, AllFacts
<1>3. /\ OnAll(ch, S, R, tasks) /\ ch.state = "SendPipe" /\ Reading(ch, R) /\ ch \in ChannelType
      /\ Held(S) = p /\ MainOf(ch, R).pipe = p
  BY <1>1 DEF AllNow, AllFacts, OnAll, Sending, Held
<1>4. PICK snd : Is(RestoreSend(ch, p), ch.state, ch.buffered, snd, ch.recv,
                    ch.sendClosed, ch.recvClosed)
  BY <1>2, <1>3, RestoreSendIs DEF RestoresSend
<1>5. /\ ch'.state = ch.state /\ ch'.recv = ch.recv /\ ch'.recvClosed = ch.recvClosed
      /\ ch'.buffered = ch.buffered
  BY <1>4 DEF SendLaunch, Is
<1> HIDE DEF x
<1>6. MainOf(ch', R) = MainOf(ch, R) /\ OldOf(x, R) = OldOf(S, R)
  BY <1>1, <1>2, <1>5 DEF MainOf, OldOf
<1>7. OnAll(ch', x, R, tasks')
  BY <1>1, <1>2, <1>3, <1>5, <1>6, OnAllSender DEF Sending, Held
<1>8. Delivers(ch', x, R, tasks', data', sent', got')
  BY <1>1, <1>2, <1>5, <1>6, DeliversSame DEF AllNow
<1> QED BY <1>7, <1>8, SenderAll DEF SendLaunch, x

LEMMA SendProgramAll ==
  ASSUME Sound, AllNow, SendProgram
  PROVE  AllNow'
<1> DEFINE S == strand["sender"]
           R == strand["receiver"]
           p == S.prog
           m == MainOf(ch, R)
           x == [S EXCEPT !.left = @ - 1]
<1>1. AllFacts /\ Streams /\ S.pc = "running" /\ S.pc \in Sending /\ UNCHANGED <<ch, tasks, got>>
  BY SoundAll, SoundStreams DEF SendProgram, Sending
<1>2. x.pc = "running" /\ x.prog = p
  BY <1>1 DEF StrandType, AllFacts
<1>3. p \in 1..MaxPipes /\ m.pipe = p
  BY <1>1, HeldHasReader DEF Held
<1>4. /\ OnAll(ch, S, R, tasks) /\ ch.buffered = 0 /\ tasks = {} /\ Reading(ch, R)
      /\ OldOf(S, R) = NoReader /\ R.pc # "draining"
  BY <1>1 DEF AllNow, AllFacts, OnAll, Sending, Reading
<1>5. Whole(got, Str(data, m), <<>>, 0, sent)
  <2>1. PICK v \in Nat : /\ OnItsWay(ch, S, tasks, v)
                         /\ Whole(got, Str(data, m), Str(data, OldOf(S, R)), v, sent)
    BY DEF AllNow, Delivers
  <2> QED BY <1>1, <1>4, <2>1 DEF OnItsWay, Streams
<1> HIDE DEF x
<1>6. OnAll(ch', x, R, tasks') /\ OldOf(x, R) = NoReader
  BY <1>1, <1>2, <1>4 DEF OnAll, Sending, Held, OldOf
<1>7. Write(p, sent + 1) /\ sent' = sent + 1 /\ Become("sender", x)
  BY DEF SendProgram, x
<1>8. Str(data', m) = Append(Str(data, m), sent + 1) /\ Str(data', NoReader) = <<>>
  <2>1. WriteFacts(data, data', p, sent + 1)
    <3>1. sent + 1 \in Nat /\ data \in DataType
      BY <1>1 DEF AllFacts
    <3> QED BY <1>3, <1>7, <3>1, StrWrite DEF Write
  <2> QED BY <1>1, <1>3, <2>1, StrOfEmpty DEF WriteFacts, Streams
<1>9. Whole(got, Append(Str(data, m), sent + 1), <<>>, 0, sent + 1)
  BY <1>1, <1>5, WholeWrite DEF AllFacts, Streams
<1>10. OnItsWay(ch', x, tasks', 0)
  BY <1>1, <1>2, <1>4 DEF OnItsWay
<1>11. Delivers(ch', x, R, tasks', data', sent', got')
  BY <1>1, <1>6, <1>7, <1>8, <1>9, <1>10 DEF Delivers
<1> QED BY <1>6, <1>7, <1>11, SenderAll

LEMMA SendExitAll ==
  ASSUME Sound, AllNow, SendExit
  PROVE  AllNow'
<1> DEFINE S == strand["sender"]
           R == strand["receiver"]
           x == [Done("sender") EXCEPT !.left = 0]
           e == [ch EXCEPT !.state = "Draining", !.send = NoSend]
<1>1. AllFacts /\ S.pc = "running" /\ UNCHANGED <<tasks, data, sent, got>>
  BY SoundAll DEF SendExit
<1>2. /\ OnAll(ch, S, R, tasks) /\ ch.state = "SendPipe" /\ Reading(ch, R) /\ ch \in ChannelType
  BY <1>1 DEF AllNow, AllFacts, OnAll, Sending
<1>3. x.pc = "idle"
  BY <1>1 DEF Done, StrandType, AllFacts
<1>4. ch' = WakeReceivers(WakeNegotiators(e)) /\ Become("sender", x)
  BY <1>2 DEF SendExit, SendGuardDrop, MaySendDone, SendDone
<1>5. Is(e, "Draining", ch.buffered, NoSend, ch.recv, ch.sendClosed, ch.recvClosed)
  BY <1>2, EndTypes DEF Is, ChannelType, States
<1> HIDE DEF x, e
<1>6. Is(ch', "Draining", ch.buffered, NoSend, ch.recv, ch.sendClosed, ch.recvClosed)
  BY <1>4, <1>5, IsWake
<1>7. MainOf(ch', R) = MainOf(ch, R) /\ OldOf(x, R) = OldOf(S, R)
  BY <1>1, <1>3, <1>6 DEF MainOf, OldOf, Is
<1>8. OnAll(ch', x, R, tasks')
  BY <1>1, <1>2, <1>3, <1>6, <1>7, OnAllSender DEF Sending, Is
<1>9. Delivers(ch', x, R, tasks', data', sent', got')
  BY <1>1, <1>3, <1>6, <1>7, DeliversSame DEF AllNow, Is
<1> QED BY <1>4, <1>8, <1>9, SenderAll


\* A reader at the end has nothing left.
LEMMA StrEnd ==
  ASSUME data \in DataType, NEW r \in ReaderType, r.pipe # NoPipe, Filled(r) = <<>>
  PROVE  Str(data, r) = <<>>
<1> DEFINE q == data[r.pipe]
           k == IF Len(q) < BufCapacity THEN Len(q) ELSE BufCapacity
<1>1. r.buf = <<>> /\ SubSeq(q, 1, k) = <<>>
  BY DEF Filled
<1>2. q \in Seq(Nat) /\ Str(data, r) = r.buf \o q
  BY StrType
<1>3. Len(q) \in Nat /\ k \in 0..Len(q)
  BY <1>2, LenProperties, SizesAssumption
<1>4. Len(SubSeq(q, 1, k)) = k
  BY <1>2, <1>3, SubSeqProperties
<1>5. k = 0
  BY <1>1, <1>4, NoItems
<1>6. Len(q) = 0
  BY <1>3, <1>5, SizesAssumption
<1>7. q = <<>>
  BY <1>2, <1>6, EmptySeq
<1> QED BY <1>1, <1>2, <1>7, EmptyConcat, NoItems

\* One item of the old pipe goes to the end of the new one.
LEMMA DrainedStreams ==
  ASSUME data \in DataType, NEW r \in ReaderType, r.pipe # NoPipe, Filled(r) # <<>>,
         NEW p \in 1..MaxPipes, p # r.pipe, NEW m \in ReaderType, m.pipe = p,
         data' = [Unread(r) EXCEPT ![p] = Append(@, Head(Filled(r)))]
  PROVE  /\ Str(data, r) # <<>>
         /\ Str(data', m) = Append(Str(data, m), Head(Str(data, r)))
         /\ Str(data', Reader(r.pipe, Tail(Filled(r)))) = Tail(Str(data, r))
<1> DEFINE d == Unread(r)
           h == Head(Filled(r))
           t == Reader(r.pipe, Tail(Filled(r)))
<1>1. ReadFacts(r)
  BY StrRead
<1>2. /\ d \in DataType /\ h \in Nat /\ d[p] = data[p] /\ h = Head(Str(data, r))
      /\ Str(data, r) # <<>> /\ Str(d, t) = Tail(Str(data, r)) /\ Tail(Filled(r)) \in Seq(Nat)
  BY <1>1 DEF ReadFacts
<1>3. t \in ReaderType /\ t.pipe = r.pipe
  BY <1>2, ReaderParts
<1> HIDE DEF d, h, t
<1>4. WriteFacts(d, data', p, h)
  <2>1. data' = [d EXCEPT ![p] = Append(@, h)]
    BY DEF d, h
  <2>2. d \in DataType /\ h \in Nat
    BY <1>2
  <2>3. WriteFacts(d, [d EXCEPT ![p] = Append(@, h)], p, h)
    BY <2>2, StrWrite
  <2> QED BY <2>1, <2>3
<1>5. Str(d, m) = Str(data, m)
  BY <1>2 DEF Str
<1>6. Str(data', m) = Append(Str(d, m), h) /\ Str(data', t) = Str(d, t)
  BY <1>3, <1>4 DEF WriteFacts
<1> QED BY <1>2, <1>5, <1>6 DEF t

LEMMA SenderDrainAll ==
  ASSUME Sound, AllNow, Drain("sender")
  PROVE  AllNow'
<1> DEFINE S == strand["sender"]
           R == strand["receiver"]
           r == S.read
           p == S.write
           m == MainOf(ch, R)
<1>1. /\ AllFacts /\ Streams /\ S.pc = "draining" /\ S.pc \in Sending
      /\ UNCHANGED <<pipes, sent, got>>
  BY SoundAll, SoundStreams DEF Drain, Sending
<1>2. HasReader(p) /\ p \in 1..MaxPipes /\ m.pipe = p
  BY <1>1, HeldHasReader DEF Held
<1>3. /\ OnAll(ch, S, R, tasks) /\ ch.state = "SendPipe" /\ ch.buffered = 0 /\ ~ch.sendClosed
      /\ Reading(ch, R) /\ OldOf(S, R) = r /\ p \in PipeIds /\ ch \in ChannelType /\ tasks = {}
      /\ R.pc # "draining" /\ S \in StrandType /\ r \in ReaderType /\ r.pipe # NoPipe
      /\ data \in DataType /\ ch.sendClosed \in BOOLEAN
  BY <1>1, <1>2, PipeIdsFact
     DEF AllNow, AllFacts, OnAll, Sending, ChannelType, StrandType, Reading, OldOf, Control, SenderOK
<1>4. p # r.pipe
  <2>1. DrainOK(m, OldOf(S, R), IntoOf(S, R), WritersOf(ch, S))
    BY DEF Sound, Good, View, Core
  <2> QED BY <1>1, <1>3, <2>1 DEF DrainOK, IntoOf
<1>5. Whole(got, Str(data, m), Str(data, r), 0, sent)
  <2>1. PICK v \in Nat : /\ OnItsWay(ch, S, tasks, v)
                         /\ Whole(got, Str(data, m), Str(data, OldOf(S, R)), v, sent)
    BY DEF AllNow, Delivers
  <2> QED BY <1>1, <1>3, <2>1 DEF OnItsWay
<1>6. CASE /\ Filled(r) # <<>> /\ data' = [Unread(r) EXCEPT ![p] = Append(@, Head(Filled(r)))]
           /\ Become("sender", [S EXCEPT !.read.buf = Tail(Filled(r))])
           /\ UNCHANGED <<ch, tasks>>
  <2> DEFINE x == [S EXCEPT !.read.buf = Tail(Filled(r))]
             y == Str(data, r)
  <2>1. x.read = Reader(r.pipe, Tail(Filled(r))) /\ x.pc = "draining" /\ x.write = p
    BY <1>1, <1>3 DEF StrandType, ReaderType, Reader
  <2>2. /\ y # <<>> /\ Str(data', m) = Append(Str(data, m), Head(y))
        /\ Str(data', Reader(r.pipe, Tail(Filled(r)))) = Tail(y)
    BY <1>1, <1>2, <1>3, <1>4, <1>6, DrainedStreams DEF Streams
  <2> HIDE DEF x, y
  <2>3. Whole(got, Append(Str(data, m), Head(y)), Tail(y), 0, sent)
    BY <1>1, <1>3, <1>5, <2>2, WholeDrain DEF AllFacts, Streams, y
  <2>4. OldOf(x, R) = x.read
    BY <2>1 DEF OldOf
  <2>5. OnItsWay(ch', x, tasks', 0)
    BY <1>3, <1>6, <2>1 DEF OnItsWay
  <2>6. Delivers(ch', x, R, tasks', data', sent', got')
    BY <1>1, <1>6, <2>1, <2>2, <2>3, <2>4, <2>5 DEF Delivers
  <2>7. OnAll(ch', x, R, tasks')
    BY <1>1, <1>3, <1>6, <2>1 DEF OnAll, Sending, Held
  <2> QED BY <1>6, <2>6, <2>7, SenderAll DEF x
<1>7. CASE AtEnd(r) /\ FlushStale("sender", ch, p, 0) /\ UNCHANGED data
  <2>1. Duplicate("sender", RestoreSend(ch, p)) /\ UNCHANGED tasks
    BY <1>2, <1>7, PipeIdsFact DEF FlushStale
  <2>2. Is(ch, "SendPipe", 0, ch.send, ch.recv, FALSE, ch.recvClosed)
    BY <1>3, IsExcept DEF Is
  <2>3. PICK x : /\ Become("sender", x) /\ x.pc = "cloning" /\ x.write = p
                 /\ Is(ch', "SendPipe", 0, TakenSend, ch.recv, FALSE, ch.recvClosed)
    BY <1>3, <2>1, <2>2, RestoredAll
  <2>4. MainOf(ch', R) = m /\ OldOf(x, R) = NoReader
    BY <1>3, <2>3 DEF MainOf, OldOf, Is
  <2>5. OnAll(ch', x, R, tasks')
    BY <1>2, <1>3, <2>1, <2>3, <2>4, OnAllSender DEF Is, Sending, Held
  <2>6. Str(data, r) = <<>>
    BY <1>3, <1>7, StrEnd DEF AtEnd
  <2>7. OnItsWay(ch', x, tasks', 0)
    BY <1>3, <2>1, <2>3 DEF OnItsWay, Is
  <2>8. Delivers(ch', x, R, tasks', data', sent', got')
    BY <1>1, <1>5, <1>7, <2>4, <2>6, <2>7 DEF Delivers, Streams
  <2> QED BY <2>3, <2>5, <2>8, SenderAll
<1> QED BY <1>2, <1>6, <1>7 DEF Drain

LEMMA SendBecomesAll ==
  ASSUME Sound, AllNow, NEW c, Same(ch, c), strand["sender"].pc \in {"idle", "negotiating"},
         SendVerdict(c) = "go", NeedsPipe("sender", c) => strand["sender"].fresh # NoPipe,
         BecomeSendPipe(c), UNCHANGED <<data, sent, got>>
  PROVE  AllNow'
<1> DEFINE S == strand["sender"]
           R == strand["receiver"]
           p == S.fresh
           m == MainOf(ch, R)
           rcv == RecvEnd("present", Reader(S.fresh, <<>>))
<1>1. AllFacts /\ Streams
  BY SoundAll, SoundStreams
<1>2. /\ c \in ChannelType /\ ~c.recvClosed /\ Reading(ch, R) /\ S.pc \notin Sending
      /\ c.state \in {"Value", "Draining"} /\ OldOf(S, R) = NoReader /\ ~c.sendClosed
      /\ OnAll(ch, S, R, tasks) /\ "sender" \in Strands /\ R.pc # "draining" /\ tasks = {}
      /\ S.pc # "flushing" /\ p # NoPipe
  BY <1>1 DEF AllFacts, AllNow, OnAll, Sending, Same, Reading, Strands, NeedsPipe
<1>3. p \in PipeIds /\ p \in 1..MaxPipes /\ c.buffered \in Nat
  BY <1>1, <1>2, PipeIdsFact DEF AllFacts, Streams, StrandType, ChannelType
<1>4. Whole(got, Str(data, m), <<>>, c.buffered, sent)
  <2>1. PICK v \in Nat : /\ OnItsWay(ch, S, tasks, v)
                         /\ Whole(got, Str(data, m), Str(data, OldOf(S, R)), v, sent)
    BY DEF AllNow, Delivers
  <2> QED BY <1>1, <1>2, <2>1 DEF OnItsWay, Streams, Same
<1>5. rcv.is = "present" /\ rcv.reader = Reader(p, <<>>)
  BY DEF RecvEnd
<1>6. ASSUME NEW e, NEW snd, Is(e, "SendPipe", 0, snd, rcv, c.sendClosed, c.recvClosed),
             R.pc # "reading"
      PROVE  MainOf(e, R) = Reader(p, <<>>)
  <2> HIDE DEF rcv
  <2> QED BY <1>2, <1>5, <1>6 DEF MainOf, Is, Reading
<1>7. ASSUME NEW x, x.pc \in Sending, Held(x) = p, R.pc # "reading", UNCHANGED tasks,
             NEW snd, Is(ch', "SendPipe", 0, snd, rcv, c.sendClosed, c.recvClosed)
      PROVE  OnAll(ch', x, R, tasks')
  <2>1. MainOf(ch', R).pipe = p
    BY <1>1, <1>2, <1>6, <1>7 DEF Streams
  <2>2. ch'.recv.is = "present" /\ ch'.state = "SendPipe" /\ ~ch'.recvClosed
    BY <1>2, <1>5, <1>7 DEF Is
  <2> QED BY <1>2, <1>7, <2>1, <2>2 DEF OnAll, Reading, Sending
<1>8. Str(data, Reader(p, <<>>)) = <<>>
  BY <1>1, <1>2 DEF Streams
<1>9. CASE /\ c.state = "Value"
           /\ FlushStale("sender", WakeReceivers(FreshPipe("sender", TakeBuffered(c), "SendPipe")),
                         p, c.buffered)
  <2> DEFINE e == WakeReceivers(FreshPipe("sender", TakeBuffered(c), "SendPipe"))
  <2>1. Is(e, "SendPipe", 0, TakenSend, rcv, c.sendClosed, c.recvClosed)
    BY <1>2, FreshIs, IsWake DEF States
  <2>2. FlushStale("sender", e, p, c.buffered)
    BY <1>9
  <2>3. R.pc # "reading" /\ Str(data, m) = <<>>
    BY <1>1, <1>9 DEF AllFacts, Control, ReceiverOK, Same, Streams
  <2> HIDE DEF e, rcv
  <2>4. CASE c.buffered = 0
    <3>1. Duplicate("sender", RestoreSend(e, p)) /\ UNCHANGED tasks
      BY <1>2, <2>2, <2>4 DEF FlushStale
    <3>2. c.sendClosed = FALSE
      BY <1>2 DEF ChannelType
    <3>3. PICK x : /\ Become("sender", x) /\ x.pc = "cloning" /\ x.write = p
                   /\ Is(ch', "SendPipe", 0, TakenSend, rcv, FALSE, c.recvClosed)
      <4>1. Is(e, "SendPipe", 0, TakenSend, rcv, FALSE, c.recvClosed)
        BY <2>1, <3>2
      <4>2. p \in PipeIds
        BY <1>3
      <4> HIDE DEF p
      <4> QED BY <3>1, <4>1, <4>2, RestoredAll
    <3>4. OnAll(ch', x, R, tasks')
      <4>1. x.pc \in Sending /\ Held(x) = p
        BY <3>3 DEF Sending, Held
      <4>2. Is(ch', "SendPipe", 0, TakenSend, rcv, c.sendClosed, c.recvClosed)
        BY <3>2, <3>3
      <4> QED BY <1>7, <2>3, <3>1, <4>1, <4>2
    <3>5. MainOf(ch', R) = Reader(p, <<>>) /\ OldOf(x, R) = NoReader
      BY <1>2, <1>6, <2>3, <3>2, <3>3 DEF OldOf
    <3>6. OnItsWay(ch', x, tasks', 0)
      BY <1>2, <3>1, <3>3 DEF OnItsWay, Is
    <3>7. Delivers(ch', x, R, tasks', data', sent', got')
      BY <1>1, <1>4, <1>8, <2>3, <2>4, <3>5, <3>6 DEF Delivers, Streams
    <3> QED BY <3>3, <3>4, <3>7, SenderAll
  <2>5. CASE c.buffered # 0
    <3> DEFINE x == [At("sender", "flushing") EXCEPT !.write = p, !.fresh = NoPipe,
                                                     !.stale = c.buffered]
    <3>1. ch' = e /\ Become("sender", x) /\ UNCHANGED tasks
      BY <1>2, <2>2, <2>5 DEF FlushStale
    <3>2. AtFacts("sender", "flushing")
      BY <1>2, AtTypes DEF Pcs
    <3>3. x.pc = "flushing" /\ x.write = p /\ x.stale = c.buffered
      BY <3>2 DEF AtFacts, StrandType
    <3> HIDE DEF x
    <3>4. OnAll(ch', x, R, tasks')
      BY <1>7, <2>1, <2>3, <3>1, <3>3 DEF Sending, Held
    <3>5. MainOf(ch', R) = Reader(p, <<>>) /\ OldOf(x, R) = NoReader
      BY <1>2, <1>6, <2>1, <2>3, <3>1, <3>3 DEF OldOf
    <3>6. OnItsWay(ch', x, tasks', c.buffered)
      BY <1>2, <2>1, <2>5, <3>1, <3>3 DEF OnItsWay, Is
    <3>7. Delivers(ch', x, R, tasks', data', sent', got')
      BY <1>1, <1>3, <1>4, <1>8, <2>3, <3>5, <3>6 DEF Delivers, Streams
    <3> QED BY <3>1, <3>4, <3>7, SenderAll
  <2> QED BY <2>4, <2>5
<1>10. CASE /\ c.state = "Draining" /\ c.recv.is = "present"
            /\ DrainFirst("sender", WakeReceivers(FreshPipe("sender", c, "SendPipe")), p,
                          c.recv.reader)
  <2> DEFINE e == WakeReceivers(FreshPipe("sender", c, "SendPipe"))
             x == [At("sender", "draining") EXCEPT !.write = p, !.read = c.recv.reader,
                                                   !.fresh = NoPipe]
  <2>1. c.buffered = 0
    BY <1>1, <1>10 DEF AllFacts, Same
  <2>2. Is(e, "SendPipe", c.buffered, TakenSend, rcv, c.sendClosed, c.recvClosed)
    BY <1>2, FreshIs, IsWake DEF States
  <2>3. ch' = e /\ Become("sender", x) /\ UNCHANGED tasks
    BY <1>10 DEF DrainFirst
  <2>4. AtFacts("sender", "draining")
    BY <1>2, AtTypes DEF Pcs
  <2>5. x.pc = "draining" /\ x.write = p /\ x.read = c.recv.reader
    BY <2>4 DEF AtFacts, StrandType
  <2>6. R.pc # "reading" /\ m = c.recv.reader
    BY <1>1, <1>2, <1>10 DEF AllFacts, Control, ReceiverOK, Same, MainOf, Reading
  <2> HIDE DEF e, x, rcv
  <2>7. OnAll(ch', x, R, tasks')
    BY <1>7, <2>1, <2>2, <2>3, <2>5, <2>6 DEF Sending, Held
  <2>8. MainOf(ch', R) = Reader(p, <<>>) /\ OldOf(x, R) = m
    BY <1>2, <1>6, <2>1, <2>2, <2>3, <2>5, <2>6 DEF OldOf
  <2>9. OnItsWay(ch', x, tasks', 0)
    BY <1>2, <2>1, <2>2, <2>3, <2>5 DEF OnItsWay, Is
  <2>10. Whole(got, <<>>, Str(data, m), 0, sent)
    BY <1>1, <1>4, <2>1, WholeReplace DEF AllFacts, Streams
  <2>11. Delivers(ch', x, R, tasks', data', sent', got')
    BY <1>8, <2>8, <2>9, <2>10 DEF Delivers
  <2> QED BY <2>3, <2>7, <2>11, SenderAll
<1>11. c.state = "Draining" => c.recv.is = "present"
  BY <1>1, <1>2 DEF AllFacts, Same, SendVerdict
<1> QED BY <1>2, <1>9, <1>10, <1>11 DEF BecomeSendPipe


\* The sender changes between the states in which it holds nothing.
LEMMA SenderRestsAll ==
  ASSUME Sound, AllNow, Same(ch, ch'), UNCHANGED <<tasks, data, sent, got>>,
         strand["sender"].pc \in {"idle", "opening", "negotiating"},
         NEW x, Become("sender", x), x.pc \in {"opening", "negotiating"}
  PROVE  AllNow'
<1> DEFINE S == strand["sender"]
           R == strand["receiver"]
<1>1. AllFacts
  BY SoundAll
<1>2. /\ Reading(ch, R) /\ S.pc \notin Sending /\ x.pc \notin Sending
      /\ OnAll(ch, S, R, tasks) /\ Delivers(ch, S, R, tasks, data, sent, got)
  BY <1>1 DEF AllFacts, AllNow, OnAll, Sending
<1>3. MainOf(ch', R) = MainOf(ch, R) /\ OldOf(x, R) = OldOf(S, R)
  BY DEF MainOf, OldOf, Same
<1>4. OnAll(ch', x, R, tasks')
  <2>1. x.pc \notin {"writing", "failed", "panicked"}
    OBVIOUS
  <2> QED BY <1>2, <1>3, <2>1 DEF Same, OnAll, Reading
<1>5. Delivers(ch', x, R, tasks', data', sent', got')
  BY <1>2, <1>3, DeliversSame DEF Same
<1> QED BY <1>4, <1>5, SenderAll

LEMMA SendNegotiateAll ==
  ASSUME Sound, AllNow, Negotiate("sender")
  PROVE  AllNow'
<1> DEFINE S == strand["sender"]
           R == strand["receiver"]
<1>1. /\ S.pc \in {"idle", "negotiating"} /\ ch \in ChannelType
      /\ UNCHANGED <<data, sent, got>>
  BY SoundTypes DEF Negotiate, Starts
<1>2. PICK c : Same(ch, c) /\ NegotiateTurn("sender", c)
  <2>1. Same(ch, ch) /\ Same(ch, Awake("sender"))
    BY <1>1, AwakeGood DEF Same, Strands
  <2> QED BY <2>1 DEF Negotiate
<1>3. c.state \in {"Value", "Draining"} /\ c \in ChannelType
  BY <1>1, <1>2 DEF AllNow, OnAll, Sending, Same
<1>4. Verdict("sender", c) = SendVerdict(c) /\ SendVerdict(c) # "error"
  BY <1>3 DEF Verdict, SendVerdict
<1>5. CASE /\ ch' = [c EXCEPT !.negotiateWakers = @ \cup {"sender"}]
           /\ Become("sender", At("sender", "negotiating")) /\ UNCHANGED tasks
  <2>1. Same(ch, ch')
    BY <1>2, <1>3, <1>5, SameWaiting, SameTransitive DEF Strands
  <2>2. At("sender", "negotiating").pc = "negotiating"
    BY AtTypes DEF AtFacts, Pcs, Strands
  <2> QED BY <1>1, <1>5, <2>1, <2>2, SenderRestsAll
<1>6. CASE ch' = c /\ Become("sender", At("sender", "opening")) /\ UNCHANGED tasks
  <2>1. At("sender", "opening").pc = "opening"
    BY AtTypes DEF AtFacts, Pcs, Strands
  <2> QED BY <1>1, <1>2, <1>6, <2>1, SenderRestsAll
<1>7. CASE /\ ~(NeedsPipe("sender", c) /\ S.fresh = NoPipe) /\ Verdict("sender", c) = "go"
           /\ BecomeSendPipe(c)
  BY <1>1, <1>2, <1>4, <1>7, SendBecomesAll
<1> QED BY <1>2, <1>4, <1>5, <1>6, <1>7 DEF NegotiateTurn

LEMMA SenderOpenedAll ==
  ASSUME Sound, AllNow, Opened("sender")
  PROVE  AllNow'
<1> DEFINE S == strand["sender"]
           x == [At("sender", "negotiating") EXCEPT !.fresh = pipes + 1]
<1>1. S \in StrandType /\ ch \in ChannelType
  BY SoundTypes DEF Strands
<1>2. Same(ch, ch')
  BY <1>1, SameWaiting DEF Opened, Strands
<1>3. x.pc = "negotiating"
  BY <1>1 DEF At, StrandType
<1>4. Become("sender", x) /\ UNCHANGED <<tasks, data, sent, got>> /\ S.pc = "opening"
  BY DEF Opened
<1> HIDE DEF x
<1> QED BY <1>2, <1>3, <1>4, SenderRestsAll

LEMMA SenderCloseAll ==
  ASSUME Sound, AllNow, CloseStage("sender")
  PROVE  AllNow'
<1> DEFINE S == strand["sender"]
           R == strand["receiver"]
           x == At("sender", "closed")
<1>1. AllFacts
  BY SoundAll
<1>2. /\ S.pc = "idle" /\ UNCHANGED <<tasks, data, sent, got>>
      /\ OnAll(ch, S, R, tasks) /\ Delivers(ch, S, R, tasks, data, sent, got)
      /\ ch' = CloseSend(ch) /\ Become("sender", x)
  BY DEF AllNow, OnAll, CloseStage
<1>3. x.pc = "closed"
  BY AtTypes DEF AtFacts, Pcs, Strands
<1> HIDE DEF x
<1>4. Is([ch EXCEPT !.sendClosed = TRUE, !.send = NoSend],
         ch.state, ch.buffered, NoSend, ch.recv, TRUE, ch.recvClosed)
  BY <1>1, IsExcept DEF AllFacts
<1>5. Is(ch', ch.state, ch.buffered, NoSend, ch.recv, TRUE, ch.recvClosed)
  BY <1>2, <1>4, IsWake DEF CloseSend
<1>6. MainOf(ch', R) = MainOf(ch, R) /\ OldOf(x, R) = OldOf(S, R)
  BY <1>2, <1>3, <1>5 DEF MainOf, OldOf, Is
<1>7. Reading(ch, R) /\ Reading(ch', R)
  BY <1>1, <1>2, <1>5 DEF AllFacts, Reading, Is
<1>8. OnAll(ch', x, R, tasks')
  BY <1>2, <1>3, <1>5, <1>7 DEF OnAll, Sending, Is
<1>9. Delivers(ch', x, R, tasks', data', sent', got')
  BY <1>2, <1>3, <1>5, <1>6, DeliversSame DEF Is
<1> QED BY <1>2, <1>8, <1>9, SenderAll

-----------------------------------------------------------------------------
\* The state is Value, and the slot holds all that was not received.
LEMMA NextInValueAll ==
  ASSUME Sound, AllNow, NEW c \in ChannelType, c.state = "Value", c.recv.is # "present",
         ~c.recvClosed, Reading(ch, strand["receiver"]), strand["sender"].pc \notin Sending,
         Whole(got, <<>>, <<>>, c.buffered, sent), NextInValue(c), UNCHANGED <<tasks, data, sent>>
  PROVE  AllNow'
<1> DEFINE S == strand["sender"]
           R == strand["receiver"]
<1>1. AllFacts /\ Streams /\ "receiver" \in Strands
  BY SoundAll, SoundStreams DEF Strands
<1>2. /\ Streaming(R.script) /\ R.script # <<>> /\ tasks = {}
      /\ c.buffered \in Nat /\ sent \in Nat /\ got \in Seq(Nat)
      /\ S.pc \notin {"writing", "failed", "panicked", "draining", "flushing"}
  BY <1>1, StreamsOn DEF AllFacts, Reading, ChannelType, AllNow, OnAll, Sending
<1>3. DoneFacts("receiver") /\ AtFacts("receiver", "parked") /\ AtFacts("receiver", "idle")
  BY <1>1, <1>2, DoneTypes, AtTypes DEF Pcs
<1>4. ASSUME NEW x, Become("receiver", x), x.pc \in {"idle", "parked"}, ch'.recv = c.recv,
             ch'.state = "Value", Reading(ch', x) \/ AtTheEnd(ch', x),
             Whole(got', <<>>, <<>>, ch'.buffered, sent), ch'.buffered \in Nat
      PROVE  AllNow'
  <2>1. MainOf(ch', x) = NoReader /\ OldOf(S, x) = NoReader
    BY <1>2, <1>4 DEF MainOf, OldOf
  <2>2. OnAll(ch', S, x, tasks')
    BY <1>2, <1>4 DEF OnAll
  <2>3. OnItsWay(ch', S, tasks', ch'.buffered)
    BY <1>2 DEF OnItsWay
  <2>4. Str(data', NoReader) = <<>>
    BY <1>1 DEF Streams
  <2>5. Delivers(ch', S, x, tasks', data', sent', got')
    BY <1>4, <2>1, <2>3, <2>4 DEF Delivers
  <2> QED BY <1>4, <2>2, <2>5, ReceiverAll
<1>5. CASE /\ c.buffered # 0 /\ got' = Append(got, c.buffered) /\ Become("receiver", Received)
           /\ ch' = WakeSenders(WakeNegotiators([c EXCEPT !.buffered = 0]))
  <2> DEFINE x == Received
  <2>1. Become("receiver", x)
    BY <1>5
  <2>2. x.pc = "idle" /\ Streaming(x.script)
    BY <1>2, StreamsOn
  <2>3. Is([c EXCEPT !.buffered = 0], c.state, 0, c.send, c.recv, c.sendClosed, c.recvClosed)
    BY IsExcept
  <2>4. Is(ch', c.state, 0, c.send, c.recv, c.sendClosed, c.recvClosed)
    BY <1>5, <2>3, IsWake
  <2> HIDE DEF x
  <2>5. Reading(ch', x) /\ ch'.buffered = 0 /\ ch'.recv = c.recv /\ ch'.state = "Value"
    BY <2>2, <2>4 DEF Reading, Is
  <2>6. Whole(got', <<>>, <<>>, ch'.buffered, sent)
    BY <1>2, <1>5, <2>5, WholeTake
  <2> QED BY <1>4, <2>1, <2>2, <2>5, <2>6
<1>6. CASE c.buffered = 0 /\ c.sendClosed /\ ch' = c /\ Become("receiver", Done("receiver"))
           /\ UNCHANGED got
  <2> DEFINE x == Done("receiver")
  <2>1. x.pc = "idle" /\ (Streaming(x.script) \/ x.script = <<>>)
    BY <1>2, StreamsOn
  <2>2. Become("receiver", x)
    BY <1>6
  <2> HIDE DEF x
  <2>3. Reading(ch', x) \/ AtTheEnd(ch', x)
    BY <1>6, <2>1 DEF AtTheEnd, Reading
  <2> QED BY <1>2, <1>4, <1>6, <2>1, <2>2, <2>3
<1>7. CASE /\ ch' = [c EXCEPT !.recvWakers = {"receiver"}] /\ UNCHANGED got
           /\ Become("receiver", [At("receiver", "parked") EXCEPT !.read = NoReader])
  <2> DEFINE x == [At("receiver", "parked") EXCEPT !.read = NoReader]
  <2>1. x.pc = "parked" /\ Streaming(x.script)
    BY <1>2, <1>3 DEF AtFacts, StrandType
  <2>2. Same(c, ch')
    BY <1>1, <1>7, SameWaiting
  <2>3. Become("receiver", x)
    BY <1>7
  <2> HIDE DEF x
  <2>4. Reading(ch', x) /\ ch'.buffered = c.buffered /\ ch'.recv = c.recv /\ ch'.state = "Value"
    BY <2>1, <2>2 DEF Reading, Same
  <2> QED BY <1>2, <1>4, <1>7, <2>1, <2>3, <2>4
<1> QED BY <1>5, <1>6, <1>7 DEF NextInValue

LEMMA NextTurnAll ==
  ASSUME Sound, AllNow, NEW c, Same(ch, c), strand["receiver"].pc \in {"idle", "parked"},
         strand["receiver"].script # <<>>, NextTurn(c), UNCHANGED <<tasks, data, sent>>
  PROVE  AllNow'
<1> DEFINE S == strand["sender"]
           R == strand["receiver"]
<1>1. AllFacts /\ Streams /\ "receiver" \in Strands
  BY SoundAll, SoundStreams DEF Strands
<1>2. /\ c \in ChannelType /\ Reading(ch, R) /\ OnAll(ch, S, R, tasks) /\ ~c.recvClosed
      /\ c.state \in {"Value", "SendPipe", "Draining"}
      /\ R.pc # "draining" /\ R.pc # "reading" /\ R.pc # "cloning" /\ R.pc # "running"
  BY <1>1 DEF AllNow, OnAll, Reading, AtTheEnd, Same
<1>3. c.state # "Value" => c.recv.is = "present"
  <2>1. c.recv.is \in Ends
    BY <1>2 DEF ChannelType
  <2>2. c.state # "Value" => c.recv.is # "absent" /\ c.recv.is # "taken"
    BY <1>1, <1>2 DEF AllFacts, Control, EndsOK, Reading, Same
  <2> QED BY <2>1, <2>2 DEF Ends
<1>4. PICK v \in Nat : /\ OnItsWay(ch, S, tasks, v)
                       /\ Whole(got, Str(data, MainOf(ch, R)), Str(data, OldOf(S, R)), v, sent)
  BY DEF AllNow, Delivers
<1>5. CASE c.state = "Value" /\ NextInValue(c)
  <2>1. S.pc \notin Sending /\ S.pc # "draining" /\ S.pc # "flushing" /\ tasks = {}
    BY <1>1, <1>2, <1>5 DEF OnAll, Same, Sending
  <2>2. MainOf(ch, R) = NoReader /\ OldOf(S, R) = NoReader /\ v = c.buffered
    BY <1>1, <1>4, <1>5, <2>1 DEF AllFacts, Same, OnItsWay
  <2>3. Whole(got, <<>>, <<>>, c.buffered, sent)
    BY <1>1, <1>4, <2>2 DEF Streams
  <2>4. c.recv.is # "present"
    BY <1>1, <1>5 DEF AllFacts, Control, EndsOK, Same
  <2> QED BY <1>2, <1>5, <2>1, <2>3, <2>4, NextInValueAll
<1>6. CASE /\ c.state \in {"SendPipe", "Draining"} /\ c.recv.is = "present"
           /\ ch' = [c EXCEPT !.recv = TakenRecv] /\ UNCHANGED got
           /\ Become("receiver", [At("receiver", "reading") EXCEPT !.read = c.recv.reader])
  <2> DEFINE x == [At("receiver", "reading") EXCEPT !.read = c.recv.reader]
  <2>1. Is(ch', c.state, c.buffered, c.send, TakenRecv, c.sendClosed, c.recvClosed)
    BY <1>2, <1>6, IsExcept, EndTypes
  <2>2. AtFacts("receiver", "reading")
    BY <1>1, AtTypes DEF Pcs
  <2>3. x.pc = "reading" /\ x.read = c.recv.reader /\ x.script = R.script
    BY <2>2 DEF AtFacts, StrandType
  <2>4. Become("receiver", x)
    BY <1>6
  <2> HIDE DEF x
  <2>5. MainOf(ch', x) = c.recv.reader /\ MainOf(ch, R) = c.recv.reader /\ OldOf(S, x) = OldOf(S, R)
    BY <1>2, <1>6, <2>3 DEF MainOf, OldOf, Same
  <2>6. Reading(ch', x)
    BY <1>2, <2>1, <2>3 DEF Reading, Is
  <2>7. OnAll(ch', S, x, tasks')
    BY <1>2, <2>1, <2>5, <2>6 DEF OnAll, Is, Same
  <2>8. OnItsWay(ch', S, tasks', v)
    BY <1>4, <2>1 DEF OnItsWay, Is, Same
  <2>9. Delivers(ch', S, x, tasks', data', sent', got')
    BY <1>4, <1>6, <2>5, <2>8 DEF Delivers
  <2> QED BY <2>4, <2>7, <2>9, ReceiverAll
<1> QED BY <1>2, <1>3, <1>5, <1>6 DEF NextTurn

LEMMA Next1All ==
  ASSUME Sound, AllNow, Next1
  PROVE  AllNow'
<1> DEFINE S == strand["sender"]
           R == strand["receiver"]
<1>1. /\ UNCHANGED <<tasks, data, sent>> /\ ch \in ChannelType /\ R.pc \in {"idle", "parked"}
  BY SoundTypes DEF Next1, Starts, Resumes
<1>2. R.script # <<>>
  BY SoundTypes DEF Next1, Starts, Resumes, StrandOK, Resting, Strands
<1>3. Same(ch, ch) /\ Same(ch, Awake("receiver"))
  BY <1>1, AwakeGood DEF Same, Strands
<1>4. CASE NextTurn(ch) \/ NextTurn(Awake("receiver"))
  BY <1>1, <1>2, <1>3, <1>4, NextTurnAll
<1>5. CASE ch' = [Awake("receiver") EXCEPT !.recvWakers = {"receiver"}] /\ UNCHANGED <<strand, got>>
  <2>1. Same(ch, ch')
    BY <1>3, <1>5, SameWaiting, SameTransitive DEF Same, Strands
  <2>2. MainOf(ch', R) = MainOf(ch, R)
    BY <2>1 DEF MainOf, Same
  <2>3. OnAll(ch', S, R, tasks)
    BY <2>1, <2>2 DEF AllNow, OnAll, Reading, AtTheEnd, Same
  <2>4. Delivers(ch', S, R, tasks, data, sent, got)
    BY <2>1, <2>2 DEF AllNow, Same, Delivers, OnItsWay
  <2> QED BY <1>1, <1>5, <2>3, <2>4 DEF AllNow
<1> QED BY <1>4, <1>5 DEF Next1


LEMMA NextReadAll ==
  ASSUME Sound, AllNow, NextRead
  PROVE  AllNow'
<1> DEFINE S == strand["sender"]
           R == strand["receiver"]
           r == R.read
           o == OldOf(S, R)
<1>1. /\ AllFacts /\ Streams /\ "receiver" \in Strands /\ R.pc = "reading"
      /\ UNCHANGED <<tasks, sent>>
  BY SoundAll, SoundStreams DEF Strands, NextRead
<1>2. /\ ch \in ChannelType /\ R \in StrandType /\ r \in ReaderType /\ r.pipe # NoPipe
      /\ ~ch.recvClosed /\ data \in DataType /\ ch.state \in {"SendPipe", "Draining"}
      /\ ch.buffered = 0 /\ ch.recv.is = "taken" /\ Streaming(R.script) /\ Reading(ch, R)
      /\ OnAll(ch, S, R, tasks) /\ R.script # <<>> /\ sent \in Nat /\ got \in Seq(Nat)
  <2>1. /\ ch \in ChannelType /\ R \in StrandType /\ data \in DataType /\ sent \in Nat
        /\ got \in Seq(Nat) /\ ReceiverOK(ch, R) /\ EndsOK(ch)
    BY <1>1 DEF AllFacts, Control
  <2>2. OnAll(ch, S, R, tasks) /\ Reading(ch, R) /\ Streaming(R.script) /\ R.script # <<>>
    BY <1>1 DEF AllNow, OnAll, Reading, AtTheEnd, Streaming
  <2>3. r \in ReaderType
    BY <2>1 DEF StrandType
  <2> QED BY <1>1, <2>1, <2>2, <2>3 DEF ReceiverOK, EndsOK
<1>3. MainOf(ch, R) = r /\ o = (IF S.pc = "draining" THEN S.read ELSE NoReader)
  BY <1>1 DEF MainOf, OldOf
<1>4. PICK v \in Nat : /\ OnItsWay(ch, S, tasks, v)
                       /\ Whole(got, Str(data, r), Str(data, o), v, sent)
  BY <1>3 DEF AllNow, Delivers
<1>5. CASE /\ Filled(r) # <<>> /\ got' = Append(got, Head(Filled(r))) /\ data' = Unread(r)
           /\ ch' = RestoreRecv(ch, Reader(r.pipe, Tail(Filled(r))))
           /\ Become("receiver", [Received EXCEPT !.read = NoReader])
  <2> DEFINE x == [Received EXCEPT !.read = NoReader]
             m == Reader(r.pipe, Tail(Filled(r)))
             y == Str(data, r)
  <2>1. ReadFacts(r)
    BY <1>2, <1>5, StrRead
  <2>2. r.pipe \in PipeIds /\ Tail(Filled(r)) \in Seq(Nat)
    BY <1>2, <2>1, ReaderParts DEF ReadFacts
  <2>3. m \in ReaderType /\ m.pipe = r.pipe
    BY <2>2 DEF Reader, ReaderType
  <2>4. Is(ch', ch.state, ch.buffered, ch.send, RecvEnd("present", m), ch.sendClosed, ch.recvClosed)
    BY <1>2, <1>5, <2>3, RestoreRecvIs
  <2>6. x.pc = "idle" /\ Streaming(x.script)
    BY <1>2, StreamsOn
  <2>7. /\ y # <<>> /\ data' \in DataType /\ Str(data', m) = Tail(y)
        /\ \A q \in 1..MaxPipes : q # r.pipe => data'[q] = data[q]
        /\ Head(Filled(r)) = Head(y) /\ y \in Seq(Nat)
    BY <1>1, <1>3, <1>5, <2>1 DEF ReadFacts, Streams
  <2>8. Become("receiver", x)
    BY <1>5
  <2>9. Str(data', o) = Str(data, o)
    <3>1. CASE S.pc # "draining"
      BY <1>2, <1>3, <2>7, <3>1, StrOfEmpty
    <3>2. CASE S.pc = "draining"
      <4>1. /\ DrainOK(MainOf(ch, R), o, IntoOf(S, R), WritersOf(ch, S))
            /\ o \in ReaderType
        BY <1>1 DEF Sound, Good, View, Core, Streams
      <4>2. o.pipe # NoPipe
        BY <1>1, <1>3, <3>2 DEF AllFacts, Control, SenderOK
      <4>3. o.pipe # r.pipe /\ o.pipe \in 1..MaxPipes
        <5>1. o.pipe \in PipeIds
          BY <4>1, ReaderParts
        <5>2. o.pipe \in 1..MaxPipes
          BY <4>2, <5>1, PipeIdsFact
        <5>3. r.pipe = IntoOf(S, R) /\ IntoOf(S, R) # o.pipe
          BY <1>2, <1>3, <4>1, <4>2 DEF DrainOK
        <5> QED BY <5>2, <5>3
      <4> QED BY <2>7, <4>3 DEF Str
    <3> QED BY <3>1, <3>2
  <2> HIDE DEF x, m, y
  <2>10. /\ MainOf(ch', x) = m /\ OldOf(S, x) = o /\ ch'.state = ch.state
         /\ ch'.buffered = ch.buffered /\ ~ch'.recvClosed /\ ch'.recv.is = "present"
    <3>1. RecvEnd("present", m).is = "present" /\ RecvEnd("present", m).reader = m
      BY DEF RecvEnd
    <3> QED BY <1>1, <1>2, <2>4, <2>6, <3>1 DEF MainOf, Is, OldOf
  <2>11. Reading(ch', x)
    BY <2>6, <2>10 DEF Reading
  <2>12. OnAll(ch', S, x, tasks')
    BY <1>1, <1>2, <1>3, <2>3, <2>10, <2>11 DEF OnAll
  <2>13. Whole(Append(got, Head(y)), Tail(y), Str(data, o), v, sent)
    BY <1>1, <1>2, <1>4, <2>7, WholeRead DEF Streams, y
  <2>14. OnItsWay(ch', S, tasks', v)
    BY <1>1, <1>4, <2>10 DEF OnItsWay
  <2>15. Delivers(ch', S, x, tasks', data', sent', got')
    BY <1>1, <1>5, <2>7, <2>9, <2>10, <2>13, <2>14 DEF Delivers
  <2> QED BY <2>8, <2>12, <2>15, ReceiverAll
<1>6. CASE AtEnd(r) /\ NextInValue(WakeAll([ch EXCEPT !.state = "Value"])) /\ UNCHANGED data
  <2> DEFINE c == WakeAll([ch EXCEPT !.state = "Value"])
  <2>1. S.pc \notin Sending
    <3> SUFFICES ASSUME S.pc \in Sending PROVE FALSE
      OBVIOUS
    <3>1. r.pipe = Held(S)
      BY <1>2, <1>3 DEF OnAll
    <3>2. HasWriter(r.pipe)
      BY <3>1 DEF Held, HasWriter, Strands
    <3> QED BY <1>6, <3>2 DEF AtEnd
  <2>2. Is([ch EXCEPT !.state = "Value"], "Value", ch.buffered, ch.send, ch.recv,
           ch.sendClosed, ch.recvClosed)
    BY <1>2, IsExcept DEF States
  <2>3. Is(c, "Value", ch.buffered, ch.send, ch.recv, ch.sendClosed, ch.recvClosed)
    BY <2>2, IsWake
  <2>4. NextInValue(c) /\ UNCHANGED <<tasks, data, sent>>
    BY <1>1, <1>6
  <2> HIDE DEF c
  <2>5. /\ c \in ChannelType /\ c.state = "Value" /\ c.recv.is # "present" /\ ~c.recvClosed
        /\ c.buffered = 0
    BY <1>2, <2>3 DEF Is
  <2>6. Str(data, r) = <<>>
    BY <1>2, <1>6, StrEnd DEF AtEnd
  <2>7. Whole(got, <<>>, <<>>, c.buffered, sent)
    <3>1. v = 0 /\ Str(data, o) = <<>>
      BY <1>1, <1>2, <1>3, <1>4, <2>1 DEF OnItsWay, AllFacts, Sending, Streams
    <3> QED BY <1>4, <2>5, <2>6, <3>1
  <2> QED BY <1>2, <2>1, <2>4, <2>5, <2>7, NextInValueAll
<1> QED BY <1>1, <1>5, <1>6 DEF NextRead

LEMMA ReceiverCloseAll ==
  ASSUME Sound, AllNow, CloseStage("receiver")
  PROVE  AllNow'
<1> DEFINE S == strand["sender"]
           R == strand["receiver"]
           x == At("receiver", "closed")
<1>1. AllFacts
  BY SoundAll
<1>2. /\ AtTheEnd(ch, R) /\ UNCHANGED <<tasks, data, sent, got>>
      /\ OnAll(ch, S, R, tasks) /\ Delivers(ch, S, R, tasks, data, sent, got)
      /\ ch' = CloseRecv(ch) /\ Become("receiver", x) /\ R.pc = "idle"
  BY DEF AllNow, OnAll, CloseStage, Reading, AtTheEnd, Streaming
<1>3. x.pc = "closed" /\ x.script = <<>>
  BY <1>2, AtTypes DEF AtFacts, Pcs, Strands, AtTheEnd
<1> HIDE DEF x
<1>4. Is([ch EXCEPT !.recvClosed = TRUE, !.recv = NoRecv],
         ch.state, ch.buffered, ch.send, NoRecv, ch.sendClosed, TRUE)
  BY <1>1, IsExcept DEF AllFacts
<1>5. Is(ch', ch.state, ch.buffered, ch.send, NoRecv, ch.sendClosed, TRUE)
  BY <1>2, <1>4, IsWake DEF CloseRecv
<1>6. NoRecv.is = "absent"
  BY DEF NoRecv, RecvEnd
<1>7. S.pc = "closed" /\ MainOf(ch, R) = NoReader
  BY <1>1, <1>2 DEF AllFacts, Control, SenderOK, AtTheEnd
<1>8. MainOf(ch', x) = MainOf(ch, R) /\ OldOf(S, x) = OldOf(S, R)
  BY <1>2, <1>3, <1>5, <1>6, <1>7 DEF MainOf, OldOf, Is
<1>9. AtTheEnd(ch', x)
  BY <1>2, <1>3, <1>5 DEF AtTheEnd, Is
<1>10. OnAll(ch', S, x, tasks')
  BY <1>2, <1>5, <1>8, <1>9 DEF OnAll, Is
<1>11. Delivers(ch', S, x, tasks', data', sent', got')
  BY <1>2, <1>5, <1>7, <1>8, DeliversSame DEF Is
<1> QED BY <1>2, <1>10, <1>11, ReceiverAll

\* It runs no program, and nobody writes for one.
LEMMA NoOthersAll ==
  ASSUME Sound, AllNow
  PROVE  /\ ~PutWrite /\ ~Negotiate("receiver") /\ ~Opened("receiver") /\ ~Drain("receiver")
         /\ ~RecvLaunch /\ ~RecvProgram /\ ~RecvExit /\ \A t \in tasks : ~TaskWrite(t)
<1> DEFINE S == strand["sender"]
           R == strand["receiver"]
<1>1. /\ tasks = {} /\ S.pc # "writing" /\ R.pc \in {"idle", "parked", "reading", "closed"}
      /\ R.script # <<>> => Op("receiver") \in Reads
  BY StreamsOn DEF AllNow, OnAll, Reading, AtTheEnd
<1>2. ~Negotiate("receiver")
  BY <1>1 DEF Negotiate, Starts, Reads
<1> QED BY <1>1, <1>2 DEF PutWrite, Opened, Drain, RecvLaunch, RecvProgram, RecvExit

-----------------------------------------------------------------------------
LEMMA StepAll ==
  ASSUME Sound, AllNow, Next
  PROVE  AllNow'
<1>1. CASE \E s \in Strands : Negotiate(s) \/ Opened(s) \/ Drain(s) \/ CloseStage(s)
  BY <1>1, NoOthersAll, SendNegotiateAll, SenderOpenedAll, SenderDrainAll, SenderCloseAll,
     ReceiverCloseAll DEF Strands
<1>2. CASE Put \/ PutWrite \/ Flush
  BY <1>2, NoOthersAll, PutAll, FlushAll
<1>3. CASE Next1 \/ NextRead
  BY <1>3, Next1All, NextReadAll
<1>4. CASE \E t \in tasks : TaskWrite(t)
  BY <1>4, NoOthersAll
<1>5. CASE Programs
  BY <1>5, NoOthersAll, SendLaunchAll, SendProgramAll, SendExitAll DEF Programs
<1> QED BY <1>1, <1>2, <1>3, <1>4, <1>5 DEF Next

\* The stages this part is about, and what it says of them.
ReadsAll == Streaming(plan[2])
Everything == Ended => got = [i \in 1..sent |-> i]

LEMMA InitAll ==
  ASSUME Init, ReadsAll
  PROVE  AllNow
<1> DEFINE S == strand["sender"]
           R == strand["receiver"]
<1>1. Idle.pc = "idle" /\ Idle.script = <<>>
  BY DEF Idle
<1>2. /\ S.pc = "idle" /\ R.pc = "idle" /\ Streaming(R.script) /\ tasks = {}
      /\ sent = 0 /\ got = <<>>
  BY <1>1 DEF Init, Strands, ReadsAll, Idle
<1>3. ch.state = "Value" /\ ~ch.recvClosed /\ ch.recv.is = "absent" /\ ch.buffered = 0
  BY DEF Init
<1>4. OnAll(ch, S, R, tasks)
  BY <1>2, <1>3 DEF OnAll, Reading, Sending
<1>5. MainOf(ch, R) = NoReader /\ OldOf(S, R) = NoReader
  BY <1>2, <1>3 DEF MainOf, OldOf
<1>6. Str(data, NoReader) = <<>>
  BY InitSound, SoundStreams DEF Inv, Streams
<1>7. Whole(<<>>, <<>>, <<>>, 0, 0)
  BY NoItems DEF Whole, Numbered
<1>8. Delivers(ch, S, R, tasks, data, sent, got)
  BY <1>2, <1>3, <1>5, <1>6, <1>7 DEF Delivers, OnItsWay
<1> QED BY <1>4, <1>8 DEF AllNow

LEMMA AllEnds ==
  ASSUME Sound, AllNow
  PROVE  NoPanic /\ Everything
<1> DEFINE S == strand["sender"]
           R == strand["receiver"]
<1>1. AllFacts /\ Streams /\ OnAll(ch, S, R, tasks)
  BY SoundAll, SoundStreams DEF AllNow
<1>2. NoPanic
  BY <1>1 DEF AllFacts, Control, ReceiverOK, OnAll, NoPanic, Strands
<1>3. ASSUME Ended PROVE got = [i \in 1..sent |-> i]
  <2>1. S.pc = "closed" /\ R.pc = "closed"
    BY <1>3 DEF Ended, Strands
  <2>2. AtTheEnd(ch, R)
    BY <1>1, <2>1 DEF OnAll, Reading
  <2>3. MainOf(ch, R) = NoReader /\ OldOf(S, R) = NoReader /\ ch.buffered = 0 /\ tasks = {}
    BY <1>1, <2>1, <2>2 DEF AllFacts, AtTheEnd
  <2>4. Whole(got, <<>>, <<>>, 0, sent)
    BY <1>1, <2>1, <2>3 DEF AllNow, Delivers, OnItsWay, Streams
  <2> QED BY <1>1, <2>4, WholeEnd DEF AllFacts
<1> QED BY <1>2, <1>3 DEF Everything

\* A downstream stage that takes any number of values and then reads to the end
\* receives every item, whatever is upstream: values and programs in any number
\* and order, with every change to a pipe and back in between.  When both stages have ended it has received
\* exactly what entered the channel, and neither stage has met an absent end or
\* an unreachable state on the way (pipe_channel.rs, negotiate_send with
\* take_buffered_bytes and drain_pipe, and PipeReceiver::next).
THEOREM AllIsEverything == Spec => [](ReadsAll => NoPanic /\ Everything)
<1> DEFINE J == Inv /\ (ReadsAll => AllNow)
<1>1. Init => J
  BY InitSound, InitAll
<1>2. J /\ [Next]_vars => J'
  <2> SUFFICES ASSUME J, [Next]_vars PROVE J'
    OBVIOUS
  <2>1. Inv' /\ Sound
    BY StepInv DEF Inv
  <2>2. CASE Next
    <3>1. ReadsAll' => ReadsAll
      BY <2>2 DEF Next, ReadsAll
    <3>2. ReadsAll => AllNow'
      BY <2>1, <2>2, StepAll
    <3> QED BY <2>1, <3>1, <3>2
  <2>3. CASE UNCHANGED vars
    <3>1. (ReadsAll' => ReadsAll) /\ (AllNow => AllNow')
      BY <2>3 DEF vars, ReadsAll, AllNow
    <3> QED BY <2>1, <3>1
  <2> QED BY <2>2, <2>3
<1>3. J => (ReadsAll => NoPanic /\ Everything)
  BY AllEnds DEF Inv
<1> QED BY <1>1, <1>2, <1>3, PTL DEF Spec

-----------------------------------------------------------------------------
(***************************************************************************)
(* A downstream stage that runs one program, with an upstream stage that   *)
(* puts a value between any two programs of its own.                       *)
(***************************************************************************)
Apart(q) == \A i \in 1..(Len(q) - 1) : q[i] # "put" => q[i + 1] = "put"

Programming == {"flushing", "cloning", "running"}

\* The sender holds nothing, and does not run a program next.
Cool(s) ==
  /\ s.pc \in {"idle", "parked", "failed", "closed"}
  /\ s.script # <<>> => Head(s.script) = "put"

\* What the sender does in each state of the channel, whose reader is on p.
SendSide(c, s, p) ==
  /\ s.pc \notin {"draining", "panicked"} /\ Apart(s.script)
  /\ s.pc \in Programming <=> c.state \in {"SendPipe", "Direct"}
  /\ s.pc \in Programming => Held(s) = p
  /\ s.pc \in Programming \cup {"opening", "negotiating"} => Head(s.script) # "put"
  /\ s.pc = "writing" => c.state = "RecvPipe" /\ s.write = p
  /\ c.state = "Draining" => Cool(s)

\* The program downstream has not started, takes over what is in an old pipe,
\* runs beside the values put, or runs beside a program upstream.
Waits(c, r, ts) ==
  /\ r.pc \in {"idle", "opening", "negotiating"} /\ ts = {}
  /\ c.state \in {"Value", "SendPipe", "Draining"}
  /\ c.state # "Value" => c.recv.is = "present" /\ c.recv.reader.buf = <<>>

Drains(c, s, r, ts, p) ==
  /\ r.pc = "draining" /\ ts = {} /\ c.state = "RecvPipe"
  /\ Cool(s) /\ r.write = p /\ c.send.is # "present"

Linked(c, s, ts, p) ==
  \/ c.sendClosed
  \/ c.send.is = "present" /\ c.send.pipe = p /\ s.pc # "writing" /\ ts = {}
  \/ c.send.is = "taken" /\ s.pc = "writing" /\ ts = {}
  \/ c.send.is = "taken" /\ s.pc # "writing" /\ ts # {}
  \/ c.send.is = "absent" /\ Cool(s) /\ ts = {}

Pipes(c, s, r, ts, p) ==
  /\ r.pc \in {"cloning", "running"} /\ c.state = "RecvPipe"
  /\ \A t \in ts : t.pipe = p
  /\ Linked(c, s, ts, p)

Joined(c, r, ts) == r.pc \in {"cloning", "running"} /\ ts = {} /\ c.state = "Direct"

Stage(c, s, r, ts, p) ==
  Waits(c, r, ts) \/ Drains(c, s, r, ts, p) \/ Pipes(c, s, r, ts, p) \/ Joined(c, r, ts)

OnRun(c, s, r, ts) ==
  /\ r.script = <<"run">> /\ ~c.recvClosed
  /\ SendSide(c, s, MainOf(c, r).pipe) /\ Stage(c, s, r, ts, MainOf(c, r).pipe)

\* The program downstream has read everything and exited.
Over(c, s, r, ts) ==
  /\ r.script = <<>> /\ r.pc \in {"idle", "closed"} /\ ts = {}
  /\ s.pc = "closed" \/ (c.state = "Draining" /\ Cool(s))

Piped ==
  /\ OnRun(ch, strand["sender"], strand["receiver"], tasks)
  /\ Delivers(ch, strand["sender"], strand["receiver"], tasks, data, sent, got)

Drained ==
  /\ Over(ch, strand["sender"], strand["receiver"], tasks)
  /\ got = [i \in 1..sent |-> i]

LEMMA SenderPiped ==
  ASSUME Sound, NEW x, Become("sender", x), OnRun(ch', x, strand["receiver"], tasks'),
         Delivers(ch', x, strand["receiver"], tasks', data', sent', got')
  PROVE  Piped'
<1>1. strand'["sender"] = x /\ strand'["receiver"] = strand["receiver"]
  BY DEF Become, Sound, Strands
<1> QED BY <1>1 DEF Piped

LEMMA ReceiverPiped ==
  ASSUME Sound, NEW x, Become("receiver", x), OnRun(ch', strand["sender"], x, tasks'),
         Delivers(ch', strand["sender"], x, tasks', data', sent', got')
  PROVE  Piped'
<1>1. strand'["receiver"] = x /\ strand'["sender"] = strand["sender"]
  BY DEF Become, Sound, Strands
<1> QED BY <1>1 DEF Piped

\* What the invariants say until the program has exited.
RunFacts ==
  LET S == strand["sender"]
      R == strand["receiver"]
  IN  /\ ch \in ChannelType /\ S \in StrandType /\ R \in StrandType /\ data \in DataType
      /\ sent \in Nat /\ got \in Seq(Nat) /\ tasks \subseteq TaskType
      /\ Control(ch, S, R, tasks)
      /\ R.script = <<"run">> /\ ~ch.recvClosed
      /\ S.pc # "closed" => ~ch.sendClosed
      /\ S.pc \notin {"draining", "panicked", "reading"}
      /\ R.pc \in {"idle", "opening", "negotiating", "draining", "cloning", "running"}
      /\ ch.state = "Value" => MainOf(ch, R) = NoReader
      /\ ch.state # "Value" => ch.buffered = 0
      /\ R.pc # "draining" => OldOf(S, R) = NoReader

LEMMA SoundRun ==
  ASSUME Sound, Piped
  PROVE  RunFacts
<1> DEFINE S == strand["sender"]
           R == strand["receiver"]
<1>1. /\ ch \in ChannelType /\ S \in StrandType /\ R \in StrandType /\ data \in DataType
      /\ sent \in Nat /\ got \in Seq(Nat) /\ tasks \subseteq TaskType /\ Control(ch, S, R, tasks)
  BY SoundTypes DEF Strands
<1>2. /\ R.script = <<"run">> /\ ~ch.recvClosed /\ S.pc \notin {"draining", "panicked"}
      /\ R.pc \in {"idle", "opening", "negotiating", "draining", "cloning", "running"}
  BY DEF Piped, OnRun, Stage, Waits, Drains, Pipes, Joined, SendSide
<1>3. SenderOK(ch, S, R, tasks) /\ ReceiverOK(ch, R) /\ EndsOK(ch)
  BY <1>1 DEF Control
<1>4. (S.pc # "closed" => ~ch.sendClosed) /\ S.pc # "reading"
  BY <1>3 DEF SenderOK
<1>5. ch.state = "Value" => MainOf(ch, R) = NoReader
  BY <1>3 DEF ReceiverOK, EndsOK, MainOf
<1>6. R.pc # "draining" => OldOf(S, R) = NoReader
  BY <1>2 DEF OldOf
<1> QED BY <1>1, <1>2, <1>3, <1>4, <1>5, <1>6 DEF RunFacts, EndsOK

\* The next operations of a sender whose programs are apart.
LEMMA ApartTail ==
  ASSUME NEW q \in Seq(SendOps \cup RecvOps), q # <<>>, Apart(q)
  PROVE  /\ Apart(Tail(q)) /\ Apart(<<>>)
         /\ Head(q) # "put" /\ Tail(q) # <<>> => Head(Tail(q)) = "put"
<1>1. /\ Tail(q) \in Seq(SendOps \cup RecvOps) /\ Len(q) \in Nat /\ Len(q) >= 1
      /\ Len(Tail(q)) = Len(q) - 1 /\ Head(q) = q[1]
      /\ \A i \in 1..(Len(q) - 1) : Tail(q)[i] = q[i + 1]
  OBVIOUS
<1>2. Apart(Tail(q))
  <2> SUFFICES ASSUME NEW i \in 1..(Len(Tail(q)) - 1), Tail(q)[i] # "put" PROVE Tail(q)[i + 1] = "put"
    BY DEF Apart
  <2>1. i \in 1..(Len(q) - 1) /\ i + 1 \in 1..(Len(q) - 1)
    BY <1>1
  <2>2. Tail(q)[i] = q[i + 1] /\ Tail(q)[i + 1] = q[(i + 1) + 1]
    BY <1>1, <2>1
  <2> QED BY <2>1, <2>2 DEF Apart
<1>3. ASSUME Head(q) # "put", Tail(q) # <<>> PROVE Head(Tail(q)) = "put"
  <2>1. Len(Tail(q)) # 0
    BY <1>1, <1>3, EmptySeq
  <2>2. 1 \in 1..(Len(q) - 1) /\ Head(Tail(q)) = Tail(q)[1]
    BY <1>1, <1>3, <2>1
  <2>3. q[1 + 1] = "put"
    BY <1>1, <1>3, <2>2 DEF Apart
  <2> QED BY <1>1, <2>2, <2>3
<1>4. Apart(<<>>)
  <2>1. Len(<<>>) = 0 /\ 1..(0 - 1) = {}
    OBVIOUS
  <2> QED BY <2>1 DEF Apart
<1> QED BY <1>2, <1>3, <1>4

\* A sender at rest.
LEMMA SendSideRests ==
  ASSUME NEW c, NEW s, NEW p, SendSide(c, s, p), NEW e, NEW x, NEW k, e.state = c.state,
         s.pc \notin Programming, x.pc \in {"idle", "parked", "failed", "closed"},
         Apart(x.script), c.state = "Draining" => Cool(x)
  PROVE  SendSide(e, x, k)
  BY DEF SendSide, Programming

\* The next operation after one that is done.
LEMMA DoneApart ==
  ASSUME Sound, Piped, strand["sender"].script # <<>>
  PROVE  /\ Apart(Done("sender").script) /\ Done("sender").script = Tail(strand["sender"].script)
         /\ Done("sender").pc = "idle"
         /\ Head(strand["sender"].script) # "put" => Cool(Done("sender"))
<1> DEFINE S == strand["sender"]
           x == Done("sender")
<1>1. S \in StrandType /\ Apart(S.script)
  BY SoundTypes DEF Strands, Piped, OnRun, SendSide
<1>2. S.script \in Seq(SendOps \cup RecvOps)
  BY <1>1 DEF StrandType
<1>3. x.script = Tail(S.script) /\ x.pc = "idle"
  BY <1>1 DEF Done, StrandType
<1> HIDE DEF x
<1>4. Apart(x.script) /\ (Head(S.script) # "put" => Cool(x))
  BY <1>1, <1>2, <1>3, ApartTail DEF Cool
<1> QED BY <1>3, <1>4 DEF x

LEMMA FailedCool == Cool(Failed("sender")) /\ Apart(Failed("sender").script)
<1>1. Failed("sender").script = <<>> /\ Failed("sender").pc = "failed"
  BY DEF Failed, Idle
<1>2. Len(<<>>) = 0 /\ 1..(0 - 1) = {}
  OBVIOUS
<1> QED BY <1>1, <1>2 DEF Cool, Apart

\* A strand that only changed its wakers.
LEMMA SameRun ==
  ASSUME NEW c, NEW s, NEW r, NEW ts, OnRun(c, s, r, ts), NEW e, Same(c, e)
  PROVE  OnRun(e, s, r, ts) /\ MainOf(e, r) = MainOf(c, r)
<1>1. MainOf(e, r) = MainOf(c, r)
  BY DEF MainOf, Same
<1>2. SendSide(e, s, MainOf(e, r).pipe)
  BY <1>1 DEF OnRun, SendSide, Same
<1>3. Stage(e, s, r, ts, MainOf(e, r).pipe)
  <2>1. Stage(c, s, r, ts, MainOf(e, r).pipe)
    BY <1>1 DEF OnRun
  <2> QED BY <2>1 DEF Stage, Waits, Drains, Pipes, Joined, Linked, Same
<1> QED BY <1>1, <1>2, <1>3 DEF OnRun, Same

-----------------------------------------------------------------------------
(***************************************************************************)
(* The steps of the sender.                                                *)
(***************************************************************************)
LEMMA PutTurnRun ==
  ASSUME Sound, Piped, NEW c, Same(ch, c), PutTurn(c), strand["sender"].pc \in {"idle", "parked"},
         strand["sender"].script # <<>>, UNCHANGED <<tasks, data, got>>
  PROVE  Piped'
<1> DEFINE S == strand["sender"]
           R == strand["receiver"]
           p == MainOf(ch, R).pipe
<1>1. RunFacts /\ Streams /\ "sender" \in Strands
  BY SoundRun, SoundStreams DEF Strands
<1>2. /\ OnRun(ch, S, R, tasks) /\ SendSide(ch, S, p) /\ Stage(ch, S, R, tasks, p)
      /\ Delivers(ch, S, R, tasks, data, sent, got)
  BY DEF Piped, OnRun
<1>3. /\ c \in ChannelType /\ ~c.recvClosed /\ ~c.sendClosed /\ S.pc \notin Programming
      /\ c.state \notin {"SendPipe", "Direct"} /\ c.state = ch.state /\ c.send = ch.send
      /\ c.recv = ch.recv /\ S.pc # "flushing" /\ S.pc # "draining" /\ S.pc # "writing"
  BY <1>1, <1>2 DEF RunFacts, SendSide, Same, Programming
<1>4. AtFacts("sender", "parked") /\ AtFacts("sender", "writing")
  BY <1>1, AtTypes DEF Pcs
<1>5. CASE /\ c.state = "Value" /\ c.buffered = 0 /\ sent' = sent + 1
           /\ ch' = WakeReceivers([c EXCEPT !.buffered = sent + 1])
           /\ Become("sender", Done("sender"))
  <2> DEFINE x == Done("sender")
  <2>1. x.pc = "idle" /\ Apart(x.script)
    BY DoneApart
  <2>2. sent + 1 \in Nat
    BY <1>1 DEF RunFacts
  <2>3. Is([c EXCEPT !.buffered = sent + 1], c.state, sent + 1, c.send, c.recv, c.sendClosed,
           c.recvClosed)
    BY <1>3, <2>2, IsExcept
  <2>4. Is(ch', c.state, sent + 1, c.send, c.recv, c.sendClosed, c.recvClosed)
    BY <1>5, <2>3, IsWake
  <2>5. /\ ch'.state = "Value" /\ ch.state = "Value" /\ ch'.recv = ch.recv /\ ~ch'.recvClosed
        /\ ch'.buffered = sent + 1 /\ ch.buffered = 0
    BY <1>3, <1>5, <2>4 DEF Is, Same
  <2> HIDE DEF x
  <2>6. Waits(ch, R, tasks) /\ R.pc # "draining"
    BY <1>2, <2>5 DEF Stage, Waits, Drains, Pipes, Joined
  <2>7. MainOf(ch', R) = NoReader /\ MainOf(ch, R) = NoReader /\ OldOf(x, R) = NoReader
        /\ OldOf(S, R) = NoReader
    BY <1>1, <2>1, <2>5, <2>6 DEF MainOf, RunFacts, OldOf, Waits
  <2>8. OnRun(ch', x, R, tasks')
    <3>1. SendSide(ch', x, MainOf(ch', R).pipe)
      BY <1>2, <1>3, <2>1, <2>5, SendSideRests
    <3>2. Waits(ch', R, tasks')
      BY <2>5, <2>6 DEF Waits
    <3> QED BY <1>1, <2>5, <3>1, <3>2 DEF OnRun, Stage, RunFacts
  <2>9. Whole(got, <<>>, <<>>, 0, sent)
    BY <1>1, <1>2, <1>3, <2>5, <2>6, <2>7 DEF Delivers, OnItsWay, Streams, Waits
  <2>10. Whole(got, <<>>, <<>>, sent + 1, sent + 1)
    BY <1>1, <2>9, WholeSlot DEF RunFacts
  <2>11. OnItsWay(ch', x, tasks', sent + 1)
    BY <2>1, <2>5, <2>6 DEF OnItsWay, Waits
  <2>12. Delivers(ch', x, R, tasks', data', sent', got')
    BY <1>1, <1>5, <2>2, <2>7, <2>10, <2>11 DEF Delivers, Streams
  <2> QED BY <1>5, <2>8, <2>12, SenderPiped DEF x
<1>6. CASE /\ ch' = [c EXCEPT !.sendWakers = {"sender"}] /\ UNCHANGED sent
           /\ Become("sender", At("sender", "parked"))
           /\ c.state = "Draining" \/ (c.state = "Value" /\ c.buffered # 0)
  <2> DEFINE x == At("sender", "parked")
  <2>1. x.pc = "parked" /\ x.script = S.script
    BY <1>4 DEF AtFacts
  <2>2. Same(ch, ch')
    BY <1>3, <1>6, SameWaiting, SameTransitive DEF Strands
  <2> HIDE DEF x
  <2>3. MainOf(ch', R) = MainOf(ch, R) /\ OldOf(x, R) = OldOf(S, R)
    BY <1>3, <2>1, <2>2 DEF MainOf, OldOf, Same
  <2>4. SendSide(ch', x, MainOf(ch', R).pipe)
    <3>1. Apart(x.script) /\ (ch.state = "Draining" => Cool(x))
      BY <1>2, <2>1 DEF SendSide, Cool
    <3> QED BY <1>2, <1>3, <2>1, <2>2, <3>1, SendSideRests DEF Same
  <2>5. Waits(ch', R, tasks')
    BY <1>2, <1>3, <1>6, <2>2 DEF Stage, Waits, Drains, Pipes, Joined, Same
  <2>6. OnRun(ch', x, R, tasks')
    BY <1>1, <2>2, <2>4, <2>5 DEF OnRun, Stage, RunFacts, Same
  <2>7. Delivers(ch', x, R, tasks', data', sent', got')
    BY <1>2, <1>3, <1>6, <2>1, <2>2, <2>3, DeliversSame DEF Same
  <2> QED BY <1>6, <2>6, <2>7, SenderPiped DEF x
<1>7. CASE /\ c.state = "RecvPipe" /\ c.send.is = "present" /\ ch' = [c EXCEPT !.send = TakenSend]
           /\ Become("sender", [At("sender", "writing") EXCEPT !.write = c.send.pipe])
           /\ UNCHANGED sent
  <2> DEFINE x == [At("sender", "writing") EXCEPT !.write = c.send.pipe]
  <2>1. x.pc = "writing" /\ x.script = S.script /\ x.write = c.send.pipe
    BY <1>4 DEF AtFacts, StrandType
  <2>2. Is(ch', c.state, c.buffered, TakenSend, c.recv, c.sendClosed, c.recvClosed)
    BY <1>3, <1>7, IsExcept, EndTypes
  <2>3. TakenSend.is = "taken"
    BY DEF TakenSend, SendEnd
  <2>4. /\ ch'.state = "RecvPipe" /\ ch'.send.is = "taken" /\ ch'.recv = ch.recv /\ ~ch'.recvClosed
        /\ ch'.buffered = ch.buffered
    BY <1>3, <1>7, <2>2, <2>3 DEF Is, Same
  <2> HIDE DEF x
  <2>5. MainOf(ch', R) = MainOf(ch, R) /\ OldOf(x, R) = OldOf(S, R)
    BY <1>3, <2>1, <2>4 DEF MainOf, OldOf
  <2>6. Pipes(ch, S, R, tasks, p) /\ tasks = {} /\ ch.send.pipe = p
    <3>1. Pipes(ch, S, R, tasks, p)
      BY <1>2, <1>3, <1>7 DEF Stage, Waits, Drains, Joined
    <3> QED BY <1>1, <1>3, <1>7, <3>1 DEF Pipes, Linked, RunFacts, Same
  <2>7. SendSide(ch', x, p)
    BY <1>2, <1>3, <2>1, <2>4, <2>6 DEF SendSide, Programming
  <2>8. Pipes(ch', x, R, tasks', p)
    BY <2>1, <2>4, <2>6 DEF Pipes, Linked
  <2>9. OnRun(ch', x, R, tasks')
    BY <1>1, <2>4, <2>5, <2>7, <2>8 DEF OnRun, Stage, RunFacts
  <2>10. Delivers(ch', x, R, tasks, data, sent, got)
    <3>1. x.pc # "flushing" /\ S.pc # "flushing" /\ ch'.buffered = ch.buffered
      BY <1>3, <2>1, <2>4
    <3> QED BY <1>2, <2>5, <3>1, DeliversSame
  <2>11. Delivers(ch', x, R, tasks', data', sent', got')
    BY <1>7, <2>10
  <2> QED BY <1>7, <2>9, <2>11, SenderPiped DEF x
<1>8. CASE /\ c.state = "RecvPipe" /\ c.send.is # "present" /\ ch' = c
           /\ Become("sender", Failed("sender")) /\ UNCHANGED sent
  <2> DEFINE x == Failed("sender")
  <2>1. Cool(x) /\ Apart(x.script) /\ x.pc = "failed"
    BY <1>1, FailedCool, IdleTypes
  <2> HIDE DEF x
  <2>2. MainOf(ch', R) = MainOf(ch, R) /\ OldOf(x, R) = OldOf(S, R)
    BY <1>3, <1>8, <2>1 DEF MainOf, OldOf
  <2>3. SendSide(ch', x, p)
    BY <1>2, <1>3, <1>8, <2>1, SendSideRests
  <2>4. Stage(ch', x, R, tasks', p)
    <3>1. CASE Drains(ch, S, R, tasks, p)
      BY <1>3, <1>8, <2>1, <3>1 DEF Stage, Drains
    <3>2. CASE Pipes(ch, S, R, tasks, p)
      <4>1. Linked(ch', x, tasks', p)
        BY <1>1, <1>3, <1>8, <2>1, <3>2 DEF Pipes, Linked, RunFacts
      <4> QED BY <1>3, <1>8, <3>2, <4>1 DEF Pipes, Stage
    <3> QED BY <1>2, <1>3, <1>8, <3>1, <3>2 DEF Stage, Waits, Joined
  <2>5. OnRun(ch', x, R, tasks')
    BY <1>1, <1>3, <1>8, <2>2, <2>3, <2>4 DEF OnRun, RunFacts
  <2>6. Delivers(ch', x, R, tasks', data', sent', got')
    BY <1>2, <1>3, <1>8, <2>1, <2>2, DeliversSame DEF Same
  <2> QED BY <1>8, <2>5, <2>6, SenderPiped DEF x
<1> QED BY <1>3, <1>5, <1>6, <1>7, <1>8 DEF PutTurn

LEMMA PutRun ==
  ASSUME Sound, Piped, Put
  PROVE  Piped'
<1> DEFINE S == strand["sender"]
           R == strand["receiver"]
<1>1. S.pc \in {"idle", "parked"} /\ UNCHANGED <<tasks, data, got>>
  BY DEF Put, Starts, Resumes
<1>2. S.script # <<>> /\ ch \in ChannelType
  BY SoundTypes DEF Put, Starts, Resumes, StrandOK, Resting, Strands
<1>3. Same(ch, ch) /\ Same(ch, Awake("sender"))
  BY <1>2, AwakeGood DEF Same, Strands
<1>4. CASE PutTurn(ch) \/ PutTurn(Awake("sender"))
  BY <1>1, <1>2, <1>3, <1>4, PutTurnRun
<1>5. CASE ch' = [Awake("sender") EXCEPT !.sendWakers = {"sender"}] /\ UNCHANGED <<strand, sent>>
  <2>1. Same(ch, ch')
    BY <1>3, <1>5, SameWaiting, SameTransitive DEF Same, Strands
  <2>2. OnRun(ch', S, R, tasks) /\ MainOf(ch', R) = MainOf(ch, R)
    BY <2>1, SameRun DEF Piped
  <2>3. Delivers(ch', S, R, tasks, data, sent, got)
    BY <1>1, <2>1, <2>2, DeliversSame DEF Piped, Same
  <2> QED BY <1>1, <1>5, <2>2, <2>3 DEF Piped
<1> QED BY <1>4, <1>5 DEF Put

\* The pipe the program downstream reads, or will read.
LEMMA PipedHasReader ==
  ASSUME Sound, Piped, ch.state # "Value"
  PROVE  LET m == MainOf(ch, strand["receiver"])
         IN  HasReader(m.pipe) /\ m.pipe \in 1..MaxPipes /\ m \in ReaderType
<1> DEFINE R == strand["receiver"]
           m == MainOf(ch, R)
<1>1. RunFacts /\ Streams
  BY SoundRun, SoundStreams
<1>2. m \in ReaderType /\ m.pipe \in PipeIds
  BY <1>1, ReaderParts DEF Streams
<1>3. ReceiverOK(ch, R) /\ EndsOK(ch) /\ R \in StrandType /\ ch \in ChannelType
  BY <1>1 DEF RunFacts, Control
<1>4. m.pipe # NoPipe /\ HasReader(m.pipe)
  <2>1. CASE R.pc = "running"
    <3>1. m = Reader(R.prog, <<>>) /\ R.prog # NoPipe
      BY <1>3, <2>1 DEF MainOf, ReceiverOK
    <3>2. m.pipe = R.prog
      BY <3>1 DEF Reader
    <3> QED BY <3>1, <3>2 DEF HasReader
  <2>2. CASE R.pc = "cloning"
    <3>1. m = Reader(R.read.pipe, <<>>) /\ R.read.pipe # NoPipe
      BY <1>3, <2>2 DEF MainOf, ReceiverOK
    <3>2. m.pipe = R.read.pipe
      BY <3>1 DEF Reader
    <3> QED BY <3>1, <3>2 DEF HasReader, Strands
  <2>3. CASE R.pc \in {"idle", "opening", "negotiating", "draining"}
    <3>1. ch.recv.is = "present"
      BY <1>3, <2>3 DEF Piped, OnRun, Stage, Waits, Drains, Pipes, Joined, ReceiverOK
    <3>2. m = ch.recv.reader
      BY <2>3, <3>1 DEF MainOf
    <3> QED BY <1>3, <3>1, <3>2 DEF EndsOK, HasReader
  <2> QED BY <1>1, <2>1, <2>2, <2>3 DEF RunFacts
<1> QED BY <1>2, <1>4, PipeIdsFact

LEMMA PutWriteRun ==
  ASSUME Sound, Piped, PutWrite
  PROVE  Piped'
<1> DEFINE S == strand["sender"]
           R == strand["receiver"]
           q == S.write
           m == MainOf(ch, R)
           x == Done("sender")
<1>1. RunFacts /\ Streams /\ S.pc = "writing"
  BY SoundRun, SoundStreams DEF PutWrite
<1>2. /\ OnRun(ch, S, R, tasks) /\ SendSide(ch, S, m.pipe) /\ Stage(ch, S, R, tasks, m.pipe)
      /\ Delivers(ch, S, R, tasks, data, sent, got)
  BY DEF Piped, OnRun
<1>3. ch.state = "RecvPipe" /\ q = m.pipe /\ ~ch.sendClosed /\ S.script # <<>>
  BY <1>1, <1>2 DEF SendSide, RunFacts, Control, StrandOK, Resting
<1>4. HasReader(q) /\ q \in 1..MaxPipes /\ q \in PipeIds
  BY <1>3, PipedHasReader, PipeIdsFact
<1>5. /\ ch' = RestoreSend(ch, q) /\ Write(q, sent + 1) /\ sent' = sent + 1
      /\ Become("sender", x) /\ UNCHANGED <<tasks, pipes, got>>
  BY <1>4 DEF PutWrite
<1>6. Pipes(ch, S, R, tasks, m.pipe) /\ tasks = {} /\ R.pc # "draining"
  <2>1. Pipes(ch, S, R, tasks, m.pipe)
    BY <1>1, <1>2, <1>3 DEF Stage, Waits, Drains, Joined, Cool
  <2> QED BY <1>1, <1>3, <2>1 DEF Pipes, Linked, Cool
<1>7. Is(ch', ch.state, ch.buffered, SendEnd("present", q), ch.recv, ch.sendClosed, ch.recvClosed)
  <2>1. RestoresSend(ch, ch', q)
    BY <1>1, <1>4, <1>5, RestoreSendIs DEF RunFacts
  <2> QED BY <1>3, <2>1 DEF RestoresSend
<1>8. /\ ch'.state = "RecvPipe" /\ ch'.send.is = "present" /\ ch'.send.pipe = q /\ ch'.recv = ch.recv
      /\ ~ch'.recvClosed /\ ch'.buffered = 0
  BY <1>1, <1>3, <1>7 DEF Is, SendEnd, RunFacts
<1>9. x.pc = "idle" /\ Apart(x.script)
  BY <1>3, DoneApart
<1> HIDE DEF x
<1>10. MainOf(ch', R) = m /\ OldOf(x, R) = NoReader /\ OldOf(S, R) = NoReader
  BY <1>1, <1>6, <1>8, <1>9 DEF MainOf, OldOf, RunFacts
<1>11. OnRun(ch', x, R, tasks')
  <2>1. SendSide(ch', x, m.pipe)
    BY <1>2, <1>3, <1>1, <1>8, <1>9, SendSideRests DEF Programming
  <2>2. Pipes(ch', x, R, tasks', m.pipe)
    BY <1>3, <1>5, <1>6, <1>8, <1>9 DEF Pipes, Linked
  <2> QED BY <1>1, <1>8, <1>10, <2>1, <2>2 DEF OnRun, Stage, RunFacts
<1>12. Whole(got, Str(data, m), <<>>, 0, sent)
  BY <1>1, <1>2, <1>3, <1>6, <1>10 DEF Delivers, OnItsWay, Streams, RunFacts
<1>13. Whole(got, Append(Str(data, m), sent + 1), <<>>, 0, sent + 1)
  BY <1>1, <1>12, WholeWrite DEF RunFacts, Streams
<1>14. Str(data', m) = Append(Str(data, m), sent + 1) /\ Str(data', NoReader) = <<>>
  <2>1. sent + 1 \in Nat /\ data \in DataType
    BY <1>1 DEF RunFacts
  <2>2. WriteFacts(data, data', q, sent + 1)
    BY <1>4, <1>5, <2>1, StrWrite DEF Write
  <2> QED BY <1>1, <1>3, <2>2, StrOfEmpty DEF WriteFacts, Streams
<1>15. OnItsWay(ch', x, tasks', 0)
  BY <1>5, <1>6, <1>8, <1>9 DEF OnItsWay
<1>16. Delivers(ch', x, R, tasks', data', sent', got')
  BY <1>5, <1>10, <1>13, <1>14, <1>15 DEF Delivers
<1> QED BY <1>5, <1>11, <1>16, SenderPiped

\* The write end is duplicated for a program, put back first.
LEMMA SendDuplicated ==
  ASSUME Sound, NEW c \in ChannelType, NEW q \in PipeIds, c.state \in {"SendPipe", "Direct"},
         ~c.sendClosed, Duplicate("sender", RestoreSend(c, q))
  PROVE  \E x : /\ Become("sender", x) /\ x.pc = "cloning" /\ x.write = q
                /\ x.script = strand["sender"].script
                /\ Is(ch', c.state, c.buffered, TakenSend, c.recv, c.sendClosed, c.recvClosed)
<1> DEFINE e == RestoreSend(c, q)
           x == Duplicating("sender", q, NoReader)
<1>1. Is(e, c.state, c.buffered, SendEnd("present", q), c.recv, c.sendClosed, c.recvClosed)
  BY RestoreSendIs DEF RestoresSend
<1> HIDE DEF e
<1>2. e \in ChannelType /\ e.send.is = "present" /\ e.send.pipe = q
  BY <1>1 DEF Is, SendEnd
<1>3. ch' = [e EXCEPT !.send = TakenSend] /\ Become("sender", x)
  BY <1>2 DEF Duplicate, e
<1>4. Is(ch', e.state, e.buffered, TakenSend, e.recv, e.sendClosed, e.recvClosed)
  BY <1>2, <1>3, IsExcept, EndTypes
<1>5. Is(ch', c.state, c.buffered, TakenSend, c.recv, c.sendClosed, c.recvClosed)
  BY <1>1, <1>4 DEF Is
<1>6. AtFacts("sender", "cloning")
  BY AtTypes DEF Pcs, Strands
<1>7. x.pc = "cloning" /\ x.write = q /\ x.script = strand["sender"].script
  BY <1>6 DEF AtFacts, Duplicating, StrandType
<1> HIDE DEF x
<1> QED BY <1>3, <1>5, <1>7

\* The sender goes on with its program.
LEMMA ProgrammingRun ==
  ASSUME NEW c, NEW s, NEW r, NEW ts, OnRun(c, s, r, ts), s.pc \in Programming,
         NEW e, e.state = c.state, e.recv = c.recv, ~e.recvClosed,
         NEW x, x.pc \in Programming, Held(x) = Held(s), x.script = s.script
  PROVE  OnRun(e, x, r, ts) /\ MainOf(e, r) = MainOf(c, r) /\ ts = {} /\ r.pc # "draining"
<1>1. MainOf(e, r) = MainOf(c, r)
  BY DEF MainOf
<1>2. SendSide(e, x, MainOf(e, r).pipe)
  BY <1>1 DEF OnRun, SendSide, Programming, Cool
<1>3. c.state \in {"SendPipe", "Direct"} /\ Stage(c, s, r, ts, MainOf(c, r).pipe)
  BY DEF OnRun, SendSide
<1>4. (Waits(c, r, ts) \/ Joined(c, r, ts)) /\ ts = {} /\ r.pc # "draining"
  BY <1>3 DEF Stage, Waits, Joined, Pipes, Drains
<1>5. Stage(e, x, r, ts, MainOf(e, r).pipe)
  BY <1>4 DEF Stage, Waits, Joined
<1> QED BY <1>1, <1>2, <1>4, <1>5 DEF OnRun

\* What holds while the sender works for a program.
LEMMA WhileProgramming ==
  ASSUME Sound, Piped, strand["sender"].pc \in Programming
  PROVE  LET S == strand["sender"]
             R == strand["receiver"]
             m == MainOf(ch, R)
         IN  /\ HasReader(Held(S)) /\ Held(S) = m.pipe /\ m.pipe \in 1..MaxPipes /\ m \in ReaderType
             /\ Held(S) \in PipeIds
             /\ ch.state \in {"SendPipe", "Direct"} /\ ch.buffered = 0 /\ ch.sendClosed = FALSE
             /\ tasks = {} /\ R.pc # "draining" /\ OldOf(S, R) = NoReader
             /\ Is(ch, ch.state, 0, ch.send, ch.recv, FALSE, ch.recvClosed)
<1> DEFINE S == strand["sender"]
           R == strand["receiver"]
           m == MainOf(ch, R)
<1>1. RunFacts /\ OnRun(ch, S, R, tasks)
  BY SoundRun DEF Piped
<1>2. ch.state \in {"SendPipe", "Direct"} /\ Held(S) = m.pipe
  BY <1>1 DEF OnRun, SendSide
<1>3. HasReader(m.pipe) /\ m.pipe \in 1..MaxPipes /\ m \in ReaderType
  BY <1>2, PipedHasReader
<1>4. ~ch.recvClosed /\ S.pc # "closed" /\ ch \in ChannelType /\ ~ch.sendClosed
      /\ ch.sendClosed \in BOOLEAN /\ ch.buffered = 0
  BY <1>1, <1>2 DEF RunFacts, ChannelType, Programming
<1>5. tasks = {} /\ R.pc # "draining"
  BY <1>1, <1>4, ProgrammingRun
<1>6. OldOf(S, R) = NoReader
  BY <1>1, <1>5 DEF RunFacts
<1>7. Is(ch, ch.state, 0, ch.send, ch.recv, FALSE, ch.recvClosed)
  BY <1>4, IsExcept
<1> QED BY <1>2, <1>3, <1>4, <1>5, <1>6, <1>7, PipeIdsFact

LEMMA FlushRun ==
  ASSUME Sound, Piped, Flush
  PROVE  Piped'
<1> DEFINE S == strand["sender"]
           R == strand["receiver"]
           p == S.write
           m == MainOf(ch, R)
<1>1. /\ RunFacts /\ Streams /\ S.pc = "flushing" /\ S.pc \in Programming
      /\ OnRun(ch, S, R, tasks) /\ Held(S) = p
  BY SoundRun, SoundStreams DEF Flush, Programming, Piped, Held
<1>2. /\ HasReader(p) /\ p = m.pipe /\ p \in 1..MaxPipes /\ p \in PipeIds /\ m \in ReaderType
      /\ ch.state \in {"SendPipe", "Direct"} /\ tasks = {} /\ R.pc # "draining"
      /\ OldOf(S, R) = NoReader /\ Is(ch, ch.state, 0, ch.send, ch.recv, FALSE, ch.recvClosed)
  BY <1>1, WhileProgramming
<1>3. /\ Write(p, S.stale) /\ Duplicate("sender", RestoreSend(ch, p))
      /\ UNCHANGED <<tasks, sent, got>>
  BY <1>2 DEF Flush
<1>4. PICK v \in Nat : OnItsWay(ch, S, tasks, v) /\ Whole(got, Str(data, m), Str(data, OldOf(S, R)), v, sent)
  BY DEF Piped, Delivers
<1>5. v = S.stale /\ v # 0
  BY <1>1, <1>2, <1>4 DEF OnItsWay
<1>6. PICK x : /\ Become("sender", x) /\ x.pc = "cloning" /\ x.write = p /\ x.script = S.script
               /\ Is(ch', ch.state, ch.buffered, TakenSend, ch.recv, ch.sendClosed, ch.recvClosed)
  <2>1. p \in PipeIds /\ ch.state \in {"SendPipe", "Direct"} /\ ~ch.sendClosed /\ ch \in ChannelType
    BY <1>1, <1>2 DEF Is, RunFacts
  <2> HIDE DEF p
  <2> QED BY <1>3, <2>1, SendDuplicated
<1>7. /\ ch'.state = ch.state /\ ch'.recv = ch.recv /\ ~ch'.recvClosed /\ ch'.buffered = 0
      /\ x.pc \in Programming /\ Held(x) = Held(S)
  BY <1>1, <1>2, <1>6 DEF Is, RunFacts, Programming, Held
<1>8. OnRun(ch', x, R, tasks') /\ MainOf(ch', R) = m
  BY <1>1, <1>3, <1>6, <1>7, ProgrammingRun
<1>9. OldOf(x, R) = NoReader
  BY <1>2, <1>6 DEF OldOf
<1>10. Str(data', m) = Append(Str(data, m), v) /\ Str(data', NoReader) = <<>>
  <2>1. WriteFacts(data, data', p, v)
    BY <1>1, <1>2, <1>3, <1>5, StrWrite DEF Write, RunFacts
  <2> QED BY <1>1, <1>2, <2>1, StrOfEmpty DEF WriteFacts, Streams
<1>11. Whole(got, Append(Str(data, m), v), <<>>, 0, sent)
  <2>1. Whole(got, Str(data, m), <<>>, v, sent)
    BY <1>1, <1>2, <1>4 DEF Streams
  <2> QED BY <1>1, <1>5, <2>1, WholeFlush DEF RunFacts, Streams
<1>12. OnItsWay(ch', x, tasks', 0)
  BY <1>2, <1>3, <1>6, <1>7 DEF OnItsWay
<1>13. Delivers(ch', x, R, tasks', data', sent', got')
  BY <1>3, <1>8, <1>9, <1>10, <1>11, <1>12 DEF Delivers
<1> QED BY <1>6, <1>8, <1>13, SenderPiped

LEMMA SendLaunchRun ==
  ASSUME Sound, Piped, SendLaunch
  PROVE  Piped'
<1> DEFINE S == strand["sender"]
           R == strand["receiver"]
           p == S.write
           x == [At("sender", "running") EXCEPT !.write = NoPipe, !.prog = p, !.left = Emits]
<1>1. /\ RunFacts /\ S.pc = "cloning" /\ S.pc \in Programming /\ UNCHANGED <<tasks, data, sent, got>>
      /\ OnRun(ch, S, R, tasks) /\ Held(S) = p
  BY SoundRun DEF SendLaunch, Programming, Piped, Held
<1>2. p \in PipeIds /\ ch \in ChannelType /\ ch.buffered = 0
  BY <1>1, WhileProgramming DEF RunFacts
<1>3. x.pc = "running" /\ x.prog = p /\ x.script = S.script
  BY <1>1 DEF At, StrandType, RunFacts
<1>4. PICK snd : Is(RestoreSend(ch, p), ch.state, ch.buffered, snd, ch.recv,
                    ch.sendClosed, ch.recvClosed)
  BY <1>2, RestoreSendIs DEF RestoresSend
<1> HIDE DEF x
<1>5. /\ ch'.state = ch.state /\ ch'.recv = ch.recv /\ ~ch'.recvClosed /\ ch'.buffered = ch.buffered
      /\ x.pc \in Programming /\ Held(x) = Held(S)
  BY <1>1, <1>3, <1>4 DEF SendLaunch, Is, RunFacts, Programming, Held
<1>6. OnRun(ch', x, R, tasks') /\ MainOf(ch', R) = MainOf(ch, R)
  BY <1>1, <1>3, <1>5, ProgrammingRun
<1>7. OldOf(x, R) = OldOf(S, R)
  BY <1>1, <1>3 DEF OldOf
<1>8. Delivers(ch', x, R, tasks', data', sent', got')
  BY <1>1, <1>3, <1>5, <1>6, <1>7, DeliversSame DEF Piped
<1> QED BY <1>6, <1>8, SenderPiped DEF SendLaunch, x

LEMMA SendProgramRun ==
  ASSUME Sound, Piped, SendProgram
  PROVE  Piped'
<1> DEFINE S == strand["sender"]
           R == strand["receiver"]
           p == S.prog
           m == MainOf(ch, R)
           x == [S EXCEPT !.left = @ - 1]
<1>1. /\ RunFacts /\ Streams /\ S.pc = "running" /\ S.pc \in Programming /\ UNCHANGED <<ch, tasks, got>>
      /\ OnRun(ch, S, R, tasks) /\ Held(S) = p
  BY SoundRun, SoundStreams DEF SendProgram, Programming, Piped, Held
<1>2. /\ p = m.pipe /\ p \in 1..MaxPipes /\ m \in ReaderType /\ tasks = {} /\ R.pc # "draining"
      /\ OldOf(S, R) = NoReader /\ ch.buffered = 0
  BY <1>1, WhileProgramming
<1>3. x.pc = "running" /\ x.prog = p /\ x.script = S.script
  BY <1>1 DEF StrandType, RunFacts
<1>4. Whole(got, Str(data, m), <<>>, 0, sent)
  BY <1>1, <1>2 DEF Piped, Delivers, OnItsWay, Streams
<1> HIDE DEF x
<1>5. x.pc \in Programming /\ Held(x) = Held(S) /\ OldOf(x, R) = NoReader
  BY <1>1, <1>2, <1>3 DEF Programming, Held, OldOf
<1>6. OnRun(ch', x, R, tasks')
  BY <1>1, <1>3, <1>5, ProgrammingRun DEF RunFacts
<1>7. Write(p, sent + 1) /\ sent' = sent + 1 /\ Become("sender", x)
  BY DEF SendProgram, x
<1>8. Str(data', m) = Append(Str(data, m), sent + 1) /\ Str(data', NoReader) = <<>>
  <2>1. sent + 1 \in Nat /\ data \in DataType
    BY <1>1 DEF RunFacts
  <2>2. WriteFacts(data, data', p, sent + 1)
    BY <1>2, <1>7, <2>1, StrWrite DEF Write
  <2> QED BY <1>2, <2>2, StrOfEmpty DEF WriteFacts
<1>9. Whole(got, Append(Str(data, m), sent + 1), <<>>, 0, sent + 1)
  BY <1>1, <1>4, WholeWrite DEF RunFacts, Streams
<1>10. OnItsWay(ch', x, tasks', 0)
  BY <1>1, <1>2, <1>3 DEF OnItsWay
<1>11. Delivers(ch', x, R, tasks', data', sent', got')
  BY <1>1, <1>5, <1>7, <1>8, <1>9, <1>10 DEF Delivers
<1> QED BY <1>6, <1>7, <1>11, SenderPiped

LEMMA SendExitRun ==
  ASSUME Sound, Piped, SendExit
  PROVE  Piped'
<1> DEFINE S == strand["sender"]
           R == strand["receiver"]
           p == MainOf(ch, R).pipe
           y == Done("sender")
           x == [Done("sender") EXCEPT !.left = 0]
           st == IF ch.state = "SendPipe" THEN "Draining" ELSE "RecvPipe"
           e == [ch EXCEPT !.state = st, !.send = NoSend]
<1>1. /\ RunFacts /\ S.pc = "running" /\ S.pc \in Programming /\ UNCHANGED <<tasks, data, sent, got>>
      /\ OnRun(ch, S, R, tasks) /\ SendSide(ch, S, p) /\ Stage(ch, S, R, tasks, p)
  BY SoundRun DEF SendExit, Programming, Piped, OnRun
<1>2. /\ ch.state \in {"SendPipe", "Direct"} /\ tasks = {} /\ ch \in ChannelType
      /\ S.script # <<>> /\ Head(S.script) # "put"
  BY <1>1, WhileProgramming DEF RunFacts, SendSide, Control, StrandOK, Resting
<1>3. Apart(y.script) /\ Cool(y) /\ y.pc = "idle"
  BY <1>2, DoneApart
<1>4. x.pc = "idle" /\ x.script = y.script
  <2>1. y \in StrandType
    BY <1>2, DoneTypes DEF DoneFacts, Strands
  <2> HIDE DEF y
  <2>2. [y EXCEPT !.left = 0].pc = y.pc /\ [y EXCEPT !.left = 0].script = y.script
    BY <2>1 DEF StrandType
  <2> QED BY <1>3, <2>2 DEF y
<1>5. Become("sender", x) /\ Is(ch', st, ch.buffered, NoSend, ch.recv, ch.sendClosed, ch.recvClosed)
  <2>1. Is(e, st, ch.buffered, NoSend, ch.recv, ch.sendClosed, ch.recvClosed)
    BY <1>2, EndTypes DEF Is, ChannelType, States
  <2>2. Become("sender", x) /\ ch' = SendDone(ch)
    BY <1>2 DEF SendExit, SendGuardDrop, MaySendDone
  <2>3. ch' = WakeReceivers(WakeNegotiators(e)) \/ ch' = WakeSenders(WakeNegotiators(e))
    BY <1>2, <2>2 DEF SendDone
  <2> HIDE DEF e, st
  <2> QED BY <2>1, <2>2, <2>3, IsWake
<1> HIDE DEF x, y
<1>6. /\ ch'.state = st /\ ch'.recv = ch.recv /\ ~ch'.recvClosed /\ ch'.send.is = "absent"
      /\ ch'.buffered = ch.buffered
  BY <1>1, <1>5 DEF Is, NoSend, SendEnd, RunFacts
<1>7. Cool(x) /\ Apart(x.script)
  BY <1>3, <1>4 DEF Cool
<1>8. MainOf(ch', R) = MainOf(ch, R) /\ OldOf(x, R) = OldOf(S, R)
  BY <1>1, <1>4, <1>6 DEF MainOf, OldOf
<1>9. SendSide(ch', x, p)
  BY <1>4, <1>6, <1>7 DEF SendSide, Programming
<1>10. Stage(ch', x, R, tasks', p)
  <2>1. CASE ch.state = "SendPipe"
    <3>1. Waits(ch, R, tasks)
      BY <1>1, <2>1 DEF Stage, Drains, Pipes, Joined
    <3> QED BY <1>1, <1>6, <2>1, <3>1 DEF Stage, Waits
  <2>2. CASE ch.state = "Direct"
    <3>1. Joined(ch, R, tasks)
      BY <1>1, <2>2 DEF Stage, Drains, Pipes, Waits
    <3> QED BY <1>1, <1>6, <1>7, <2>2, <3>1 DEF Stage, Pipes, Linked, Joined
  <2> QED BY <1>2, <2>1, <2>2
<1>11. OnRun(ch', x, R, tasks')
  BY <1>1, <1>6, <1>8, <1>9, <1>10 DEF OnRun
<1>12. Delivers(ch', x, R, tasks', data', sent', got')
  BY <1>1, <1>4, <1>6, <1>8, DeliversSame DEF Piped
<1> QED BY <1>5, <1>11, <1>12, SenderPiped

\* The sender changes between the states in which it is about to run a program.
LEMMA SenderRestsRun ==
  ASSUME Sound, Piped, Same(ch, ch'), UNCHANGED <<tasks, data, sent, got>>,
         strand["sender"].pc \in {"idle", "opening", "negotiating"},
         strand["sender"].script # <<>>, Head(strand["sender"].script) # "put",
         NEW x, Become("sender", x), x.pc \in {"opening", "negotiating"},
         x.script = strand["sender"].script
  PROVE  Piped'
<1> DEFINE S == strand["sender"]
           R == strand["receiver"]
           p == MainOf(ch, R).pipe
<1>1. OnRun(ch, S, R, tasks) /\ SendSide(ch, S, p) /\ Stage(ch, S, R, tasks, p) /\ ~Cool(S)
  BY DEF Piped, OnRun, Cool
<1>2. OnRun(ch', S, R, tasks) /\ MainOf(ch', R) = MainOf(ch, R)
  BY <1>1, SameRun
<1>3. SendSide(ch', x, p)
  BY <1>1 DEF SendSide, Programming, Same
<1>4. Stage(ch', x, R, tasks', p)
  BY <1>1, <1>2 DEF OnRun, Stage, Waits, Drains, Pipes, Linked, Joined
<1>5. OnRun(ch', x, R, tasks')
  BY <1>2, <1>3, <1>4 DEF OnRun
<1>6. S.pc # "flushing" /\ x.pc # "flushing" /\ OldOf(x, R) = OldOf(S, R)
  BY DEF OldOf
<1>7. Delivers(ch', x, R, tasks', data', sent', got')
  BY <1>2, <1>6, DeliversSame DEF Same, Piped
<1> QED BY <1>5, <1>7, SenderPiped

\* The write end of a new pipe, or of the receiver's.
LEMMA SendBecomesRun ==
  ASSUME Sound, Piped, NEW c, Same(ch, c), strand["sender"].pc \in {"idle", "negotiating"},
         strand["sender"].script # <<>>, Head(strand["sender"].script) # "put",
         SendVerdict(c) = "go", NeedsPipe("sender", c) => strand["sender"].fresh # NoPipe,
         BecomeSendPipe(c), UNCHANGED <<data, sent, got>>
  PROVE  Piped'
<1> DEFINE S == strand["sender"]
           R == strand["receiver"]
           p == S.fresh
           m == MainOf(ch, R)
           rcv == RecvEnd("present", Reader(S.fresh, <<>>))
<1>1. RunFacts /\ Streams /\ "sender" \in Strands
  BY SoundRun, SoundStreams DEF Strands
<1>2. /\ OnRun(ch, S, R, tasks) /\ SendSide(ch, S, m.pipe) /\ Stage(ch, S, R, tasks, m.pipe)
      /\ ~Cool(S) /\ S.pc \notin Programming
  BY DEF Piped, OnRun, Cool, Programming
<1>3. /\ c \in ChannelType /\ ~c.recvClosed /\ ~c.sendClosed /\ c.state = ch.state /\ c.send = ch.send
      /\ c.recv = ch.recv /\ c.buffered = ch.buffered /\ ~ch.sendClosed /\ ~ch.recvClosed
      /\ c.state \in {"Value", "RecvPipe"} /\ c.buffered \in Nat /\ Apart(S.script)
  <2>1. c.state \in States /\ c.buffered \in Nat /\ c \in ChannelType
    BY DEF Same, ChannelType
  <2> QED BY <1>1, <1>2, <2>1 DEF RunFacts, SendSide, Same, States, Programming
<1>4. R.pc # "draining" /\ OldOf(S, R) = NoReader
  BY <1>1, <1>2 DEF Stage, Waits, Drains, Pipes, Joined, RunFacts
<1>5. CASE /\ c.state = "Value"
           /\ FlushStale("sender", WakeReceivers(FreshPipe("sender", TakeBuffered(c), "SendPipe")),
                         p, c.buffered)
  <2> DEFINE e == WakeReceivers(FreshPipe("sender", TakeBuffered(c), "SendPipe"))
  <2>1. Is(e, "SendPipe", 0, TakenSend, rcv, c.sendClosed, c.recvClosed)
    BY <1>1, <1>3, FreshIs, IsWake DEF States
  <2>2. FlushStale("sender", e, p, c.buffered)
    BY <1>5
  <2>3. /\ p # NoPipe /\ p \in PipeIds /\ Str(data, Reader(p, <<>>)) = <<>> /\ Str(data, m) = <<>>
        /\ Reader(p, <<>>).pipe = p /\ Reader(p, <<>>).buf = <<>>
    BY <1>1, <1>3, <1>5 DEF RunFacts, StrandType, Streams, NeedsPipe, Reader
  <2>4. rcv.is = "present" /\ rcv.reader = Reader(p, <<>>)
    BY DEF RecvEnd
  <2>5. Waits(ch, R, tasks)
    BY <1>2, <1>3, <1>5 DEF Stage, Drains, Pipes, Joined
  <2>6. Whole(got, <<>>, <<>>, c.buffered, sent)
    <3>1. S.pc # "flushing" /\ tasks = {}
      BY <2>5 DEF Waits
    <3> QED BY <1>1, <1>3, <1>4, <2>3, <3>1 DEF Piped, Delivers, OnItsWay, Streams
  <2> HIDE DEF e, rcv
  <2>7. ASSUME NEW x, x.pc \in Programming, Held(x) = p, x.script = S.script, Become("sender", x),
               NEW snd, Is(ch', "SendPipe", 0, snd, rcv, c.sendClosed, c.recvClosed),
               NEW v \in Nat, OnItsWay(ch', x, tasks', v), v = c.buffered, UNCHANGED tasks
        PROVE  Piped'
    <3>1. /\ ch'.state = "SendPipe" /\ ch'.recv.is = "present" /\ ch'.recv.reader = Reader(p, <<>>)
          /\ ~ch'.recvClosed
      BY <1>3, <2>4, <2>7 DEF Is
    <3>2. MainOf(ch', R) = Reader(p, <<>>)
      BY <2>5, <3>1 DEF Waits, MainOf
    <3>3. OldOf(x, R) = NoReader
      BY <1>4, <2>7 DEF OldOf, Programming
    <3>4. SendSide(ch', x, p)
      BY <1>3, <2>7, <3>1 DEF SendSide, Programming
    <3>5. Waits(ch', R, tasks')
      BY <2>3, <2>5, <2>7, <3>1 DEF Waits
    <3>6. OnRun(ch', x, R, tasks')
      BY <1>1, <2>3, <3>1, <3>2, <3>4, <3>5 DEF OnRun, Stage, RunFacts
    <3>7. Delivers(ch', x, R, tasks', data', sent', got')
      BY <1>1, <2>3, <2>6, <2>7, <3>2, <3>3 DEF Delivers, Streams
    <3> QED BY <2>7, <3>6, <3>7, SenderPiped
  <2>8. CASE c.buffered = 0
    <3>1. Duplicate("sender", RestoreSend(e, p)) /\ UNCHANGED tasks
      BY <2>2, <2>3, <2>8 DEF FlushStale
    <3>2. e \in ChannelType /\ e.state = "SendPipe" /\ ~e.sendClosed
      BY <1>3, <2>1 DEF Is
    <3>3. PICK x : /\ Become("sender", x) /\ x.pc = "cloning" /\ x.write = p /\ x.script = S.script
                   /\ Is(ch', e.state, e.buffered, TakenSend, e.recv, e.sendClosed, e.recvClosed)
      <4>1. p \in PipeIds
        BY <2>3
      <4> HIDE DEF p
      <4> QED BY <3>1, <3>2, <4>1, SendDuplicated
    <3>4. Is(ch', "SendPipe", 0, TakenSend, rcv, c.sendClosed, c.recvClosed)
      BY <2>1, <3>3 DEF Is
    <3>5. OnItsWay(ch', x, tasks', 0)
      BY <2>5, <3>1, <3>3, <3>4 DEF OnItsWay, Is, Waits
    <3>6. x.pc \in Programming /\ Held(x) = p
      BY <3>3 DEF Programming, Held
    <3> QED BY <2>7, <2>8, <3>1, <3>3, <3>4, <3>5, <3>6
  <2>9. CASE c.buffered # 0
    <3> DEFINE x == [At("sender", "flushing") EXCEPT !.write = p, !.fresh = NoPipe,
                                                     !.stale = c.buffered]
    <3>1. ch' = e /\ Become("sender", x) /\ UNCHANGED tasks
      BY <2>2, <2>3, <2>9 DEF FlushStale
    <3>2. AtFacts("sender", "flushing")
      BY <1>1, AtTypes DEF Pcs
    <3>3. x.pc = "flushing" /\ x.write = p /\ x.stale = c.buffered /\ x.script = S.script
      BY <3>2 DEF AtFacts, StrandType
    <3> HIDE DEF x
    <3>4. OnItsWay(ch', x, tasks', c.buffered)
      BY <2>1, <2>5, <2>9, <3>1, <3>3 DEF OnItsWay, Is, Waits
    <3>5. x.pc \in Programming /\ Held(x) = p
      BY <3>3 DEF Programming, Held
    <3> QED BY <1>3, <2>1, <2>7, <3>1, <3>3, <3>4, <3>5
  <2> QED BY <2>8, <2>9
<1>6. c.state = "RecvPipe" =>
        /\ Pipes(ch, S, R, tasks, m.pipe) /\ c.send.is = "present" /\ c.send.pipe = m.pipe
        /\ tasks = {}
  <2> SUFFICES ASSUME c.state = "RecvPipe"
               PROVE  /\ Pipes(ch, S, R, tasks, m.pipe) /\ c.send.is = "present"
                      /\ c.send.pipe = m.pipe /\ tasks = {}
    OBVIOUS
  <2>1. Pipes(ch, S, R, tasks, m.pipe)
    BY <1>2, <1>3 DEF Stage, Waits, Drains, Joined
  <2>2. c.send.is # "taken"
    BY DEF SendVerdict
  <2> QED BY <1>2, <1>3, <2>1, <2>2 DEF Pipes, Linked
<1>7. CASE /\ c.state = "RecvPipe"
           /\ FlushStale("sender", [c EXCEPT !.send = TakenSend, !.state = "Direct"], c.send.pipe, 0)
  <2> DEFINE e == [c EXCEPT !.send = TakenSend, !.state = "Direct"]
             q == c.send.pipe
  <2>1. Is(e, "Direct", c.buffered, TakenSend, c.recv, c.sendClosed, c.recvClosed)
    BY <1>3, EndTypes DEF Is, ChannelType, States
  <2>2. m.pipe \in 1..MaxPipes /\ q = m.pipe
    BY <1>3, <1>6, <1>7, PipedHasReader
  <2>3. q \in PipeIds /\ q # NoPipe /\ FlushStale("sender", e, q, 0)
    BY <1>7, <2>2, PipeIdsFact
  <2> HIDE DEF e, q
  <2>4. Duplicate("sender", RestoreSend(e, q)) /\ UNCHANGED tasks
    BY <2>3 DEF FlushStale
  <2>5. e \in ChannelType /\ e.state = "Direct" /\ ~e.sendClosed
    BY <1>3, <2>1 DEF Is
  <2>6. PICK x : /\ Become("sender", x) /\ x.pc = "cloning" /\ x.write = q /\ x.script = S.script
                 /\ Is(ch', e.state, e.buffered, TakenSend, e.recv, e.sendClosed, e.recvClosed)
    BY <2>3, <2>4, <2>5, SendDuplicated
  <2>7. /\ ch'.state = "Direct" /\ ch'.recv = ch.recv /\ ~ch'.recvClosed
        /\ ch'.buffered = ch.buffered
    BY <1>3, <2>1, <2>6 DEF Is
  <2>8. MainOf(ch', R) = m /\ OldOf(x, R) = OldOf(S, R)
    BY <1>4, <2>6, <2>7 DEF MainOf, OldOf
  <2>9. SendSide(ch', x, m.pipe)
    BY <1>3, <2>2, <2>6, <2>7 DEF SendSide, Programming, Held
  <2>10. Joined(ch', R, tasks')
    BY <1>6, <1>7, <2>4, <2>7 DEF Pipes, Joined
  <2>11. OnRun(ch', x, R, tasks')
    BY <1>1, <2>7, <2>8, <2>9, <2>10 DEF OnRun, Stage, RunFacts
  <2>12. S.pc # "flushing" /\ x.pc # "flushing"
    BY <2>6
  <2>13. Delivers(ch', x, R, tasks', data', sent', got')
    BY <2>4, <2>7, <2>8, <2>12, DeliversSame DEF Piped
  <2> QED BY <2>6, <2>11, <2>13, SenderPiped
<1> QED BY <1>3, <1>5, <1>6, <1>7 DEF BecomeSendPipe

LEMMA SendNegotiateRun ==
  ASSUME Sound, Piped, Negotiate("sender")
  PROVE  Piped'
<1> DEFINE S == strand["sender"]
           R == strand["receiver"]
<1>1. /\ S.pc \in {"idle", "negotiating"} /\ ch \in ChannelType /\ S.script # <<>>
      /\ UNCHANGED <<data, sent, got>>
  BY SoundTypes DEF Negotiate, Starts, StrandOK, Resting, Strands
<1>2. Head(S.script) # "put"
  <2>1. S.pc = "negotiating" => Head(S.script) # "put"
    BY DEF Piped, OnRun, SendSide
  <2> QED BY <2>1 DEF Negotiate, Starts, Op
<1>3. PICK c : Same(ch, c) /\ NegotiateTurn("sender", c)
  <2>1. Same(ch, ch) /\ Same(ch, Awake("sender"))
    BY <1>1, AwakeGood DEF Same, Strands
  <2> QED BY <2>1 DEF Negotiate
<1>4. c.state \notin {"SendPipe", "Direct"} /\ c \in ChannelType
  BY <1>1, <1>3 DEF Piped, OnRun, SendSide, Programming, Same
<1>5. Verdict("sender", c) = SendVerdict(c) /\ SendVerdict(c) # "error"
  BY <1>4 DEF Verdict, SendVerdict
<1>6. CASE /\ ch' = [c EXCEPT !.negotiateWakers = @ \cup {"sender"}]
           /\ Become("sender", At("sender", "negotiating")) /\ UNCHANGED tasks
  <2>1. Same(ch, ch')
    BY <1>3, <1>4, <1>6, SameWaiting, SameTransitive DEF Strands
  <2>2. At("sender", "negotiating").pc = "negotiating" /\ At("sender", "negotiating").script = S.script
    BY AtTypes DEF AtFacts, Pcs, Strands
  <2> QED BY <1>1, <1>2, <1>6, <2>1, <2>2, SenderRestsRun
<1>7. CASE ch' = c /\ Become("sender", At("sender", "opening")) /\ UNCHANGED tasks
  <2>1. At("sender", "opening").pc = "opening" /\ At("sender", "opening").script = S.script
    BY AtTypes DEF AtFacts, Pcs, Strands
  <2> QED BY <1>1, <1>2, <1>3, <1>7, <2>1, SenderRestsRun
<1>8. CASE /\ ~(NeedsPipe("sender", c) /\ S.fresh = NoPipe) /\ Verdict("sender", c) = "go"
           /\ BecomeSendPipe(c)
  BY <1>1, <1>2, <1>3, <1>5, <1>8, SendBecomesRun
<1> QED BY <1>3, <1>5, <1>6, <1>7, <1>8 DEF NegotiateTurn

LEMMA SenderOpenedRun ==
  ASSUME Sound, Piped, Opened("sender")
  PROVE  Piped'
<1> DEFINE S == strand["sender"]
           x == [At("sender", "negotiating") EXCEPT !.fresh = pipes + 1]
<1>1. S \in StrandType /\ ch \in ChannelType /\ StrandOK(S) /\ S.pc = "opening"
  BY SoundTypes DEF Strands, Opened
<1>2. Same(ch, ch')
  BY <1>1, SameWaiting DEF Opened, Strands
<1>3. x.pc = "negotiating" /\ x.script = S.script
  BY <1>1 DEF At, StrandType
<1>4. Become("sender", x) /\ UNCHANGED <<tasks, data, sent, got>>
  BY DEF Opened
<1>5. S.script # <<>> /\ Head(S.script) # "put"
  BY <1>1 DEF StrandOK, Resting, Piped, OnRun, SendSide
<1> HIDE DEF x
<1> QED BY <1>1, <1>2, <1>3, <1>4, <1>5, SenderRestsRun

LEMMA SenderCloseRun ==
  ASSUME Sound, Piped, CloseStage("sender")
  PROVE  Piped'
<1> DEFINE S == strand["sender"]
           R == strand["receiver"]
           p == MainOf(ch, R).pipe
           x == At("sender", "closed")
<1>1. RunFacts /\ ch \in ChannelType
  BY SoundRun DEF RunFacts
<1>2. /\ S.pc \in {"idle", "failed"} /\ UNCHANGED <<tasks, data, sent, got>>
      /\ OnRun(ch, S, R, tasks) /\ SendSide(ch, S, p) /\ Stage(ch, S, R, tasks, p)
      /\ ch' = CloseSend(ch) /\ Become("sender", x) /\ S.pc \notin Programming
  BY DEF Piped, OnRun, CloseStage, Programming
<1>3. x.pc = "closed" /\ x.script = S.script
  BY AtTypes DEF AtFacts, Pcs, Strands
<1> HIDE DEF x
<1>4. Is([ch EXCEPT !.sendClosed = TRUE, !.send = NoSend],
         ch.state, ch.buffered, NoSend, ch.recv, TRUE, ch.recvClosed)
  BY <1>1, IsExcept
<1>5. Is(ch', ch.state, ch.buffered, NoSend, ch.recv, TRUE, ch.recvClosed)
  BY <1>2, <1>4, IsWake DEF CloseSend
<1>6. /\ ch'.state = ch.state /\ ch'.buffered = ch.buffered /\ ch'.recv = ch.recv
      /\ ch'.sendClosed /\ ~ch'.recvClosed /\ ch'.send.is = "absent"
  BY <1>1, <1>5 DEF Is, RunFacts, NoSend, SendEnd
<1>7. MainOf(ch', R) = MainOf(ch, R) /\ OldOf(x, R) = OldOf(S, R)
  BY <1>2, <1>3, <1>6 DEF MainOf, OldOf
<1>8. Cool(S) => Cool(x)
  BY <1>3 DEF Cool
<1>9. SendSide(ch', x, p)
  BY <1>2, <1>3, <1>6, <1>8, SendSideRests DEF SendSide
<1>10. Stage(ch', x, R, tasks', p)
  BY <1>2, <1>6, <1>8 DEF Stage, Waits, Drains, Pipes, Linked, Joined
<1>11. OnRun(ch', x, R, tasks')
  BY <1>2, <1>6, <1>7, <1>9, <1>10 DEF OnRun
<1>12. Delivers(ch', x, R, tasks', data', sent', got')
  <2>1. S.pc # "flushing" /\ x.pc # "flushing"
    BY <1>2, <1>3
  <2> QED BY <1>2, <1>6, <1>7, <2>1, DeliversSame DEF Piped
<1> QED BY <1>2, <1>11, <1>12, SenderPiped

-----------------------------------------------------------------------------
(***************************************************************************)
(* The steps of the receiver and of the task with the stale value.         *)
(***************************************************************************)
\* The read end is duplicated for the program.
LEMMA RecvDuplicated ==
  ASSUME Sound, NEW c \in ChannelType, c.recv.is = "present", Duplicate("receiver", c)
  PROVE  \E x : /\ Become("receiver", x) /\ x.pc = "cloning" /\ x.read = c.recv.reader
                /\ x.script = strand["receiver"].script
                /\ Is(ch', c.state, c.buffered, c.send, TakenRecv, c.sendClosed, c.recvClosed)
<1> DEFINE x == Duplicating("receiver", NoPipe, c.recv.reader)
<1>1. ch' = [c EXCEPT !.recv = TakenRecv] /\ Become("receiver", x)
  BY DEF Duplicate
<1>2. Is(ch', c.state, c.buffered, c.send, TakenRecv, c.sendClosed, c.recvClosed)
  BY <1>1, IsExcept, EndTypes
<1>3. AtFacts("receiver", "cloning")
  BY AtTypes DEF Pcs, Strands
<1>4. x.pc = "cloning" /\ x.read = c.recv.reader /\ x.script = strand["receiver"].script
  BY <1>3 DEF AtFacts, Duplicating, StrandType
<1> HIDE DEF x
<1> QED BY <1>1, <1>2, <1>4

\* The slot's value goes into a new pipe, the pipe of the program upstream is
\* joined, and an old pipe is taken over or drained.
LEMMA RecvBecomesRun ==
  ASSUME Sound, Piped, NEW c, Same(ch, c), strand["receiver"].pc \in {"idle", "negotiating"},
         NeedsPipe("receiver", c) => strand["receiver"].fresh # NoPipe,
         BecomeRecvPipe(c), UNCHANGED <<data, sent, got>>
  PROVE  Piped'
<1> DEFINE S == strand["sender"]
           R == strand["receiver"]
           p == R.fresh
           m == MainOf(ch, R)
           rcv == RecvEnd("present", Reader(R.fresh, <<>>))
<1>1. RunFacts /\ Streams /\ "receiver" \in Strands
  BY SoundRun, SoundStreams DEF Strands
<1>2. OnRun(ch, S, R, tasks) /\ SendSide(ch, S, m.pipe) /\ Waits(ch, R, tasks)
  BY DEF Piped, OnRun, Stage, Drains, Pipes, Joined
<1>3. /\ c \in ChannelType /\ ~c.recvClosed /\ c.state = ch.state /\ c.send = ch.send
      /\ c.recv = ch.recv /\ c.buffered = ch.buffered /\ c.sendClosed = ch.sendClosed
      /\ c.buffered \in Nat /\ c.recv.reader \in ReaderType /\ ~ch.recvClosed
  BY <1>1 DEF RunFacts, Same, ChannelType
<1>4. /\ tasks = {} /\ R.pc # "draining" /\ OldOf(S, R) = NoReader /\ R.script = <<"run">>
      /\ S.pc # "draining"
  BY <1>1, <1>2 DEF Waits, RunFacts
<1>5. c.state # "Value" => m = c.recv.reader /\ c.recv.is = "present" /\ m.buf = <<>> /\ c.buffered = 0
  BY <1>1, <1>2, <1>3 DEF Waits, MainOf, RunFacts
<1>6. PICK v \in Nat : /\ OnItsWay(ch, S, tasks, v)
                       /\ Whole(got, Str(data, m), <<>>, v, sent)
  BY <1>1, <1>4 DEF Piped, Delivers, Streams
<1>7. ASSUME NEW r \in ReaderType, r.buf = <<>> PROVE Reader(r.pipe, <<>>) = r
  BY <1>7 DEF Reader, ReaderType
<1>8. /\ p # NoPipe => p \in PipeIds /\ Str(data, Reader(p, <<>>)) = <<>>
      /\ Reader(p, <<>>).pipe = p /\ Reader(p, <<>>).buf = <<>>
      /\ rcv.is = "present" /\ rcv.reader = Reader(p, <<>>)
  BY <1>1 DEF RunFacts, StrandType, Streams, Reader, RecvEnd
<1>9. CASE /\ c.state = "Value"
           /\ FlushStale("receiver", WakeSenders(FreshPipe("receiver", TakeBuffered(c), "RecvPipe")),
                         p, c.buffered)
  <2> DEFINE e == WakeSenders(FreshPipe("receiver", TakeBuffered(c), "RecvPipe"))
  <2>1. Is(e, "RecvPipe", 0, TakenSend, rcv, c.sendClosed, c.recvClosed)
    BY <1>1, <1>3, FreshIs, IsWake DEF States
  <2>2. FlushStale("receiver", e, p, c.buffered) /\ p # NoPipe
    BY <1>9 DEF NeedsPipe
  <2>3. S.pc \notin Programming /\ S.pc # "writing" /\ S.pc # "flushing"
    BY <1>2, <1>3, <1>9 DEF SendSide, Programming
  <2>4. Whole(got, <<>>, <<>>, c.buffered, sent)
    <3>1. v = c.buffered /\ Str(data, m) = <<>>
      BY <1>1, <1>3, <1>4, <1>6, <1>9, <2>3 DEF OnItsWay, RunFacts, Streams
    <3> QED BY <1>6, <3>1
  <2> HIDE DEF e, rcv
  <2>5. ASSUME NEW b \in ChannelType, NEW snd, Is(b, "RecvPipe", 0, snd, rcv, c.sendClosed, c.recvClosed),
               Duplicate("receiver", b), \A t \in tasks' : t.pipe = p, OnItsWay(b, S, tasks', c.buffered),
               c.sendClosed \/ (snd = SendEnd("present", p) /\ tasks' = {})
                            \/ (snd = TakenSend /\ tasks' # {})
        PROVE  Piped'
    <3>1. b.recv = rcv /\ b.recv.is = "present"
      BY <1>8, <2>5 DEF Is
    <3>2. PICK x : /\ Become("receiver", x) /\ x.pc = "cloning" /\ x.read = b.recv.reader
                   /\ x.script = R.script
                   /\ Is(ch', b.state, b.buffered, b.send, TakenRecv, b.sendClosed, b.recvClosed)
      BY <2>5, <3>1, RecvDuplicated
    <3>3. /\ ch'.state = "RecvPipe" /\ ch'.buffered = 0 /\ ch'.send = snd /\ ~ch'.recvClosed
          /\ ch'.sendClosed = c.sendClosed /\ x.read = Reader(p, <<>>) /\ b.buffered = 0
      BY <1>3, <1>8, <2>5, <3>1, <3>2 DEF Is
    <3>4. MainOf(ch', x) = Reader(p, <<>>) /\ OldOf(S, x) = NoReader
      BY <1>4, <1>8, <3>2, <3>3 DEF MainOf, OldOf
    <3>5. SendSide(ch', S, p)
      BY <1>2, <2>3, <3>3 DEF SendSide
    <3>6. Linked(ch', S, tasks', p)
      BY <2>3, <2>5, <3>3 DEF Linked, SendEnd, TakenSend
    <3>7. OnRun(ch', S, x, tasks')
      <4>1. Pipes(ch', S, x, tasks', p)
        BY <2>5, <3>2, <3>3, <3>6 DEF Pipes
      <4> QED BY <1>4, <1>8, <3>2, <3>3, <3>4, <3>5, <4>1 DEF OnRun, Stage
    <3>8. OnItsWay(ch', S, tasks', c.buffered)
      BY <2>5, <3>3 DEF OnItsWay
    <3>9. Delivers(ch', S, x, tasks', data', sent', got')
      BY <1>1, <1>3, <1>8, <2>2, <2>4, <3>4, <3>8 DEF Delivers, Streams
    <3> QED BY <3>2, <3>7, <3>9, ReceiverPiped
  <2>6. CASE c.buffered = 0
    <3> DEFINE b == RestoreSend(e, p)
    <3>1. Duplicate("receiver", b) /\ UNCHANGED tasks
      BY <2>2, <2>6 DEF FlushStale
    <3>2. e \in ChannelType /\ p \in PipeIds /\ e.state = "RecvPipe" /\ e.sendClosed = c.sendClosed
      BY <1>8, <2>1, <2>2 DEF Is
    <3>3. RestoresSend(e, b, p)
      BY <3>2, RestoreSendIs
    <3>4. PICK snd : /\ Is(b, e.state, e.buffered, snd, e.recv, e.sendClosed, e.recvClosed)
                     /\ ~c.sendClosed => snd = SendEnd("present", p)
      BY <3>2, <3>3 DEF RestoresSend
    <3>5. b \in ChannelType /\ Is(b, "RecvPipe", 0, snd, rcv, c.sendClosed, c.recvClosed)
      BY <2>1, <3>4 DEF Is
    <3> HIDE DEF b
    <3>6. OnItsWay(b, S, tasks', c.buffered) /\ tasks' = {}
      BY <1>4, <2>3, <2>6, <3>1, <3>5 DEF OnItsWay, Is
    <3> QED BY <2>5, <3>1, <3>4, <3>5, <3>6
  <2>7. CASE c.buffered # 0
    <3> DEFINE t == [pipe |-> p, item |-> c.buffered]
    <3>1. tasks' = {t} /\ Duplicate("receiver", e)
      BY <1>4, <2>2, <2>7 DEF FlushStale
    <3>2. e \in ChannelType /\ e.buffered = 0
      BY <2>1 DEF Is
    <3>3. t.pipe = p /\ t.item = c.buffered
      OBVIOUS
    <3> HIDE DEF t
    <3>4. OnItsWay(e, S, tasks', c.buffered)
      BY <2>3, <2>7, <3>1, <3>2, <3>3 DEF OnItsWay
    <3>5. (\A u \in tasks' : u.pipe = p) /\ tasks' # {}
      BY <3>1, <3>3
    <3> QED BY <2>1, <2>5, <3>1, <3>2, <3>4, <3>5
  <2> QED BY <2>6, <2>7
<1>10. ASSUME NEW b \in ChannelType, b.recv.is = "present", b.recv.reader.pipe = m.pipe,
              b.buffered = c.buffered, ~b.recvClosed, Duplicate("receiver", b), UNCHANGED tasks,
              c.state # "Value",
              \/ b.state = "Direct" /\ ch.state = "SendPipe"
              \/ b.state = "RecvPipe" /\ b.sendClosed /\ ch.state = "Draining"
       PROVE  Piped'
  <2>1. PICK x : /\ Become("receiver", x) /\ x.pc = "cloning" /\ x.read = b.recv.reader
                 /\ x.script = R.script
                 /\ Is(ch', b.state, b.buffered, b.send, TakenRecv, b.sendClosed, b.recvClosed)
    BY <1>10, RecvDuplicated
  <2>2. /\ ch'.state = b.state /\ ch'.buffered = ch.buffered /\ ~ch'.recvClosed
        /\ ch'.sendClosed = b.sendClosed /\ x.read.pipe = m.pipe
    BY <1>3, <1>10, <2>1 DEF Is
  <2>3. m \in ReaderType /\ Reader(m.pipe, <<>>) = m
    BY <1>1, <1>5, <1>7, <1>10 DEF Streams
  <2>4. MainOf(ch', x) = m /\ OldOf(S, x) = OldOf(S, R)
    BY <1>4, <2>1, <2>2, <2>3 DEF MainOf, OldOf
  <2>5. SendSide(ch', S, m.pipe)
    BY <1>2, <1>10, <2>2 DEF SendSide, Cool, Programming
  <2>6. Stage(ch', S, x, tasks', m.pipe)
    BY <1>4, <1>10, <2>1, <2>2 DEF Stage, Joined, Pipes, Linked
  <2>7. OnRun(ch', S, x, tasks')
    BY <1>4, <2>1, <2>2, <2>4, <2>5, <2>6 DEF OnRun
  <2>8. Delivers(ch', S, x, tasks', data', sent', got')
    BY <1>10, <2>2, <2>4 DEF Piped, Delivers, OnItsWay
  <2> QED BY <2>1, <2>7, <2>8, ReceiverPiped
<1>11. CASE /\ c.state = "SendPipe"
            /\ FlushStale("receiver", [DiscardRecvBuffer(c) EXCEPT !.state = "Direct"], NoPipe, 0)
  <2> DEFINE b == [DiscardRecvBuffer(c) EXCEPT !.state = "Direct"]
             cut == RecvEnd("present", Reader(c.recv.reader.pipe, <<>>))
  <2>1. Duplicate("receiver", b) /\ UNCHANGED tasks
    BY <1>11 DEF FlushStale
  <2>2. Is(b, "Direct", c.buffered, c.send, cut, c.sendClosed, c.recvClosed)
    BY <1>3, <1>5, <1>11, DirectIs
  <2>3. cut.is = "present" /\ cut.reader.pipe = c.recv.reader.pipe
    BY EndParts DEF Reader
  <2> HIDE DEF b, cut
  <2>4. /\ b \in ChannelType /\ b.recv.is = "present" /\ b.recv.reader.pipe = m.pipe
        /\ b.buffered = c.buffered /\ ~b.recvClosed /\ b.state = "Direct"
    BY <1>3, <1>5, <1>11, <2>2, <2>3 DEF Is
  <2> QED BY <1>3, <1>10, <1>11, <2>1, <2>4
<1>12. CASE /\ c.state = "Draining" /\ c.sendClosed
            /\ FlushStale("receiver", WakeSenders([c EXCEPT !.state = "RecvPipe"]), NoPipe, 0)
  <2> DEFINE b == WakeSenders([c EXCEPT !.state = "RecvPipe"])
  <2>1. Duplicate("receiver", b) /\ UNCHANGED tasks
    BY <1>12 DEF FlushStale
  <2>2. Is([c EXCEPT !.state = "RecvPipe"], "RecvPipe", c.buffered, c.send, c.recv,
           c.sendClosed, c.recvClosed)
    BY <1>3, IsExcept DEF States
  <2>3. Is(b, "RecvPipe", c.buffered, c.send, c.recv, c.sendClosed, c.recvClosed)
    BY <2>2, IsWake
  <2> HIDE DEF b
  <2>4. /\ b \in ChannelType /\ b.recv.is = "present" /\ b.recv.reader.pipe = m.pipe
        /\ b.buffered = c.buffered /\ ~b.recvClosed /\ b.state = "RecvPipe" /\ b.sendClosed
    BY <1>3, <1>5, <1>12, <2>3 DEF Is
  <2> QED BY <1>3, <1>10, <1>12, <2>1, <2>4
<1>13. CASE /\ c.state = "Draining" /\ ~c.sendClosed
            /\ DrainFirst("receiver", WakeSenders(FreshPipe("receiver", c, "RecvPipe")), p,
                          c.recv.reader)
  <2> DEFINE e == WakeSenders(FreshPipe("receiver", c, "RecvPipe"))
             x == [At("receiver", "draining") EXCEPT !.write = p, !.read = c.recv.reader,
                                                     !.fresh = NoPipe]
  <2>1. Is(e, "RecvPipe", c.buffered, TakenSend, rcv, c.sendClosed, c.recvClosed)
    BY <1>1, <1>3, FreshIs, IsWake DEF States
  <2>2. ch' = e /\ Become("receiver", x) /\ UNCHANGED tasks /\ p # NoPipe
    BY <1>13 DEF DrainFirst, NeedsPipe
  <2>3. AtFacts("receiver", "draining")
    BY <1>1, AtTypes DEF Pcs
  <2>4. x.pc = "draining" /\ x.write = p /\ x.read = c.recv.reader /\ x.script = R.script
    BY <2>3 DEF AtFacts, StrandType
  <2> HIDE DEF e, x, rcv
  <2>5. /\ ch'.state = "RecvPipe" /\ ch'.buffered = 0 /\ ch'.send.is = "taken"
        /\ ch'.recv.is = "present" /\ ch'.recv.reader = Reader(p, <<>>) /\ ~ch'.recvClosed
    BY <1>3, <1>5, <1>8, <1>13, <2>1, <2>2 DEF Is, TakenSend, SendEnd
  <2>6. Cool(S) /\ S.pc # "flushing" /\ S.pc \notin Programming
    BY <1>2, <1>3, <1>13 DEF SendSide, Cool, Programming
  <2>7. MainOf(ch', x) = Reader(p, <<>>) /\ OldOf(S, x) = m
    BY <1>4, <1>5, <1>13, <2>4, <2>5 DEF MainOf, OldOf
  <2>8. SendSide(ch', S, p)
    BY <1>2, <2>5, <2>6 DEF SendSide, Cool
  <2>9. Drains(ch', S, x, tasks', p)
    BY <1>4, <2>2, <2>4, <2>5, <2>6 DEF Drains
  <2>10. OnRun(ch', S, x, tasks')
    BY <1>4, <1>8, <2>4, <2>5, <2>7, <2>8, <2>9 DEF OnRun, Stage
  <2>11. Whole(got, <<>>, Str(data, m), 0, sent)
    <3>1. v = 0
      BY <1>3, <1>4, <1>5, <1>6, <1>13, <2>6 DEF OnItsWay
    <3> QED BY <1>1, <1>6, <3>1, WholeReplace DEF RunFacts, Streams
  <2>12. OnItsWay(ch', S, tasks', 0)
    BY <1>4, <2>2, <2>5, <2>6 DEF OnItsWay
  <2>13. Delivers(ch', S, x, tasks', data', sent', got')
    BY <1>8, <2>2, <2>7, <2>11, <2>12 DEF Delivers
  <2> QED BY <2>2, <2>10, <2>13, ReceiverPiped
<1>14. c.state \in {"Value", "SendPipe", "Draining"}
  BY <1>2, <1>3 DEF Waits
<1> QED BY <1>5, <1>9, <1>11, <1>12, <1>13, <1>14 DEF BecomeRecvPipe

\* The receiver changes between the states before its program starts.
LEMMA ReceiverRestsRun ==
  ASSUME Sound, Piped, Same(ch, ch'), UNCHANGED <<tasks, data, sent, got>>,
         strand["receiver"].pc \in {"idle", "opening", "negotiating"},
         NEW x, Become("receiver", x), x.pc \in {"opening", "negotiating"},
         x.script = strand["receiver"].script
  PROVE  Piped'
<1> DEFINE S == strand["sender"]
           R == strand["receiver"]
           p == MainOf(ch, R).pipe
<1>1. OnRun(ch, S, R, tasks) /\ Waits(ch, R, tasks)
  BY DEF Piped, OnRun, Stage, Drains, Pipes, Joined
<1>2. OnRun(ch', S, R, tasks) /\ MainOf(ch', R) = MainOf(ch, R)
  BY <1>1, SameRun
<1>3. MainOf(ch', x) = MainOf(ch', R) /\ OldOf(S, x) = OldOf(S, R)
  BY DEF MainOf, OldOf
<1>4. Waits(ch', x, tasks')
  BY <1>1 DEF Waits, Same
<1>5. OnRun(ch', S, x, tasks')
  BY <1>2, <1>3, <1>4 DEF OnRun, Stage
<1>6. Delivers(ch', S, x, tasks', data', sent', got')
  BY <1>2, <1>3 DEF Delivers, OnItsWay, Same, Piped
<1> QED BY <1>5, <1>6, ReceiverPiped

LEMMA RecvNegotiateRun ==
  ASSUME Sound, Piped, Negotiate("receiver")
  PROVE  Piped'
<1> DEFINE S == strand["sender"]
           R == strand["receiver"]
<1>1. /\ R.pc \in {"idle", "negotiating"} /\ ch \in ChannelType /\ UNCHANGED <<data, sent, got>>
  BY SoundTypes DEF Negotiate, Starts
<1>2. PICK c : Same(ch, c) /\ NegotiateTurn("receiver", c)
  <2>1. Same(ch, ch) /\ Same(ch, Awake("receiver"))
    BY <1>1, AwakeGood DEF Same, Strands
  <2> QED BY <2>1 DEF Negotiate
<1>3. Waits(ch, R, tasks)
  BY <1>1 DEF Piped, OnRun, Stage, Drains, Pipes, Joined
<1>4. Verdict("receiver", c) = "go"
  BY <1>2, <1>3 DEF Verdict, RecvVerdict, Waits, Same
<1>5. CASE ch' = c /\ Become("receiver", At("receiver", "opening")) /\ UNCHANGED tasks
  <2>1. At("receiver", "opening").pc = "opening" /\ At("receiver", "opening").script = R.script
    BY AtTypes DEF AtFacts, Pcs, Strands
  <2> QED BY <1>1, <1>2, <1>5, <2>1, ReceiverRestsRun
<1>6. CASE ~(NeedsPipe("receiver", c) /\ R.fresh = NoPipe) /\ BecomeRecvPipe(c)
  BY <1>1, <1>2, <1>6, RecvBecomesRun
<1> QED BY <1>2, <1>4, <1>5, <1>6 DEF NegotiateTurn

LEMMA ReceiverOpenedRun ==
  ASSUME Sound, Piped, Opened("receiver")
  PROVE  Piped'
<1> DEFINE R == strand["receiver"]
           x == [At("receiver", "negotiating") EXCEPT !.fresh = pipes + 1]
<1>1. R \in StrandType /\ ch \in ChannelType /\ R.pc = "opening"
  BY SoundTypes DEF Strands, Opened
<1>2. Same(ch, ch')
  BY <1>1, SameWaiting DEF Opened, Strands
<1>3. x.pc = "negotiating" /\ x.script = R.script
  BY <1>1 DEF At, StrandType
<1>4. Become("receiver", x) /\ UNCHANGED <<tasks, data, sent, got>>
  BY DEF Opened
<1> HIDE DEF x
<1> QED BY <1>1, <1>2, <1>3, <1>4, ReceiverRestsRun

LEMMA ReceiverDrainRun ==
  ASSUME Sound, Piped, Drain("receiver")
  PROVE  Piped'
<1> DEFINE S == strand["sender"]
           R == strand["receiver"]
           r == R.read
           p == R.write
           m == MainOf(ch, R)
<1>1. RunFacts /\ Streams /\ R.pc = "draining" /\ UNCHANGED <<pipes, sent, got>>
  BY SoundRun, SoundStreams DEF Drain
<1>2. OnRun(ch, S, R, tasks) /\ SendSide(ch, S, m.pipe) /\ Drains(ch, S, R, tasks, m.pipe)
  BY <1>1 DEF Piped, OnRun, Stage, Waits, Pipes, Joined
<1>3. /\ ch.state = "RecvPipe" /\ p = m.pipe /\ tasks = {} /\ Cool(S) /\ ch.send.is # "present"
      /\ S.pc # "flushing" /\ S.pc # "draining" /\ S.pc # "writing"
  BY <1>2 DEF Drains, Cool
<1>4. HasReader(p) /\ p \in 1..MaxPipes /\ p \in PipeIds /\ p # NoPipe /\ m \in ReaderType
  BY <1>3, PipedHasReader, PipeIdsFact
<1>5. /\ ch \in ChannelType /\ R \in StrandType /\ r \in ReaderType /\ data \in DataType
      /\ ~ch.recvClosed /\ ch.buffered = 0 /\ R.script = <<"run">> /\ sent \in Nat /\ got \in Seq(Nat)
      /\ ReceiverOK(ch, R)
  BY <1>1, <1>3 DEF RunFacts, StrandType, Control
<1>6. /\ r.pipe # NoPipe /\ ch.recv.is = "present" /\ ch.recv.reader.buf = <<>>
      /\ OldOf(S, R) = r /\ m = ch.recv.reader
  BY <1>1, <1>3, <1>5 DEF ReceiverOK, OldOf, MainOf
<1>7. p # r.pipe
  <2>1. DrainOK(m, OldOf(S, R), IntoOf(S, R), WritersOf(ch, S))
    BY DEF Sound, Good, View, Core
  <2> QED BY <1>1, <1>3, <1>6, <2>1 DEF DrainOK, IntoOf
<1>8. Whole(got, Str(data, m), Str(data, r), 0, sent)
  BY <1>3, <1>5, <1>6 DEF Piped, Delivers, OnItsWay
<1>9. CASE /\ Filled(r) # <<>> /\ data' = [Unread(r) EXCEPT ![p] = Append(@, Head(Filled(r)))]
           /\ Become("receiver", [R EXCEPT !.read.buf = Tail(Filled(r))])
           /\ UNCHANGED <<ch, tasks>>
  <2> DEFINE x == [R EXCEPT !.read.buf = Tail(Filled(r))]
             y == Str(data, r)
  <2>1. /\ x.read = Reader(r.pipe, Tail(Filled(r))) /\ x.pc = "draining" /\ x.write = p
        /\ x.script = R.script
    BY <1>1, <1>5 DEF StrandType, ReaderType, Reader
  <2>2. /\ y # <<>> /\ Str(data', m) = Append(Str(data, m), Head(y))
        /\ Str(data', Reader(r.pipe, Tail(Filled(r)))) = Tail(y)
    BY <1>3, <1>4, <1>5, <1>6, <1>7, <1>9, DrainedStreams
  <2> HIDE DEF x, y
  <2>3. Whole(got, Append(Str(data, m), Head(y)), Tail(y), 0, sent)
    BY <1>1, <1>5, <1>6, <1>8, <2>2, WholeDrain DEF Streams, y
  <2>4. OldOf(S, x) = x.read /\ MainOf(ch', x) = m
    BY <1>3, <1>6, <1>9, <2>1 DEF OldOf, MainOf
  <2>5. OnItsWay(ch', S, tasks', 0)
    BY <1>3, <1>5, <1>9 DEF OnItsWay
  <2>6. Delivers(ch', S, x, tasks', data', sent', got')
    BY <1>1, <2>1, <2>2, <2>3, <2>4, <2>5 DEF Delivers
  <2>7. Drains(ch', S, x, tasks', m.pipe)
    BY <1>3, <1>9, <2>1 DEF Drains
  <2>8. OnRun(ch', S, x, tasks')
    BY <1>2, <1>9, <2>1, <2>4, <2>7 DEF OnRun, Stage
  <2> QED BY <1>9, <2>6, <2>8, ReceiverPiped DEF x
<1>10. CASE AtEnd(r) /\ FlushStale("receiver", ch, p, 0) /\ UNCHANGED data
  <2> DEFINE b == RestoreSend(ch, p)
  <2>1. Duplicate("receiver", b) /\ UNCHANGED tasks
    BY <1>4, <1>10 DEF FlushStale
  <2>2. RestoresSend(ch, b, p)
    BY <1>4, <1>5, RestoreSendIs
  <2>3. PICK snd : /\ Is(b, ch.state, ch.buffered, snd, ch.recv, ch.sendClosed, ch.recvClosed)
                   /\ ~ch.sendClosed => snd = SendEnd("present", p)
    BY <1>3, <2>2 DEF RestoresSend
  <2> HIDE DEF b
  <2>4. b \in ChannelType /\ b.recv = ch.recv
    BY <2>3 DEF Is
  <2>5. PICK x : /\ Become("receiver", x) /\ x.pc = "cloning" /\ x.read = b.recv.reader
                 /\ x.script = R.script
                 /\ Is(ch', b.state, b.buffered, b.send, TakenRecv, b.sendClosed, b.recvClosed)
    BY <1>6, <2>1, <2>4, RecvDuplicated
  <2>6. /\ ch'.state = "RecvPipe" /\ ch'.buffered = 0 /\ ch'.send = snd /\ ~ch'.recvClosed
        /\ ch'.sendClosed = ch.sendClosed /\ x.read = m
    BY <1>3, <1>5, <1>6, <2>3, <2>4, <2>5 DEF Is
  <2>7. Reader(m.pipe, <<>>) = m
    BY <1>4, <1>6 DEF Reader, ReaderType
  <2>8. MainOf(ch', x) = m /\ OldOf(S, x) = NoReader
    BY <1>3, <2>5, <2>6, <2>7 DEF MainOf, OldOf
  <2>9. Linked(ch', S, tasks', p)
    BY <1>3, <2>1, <2>3, <2>6, EndParts DEF Linked
  <2>10. SendSide(ch', S, m.pipe)
    BY <1>2, <1>3, <2>6 DEF SendSide
  <2>11. OnRun(ch', S, x, tasks')
    <3>1. Pipes(ch', S, x, tasks', m.pipe)
      BY <1>3, <2>1, <2>5, <2>6, <2>9 DEF Pipes
    <3> QED BY <1>5, <2>5, <2>6, <2>8, <2>10, <3>1 DEF OnRun, Stage
  <2>12. Str(data, r) = <<>>
    BY <1>5, <1>6, <1>10, StrEnd DEF AtEnd
  <2>13. OnItsWay(ch', S, tasks', 0)
    BY <1>3, <2>1, <2>6 DEF OnItsWay
  <2>14. Delivers(ch', S, x, tasks', data', sent', got')
    BY <1>1, <1>8, <1>10, <2>8, <2>12, <2>13 DEF Delivers, Streams
  <2> QED BY <2>5, <2>11, <2>14, ReceiverPiped
<1> QED BY <1>4, <1>9, <1>10 DEF Drain

LEMMA RecvLaunchRun ==
  ASSUME Sound, Piped, RecvLaunch
  PROVE  Piped'
<1> DEFINE S == strand["sender"]
           R == strand["receiver"]
           r == R.read
           p == MainOf(ch, R).pipe
           x == [At("receiver", "running") EXCEPT !.read = NoReader, !.prog = r.pipe]
<1>1. RunFacts /\ R.pc = "cloning" /\ UNCHANGED <<tasks, data, sent, got>> /\ Become("receiver", x)
  BY SoundRun DEF RecvLaunch
<1>2. /\ ch \in ChannelType /\ R \in StrandType /\ r \in ReaderType /\ ~ch.recvClosed
      /\ R.script = <<"run">>
  BY <1>1 DEF RunFacts, StrandType
<1>3. AtFacts("receiver", "running")
  BY AtTypes DEF Pcs, Strands
<1>4. x.pc = "running" /\ x.prog = r.pipe /\ x.script = R.script
  BY <1>3 DEF AtFacts, StrandType
<1>5. Is(ch', ch.state, ch.buffered, ch.send, RecvEnd("present", r), ch.sendClosed, ch.recvClosed)
  BY <1>2, RestoreRecvIs DEF RecvLaunch
<1> HIDE DEF x
<1>6. /\ ch'.state = ch.state /\ ch'.buffered = ch.buffered /\ ch'.send = ch.send
      /\ ch'.sendClosed = ch.sendClosed /\ ~ch'.recvClosed
  BY <1>2, <1>5 DEF Is
<1>7. MainOf(ch', x) = MainOf(ch, R) /\ OldOf(S, x) = OldOf(S, R)
  BY <1>1, <1>4 DEF MainOf, OldOf
<1>8. OnRun(ch, S, R, tasks) /\ SendSide(ch, S, p) /\ Stage(ch, S, R, tasks, p)
  BY DEF Piped, OnRun
<1>9. SendSide(ch', S, p)
  BY <1>6, <1>8 DEF SendSide
<1>10. Stage(ch', S, x, tasks', p)
  <2>1. CASE Pipes(ch, S, R, tasks, p)
    <3>1. Linked(ch', S, tasks', p)
      BY <1>1, <1>6, <2>1 DEF Pipes, Linked
    <3> QED BY <1>1, <1>4, <1>6, <2>1, <3>1 DEF Stage, Pipes
  <2>2. CASE Joined(ch, R, tasks)
    BY <1>1, <1>4, <1>6, <2>2 DEF Stage, Joined
  <2> QED BY <1>1, <1>8, <2>1, <2>2 DEF Stage, Waits, Drains
<1>11. OnRun(ch', S, x, tasks')
  BY <1>2, <1>4, <1>6, <1>7, <1>9, <1>10 DEF OnRun
<1>12. Delivers(ch', S, x, tasks', data', sent', got')
  BY <1>1, <1>6, <1>7 DEF Piped, Delivers, OnItsWay
<1> QED BY <1>1, <1>11, <1>12, ReceiverPiped

\* The pipe the program reads.
LEMMA ProgramReads ==
  ASSUME Sound, Piped, strand["receiver"].pc = "running"
  PROVE  LET p == strand["receiver"].prog
             m == MainOf(ch, strand["receiver"])
         IN  /\ p \in 1..MaxPipes /\ m = Reader(p, <<>>) /\ m.pipe = p
             /\ data[p] \in Seq(Nat) /\ Str(data, m) = data[p]
             /\ OldOf(strand["sender"], strand["receiver"]) = NoReader
<1> DEFINE R == strand["receiver"]
           p == R.prog
<1>1. RunFacts
  BY SoundRun
<1>2. p \in PipeIds /\ p # NoPipe /\ data \in DataType
  BY <1>1 DEF RunFacts, StrandType, Control, ReceiverOK
<1>3. MainOf(ch, R) = Reader(p, <<>>) /\ Reader(p, <<>>).pipe = p
  BY DEF MainOf, Reader
<1>4. p \in 1..MaxPipes
  BY <1>2, PipeIdsFact
<1>5. Str(data, Reader(p, <<>>)) = data[p] /\ data[p] \in Seq(Nat)
  BY <1>2, <1>4, StrOfEmpty DEF DataType
<1>6. OldOf(strand["sender"], R) = NoReader
  BY <1>1 DEF RunFacts
<1> QED BY <1>3, <1>4, <1>5, <1>6

LEMMA RecvProgramRun ==
  ASSUME Sound, Piped, RecvProgram
  PROVE  Piped'
<1> DEFINE S == strand["sender"]
           R == strand["receiver"]
           p == R.prog
           m == MainOf(ch, R)
           y == data[p]
<1>1. /\ RunFacts /\ R.pc = "running" /\ y # <<>> /\ UNCHANGED <<ch, strand, tasks, sent>>
      /\ got' = Append(got, Head(y)) /\ data' = [data EXCEPT ![p] = Tail(@)]
  BY SoundRun DEF RecvProgram
<1>2. /\ p \in 1..MaxPipes /\ m = Reader(p, <<>>) /\ y \in Seq(Nat) /\ Str(data, m) = y
      /\ OldOf(S, R) = NoReader
  BY <1>1, ProgramReads
<1>3. Tail(y) \in Seq(Nat) /\ data \in DataType /\ Str(data, NoReader) = <<>>
  BY <1>1, <1>2, StrOfEmpty DEF RunFacts
<1>4. data' \in DataType /\ data'[p] = Tail(y)
  BY <1>1, <1>2, <1>3 DEF DataType
<1>5. Str(data', m) = Tail(y) /\ Str(data', NoReader) = <<>>
  BY <1>2, <1>4, StrOfEmpty
<1>6. PICK v \in Nat : OnItsWay(ch, S, tasks, v) /\ Whole(got, y, <<>>, v, sent)
  BY <1>2, <1>3 DEF Piped, Delivers
<1> HIDE DEF y
<1>7. Whole(Append(got, Head(y)), Tail(y), <<>>, v, sent)
  <2>1. got \in Seq(Nat) /\ sent \in Nat /\ <<>> \in Seq(Nat)
    BY <1>1 DEF RunFacts
  <2> QED BY <1>1, <1>2, <1>6, <2>1, WholeRead
<1>8. Delivers(ch, S, R, tasks, data', sent, got')
  BY <1>1, <1>2, <1>5, <1>6, <1>7 DEF Delivers
<1>9. OnRun(ch, S, R, tasks)
  BY DEF Piped
<1> QED BY <1>1, <1>8, <1>9 DEF Piped

\* The task hands the stale value on, and the write end with it.
LEMMA TaskWriteRun ==
  ASSUME Sound, Piped, NEW t \in tasks, TaskWrite(t)
  PROVE  Piped'
<1> DEFINE S == strand["sender"]
           R == strand["receiver"]
           m == MainOf(ch, R)
           p == t.pipe
<1>1. RunFacts /\ Streams
  BY SoundRun, SoundStreams
<1>2. OnRun(ch, S, R, tasks) /\ SendSide(ch, S, m.pipe) /\ Pipes(ch, S, R, tasks, m.pipe)
  BY DEF Piped, OnRun, Stage, Waits, Drains, Joined
<1>3. PICK v \in Nat : /\ OnItsWay(ch, S, tasks, v)
                       /\ Whole(got, Str(data, m), Str(data, OldOf(S, R)), v, sent)
  BY DEF Piped, Delivers
<1>4. v # 0 /\ tasks = {t} /\ t.item = v /\ S.pc # "flushing" /\ ch.buffered = 0
  BY <1>3 DEF OnItsWay
<1>5. ch.state = "RecvPipe" /\ p = m.pipe /\ R.pc \in {"cloning", "running"}
  BY <1>2 DEF Pipes
<1>6. HasReader(p) /\ p \in 1..MaxPipes /\ p \in PipeIds /\ m \in ReaderType
  BY <1>5, PipedHasReader, PipeIdsFact
<1>7. /\ Write(p, t.item) /\ tasks' = {} /\ ch' = RestoreSend(ch, p)
      /\ UNCHANGED <<strand, pipes, sent, got>>
  BY <1>4, <1>6 DEF TaskWrite
<1>8. RestoresSend(ch, ch', p)
  BY <1>1, <1>6, <1>7, RestoreSendIs DEF RunFacts
<1>9. PICK snd : /\ Is(ch', ch.state, ch.buffered, snd, ch.recv, ch.sendClosed, ch.recvClosed)
                 /\ ~ch.sendClosed => snd = SendEnd("present", p)
  BY <1>5, <1>8 DEF RestoresSend
<1>10. /\ ch'.state = "RecvPipe" /\ ch'.buffered = 0 /\ ch'.send = snd /\ ~ch'.recvClosed
       /\ ch'.sendClosed = ch.sendClosed /\ ch'.recv = ch.recv
  BY <1>1, <1>4, <1>5, <1>9 DEF Is, RunFacts
<1>11. MainOf(ch', R) = m /\ OldOf(S, R) = NoReader
  BY <1>1, <1>5, <1>10 DEF MainOf, RunFacts
<1>12. SendSide(ch', S, m.pipe)
  BY <1>2, <1>5, <1>10 DEF SendSide
<1>13. Linked(ch', S, {}, m.pipe)
  <2>1. ch.sendClosed \/ S.pc # "writing"
    BY <1>2, <1>4 DEF Pipes, Linked
  <2> QED BY <1>5, <1>9, <1>10, <2>1, EndParts DEF Linked
<1>14. OnRun(ch', S, R, {})
  <2>1. Pipes(ch', S, R, {}, m.pipe)
    BY <1>5, <1>10, <1>13 DEF Pipes
  <2> QED BY <1>1, <1>10, <1>11, <1>12, <2>1 DEF OnRun, Stage, RunFacts
<1>15. Str(data', m) = Append(Str(data, m), v) /\ Str(data', NoReader) = <<>>
  <2>1. WriteFacts(data, data', p, v)
    BY <1>1, <1>4, <1>6, <1>7, StrWrite DEF Write, RunFacts
  <2> QED BY <1>5, <1>6, <2>1, StrOfEmpty DEF WriteFacts
<1>16. Whole(got, Append(Str(data, m), v), <<>>, 0, sent)
  <2>1. Whole(got, Str(data, m), <<>>, v, sent)
    BY <1>1, <1>3, <1>11 DEF Streams
  <2> QED BY <1>1, <1>4, <2>1, WholeFlush DEF RunFacts, Streams
<1>17. OnItsWay(ch', S, {}, 0)
  BY <1>4, <1>10 DEF OnItsWay
<1>18. Delivers(ch', S, R, {}, data', sent, got)
  BY <1>11, <1>15, <1>16, <1>17 DEF Delivers
<1> QED BY <1>7, <1>14, <1>18 DEF Piped

\* The program exits: nobody can write any more, and it has read everything.
LEMMA RecvExitRun ==
  ASSUME Sound, Piped, RecvExit
  PROVE  Drained'
<1> DEFINE S == strand["sender"]
           R == strand["receiver"]
           p == R.prog
           m == MainOf(ch, R)
           x == Done("receiver")
<1>1. RunFacts /\ R.pc = "running" /\ UNCHANGED <<tasks, data, sent, got>> /\ Streams
  BY SoundRun, SoundStreams DEF RecvExit
<1>2. /\ ch \in ChannelType /\ R.script = <<"run">> /\ (ch.sendClosed => S.pc = "closed")
      /\ R \in StrandType /\ sent \in Nat /\ got \in Seq(Nat)
  BY <1>1 DEF RunFacts
<1>3. p \in 1..MaxPipes /\ m.pipe = p /\ Str(data, m) = data[p] /\ OldOf(S, R) = NoReader
  BY <1>1, ProgramReads
<1>4. data[p] = <<>> /\ ~HasWriter(p) /\ RecvGuardDrop(ch, x)
  BY <1>2 DEF RecvExit, Op
<1>5. OnRun(ch, S, R, tasks) /\ SendSide(ch, S, p) /\ Stage(ch, S, R, tasks, p)
  BY <1>3 DEF Piped, OnRun
<1>6. S.pc \notin Programming /\ S.pc # "writing"
  <2>1. S.pc \in Programming => Held(S) # p
    BY <1>4 DEF HasWriter, Held, Strands, Programming
  <2>2. S.write # p
    BY <1>4 DEF HasWriter, Strands
  <2> QED BY <1>5, <2>1, <2>2 DEF SendSide
<1>7. Pipes(ch, S, R, tasks, p)
  <2>1. ch.state # "Direct"
    BY <1>5, <1>6 DEF SendSide
  <2> QED BY <1>1, <1>5, <2>1 DEF Stage, Waits, Drains, Joined
<1>8. tasks = {} /\ ch.state = "RecvPipe"
  BY <1>4, <1>7 DEF Pipes, HasWriter
<1>9. ch.sendClosed \/ (ch.send.is = "absent" /\ Cool(S))
  BY <1>4, <1>6, <1>7, <1>8 DEF Pipes, Linked, HasWriter
<1>10. ch' = RecvDone(ch) /\ Become("receiver", x)
  BY <1>4, <1>8 DEF RecvGuardDrop, MayRecvDone
<1>11. S.pc = "closed" \/ (ch'.state = "Draining" /\ Cool(S))
  <2>1. CASE ch.sendClosed
    BY <1>2, <2>1
  <2>2. CASE ~ch.sendClosed
    <3> DEFINE e == [ch EXCEPT !.state = "Draining"]
    <3>1. ch' = WakeReceivers(WakeNegotiators(e))
      BY <1>8, <1>9, <1>10, <2>2 DEF RecvDone
    <3>2. Is(e, "Draining", ch.buffered, ch.send, ch.recv, ch.sendClosed, ch.recvClosed)
      BY <1>2, IsExcept DEF States
    <3> HIDE DEF e
    <3>3. ch'.state = "Draining"
      BY <3>1, <3>2, IsWake DEF Is
    <3> QED BY <1>9, <2>2, <3>3
  <2> QED BY <2>1, <2>2
<1>12. x.script = <<>> /\ x.pc = "idle"
  BY <1>2 DEF Done, StrandType
<1> HIDE DEF x
<1>13. Over(ch', S, x, tasks')
  BY <1>1, <1>8, <1>11, <1>12 DEF Over
<1>14. Whole(got, <<>>, <<>>, 0, sent)
  <2>1. S.pc # "flushing" /\ ch.buffered = 0 /\ Str(data, NoReader) = <<>>
    BY <1>1, <1>6, <1>8 DEF Programming, RunFacts, Streams
  <2> QED BY <1>3, <1>4, <1>8, <2>1 DEF Piped, Delivers, OnItsWay
<1>15. got' = [i \in 1..sent' |-> i]
  BY <1>1, <1>2, <1>14, WholeEnd
<1>16. strand'["receiver"] = x /\ strand'["sender"] = S
  BY <1>10 DEF Become, Sound, Strands
<1> QED BY <1>13, <1>15, <1>16 DEF Drained

\* The program is the receiver's only operation.
LEMMA NoOthersRun ==
  ASSUME Sound, Piped
  PROVE  ~Next1 /\ ~NextRead /\ ~Drain("sender") /\ ~CloseStage("receiver")
<1> DEFINE S == strand["sender"]
           R == strand["receiver"]
<1>1. /\ R.script = <<"run">> /\ S.pc # "draining"
      /\ R.pc \in {"idle", "opening", "negotiating", "draining", "cloning", "running"}
  BY SoundRun DEF RunFacts
<1>2. ~Next1
  BY <1>1 DEF Next1, Starts, Resumes, Op, Reads
<1>3. R.script # <<>>
  BY <1>1
<1> QED BY <1>1, <1>2, <1>3 DEF NextRead, Drain, CloseStage

LEMMA StepPiped ==
  ASSUME Sound, Piped, Next
  PROVE  Piped' \/ Drained'
<1>1. CASE \E s \in Strands : Negotiate(s) \/ Opened(s) \/ Drain(s) \/ CloseStage(s)
  BY <1>1, NoOthersRun, SendNegotiateRun, SenderOpenedRun, SenderCloseRun, RecvNegotiateRun,
     ReceiverOpenedRun, ReceiverDrainRun DEF Strands
<1>2. CASE Put \/ PutWrite \/ Flush \/ Next1 \/ NextRead
  BY <1>2, NoOthersRun, PutRun, PutWriteRun, FlushRun
<1>3. CASE \E t \in tasks : TaskWrite(t)
  BY <1>3, TaskWriteRun
<1>4. CASE Programs
  BY <1>4, SendLaunchRun, SendProgramRun, SendExitRun, RecvLaunchRun, RecvProgramRun,
     RecvExitRun DEF Programs
<1> QED BY <1>1, <1>2, <1>3, <1>4 DEF Next

\* After that only the ends of the two stages are left, and values nobody takes.
LEMMA StepDrained ==
  ASSUME Sound, Drained, Next
  PROVE  Drained'
<1> DEFINE S == strand["sender"]
           R == strand["receiver"]
<1>1. /\ R.script = <<>> /\ R.pc \in {"idle", "closed"} /\ tasks = {}
      /\ S.pc = "closed" \/ (ch.state = "Draining" /\ Cool(S))
  BY DEF Drained, Over
<1>2. S.pc \in {"idle", "parked", "failed", "closed"} /\ (S.pc = "idle" /\ S.script # <<>> => Op("sender") = "put")
  BY <1>1 DEF Cool, Op
<1>3. /\ ~PutWrite /\ ~Next1 /\ ~NextRead /\ ~Flush /\ ~Programs /\ ~(\E t \in tasks : TaskWrite(t))
      /\ ~Negotiate("sender") /\ ~Opened("sender") /\ ~Drain("sender")
      /\ ~Negotiate("receiver") /\ ~Opened("receiver") /\ ~Drain("receiver")
  <2>1. ~Negotiate("sender") /\ ~Negotiate("receiver")
    BY <1>1, <1>2 DEF Negotiate, Starts
  <2>2. ~Next1
    BY <1>1 DEF Next1, Starts, Resumes
  <2> QED BY <1>1, <1>2, <2>1, <2>2
       DEF PutWrite, NextRead, Flush, Programs, SendLaunch, SendProgram, SendExit, RecvLaunch,
           RecvProgram, RecvExit, Opened, Drain
<1>4. CASE Put
  <2>1. ch.state = "Draining" /\ Cool(S) /\ UNCHANGED <<tasks, got>> /\ ch \in ChannelType
    BY <1>1, <1>4, SoundTypes DEF Put, Starts, Resumes
  <2>2. ASSUME NEW c, Same(ch, c), PutTurn(c) PROVE Drained'
    <3>1. c.state = "Draining" /\ c \in ChannelType
      BY <2>1, <2>2 DEF Same
    <3>2. CASE ch' = c /\ Become("sender", Failed("sender")) /\ UNCHANGED sent
      <4>1. Cool(Failed("sender"))
        BY FailedCool
      <4>2. strand'["sender"] = Failed("sender") /\ strand'["receiver"] = R
        BY <3>2 DEF Become, Sound, Strands
      <4> QED BY <1>1, <2>1, <3>1, <3>2, <4>1, <4>2 DEF Drained, Over
    <3>3. CASE /\ ch' = [c EXCEPT !.sendWakers = {"sender"}] /\ UNCHANGED sent
               /\ Become("sender", At("sender", "parked"))
      <4>1. At("sender", "parked").pc = "parked" /\ At("sender", "parked").script = S.script
        BY AtTypes DEF AtFacts, Pcs, Strands
      <4>2. Cool(At("sender", "parked"))
        BY <2>1, <4>1 DEF Cool
      <4>3. strand'["sender"] = At("sender", "parked") /\ strand'["receiver"] = R
        BY <3>3 DEF Become, Sound, Strands
      <4>4. ch'.state = "Draining"
        BY <3>1, <3>3, SameWaiting DEF Same, Strands
      <4> QED BY <1>1, <2>1, <3>3, <4>2, <4>3, <4>4 DEF Drained, Over
    <3> QED BY <2>2, <3>1, <3>2, <3>3 DEF PutTurn
  <2>3. Same(ch, ch) /\ Same(ch, Awake("sender"))
    BY <2>1, AwakeGood DEF Same, Strands
  <2>4. CASE ch' = [Awake("sender") EXCEPT !.sendWakers = {"sender"}] /\ UNCHANGED <<strand, sent>>
    <3>1. Same(ch, ch')
      BY <2>3, <2>4, SameWaiting, SameTransitive DEF Same, Strands
    <3> QED BY <1>1, <2>1, <2>4, <3>1 DEF Drained, Over, Same
  <2> QED BY <1>4, <2>2, <2>3, <2>4 DEF Put
<1>5. CASE CloseStage("sender")
  <2>1. At("sender", "closed").pc = "closed"
    BY AtTypes DEF AtFacts, Pcs, Strands
  <2>2. strand'["sender"] = At("sender", "closed") /\ strand'["receiver"] = R
    BY <1>5 DEF CloseStage, Become, Sound, Strands
  <2> QED BY <1>1, <1>5, <2>1, <2>2 DEF Drained, Over, CloseStage
<1>6. CASE CloseStage("receiver")
  <2>1. At("receiver", "closed").pc = "closed" /\ At("receiver", "closed").script = <<>>
    BY <1>1, AtTypes DEF AtFacts, Pcs, Strands
  <2>2. strand'["receiver"] = At("receiver", "closed") /\ strand'["sender"] = S
    BY <1>6 DEF CloseStage, Become, Sound, Strands
  <2>3. ch \in ChannelType
    BY SoundTypes
  <2>4. Is([ch EXCEPT !.recvClosed = TRUE, !.recv = NoRecv],
           ch.state, ch.buffered, ch.send, NoRecv, ch.sendClosed, TRUE)
    BY <2>3, IsExcept
  <2>5. ch'.state = ch.state
    <3>1. ch' = WakeAll([ch EXCEPT !.recvClosed = TRUE, !.recv = NoRecv])
      BY <1>6 DEF CloseStage, CloseRecv
    <3>2. Is(ch', ch.state, ch.buffered, ch.send, NoRecv, ch.sendClosed, TRUE)
      BY <2>4, <3>1, IsWake
    <3> QED BY <3>2 DEF Is
  <2> QED BY <1>1, <1>6, <2>1, <2>2, <2>5 DEF Drained, Over, CloseStage
<1> QED BY <1>3, <1>4, <1>5, <1>6 DEF Next, Strands

\* The stages this part is about.
RunsOnce == plan[2] = <<"run">> /\ Apart(plan[1])

LEMMA InitRun ==
  ASSUME Init, RunsOnce
  PROVE  Piped
<1> DEFINE S == strand["sender"]
           R == strand["receiver"]
<1>1. Idle.pc = "idle" /\ Idle.script = <<>>
  BY DEF Idle
<1>2. /\ S.pc = "idle" /\ R.pc = "idle" /\ R.script = <<"run">> /\ S.script = plan[1]
      /\ tasks = {} /\ sent = 0 /\ got = <<>>
  BY <1>1 DEF Init, Strands, RunsOnce, Idle
<1>3. ch.state = "Value" /\ ~ch.recvClosed /\ ch.recv.is = "absent" /\ ch.buffered = 0
  BY DEF Init
<1>4. MainOf(ch, R) = NoReader /\ OldOf(S, R) = NoReader
  BY <1>2, <1>3 DEF MainOf, OldOf
<1>5. SendSide(ch, S, MainOf(ch, R).pipe)
  BY <1>2, <1>3 DEF SendSide, Programming, RunsOnce
<1>6. OnRun(ch, S, R, tasks)
  BY <1>2, <1>3, <1>5 DEF OnRun, Stage, Waits
<1>7. Str(data, NoReader) = <<>>
  BY InitSound, SoundStreams DEF Inv, Streams
<1>8. Whole(<<>>, <<>>, <<>>, 0, 0)
  BY NoItems DEF Whole, Numbered
<1>9. Delivers(ch, S, R, tasks, data, sent, got)
  BY <1>2, <1>3, <1>4, <1>7, <1>8 DEF Delivers, OnItsWay
<1> QED BY <1>6, <1>9 DEF Piped

LEMMA RunEnds ==
  ASSUME Sound, Piped \/ Drained
  PROVE  NoPanic /\ NothingLost
<1> DEFINE S == strand["sender"]
           R == strand["receiver"]
<1>1. CASE Piped
  <2>1. /\ S.pc # "panicked"
        /\ R.pc \in {"idle", "opening", "negotiating", "draining", "cloning", "running"}
    BY <1>1, SoundRun DEF RunFacts
  <2> QED BY <2>1 DEF NoPanic, NothingLost, Ended, Strands
<1>2. CASE Drained
  <2>1. /\ S.pc # "panicked" /\ R.pc \in {"idle", "closed"} /\ got = [i \in 1..sent |-> i]
    BY <1>2 DEF Drained, Over, Cool
  <2> QED BY <2>1 DEF NoPanic, NothingLost, Strands
<1> QED BY <1>1, <1>2

\* A program downstream that reads its input to the end receives every item,
\* when the stage upstream puts a value between any two programs of its own:
\* the values buffered or put before it starts, what they write to the pipe it
\* negotiates, and the output of the programs upstream that share the pipe with
\* it.  It sees the end of file only after the last of them, and neither stage
\* meets an absent end or an unreachable state on the way (pipe_channel.rs,
\* negotiate_recv, drain_pipe, negotiate_send, the task that writes a buffered
\* value, recv_done and send_done).
THEOREM ProgramReadsEverything == Spec => [](RunsOnce => NoPanic /\ NothingLost)
<1> DEFINE J == Inv /\ (RunsOnce => Piped \/ Drained)
<1>1. Init => J
  BY InitSound, InitRun
<1>2. J /\ [Next]_vars => J'
  <2> SUFFICES ASSUME J, [Next]_vars PROVE J'
    OBVIOUS
  <2>1. Inv' /\ Sound
    BY StepInv DEF Inv
  <2>2. CASE Next
    <3>1. RunsOnce' => RunsOnce
      BY <2>2 DEF Next, RunsOnce
    <3>2. RunsOnce => (Piped \/ Drained)'
      BY <2>1, <2>2, StepPiped, StepDrained
    <3> QED BY <2>1, <3>1, <3>2
  <2>3. CASE UNCHANGED vars
    <3>1. (RunsOnce' => RunsOnce) /\ (Piped => Piped') /\ (Drained => Drained')
      BY <2>3 DEF vars, RunsOnce, Piped, Drained
    <3> QED BY <2>1, <3>1
  <2> QED BY <2>2, <2>3
<1>3. J => (RunsOnce => NoPanic /\ NothingLost)
  BY RunEnds DEF Inv
<1> QED BY <1>1, <1>2, <1>3, PTL DEF Spec

\* Only two programs in a row upstream of a program can lose an item: with any
\* other two stages, a downstream stage that reads to the end has received every
\* item when both have ended (pipe_channel.rs, the changes of state and what they
\* do with the bytes of the state before).
THEOREM NothingIsLost == Spec => [](plan[2] # <<"run">> \/ Apart(plan[1]) => NothingLost)
<1>1. /\ (ReadsAll => NoPanic /\ Everything) /\ (RunsOnce => NoPanic /\ NothingLost)
      => (plan[2] # <<"run">> \/ Apart(plan[1]) => NothingLost)
  <2> SUFFICES ASSUME ReadsAll => NoPanic /\ Everything, RunsOnce => NoPanic /\ NothingLost,
                      plan[2] # <<"run">> \/ Apart(plan[1]), Ended, ReadsToTheEnd
               PROVE  got = [i \in 1..sent |-> i]
    BY DEF NothingLost
  <2>1. CASE plan[2] = <<"all">>
    <3>1. Streaming(<<"all">>)
      BY DEF Streaming, Reads
    <3> QED BY <2>1, <3>1 DEF ReadsAll, Everything
  <2>2. CASE plan[2] = <<"run">>
    BY <2>2 DEF RunsOnce, NothingLost
  <2> QED BY <2>1, <2>2 DEF ReadsToTheEnd
<1> QED BY <1>1, AllIsEverything, ProgramReadsEverything, PTL
=============================================================================
