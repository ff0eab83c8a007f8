------------------------ MODULE OpaqueSessionProofs -------------------------
(***************************************************************************)
(* That the grants of an opaque resource balance, and what follows from    *)
(* it, for any number of gifts and citations and any ceilings of the       *)
(* counts.                                                                 *)
(***************************************************************************)
EXTENDS OpaqueSession, FiniteSetTheorems, SequenceTheorems, TLAPS

-----------------------------------------------------------------------------
(***************************************************************************)
(* Totals as sizes of sets: how they change when one entry of a function   *)
(* changes, and when a sequence grows or shrinks.                          *)
(***************************************************************************)

\* The unit bytes of a bounded function.
LEMMA UnitsMember ==
  ASSUME NEW S, NEW B \in Nat, NEW f \in [S -> 0..B]
  PROVE  \A u : u \in Units(f) <=> u \in S \X (1..B) /\ u[2] <= f[u[1]]
<1>1. ASSUME NEW u \in Units(f) PROVE u \in S \X (1..B) /\ u[2] <= f[u[1]]
  <2>1. PICK m \in S : u \in {m} \X (1..f[m])
    BY <1>1 DEF Units
  <2>2. f[m] \in 0..B
    OBVIOUS
  <2>3. u[1] = m /\ u[2] \in 1..f[m] /\ u = <<u[1], u[2]>>
    BY <2>1
  <2>4. u[2] \in 1..B
    BY <2>2, <2>3
  <2> QED BY <2>3, <2>4
<1>2. ASSUME NEW u \in S \X (1..B), u[2] <= f[u[1]] PROVE u \in Units(f)
  <2>1. u[1] \in S /\ u[2] \in 1..f[u[1]] /\ u = <<u[1], u[2]>>
    <3>1. u[1] \in S /\ u[2] \in 1..B /\ u[2] <= f[u[1]] /\ u = <<u[1], u[2]>>
      BY <1>2
    <3>2. f[u[1]] \in 0..B
      BY <3>1
    <3> QED BY <3>1, <3>2
  <2>2. u \in {u[1]} \X (1..f[u[1]])
    BY <2>1
  <2> QED BY <2>1, <2>2 DEF Units
<1> QED BY <1>1, <1>2

\* The total of a bounded function on a finite set is a natural number.
LEMMA UnitsFinite ==
  ASSUME NEW S, IsFiniteSet(S), NEW B \in Nat, NEW f \in [S -> 0..B]
  PROVE  IsFiniteSet(Units(f)) /\ Total(f) \in Nat
<1>0. IsFiniteSet(1..B)
  BY FS_Interval
<1>1. IsFiniteSet(S \X (1..B))
  BY <1>0, FS_Product
<1>2. Units(f) \in SUBSET (S \X (1..B))
  BY UnitsMember
<1>3. IsFiniteSet(Units(f))
  BY <1>1, <1>2, FS_Subset
<1> QED BY <1>3, FS_CardinalityType DEF Total

\* The unit bytes of one message of a function.
LEMMA ColumnCardinality ==
  ASSUME NEW m, NEW v \in Nat
  PROVE  IsFiniteSet({m} \X (1..v)) /\ Cardinality({m} \X (1..v)) = v
<1>1. IsFiniteSet(1..v) /\ Cardinality(1..v) = v
  BY FS_Interval
<1>2. IsFiniteSet({m}) /\ Cardinality({m}) = 1
  BY FS_Singleton
<1> QED BY <1>1, <1>2, FS_Product

\* Changing one value changes the total by as much.
LEMMA TotalUpdate ==
  ASSUME NEW S, IsFiniteSet(S), NEW B \in Nat, NEW f \in [S -> 0..B],
         NEW g \in [S -> 0..B], NEW m \in S, \A j \in S : j # m => g[j] = f[j]
  PROVE  Total(g) = Total(f) - f[m] + g[m]
<1> DEFINE v == g[m]
<1> DEFINE Rest == {u \in Units(f) : u[1] # m}
<1>1. f[m] \in 0..B /\ v \in 0..B
  OBVIOUS
<1>0. /\ \A u : u \in Units(f) <=> u \in S \X (1..B) /\ u[2] <= f[u[1]]
      /\ \A u : u \in Units(g) <=> u \in S \X (1..B) /\ u[2] <= g[u[1]]
  BY UnitsMember
<1>2. IsFiniteSet(Rest)
  <2>1. IsFiniteSet(Units(f))
    BY UnitsFinite
  <2>2. Rest \in SUBSET Units(f)
    OBVIOUS
  <2> QED BY <2>1, <2>2, FS_Subset
<1>3. Units(f) = Rest \cup ({m} \X (1..f[m]))
  <2>1. ASSUME NEW u \in Units(f), u[1] = m PROVE u \in {m} \X (1..f[m])
    <3>1. u \in S \X (1..B) /\ u[2] <= f[u[1]]
      BY <1>0, <2>1
    <3> QED BY <1>1, <2>1, <3>1
  <2>2. ASSUME NEW u \in {m} \X (1..f[m]) PROVE u \in Units(f)
    BY <2>2, <1>1 DEF Units
  <2> QED BY <2>1, <2>2
<1>4. Units(g) = Rest \cup ({m} \X (1..v))
  <2>1. ASSUME NEW u \in Units(g) PROVE u \in Rest \cup ({m} \X (1..v))
    <3>1. u \in S \X (1..B) /\ u[2] <= g[u[1]]
      BY <1>0, <2>1
    <3>2. CASE u[1] = m
      <4>1. g[u[1]] = v
        BY <3>2
      <4> QED BY <3>1, <3>2, <4>1
    <3>3. CASE u[1] # m
      <4>1. u[1] \in S
        BY <3>1
      <4>2. g[u[1]] = f[u[1]]
        BY <3>3, <4>1
      <4>3. u \in Units(f)
        BY <1>0, <3>1, <4>2
      <4> QED BY <3>3, <4>3
    <3> QED BY <3>2, <3>3
  <2>2. ASSUME NEW u \in Rest PROVE u \in Units(g)
    <3>1. u \in S \X (1..B) /\ u[2] <= f[u[1]] /\ u[1] # m
      BY <1>0, <2>2
    <3>2. g[u[1]] = f[u[1]]
      BY <3>1
    <3> QED BY <1>0, <3>1, <3>2
  <2>3. ASSUME NEW u \in {m} \X (1..v) PROVE u \in Units(g)
    <3>1. m \in DOMAIN g /\ g[m] = v
      OBVIOUS
    <3> QED BY <2>3, <3>1 DEF Units
  <2> QED BY <2>1, <2>2, <2>3
<1>5. ASSUME NEW n \in Nat
      PROVE  Cardinality(Rest \cup ({m} \X (1..n))) = Cardinality(Rest) + n
  <2>1. Rest \cap ({m} \X (1..n)) = {}
    OBVIOUS
  <2>2. IsFiniteSet({m} \X (1..n)) /\ Cardinality({m} \X (1..n)) = n
    BY ColumnCardinality
  <2>3. Cardinality(Rest) \in Nat
    BY <1>2, FS_CardinalityType
  <2>4. Cardinality(Rest \cup ({m} \X (1..n)))
          = Cardinality(Rest) + Cardinality({m} \X (1..n)) - Cardinality({})
    BY <1>2, <2>1, <2>2, FS_Union
  <2> QED BY <2>2, <2>3, <2>4, FS_EmptySet
<1>6. Total(f) = Cardinality(Rest) + f[m]
  BY <1>1, <1>3, <1>5 DEF Total
<1>7. Total(g) = Cardinality(Rest) + v
  <2>1. v \in Nat
    BY <1>1
  <2> HIDE DEF v, Rest
  <2> QED BY <1>4, <1>5, <2>1 DEF Total
<1>8. Cardinality(Rest) \in Nat
  BY <1>2, FS_CardinalityType
<1> QED BY <1>1, <1>6, <1>7, <1>8

\* No message owes more than all of them together.
LEMMA TotalBound ==
  ASSUME NEW S, IsFiniteSet(S), NEW B \in Nat, NEW f \in [S -> 0..B], NEW m \in S
  PROVE  f[m] <= Total(f)
<1> DEFINE g == [f EXCEPT ![m] = 0]
<1>1. g \in [S -> 0..B] /\ g[m] = 0 /\ \A j \in S : j # m => g[j] = f[j]
  OBVIOUS
<1> HIDE DEF g
<1>2. Total(g) = Total(f) - f[m] + g[m]
  BY <1>1, TotalUpdate
<1>3. Total(g) \in Nat /\ Total(f) \in Nat
  BY <1>1, UnitsFinite
<1> QED BY <1>1, <1>2, <1>3

\* Only a function that is zero everywhere has a total of zero.
LEMMA TotalZero ==
  ASSUME NEW S, IsFiniteSet(S), NEW B \in Nat, NEW f \in [S -> 0..B]
  PROVE  Total(f) = 0 <=> \A m \in S : f[m] = 0
<1>1. ASSUME Total(f) = 0, NEW m \in S PROVE f[m] = 0
  <2>1. f[m] <= Total(f) /\ f[m] \in 0..B
    BY TotalBound
  <2> QED BY <1>1, <2>1
<1>2. ASSUME \A m \in S : f[m] = 0 PROVE Total(f) = 0
  <2>1. \A u : u \in Units(f) <=> u \in S \X (1..B) /\ u[2] <= f[u[1]]
    BY UnitsMember
  <2>2. \A u \in S \X (1..B) : f[u[1]] = 0 /\ u[2] \in 1..B
    BY <1>2
  <2>3. Units(f) = {}
    BY <2>1, <2>2
  <2> QED BY <2>3, FS_EmptySet DEF Total
<1> QED BY <1>1, <1>2

\* A sequence of numbers is a bounded function on a finite set.
LEMMA SeqIsFunction ==
  ASSUME NEW B \in Nat, NEW s \in Seq(0..B)
  PROVE  /\ s \in [1..Len(s) -> 0..B] /\ Len(s) \in Nat
         /\ IsFiniteSet(1..Len(s)) /\ IsFiniteSet(Units(s)) /\ Total(s) \in Nat
<1>1. s \in [1..Len(s) -> 0..B] /\ Len(s) \in Nat
  OBVIOUS
<1>2. IsFiniteSet(1..Len(s))
  BY <1>1, FS_Interval
<1> QED BY <1>1, <1>2, UnitsFinite

\* The total of a sequence that grows.
LEMMA TotalAppend ==
  ASSUME NEW B \in Nat, NEW s \in Seq(0..B), NEW v \in 0..B
  PROVE  Total(Append(s, v)) = Total(s) + v
<1> DEFINE n == Len(s) + 1
           t == Append(s, v)
           C == {n} \X (1..v)
<1>1. /\ s \in [1..Len(s) -> 0..B] /\ Len(s) \in Nat
      /\ IsFiniteSet(Units(s)) /\ Total(s) \in Nat
  BY SeqIsFunction
<1>2. t \in [1..n -> 0..B] /\ t[n] = v /\ (\A i \in 1..Len(s) : t[i] = s[i])
  <2>1. t \in Seq(0..B) /\ Len(t) = n
    OBVIOUS
  <2>2. t \in [1..n -> 0..B]
    BY <2>1, SeqIsFunction
  <2>3. t[n] = v /\ (\A i \in 1..Len(s) : t[i] = s[i])
    OBVIOUS
  <2> QED BY <2>2, <2>3
<1>3. DOMAIN s = 1..Len(s) /\ DOMAIN t = 1..n /\ 1..n = (1..Len(s)) \cup {n} /\ n \notin 1..Len(s)
  BY <1>1, <1>2
<1> HIDE DEF n, t
<1>4. Units(t) = Units(s) \cup C
  BY <1>2, <1>3 DEF Units
<1>5. Units(s) \cap C = {}
  <2>1. \A u \in Units(s) : u[1] \in 1..Len(s)
    BY <1>3 DEF Units
  <2> QED BY <1>3, <2>1
<1>6. IsFiniteSet(C) /\ Cardinality(C) = v
  <2>1. v \in Nat
    OBVIOUS
  <2> QED BY <2>1, ColumnCardinality
<1> HIDE DEF C
<1>7. Cardinality(Units(s) \cup C) = Cardinality(Units(s)) + Cardinality(C) - Cardinality(Units(s) \cap C)
  BY <1>1, <1>6, FS_Union
<1>8. Cardinality(Units(s) \cap C) = 0
  BY <1>5, FS_EmptySet
<1>9. Total(t) = Total(s) + v
  BY <1>1, <1>4, <1>6, <1>7, <1>8 DEF Total
<1> QED BY <1>9 DEF t

\* The total of a sequence that loses its head.
LEMMA TotalTail ==
  ASSUME NEW B \in Nat, NEW s \in Seq(0..B), s # <<>>
  PROVE  Total(s) = Total(Tail(s)) + Head(s)
<1> DEFINE t == Tail(s)
           C == {1} \X (1..s[1])
           Rest == {u \in Units(s) : u[1] # 1}
           f == [u \in Rest |-> <<u[1] - 1, u[2]>>]
<1>1. /\ s \in [1..Len(s) -> 0..B] /\ Len(s) \in Nat
      /\ IsFiniteSet(Units(s)) /\ Total(s) \in Nat
  BY SeqIsFunction
<1>2. /\ Len(s) # 0 /\ s[1] = Head(s) /\ s[1] \in 0..B
      /\ t \in Seq(0..B) /\ Len(t) = Len(s) - 1
      /\ \A i \in 1..Len(t) : t[i] = s[i + 1]
  OBVIOUS
<1>3. /\ t \in [1..Len(t) -> 0..B] /\ Total(t) \in Nat /\ IsFiniteSet(Units(t))
  BY <1>2, SeqIsFunction
<1>4. /\ \A u : u \in Units(s) <=> u \in (1..Len(s)) \X (1..B) /\ u[2] <= s[u[1]]
      /\ \A u : u \in Units(t) <=> u \in (1..Len(t)) \X (1..B) /\ u[2] <= t[u[1]]
  BY <1>1, <1>3, UnitsMember
<1>5. Units(s) = Rest \cup C
  <2>1. \A u \in Units(s) : u[1] = 1 => u \in C
    BY <1>2, <1>4
  <2>2. C \subseteq Units(s)
    <3>1. 1 \in DOMAIN s
      BY <1>1, <1>2
    <3> QED BY <3>1 DEF Units
  <2> QED BY <2>1, <2>2
<1>6. Rest \cap C = {} /\ Rest \subseteq Units(s)
  OBVIOUS
<1>7. IsFiniteSet(Rest) /\ Cardinality(Rest) \in Nat
  BY <1>1, <1>6, FS_Subset, FS_CardinalityType
<1> HIDE DEF t
<1>8. ASSUME NEW u \in Rest PROVE f[u] \in Units(t)
  <2>1. u \in (1..Len(s)) \X (1..B) /\ u[2] <= s[u[1]] /\ u[1] # 1
    BY <1>4
  <2> DEFINE i == u[1] - 1
  <2>2. i \in 1..Len(t) /\ i + 1 = u[1]
    <3>1. u[1] \in 1..Len(s) /\ u[1] # 1 /\ Len(s) \in Nat /\ Len(t) = Len(s) - 1
      BY <1>1, <1>2, <2>1
    <3> QED BY <3>1
  <2>3. t[i] = s[u[1]]
    BY <1>2, <2>2
  <2>4. f[u] = <<i, u[2]>> /\ u[2] \in 1..B
    BY <2>1
  <2> HIDE DEF i, f
  <2>5. f[u] \in (1..Len(t)) \X (1..B) /\ f[u][2] = u[2] /\ f[u][1] = i
    BY <2>2, <2>4
  <2> QED BY <1>4, <2>1, <2>3, <2>5
<1>9. ASSUME NEW w \in Units(t) PROVE \E u \in Rest : f[u] = w
  <2>1. w \in (1..Len(t)) \X (1..B) /\ w[2] <= t[w[1]]
    BY <1>4
  <2> DEFINE u == <<w[1] + 1, w[2]>>
  <2>2. u \in (1..Len(s)) \X (1..B) /\ u[1] # 1 /\ u[2] = w[2] /\ u[1] = w[1] + 1
    <3>1. w[1] \in 1..Len(t) /\ w[2] \in 1..B
      BY <2>1
    <3>2. w[1] + 1 \in 1..Len(s) /\ w[1] + 1 # 1
      <4>1. Len(s) \in Nat /\ Len(t) = Len(s) - 1
        BY <1>1, <1>2
      <4> QED BY <3>1, <4>1
    <3>3. u[1] = w[1] + 1 /\ u[2] = w[2]
      OBVIOUS
    <3>4. u \in (1..Len(s)) \X (1..B)
      BY <3>1, <3>2
    <3> QED BY <3>2, <3>3, <3>4
  <2>3. u[2] <= s[u[1]]
    BY <1>2, <2>1, <2>2
  <2>4. u \in Units(s)
    BY <1>4, <2>2, <2>3
  <2>5. u \in Rest
    BY <2>2, <2>4
  <2>6. u[1] - 1 = w[1] /\ w = <<w[1], w[2]>>
    BY <2>1
  <2>7. f[u] = w
    BY <2>5, <2>6
  <2> QED BY <2>5, <2>7
<1>10. \A u, w \in Rest : f[u] = f[w] => u = w
  <2> SUFFICES ASSUME NEW u \in Rest, NEW w \in Rest, f[u] = f[w] PROVE u = w
    OBVIOUS
  <2>1. u \in (1..Len(s)) \X (1..B) /\ w \in (1..Len(s)) \X (1..B)
    BY <1>4
  <2>2. u[1] - 1 = w[1] - 1 /\ u[2] = w[2]
    OBVIOUS
  <2>3. u[1] = w[1] /\ u = <<u[1], u[2]>> /\ w = <<w[1], w[2]>>
    BY <1>1, <2>1, <2>2
  <2> QED BY <2>2, <2>3
<1>11. f \in [Rest -> Units(t)]
  BY <1>8
<1> HIDE DEF f
<1>12. f \in Injection(Rest, Units(t)) /\ f \in Surjection(Rest, Units(t))
  BY <1>9, <1>10, <1>11 DEF Injection, IsInjective, Surjection
<1>13. Cardinality(Units(t)) = Cardinality(Rest)
  BY <1>7, <1>12, FS_Surjection
<1>14. IsFiniteSet(C) /\ Cardinality(C) = s[1]
  <2>1. s[1] \in Nat
    BY <1>2
  <2> QED BY <2>1, ColumnCardinality
<1> HIDE DEF C, Rest
<1>15. Cardinality(Rest \cup C) = Cardinality(Rest) + Cardinality(C) - Cardinality(Rest \cap C)
  BY <1>7, <1>14, FS_Union
<1>16. Cardinality(Rest \cap C) = 0
  BY <1>6, FS_EmptySet
<1>17. Total(s) = Total(t) + Head(s)
  BY <1>2, <1>5, <1>7, <1>13, <1>14, <1>15, <1>16 DEF Total
<1> QED BY <1>17 DEF t

-----------------------------------------------------------------------------
(***************************************************************************)
(* The inductive invariant.                                                *)
(***************************************************************************)

\* The handles are numbered as they are made, and no more are made than there
\* are citations decoded and gifts received.  A queued citation names one.
Numbering ==
  /\ local.handle <= minted /\ retired \subseteq 1..minted
  /\ minted <= 1 + Cardinality({m \in Cites : cite[m] \notin {"new", "queued", "sent"}})
  /\ made + down + writing + ungiven <= Gifts
  /\ dropped \subseteq 1..made
  /\ remote.present => remote.handle \in 1..made
  /\ \A m \in Cites : cite[m] = "queued" => names[m] \in RemoteRefs

\* The owner's entry goes with its last grant, and a handle that was dropped
\* leaves an entry behind only for the grants.
EntryStays ==
  /\ ~local.present => local.granted = 0
  /\ local.present /\ local.granted = 0 => local.handle \notin retired
  /\ \A r \in retired : ~LocalAlive(r)

\* The peer's entry is there while it has grants; the handle it knows has not
\* been dropped, and only a dropped one has a total to give back.
PeerEntry ==
  /\ remote.present <=> remote.granted > 0
  /\ remote.granted < Threshold
  /\ remote.present => remote.handle \notin dropped
  /\ \A r \in RemoteRefs \ dropped : releasing[r] = 0

\* What a citation on its way rests on: a grant that has not been given back by
\* a message ahead of it.
Backed(i) ==
  \/ remote.granted > 0
  \/ \E t \in {None} \cup RemoteRefs : releasing[t] > 0
  \/ outgoing # <<>>
  \/ \E j \in DOMAIN up : j > i /\ up[j].op = "release"

CitesAreBacked ==
  /\ \A i \in DOMAIN up : up[i].op = "cite" => cite[up[i].id] = "sent" /\ Backed(i)
  /\ \A i, j \in DOMAIN up : up[i].op = "cite" /\ up[j].op = "cite" /\ up[i].id = up[j].id => i = j

SessionInv ==
  /\ TypeOK /\ HandlesKeepTheirEntries /\ GrantsBalance /\ CitationsResolve
  /\ Numbering /\ EntryStays /\ PeerEntry /\ CitesAreBacked

-----------------------------------------------------------------------------
(***************************************************************************)
(* What is on its way back.                                                *)
(***************************************************************************)

Msgs == [op : {"cite"}, id : Cites] \cup [op : {"release"}, count : 1..MaxCount]

\* What a message gives back.
LEMMA GivesBackType ==
  ASSUME NEW msg \in Msgs
  PROVE  /\ GivesBack(msg) \in 0..MaxCount /\ msg.op \in {"cite", "release"}
         /\ msg.op = "release" => msg.count \in 1..MaxCount /\ GivesBack(msg) = msg.count
         /\ msg.op = "cite" => msg.id \in Cites /\ GivesBack(msg) = 0
BY CountsAssumption DEF Msgs, GivesBack

\* The counts of a queue follow it.
LEMMA CountsSeq ==
  ASSUME NEW q \in Seq(Msgs)
  PROVE  /\ Counts(q) \in Seq(0..MaxCount) /\ Len(Counts(q)) = Len(q)
         /\ Total(Counts(q)) \in Nat
<1>1. DOMAIN q = 1..Len(q) /\ \A i \in 1..Len(q) : q[i] \in Msgs
  OBVIOUS
<1>2. Counts(q) = [i \in 1..Len(q) |-> GivesBack(q[i])]
  BY <1>1 DEF Counts
<1>3. \A i \in 1..Len(q) : GivesBack(q[i]) \in 0..MaxCount
  BY <1>1, GivesBackType
<1>4. Counts(q) \in Seq(0..MaxCount) /\ Len(Counts(q)) = Len(q)
  BY <1>2, <1>3, IsASeq, LenProperties
<1> QED BY <1>4, CountsAssumption, SeqIsFunction

\* A message is sent.
LEMMA CountsAppend ==
  ASSUME NEW q \in Seq(Msgs), NEW msg \in Msgs
  PROVE  Total(Counts(Append(q, msg))) = Total(Counts(q)) + GivesBack(msg)
<1>1. Counts(q) \in Seq(0..MaxCount) /\ Len(Counts(q)) = Len(q) /\ GivesBack(msg) \in 0..MaxCount
  BY CountsSeq, GivesBackType
<1>2. Append(q, msg) \in Seq(Msgs) /\ Len(Append(q, msg)) = Len(q) + 1
  OBVIOUS
<1>3. Counts(Append(q, msg)) \in Seq(0..MaxCount) /\ Len(Counts(Append(q, msg))) = Len(q) + 1
  BY <1>2, CountsSeq
<1>4. Append(Counts(q), GivesBack(msg)) \in Seq(0..MaxCount)
      /\ Len(Append(Counts(q), GivesBack(msg))) = Len(q) + 1
  BY <1>1
<1>5. ASSUME NEW i \in 1..(Len(q) + 1)
      PROVE  Counts(Append(q, msg))[i] = Append(Counts(q), GivesBack(msg))[i]
  <2>1. Counts(Append(q, msg))[i] = GivesBack(Append(q, msg)[i])
    BY <1>2 DEF Counts
  <2>2. CASE i = Len(q) + 1
    <3>1. Append(q, msg)[i] = msg
      BY <2>2
    <3>2. Append(Counts(q), GivesBack(msg))[i] = GivesBack(msg)
      BY <1>1, <2>2
    <3> QED BY <2>1, <3>1, <3>2
  <2>3. CASE i # Len(q) + 1
    <3>1. i \in 1..Len(q) /\ Append(q, msg)[i] = q[i]
      BY <2>3
    <3>2. Append(Counts(q), GivesBack(msg))[i] = Counts(q)[i]
      BY <1>1, <3>1
    <3>3. Counts(q)[i] = GivesBack(q[i])
      BY <3>1 DEF Counts
    <3> QED BY <2>1, <3>1, <3>2, <3>3
  <2> QED BY <2>2, <2>3
<1>6. Counts(Append(q, msg)) = Append(Counts(q), GivesBack(msg))
  BY <1>3, <1>4, <1>5, SeqEqual
<1> QED BY <1>1, <1>6, CountsAssumption, TotalAppend

\* A message is read.
LEMMA CountsTail ==
  ASSUME NEW q \in Seq(Msgs), q # <<>>
  PROVE  Total(Counts(q)) = Total(Counts(Tail(q))) + GivesBack(Head(q))
<1>1. /\ Counts(q) \in Seq(0..MaxCount) /\ Len(Counts(q)) = Len(q) /\ Len(q) # 0 /\ Len(q) \in Nat
      /\ q[1] = Head(q) /\ 1 \in DOMAIN q
  BY CountsSeq
<1>2. Tail(q) \in Seq(Msgs) /\ Len(Tail(q)) = Len(q) - 1 /\ \A i \in 1..Len(Tail(q)) : Tail(q)[i] = q[i + 1]
  OBVIOUS
<1>3. Counts(Tail(q)) \in Seq(0..MaxCount) /\ Len(Counts(Tail(q))) = Len(q) - 1
  BY <1>2, CountsSeq
<1>4. /\ Counts(q) # <<>> /\ Head(Counts(q)) = Counts(q)[1]
      /\ Tail(Counts(q)) \in Seq(0..MaxCount) /\ Len(Tail(Counts(q))) = Len(q) - 1
      /\ \A i \in 1..(Len(q) - 1) : Tail(Counts(q))[i] = Counts(q)[i + 1]
  BY <1>1
<1>5. ASSUME NEW i \in 1..(Len(q) - 1) PROVE Counts(Tail(q))[i] = Tail(Counts(q))[i]
  <2>1. Counts(Tail(q))[i] = GivesBack(Tail(q)[i]) /\ Tail(q)[i] = q[i + 1]
    BY <1>2 DEF Counts
  <2>2. Tail(Counts(q))[i] = Counts(q)[i + 1]
    BY <1>4
  <2>3. i + 1 \in DOMAIN q
    BY <1>1
  <2>4. Counts(q)[i + 1] = GivesBack(q[i + 1])
    BY <2>3 DEF Counts
  <2> QED BY <2>1, <2>2, <2>4
<1>6. Counts(Tail(q)) = Tail(Counts(q))
  BY <1>3, <1>4, <1>5, SeqEqual
<1>7. Counts(q)[1] = GivesBack(Head(q))
  BY <1>1 DEF Counts
<1>8. Total(Counts(q)) = Total(Tail(Counts(q))) + Head(Counts(q))
  BY <1>1, <1>4, CountsAssumption, TotalTail
<1> QED BY <1>4, <1>6, <1>7, <1>8


-----------------------------------------------------------------------------
(***************************************************************************)
(* Every step keeps the invariant.                                         *)
(***************************************************************************)

\* A sequence of members of a set is one of members of a larger set.
LEMMA SeqWider ==
  ASSUME NEW S, NEW T, S \subseteq T, NEW q \in Seq(S)
  PROVE  q \in Seq(T)
<1>1. Len(q) \in Nat /\ q \in [1..Len(q) -> S]
  BY LenProperties
<1>2. q \in [1..Len(q) -> T]
  BY <1>1
<1>3. q = [i \in 1..Len(q) |-> q[i]] /\ \A i \in 1..Len(q) : q[i] \in T
  BY <1>1, <1>2
<1> QED BY <1>1, <1>2, <1>3

\* The types, one by one.
LEMMA Basics ==
  ASSUME TypeOK
  PROVE  /\ local = [present |-> local.present, resource |-> local.resource,
                     granted |-> local.granted, handle |-> local.handle]
         /\ local.present \in BOOLEAN /\ local.resource \in BOOLEAN
         /\ local.granted \in 0..MaxCount /\ local.handle \in LocalRefs
         /\ remote = [present |-> remote.present, granted |-> remote.granted,
                      handle |-> remote.handle]
         /\ remote.present \in BOOLEAN /\ remote.granted \in 0..Threshold
         /\ remote.handle \in RemoteRefs \cup {None}
         /\ writing \in Nat /\ down \in Nat /\ ungiven \in Nat /\ made \in Nat /\ minted \in Nat
         /\ up \in Seq(Msgs) /\ outgoing \in Seq(0..MaxCount)
         /\ releasing \in [{None} \cup RemoteRefs -> 0..MaxCount]
         /\ Total(releasing) \in Nat /\ Total(outgoing) \in Nat /\ Total(Counts(up)) \in Nat
         /\ Released \in Nat
         /\ IsFiniteSet({None} \cup RemoteRefs)
<1>1. /\ local = [present |-> local.present, resource |-> local.resource,
                  granted |-> local.granted, handle |-> local.handle]
      /\ local.present \in BOOLEAN /\ local.resource \in BOOLEAN
      /\ local.granted \in 0..MaxCount /\ local.handle \in LocalRefs
  BY DEF TypeOK
<1>2. /\ remote = [present |-> remote.present, granted |-> remote.granted,
                   handle |-> remote.handle]
      /\ remote.present \in BOOLEAN /\ remote.granted \in 0..Threshold
      /\ remote.handle \in RemoteRefs \cup {None}
  BY DEF TypeOK
<1>3. Cardinality(Cites) \in Nat
  BY GiftsAssumption, FS_CardinalityType
<1>4. /\ writing \in Nat /\ down \in Nat /\ ungiven \in Nat /\ made \in Nat /\ minted \in Nat
  BY <1>3, GiftsAssumption DEF TypeOK, RemoteRefs, None, LocalRefs
<1>5. up \in Seq(Msgs)
  BY DEF TypeOK, Msgs
<1>6. outgoing \in Seq(0..MaxCount)
  <2>1. outgoing \in Seq(1..MaxCount) /\ 1..MaxCount \subseteq 0..MaxCount
    BY CountsAssumption DEF TypeOK
  <2> QED BY <2>1, SeqWider
<1>7. releasing \in [{None} \cup RemoteRefs -> 0..MaxCount]
  BY DEF TypeOK
<1>8. IsFiniteSet({None} \cup RemoteRefs)
  <2>1. {None} \cup RemoteRefs = 0..Gifts
    BY GiftsAssumption DEF None, RemoteRefs
  <2>2. 0 \in Int /\ Gifts \in Int
    BY GiftsAssumption
  <2> QED BY <2>1, <2>2, FS_Interval
<1>9. Total(releasing) \in Nat
  BY <1>7, <1>8, CountsAssumption, UnitsFinite
<1>10. Total(outgoing) \in Nat
  BY <1>6, CountsAssumption, SeqIsFunction
<1>11. Total(Counts(up)) \in Nat
  BY <1>5, CountsSeq
<1>12. Released \in Nat
  BY <1>9, <1>10, <1>11 DEF Released
<1> QED BY <1>1, <1>2, <1>4, <1>5, <1>6, <1>7, <1>8, <1>9, <1>10, <1>11, <1>12

\* The two sides' handles.
LEMMA RefTypes ==
  /\ LocalRefs \subseteq Nat /\ 1 \in LocalRefs
  /\ RemoteRefs \subseteq Nat \ {0} /\ None = 0
  /\ Cardinality(Cites) \in Nat
<1>1. Cardinality(Cites) \in Nat
  BY GiftsAssumption, FS_CardinalityType
<1> QED BY <1>1, GiftsAssumption DEF LocalRefs, RemoteRefs, None

\* While the owner's application or a message being written keeps the first
\* handle alive, the entry is there and knows it.
LEMMA FirstHandle ==
  ASSUME SessionInv, kept \/ writing > 0
  PROVE  local.present /\ local.handle = 1
<1>1. LocalAlive(1)
  BY DEF LocalAlive
<1> QED BY <1>1, RefTypes DEF SessionInv, HandlesKeepTheirEntries

\* The entry is there while a grant is counted.
LEMMA GrantedIsPresent ==
  ASSUME SessionInv, writing + down + remote.granted + Released > 0
  PROVE  local.granted # 0 /\ local.present
<1>1. TypeOK /\ GrantsBalance /\ EntryStays
  BY DEF SessionInv
<1>2. local.granted # 0
  BY <1>1, CountsAssumption DEF GrantsBalance
<1> QED BY <1>1, <1>2 DEF EntryStays

\* Session::cite finds the entry: what the citation rests on is still counted.
LEMMA CiteIsPresent ==
  ASSUME SessionInv, Reading("cite")
  PROVE  local.present
<1>1. TypeOK /\ CitesAreBacked /\ up # <<>> /\ Head(up).op = "cite"
  BY DEF SessionInv, Reading
<1>2. /\ remote.granted \in 0..Threshold /\ up \in Seq(Msgs) /\ outgoing \in Seq(0..MaxCount)
      /\ releasing \in [{None} \cup RemoteRefs -> 0..MaxCount]
      /\ writing \in Nat /\ down \in Nat
      /\ Total(releasing) \in Nat /\ Total(outgoing) \in Nat /\ Total(Counts(up)) \in Nat
      /\ IsFiniteSet({None} \cup RemoteRefs)
  BY <1>1, Basics
<1>3. 1 \in DOMAIN up /\ up[1] = Head(up)
  BY <1>1, <1>2
<1>4. Backed(1)
  BY <1>1, <1>3 DEF CitesAreBacked
<1>5. CASE remote.granted > 0
  <2>1. writing + down + remote.granted + Released > 0
    BY <1>2, <1>5 DEF Released
  <2> QED BY <2>1, GrantedIsPresent
<1>6. CASE \E t \in {None} \cup RemoteRefs : releasing[t] > 0
  <2>1. Total(releasing) # 0
    <3>1. ~ \A t \in {None} \cup RemoteRefs : releasing[t] = 0
      BY <1>6
    <3> QED BY <1>2, <3>1, CountsAssumption, TotalZero
  <2>2. writing + down + remote.granted + Released > 0
    BY <1>2, <2>1 DEF Released
  <2> QED BY <2>2, GrantedIsPresent
<1>7. CASE outgoing # <<>>
  <2>1. outgoing \in Seq(1..MaxCount) /\ outgoing \in [1..Len(outgoing) -> 0..MaxCount]
        /\ IsFiniteSet(1..Len(outgoing))
    BY <1>1, <1>2, CountsAssumption, SeqIsFunction DEF TypeOK
  <2>2. 1 \in 1..Len(outgoing) /\ outgoing[1] # 0
    <3>1. Len(outgoing) \in Nat /\ Len(outgoing) # 0
      BY <1>7, <2>1
    <3>2. 1 \in 1..Len(outgoing)
      BY <3>1
    <3>3. outgoing[1] \in 1..MaxCount
      BY <2>1, <3>2, ElementOfSeq
    <3> QED BY <3>2, <3>3, CountsAssumption
  <2>3. ~ \A i \in 1..Len(outgoing) : outgoing[i] = 0
    BY <2>2
  <2>4. Total(outgoing) # 0
    BY <2>1, <2>3, CountsAssumption, TotalZero
  <2>5. writing + down + remote.granted + Released > 0
    BY <1>2, <2>4 DEF Released
  <2> QED BY <2>5, GrantedIsPresent
<1>8. CASE \E j \in DOMAIN up : up[j].op = "release"
  <2>1. PICK j \in DOMAIN up : up[j].op = "release"
    BY <1>8
  <2>2. Counts(up) \in Seq(0..MaxCount) /\ Len(Counts(up)) = Len(up)
    BY <1>2, CountsSeq
  <2>3. /\ Counts(up) \in [1..Len(up) -> 0..MaxCount] /\ IsFiniteSet(1..Len(up))
    BY <2>2, CountsAssumption, SeqIsFunction
  <2>4. up[j] \in Msgs /\ j \in 1..Len(up)
    BY <1>2, <2>1
  <2>5. GivesBack(up[j]) # 0
    BY <2>1, <2>4, GivesBackType
  <2>6. Counts(up)[j] # 0
    BY <2>1, <2>5 DEF Counts
  <2>7. ~ \A i \in 1..Len(up) : Counts(up)[i] = 0
    BY <2>4, <2>6
  <2>8. Total(Counts(up)) # 0
    BY <2>3, <2>7, CountsAssumption, TotalZero
  <2>9. writing + down + remote.granted + Released > 0
    BY <1>2, <2>8 DEF Released
  <2> QED BY <2>9, GrantedIsPresent
<1> QED BY <1>4, <1>5, <1>6, <1>7, <1>8 DEF Backed


\* The citations that have been decoded or given up.
Past == {m \in Cites : cite[m] \notin {"new", "queued", "sent"}}

\* A citation joins them once.
LEMMA PastGrows ==
  /\ IsFiniteSet(Past) /\ Cardinality(Past) \in Nat
  /\ \A m \in Cites \ Past :
       Cardinality(Past \cup {m}) = Cardinality(Past) + 1 /\ Cardinality(Past) < Cardinality(Cites)
<1>1. IsFiniteSet(Past) /\ Cardinality(Past) \in Nat
  <2>1. Past \subseteq Cites
    BY DEF Past
  <2> QED BY <2>1, GiftsAssumption, FS_Subset, FS_CardinalityType
<1>2. ASSUME NEW m \in Cites \ Past
      PROVE  Cardinality(Past \cup {m}) = Cardinality(Past) + 1 /\ Cardinality(Past) < Cardinality(Cites)
  <2>1. Cardinality(Past \cup {m}) = Cardinality(Past) + 1
    BY <1>1, FS_AddElement
  <2>2. Past \cup {m} \subseteq Cites
    BY DEF Past
  <2>3. Cardinality(Past \cup {m}) <= Cardinality(Cites) /\ Cardinality(Cites) \in Nat
    BY <2>2, GiftsAssumption, FS_Subset, FS_CardinalityType
  <2> QED BY <1>1, <2>1, <2>3
<1> QED BY <1>1, <1>2

\* The head of the queue from the peer.
LEMMA HeadOfUp ==
  ASSUME TypeOK, NEW op, Reading(op)
  PROVE  /\ up # <<>> /\ Head(up) \in Msgs /\ Head(up).op = op /\ Tail(up) \in Seq(Msgs)
         /\ 1 \in DOMAIN up /\ up[1] = Head(up) /\ ~fault
         /\ DOMAIN up = 1..Len(up) /\ Len(up) \in Nat
         /\ Len(Tail(up)) = Len(up) - 1 /\ DOMAIN Tail(up) = 1..(Len(up) - 1)
         /\ \A i \in 1..(Len(up) - 1) : Tail(up)[i] = up[i + 1]
<1>1. up \in Seq(Msgs) /\ up # <<>> /\ Head(up).op = op /\ ~fault
  BY Basics DEF Reading
<1>2. /\ Head(up) \in Msgs /\ Tail(up) \in Seq(Msgs) /\ Len(Tail(up)) = Len(up) - 1
      /\ \A i \in 1..Len(Tail(up)) : Tail(up)[i] = up[i + 1]
  BY <1>1, HeadTailProperties
<1>3. Len(up) \in Nat /\ Len(up) # 0 /\ DOMAIN up = 1..Len(up) /\ up[1] = Head(up)
  BY <1>1
<1>4. DOMAIN Tail(up) = 1..(Len(up) - 1) /\ 1 \in DOMAIN up
  BY <1>2, <1>3
<1> QED BY <1>1, <1>2, <1>3, <1>4

\* A message read is a citation that was sent.
LEMMA SentIsNotPast ==
  ASSUME SessionInv, Reading("cite")
  PROVE  Head(up).id \in Cites \ Past /\ cite[Head(up).id] = "sent"
<1>1. TypeOK /\ CitesAreBacked
  BY DEF SessionInv
<1>2. Head(up).id \in Cites /\ 1 \in DOMAIN up /\ up[1] = Head(up) /\ Head(up).op = "cite"
  BY <1>1, HeadOfUp, GivesBackType
<1>3. cite[Head(up).id] = "sent"
  BY <1>1, <1>2 DEF CitesAreBacked
<1> QED BY <1>2, <1>3 DEF Past

\* Every variable keeps its type.
LEMMA TypeStep ==
  ASSUME SessionInv, [Next]_vars
  PROVE  TypeOK'
<1>0. TypeOK /\ Numbering /\ PeerEntry
  BY DEF SessionInv
<1>b. /\ local = [present |-> local.present, resource |-> local.resource,
                  granted |-> local.granted, handle |-> local.handle]
      /\ local.present \in BOOLEAN /\ local.resource \in BOOLEAN
      /\ local.granted \in 0..MaxCount /\ local.handle \in LocalRefs
      /\ remote = [present |-> remote.present, granted |-> remote.granted,
                   handle |-> remote.handle]
      /\ remote.present \in BOOLEAN /\ remote.granted \in 0..Threshold
      /\ remote.handle \in RemoteRefs \cup {None}
      /\ writing \in Nat /\ down \in Nat /\ ungiven \in Nat /\ made \in Nat /\ minted \in Nat
  BY <1>0, Basics
<1>n. made + down + writing + ungiven <= Gifts /\ Gifts \in Nat
  BY <1>0, GiftsAssumption DEF Numbering
<1>c. \A n \in Nat : Lowered(local.granted, n) \in 0..MaxCount /\ SatAdd(local.granted, n) \in 0..MaxCount
  BY <1>b, CountsAssumption DEF Lowered, SatAdd, SatSub
<1>1. CASE Gift
  <2>1. /\ local' = (IF local.present THEN [local EXCEPT !.granted = SatAdd(@, 1)] ELSE local)
        /\ ungiven' = ungiven - 1 /\ writing' = writing + 1 /\ ungiven > 0
        /\ UNCHANGED <<minted, retired, kept, down, up, peerVars, citeVars, fault>>
    BY <1>1 DEF Gift
  <2>2. local' \in [present : BOOLEAN, resource : BOOLEAN, granted : 0..MaxCount, handle : LocalRefs]
    BY <1>0, <1>b, <1>c, <2>1 DEF TypeOK
  <2>3. ungiven' \in 0..Gifts /\ writing' \in 0..Gifts
    BY <1>b, <1>n, <2>1
  <2> QED BY <1>0, <2>1, <2>2, <2>3 DEF TypeOK, peerVars, citeVars
<1>2. CASE Commit
  <2>1. /\ writing' = writing - 1 /\ down' = down + 1 /\ writing > 0
        /\ UNCHANGED <<local, minted, retired, kept, ungiven, up, peerVars, citeVars, fault>>
    BY <1>2 DEF Commit
  <2>2. down' \in 0..Gifts /\ writing' \in 0..Gifts
    BY <1>b, <1>n, <2>1
  <2> QED BY <1>0, <2>1, <2>2 DEF TypeOK, peerVars, citeVars
<1>3. CASE Rescind
  <2>1. /\ writing' = writing - 1 /\ writing > 0
        /\ local' = (IF local.present THEN [local EXCEPT !.granted = Lowered(@, 1)] ELSE local)
        /\ UNCHANGED <<minted, retired, kept, ungiven, down, up, peerVars, citeVars, fault>>
    BY <1>3 DEF Rescind, Rescinded
  <2>2. local' \in [present : BOOLEAN, resource : BOOLEAN, granted : 0..MaxCount, handle : LocalRefs]
    BY <1>0, <1>b, <1>c, <2>1 DEF TypeOK
  <2>3. writing' \in 0..Gifts
    BY <1>b, <1>n, <2>1
  <2> QED BY <1>0, <2>1, <2>2, <2>3 DEF TypeOK, peerVars, citeVars
<1>4. CASE DropGift
  BY <1>0, <1>4 DEF TypeOK, DropGift, peerVars, citeVars
<1>5. ASSUME NEW r \in LocalRefs, LocalDrop(r) PROVE TypeOK'
  <2>1. local' \in [present : BOOLEAN, resource : BOOLEAN, granted : 0..MaxCount, handle : LocalRefs]
    BY <1>0, <1>5 DEF TypeOK, LocalDrop
  <2> QED BY <1>0, <1>5, <2>1 DEF TypeOK, LocalDrop, peerVars, citeVars
<1>6. CASE Release
  <2>1. /\ Reading("release") /\ up' = Tail(up)
        /\ UNCHANGED <<minted, retired, kept, ungiven, writing, down, peerVars, citeVars, fault>>
        /\ local' = IF local.present
                    THEN RemovedIfUnused([local EXCEPT !.granted = Lowered(@, Head(up).count)])
                    ELSE local
    BY <1>6 DEF Release
  <2>2. Tail(up) \in Seq(Msgs) /\ Head(up).count \in Nat
    BY <1>0, <2>1, HeadOfUp, GivesBackType
  <2>3. Lowered(local.granted, Head(up).count) \in 0..MaxCount
    BY <1>c, <2>2
  <2>4. local' \in [present : BOOLEAN, resource : BOOLEAN, granted : 0..MaxCount, handle : LocalRefs]
    BY <1>0, <2>1, <2>3 DEF TypeOK, RemovedIfUnused
  <2> QED BY <1>0, <2>1, <2>2, <2>4 DEF TypeOK, Msgs, peerVars, citeVars
<1>7. CASE DecodeCite
  <2> DEFINE m == Head(up).id
             fresh == local.present /\ ~LocalAlive(local.handle)
             r == IF fresh THEN minted + 1 ELSE local.handle
  <2>1. /\ Reading("cite") /\ up' = Tail(up) /\ fault' = ~local.present
        /\ cite' = [cite EXCEPT ![m] = IF local.present THEN "decoded" ELSE "over"]
        /\ names' = [names EXCEPT ![m] = r] /\ local' = [local EXCEPT !.handle = r]
        /\ minted' = (IF fresh THEN minted + 1 ELSE minted)
        /\ UNCHANGED <<retired, kept, ungiven, writing, down, peerVars>>
    BY <1>7 DEF DecodeCite
  <2>2. Tail(up) \in Seq(Msgs) /\ m \in Cites \ Past
    BY <1>0, <2>1, HeadOfUp, SentIsNotPast
  <2>3. minted + 1 \in LocalRefs
    <3>1. Cardinality(Past) < Cardinality(Cites) /\ Cardinality(Past) \in Nat
      BY <2>2, PastGrows
    <3>2. minted <= 1 + Cardinality(Past)
      BY <1>0 DEF Numbering, Past
    <3>3. Cardinality(Cites) \in Nat
      BY RefTypes
    <3> QED BY <1>b, <3>1, <3>2, <3>3 DEF LocalRefs
  <2>4. r \in LocalRefs
    BY <1>b, <2>3
  <2> HIDE DEF m, r, fresh
  <2>5. local' \in [present : BOOLEAN, resource : BOOLEAN, granted : 0..MaxCount, handle : LocalRefs]
    BY <1>0, <2>1, <2>4 DEF TypeOK
  <2>6. cite' \in [Cites -> Steps] /\ names' \in [Cites -> LocalRefs \cup RemoteRefs \cup {None}]
    BY <1>0, <2>1, <2>2, <2>4 DEF TypeOK, Steps
  <2>7. minted' \in LocalRefs /\ fault' \in BOOLEAN
    BY <1>0, <2>1, <2>3 DEF TypeOK
  <2> QED BY <1>0, <2>1, <2>2, <2>5, <2>6, <2>7 DEF TypeOK, Msgs, peerVars
<1>8. ASSUME NEW m \in Cites, Acquire(m) \/ Unregister(m) \/ TryUnregister(m) \/ IgnoreCite(m) \/ DropGuard(m)
      PROVE  TypeOK'
  <2>1. /\ \E step \in {"guarded", "over"} : cite' = [cite EXCEPT ![m] = step]
        /\ UNCHANGED <<minted, retired, kept, ungiven, writing, down, up, peerVars, names, fault>>
        /\ local' = local \/ local' = [local EXCEPT !.resource = FALSE]
    BY <1>8 DEF Acquire, Unregister, TryUnregister, IgnoreCite, DropGuard, UseCite, ownerVars
  <2>2. local' \in [present : BOOLEAN, resource : BOOLEAN, granted : 0..MaxCount, handle : LocalRefs]
    BY <1>0, <2>1 DEF TypeOK
  <2>3. cite' \in [Cites -> Steps]
    BY <1>0, <2>1 DEF TypeOK, Steps
  <2> QED BY <1>0, <2>1, <2>2, <2>3 DEF TypeOK, peerVars
<1>9. CASE Receive
  <2> DEFINE granted == SatAdd(remote.granted, 1)
             over == granted >= Threshold
             alive == remote.present /\ RemoteAlive(remote.handle)
             r == IF alive THEN remote.handle ELSE made + 1
  <2>1. /\ down > 0 /\ down' = down - 1
        /\ remote' = [present |-> TRUE, handle |-> r, granted |-> IF over THEN 1 ELSE granted]
        /\ releasing' = (IF over THEN [releasing EXCEPT ![None] = granted - 1] ELSE releasing)
        /\ made' = (IF alive THEN made ELSE made + 1) /\ held' = held \cup {r}
        /\ UNCHANGED <<ownerVars, up, dropped, outgoing, citeVars, fault>>
    BY <1>9 DEF Receive
  <2>2. granted = remote.granted + 1 /\ granted \in 1..Threshold
    BY <1>0, <1>b, CountsAssumption DEF PeerEntry, SatAdd
  <2>3. made + 1 \in RemoteRefs
    BY <1>b, <1>n, <2>1 DEF RemoteRefs
  <2>4. r \in RemoteRefs
    <3>1. alive => remote.handle \in 1..made
      BY <1>0 DEF Numbering
    <3> QED BY <1>b, <2>3, <3>1, GiftsAssumption DEF RemoteRefs
  <2> HIDE DEF granted, alive, r
  <2>5. granted - 1 \in 0..MaxCount /\ 1 \in 0..Threshold
    BY <2>2, CountsAssumption
  <2>6. remote' \in [present : BOOLEAN, granted : 0..Threshold, handle : RemoteRefs \cup {None}]
    BY <2>1, <2>2, <2>4, <2>5, CountsAssumption
  <2>7. releasing' \in [{None} \cup RemoteRefs -> 0..MaxCount]
    BY <1>0, <2>1, <2>5 DEF TypeOK
  <2>8. down' \in 0..Gifts /\ made' \in {None} \cup RemoteRefs /\ held' \subseteq RemoteRefs
    BY <1>0, <1>b, <1>n, <2>1, <2>3, <2>4 DEF TypeOK
  <2> QED BY <1>0, <2>1, <2>6, <2>7, <2>8 DEF TypeOK, ownerVars, citeVars
<1>10. ASSUME NEW m \in Cites, NEW r \in RemoteRefs, Cite(m, r) PROVE TypeOK'
  BY <1>0, <1>10 DEF TypeOK, Cite, Steps, ownerVars, peerVars
<1>11. ASSUME NEW m \in Cites, CommitCite(m) PROVE TypeOK'
  <2>1. [op |-> "cite", id |-> m] \in Msgs
    BY DEF Msgs
  <2>2. up' \in Seq(Msgs)
    BY <1>0, <1>11, <2>1, Basics, AppendProperties DEF CommitCite
  <2> QED BY <1>0, <1>11, <2>2 DEF TypeOK, CommitCite, Steps, Msgs, ownerVars, peerVars
<1>12. ASSUME NEW m \in Cites, CancelCite(m) PROVE TypeOK'
  BY <1>0, <1>12 DEF TypeOK, CancelCite, Steps, ownerVars, peerVars
<1>13. ASSUME NEW r \in RemoteRefs, DropHandle(r) PROVE TypeOK'
  BY <1>0, <1>13 DEF TypeOK, DropHandle, ownerVars, citeVars
<1>14. ASSUME NEW r \in RemoteRefs, RemoteDrop(r) PROVE TypeOK'
  <2>1. /\ \/ /\ remote' = Absent
              /\ releasing' = [releasing EXCEPT ![r] = remote.granted]
           \/ UNCHANGED <<remote, releasing>>
        /\ dropped' = dropped \cup {r}
        /\ UNCHANGED <<ownerVars, down, up, made, held, outgoing, citeVars, fault>>
    BY <1>14 DEF RemoteDrop
  <2>2. Absent \in [present : BOOLEAN, granted : 0..Threshold, handle : RemoteRefs \cup {None}]
    BY CountsAssumption DEF Absent
  <2>3. remote.granted \in 0..MaxCount
    BY <1>b, CountsAssumption
  <2> QED BY <1>0, <2>1, <2>2, <2>3 DEF TypeOK, ownerVars, citeVars
<1>15. ASSUME NEW t \in {None} \cup RemoteRefs, Sink(t) PROVE TypeOK'
  <2>1. /\ releasing[t] > 0 /\ releasing' = [releasing EXCEPT ![t] = 0]
        /\ outgoing' = Append(outgoing, releasing[t])
        /\ UNCHANGED <<ownerVars, down, up, remote, made, dropped, held, citeVars, fault>>
    BY <1>15 DEF Sink
  <2>2. releasing[t] \in 1..MaxCount /\ 0 \in 0..MaxCount
    BY <1>0, <2>1, CountsAssumption DEF TypeOK
  <2>3. outgoing' \in Seq(1..MaxCount)
    BY <1>0, <2>1, <2>2, AppendProperties DEF TypeOK
  <2>4. releasing' \in [{None} \cup RemoteRefs -> 0..MaxCount]
    BY <1>0, <2>1, <2>2 DEF TypeOK
  <2> QED BY <1>0, <2>1, <2>3, <2>4 DEF TypeOK, ownerVars, citeVars
<1>16. CASE WriteRelease
  <2>1. /\ outgoing # <<>> /\ outgoing' = Tail(outgoing)
        /\ up' = Append(up, [op |-> "release", count |-> Head(outgoing)])
        /\ UNCHANGED <<ownerVars, down, remote, made, dropped, held, releasing, citeVars, fault>>
    BY <1>16 DEF WriteRelease
  <2>2. Head(outgoing) \in 1..MaxCount /\ Tail(outgoing) \in Seq(1..MaxCount)
    BY <1>0, <2>1, HeadTailProperties DEF TypeOK
  <2>3. [op |-> "release", count |-> Head(outgoing)] \in Msgs
    BY <2>2 DEF Msgs
  <2>4. up' \in Seq(Msgs)
    BY <1>0, <2>1, <2>3, Basics, AppendProperties
  <2> QED BY <1>0, <2>1, <2>2, <2>4 DEF TypeOK, Msgs, ownerVars, citeVars
<1>17. CASE UNCHANGED vars
  BY <1>0, <1>17 DEF TypeOK, vars, ownerVars, peerVars, citeVars
<1> QED BY <1>1, <1>2, <1>3, <1>4, <1>5, <1>6, <1>7, <1>8, <1>9, <1>10, <1>11, <1>12, <1>13,
           <1>14, <1>15, <1>16, <1>17 DEF Next, Owner, Peer

\* No citation fails to resolve.
LEMMA ResolveStep ==
  ASSUME SessionInv, [Next]_vars
  PROVE  CitationsResolve'
<1>0. ~fault
  BY DEF SessionInv, CitationsResolve
<1>1. CASE DecodeCite
  BY <1>1, CiteIsPresent DEF DecodeCite, CitationsResolve
<1>2. CASE ~DecodeCite
  <2>1. fault' = fault
    BY <1>2 DEF Next, Owner, Peer, vars, Gift, Commit, Rescind, DropGift, Release, LocalDrop, Acquire,
       Unregister, TryUnregister, IgnoreCite, UseCite, DropGuard, Receive, WriteRelease, DropHandle,
       RemoteDrop, CommitCite, CancelCite, Cite, Sink
  <2> QED BY <1>0, <2>1 DEF CitationsResolve
<1> QED BY <1>1, <1>2

\* The peer's entry stays well formed.
LEMMA PeerStep ==
  ASSUME SessionInv, [Next]_vars
  PROVE  PeerEntry'
<1>0. TypeOK /\ Numbering /\ PeerEntry
  BY DEF SessionInv
<1>b. /\ remote.present \in BOOLEAN /\ remote.granted \in 0..Threshold /\ made \in Nat
      /\ releasing \in [{None} \cup RemoteRefs -> 0..MaxCount]
      /\ RemoteRefs \subseteq Nat \ {0} /\ None = 0
  BY <1>0, Basics, RefTypes
<1>p. /\ remote.present <=> remote.granted > 0
      /\ remote.granted < Threshold
      /\ remote.present => remote.handle \notin dropped
      /\ \A r \in RemoteRefs \ dropped : releasing[r] = 0
      /\ dropped \subseteq 1..made
  BY <1>0 DEF PeerEntry, Numbering
<1>1. CASE Receive
  <2> DEFINE granted == SatAdd(remote.granted, 1)
             over == granted >= Threshold
             alive == remote.present /\ RemoteAlive(remote.handle)
             r == IF alive THEN remote.handle ELSE made + 1
  <2>1. /\ remote' = [present |-> TRUE, handle |-> r, granted |-> IF over THEN 1 ELSE granted]
        /\ releasing' = (IF over THEN [releasing EXCEPT ![None] = granted - 1] ELSE releasing)
        /\ dropped' = dropped
    BY <1>1 DEF Receive
  <2>2. granted = remote.granted + 1 /\ granted \in 1..Threshold
    BY <1>b, <1>p, CountsAssumption DEF SatAdd
  <2>3. r \notin dropped
    BY <1>b, <1>p
  <2> HIDE DEF granted, alive, r
  <2>4. remote'.present = TRUE /\ remote'.handle = r /\ remote'.granted = IF over THEN 1 ELSE granted
    BY <2>1
  <2>5. remote'.granted > 0 /\ remote'.granted < Threshold
    BY <2>2, <2>4, CountsAssumption
  <2>6. \A t \in RemoteRefs : releasing'[t] = releasing[t]
    BY <1>b, <2>1
  <2> QED BY <1>p, <2>1, <2>3, <2>4, <2>5, <2>6 DEF PeerEntry
<1>2. ASSUME NEW r \in RemoteRefs, RemoteDrop(r) PROVE PeerEntry'
  <2>1. dropped' = dropped \cup {r}
    BY <1>2 DEF RemoteDrop
  <2>2. CASE PointsAt(r)
    <3>1. remote' = Absent /\ releasing' = [releasing EXCEPT ![r] = remote.granted]
      BY <1>2, <2>2 DEF RemoteDrop
    <3>2. ~remote'.present /\ remote'.granted = 0
      BY <3>1 DEF Absent
    <3>3. \A t \in RemoteRefs \ dropped' : releasing'[t] = 0
      BY <1>b, <1>p, <2>1, <3>1
    <3> QED BY <3>2, <3>3, CountsAssumption DEF PeerEntry
  <2>3. CASE ~PointsAt(r)
    <3>1. remote' = remote /\ releasing' = releasing
      BY <1>2, <2>3 DEF RemoteDrop
    <3>2. remote.present => remote.handle # r
      BY <2>3 DEF PointsAt
    <3> QED BY <1>p, <2>1, <3>1, <3>2 DEF PeerEntry
  <2> QED BY <2>2, <2>3
<1>3. ASSUME NEW t \in {None} \cup RemoteRefs, Sink(t) PROVE PeerEntry'
  <2>1. releasing' = [releasing EXCEPT ![t] = 0] /\ remote' = remote /\ dropped' = dropped
    BY <1>3 DEF Sink
  <2>2. \A r \in RemoteRefs \ dropped' : releasing'[r] = 0
    BY <1>b, <1>p, <2>1
  <2> QED BY <1>p, <2>1, <2>2 DEF PeerEntry
<1>4. CASE UNCHANGED <<remote, dropped, releasing>>
  <2>1. remote' = remote /\ dropped' = dropped /\ releasing' = releasing
    BY <1>4
  <2> QED BY <1>p, <2>1 DEF PeerEntry
<1>5. \/ Receive \/ UNCHANGED <<remote, dropped, releasing>>
      \/ \E r \in RemoteRefs : RemoteDrop(r)
      \/ \E t \in {None} \cup RemoteRefs : Sink(t)
  BY DEF Next, Owner, Peer, vars, Gift, Commit, Rescind, DropGift, Release, LocalDrop, Acquire,
     Unregister, TryUnregister, IgnoreCite, UseCite, DropGuard, WriteRelease, DropHandle,
     DecodeCite, CommitCite, CancelCite, Cite, peerVars
<1> QED BY <1>1, <1>2, <1>3, <1>4, <1>5


\* A message is read; what the citations behind it rest on stays where it is.
LEMMA BackedAfterRead ==
  ASSUME SessionInv, NEW op, Reading(op), up' = Tail(up), UNCHANGED <<remote, releasing, outgoing>>,
         \A m \in Cites : (op = "cite" => m # Head(up).id) => cite'[m] = cite[m]
  PROVE  CitesAreBacked'
<1>0. TypeOK /\ CitesAreBacked
  BY DEF SessionInv
<1>1. /\ DOMAIN up = 1..Len(up) /\ Len(up) \in Nat /\ 1 \in DOMAIN up /\ up[1] = Head(up) /\ Head(up).op = op
      /\ DOMAIN up' = 1..(Len(up) - 1)
      /\ \A i \in 1..(Len(up) - 1) : up'[i] = up[i + 1]
  BY <1>0, HeadOfUp
<1>2. \A i \in DOMAIN up' : i \in Nat /\ i + 1 \in DOMAIN up /\ i + 1 # 1 /\ up'[i] = up[i + 1]
  BY <1>1
<1>3. ASSUME NEW i \in DOMAIN up', up'[i].op = "cite"
      PROVE  cite'[up'[i].id] = "sent" /\ Backed(i)'
  <2>1. i + 1 \in DOMAIN up /\ i + 1 # 1 /\ up'[i] = up[i + 1] /\ up[i + 1].op = "cite"
    BY <1>2, <1>3
  <2>2. cite[up[i + 1].id] = "sent" /\ Backed(i + 1)
    BY <1>0, <2>1 DEF CitesAreBacked
  <2>3. up[i + 1].id \in Cites
    <3>1. up[i + 1] \in Msgs
      BY <1>0, <2>1, Basics, ElementOfSeq
    <3> QED BY <2>1, <3>1, GivesBackType
  <2>4. op = "cite" => up[i + 1].id # Head(up).id
    BY <1>0, <1>1, <2>1 DEF CitesAreBacked
  <2>5. cite'[up'[i].id] = "sent"
    BY <2>1, <2>2, <2>3, <2>4
  <2>6. CASE \E j \in DOMAIN up : j > i + 1 /\ up[j].op = "release"
    <3>1. PICK j \in DOMAIN up : j > i + 1 /\ up[j].op = "release"
      BY <2>6
    <3>2. j \in Nat /\ j - 1 \in 1..(Len(up) - 1) /\ j - 1 > i /\ (j - 1) + 1 = j
      BY <1>1, <1>2, <3>1
    <3>3. j - 1 \in DOMAIN up' /\ up'[j - 1].op = "release"
      BY <1>1, <3>1, <3>2
    <3> QED BY <2>5, <3>2, <3>3 DEF Backed
  <2>7. CASE ~ \E j \in DOMAIN up : j > i + 1 /\ up[j].op = "release"
    BY <2>2, <2>5, <2>7 DEF Backed
  <2> QED BY <2>6, <2>7
<1>4. ASSUME NEW i \in DOMAIN up', NEW j \in DOMAIN up',
             up'[i].op = "cite", up'[j].op = "cite", up'[i].id = up'[j].id
      PROVE  i = j
  <2>1. i + 1 = j + 1
    BY <1>0, <1>2, <1>4 DEF CitesAreBacked
  <2> QED BY <1>2, <2>1
<1> QED BY <1>3, <1>4 DEF CitesAreBacked

\* A message is sent: what backs the citations stays or is in the message, and a
\* citation joins the queue once, while the peer has a grant.
LEMMA BackedAfterSend ==
  ASSUME SessionInv, NEW msg \in Msgs, up' = Append(up, msg),
         msg.op = "release" \/ UNCHANGED <<remote, releasing, outgoing>>,
         msg.op = "cite" => remote.granted > 0 /\ cite[msg.id] # "sent" /\ cite'[msg.id] = "sent",
         \A m \in Cites : (msg.op = "cite" => m # msg.id) => cite'[m] = cite[m]
  PROVE  CitesAreBacked'
<1>0. TypeOK /\ CitesAreBacked
  BY DEF SessionInv
<1>1. up \in Seq(Msgs) /\ DOMAIN up = 1..Len(up) /\ Len(up) \in Nat
  BY <1>0, Basics
<1>2. /\ DOMAIN up' = 1..(Len(up) + 1) /\ up'[Len(up) + 1] = msg
      /\ \A i \in 1..Len(up) : up'[i] = up[i]
  <2>1. up' \in Seq(Msgs) /\ Len(up') = Len(up) + 1 /\ up'[Len(up) + 1] = msg
        /\ \A i \in 1..Len(up) : up'[i] = up[i]
    BY <1>1, AppendProperties
  <2> QED BY <1>1, <2>1
<1>3. \A i \in DOMAIN up' : i = Len(up) + 1 \/ (i \in DOMAIN up /\ i < Len(up) + 1)
  BY <1>1, <1>2
<1>4. Len(up) + 1 \in DOMAIN up'
  BY <1>1, <1>2
<1>5. \A i \in DOMAIN up : up[i].op = "cite" => up[i].id \in Cites /\ cite[up[i].id] = "sent" /\ Backed(i)
  <2>1. \A i \in DOMAIN up : up[i] \in Msgs
    BY <1>1, ElementOfSeq
  <2> QED BY <1>0, <2>1, GivesBackType DEF CitesAreBacked
<1>6. ASSUME NEW i \in DOMAIN up', up'[i].op = "cite"
      PROVE  cite'[up'[i].id] = "sent" /\ Backed(i)'
  <2>1. CASE msg.op = "release"
    <3>1. i # Len(up) + 1
      BY <1>2, <1>6, <2>1
    <3>2. i \in DOMAIN up /\ i < Len(up) + 1 /\ up'[i] = up[i]
      BY <1>1, <1>2, <1>3, <3>1
    <3>3. cite'[up'[i].id] = "sent"
      BY <1>5, <1>6, <2>1, <3>2
    <3>4. Len(up) + 1 > i
      BY <1>1, <3>2
    <3> QED BY <1>2, <1>4, <2>1, <3>3, <3>4 DEF Backed
  <2>2. CASE msg.op = "cite"
    <3>1. remote.granted > 0 /\ remote' = remote
      BY <2>2
    <3>2. Backed(i)'
      BY <3>1 DEF Backed
    <3>3. CASE i = Len(up) + 1
      BY <1>2, <2>2, <3>2, <3>3
    <3>4. CASE i \in DOMAIN up /\ i < Len(up) + 1
      <4>1. up'[i] = up[i]
        BY <1>1, <1>2, <3>4
      <4>2. up[i].id \in Cites /\ cite[up[i].id] = "sent"
        BY <1>5, <1>6, <3>4, <4>1
      <4> QED BY <2>2, <3>2, <4>1, <4>2
    <3> QED BY <1>3, <3>3, <3>4
  <2> QED BY <2>1, <2>2, GivesBackType
<1>7. ASSUME NEW i \in DOMAIN up', NEW j \in DOMAIN up', i \in DOMAIN up,
             up'[i].op = "cite", up'[j].op = "cite", up'[i].id = up'[j].id
      PROVE  i = j
  <2>1. up'[i] = up[i] /\ cite[up[i].id] = "sent"
    BY <1>1, <1>2, <1>5, <1>7
  <2>2. CASE j = Len(up) + 1
    BY <1>2, <1>7, <2>1, <2>2
  <2>3. CASE j \in DOMAIN up
    <3>1. up'[j] = up[j]
      BY <1>1, <1>2, <2>3
    <3> QED BY <1>0, <1>7, <2>1, <2>3, <3>1 DEF CitesAreBacked
  <2> QED BY <1>3, <2>2, <2>3
<1>8. ASSUME NEW i \in DOMAIN up', NEW j \in DOMAIN up',
             up'[i].op = "cite", up'[j].op = "cite", up'[i].id = up'[j].id
      PROVE  i = j
  BY <1>3, <1>7, <1>8
<1> QED BY <1>6, <1>8 DEF CitesAreBacked

\* The queue stays, and so does what backs its citations.
LEMMA BackedStays ==
  ASSUME SessionInv, up' = up,
         \A m \in Cites : cite[m] = "sent" => cite'[m] = "sent",
         \/ UNCHANGED <<remote, releasing, outgoing>>
         \/ remote'.granted > 0
         \/ \E t \in {None} \cup RemoteRefs : releasing'[t] > 0
         \/ outgoing' # <<>>
  PROVE  CitesAreBacked'
<1>0. TypeOK /\ CitesAreBacked
  BY DEF SessionInv
<1>1. \A i \in DOMAIN up : up[i].op = "cite" => up[i].id \in Cites /\ cite[up[i].id] = "sent" /\ Backed(i)
  <2>1. \A i \in DOMAIN up : up[i] \in Msgs
    BY <1>0, Basics, ElementOfSeq
  <2> QED BY <1>0, <2>1, GivesBackType DEF CitesAreBacked
<1>2. \A i \in DOMAIN up : Backed(i) => Backed(i)'
  BY DEF Backed
<1> QED BY <1>0, <1>1, <1>2 DEF CitesAreBacked

\* Every citation on its way stays backed.
LEMMA BackedStep ==
  ASSUME SessionInv, [Next]_vars
  PROVE  CitesAreBacked'
<1>0. TypeOK /\ HandlesKeepTheirEntries /\ PeerEntry /\ Numbering
  BY DEF SessionInv
<1>t. /\ cite \in [Cites -> Steps] /\ releasing \in [{None} \cup RemoteRefs -> 0..MaxCount]
      /\ remote.granted \in 0..Threshold
  BY <1>0, Basics DEF TypeOK
<1>1. CASE Release
  <2>1. Reading("release") /\ up' = Tail(up) /\ UNCHANGED <<remote, releasing, outgoing>> /\ cite' = cite
    BY <1>1 DEF Release, peerVars, citeVars
  <2> QED BY <2>1, BackedAfterRead
<1>2. CASE DecodeCite
  <2>1. /\ Reading("cite") /\ up' = Tail(up) /\ UNCHANGED <<remote, releasing, outgoing>>
        /\ cite' = [cite EXCEPT ![Head(up).id] = IF local.present THEN "decoded" ELSE "over"]
    BY <1>2 DEF DecodeCite, peerVars
  <2>2. \A m \in Cites : m # Head(up).id => cite'[m] = cite[m]
    BY <1>t, <2>1
  <2> QED BY <2>1, <2>2, BackedAfterRead
<1>3. ASSUME NEW m \in Cites, CommitCite(m) PROVE CitesAreBacked'
  <2> DEFINE msg == [op |-> "cite", id |-> m]
  <2>1. /\ cite[m] = "queued" /\ cite' = [cite EXCEPT ![m] = "sent"] /\ up' = Append(up, msg)
        /\ UNCHANGED <<remote, releasing, outgoing>>
    BY <1>3 DEF CommitCite, peerVars
  <2>2. msg \in Msgs /\ msg.op = "cite" /\ msg.id = m
    BY DEF Msgs
  <2>3. remote.granted > 0
    <3>1. names[m] \in RemoteRefs => RemoteAlive(names[m])
      BY <2>1 DEF RemoteAlive
    <3> QED BY <1>0, <2>1, <3>1 DEF HandlesKeepTheirEntries, Numbering
  <2>4. cite[m] # "sent" /\ cite'[m] = "sent" /\ \A n \in Cites : n # m => cite'[n] = cite[n]
    BY <1>t, <2>1
  <2> HIDE DEF msg
  <2> QED BY <2>1, <2>2, <2>3, <2>4, BackedAfterSend
<1>4. ASSUME NEW m \in Cites, NEW step, cite[m] # "sent", cite' = [cite EXCEPT ![m] = step],
             up' = up, UNCHANGED <<remote, releasing, outgoing>>
      PROVE  CitesAreBacked'
  <2>1. \A n \in Cites : cite[n] = "sent" => cite'[n] = "sent"
    BY <1>t, <1>4
  <2> QED BY <1>4, <2>1, BackedStays
<1>5. ASSUME NEW m \in Cites,
             \/ Acquire(m) \/ Unregister(m) \/ TryUnregister(m) \/ IgnoreCite(m)
             \/ DropGuard(m) \/ CancelCite(m) \/ \E r \in RemoteRefs : Cite(m, r)
      PROVE  CitesAreBacked'
  <2>1. /\ cite[m] # "sent" /\ \E step \in Steps : cite' = [cite EXCEPT ![m] = step]
        /\ up' = up /\ UNCHANGED <<remote, releasing, outgoing>>
    BY <1>5 DEF Acquire, Unregister, TryUnregister, IgnoreCite, UseCite, DropGuard, CancelCite, Cite,
       Steps, peerVars
  <2> QED BY <1>4, <2>1
<1>6. CASE Receive
  <2>1. remote'.granted = IF SatAdd(remote.granted, 1) >= Threshold THEN 1 ELSE SatAdd(remote.granted, 1)
    BY <1>6 DEF Receive
  <2>2. remote'.granted > 0
    BY <1>t, <2>1, CountsAssumption DEF SatAdd
  <2> QED BY <1>6, <2>2, BackedStays DEF Receive, citeVars
<1>7. ASSUME NEW r \in RemoteRefs, RemoteDrop(r) PROVE CitesAreBacked'
  <2>1. up' = up /\ cite' = cite /\ outgoing' = outgoing
    BY <1>7 DEF RemoteDrop, citeVars
  <2>2. CASE PointsAt(r)
    <3>1. remote.granted > 0 /\ releasing' = [releasing EXCEPT ![r] = remote.granted]
      BY <1>0, <1>7, <2>2 DEF RemoteDrop, PeerEntry, PointsAt
    <3>2. releasing'[r] > 0
      BY <1>t, <3>1
    <3> QED BY <2>1, <3>2, BackedStays
  <2>3. CASE ~PointsAt(r)
    <3>1. UNCHANGED <<remote, releasing, outgoing>>
      BY <1>7, <2>1, <2>3 DEF RemoteDrop
    <3> QED BY <2>1, <3>1, BackedStays
  <2> QED BY <2>2, <2>3
<1>8. ASSUME NEW t \in {None} \cup RemoteRefs, Sink(t) PROVE CitesAreBacked'
  <2>1. up' = up /\ cite' = cite /\ outgoing' = Append(outgoing, releasing[t])
    BY <1>8 DEF Sink, citeVars
  <2>2. outgoing' # <<>>
    <3>1. outgoing \in Seq(0..MaxCount) /\ releasing[t] \in 0..MaxCount
      BY <1>0, <1>t, Basics
    <3> QED BY <2>1, <3>1
  <2> QED BY <2>1, <2>2, BackedStays
<1>9. CASE WriteRelease
  <2> DEFINE msg == [op |-> "release", count |-> Head(outgoing)]
  <2>1. outgoing # <<>> /\ up' = Append(up, msg) /\ cite' = cite
    BY <1>9 DEF WriteRelease, citeVars
  <2>2. Head(outgoing) \in 1..MaxCount
    BY <1>0, <2>1, HeadTailProperties DEF TypeOK
  <2>3. msg \in Msgs /\ msg.op = "release"
    BY <2>2 DEF Msgs
  <2> HIDE DEF msg
  <2> QED BY <2>1, <2>3, BackedAfterSend
<1>10. CASE UNCHANGED <<up, cite, remote, releasing, outgoing>>
  BY <1>10, BackedStays
<1>11. \/ Release \/ DecodeCite \/ Receive \/ WriteRelease
       \/ \E m \in Cites :
            \/ Acquire(m) \/ Unregister(m) \/ TryUnregister(m) \/ IgnoreCite(m)
            \/ DropGuard(m) \/ CommitCite(m) \/ CancelCite(m) \/ \E r \in RemoteRefs : Cite(m, r)
       \/ \E r \in RemoteRefs : RemoteDrop(r)
       \/ \E t \in {None} \cup RemoteRefs : Sink(t)
       \/ UNCHANGED <<up, cite, remote, releasing, outgoing>>
  BY DEF Next, Owner, Peer, vars, Gift, Commit, Rescind, DropGift, LocalDrop, DropHandle, peerVars,
     citeVars
<1> QED BY <1>1, <1>2, <1>3, <1>5, <1>6, <1>7, <1>8, <1>9, <1>10, <1>11


\* The owner's handles stay numbered.
LEMMA OwnerNumbersStep ==
  ASSUME SessionInv, [Next]_vars
  PROVE  /\ local'.handle <= minted' /\ retired' \subseteq 1..minted'
         /\ minted' <= 1 + Cardinality(Past')
<1>0. TypeOK /\ Numbering /\ local.handle \in LocalRefs /\ minted \in Nat /\ LocalRefs \subseteq Nat \ {0}
  BY Basics, RefTypes DEF SessionInv, LocalRefs
<1>n. /\ local.handle <= minted /\ retired \subseteq 1..minted
      /\ minted <= 1 + Cardinality(Past) /\ Cardinality(Past) \in Nat /\ Past \subseteq Cites
  BY <1>0, PastGrows DEF Numbering, Past
<1>t. cite \in [Cites -> Steps]
  BY <1>0 DEF TypeOK
<1>p. ASSUME Past \subseteq Past'
      PROVE  Cardinality(Past) <= Cardinality(Past') /\ Cardinality(Past') \in Nat
  <2>1. Past' \subseteq Cites
    BY DEF Past
  <2>2. IsFiniteSet(Past')
    BY <2>1, GiftsAssumption, FS_Subset
  <2> QED BY <1>p, <2>2, FS_Subset, FS_CardinalityType
<1>1. CASE DecodeCite
  <2> DEFINE m == Head(up).id
             fresh == local.present /\ ~LocalAlive(local.handle)
             r == IF fresh THEN minted + 1 ELSE local.handle
  <2>1. /\ Reading("cite") /\ retired' = retired
        /\ cite' = [cite EXCEPT ![m] = IF local.present THEN "decoded" ELSE "over"]
        /\ local' = [local EXCEPT !.handle = r]
        /\ minted' = (IF fresh THEN minted + 1 ELSE minted)
    BY <1>1 DEF DecodeCite
  <2>2. m \in Cites \ Past
    BY <2>1, SentIsNotPast
  <2>3. Past' = Past \cup {m}
    BY <1>t, <2>1, <2>2 DEF Past
  <2>4. Cardinality(Past') = Cardinality(Past) + 1
    BY <2>2, <2>3, PastGrows
  <2>5. local'.handle = r
    BY <1>0, <2>1 DEF TypeOK
  <2>6. r <= minted' /\ minted' \in Nat /\ minted <= minted' /\ minted' <= minted + 1
    BY <1>0, <1>n, <2>1
  <2> HIDE DEF m, r, fresh
  <2>7. 1..minted \subseteq 1..minted'
    BY <1>0, <2>6
  <2>8. minted' <= 1 + Cardinality(Past')
    BY <1>0, <1>n, <2>4, <2>6
  <2> QED BY <1>n, <2>1, <2>5, <2>6, <2>7, <2>8
<1>2. ASSUME NEW r \in LocalRefs, LocalDrop(r)
      PROVE  /\ local'.handle <= minted' /\ retired' \subseteq 1..minted'
             /\ minted' <= 1 + Cardinality(Past')
  <2>1. r <= minted /\ retired' = retired \cup {r} /\ minted' = minted /\ cite' = cite
    BY <1>2 DEF LocalDrop, LocalDying, citeVars
  <2>2. local'.handle = local.handle
    BY <1>0, <1>2 DEF LocalDrop, TypeOK
  <2>3. Past' = Past
    BY <2>1 DEF Past
  <2>4. r \in 1..minted
    BY <1>0, <2>1
  <2> QED BY <1>n, <2>1, <2>2, <2>3, <2>4
<1>3. ASSUME local'.handle = local.handle, UNCHANGED <<minted, retired>>, Past \subseteq Past'
      PROVE  /\ local'.handle <= minted' /\ retired' \subseteq 1..minted'
             /\ minted' <= 1 + Cardinality(Past')
  BY <1>0, <1>n, <1>p, <1>3
<1>4. ASSUME NEW m \in Cites,
             \/ Acquire(m) \/ Unregister(m) \/ TryUnregister(m) \/ IgnoreCite(m) \/ DropGuard(m)
             \/ CommitCite(m) \/ CancelCite(m) \/ \E r \in RemoteRefs : Cite(m, r)
      PROVE  local'.handle = local.handle /\ UNCHANGED <<minted, retired>> /\ Past \subseteq Past'
  <2>1. local' = local \/ local' = [local EXCEPT !.resource = FALSE]
    BY <1>4 DEF Acquire, Unregister, TryUnregister, IgnoreCite, UseCite, DropGuard, CommitCite,
       CancelCite, Cite, ownerVars
  <2>2. local'.handle = local.handle
    BY <1>0, <2>1 DEF TypeOK
  <2>3. UNCHANGED <<minted, retired>>
    BY <1>4 DEF Acquire, Unregister, TryUnregister, IgnoreCite, UseCite, DropGuard, CommitCite,
       CancelCite, Cite, ownerVars
  <2>4. /\ \E step \in {"guarded", "over", "sent", "queued"} :
             /\ cite' = [cite EXCEPT ![m] = step]
             /\ step \in {"sent", "queued"} => m \notin Past
    BY <1>4 DEF Acquire, Unregister, TryUnregister, IgnoreCite, UseCite, DropGuard, CommitCite,
       CancelCite, Cite, Past
  <2>5. Past \subseteq Past'
    BY <1>t, <2>4 DEF Past
  <2> QED BY <2>2, <2>3, <2>5
<1>5. CASE Gift \/ Rescind \/ Release
  <2>1. UNCHANGED <<minted, retired, cite>>
    BY <1>5 DEF Gift, Rescind, Release, citeVars
  <2>2. local'.handle = local.handle
    BY <1>0, <1>5 DEF Gift, Rescind, Release, RemovedIfUnused, Rescinded, TypeOK
  <2>3. Past' = Past
    BY <2>1 DEF Past
  <2> QED BY <1>3, <2>1, <2>2, <2>3
<1>6. CASE UNCHANGED <<local, minted, retired, cite>>
  <2>1. Past' = Past /\ local'.handle = local.handle
    BY <1>6 DEF Past
  <2> QED BY <1>3, <1>6, <2>1
<1>7. \/ DecodeCite \/ Gift \/ Rescind \/ Release \/ \E r \in LocalRefs : LocalDrop(r)
      \/ \E m \in Cites :
           \/ Acquire(m) \/ Unregister(m) \/ TryUnregister(m) \/ IgnoreCite(m) \/ DropGuard(m)
           \/ CommitCite(m) \/ CancelCite(m) \/ \E r \in RemoteRefs : Cite(m, r)
      \/ UNCHANGED <<local, minted, retired, cite>>
  BY DEF Next, Owner, Peer, vars, Commit, DropGift, Receive, WriteRelease, DropHandle, RemoteDrop, Sink,
     ownerVars, citeVars
<1> QED BY <1>1, <1>2, <1>3, <1>4, <1>5, <1>6, <1>7

\* So do the peer's, which are no more than the gifts that arrived.
LEMMA PeerNumbersStep ==
  ASSUME SessionInv, [Next]_vars
  PROVE  /\ made' + down' + writing' + ungiven' <= Gifts
         /\ dropped' \subseteq 1..made'
         /\ remote'.present => remote'.handle \in 1..made'
<1>0. /\ made \in Nat /\ down \in Nat /\ writing \in Nat /\ ungiven \in Nat /\ Gifts \in Nat
      /\ TypeOK /\ Numbering
  BY Basics, GiftsAssumption DEF SessionInv
<1>n. /\ made + down + writing + ungiven <= Gifts /\ dropped \subseteq 1..made
      /\ remote.present => remote.handle \in 1..made
  BY <1>0 DEF Numbering
<1>1. CASE Gift \/ Commit \/ Rescind
  <2>1. UNCHANGED <<made, dropped, remote>>
    BY <1>1 DEF Gift, Commit, Rescind, peerVars
  <2>2. made' + down' + writing' + ungiven' <= Gifts
    BY <1>0, <1>n, <1>1, <2>1 DEF Gift, Commit, Rescind
  <2> QED BY <1>n, <2>1, <2>2
<1>2. CASE Receive
  <2> DEFINE alive == remote.present /\ RemoteAlive(remote.handle)
  <2>1. /\ down > 0 /\ down' = down - 1 /\ UNCHANGED <<writing, ungiven, dropped>>
        /\ remote'.handle = (IF alive THEN remote.handle ELSE made + 1)
        /\ made' = (IF alive THEN made ELSE made + 1)
    BY <1>2 DEF Receive, ownerVars
  <2>2. alive => remote.present
    OBVIOUS
  <2> HIDE DEF alive
  <2>3. made' + down' + writing' + ungiven' <= Gifts /\ made' \in Nat /\ made <= made'
    BY <1>0, <1>n, <2>1
  <2>4. remote'.handle \in 1..made'
    BY <1>0, <1>n, <2>1, <2>2
  <2>5. 1..made \subseteq 1..made'
    BY <1>0, <2>3
  <2> QED BY <1>n, <2>1, <2>3, <2>4, <2>5
<1>3. ASSUME NEW r \in RemoteRefs, RemoteDrop(r)
      PROVE  /\ made' + down' + writing' + ungiven' <= Gifts
             /\ dropped' \subseteq 1..made'
             /\ remote'.present => remote'.handle \in 1..made'
  <2>1. r <= made /\ dropped' = dropped \cup {r} /\ UNCHANGED <<made, down, writing, ungiven>>
    BY <1>3 DEF RemoteDrop, RemoteDying, ownerVars
  <2>2. remote' = remote \/ remote' = Absent
    BY <1>3 DEF RemoteDrop
  <2>3. remote'.present => remote'.handle \in 1..made'
    BY <1>n, <2>1, <2>2 DEF Absent
  <2>4. r \in 1..made
    BY <1>0, <2>1, RefTypes
  <2> QED BY <1>n, <2>1, <2>3, <2>4
<1>4. CASE UNCHANGED <<made, down, writing, ungiven, dropped, remote>>
  BY <1>n, <1>4
<1>5. \/ Gift \/ Commit \/ Rescind \/ Receive \/ \E r \in RemoteRefs : RemoteDrop(r)
      \/ UNCHANGED <<made, down, writing, ungiven, dropped, remote>>
  BY DEF Next, Owner, Peer, vars, DropGift, Release, DecodeCite, LocalDrop, Acquire, Unregister,
     TryUnregister, IgnoreCite, UseCite, DropGuard, WriteRelease, DropHandle, CommitCite, CancelCite, Cite,
     Sink, ownerVars, peerVars
<1> QED BY <1>1, <1>2, <1>3, <1>4, <1>5

\* A queued citation names a handle of the peer's.
LEMMA QueuedStep ==
  ASSUME SessionInv, [Next]_vars
  PROVE  \A m \in Cites : cite'[m] = "queued" => names'[m] \in RemoteRefs
<1>0. /\ cite \in [Cites -> Steps] /\ names \in [Cites -> LocalRefs \cup RemoteRefs \cup {None}]
      /\ \A m \in Cites : cite[m] = "queued" => names[m] \in RemoteRefs
  BY DEF SessionInv, TypeOK, Numbering
<1>1. ASSUME NEW m \in Cites, NEW r \in RemoteRefs, Cite(m, r)
      PROVE  \A n \in Cites : cite'[n] = "queued" => names'[n] \in RemoteRefs
  BY <1>0, <1>1 DEF Cite
<1>2. CASE DecodeCite
  <2>1. Head(up).id \in Cites
    BY <1>2, SentIsNotPast DEF DecodeCite
  <2>2. PICK r \in {minted + 1, local.handle} :
          names' = [names EXCEPT ![Head(up).id] = r]
    BY <1>2 DEF DecodeCite
  <2>3. PICK step \in {"decoded", "over"} : cite' = [cite EXCEPT ![Head(up).id] = step]
    BY <1>2 DEF DecodeCite
  <2> QED BY <1>0, <2>1, <2>2, <2>3
<1>3. ASSUME NEW m \in Cites,
             \/ Acquire(m) \/ Unregister(m) \/ TryUnregister(m) \/ IgnoreCite(m) \/ DropGuard(m)
             \/ CommitCite(m) \/ CancelCite(m)
      PROVE  \A n \in Cites : cite'[n] = "queued" => names'[n] \in RemoteRefs
  <2>1. \E x : x # "queued" /\ cite' = [cite EXCEPT ![m] = x] /\ names' = names
    BY <1>3 DEF Acquire, Unregister, TryUnregister, IgnoreCite, UseCite, DropGuard, CommitCite, CancelCite
  <2> QED BY <1>0, <2>1
<1>4. CASE UNCHANGED <<cite, names>>
  BY <1>0, <1>4
<1>5. \/ DecodeCite \/ UNCHANGED <<cite, names>>
      \/ \E m \in Cites :
           \/ Acquire(m) \/ Unregister(m) \/ TryUnregister(m) \/ IgnoreCite(m) \/ DropGuard(m)
           \/ CommitCite(m) \/ CancelCite(m) \/ \E r \in RemoteRefs : Cite(m, r)
  BY DEF Next, Owner, Peer, vars, Gift, Commit, Rescind, DropGift, Release, LocalDrop, Receive,
     WriteRelease, DropHandle, RemoteDrop, Sink, citeVars
<1> QED BY <1>1, <1>2, <1>3, <1>4, <1>5


\* Only a citation that is decoded brings a handle of the owner's to life, and
\* it is the one that the entry knows then.
LEMMA OwnerAliveStep ==
  ASSUME SessionInv, [Next]_vars
  PROVE  \A r : LocalAlive(r)' => LocalAlive(r) \/ (DecodeCite /\ r = local'.handle)
<1>0. /\ cite \in [Cites -> Steps] /\ names \in [Cites -> LocalRefs \cup RemoteRefs \cup {None}]
      /\ writing \in Nat /\ TypeOK
  BY Basics DEF SessionInv, TypeOK
<1> SUFFICES ASSUME NEW r, LocalAlive(r)' PROVE LocalAlive(r) \/ (DecodeCite /\ r = local'.handle)
  OBVIOUS
<1>1. CASE DecodeCite
  <2> DEFINE m == Head(up).id
             h == IF local.present /\ ~LocalAlive(local.handle) THEN minted + 1 ELSE local.handle
  <2>1. /\ cite' = [cite EXCEPT ![m] = IF local.present THEN "decoded" ELSE "over"]
        /\ names' = [names EXCEPT ![m] = h] /\ local' = [local EXCEPT !.handle = h]
        /\ kept' = kept /\ writing' = writing
    BY <1>1 DEF DecodeCite
  <2>2. local'.handle = h
    BY <1>0, <2>1 DEF TypeOK
  <2>3. m \in Cites
    BY <1>1, SentIsNotPast DEF DecodeCite
  <2> HIDE DEF m, h
  <2>4. CASE r = 1 /\ (kept \/ writing > 0)
    BY <2>4 DEF LocalAlive
  <2>5. CASE \E n \in Cites : cite'[n] = "decoded" /\ names'[n] = r
    <3>1. PICK n \in Cites : cite'[n] = "decoded" /\ names'[n] = r
      BY <2>5
    <3>2. CASE n = m
      BY <1>0, <1>1, <2>1, <2>2, <2>3, <3>1, <3>2
    <3>3. CASE n # m
      <4>1. cite[n] = "decoded" /\ names[n] = r
        BY <1>0, <2>1, <3>1, <3>3
      <4> QED BY <4>1 DEF LocalAlive
    <3> QED BY <3>2, <3>3
  <2> QED BY <2>1, <2>4, <2>5 DEF LocalAlive
<1>2. CASE ~DecodeCite
  <2>1. r = 1 /\ (kept' \/ writing' > 0) => LocalAlive(r)
    <3>1. kept' => kept
      BY <1>2 DEF Next, Owner, Peer, vars, Gift, Commit, Rescind, DropGift, Release, LocalDrop, Acquire,
         Unregister, TryUnregister, IgnoreCite, UseCite, DropGuard, Receive, WriteRelease, DropHandle,
         RemoteDrop, CommitCite, CancelCite, Cite, Sink, ownerVars
    <3>2. writing' > 0 => kept \/ writing > 0
      <4>1. CASE Gift
        BY <4>1 DEF Gift
      <4>2. CASE Commit \/ Rescind
        BY <1>0, <4>2 DEF Commit, Rescind
      <4>3. CASE ~Gift /\ ~Commit /\ ~Rescind
        <5>1. writing' = writing
          BY <1>2, <4>3 DEF Next, Owner, Peer, vars, DropGift, Release, LocalDrop, Acquire,
             Unregister, TryUnregister, IgnoreCite, UseCite, DropGuard, Receive, WriteRelease, DropHandle,
             RemoteDrop, CommitCite, CancelCite, Cite, Sink, ownerVars
        <5> QED BY <5>1
      <4> QED BY <4>1, <4>2, <4>3
    <3> QED BY <3>1, <3>2 DEF LocalAlive
  <2>2. ASSUME NEW n \in Cites, cite'[n] = "decoded", names'[n] = r
        PROVE  cite[n] = "decoded" /\ names[n] = r
    <3>1. ASSUME NEW m \in Cites, NEW h \in RemoteRefs, Cite(m, h)
          PROVE  cite[n] = "decoded" /\ names[n] = r
      BY <1>0, <2>2, <3>1 DEF Cite
    <3>2. ASSUME NEW m \in Cites,
                 \/ Acquire(m) \/ Unregister(m) \/ TryUnregister(m) \/ IgnoreCite(m) \/ DropGuard(m)
                 \/ CommitCite(m) \/ CancelCite(m)
          PROVE  cite[n] = "decoded" /\ names[n] = r
      <4>1. PICK step \in {"guarded", "over", "sent"} : cite' = [cite EXCEPT ![m] = step] /\ names' = names
        BY <3>2 DEF Acquire, Unregister, TryUnregister, IgnoreCite, UseCite, DropGuard, CommitCite,
           CancelCite
      <4> QED BY <1>0, <2>2, <4>1
    <3>3. CASE UNCHANGED <<cite, names>>
      BY <2>2, <3>3
    <3>4. \/ UNCHANGED <<cite, names>>
          \/ \E m \in Cites :
               \/ Acquire(m) \/ Unregister(m) \/ TryUnregister(m) \/ IgnoreCite(m) \/ DropGuard(m)
               \/ CommitCite(m) \/ CancelCite(m) \/ \E h \in RemoteRefs : Cite(m, h)
      BY <1>2 DEF Next, Owner, Peer, vars, Gift, Commit, Rescind, DropGift, Release, LocalDrop, Receive,
         WriteRelease, DropHandle, RemoteDrop, Sink, citeVars
    <3> QED BY <3>1, <3>2, <3>3, <3>4
  <2> QED BY <2>1, <2>2 DEF LocalAlive
<1> QED BY <1>1, <1>2

\* What a step leaves of the owner's entry: it goes only without grants and
\* without a living handle, and a handle is replaced only when it is dead.
LEMMA OwnerEntryStep ==
  ASSUME SessionInv, [Next]_vars
  PROVE  /\ local.present /\ ~local'.present => local'.granted = 0 /\ ~LocalAlive(local.handle)
         /\ local'.present => local.present
         /\ local'.handle # local.handle =>
              /\ DecodeCite /\ local'.handle = minted + 1 /\ ~LocalAlive(local.handle)
<1>0. TypeOK /\ local.present \in BOOLEAN
  BY Basics DEF SessionInv
<1>1. CASE DecodeCite
  <2>1. local' = [local EXCEPT !.handle = IF local.present /\ ~LocalAlive(local.handle) THEN minted + 1
                                          ELSE local.handle]
    BY <1>1 DEF DecodeCite
  <2>2. /\ local'.present = local.present
        /\ local'.handle = IF local.present /\ ~LocalAlive(local.handle) THEN minted + 1 ELSE local.handle
    BY <1>0, <2>1 DEF TypeOK
  <2> QED BY <1>1, <2>2
<1>2. ASSUME NEW r \in LocalRefs, LocalDrop(r)
      PROVE  /\ local.present /\ ~local'.present => local'.granted = 0 /\ ~LocalAlive(local.handle)
             /\ local'.present => local.present
             /\ local'.handle = local.handle
  <2>1. CASE local.present /\ local.handle = r /\ local.granted = 0
    <3>1. local' = [local EXCEPT !.present = FALSE, !.resource = FALSE] /\ ~LocalAlive(r)
      BY <1>2, <2>1 DEF LocalDrop, LocalDying
    <3>2. ~local'.present /\ local'.granted = 0 /\ local'.handle = local.handle
      BY <1>0, <2>1, <3>1 DEF TypeOK
    <3> QED BY <2>1, <3>1, <3>2
  <2>2. CASE ~(local.present /\ local.handle = r /\ local.granted = 0)
    <3>1. local' = local
      BY <1>2, <2>2 DEF LocalDrop
    <3> QED BY <3>1
  <2> QED BY <2>1, <2>2
<1>3. CASE Release
  <2>1. CASE local.present
    <3> DEFINE e == [local EXCEPT !.granted = Lowered(@, Head(up).count)]
    <3>1. local' = RemovedIfUnused(e)
      BY <1>3, <2>1 DEF Release
    <3>2. e.present = local.present /\ e.handle = local.handle
      BY <1>0 DEF TypeOK
    <3>3. e \in [present : BOOLEAN, resource : BOOLEAN, granted : {Lowered(local.granted, Head(up).count)},
                 handle : LocalRefs]
      BY <1>0 DEF TypeOK
    <3> HIDE DEF e
    <3>4. CASE e.granted = 0 /\ ~LocalAlive(e.handle)
      <4>1. local' = [e EXCEPT !.present = FALSE, !.resource = FALSE]
        BY <3>1, <3>4 DEF RemovedIfUnused
      <4>2. local'.granted = 0 /\ local'.handle = e.handle
        BY <3>3, <3>4, <4>1
      <4> QED BY <2>1, <3>2, <3>4, <4>2
    <3>5. CASE ~(e.granted = 0 /\ ~LocalAlive(e.handle))
      <4>1. local' = e
        BY <3>1, <3>5 DEF RemovedIfUnused
      <4> QED BY <2>1, <3>2, <4>1
    <3> QED BY <3>4, <3>5
  <2>2. CASE ~local.present
    BY <1>3, <2>2 DEF Release
  <2> QED BY <2>1, <2>2
<1>4. CASE ~DecodeCite /\ ~Release /\ ~\E r \in LocalRefs : LocalDrop(r)
  <2>1. \/ local' = local \/ local' = [local EXCEPT !.resource = FALSE]
        \/ local' = [local EXCEPT !.granted = local'.granted]
    <3>1. CASE Gift \/ Rescind
      BY <1>0, <3>1 DEF Gift, Rescind, Rescinded, TypeOK
    <3>2. CASE ~Gift /\ ~Rescind
      BY <1>4, <3>2 DEF Next, Owner, Peer, vars, Commit, DropGift, Acquire,
         Unregister, TryUnregister, IgnoreCite, UseCite, DropGuard, Receive, WriteRelease, DropHandle,
         RemoteDrop, CommitCite, CancelCite, Cite, Sink, ownerVars
    <3> QED BY <3>1, <3>2
  <2>2. local'.present = local.present /\ local'.handle = local.handle
    BY <1>0, <2>1 DEF TypeOK
  <2> QED BY <2>2
<1> QED BY <1>1, <1>2, <1>3, <1>4


\* A living handle of the owner's has its entry after every step.
LEMMA OwnerHandlesStep ==
  ASSUME SessionInv, [Next]_vars
  PROVE  \A r \in LocalRefs : LocalAlive(r)' => local'.present /\ local'.handle = r
<1> SUFFICES ASSUME NEW r \in LocalRefs, LocalAlive(r)'
             PROVE  local'.present /\ local'.handle = r
  OBVIOUS
<1>0. local.present \in BOOLEAN /\ local.handle \in LocalRefs
  BY Basics DEF SessionInv
<1>1. CASE LocalAlive(r)
  <2>1. local.present /\ local.handle = r
    BY <1>1 DEF SessionInv, HandlesKeepTheirEntries
  <2>2. local'.present /\ local'.handle = local.handle
    BY <1>1, <2>1, OwnerEntryStep
  <2> QED BY <2>1, <2>2
<1>2. CASE DecodeCite /\ r = local'.handle
  <2>1. local.present
    BY <1>2, CiteIsPresent DEF DecodeCite
  <2>2. local'.present = local.present
    BY <1>2 DEF DecodeCite, SessionInv, TypeOK
  <2> QED BY <1>2, <2>1, <2>2
<1> QED BY <1>1, <1>2, OwnerAliveStep

\* What a step makes of the owner's count.
LEMMA OwnerCountStep ==
  ASSUME SessionInv, [Next]_vars, ~Gift, ~Rescind, ~Release
  PROVE  local'.granted = local.granted
<1>0. TypeOK
  BY DEF SessionInv
<1>1. \/ local' = local \/ local' = [local EXCEPT !.resource = FALSE]
      \/ local' = [local EXCEPT !.present = FALSE, !.resource = FALSE]
      \/ local' = [local EXCEPT !.handle = minted + 1]
      \/ local' = [local EXCEPT !.handle = local.handle]
  BY DEF Next, Owner, Peer, vars, Commit, DropGift, LocalDrop, DecodeCite, Acquire,
     Unregister, TryUnregister, IgnoreCite, UseCite, DropGuard, Receive, WriteRelease, DropHandle,
     RemoteDrop, CommitCite, CancelCite, Cite, Sink, ownerVars
<1> QED BY <1>0, <1>1 DEF TypeOK

\* The owner's entry goes with its last grant.
LEMMA EntryStep ==
  ASSUME SessionInv, [Next]_vars
  PROVE  EntryStays'
<1>0. TypeOK /\ EntryStays /\ Numbering /\ HandlesKeepTheirEntries
  BY DEF SessionInv
<1>b. local.present \in BOOLEAN /\ local.handle \in LocalRefs /\ local.granted \in 0..MaxCount /\ minted \in Nat
  BY <1>0, Basics
<1>e. /\ ~local.present => local.granted = 0
      /\ local.present /\ local.granted = 0 => local.handle \notin retired
      /\ \A r \in retired : ~LocalAlive(r)
      /\ retired \subseteq 1..minted
  BY <1>0 DEF EntryStays, Numbering
<1>n. minted + 1 \notin retired
  BY <1>b, <1>e
<1>a. \A r \in retired' : LocalAlive(r) => FALSE
  <2>1. CASE \E r \in LocalRefs : LocalDrop(r)
    BY <1>e, <2>1 DEF LocalDrop, LocalDying
  <2>2. CASE ~ \E r \in LocalRefs : LocalDrop(r)
    <3>1. retired' = retired
      BY <2>2 DEF Next, Owner, Peer, vars, Gift, Commit, Rescind, Release, DropGift, DecodeCite, Acquire,
         Unregister, TryUnregister, IgnoreCite, UseCite, DropGuard, Receive, WriteRelease, DropHandle,
         RemoteDrop, CommitCite, CancelCite, Cite, Sink, ownerVars
    <3> QED BY <1>e, <3>1
  <2> QED BY <2>1, <2>2
<1>1. ~local'.present => local'.granted = 0
  <2> SUFFICES ASSUME ~local'.present PROVE local'.granted = 0
    OBVIOUS
  <2>1. CASE local.present
    BY <2>1, OwnerEntryStep
  <2>2. CASE ~local.present
    <3>1. ~Gift /\ ~Rescind
      BY <2>2, FirstHandle DEF Gift, Rescind
    <3>2. CASE Release
      BY <1>e, <2>2, <3>2 DEF Release
    <3>3. CASE ~Release
      BY <1>e, <2>2, <3>1, <3>3, OwnerCountStep
    <3> QED BY <3>2, <3>3
  <2> QED BY <2>1, <2>2
<1>2. CASE DecodeCite
  <2>1. /\ retired' = retired
        /\ local'.handle = IF local.present /\ ~LocalAlive(local.handle) THEN minted + 1 ELSE local.handle
    BY <1>0, <1>2 DEF DecodeCite, TypeOK
  <2>2. local.present
    BY <1>2, CiteIsPresent DEF DecodeCite
  <2>3. local'.handle \notin retired'
    BY <1>e, <1>n, <2>1, <2>2
  <2>4. \A r \in retired' : ~LocalAlive(r)'
    BY <1>a, <2>3, OwnerAliveStep
  <2> QED BY <1>1, <2>3, <2>4 DEF EntryStays
<1>3. CASE ~DecodeCite
  <2>1. \A r \in retired' : ~LocalAlive(r)'
    BY <1>a, <1>3, OwnerAliveStep
  <2>2. local'.handle = local.handle
    BY <1>3, OwnerEntryStep
  <2>3. ASSUME local'.present, local'.granted = 0 PROVE local'.handle \notin retired'
    <3>0. local.present
      BY <2>3, OwnerEntryStep
    <3>1. CASE Gift
      <4>1. local' = [local EXCEPT !.granted = SatAdd(local.granted, 1)]
        BY <3>0, <3>1 DEF Gift
      <4>2. local'.granted = SatAdd(local.granted, 1)
        BY <1>0, <4>1 DEF TypeOK
      <4>3. SatAdd(local.granted, 1) # 0
        BY <1>b, CountsAssumption DEF SatAdd
      <4> QED BY <2>3, <4>2, <4>3
    <3>2. CASE Rescind
      <4>1. LocalAlive(1) /\ local.handle = 1
        BY <3>2, FirstHandle DEF Rescind, LocalAlive
      <4> QED BY <1>a, <2>2, <4>1
    <3>3. CASE Release
      <4> DEFINE e == [local EXCEPT !.granted = Lowered(@, Head(up).count)]
      <4>1. local' = RemovedIfUnused(e)
        BY <3>0, <3>3 DEF Release
      <4>2. e.handle = local.handle
        BY <1>0 DEF TypeOK
      <4>3. e \in [present : BOOLEAN, resource : BOOLEAN, handle : LocalRefs,
                   granted : {Lowered(local.granted, Head(up).count)}]
        BY <1>0 DEF TypeOK
      <4> HIDE DEF e
      <4>4. local' = e \/ (~LocalAlive(e.handle) /\ local' = [e EXCEPT !.present = FALSE, !.resource = FALSE])
        BY <4>1 DEF RemovedIfUnused
      <4>5. local' = e
        BY <2>3, <4>3, <4>4
      <4>6. LocalAlive(e.handle)
        <5>1. e.granted = 0
          BY <2>3, <4>5
        <5>2. ~LocalAlive(e.handle) => local' = [e EXCEPT !.present = FALSE, !.resource = FALSE]
          BY <4>1, <5>1 DEF RemovedIfUnused
        <5>3. [e EXCEPT !.present = FALSE, !.resource = FALSE].present = FALSE
          BY <4>3
        <5> QED BY <2>3, <5>2, <5>3
      <4> QED BY <1>a, <2>2, <4>2, <4>6
    <3>4. ASSUME NEW r \in LocalRefs, LocalDrop(r) PROVE local'.handle \notin retired'
      <4>1. retired' = retired \cup {r}
        BY <3>4 DEF LocalDrop
      <4>2. local.handle = r /\ local.granted = 0 => ~local'.present
        BY <1>0, <3>0, <3>4 DEF LocalDrop, TypeOK
      <4>3. local'.granted = local.granted
        <5>1. ~Gift /\ ~Rescind /\ ~Release
          BY <1>n, <3>4, <4>1 DEF Gift, Rescind, Release, LocalDrop, LocalDying
        <5> QED BY <5>1, OwnerCountStep
      <4> QED BY <1>e, <2>2, <2>3, <3>0, <4>1, <4>2, <4>3
    <3>5. CASE ~Gift /\ ~Rescind /\ ~Release /\ ~\E r \in LocalRefs : LocalDrop(r)
      <4>1. retired' = retired
        BY <1>3, <3>5 DEF Next, Owner, Peer, vars, Commit, DropGift, Acquire,
           Unregister, TryUnregister, IgnoreCite, UseCite, DropGuard, Receive, WriteRelease, DropHandle,
           RemoteDrop, CommitCite, CancelCite, Cite, Sink, ownerVars
      <4> QED BY <1>e, <2>2, <2>3, <3>0, <3>5, <4>1, OwnerCountStep
    <3> QED BY <3>1, <3>2, <3>3, <3>4, <3>5
  <2> QED BY <1>1, <2>1, <2>3 DEF EntryStays
<1> QED BY <1>2, <1>3

\* A living handle of the peer's has its entry, with a grant, after every step.
LEMMA PeerHandlesStep ==
  ASSUME SessionInv, [Next]_vars
  PROVE  \A r \in RemoteRefs :
           RemoteAlive(r)' => remote'.present /\ remote'.handle = r /\ remote'.granted > 0
<1>0. TypeOK /\ PeerEntry
  BY DEF SessionInv
<1>b. /\ remote.granted \in 0..Threshold /\ cite \in [Cites -> Steps]
      /\ names \in [Cites -> LocalRefs \cup RemoteRefs \cup {None}]
  BY <1>0, Basics DEF TypeOK
<1>h. \A r \in RemoteRefs : RemoteAlive(r) => remote.present /\ remote.handle = r /\ remote.granted > 0
  BY DEF SessionInv, HandlesKeepTheirEntries
<1> SUFFICES ASSUME NEW r \in RemoteRefs, RemoteAlive(r)'
             PROVE  remote'.present /\ remote'.handle = r /\ remote'.granted > 0
  OBVIOUS
<1>1. CASE Receive
  <2> DEFINE granted == SatAdd(remote.granted, 1)
             alive == remote.present /\ RemoteAlive(remote.handle)
             h == IF alive THEN remote.handle ELSE made + 1
  <2>1. /\ remote' = [present |-> TRUE, handle |-> h, granted |-> IF granted >= Threshold THEN 1 ELSE granted]
        /\ held' = held \cup {h} /\ cite' = cite /\ names' = names
    BY <1>1 DEF Receive, citeVars
  <2>2. granted > 0
    BY <1>b, CountsAssumption DEF SatAdd
  <2>3. RemoteAlive(r) \/ r = h
    BY <2>1 DEF RemoteAlive
  <2>4. RemoteAlive(r) => r = h
    BY <1>h
  <2> HIDE DEF granted, alive, h
  <2>5. remote'.present /\ remote'.handle = h /\ remote'.granted = IF granted >= Threshold THEN 1 ELSE granted
    BY <2>1
  <2>6. remote'.granted > 0
    BY <2>2, <2>5
  <2> QED BY <2>3, <2>4, <2>5, <2>6
<1>2. CASE ~Receive
  <2>1. RemoteAlive(r)
    <3>1. held' \subseteq held
      BY <1>2 DEF Next, Owner, Peer, vars, Gift, Commit, Rescind, DropGift, Release, LocalDrop, DecodeCite,
         Acquire, Unregister, TryUnregister, IgnoreCite, UseCite, DropGuard, WriteRelease, DropHandle,
         RemoteDrop, CommitCite, CancelCite, Cite, Sink, peerVars
    <3>2. ASSUME NEW n \in Cites, cite'[n] = "queued", names'[n] = r
          PROVE  r \in held \/ (cite[n] = "queued" /\ names[n] = r)
      <4>1. ASSUME NEW m \in Cites, NEW h \in RemoteRefs, Cite(m, h)
            PROVE  r \in held \/ (cite[n] = "queued" /\ names[n] = r)
        BY <1>b, <3>2, <4>1 DEF Cite
      <4>2. CASE DecodeCite
        <5>1. Head(up).id \in Cites
          BY <4>2, SentIsNotPast DEF DecodeCite
        <5>2. PICK h \in {minted + 1, local.handle} : names' = [names EXCEPT ![Head(up).id] = h]
          BY <4>2 DEF DecodeCite
        <5>3. PICK step \in {"decoded", "over"} : cite' = [cite EXCEPT ![Head(up).id] = step]
          BY <4>2 DEF DecodeCite
        <5> QED BY <1>b, <3>2, <5>1, <5>2, <5>3
      <4>3. ASSUME NEW m \in Cites,
                   \/ Acquire(m) \/ Unregister(m) \/ TryUnregister(m) \/ IgnoreCite(m) \/ DropGuard(m)
                   \/ CommitCite(m) \/ CancelCite(m)
            PROVE  cite[n] = "queued" /\ names[n] = r
        <5>1. PICK step \in {"guarded", "over", "sent"} : cite' = [cite EXCEPT ![m] = step] /\ names' = names
          BY <4>3 DEF Acquire, Unregister, TryUnregister, IgnoreCite, UseCite, DropGuard, CommitCite,
             CancelCite
        <5> QED BY <1>b, <3>2, <5>1
      <4>4. CASE UNCHANGED <<cite, names>>
        BY <3>2, <4>4
      <4>5. \/ DecodeCite \/ UNCHANGED <<cite, names>>
            \/ \E m \in Cites :
                 \/ Acquire(m) \/ Unregister(m) \/ TryUnregister(m) \/ IgnoreCite(m) \/ DropGuard(m)
                 \/ CommitCite(m) \/ CancelCite(m) \/ \E h \in RemoteRefs : Cite(m, h)
        BY <1>2 DEF Next, Owner, Peer, vars, Gift, Commit, Rescind, DropGift, Release, LocalDrop,
           WriteRelease, DropHandle, RemoteDrop, Sink, citeVars
      <4> QED BY <4>1, <4>2, <4>3, <4>4, <4>5
    <3> QED BY <3>1, <3>2 DEF RemoteAlive
  <2>2. remote.present /\ remote.handle = r /\ remote.granted > 0
    BY <1>h, <2>1
  <2>3. remote' = remote
    <3>1. ASSUME NEW h \in RemoteRefs, RemoteDrop(h) PROVE remote' = remote
      BY <2>1, <2>2, <3>1 DEF RemoteDrop, RemoteDying, PointsAt
    <3>2. CASE ~\E h \in RemoteRefs : RemoteDrop(h)
      BY <1>2, <3>2 DEF Next, Owner, Peer, vars, Gift, Commit, Rescind, DropGift, Release, LocalDrop,
         DecodeCite, Acquire, Unregister, TryUnregister, IgnoreCite, UseCite, DropGuard, WriteRelease,
         DropHandle, CommitCite, CancelCite, Cite, Sink, peerVars
    <3> QED BY <3>1, <3>2
  <2> QED BY <2>2, <2>3
<1> QED BY <1>1, <1>2


\* One handle's total changes.
LEMMA ReleasingUpdate ==
  ASSUME NEW f \in [{None} \cup RemoteRefs -> 0..MaxCount],
         NEW g \in [{None} \cup RemoteRefs -> 0..MaxCount], NEW t \in {None} \cup RemoteRefs,
         \A j \in {None} \cup RemoteRefs : j # t => g[j] = f[j]
  PROVE  Total(g) = Total(f) - f[t] + g[t]
<1> DEFINE S == {None} \cup RemoteRefs
<1>1. IsFiniteSet(S)
  <2>1. S = 0..Gifts /\ 0 \in Int /\ Gifts \in Int
    BY GiftsAssumption DEF None, RemoteRefs
  <2> QED BY <2>1, FS_Interval
<1>2. f \in [S -> 0..MaxCount] /\ g \in [S -> 0..MaxCount] /\ t \in S /\ \A j \in S : j # t => g[j] = f[j]
  OBVIOUS
<1> HIDE DEF S
<1>3. MaxCount \in Nat
  BY CountsAssumption
<1> QED BY <1>1, <1>2, <1>3, TotalUpdate


\* What is on its way back follows what a step does to its three places.
LEMMA ReleasedStep ==
  ASSUME SessionInv, [Next]_vars
  PROVE  /\ Release => Released = Released' + Head(up).count /\ Head(up).count \in 1..MaxCount
         /\ Receive => remote.granted + Released + 1 = remote'.granted + Released'
         /\ ~Release /\ ~Receive => remote.granted + Released = remote'.granted + Released'
         /\ Released' \in Nat /\ remote'.granted \in Nat
<1>0. TypeOK /\ PeerEntry
  BY DEF SessionInv
<1>t. Released' \in Nat /\ remote'.granted \in Nat
  <2>1. TypeOK'
    BY TypeStep
  <2>2. /\ up' \in Seq(Msgs) /\ outgoing' \in Seq(1..MaxCount)
        /\ releasing' \in [{None} \cup RemoteRefs -> 0..MaxCount] /\ remote'.granted \in 0..Threshold
    BY <2>1 DEF TypeOK, Msgs
  <2>3. outgoing' \in Seq(0..MaxCount)
    <3>1. 1..MaxCount \subseteq 0..MaxCount
      BY CountsAssumption
    <3> QED BY <2>2, <3>1, SeqWider
  <2>4. Total(releasing') \in Nat
    <3>1. IsFiniteSet({None} \cup RemoteRefs)
      BY <1>0, Basics
    <3> QED BY <2>2, <3>1, CountsAssumption, UnitsFinite
  <2>5. Total(outgoing') \in Nat
    BY <2>3, CountsAssumption, SeqIsFunction
  <2>6. Total(Counts(up')) \in Nat
    BY <2>2, CountsSeq
  <2>7. Released' \in Nat
    BY <2>4, <2>5, <2>6 DEF Released
  <2> QED BY <2>2, <2>7, CountsAssumption
<1>b. /\ remote.granted \in 0..Threshold /\ up \in Seq(Msgs) /\ outgoing \in Seq(0..MaxCount)
      /\ releasing \in [{None} \cup RemoteRefs -> 0..MaxCount]
      /\ IsFiniteSet({None} \cup RemoteRefs)
  BY <1>0, Basics
<1>n. Total(releasing) \in Nat /\ Total(outgoing) \in Nat /\ Total(Counts(up)) \in Nat
  BY <1>0, Basics
<1>m. MaxCount \in Nat /\ Threshold \in Nat /\ 2 <= Threshold /\ Threshold <= MaxCount
  BY CountsAssumption
<1>1. CASE Release
  <2>1. Reading("release") /\ up' = Tail(up) /\ UNCHANGED <<releasing, outgoing>>
    BY <1>1 DEF Release, peerVars
  <2>2. up # <<>> /\ Head(up) \in Msgs /\ Head(up).op = "release"
    BY <1>0, <2>1, HeadOfUp
  <2>3. GivesBack(Head(up)) = Head(up).count /\ Head(up).count \in 1..MaxCount
    BY <2>2, GivesBackType
  <2>4. Total(Counts(up)) = Total(Counts(up')) + Head(up).count
    BY <1>b, <2>1, <2>2, <2>3, CountsTail
  <2>5. Total(Counts(up')) \in Nat
    <3>1. up' \in Seq(Msgs)
      BY <1>0, <2>1, HeadOfUp
    <3> QED BY <3>1, CountsSeq
  <2>6. Released = Released' + Head(up).count
    BY <1>n, <1>m, <2>1, <2>3, <2>4, <2>5 DEF Released
  <2>7. ~Receive
    BY <1>1, <2>2 DEF Release, Receive
  <2> QED BY <1>1, <1>t, <2>3, <2>6, <2>7
<1>2. CASE Receive
  <2> DEFINE granted == SatAdd(remote.granted, 1)
  <2>1. /\ releasing[None] = 0 /\ UNCHANGED <<up, outgoing>>
        /\ remote'.granted = (IF granted >= Threshold THEN 1 ELSE granted)
        /\ releasing' = (IF granted >= Threshold THEN [releasing EXCEPT ![None] = granted - 1] ELSE releasing)
    BY <1>2 DEF Receive
  <2>2. granted = remote.granted + 1 /\ granted \in 1..Threshold
    BY <1>0, <1>b, <1>m DEF PeerEntry, SatAdd
  <2> HIDE DEF granted
  <2>3. ~Release
    <3>1. ASSUME Release PROVE FALSE
      <4>1. Reading("release") /\ up' = Tail(up)
        BY <3>1 DEF Release
      <4>2. Len(up') = Len(up) - 1 /\ Len(up) \in Nat
        BY <1>0, <4>1, HeadOfUp
      <4> QED BY <2>1, <4>2
    <3> QED BY <3>1
  <2>4. CASE granted >= Threshold
    <3>1. granted - 1 \in 0..MaxCount
      BY <1>m, <2>2
    <3>2. /\ releasing' \in [{None} \cup RemoteRefs -> 0..MaxCount] /\ releasing'[None] = granted - 1
          /\ \A t \in {None} \cup RemoteRefs : t # None => releasing'[t] = releasing[t]
      BY <1>b, <2>1, <2>4, <3>1
    <3>3. Total(releasing') = Total(releasing) - releasing[None] + releasing'[None]
      <4>1. None \in {None} \cup RemoteRefs
        OBVIOUS
      <4> QED BY <1>b, <3>2, <4>1, ReleasingUpdate
    <3>4. Total(releasing') = Total(releasing) + remote.granted
      BY <1>b, <1>n, <1>m, <2>1, <2>2, <3>2, <3>3
    <3>5. Released' = Released + remote.granted
      BY <1>b, <1>n, <1>m, <2>1, <3>4 DEF Released
    <3>6. remote'.granted = 1
      BY <2>1, <2>4
    <3>7. remote.granted + Released + 1 = remote'.granted + Released'
      BY <1>b, <1>n, <1>m, <3>5, <3>6 DEF Released
    <3> QED BY <1>2, <1>t, <2>3, <3>7
  <2>5. CASE ~(granted >= Threshold)
    <3>1. Released' = Released /\ remote'.granted = granted
      BY <2>1, <2>5 DEF Released
    <3>2. remote.granted + Released + 1 = remote'.granted + Released'
      BY <1>b, <1>n, <1>m, <2>2, <3>1 DEF Released
    <3> QED BY <1>2, <1>t, <2>3, <3>2
  <2> QED BY <2>4, <2>5
<1>3. ASSUME NEW r \in RemoteRefs, RemoteDrop(r)
      PROVE  remote.granted + Released = remote'.granted + Released'
  <2>1. UNCHANGED <<up, outgoing>> /\ r \notin dropped
    BY <1>3 DEF RemoteDrop, RemoteDying
  <2>2. CASE PointsAt(r)
    <3>1. remote' = Absent /\ releasing' = [releasing EXCEPT ![r] = remote.granted]
      BY <1>3, <2>2 DEF RemoteDrop
    <3>2. remote'.granted = 0 /\ releasing[r] = 0
      BY <1>0, <2>1, <3>1 DEF Absent, PeerEntry
    <3>3. remote.granted \in 0..MaxCount /\ r \in {None} \cup RemoteRefs
      BY <1>b, <1>m
    <3>4. /\ releasing' \in [{None} \cup RemoteRefs -> 0..MaxCount] /\ releasing'[r] = remote.granted
          /\ \A t \in {None} \cup RemoteRefs : t # r => releasing'[t] = releasing[t]
      BY <1>b, <3>1, <3>3
    <3>5. Total(releasing') = Total(releasing) - releasing[r] + releasing'[r]
      BY <1>b, <3>3, <3>4, ReleasingUpdate
    <3>6. Total(releasing') = Total(releasing) + remote.granted
      BY <1>n, <3>2, <3>3, <3>4, <3>5
    <3> QED BY <1>b, <1>n, <1>m, <2>1, <3>2, <3>6 DEF Released
  <2>3. CASE ~PointsAt(r)
    <3>1. remote' = remote /\ releasing' = releasing
      BY <1>3, <2>3 DEF RemoteDrop
    <3> QED BY <2>1, <3>1 DEF Released
  <2> QED BY <2>2, <2>3
<1>4. ASSUME NEW t \in {None} \cup RemoteRefs, Sink(t)
      PROVE  remote.granted + Released = remote'.granted + Released'
  <2>1. /\ releasing' = [releasing EXCEPT ![t] = 0] /\ outgoing' = Append(outgoing, releasing[t])
        /\ UNCHANGED <<up, remote>>
    BY <1>4 DEF Sink
  <2>2. releasing[t] \in 0..MaxCount /\ 0 \in 0..MaxCount
    BY <1>b, <1>m
  <2>3. /\ releasing' \in [{None} \cup RemoteRefs -> 0..MaxCount] /\ releasing'[t] = 0
        /\ \A j \in {None} \cup RemoteRefs : j # t => releasing'[j] = releasing[j]
    BY <1>b, <2>1, <2>2
  <2>4. Total(releasing') = Total(releasing) - releasing[t] + releasing'[t]
    BY <1>b, <2>3, ReleasingUpdate
  <2>5. Total(outgoing') = Total(outgoing) + releasing[t]
    BY <1>b, <1>m, <2>1, <2>2, TotalAppend
  <2>6. Released' = Released
    BY <1>n, <2>1, <2>2, <2>3, <2>4, <2>5 DEF Released
  <2> QED BY <2>1, <2>6
<1>5. ASSUME WriteRelease
      PROVE  remote.granted + Released = remote'.granted + Released'
  <2> DEFINE msg == [op |-> "release", count |-> Head(outgoing)]
  <2>1. /\ outgoing # <<>> /\ outgoing' = Tail(outgoing) /\ up' = Append(up, msg)
        /\ UNCHANGED <<releasing, remote>>
    BY <1>5 DEF WriteRelease
  <2>2. Head(outgoing) \in 1..MaxCount
    BY <1>0, <2>1, HeadTailProperties DEF TypeOK
  <2>3. msg \in Msgs /\ GivesBack(msg) = Head(outgoing)
    BY <2>2 DEF Msgs, GivesBack
  <2> HIDE DEF msg
  <2>4. Total(Counts(up')) = Total(Counts(up)) + Head(outgoing)
    BY <1>b, <2>1, <2>3, CountsAppend
  <2>5. Total(outgoing) = Total(outgoing') + Head(outgoing)
    BY <1>b, <1>m, <2>1, TotalTail
  <2>6. Total(outgoing') \in Nat
    <3>1. outgoing' \in Seq(0..MaxCount)
      BY <1>b, <2>1, HeadTailProperties
    <3> QED BY <3>1, <1>m, SeqIsFunction
  <2>7. Released' = Released
    BY <1>n, <1>m, <2>1, <2>2, <2>4, <2>5, <2>6 DEF Released
  <2> QED BY <2>1, <2>7
<1>6. ASSUME DecodeCite
      PROVE  remote.granted + Released = remote'.granted + Released'
  <2>1. Reading("cite") /\ up' = Tail(up) /\ UNCHANGED <<releasing, outgoing, remote>>
    BY <1>6 DEF DecodeCite, peerVars
  <2>2. up # <<>> /\ Head(up) \in Msgs /\ Head(up).op = "cite" /\ up' \in Seq(Msgs)
    BY <1>0, <2>1, HeadOfUp
  <2>3. GivesBack(Head(up)) = 0
    BY <2>2, GivesBackType
  <2>4. Total(Counts(up)) = Total(Counts(up')) + 0 /\ Total(Counts(up')) \in Nat
    BY <1>b, <2>1, <2>2, <2>3, CountsTail, CountsSeq
  <2>5. Released' = Released
    BY <1>n, <2>1, <2>4 DEF Released
  <2> QED BY <2>1, <2>5
<1>7. ASSUME NEW m \in Cites, CommitCite(m)
      PROVE  remote.granted + Released = remote'.granted + Released'
  <2> DEFINE msg == [op |-> "cite", id |-> m]
  <2>1. up' = Append(up, msg) /\ UNCHANGED <<releasing, outgoing, remote>>
    BY <1>7 DEF CommitCite, peerVars
  <2>2. msg \in Msgs /\ GivesBack(msg) = 0
    BY DEF Msgs, GivesBack
  <2> HIDE DEF msg
  <2>3. Total(Counts(up')) = Total(Counts(up)) + 0
    BY <1>b, <2>1, <2>2, CountsAppend
  <2>4. Released' = Released
    BY <1>n, <2>1, <2>3 DEF Released
  <2> QED BY <2>1, <2>4
<1>8. ASSUME UNCHANGED <<up, releasing, outgoing, remote>>
      PROVE  remote.granted + Released = remote'.granted + Released'
  BY <1>8 DEF Released
<1>9. \/ Release \/ Receive \/ WriteRelease \/ DecodeCite
      \/ \E r \in RemoteRefs : RemoteDrop(r)
      \/ \E t \in {None} \cup RemoteRefs : Sink(t)
      \/ \E m \in Cites : CommitCite(m)
      \/ UNCHANGED <<up, releasing, outgoing, remote>>
  BY DEF Next, Owner, Peer, vars, Gift, Commit, Rescind, DropGift, LocalDrop, Acquire,
     Unregister, TryUnregister, IgnoreCite, UseCite, DropGuard, DropHandle,
     CancelCite, Cite, peerVars
<1>10. CASE ~Release /\ ~Receive
  BY <1>t, <1>3, <1>4, <1>5, <1>6, <1>7, <1>8, <1>9, <1>10
<1> QED BY <1>1, <1>2, <1>10


\* The owner's count keeps up with every step.
LEMMA BalanceStep ==
  ASSUME SessionInv, [Next]_vars
  PROVE  GrantsBalance'
<1>0. TypeOK /\ GrantsBalance
  BY DEF SessionInv
<1>b. /\ local.granted \in 0..MaxCount /\ writing \in Nat /\ down \in Nat /\ Released \in Nat
      /\ remote.granted \in 0..Threshold /\ MaxCount \in Nat /\ Threshold \in Nat
  BY <1>0, Basics, CountsAssumption
<1>r. /\ Release => Released = Released' + Head(up).count /\ Head(up).count \in 1..MaxCount
      /\ Receive => remote.granted + Released + 1 = remote'.granted + Released'
      /\ ~Release /\ ~Receive => remote.granted + Released = remote'.granted + Released'
      /\ Released' \in Nat /\ remote'.granted \in Nat
  BY ReleasedStep
<1>g. local.granted # MaxCount => local.granted = writing + down + remote.granted + Released
  BY <1>0 DEF GrantsBalance
<1> SUFFICES ASSUME local'.granted # MaxCount
             PROVE  local'.granted = writing' + down' + remote'.granted + Released'
  BY DEF GrantsBalance
<1>1. CASE Gift
  <2>1. /\ kept /\ writing' = writing + 1 /\ UNCHANGED <<down, up, remote>>
        /\ local' = (IF local.present THEN [local EXCEPT !.granted = SatAdd(local.granted, 1)] ELSE local)
    BY <1>1 DEF Gift, peerVars
  <2>2. local'.granted = SatAdd(local.granted, 1)
    BY <1>0, <2>1, FirstHandle DEF TypeOK
  <2>3. ~Release /\ ~Receive
    BY <1>b, <1>1, <2>1 DEF Gift, Receive, Release
  <2>4. local.granted # MaxCount /\ local'.granted = local.granted + 1
    BY <1>b, <2>2 DEF SatAdd
  <2> QED BY <1>b, <1>r, <1>g, <2>1, <2>3, <2>4
<1>2. CASE Commit
  <2>1. writing > 0 /\ writing' = writing - 1 /\ down' = down + 1 /\ local' = local
    BY <1>2 DEF Commit
  <2>2. ~Release /\ ~Receive
    BY <1>b, <2>1 DEF Release, Receive
  <2> QED BY <1>b, <1>r, <1>g, <2>1, <2>2
<1>3. CASE Rescind
  <2>1. /\ writing > 0 /\ writing' = writing - 1 /\ down' = down
        /\ local' = (IF local.present THEN [local EXCEPT !.granted = Lowered(local.granted, 1)] ELSE local)
    BY <1>3 DEF Rescind, Rescinded
  <2>2. local'.granted = Lowered(local.granted, 1)
    BY <1>0, <2>1, FirstHandle DEF TypeOK
  <2>3. ~Release /\ ~Receive
    BY <1>b, <2>1 DEF Release, Receive
  <2>4. local.granted # MaxCount
    BY <1>b, <2>2 DEF Lowered
  <2>5. local'.granted = local.granted - 1
    BY <1>b, <1>g, <2>1, <2>2, <2>4 DEF Lowered, SatSub
  <2> QED BY <1>b, <1>r, <1>g, <2>1, <2>3, <2>4, <2>5
<1>4. CASE Release
  <2>1. /\ writing' = writing /\ down' = down /\ remote' = remote
        /\ local' = (IF local.present
                     THEN RemovedIfUnused([local EXCEPT !.granted = Lowered(local.granted, Head(up).count)])
                     ELSE local)
    BY <1>4 DEF Release, peerVars
  <2>2. Released = Released' + Head(up).count /\ Head(up).count \in 1..MaxCount
    BY <1>4, <1>r
  <2>3. local.present
    <3>1. writing + down + remote.granted + Released > 0
      BY <1>b, <1>r, <2>2
    <3> QED BY <3>1, GrantedIsPresent
  <2>4. local'.granted = Lowered(local.granted, Head(up).count)
    BY <1>0, <2>1, <2>3 DEF TypeOK, RemovedIfUnused
  <2>5. local.granted # MaxCount
    BY <2>4 DEF Lowered
  <2>6. local'.granted = local.granted - Head(up).count
    BY <1>b, <1>r, <1>g, <2>2, <2>4, <2>5 DEF Lowered, SatSub
  <2> QED BY <1>b, <1>r, <1>g, <2>1, <2>2, <2>5, <2>6
<1>5. CASE Receive
  <2>1. down > 0 /\ down' = down - 1 /\ writing' = writing /\ local' = local
    BY <1>5 DEF Receive, ownerVars
  <2> QED BY <1>b, <1>r, <1>g, <1>5, <2>1
<1>6. CASE ~Gift /\ ~Commit /\ ~Rescind /\ ~Release /\ ~Receive
  <2>1. local'.granted = local.granted
    BY <1>6, OwnerCountStep
  <2>2. writing' = writing /\ down' = down
    BY <1>6 DEF Next, Owner, Peer, vars, DropGift, LocalDrop, DecodeCite, Acquire,
       Unregister, TryUnregister, IgnoreCite, UseCite, DropGuard, WriteRelease, DropHandle,
       RemoteDrop, CommitCite, CancelCite, Cite, Sink, ownerVars
  <2> QED BY <1>b, <1>r, <1>g, <1>6, <2>1, <2>2
<1> QED BY <1>1, <1>2, <1>3, <1>4, <1>5, <1>6

\* The session starts in the invariant.
LEMMA SessionInit ==
  ASSUME Init
  PROVE  SessionInv
<1>0. /\ local = [present |-> TRUE, resource |-> TRUE, granted |-> 0, handle |-> 1]
      /\ minted = 1 /\ retired = {} /\ kept = TRUE
      /\ ungiven = Gifts /\ writing = 0 /\ down = 0 /\ up = <<>>
      /\ remote = [present |-> FALSE, granted |-> 0, handle |-> None]
      /\ made = None /\ dropped = {} /\ held = {}
      /\ releasing = [r \in {None} \cup RemoteRefs |-> 0] /\ outgoing = <<>>
      /\ cite = [m \in Cites |-> "new"] /\ names = [m \in Cites |-> None]
      /\ fault = FALSE
  BY DEF Init, Absent
<1>r. /\ LocalRefs \subseteq Nat /\ 1 \in LocalRefs /\ None = 0 /\ Cardinality(Cites) \in Nat
      /\ Gifts \in Nat /\ MaxCount \in Nat /\ Threshold \in Nat /\ 2 <= Threshold
  BY RefTypes, GiftsAssumption, CountsAssumption
<1>1. TypeOK
  <2>1. up \in Seq(Msgs) /\ outgoing \in Seq(1..MaxCount)
    BY <1>0
  <2>2. /\ local \in [present : BOOLEAN, resource : BOOLEAN, granted : 0..MaxCount, handle : LocalRefs]
        /\ remote \in [present : BOOLEAN, granted : 0..Threshold, handle : RemoteRefs \cup {None}]
    BY <1>0, <1>r
  <2>3. ungiven \in 0..Gifts /\ writing \in 0..Gifts /\ down \in 0..Gifts
    BY <1>0, <1>r
  <2>4. /\ releasing \in [{None} \cup RemoteRefs -> 0..MaxCount]
        /\ cite \in [Cites -> Steps] /\ names \in [Cites -> LocalRefs \cup RemoteRefs \cup {None}]
    BY <1>0, <1>r DEF Steps
  <2> QED BY <1>0, <1>r, <2>1, <2>2, <2>3, <2>4 DEF TypeOK, Msgs
<1>2. HandlesKeepTheirEntries
  BY <1>0 DEF HandlesKeepTheirEntries, LocalAlive, RemoteAlive
<1>3. GrantsBalance
  <2>1. Total(releasing) = 0
    <3>1. /\ releasing \in [{None} \cup RemoteRefs -> 0..MaxCount]
          /\ \A t \in {None} \cup RemoteRefs : releasing[t] = 0 /\ IsFiniteSet({None} \cup RemoteRefs)
      BY <1>0, <1>1, Basics
    <3> QED BY <1>r, <3>1, <1>1, Basics, TotalZero
  <2>2. ASSUME NEW s \in Seq(0..MaxCount), Len(s) = 0 PROVE Total(s) = 0
    <3>1. s \in [1..Len(s) -> 0..MaxCount] /\ IsFiniteSet(1..Len(s))
      BY <1>r, SeqIsFunction
    <3>2. \A i \in 1..Len(s) : s[i] = 0
      BY <2>2
    <3> QED BY <1>r, <3>1, <3>2, TotalZero
  <2>3. Total(outgoing) = 0 /\ Total(Counts(up)) = 0
    <3>1. outgoing \in Seq(0..MaxCount) /\ Len(outgoing) = 0
      BY <1>0
    <3>2. up \in Seq(Msgs) /\ Len(up) = 0
      BY <1>0
    <3>3. Counts(up) \in Seq(0..MaxCount) /\ Len(Counts(up)) = 0
      BY <3>2, CountsSeq
    <3> QED BY <2>2, <3>1, <3>3
  <2>4. local.granted = 0 /\ remote.granted = 0
    BY <1>0
  <2> QED BY <1>0, <2>1, <2>3, <2>4 DEF GrantsBalance, Released
<1>4. CitationsResolve
  BY <1>0 DEF CitationsResolve
<1>5. Numbering
  <2>1. Cardinality(Past) \in Nat
    BY PastGrows
  <2>2. minted <= 1 + Cardinality({m \in Cites : cite[m] \notin {"new", "queued", "sent"}})
    BY <1>0, <2>1 DEF Past
  <2> QED BY <1>0, <1>r, <2>2 DEF Numbering
<1>6. EntryStays
  BY <1>0 DEF EntryStays
<1>7. PeerEntry
  BY <1>0, <1>r DEF PeerEntry
<1>8. CitesAreBacked
  BY <1>0 DEF CitesAreBacked
<1> QED BY <1>1, <1>2, <1>3, <1>4, <1>5, <1>6, <1>7, <1>8 DEF SessionInv

\* Every step keeps it.
LEMMA SessionStep ==
  ASSUME SessionInv, [Next]_vars
  PROVE  SessionInv'
<1>1. Numbering'
  <2>1. minted' <= 1 + Cardinality({m \in Cites : cite'[m] \notin {"new", "queued", "sent"}})
    BY OwnerNumbersStep DEF Past
  <2> QED BY <2>1, OwnerNumbersStep, PeerNumbersStep, QueuedStep DEF Numbering
<1>2. HandlesKeepTheirEntries'
  BY OwnerHandlesStep, PeerHandlesStep DEF HandlesKeepTheirEntries
<1> QED BY <1>1, <1>2, TypeStep, BalanceStep, ResolveStep, EntryStep, PeerStep, BackedStep DEF SessionInv

\* So it holds in every state.
LEMMA SessionAlways == Spec => []SessionInv
<1>1. Init => SessionInv
  BY SessionInit
<1>2. SessionInv /\ [Next]_vars => SessionInv'
  BY SessionStep
<1> QED BY <1>1, <1>2, PTL DEF Spec

-----------------------------------------------------------------------------
(***************************************************************************)
(* The theorems.                                                           *)
(***************************************************************************)

\* Every variable keeps its type: the counts of the two tables stay within the
\* bounds they saturate at, and the handles are no more than there are messages
\* to make them (session.rs).
THEOREM SessionTypes == Spec => []TypeOK
BY SessionAlways, PTL DEF SessionInv

\* Whatever gifts, releases and dying handles cross, the owner's count is what
\* the peer holds and what is under way in either direction, until it saturates
\* (LocalEntry.granted).
THEOREM GrantsStayBalanced == Spec => []GrantsBalance
BY SessionAlways, PTL DEF SessionInv

\* Session::cite finds the entry of every citation that arrives: no order of the
\* messages and of the handles' drops ends the connection.
THEOREM CitationsAlwaysResolve == Spec => []CitationsResolve
BY SessionAlways, PTL DEF SessionInv

\* At both ends a handle that is alive is the one its entry knows, so that
\* Session::acquire never meets the case it calls unreachable and the peer cites
\* only while it has a grant.
THEOREM LivingHandlesHaveEntries == Spec => []HandlesKeepTheirEntries
BY SessionAlways, PTL DEF SessionInv

\* Once nobody holds or carries a reference and every Drop has run, the owner's
\* entry and its resource are gone, unless the count saturated.
THEOREM ResourcesDoNotLeak == Spec => []NothingLeaks
<1>1. SessionInv => NothingLeaks
  <2> SUFFICES ASSUME SessionInv,
                      ~\E r \in LocalRefs : LocalAlive(r) \/ LocalDying(r),
                      ~\E r \in RemoteRefs : RemoteAlive(r) \/ RemoteDying(r),
                      down = 0, Released = 0, local.granted # MaxCount, local.present
               PROVE  FALSE
    BY DEF NothingLeaks
  <2>1. TypeOK /\ Numbering /\ EntryStays /\ PeerEntry /\ GrantsBalance
    BY DEF SessionInv
  <2>2. /\ writing \in Nat /\ remote.granted \in 0..Threshold /\ local.handle \in LocalRefs
        /\ remote.present \in BOOLEAN /\ made \in Nat /\ Gifts \in Nat /\ Threshold \in Nat
    BY <2>1, Basics, GiftsAssumption, CountsAssumption
  <2>3. writing = 0
    <3>1. ~LocalAlive(1)
      BY RefTypes
    <3> QED BY <2>2, <3>1 DEF LocalAlive
  <2>4. remote.granted = 0
    <3>1. CASE remote.present
      <4>1. remote.handle \in 1..made /\ remote.handle \notin dropped
        BY <2>1, <3>1 DEF Numbering, PeerEntry
      <4>2. made <= Gifts
        BY <2>1, GiftsAssumption DEF TypeOK, RemoteRefs, None
      <4>3. remote.handle \in RemoteRefs /\ remote.handle <= made
        BY <2>2, <4>1, <4>2 DEF RemoteRefs
      <4>4. RemoteAlive(remote.handle) \/ RemoteDying(remote.handle)
        BY <4>1, <4>3 DEF RemoteDying
      <4> QED BY <4>3, <4>4
    <3>2. CASE ~remote.present
      BY <2>1, <2>2, <3>2 DEF PeerEntry
    <3> QED BY <3>1, <3>2
  <2>5. local.granted = 0
    BY <2>1, <2>3, <2>4 DEF GrantsBalance
  <2>6. local.handle <= minted /\ local.handle \notin retired
    BY <2>1, <2>5 DEF Numbering, EntryStays
  <2> QED BY <2>2, <2>6 DEF LocalDying
<1> QED BY <1>1, SessionAlways, PTL


=============================================================================
