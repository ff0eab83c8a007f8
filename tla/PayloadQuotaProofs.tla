------------------------- MODULE PayloadQuotaProofs -------------------------
(***************************************************************************)
(* The messages of one direction, for any number of messages and any       *)
(* sizes and limits: no byte of the quota is lost, the peer never refuses, *)
(* and the send driver never sleeps through its credit.                    *)
(***************************************************************************)
EXTENDS PayloadQuota, FiniteSetTheorems, SequenceTheorems, WellFoundedInduction, TLAPS

-----------------------------------------------------------------------------
(***************************************************************************)
(* Totals as sizes of sets: how they change when one entry of a function   *)
(* changes, and when a sequence grows or shrinks.                          *)
(***************************************************************************)

\* The unit bytes of a bounded function.
LEMMA UnitsMember ==
  ASSUME NEW S, NEW B \in Nat, NEW f \in [S -> 0..B]
  PROVE  \A u : u \in Units(f) <=> u \in S \X (1..B) /\ u[2] <= f[u[1]]
<1>1. ASSUME NEW u \in Units(f) PROVE u \in S \X (1..B) /\ u[2] <= f[u[1]]
  <2>1. PICK m \in S : u \in {m} \X (1..f[m])
    BY <1>1 DEF Units
  <2>2. f[m] \in 0..B
    OBVIOUS
  <2>3. u[1] = m /\ u[2] \in 1..f[m] /\ u = <<u[1], u[2]>>
    BY <2>1
  <2>4. u[2] \in 1..B
    BY <2>2, <2>3
  <2> QED BY <2>3, <2>4
<1>2. ASSUME NEW u \in S \X (1..B), u[2] <= f[u[1]] PROVE u \in Units(f)
  <2>1. u[1] \in S /\ u[2] \in 1..f[u[1]] /\ u = <<u[1], u[2]>>
    <3>1. u[1] \in S /\ u[2] \in 1..B /\ u[2] <= f[u[1]] /\ u = <<u[1], u[2]>>
      BY <1>2
    <3>2. f[u[1]] \in 0..B
      BY <3>1
    <3> QED BY <3>1, <3>2
  <2>2. u \in {u[1]} \X (1..f[u[1]])
    BY <2>1
  <2> QED BY <2>1, <2>2 DEF Units
<1> QED BY <1>1, <1>2

\* The total of a bounded function on a finite set is a natural number.
LEMMA UnitsFinite ==
  ASSUME NEW S, IsFiniteSet(S), NEW B \in Nat, NEW f \in [S -> 0..B]
  PROVE  IsFiniteSet(Units(f)) /\ Total(f) \in Nat
<1>0. IsFiniteSet(1..B)
  BY FS_Interval
<1>1. IsFiniteSet(S \X (1..B))
  BY <1>0, FS_Product
<1>2. Units(f) \in SUBSET (S \X (1..B))
  BY UnitsMember
<1>3. IsFiniteSet(Units(f))
  BY <1>1, <1>2, FS_Subset
<1> QED BY <1>3, FS_CardinalityType DEF Total

\* The unit bytes of one message of a function.
LEMMA ColumnCardinality ==
  ASSUME NEW m, NEW v \in Nat
  PROVE  IsFiniteSet({m} \X (1..v)) /\ Cardinality({m} \X (1..v)) = v
<1>1. IsFiniteSet(1..v) /\ Cardinality(1..v) = v
  BY FS_Interval
<1>2. IsFiniteSet({m}) /\ Cardinality({m}) = 1
  BY FS_Singleton
<1> QED BY <1>1, <1>2, FS_Product

\* Changing one value changes the total by as much.
LEMMA TotalUpdate ==
  ASSUME NEW S, IsFiniteSet(S), NEW B \in Nat, NEW f \in [S -> 0..B],
         NEW g \in [S -> 0..B], NEW m \in S, \A j \in S : j # m => g[j] = f[j]
  PROVE  Total(g) = Total(f) - f[m] + g[m]
<1> DEFINE v == g[m]
<1> DEFINE Rest == {u \in Units(f) : u[1] # m}
<1>1. f[m] \in 0..B /\ v \in 0..B
  OBVIOUS
<1>0. /\ \A u : u \in Units(f) <=> u \in S \X (1..B) /\ u[2] <= f[u[1]]
      /\ \A u : u \in Units(g) <=> u \in S \X (1..B) /\ u[2] <= g[u[1]]
  BY UnitsMember
<1>2. IsFiniteSet(Rest)
  <2>1. IsFiniteSet(Units(f))
    BY UnitsFinite
  <2>2. Rest \in SUBSET Units(f)
    OBVIOUS
  <2> QED BY <2>1, <2>2, FS_Subset
<1>3. Units(f) = Rest \cup ({m} \X (1..f[m]))
  <2>1. ASSUME NEW u \in Units(f), u[1] = m PROVE u \in {m} \X (1..f[m])
    <3>1. u \in S \X (1..B) /\ u[2] <= f[u[1]]
      BY <1>0, <2>1
    <3> QED BY <1>1, <2>1, <3>1
  <2>2. ASSUME NEW u \in {m} \X (1..f[m]) PROVE u \in Units(f)
    BY <2>2, <1>1 DEF Units
  <2> QED BY <2>1, <2>2
<1>4. Units(g) = Rest \cup ({m} \X (1..v))
  <2>1. ASSUME NEW u \in Units(g) PROVE u \in Rest \cup ({m} \X (1..v))
    <3>1. u \in S \X (1..B) /\ u[2] <= g[u[1]]
      BY <1>0, <2>1
    <3>2. CASE u[1] = m
      <4>1. g[u[1]] = v
        BY <3>2
      <4> QED BY <3>1, <3>2, <4>1
    <3>3. CASE u[1] # m
      <4>1. u[1] \in S
        BY <3>1
      <4>2. g[u[1]] = f[u[1]]
        BY <3>3, <4>1
      <4>3. u \in Units(f)
        BY <1>0, <3>1, <4>2
      <4> QED BY <3>3, <4>3
    <3> QED BY <3>2, <3>3
  <2>2. ASSUME NEW u \in Rest PROVE u \in Units(g)
    <3>1. u \in S \X (1..B) /\ u[2] <= f[u[1]] /\ u[1] # m
      BY <1>0, <2>2
    <3>2. g[u[1]] = f[u[1]]
      BY <3>1
    <3> QED BY <1>0, <3>1, <3>2
  <2>3. ASSUME NEW u \in {m} \X (1..v) PROVE u \in Units(g)
    <3>1. m \in DOMAIN g /\ g[m] = v
      OBVIOUS
    <3> QED BY <2>3, <3>1 DEF Units
  <2> QED BY <2>1, <2>2, <2>3
<1>5. ASSUME NEW n \in Nat
      PROVE  Cardinality(Rest \cup ({m} \X (1..n))) = Cardinality(Rest) + n
  <2>1. Rest \cap ({m} \X (1..n)) = {}
    OBVIOUS
  <2>2. IsFiniteSet({m} \X (1..n)) /\ Cardinality({m} \X (1..n)) = n
    BY ColumnCardinality
  <2>3. Cardinality(Rest) \in Nat
    BY <1>2, FS_CardinalityType
  <2>4. Cardinality(Rest \cup ({m} \X (1..n)))
          = Cardinality(Rest) + Cardinality({m} \X (1..n)) - Cardinality({})
    BY <1>2, <2>1, <2>2, FS_Union
  <2> QED BY <2>2, <2>3, <2>4, FS_EmptySet
<1>6. Total(f) = Cardinality(Rest) + f[m]
  BY <1>1, <1>3, <1>5 DEF Total
<1>7. Total(g) = Cardinality(Rest) + v
  <2>1. v \in Nat
    BY <1>1
  <2> HIDE DEF v, Rest
  <2> QED BY <1>4, <1>5, <2>1 DEF Total
<1>8. Cardinality(Rest) \in Nat
  BY <1>2, FS_CardinalityType
<1> QED BY <1>1, <1>6, <1>7, <1>8

\* No message owes more than all of them together.
LEMMA TotalBound ==
  ASSUME NEW S, IsFiniteSet(S), NEW B \in Nat, NEW f \in [S -> 0..B], NEW m \in S
  PROVE  f[m] <= Total(f)
<1> DEFINE g == [f EXCEPT ![m] = 0]
<1>1. g \in [S -> 0..B] /\ g[m] = 0 /\ \A j \in S : j # m => g[j] = f[j]
  OBVIOUS
<1> HIDE DEF g
<1>2. Total(g) = Total(f) - f[m] + g[m]
  BY <1>1, TotalUpdate
<1>3. Total(g) \in Nat /\ Total(f) \in Nat
  BY <1>1, UnitsFinite
<1> QED BY <1>1, <1>2, <1>3

\* Only a function that is zero everywhere has a total of zero.
LEMMA TotalZero ==
  ASSUME NEW S, IsFiniteSet(S), NEW B \in Nat, NEW f \in [S -> 0..B]
  PROVE  Total(f) = 0 <=> \A m \in S : f[m] = 0
<1>1. ASSUME Total(f) = 0, NEW m \in S PROVE f[m] = 0
  <2>1. f[m] <= Total(f) /\ f[m] \in 0..B
    BY TotalBound
  <2> QED BY <1>1, <2>1
<1>2. ASSUME \A m \in S : f[m] = 0 PROVE Total(f) = 0
  <2>1. \A u : u \in Units(f) <=> u \in S \X (1..B) /\ u[2] <= f[u[1]]
    BY UnitsMember
  <2>2. \A u \in S \X (1..B) : f[u[1]] = 0 /\ u[2] \in 1..B
    BY <1>2
  <2>3. Units(f) = {}
    BY <2>1, <2>2
  <2> QED BY <2>3, FS_EmptySet DEF Total
<1> QED BY <1>1, <1>2

\* A sequence of numbers is a bounded function on a finite set.
LEMMA SeqIsFunction ==
  ASSUME NEW B \in Nat, NEW s \in Seq(0..B)
  PROVE  /\ s \in [1..Len(s) -> 0..B] /\ Len(s) \in Nat
         /\ IsFiniteSet(1..Len(s)) /\ IsFiniteSet(Units(s)) /\ Total(s) \in Nat
<1>1. s \in [1..Len(s) -> 0..B] /\ Len(s) \in Nat
  OBVIOUS
<1>2. IsFiniteSet(1..Len(s))
  BY <1>1, FS_Interval
<1> QED BY <1>1, <1>2, UnitsFinite

\* The total of a sequence that grows.
LEMMA TotalAppend ==
  ASSUME NEW B \in Nat, NEW s \in Seq(0..B), NEW v \in 0..B
  PROVE  Total(Append(s, v)) = Total(s) + v
<1> DEFINE n == Len(s) + 1
           t == Append(s, v)
           C == {n} \X (1..v)
<1>1. /\ s \in [1..Len(s) -> 0..B] /\ Len(s) \in Nat
      /\ IsFiniteSet(Units(s)) /\ Total(s) \in Nat
  BY SeqIsFunction
<1>2. t \in [1..n -> 0..B] /\ t[n] = v /\ (\A i \in 1..Len(s) : t[i] = s[i])
  <2>1. t \in Seq(0..B) /\ Len(t) = n
    OBVIOUS
  <2>2. t \in [1..n -> 0..B]
    BY <2>1, SeqIsFunction
  <2>3. t[n] = v /\ (\A i \in 1..Len(s) : t[i] = s[i])
    OBVIOUS
  <2> QED BY <2>2, <2>3
<1>3. DOMAIN s = 1..Len(s) /\ DOMAIN t = 1..n /\ 1..n = (1..Len(s)) \cup {n} /\ n \notin 1..Len(s)
  BY <1>1, <1>2
<1> HIDE DEF n, t
<1>4. Units(t) = Units(s) \cup C
  BY <1>2, <1>3 DEF Units
<1>5. Units(s) \cap C = {}
  <2>1. \A u \in Units(s) : u[1] \in 1..Len(s)
    BY <1>3 DEF Units
  <2> QED BY <1>3, <2>1
<1>6. IsFiniteSet(C) /\ Cardinality(C) = v
  <2>1. v \in Nat
    OBVIOUS
  <2> QED BY <2>1, ColumnCardinality
<1> HIDE DEF C
<1>7. Cardinality(Units(s) \cup C) = Cardinality(Units(s)) + Cardinality(C) - Cardinality(Units(s) \cap C)
  BY <1>1, <1>6, FS_Union
<1>8. Cardinality(Units(s) \cap C) = 0
  BY <1>5, FS_EmptySet
<1>9. Total(t) = Total(s) + v
  BY <1>1, <1>4, <1>6, <1>7, <1>8 DEF Total
<1> QED BY <1>9 DEF t

\* The total of a sequence that loses its head.
LEMMA TotalTail ==
  ASSUME NEW B \in Nat, NEW s \in Seq(0..B), s # <<>>
  PROVE  Total(s) = Total(Tail(s)) + Head(s)
<1> DEFINE t == Tail(s)
           C == {1} \X (1..s[1])
           Rest == {u \in Units(s) : u[1] # 1}
           f == [u \in Rest |-> <<u[1] - 1, u[2]>>]
<1>1. /\ s \in [1..Len(s) -> 0..B] /\ Len(s) \in Nat
      /\ IsFiniteSet(Units(s)) /\ Total(s) \in Nat
  BY SeqIsFunction
<1>2. /\ Len(s) # 0 /\ s[1] = Head(s) /\ s[1] \in 0..B
      /\ t \in Seq(0..B) /\ Len(t) = Len(s) - 1
      /\ \A i \in 1..Len(t) : t[i] = s[i + 1]
  OBVIOUS
<1>3. /\ t \in [1..Len(t) -> 0..B] /\ Total(t) \in Nat /\ IsFiniteSet(Units(t))
  BY <1>2, SeqIsFunction
<1>4. /\ \A u : u \in Units(s) <=> u \in (1..Len(s)) \X (1..B) /\ u[2] <= s[u[1]]
      /\ \A u : u \in Units(t) <=> u \in (1..Len(t)) \X (1..B) /\ u[2] <= t[u[1]]
  BY <1>1, <1>3, UnitsMember
<1>5. Units(s) = Rest \cup C
  <2>1. \A u \in Units(s) : u[1] = 1 => u \in C
    BY <1>2, <1>4
  <2>2. C \subseteq Units(s)
    <3>1. 1 \in DOMAIN s
      BY <1>1, <1>2
    <3> QED BY <3>1 DEF Units
  <2> QED BY <2>1, <2>2
<1>6. Rest \cap C = {} /\ Rest \subseteq Units(s)
  OBVIOUS
<1>7. IsFiniteSet(Rest) /\ Cardinality(Rest) \in Nat
  BY <1>1, <1>6, FS_Subset, FS_CardinalityType
<1> HIDE DEF t
<1>8. ASSUME NEW u \in Rest PROVE f[u] \in Units(t)
  <2>1. u \in (1..Len(s)) \X (1..B) /\ u[2] <= s[u[1]] /\ u[1] # 1
    BY <1>4
  <2> DEFINE i == u[1] - 1
  <2>2. i \in 1..Len(t) /\ i + 1 = u[1]
    <3>1. u[1] \in 1..Len(s) /\ u[1] # 1 /\ Len(s) \in Nat /\ Len(t) = Len(s) - 1
      BY <1>1, <1>2, <2>1
    <3> QED BY <3>1
  <2>3. t[i] = s[u[1]]
    BY <1>2, <2>2
  <2>4. f[u] = <<i, u[2]>> /\ u[2] \in 1..B
    BY <2>1
  <2> HIDE DEF i, f
  <2>5. f[u] \in (1..Len(t)) \X (1..B) /\ f[u][2] = u[2] /\ f[u][1] = i
    BY <2>2, <2>4
  <2> QED BY <1>4, <2>1, <2>3, <2>5
<1>9. ASSUME NEW w \in Units(t) PROVE \E u \in Rest : f[u] = w
  <2>1. w \in (1..Len(t)) \X (1..B) /\ w[2] <= t[w[1]]
    BY <1>4
  <2> DEFINE u == <<w[1] + 1, w[2]>>
  <2>2. u \in (1..Len(s)) \X (1..B) /\ u[1] # 1 /\ u[2] = w[2] /\ u[1] = w[1] + 1
    <3>1. w[1] \in 1..Len(t) /\ w[2] \in 1..B
      BY <2>1
    <3>2. w[1] + 1 \in 1..Len(s) /\ w[1] + 1 # 1
      <4>1. Len(s) \in Nat /\ Len(t) = Len(s) - 1
        BY <1>1, <1>2
      <4> QED BY <3>1, <4>1
    <3>3. u[1] = w[1] + 1 /\ u[2] = w[2]
      OBVIOUS
    <3>4. u \in (1..Len(s)) \X (1..B)
      BY <3>1, <3>2
    <3> QED BY <3>2, <3>3, <3>4
  <2>3. u[2] <= s[u[1]]
    BY <1>2, <2>1, <2>2
  <2>4. u \in Units(s)
    BY <1>4, <2>2, <2>3
  <2>5. u \in Rest
    BY <2>2, <2>4
  <2>6. u[1] - 1 = w[1] /\ w = <<w[1], w[2]>>
    BY <2>1
  <2>7. f[u] = w
    BY <2>5, <2>6
  <2> QED BY <2>5, <2>7
<1>10. \A u, w \in Rest : f[u] = f[w] => u = w
  <2> SUFFICES ASSUME NEW u \in Rest, NEW w \in Rest, f[u] = f[w] PROVE u = w
    OBVIOUS
  <2>1. u \in (1..Len(s)) \X (1..B) /\ w \in (1..Len(s)) \X (1..B)
    BY <1>4
  <2>2. u[1] - 1 = w[1] - 1 /\ u[2] = w[2]
    OBVIOUS
  <2>3. u[1] = w[1] /\ u = <<u[1], u[2]>> /\ w = <<w[1], w[2]>>
    BY <1>1, <2>1, <2>2
  <2> QED BY <2>2, <2>3
<1>11. f \in [Rest -> Units(t)]
  BY <1>8
<1> HIDE DEF f
<1>12. f \in Injection(Rest, Units(t)) /\ f \in Surjection(Rest, Units(t))
  BY <1>9, <1>10, <1>11 DEF Injection, IsInjective, Surjection
<1>13. Cardinality(Units(t)) = Cardinality(Rest)
  BY <1>7, <1>12, FS_Surjection
<1>14. IsFiniteSet(C) /\ Cardinality(C) = s[1]
  <2>1. s[1] \in Nat
    BY <1>2
  <2> QED BY <2>1, ColumnCardinality
<1> HIDE DEF C, Rest
<1>15. Cardinality(Rest \cup C) = Cardinality(Rest) + Cardinality(C) - Cardinality(Rest \cap C)
  BY <1>7, <1>14, FS_Union
<1>16. Cardinality(Rest \cap C) = 0
  BY <1>6, FS_EmptySet
<1>17. Total(s) = Total(t) + Head(s)
  BY <1>2, <1>5, <1>7, <1>13, <1>14, <1>15, <1>16 DEF Total
<1> QED BY <1>17 DEF t

-----------------------------------------------------------------------------
(***************************************************************************)
(* What the operations of a SessionWindow do to a conserved pool.          *)
(***************************************************************************)

\* Moving bytes that are there, either way, keeps the pool well typed and
\* conserved and touches one message only.
LEMMA ChargeFacts ==
  ASSUME NEW S, IsFiniteSet(S), NEW size \in Nat, NEW w \in WindowType(S, size),
         Conserved(w, size), NEW m \in S, NEW n \in Int,
         n <= w.available, 0 - n <= w.debt[m]
  PROVE  /\ Charge(w, m, n) \in WindowType(S, size)
         /\ Conserved(Charge(w, m, n), size)
         /\ Charge(w, m, n).available = w.available - n
         /\ Charge(w, m, n).debt = [w.debt EXCEPT ![m] = @ + n]
<1> DEFINE d == [w.debt EXCEPT ![m] = @ + n]
<1>1. w.available \in 0..size /\ w.debt \in [S -> 0..size]
  BY DEF WindowType
<1>2. Charge(w, m, n).available = w.available - n /\ Charge(w, m, n).debt = d
  BY DEF Charge
<1>3. w.debt[m] \in 0..size
  BY <1>1
<1>4. w.debt[m] + n \in 0..(size + size)
  BY <1>1, <1>3
<1>5. w.debt \in [S -> 0..(size + size)] /\ d \in [S -> 0..(size + size)]
  <2>1. \A x \in 0..size : x \in 0..(size + size)
    OBVIOUS
  <2> QED BY <1>1, <1>4, <2>1
<1>6. size + size \in Nat
  OBVIOUS
<1>7. Total(d) = Total(w.debt) - w.debt[m] + (w.debt[m] + n)
  <2>1. d[m] = w.debt[m] + n /\ \A j \in S : j # m => d[j] = w.debt[j]
    BY <1>1
  <2> HIDE DEF d
  <2>2. Total(d) = Total(w.debt) - w.debt[m] + d[m]
    BY <1>5, <1>6, <2>1, TotalUpdate
  <2> QED BY <2>1, <2>2
<1>8. Total(d) \in Nat /\ Total(w.debt) \in Nat
  BY <1>5, <1>6, UnitsFinite
<1>9. w.available - n + Total(d) = size
  BY <1>1, <1>3, <1>7, <1>8 DEF Conserved
<1>10. w.available - n \in 0..size
  BY <1>1, <1>8, <1>9
<1>11. ASSUME NEW j \in S PROVE d[j] \in 0..size
  <2>1. d[j] \in 0..(size + size) /\ d[j] <= Total(d)
    BY <1>5, <1>6, TotalBound
  <2> QED BY <1>8, <1>9, <1>10, <2>1
<1>12. d \in [S -> 0..size]
  BY <1>5, <1>11
<1>13. Charge(w, m, n) = [available |-> w.available - n, debt |-> d]
  BY DEF Charge
<1>14. Charge(w, m, n) \in WindowType(S, size)
  BY <1>10, <1>12, <1>13 DEF WindowType
<1>15. Conserved(Charge(w, m, n), size)
  BY <1>2, <1>9 DEF Conserved
<1> QED BY <1>2, <1>14, <1>15

\* A new pool.
LEMMA NewWindowFacts ==
  ASSUME NEW S, IsFiniteSet(S), NEW size \in Nat
  PROVE  /\ NewWindow(S, size) \in WindowType(S, size)
         /\ Conserved(NewWindow(S, size), size)
         /\ \A j \in S : NewWindow(S, size).debt[j] = 0
<1> DEFINE z == [j \in S |-> 0]
<1>1. z \in [S -> 0..size]
  OBVIOUS
<1>2. \A u : u \in Units(z) <=> u \in S \X (1..size) /\ u[2] <= z[u[1]]
  BY <1>1, UnitsMember
<1>3. \A u \in S \X (1..size) : z[u[1]] = 0 /\ u[2] \in 1..size
  OBVIOUS
<1>4. Units(z) = {}
  BY <1>2, <1>3
<1>5. Total(z) = 0
  BY <1>4, FS_EmptySet DEF Total
<1> QED BY <1>1, <1>5 DEF NewWindow, WindowType, Conserved

\* A settlement returns everything.
LEMMA SettleFacts ==
  ASSUME NEW S, IsFiniteSet(S), NEW size \in Nat, NEW w \in WindowType(S, size),
         Conserved(w, size), NEW m \in S
  PROVE  /\ Settle(w, m) \in WindowType(S, size)
         /\ Conserved(Settle(w, m), size)
         /\ Settle(w, m).debt[m] = 0
         /\ \A j \in S : j # m => Settle(w, m).debt[j] = w.debt[j]
<1>1. w.available \in 0..size /\ w.debt \in [S -> 0..size] /\ w.debt[m] \in 0..size
  BY DEF WindowType
<1> DEFINE k == w.debt[m]
<1>2. k \in Nat /\ 0 - k \in Int /\ 0 - k <= w.available /\ 0 - (0 - k) <= w.debt[m]
  BY <1>1
<1>3. Settle(w, m) = Charge(w, m, 0 - k)
  BY DEF Settle
<1>4. k = w.debt[m]
  OBVIOUS
<1> HIDE DEF k
<1>5. /\ Settle(w, m) \in WindowType(S, size)
      /\ Conserved(Settle(w, m), size)
      /\ Settle(w, m).debt = [w.debt EXCEPT ![m] = @ + (0 - k)]
  BY <1>2, <1>3, ChargeFacts
<1> QED BY <1>1, <1>2, <1>4, <1>5

(***************************************************************************)
(* The invariants.                                                         *)
(***************************************************************************)

Distinct(s) == \A i, j \in DOMAIN s : s[i] = s[j] => i = j

Multi == {m \in Msgs : MultiFragment(m)}

\* The scheduler's queues hold each send once, and a slot for each active one
\* that needs it.
Sound(q) ==
  /\ q \in [waiting : Seq(Msgs), active : Seq(Msgs), slots : 0..MaxCalls, budget : Nat]
  /\ Distinct(q.waiting) /\ Distinct(q.active)
  /\ Elements(q.waiting) \cap Elements(q.active) = {}
  /\ q.slots = Cardinality(Elements(q.active) \cap Multi)

Scheduled == Queues(waiting, active, slots, budget)

\* A message is sent once: it is with the application, in the channel, waiting,
\* active or past all of them.
SentOnce ==
  /\ \A i, j \in DOMAIN inbox :
       (inbox[i].op = "send" /\ inbox[j].op = "send" /\ inbox[i].id = inbox[j].id)
         => i = j
  /\ \A i \in DOMAIN inbox : inbox[i].op = "send" =>
       inbox[i].id \notin todo \cup Elements(waiting) \cup Elements(active) \cup started
  /\ todo \cap (Elements(waiting) \cup Elements(active) \cup started) = {}
  /\ Elements(waiting) \cap started = {}

\* How far a send has come.
Progress ==
  /\ \A m \in Msgs : /\ offset[m] <= Size[m]
                     /\ m \notin started => offset[m] = 0 /\ batch[m] = 0
                     /\ producer[m] # "none" => m \in Streams
  /\ Elements(active) \cap started \subseteq Multi
  /\ Distinct(control)
  /\ Elements(control) \subseteq started \ Elements(active)

Closes(f) == f.abort \/ f.last
Leaves(f) == f.abort \/ f.last \/ f.trailer

\* Of the fragments on the wire a message's first comes first, one that ends it
\* last, and no payload follows what opens its trailer.
WireOrder ==
  \A k \in DOMAIN wire :
    LET f == wire[k] IN
    /\ f.id \in started
    /\ f.abort => f.len = 0 /\ ~f.first
    /\ f.first => entry[f.id] = "none"
    /\ ~f.first => \/ entry[f.id] # "none"
                   \/ \E j \in 1..(k - 1) : wire[j].id = f.id /\ wire[j].first
    /\ entry[f.id] = "trailer" => f.len = 0
    /\ \A j \in 1..(k - 1) : wire[j].id = f.id =>
         ~f.first /\ ~Closes(wire[j]) /\ (wire[j].trailer => f.len = 0)

\* The messages of which the scheduler has sent a part and will send more.
Engaged == (Elements(active) \cap started) \cup Elements(control)

\* What the peer knows, or will know, of a message agrees with the scheduler.
WireMatches ==
  \A m \in Msgs :
    /\ m \notin started => entry[m] = "none"
    /\ m \in Engaged =>
         /\ \/ entry[m] # "none"
            \/ \E k \in DOMAIN wire : wire[k].id = m /\ wire[k].first
         /\ \A k \in DOMAIN wire : wire[k].id = m => ~Closes(wire[k])
    /\ \/ entry[m] = "trailer"
       \/ \E k \in DOMAIN wire : wire[k].id = m /\ wire[k].trailer
       => ~PayloadLeft(m)

\* The messages that will be in their payload phase at the peer when it has
\* taken the fragments at the places P.
Incomplete(P) ==
  {m \in Msgs :
     /\ \/ entry[m] = "payload"
        \/ \E j \in P : wire[j].id = m /\ wire[j].first
     /\ \A j \in P : wire[j].id = m => ~Leaves(wire[j])}

\* No fragment that begins a message of several meets as many as the limit,
\* and those that the last one leaves hold a slot or are about to be aborted.
IncompleteBound ==
  /\ \A k \in DOMAIN wire :
       (wire[k].first /\ ~wire[k].last) => Cardinality(Incomplete(1..(k - 1))) < MaxCalls
  /\ Incomplete(DOMAIN wire) \subseteq Engaged

\* A driver that is ready has something to write.
ReadyMoves ==
  writer = "ready" => control # <<>> \/ \E m \in Elements(active) : CanMove(m)

WireInv == WireOrder /\ WireMatches /\ IncompleteBound

\* The sum of g over the messages in S.
Mass(S, g) == Total([m \in Msgs |-> IF m \in S THEN g[m] ELSE 0])

\* What each send has left to send when it has come as far as o.
LeftOf(o) == [m \in Msgs |-> Size[m] - o[m]]

Lengths(w) == [i \in DOMAIN w |-> w[i].len]

\* QuotaConserved, with the charges of the active sends as a sum over messages.
QuotaBalance ==
  budget + Mass(Elements(active), LeftOf(offset)) + Total(Lengths(wire))
         + Total(pool.debt) + owed + Total(back) = Quota

\* The types, without the bounds that follow from the balance.
Shape ==
  /\ todo \subseteq Msgs /\ asked \subseteq Msgs
  /\ producer \in [Msgs -> {"none", "idle", "finished", "dropped"}]
  /\ inbox \in Seq([op : {"send", "cancel", "discarded"}, id : Msgs])
  /\ control \in Seq(Msgs)
  /\ offset \in [Msgs -> 0..Quota] /\ batch \in [Msgs -> Nat]
  /\ started \subseteq Msgs
  /\ writer \in {"select", "registered", "ready", "asleep"}
  /\ parked \in BOOLEAN /\ woken \in BOOLEAN
  /\ wire \in Seq(Fragments) /\ back \in Seq(1..Quota)
  /\ entry \in [Msgs -> {"none", "payload", "trailer"}]
  /\ pool \in WindowType(Msgs, Quota)
  /\ holding \subseteq Msgs /\ got \subseteq Msgs /\ unwanted \subseteq Msgs
  /\ owed \in Nat
  /\ fault = "none"

FlowInv ==
  /\ Shape /\ Conserved(pool, Quota) /\ QuotaBalance
  /\ Sound(Scheduled) /\ SentOnce /\ Progress /\ WireInv /\ ReadyMoves

\* What the driver knows when it registers and when it sleeps.
WakeInv ==
  /\ writer = "registered" =>
       control = <<>> /\ (waiting # <<>> => parked \/ woken)
  /\ (writer = "asleep" /\ ~woken) =>
       /\ \A i \in DOMAIN active : ~CanMove(active[i])
       /\ control = <<>>
       /\ waiting # <<>> =>
            /\ parked
            /\ ~TryCharge(Queues(waiting, active, slots, budget), <<Head(waiting)>>)

-----------------------------------------------------------------------------
(***************************************************************************)
(* Sums over the messages in a set, and sequences without repetition.      *)
(***************************************************************************)

\* Two sets that a function matches one to one are of the same size.
LEMMA SameSize ==
  ASSUME NEW S, NEW T, IsFiniteSet(S), NEW f \in [S -> T],
         \A x, y \in S : f[x] = f[y] => x = y,
         \A z \in T : \E x \in S : f[x] = z
  PROVE  IsFiniteSet(T) /\ Cardinality(T) = Cardinality(S)
<1>1. f \in Surjection(S, T) /\ f \in Injection(S, T)
  BY DEF Surjection, Injection, IsInjective
<1> QED BY <1>1, FS_Surjection

LEMMA MassType ==
  ASSUME NEW S, NEW g \in [Msgs -> 0..Quota]
  PROVE  /\ [m \in Msgs |-> IF m \in S THEN g[m] ELSE 0] \in [Msgs -> 0..Quota]
         /\ Mass(S, g) \in Nat
<1>1. [m \in Msgs |-> IF m \in S THEN g[m] ELSE 0] \in [Msgs -> 0..Quota]
  BY LimitsAssumption
<1> QED BY <1>1, UnitsFinite, MsgsAssumption, LimitsAssumption DEF Mass

LEMMA MassEmpty ==
  ASSUME NEW g \in [Msgs -> 0..Quota]
  PROVE  Mass({}, g) = 0
<1> DEFINE f == [m \in Msgs |-> IF m \in {} THEN g[m] ELSE 0]
<1>1. f \in [Msgs -> 0..Quota] /\ \A m \in Msgs : f[m] = 0
  BY LimitsAssumption
<1> HIDE DEF f
<1>2. Total(f) = 0
  BY <1>1, TotalZero, MsgsAssumption, LimitsAssumption
<1> QED BY <1>2 DEF Mass, f

\* Of two functions that agree on S the sums over S are the same.
LEMMA MassAgree ==
  ASSUME NEW S, NEW g, NEW h, \A m \in S \cap Msgs : g[m] = h[m]
  PROVE  Mass(S, g) = Mass(S, h)
<1>1. [m \in Msgs |-> IF m \in S THEN g[m] ELSE 0] = [m \in Msgs |-> IF m \in S THEN h[m] ELSE 0]
  OBVIOUS
<1> QED BY <1>1 DEF Mass

LEMMA MassAdd ==
  ASSUME NEW S, NEW m \in Msgs, m \notin S, NEW g \in [Msgs -> 0..Quota]
  PROVE  Mass(S \cup {m}, g) = Mass(S, g) + g[m]
<1> DEFINE f == [j \in Msgs |-> IF j \in S THEN g[j] ELSE 0]
           h == [j \in Msgs |-> IF j \in S \cup {m} THEN g[j] ELSE 0]
<1>1. f \in [Msgs -> 0..Quota] /\ h \in [Msgs -> 0..Quota]
  BY MassType
<1>2. f[m] = 0 /\ h[m] = g[m] /\ \A j \in Msgs : j # m => h[j] = f[j]
  OBVIOUS
<1>3. Mass(S, g) = Total(f) /\ Mass(S \cup {m}, g) = Total(h) /\ Total(f) \in Nat
  BY MassType DEF Mass
<1> HIDE DEF f, h
<1>4. Total(h) = Total(f) - f[m] + h[m]
  BY <1>1, <1>2, TotalUpdate, MsgsAssumption, LimitsAssumption
<1>5. g[m] \in Nat
  OBVIOUS
<1> QED BY <1>2, <1>3, <1>4, <1>5

LEMMA MassRemove ==
  ASSUME NEW S, NEW m \in Msgs, m \in S, NEW g \in [Msgs -> 0..Quota]
  PROVE  Mass(S, g) = Mass(S \ {m}, g) + g[m]
<1>1. (S \ {m}) \cup {m} = S
  OBVIOUS
<1> QED BY <1>1, MassAdd

\* The sum over two sets that share nothing.
LEMMA MassUnion ==
  ASSUME NEW S, NEW T, S \cap T = {}, NEW g \in [Msgs -> 0..Quota]
  PROVE  Mass(S \cup T, g) = Mass(S, g) + Mass(T, g)
<1> DEFINE f == [j \in Msgs |-> IF j \in S THEN g[j] ELSE 0]
           h == [j \in Msgs |-> IF j \in T THEN g[j] ELSE 0]
           b == [j \in Msgs |-> IF j \in S \cup T THEN g[j] ELSE 0]
<1>1. /\ f \in [Msgs -> 0..Quota] /\ h \in [Msgs -> 0..Quota] /\ b \in [Msgs -> 0..Quota]
  BY MassType
<1>2. \A m \in Msgs : \/ b[m] = f[m] /\ h[m] = 0
                      \/ b[m] = h[m] /\ f[m] = 0
  OBVIOUS
<1>3. /\ Mass(S, g) = Cardinality(Units(f)) /\ Mass(T, g) = Cardinality(Units(h))
      /\ Mass(S \cup T, g) = Cardinality(Units(b))
  BY DEF Mass, Total
<1> HIDE DEF f, h, b
<1>4. /\ IsFiniteSet(Units(f)) /\ IsFiniteSet(Units(h))
      /\ Cardinality(Units(f)) \in Nat /\ Cardinality(Units(h)) \in Nat
  BY <1>1, UnitsFinite, MsgsAssumption, LimitsAssumption DEF Total
<1>5. /\ \A u : u \in Units(f) <=> u \in Msgs \X (1..Quota) /\ u[2] <= f[u[1]]
      /\ \A u : u \in Units(h) <=> u \in Msgs \X (1..Quota) /\ u[2] <= h[u[1]]
      /\ \A u : u \in Units(b) <=> u \in Msgs \X (1..Quota) /\ u[2] <= b[u[1]]
  BY <1>1, UnitsMember, LimitsAssumption
<1>6. \A u \in Msgs \X (1..Quota) : u[1] \in Msgs /\ u[2] \in Int /\ u[2] > 0
  BY LimitsAssumption
<1>7. Units(b) = Units(f) \cup Units(h) /\ Units(f) \cap Units(h) = {}
  <2>1. ASSUME NEW u \in Msgs \X (1..Quota)
        PROVE  /\ u[2] <= b[u[1]] <=> (u[2] <= f[u[1]] \/ u[2] <= h[u[1]])
               /\ ~(u[2] <= f[u[1]] /\ u[2] <= h[u[1]])
    <3>1. u[1] \in Msgs /\ u[2] \in Int /\ u[2] > 0
      BY <1>6
    <3>2. f[u[1]] \in Int /\ h[u[1]] \in Int
      BY <1>1, <3>1
    <3> QED BY <1>2, <3>1, <3>2
  <2> QED BY <1>5, <2>1
<1>8. Cardinality(Units(f) \cup Units(h)) =
        Cardinality(Units(f)) + Cardinality(Units(h)) - Cardinality(Units(f) \cap Units(h))
  BY <1>4, FS_Union
<1>9. Cardinality(Units(f) \cap Units(h)) = 0
  BY <1>7, FS_EmptySet
<1> QED BY <1>3, <1>4, <1>7, <1>8, <1>9

\* A sum over the places of a sequence without repetition is the sum over its
\* elements.
LEMMA MassOfSeq ==
  ASSUME NEW s \in Seq(Msgs), Distinct(s), NEW g \in [Msgs -> 0..Quota]
  PROVE  Total([i \in DOMAIN s |-> g[s[i]]]) = Mass(Elements(s), g)
<1> DEFINE f == [i \in DOMAIN s |-> g[s[i]]]
           h == [m \in Msgs |-> IF m \in Elements(s) THEN g[m] ELSE 0]
           F == [u \in Units(f) |-> <<s[u[1]], u[2]>>]
<1>1. DOMAIN s = 1..Len(s) /\ Len(s) \in Nat /\ \A i \in DOMAIN s : s[i] \in Msgs
  OBVIOUS
<1>2. f \in [1..Len(s) -> 0..Quota] /\ h \in [Msgs -> 0..Quota]
  BY <1>1, MassType
<1>3. /\ \A i \in DOMAIN s : f[i] = g[s[i]] /\ h[s[i]] = f[i]
      /\ \A m \in Msgs : m \notin Elements(s) => h[m] = 0
  BY <1>1 DEF Elements
<1>4. IsFiniteSet(1..Len(s)) /\ IsFiniteSet(Units(f))
  <2>1. IsFiniteSet(1..Len(s))
    BY <1>1, FS_Interval
  <2> HIDE DEF f
  <2> QED BY <1>2, <2>1, UnitsFinite, LimitsAssumption
<1>5. F = [u \in Units(f) |-> <<s[u[1]], u[2]>>] /\ Mass(Elements(s), g) = Cardinality(Units(h))
  BY DEF Mass, Total
<1> HIDE DEF f, h, F
<1>6. /\ \A u : u \in Units(f) <=> u \in (1..Len(s)) \X (1..Quota) /\ u[2] <= f[u[1]]
      /\ \A u : u \in Units(h) <=> u \in Msgs \X (1..Quota) /\ u[2] <= h[u[1]]
  BY <1>2, UnitsMember, LimitsAssumption
<1>7. F \in [Units(f) -> Units(h)]
  <2>1. ASSUME NEW u \in Units(f) PROVE <<s[u[1]], u[2]>> \in Units(h)
    <3>1. u[1] \in DOMAIN s /\ u[2] \in 1..Quota /\ u[2] <= f[u[1]]
      BY <1>1, <1>6
    <3>2. s[u[1]] \in Msgs /\ u[2] <= h[s[u[1]]]
      BY <1>1, <1>3, <3>1
    <3> QED BY <1>6, <3>1, <3>2
  <2> QED BY <1>5, <2>1
<1>8. \A u, v \in Units(f) : F[u] = F[v] => u = v
  <2> SUFFICES ASSUME NEW u \in Units(f), NEW v \in Units(f), F[u] = F[v] PROVE u = v
    OBVIOUS
  <2>1. s[u[1]] = s[v[1]] /\ u[2] = v[2]
    BY <1>5
  <2>2. /\ u \in (1..Len(s)) \X (1..Quota) /\ v \in (1..Len(s)) \X (1..Quota)
    BY <1>6
  <2>3. u = <<u[1], u[2]>> /\ v = <<v[1], v[2]>> /\ u[1] \in DOMAIN s /\ v[1] \in DOMAIN s
    BY <1>1, <2>2
  <2>4. u[1] = v[1]
    BY <2>1, <2>3 DEF Distinct
  <2> QED BY <2>1, <2>3, <2>4
<1>9. \A v \in Units(h) : \E u \in Units(f) : F[u] = v
  <2> SUFFICES ASSUME NEW v \in Units(h) PROVE \E u \in Units(f) : F[u] = v
    OBVIOUS
  <2>1. v \in Msgs \X (1..Quota) /\ v[2] <= h[v[1]]
    BY <1>6
  <2>2. v = <<v[1], v[2]>> /\ v[1] \in Msgs /\ v[2] \in 1..Quota
    BY <2>1
  <2>3. v[1] \in Elements(s)
    <3>1. h[v[1]] # 0
      BY <2>1, <2>2
    <3> QED BY <1>3, <2>2, <3>1
  <2>4. PICK i \in DOMAIN s : s[i] = v[1]
    BY <2>3 DEF Elements
  <2>5. <<i, v[2]>> \in Units(f)
    <3>1. v[2] <= f[i]
      BY <1>3, <2>1, <2>4
    <3> QED BY <1>1, <1>6, <2>2, <3>1
  <2>6. F[<<i, v[2]>>] = v
    BY <1>5, <2>2, <2>4, <2>5
  <2> QED BY <2>5, <2>6
<1>10. Cardinality(Units(h)) = Cardinality(Units(f))
  BY <1>4, <1>7, <1>8, <1>9, SameSize
<1> QED BY <1>5, <1>10 DEF Total, f

\* So is the number of its places with a send that needs a slot.
LEMMA SlotsOfSeq ==
  ASSUME NEW s \in Seq(Msgs), Distinct(s)
  PROVE  /\ SlotsOf(s) = Cardinality(Elements(s) \cap Multi)
         /\ SlotsOf(s) \in Nat
<1> DEFINE P == {i \in DOMAIN s : MultiFragment(s[i])}
           f == [i \in P |-> s[i]]
           T == Elements(s) \cap Multi
<1>1. DOMAIN s = 1..Len(s) /\ Len(s) \in Nat /\ \A i \in DOMAIN s : s[i] \in Msgs
  OBVIOUS
<1>2. IsFiniteSet(P)
  <2>1. IsFiniteSet(1..Len(s)) /\ P \in SUBSET (1..Len(s))
    BY <1>1, FS_Interval
  <2> QED BY <2>1, FS_Subset
<1>3. f \in [P -> T]
  BY <1>1 DEF Elements, Multi
<1>4. \A x, y \in P : f[x] = f[y] => x = y
  BY DEF Distinct
<1>5. \A z \in T : \E x \in P : f[x] = z
  BY DEF Elements, Multi
<1> HIDE DEF f, P, T
<1>6. Cardinality(T) = Cardinality(P) /\ Cardinality(P) \in Nat
  BY <1>2, <1>3, <1>4, <1>5, SameSize, FS_CardinalityType
<1> QED BY <1>6 DEF SlotsOf, P, T

\* A message put at the end of a queue, and one taken from its head.
LEMMA ConcatDistinct ==
  ASSUME NEW s \in Seq(Msgs), NEW t \in Seq(Msgs), Distinct(s), Distinct(t),
         Elements(s) \cap Elements(t) = {}
  PROVE  /\ s \o t \in Seq(Msgs) /\ Distinct(s \o t)
         /\ Elements(s \o t) = Elements(s) \cup Elements(t)
<1> DEFINE n == Len(s)
           k == Len(t)
           c == s \o t
<1>1. /\ n \in Nat /\ k \in Nat /\ DOMAIN s = 1..n /\ DOMAIN t = 1..k
      /\ c \in Seq(Msgs) /\ Len(c) = n + k /\ DOMAIN c = 1..(n + k)
  OBVIOUS
<1>2. \A i \in 1..(n + k) : \/ i \in 1..n /\ c[i] = s[i]
                            \/ i - n \in 1..k /\ c[i] = t[i - n] /\ ~(i \in 1..n)
  OBVIOUS
<1>3. /\ \A i \in 1..n : i \in 1..(n + k) /\ c[i] = s[i]
      /\ \A i \in 1..k : i + n \in 1..(n + k) /\ c[i + n] = t[i]
  OBVIOUS
<1> HIDE DEF n, k, c
<1>4. Elements(c) = Elements(s) \cup Elements(t)
  <2>1. Elements(c) \subseteq Elements(s) \cup Elements(t)
    BY <1>1, <1>2 DEF Elements
  <2>2. Elements(s) \subseteq Elements(c)
    BY <1>1, <1>3 DEF Elements
  <2>3. Elements(t) \subseteq Elements(c)
    BY <1>1, <1>3 DEF Elements
  <2> QED BY <2>1, <2>2, <2>3
<1>5. Distinct(c)
  <2> SUFFICES ASSUME NEW i \in DOMAIN c, NEW j \in DOMAIN c, c[i] = c[j] PROVE i = j
    BY DEF Distinct
  <2>1. i \in Int /\ j \in Int
    BY <1>1
  <2>2. CASE i \in 1..n /\ j \in 1..n
    BY <1>1, <1>3, <2>2 DEF Distinct
  <2>3. CASE i - n \in 1..k /\ c[i] = t[i - n] /\ j - n \in 1..k /\ c[j] = t[j - n]
    <3>1. i - n = j - n
      BY <1>1, <2>3 DEF Distinct
    <3> QED BY <1>1, <2>1, <3>1
  <2>4. ASSUME NEW x \in 1..n, NEW y \in 1..k, s[x] = t[y] PROVE FALSE
    BY <1>1, <2>4 DEF Elements
  <2> QED BY <1>1, <1>2, <2>2, <2>3, <2>4
<1> QED BY <1>1, <1>4, <1>5 DEF c

LEMMA OneDistinct ==
  ASSUME NEW m \in Msgs
  PROVE  <<m>> \in Seq(Msgs) /\ Distinct(<<m>>) /\ Elements(<<m>>) = {m}
BY DEF Distinct, Elements

LEMMA AppendDistinct ==
  ASSUME NEW s \in Seq(Msgs), Distinct(s), NEW m \in Msgs, m \notin Elements(s)
  PROVE  /\ Append(s, m) \in Seq(Msgs) /\ Distinct(Append(s, m))
         /\ Elements(Append(s, m)) = Elements(s) \cup {m}
<1>1. Append(s, m) = s \o <<m>>
  BY AppendIsConcat
<1>2. Elements(s) \cap Elements(<<m>>) = {}
  BY OneDistinct
<1> QED BY <1>1, <1>2, OneDistinct, ConcatDistinct

\* A queue cut in two.
LEMMA PartDistinct ==
  ASSUME NEW s \in Seq(Msgs), Distinct(s), NEW a \in 1..(Len(s) + 1),
         NEW b \in 0..Len(s)
  PROVE  /\ SubSeq(s, a, b) \in Seq(Msgs) /\ Distinct(SubSeq(s, a, b))
         /\ Elements(SubSeq(s, a, b)) = {s[i] : i \in a..b}
<1> DEFINE t == SubSeq(s, a, b)
<1>1. Len(s) \in Nat /\ DOMAIN s = 1..Len(s) /\ a \in Nat /\ b \in Nat /\ a..b \subseteq 1..Len(s)
  OBVIOUS
<1>2. /\ t \in Seq(Msgs) /\ Len(t) = IF a <= b THEN b - a + 1 ELSE 0
      /\ \A i \in 1..(b - a + 1) : t[i] = s[a + i - 1]
  BY <1>1, SubSeqProperties
<1>3. DOMAIN t = 1..(b - a + 1)
  BY <1>1, <1>2
<1> HIDE DEF t
<1>4. Distinct(t)
  <2> SUFFICES ASSUME NEW i \in DOMAIN t, NEW j \in DOMAIN t, t[i] = t[j] PROVE i = j
    BY DEF Distinct
  <2>1. i \in Int /\ j \in Int /\ a + i - 1 \in a..b /\ a + j - 1 \in a..b
    BY <1>1, <1>3
  <2>2. s[a + i - 1] = s[a + j - 1]
    BY <1>2, <1>3
  <2>3. a + i - 1 = a + j - 1
    BY <1>1, <2>1, <2>2 DEF Distinct
  <2> QED BY <1>1, <2>1, <2>3
<1>5. Elements(t) = {s[i] : i \in a..b}
  <2>1. ASSUME NEW i \in DOMAIN t PROVE t[i] \in {s[j] : j \in a..b}
    <3>1. a + i - 1 \in a..b /\ t[i] = s[a + i - 1]
      BY <1>1, <1>2, <1>3
    <3> QED BY <3>1
  <2>2. ASSUME NEW j \in a..b PROVE s[j] \in Elements(t)
    <3>1. j - a + 1 \in 1..(b - a + 1) /\ a + (j - a + 1) - 1 = j
      BY <1>1
    <3>2. t[j - a + 1] = s[j] /\ j - a + 1 \in DOMAIN t
      BY <1>2, <1>3, <3>1
    <3> QED BY <3>2 DEF Elements
  <2> QED BY <2>1, <2>2 DEF Elements
<1> QED BY <1>2, <1>4, <1>5 DEF t

LEMMA CutDistinct ==
  ASSUME NEW s \in Seq(Msgs), Distinct(s), NEW n \in 0..Len(s)
  PROVE  LET h == SubSeq(s, 1, n)
             t == SubSeq(s, n + 1, Len(s))
         IN  /\ h \in Seq(Msgs) /\ t \in Seq(Msgs) /\ Distinct(h) /\ Distinct(t)
             /\ Elements(h) \cap Elements(t) = {}
             /\ Elements(h) \cup Elements(t) = Elements(s)
             /\ t # <<>> => n + 1 \in 1..Len(s) /\ Head(t) = s[n + 1]
<1> DEFINE h == SubSeq(s, 1, n)
           t == SubSeq(s, n + 1, Len(s))
<1>1. Len(s) \in Nat /\ DOMAIN s = 1..Len(s) /\ n \in Nat /\ n <= Len(s)
  OBVIOUS
<1>2. /\ h \in Seq(Msgs) /\ Distinct(h) /\ Elements(h) = {s[i] : i \in 1..n}
      /\ t \in Seq(Msgs) /\ Distinct(t) /\ Elements(t) = {s[i] : i \in (n + 1)..Len(s)}
  <2>1. 1 \in 1..(Len(s) + 1) /\ n + 1 \in 1..(Len(s) + 1) /\ Len(s) \in 0..Len(s)
    BY <1>1
  <2> QED BY <1>1, <2>1, PartDistinct
<1>3. t # <<>> => n + 1 \in 1..Len(s) /\ Head(t) = s[n + 1]
  BY <1>1
<1> HIDE DEF h, t
<1>4. Elements(h) \cap Elements(t) = {}
  <2> SUFFICES ASSUME NEW i \in 1..n, NEW j \in (n + 1)..Len(s), s[i] = s[j] PROVE FALSE
    BY <1>2
  <2>1. i \in DOMAIN s /\ j \in DOMAIN s /\ i # j
    BY <1>1
  <2> QED BY <2>1 DEF Distinct
<1>5. Elements(h) \cup Elements(t) = Elements(s)
  <2>1. 1..Len(s) = 1..n \cup ((n + 1)..Len(s))
    BY <1>1
  <2> QED BY <1>1, <1>2, <2>1 DEF Elements
<1> QED BY <1>2, <1>3, <1>4, <1>5 DEF h, t

\* A queue without one of its elements.
LEMMA WithoutPlace ==
  ASSUME NEW s \in Seq(Msgs), Distinct(s), NEW i \in DOMAIN s
  PROVE  LET h == SubSeq(s, 1, i - 1)
             t == SubSeq(s, i + 1, Len(s))
         IN  /\ h \o t \in Seq(Msgs) /\ Distinct(h \o t)
             /\ Elements(h \o t) = Elements(s) \ {s[i]}
             /\ t \o h \in Seq(Msgs) /\ Distinct(t \o h)
             /\ Elements(t \o h) = Elements(s) \ {s[i]}
<1> DEFINE h == SubSeq(s, 1, i - 1)
           t == SubSeq(s, i + 1, Len(s))
<1>1. /\ Len(s) \in Nat /\ DOMAIN s = 1..Len(s) /\ i \in Nat /\ i >= 1 /\ i <= Len(s)
      /\ i - 1 \in 0..Len(s) /\ i + 1 \in 1..(Len(s) + 1) /\ 1 \in 1..(Len(s) + 1)
      /\ Len(s) \in 0..Len(s)
  OBVIOUS
<1>2. /\ h \in Seq(Msgs) /\ Distinct(h) /\ Elements(h) = {s[j] : j \in 1..(i - 1)}
      /\ t \in Seq(Msgs) /\ Distinct(t) /\ Elements(t) = {s[j] : j \in (i + 1)..Len(s)}
  BY <1>1, PartDistinct
<1> HIDE DEF h, t
<1>3. Elements(h) \cap Elements(t) = {}
  <2> SUFFICES ASSUME NEW j \in 1..(i - 1), NEW k \in (i + 1)..Len(s), s[j] = s[k] PROVE FALSE
    BY <1>2
  <2>1. j \in DOMAIN s /\ k \in DOMAIN s /\ j # k
    BY <1>1
  <2> QED BY <2>1 DEF Distinct
<1>4. Elements(h) \cup Elements(t) = Elements(s) \ {s[i]}
  <2>1. \A j \in 1..Len(s) : j = i \/ j \in 1..(i - 1) \/ j \in (i + 1)..Len(s)
    BY <1>1
  <2>2. \A j \in 1..(i - 1) \cup ((i + 1)..Len(s)) : j \in DOMAIN s /\ j # i
    BY <1>1
  <2>3. \A j \in 1..(i - 1) \cup ((i + 1)..Len(s)) : s[j] # s[i]
    BY <2>2 DEF Distinct
  <2> QED BY <1>1, <1>2, <2>1, <2>2, <2>3 DEF Elements
<1>5. /\ h \o t \in Seq(Msgs) /\ Distinct(h \o t) /\ Elements(h \o t) = Elements(s) \ {s[i]}
      /\ t \o h \in Seq(Msgs) /\ Distinct(t \o h) /\ Elements(t \o h) = Elements(s) \ {s[i]}
  <2>1. Elements(t) \cap Elements(h) = {} /\ Elements(t) \cup Elements(h) = Elements(s) \ {s[i]}
    BY <1>3, <1>4
  <2>2. /\ h \o t \in Seq(Msgs) /\ Distinct(h \o t)
        /\ Elements(h \o t) = Elements(h) \cup Elements(t)
    BY <1>2, <1>3, ConcatDistinct
  <2>3. /\ t \o h \in Seq(Msgs) /\ Distinct(t \o h)
        /\ Elements(t \o h) = Elements(t) \cup Elements(h)
    BY <1>2, <2>1, ConcatDistinct
  <2> QED BY <1>4, <2>1, <2>2, <2>3
<1> QED BY <1>5 DEF h, t

LEMMA WithoutFacts ==
  ASSUME NEW s \in Seq(Msgs), Distinct(s), NEW m \in Elements(s)
  PROVE  /\ Without(s, m) \in Seq(Msgs) /\ Distinct(Without(s, m))
         /\ Elements(Without(s, m)) = Elements(s) \ {m}
<1> DEFINE i == CHOOSE k \in DOMAIN s : s[k] = m
<1>1. i \in DOMAIN s /\ s[i] = m
  BY DEF Elements
<1>2. Without(s, m) = SubSeq(s, 1, i - 1) \o SubSeq(s, i + 1, Len(s))
  BY DEF Without
<1> HIDE DEF i
<1> QED BY <1>1, <1>2, WithoutPlace

\* The rest of a sequence, place by place.
LEMMA TailDistinct ==
  ASSUME NEW s \in Seq(Msgs), Distinct(s), s # <<>>
  PROVE  /\ Tail(s) \in Seq(Msgs) /\ Distinct(Tail(s)) /\ Head(s) \in Elements(s)
         /\ Elements(Tail(s)) = Elements(s) \ {Head(s)}
<1>1. /\ Len(s) \in Nat /\ Len(s) > 0 /\ 1 \in DOMAIN s /\ Head(s) = s[1]
      /\ Tail(s) = SubSeq(s, 2, Len(s)) /\ SubSeq(s, 1, 0) = <<>>
  OBVIOUS
<1>2. SubSeq(s, 2, Len(s)) \in Seq(Msgs)
  BY <1>1
<1>3. SubSeq(s, 1 + 1, Len(s)) \o SubSeq(s, 1, 1 - 1) = Tail(s)
  BY <1>1, <1>2
<1>4. /\ Distinct(Tail(s)) /\ Elements(Tail(s)) = Elements(s) \ {s[1]}
  BY <1>1, <1>3, WithoutPlace
<1> QED BY <1>1, <1>2, <1>4 DEF Elements

\* A set of naturals has a least member, and one with a bound a greatest.
LEMMA LeastNat ==
  ASSUME NEW T \in SUBSET Nat, T # {}
  PROVE  \E x \in T : \A y \in T : x <= y
<1> DEFINE R == OpToRel(<, Nat)
<1>1. \A x, y \in Nat : <<y, x>> \in R <=> y < x
  BY DEF OpToRel
<1>2. IsWellFoundedOn(R, Nat)
  BY NatLessThanWellFounded
<1> HIDE DEF R
<1>3. PICK x \in T : \A y \in T : ~(<<y, x>> \in R)
  BY <1>2, WFMin
<1>4. \A y \in T : ~(y < x)
  BY <1>1, <1>3
<1> QED BY <1>4

LEMMA GreatestNat ==
  ASSUME NEW n \in Nat, NEW T \in SUBSET (0..n), T # {}
  PROVE  \E x \in T : \A y \in T : y <= x
<1> DEFINE U == {n - y : y \in T}
<1>1. U \in SUBSET Nat /\ U # {}
  <2>1. \A y \in T : n - y \in Nat
    OBVIOUS
  <2> QED BY <2>1
<1>2. PICK u \in U : \A v \in U : u <= v
  BY <1>1, LeastNat
<1>3. PICK x \in T : u = n - x
  OBVIOUS
<1>4. ASSUME NEW y \in T PROVE y <= x
  <2>1. n - x <= n - y
    BY <1>2, <1>3
  <2>2. x \in Int /\ y \in Int
    OBVIOUS
  <2> QED BY <2>1, <2>2
<1> QED BY <1>4

-----------------------------------------------------------------------------
(***************************************************************************)
(* The scheduler's queues.                                                 *)
(***************************************************************************)
LEMMA SizeType == Size \in [Msgs -> 0..Quota] /\ MaxCalls \in Nat /\ Quota \in Nat
BY MsgsAssumption, LimitsAssumption

LEMMA MultiFinite ==
  ASSUME NEW S
  PROVE  IsFiniteSet(S \cap Multi) /\ Cardinality(S \cap Multi) \in Nat
<1>1. S \cap Multi \in SUBSET Msgs
  BY DEF Multi
<1> QED BY <1>1, MsgsAssumption, FS_Subset, FS_CardinalityType

LEMMA MultiUnion ==
  ASSUME NEW S, NEW T, S \cap T = {}
  PROVE  Cardinality((S \cup T) \cap Multi) = Cardinality(S \cap Multi) + Cardinality(T \cap Multi)
<1> DEFINE A == S \cap Multi
           B == T \cap Multi
<1>1. (S \cup T) \cap Multi = A \cup B /\ A \cap B = {}
  OBVIOUS
<1>2. /\ IsFiniteSet(A) /\ IsFiniteSet(B)
      /\ Cardinality(A) \in Nat /\ Cardinality(B) \in Nat
  BY MultiFinite
<1> HIDE DEF A, B
<1>3. Cardinality(A \cup B) = Cardinality(A) + Cardinality(B) - Cardinality(A \cap B)
  BY <1>2, FS_Union
<1>4. Cardinality(A \cap B) = 0
  BY <1>1, FS_EmptySet
<1>5. Cardinality(A \cup B) = Cardinality(A) + Cardinality(B)
  BY <1>2, <1>3, <1>4
<1> QED BY <1>1, <1>5 DEF A, B

LEMMA MultiOne ==
  ASSUME NEW m \in Msgs
  PROVE  Cardinality({m} \cap Multi) = IF MultiFragment(m) THEN 1 ELSE 0
<1>1. CASE MultiFragment(m)
  <2>1. {m} \cap Multi = {m}
    BY <1>1 DEF Multi
  <2> QED BY <1>1, <2>1, FS_Singleton
<1>2. CASE ~MultiFragment(m)
  <2>1. {m} \cap Multi = {}
    BY <1>2 DEF Multi
  <2> QED BY <1>2, <2>1, FS_EmptySet
<1> QED BY <1>1, <1>2

LEMMA MultiRemove ==
  ASSUME NEW S, NEW m \in Msgs, m \in S
  PROVE  Cardinality(S \cap Multi)
           = Cardinality((S \ {m}) \cap Multi) + (IF MultiFragment(m) THEN 1 ELSE 0)
<1>1. S = (S \ {m}) \cup {m} /\ (S \ {m}) \cap {m} = {}
  OBVIOUS
<1> QED BY <1>1, MultiUnion, MultiOne

\* What a charge takes.
LEMMA ChargeOf ==
  ASSUME NEW ms \in Seq(Msgs), Distinct(ms)
  PROVE  /\ BytesOf(ms) = Mass(Elements(ms), Size) /\ BytesOf(ms) \in Nat
         /\ SlotsOf(ms) = Cardinality(Elements(ms) \cap Multi) /\ SlotsOf(ms) \in Nat
BY MassOfSeq, SlotsOfSeq, SizeType, MassType DEF BytesOf

\* start, for sends that are not active and that try_charge would take: what
\* they are charged is what they have left to send.
LEMMA StartFacts ==
  ASSUME NEW q, Sound(q), NEW ms \in Seq(Msgs), Distinct(ms), TryCharge(q, ms),
         Elements(ms) \cap Elements(q.active) = {},
         NEW g \in [Msgs -> 0..Quota], \A m \in Elements(ms) : g[m] = Size[m]
  PROVE  LET r == Start(q, ms)
         IN  /\ r \in [waiting : Seq(Msgs), active : Seq(Msgs), slots : 0..MaxCalls, budget : Nat]
             /\ r.waiting = q.waiting /\ Distinct(r.active)
             /\ Elements(r.active) = Elements(q.active) \cup Elements(ms)
             /\ r.slots = Cardinality(Elements(r.active) \cap Multi)
             /\ r.slots = q.slots + SlotsOf(ms) /\ r.budget = q.budget - BytesOf(ms)
             /\ r.budget + Mass(Elements(r.active), g) = q.budget + Mass(Elements(q.active), g)
<1> DEFINE r == Start(q, ms)
<1>1. q \in [waiting : Seq(Msgs), active : Seq(Msgs), slots : 0..MaxCalls, budget : Nat]
  BY DEF Sound
<1>2. /\ r.waiting = q.waiting /\ r.active = q.active \o ms
      /\ r.slots = q.slots + SlotsOf(ms) /\ r.budget = q.budget - BytesOf(ms)
  BY <1>1 DEF Start
<1>3. /\ q.active \o ms \in Seq(Msgs) /\ Distinct(q.active \o ms)
      /\ Elements(q.active \o ms) = Elements(q.active) \cup Elements(ms)
  BY <1>1, ConcatDistinct DEF Sound
<1>4. /\ BytesOf(ms) \in Nat /\ BytesOf(ms) = Mass(Elements(ms), Size)
      /\ SlotsOf(ms) \in Nat /\ SlotsOf(ms) = Cardinality(Elements(ms) \cap Multi)
  BY ChargeOf
<1>5. q.slots \in 0..MaxCalls /\ q.budget \in Nat /\ MaxCalls \in Nat
  BY <1>1, SizeType
<1>6. q.slots + SlotsOf(ms) \in 0..MaxCalls /\ q.budget - BytesOf(ms) \in Nat
  BY <1>4, <1>5 DEF TryCharge
<1>7. r \in [waiting : Seq(Msgs), active : Seq(Msgs), slots : 0..MaxCalls, budget : Nat]
  BY <1>1, <1>3, <1>6 DEF Start
<1>8. Mass(Elements(ms), g) = BytesOf(ms)
  BY <1>4, MassAgree
<1>9. Mass(Elements(q.active) \cup Elements(ms), g) = Mass(Elements(q.active), g) + BytesOf(ms)
  BY <1>8, MassUnion
<1>10. Cardinality((Elements(q.active) \cup Elements(ms)) \cap Multi) = q.slots + SlotsOf(ms)
  <2>1. q.slots = Cardinality(Elements(q.active) \cap Multi)
    BY DEF Sound
  <2> DEFINE A == Elements(q.active)
             B == Elements(ms)
  <2>2. A \cap B = {} /\ q.slots = Cardinality(A \cap Multi) /\ SlotsOf(ms) = Cardinality(B \cap Multi)
    BY <1>4, <2>1
  <2> HIDE DEF A, B
  <2>3. Cardinality((A \cup B) \cap Multi) = Cardinality(A \cap Multi) + Cardinality(B \cap Multi)
    BY <2>2, MultiUnion
  <2> QED BY <2>2, <2>3 DEF A, B
<1>11. r.waiting = q.waiting /\ r.active = q.active \o ms
       /\ r.slots = q.slots + SlotsOf(ms) /\ r.budget = q.budget - BytesOf(ms)
  BY <1>2
<1>12. r.budget + Mass(Elements(r.active), g) = q.budget + Mass(Elements(q.active), g)
  <2>1. Mass(Elements(q.active), g) \in Nat
    BY MassType
  <2>2. Mass(Elements(r.active), g) = Mass(Elements(q.active), g) + BytesOf(ms)
    BY <1>3, <1>9, <1>11
  <2>3. r.budget = q.budget - BytesOf(ms)
    BY <1>11
  <2> HIDE DEF r
  <2> QED BY <1>4, <1>5, <2>1, <2>2, <2>3
<1> HIDE DEF r
<1> QED BY <1>3, <1>7, <1>10, <1>11, <1>12 DEF r

\* promote_waiting keeps the queues sound, moves sends from the one to the
\* other, and leaves at the head of the queue a send that does not fit.
LEMMA PromoteFacts ==
  ASSUME NEW q, Sound(q), NEW g \in [Msgs -> 0..Quota],
         \A m \in Elements(q.waiting) : g[m] = Size[m]
  PROVE  LET r == PromoteWaiting(q)
         IN  /\ Sound(r)
             /\ r.budget + Mass(Elements(r.active), g) = q.budget + Mass(Elements(q.active), g)
             /\ Elements(r.waiting) \subseteq Elements(q.waiting)
             /\ Elements(q.active) \subseteq Elements(r.active)
             /\ Elements(r.waiting) \cup Elements(r.active)
                  = Elements(q.waiting) \cup Elements(q.active)
             /\ r.waiting # <<>> =>
                  q.waiting # <<>> /\ ~TryCharge(r, <<Head(r.waiting)>>)
<1> DEFINE w == q.waiting
           head(k) == SubSeq(w, 1, k)
           fit == {k \in 0..Len(w) : TryCharge(q, head(k))}
           n == CHOOSE k \in fit : \A j \in fit : j <= k
           s == Start(q, head(n))
           rest == SubSeq(w, n + 1, Len(w))
           r == PromoteWaiting(q)
<1>1. /\ q \in [waiting : Seq(Msgs), active : Seq(Msgs), slots : 0..MaxCalls, budget : Nat]
      /\ w \in Seq(Msgs) /\ Len(w) \in Nat /\ Distinct(w)
      /\ q.slots \in Nat /\ q.budget \in Nat
  BY SizeType DEF Sound
<1>2. 0 \in fit
  <2>1. head(0) = <<>> /\ <<>> \in Seq(Msgs) /\ Distinct(<<>>) /\ Elements(<<>>) = {}
    BY <1>1 DEF Distinct, Elements
  <2>2. BytesOf(<<>>) = 0
    BY <2>1, ChargeOf, MassEmpty, SizeType
  <2>3. SlotsOf(<<>>) = 0
    <3>1. {} \cap Multi = {}
      OBVIOUS
    <3> QED BY <2>1, <3>1, ChargeOf, FS_EmptySet
  <2>4. TryCharge(q, <<>>)
    BY <1>1, <2>2, <2>3 DEF TryCharge
  <2>5. TryCharge(q, head(0))
    BY <2>1, <2>4
  <2> QED BY <1>1, <2>5
<1>3. n \in fit /\ \A j \in fit : j <= n
  <2>1. fit \in SUBSET (0..Len(w)) /\ fit # {}
    BY <1>2
  <2> HIDE DEF fit
  <2>2. \E k \in fit : \A j \in fit : j <= k
    BY <1>1, <2>1, GreatestNat
  <2> QED BY <2>2
<1>4. n \in 0..Len(w) /\ TryCharge(q, head(n))
  BY <1>3
<1>5. \A k \in 0..Len(w) : TryCharge(q, head(k)) => k <= n
  BY <1>3
<1>6. r = [s EXCEPT !.waiting = SubSeq(@, n + 1, Len(@))]
  BY DEF PromoteWaiting
<1> HIDE DEF n, fit
<1>7. /\ head(n) \in Seq(Msgs) /\ rest \in Seq(Msgs) /\ Distinct(head(n)) /\ Distinct(rest)
      /\ Elements(head(n)) \cap Elements(rest) = {}
      /\ Elements(head(n)) \cup Elements(rest) = Elements(w)
      /\ rest # <<>> => n + 1 \in 1..Len(w) /\ Head(rest) = w[n + 1]
  BY <1>1, <1>4, CutDistinct
<1>8. Elements(head(n)) \cap Elements(q.active) = {} /\ \A m \in Elements(head(n)) : g[m] = Size[m]
  BY <1>7 DEF Sound
<1>9. /\ s \in [waiting : Seq(Msgs), active : Seq(Msgs), slots : 0..MaxCalls, budget : Nat]
      /\ s.waiting = w /\ Distinct(s.active)
      /\ Elements(s.active) = Elements(q.active) \cup Elements(head(n))
      /\ s.slots = Cardinality(Elements(s.active) \cap Multi)
      /\ s.slots = q.slots + SlotsOf(head(n)) /\ s.budget = q.budget - BytesOf(head(n))
      /\ s.budget + Mass(Elements(s.active), g) = q.budget + Mass(Elements(q.active), g)
  <2> DEFINE h == head(n)
  <2>1. /\ h \in Seq(Msgs) /\ Distinct(h) /\ TryCharge(q, h)
        /\ Elements(h) \cap Elements(q.active) = {} /\ \A m \in Elements(h) : g[m] = Size[m]
    BY <1>4, <1>7, <1>8
  <2> HIDE DEF h
  <2>2. LET st == Start(q, h)
        IN  /\ st \in [waiting : Seq(Msgs), active : Seq(Msgs), slots : 0..MaxCalls, budget : Nat]
            /\ st.waiting = q.waiting /\ Distinct(st.active)
            /\ Elements(st.active) = Elements(q.active) \cup Elements(h)
            /\ st.slots = Cardinality(Elements(st.active) \cap Multi)
            /\ st.slots = q.slots + SlotsOf(h) /\ st.budget = q.budget - BytesOf(h)
            /\ st.budget + Mass(Elements(st.active), g) = q.budget + Mass(Elements(q.active), g)
    BY <2>1, StartFacts
  <2> QED BY <2>2 DEF h
<1> HIDE DEF s
<1>10. /\ r \in [waiting : Seq(Msgs), active : Seq(Msgs), slots : 0..MaxCalls, budget : Nat]
       /\ r.waiting = rest /\ r.active = s.active /\ r.slots = s.slots /\ r.budget = s.budget
  BY <1>6, <1>7, <1>9
<1>11. Elements(rest) \cap Elements(s.active) = {}
  BY <1>7, <1>9 DEF Sound
<1>12. ASSUME rest # <<>>
       PROVE  w # <<>> /\ ~TryCharge(r, <<Head(rest)>>)
  <2>1. n + 1 \in 1..Len(w) /\ Head(rest) = w[n + 1] /\ n \in Nat
    BY <1>4, <1>7, <1>12
  <2> DEFINE m == w[n + 1]
  <2>2. m \in Msgs /\ m \notin Elements(head(n)) /\ w # <<>>
    <3>1. head(n) \in Seq(Msgs) /\ Elements(head(n)) = {w[i] : i \in 1..n}
      <4>1. 1 \in 1..(Len(w) + 1)
        BY <1>1
      <4> HIDE DEF w
      <4>2. SubSeq(w, 1, n) \in Seq(Msgs) /\ Elements(SubSeq(w, 1, n)) = {w[i] : i \in 1..n}
        BY ONLY <1>1, <1>4, <4>1, PartDistinct
      <4> QED BY ONLY <4>2
    <3>2. \A i \in 1..n : w[i] # w[n + 1]
      BY <1>1, <2>1 DEF Distinct
    <3>3. n + 1 \in DOMAIN w /\ w # <<>>
      BY <1>1, <2>1
    <3>4. w[n + 1] \notin {w[i] : i \in 1..n}
      BY <3>2
    <3>5. m \in Msgs
      BY <1>1, <3>3
    <3> HIDE DEF head
    <3> QED BY <3>1, <3>3, <3>4, <3>5
  <2>3. head(n + 1) = Append(head(n), m)
    <3>1. SubSeq(w, 1, n + 1) = SubSeq(w, 1, (n + 1) - 1) \o <<w[n + 1]>>
      BY <1>1, <2>1, SubSeqRecursiveSecond
    <3>2. (n + 1) - 1 = n
      BY <2>1
    <3> QED BY <1>7, <2>2, <3>1, <3>2, AppendIsConcat
  <2> DEFINE h == head(n)
             h1 == head(n + 1)
  <2> HIDE DEF head, m, h, h1
  <2>a. h1 = Append(h, m) /\ m \notin Elements(h) /\ h \in Seq(Msgs) /\ Distinct(h)
    BY <1>7, <2>2, <2>3 DEF h, h1
  <2>4. /\ h1 \in Seq(Msgs) /\ Distinct(h1)
        /\ Elements(h1) = Elements(h) \cup {m}
    BY <2>2, <2>a, AppendDistinct
  <2>5. /\ <<m>> \in Seq(Msgs) /\ Distinct(<<m>>) /\ Elements(<<m>>) = {m}
        /\ Elements(h) \cap {m} = {}
    BY <2>2, <2>a, OneDistinct
  <2>b. /\ BytesOf(h) = Mass(Elements(h), Size) /\ SlotsOf(h) = Cardinality(Elements(h) \cap Multi)
        /\ BytesOf(h1) = Mass(Elements(h1), Size) /\ SlotsOf(h1) = Cardinality(Elements(h1) \cap Multi)
        /\ BytesOf(<<m>>) = Mass({m}, Size) /\ SlotsOf(<<m>>) = Cardinality({m} \cap Multi)
        /\ BytesOf(h) \in Nat /\ SlotsOf(h) \in Nat
        /\ BytesOf(<<m>>) \in Nat /\ SlotsOf(<<m>>) \in Nat
    BY <2>a, <2>4, <2>5, ChargeOf
  <2>6. BytesOf(h1) = BytesOf(h) + BytesOf(<<m>>)
    <3>1. Mass(Elements(h) \cup {m}, Size) = Mass(Elements(h), Size) + Mass({m}, Size)
      BY <2>5, MassUnion, SizeType
    <3> QED BY <2>4, <2>b, <3>1
  <2>7. SlotsOf(h1) = SlotsOf(h) + SlotsOf(<<m>>)
    <3>1. Cardinality((Elements(h) \cup {m}) \cap Multi)
            = Cardinality(Elements(h) \cap Multi) + Cardinality({m} \cap Multi)
      BY <2>5, MultiUnion
    <3> QED BY <2>4, <2>b, <3>1
  <2>8. ~TryCharge(q, head(n + 1))
    <3>1. n + 1 \in 0..Len(w) /\ ~(n + 1 <= n)
      BY <1>1, <2>1
    <3> QED BY <1>5, <3>1 DEF head
  <2>10. r.slots \in 0..MaxCalls /\ r.slots = q.slots + SlotsOf(h)
         /\ r.budget = q.budget - BytesOf(h)
    BY <1>9, <1>10 DEF h
  <2>11. ASSUME TryCharge(r, <<m>>) PROVE FALSE
    <3>1. BytesOf(<<m>>) <= r.budget /\ (r.slots + SlotsOf(<<m>>) <= MaxCalls \/ SlotsOf(<<m>>) = 0)
      BY <2>11 DEF TryCharge
    <3>2. BytesOf(h1) <= q.budget
      BY <1>1, <2>6, <2>b, <2>10, <3>1
    <3>3. q.slots + SlotsOf(h1) <= MaxCalls
      BY <1>1, <2>7, <2>b, <2>10, <3>1, SizeType
    <3> QED BY <2>8, <3>2, <3>3 DEF TryCharge, h1
  <2> QED BY <2>1, <2>2, <2>11 DEF m
<1> HIDE DEF r, rest
<1>13. Sound(r)
  BY <1>7, <1>9, <1>10, <1>11 DEF Sound
<1>14. /\ Elements(r.waiting) \subseteq Elements(q.waiting)
       /\ Elements(q.active) \subseteq Elements(r.active)
       /\ Elements(r.waiting) \cup Elements(r.active) = Elements(q.waiting) \cup Elements(q.active)
  BY <1>7, <1>9, <1>10
<1> QED BY <1>9, <1>10, <1>12, <1>13, <1>14 DEF r

\* admit_message: the new send is active or at the end of the queue.
LEMMA AdmitFacts ==
  ASSUME NEW q, Sound(q), NEW m \in Msgs,
         m \notin Elements(q.waiting) \cup Elements(q.active),
         NEW g \in [Msgs -> 0..Quota], g[m] = Size[m]
  PROVE  LET r == AdmitMessage(q, m)
         IN  /\ Sound(r)
             /\ r.budget + Mass(Elements(r.active), g) = q.budget + Mass(Elements(q.active), g)
             /\ Elements(q.active) \subseteq Elements(r.active)
             /\ Elements(r.waiting) \cup Elements(r.active)
                  = Elements(q.waiting) \cup Elements(q.active) \cup {m}
             /\ Elements(r.waiting) \subseteq Elements(q.waiting) \cup {m}
<1>1. /\ <<m>> \in Seq(Msgs) /\ Distinct(<<m>>) /\ Elements(<<m>>) = {m}
  BY OneDistinct
<1>2. CASE q.waiting = <<>> /\ TryCharge(q, <<m>>)
  <2> DEFINE r == Start(q, <<m>>)
  <2>1. /\ r \in [waiting : Seq(Msgs), active : Seq(Msgs), slots : 0..MaxCalls, budget : Nat]
        /\ r.waiting = q.waiting /\ Distinct(r.active)
        /\ Elements(r.active) = Elements(q.active) \cup {m}
        /\ r.slots = Cardinality(Elements(r.active) \cap Multi)
        /\ r.budget + Mass(Elements(r.active), g) = q.budget + Mass(Elements(q.active), g)
    <3>1. Elements(<<m>>) \cap Elements(q.active) = {} /\ \A k \in Elements(<<m>>) : g[k] = Size[k]
      BY <1>1
    <3> DEFINE ms == <<m>>
    <3>2. /\ ms \in Seq(Msgs) /\ Distinct(ms) /\ TryCharge(q, ms)
          /\ Elements(ms) \cap Elements(q.active) = {} /\ \A k \in Elements(ms) : g[k] = Size[k]
      BY <1>1, <1>2, <3>1
    <3> HIDE DEF ms
    <3>3. LET st == Start(q, ms)
          IN  /\ st \in [waiting : Seq(Msgs), active : Seq(Msgs), slots : 0..MaxCalls, budget : Nat]
              /\ st.waiting = q.waiting /\ Distinct(st.active)
              /\ Elements(st.active) = Elements(q.active) \cup Elements(ms)
              /\ st.slots = Cardinality(Elements(st.active) \cap Multi)
              /\ st.slots = q.slots + SlotsOf(ms) /\ st.budget = q.budget - BytesOf(ms)
              /\ st.budget + Mass(Elements(st.active), g) = q.budget + Mass(Elements(q.active), g)
      BY <3>2, StartFacts
    <3>4. Elements(ms) = {m}
      BY <1>1 DEF ms
    <3>5. Start(q, ms) = r
      BY DEF ms
    <3> HIDE DEF r
    <3> QED BY <3>3, <3>4, <3>5
  <2>2. AdmitMessage(q, m) = r
    BY <1>2 DEF AdmitMessage
  <2> HIDE DEF r
  <2>3. Sound(r)
    <3>1. Elements(r.waiting) \cap Elements(r.active) = {} /\ Distinct(r.waiting)
      BY <2>1 DEF Sound
    <3> QED BY <2>1, <3>1 DEF Sound
  <2> QED BY <2>1, <2>2, <2>3
<1>3. CASE ~(q.waiting = <<>> /\ TryCharge(q, <<m>>))
  <2> DEFINE r == [q EXCEPT !.waiting = Append(@, m)]
  <2>1. /\ Append(q.waiting, m) \in Seq(Msgs) /\ Distinct(Append(q.waiting, m))
        /\ Elements(Append(q.waiting, m)) = Elements(q.waiting) \cup {m}
    BY AppendDistinct DEF Sound
  <2>2. /\ r \in [waiting : Seq(Msgs), active : Seq(Msgs), slots : 0..MaxCalls, budget : Nat]
        /\ r.waiting = Append(q.waiting, m) /\ r.active = q.active
        /\ r.slots = q.slots /\ r.budget = q.budget
    BY <2>1 DEF Sound
  <2>3. AdmitMessage(q, m) = r
    BY <1>3 DEF AdmitMessage
  <2> HIDE DEF r
  <2>4. Sound(r)
    <3>1. Elements(r.waiting) \cap Elements(r.active) = {} /\ Distinct(r.waiting) /\ Distinct(r.active)
      BY <2>1, <2>2 DEF Sound
    <3>2. r.slots = Cardinality(Elements(r.active) \cap Multi)
      BY <2>2 DEF Sound
    <3> QED BY <2>2, <3>1, <3>2 DEF Sound
  <2> QED BY <2>1, <2>2, <2>3, <2>4
<1> QED BY <1>2, <1>3

\* A send that leaves the active queue, with what is left of its charge and
\* its slot.
LEMMA LeaveFacts ==
  ASSUME NEW q, Sound(q), NEW m \in Elements(q.active),
         NEW left \in Seq(Msgs), Distinct(left),
         Elements(left) = Elements(q.active) \ {m},
         NEW g \in [Msgs -> 0..Quota]
  PROVE  LET s == [waiting |-> q.waiting, active |-> left,
                   slots |-> IF MultiFragment(m) THEN q.slots - 1 ELSE q.slots,
                   budget |-> q.budget + g[m]]
         IN  /\ Sound(s)
             /\ s.budget + Mass(Elements(s.active), g) = q.budget + Mass(Elements(q.active), g)
<1> DEFINE A == Elements(q.active)
           s == [waiting |-> q.waiting, active |-> left,
                 slots |-> IF MultiFragment(m) THEN q.slots - 1 ELSE q.slots,
                 budget |-> q.budget + g[m]]
           n == IF MultiFragment(m) THEN q.slots - 1 ELSE q.slots
<1>1. /\ q.waiting \in Seq(Msgs) /\ q.active \in Seq(Msgs) /\ q.budget \in Nat
      /\ q.slots \in 0..MaxCalls /\ MaxCalls \in Nat /\ q.slots = Cardinality(A \cap Multi)
      /\ Distinct(q.waiting) /\ Elements(q.waiting) \cap A = {}
  BY SizeType DEF Sound
<1>2. m \in Msgs /\ m \in A /\ g[m] \in Nat
  <2>1. \A i \in DOMAIN q.active : q.active[i] \in Msgs
    BY <1>1
  <2>2. m \in Msgs
    BY <2>1 DEF Elements
  <2> QED BY <2>2
<1> HIDE DEF A
<1>3. Cardinality(A \cap Multi) = Cardinality((A \ {m}) \cap Multi) + (IF MultiFragment(m) THEN 1 ELSE 0)
  BY <1>2, MultiRemove
<1>4. Cardinality((A \ {m}) \cap Multi) \in Nat
  BY MultiFinite
<1>5. n = Cardinality((A \ {m}) \cap Multi) /\ n \in 0..MaxCalls
  BY <1>1, <1>3, <1>4
<1> HIDE DEF n
<1>6. /\ s.waiting = q.waiting /\ s.active = left /\ s.slots = n /\ s.budget = q.budget + g[m]
      /\ s \in [waiting : Seq(Msgs), active : Seq(Msgs), slots : 0..MaxCalls, budget : Nat]
  BY <1>1, <1>2, <1>5 DEF n
<1>7. Mass(A, g) = Mass(A \ {m}, g) + g[m] /\ Mass(A \ {m}, g) \in Nat
  BY <1>2, MassRemove, MassType
<1> HIDE DEF s
<1>8. Elements(s.active) = A \ {m}
  BY <1>6 DEF A
<1>9. Sound(s)
  BY <1>1, <1>5, <1>6, <1>8 DEF Sound
<1>10. s.budget + Mass(Elements(s.active), g) = q.budget + Mass(A, g)
  <2> DEFINE x == Mass(A \ {m}, g)
  <2>1. Mass(Elements(s.active), g) = x /\ Mass(A, g) = x + g[m] /\ x \in Nat
    BY <1>7, <1>8
  <2> HIDE DEF x
  <2> QED BY <1>1, <1>2, <1>6, <2>1
<1> QED BY <1>9, <1>10 DEF s, A

-----------------------------------------------------------------------------
(***************************************************************************)
(* The wire: a step that leaves it alone, one that appends a fragment and  *)
(* one in which the peer takes its head.                                   *)
(***************************************************************************)
LEMMA WireStays ==
  ASSUME WireInv, UNCHANGED <<wire, entry, started, offset, batch>>, Engaged' = Engaged
  PROVE  WireInv'
<1>1. WireOrder'
  BY DEF WireInv, WireOrder, Closes
<1>2. WireMatches'
  BY DEF WireInv, WireMatches, Closes, PayloadLeft
<1>3. /\ \A P : Incomplete(P)' = Incomplete(P)
      /\ Incomplete(DOMAIN wire)' = Incomplete(DOMAIN wire)
  BY DEF Incomplete, Leaves
<1>4. IncompleteBound'
  BY <1>3 DEF WireInv, IncompleteBound
<1> QED BY <1>1, <1>2, <1>4 DEF WireInv

\* The messages in their payload phase, now and at the next state.
LEMMA IncompleteIs ==
  ASSUME NEW P
  PROVE  /\ \A m : m \in Incomplete(P) <=>
              /\ m \in Msgs
              /\ entry[m] = "payload" \/ \E j \in P : wire[j].id = m /\ wire[j].first
              /\ \A j \in P : wire[j].id = m => ~Leaves(wire[j])
         /\ \A m : m \in Incomplete(P)' <=>
              /\ m \in Msgs
              /\ entry'[m] = "payload" \/ \E j \in P : wire'[j].id = m /\ wire'[j].first
              /\ \A j \in P : wire'[j].id = m => ~Leaves(wire'[j])
BY DEF Incomplete, Leaves

LEMMA IncompleteAtEnd ==
  \A m : m \in Incomplete(DOMAIN wire)' <=>
    /\ m \in Msgs
    /\ entry'[m] = "payload" \/ \E j \in DOMAIN wire' : wire'[j].id = m /\ wire'[j].first
    /\ \A j \in DOMAIN wire' : wire'[j].id = m => ~Leaves(wire'[j])
BY DEF Incomplete, Leaves

\* What Advance writes: the fragment f of the message m.
LEMMA WireGrows ==
  ASSUME WireInv, NEW f \in Fragments, wire \in Seq(Fragments),
         entry \in [Msgs -> {"none", "payload", "trailer"}],
         wire' = Append(wire, f), entry' = entry,
         started' = started \cup {f.id},
         f.first <=> f.id \notin started, f.first \/ f.id \in Engaged,
         f.abort => f.len = 0 /\ ~f.first,
         ~PayloadLeft(f.id) => f.len = 0,
         f.trailer \/ ~PayloadLeft(f.id) => ~PayloadLeft(f.id)',
         \A m \in Msgs : m # f.id => (PayloadLeft(m)' <=> PayloadLeft(m)),
         \A m \in Msgs : m # f.id => (m \in Engaged' <=> m \in Engaged),
         f.id \in Engaged' => ~Closes(f), ~Leaves(f) => f.id \in Engaged',
         f.first /\ ~f.last => Cardinality(Incomplete(DOMAIN wire)) < MaxCalls
  PROVE  WireInv'
<1>0. PICK n \in Nat : n = Len(wire)
  OBVIOUS
<1>1. /\ n \in Nat /\ DOMAIN wire = 1..n /\ Len(wire') = n + 1 /\ DOMAIN wire' = 1..(n + 1)
      /\ wire'[n + 1] = f /\ \A k \in 1..n : wire'[k] = wire[k]
      /\ \A k \in 1..n : wire[k] \in Fragments
  BY <1>0
<1>2. f.id \in Msgs /\ \A k \in 1..n : wire[k].id \in Msgs
  BY <1>1 DEF Fragments
<1>3. /\ \A k \in 1..n : wire[k].id \in started
      /\ f.id \notin started => entry[f.id] = "none"
  BY <1>1, <1>2 DEF WireInv, WireOrder, WireMatches
<1>4. WireOrder'
  <2> SUFFICES ASSUME NEW k \in 1..(n + 1)
               PROVE  LET e == wire'[k] IN
                      /\ e.id \in started'
                      /\ e.abort => e.len = 0 /\ ~e.first
                      /\ e.first => entry[e.id] = "none"
                      /\ ~e.first => \/ entry[e.id] # "none"
                                     \/ \E j \in 1..(k - 1) : wire'[j].id = e.id /\ wire'[j].first
                      /\ entry[e.id] = "trailer" => e.len = 0
                      /\ \A j \in 1..(k - 1) : wire'[j].id = e.id =>
                           ~e.first /\ ~Closes(wire'[j]) /\ (wire'[j].trailer => e.len = 0)
    BY <1>1 DEF WireOrder, Closes
  <2>1. CASE k \in 1..n
    <3>1. wire'[k] = wire[k] /\ \A j \in 1..(k - 1) : j \in 1..n /\ wire'[j] = wire[j]
      BY <1>1, <2>1
    <3> QED BY <1>1, <2>1, <3>1 DEF WireInv, WireOrder
  <2>2. CASE k = n + 1
    <3>1. wire'[k] = f /\ \A j \in 1..(k - 1) : j \in 1..n /\ wire'[j] = wire[j]
      BY <1>1, <2>2
    <3>2. 1..(k - 1) = 1..n
      BY <1>1, <2>2
    <3>3. f.first => entry[f.id] = "none" /\ \A j \in 1..n : wire[j].id # f.id
      BY <1>3
    <3>4. ~f.first => /\ \/ entry[f.id] # "none"
                         \/ \E j \in 1..n : wire[j].id = f.id /\ wire[j].first
                      /\ \A j \in 1..n : wire[j].id = f.id => ~Closes(wire[j])
      BY <1>1, <1>2 DEF WireInv, WireMatches
    <3>5. (entry[f.id] = "trailer" \/ \E j \in 1..n : wire[j].id = f.id /\ wire[j].trailer) => f.len = 0
      BY <1>1, <1>2 DEF WireInv, WireMatches
    <3> QED BY <3>1, <3>2, <3>3, <3>4, <3>5
  <2>3. k \in 1..n \/ k = n + 1
    BY <1>1
  <2> QED BY <2>1, <2>2, <2>3
<1>5. WireMatches'
  <2> SUFFICES ASSUME NEW m \in Msgs
               PROVE  /\ m \notin started' => entry[m] = "none"
                      /\ m \in Engaged' =>
                           /\ \/ entry[m] # "none"
                              \/ \E k \in 1..(n + 1) : wire'[k].id = m /\ wire'[k].first
                           /\ \A k \in 1..(n + 1) : wire'[k].id = m => ~Closes(wire'[k])
                      /\ \/ entry[m] = "trailer"
                         \/ \E k \in 1..(n + 1) : wire'[k].id = m /\ wire'[k].trailer
                         => ~PayloadLeft(m)'
    BY <1>1 DEF WireMatches, Closes
  <2>0. \A k \in 1..(n + 1) : (k \in 1..n /\ wire'[k] = wire[k]) \/ (k = n + 1 /\ wire'[k] = f)
    BY <1>1
  <2>a. 1..n \subseteq 1..(n + 1) /\ n + 1 \in 1..(n + 1)
    BY <1>1
  <2>1. m \notin started' => entry[m] = "none"
    BY DEF WireInv, WireMatches
  <2>2. ASSUME m \in Engaged', m # f.id
        PROVE  /\ \/ entry[m] # "none"
                  \/ \E k \in 1..(n + 1) : wire'[k].id = m /\ wire'[k].first
               /\ \A k \in 1..(n + 1) : wire'[k].id = m => ~Closes(wire'[k])
    <3>1. m \in Engaged
      BY <2>2
    <3>2. /\ \/ entry[m] # "none"
             \/ \E k \in 1..n : wire[k].id = m /\ wire[k].first
          /\ \A k \in 1..n : wire[k].id = m => ~Closes(wire[k])
      BY <1>1, <3>1 DEF WireInv, WireMatches
    <3> QED BY <1>1, <2>0, <2>2, <2>a, <3>2
  <2>3. ASSUME m \in Engaged', m = f.id
        PROVE  /\ \/ entry[m] # "none"
                  \/ \E k \in 1..(n + 1) : wire'[k].id = m /\ wire'[k].first
               /\ \A k \in 1..(n + 1) : wire'[k].id = m => ~Closes(wire'[k])
    <3>1. ~Closes(f)
      BY <2>3
    <3>2. CASE f.first
      <4>1. \A k \in 1..n : wire[k].id # m
        BY <1>3, <2>3, <3>2
      <4> QED BY <1>1, <2>0, <2>3, <2>a, <3>1, <3>2, <4>1
    <3>3. CASE ~f.first
      <4>1. /\ \/ entry[m] # "none"
               \/ \E k \in 1..n : wire[k].id = m /\ wire[k].first
            /\ \A k \in 1..n : wire[k].id = m => ~Closes(wire[k])
        BY <1>1, <2>3, <3>3 DEF WireInv, WireMatches
      <4> QED BY <1>1, <2>0, <2>3, <2>a, <3>1, <4>1
    <3> QED BY <3>2, <3>3
  <2>4. \/ entry[m] = "trailer"
        \/ \E k \in 1..(n + 1) : wire'[k].id = m /\ wire'[k].trailer
        => ~PayloadLeft(m)'
    <3>1. \/ entry[m] = "trailer"
          \/ \E k \in 1..n : wire[k].id = m /\ wire[k].trailer
          => ~PayloadLeft(m)
      BY <1>1 DEF WireInv, WireMatches
    <3>2. CASE m = f.id
      BY <2>0, <3>1, <3>2
    <3>3. CASE m # f.id
      BY <2>0, <3>1, <3>3
    <3> QED BY <3>2, <3>3
  <2> QED BY <2>1, <2>2, <2>3, <2>4
<1>6. ASSUME NEW k \in 1..(n + 1) PROVE Incomplete(1..(k - 1))' = Incomplete(1..(k - 1))
  <2>1. PICK P : P = 1..(k - 1)
    OBVIOUS
  <2>2. \A j \in P : wire'[j] = wire[j]
    BY <1>1, <2>1
  <2>3. \A m : m \in Incomplete(P)' <=> m \in Incomplete(P)
    <3> SUFFICES ASSUME NEW m PROVE m \in Incomplete(P)' <=> m \in Incomplete(P)
      OBVIOUS
    <3>1. (\E j \in P : wire'[j].id = m /\ wire'[j].first) <=> (\E j \in P : wire[j].id = m /\ wire[j].first)
      BY <2>2, Zenon
    <3>2. (\A j \in P : wire'[j].id = m => ~Leaves(wire'[j])) <=> (\A j \in P : wire[j].id = m => ~Leaves(wire[j]))
      BY <2>2, Zenon
    <3>3. entry'[m] = entry[m]
      OBVIOUS
    <3>4. m \in Incomplete(P) <=>
            /\ m \in Msgs
            /\ entry[m] = "payload" \/ \E j \in P : wire[j].id = m /\ wire[j].first
            /\ \A j \in P : wire[j].id = m => ~Leaves(wire[j])
      BY IncompleteIs, Zenon
    <3>5. m \in Incomplete(P)' <=>
            /\ m \in Msgs
            /\ entry'[m] = "payload" \/ \E j \in P : wire'[j].id = m /\ wire'[j].first
            /\ \A j \in P : wire'[j].id = m => ~Leaves(wire'[j])
      BY IncompleteIs, Zenon
    <3> QED BY <3>1, <3>2, <3>3, <3>4, <3>5
  <2>4. Incomplete(P)' = Incomplete(P)
    BY <2>3
  <2> QED BY <2>1, <2>4
<1>7. Incomplete(DOMAIN wire)' \subseteq Engaged'
  <2> SUFFICES ASSUME NEW m \in Msgs,
                      entry[m] = "payload" \/ \E j \in 1..(n + 1) : wire'[j].id = m /\ wire'[j].first,
                      \A j \in 1..(n + 1) : wire'[j].id = m => ~Leaves(wire'[j])
               PROVE  m \in Engaged'
    <3>1. DOMAIN wire' = 1..(n + 1) /\ entry' = entry
      BY <1>1
    <3>2. \A m \in Incomplete(DOMAIN wire)' :
            /\ m \in Msgs
            /\ entry[m] = "payload" \/ \E j \in 1..(n + 1) : wire'[j].id = m /\ wire'[j].first
            /\ \A j \in 1..(n + 1) : wire'[j].id = m => ~Leaves(wire'[j])
      BY <3>1, IncompleteAtEnd, Zenon
    <3> QED BY <3>2, Zenon
  <2>2. CASE m = f.id
    <3>1. ~Leaves(f)
      BY <1>1, <2>2
    <3> QED BY <2>2, <3>1
  <2>3. CASE m # f.id
    <3>1. m \in Incomplete(1..n)
      <4>1. \A k \in 1..(n + 1) : (k \in 1..n /\ wire'[k] = wire[k]) \/ (k = n + 1 /\ wire'[k] = f)
        BY <1>1
      <4>2. 1..n \subseteq 1..(n + 1)
        BY <1>1
      <4>3. entry[m] = "payload" \/ \E j \in 1..n : wire[j].id = m /\ wire[j].first
        BY <2>3, <4>1
      <4>4. \A j \in 1..n : wire[j].id = m => ~Leaves(wire[j])
        BY <1>1, <4>2
      <4> QED BY <4>3, <4>4, IncompleteIs
    <3>2. m \in Engaged
      BY <1>1, <3>1 DEF WireInv, IncompleteBound
    <3> QED BY <2>3, <3>2
  <2> QED BY <2>2, <2>3
<1>8. IncompleteBound'
  <2>1. \A k \in 1..n : (wire[k].first /\ ~wire[k].last) => Cardinality(Incomplete(1..(k - 1))) < MaxCalls
    BY <1>1 DEF WireInv, IncompleteBound
  <2>2. f.first /\ ~f.last => Cardinality(Incomplete(1..n)) < MaxCalls
    BY <1>1
  <2>3. ASSUME NEW k \in 1..(n + 1), wire'[k].first, ~wire'[k].last
        PROVE  Cardinality(Incomplete(1..(k - 1))') < MaxCalls
    <3>1. Cardinality(Incomplete(1..(k - 1))) < MaxCalls
      <4>1. CASE k \in 1..n
        BY <1>1, <2>1, <2>3, <4>1
      <4>2. CASE k = n + 1
        <5>1. 1..(k - 1) = 1..n
          BY <1>1, <4>2
        <5> QED BY <1>1, <2>2, <2>3, <4>2, <5>1
      <4> QED BY <1>1, <4>1, <4>2
    <3> QED BY <1>6, <3>1
  <2> QED BY <1>1, <1>7, <2>3 DEF IncompleteBound
<1> QED BY <1>4, <1>5, <1>8 DEF WireInv

\* What Accept does to the wire: the peer takes the fragment f, and x is what
\* it then knows of the message.
LEMMA WireShrinks ==
  ASSUME WireInv, wire \in Seq(Fragments), wire # <<>>, NEW f, f = Head(wire),
         entry \in [Msgs -> {"none", "payload", "trailer"}],
         wire' = Tail(wire), UNCHANGED <<started, offset, batch>>, Engaged' = Engaged,
         NEW x, entry' = [entry EXCEPT ![f.id] = x],
         Closes(f) <=> x = "none",
         x = "trailer" => f.trailer \/ entry[f.id] = "trailer",
         x = "payload" => ~f.trailer /\ (f.first \/ entry[f.id] = "payload")
  PROVE  WireInv'
<1>0. PICK n \in Nat : Len(wire) = n + 1
  BY HeadTailProperties
<1>1. /\ DOMAIN wire = 1..(n + 1) /\ Len(wire') = n /\ DOMAIN wire' = 1..n
      /\ wire[1] = f /\ \A k \in 1..n : wire'[k] = wire[k + 1]
      /\ \A k \in 1..(n + 1) : wire[k] \in Fragments
  BY <1>0
<1>2. f.id \in Msgs /\ \A k \in 1..(n + 1) : wire[k].id \in Msgs
  <2>1. f \in Fragments /\ \A k \in 1..(n + 1) : wire[k] \in Fragments
    BY <1>1
  <2> QED BY <2>1 DEF Fragments
<1>3. entry'[f.id] = x /\ \A m \in Msgs : m # f.id => entry'[m] = entry[m]
  BY <1>2
<1>4. /\ 1 \in 1..(n + 1)
      /\ \A k \in 1..n : k + 1 \in 1..(n + 1) /\ 1 \in 1..((k + 1) - 1) /\ (k + 1) - 1 = k
      /\ \A k \in 1..(n + 1) : k # 1 => k - 1 \in 1..n /\ (k - 1) + 1 = k
  OBVIOUS
<1>5. \A k \in 1..(n + 1) :
        LET e == wire[k] IN
        /\ e.id \in started
        /\ e.abort => e.len = 0 /\ ~e.first
        /\ e.first => entry[e.id] = "none"
        /\ ~e.first => \/ entry[e.id] # "none"
                       \/ \E j \in 1..(k - 1) : wire[j].id = e.id /\ wire[j].first
        /\ entry[e.id] = "trailer" => e.len = 0
        /\ \A j \in 1..(k - 1) : wire[j].id = e.id =>
             ~e.first /\ ~Closes(wire[j]) /\ (wire[j].trailer => e.len = 0)
  BY <1>1 DEF WireInv, WireOrder
<1>6. ASSUME NEW k \in 1..n, wire[k + 1].id = f.id
      PROVE  ~wire[k + 1].first /\ ~Closes(f) /\ (f.trailer => wire[k + 1].len = 0)
  BY <1>1, <1>4, <1>5, <1>6
<1>7. WireOrder'
  <2> SUFFICES ASSUME NEW k \in 1..n
               PROVE  LET e == wire'[k] IN
                      /\ e.id \in started'
                      /\ e.abort => e.len = 0 /\ ~e.first
                      /\ e.first => entry'[e.id] = "none"
                      /\ ~e.first => \/ entry'[e.id] # "none"
                                     \/ \E j \in 1..(k - 1) : wire'[j].id = e.id /\ wire'[j].first
                      /\ entry'[e.id] = "trailer" => e.len = 0
                      /\ \A j \in 1..(k - 1) : wire'[j].id = e.id =>
                           ~e.first /\ ~Closes(wire'[j]) /\ (wire'[j].trailer => e.len = 0)
    BY <1>1 DEF WireOrder, Closes
  <2> DEFINE e == wire[k + 1]
  <2>1. /\ e.id \in started
        /\ e.abort => e.len = 0 /\ ~e.first
        /\ e.first => entry[e.id] = "none"
        /\ ~e.first => \/ entry[e.id] # "none"
                       \/ \E j \in 1..k : wire[j].id = e.id /\ wire[j].first
        /\ entry[e.id] = "trailer" => e.len = 0
        /\ \A j \in 1..k : wire[j].id = e.id =>
             ~e.first /\ ~Closes(wire[j]) /\ (wire[j].trailer => e.len = 0)
        /\ e.id \in Msgs
    BY <1>2, <1>4, <1>5
  <2>2. e.id = f.id => ~e.first /\ ~Closes(f) /\ (f.trailer => e.len = 0)
    BY <1>6
  <2>3. \A j \in 1..(k - 1) : j + 1 \in 1..k /\ wire'[j] = wire[j + 1]
    BY <1>1
  <2>4. \A j \in 1..k : j # 1 => j - 1 \in 1..(k - 1) /\ wire'[j - 1] = wire[j]
    <3> SUFFICES ASSUME NEW j \in 1..k, j # 1
                 PROVE  j - 1 \in 1..(k - 1) /\ wire'[j - 1] = wire[j]
      OBVIOUS
    <3>1. j - 1 \in 1..(k - 1) /\ j - 1 \in 1..n /\ (j - 1) + 1 = j
      OBVIOUS
    <3> QED BY <1>1, <3>1
  <2> HIDE DEF e
  <2>5. e.first => entry'[e.id] = "none"
    BY <1>3, <2>1, <2>2
  <2>6. ASSUME ~e.first
        PROVE  \/ entry'[e.id] # "none"
               \/ \E j \in 1..(k - 1) : wire'[j].id = e.id /\ wire'[j].first
    <3>1. CASE e.id = f.id
      BY <1>3, <2>2, <3>1
    <3>2. CASE e.id # f.id /\ entry[e.id] # "none"
      BY <1>3, <2>1, <3>2
    <3>3. CASE e.id # f.id /\ entry[e.id] = "none"
      <4>1. PICK j \in 1..k : wire[j].id = e.id /\ wire[j].first
        BY <2>1, <2>6, <3>3
      <4>2. j # 1
        BY <1>1, <3>3, <4>1
      <4>3. j - 1 \in 1..(k - 1) /\ wire'[j - 1] = wire[j]
        BY <2>4, <4>2
      <4> QED BY <4>1, <4>3
    <3> QED BY <3>1, <3>2, <3>3
  <2>7. entry'[e.id] = "trailer" => e.len = 0
    BY <1>3, <2>1, <2>2
  <2>8. \A j \in 1..(k - 1) : wire'[j].id = e.id =>
          ~e.first /\ ~Closes(wire'[j]) /\ (wire'[j].trailer => e.len = 0)
    BY <2>1, <2>3
  <2>9. e.id \in started' /\ (e.abort => e.len = 0 /\ ~e.first)
    BY <2>1
  <2>10. wire'[k] = e
    BY <1>1 DEF e
  <2> QED BY <2>5, <2>6, <2>7, <2>8, <2>9, <2>10
<1>8. WireMatches'
  <2> SUFFICES ASSUME NEW m \in Msgs
               PROVE  /\ m \notin started' => entry'[m] = "none"
                      /\ m \in Engaged' =>
                           /\ \/ entry'[m] # "none"
                              \/ \E k \in 1..n : wire'[k].id = m /\ wire'[k].first
                           /\ \A k \in 1..n : wire'[k].id = m => ~Closes(wire'[k])
                      /\ \/ entry'[m] = "trailer"
                         \/ \E k \in 1..n : wire'[k].id = m /\ wire'[k].trailer
                         => ~PayloadLeft(m)'
    BY <1>1 DEF WireMatches, Closes
  <2>1. /\ m \notin started => entry[m] = "none"
        /\ m \in Engaged =>
             /\ \/ entry[m] # "none"
                \/ \E k \in 1..(n + 1) : wire[k].id = m /\ wire[k].first
             /\ \A k \in 1..(n + 1) : wire[k].id = m => ~Closes(wire[k])
        /\ \/ entry[m] = "trailer"
           \/ \E k \in 1..(n + 1) : wire[k].id = m /\ wire[k].trailer
           => ~PayloadLeft(m)
    BY <1>1 DEF WireInv, WireMatches
  <2>2. m \notin started' => entry'[m] = "none"
    <3>1. f.id \in started
      BY <1>1, <1>4, <1>5
    <3> QED BY <1>3, <2>1, <3>1
  <2>3. ASSUME m \in Engaged'
        PROVE  /\ \/ entry'[m] # "none"
                  \/ \E k \in 1..n : wire'[k].id = m /\ wire'[k].first
               /\ \A k \in 1..n : wire'[k].id = m => ~Closes(wire'[k])
    <3>1. m \in Engaged
      BY <2>3
    <3>2. \A k \in 1..n : wire'[k].id = m => ~Closes(wire'[k])
      BY <1>1, <1>4, <2>1, <3>1
    <3>3. CASE m = f.id
      <4>1. ~Closes(f)
        BY <1>1, <1>4, <2>1, <3>1, <3>3
      <4> QED BY <1>3, <3>2, <3>3, <4>1
    <3>4. CASE m # f.id /\ entry[m] # "none"
      BY <1>3, <3>2, <3>4
    <3>5. CASE m # f.id /\ entry[m] = "none"
      <4>1. PICK k \in 1..(n + 1) : wire[k].id = m /\ wire[k].first
        BY <2>1, <3>1, <3>5
      <4>2. k # 1
        BY <1>1, <3>5, <4>1
      <4>3. k - 1 \in 1..n /\ wire'[k - 1] = wire[k]
        BY <1>1, <1>4, <4>2
      <4> QED BY <3>2, <4>1, <4>3
    <3> QED BY <3>3, <3>4, <3>5
  <2>4. ASSUME \/ entry'[m] = "trailer"
               \/ \E k \in 1..n : wire'[k].id = m /\ wire'[k].trailer
        PROVE  ~PayloadLeft(m)'
    <3>1. PayloadLeft(m)' <=> PayloadLeft(m)
      BY DEF PayloadLeft
    <3>2. CASE entry'[m] = "trailer"
      <4>1. entry[m] = "trailer" \/ \E k \in 1..(n + 1) : wire[k].id = m /\ wire[k].trailer
        BY <1>1, <1>3, <1>4, <3>2
      <4> QED BY <2>1, <3>1, <4>1
    <3>3. CASE \E k \in 1..n : wire'[k].id = m /\ wire'[k].trailer
      <4>1. \E k \in 1..(n + 1) : wire[k].id = m /\ wire[k].trailer
        BY <1>1, <1>4, <3>3
      <4> QED BY <2>1, <3>1, <4>1
    <3> QED BY <2>4, <3>2, <3>3
  <2> QED BY <2>2, <2>3, <2>4
<1>9. ASSUME NEW k \in 1..(n + 1), NEW m \in Msgs,
             entry'[m] = "payload" \/ \E j \in 1..(k - 1) : wire'[j].id = m /\ wire'[j].first,
             \A j \in 1..(k - 1) : wire'[j].id = m => ~Leaves(wire'[j])
      PROVE  m \in Incomplete(1..k)
  <2>1. \A j \in 1..(k - 1) : j + 1 \in 1..k /\ wire'[j] = wire[j + 1]
    BY <1>1
  <2>2. \A j \in 1..k : j = 1 \/ (j - 1 \in 1..(k - 1) /\ wire'[j - 1] = wire[j])
    <3> SUFFICES ASSUME NEW j \in 1..k, j # 1
                 PROVE  j - 1 \in 1..(k - 1) /\ wire'[j - 1] = wire[j]
      OBVIOUS
    <3>1. j - 1 \in 1..(k - 1) /\ j - 1 \in 1..n /\ (j - 1) + 1 = j
      OBVIOUS
    <3> QED BY <1>1, <3>1
  <2>3. m = f.id => ~Leaves(f)
    <3> SUFFICES ASSUME m = f.id PROVE ~Leaves(f)
      OBVIOUS
    <3>1. CASE entry'[m] = "payload"
      BY <1>3, <3>1 DEF Leaves, Closes
    <3>2. CASE \E j \in 1..(k - 1) : wire'[j].id = m /\ wire'[j].first
      <4>1. PICK j \in 1..(k - 1) : wire'[j].id = m /\ wire'[j].first
        BY <3>2
      <4>2. j \in 1..n /\ wire'[j] = wire[j + 1]
        BY <1>1
      <4> QED BY <1>6, <4>1, <4>2
    <3> QED BY <1>9, <3>1, <3>2
  <2>4. \A j \in 1..k : wire[j].id = m => ~Leaves(wire[j])
    <3> SUFFICES ASSUME NEW j \in 1..k, wire[j].id = m PROVE ~Leaves(wire[j])
      OBVIOUS
    <3>1. CASE j = 1
      BY <1>1, <2>3, <3>1
    <3>2. CASE j # 1
      BY <1>9, <2>2, <3>2
    <3> QED BY <3>1, <3>2
  <2>5. entry[m] = "payload" \/ \E j \in 1..k : wire[j].id = m /\ wire[j].first
    <3>1. CASE entry'[m] = "payload"
      <4>1. 1 \in 1..k
        OBVIOUS
      <4> QED BY <1>1, <1>3, <3>1, <4>1
    <3>2. CASE \E j \in 1..(k - 1) : wire'[j].id = m /\ wire'[j].first
      BY <2>1, <3>2
    <3> QED BY <1>9, <3>1, <3>2
  <2>6. PICK P : P = 1..k
    OBVIOUS
  <2>7. m \in Incomplete(P)
    BY <2>4, <2>5, <2>6, IncompleteIs
  <2> QED BY <2>6, <2>7
<1>10. IncompleteBound'
  <2>1. \A k \in 1..(n + 1) : (wire[k].first /\ ~wire[k].last) => Cardinality(Incomplete(1..(k - 1))) < MaxCalls
    BY <1>1 DEF WireInv, IncompleteBound
  <2>2. ASSUME NEW k \in 1..n, wire'[k].first, ~wire'[k].last
        PROVE  Cardinality(Incomplete(1..(k - 1))') < MaxCalls
    <3>1. PICK P : P = 1..(k - 1)
      OBVIOUS
    <3>2. k \in 1..(n + 1)
      OBVIOUS
    <3>3. \A m : m \in Incomplete(P)' =>
            /\ m \in Msgs
            /\ entry'[m] = "payload" \/ \E j \in P : wire'[j].id = m /\ wire'[j].first
            /\ \A j \in P : wire'[j].id = m => ~Leaves(wire'[j])
      BY IncompleteIs, Zenon
    <3>4. Incomplete(P)' \subseteq Incomplete(1..k)
      <4> SUFFICES ASSUME NEW m \in Incomplete(P)' PROVE m \in Incomplete(1..k)
        OBVIOUS
      <4>1. /\ m \in Msgs
            /\ entry'[m] = "payload" \/ \E j \in 1..(k - 1) : wire'[j].id = m /\ wire'[j].first
            /\ \A j \in 1..(k - 1) : wire'[j].id = m => ~Leaves(wire'[j])
        BY <3>1, <3>3, Zenon
      <4> QED BY <1>9, <3>2, <4>1
    <3>5. IsFiniteSet(Incomplete(1..k))
      <4>1. Incomplete(1..k) \in SUBSET Msgs
        BY DEF Incomplete
      <4> QED BY <4>1, MsgsAssumption, FS_Subset
    <3>6. Cardinality(Incomplete(1..k)) < MaxCalls
      <4>1. wire[k + 1].first /\ ~wire[k + 1].last /\ k + 1 \in 1..(n + 1) /\ (k + 1) - 1 = k
        BY <1>1, <1>4, <2>2
      <4> QED BY <2>1, <4>1
    <3> DEFINE X == Incomplete(P)'
               Y == Incomplete(1..k)
    <3>7. X \in SUBSET Y
      BY <3>4
    <3> HIDE DEF X, Y
    <3>8. Cardinality(X) <= Cardinality(Y) /\ Cardinality(X) \in Nat /\ Cardinality(Y) \in Nat
      BY <3>5, <3>7, FS_Subset, FS_CardinalityType DEF Y
    <3>9. Cardinality(X) < MaxCalls
      BY <3>6, <3>8, SizeType DEF Y
    <3> QED BY <3>1, <3>9 DEF X
  <2>3. Incomplete(DOMAIN wire)' \subseteq Engaged'
    <3> SUFFICES ASSUME NEW m \in Incomplete(DOMAIN wire)' PROVE m \in Engaged'
      OBVIOUS
    <3>1. /\ m \in Msgs
          /\ entry'[m] = "payload" \/ \E j \in DOMAIN wire' : wire'[j].id = m /\ wire'[j].first
          /\ \A j \in DOMAIN wire' : wire'[j].id = m => ~Leaves(wire'[j])
      BY IncompleteAtEnd, Zenon
    <3>2. n + 1 \in 1..(n + 1) /\ 1..((n + 1) - 1) = DOMAIN wire'
      BY <1>1
    <3>3. m \in Incomplete(1..(n + 1))
      BY <1>9, <3>1, <3>2
    <3> QED BY <1>1, <3>3 DEF WireInv, IncompleteBound
  <2> QED BY <1>1, <2>2, <2>3 DEF IncompleteBound
<1> QED BY <1>7, <1>8, <1>10 DEF WireInv

-----------------------------------------------------------------------------
(***************************************************************************)
(* The balance of the quota.                                               *)
(***************************************************************************)
LEMMA LeftType ==
  ASSUME NEW o \in [Msgs -> 0..Quota], \A m \in Msgs : o[m] <= Size[m]
  PROVE  /\ LeftOf(o) \in [Msgs -> 0..Quota]
         /\ \A m \in Msgs : LeftOf(o)[m] = Size[m] - o[m]
BY SizeType DEF LeftOf

LEMMA ChargesOfSeq ==
  ASSUME NEW a \in Seq(Msgs), Distinct(a),
         NEW o \in [Msgs -> 0..Quota], \A m \in Msgs : o[m] <= Size[m]
  PROVE  Total([i \in DOMAIN a |-> Size[a[i]] - o[a[i]]]) = Mass(Elements(a), LeftOf(o))
<1>1. \A i \in DOMAIN a : a[i] \in Msgs
  OBVIOUS
<1>2. [i \in DOMAIN a |-> Size[a[i]] - o[a[i]]] = [i \in DOMAIN a |-> LeftOf(o)[a[i]]]
  BY <1>1, LeftType
<1> QED BY <1>2, MassOfSeq, LeftType

LEMMA LengthsType ==
  ASSUME NEW w \in Seq(Fragments)
  PROVE  /\ Lengths(w) \in Seq(0..Quota) /\ Len(Lengths(w)) = Len(w)
         /\ Total(Lengths(w)) \in Nat
         /\ \A i \in 1..Len(w) : Lengths(w)[i] = w[i].len
<1>1. \A i \in 1..Len(w) : w[i].len \in 0..Quota
  <2>1. \A i \in 1..Len(w) : w[i] \in Fragments
    OBVIOUS
  <2> QED BY <2>1 DEF Fragments
<1>2. Lengths(w) = [i \in 1..Len(w) |-> w[i].len] /\ Len(w) \in Nat
  BY DEF Lengths
<1>3. Lengths(w) \in Seq(0..Quota) /\ Len(Lengths(w)) = Len(w)
  BY <1>1, <1>2, IsASeq, LenProperties
<1> QED BY <1>2, <1>3, SeqIsFunction, SizeType

LEMMA LengthsAppend ==
  ASSUME NEW w \in Seq(Fragments), NEW f \in Fragments
  PROVE  Total(Lengths(Append(w, f))) = Total(Lengths(w)) + f.len
<1> DEFINE l == Lengths(w)
           v == Append(w, f)
           k == Lengths(v)
<1>1. f.len \in 0..Quota
  BY DEF Fragments
<1>2. /\ v \in Seq(Fragments) /\ Len(v) = Len(w) + 1 /\ Len(w) \in Nat
      /\ v[Len(w) + 1] = f /\ \A i \in 1..Len(w) : v[i] = w[i]
  OBVIOUS
<1>3. /\ l \in Seq(0..Quota) /\ Len(l) = Len(w) /\ \A i \in 1..Len(w) : l[i] = w[i].len
  BY LengthsType
<1>4. /\ k \in Seq(0..Quota) /\ Len(k) = Len(w) + 1 /\ \A i \in 1..(Len(w) + 1) : k[i] = v[i].len
  BY <1>2, LengthsType
<1> HIDE DEF l, v, k
<1>5. /\ Append(l, f.len) \in Seq(0..Quota) /\ Len(Append(l, f.len)) = Len(w) + 1
      /\ Append(l, f.len)[Len(w) + 1] = f.len /\ \A i \in 1..Len(w) : Append(l, f.len)[i] = l[i]
  BY <1>1, <1>3
<1>6. \A i \in 1..(Len(w) + 1) : i \in 1..Len(w) \/ i = Len(w) + 1
  BY <1>2
<1>7. \A i \in 1..(Len(w) + 1) : k[i] = Append(l, f.len)[i]
  BY <1>2, <1>3, <1>4, <1>5, <1>6
<1>8. k = Append(l, f.len)
  BY <1>4, <1>5, <1>7, SeqEqual
<1> QED BY <1>1, <1>3, <1>8, TotalAppend, SizeType DEF l, v, k

LEMMA LengthsTail ==
  ASSUME NEW w \in Seq(Fragments), w # <<>>
  PROVE  Total(Lengths(w)) = Total(Lengths(Tail(w))) + Head(w).len
<1> DEFINE l == Lengths(w)
           v == Tail(w)
           k == Lengths(v)
<1>1. PICK n \in Nat : Len(w) = n + 1
  BY HeadTailProperties
<1>2. /\ v \in Seq(Fragments) /\ Len(v) = n
      /\ Head(w) = w[1] /\ \A i \in 1..n : v[i] = w[i + 1]
  BY <1>1
<1>3. /\ l \in Seq(0..Quota) /\ Len(l) = n + 1 /\ \A i \in 1..(n + 1) : l[i] = w[i].len
  BY <1>1, LengthsType
<1>4. /\ k \in Seq(0..Quota) /\ Len(k) = n /\ \A i \in 1..n : k[i] = v[i].len
  BY <1>2, LengthsType
<1> HIDE DEF l, v, k
<1>5. /\ l # <<>> /\ Head(l) = l[1] /\ Tail(l) \in Seq(0..Quota) /\ Len(Tail(l)) = n
      /\ \A i \in 1..n : Tail(l)[i] = l[i + 1]
  BY <1>3
<1>6. \A i \in 1..n : i + 1 \in 1..(n + 1)
  OBVIOUS
<1>7. \A i \in 1..n : k[i] = Tail(l)[i]
  BY <1>2, <1>3, <1>4, <1>5, <1>6
<1>8. k = Tail(l)
  BY <1>4, <1>5, <1>7, SeqEqual
<1>9. Total(l) = Total(Tail(l)) + Head(l)
  BY <1>3, <1>5, TotalTail, SizeType
<1>10. 1 \in 1..(n + 1)
  OBVIOUS
<1>11. Head(l) = Head(w).len
  BY <1>2, <1>3, <1>5, <1>10
<1> QED BY <1>8, <1>9, <1>11 DEF l, v, k

\* The parts of the balance are natural numbers.
LEMMA BalanceParts ==
  ASSUME FlowInv
  PROVE  /\ budget \in Nat /\ Mass(Elements(active), LeftOf(offset)) \in Nat
         /\ Total(Lengths(wire)) \in Nat /\ Total(pool.debt) \in Nat
         /\ owed \in Nat /\ Total(back) \in Nat /\ back \in Seq(0..Quota)
         /\ LeftOf(offset) \in [Msgs -> 0..Quota]
<1>1. budget \in Nat
  BY DEF FlowInv, Sound, Scheduled, Queues
<1>2. LeftOf(offset) \in [Msgs -> 0..Quota]
  BY LeftType DEF FlowInv, Shape, Progress
<1>3. Mass(Elements(active), LeftOf(offset)) \in Nat
  BY <1>2, MassType
<1>4. Total(Lengths(wire)) \in Nat /\ owed \in Nat
  BY LengthsType DEF FlowInv, Shape
<1>5. Total(pool.debt) \in Nat
  <2>1. pool.debt \in [Msgs -> 0..Quota]
    BY DEF FlowInv, Shape, WindowType
  <2> QED BY <2>1, UnitsFinite, MsgsAssumption, SizeType
<1>6. back \in Seq(0..Quota) /\ Total(back) \in Nat
  <2>1. back \in Seq(1..Quota)
    BY DEF FlowInv, Shape
  <2>2. 1..Quota \subseteq 0..Quota
    BY SizeType
  <2>3. back \in Seq(0..Quota)
    BY <2>1, <2>2, SeqMonotonic
  <2> QED BY <2>3, SeqIsFunction, SizeType
<1> QED BY <1>1, <1>2, <1>3, <1>4, <1>5, <1>6

\* The invariant gives the types, the conserved quota and a peer that has not
\* refused.
LEMMA FlowMeans ==
  ASSUME FlowInv
  PROVE  TypeOK /\ QuotaConserved /\ PeersConform
<1>1. /\ budget \in Nat /\ Mass(Elements(active), LeftOf(offset)) \in Nat
      /\ Total(Lengths(wire)) \in Nat /\ Total(pool.debt) \in Nat
      /\ owed \in Nat /\ Total(back) \in Nat
  BY BalanceParts
<1>2. budget \in 0..Quota /\ owed \in 0..Quota
  BY <1>1, SizeType DEF FlowInv, QuotaBalance
<1>3. /\ waiting \in Seq(Msgs) /\ active \in Seq(Msgs) /\ slots \in 0..MaxCalls
      /\ Distinct(active)
  BY DEF FlowInv, Sound, Scheduled, Queues
<1>4. TypeOK
  BY <1>2, <1>3 DEF FlowInv, Shape, TypeOK
<1>5. Total([i \in DOMAIN active |-> Size[active[i]] - offset[active[i]]])
        = Mass(Elements(active), LeftOf(offset))
  BY <1>3, ChargesOfSeq DEF FlowInv, Shape, Progress
<1>6. QuotaConserved
  BY <1>5 DEF FlowInv, QuotaBalance, QuotaConserved, Lengths
<1> QED BY <1>4, <1>6 DEF PeersConform, FlowInv, Shape

-----------------------------------------------------------------------------
(***************************************************************************)
(* What each part of the invariant depends on.                             *)
(***************************************************************************)
LEMMA WireFrame ==
  ASSUME WireInv, UNCHANGED <<wire, entry, started, offset, batch, active, control>>
  PROVE  WireInv'
<1>1. Engaged' = Engaged
  BY DEF Engaged, Elements
<1> QED BY <1>1, WireStays

LEMMA SoundFrame ==
  ASSUME Sound(Scheduled), UNCHANGED <<waiting, active, slots>>, budget' \in Nat
  PROVE  Sound(Scheduled)'
BY DEF Sound, Scheduled, Queues, Elements, Distinct

LEMMA SetFrame ==
  ASSUME NEW r, Sound(r), SetQueues(r)
  PROVE  /\ Sound(Scheduled)'
         /\ waiting' = r.waiting /\ active' = r.active /\ slots' = r.slots /\ budget' = r.budget
BY DEF Sound, Scheduled, Queues, Elements, Distinct, SetQueues

LEMMA SentFrame ==
  ASSUME SentOnce, UNCHANGED <<todo, inbox, waiting, active, started>>
  PROVE  SentOnce'
BY DEF SentOnce, Elements

LEMMA InboxGrows ==
  ASSUME SentOnce, UNCHANGED <<waiting, active, started>>,
         inbox \in Seq([op : {"send", "cancel", "discarded"}, id : Msgs]),
         NEW m \in Msgs, NEW o \in {"send", "cancel", "discarded"}, Queue(o, m),
         \/ o # "send" /\ todo' = todo
         \/ o = "send" /\ m \in todo /\ todo' = todo \ {m}
  PROVE  SentOnce' /\ inbox' \in Seq([op : {"send", "cancel", "discarded"}, id : Msgs])
<1> DEFINE x == [op |-> o, id |-> m]
<1>0. PICK n \in Nat : n = Len(inbox)
  OBVIOUS
<1>1. /\ inbox' = Append(inbox, x) /\ x.op = o /\ x.id = m
      /\ x \in [op : {"send", "cancel", "discarded"}, id : Msgs]
  BY DEF Queue
<1>2. /\ DOMAIN inbox = 1..n /\ DOMAIN inbox' = 1..(n + 1) /\ inbox'[n + 1] = x
      /\ \A i \in 1..n : inbox'[i] = inbox[i]
      /\ inbox' \in Seq([op : {"send", "cancel", "discarded"}, id : Msgs])
  BY <1>0, <1>1
<1>3. Elements(waiting)' = Elements(waiting) /\ Elements(active)' = Elements(active)
  BY DEF Elements
<1> HIDE DEF x
<1>4. \A i \in 1..(n + 1) : (i \in 1..n /\ inbox'[i] = inbox[i]) \/ (i = n + 1 /\ inbox'[i] = x)
  BY <1>2
<1>5. \A i \in 1..n : (inbox[i].op = "send" /\ o = "send") => inbox[i].id # m
  BY <1>2 DEF SentOnce
<1>6. \A i, j \in 1..(n + 1) :
        (inbox'[i].op = "send" /\ inbox'[j].op = "send" /\ inbox'[i].id = inbox'[j].id)
          => i = j
  BY <1>1, <1>2, <1>4, <1>5 DEF SentOnce
<1>7. \A i \in 1..(n + 1) : inbox'[i].op = "send" =>
        inbox'[i].id \notin todo' \cup Elements(waiting) \cup Elements(active) \cup started
  BY <1>1, <1>2, <1>4, <1>5 DEF SentOnce
<1>8. /\ todo' \cap (Elements(waiting) \cup Elements(active) \cup started) = {}
      /\ Elements(waiting) \cap started = {}
  BY DEF SentOnce
<1> QED BY <1>2, <1>3, <1>6, <1>7, <1>8 DEF SentOnce

LEMMA ProgressFrame ==
  ASSUME Progress, UNCHANGED <<offset, batch, started, producer, active, control>>
  PROVE  Progress'
BY DEF Progress, Elements, Distinct, Multi, MultiFragment

LEMMA BalanceFrame ==
  ASSUME QuotaBalance, UNCHANGED <<budget, active, offset, wire, pool, owed, back>>
  PROVE  QuotaBalance'
BY DEF QuotaBalance, Elements, LeftOf, Lengths, Mass

-----------------------------------------------------------------------------
(***************************************************************************)
(* The sending application, the peer's, and the loop's own steps.          *)
(***************************************************************************)
LEMMA SendFlow ==
  ASSUME FlowInv, NEW m \in Msgs, Send(m)
  PROVE  FlowInv'
<1> USE DEF FlowInv, Send, schedVars, sendVars, peerVars
<1>1. SentOnce' /\ inbox' \in Seq([op : {"send", "cancel", "discarded"}, id : Msgs])
  BY InboxGrows DEF Shape
<1>2. Shape' /\ Conserved(pool, Quota)'
  BY <1>1 DEF Shape, Conserved
<1>3. QuotaBalance'
  BY BalanceFrame
<1>4. Sound(Scheduled)'
  BY SoundFrame, BalanceParts
<1>5. Progress'
  BY ProgressFrame
<1>6. WireInv'
  BY WireFrame
<1>7. ReadyMoves'
  BY DEF ReadyMoves, CanMove, Elements
<1> QED BY <1>1, <1>2, <1>3, <1>4, <1>5, <1>6, <1>7

LEMMA RequestCancelFlow ==
  ASSUME FlowInv, NEW m \in Msgs, RequestCancel(m)
  PROVE  FlowInv'
<1> USE DEF FlowInv, RequestCancel, schedVars, sendVars, peerVars
<1>1. SentOnce' /\ inbox' \in Seq([op : {"send", "cancel", "discarded"}, id : Msgs])
  BY InboxGrows DEF Shape
<1>2. Shape' /\ Conserved(pool, Quota)'
  BY <1>1 DEF Shape, Conserved
<1>3. QuotaBalance'
  BY BalanceFrame
<1>4. Sound(Scheduled)'
  BY SoundFrame, BalanceParts
<1>5. Progress'
  BY ProgressFrame
<1>6. WireInv'
  BY WireFrame
<1>7. ReadyMoves'
  BY DEF ReadyMoves, CanMove, Elements
<1> QED BY <1>1, <1>2, <1>3, <1>4, <1>5, <1>6, <1>7

LEMMA DropTrailerFlow ==
  ASSUME FlowInv, NEW m \in Msgs, DropTrailer(m)
  PROVE  FlowInv'
<1> USE DEF FlowInv, DropTrailer, schedVars, sendVars
<1>1. SentOnce' /\ inbox' \in Seq([op : {"send", "cancel", "discarded"}, id : Msgs])
  BY InboxGrows DEF Shape
<1>2. Shape' /\ Conserved(pool, Quota)'
  BY <1>1 DEF Shape, Conserved
<1>3. QuotaBalance'
  BY BalanceFrame
<1>4. Sound(Scheduled)'
  BY SoundFrame, BalanceParts
<1>5. Progress'
  BY ProgressFrame
<1>6. WireInv'
  BY WireFrame
<1>7. ReadyMoves'
  BY DEF ReadyMoves, CanMove, Elements
<1> QED BY <1>1, <1>2, <1>3, <1>4, <1>5, <1>6, <1>7

LEMMA ProduceFlow ==
  ASSUME FlowInv, NEW m \in Msgs, NEW p \in {"finished", "dropped"}, Produce(m, p)
  PROVE  FlowInv'
<1> USE DEF FlowInv, Produce, schedVars, sendVars, peerVars
<1>1. SentOnce'
  BY SentFrame
<1>2. Shape' /\ Conserved(pool, Quota)'
  BY DEF Shape, Conserved
<1>3. QuotaBalance'
  BY BalanceFrame
<1>4. Sound(Scheduled)'
  BY SoundFrame, BalanceParts
<1>5. Progress'
  <2>1. \A k \in Msgs : producer'[k] # "none" => producer[k] # "none"
    BY DEF Shape
  <2> QED BY <2>1 DEF Progress, Elements, Distinct, Multi, MultiFragment
<1>6. WireInv'
  BY WireFrame
<1>7. ReadyMoves'
  <2>1. \A k \in Msgs : CanMove(k) => CanMove(k)'
    BY DEF CanMove, Shape
  <2>2. Elements(active) \subseteq Msgs
    BY DEF Sound, Scheduled, Queues, Elements
  <2>3. Elements(active)' = Elements(active) /\ control' = control /\ writer' = writer
    BY DEF Elements
  <2> QED BY <2>1, <2>2, <2>3 DEF ReadyMoves
<1> QED BY <1>1, <1>2, <1>3, <1>4, <1>5, <1>6, <1>7

\* The charge of a message goes from the peer's pool to the credit it owes.
LEMMA ReleaseFlow ==
  ASSUME FlowInv, NEW m \in Msgs, Release(m)
  PROVE  /\ pool' \in WindowType(Msgs, Quota) /\ Conserved(pool', Quota)
         /\ owed' \in Nat /\ Total(pool'.debt) \in Nat
         /\ Total(pool'.debt) + owed' = Total(pool.debt) + owed
<1>1. /\ pool \in WindowType(Msgs, Quota) /\ Conserved(pool, Quota)
      /\ owed \in Nat /\ Total(pool.debt) \in Nat
  BY BalanceParts DEF FlowInv, Shape
<1>2. pool.debt \in [Msgs -> 0..Quota] /\ pool.debt[m] \in Nat
  BY <1>1, SizeType DEF WindowType
<1>3. /\ Settle(pool, m) \in WindowType(Msgs, Quota)
      /\ Conserved(Settle(pool, m), Quota)
      /\ Settle(pool, m).debt[m] = 0
      /\ \A j \in Msgs : j # m => Settle(pool, m).debt[j] = pool.debt[j]
  BY <1>1, SettleFacts, MsgsAssumption, SizeType
<1>4. pool' = Settle(pool, m) /\ owed' = owed + pool.debt[m]
  BY DEF Release
<1> DEFINE d == Settle(pool, m).debt
<1>5. d \in [Msgs -> 0..Quota]
  BY <1>3 DEF WindowType
<1>6. d[m] = 0 /\ \A j \in Msgs : j # m => d[j] = pool.debt[j]
  BY <1>3
<1>7. pool'.debt = d
  BY <1>4
<1> HIDE DEF d
<1>8. Total(d) = Total(pool.debt) - pool.debt[m] + d[m] /\ Total(d) \in Nat
  BY <1>2, <1>5, <1>6, TotalUpdate, UnitsFinite, MsgsAssumption, SizeType
<1>9. Total(d) + owed' = Total(pool.debt) + owed /\ owed' \in Nat
  BY <1>1, <1>2, <1>4, <1>6, <1>8
<1> QED BY <1>3, <1>4, <1>7, <1>8, <1>9

LEMMA FinishedFlow ==
  ASSUME FlowInv, NEW m \in Msgs, Finished(m)
  PROVE  FlowInv'
<1> USE DEF FlowInv, Finished, schedVars, sendVars
<1>1. SentOnce'
  BY SentFrame
<1>2. /\ pool' \in WindowType(Msgs, Quota) /\ Conserved(pool', Quota)
      /\ owed' \in Nat /\ Total(pool'.debt) \in Nat
      /\ Total(pool'.debt) + owed' = Total(pool.debt) + owed
  BY ReleaseFlow
<1>3. Shape' /\ Conserved(pool, Quota)'
  BY <1>2 DEF Shape, Conserved
<1>4. QuotaBalance'
  <2>1. UNCHANGED <<budget, active, offset, wire, back>>
    OBVIOUS
  <2>2. /\ Mass(Elements(active), LeftOf(offset))' = Mass(Elements(active), LeftOf(offset))
        /\ Total(Lengths(wire))' = Total(Lengths(wire)) /\ Total(back)' = Total(back)
    BY <2>1 DEF Mass, Elements, LeftOf, Lengths
  <2>3. /\ budget \in Nat /\ Mass(Elements(active), LeftOf(offset)) \in Nat
        /\ Total(Lengths(wire)) \in Nat /\ Total(pool.debt) \in Nat
        /\ owed \in Nat /\ Total(back) \in Nat
    BY BalanceParts
  <2>4. budget + Mass(Elements(active), LeftOf(offset)) + Total(Lengths(wire))
          + Total(pool'.debt) + owed' + Total(back) = Quota
    BY <1>2, <2>3 DEF QuotaBalance
  <2> QED BY <2>1, <2>2, <2>4 DEF QuotaBalance
<1>5. Sound(Scheduled)'
  BY SoundFrame, BalanceParts
<1>6. Progress'
  BY ProgressFrame
<1>7. WireInv'
  BY WireFrame
<1>8. ReadyMoves'
  BY DEF ReadyMoves, CanMove, Elements
<1> QED BY <1>1, <1>3, <1>4, <1>5, <1>6, <1>7, <1>8

LEMMA FlowInit ==
  ASSUME Init
  PROVE  FlowInv
<1> USE DEF Init
<1>1. /\ pool \in WindowType(Msgs, Quota) /\ Conserved(pool, Quota)
      /\ \A j \in Msgs : pool.debt[j] = 0
  BY NewWindowFacts, MsgsAssumption, SizeType
<1>2. Shape
  <2>1. offset \in [Msgs -> 0..Quota] /\ batch \in [Msgs -> Nat]
    BY SizeType
  <2>2. /\ producer \in [Msgs -> {"none", "idle", "finished", "dropped"}]
        /\ entry \in [Msgs -> {"none", "payload", "trailer"}]
    OBVIOUS
  <2>3. /\ inbox \in Seq([op : {"send", "cancel", "discarded"}, id : Msgs])
        /\ control \in Seq(Msgs) /\ wire \in Seq(Fragments) /\ back \in Seq(1..Quota)
    OBVIOUS
  <2>4. parked \in BOOLEAN /\ woken \in BOOLEAN
    BY Zenon
  <2>5. /\ todo \subseteq Msgs /\ asked \subseteq Msgs /\ started \subseteq Msgs
        /\ holding \subseteq Msgs /\ got \subseteq Msgs /\ unwanted \subseteq Msgs
        /\ owed \in Nat /\ fault = "none" /\ writer \in {"select", "registered", "ready", "asleep"}
    OBVIOUS
  <2> QED BY <1>1, <2>1, <2>2, <2>3, <2>4, <2>5 DEF Shape
<1>3. Elements(active) = {} /\ Elements(waiting) = {} /\ Elements(control) = {}
  BY DEF Elements
<1>4. QuotaBalance
  <2>1. pool.debt \in [Msgs -> 0..Quota]
    BY <1>1 DEF WindowType
  <2>2. Total(pool.debt) = 0
    BY <1>1, <2>1, TotalZero, MsgsAssumption, SizeType
  <2>3. offset \in [Msgs -> 0..Quota] /\ \A m \in Msgs : offset[m] <= Size[m]
    BY SizeType
  <2>4. Mass(Elements(active), LeftOf(offset)) = 0
    BY <1>3, <2>3, LeftType, MassEmpty
  <2>5. wire \in Seq(Fragments) /\ back \in Seq(0..Quota) /\ Len(wire) = 0 /\ Len(back) = 0
    OBVIOUS
  <2>6. ASSUME NEW s \in Seq(0..Quota), Len(s) = 0 PROVE Total(s) = 0
    <3>1. s \in [1..Len(s) -> 0..Quota] /\ IsFiniteSet(1..Len(s))
      BY SeqIsFunction, SizeType
    <3>2. \A i \in 1..Len(s) : s[i] = 0
      BY <2>6
    <3> QED BY <3>1, <3>2, TotalZero, SizeType
  <2>7. Lengths(wire) \in Seq(0..Quota) /\ Len(Lengths(wire)) = 0
    BY <2>5, LengthsType
  <2>8. Total(Lengths(wire)) = 0 /\ Total(back) = 0
    BY <2>5, <2>6, <2>7
  <2>9. budget = Quota /\ owed = 0
    OBVIOUS
  <2> QED BY <2>2, <2>4, <2>8, <2>9, SizeType DEF QuotaBalance
<1>5. Sound(Scheduled)
  <2>1. Cardinality(Elements(active) \cap Multi) = 0
    BY <1>3, FS_EmptySet
  <2> QED BY <1>3, <2>1, SizeType DEF Sound, Scheduled, Queues, Distinct
<1>6. SentOnce
  BY <1>3 DEF SentOnce
<1>7. Progress
  BY <1>3, SizeType DEF Progress, Distinct
<1>8. WireInv
  <2>1. Engaged = {} /\ Incomplete(DOMAIN wire) = {}
    BY <1>3 DEF Engaged, Incomplete
  <2> QED BY <2>1 DEF WireInv, WireOrder, WireMatches, IncompleteBound
<1>9. ReadyMoves
  BY DEF ReadyMoves
<1> QED BY <1>1, <1>2, <1>4, <1>5, <1>6, <1>7, <1>8, <1>9 DEF FlowInv

\* The credit on its way back.
LEMMA ReturnCreditFlow ==
  ASSUME FlowInv, ReturnCredit
  PROVE  FlowInv'
<1> USE DEF FlowInv, ReturnCredit, schedVars, sendVars
<1>1. SentOnce'
  BY SentFrame
<1>2. /\ budget \in Nat /\ Mass(Elements(active), LeftOf(offset)) \in Nat
      /\ Total(Lengths(wire)) \in Nat /\ Total(pool.debt) \in Nat
      /\ owed \in Nat /\ Total(back) \in Nat /\ back \in Seq(0..Quota)
  BY BalanceParts
<1>3. owed \in 1..Quota /\ owed \in 0..Quota
  BY <1>2, SizeType DEF QuotaBalance
<1>4. Shape' /\ Conserved(pool, Quota)'
  BY <1>3 DEF Shape, Conserved
<1>5. QuotaBalance'
  <2>1. UNCHANGED <<budget, active, offset, wire, pool>> /\ owed' = 0
    OBVIOUS
  <2>2. /\ Mass(Elements(active), LeftOf(offset))' = Mass(Elements(active), LeftOf(offset))
        /\ Total(Lengths(wire))' = Total(Lengths(wire))
    BY <2>1 DEF Mass, Elements, LeftOf, Lengths
  <2>3. Total(back') = Total(back) + owed
    BY <1>2, <1>3, TotalAppend, SizeType
  <2>4. budget + Mass(Elements(active), LeftOf(offset)) + Total(Lengths(wire))
          + Total(pool.debt) + 0 + Total(back') = Quota
    BY <1>2, <2>3 DEF QuotaBalance
  <2> QED BY <2>1, <2>2, <2>4 DEF QuotaBalance
<1>6. Sound(Scheduled)'
  BY SoundFrame, BalanceParts
<1>7. Progress'
  BY ProgressFrame
<1>8. WireInv'
  BY WireFrame
<1>9. ReadyMoves'
  BY DEF ReadyMoves, CanMove, Elements
<1> QED BY <1>1, <1>4, <1>5, <1>6, <1>7, <1>8, <1>9

LEMMA TakeCreditFlow ==
  ASSUME FlowInv, TakeCredit
  PROVE  FlowInv'
<1> USE DEF FlowInv, TakeCredit, sendVars, peerVars
<1>1. SentOnce'
  BY SentFrame
<1>2. /\ budget \in Nat /\ Mass(Elements(active), LeftOf(offset)) \in Nat
      /\ Total(Lengths(wire)) \in Nat /\ Total(pool.debt) \in Nat
      /\ owed \in Nat /\ Total(back) \in Nat /\ back \in Seq(0..Quota)
  BY BalanceParts
<1>3. Head(back) \in 1..Quota /\ Tail(back) \in Seq(1..Quota) /\ Tail(back) \in Seq(0..Quota)
  <2>1. back \in Seq(1..Quota) /\ back # <<>>
    BY DEF Shape
  <2> QED BY <1>2, <2>1, HeadTailProperties
<1>4. Shape' /\ Conserved(pool, Quota)'
  BY <1>3 DEF Shape, Conserved, WakeOnCredit
<1>5. budget' \in Nat
  BY <1>2, <1>3, SizeType
<1>6. QuotaBalance'
  <2>1. UNCHANGED <<active, offset, wire, pool, owed>> /\ budget' = budget + Head(back)
    OBVIOUS
  <2>2. /\ Mass(Elements(active), LeftOf(offset))' = Mass(Elements(active), LeftOf(offset))
        /\ Total(Lengths(wire))' = Total(Lengths(wire))
    BY <2>1 DEF Mass, Elements, LeftOf, Lengths
  <2>3. Total(back) = Total(back') + Head(back) /\ Total(back') \in Nat
    BY <1>2, <1>3, TotalTail, SeqIsFunction, SizeType
  <2>4. (budget + Head(back)) + Mass(Elements(active), LeftOf(offset)) + Total(Lengths(wire))
          + Total(pool.debt) + owed + Total(back') = Quota
    <3> DEFINE h == Head(back)
               t == Total(back')
               b == Total(back)
    <3>1. h \in Nat /\ t \in Nat /\ b = t + h
      BY <1>3, <2>3, SizeType
    <3>2. budget + Mass(Elements(active), LeftOf(offset)) + Total(Lengths(wire))
            + Total(pool.debt) + owed + b = Quota
      BY DEF QuotaBalance
    <3> HIDE DEF h, t, b, FlowInv, TakeCredit
    <3>3. (budget + h) + Mass(Elements(active), LeftOf(offset)) + Total(Lengths(wire))
            + Total(pool.debt) + owed + t = Quota
      BY <1>2, <3>1, <3>2, SizeType
    <3> QED BY <3>3 DEF h, t
  <2> QED BY <2>1, <2>2, <2>4 DEF QuotaBalance
<1>7. Sound(Scheduled)'
  BY <1>5, SoundFrame
<1>8. Progress'
  BY ProgressFrame
<1>9. WireInv'
  BY WireFrame
<1>10. ReadyMoves'
  BY DEF ReadyMoves, CanMove, Elements
<1> QED BY <1>1, <1>4, <1>6, <1>7, <1>8, <1>9, <1>10

\* The steps of the driver's loop that move no message.
LEMMA LoopFlow ==
  ASSUME FlowInv, PollReady \/ Idle \/ Wake
  PROVE  FlowInv'
<1> USE DEF FlowInv, PollReady, Idle, Wake, schedVars, sendVars, peerVars
<1>1. UNCHANGED <<todo, asked, producer, inbox, schedVars, control, sendVars, wire, back, peerVars>>
  OBVIOUS
<1>2. SentOnce'
  BY SentFrame
<1>3. Shape' /\ Conserved(pool, Quota)'
  BY DEF Shape, Conserved
<1>4. QuotaBalance'
  BY BalanceFrame
<1>5. Sound(Scheduled)'
  BY SoundFrame, BalanceParts
<1>6. Progress'
  BY ProgressFrame
<1>7. WireInv'
  BY WireFrame
<1>8. ReadyMoves'
  BY DEF ReadyMoves, CanMove, Elements
<1> QED BY <1>2, <1>3, <1>4, <1>5, <1>6, <1>7, <1>8

-----------------------------------------------------------------------------
(***************************************************************************)
(* The scheduler's queues change.                                          *)
(***************************************************************************)

\* What waits has sent nothing, and what moves between the queues is theirs.
LEMMA WaitingUnsent ==
  ASSUME FlowInv
  PROVE  /\ Sound(Scheduled) /\ Elements(waiting) \subseteq Msgs /\ Elements(active) \subseteq Msgs
         /\ LeftOf(offset) \in [Msgs -> 0..Quota]
         /\ \A m \in Elements(waiting) :
              m \notin started /\ m \notin Elements(active) /\ LeftOf(offset)[m] = Size[m]
<1>1. Sound(Scheduled) /\ Elements(waiting) \subseteq Msgs /\ Elements(active) \subseteq Msgs
  BY DEF FlowInv, Sound, Scheduled, Queues, Elements
<1>2. LeftOf(offset) \in [Msgs -> 0..Quota]
  BY BalanceParts
<1>3. ASSUME NEW m \in Elements(waiting)
      PROVE  m \notin started /\ m \notin Elements(active) /\ LeftOf(offset)[m] = Size[m]
  <2>1. m \in Msgs
    BY <1>1
  <2>2. m \notin started
    BY DEF FlowInv, SentOnce
  <2>3. m \notin Elements(active)
    <3>1. Elements(waiting) \cap Elements(active) = {}
      BY DEF FlowInv, Sound, Scheduled, Queues
    <3> QED BY <3>1
  <2>4. offset[m] = 0
    BY <2>1, <2>2 DEF FlowInv, Progress
  <2>5. LeftOf(offset)[m] = Size[m]
    BY <2>1, <2>4, SizeType DEF LeftOf
  <2> QED BY <2>2, <2>3, <2>5
<1> QED BY <1>1, <1>2, <1>3

LEMMA BalanceMoves ==
  ASSUME FlowInv, UNCHANGED <<offset, wire, pool, owed, back>>, budget' \in Nat,
         budget' + Mass(Elements(active'), LeftOf(offset))
           = budget + Mass(Elements(active), LeftOf(offset))
  PROVE  QuotaBalance'
<1>1. /\ budget \in Nat /\ Mass(Elements(active), LeftOf(offset)) \in Nat
      /\ Total(Lengths(wire)) \in Nat /\ Total(pool.debt) \in Nat
      /\ owed \in Nat /\ Total(back) \in Nat
      /\ Mass(Elements(active'), LeftOf(offset)) \in Nat
  BY BalanceParts, MassType
<1>2. /\ Mass(Elements(active), LeftOf(offset))' = Mass(Elements(active'), LeftOf(offset))
      /\ Total(Lengths(wire))' = Total(Lengths(wire)) /\ Total(pool.debt)' = Total(pool.debt)
      /\ Total(back)' = Total(back) /\ owed' = owed
  BY DEF Mass, Elements, LeftOf, Lengths
<1>3. budget' + Mass(Elements(active'), LeftOf(offset)) + Total(Lengths(wire))
        + Total(pool.debt) + owed + Total(back) = Quota
  BY <1>1 DEF FlowInv, QuotaBalance
<1> QED BY <1>2, <1>3 DEF QuotaBalance

LEMMA SentMoves ==
  ASSUME SentOnce, UNCHANGED <<todo, inbox, started>>,
         Elements(waiting') \subseteq Elements(waiting),
         Elements(waiting') \cup Elements(active') \subseteq Elements(waiting) \cup Elements(active)
  PROVE  SentOnce'
<1>1. Elements(waiting)' = Elements(waiting') /\ Elements(active)' = Elements(active')
  BY DEF Elements
<1>2. \A x : x \in Elements(waiting') \cup Elements(active') => x \in Elements(waiting) \cup Elements(active)
  OBVIOUS
<1>3. \A i \in DOMAIN inbox : inbox[i].op = "send" =>
        inbox[i].id \notin todo \cup Elements(waiting') \cup Elements(active') \cup started
  BY <1>2 DEF SentOnce
<1>4. /\ todo \cap (Elements(waiting') \cup Elements(active') \cup started) = {}
      /\ Elements(waiting') \cap started = {}
  BY <1>2 DEF SentOnce
<1> QED BY <1>1, <1>3, <1>4 DEF SentOnce

LEMMA ProgressMoves ==
  ASSUME Progress, UNCHANGED <<offset, batch, started>>,
         \A m \in Msgs : producer'[m] # "none" => producer[m] # "none",
         Elements(active') \cap started \subseteq Elements(active),
         Distinct(control'), Elements(control') \subseteq started \ Elements(active')
  PROVE  Progress'
<1>1. Elements(active)' = Elements(active') /\ Elements(control)' = Elements(control')
  BY DEF Elements
<1>2. Distinct(control)' /\ Multi' = Multi
  BY DEF Distinct, Multi, MultiFragment
<1>3. \A m \in Msgs : /\ offset'[m] <= Size[m]
                      /\ m \notin started' => offset'[m] = 0 /\ batch'[m] = 0
                      /\ producer'[m] # "none" => m \in Streams
  BY DEF Progress
<1>4. Elements(active') \cap started' \subseteq Multi
  BY DEF Progress
<1> QED BY <1>1, <1>2, <1>3, <1>4 DEF Progress

LEMMA SpendFlow ==
  ASSUME FlowInv, Spend
  PROVE  /\ FlowInv'
         /\ waiting' # <<>> =>
              /\ waiting # <<>>
              /\ ~TryCharge(Queues(waiting', active', slots', budget'), <<Head(waiting')>>)
<1> DEFINE q == Queues(waiting, active, slots, budget)
           g == LeftOf(offset)
           r == PromoteWaiting(q)
<1>1. /\ Sound(q) /\ g \in [Msgs -> 0..Quota] /\ \A m \in Elements(q.waiting) : g[m] = Size[m]
  BY WaitingUnsent DEF Scheduled, Queues
<1>2. q.waiting = waiting /\ q.active = active /\ q.slots = slots /\ q.budget = budget
  BY DEF Queues
<1>3. /\ writer' = (IF \E m \in Elements(active') : CanMove(m) THEN "ready" ELSE "asleep")
      /\ SetQueues(r)
      /\ UNCHANGED <<todo, asked, producer, inbox, control, offset, batch, started, parked, woken,
                     wire, back, entry, pool, holding, owed, got, unwanted, fault>>
  BY DEF Spend, sendVars, peerVars
<1> HIDE DEF q, g
<1>4. /\ Sound(r)
      /\ r.budget + Mass(Elements(r.active), g) = q.budget + Mass(Elements(q.active), g)
      /\ Elements(r.waiting) \subseteq Elements(q.waiting)
      /\ Elements(q.active) \subseteq Elements(r.active)
      /\ Elements(r.waiting) \cup Elements(r.active)
           = Elements(q.waiting) \cup Elements(q.active)
      /\ r.waiting # <<>> =>
           q.waiting # <<>> /\ ~TryCharge(r, <<Head(r.waiting)>>)
  BY <1>1, PromoteFacts
<1> HIDE DEF r
<1>5. /\ Sound(Scheduled)'
      /\ waiting' = r.waiting /\ active' = r.active /\ slots' = r.slots /\ budget' = r.budget
  BY <1>3, <1>4, SetFrame
<1>6. /\ r.budget \in Nat
      /\ r = Queues(waiting', active', slots', budget')
  BY <1>4, <1>5 DEF Sound, Queues
<1>7. SentOnce'
  BY <1>2, <1>3, <1>4, <1>5, SentMoves DEF FlowInv
<1>8. Elements(active') \cap started = Elements(active) \cap started
  BY <1>2, <1>4, <1>5, WaitingUnsent
<1>9. Progress'
  <2>1. Distinct(control') /\ Elements(control') \subseteq started \ Elements(active')
    BY <1>3, <1>8 DEF FlowInv, Progress
  <2> QED BY <1>3, <1>8, <2>1, ProgressMoves DEF FlowInv
<1>10. QuotaBalance'
  <2>1. budget' + Mass(Elements(active'), LeftOf(offset)) = budget + Mass(Elements(active), LeftOf(offset))
    BY <1>2, <1>4, <1>5 DEF g
  <2> QED BY <1>3, <1>5, <1>6, <2>1, BalanceMoves
<1>11. WireInv'
  <2>1. Engaged' = Engaged
    BY <1>3, <1>8 DEF Engaged, Elements
  <2> QED BY <1>3, <2>1, WireStays DEF FlowInv
<1>12. ReadyMoves'
  BY <1>3 DEF ReadyMoves, CanMove, Elements
<1>13. Shape' /\ Conserved(pool, Quota)'
  BY <1>3 DEF FlowInv, Shape, Conserved
<1>14. FlowInv'
  BY <1>5, <1>7, <1>9, <1>10, <1>11, <1>12, <1>13 DEF FlowInv
<1> QED BY <1>2, <1>4, <1>5, <1>6, <1>14

-----------------------------------------------------------------------------
(***************************************************************************)
(* What the driver takes from its channel.                                 *)
(***************************************************************************)
LEMMA InboxShrinks ==
  ASSUME SentOnce, UNCHANGED <<todo, started>>,
         inbox \in Seq([op : {"send", "cancel", "discarded"}, id : Msgs]),
         inbox # <<>>, inbox' = Tail(inbox),
         NEW X, X \subseteq {Head(inbox).id}, X # {} => Head(inbox).op = "send",
         Elements(waiting') \subseteq Elements(waiting) \cup X,
         Elements(waiting') \cup Elements(active')
           \subseteq Elements(waiting) \cup Elements(active) \cup X
  PROVE  SentOnce' /\ inbox' \in Seq([op : {"send", "cancel", "discarded"}, id : Msgs])
<1>0. PICK n \in Nat : Len(inbox) = n + 1
  BY HeadTailProperties
<1>1. /\ DOMAIN inbox = 1..(n + 1) /\ DOMAIN inbox' = 1..n /\ Head(inbox) = inbox[1]
      /\ \A i \in 1..n : inbox'[i] = inbox[i + 1]
      /\ inbox' \in Seq([op : {"send", "cancel", "discarded"}, id : Msgs])
  BY <1>0
<1>2. Elements(waiting)' = Elements(waiting') /\ Elements(active)' = Elements(active')
  BY DEF Elements
<1>3. \A i \in 1..n : i + 1 \in 1..(n + 1) /\ i + 1 # 1
  OBVIOUS
<1>4. 1 \in 1..(n + 1)
  OBVIOUS
<1>5. X \cap (todo \cup Elements(waiting) \cup Elements(active) \cup started) = {}
  BY <1>1, <1>4 DEF SentOnce
<1>6. \A i \in 1..n : inbox'[i].op = "send" => inbox'[i].id \notin X
  BY <1>1, <1>3, <1>4 DEF SentOnce
<1>7. \A i, j \in 1..n :
        (inbox'[i].op = "send" /\ inbox'[j].op = "send" /\ inbox'[i].id = inbox'[j].id)
          => i = j
  <2> SUFFICES ASSUME NEW i \in 1..n, NEW j \in 1..n, inbox'[i].op = "send",
                      inbox'[j].op = "send", inbox'[i].id = inbox'[j].id
               PROVE  i = j
    OBVIOUS
  <2>1. i + 1 = j + 1
    BY <1>1, <1>3 DEF SentOnce
  <2> QED BY <2>1
<1>8. \A x : x \in Elements(waiting') \cup Elements(active')
               => x \in Elements(waiting) \cup Elements(active) \cup X
  OBVIOUS
<1>9. \A i \in 1..n : inbox'[i].op = "send" =>
        inbox'[i].id \notin todo \cup Elements(waiting') \cup Elements(active') \cup started
  <2>1. \A i \in 1..n : inbox'[i].op = "send" =>
          inbox'[i].id \notin todo \cup Elements(waiting) \cup Elements(active) \cup started
    BY <1>1, <1>3 DEF SentOnce
  <2> QED BY <1>6, <1>8, <2>1
<1>10. /\ todo \cap (Elements(waiting') \cup Elements(active') \cup started) = {}
       /\ Elements(waiting') \cap started = {}
  <2>1. /\ todo \cap (Elements(waiting) \cup Elements(active) \cup started) = {}
        /\ Elements(waiting) \cap started = {}
    BY DEF SentOnce
  <2> QED BY <1>5, <1>8, <2>1
<1> QED BY <1>1, <1>2, <1>7, <1>9, <1>10 DEF SentOnce

LEMMA ReceiveMoves ==
  ASSUME FlowInv, writer = "select", inbox # <<>>, inbox' = Tail(inbox),
         UNCHANGED <<todo, asked, sendVars, writer, wire, back, peerVars>>,
         Sound(Scheduled)', budget' \in Nat,
         NEW X, X \subseteq {Head(inbox).id}, X # {} => Head(inbox).op = "send",
         Elements(waiting') \subseteq Elements(waiting) \cup X,
         Elements(waiting') \cup Elements(active')
           \subseteq Elements(waiting) \cup Elements(active) \cup X,
         budget' + Mass(Elements(active'), LeftOf(offset))
           = budget + Mass(Elements(active), LeftOf(offset)),
         producer' \in [Msgs -> {"none", "idle", "finished", "dropped"}],
         \A m \in Msgs : producer'[m] # "none" => producer[m] # "none",
         parked' \in BOOLEAN, woken' \in BOOLEAN,
         control' \in Seq(Msgs), Distinct(control'),
         Elements(control') \subseteq started \ Elements(active'),
         (Elements(active') \cap started) \cup Elements(control') = Engaged
  PROVE  FlowInv'
<1> USE DEF sendVars, peerVars
<1>1. inbox \in Seq([op : {"send", "cancel", "discarded"}, id : Msgs])
  BY DEF FlowInv, Shape
<1>2. SentOnce' /\ inbox' \in Seq([op : {"send", "cancel", "discarded"}, id : Msgs])
  BY <1>1, InboxShrinks DEF FlowInv
<1>3. X \cap started = {} /\ Elements(waiting) \cap started = {}
  <2>1. X # {} => 1 \in DOMAIN inbox /\ inbox[1] = Head(inbox)
    BY <1>1
  <2> QED BY <2>1 DEF FlowInv, SentOnce
<1>4. Progress'
  <2>1. Elements(active') \cap started \subseteq Elements(active)
    BY <1>3
  <2> QED BY <2>1, ProgressMoves DEF FlowInv
<1>5. QuotaBalance'
  BY BalanceMoves
<1>6. WireInv'
  <2>1. Engaged' = Engaged
    BY DEF Engaged, Elements
  <2> QED BY <2>1, WireStays DEF FlowInv
<1>7. ReadyMoves'
  BY DEF ReadyMoves
<1>8. Shape' /\ Conserved(pool, Quota)'
  BY <1>2 DEF FlowInv, Shape, Conserved
<1> QED BY <1>2, <1>4, <1>5, <1>6, <1>7, <1>8 DEF FlowInv

\* What the queues hold is known, and so is what the channel asks for.
LEMMA ReceiveTypes ==
  ASSUME FlowInv, inbox # <<>>
  PROVE  /\ Head(inbox).id \in Msgs
         /\ waiting \in Seq(Msgs) /\ active \in Seq(Msgs) /\ control \in Seq(Msgs)
         /\ Distinct(waiting) /\ Distinct(active) /\ Distinct(control)
         /\ Elements(control) \subseteq started \ Elements(active)
         /\ parked \in BOOLEAN /\ woken \in BOOLEAN
         /\ producer \in [Msgs -> {"none", "idle", "finished", "dropped"}]
         /\ budget \in Nat
<1>1. Head(inbox).id \in Msgs
  <2>1. inbox \in Seq([op : {"send", "cancel", "discarded"}, id : Msgs])
    BY DEF FlowInv, Shape
  <2>2. Head(inbox) \in [op : {"send", "cancel", "discarded"}, id : Msgs]
    BY <2>1, HeadTailProperties
  <2> QED BY <2>2
<1> QED BY <1>1 DEF FlowInv, Shape, Sound, Scheduled, Queues, Progress

LEMMA AdmitFlow ==
  ASSUME FlowInv, Receive, Admit(Head(inbox).id)
  PROVE  FlowInv'
<1> DEFINE m == Head(inbox).id
           q == Queues(waiting, active, slots, budget)
           g == LeftOf(offset)
           r == AdmitMessage(q, m)
<1>1. /\ Head(inbox).op = "send" /\ SetQueues(r) /\ UNCHANGED <<producer, control, parked, woken>>
      /\ writer = "select" /\ inbox # <<>> /\ inbox' = Tail(inbox)
      /\ UNCHANGED <<todo, asked, sendVars, writer, wire, back, peerVars>>
  BY DEF Admit, Receive
<1>2. q.waiting = waiting /\ q.active = active /\ q.slots = slots /\ q.budget = budget
  BY DEF Queues
<1>3. Sound(q) /\ g \in [Msgs -> 0..Quota]
  BY WaitingUnsent DEF Scheduled
<1>4. /\ m \in Msgs /\ parked \in BOOLEAN /\ woken \in BOOLEAN /\ control \in Seq(Msgs)
      /\ producer \in [Msgs -> {"none", "idle", "finished", "dropped"}]
      /\ Distinct(control) /\ Elements(control) \subseteq started \ Elements(active)
  BY <1>1, ReceiveTypes
<1>5. m \notin Elements(waiting) \cup Elements(active) \cup started
  <2>1. inbox \in Seq([op : {"send", "cancel", "discarded"}, id : Msgs])
    BY DEF FlowInv, Shape
  <2>2. 1 \in DOMAIN inbox /\ inbox[1] = Head(inbox)
    BY <1>1, <2>1
  <2> QED BY <1>1, <2>2 DEF FlowInv, SentOnce
<1>6. g[m] = Size[m]
  <2>1. offset[m] = 0
    BY <1>4, <1>5 DEF FlowInv, Progress
  <2> QED BY <1>4, <2>1, SizeType DEF LeftOf
<1> HIDE DEF m, q, g
<1>7. /\ Sound(r)
      /\ r.budget + Mass(Elements(r.active), g) = q.budget + Mass(Elements(q.active), g)
      /\ Elements(q.active) \subseteq Elements(r.active)
      /\ Elements(r.waiting) \cup Elements(r.active)
           = Elements(q.waiting) \cup Elements(q.active) \cup {m}
      /\ Elements(r.waiting) \subseteq Elements(q.waiting) \cup {m}
  BY <1>2, <1>3, <1>4, <1>5, <1>6, AdmitFacts
<1> HIDE DEF r
<1>8. /\ Sound(Scheduled)'
      /\ waiting' = r.waiting /\ active' = r.active /\ slots' = r.slots /\ budget' = r.budget
  BY <1>1, <1>7, SetFrame
<1>9. budget' \in Nat
  BY <1>7, <1>8 DEF Sound
<1>10. /\ {m} \subseteq {Head(inbox).id} /\ ({m} # {} => Head(inbox).op = "send")
  BY <1>1 DEF m
<1>11. budget' + Mass(Elements(active'), LeftOf(offset)) = budget + Mass(Elements(active), LeftOf(offset))
  BY <1>2, <1>7, <1>8 DEF g
<1>12. /\ Elements(waiting') \subseteq Elements(waiting) \cup {m}
       /\ Elements(waiting') \cup Elements(active') \subseteq Elements(waiting) \cup Elements(active) \cup {m}
       /\ Elements(active) \subseteq Elements(active')
  BY <1>2, <1>7, <1>8
<1>13. Elements(active') \cap started = Elements(active) \cap started
  BY <1>5, <1>12, WaitingUnsent
<1>14. /\ Elements(control') \subseteq started \ Elements(active')
       /\ (Elements(active') \cap started) \cup Elements(control') = Engaged
  BY <1>1, <1>4, <1>13 DEF Engaged
<1>15. /\ parked' \in BOOLEAN /\ woken' \in BOOLEAN
       /\ control' \in Seq(Msgs) /\ Distinct(control')
       /\ producer' \in [Msgs -> {"none", "idle", "finished", "dropped"}]
       /\ \A k \in Msgs : producer'[k] # "none" => producer[k] # "none"
  BY <1>1, <1>4
<1> QED BY <1>1, <1>8, <1>9, <1>10, <1>11, <1>12, <1>14, <1>15, ReceiveMoves

\* A cancelled send that waits leaves no trace.
LEMMA CancelWaitingFlow ==
  ASSUME FlowInv, Receive, NEW m \in Msgs, m \in Elements(waiting),
         SetQueues(Queues(Without(waiting, m), active, slots, budget)),
         UNCHANGED <<control, parked, woken>>,
         producer' \in [Msgs -> {"none", "idle", "finished", "dropped"}],
         \A k \in Msgs : producer'[k] # "none" => producer[k] # "none"
  PROVE  FlowInv'
<1> DEFINE r == Queues(Without(waiting, m), active, slots, budget)
<1>1. /\ writer = "select" /\ inbox # <<>> /\ inbox' = Tail(inbox)
      /\ UNCHANGED <<todo, asked, sendVars, writer, wire, back, peerVars>>
  BY DEF Receive
<1>2. /\ parked \in BOOLEAN /\ woken \in BOOLEAN /\ control \in Seq(Msgs)
      /\ Distinct(control) /\ Elements(control) \subseteq started \ Elements(active)
      /\ waiting \in Seq(Msgs) /\ Distinct(waiting) /\ budget \in Nat
  BY <1>1, ReceiveTypes
<1>3. /\ Without(waiting, m) \in Seq(Msgs) /\ Distinct(Without(waiting, m))
      /\ Elements(Without(waiting, m)) = Elements(waiting) \ {m}
  BY <1>2, WithoutFacts
<1>4. Sound(r)
  <2>1. Sound(Scheduled)
    BY DEF FlowInv
  <2> QED BY <1>3, <2>1 DEF Sound, Scheduled, Queues
<1>5. /\ Sound(Scheduled)'
      /\ waiting' = r.waiting /\ active' = r.active /\ slots' = r.slots /\ budget' = r.budget
  BY <1>4, SetFrame
<1>6. waiting' = Without(waiting, m) /\ active' = active /\ budget' = budget
  BY <1>5 DEF Queues
<1>7. /\ Elements(waiting') \subseteq Elements(waiting) \cup {}
      /\ Elements(waiting') \cup Elements(active') \subseteq Elements(waiting) \cup Elements(active) \cup {}
      /\ Elements(control') \subseteq started \ Elements(active')
      /\ (Elements(active') \cap started) \cup Elements(control') = Engaged
      /\ budget' + Mass(Elements(active'), LeftOf(offset)) = budget + Mass(Elements(active), LeftOf(offset))
  BY <1>2, <1>3, <1>6 DEF Engaged
<1>8. {} \subseteq {Head(inbox).id} /\ ({} # {} => Head(inbox).op = "send")
  OBVIOUS
<1>9. /\ parked' \in BOOLEAN /\ woken' \in BOOLEAN
      /\ control' \in Seq(Msgs) /\ Distinct(control') /\ budget' \in Nat
  BY <1>2, <1>6
<1> QED BY <1>1, <1>5, <1>7, <1>8, <1>9, ReceiveMoves

\* A cancelled send that is active gives its slot and the unsent rest of its
\* charge to who waits, and is aborted if the peer knows of it.
LEMMA CancelActiveFlow ==
  ASSUME FlowInv, Receive, NEW m \in Msgs, m \in Elements(active),
         SetQueues(CancelActive(Queues(waiting, active, slots, budget), m)),
         control' = IF m \in started THEN Append(control, m) ELSE control,
         WakeOnCredit(Size[m] - offset[m]),
         producer' \in [Msgs -> {"none", "idle", "finished", "dropped"}],
         \A k \in Msgs : producer'[k] # "none" => producer[k] # "none"
  PROVE  FlowInv'
<1> DEFINE q == Queues(waiting, active, slots, budget)
           g == LeftOf(offset)
           left == Without(active, m)
           s == [waiting |-> q.waiting, active |-> left,
                 slots |-> IF MultiFragment(m) THEN q.slots - 1 ELSE q.slots,
                 budget |-> q.budget + g[m]]
           r == PromoteWaiting(s)
<1>1. /\ writer = "select" /\ inbox # <<>> /\ inbox' = Tail(inbox)
      /\ UNCHANGED <<todo, asked, sendVars, writer, wire, back, peerVars>>
  BY DEF Receive
<1>2. /\ parked \in BOOLEAN /\ woken \in BOOLEAN /\ control \in Seq(Msgs)
      /\ Distinct(control) /\ Elements(control) \subseteq started \ Elements(active)
      /\ active \in Seq(Msgs) /\ Distinct(active)
  BY <1>1, ReceiveTypes
<1>3. /\ q.waiting = waiting /\ q.active = active /\ q.slots = slots /\ q.budget = budget
      /\ Sound(q) /\ g \in [Msgs -> 0..Quota] /\ \A k \in Elements(waiting) : g[k] = Size[k]
  BY WaitingUnsent DEF Queues, Scheduled
<1>4. left \in Seq(Msgs) /\ Distinct(left) /\ Elements(left) = Elements(active) \ {m}
  BY <1>2, WithoutFacts
<1>5. CancelActive(q, m) = r
  <2>1. g[m] = Size[m] - offset[m]
    BY DEF LeftOf
  <2> QED BY <1>3, <2>1 DEF CancelActive, Queues
<1>6. SetQueues(r)
  BY <1>5
<1> HIDE DEF q, g, left
<1>7. /\ Sound(s)
      /\ s.budget + Mass(Elements(s.active), g) = q.budget + Mass(Elements(q.active), g)
  <2>1. /\ m \in Elements(q.active) /\ Elements(left) = Elements(q.active) \ {m}
        /\ Sound(q) /\ left \in Seq(Msgs) /\ Distinct(left) /\ g \in [Msgs -> 0..Quota]
    BY <1>3, <1>4
  <2> QED BY ONLY <2>1, LeaveFacts
<1>8. s.waiting = waiting /\ s.active = left
  BY <1>3
<1> HIDE DEF s
<1>9. /\ Sound(r)
      /\ r.budget + Mass(Elements(r.active), g) = s.budget + Mass(Elements(s.active), g)
      /\ Elements(r.waiting) \subseteq Elements(s.waiting)
      /\ Elements(s.active) \subseteq Elements(r.active)
      /\ Elements(r.waiting) \cup Elements(r.active)
           = Elements(s.waiting) \cup Elements(s.active)
      /\ r.waiting # <<>> =>
           s.waiting # <<>> /\ ~TryCharge(r, <<Head(r.waiting)>>)
  BY <1>3, <1>7, <1>8, PromoteFacts
<1> HIDE DEF r
<1>10. /\ Sound(Scheduled)'
       /\ waiting' = r.waiting /\ active' = r.active /\ slots' = r.slots /\ budget' = r.budget
  BY <1>6, <1>9, SetFrame
<1>11. budget' \in Nat
  BY <1>9, <1>10 DEF Sound
<1>12. budget' + Mass(Elements(active'), LeftOf(offset)) = budget + Mass(Elements(active), LeftOf(offset))
  BY <1>3, <1>7, <1>9, <1>10 DEF g
<1>13. /\ Elements(waiting') \subseteq Elements(waiting)
       /\ Elements(active) \ {m} \subseteq Elements(active')
       /\ Elements(waiting') \cup Elements(active') = Elements(waiting) \cup (Elements(active) \ {m})
  BY <1>4, <1>8, <1>9, <1>10
<1>14. /\ Elements(waiting') \subseteq Elements(waiting) \cup {}
       /\ Elements(waiting') \cup Elements(active') \subseteq Elements(waiting) \cup Elements(active) \cup {}
  BY <1>13
<1>15. \A k \in Elements(waiting) : k \notin started /\ k \notin Elements(active)
  BY WaitingUnsent
<1>16. m \notin Elements(active') /\ Elements(active') \cap started = (Elements(active) \cap started) \ {m}
  BY <1>13, <1>15
<1>17. /\ control' \in Seq(Msgs) /\ Distinct(control')
       /\ Elements(control') = Elements(control) \cup (IF m \in started THEN {m} ELSE {})
  <2>1. m \notin Elements(control)
    BY <1>2
  <2> QED BY <1>2, <2>1, AppendDistinct
<1>18. /\ Elements(control') \subseteq started \ Elements(active')
       /\ (Elements(active') \cap started) \cup Elements(control') = Engaged
  BY <1>2, <1>16, <1>17 DEF Engaged
<1>19. parked' \in BOOLEAN /\ woken' \in BOOLEAN
  BY <1>2, Zenon DEF WakeOnCredit
<1>20. {} \subseteq {Head(inbox).id} /\ ({} # {} => Head(inbox).op = "send")
  OBVIOUS
<1> QED BY <1>1, <1>10, <1>11, <1>12, <1>14, <1>17, <1>18, <1>19, <1>20, ReceiveMoves

LEMMA ReceiveFlow ==
  ASSUME FlowInv, Receive
  PROVE  FlowInv'
<1> DEFINE m == Head(inbox).id
<1>1. /\ writer = "select" /\ inbox # <<>> /\ inbox' = Tail(inbox)
      /\ UNCHANGED <<todo, asked, sendVars, writer, wire, back, peerVars>>
      /\ Admit(m) \/ Cancel(m) \/ DiscardTrailer(m)
  BY DEF Receive
<1>2. /\ m \in Msgs /\ parked \in BOOLEAN /\ woken \in BOOLEAN /\ control \in Seq(Msgs)
      /\ producer \in [Msgs -> {"none", "idle", "finished", "dropped"}]
      /\ Distinct(control) /\ Elements(control) \subseteq started \ Elements(active)
      /\ budget \in Nat
  BY <1>1, ReceiveTypes
<1>3. ASSUME producer' = producer \/ producer' = [producer EXCEPT ![m] = "none"]
      PROVE  /\ producer' \in [Msgs -> {"none", "idle", "finished", "dropped"}]
             /\ \A k \in Msgs : producer'[k] # "none" => producer[k] # "none"
  BY <1>2, <1>3
<1>4. ASSUME UNCHANGED <<schedVars, control, parked, woken>>,
             producer' = producer \/ producer' = [producer EXCEPT ![m] = "none"]
      PROVE  FlowInv'
  <2> USE DEF schedVars
  <2>1. Sound(Scheduled)'
    BY <1>2, <1>4, SoundFrame DEF FlowInv
  <2>2. /\ Elements(waiting') \subseteq Elements(waiting) \cup {}
        /\ Elements(waiting') \cup Elements(active') \subseteq Elements(waiting) \cup Elements(active) \cup {}
        /\ Elements(control') \subseteq started \ Elements(active')
        /\ (Elements(active') \cap started) \cup Elements(control') = Engaged
        /\ budget' + Mass(Elements(active'), LeftOf(offset)) = budget + Mass(Elements(active), LeftOf(offset))
    BY <1>2, <1>4 DEF Engaged
  <2>3. {} \subseteq {Head(inbox).id} /\ ({} # {} => Head(inbox).op = "send")
    OBVIOUS
  <2>4. /\ parked' \in BOOLEAN /\ woken' \in BOOLEAN
        /\ control' \in Seq(Msgs) /\ Distinct(control') /\ budget' \in Nat
    BY <1>2, <1>4
  <2>5. /\ producer' \in [Msgs -> {"none", "idle", "finished", "dropped"}]
        /\ \A k \in Msgs : producer'[k] # "none" => producer[k] # "none"
    BY <1>3, <1>4
  <2> HIDE DEF schedVars, m
  <2> QED BY <1>1, <2>1, <2>2, <2>3, <2>4, <2>5, ReceiveMoves
<1>5. CASE Admit(m)
  BY <1>5, AdmitFlow
<1>6. CASE DiscardTrailer(m)
  <2>1. /\ UNCHANGED <<schedVars, control, parked, woken>>
        /\ producer' = producer \/ producer' = [producer EXCEPT ![m] = "none"]
    BY <1>6 DEF DiscardTrailer
  <2> QED BY <1>4, <2>1
<1>7. CASE Cancel(m)
  <2>1. producer' = producer \/ producer' = [producer EXCEPT ![m] = "none"]
    BY <1>7 DEF Cancel
  <2>2. /\ producer' \in [Msgs -> {"none", "idle", "finished", "dropped"}]
        /\ \A k \in Msgs : producer'[k] # "none" => producer[k] # "none"
    BY <1>3, <2>1
  <2>3. \/ /\ m \in Elements(waiting)
           /\ SetQueues(Queues(Without(waiting, m), active, slots, budget))
           /\ UNCHANGED <<control, parked, woken>>
        \/ /\ m \in Elements(active)
           /\ SetQueues(CancelActive(Queues(waiting, active, slots, budget), m))
           /\ control' = IF m \in started THEN Append(control, m) ELSE control
           /\ WakeOnCredit(Size[m] - offset[m])
        \/ UNCHANGED <<schedVars, control, parked, woken>>
    BY <1>7 DEF Cancel
  <2> HIDE DEF m
  <2>4. CASE UNCHANGED <<schedVars, control, parked, woken>>
    BY <1>4, <2>1, <2>4
  <2> QED BY <1>2, <2>2, <2>3, <2>4, CancelWaitingFlow, CancelActiveFlow
<1> QED BY <1>1, <1>5, <1>6, <1>7

-----------------------------------------------------------------------------
(***************************************************************************)
(* Scheduler::advance.                                                     *)
(***************************************************************************)

\* A send that has no charge left leaves its slot to who waits.
LEMMA FreeFacts ==
  ASSUME NEW q, Sound(q), NEW m \in Elements(q.active),
         NEW left \in Seq(Msgs), Distinct(left),
         Elements(left) = Elements(q.active) \ {m},
         NEW g \in [Msgs -> 0..Quota], g[m] = 0,
         \A k \in Elements(q.waiting) : g[k] = Size[k]
  PROVE  LET r == FreeSlot(Queues(q.waiting, left, q.slots, q.budget), m)
         IN  /\ Sound(r)
             /\ r.budget + Mass(Elements(r.active), g) = q.budget + Mass(Elements(q.active), g)
             /\ Elements(r.waiting) \subseteq Elements(q.waiting)
             /\ Elements(q.active) \ {m} \subseteq Elements(r.active)
             /\ Elements(r.waiting) \cup Elements(r.active)
                  = Elements(q.waiting) \cup (Elements(q.active) \ {m})
<1> DEFINE s == [waiting |-> q.waiting, active |-> left,
                 slots |-> IF MultiFragment(m) THEN q.slots - 1 ELSE q.slots,
                 budget |-> q.budget + g[m]]
           r == FreeSlot(Queues(q.waiting, left, q.slots, q.budget), m)
<1>1. /\ Sound(s)
      /\ s.budget + Mass(Elements(s.active), g) = q.budget + Mass(Elements(q.active), g)
  BY LeaveFacts
<1>2. q.budget \in Nat
  BY DEF Sound
<1>3. r = IF MultiFragment(m) THEN PromoteWaiting(s) ELSE s
  <2>1. q.budget + g[m] = q.budget
    BY <1>2
  <2>2. MultiFragment(m) => [Queues(q.waiting, left, q.slots, q.budget) EXCEPT !.slots = @ - 1] = s
    BY <2>1 DEF Queues
  <2>3. ~MultiFragment(m) => Queues(q.waiting, left, q.slots, q.budget) = s
    BY <2>1 DEF Queues
  <2> HIDE DEF s
  <2> QED BY <2>2, <2>3 DEF FreeSlot
<1>4. s.waiting = q.waiting /\ s.active = left
  OBVIOUS
<1> HIDE DEF s, r
<1>5. CASE MultiFragment(m)
  <2> DEFINE p == PromoteWaiting(s)
  <2>1. /\ Sound(p)
        /\ p.budget + Mass(Elements(p.active), g) = s.budget + Mass(Elements(s.active), g)
        /\ Elements(p.waiting) \subseteq Elements(s.waiting)
        /\ Elements(s.active) \subseteq Elements(p.active)
        /\ Elements(p.waiting) \cup Elements(p.active)
             = Elements(s.waiting) \cup Elements(s.active)
        /\ p.waiting # <<>> =>
             s.waiting # <<>> /\ ~TryCharge(p, <<Head(p.waiting)>>)
    BY <1>1, <1>4, PromoteFacts
  <2>2. r = p
    BY <1>3, <1>5
  <2> HIDE DEF p
  <2> QED BY <1>1, <1>4, <2>1, <2>2 DEF r
<1>6. CASE ~MultiFragment(m)
  <2>1. r = s
    BY <1>3, <1>6
  <2> QED BY <1>1, <1>4, <2>1 DEF r
<1> QED BY <1>5, <1>6

\* What one part of a sum loses another gains.
LEMMA SumShift ==
  ASSUME NEW p \in Nat, NEW a \in Nat, NEW x \in Nat, NEW y \in Nat, NEW n \in Nat,
         NEW u \in Nat, NEW v \in Nat, NEW r \in Nat,
         x + y + n = p + a, v = u + n
  PROVE  x + y + v + r = p + a + u + r
OBVIOUS

\* The quota when a fragment is put on the wire.
LEMMA BalanceSends ==
  ASSUME FlowInv, NEW f \in Fragments, wire' = Append(wire, f),
         UNCHANGED <<pool, owed, back>>, budget' \in Nat,
         LeftOf(offset') \in [Msgs -> 0..Quota],
         budget' + Mass(Elements(active'), LeftOf(offset')) + f.len
           = budget + Mass(Elements(active), LeftOf(offset))
  PROVE  QuotaBalance'
<1> DEFINE a == Mass(Elements(active), LeftOf(offset))
           b == Mass(Elements(active'), LeftOf(offset'))
           u == Total(Lengths(wire))
           v == Total(Lengths(wire'))
           d == Total(pool.debt)
           e == Total(back)
<1>1. /\ budget \in Nat /\ a \in Nat /\ u \in Nat /\ d \in Nat
      /\ owed \in Nat /\ e \in Nat /\ b \in Nat
  BY BalanceParts, MassType
<1>2. f.len \in Nat
  BY SizeType DEF Fragments
<1>3. v = u + f.len
  <2>1. wire \in Seq(Fragments)
    BY DEF FlowInv, Shape
  <2>2. Total(Lengths(Append(wire, f))) = Total(Lengths(wire)) + f.len
    BY <2>1, LengthsAppend
  <2> QED BY <2>2, Zenon
<1>4. /\ Mass(Elements(active), LeftOf(offset))' = b
      /\ Total(Lengths(wire))' = v /\ Total(pool.debt)' = d
      /\ Total(back)' = e /\ owed' = owed
  BY DEF Mass, Elements, LeftOf, Lengths
<1>5. budget + a + u + d + owed + e = Quota
  BY DEF FlowInv, QuotaBalance
<1>6. budget' + b + f.len = budget + a
  OBVIOUS
<1> HIDE DEF a, b, u, v, d, e
<1>7. budget' + b + v + d + owed + e = Quota
  <2>1. v \in Nat
    BY <1>1, <1>2, <1>3
  <2>2. PICK n \in Nat : n = f.len
    BY <1>2
  <2>3. PICK x \in Nat : x = budget'
    OBVIOUS
  <2>4. x + b + n = budget + a /\ v = u + n
    BY ONLY <1>3, <1>6, <2>2, <2>3
  <2>5. x + b + v + d = budget + a + u + d
    BY ONLY <1>1, <2>1, <2>4, SumShift
  <2> QED BY ONLY <1>5, <2>3, <2>5
<1> QED BY <1>4, <1>7 DEF QuotaBalance

\* What advance leaves alone.
LEMMA AdvanceShape ==
  ASSUME FlowInv, writer' = "select",
         UNCHANGED <<todo, asked, producer, inbox, parked, woken, back, peerVars>>,
         wire' \in Seq(Fragments), control' \in Seq(Msgs), started' \subseteq Msgs,
         offset' \in [Msgs -> 0..Quota], batch' \in [Msgs -> Nat]
  PROVE  Shape' /\ Conserved(pool, Quota)' /\ ReadyMoves'
BY DEF FlowInv, Shape, Conserved, ReadyMoves, peerVars

\* The index that advance looks for exists, and the rest of the queue goes
\* round it.
LEMMA NextSend ==
  ASSUME FlowInv, writer = "ready", control = <<>>
  PROVE  LET m == active[NextIndex]
             rest == Rotated(NextIndex)
         IN  /\ m \in Msgs /\ m \in Elements(active) /\ CanMove(m)
             /\ rest \in Seq(Msgs) /\ Distinct(rest)
             /\ Elements(rest) = Elements(active) \ {m}
<1> DEFINE T == {i \in DOMAIN active : CanMove(active[i])}
           P(i) == /\ CanMove(active[i])
                   /\ \A j \in 1..(i - 1) : ~CanMove(active[j])
<1>1. active \in Seq(Msgs) /\ Distinct(active)
  BY DEF FlowInv, Sound, Scheduled, Queues
<1>2. PICK n \in Nat : n = Len(active) /\ DOMAIN active = 1..n
  BY <1>1
<1>3. T # {} /\ T \in SUBSET Nat
  BY <1>2 DEF FlowInv, ReadyMoves, Elements
<1> HIDE DEF T
<1>4. PICK x \in T : \A y \in T : x <= y
  BY <1>3, LeastNat
<1>5. x \in DOMAIN active /\ P(x)
  <2>1. x \in 1..n /\ CanMove(active[x])
    BY <1>2 DEF T
  <2>2. ASSUME NEW j \in 1..(x - 1), CanMove(active[j]) PROVE FALSE
    <3>1. j \in 1..n /\ j < x
      BY <2>1
    <3>2. j \in T
      BY <1>2, <2>2, <3>1 DEF T
    <3> QED BY <1>4, <2>1, <3>1, <3>2
  <2> QED BY <1>2, <2>1, <2>2
<1>6. NextIndex = CHOOSE i \in DOMAIN active : P(i)
  BY DEF NextIndex
<1> HIDE DEF P
<1>7. NextIndex \in DOMAIN active /\ P(NextIndex)
  BY <1>5, <1>6
<1>8. PICK i \in DOMAIN active : i = NextIndex
  BY <1>7
<1>9. /\ Rotated(i) \in Seq(Msgs) /\ Distinct(Rotated(i))
      /\ Elements(Rotated(i)) = Elements(active) \ {active[i]}
  BY <1>1, WithoutPlace DEF Rotated
<1>10. active[i] \in Msgs /\ active[i] \in Elements(active) /\ CanMove(active[i])
  BY <1>1, <1>7, <1>8 DEF P, Elements
<1> QED BY <1>8, <1>9, <1>10

\* What the driver is doing when it writes.
Writing ==
  /\ writer = "ready" /\ writer' = "select"
  /\ UNCHANGED <<todo, asked, inbox, producer, parked, woken, back, peerVars>>

LEMMA AdvanceControlFlow ==
  ASSUME FlowInv, Writing, control # <<>>, AdvanceControl
  PROVE  FlowInv'
<1>0. PICK m : m = Head(control)
  OBVIOUS
<1>00. PICK f : f = Frag(m, FALSE, FALSE, FALSE, TRUE, 0)
  OBVIOUS
<1>1. /\ wire' = Append(wire, f) /\ control' = Tail(control)
      /\ UNCHANGED <<waiting, active, slots, budget, offset, batch, started>>
      /\ UNCHANGED <<entry, pool, owed, back>>
  BY <1>0, <1>00 DEF AdvanceControl, schedVars, sendVars, Writing, peerVars
<1>2. /\ control \in Seq(Msgs) /\ Distinct(control) /\ wire \in Seq(Fragments)
      /\ Elements(control) \subseteq started \ Elements(active)
      /\ entry \in [Msgs -> {"none", "payload", "trailer"}]
      /\ offset \in [Msgs -> 0..Quota] /\ batch \in [Msgs -> Nat] /\ started \subseteq Msgs
      /\ budget \in Nat /\ LeftOf(offset) \in [Msgs -> 0..Quota]
  BY BalanceParts DEF FlowInv, Shape, Progress
<1>3. /\ Tail(control) \in Seq(Msgs) /\ Distinct(Tail(control)) /\ m \in Elements(control)
      /\ Elements(Tail(control)) = Elements(control) \ {m}
  BY <1>0, <1>2, TailDistinct
<1>4. m \in Msgs /\ m \in started /\ m \notin Elements(active)
  BY <1>2, <1>3
<1>5. /\ f \in Fragments /\ f.id = m /\ ~f.first /\ ~f.last /\ ~f.trailer /\ f.abort /\ f.len = 0
  BY <1>4, <1>00, SizeType DEF Frag, Fragments
<1>6. wire' \in Seq(Fragments)
  BY <1>1, <1>2, <1>5
<1>7. Shape' /\ Conserved(pool, Quota)' /\ ReadyMoves'
  <2>1. /\ control' \in Seq(Msgs) /\ started' \subseteq Msgs
        /\ offset' \in [Msgs -> 0..Quota] /\ batch' \in [Msgs -> Nat]
    BY <1>1, <1>2, <1>3
  <2> QED BY <1>6, <2>1, AdvanceShape DEF Writing
<1>8. QuotaBalance'
  <2>1. Mass(Elements(active), LeftOf(offset)) \in Nat
    BY BalanceParts
  <2>2. /\ LeftOf(offset') \in [Msgs -> 0..Quota] /\ budget' \in Nat
        /\ Elements(active') = Elements(active) /\ LeftOf(offset') = LeftOf(offset)
    BY <1>1, <1>2
  <2>3. budget' + Mass(Elements(active'), LeftOf(offset')) + f.len
          = budget + Mass(Elements(active), LeftOf(offset))
    BY ONLY <1>1, <1>2, <1>5, <2>1, <2>2
  <2> QED BY <1>1, <1>5, <2>2, <2>3, BalanceSends
<1>9. Sound(Scheduled)'
  BY <1>1, <1>2, SoundFrame DEF FlowInv
<1>10. SentOnce'
  BY <1>1, SentFrame DEF FlowInv, Writing
<1>11. Progress'
  <2>1. /\ \A k \in Msgs : producer'[k] # "none" => producer[k] # "none"
        /\ Elements(active') \cap started \subseteq Elements(active)
        /\ Distinct(control') /\ Elements(control') \subseteq started \ Elements(active')
    BY <1>1, <1>2, <1>3 DEF Writing
  <2> QED BY <1>1, <2>1, ProgressMoves DEF FlowInv
<1>12. WireInv'
  <2>1. \A k : k # m => (k \in Engaged' <=> k \in Engaged)
    BY <1>1, <1>3 DEF Engaged, Elements
  <2>2. m \in Engaged /\ m \notin Engaged'
    <3>1. Engaged' = (Elements(active') \cap started') \cup Elements(control')
      BY DEF Engaged, Elements
    <3> QED BY <1>1, <1>3, <1>4, <3>1 DEF Engaged
  <2>3. \A k \in Msgs : PayloadLeft(k)' <=> PayloadLeft(k)
    BY <1>1 DEF PayloadLeft
  <2>4. started' = started \cup {f.id}
    BY <1>1, <1>4, <1>5
  <2>5. ~PayloadLeft(f.id) => ~PayloadLeft(f.id)'
    BY <1>4, <1>5, <2>3
  <2>6. /\ f.first <=> f.id \notin started
        /\ f.first \/ f.id \in Engaged
        /\ f.abort => f.len = 0 /\ ~f.first
        /\ ~PayloadLeft(f.id) => f.len = 0
        /\ f.trailer \/ ~PayloadLeft(f.id) => ~PayloadLeft(f.id)'
        /\ \A k \in Msgs : k # f.id => (PayloadLeft(k)' <=> PayloadLeft(k))
        /\ \A k \in Msgs : k # f.id => (k \in Engaged' <=> k \in Engaged)
        /\ f.id \in Engaged' => ~Closes(f)
        /\ ~Leaves(f) => f.id \in Engaged'
        /\ f.first /\ ~f.last => Cardinality(Incomplete(DOMAIN wire)) < MaxCalls
    BY <1>4, <1>5, <2>1, <2>2, <2>3, <2>5 DEF Closes, Leaves
  <2> QED BY <1>1, <1>2, <1>5, <2>4, <2>6, WireGrows DEF FlowInv
<1> QED BY <1>7, <1>8, <1>9, <1>10, <1>11, <1>12 DEF FlowInv

\* A send whose payload is out ends: its trailer is closed, or aborted later.
LEMMA AdvanceEndFlow ==
  ASSUME FlowInv, Writing, control = <<>>, NEW m \in Msgs, m \in Elements(active),
         NEW rest \in Seq(Msgs), Distinct(rest), Elements(rest) = Elements(active) \ {m},
         AdvanceEnd(m, rest)
  PROVE  FlowInv'
<1> DEFINE q == Queues(waiting, active, slots, budget)
           g == LeftOf(offset)
           r == FreeSlot(Queues(waiting, rest, slots, budget), m)
<1>1. /\ ~PayloadLeft(m) /\ SetQueues(r)
      /\ UNCHANGED <<offset, batch, started>>
      /\ UNCHANGED <<todo, asked, inbox, producer, parked, woken, back, entry, pool, owed>>
  BY DEF AdvanceEnd, sendVars, Writing, peerVars
<1>2. /\ wire \in Seq(Fragments)
      /\ entry \in [Msgs -> {"none", "payload", "trailer"}]
      /\ offset \in [Msgs -> 0..Quota] /\ batch \in [Msgs -> Nat] /\ started \subseteq Msgs
      /\ budget \in Nat /\ g \in [Msgs -> 0..Quota] /\ offset[m] <= Size[m]
  BY BalanceParts DEF FlowInv, Shape, Progress
<1>3. m \in started /\ g[m] = 0
  <2>1. offset[m] = Size[m] /\ m \in started
    BY <1>1, <1>2, SizeType DEF PayloadLeft
  <2> QED BY <2>1, SizeType DEF LeftOf
<1>4. /\ q.waiting = waiting /\ q.active = active /\ q.slots = slots /\ q.budget = budget
      /\ Sound(q) /\ \A k \in Elements(waiting) : g[k] = Size[k]
  BY WaitingUnsent DEF Queues, Scheduled
<1>5. r = FreeSlot(Queues(q.waiting, rest, q.slots, q.budget), m)
  BY <1>4
<1> HIDE DEF q, g, r
<1>6. /\ Sound(r)
      /\ r.budget + Mass(Elements(r.active), g) = q.budget + Mass(Elements(q.active), g)
      /\ Elements(r.waiting) \subseteq Elements(q.waiting)
      /\ Elements(q.active) \ {m} \subseteq Elements(r.active)
      /\ Elements(r.waiting) \cup Elements(r.active)
           = Elements(q.waiting) \cup (Elements(q.active) \ {m})
  <2>1. /\ m \in Elements(q.active) /\ Elements(rest) = Elements(q.active) \ {m}
        /\ \A k \in Elements(q.waiting) : g[k] = Size[k]
        /\ Sound(q) /\ g \in [Msgs -> 0..Quota] /\ g[m] = 0
        /\ rest \in Seq(Msgs) /\ Distinct(rest)
    BY <1>2, <1>3, <1>4
  <2> QED BY ONLY <1>5, <2>1, FreeFacts
<1>7. /\ Sound(Scheduled)'
      /\ waiting' = r.waiting /\ active' = r.active /\ slots' = r.slots /\ budget' = r.budget
  BY <1>1, <1>6, SetFrame
<1>8. budget' \in Nat
  BY <1>6, <1>7 DEF Sound
<1>9. budget' + Mass(Elements(active'), LeftOf(offset)) = budget + Mass(Elements(active), LeftOf(offset))
  BY <1>4, <1>6, <1>7 DEF g
<1>10. /\ Elements(waiting') \subseteq Elements(waiting)
       /\ Elements(active) \ {m} \subseteq Elements(active')
       /\ Elements(waiting') \cup Elements(active') = Elements(waiting) \cup (Elements(active) \ {m})
  BY <1>4, <1>6, <1>7
<1>11. \A k \in Elements(waiting) : k \notin started /\ k \notin Elements(active)
  BY WaitingUnsent
<1>12. m \notin Elements(active') /\ Elements(active') \cap started = (Elements(active) \cap started) \ {m}
  BY <1>10, <1>11
<1>13. SentOnce'
  BY <1>1, <1>10, SentMoves DEF FlowInv
<1>14. /\ Engaged' = (Elements(active') \cap started') \cup Elements(control')
       /\ Engaged = Elements(active) \cap started
  BY DEF Engaged, Elements
<1>15. CASE control' = Append(control, m) /\ wire' = wire
  <2>1. /\ control' \in Seq(Msgs) /\ Distinct(control') /\ Elements(control') = {m}
    <3>1. control' = <<m>>
      BY <1>15
    <3> QED BY <3>1, OneDistinct
  <2>2. Engaged' = Engaged
    BY <1>1, <1>3, <1>12, <1>14, <2>1
  <2>3. WireInv'
    BY <1>1, <1>15, <2>2, WireStays DEF FlowInv
  <2>4. QuotaBalance'
    BY <1>1, <1>8, <1>9, <1>15, BalanceMoves
  <2>5. Progress'
    <3>1. /\ \A k \in Msgs : producer'[k] # "none" => producer[k] # "none"
          /\ Elements(active') \cap started \subseteq Elements(active)
          /\ Elements(control') \subseteq started \ Elements(active')
      BY <1>1, <1>3, <1>12, <2>1
    <3> QED BY <1>1, <2>1, <3>1, ProgressMoves DEF FlowInv
  <2>6. Shape' /\ Conserved(pool, Quota)' /\ ReadyMoves'
    <3>1. /\ wire' \in Seq(Fragments) /\ started' \subseteq Msgs
          /\ offset' \in [Msgs -> 0..Quota] /\ batch' \in [Msgs -> Nat]
      BY <1>1, <1>2, <1>15
    <3> QED BY <2>1, <3>1, AdvanceShape DEF Writing
  <2> QED BY <1>7, <1>13, <2>3, <2>4, <2>5, <2>6 DEF FlowInv
<1>16. CASE wire' = Append(wire, Frag(m, FALSE, TRUE, FALSE, FALSE, 0)) /\ control' = control
  <2>0. PICK f : f = Frag(m, FALSE, TRUE, FALSE, FALSE, 0)
    OBVIOUS
  <2>1. /\ f \in Fragments /\ f.id = m /\ ~f.first /\ f.last /\ ~f.trailer /\ ~f.abort /\ f.len = 0
    BY <2>0, SizeType DEF Frag, Fragments
  <2>2. wire' = Append(wire, f)
    BY <1>16, <2>0
  <2>3. wire' \in Seq(Fragments)
    BY <1>2, <2>1, <2>2
  <2>4. /\ control' \in Seq(Msgs) /\ Distinct(control') /\ Elements(control') = {}
    BY <1>16 DEF Distinct, Elements
  <2>5. Progress'
    <3>1. /\ \A k \in Msgs : producer'[k] # "none" => producer[k] # "none"
          /\ Elements(active') \cap started \subseteq Elements(active)
          /\ Elements(control') \subseteq started \ Elements(active')
      BY <1>1, <1>12, <2>4
    <3> QED BY <1>1, <2>4, <3>1, ProgressMoves DEF FlowInv
  <2>6. Shape' /\ Conserved(pool, Quota)' /\ ReadyMoves'
    <3>1. /\ started' \subseteq Msgs
          /\ offset' \in [Msgs -> 0..Quota] /\ batch' \in [Msgs -> Nat]
      BY <1>1, <1>2
    <3> QED BY <2>3, <2>4, <3>1, AdvanceShape DEF Writing
  <2>7. QuotaBalance'
    <3>1. /\ LeftOf(offset') \in [Msgs -> 0..Quota] /\ LeftOf(offset') = LeftOf(offset)
      BY <1>1, <1>2 DEF g
    <3>2. Mass(Elements(active'), LeftOf(offset')) \in Nat
      BY <3>1, MassType
    <3>3. budget' + Mass(Elements(active'), LeftOf(offset')) + f.len
            = budget + Mass(Elements(active), LeftOf(offset))
      BY ONLY <1>8, <1>9, <2>1, <3>1, <3>2
    <3> QED BY <1>1, <1>8, <2>1, <2>2, <3>1, <3>3, BalanceSends
  <2>8. WireInv'
    <3>1. /\ m \in Engaged /\ m \notin Engaged'
          /\ \A k \in Msgs : k # m => (k \in Engaged' <=> k \in Engaged)
      BY <1>1, <1>3, <1>12, <1>14, <2>4
    <3>2. \A k \in Msgs : PayloadLeft(k)' <=> PayloadLeft(k)
      BY <1>1 DEF PayloadLeft
    <3>3. started' = started \cup {f.id}
      BY <1>1, <1>3, <2>1
    <3>4. /\ f.first <=> f.id \notin started
          /\ f.first \/ f.id \in Engaged
          /\ f.abort => f.len = 0 /\ ~f.first
          /\ ~PayloadLeft(f.id) => f.len = 0
          /\ f.trailer \/ ~PayloadLeft(f.id) => ~PayloadLeft(f.id)'
          /\ \A k \in Msgs : k # f.id => (PayloadLeft(k)' <=> PayloadLeft(k))
          /\ \A k \in Msgs : k # f.id => (k \in Engaged' <=> k \in Engaged)
          /\ f.id \in Engaged' => ~Closes(f)
          /\ ~Leaves(f) => f.id \in Engaged'
          /\ f.first /\ ~f.last => Cardinality(Incomplete(DOMAIN wire)) < MaxCalls
      BY <1>3, <2>1, <3>1, <3>2 DEF Closes, Leaves
    <3> QED BY <1>1, <1>2, <2>1, <2>2, <3>3, <3>4, WireGrows DEF FlowInv
  <2> QED BY <1>7, <1>13, <2>5, <2>6, <2>7, <2>8 DEF FlowInv
<1> QED BY <1>15, <1>16 DEF AdvanceEnd

\* A send that has sent nothing, and of which the next fragment is not the
\* last, is one of several: fewer than the limit are under way with it.
LEMMA FirstOfSeveral ==
  ASSUME FlowInv, control = <<>>, NEW m \in Elements(active), m \notin started, MultiFragment(m)
  PROVE  Cardinality(Incomplete(DOMAIN wire)) < MaxCalls
<1> DEFINE X == Incomplete(DOMAIN wire)
           Y == (Elements(active) \ {m}) \cap Multi
<1>1. m \in Msgs
  BY WaitingUnsent
<1>2. X \subseteq Elements(active) \cap started
  BY DEF FlowInv, WireInv, IncompleteBound, Engaged, Elements
<1>3. X \in SUBSET Y
  BY <1>2 DEF FlowInv, Progress
<1>4. IsFiniteSet(Y) /\ Cardinality(Y) \in Nat
  BY MultiFinite
<1> HIDE DEF X, Y
<1>5. Cardinality(X) <= Cardinality(Y) /\ Cardinality(X) \in Nat
  BY <1>3, <1>4, FS_Subset, FS_CardinalityType
<1>6. Cardinality(Elements(active) \cap Multi) = Cardinality(Y) + 1
  BY <1>1, MultiRemove DEF Y
<1>7. slots = Cardinality(Elements(active) \cap Multi) /\ slots \in 0..MaxCalls
  BY DEF FlowInv, Sound, Scheduled, Queues
<1>8. Cardinality(X) < MaxCalls
  BY <1>4, <1>5, <1>6, <1>7, SizeType
<1> QED BY <1>8 DEF X

\* One fragment of a payload.
LEMMA AdvancePayloadFlow ==
  ASSUME FlowInv, Writing, control = <<>>, NEW m \in Msgs, m \in Elements(active),
         NEW rest \in Seq(Msgs), Distinct(rest), Elements(rest) = Elements(active) \ {m},
         AdvancePayload(m, rest)
  PROVE  FlowInv'
<1>0. /\ wire \in Seq(Fragments)
      /\ entry \in [Msgs -> {"none", "payload", "trailer"}]
      /\ offset \in [Msgs -> 0..Quota] /\ batch \in [Msgs -> Nat] /\ started \subseteq Msgs
      /\ budget \in Nat /\ LeftOf(offset) \in [Msgs -> 0..Quota] /\ slots \in 0..MaxCalls
      /\ \A k \in Msgs : offset[k] <= Size[k]
      /\ producer \in [Msgs -> {"none", "idle", "finished", "dropped"}]
  BY BalanceParts DEF FlowInv, Shape, Progress, Sound, Scheduled, Queues
<1>1. /\ Size[m] \in 0..Quota /\ offset[m] \in 0..Quota /\ batch[m] \in Nat /\ Batches[m] \in Nat
      /\ Fragment \in Nat /\ Fragment > 0 /\ Quota \in Nat
  BY <1>0, SizeType, MsgsAssumption, LimitsAssumption
<1>2. PICK end \in 0..Quota : end = Lesser(offset[m] + Fragment, Size[m])
  BY <1>1 DEF Lesser
<1>3. PICK sent \in Nat : sent = Lesser(batch[m] + 1, Batches[m])
  BY <1>1 DEF Lesser
<1>4. PICK done \in BOOLEAN : done <=> (end = Size[m] /\ sent = Batches[m])
  OBVIOUS
<1>5. PICK stream \in BOOLEAN : stream <=> (producer[m] # "none")
  OBVIOUS
<1>6. PICK first \in BOOLEAN : first <=> (m \notin started)
  OBVIOUS
<1>7. PICK f : f = [id |-> m, first |-> first, last |-> (done /\ ~stream),
                    trailer |-> (done /\ stream), abort |-> FALSE, len |-> end - offset[m]]
  OBVIOUS
<1>8. offset[m] <= end /\ end <= Size[m] /\ (end # Size[m] => Size[m] > Fragment + offset[m])
  BY <1>0, <1>1, <1>2 DEF Lesser
<1>9. /\ f \in Fragments /\ f.id = m /\ (f.first <=> m \notin started)
      /\ f.last <=> (done /\ ~stream)
      /\ f.trailer <=> (done /\ stream)
      /\ ~f.abort /\ f.len = end - offset[m]
  <2>1. end - offset[m] \in 0..Quota
    BY <1>1, <1>8
  <2>2. (done /\ ~stream) \in BOOLEAN /\ (done /\ stream) \in BOOLEAN
    OBVIOUS
  <2>3. f \in Fragments
    BY <1>7, <2>1, <2>2 DEF Fragments
  <2> QED BY <1>6, <1>7, <2>3
<1>10. /\ PayloadLeft(m) /\ wire' = Append(wire, f)
       /\ offset' = [offset EXCEPT ![m] = end] /\ batch' = [batch EXCEPT ![m] = sent]
       /\ started' = started \cup {m} /\ UNCHANGED control
       /\ (done /\ ~stream) => SetQueues(FreeSlot(Queues(waiting, rest, slots, budget), m))
       /\ ~(done /\ ~stream) => SetQueues(Queues(waiting, Append(rest, m), slots, budget))
       /\ UNCHANGED <<todo, asked, inbox, producer, parked, woken, back, entry, pool, owed>>
  <2>1. AdvancePayload(m, rest)
    OBVIOUS
  <2>2. f = Frag(m, m \notin started, done /\ ~stream, done /\ stream, FALSE, end - offset[m])
    BY <1>6, <1>7 DEF Frag
  <2>3. /\ wire' = Append(wire, Frag(m, m \notin started,
                          (end = Size[m] /\ sent = Batches[m]) /\ ~(producer[m] # "none"),
                          (end = Size[m] /\ sent = Batches[m]) /\ (producer[m] # "none"),
                          FALSE, end - offset[m]))
        /\ IF (end = Size[m] /\ sent = Batches[m]) /\ ~(producer[m] # "none")
             THEN SetQueues(FreeSlot(Queues(waiting, rest, slots, budget), m))
             ELSE SetQueues(Queues(waiting, Append(rest, m), slots, budget))
        /\ PayloadLeft(m)
        /\ offset' = [offset EXCEPT ![m] = end] /\ batch' = [batch EXCEPT ![m] = sent]
        /\ started' = started \cup {m} /\ UNCHANGED control
    BY <1>2, <1>3, <2>1, Zenon DEF AdvancePayload
  <2>4. /\ ((end = Size[m] /\ sent = Batches[m]) /\ ~(producer[m] # "none")) = (done /\ ~stream)
        /\ ((end = Size[m] /\ sent = Batches[m]) /\ (producer[m] # "none")) = (done /\ stream)
    BY <1>4, <1>5
  <2>5. wire' = Append(wire, f)
    BY <2>2, <2>3, <2>4, Zenon
  <2>6. /\ (done /\ ~stream) => SetQueues(FreeSlot(Queues(waiting, rest, slots, budget), m))
        /\ ~(done /\ ~stream) => SetQueues(Queues(waiting, Append(rest, m), slots, budget))
    BY <2>3, <2>4, Zenon
  <2> QED BY <2>3, <2>5, <2>6, Zenon DEF Writing, peerVars
<1>11. /\ offset' \in [Msgs -> 0..Quota] /\ batch' \in [Msgs -> Nat] /\ started' \subseteq Msgs
       /\ offset'[m] = end /\ batch'[m] = sent
       /\ \A k \in Msgs : k # m => offset'[k] = offset[k] /\ batch'[k] = batch[k]
       /\ \A k \in Msgs : offset'[k] <= Size[k]
  BY <1>0, <1>8, <1>10
<1>12. /\ LeftOf(offset') \in [Msgs -> 0..Quota]
       /\ LeftOf(offset')[m] = Size[m] - end /\ LeftOf(offset)[m] = Size[m] - offset[m]
       /\ \A k \in Msgs : k # m => LeftOf(offset')[k] = LeftOf(offset)[k]
  <2>1. offset' \in [Msgs -> 0..Quota] /\ \A k \in Msgs : offset'[k] <= Size[k]
    BY <1>11
  <2>2. /\ LeftOf(offset') \in [Msgs -> 0..Quota]
        /\ \A k \in Msgs : LeftOf(offset')[k] = Size[k] - offset'[k]
    BY ONLY <2>1, LeftType
  <2>3. \A k \in Msgs : LeftOf(offset)[k] = Size[k] - offset[k]
    BY <1>0, LeftType
  <2> QED BY ONLY <1>11, <2>2, <2>3
<1>13. Mass(Elements(active), LeftOf(offset)) = Mass(Elements(active), LeftOf(offset')) + f.len
  <2> DEFINE A == Elements(active)
             g == LeftOf(offset)
             h == LeftOf(offset')
             x == Mass(A \ {m}, g)
  <2>1. /\ h \in [Msgs -> 0..Quota] /\ g \in [Msgs -> 0..Quota] /\ m \in A
        /\ \A k \in (A \ {m}) \cap Msgs : g[k] = h[k]
        /\ g[m] = Size[m] - offset[m] /\ h[m] = Size[m] - end
    BY <1>0, <1>12
  <2> HIDE DEF A, g, h
  <2>2. /\ Mass(A, g) = Mass(A \ {m}, g) + g[m]
        /\ Mass(A, h) = Mass(A \ {m}, h) + h[m]
        /\ x \in Nat
    BY <2>1, MassRemove, MassType
  <2>3. Mass(A \ {m}, g) = Mass(A \ {m}, h)
    BY ONLY <2>1, MassAgree
  <2> HIDE DEF x
  <2>4. Mass(A, g) = x + (Size[m] - offset[m]) /\ Mass(A, h) = x + (Size[m] - end)
    BY ONLY <2>1, <2>2, <2>3 DEF x
  <2>5. Mass(A, g) = Mass(A, h) + (end - offset[m])
    BY ONLY <1>1, <1>2, <2>2, <2>4
  <2> QED BY <1>9, <2>5 DEF A, g, h
<1>14. /\ Sound(Scheduled) /\ Elements(active) \subseteq Msgs
       /\ \A k \in Elements(waiting) :
            /\ k \in Msgs /\ k \notin started /\ k \notin Elements(active)
            /\ LeftOf(offset)[k] = Size[k]
  BY WaitingUnsent
<1>15. ~f.last => MultiFragment(m)
  <2> SUFFICES ASSUME ~f.last PROVE MultiFragment(m)
    OBVIOUS
  <2>1. CASE m \in started
    BY <2>1 DEF FlowInv, Progress, Multi
  <2>2. CASE m \notin started
    <3>1. offset[m] = 0 /\ batch[m] = 0 /\ (producer[m] # "none" => m \in Streams)
      BY <2>2 DEF FlowInv, Progress
    <3>2. CASE stream
      BY <1>5, <3>1, <3>2 DEF MultiFragment
    <3>3. CASE end # Size[m]
      <4>1. Size[m] > Fragment
        BY <1>1, <1>8, <3>1, <3>3
      <4> QED BY <4>1 DEF MultiFragment
    <3>4. CASE sent # Batches[m]
      <4>1. Batches[m] > 1
        BY <1>1, <1>3, <3>1, <3>4 DEF Lesser
      <4> QED BY <4>1 DEF MultiFragment
    <3> QED BY <1>4, <1>9, <3>2, <3>3, <3>4
  <2> QED BY <2>1, <2>2
<1>16. /\ Sound(Scheduled)' /\ budget' \in Nat
       /\ budget' + Mass(Elements(active'), LeftOf(offset'))
            = budget + Mass(Elements(active), LeftOf(offset'))
       /\ Elements(waiting') \subseteq Elements(waiting)
       /\ Elements(active) \ {m} \subseteq Elements(active')
       /\ Elements(waiting') \cup Elements(active') \subseteq Elements(waiting) \cup Elements(active)
       /\ m \in Elements(active') <=> ~f.last
  <2> DEFINE q == Queues(waiting, active, slots, budget)
             h == LeftOf(offset')
  <2>1. /\ q.waiting = waiting /\ q.active = active /\ q.slots = slots /\ q.budget = budget
        /\ Sound(q) /\ h \in [Msgs -> 0..Quota] /\ \A k \in Elements(waiting) : h[k] = Size[k]
    BY <1>12, <1>14 DEF Queues, Scheduled
  <2>2. h[m] = Size[m] - end
    BY <1>12
  <2>3. CASE f.last
    <3> DEFINE r == FreeSlot(Queues(q.waiting, rest, q.slots, q.budget), m)
    <3>1. SetQueues(r)
      BY <1>9, <1>10, <2>1, <2>3
    <3>2. h[m] = 0
      BY <1>1, <1>4, <1>9, <2>2, <2>3
    <3> HIDE DEF q, h
    <3>3. /\ Sound(r)
          /\ r.budget + Mass(Elements(r.active), h) = q.budget + Mass(Elements(q.active), h)
          /\ Elements(r.waiting) \subseteq Elements(q.waiting)
          /\ Elements(q.active) \ {m} \subseteq Elements(r.active)
          /\ Elements(r.waiting) \cup Elements(r.active)
               = Elements(q.waiting) \cup (Elements(q.active) \ {m})
      <4>1. /\ m \in Elements(q.active) /\ Elements(rest) = Elements(q.active) \ {m}
            /\ \A k \in Elements(q.waiting) : h[k] = Size[k]
            /\ Sound(q) /\ h \in [Msgs -> 0..Quota] /\ h[m] = 0
            /\ rest \in Seq(Msgs) /\ Distinct(rest)
        BY <2>1, <3>2
      <4> QED BY ONLY <4>1, FreeFacts
    <3> HIDE DEF r
    <3>4. /\ Sound(Scheduled)'
          /\ waiting' = r.waiting /\ active' = r.active /\ slots' = r.slots /\ budget' = r.budget
      BY <3>1, <3>3, SetFrame
    <3>5. budget' \in Nat
      BY <3>3, <3>4 DEF Sound
    <3>6. /\ budget' + Mass(Elements(active'), h) = budget + Mass(Elements(active), h)
          /\ Elements(waiting') \subseteq Elements(waiting)
          /\ Elements(active) \ {m} \subseteq Elements(active')
          /\ Elements(waiting') \cup Elements(active')
               = Elements(waiting) \cup (Elements(active) \ {m})
      BY <2>1, <3>3, <3>4
    <3>7. m \notin Elements(active')
      BY <1>14, <3>6
    <3>8. Elements(waiting') \cup Elements(active') \subseteq Elements(waiting) \cup Elements(active)
      BY <3>6
    <3> QED BY <2>3, <3>4, <3>5, <3>6, <3>7, <3>8 DEF h
  <2>4. CASE ~f.last
    <3> DEFINE r == Queues(waiting, Append(rest, m), slots, budget)
    <3>1. SetQueues(r)
      BY <1>9, <1>10, <2>4
    <3>2. /\ Append(rest, m) \in Seq(Msgs) /\ Distinct(Append(rest, m))
          /\ Elements(Append(rest, m)) = Elements(active)
      <4>1. m \notin Elements(rest) /\ Elements(rest) \cup {m} = Elements(active)
        OBVIOUS
      <4> QED BY <4>1, AppendDistinct
    <3>3. Sound(r)
      BY <1>14, <3>2 DEF Sound, Scheduled, Queues
    <3>4. /\ Sound(Scheduled)'
          /\ waiting' = r.waiting /\ active' = r.active /\ slots' = r.slots /\ budget' = r.budget
      BY <3>1, <3>3, SetFrame
    <3>5. waiting' = waiting /\ active' = Append(rest, m) /\ budget' = budget
      BY <3>4 DEF Queues
    <3>6. Elements(active') = Elements(active)
      BY <3>2, <3>5, Zenon
    <3> HIDE DEF r, h
    <3> QED BY <1>0, <2>4, <3>4, <3>5, <3>6 DEF h
  <2> QED BY <2>3, <2>4
<1>17. SentOnce'
  <2>1. Elements(waiting)' = Elements(waiting') /\ Elements(active)' = Elements(active')
    BY DEF Elements
  <2>2. \A x : x \in Elements(waiting') \cup Elements(active') \cup started'
                 => x \in Elements(waiting) \cup Elements(active) \cup started
    BY <1>10, <1>16
  <2>3. \A i \in DOMAIN inbox : inbox[i].op = "send" =>
          inbox[i].id \notin todo \cup Elements(waiting') \cup Elements(active') \cup started'
    BY <2>2 DEF FlowInv, SentOnce
  <2>4. todo \cap (Elements(waiting') \cup Elements(active') \cup started') = {}
    BY <2>2 DEF FlowInv, SentOnce
  <2>5. Elements(waiting') \cap started' = {}
    BY <1>10, <1>14, <1>16
  <2>6. inbox' = inbox /\ todo' = todo
    BY <1>10
  <2> QED BY <2>1, <2>3, <2>4, <2>5, <2>6 DEF FlowInv, SentOnce
<1>18. Elements(active') \cap started'
         = IF f.last THEN (Elements(active) \cap started) \ {m}
                     ELSE (Elements(active) \cap started) \cup {m}
  BY <1>10, <1>14, <1>16
<1>19. Elements(control') = {} /\ control' \in Seq(Msgs) /\ Distinct(control')
  BY <1>10 DEF Elements, Distinct
<1>20. Progress'
  <2>1. Elements(active)' = Elements(active') /\ Elements(control)' = Elements(control')
    BY DEF Elements
  <2>2. Distinct(control)' /\ Multi' = Multi
    BY <1>19 DEF Distinct, Multi, MultiFragment
  <2>3. \A k \in Msgs : /\ offset'[k] <= Size[k]
                        /\ k \notin started' => offset'[k] = 0 /\ batch'[k] = 0
                        /\ producer'[k] # "none" => k \in Streams
    BY <1>10, <1>11 DEF FlowInv, Progress
  <2>4. Elements(active') \cap started' \subseteq Multi
    BY <1>15, <1>18 DEF FlowInv, Progress, Multi
  <2> QED BY <1>19, <2>1, <2>2, <2>3, <2>4 DEF Progress
<1>21. QuotaBalance'
  <2>1. Mass(Elements(active'), LeftOf(offset')) \in Nat /\ Mass(Elements(active), LeftOf(offset')) \in Nat
    BY <1>12, MassType
  <2>2. f.len \in Nat
    BY <1>9, SizeType DEF Fragments
  <2>3. budget' + Mass(Elements(active'), LeftOf(offset')) + f.len
          = budget + Mass(Elements(active), LeftOf(offset))
    BY ONLY <1>0, <1>13, <1>16, <2>1, <2>2
  <2> QED BY <1>9, <1>10, <1>12, <1>16, <2>3, BalanceSends
<1>22. Shape' /\ Conserved(pool, Quota)' /\ ReadyMoves'
  <2>1. wire' \in Seq(Fragments)
    BY <1>0, <1>9, <1>10
  <2> QED BY <1>11, <1>19, <2>1, AdvanceShape DEF Writing
<1>23. WireInv'
  <2>1. /\ Engaged' = (Elements(active') \cap started') \cup Elements(control')
        /\ Engaged = Elements(active) \cap started
    BY DEF Engaged, Elements
  <2>2. /\ \A k \in Msgs : k # m => (k \in Engaged' <=> k \in Engaged)
        /\ m \in Engaged' <=> ~f.last
        /\ m \in started => m \in Engaged
    BY <1>10, <1>16, <1>18, <1>19, <2>1
  <2>3. \A k \in Msgs : k # m => (PayloadLeft(k)' <=> PayloadLeft(k))
    BY <1>10, <1>11 DEF PayloadLeft
  <2>4. f.trailer => ~PayloadLeft(m)'
    <3>1. PayloadLeft(m)' <=> (offset'[m] < Size[m] \/ batch'[m] < Batches[m] \/ m \notin started')
      BY DEF PayloadLeft
    <3> QED BY <1>1, <1>4, <1>9, <1>10, <1>11, <3>1
  <2>5. started' = started \cup {f.id} /\ f.id = m
    BY <1>9, <1>10
  <2>6. f.first /\ ~f.last => Cardinality(Incomplete(DOMAIN wire)) < MaxCalls
    BY <1>9, <1>15, FirstOfSeveral
  <2>7. ~Leaves(f) => ~f.last
    BY DEF Leaves
  <2>8. Closes(f) => f.last
    BY <1>9 DEF Closes
  <2>9. /\ f.first <=> f.id \notin started
        /\ f.first \/ f.id \in Engaged
        /\ f.abort => f.len = 0 /\ ~f.first
        /\ ~PayloadLeft(f.id) => f.len = 0
        /\ f.trailer \/ ~PayloadLeft(f.id) => ~PayloadLeft(f.id)'
        /\ \A k \in Msgs : k # f.id => (PayloadLeft(k)' <=> PayloadLeft(k))
        /\ \A k \in Msgs : k # f.id => (k \in Engaged' <=> k \in Engaged)
        /\ f.id \in Engaged' => ~Closes(f)
        /\ ~Leaves(f) => f.id \in Engaged'
    BY <1>9, <1>10, <2>2, <2>3, <2>4, <2>5, <2>7, <2>8
  <2> QED BY <1>0, <1>9, <1>10, <2>5, <2>6, <2>9, WireGrows DEF FlowInv
<1> QED BY <1>16, <1>17, <1>20, <1>21, <1>22, <1>23 DEF FlowInv

LEMMA AdvanceFlow ==
  ASSUME FlowInv, Advance
  PROVE  FlowInv'
<1>1. CASE control # <<>>
  <2>1. AdvanceControl /\ Writing
    BY <1>1 DEF Advance, Writing, AdvanceControl
  <2> QED BY <1>1, <2>1, AdvanceControlFlow
<1>2. CASE control = <<>>
  <2>1. writer = "ready" /\ AdvanceSend
    BY <1>2 DEF Advance
  <2>2. PICK m, rest : m = active[NextIndex] /\ rest = Rotated(NextIndex)
    OBVIOUS
  <2>3. /\ m \in Msgs /\ m \in Elements(active)
        /\ rest \in Seq(Msgs) /\ Distinct(rest)
        /\ Elements(rest) = Elements(active) \ {m}
    BY <1>2, <2>1, <2>2, NextSend
  <2>4. AdvancePayload(m, rest) \/ AdvanceEnd(m, rest)
    BY <2>1, <2>2, Zenon DEF AdvanceSend
  <2>5. Writing
    <3>1. producer' = producer
      BY <2>4 DEF AdvancePayload, AdvanceEnd
    <3> QED BY <3>1 DEF Advance, Writing
  <2> QED BY <1>2, <2>3, <2>4, <2>5, AdvancePayloadFlow, AdvanceEndFlow
<1> QED BY <1>1, <1>2

-----------------------------------------------------------------------------
(***************************************************************************)
(* Reassembler::accept.                                                    *)
(***************************************************************************)

\* The head of the wire is what the peer expects.
LEMMA HeadExpected ==
  ASSUME FlowInv, wire # <<>>, NEW f, f = Head(wire)
  PROVE  /\ f \in Fragments /\ f.id \in Msgs
         /\ f.abort => f.len = 0 /\ entry[f.id] # "none"
         /\ f.first <=> entry[f.id] = "none"
         /\ entry[f.id] = "trailer" => f.len = 0
         /\ f.first /\ ~f.last => PayloadPhase < MaxCalls
         /\ Fits(pool, f.len)
<1>1. wire \in Seq(Fragments)
  BY DEF FlowInv, Shape
<1>2. 1 \in DOMAIN wire /\ wire[1] = f /\ f \in Fragments
  BY <1>1
<1>3. f.id \in Msgs /\ f.len \in Nat
  BY <1>2, SizeType DEF Fragments
<1>4. ~ \E j \in 1..(1 - 1) : TRUE
  OBVIOUS
<1>5. /\ f.abort => f.len = 0 /\ ~f.first
      /\ f.first => entry[f.id] = "none"
      /\ ~f.first => \/ entry[f.id] # "none"
                     \/ \E j \in 1..(1 - 1) : wire[j].id = f.id /\ wire[j].first
      /\ entry[f.id] = "trailer" => f.len = 0
  BY <1>2 DEF FlowInv, WireInv, WireOrder
<1>6. f.first /\ ~f.last => PayloadPhase < MaxCalls
  <2>1. PICK P : P = 1..(1 - 1)
    OBVIOUS
  <2>2. f.first /\ ~f.last => Cardinality(Incomplete(P)) < MaxCalls
    BY <1>2, <2>1 DEF FlowInv, WireInv, IncompleteBound
  <2>3. P = {}
    BY <2>1
  <2>4. Incomplete(P) = {m \in Msgs : entry[m] = "payload"}
    BY <2>3 DEF Incomplete
  <2> QED BY <2>2, <2>4 DEF PayloadPhase
<1>7. Fits(pool, f.len)
  <2>1. /\ budget \in Nat /\ Mass(Elements(active), LeftOf(offset)) \in Nat
        /\ Total(Lengths(wire)) \in Nat /\ Total(pool.debt) \in Nat
        /\ owed \in Nat /\ Total(back) \in Nat
    BY BalanceParts
  <2>2. Total(Lengths(wire)) = Total(Lengths(Tail(wire))) + f.len
    BY <1>1, LengthsTail
  <2>3. Total(Lengths(Tail(wire))) \in Nat
    <3>1. Tail(wire) \in Seq(Fragments)
      BY <1>1, HeadTailProperties
    <3> QED BY <3>1, LengthsType
  <2>4. pool.available \in Nat /\ pool.available + Total(pool.debt) = Quota
    BY SizeType DEF FlowInv, Shape, WindowType, Conserved
  <2>5. budget + Mass(Elements(active), LeftOf(offset)) + Total(Lengths(wire))
          + Total(pool.debt) + owed + Total(back) = Quota
    BY DEF FlowInv, QuotaBalance
  <2>6. PICK n \in Nat : n = f.len
    BY <1>3
  <2>7. Total(Lengths(wire)) = Total(Lengths(Tail(wire))) + n
    BY ONLY <2>2, <2>6
  <2>8. n <= pool.available
    BY ONLY <2>1, <2>3, <2>4, <2>5, <2>7
  <2> QED BY ONLY <2>6, <2>8 DEF Fits
<1> QED BY <1>2, <1>3, <1>4, <1>5, <1>6, <1>7

\* A fragment taken moves its bytes to the peer's debts.
LEMMA AcceptMoves ==
  ASSUME FlowInv, wire # <<>>, NEW f, f = Head(wire), wire' = Tail(wire),
         UNCHANGED <<todo, asked, producer, inbox, schedVars, control, sendVars,
                     writer, parked, woken, back, fault>>,
         pool' \in WindowType(Msgs, Quota), Conserved(pool', Quota), owed' \in Nat,
         Total(pool'.debt) \in Nat,
         Total(pool'.debt) + owed' = Total(pool.debt) + owed + f.len,
         holding' \subseteq Msgs, got' \subseteq Msgs, unwanted' \subseteq Msgs,
         NEW x \in {"none", "payload", "trailer"}, entry' = [entry EXCEPT ![f.id] = x],
         Closes(f) <=> x = "none",
         x = "trailer" => f.trailer \/ entry[f.id] = "trailer",
         x = "payload" => ~f.trailer /\ (f.first \/ entry[f.id] = "payload")
  PROVE  FlowInv'
<1> USE DEF schedVars, sendVars
<1>1. /\ wire \in Seq(Fragments) /\ entry \in [Msgs -> {"none", "payload", "trailer"}]
      /\ f.id \in Msgs /\ f \in Fragments
  BY HeadExpected DEF FlowInv, Shape
<1>2. Shape' /\ Conserved(pool, Quota)'
  <2>1. wire' \in Seq(Fragments)
    BY <1>1
  <2>2. entry' \in [Msgs -> {"none", "payload", "trailer"}]
    BY <1>1
  <2>3. Shape'
    BY <2>1, <2>2 DEF FlowInv, Shape
  <2> QED BY <2>3 DEF Conserved
<1>3. QuotaBalance'
  <2> DEFINE a == Mass(Elements(active), LeftOf(offset))
             u == Total(Lengths(wire))
             v == Total(Lengths(wire'))
             d == Total(pool.debt)
             c == Total(pool'.debt)
             e == Total(back)
  <2>1. /\ budget \in Nat /\ a \in Nat /\ u \in Nat /\ d \in Nat
        /\ owed \in Nat /\ e \in Nat
    BY BalanceParts
  <2>2. u = v + f.len
    <3>1. Total(Lengths(wire)) = Total(Lengths(Tail(wire))) + Head(wire).len
      BY <1>1, LengthsTail
    <3> QED BY <3>1
  <2>3. v \in Nat
    <3>1. PICK t \in Seq(Fragments) : t = wire'
      BY <1>1, HeadTailProperties
    <3>2. Total(Lengths(t)) \in Nat
      BY LengthsType
    <3> QED BY <3>1, <3>2, Zenon
  <2>4. /\ Mass(Elements(active), LeftOf(offset))' = a /\ budget' = budget
        /\ Total(Lengths(wire))' = v /\ Total(pool.debt)' = c
        /\ Total(back)' = e
    BY DEF Mass, Elements, LeftOf, Lengths
  <2>5. budget + a + u + d + owed + e = Quota
    BY DEF FlowInv, QuotaBalance
  <2>6. PICK n \in Nat : n = f.len
    BY <1>1, SizeType DEF Fragments
  <2>7. PICK o \in Nat : o = owed'
    OBVIOUS
  <2>8. c + o = d + owed + n /\ u = v + n /\ c \in Nat
    BY <2>2, <2>6, <2>7
  <2> HIDE DEF a, u, v, d, c, e
  <2>9. budget + a + v + c + o + e = Quota
    BY ONLY <2>1, <2>3, <2>5, <2>8
  <2> QED BY <2>4, <2>7, <2>9 DEF QuotaBalance
<1>4. Sound(Scheduled)'
  BY SoundFrame, BalanceParts DEF FlowInv
<1>5. SentOnce'
  BY SentFrame DEF FlowInv
<1>6. Progress'
  BY ProgressFrame DEF FlowInv
<1>7. WireInv'
  <2>1. Engaged' = Engaged
    BY DEF Engaged, Elements
  <2>2. WireInv /\ UNCHANGED <<started, offset, batch>>
    BY DEF FlowInv
  <2> HIDE DEF schedVars, sendVars
  <2> QED BY <1>1, <2>1, <2>2, WireShrinks
<1>8. ReadyMoves'
  BY DEF FlowInv, ReadyMoves, CanMove, Elements
<1> QED BY <1>2, <1>3, <1>4, <1>5, <1>6, <1>7, <1>8 DEF FlowInv

LEMMA AcceptFlow ==
  ASSUME FlowInv, Accept
  PROVE  FlowInv'
<1>0. PICK f : f = Head(wire)
  OBVIOUS
<1>1. /\ wire # <<>> /\ wire' = Tail(wire)
      /\ UNCHANGED <<todo, asked, producer, inbox, schedVars, control, sendVars,
                     writer, parked, woken, back>>
      /\ AcceptAbort(f) \/ AcceptTrailer(f) \/ AcceptPayload(f)
  BY <1>0 DEF Accept
<1>2. /\ f \in Fragments /\ f.id \in Msgs
      /\ f.abort => f.len = 0 /\ entry[f.id] # "none"
      /\ f.first <=> entry[f.id] = "none"
      /\ entry[f.id] = "trailer" => f.len = 0
      /\ f.first /\ ~f.last => PayloadPhase < MaxCalls
      /\ Fits(pool, f.len)
  BY <1>0, <1>1, HeadExpected
<1>3. /\ f.first \in BOOLEAN /\ f.last \in BOOLEAN /\ f.trailer \in BOOLEAN /\ f.abort \in BOOLEAN
      /\ f.len \in 0..Quota
  BY <1>2 DEF Fragments
<1>4. /\ pool \in WindowType(Msgs, Quota) /\ Conserved(pool, Quota) /\ owed \in Nat
      /\ Total(pool.debt) \in Nat
      /\ holding \subseteq Msgs /\ got \subseteq Msgs /\ unwanted \subseteq Msgs
      /\ entry \in [Msgs -> {"none", "payload", "trailer"}]
  BY BalanceParts DEF FlowInv, Shape
<1>5. CASE AcceptAbort(f)
  <2>1. /\ f.abort /\ f.len = 0 /\ entry' = [entry EXCEPT ![f.id] = "none"] /\ Release(f.id)
        /\ UNCHANGED <<holding, got, unwanted, fault>>
    BY <1>2, <1>5 DEF AcceptAbort
  <2>2. /\ pool' \in WindowType(Msgs, Quota) /\ Conserved(pool', Quota)
        /\ owed' \in Nat /\ Total(pool'.debt) \in Nat
        /\ Total(pool'.debt) + owed' = Total(pool.debt) + owed
    BY <1>2, <2>1, ReleaseFlow
  <2>3. Total(pool'.debt) + owed' = Total(pool.debt) + owed + f.len
    BY ONLY <1>4, <2>1, <2>2
  <2>4. /\ holding' \subseteq Msgs /\ got' \subseteq Msgs /\ unwanted' \subseteq Msgs
    BY <1>4, <2>1
  <2>5. Closes(f)
    BY <2>1 DEF Closes
  <2> QED BY <1>0, <1>1, <2>1, <2>2, <2>3, <2>4, <2>5, AcceptMoves
<1>6. CASE AcceptTrailer(f)
  <2>0. PICK x : x = IF f.last THEN "none" ELSE "trailer"
    OBVIOUS
  <2>1. /\ ~f.abort /\ entry[f.id] = "trailer" /\ f.len = 0
        /\ entry' = IF f.last THEN [entry EXCEPT ![f.id] = "none"] ELSE entry
        /\ UNCHANGED <<pool, holding, owed, got, unwanted, fault>>
    BY <1>2, <1>6 DEF AcceptTrailer
  <2>2. /\ x \in {"none", "payload", "trailer"} /\ x # "payload" /\ (x = "none" <=> f.last)
        /\ entry' = [entry EXCEPT ![f.id] = x]
    BY <1>2, <1>4, <2>0, <2>1
  <2>3. Closes(f) <=> x = "none"
    BY <2>1, <2>2 DEF Closes
  <2>4. /\ pool' \in WindowType(Msgs, Quota) /\ Conserved(pool', Quota)
        /\ owed' \in Nat /\ Total(pool'.debt) \in Nat
        /\ Total(pool'.debt) + owed' = Total(pool.debt) + owed + f.len
    BY <1>4, <2>1
  <2>5. /\ holding' \subseteq Msgs /\ got' \subseteq Msgs /\ unwanted' \subseteq Msgs
    BY <1>4, <2>1
  <2> QED BY <1>0, <1>1, <2>1, <2>2, <2>3, <2>4, <2>5, AcceptMoves
<1>7. CASE AcceptPayload(f)
  <2>0. PICK x : x = IF f.last THEN "none" ELSE IF f.trailer THEN "trailer" ELSE "payload"
    OBVIOUS
  <2>1. ~f.abort /\ (f.first \/ entry[f.id] # "trailer") /\ f.first = (entry[f.id] = "none")
    BY <1>2, <1>3, <1>7 DEF AcceptPayload
  <2>2. ~(f.first /\ ~f.last /\ PayloadPhase >= MaxCalls)
    <3>1. PayloadPhase \in Nat
      <4>1. {m \in Msgs : entry[m] = "payload"} \in SUBSET Msgs
        OBVIOUS
      <4> QED BY <4>1, MsgsAssumption, FS_Subset, FS_CardinalityType DEF PayloadPhase
    <3> QED BY <1>2, <3>1, SizeType
  <2>3. /\ pool' = AcceptBytes(pool, f.id, f.len)
        /\ entry' = [entry EXCEPT ![f.id] = x]
        /\ IF f.last \/ f.trailer
             THEN holding' = holding \cup {f.id} /\ got' = got \cup {f.id}
             ELSE UNCHANGED <<holding, got>>
        /\ UNCHANGED <<owed, unwanted, fault>>
    BY <1>2, <1>7, <2>0, <2>1, <2>2 DEF AcceptPayload
  <2>4. /\ x \in {"none", "payload", "trailer"} /\ (x = "none" <=> f.last)
        /\ x = "trailer" => f.trailer
        /\ x = "payload" => ~f.trailer
    BY <2>0
  <2>5. x = "payload" => f.first \/ entry[f.id] = "payload"
    BY <1>2, <1>4, <2>1
  <2>6. Closes(f) <=> x = "none"
    BY <2>1, <2>4 DEF Closes
  <2>7. /\ pool' \in WindowType(Msgs, Quota) /\ Conserved(pool', Quota)
        /\ pool'.debt = [pool.debt EXCEPT ![f.id] = @ + f.len]
    <3>1. f.len \in Int /\ f.len <= pool.available /\ 0 - f.len <= pool.debt[f.id]
      <4>1. pool.debt[f.id] \in 0..Quota
        BY <1>2, <1>4 DEF WindowType
      <4> QED BY <1>2, <1>3, <4>1, SizeType DEF Fits
    <3>2. /\ Charge(pool, f.id, f.len) \in WindowType(Msgs, Quota)
          /\ Conserved(Charge(pool, f.id, f.len), Quota)
          /\ Charge(pool, f.id, f.len).debt = [pool.debt EXCEPT ![f.id] = @ + f.len]
      BY <1>2, <1>4, <3>1, ChargeFacts, MsgsAssumption, SizeType
    <3> QED BY <2>3, <3>2 DEF AcceptBytes
  <2>8. Total(pool'.debt) \in Nat /\ Total(pool'.debt) = Total(pool.debt) + f.len
    <3> DEFINE d == pool.debt
               c == pool'.debt
    <3>1. /\ d \in [Msgs -> 0..Quota] /\ c \in [Msgs -> 0..Quota]
      BY <1>4, <2>7 DEF WindowType
    <3>2. c[f.id] = d[f.id] + f.len /\ \A j \in Msgs : j # f.id => c[j] = d[j]
      BY <1>2, <2>7, <3>1
    <3> HIDE DEF c, d
    <3>3. Total(c) = Total(d) - d[f.id] + c[f.id] /\ Total(c) \in Nat /\ Total(d) \in Nat
      BY <1>2, <3>1, <3>2, TotalUpdate, UnitsFinite, MsgsAssumption, SizeType
    <3>4. d[f.id] \in Nat /\ f.len \in Nat
      BY <1>2, <1>3, <3>1, SizeType
    <3>5. Total(c) = Total(d) + f.len
      BY ONLY <3>2, <3>3, <3>4
    <3> QED BY <3>3, <3>5 DEF c, d
  <2>9. owed' \in Nat /\ Total(pool'.debt) + owed' = Total(pool.debt) + owed + f.len
    <3>1. owed' = owed /\ f.len \in Nat
      BY <1>3, <2>3, SizeType
    <3> QED BY ONLY <1>4, <2>8, <3>1
  <2>10. /\ holding' \subseteq Msgs /\ got' \subseteq Msgs /\ unwanted' \subseteq Msgs
    BY <1>2, <1>4, <2>3
  <2>11. entry' = [entry EXCEPT ![f.id] = x] /\ fault' = fault
    BY <2>3
  <2> QED BY <1>0, <1>1, <2>4, <2>5, <2>6, <2>7, <2>8, <2>9, <2>10, <2>11, AcceptMoves
<1> QED BY <1>1, <1>5, <1>6, <1>7

-----------------------------------------------------------------------------
(***************************************************************************)
(* Every step keeps the invariant.                                         *)
(***************************************************************************)
LEMMA FlowStep ==
  ASSUME FlowInv, [Next]_vars
  PROVE  FlowInv'
<1>1. CASE UNCHANGED vars
  <2> USE <1>1 DEF vars, schedVars, sendVars, peerVars
  <2>1. SentOnce'
    BY SentFrame DEF FlowInv
  <2>2. Shape' /\ Conserved(pool, Quota)'
    BY DEF FlowInv, Shape, Conserved
  <2>3. QuotaBalance'
    BY BalanceFrame DEF FlowInv
  <2>4. Sound(Scheduled)'
    BY SoundFrame, BalanceParts DEF FlowInv
  <2>5. Progress'
    BY ProgressFrame DEF FlowInv
  <2>6. WireInv'
    BY WireFrame DEF FlowInv
  <2>7. ReadyMoves'
    BY DEF FlowInv, ReadyMoves, CanMove, Elements
  <2> QED BY <2>1, <2>2, <2>3, <2>4, <2>5, <2>6, <2>7 DEF FlowInv
<1>2. ASSUME NEW m \in Msgs, Send(m) \/ RequestCancel(m) \/ Finished(m) \/ DropTrailer(m)
      PROVE  FlowInv'
  BY <1>2, SendFlow, RequestCancelFlow, FinishedFlow, DropTrailerFlow
<1>3. ASSUME NEW m \in Msgs, NEW p \in {"finished", "dropped"}, Produce(m, p)
      PROVE  FlowInv'
  BY <1>3, ProduceFlow
<1>4. CASE Driver
  BY <1>4, ReceiveFlow, LoopFlow, SpendFlow, AdvanceFlow DEF Driver
<1>5. CASE Peer
  BY <1>5, AcceptFlow, ReturnCreditFlow, TakeCreditFlow DEF Peer
<1> QED BY <1>1, <1>2, <1>3, <1>4, <1>5 DEF Next

LEMMA FlowAlways == Spec => []FlowInv
<1>1. Init => FlowInv
  BY FlowInit
<1>2. FlowInv /\ [Next]_vars => FlowInv'
  BY FlowStep
<1> QED BY <1>1, <1>2, PTL DEF Spec

-----------------------------------------------------------------------------
(***************************************************************************)
(* The driver's sleep.                                                     *)
(***************************************************************************)
LEMMA WakeFrame ==
  ASSUME WakeInv,
         UNCHANGED <<writer, control, waiting, active, slots, budget, offset, producer, parked, woken>>
  PROVE  WakeInv'
BY DEF WakeInv, CanMove, TryCharge, BytesOf, SlotsOf, Queues, MultiFragment

LEMMA WakeStep ==
  ASSUME FlowInv, WakeInv, [Next]_vars
  PROVE  WakeInv'
<1> USE DEF schedVars, sendVars, peerVars
<1>1. CASE UNCHANGED vars
  BY <1>1, WakeFrame DEF vars
<1>2. ASSUME NEW m \in Msgs, Send(m) \/ RequestCancel(m) \/ Finished(m) \/ DropTrailer(m)
      PROVE  WakeInv'
  BY <1>2, WakeFrame DEF Send, RequestCancel, Finished, DropTrailer
<1>3. ASSUME NEW m \in Msgs, NEW p \in {"finished", "dropped"}, Produce(m, p)
      PROVE  WakeInv'
  <2>1. woken' /\ UNCHANGED <<writer, control, waiting, parked>>
    BY <1>3 DEF Produce
  <2> QED BY <2>1 DEF WakeInv
<1>4. CASE Receive \/ Wake \/ Advance
  <2>1. writer' = "select"
    BY <1>4 DEF Receive, Wake, Advance
  <2> QED BY <2>1 DEF WakeInv
<1>5. CASE PollReady
  <2>1. CASE control # <<>>
    <3>1. writer' = "ready"
      BY <1>5, <2>1 DEF PollReady
    <3> QED BY <3>1 DEF WakeInv
  <2>2. CASE control = <<>>
    <3>1. /\ writer' = "registered" /\ parked' = (parked \/ waiting # <<>>)
          /\ control' = <<>> /\ waiting' = waiting
      BY <1>5, <2>2 DEF PollReady
    <3>2. waiting' # <<>> => parked'
      BY <3>1
    <3> QED BY <3>1, <3>2 DEF WakeInv
  <2> QED BY <2>1, <2>2
<1>6. CASE Spend
  <2>1. /\ waiting' # <<>> =>
             /\ waiting # <<>>
             /\ ~TryCharge(Queues(waiting', active', slots', budget'), <<Head(waiting')>>)
    BY <1>6, SpendFlow
  <2>2. /\ writer = "registered"
        /\ writer' = IF \E m \in Elements(active') : CanMove(m) THEN "ready" ELSE "asleep"
        /\ UNCHANGED <<control, offset, producer, parked, woken>>
    BY <1>6 DEF Spend
  <2>3. control = <<>> /\ (waiting # <<>> => parked \/ woken)
    BY <2>2 DEF WakeInv
  <2>4. CASE \E m \in Elements(active') : CanMove(m)
    BY <2>2, <2>4 DEF WakeInv
  <2>5. CASE ~ \E m \in Elements(active') : CanMove(m)
    <3>1. writer' = "asleep" /\ control' = <<>>
      BY <2>2, <2>3, <2>5
    <3>2. \A i \in DOMAIN active' : ~CanMove(active[i])'
      BY <2>2, <2>5 DEF Elements, CanMove
    <3>3. ~woken' => (waiting' # <<>> =>
            /\ parked'
            /\ ~TryCharge(Queues(waiting', active', slots', budget'), <<Head(waiting')>>))
      BY <2>1, <2>2, <2>3
    <3>4. TryCharge(Queues(waiting, active, slots, budget), <<Head(waiting)>>)'
            <=> TryCharge(Queues(waiting', active', slots', budget'), <<Head(waiting')>>)
      BY DEF TryCharge, BytesOf, SlotsOf, Queues, MultiFragment
    <3> QED BY <3>1, <3>2, <3>3, <3>4 DEF WakeInv
  <2> QED BY <2>4, <2>5
<1>7. CASE Idle
  <2>1. /\ writer' = "asleep" /\ control' = <<>> /\ waiting' = <<>> /\ active' = <<>>
    BY <1>7 DEF Idle, HasPending, HasWork
  <2> QED BY <2>1 DEF WakeInv
<1>8. CASE Accept
  BY <1>8, WakeFrame DEF Accept
<1>9. CASE ReturnCredit
  BY <1>9, WakeFrame DEF ReturnCredit
<1>10. CASE TakeCredit
  <2>1. /\ UNCHANGED <<writer, control, waiting, active, offset, producer>>
        /\ woken' = (woken \/ (Head(back) > 0 /\ parked)) /\ back # <<>>
    BY <1>10 DEF TakeCredit, WakeOnCredit
  <2>2. Head(back) > 0
    <3>1. back \in Seq(1..Quota)
      BY DEF FlowInv, Shape
    <3>2. Head(back) \in 1..Quota
      BY <2>1, <3>1, HeadTailProperties
    <3> QED BY <3>2, SizeType
  <2>3. woken' <=> (woken \/ parked)
    BY <2>1, <2>2
  <2>4. (writer' = "asleep" /\ ~woken') =>
          /\ \A i \in DOMAIN active' : ~CanMove(active[i])'
          /\ control' = <<>> /\ waiting' = <<>>
    BY <2>1, <2>3 DEF WakeInv, CanMove
  <2>5. writer' = "registered" => control' = <<>> /\ (waiting' # <<>> => woken')
    BY <2>1, <2>3 DEF WakeInv
  <2> QED BY <2>4, <2>5 DEF WakeInv
<1> QED BY <1>1, <1>2, <1>3, <1>4, <1>5, <1>6, <1>7, <1>8, <1>9, <1>10 DEF Next, Driver, Peer

-----------------------------------------------------------------------------
(***************************************************************************)
(* What holds of every behaviour.                                          *)
(***************************************************************************)

(* Every variable keeps its type in every behaviour: PayloadBudget never goes
   below zero or above the negotiated quota, and Scheduler::active_fragmented
   never leaves 0..max_concurrent_calls, through try_charge, promote_waiting,
   try_cancel_active and the credit that returns. *)
THEOREM QuotaTypes == Spec => []TypeOK
<1>1. FlowInv => TypeOK
  BY FlowMeans
<1> QED BY <1>1, FlowAlways, PTL

(* PayloadBudget and Reassembler::payload_credit together lose no byte of the
   quota and make none twice: it is in the budget, in the unsent rest of an
   active send, on the wire, in the peer's debts or on its way back, whatever
   is cancelled, aborted or released early. *)
THEOREM QuotaIsConserved == Spec => []QuotaConserved
<1>1. FlowInv => QuotaConserved
  BY FlowMeans
<1> QED BY <1>1, FlowAlways, PTL

(* Reassembler::accept never answers a sender driven by Scheduler with a
   protocol error: what it sends fits the quota, it begins no fragmented
   message beyond max_concurrent_calls, and no fragment or ABORT is for a
   message the peer does not know. *)
THEOREM PeerNeverRefuses == Spec => []PeersConform
<1>1. FlowInv => PeersConform
  BY FlowMeans
<1> QED BY <1>1, FlowAlways, PTL

(* Scheduler::ready registers on the pool before it spends from it, so the send
   driver never sleeps, with no wake-up due, on a send that could move, on a
   queued ABORT or on a message that the quota and the slots would admit. *)
THEOREM NoWakeupIsLost == Spec => []NoLostWakeup
<1>1. Init => FlowInv /\ WakeInv
  BY FlowInit DEF Init, WakeInv
<1>2. FlowInv /\ WakeInv /\ [Next]_vars => FlowInv' /\ WakeInv'
  BY FlowStep, WakeStep
<1>3. FlowInv /\ WakeInv => NoLostWakeup
  BY DEF WakeInv, NoLostWakeup
<1> QED BY <1>1, <1>2, <1>3, PTL DEF Spec
=============================================================================
