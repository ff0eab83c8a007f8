------------------------- MODULE TrailerFlowProofs -------------------------
(***************************************************************************)
(* The credit of a direction's trailers, for any number of trailers and    *)
(* any sizes: both pools keep exact accounts; as long as no producer       *)
(* aborts, the receiver never has to refuse a fragment; the writer never   *)
(* waits for credit with the transport in hand; and a trailer that is over *)
(* has given all of its credit back.                                       *)
(***************************************************************************)
EXTENDS TrailerFlow, FiniteSetTheorems, TLAPS

-----------------------------------------------------------------------------
(***************************************************************************)
(* Totals as sizes of sets: how they change when one entry of a function   *)
(* changes.                                                                *)
(***************************************************************************)

\* The unit bytes of a bounded function.
LEMMA UnitsMember ==
  ASSUME NEW S, NEW B \in Nat, NEW f \in [S -> 0..B]
  PROVE  \A u : u \in Units(f) <=> u \in S \X (1..B) /\ u[2] <= f[u[1]]
<1>1. ASSUME NEW u \in Units(f) PROVE u \in S \X (1..B) /\ u[2] <= f[u[1]]
  <2>1. PICK m \in S : u \in {m} \X (1..f[m])
    BY <1>1 DEF Units
  <2>2. f[m] \in 0..B
    OBVIOUS
  <2>3. u[1] = m /\ u[2] \in 1..f[m] /\ u = <<u[1], u[2]>>
    BY <2>1
  <2>4. u[2] \in 1..B
    BY <2>2, <2>3
  <2> QED BY <2>3, <2>4
<1>2. ASSUME NEW u \in S \X (1..B), u[2] <= f[u[1]] PROVE u \in Units(f)
  <2>1. u[1] \in S /\ u[2] \in 1..f[u[1]] /\ u = <<u[1], u[2]>>
    <3>1. u[1] \in S /\ u[2] \in 1..B /\ u[2] <= f[u[1]] /\ u = <<u[1], u[2]>>
      BY <1>2
    <3>2. f[u[1]] \in 0..B
      BY <3>1
    <3> QED BY <3>1, <3>2
  <2>2. u \in {u[1]} \X (1..f[u[1]])
    BY <2>1
  <2> QED BY <2>1, <2>2 DEF Units
<1> QED BY <1>1, <1>2

\* The total of a bounded function on a finite set is a natural number.
LEMMA UnitsFinite ==
  ASSUME NEW S, IsFiniteSet(S), NEW B \in Nat, NEW f \in [S -> 0..B]
  PROVE  IsFiniteSet(Units(f)) /\ Total(f) \in Nat
<1>0. IsFiniteSet(1..B)
  BY FS_Interval
<1>1. IsFiniteSet(S \X (1..B))
  BY <1>0, FS_Product
<1>2. Units(f) \in SUBSET (S \X (1..B))
  BY UnitsMember
<1>3. IsFiniteSet(Units(f))
  BY <1>1, <1>2, FS_Subset
<1> QED BY <1>3, FS_CardinalityType DEF Total

\* A function that is nowhere larger has no larger total.
LEMMA TotalMonotone ==
  ASSUME NEW S, IsFiniteSet(S), NEW B \in Nat, NEW f \in [S -> 0..B],
         NEW g \in [S -> 0..B], \A m \in S : f[m] <= g[m]
  PROVE  Total(f) <= Total(g)
<1>1. IsFiniteSet(Units(g))
  BY UnitsFinite
<1>2. ASSUME NEW u \in Units(f) PROVE u \in Units(g)
  <2>0. /\ \A x : x \in Units(f) <=> x \in S \X (1..B) /\ x[2] <= f[x[1]]
        /\ \A x : x \in Units(g) <=> x \in S \X (1..B) /\ x[2] <= g[x[1]]
    BY UnitsMember
  <2>1. u \in S \X (1..B) /\ u[2] <= f[u[1]]
    BY <1>2, <2>0
  <2>2. u[1] \in S /\ u[2] \in 1..B
    BY <2>1
  <2>3. f[u[1]] \in 0..B /\ g[u[1]] \in 0..B /\ f[u[1]] <= g[u[1]]
    BY <2>2
  <2>4. u[2] <= g[u[1]]
    BY <2>1, <2>2, <2>3
  <2> QED BY <2>0, <2>1, <2>4
<1>3. Units(f) \in SUBSET Units(g)
  BY <1>2
<1> QED BY <1>1, <1>3, FS_Subset DEF Total

\* The unit bytes of one message of a function.
LEMMA ColumnCardinality ==
  ASSUME NEW m, NEW v \in Nat
  PROVE  IsFiniteSet({m} \X (1..v)) /\ Cardinality({m} \X (1..v)) = v
<1>1. IsFiniteSet(1..v) /\ Cardinality(1..v) = v
  BY FS_Interval
<1>2. IsFiniteSet({m}) /\ Cardinality({m}) = 1
  BY FS_Singleton
<1> QED BY <1>1, <1>2, FS_Product

\* Changing one value changes the total by as much.
LEMMA TotalUpdate ==
  ASSUME NEW S, IsFiniteSet(S), NEW B \in Nat, NEW f \in [S -> 0..B],
         NEW g \in [S -> 0..B], NEW m \in S, \A j \in S : j # m => g[j] = f[j]
  PROVE  Total(g) = Total(f) - f[m] + g[m]
<1> DEFINE v == g[m]
<1> DEFINE Rest == {u \in Units(f) : u[1] # m}
<1>1. f[m] \in 0..B /\ v \in 0..B
  OBVIOUS
<1>0. /\ \A u : u \in Units(f) <=> u \in S \X (1..B) /\ u[2] <= f[u[1]]
      /\ \A u : u \in Units(g) <=> u \in S \X (1..B) /\ u[2] <= g[u[1]]
  BY UnitsMember
<1>2. IsFiniteSet(Rest)
  <2>1. IsFiniteSet(Units(f))
    BY UnitsFinite
  <2>2. Rest \in SUBSET Units(f)
    OBVIOUS
  <2> QED BY <2>1, <2>2, FS_Subset
<1>3. Units(f) = Rest \cup ({m} \X (1..f[m]))
  <2>1. ASSUME NEW u \in Units(f), u[1] = m PROVE u \in {m} \X (1..f[m])
    <3>1. u \in S \X (1..B) /\ u[2] <= f[u[1]]
      BY <1>0, <2>1
    <3> QED BY <1>1, <2>1, <3>1
  <2>2. ASSUME NEW u \in {m} \X (1..f[m]) PROVE u \in Units(f)
    BY <2>2, <1>1 DEF Units
  <2> QED BY <2>1, <2>2
<1>4. Units(g) = Rest \cup ({m} \X (1..v))
  <2>1. ASSUME NEW u \in Units(g) PROVE u \in Rest \cup ({m} \X (1..v))
    <3>1. u \in S \X (1..B) /\ u[2] <= g[u[1]]
      BY <1>0, <2>1
    <3>2. CASE u[1] = m
      <4>1. g[u[1]] = v
        BY <3>2
      <4> QED BY <3>1, <3>2, <4>1
    <3>3. CASE u[1] # m
      <4>1. u[1] \in S
        BY <3>1
      <4>2. g[u[1]] = f[u[1]]
        BY <3>3, <4>1
      <4>3. u \in Units(f)
        BY <1>0, <3>1, <4>2
      <4> QED BY <3>3, <4>3
    <3> QED BY <3>2, <3>3
  <2>2. ASSUME NEW u \in Rest PROVE u \in Units(g)
    <3>1. u \in S \X (1..B) /\ u[2] <= f[u[1]] /\ u[1] # m
      BY <1>0, <2>2
    <3>2. g[u[1]] = f[u[1]]
      BY <3>1
    <3> QED BY <1>0, <3>1, <3>2
  <2>3. ASSUME NEW u \in {m} \X (1..v) PROVE u \in Units(g)
    <3>1. m \in DOMAIN g /\ g[m] = v
      OBVIOUS
    <3> QED BY <2>3, <3>1 DEF Units
  <2> QED BY <2>1, <2>2, <2>3
<1>5. ASSUME NEW n \in Nat
      PROVE  Cardinality(Rest \cup ({m} \X (1..n))) = Cardinality(Rest) + n
  <2>1. Rest \cap ({m} \X (1..n)) = {}
    OBVIOUS
  <2>2. IsFiniteSet({m} \X (1..n)) /\ Cardinality({m} \X (1..n)) = n
    BY ColumnCardinality
  <2>3. Cardinality(Rest) \in Nat
    BY <1>2, FS_CardinalityType
  <2>4. Cardinality(Rest \cup ({m} \X (1..n)))
          = Cardinality(Rest) + Cardinality({m} \X (1..n)) - Cardinality({})
    BY <1>2, <2>1, <2>2, FS_Union
  <2> QED BY <2>2, <2>3, <2>4, FS_EmptySet
<1>6. Total(f) = Cardinality(Rest) + f[m]
  BY <1>1, <1>3, <1>5 DEF Total
<1>7. Total(g) = Cardinality(Rest) + v
  <2>1. v \in Nat
    BY <1>1
  <2> HIDE DEF v, Rest
  <2> QED BY <1>4, <1>5, <2>1 DEF Total
<1>8. Cardinality(Rest) \in Nat
  BY <1>2, FS_CardinalityType
<1> QED BY <1>1, <1>6, <1>7, <1>8

\* No message owes more than all of them together.
LEMMA TotalBound ==
  ASSUME NEW S, IsFiniteSet(S), NEW B \in Nat, NEW f \in [S -> 0..B], NEW m \in S
  PROVE  f[m] <= Total(f)
<1> DEFINE g == [f EXCEPT ![m] = 0]
<1>1. g \in [S -> 0..B] /\ g[m] = 0 /\ \A j \in S : j # m => g[j] = f[j]
  OBVIOUS
<1> HIDE DEF g
<1>2. Total(g) = Total(f) - f[m] + g[m]
  BY <1>1, TotalUpdate
<1>3. Total(g) \in Nat /\ Total(f) \in Nat
  BY <1>1, UnitsFinite
<1> QED BY <1>1, <1>2, <1>3

-----------------------------------------------------------------------------
(***************************************************************************)
(* What the operations of a SessionWindow do to a conserved pool.          *)
(***************************************************************************)

\* Moving bytes that are there, either way, keeps the pool well typed and
\* conserved and touches one message only.
LEMMA ChargeFacts ==
  ASSUME NEW S, IsFiniteSet(S), NEW size \in Nat, NEW w \in WindowType(S, size),
         Conserved(w, size), NEW m \in S, NEW n \in Int,
         n <= w.available, 0 - n <= w.debt[m]
  PROVE  /\ Charge(w, m, n) \in WindowType(S, size)
         /\ Conserved(Charge(w, m, n), size)
         /\ Charge(w, m, n).available = w.available - n
         /\ Charge(w, m, n).debt = [w.debt EXCEPT ![m] = @ + n]
<1> DEFINE d == [w.debt EXCEPT ![m] = @ + n]
<1>1. w.available \in 0..size /\ w.debt \in [S -> 0..size]
  BY DEF WindowType
<1>2. Charge(w, m, n).available = w.available - n /\ Charge(w, m, n).debt = d
  BY DEF Charge
<1>3. w.debt[m] \in 0..size
  BY <1>1
<1>4. w.debt[m] + n \in 0..(size + size)
  BY <1>1, <1>3
<1>5. w.debt \in [S -> 0..(size + size)] /\ d \in [S -> 0..(size + size)]
  <2>1. \A x \in 0..size : x \in 0..(size + size)
    OBVIOUS
  <2> QED BY <1>1, <1>4, <2>1
<1>6. size + size \in Nat
  OBVIOUS
<1>7. Total(d) = Total(w.debt) - w.debt[m] + (w.debt[m] + n)
  <2>1. d[m] = w.debt[m] + n /\ \A j \in S : j # m => d[j] = w.debt[j]
    BY <1>1
  <2> HIDE DEF d
  <2>2. Total(d) = Total(w.debt) - w.debt[m] + d[m]
    BY <1>5, <1>6, <2>1, TotalUpdate
  <2> QED BY <2>1, <2>2
<1>8. Total(d) \in Nat /\ Total(w.debt) \in Nat
  BY <1>5, <1>6, UnitsFinite
<1>9. w.available - n + Total(d) = size
  BY <1>1, <1>3, <1>7, <1>8 DEF Conserved
<1>10. w.available - n \in 0..size
  BY <1>1, <1>8, <1>9
<1>11. ASSUME NEW j \in S PROVE d[j] \in 0..size
  <2>1. d[j] \in 0..(size + size) /\ d[j] <= Total(d)
    BY <1>5, <1>6, TotalBound
  <2> QED BY <1>8, <1>9, <1>10, <2>1
<1>12. d \in [S -> 0..size]
  BY <1>5, <1>11
<1>13. Charge(w, m, n) = [available |-> w.available - n, debt |-> d]
  BY DEF Charge
<1>14. Charge(w, m, n) \in WindowType(S, size)
  BY <1>10, <1>12, <1>13 DEF WindowType
<1>15. Conserved(Charge(w, m, n), size)
  BY <1>2, <1>9 DEF Conserved
<1> QED BY <1>2, <1>14, <1>15

\* A new pool.
LEMMA NewWindowFacts ==
  ASSUME NEW S, IsFiniteSet(S), NEW size \in Nat
  PROVE  /\ NewWindow(S, size) \in WindowType(S, size)
         /\ Conserved(NewWindow(S, size), size)
         /\ \A j \in S : NewWindow(S, size).debt[j] = 0
<1> DEFINE z == [j \in S |-> 0]
<1>1. z \in [S -> 0..size]
  OBVIOUS
<1>2. \A u : u \in Units(z) <=> u \in S \X (1..size) /\ u[2] <= z[u[1]]
  BY <1>1, UnitsMember
<1>3. \A u \in S \X (1..size) : z[u[1]] = 0 /\ u[2] \in 1..size
  OBVIOUS
<1>4. Units(z) = {}
  BY <1>2, <1>3
<1>5. Total(z) = 0
  BY <1>4, FS_EmptySet DEF Total
<1> QED BY <1>1, <1>5 DEF NewWindow, WindowType, Conserved

\* A debit takes what it is granted.
LEMMA DebitFacts ==
  ASSUME NEW S, IsFiniteSet(S), NEW size \in Nat, NEW w \in WindowType(S, size),
         Conserved(w, size), NEW m \in S, NEW n \in Nat
  PROVE  /\ DebitUpTo(w, m, n) \in WindowType(S, size)
         /\ Conserved(DebitUpTo(w, m, n), size)
         /\ Granted(w, n) \in Nat /\ Granted(w, n) <= n
         /\ DebitUpTo(w, m, n).debt = [w.debt EXCEPT ![m] = @ + Granted(w, n)]
<1>1. w.available \in 0..size /\ w.debt \in [S -> 0..size] /\ w.debt[m] \in 0..size
  BY DEF WindowType
<1>2. Granted(w, n) \in Nat /\ Granted(w, n) <= n /\ Granted(w, n) <= w.available
  BY <1>1 DEF Granted, Lesser
<1>3. Granted(w, n) \in Int /\ 0 - Granted(w, n) <= w.debt[m]
  BY <1>1, <1>2
<1> QED BY <1>2, <1>3, ChargeFacts DEF DebitUpTo

\* A refund returns at most what is owed, and all of what it names if that
\* much is owed.
LEMMA RefundFacts ==
  ASSUME NEW S, IsFiniteSet(S), NEW size \in Nat, NEW w \in WindowType(S, size),
         Conserved(w, size), NEW m \in S, NEW n \in Nat
  PROVE  /\ Refund(w, m, n) \in WindowType(S, size)
         /\ Conserved(Refund(w, m, n), size)
         /\ Refund(w, m, n).debt[m] = w.debt[m] - Lesser(n, w.debt[m])
         /\ \A j \in S : j # m => Refund(w, m, n).debt[j] = w.debt[j]
<1> DEFINE k == Lesser(n, w.debt[m])
<1>1. w.available \in 0..size /\ w.debt \in [S -> 0..size] /\ w.debt[m] \in 0..size
  BY DEF WindowType
<1>2. k \in Nat /\ k <= w.debt[m]
  BY <1>1 DEF Lesser
<1>3. 0 - k \in Int /\ 0 - k <= w.available /\ 0 - (0 - k) <= w.debt[m]
  BY <1>1, <1>2
<1>4. Refund(w, m, n) = Charge(w, m, 0 - k)
  BY DEF Refund
<1> HIDE DEF k
<1>5. /\ Refund(w, m, n) \in WindowType(S, size)
      /\ Conserved(Refund(w, m, n), size)
      /\ Refund(w, m, n).debt = [w.debt EXCEPT ![m] = @ + (0 - k)]
  BY <1>3, <1>4, ChargeFacts
<1>6. Refund(w, m, n).debt[m] = w.debt[m] - k
  BY <1>1, <1>2, <1>5
<1>7. \A j \in S : j # m => Refund(w, m, n).debt[j] = w.debt[j]
  BY <1>1, <1>5
<1> QED BY <1>5, <1>6, <1>7 DEF k

\* A settlement returns everything.
LEMMA SettleFacts ==
  ASSUME NEW S, IsFiniteSet(S), NEW size \in Nat, NEW w \in WindowType(S, size),
         Conserved(w, size), NEW m \in S
  PROVE  /\ Settle(w, m) \in WindowType(S, size)
         /\ Conserved(Settle(w, m), size)
         /\ Settle(w, m).debt[m] = 0
         /\ \A j \in S : j # m => Settle(w, m).debt[j] = w.debt[j]
<1>1. w.available \in 0..size /\ w.debt \in [S -> 0..size] /\ w.debt[m] \in 0..size
  BY DEF WindowType
<1> DEFINE k == w.debt[m]
<1>2. k \in Nat /\ 0 - k \in Int /\ 0 - k <= w.available /\ 0 - (0 - k) <= w.debt[m]
  BY <1>1
<1>3. Settle(w, m) = Charge(w, m, 0 - k)
  BY DEF Settle
<1>4. k = w.debt[m]
  OBVIOUS
<1> HIDE DEF k
<1>5. /\ Settle(w, m) \in WindowType(S, size)
      /\ Conserved(Settle(w, m), size)
      /\ Settle(w, m).debt = [w.debt EXCEPT ![m] = @ + (0 - k)]
  BY <1>2, <1>3, ChargeFacts
<1> QED BY <1>1, <1>2, <1>4, <1>5

\* What the sender has been debited covers everything of a trailer that is
\* reserved, staged, on its way, held by the receiver or on its way back.
DebitCovers ==
  \A i \in Ids : reader[i] =>
    rpool.debt[i] + credits[i] + wire[i] + buffer[i] + reserved[i] <= spool.debt[i]

\* A trailer whose handle is gone owes the receiver nothing and never will:
\* it is being discarded, or it has ended.
DroppedOwesNothing ==
  \A i \in Ids : ~reader[i] =>
    rpool.debt[i] = 0 /\ rstate[i] \in {"Discard", "Eof", "Failed"}

\* The lease and the fragment it was given for.
FragmentHasLease ==
  \A i \in Ids : /\ rlease # i => remaining[i] = 0
                 /\ rstate[i] \in {"Fragment", "FragmentDemand"} => remaining[i] = 0
                 /\ lease = i => place[i] = "trailer"

\* Nothing arrives before a trailer has opened or after it has ended.
OpensThenEnds ==
  \A i \in Ids : /\ place[i] \in {"waiting", "active"} => rstate[i] = "None"
                 /\ rstate[i] = "None" => reader[i] /\ wire[i] = 0 /\ place[i] # "trailer"
                 /\ place[i] # "done" => wend[i] = "none"
                 /\ rstate[i] \in {"Eof", "Failed"} => wend[i] = "done" /\ wire[i] = 0

\* Only a trailer whose handle is gone is discarded.
DiscardMeansDropped ==
  \A i \in Ids : (discards[i] \/ rstate[i] = "Discard") => ~reader[i]

TypeInv == TypeOK /\ PoolsConserved

\* What the receiver holds, whatever the applications do.
RecvInv ==
  /\ ReceiverOwesWhatItHolds /\ DroppedOwesNothing
  /\ FragmentHasLease /\ OpensThenEnds /\ DiscardMeansDropped

-----------------------------------------------------------------------------
\* A pool that is well formed and accounts for all its bytes.
PoolOK(w) == w \in WindowType(Ids, Window) /\ Conserved(w, Window)

\* Every operation of window.rs leaves such a pool behind.
LEMMA PoolSteps ==
  ASSUME NEW w, PoolOK(w), NEW i \in Ids
  PROVE  /\ \A n \in Nat : PoolOK(DebitUpTo(w, i, n))
         /\ \A n \in Nat : PoolOK(Refund(w, i, n))
         /\ PoolOK(Settle(w, i))
         /\ \A n \in Nat : Fits(w, n) => PoolOK(AcceptBytes(w, i, n))
<1>0. IsFiniteSet(Ids) /\ Window \in Nat
  BY IdsAssumption, SizesAssumption
<1>1. ASSUME NEW n \in Nat PROVE PoolOK(DebitUpTo(w, i, n))
  BY <1>0, DebitFacts DEF PoolOK
<1>2. ASSUME NEW n \in Nat PROVE PoolOK(Refund(w, i, n))
  BY <1>0, RefundFacts DEF PoolOK
<1>3. PoolOK(Settle(w, i))
  BY <1>0, SettleFacts DEF PoolOK
<1>4. ASSUME NEW n \in Nat, Fits(w, n) PROVE PoolOK(AcceptBytes(w, i, n))
  <2>1. w.debt[i] \in 0..Window
    BY <1>0 DEF PoolOK, WindowType
  <2>2. n \in Int /\ n <= w.available /\ 0 - n <= w.debt[i]
    BY <1>0, <1>4, <2>1 DEF Fits
  <2> QED BY <1>0, <2>2, ChargeFacts DEF PoolOK, AcceptBytes
<1> QED BY <1>1, <1>2, <1>3, <1>4

\* The type invariant holds at the start.
LEMMA TypeInit == Init => TypeInv
<1>1. PoolOK(NewWindow(Ids, Window))
  BY IdsAssumption, SizesAssumption, NewWindowFacts DEF PoolOK
<1> SUFFICES ASSUME Init PROVE TypeInv
  OBVIOUS
<1>2. Zero \in [Ids -> Nat] /\ [i \in Ids |-> TrailerLen] \in [Ids -> Nat]
  BY SizesAssumption DEF Zero
<1>3. /\ place \in [Ids -> Places] /\ sstate \in [Ids -> SendStates]
      /\ rstate \in [Ids -> RecvStates]
  BY DEF Init, Places, SendStates, RecvStates
<1>4. discards \in [Ids -> BOOLEAN] /\ reader \in [Ids -> BOOLEAN]
  BY Zenon DEF Init
<1> QED BY <1>1, <1>2, <1>3, <1>4 DEF Init, TypeInv, TypeOK, PoolsConserved, PoolOK

\* ... and every step preserves it, with the accounts of both pools.
LEMMA TypeStep == TypeInv /\ [Next]_vars => TypeInv'
<1> SUFFICES ASSUME TypeInv, [Next]_vars PROVE TypeInv'
  OBVIOUS
<1> USE SizesAssumption
<1>0. PoolOK(spool) /\ PoolOK(rpool)
  BY DEF TypeInv, TypeOK, PoolsConserved, PoolOK
<1>1. ASSUME NEW i \in Ids, PollWriteIdle(i) PROVE TypeInv'
  <2>1. PICK want \in 1..Lesser(toWrite[i], MaxFragment) :
               /\ Granted(spool, want) > 0
               /\ spool' = DebitUpTo(spool, i, want)
               /\ \/ /\ buffer' = [buffer EXCEPT ![i] = Granted(spool, want)]
                     /\ toWrite' = [toWrite EXCEPT ![i] = @ - Granted(spool, want)]
                     /\ sstate' = [sstate EXCEPT ![i] = "Fragment"]
                     /\ UNCHANGED reserved
                  \/ /\ reserved' = [reserved EXCEPT ![i] = Granted(spool, want)]
                     /\ sstate' = [sstate EXCEPT ![i] = "Demand"]
                     /\ UNCHANGED <<buffer, toWrite>>
    BY <1>1 DEF PollWriteIdle
  <2>2. want \in Nat /\ want <= toWrite[i] /\ toWrite[i] \in Nat
    BY <2>1 DEF TypeInv, TypeOK, Lesser
  <2>3. Granted(spool, want) \in Nat /\ Granted(spool, want) <= want
    BY <2>2 DEF TypeInv, TypeOK, WindowType, Granted, Lesser
  <2>4. PoolOK(spool') /\ PoolOK(rpool')
    BY <1>1, <2>1, <2>2, PoolSteps
    DEF TypeInv, TypeOK, PoolsConserved, PoolOK, PollWriteIdle, rvars
  <2>5. /\ buffer' \in [Ids -> Nat] /\ toWrite' \in [Ids -> Nat]
        /\ reserved' \in [Ids -> Nat] /\ sstate' \in [Ids -> SendStates]
    BY <2>1, <2>2, <2>3 DEF TypeInv, TypeOK, SendStates
  <2> QED BY <1>1, <2>4, <2>5
    DEF TypeInv, TypeOK, PoolsConserved, PoolOK, PollWriteIdle, wvars, rvars
<1>2. ASSUME NEW i \in Ids, PollWriteBehind(i) PROVE TypeInv'
  BY <1>2 DEF TypeInv, TypeOK, PoolsConserved, PoolOK, PollWriteBehind, svars, wvars, rvars,
     Places, SendStates, RecvStates
<1>3. ASSUME NEW i \in Ids, PollWriteLeased(i) PROVE TypeInv'
  <2>1. PICK len \in 1..Lesser(reserved[i], Lesser(toWrite[i], MaxFragment)) :
               /\ spool' = Refund(spool, i, reserved[i] - len)
               /\ buffer' = [buffer EXCEPT ![i] = len]
               /\ toWrite' = [toWrite EXCEPT ![i] = @ - len]
    BY <1>3 DEF PollWriteLeased, Unreserve
  <2>2. len \in Nat /\ len <= toWrite[i] /\ reserved[i] - len \in Nat
    BY <2>1 DEF TypeInv, TypeOK, Lesser
  <2>3. PoolOK(spool') /\ PoolOK(rpool')
    BY <1>3, <2>1, <2>2, PoolSteps
    DEF TypeInv, TypeOK, PoolsConserved, PoolOK, PollWriteLeased, rvars
  <2> QED BY <1>3, <2>1, <2>2, <2>3
    DEF TypeInv, TypeOK, PoolsConserved, PoolOK, PollWriteLeased, wvars, rvars, SendStates
<1>4. ASSUME NEW i \in Ids, PollWriteBlocked(i) PROVE TypeInv'
  <2>1. PICK len \in 1..Lesser(reserved[i], Lesser(toWrite[i], MaxFragment)) :
               /\ spool' = Refund(spool, i, reserved[i] - len)
               /\ reserved' = [reserved EXCEPT ![i] = len]
    BY <1>4 DEF PollWriteBlocked, Unreserve
  <2>2. len \in Nat /\ len <= toWrite[i] /\ reserved[i] - len \in Nat
    BY <2>1 DEF TypeInv, TypeOK, Lesser
  <2>3. PoolOK(spool') /\ PoolOK(rpool')
    BY <1>4, <2>1, <2>2, PoolSteps
    DEF TypeInv, TypeOK, PoolsConserved, PoolOK, PollWriteBlocked, rvars
  <2> QED BY <1>4, <2>1, <2>2, <2>3
    DEF TypeInv, TypeOK, PoolsConserved, PoolOK, PollWriteBlocked, wvars, rvars, SendStates
<1>5. ASSUME NEW i \in Ids, Finish(i) PROVE TypeInv'
  BY <1>5 DEF TypeInv, TypeOK, PoolsConserved, PoolOK, Finish, Finished, svars, wvars,
      rvars,
     Places, SendStates, RecvStates
<1>6. ASSUME NEW i \in Ids, DropSend(i) PROVE TypeInv'
  <2>1. PoolOK(spool') /\ PoolOK(rpool')
    BY <1>6, PoolSteps DEF TypeInv, TypeOK, PoolsConserved, PoolOK, DropSend, SetAborted,
        svars, wvars, rvars
  <2> QED BY <1>6, <2>1 DEF TypeInv, TypeOK, PoolsConserved, PoolOK, DropSend,
      SetAborted, svars, wvars, rvars,
     Places, SendStates, RecvStates
<1>7. ASSUME NEW i \in Ids, Start(i) PROVE TypeInv'
  BY <1>7 DEF TypeInv, TypeOK, PoolsConserved, PoolOK, Start, svars, wvars, rvars,
     Places, SendStates, RecvStates
<1>8. ASSUME NEW i \in Ids, OpenTrailer(i) PROVE TypeInv'
  BY <1>8 DEF TypeInv, TypeOK, PoolsConserved, PoolOK, OpenTrailer, svars, wvars, rvars,
     Places, SendStates, RecvStates
<1>9. ASSUME NEW i \in Ids, GrantSend(i) PROVE TypeInv'
  BY <1>9 DEF TypeInv, TypeOK, PoolsConserved, PoolOK, GrantSend, svars, wvars, rvars,
     Places, SendStates, RecvStates
<1>10. ASSUME NEW i \in Ids, GraceExpired(i) PROVE TypeInv'
  BY <1>10 DEF TypeInv, TypeOK, PoolsConserved, PoolOK, GraceExpired, svars, wvars, rvars,
     Places, SendStates, RecvStates
<1>11. ASSUME NEW i \in Ids, SendFragment(i) PROVE TypeInv'
  BY <1>11 DEF TypeInv, TypeOK, PoolsConserved, PoolOK, SendFragment, Conclude,
      Completed, svars, wvars, rvars,
     Places, SendStates, RecvStates
<1>12. ASSUME NEW i \in Ids, SendTerminal(i) PROVE TypeInv'
  BY <1>12 DEF TypeInv, TypeOK, PoolsConserved, PoolOK, SendTerminal, Conclude, svars,
      wvars, rvars,
     Places, SendStates, RecvStates
<1>13. ASSUME NEW i \in Ids, CancelSend(i) PROVE TypeInv'
  <2>1. spool' = spool \/ spool' = Settle(spool, i)
    BY <1>13 DEF CancelSend, SetAborted
  <2>2. PoolOK(spool') /\ PoolOK(rpool')
    <3>1. PoolOK(Settle(spool, i)) /\ rpool' = rpool
      BY <1>0, <1>13, PoolSteps DEF CancelSend, rvars
    <3> QED BY <1>0, <2>1, <3>1
  <2> QED BY <1>13, <2>2
    DEF TypeInv, TypeOK, PoolsConserved, PoolOK, CancelSend, Conclude, SetAborted, rvars,
        Places, SendStates
<1>14. ASSUME NEW i \in Ids, RecvCredit(i) PROVE TypeInv'
  <2>1. PoolOK(spool') /\ PoolOK(rpool')
    BY <1>14, PoolSteps DEF TypeInv, TypeOK, PoolsConserved, PoolOK, RecvCredit, svars,
        wvars, rvars
  <2> QED BY <1>14, <2>1 DEF TypeInv, TypeOK, PoolsConserved, PoolOK, RecvCredit, svars,
      wvars, rvars,
     Places, SendStates, RecvStates
<1>15. ASSUME NEW i \in Ids, PeerDiscarded(i) PROVE TypeInv'
  <2>1. PoolOK(spool') /\ PoolOK(rpool')
    BY <1>15, PoolSteps DEF TypeInv, TypeOK, PoolsConserved, PoolOK, PeerDiscarded,
        PeerDiscardedPool, svars, wvars, rvars
  <2> QED BY <1>15, <2>1 DEF TypeInv, TypeOK, PoolsConserved, PoolOK, PeerDiscarded,
      PeerDiscardedPool, svars, wvars, rvars,
     Places, SendStates, RecvStates
<1>16. ASSUME NEW i \in Ids, AcceptFragment(i) PROVE TypeInv'
  <2>1. PICK n \in 1..Lesser(wire[i], MaxFragment) :
               /\ Charged(i) => Fits(rpool, n)
               /\ wire' = [wire EXCEPT ![i] = @ - n]
               /\ remaining' = [remaining EXCEPT ![i] = n]
               /\ rpool' = IF Charged(i) THEN AcceptBytes(rpool, i, n) ELSE rpool
    BY <1>16 DEF AcceptFragment
  <2>2. n \in Nat /\ n <= wire[i] /\ wire[i] \in Nat
    BY <2>1 DEF TypeInv, TypeOK, Lesser
  <2>3. PoolOK(spool') /\ PoolOK(rpool')
    BY <1>16, <2>1, <2>2, PoolSteps
    DEF TypeInv, TypeOK, PoolsConserved, PoolOK, AcceptFragment, svars
  <2>4. wire' \in [Ids -> Nat] /\ remaining' \in [Ids -> Nat]
    BY <2>1, <2>2 DEF TypeInv, TypeOK
  <2>5. rstate' \in [Ids -> RecvStates]
    BY <1>16 DEF TypeInv, TypeOK, AcceptFragment, RecvStates
  <2> QED BY <1>16, <2>3, <2>4, <2>5
    DEF TypeInv, TypeOK, PoolsConserved, PoolOK, AcceptFragment, svars
<1>17. ASSUME NEW i \in Ids, Overrun(i) PROVE TypeInv'
  BY <1>17 DEF TypeInv, TypeOK, PoolsConserved, PoolOK, Overrun, Charged, svars, wvars,
      rvars,
     Places, SendStates, RecvStates
<1>18. ASSUME NEW i \in Ids, TakeOver(i) PROVE TypeInv'
  BY <1>18 DEF TypeInv, TypeOK, PoolsConserved, PoolOK, TakeOver, svars, wvars, rvars,
     Places, SendStates, RecvStates
<1>19. ASSUME NEW i \in Ids, DriverRead(i) PROVE TypeInv'
  BY <1>19 DEF TypeInv, TypeOK, PoolsConserved, PoolOK, DriverRead, Charged, svars,
      wvars, rvars,
     Places, SendStates, RecvStates
<1>20. ASSUME NEW i \in Ids, CompleteRecv(i) PROVE TypeInv'
  BY <1>20 DEF TypeInv, TypeOK, PoolsConserved, PoolOK, CompleteRecv, svars, wvars, rvars,
     Places, SendStates, RecvStates
<1>21. ASSUME NEW i \in Ids, RecvLast(i) PROVE TypeInv'
  <2>1. PoolOK(spool') /\ PoolOK(rpool')
    BY <1>21, PoolSteps DEF TypeInv, TypeOK, PoolsConserved, PoolOK, RecvLast,
        FinishFlush, Flush, svars, wvars, rvars
  <2> QED BY <1>21, <2>1 DEF TypeInv, TypeOK, PoolsConserved, PoolOK, RecvLast,
      FinishFlush, Flush, svars, wvars, rvars,
     Places, SendStates, RecvStates
<1>22. ASSUME NEW i \in Ids, RecvAbort(i) PROVE TypeInv'
  BY <1>22 DEF TypeInv, TypeOK, PoolsConserved, PoolOK, RecvAbort, svars, wvars, rvars,
     Places, SendStates, RecvStates
<1>23. ASSUME NEW i \in Ids, ReadStage(i) PROVE TypeInv'
  BY <1>23 DEF TypeInv, TypeOK, PoolsConserved, PoolOK, ReadStage, svars, wvars, rvars,
     Places, SendStates, RecvStates
<1>24. ASSUME NEW i \in Ids, ReadDirect(i) PROVE TypeInv'
  BY <1>24 DEF TypeInv, TypeOK, PoolsConserved, PoolOK, ReadDirect, svars, wvars, rvars,
     Places, SendStates, RecvStates
<1>25. ASSUME NEW i \in Ids, ReadDirectPending(i) PROVE TypeInv'
  BY <1>25 DEF TypeInv, TypeOK, PoolsConserved, PoolOK, ReadDirectPending, svars, wvars,
      rvars,
     Places, SendStates, RecvStates
<1>26. ASSUME NEW i \in Ids, ReadDemand(i) PROVE TypeInv'
  <2>1. PoolOK(spool') /\ PoolOK(rpool')
    BY <1>26, PoolSteps DEF TypeInv, TypeOK, PoolsConserved, PoolOK, ReadDemand, Flush,
        svars, wvars, rvars
  <2> QED BY <1>26, <2>1 DEF TypeInv, TypeOK, PoolsConserved, PoolOK, ReadDemand, Flush,
      svars, wvars, rvars,
     Places, SendStates, RecvStates
<1>27. ASSUME NEW i \in Ids, RetireDelivered(i) PROVE TypeInv'
  <2>1. PICK n \in 1..out[i] : Retire(i, n)
    BY <1>27 DEF RetireDelivered, TypeInv, TypeOK
  <2>2. n \in Nat /\ n <= out[i] /\ out[i] \in Nat /\ pending[i] \in Nat
    BY <2>1 DEF TypeInv, TypeOK
  <2>3. /\ out' = [out EXCEPT ![i] = @ - n]
        /\ \/ pending' = [pending EXCEPT ![i] = @ + n] /\ UNCHANGED <<rpool, credits>>
           \/ Flush(i, pending[i] + n)
    BY <2>1 DEF Retire, TypeInv, TypeOK
  <2>4. PoolOK(spool') /\ PoolOK(rpool')
    <3>1. PoolOK(Refund(rpool, i, pending[i] + n)) /\ spool' = spool
      BY <1>0, <1>27, <2>2, PoolSteps DEF RetireDelivered, svars
    <3>2. rpool' = rpool \/ rpool' = Refund(rpool, i, pending[i] + n)
      BY <2>3 DEF Flush
    <3> QED BY <1>0, <3>1, <3>2
  <2>5. /\ out' \in [Ids -> Nat] /\ pending' \in [Ids -> Nat]
        /\ credits' \in [Ids -> Nat]
    BY <2>2, <2>3 DEF TypeInv, TypeOK, Flush
  <2> QED BY <1>27, <2>4, <2>5
    DEF TypeInv, TypeOK, PoolsConserved, PoolOK, RetireDelivered, svars
<1>28. ASSUME NEW i \in Ids, DropRecv(i) PROVE TypeInv'
  <2>1. PoolOK(spool') /\ PoolOK(rpool')
    BY <1>28, PoolSteps DEF TypeInv, TypeOK, PoolsConserved, PoolOK, DropRecv, Notify,
        svars, wvars, rvars
  <2> QED BY <1>28, <2>1 DEF TypeInv, TypeOK, PoolsConserved, PoolOK, DropRecv, Notify,
      svars, wvars, rvars,
     Places, SendStates, RecvStates
<1>29. CASE UNCHANGED vars
  BY <1>29 DEF TypeInv, TypeOK, PoolsConserved, vars, svars, wvars, rvars
<1> QED BY <1>1, <1>2, <1>3, <1>4, <1>5, <1>6, <1>7, <1>8, <1>9, <1>10, <1>11, <1>12,
    <1>13, <1>14, <1>15, <1>16, <1>17, <1>18, <1>19, <1>20, <1>21, <1>22, <1>23, <1>24,
        <1>25, <1>26, <1>27, <1>28, <1>29
   DEF Next, Producer, Writer, Receiver, Consumer, Ended

-----------------------------------------------------------------------------
\* What the operations of window.rs do to the debts of a pool.
LEMMA DebtSteps ==
  ASSUME NEW w, PoolOK(w), NEW i \in Ids
  PROVE  /\ \A j \in Ids : w.debt[j] \in Nat
         /\ \A n \in Nat, j \in Ids :
              /\ Refund(w, i, n).debt[j] =
                   IF j = i THEN w.debt[i] - Lesser(n, w.debt[i]) ELSE w.debt[j]
              /\ DebitUpTo(w, i, n).debt[j] =
                   IF j = i THEN w.debt[i] + Granted(w, n) ELSE w.debt[j]
              /\ AcceptBytes(w, i, n).debt[j] =
                   IF j = i THEN w.debt[i] + n ELSE w.debt[j]
         /\ \A j \in Ids : Settle(w, i).debt[j] = IF j = i THEN 0 ELSE w.debt[j]
<1>0. IsFiniteSet(Ids) /\ Window \in Nat
  BY IdsAssumption, SizesAssumption
<1>1. w.debt \in [Ids -> Nat]
  BY <1>0 DEF PoolOK, WindowType
<1>2. ASSUME NEW n \in Int, NEW j \in Ids
      PROVE  Charge(w, i, n).debt[j] = IF j = i THEN w.debt[i] + n ELSE w.debt[j]
  BY <1>1 DEF Charge
<1>3. \A n \in Nat : Lesser(n, w.debt[i]) \in Int /\ Granted(w, n) \in Int
  BY <1>0, <1>1 DEF Lesser, Granted, PoolOK, WindowType
<1>4. ASSUME NEW n \in Nat, NEW j \in Ids
      PROVE  /\ Refund(w, i, n).debt[j] =
                  IF j = i THEN w.debt[i] - Lesser(n, w.debt[i]) ELSE w.debt[j]
             /\ DebitUpTo(w, i, n).debt[j] =
                  IF j = i THEN w.debt[i] + Granted(w, n) ELSE w.debt[j]
             /\ AcceptBytes(w, i, n).debt[j] =
                  IF j = i THEN w.debt[i] + n ELSE w.debt[j]
  BY <1>1, <1>2, <1>3 DEF Refund, DebitUpTo, AcceptBytes
<1>5. ASSUME NEW j \in Ids
      PROVE  Settle(w, i).debt[j] = IF j = i THEN 0 ELSE w.debt[j]
  BY <1>1, <1>2 DEF Settle
<1> QED BY <1>1, <1>4, <1>5

\* A refund returns what was asked for, or everything that is owed.
LEMMA RefundDebt ==
  ASSUME NEW w, PoolOK(w), NEW i \in Ids, NEW n \in Nat
  PROVE  /\ \A j \in Ids : w.debt[j] \in Nat
         /\ Refund(w, i, n).debt[i] = IF n <= w.debt[i] THEN w.debt[i] - n ELSE 0
         /\ \A j \in Ids : j # i => Refund(w, i, n).debt[j] = w.debt[j]
<1>1. \A j \in Ids : w.debt[j] \in Nat
  BY DebtSteps
<1>2. \A j \in Ids : Refund(w, i, n).debt[j] =
        IF j = i THEN w.debt[i] - Lesser(n, w.debt[i]) ELSE w.debt[j]
  BY DebtSteps
<1> QED BY <1>1, <1>2 DEF Lesser

\* The receiver's invariant holds at the start.
LEMMA RecvInit == Init => RecvInv
<1>1. \A i \in Ids : NewWindow(Ids, Window).debt[i] = 0
  BY DEF NewWindow
<1> QED BY <1>1, IdsAssumption
  DEF Init, Zero, RecvInv, ReceiverOwesWhatItHolds, DroppedOwesNothing,
      FragmentHasLease, OpensThenEnds, DiscardMeansDropped

\* ... and every step preserves it, whatever the applications may do.
LEMMA RecvStep == TypeInv /\ RecvInv /\ [Next]_vars => RecvInv'
<1> SUFFICES ASSUME TypeInv, RecvInv, [Next]_vars PROVE RecvInv'
  OBVIOUS
<1>0. PoolOK(spool) /\ PoolOK(rpool)
  BY DEF TypeInv, TypeOK, PoolsConserved, PoolOK
<1>1. ASSUME NEW i \in Ids,
             \/ PollWriteIdle(i) \/ PollWriteBehind(i) \/ PollWriteLeased(i)
             \/ PollWriteBlocked(i) \/ Finish(i) \/ DropSend(i) \/ GraceExpired(i)
             \/ RecvCredit(i) \/ Overrun(i)
      PROVE  RecvInv'
  <2>1. UNCHANGED <<place, lease, wire, wend, discards, rvars>>
    BY <1>1 DEF PollWriteIdle, PollWriteBehind, PollWriteLeased, PollWriteBlocked, Finish,
                DropSend, GraceExpired, RecvCredit, Overrun, svars, wvars
  <2> QED BY <2>1 DEF rvars, RecvInv, ReceiverOwesWhatItHolds, DroppedOwesNothing,
      FragmentHasLease, OpensThenEnds, DiscardMeansDropped
<1>2. ASSUME NEW i \in Ids, Start(i) PROVE RecvInv'
  BY <1>2, IdsAssumption DEF Start, TypeInv, TypeOK, svars, wvars, rvars,
      RecvInv, ReceiverOwesWhatItHolds, DroppedOwesNothing,
      FragmentHasLease, OpensThenEnds, DiscardMeansDropped
<1>3. ASSUME NEW i \in Ids, OpenTrailer(i) PROVE RecvInv'
  BY <1>3, IdsAssumption DEF OpenTrailer, TypeInv, TypeOK, svars, wvars, rvars,
      RecvInv, ReceiverOwesWhatItHolds, DroppedOwesNothing,
      FragmentHasLease, OpensThenEnds, DiscardMeansDropped
<1>4. ASSUME NEW i \in Ids, GrantSend(i) PROVE RecvInv'
  BY <1>4, IdsAssumption DEF GrantSend, TypeInv, TypeOK, svars, wvars, rvars,
      RecvInv, ReceiverOwesWhatItHolds, DroppedOwesNothing,
      FragmentHasLease, OpensThenEnds, DiscardMeansDropped
<1>5. ASSUME NEW i \in Ids, SendFragment(i) PROVE RecvInv'
  BY <1>5, IdsAssumption DEF SendFragment, Conclude, TypeInv, TypeOK, svars, wvars, rvars,
      RecvInv, ReceiverOwesWhatItHolds, DroppedOwesNothing,
      FragmentHasLease, OpensThenEnds, DiscardMeansDropped
<1>6. ASSUME NEW i \in Ids, SendTerminal(i) PROVE RecvInv'
  BY <1>6, IdsAssumption DEF SendTerminal, Conclude, TypeInv, TypeOK, svars, wvars, rvars,
      RecvInv, ReceiverOwesWhatItHolds, DroppedOwesNothing,
      FragmentHasLease, OpensThenEnds, DiscardMeansDropped
<1>7. ASSUME NEW i \in Ids, CancelSend(i) PROVE RecvInv'
  BY <1>7, IdsAssumption DEF CancelSend, Conclude, TypeInv, TypeOK, svars, wvars, rvars,
      RecvInv, ReceiverOwesWhatItHolds, DroppedOwesNothing,
      FragmentHasLease, OpensThenEnds, DiscardMeansDropped
<1>8. ASSUME NEW i \in Ids, PeerDiscarded(i) PROVE RecvInv'
  BY <1>8, IdsAssumption DEF PeerDiscarded, TypeInv, TypeOK, svars, wvars, rvars,
      RecvInv, ReceiverOwesWhatItHolds, DroppedOwesNothing,
      FragmentHasLease, OpensThenEnds, DiscardMeansDropped
<1>9. ASSUME NEW i \in Ids, AcceptFragment(i) PROVE RecvInv'
  <2>1. PICK n \in 1..Lesser(wire[i], MaxFragment) :
               /\ wire' = [wire EXCEPT ![i] = @ - n]
               /\ remaining' = [remaining EXCEPT ![i] = n]
               /\ rpool' = IF Charged(i) THEN AcceptBytes(rpool, i, n) ELSE rpool
    BY <1>9 DEF AcceptFragment
  <2>2. n \in Nat /\ n > 0 /\ n <= wire[i] /\ wire[i] \in Nat
    BY <2>1, SizesAssumption DEF TypeInv, TypeOK, Lesser
  <2>3. /\ rstate[i] \notin {"None", "Eof", "Failed"} /\ remaining[i] = 0
        /\ reader[i] <=> Charged(i)
    BY <1>9, <2>2, IdsAssumption DEF AcceptFragment, Charged, TypeInv, TypeOK, RecvInv,
        ReceiverOwesWhatItHolds, DroppedOwesNothing,
        FragmentHasLease, OpensThenEnds, DiscardMeansDropped
  <2>4. \A j \in Ids : /\ rpool.debt[j] \in Nat
                       /\ AcceptBytes(rpool, i, n).debt[j] =
                            IF j = i THEN rpool.debt[i] + n ELSE rpool.debt[j]
    BY <1>0, <2>2, DebtSteps
  <2>5. rpool'.debt[i] = IF reader[i] THEN rpool.debt[i] + n ELSE rpool.debt[i]
    BY <2>1, <2>3, <2>4
  <2>6. \A j \in Ids : j # i => rpool'.debt[j] = rpool.debt[j]
    BY <2>1, <2>4
  <2>7. ReceiverOwesWhatItHolds'
    BY <1>9, <2>1, <2>2, <2>3, <2>4, <2>5, <2>6
    DEF AcceptFragment, TypeInv, TypeOK, RecvInv, ReceiverOwesWhatItHolds
  <2>8. /\ rstate' \in [Ids -> RecvStates]
        /\ rstate'[i] \in {"Discard", "Draining", "Unclaimed"}
        /\ rstate'[i] = "Discard" <=> rstate[i] = "Discard"
        /\ \A j \in Ids : j # i => rstate'[j] = rstate[j]
    BY <1>9 DEF AcceptFragment, TypeInv, TypeOK, RecvStates
  <2>9. DroppedOwesNothing' /\ DiscardMeansDropped'
    BY <1>9, <2>3, <2>4, <2>5, <2>6, <2>8
    DEF AcceptFragment, Charged, TypeInv, TypeOK, RecvInv, DroppedOwesNothing,
        DiscardMeansDropped
  <2>10. FragmentHasLease' /\ OpensThenEnds'
    BY <1>9, <2>1, <2>2, <2>3, <2>8, IdsAssumption
    DEF AcceptFragment, svars, TypeInv, TypeOK, RecvInv, FragmentHasLease, OpensThenEnds
  <2> QED BY <2>7, <2>9, <2>10 DEF RecvInv
<1>10. ASSUME NEW i \in Ids, TakeOver(i) PROVE RecvInv'
  BY <1>10, IdsAssumption DEF TakeOver, TypeInv, TypeOK, svars, wvars, rvars,
      RecvInv, ReceiverOwesWhatItHolds, DroppedOwesNothing,
      FragmentHasLease, OpensThenEnds, DiscardMeansDropped
<1>11. ASSUME NEW i \in Ids, DriverRead(i) PROVE RecvInv'
  BY <1>11, IdsAssumption DEF DriverRead, Charged, TypeInv, TypeOK, svars, wvars, rvars,
      RecvInv, ReceiverOwesWhatItHolds, DroppedOwesNothing,
      FragmentHasLease, OpensThenEnds, DiscardMeansDropped
<1>12. ASSUME NEW i \in Ids, CompleteRecv(i) PROVE RecvInv'
  BY <1>12, IdsAssumption DEF CompleteRecv, TypeInv, TypeOK, svars, wvars, rvars,
      RecvInv, ReceiverOwesWhatItHolds, DroppedOwesNothing,
      FragmentHasLease, OpensThenEnds, DiscardMeansDropped
<1>13. ASSUME NEW i \in Ids, RecvLast(i) PROVE RecvInv'
  <2>1. pending[i] \in Nat
    BY DEF TypeInv, TypeOK
  <2>2. /\ \A j \in Ids : rpool.debt[j] \in Nat
        /\ rpool'.debt[i] =
             IF pending[i] <= rpool.debt[i] THEN rpool.debt[i] - pending[i] ELSE 0
        /\ \A j \in Ids : j # i => rpool'.debt[j] = rpool.debt[j]
    BY <1>0, <1>13, <2>1, RefundDebt DEF RecvLast, FinishFlush, Flush
  <2>3. ReceiverOwesWhatItHolds'
    BY <1>13, <2>2 DEF RecvLast, FinishFlush, Flush, TypeInv, TypeOK, RecvInv,
        ReceiverOwesWhatItHolds
  <2>4. DroppedOwesNothing'
    BY <1>13, <2>2 DEF RecvLast, FinishFlush, Flush, TypeInv, TypeOK, RecvInv,
        DroppedOwesNothing
  <2>5. FragmentHasLease' /\ OpensThenEnds' /\ DiscardMeansDropped'
    BY <1>13, IdsAssumption DEF RecvLast, FinishFlush, Flush, TypeInv, TypeOK, svars,
        RecvInv, ReceiverOwesWhatItHolds, DroppedOwesNothing,
        FragmentHasLease, OpensThenEnds, DiscardMeansDropped
  <2> QED BY <2>3, <2>4, <2>5 DEF RecvInv
<1>14. ASSUME NEW i \in Ids, RecvAbort(i) PROVE RecvInv'
  BY <1>14, IdsAssumption DEF RecvAbort, TypeInv, TypeOK, svars, wvars, rvars,
      RecvInv, ReceiverOwesWhatItHolds, DroppedOwesNothing,
      FragmentHasLease, OpensThenEnds, DiscardMeansDropped
<1>15. ASSUME NEW i \in Ids, ReadStage(i) PROVE RecvInv'
  BY <1>15, IdsAssumption DEF ReadStage, Between, TypeInv, TypeOK, svars, wvars, rvars,
      RecvInv, ReceiverOwesWhatItHolds, DroppedOwesNothing,
      FragmentHasLease, OpensThenEnds, DiscardMeansDropped
<1>16. ASSUME NEW i \in Ids, ReadDirect(i) PROVE RecvInv'
  <2>1. PICK n \in 1..remaining[i] :
               /\ remaining' = [remaining EXCEPT ![i] = @ - n]
               /\ out' = [out EXCEPT ![i] = @ + n]
               /\ rstate' = [rstate EXCEPT ![i] = IF n = remaining[i] THEN "Fragment"
                                                                      ELSE "Draining"]
    BY <1>16 DEF ReadDirect
  <2>2. n \in Nat /\ remaining[i] \in Nat /\ n > 0 /\ n <= remaining[i]
    BY <2>1 DEF TypeInv, TypeOK
  <2>3. ReceiverOwesWhatItHolds'
    BY <1>16, <2>1, <2>2 DEF ReadDirect, TypeInv, TypeOK, RecvInv, ReceiverOwesWhatItHolds
  <2>4. FragmentHasLease' /\ OpensThenEnds'
    BY <1>16, <2>1, <2>2
    DEF ReadDirect, svars, wvars, TypeInv, TypeOK, RecvInv, FragmentHasLease, OpensThenEnds
  <2>5. DroppedOwesNothing' /\ DiscardMeansDropped'
    BY <1>16, <2>1
    DEF ReadDirect, Between, wvars, TypeInv, TypeOK, RecvInv, DroppedOwesNothing,
        DiscardMeansDropped
  <2> QED BY <2>3, <2>4, <2>5 DEF RecvInv
<1>17. ASSUME NEW i \in Ids, ReadDirectPending(i) PROVE RecvInv'
  BY <1>17, IdsAssumption DEF ReadDirectPending, Between, TypeInv, TypeOK, svars, wvars,
      rvars,
      RecvInv, ReceiverOwesWhatItHolds, DroppedOwesNothing,
      FragmentHasLease, OpensThenEnds, DiscardMeansDropped
<1>18. ASSUME NEW i \in Ids, ReadDemand(i) PROVE RecvInv'
  <2>1. pending[i] \in Nat
    BY DEF TypeInv, TypeOK
  <2>2. /\ \A j \in Ids : rpool.debt[j] \in Nat
        /\ rpool'.debt[i] =
             IF pending[i] <= rpool.debt[i] THEN rpool.debt[i] - pending[i] ELSE 0
        /\ \A j \in Ids : j # i => rpool'.debt[j] = rpool.debt[j]
    BY <1>0, <1>18, <2>1, RefundDebt DEF ReadDemand, Flush, Between
  <2>3. ReceiverOwesWhatItHolds'
    BY <1>18, <2>2 DEF ReadDemand, Flush, Between, TypeInv, TypeOK, RecvInv,
        ReceiverOwesWhatItHolds
  <2>4. DroppedOwesNothing'
    BY <1>18, <2>2 DEF ReadDemand, Flush, Between, TypeInv, TypeOK, RecvInv,
        DroppedOwesNothing
  <2>5. FragmentHasLease' /\ OpensThenEnds' /\ DiscardMeansDropped'
    BY <1>18, IdsAssumption DEF ReadDemand, Flush, Between, TypeInv, TypeOK, svars,
        RecvInv, ReceiverOwesWhatItHolds, DroppedOwesNothing,
        FragmentHasLease, OpensThenEnds, DiscardMeansDropped
  <2> QED BY <2>3, <2>4, <2>5 DEF RecvInv
<1>19. ASSUME NEW i \in Ids, RetireDelivered(i) PROVE RecvInv'
  <2>1. PICK n \in 1..out[i] : Retire(i, n)
    BY <1>19 DEF RetireDelivered, TypeInv, TypeOK
  <2>2. n \in Nat /\ n <= out[i] /\ out[i] \in Nat /\ pending[i] \in Nat
    BY <2>1 DEF TypeInv, TypeOK
  <2>3. /\ out' = [out EXCEPT ![i] = @ - n]
        /\ \/ pending' = [pending EXCEPT ![i] = @ + n] /\ UNCHANGED <<rpool, credits>>
           \/ Flush(i, pending[i] + n)
    BY <2>1 DEF Retire, TypeInv, TypeOK
  <2>4. /\ \A j \in Ids : rpool.debt[j] \in Nat
        /\ Refund(rpool, i, pending[i] + n).debt[i] =
             IF pending[i] + n <= rpool.debt[i] THEN rpool.debt[i] - (pending[i] + n) ELSE 0
        /\ \A j \in Ids : j # i => Refund(rpool, i, pending[i] + n).debt[j] = rpool.debt[j]
    BY <1>0, <2>2, RefundDebt
  <2>5. ReceiverOwesWhatItHolds'
    BY <1>19, <2>2, <2>3, <2>4
    DEF RetireDelivered, Flush, TypeInv, TypeOK, RecvInv, ReceiverOwesWhatItHolds
  <2>6. FragmentHasLease' /\ OpensThenEnds' /\ DiscardMeansDropped'
    BY <1>19 DEF RetireDelivered, svars, RecvInv, ReceiverOwesWhatItHolds,
        DroppedOwesNothing,
        FragmentHasLease, OpensThenEnds, DiscardMeansDropped
  <2>7. DroppedOwesNothing'
    BY <1>19, <2>3, <2>4
    DEF RetireDelivered, Flush, TypeInv, TypeOK, RecvInv, DroppedOwesNothing
  <2> QED BY <2>5, <2>6, <2>7 DEF RecvInv
<1>20. ASSUME NEW i \in Ids, DropRecv(i) PROVE RecvInv'
  <2>1. \A j \in Ids : /\ rpool.debt[j] \in Nat
                       /\ Settle(rpool, i).debt[j] = IF j = i THEN 0 ELSE rpool.debt[j]
    BY <1>0, DebtSteps DEF TypeInv, TypeOK
  <2> QED BY <1>20, <2>1, IdsAssumption
  DEF DropRecv, Notify, Between, Lesser, TypeInv, TypeOK, svars, wvars, rvars, RecvInv,
      ReceiverOwesWhatItHolds, DroppedOwesNothing,
      FragmentHasLease, OpensThenEnds, DiscardMeansDropped
<1>21. CASE UNCHANGED vars
  BY <1>21 DEF vars, svars, wvars, rvars, RecvInv, ReceiverOwesWhatItHolds,
      DroppedOwesNothing,
      FragmentHasLease, OpensThenEnds, DiscardMeansDropped
<1> QED BY <1>1, <1>2, <1>3, <1>4, <1>5, <1>6, <1>7, <1>8, <1>9, <1>10, <1>11, <1>12,
    <1>13, <1>14, <1>15, <1>16, <1>17, <1>18, <1>19, <1>20, <1>21
   DEF Next, Producer, Writer, Receiver, Consumer, Ended

-----------------------------------------------------------------------------
(***************************************************************************)
(* Without aborts the sender's copy of the pool covers the receiver's.     *)
(***************************************************************************)
NoAborts == Liberties \cap Aborting = {}

\* The sender's debits cover the receiver's at the start.
LEMMA CoverInit == Init => DebitCovers
<1>1. \A i \in Ids : NewWindow(Ids, Window).debt[i] = 0
  BY DEF NewWindow
<1> QED BY <1>1 DEF Init, Zero, DebitCovers

\* ... and every step preserves that, as long as nothing is aborted.
LEMMA CoverStep ==
  ASSUME NoAborts
  PROVE  TypeInv /\ RecvInv /\ DebitCovers /\ [Next]_vars => DebitCovers'
<1> SUFFICES ASSUME TypeInv, RecvInv, DebitCovers, [Next]_vars PROVE DebitCovers'
  OBVIOUS
<1>0. PoolOK(spool) /\ PoolOK(rpool)
  BY DEF TypeInv, TypeOK, PoolsConserved, PoolOK
<1>1. ASSUME NEW j \in Ids
      PROVE  /\ spool.debt[j] \in Nat /\ rpool.debt[j] \in Nat
             /\ credits[j] \in Nat /\ wire[j] \in Nat /\ buffer[j] \in Nat
             /\ reserved[j] \in Nat
  BY <1>0, DebtSteps DEF TypeInv, TypeOK
<1>2. ASSUME NEW i \in Ids,
             \/ PollWriteBehind(i) \/ Finish(i) \/ Start(i) \/ OpenTrailer(i)
             \/ GrantSend(i) \/ GraceExpired(i) \/ Overrun(i) \/ TakeOver(i)
             \/ DriverRead(i) \/ CompleteRecv(i) \/ RecvAbort(i) \/ ReadStage(i)
             \/ ReadDirect(i) \/ ReadDirectPending(i)
      PROVE  DebitCovers'
  <2>1. UNCHANGED <<spool, rpool, credits, wire, buffer, reserved, reader>>
    BY <1>2 DEF PollWriteBehind, Finish, Start, OpenTrailer, GrantSend, GraceExpired,
                Overrun, TakeOver, DriverRead, CompleteRecv, RecvAbort, ReadStage,
                ReadDirect, ReadDirectPending, svars, wvars, rvars
  <2> QED BY <2>1 DEF DebitCovers
<1>3. ASSUME NEW i \in Ids, PollWriteIdle(i) PROVE DebitCovers'
  <2>1. PICK want \in 1..Lesser(toWrite[i], MaxFragment) :
               /\ spool' = DebitUpTo(spool, i, want)
               /\ \/ /\ buffer' = [buffer EXCEPT ![i] = Granted(spool, want)]
                     /\ UNCHANGED reserved
                  \/ /\ reserved' = [reserved EXCEPT ![i] = Granted(spool, want)]
                     /\ UNCHANGED buffer
    BY <1>3 DEF PollWriteIdle
  <2>2. want \in Nat
    BY <2>1, SizesAssumption DEF TypeInv, TypeOK, Lesser
  <2>3. Granted(spool, want) \in Nat
    BY <2>2, SizesAssumption DEF TypeInv, TypeOK, WindowType, Granted, Lesser
  <2>4. \A j \in Ids : spool'.debt[j] =
          IF j = i THEN spool.debt[i] + Granted(spool, want) ELSE spool.debt[j]
    BY <1>0, <2>1, <2>2, DebtSteps
  <2>5. UNCHANGED <<rpool, credits, wire, reader>>
    BY <1>3 DEF PollWriteIdle, wvars, rvars
  <2> QED BY <1>1, <2>1, <2>3, <2>4, <2>5 DEF DebitCovers, TypeInv, TypeOK
<1>4. ASSUME NEW i \in Ids, PollWriteLeased(i) \/ PollWriteBlocked(i) PROVE DebitCovers'
  <2>1. PICK len \in 1..Lesser(reserved[i], Lesser(toWrite[i], MaxFragment)) :
               /\ spool' = Refund(spool, i, reserved[i] - len)
               /\ \/ /\ buffer' = [buffer EXCEPT ![i] = len]
                     /\ reserved' = [reserved EXCEPT ![i] = 0]
                  \/ /\ reserved' = [reserved EXCEPT ![i] = len]
                     /\ UNCHANGED buffer
    BY <1>4 DEF PollWriteLeased, PollWriteBlocked, Unreserve
  <2>2. len \in Nat /\ reserved[i] - len \in Nat
    BY <2>1, SizesAssumption DEF TypeInv, TypeOK, Lesser
  <2>3. /\ spool'.debt[i] = IF reserved[i] - len <= spool.debt[i]
                            THEN spool.debt[i] - (reserved[i] - len) ELSE 0
        /\ \A j \in Ids : j # i => spool'.debt[j] = spool.debt[j]
    BY <1>0, <2>1, <2>2, RefundDebt
  <2>4. UNCHANGED <<rpool, credits, wire, reader>>
    BY <1>4 DEF PollWriteLeased, PollWriteBlocked, wvars, rvars
  <2> QED BY <1>1, <2>1, <2>2, <2>3, <2>4 DEF DebitCovers, TypeInv, TypeOK
<1>5. ASSUME NEW i \in Ids, DropSend(i) \/ CancelSend(i) PROVE FALSE
  BY <1>5, NoAborts DEF NoAborts, Aborting, DropSend, CancelSend
<1>6. ASSUME NEW i \in Ids, SendFragment(i) \/ SendTerminal(i) PROVE DebitCovers'
  BY <1>1, <1>6 DEF SendFragment, SendTerminal, rvars, DebitCovers, TypeInv, TypeOK
<1>7. ASSUME NEW i \in Ids, RecvCredit(i) PROVE DebitCovers'
  <2>1. PICK n \in 1..credits[i] : /\ credits' = [credits EXCEPT ![i] = @ - n]
                                   /\ spool' = Refund(spool, i, n)
    BY <1>7 DEF RecvCredit
  <2>2. n \in Nat /\ n <= credits[i]
    BY <1>1, <2>1
  <2>3. /\ spool'.debt[i] = IF n <= spool.debt[i] THEN spool.debt[i] - n ELSE 0
        /\ \A j \in Ids : j # i => spool'.debt[j] = spool.debt[j]
    BY <1>0, <2>1, <2>2, RefundDebt
  <2>4. UNCHANGED <<rpool, wire, buffer, reserved, reader>>
    BY <1>7 DEF RecvCredit, rvars
  <2> QED BY <1>1, <2>1, <2>2, <2>3, <2>4 DEF DebitCovers, TypeInv, TypeOK
<1>8. ASSUME NEW i \in Ids, PeerDiscarded(i) PROVE DebitCovers'
  <2>1. ~reader[i]
    BY <1>8 DEF PeerDiscarded, RecvInv, DiscardMeansDropped
  <2>2. \A j \in Ids : j # i => spool'.debt[j] = spool.debt[j]
    BY <1>0, <1>8, DebtSteps DEF PeerDiscarded, PeerDiscardedPool
  <2> QED BY <1>1, <1>8, <2>1, <2>2
    DEF PeerDiscarded, rvars, DebitCovers, TypeInv, TypeOK
<1>9. ASSUME NEW i \in Ids, AcceptFragment(i) PROVE DebitCovers'
  <2>1. PICK n \in 1..Lesser(wire[i], MaxFragment) :
               /\ wire' = [wire EXCEPT ![i] = @ - n]
               /\ rpool' = IF Charged(i) THEN AcceptBytes(rpool, i, n) ELSE rpool
    BY <1>9 DEF AcceptFragment
  <2>2. n \in Nat /\ n <= wire[i]
    BY <1>1, <2>1, SizesAssumption DEF Lesser
  <2>3. \A j \in Ids : AcceptBytes(rpool, i, n).debt[j] =
                         IF j = i THEN rpool.debt[i] + n ELSE rpool.debt[j]
    BY <1>0, <2>2, DebtSteps
  <2>4. UNCHANGED <<spool, credits, buffer, reserved, reader>>
    BY <1>9 DEF AcceptFragment, svars
  <2> QED BY <1>1, <2>1, <2>2, <2>3, <2>4 DEF DebitCovers, TypeInv, TypeOK
<1>10. ASSUME NEW i \in Ids, NEW amount \in Nat, Flush(i, amount),
              reader[i] => amount <= rpool.debt[i],
              UNCHANGED <<spool, wire, buffer, reserved, reader>>
       PROVE  DebitCovers'
  <2>1. /\ rpool'.debt[i] = IF amount <= rpool.debt[i] THEN rpool.debt[i] - amount ELSE 0
        /\ \A j \in Ids : j # i => rpool'.debt[j] = rpool.debt[j]
    BY <1>0, <1>10, RefundDebt DEF Flush
  <2> QED BY <1>1, <1>10, <2>1 DEF Flush, DebitCovers, TypeInv, TypeOK
<1>11. ASSUME NEW i \in Ids, RecvLast(i) \/ ReadDemand(i) PROVE DebitCovers'
  <2>1. /\ Flush(i, pending[i]) /\ pending[i] \in Nat
        /\ UNCHANGED <<spool, wire, buffer, reserved, reader>>
    BY <1>11 DEF RecvLast, ReadDemand, FinishFlush, svars, TypeInv, TypeOK
  <2>2. reader[i] => pending[i] <= rpool.debt[i]
    BY DEF RecvInv, ReceiverOwesWhatItHolds, TypeInv, TypeOK
  <2> QED BY <1>10, <2>1, <2>2
<1>12. ASSUME NEW i \in Ids, RetireDelivered(i) PROVE DebitCovers'
  <2>1. PICK n \in 1..out[i] : Retire(i, n)
    BY <1>12 DEF RetireDelivered, TypeInv, TypeOK
  <2>2. n \in Nat /\ n <= out[i] /\ out[i] \in Nat /\ pending[i] \in Nat
    BY <2>1 DEF TypeInv, TypeOK
  <2>3. UNCHANGED <<rpool, credits>> \/ Flush(i, pending[i] + n)
    BY <2>1 DEF Retire
  <2>4. UNCHANGED <<spool, wire, buffer, reserved, reader>>
    BY <1>12 DEF RetireDelivered, svars
  <2>5. reader[i] => pending[i] + n <= rpool.debt[i]
    BY <2>2 DEF RecvInv, ReceiverOwesWhatItHolds, TypeInv, TypeOK
  <2>6. CASE UNCHANGED <<rpool, credits>>
    BY <2>4, <2>6 DEF DebitCovers
  <2>7. CASE Flush(i, pending[i] + n)
    BY <1>10, <2>2, <2>4, <2>5, <2>7
  <2> QED BY <2>3, <2>6, <2>7
<1>13. ASSUME NEW i \in Ids, DropRecv(i) PROVE DebitCovers'
  <2>1. \A j \in Ids : j # i => rpool'.debt[j] = rpool.debt[j]
    BY <1>0, <1>13, DebtSteps DEF DropRecv
  <2> QED BY <1>1, <1>13, <2>1 DEF DropRecv, svars, DebitCovers, TypeInv, TypeOK
<1>14. CASE UNCHANGED vars
  BY <1>14 DEF vars, svars, wvars, rvars, DebitCovers
<1> QED BY <1>2, <1>3, <1>4, <1>5, <1>6, <1>7, <1>8, <1>9, <1>11, <1>12, <1>13, <1>14
   DEF Next, Producer, Writer, Receiver, Consumer, Ended

\* The receiver never refuses a fragment: what it is owed by the trailers it
\* still serves, together with the bytes that are arriving, is part of what
\* the sender was debited, and that is at most the window.
LEMMA NoOverrunStep ==
  TypeInv /\ RecvInv /\ DebitCovers /\ NoOverrun /\ [Next]_vars => NoOverrun'
<1> SUFFICES ASSUME TypeInv, RecvInv, DebitCovers, NoOverrun, [Next]_vars PROVE NoOverrun'
  OBVIOUS
<1>0. PoolOK(spool) /\ PoolOK(rpool) /\ IsFiniteSet(Ids) /\ Window \in Nat
  BY IdsAssumption, SizesAssumption DEF TypeInv, TypeOK, PoolsConserved, PoolOK
<1>1. ASSUME NEW i \in Ids, Overrun(i) PROVE FALSE
  <2>1. PICK n \in 1..Lesser(wire[i], MaxFragment) : n > rpool.available
    BY <1>0, <1>1, SizesAssumption
    DEF Overrun, Fits, PoolOK, WindowType, TypeInv, TypeOK, Lesser
  <2>2. n \in Nat /\ n > 0 /\ n <= wire[i] /\ wire[i] \in Nat
    BY <2>1, SizesAssumption DEF TypeInv, TypeOK, Lesser
  <2>3. reader[i]
    BY <1>1, <2>2 DEF Overrun, Charged, TypeInv, TypeOK, RecvInv, DroppedOwesNothing,
        OpensThenEnds
  <2> DEFINE g == [rpool.debt EXCEPT ![i] = @ + n]
  <2>4. rpool.debt \in [Ids -> 0..Window] /\ spool.debt \in [Ids -> 0..Window]
        /\ rpool.available \in 0..Window /\ spool.available \in 0..Window
    BY <1>0 DEF PoolOK, WindowType
  <2>5. ASSUME NEW j \in Ids PROVE g[j] \in Nat /\ g[j] <= spool.debt[j]
    <3>1. rpool.debt[j] \in Nat /\ spool.debt[j] \in Nat
      BY <1>0, DebtSteps
    <3>2. CASE j = i
      <4>1. g[j] = rpool.debt[i] + n
        BY <2>4, <3>2
      <4>2. rpool.debt[i] + credits[i] + wire[i] + buffer[i] + reserved[i] <= spool.debt[i]
        BY <2>3 DEF DebitCovers
      <4> QED BY <2>2, <3>1, <3>2, <4>1, <4>2 DEF TypeInv, TypeOK
    <3>3. CASE j # i
      <4>1. g[j] = rpool.debt[j]
        BY <2>4, <3>3
      <4>2. rpool.debt[j] <= spool.debt[j]
        BY <3>1 DEF DebitCovers, RecvInv, DroppedOwesNothing, TypeInv, TypeOK
      <4> QED BY <3>1, <4>1, <4>2
    <3> QED BY <3>2, <3>3
  <2>6. g \in [Ids -> 0..Window] /\ g[i] = rpool.debt[i] + n
        /\ \A j \in Ids : j # i => g[j] = rpool.debt[j]
    <3>1. \A j \in Ids : spool.debt[j] \in 0..Window
      BY <2>4
    <3>2. \A j \in Ids : g[j] \in 0..Window
      BY <1>0, <2>5, <3>1
    <3> QED BY <2>4, <3>2
  <2> HIDE DEF g
  <2>7. Total(g) = Total(rpool.debt) - rpool.debt[i] + g[i]
    BY <1>0, <2>4, <2>6, TotalUpdate
  <2>8. Total(g) <= Total(spool.debt)
    BY <1>0, <2>4, <2>5, <2>6, TotalMonotone
  <2>9. Total(rpool.debt) \in Nat /\ Total(spool.debt) \in Nat
    BY <1>0, <2>4, UnitsFinite
  <2>10. rpool.available + Total(rpool.debt) = Window
         /\ spool.available + Total(spool.debt) = Window
    BY <1>0 DEF PoolOK, Conserved
  <2>11. rpool.debt[i] \in 0..Window
    BY <2>4
  <2> QED BY <1>0, <2>1, <2>2, <2>4, <2>6, <2>7, <2>8, <2>9, <2>10, <2>11
<1>2. ASSUME NEW i \in Ids, Producer(i) \/ Writer(i) \/ Receiver(i) \/ Consumer(i)
      PROVE  broken' = broken
  BY <1>1, <1>2 DEF Producer, Writer, Receiver, Consumer,
     PollWriteIdle, PollWriteBehind, PollWriteLeased, PollWriteBlocked, Finish, DropSend,
     Start, OpenTrailer, GrantSend, GraceExpired, SendFragment, SendTerminal, CancelSend,
     RecvCredit, PeerDiscarded, AcceptFragment, TakeOver, DriverRead, CompleteRecv,
     RecvLast, RecvAbort, ReadStage, ReadDirect, ReadDirectPending, ReadDemand,
     RetireDelivered, DropRecv
<1> QED BY <1>2 DEF Next, Ended, vars, NoOverrun

-----------------------------------------------------------------------------
(***************************************************************************)
(* The sender's side: a lease comes with its credit, and all credit comes  *)
(* back.                                                                   *)
(***************************************************************************)

\* The states in which the producer can spend no more credit.
Closed == {"Finish", "FragmentFinish", "Abort"}

\* The transport is lent to one producer, and a fragment that is staged has
\* bytes, so that the driver does not take its message for one that asks for
\* the transport.
LeaseIsOwned ==
  \A i \in Ids : /\ sstate[i] \in {"Granted", "Staging"} => lease = i
                 /\ sstate[i] \in {"Fragment", "FragmentDemand"} => buffer[i] > 0
                 /\ sstate[i] = "FragmentFinish" /\ place[i] \notin {"detached", "done"}
                      => buffer[i] > 0

\* A producer that asks for the transport has reserved what it will write.
DemandIsReserved == \A i \in Ids : MidWrite(i) => reserved[i] > 0

\* A message that the scheduler has let go of is not written to any more.
LetGoIsClosed == \A i \in Ids : place[i] \in {"detached", "done"} => sstate[i] \in Closed

\* DebitCovers for the producers that can still write, however the others
\* ended: the credit that is on its way back never reaches the reservation,
\* even when the reader is gone.
WriterIsCovered ==
  \A i \in Ids : sstate[i] \notin Closed =>
    /\ credits[i] + reserved[i] <= spool.debt[i]
    /\ reader[i] =>
         rpool.debt[i] + credits[i] + wire[i] + buffer[i] + reserved[i] <= spool.debt[i]

SendInv == LeaseIsOwned /\ DemandIsReserved /\ LetGoIsClosed /\ WriterIsCovered

\* Bytes are staged only in the states that say so, and only a producer in
\* the middle of a write, or an aborted one, has a reservation.
StagedOrReserved(i) ==
  /\ sstate[i] \notin {"Fragment", "FragmentDemand", "FragmentFinish", "Abort"}
       => buffer[i] = 0
  /\ place[i] = "done" => buffer[i] = 0
  /\ ~MidWrite(i) /\ sstate[i] # "Abort" => reserved[i] = 0

\* Before a trailer opens it owes nothing, and when it has ended no credit
\* waits to be coalesced.
EndsFlushed(i) ==
  /\ rstate[i] = "None" => rpool.debt[i] = 0
  /\ rstate[i] = "Eof" => remaining[i] = 0 /\ pending[i] = 0

\* An aborted or detached trailer has been settled.
AbortIsSettled(i) ==
  sstate[i] = "Abort" \/ place[i] = "detached" => spool.debt[i] = 0

\* Where the debt of a trailer is: it was settled for good; the sender is
\* being told to let go of it; every byte of it is somewhere between the
\* producer and the credit that returns it; or the trailer was read to its
\* end and only credit is left.
DebtSettled(i) == spool.debt[i] = 0 /\ sstate[i] \in Closed
DebtDiscarded(i) == discards[i] /\ ~reader[i]
DebtExact(i) ==
  /\ reader[i]
  /\ spool.debt[i] = rpool.debt[i] + credits[i] + wire[i] + buffer[i] + reserved[i]
DebtReturns(i) ==
  /\ ~reader[i] /\ rstate[i] = "Eof" /\ place[i] = "done"
  /\ spool.debt[i] = credits[i]

DebtIsAccounted(i) ==
  DebtSettled(i) \/ DebtDiscarded(i) \/ DebtExact(i) \/ DebtReturns(i)

StrandAt(i) ==
  StagedOrReserved(i) /\ EndsFlushed(i) /\ AbortIsSettled(i) /\ DebtIsAccounted(i)

StrandInv == \A i \in Ids : StrandAt(i)

\* The sender's invariant holds at the start.
LEMMA SendInit == Init => SendInv
<1>1. \A i \in Ids : NewWindow(Ids, Window).debt[i] = 0
  BY DEF NewWindow
<1> QED BY <1>1 DEF Init, Zero, SendInv, LeaseIsOwned, DemandIsReserved, MidWrite,
    LetGoIsClosed, WriterIsCovered

\* Every step keeps the lease with its owner, a reservation with every demand,
\* and the messages the scheduler has let go of closed.
LEMMA LeaseStep ==
  ASSUME TypeInv, RecvInv, SendInv, [Next]_vars
  PROVE  LeaseIsOwned' /\ DemandIsReserved' /\ LetGoIsClosed'
<1> USE IdsAssumption, SizesAssumption
<1> DEFINE Goal == LeaseIsOwned /\ DemandIsReserved /\ LetGoIsClosed
<1>0. Goal
  BY DEF SendInv
<1>1. ASSUME NEW i \in Ids, PollWriteIdle(i) PROVE Goal'
  <2>1. PICK want \in 1..Lesser(toWrite[i], MaxFragment) :
               /\ Granted(spool, want) > 0
               /\ \/ /\ buffer' = [buffer EXCEPT ![i] = Granted(spool, want)]
                     /\ sstate' = [sstate EXCEPT ![i] = "Fragment"]
                     /\ UNCHANGED reserved
                  \/ /\ reserved' = [reserved EXCEPT ![i] = Granted(spool, want)]
                     /\ sstate' = [sstate EXCEPT ![i] = "Demand"]
                     /\ UNCHANGED buffer
    BY <1>1 DEF PollWriteIdle
  <2>2. sstate[i] = "Idle" /\ UNCHANGED <<place, lease>>
    BY <1>1 DEF PollWriteIdle
  <2> HIDE DEF Granted
  <2> QED BY <1>0, <2>1, <2>2 DEF LeaseIsOwned, DemandIsReserved, MidWrite, LetGoIsClosed,
      Closed, TypeInv, TypeOK
<1>2. ASSUME NEW i \in Ids, PollWriteLeased(i) PROVE Goal'
  <2>1. PICK len \in 1..Lesser(reserved[i], Lesser(toWrite[i], MaxFragment)) :
               buffer' = [buffer EXCEPT ![i] = len]
    BY <1>2 DEF PollWriteLeased
  <2>2. len > 0
    BY <2>1
  <2> QED BY <1>0, <1>2, <2>1, <2>2 DEF PollWriteLeased, LeaseIsOwned, DemandIsReserved,
      MidWrite, LetGoIsClosed, Closed, TypeInv, TypeOK
<1>3. ASSUME NEW i \in Ids, PollWriteBlocked(i) PROVE Goal'
  <2>1. PICK len \in 1..Lesser(reserved[i], Lesser(toWrite[i], MaxFragment)) :
               reserved' = [reserved EXCEPT ![i] = len]
    BY <1>3 DEF PollWriteBlocked
  <2>2. len > 0
    BY <2>1
  <2> QED BY <1>0, <1>3, <2>1, <2>2 DEF PollWriteBlocked, LeaseIsOwned, DemandIsReserved,
      MidWrite, LetGoIsClosed, Closed, TypeInv, TypeOK
<1>4. ASSUME NEW i \in Ids, PollWriteBehind(i) \/ GraceExpired(i) PROVE Goal'
  BY <1>0, <1>4 DEF PollWriteBehind, GraceExpired, LeaseIsOwned, DemandIsReserved,
     MidWrite, LetGoIsClosed, Closed, TypeInv, TypeOK
<1>5. ASSUME NEW i \in Ids, Finish(i) PROVE Goal'
  BY <1>0, <1>5 DEF Finish, Finished, LeaseIsOwned, DemandIsReserved, MidWrite,
     LetGoIsClosed, Closed, TypeInv, TypeOK
<1>6. ASSUME NEW i \in Ids, DropSend(i) PROVE Goal'
  BY <1>0, <1>6 DEF DropSend, SetAborted, LeaseIsOwned, DemandIsReserved, MidWrite,
     LetGoIsClosed, Closed, TypeInv, TypeOK
<1>7. ASSUME NEW i \in Ids, Start(i) \/ OpenTrailer(i) PROVE Goal'
  BY <1>0, <1>7 DEF Start, OpenTrailer, LeaseIsOwned, DemandIsReserved, MidWrite,
     LetGoIsClosed, Closed, TypeInv, TypeOK
<1>8. ASSUME NEW i \in Ids, GrantSend(i) PROVE Goal'
  <2>1. sstate[i] # "Demand" => buffer[i] > 0
    BY <1>0, <1>8 DEF GrantSend, LeaseIsOwned
  <2> QED BY <1>0, <1>8, <2>1 DEF GrantSend, LeaseIsOwned, DemandIsReserved, MidWrite,
     LetGoIsClosed, Closed, TypeInv, TypeOK
<1>9. ASSUME NEW i \in Ids, SendFragment(i) PROVE Goal'
  BY <1>0, <1>9 DEF SendFragment, Completed, Conclude, LeaseIsOwned, DemandIsReserved,
     MidWrite, LetGoIsClosed, Closed, TypeInv, TypeOK
<1>10. ASSUME NEW i \in Ids, SendTerminal(i) PROVE Goal'
  BY <1>0, <1>10 DEF SendTerminal, Conclude, LeaseIsOwned, DemandIsReserved,
     MidWrite, LetGoIsClosed, Closed, TypeInv, TypeOK
<1>11. ASSUME NEW i \in Ids, CancelSend(i) PROVE Goal'
  BY <1>0, <1>11 DEF CancelSend, SetAborted, Conclude, LeaseIsOwned, DemandIsReserved,
     MidWrite, LetGoIsClosed, Closed, TypeInv, TypeOK
<1>12. ASSUME NEW i \in Ids, PeerDiscarded(i) PROVE Goal'
  BY <1>0, <1>12 DEF PeerDiscarded, LeaseIsOwned, DemandIsReserved,
     MidWrite, LetGoIsClosed, Closed, TypeInv, TypeOK
<1>13. ASSUME NEW i \in Ids, RecvCredit(i) \/ Receiver(i) \/ Consumer(i) PROVE Goal'
  <2>1. UNCHANGED <<place, sstate, reserved, buffer, lease>>
    BY <1>13 DEF RecvCredit, Receiver, Consumer, AcceptFragment, Overrun, TakeOver,
       DriverRead, CompleteRecv, RecvLast, RecvAbort, ReadStage, ReadDirect,
       ReadDirectPending, ReadDemand, RetireDelivered, DropRecv, svars
  <2> QED BY <1>0, <2>1 DEF LeaseIsOwned, DemandIsReserved, MidWrite, LetGoIsClosed
<1>14. CASE UNCHANGED vars
  BY <1>0, <1>14 DEF vars, svars, LeaseIsOwned, DemandIsReserved, MidWrite, LetGoIsClosed
<1>15. Goal'
  BY <1>1, <1>2, <1>3, <1>4, <1>5, <1>6, <1>7, <1>8, <1>9, <1>10, <1>11, <1>12, <1>13,
     <1>14 DEF Next, Producer, Writer, Ended
<1> QED BY <1>15

\* ... and every step keeps the writers covered, whatever the applications do:
\* what settles a debt early also ends the producer.
LEMMA WriterStep ==
  ASSUME TypeInv, RecvInv, SendInv, [Next]_vars
  PROVE  WriterIsCovered'
<1>0. PoolOK(spool) /\ PoolOK(rpool) /\ WriterIsCovered
  BY DEF TypeInv, TypeOK, PoolsConserved, PoolOK, SendInv
<1>1. ASSUME NEW j \in Ids
      PROVE  /\ spool.debt[j] \in Nat /\ rpool.debt[j] \in Nat
             /\ credits[j] \in Nat /\ wire[j] \in Nat /\ buffer[j] \in Nat
             /\ reserved[j] \in Nat
  BY <1>0, DebtSteps DEF TypeInv, TypeOK
<1>2. ASSUME NEW i \in Ids,
             \/ PollWriteBehind(i) \/ Finish(i) \/ Start(i) \/ OpenTrailer(i)
             \/ GrantSend(i) \/ GraceExpired(i) \/ Overrun(i) \/ TakeOver(i)
             \/ DriverRead(i) \/ CompleteRecv(i) \/ RecvAbort(i) \/ ReadStage(i)
             \/ ReadDirect(i) \/ ReadDirectPending(i)
      PROVE  WriterIsCovered'
  <2>1. UNCHANGED <<spool, rpool, credits, wire, buffer, reserved, reader>>
    BY <1>2 DEF PollWriteBehind, Finish, Start, OpenTrailer, GrantSend, GraceExpired,
                Overrun, TakeOver, DriverRead, CompleteRecv, RecvAbort, ReadStage,
                ReadDirect, ReadDirectPending, svars, wvars, rvars
  <2>2. \A j \in Ids : sstate[j] \in Closed => sstate'[j] \in Closed
    <3>1. CASE PollWriteBehind(i) \/ GrantSend(i) \/ GraceExpired(i)
      BY <3>1 DEF PollWriteBehind, GrantSend, GraceExpired, Closed, SendInv,
         LeaseIsOwned, TypeInv, TypeOK
    <3>2. CASE Finish(i)
      BY <3>2 DEF Finish, Finished, Closed, TypeInv, TypeOK
    <3>3. CASE \/ Start(i) \/ OpenTrailer(i) \/ Overrun(i) \/ TakeOver(i)
               \/ DriverRead(i) \/ CompleteRecv(i) \/ RecvAbort(i) \/ ReadStage(i)
               \/ ReadDirect(i) \/ ReadDirectPending(i)
      <4>1. sstate' = sstate
        BY <3>3 DEF Start, OpenTrailer, Overrun, TakeOver, DriverRead, CompleteRecv,
           RecvAbort, ReadStage, ReadDirect, ReadDirectPending, svars
      <4> QED BY <4>1
    <3> QED BY <1>2, <3>1, <3>2, <3>3
  <2> QED BY <1>0, <2>1, <2>2 DEF WriterIsCovered
<1>3. ASSUME NEW i \in Ids, PollWriteIdle(i) PROVE WriterIsCovered'
  <2>1. PICK want \in 1..Lesser(toWrite[i], MaxFragment) :
               /\ spool' = DebitUpTo(spool, i, want)
               /\ \/ /\ buffer' = [buffer EXCEPT ![i] = Granted(spool, want)]
                     /\ UNCHANGED reserved
                  \/ /\ reserved' = [reserved EXCEPT ![i] = Granted(spool, want)]
                     /\ UNCHANGED buffer
    BY <1>3 DEF PollWriteIdle
  <2>2. want \in Nat
    BY <2>1, SizesAssumption DEF TypeInv, TypeOK, Lesser
  <2>3. Granted(spool, want) \in Nat
    BY <2>2, SizesAssumption DEF TypeInv, TypeOK, WindowType, Granted, Lesser
  <2>4. \A j \in Ids : spool'.debt[j] =
          IF j = i THEN spool.debt[i] + Granted(spool, want) ELSE spool.debt[j]
    BY <1>0, <2>1, <2>2, DebtSteps
  <2>5. UNCHANGED <<rpool, credits, wire, reader>>
    BY <1>3 DEF PollWriteIdle, wvars, rvars
  <2>6. /\ sstate[i] \notin Closed
        /\ \A j \in Ids : j # i => sstate'[j] = sstate[j]
    BY <1>3 DEF PollWriteIdle, Closed, TypeInv, TypeOK
  <2> QED BY <1>0, <1>1, <2>1, <2>3, <2>4, <2>5, <2>6 DEF WriterIsCovered, TypeInv, TypeOK
<1>4. ASSUME NEW i \in Ids, PollWriteLeased(i) \/ PollWriteBlocked(i)
      PROVE  WriterIsCovered'
  <2>1. PICK len \in 1..Lesser(reserved[i], Lesser(toWrite[i], MaxFragment)) :
               /\ spool' = Refund(spool, i, reserved[i] - len)
               /\ \/ /\ buffer' = [buffer EXCEPT ![i] = len]
                     /\ reserved' = [reserved EXCEPT ![i] = 0]
                  \/ /\ reserved' = [reserved EXCEPT ![i] = len]
                     /\ UNCHANGED buffer
    BY <1>4 DEF PollWriteLeased, PollWriteBlocked, Unreserve
  <2>2. len \in Nat /\ reserved[i] - len \in Nat
    BY <2>1, SizesAssumption DEF TypeInv, TypeOK, Lesser
  <2>3. /\ spool'.debt[i] = IF reserved[i] - len <= spool.debt[i]
                            THEN spool.debt[i] - (reserved[i] - len) ELSE 0
        /\ \A j \in Ids : j # i => spool'.debt[j] = spool.debt[j]
    BY <1>0, <2>1, <2>2, RefundDebt
  <2>4. UNCHANGED <<rpool, credits, wire, reader>>
    BY <1>4 DEF PollWriteLeased, PollWriteBlocked, wvars, rvars
  <2>5. /\ sstate[i] \notin Closed
        /\ \A j \in Ids : j # i => sstate'[j] = sstate[j]
    BY <1>4 DEF PollWriteLeased, PollWriteBlocked, Closed, TypeInv, TypeOK
  <2> QED BY <1>0, <1>1, <2>1, <2>2, <2>3, <2>4, <2>5 DEF WriterIsCovered, TypeInv, TypeOK
<1>5. ASSUME NEW i \in Ids, DropSend(i) \/ CancelSend(i) \/ PeerDiscarded(i)
      PROVE  WriterIsCovered'
  <2>1. sstate'[i] \in Closed /\ (\A j \in Ids : j # i => sstate'[j] = sstate[j])
    <3>1. DropSend(i) => sstate'[i] \in Closed
      BY DEF DropSend, SetAborted, Closed, TypeInv, TypeOK
    <3>2. CancelSend(i) => sstate'[i] \in Closed
      BY DEF CancelSend, SetAborted, Closed, SendInv, LetGoIsClosed, TypeInv, TypeOK
    <3>3. PeerDiscarded(i) => sstate'[i] \in Closed
      <4>1. PeerDiscarded(i) => place[i] \notin {"waiting", "active"}
        BY DEF PeerDiscarded, RecvInv, DiscardMeansDropped, DroppedOwesNothing,
           OpensThenEnds
      <4> QED BY <4>1 DEF PeerDiscarded, Closed, SendInv, LetGoIsClosed, TypeInv, TypeOK,
           Places
    <3>4. \A j \in Ids : j # i => sstate'[j] = sstate[j]
      BY <1>5 DEF DropSend, CancelSend, SetAborted, PeerDiscarded, TypeInv, TypeOK
    <3> QED BY <1>5, <3>1, <3>2, <3>3, <3>4
  <2>2. \A j \in Ids : j # i => spool'.debt[j] = spool.debt[j]
    <3>1. \A j \in Ids : Settle(spool, i).debt[j] = IF j = i THEN 0 ELSE spool.debt[j]
      BY <1>0, DebtSteps
    <3>2. spool' = spool \/ spool' = Settle(spool, i)
      BY <1>5 DEF DropSend, CancelSend, SetAborted, PeerDiscarded, PeerDiscardedPool
    <3> QED BY <3>1, <3>2
  <2>3. UNCHANGED <<rpool, credits, wire, reserved, reader>>
    BY <1>5 DEF DropSend, CancelSend, PeerDiscarded, wvars, rvars
  <2>4. \A j \in Ids : j # i => buffer'[j] = buffer[j]
    BY <1>5 DEF DropSend, CancelSend, PeerDiscarded, TypeInv, TypeOK
  <2> QED BY <1>0, <2>1, <2>2, <2>3, <2>4 DEF WriterIsCovered
<1>6. ASSUME NEW i \in Ids, SendFragment(i) \/ SendTerminal(i) PROVE WriterIsCovered'
  <2>1. \A j \in Ids : sstate[j] \in Closed => sstate'[j] \in Closed
    BY <1>6 DEF SendFragment, SendTerminal, Completed, Closed, TypeInv, TypeOK
  <2>2. UNCHANGED <<rpool, spool, credits, reserved, reader>>
    BY <1>6 DEF SendFragment, SendTerminal, rvars
  <2>3. \A j \in Ids : /\ buffer'[j] \in Nat /\ wire'[j] \in Nat
                       /\ wire'[j] + buffer'[j] <= wire[j] + buffer[j]
    BY <1>1, <1>6 DEF SendFragment, SendTerminal, TypeInv, TypeOK
  <2> QED BY <1>0, <1>1, <2>1, <2>2, <2>3 DEF WriterIsCovered
<1>7. ASSUME NEW i \in Ids, RecvCredit(i) PROVE WriterIsCovered'
  <2>1. PICK n \in 1..credits[i] : /\ credits' = [credits EXCEPT ![i] = @ - n]
                                   /\ spool' = Refund(spool, i, n)
    BY <1>7 DEF RecvCredit
  <2>2. n \in Nat /\ n <= credits[i]
    BY <1>1, <2>1
  <2>3. /\ spool'.debt[i] = IF n <= spool.debt[i] THEN spool.debt[i] - n ELSE 0
        /\ \A j \in Ids : j # i => spool'.debt[j] = spool.debt[j]
    BY <1>0, <2>1, <2>2, RefundDebt
  <2>4. UNCHANGED <<sstate, rpool, wire, buffer, reserved, reader>>
    BY <1>7 DEF RecvCredit, rvars
  <2> QED BY <1>0, <1>1, <2>1, <2>2, <2>3, <2>4 DEF WriterIsCovered, TypeInv, TypeOK
<1>8. ASSUME NEW i \in Ids, AcceptFragment(i) PROVE WriterIsCovered'
  <2>1. PICK n \in 1..Lesser(wire[i], MaxFragment) :
               /\ wire' = [wire EXCEPT ![i] = @ - n]
               /\ rpool' = IF Charged(i) THEN AcceptBytes(rpool, i, n) ELSE rpool
    BY <1>8 DEF AcceptFragment
  <2>2. n \in Nat /\ n <= wire[i]
    BY <1>1, <2>1, SizesAssumption DEF Lesser
  <2>3. \A j \in Ids : AcceptBytes(rpool, i, n).debt[j] =
                         IF j = i THEN rpool.debt[i] + n ELSE rpool.debt[j]
    BY <1>0, <2>2, DebtSteps
  <2>4. UNCHANGED <<sstate, spool, credits, buffer, reserved, reader>>
    BY <1>8 DEF AcceptFragment, svars
  <2> QED BY <1>0, <1>1, <2>1, <2>2, <2>3, <2>4 DEF WriterIsCovered, TypeInv, TypeOK
<1>9. ASSUME NEW i \in Ids, NEW amount \in Nat, Flush(i, amount), reader[i],
              amount <= rpool.debt[i],
              UNCHANGED <<sstate, spool, wire, buffer, reserved, reader>>
       PROVE  WriterIsCovered'
  <2>1. /\ rpool'.debt[i] = IF amount <= rpool.debt[i] THEN rpool.debt[i] - amount ELSE 0
        /\ \A j \in Ids : j # i => rpool'.debt[j] = rpool.debt[j]
    BY <1>0, <1>9, RefundDebt DEF Flush
  <2> QED BY <1>0, <1>1, <1>9, <2>1 DEF Flush, WriterIsCovered, TypeInv, TypeOK
<1>10. ASSUME NEW i \in Ids, ReadDemand(i) PROVE WriterIsCovered'
  <2>1. /\ Flush(i, pending[i]) /\ pending[i] \in Nat /\ reader[i]
        /\ UNCHANGED <<sstate, spool, wire, buffer, reserved, reader>>
    BY <1>10 DEF ReadDemand, Between, svars, TypeInv, TypeOK
  <2>2. pending[i] <= rpool.debt[i]
    BY <2>1 DEF RecvInv, ReceiverOwesWhatItHolds, TypeInv, TypeOK
  <2> QED BY <1>9, <2>1, <2>2
<1>11. ASSUME NEW i \in Ids, RetireDelivered(i) PROVE WriterIsCovered'
  <2>1. PICK n \in 1..out[i] : Retire(i, n)
    BY <1>11 DEF RetireDelivered, TypeInv, TypeOK
  <2>2. n \in Nat /\ n <= out[i] /\ out[i] \in Nat /\ pending[i] \in Nat
    BY <2>1 DEF TypeInv, TypeOK
  <2>3. UNCHANGED <<rpool, credits>> \/ Flush(i, pending[i] + n)
    BY <2>1 DEF Retire
  <2>4. reader[i] /\ UNCHANGED <<sstate, spool, wire, buffer, reserved, reader>>
    BY <1>11 DEF RetireDelivered, svars
  <2>5. pending[i] + n <= rpool.debt[i]
    BY <2>2, <2>4 DEF RecvInv, ReceiverOwesWhatItHolds, TypeInv, TypeOK
  <2>6. CASE UNCHANGED <<rpool, credits>>
    BY <1>0, <2>4, <2>6 DEF WriterIsCovered
  <2>7. CASE Flush(i, pending[i] + n)
    BY <1>9, <2>2, <2>4, <2>5, <2>7
  <2> QED BY <2>3, <2>6, <2>7
<1>12. ASSUME NEW i \in Ids, RecvLast(i) PROVE WriterIsCovered'
  \* A trailer that has been committed is closed.
  <2>1. sstate[i] \in Closed
    BY <1>12 DEF RecvLast, RecvInv, OpensThenEnds, SendInv, LetGoIsClosed
  <2>2. \A j \in Ids : j # i => rpool'.debt[j] = rpool.debt[j] /\ credits'[j] = credits[j]
    <3>1. pending[i] \in Nat
      BY DEF TypeInv, TypeOK
    <3>2. \A j \in Ids : j # i => Refund(rpool, i, pending[i]).debt[j] = rpool.debt[j]
      BY <1>0, <3>1, RefundDebt
    <3> QED BY <1>12, <3>2 DEF RecvLast, FinishFlush, Flush, TypeInv, TypeOK
  <2>3. UNCHANGED <<sstate, spool, wire, buffer, reserved, reader>>
    BY <1>12 DEF RecvLast, svars
  <2> QED BY <1>0, <2>1, <2>2, <2>3 DEF WriterIsCovered
<1>13. ASSUME NEW i \in Ids, DropRecv(i) PROVE WriterIsCovered'
  <2>1. \A j \in Ids : j # i => rpool'.debt[j] = rpool.debt[j]
    BY <1>0, <1>13, DebtSteps DEF DropRecv
  <2> QED BY <1>0, <1>1, <1>13, <2>1 DEF DropRecv, svars, WriterIsCovered, TypeInv, TypeOK
<1>14. CASE UNCHANGED vars
  BY <1>0, <1>14 DEF vars, svars, wvars, rvars, WriterIsCovered
<1> QED BY <1>2, <1>3, <1>4, <1>5, <1>6, <1>7, <1>8, <1>10, <1>11, <1>12, <1>13, <1>14
   DEF Next, Producer, Writer, Receiver, Consumer, Ended

\* What a step for one trailer leaves alone in another.
Same(j) ==
  /\ spool'.debt[j] = spool.debt[j] /\ rpool'.debt[j] = rpool.debt[j]
  /\ place'[j] = place[j] /\ sstate'[j] = sstate[j]
  /\ reserved'[j] = reserved[j] /\ buffer'[j] = buffer[j]
  /\ wire'[j] = wire[j] /\ credits'[j] = credits[j] /\ discards'[j] = discards[j]
  /\ rstate'[j] = rstate[j] /\ remaining'[j] = remaining[j]
  /\ pending'[j] = pending[j] /\ reader'[j] = reader[j]

\* A step of one trailer touches no other, not even in the shared pools.
LEMMA OthersStay ==
  ASSUME TypeInv, NEW i \in Ids, Producer(i) \/ Writer(i) \/ Receiver(i) \/ Consumer(i),
         NEW j \in Ids, j # i
  PROVE  Same(j)
<1>0. PoolOK(spool) /\ PoolOK(rpool)
  BY DEF TypeInv, TypeOK, PoolsConserved, PoolOK
<1>1. ASSUME NEW w, PoolOK(w)
      PROVE  /\ Settle(w, i).debt[j] = w.debt[j]
             /\ \A n \in Nat : /\ Refund(w, i, n).debt[j] = w.debt[j]
                               /\ DebitUpTo(w, i, n).debt[j] = w.debt[j]
                               /\ AcceptBytes(w, i, n).debt[j] = w.debt[j]
  BY <1>1, DebtSteps
<1>2. \A n \in 1..Lesser(toWrite[i], MaxFragment) : n \in Nat
  OBVIOUS
<1>3. \A n \in 1..Lesser(reserved[i], Lesser(toWrite[i], MaxFragment)) :
         reserved[i] - n \in Nat
  BY SizesAssumption DEF Lesser, TypeInv, TypeOK
<1>4. spool'.debt[j] = spool.debt[j]
  <2>1. CASE PollWriteIdle(i)
    <3>1. PICK want \in 1..Lesser(toWrite[i], MaxFragment) :
            spool' = DebitUpTo(spool, i, want)
      BY <2>1 DEF PollWriteIdle
    <3> QED BY <1>0, <1>1, <3>1
  <2>2. CASE PollWriteLeased(i) \/ PollWriteBlocked(i)
    <3>1. PICK len \in 1..Lesser(reserved[i], Lesser(toWrite[i], MaxFragment)) :
            spool' = Refund(spool, i, reserved[i] - len)
      BY <2>2 DEF PollWriteLeased, PollWriteBlocked, Unreserve
    <3> QED BY <1>0, <1>1, <1>3, <3>1
  <2>3. CASE DropSend(i) \/ CancelSend(i) \/ PeerDiscarded(i)
    <3>1. spool' = spool \/ spool' = Settle(spool, i)
      BY <2>3 DEF DropSend, CancelSend, SetAborted, PeerDiscarded, PeerDiscardedPool
    <3> QED BY <1>0, <1>1, <3>1
  <2>4. CASE RecvCredit(i)
    <3>1. PICK n \in 1..credits[i] : spool' = Refund(spool, i, n)
      BY <2>4 DEF RecvCredit
    <3> QED BY <1>0, <1>1, <3>1
  <2>5. CASE \/ PollWriteBehind(i) \/ Finish(i) \/ Start(i) \/ OpenTrailer(i)
             \/ GrantSend(i) \/ GraceExpired(i) \/ SendFragment(i) \/ SendTerminal(i)
             \/ Receiver(i) \/ Consumer(i)
    <3>1. spool' = spool
      BY <2>5 DEF PollWriteBehind, Finish, Start, OpenTrailer, GrantSend, GraceExpired,
         SendFragment, SendTerminal, Receiver, Consumer, AcceptFragment, Overrun, TakeOver,
         DriverRead, CompleteRecv, RecvLast, RecvAbort, ReadStage, ReadDirect,
         ReadDirectPending, ReadDemand, RetireDelivered, DropRecv, svars
    <3> QED BY <3>1
  <2> QED BY <2>1, <2>2, <2>3, <2>4, <2>5 DEF Producer, Writer
<1>5. rpool'.debt[j] = rpool.debt[j]
  <2>1. CASE AcceptFragment(i)
    <3>1. PICK n \in 1..Lesser(wire[i], MaxFragment) :
            rpool' = IF Charged(i) THEN AcceptBytes(rpool, i, n) ELSE rpool
      BY <2>1 DEF AcceptFragment
    <3> QED BY <1>0, <1>1, <3>1
  <2>2. CASE RecvLast(i) \/ ReadDemand(i)
    <3>1. rpool' = Refund(rpool, i, pending[i]) /\ pending[i] \in Nat
      BY <2>2 DEF RecvLast, ReadDemand, FinishFlush, Flush, TypeInv, TypeOK
    <3> QED BY <1>0, <1>1, <3>1
  <2>3. CASE RetireDelivered(i)
    <3>1. PICK n \in 1..out[i] : Retire(i, n)
      BY <2>3 DEF RetireDelivered, TypeInv, TypeOK
    <3>2. pending[i] + n \in Nat
      BY <3>1 DEF TypeInv, TypeOK
    <3>3. rpool' = rpool \/ rpool' = Refund(rpool, i, pending[i] + n)
      BY <3>1 DEF Retire, Flush
    <3> QED BY <1>0, <1>1, <3>2, <3>3
  <2>4. CASE DropRecv(i)
    <3>1. rpool' = Settle(rpool, i)
      BY <2>4 DEF DropRecv
    <3> QED BY <1>0, <1>1, <3>1
  <2>5. CASE \/ Producer(i) \/ Writer(i) \/ Overrun(i) \/ TakeOver(i) \/ DriverRead(i)
             \/ CompleteRecv(i) \/ RecvAbort(i) \/ ReadStage(i) \/ ReadDirect(i)
             \/ ReadDirectPending(i)
    <3>1. rpool' = rpool
      BY <2>5 DEF Producer, Writer, PollWriteIdle, PollWriteBehind, PollWriteLeased,
         PollWriteBlocked, Finish, DropSend, Start, OpenTrailer, GrantSend, GraceExpired,
         SendFragment, SendTerminal, CancelSend, RecvCredit, PeerDiscarded, Overrun,
         TakeOver, DriverRead, CompleteRecv, RecvAbort, ReadStage, ReadDirect,
         ReadDirectPending, rvars
    <3> QED BY <3>1
  <2> QED BY <2>1, <2>2, <2>3, <2>4, <2>5 DEF Receiver, Consumer
<1>6. /\ place'[j] = place[j] /\ sstate'[j] = sstate[j]
      /\ reserved'[j] = reserved[j] /\ buffer'[j] = buffer[j]
      /\ wire'[j] = wire[j] /\ credits'[j] = credits[j] /\ discards'[j] = discards[j]
      /\ rstate'[j] = rstate[j] /\ remaining'[j] = remaining[j]
      /\ pending'[j] = pending[j] /\ reader'[j] = reader[j]
  <2>1. CASE Producer(i)
    BY <2>1 DEF Producer, PollWriteIdle, PollWriteBehind, PollWriteLeased,
       PollWriteBlocked, Finish, DropSend, SetAborted, wvars, rvars, TypeInv, TypeOK
  <2>2. CASE Writer(i)
    BY <2>2 DEF Writer, Start, OpenTrailer, GrantSend, GraceExpired,
       SendFragment, SendTerminal, CancelSend, SetAborted, Conclude, RecvCredit,
       PeerDiscarded, wvars, rvars, TypeInv, TypeOK
  <2>3. CASE Receiver(i)
    BY <2>3 DEF Receiver, AcceptFragment, Overrun, TakeOver, DriverRead, CompleteRecv,
       RecvLast, RecvAbort, FinishFlush, Flush, svars, wvars, rvars, TypeInv, TypeOK
  <2>4. CASE Consumer(i)
    BY <2>4 DEF Consumer, ReadStage, ReadDirect, ReadDirectPending, ReadDemand,
       RetireDelivered, Retire, DropRecv, Flush, svars, wvars, rvars, TypeInv, TypeOK
  <2> QED BY <2>1, <2>2, <2>3, <2>4
<1> QED BY <1>4, <1>5, <1>6 DEF Same

\* Nothing is left behind: receivers are not dropped with bytes unread after
\* the end, and no trailer is finished in the middle of a write.
NoLeftovers == Liberties \cap {"drop_ended", "finish_pending"} = {}

\* The invariant holds at the start.
LEMMA StrandInit == Init => StrandInv
<1>1. \A i \in Ids : NewWindow(Ids, Window).debt[i] = 0
  BY DEF NewWindow
<1> QED BY <1>1 DEF Init, Zero, StrandInv, StrandAt, StagedOrReserved, EndsFlushed,
    AbortIsSettled, DebtIsAccounted, DebtExact, MidWrite

\* What the producer and the scheduler do to the staged and reserved bytes.
LEMMA StagedStep ==
  ASSUME NoLeftovers, TypeInv, SendInv, NEW i \in Ids, StrandAt(i),
         Producer(i) \/ Writer(i) \/ Receiver(i) \/ Consumer(i)
  PROVE  StagedOrReserved(i)'
<1>0. StagedOrReserved(i) /\ LetGoIsClosed /\ buffer[i] \in Nat
  BY DEF StrandAt, SendInv, TypeInv, TypeOK
<1>1. CASE PollWriteIdle(i) \/ PollWriteBehind(i) \/ PollWriteLeased(i) \/ PollWriteBlocked(i)
  <2>1. place[i] # "done"
    BY <1>0, <1>1 DEF PollWriteIdle, PollWriteBehind, PollWriteLeased, PollWriteBlocked,
       LetGoIsClosed, Closed
  <2> QED BY <1>0, <1>1, <2>1 DEF PollWriteIdle, PollWriteBehind, PollWriteLeased,
       PollWriteBlocked, StagedOrReserved, MidWrite, TypeInv, TypeOK
<1>2. CASE Finish(i)
  BY <1>0, <1>2, NoLeftovers DEF NoLeftovers, Finish, Finished, StagedOrReserved, MidWrite,
     TypeInv, TypeOK, SendStates
<1>3. CASE DropSend(i)
  BY <1>0, <1>3 DEF DropSend, SetAborted, StagedOrReserved, MidWrite, TypeInv, TypeOK
<1>4. CASE Start(i) \/ OpenTrailer(i) \/ GraceExpired(i)
  BY <1>0, <1>4 DEF Start, OpenTrailer, GraceExpired, StagedOrReserved, MidWrite,
     TypeInv, TypeOK
<1>5. CASE GrantSend(i)
  <2>1. sstate[i] # "Demand" => buffer[i] # 0
    BY <1>0, <1>5 DEF GrantSend, SendInv, LeaseIsOwned
  <2> QED BY <1>0, <1>5, <2>1 DEF GrantSend, StagedOrReserved, MidWrite, TypeInv, TypeOK
<1>6. CASE SendFragment(i) \/ SendTerminal(i)
  BY <1>0, <1>6 DEF SendFragment, SendTerminal, Completed, Conclude, StagedOrReserved,
     MidWrite, TypeInv, TypeOK
<1>7. CASE CancelSend(i) \/ PeerDiscarded(i)
  BY <1>0, <1>7 DEF CancelSend, SetAborted, Conclude, PeerDiscarded, StagedOrReserved,
     MidWrite, TypeInv, TypeOK
<1>8. CASE RecvCredit(i) \/ Receiver(i) \/ Consumer(i)
  <2>1. UNCHANGED <<place, sstate, reserved, buffer>>
    BY <1>8 DEF RecvCredit, Receiver, Consumer, AcceptFragment, Overrun, TakeOver,
       DriverRead, CompleteRecv, RecvLast, RecvAbort, ReadStage, ReadDirect,
       ReadDirectPending, ReadDemand, RetireDelivered, DropRecv, svars
  <2> QED BY <1>0, <2>1 DEF StagedOrReserved, MidWrite
<1> QED BY <1>1, <1>2, <1>3, <1>4, <1>5, <1>6, <1>7, <1>8 DEF Producer, Writer

\* What the receiver does to the credit it coalesces.
LEMMA FlushedStep ==
  ASSUME TypeInv, RecvInv, NEW i \in Ids, StrandAt(i),
         Producer(i) \/ Writer(i) \/ Receiver(i) \/ Consumer(i)
  PROVE  EndsFlushed(i)'
<1>0. /\ PoolOK(rpool) /\ EndsFlushed(i)
      /\ rpool.debt[i] \in Nat /\ out[i] \in Nat /\ pending[i] \in Nat /\ stage[i] \in Nat
      /\ remaining[i] \in Nat /\ wire[i] \in Nat
  <2>1. PoolOK(rpool)
    BY DEF TypeInv, TypeOK, PoolsConserved, PoolOK
  <2> QED BY <2>1, DebtSteps DEF StrandAt, TypeInv, TypeOK
<1>1. CASE Producer(i) \/ Writer(i)
  <2>1. UNCHANGED <<remaining, pending, rpool>>
        /\ (rstate'[i] = rstate[i] \/ rstate'[i] = "Idle")
    BY <1>1 DEF Producer, Writer, PollWriteIdle, PollWriteBehind, PollWriteLeased,
       PollWriteBlocked, Finish, DropSend, Start, OpenTrailer, GrantSend, GraceExpired,
       SendFragment, SendTerminal, CancelSend, RecvCredit, PeerDiscarded, rvars,
       TypeInv, TypeOK
  <2> QED BY <1>0, <2>1 DEF EndsFlushed
<1>2. CASE AcceptFragment(i)
  <2>1. wire[i] # 0
    BY <1>0, <1>2, SizesAssumption DEF AcceptFragment, Lesser
  <2>2. rstate[i] # "None"
    BY <2>1 DEF RecvInv, OpensThenEnds
  <2>3. rstate'[i] \in {"Discard", "Draining", "Unclaimed"}
    BY <1>2 DEF AcceptFragment, TypeInv, TypeOK
  <2> QED BY <2>2, <2>3 DEF EndsFlushed
<1>3. CASE Overrun(i) \/ TakeOver(i) \/ DriverRead(i) \/ CompleteRecv(i) \/ RecvAbort(i)
           \/ ReadDirect(i) \/ ReadDirectPending(i) \/ ReadStage(i)
  <2>1. UNCHANGED <<pending, rpool>>
    BY <1>3 DEF Overrun, TakeOver, DriverRead, CompleteRecv, RecvAbort, ReadDirect,
       ReadDirectPending, ReadStage, rvars
  <2>2. /\ rstate'[i] = "None" => rstate[i] = "None"
        /\ rstate'[i] = "Eof" => rstate[i] = "Eof" /\ remaining'[i] = remaining[i]
    BY <1>3 DEF Overrun, TakeOver, DriverRead, CompleteRecv, RecvAbort, ReadDirect,
       ReadDirectPending, ReadStage, rvars, TypeInv, TypeOK
  <2> QED BY <1>0, <2>1, <2>2 DEF EndsFlushed
<1>4. CASE RecvLast(i)
  <2>1. rlease # i => remaining[i] = 0
    BY DEF RecvInv, FragmentHasLease
  <2> QED BY <1>4, <2>1, IdsAssumption DEF RecvLast, FinishFlush, Flush, EndsFlushed,
      TypeInv, TypeOK
<1>5. CASE ReadDemand(i)
  <2>1. rstate'[i] \in {"Demand", "FragmentDemand"}
    BY <1>5 DEF ReadDemand, TypeInv, TypeOK
  <2> QED BY <2>1 DEF EndsFlushed
<1>6. CASE RetireDelivered(i)
  <2>1. PICK n \in 1..out[i] : Retire(i, n)
    BY <1>6 DEF RetireDelivered, TypeInv, TypeOK
  <2>2. UNCHANGED <<rstate, remaining>> /\ reader[i]
    BY <1>6 DEF RetireDelivered
  <2>3. rstate[i] # "None"
    BY <1>0, <2>1, <2>2 DEF EndsFlushed, RecvInv, ReceiverOwesWhatItHolds
  <2>4. rstate[i] = "Eof" => pending'[i] = 0
    BY <2>1 DEF Retire, MustFlush, Flush, TypeInv, TypeOK
  <2> QED BY <1>0, <2>2, <2>3, <2>4 DEF EndsFlushed
<1>7. CASE DropRecv(i)
  BY <1>0, <1>7 DEF DropRecv, EndsFlushed, TypeInv, TypeOK
<1> QED BY <1>1, <1>2, <1>3, <1>4, <1>5, <1>6, <1>7 DEF Receiver, Consumer

\* Settled trailers stay settled.
LEMMA SettledStep ==
  ASSUME TypeInv, RecvInv, SendInv, NEW i \in Ids, StrandAt(i),
         Producer(i) \/ Writer(i) \/ Receiver(i) \/ Consumer(i)
  PROVE  AbortIsSettled(i)'
<1>0. /\ PoolOK(spool) /\ AbortIsSettled(i) /\ LetGoIsClosed
      /\ credits[i] \in Nat
  BY DEF TypeInv, TypeOK, PoolsConserved, PoolOK, StrandAt, SendInv
<1>1. Settle(spool, i).debt[i] = 0
  BY <1>0, DebtSteps
<1>2. CASE DropSend(i) \/ PeerDiscarded(i)
  BY <1>1, <1>2 DEF DropSend, SetAborted, PeerDiscarded, PeerDiscardedPool, AbortIsSettled
<1>3. CASE CancelSend(i)
  BY <1>0, <1>1, <1>3 DEF CancelSend, SetAborted, Conclude, AbortIsSettled, TypeInv, TypeOK
<1>4. CASE RecvCredit(i)
  <2>1. PICK n \in 1..credits[i] : spool' = Refund(spool, i, n)
    BY <1>4 DEF RecvCredit
  <2>2. spool.debt[i] \in Nat
        /\ spool'.debt[i] = IF n <= spool.debt[i] THEN spool.debt[i] - n ELSE 0
    BY <1>0, <2>1, RefundDebt
  <2>3. UNCHANGED <<sstate, place>>
    BY <1>4 DEF RecvCredit
  <2>4. spool.debt[i] = 0 => spool'.debt[i] = 0
    BY <2>1, <2>2
  <2> QED BY <1>0, <2>3, <2>4 DEF AbortIsSettled
<1>5. CASE PollWriteIdle(i) \/ PollWriteLeased(i) \/ PollWriteBlocked(i)
  <2>1. sstate'[i] # "Abort" /\ place'[i] # "detached"
    BY <1>0, <1>5 DEF PollWriteIdle, PollWriteLeased, PollWriteBlocked, LetGoIsClosed,
       Closed, TypeInv, TypeOK
  <2> QED BY <2>1 DEF AbortIsSettled
<1>6. CASE \/ PollWriteBehind(i) \/ Finish(i) \/ Start(i) \/ OpenTrailer(i)
           \/ GrantSend(i) \/ GraceExpired(i) \/ SendFragment(i) \/ SendTerminal(i)
  <2>1. spool' = spool
    BY <1>6 DEF PollWriteBehind, Finish, Start, OpenTrailer, GrantSend, GraceExpired,
       SendFragment, SendTerminal
  <2>2. sstate'[i] = "Abort" => sstate[i] = "Abort"
    <3>1. CASE Finish(i)
      BY <3>1 DEF Finish, Finished, TypeInv, TypeOK
    <3>2. CASE SendFragment(i)
      BY <3>2 DEF SendFragment, Completed, TypeInv, TypeOK
    <3>3. CASE \/ PollWriteBehind(i) \/ Start(i) \/ OpenTrailer(i)
               \/ GrantSend(i) \/ GraceExpired(i) \/ SendTerminal(i)
      BY <3>3 DEF PollWriteBehind, Start, OpenTrailer, GrantSend, GraceExpired,
         SendTerminal, TypeInv, TypeOK
    <3> QED BY <1>6, <3>1, <3>2, <3>3
  <2>3. place'[i] = "detached" => place[i] = "detached"
    BY <1>6 DEF PollWriteBehind, Finish, Start, OpenTrailer, GrantSend, GraceExpired,
       SendFragment, SendTerminal, Conclude, TypeInv, TypeOK
  <2> QED BY <1>0, <2>1, <2>2, <2>3 DEF AbortIsSettled
<1>7. CASE Receiver(i) \/ Consumer(i)
  <2>1. UNCHANGED <<place, sstate, spool>>
    BY <1>7 DEF Receiver, Consumer, AcceptFragment, Overrun, TakeOver,
       DriverRead, CompleteRecv, RecvLast, RecvAbort, ReadStage, ReadDirect,
       ReadDirectPending, ReadDemand, RetireDelivered, DropRecv, svars
  <2> QED BY <1>0, <2>1 DEF AbortIsSettled
<1> QED BY <1>2, <1>3, <1>4, <1>5, <1>6, <1>7 DEF Producer, Writer

\* Every step leaves the debt of its trailer accounted for.
LEMMA AccountStep ==
  ASSUME NoLeftovers, TypeInv, RecvInv, SendInv, NEW i \in Ids, StrandAt(i),
         Producer(i) \/ Writer(i) \/ Receiver(i) \/ Consumer(i)
  PROVE  DebtIsAccounted(i)'
<1>0. PoolOK(spool) /\ PoolOK(rpool)
  BY DEF TypeInv, TypeOK, PoolsConserved, PoolOK
<1>1. /\ spool.debt[i] \in Nat /\ rpool.debt[i] \in Nat
      /\ credits[i] \in Nat /\ wire[i] \in Nat /\ buffer[i] \in Nat
      /\ reserved[i] \in Nat /\ pending[i] \in Nat /\ out[i] \in Nat
  BY <1>0, DebtSteps DEF TypeInv, TypeOK
<1>2. /\ StagedOrReserved(i) /\ EndsFlushed(i) /\ AbortIsSettled(i) /\ DebtIsAccounted(i)
      /\ LetGoIsClosed
  BY DEF StrandAt, SendInv
\* The producer debits, or returns, exactly what it reserves and stages.
<1>3. CASE PollWriteIdle(i) \/ PollWriteLeased(i) \/ PollWriteBlocked(i)
  <2>1. sstate[i] \notin Closed /\ place[i] # "done"
    BY <1>2, <1>3 DEF PollWriteIdle, PollWriteLeased, PollWriteBlocked, LetGoIsClosed, Closed
  <2>2. UNCHANGED <<rpool, credits, wire, reader, discards>>
    BY <1>3 DEF PollWriteIdle, PollWriteLeased, PollWriteBlocked, wvars, rvars
  <2>3. DebtDiscarded(i) => DebtDiscarded(i)'
    BY <2>2 DEF DebtDiscarded
  <2>0. spool'.debt[i] \in Int /\ buffer'[i] \in Int /\ reserved'[i] \in Int
    <3>1. TypeInv'
      BY TypeStep DEF Next
    <3>2. spool'.debt \in [Ids -> 0..Window]
      BY <3>1 DEF TypeInv, TypeOK, WindowType
    <3> QED BY <3>1, <3>2, SizesAssumption DEF TypeInv, TypeOK
  <2>4. DebtExact(i) => spool'.debt[i] + buffer[i] + reserved[i] =
                        spool.debt[i] + buffer'[i] + reserved'[i]
    <3>1. CASE PollWriteIdle(i)
      <4>1. PICK want \in 1..Lesser(toWrite[i], MaxFragment) :
              /\ spool' = DebitUpTo(spool, i, want)
              /\ \/ /\ buffer' = [buffer EXCEPT ![i] = Granted(spool, want)]
                    /\ UNCHANGED reserved
                 \/ /\ reserved' = [reserved EXCEPT ![i] = Granted(spool, want)]
                    /\ UNCHANGED buffer
        BY <3>1 DEF PollWriteIdle
      <4>2. Granted(spool, want) \in Nat
        BY <4>1, SizesAssumption DEF TypeInv, TypeOK, WindowType, Granted, Lesser
      <4>3. spool'.debt[i] = spool.debt[i] + Granted(spool, want)
        BY <1>0, <4>1, DebtSteps
      <4>4. buffer[i] = 0 /\ reserved[i] = 0
        BY <1>2, <3>1 DEF PollWriteIdle, StagedOrReserved, MidWrite
      <4>5. buffer'[i] + reserved'[i] = Granted(spool, want)
        BY <4>1, <4>2, <4>4 DEF TypeInv, TypeOK
      <4> HIDE DEF Granted
      <4> QED BY <1>1, <2>0, <4>2, <4>3, <4>4, <4>5
    <3>2. CASE PollWriteLeased(i) \/ PollWriteBlocked(i)
      <4>1. PICK len \in 1..Lesser(reserved[i], Lesser(toWrite[i], MaxFragment)) :
              /\ spool' = Refund(spool, i, reserved[i] - len)
              /\ \/ /\ buffer' = [buffer EXCEPT ![i] = len]
                    /\ reserved' = [reserved EXCEPT ![i] = 0]
                 \/ /\ reserved' = [reserved EXCEPT ![i] = len]
                    /\ UNCHANGED buffer
        BY <3>2 DEF PollWriteLeased, PollWriteBlocked, Unreserve
      <4>2. len \in Nat /\ reserved[i] - len \in Nat
        BY <1>1, <4>1, SizesAssumption DEF Lesser, TypeInv, TypeOK
      <4>3. spool'.debt[i] = IF reserved[i] - len <= spool.debt[i]
                             THEN spool.debt[i] - (reserved[i] - len) ELSE 0
        BY <1>0, <4>1, <4>2, RefundDebt
      <4>4. buffer[i] = 0
        BY <1>2, <3>2 DEF PollWriteLeased, PollWriteBlocked, StagedOrReserved
      <4>5. buffer'[i] + reserved'[i] = len
        BY <4>1, <4>2, <4>4 DEF TypeInv, TypeOK
      <4>6. DebtExact(i) => reserved[i] <= spool.debt[i]
        BY <1>1 DEF DebtExact
      <4> QED BY <1>1, <2>0, <4>2, <4>3, <4>4, <4>5, <4>6
    <3> QED BY <1>3, <3>1, <3>2
  <2>5. DebtExact(i) => DebtExact(i)'
    <3>1. SUFFICES ASSUME DebtExact(i) PROVE DebtExact(i)'
      OBVIOUS
    <3>2. spool.debt[i] = rpool.debt[i] + credits[i] + wire[i] + buffer[i] + reserved[i]
      BY <3>1 DEF DebtExact
    <3>3. spool'.debt[i] + buffer[i] + reserved[i] =
            spool.debt[i] + buffer'[i] + reserved'[i]
      BY <2>4, <3>1
    <3>4. spool'.debt[i] = rpool.debt[i] + credits[i] + wire[i] + buffer'[i] + reserved'[i]
      <4> DEFINE s1 == spool'.debt[i]
                 b1 == buffer'[i]
                 v1 == reserved'[i]
                 s0 == spool.debt[i]
                 r0 == rpool.debt[i]
      <4>1. s1 \in Int /\ b1 \in Int /\ v1 \in Int /\ s0 \in Int /\ r0 \in Int
        BY <1>1, <2>0
      <4>2. s0 = r0 + credits[i] + wire[i] + buffer[i] + reserved[i]
        BY <3>2
      <4>3. s1 + buffer[i] + reserved[i] = s0 + b1 + v1
        BY <3>3
      <4>4. s1 = r0 + credits[i] + wire[i] + b1 + v1
        <5> HIDE DEF s1, b1, v1, s0, r0
        <5> QED BY <1>1, <4>1, <4>2, <4>3
      <4> QED BY <4>4
    <3> QED BY <2>2, <3>1, <3>4 DEF DebtExact
  <2> QED BY <1>2, <2>1, <2>3, <2>5 DEF DebtIsAccounted, DebtSettled, DebtReturns
\* Whatever settles the pool closes the producer.
<1>4. CASE DropSend(i) \/ CancelSend(i) \/ PeerDiscarded(i)
  <2>1. Settle(spool, i).debt[i] = 0
    BY <1>0, DebtSteps
  <2>2. spool'.debt[i] = 0
    BY <1>2, <1>4, <2>1 DEF DropSend, CancelSend, SetAborted, PeerDiscarded,
       PeerDiscardedPool, AbortIsSettled
  <2>3. sstate'[i] \in Closed
    <3>1. DropSend(i) => sstate'[i] \in Closed
      BY DEF DropSend, SetAborted, Closed, TypeInv, TypeOK
    <3>2. CancelSend(i) => sstate'[i] \in Closed
      BY <1>2 DEF CancelSend, SetAborted, Closed, LetGoIsClosed, TypeInv, TypeOK
    <3>3. PeerDiscarded(i) => sstate'[i] \in Closed
      <4>1. PeerDiscarded(i) => place[i] \notin {"waiting", "active"}
        BY DEF PeerDiscarded, RecvInv, DiscardMeansDropped, DroppedOwesNothing,
           OpensThenEnds
      <4> QED BY <1>2, <4>1 DEF PeerDiscarded, Closed, LetGoIsClosed, TypeInv, TypeOK,
           Places
    <3> QED BY <1>4, <3>1, <3>2, <3>3
  <2> QED BY <2>2, <2>3 DEF DebtIsAccounted, DebtSettled
\* A fragment takes its bytes to the wire; an ABORT drops them, but then the
\* trailer is settled.
<1>5. CASE SendFragment(i) \/ SendTerminal(i)
  <2>1. UNCHANGED <<spool, rpool, credits, reserved, reader, discards, rstate>>
    BY <1>5 DEF SendFragment, SendTerminal, rvars
  <2>2. sstate[i] \in Closed => sstate'[i] \in Closed
    BY <1>5 DEF SendFragment, SendTerminal, Completed, Closed, TypeInv, TypeOK
  <2>3. place[i] # "done"
    BY <1>5 DEF SendFragment, SendTerminal, RecvInv, FragmentHasLease
  <2>4. DebtSettled(i) => DebtSettled(i)'
    BY <2>1, <2>2 DEF DebtSettled
  <2>5. DebtDiscarded(i) => DebtDiscarded(i)'
    BY <2>1 DEF DebtDiscarded
  <2>6. DebtExact(i) => DebtExact(i)' \/ DebtSettled(i)'
    <3>1. CASE SendFragment(i)
      <4>1. wire'[i] = wire[i] + buffer[i] /\ buffer'[i] = 0
        BY <3>1 DEF SendFragment, TypeInv, TypeOK
      <4> QED BY <1>1, <2>1, <4>1 DEF DebtExact
    <3>2. CASE SendTerminal(i) /\ sstate[i] = "Finish"
      <4>1. wire'[i] = wire[i] /\ buffer'[i] = buffer[i]
        BY <1>2, <3>2 DEF SendTerminal, StagedOrReserved, TypeInv, TypeOK
      <4> QED BY <2>1, <4>1 DEF DebtExact
    <3>3. CASE SendTerminal(i) /\ sstate[i] # "Finish"
      <4>1. spool.debt[i] = 0 /\ sstate[i] \in Closed
        BY <1>2, <3>3 DEF SendTerminal, AbortIsSettled, LetGoIsClosed, Closed
      <4> QED BY <2>4, <4>1 DEF DebtSettled
    <3> QED BY <1>5, <3>1, <3>2, <3>3
  <2> QED BY <1>2, <2>3, <2>4, <2>5, <2>6 DEF DebtIsAccounted, DebtReturns
\* Credit is refunded once.
<1>6. CASE RecvCredit(i)
  <2>1. PICK n \in 1..credits[i] : /\ credits' = [credits EXCEPT ![i] = @ - n]
                                   /\ spool' = Refund(spool, i, n)
    BY <1>6 DEF RecvCredit
  <2>2. n \in Nat /\ n <= credits[i] /\ credits'[i] = credits[i] - n
    BY <1>1, <2>1 DEF TypeInv, TypeOK
  <2>3. spool'.debt[i] = IF n <= spool.debt[i] THEN spool.debt[i] - n ELSE 0
    BY <1>0, <2>1, <2>2, RefundDebt
  <2>4. UNCHANGED <<place, sstate, rpool, wire, buffer, reserved, reader, discards, rstate>>
    BY <1>6 DEF RecvCredit, rvars
  <2>5. DebtSettled(i) => DebtSettled(i)'
    BY <1>1, <2>2, <2>3, <2>4 DEF DebtSettled
  <2>6. DebtDiscarded(i) => DebtDiscarded(i)'
    BY <2>4 DEF DebtDiscarded
  <2>7. DebtExact(i) => DebtExact(i)'
    BY <1>1, <2>2, <2>3, <2>4 DEF DebtExact
  <2>8. DebtReturns(i) => DebtReturns(i)'
    BY <1>1, <2>2, <2>3, <2>4 DEF DebtReturns
  <2> QED BY <1>2, <2>5, <2>6, <2>7, <2>8 DEF DebtIsAccounted
\* The receiver charges what arrives for a living reader.
<1>7. CASE AcceptFragment(i)
  <2>1. PICK n \in 1..Lesser(wire[i], MaxFragment) :
               /\ wire' = [wire EXCEPT ![i] = @ - n]
               /\ rpool' = IF Charged(i) THEN AcceptBytes(rpool, i, n) ELSE rpool
    BY <1>7 DEF AcceptFragment
  <2>2. n \in Nat /\ n > 0 /\ n <= wire[i] /\ wire'[i] = wire[i] - n
    BY <1>1, <2>1, SizesAssumption DEF Lesser, TypeInv, TypeOK
  <2>3. AcceptBytes(rpool, i, n).debt[i] = rpool.debt[i] + n
    BY <1>0, <2>2, DebtSteps
  <2>4. UNCHANGED <<sstate, spool, credits, buffer, reserved, reader, discards>>
    BY <1>7 DEF AcceptFragment, svars
  <2>5. rstate[i] # "Eof" /\ (reader[i] => Charged(i))
    BY <1>1, <2>2 DEF Charged, RecvInv, OpensThenEnds, DiscardMeansDropped
  <2>6. DebtExact(i) => DebtExact(i)'
    BY <1>1, <2>1, <2>2, <2>3, <2>4, <2>5 DEF DebtExact
  <2> QED BY <1>2, <2>4, <2>5, <2>6 DEF DebtIsAccounted, DebtSettled, DebtDiscarded, DebtReturns
\* What is flushed leaves the receiver's pool and becomes credit.
<1>8. ASSUME NEW amount \in Nat, Flush(i, amount), reader[i], amount <= rpool.debt[i],
             UNCHANGED <<sstate, spool, wire, buffer, reserved, reader, discards>>
      PROVE  DebtIsAccounted(i)'
  <2>1. rpool'.debt[i] = IF amount <= rpool.debt[i] THEN rpool.debt[i] - amount ELSE 0
    BY <1>0, <1>8, RefundDebt DEF Flush
  <2>2. credits'[i] = credits[i] + amount
    BY <1>8 DEF Flush, TypeInv, TypeOK
  <2>3. DebtExact(i) => DebtExact(i)'
    BY <1>1, <1>8, <2>1, <2>2 DEF DebtExact
  <2> QED BY <1>2, <1>8, <2>3 DEF DebtIsAccounted, DebtSettled, DebtDiscarded, DebtReturns
<1>9. CASE ReadDemand(i)
  <2>1. /\ Flush(i, pending[i]) /\ reader[i]
        /\ UNCHANGED <<sstate, spool, wire, buffer, reserved, reader, discards>>
    BY <1>9 DEF ReadDemand, Between, svars
  <2>2. pending[i] <= rpool.debt[i]
    BY <2>1 DEF RecvInv, ReceiverOwesWhatItHolds, TypeInv, TypeOK
  <2> QED BY <1>1, <1>8, <2>1, <2>2
<1>10. CASE RetireDelivered(i)
  <2>1. PICK n \in 1..out[i] : Retire(i, n)
    BY <1>10 DEF RetireDelivered, TypeInv, TypeOK
  <2>2. n \in Nat /\ n <= out[i] /\ pending[i] + n \in Nat
    BY <1>1, <2>1
  <2>3. UNCHANGED <<rpool, credits>> \/ Flush(i, pending[i] + n)
    BY <2>1 DEF Retire
  <2>4. /\ reader[i] /\ UNCHANGED <<sstate, spool, wire, buffer, reserved, reader, discards>>
        /\ UNCHANGED <<rstate, place>>
    BY <1>10 DEF RetireDelivered, svars
  <2>5. pending[i] + n <= rpool.debt[i]
    BY <1>1, <2>2, <2>4 DEF RecvInv, ReceiverOwesWhatItHolds, TypeInv, TypeOK
  <2>6. CASE UNCHANGED <<rpool, credits>>
    BY <1>2, <2>4, <2>6 DEF DebtIsAccounted, DebtSettled, DebtDiscarded, DebtExact,
       DebtReturns
  <2>7. CASE Flush(i, pending[i] + n)
    BY <1>8, <2>2, <2>4, <2>5, <2>7
  <2> QED BY <2>3, <2>6, <2>7
\* The terminal commit flushes too; for a reader that is gone, the debt is
\* settled or about to be.
<1>11. CASE RecvLast(i)
  <2>1. /\ Flush(i, pending[i])
        /\ UNCHANGED <<sstate, spool, wire, buffer, reserved, reader, discards>>
    BY <1>11 DEF RecvLast, FinishFlush, svars
  <2>2. CASE reader[i]
    <3>1. pending[i] <= rpool.debt[i]
      BY <2>2 DEF RecvInv, ReceiverOwesWhatItHolds, TypeInv, TypeOK
    <3> QED BY <1>1, <1>8, <2>1, <2>2, <3>1
  <2>3. CASE ~reader[i]
    <3>1. rstate[i] # "Eof"
      BY <1>11 DEF RecvLast, RecvInv, OpensThenEnds
    <3> QED BY <1>2, <2>1, <2>3, <3>1 DEF DebtIsAccounted, DebtSettled, DebtDiscarded,
        DebtExact, DebtReturns
  <2> QED BY <2>2, <2>3
\* A reader that leaves tells the sender, or has nothing left to return.
<1>12. CASE DropRecv(i)
  <2>1. /\ UNCHANGED <<place, sstate, spool, wire, credits, buffer, reserved>>
        /\ reader'[i] = FALSE /\ discards'[i] = (rstate[i] # "Eof")
        /\ rstate[i] = "Eof" => rstate'[i] = "Eof" /\ stage[i] + out[i] = 0
        /\ reader[i]
    BY <1>1, <1>12, NoLeftovers DEF NoLeftovers, DropRecv, Between, Notify, svars,
       TypeInv, TypeOK
  <2>2. CASE rstate[i] # "Eof"
    BY <2>1, <2>2 DEF DebtIsAccounted, DebtDiscarded
  <2>3. CASE rstate[i] = "Eof"
    <3>1. rpool.debt[i] = 0
      <4>1. stage[i] \in Nat /\ out[i] \in Nat
        BY DEF TypeInv, TypeOK
      <4>2. stage[i] = 0 /\ out[i] = 0
        BY <2>1, <2>3, <4>1
      <4>3. remaining[i] = 0 /\ pending[i] = 0
        BY <1>2, <2>3 DEF EndsFlushed
      <4>4. rpool.debt[i] = remaining[i] + stage[i] + out[i] + pending[i]
        BY <2>1 DEF RecvInv, ReceiverOwesWhatItHolds
      <4> QED BY <4>2, <4>3, <4>4
    <3>2. wire[i] = 0 /\ place[i] = "done"
      BY <2>3 DEF RecvInv, OpensThenEnds
    <3>3. buffer[i] = 0 /\ sstate[i] \in Closed
          /\ (sstate[i] = "Abort" \/ reserved[i] = 0)
      BY <1>2, <3>2 DEF StagedOrReserved, LetGoIsClosed, Closed, MidWrite
    <3>4. sstate[i] = "Abort" => spool.debt[i] = 0
      BY <1>2 DEF AbortIsSettled
    <3>5. DebtSettled(i) => DebtSettled(i)'
      BY <2>1 DEF DebtSettled
    <3>6. DebtExact(i) => DebtSettled(i) \/ spool.debt[i] = credits[i]
      BY <1>1, <3>1, <3>2, <3>3, <3>4 DEF DebtExact, DebtSettled
    <3>7. DebtExact(i) => DebtSettled(i)' \/ DebtReturns(i)'
      BY <2>1, <2>3, <3>2, <3>5, <3>6 DEF DebtReturns
    <3> QED BY <1>2, <2>1, <3>5, <3>7 DEF DebtIsAccounted, DebtDiscarded, DebtReturns
  <2> QED BY <2>2, <2>3
\* The rest moves no debt.
<1>13. CASE \/ PollWriteBehind(i) \/ Finish(i) \/ Start(i) \/ OpenTrailer(i)
            \/ GrantSend(i) \/ GraceExpired(i) \/ Overrun(i) \/ TakeOver(i)
            \/ DriverRead(i) \/ CompleteRecv(i) \/ RecvAbort(i) \/ ReadStage(i)
            \/ ReadDirect(i) \/ ReadDirectPending(i)
  <2>1. UNCHANGED <<spool, rpool, credits, wire, buffer, reserved, reader, discards>>
    BY <1>13 DEF PollWriteBehind, Finish, Start, OpenTrailer, GrantSend, GraceExpired,
                Overrun, TakeOver, DriverRead, CompleteRecv, RecvAbort, ReadStage,
                ReadDirect, ReadDirectPending, svars, wvars, rvars
  <2>2. sstate[i] \in Closed => sstate'[i] \in Closed
    <3>1. CASE PollWriteBehind(i) \/ GrantSend(i) \/ GraceExpired(i)
      BY <3>1 DEF PollWriteBehind, GrantSend, GraceExpired, Closed, SendInv,
         LeaseIsOwned, TypeInv, TypeOK
    <3>2. CASE Finish(i)
      BY <3>2 DEF Finish, Finished, Closed, TypeInv, TypeOK
    <3>3. CASE \/ Start(i) \/ OpenTrailer(i) \/ Overrun(i) \/ TakeOver(i)
               \/ DriverRead(i) \/ CompleteRecv(i) \/ RecvAbort(i) \/ ReadStage(i)
               \/ ReadDirect(i) \/ ReadDirectPending(i)
      <4>1. sstate' = sstate
        BY <3>3 DEF Start, OpenTrailer, Overrun, TakeOver, DriverRead, CompleteRecv,
           RecvAbort, ReadStage, ReadDirect, ReadDirectPending, svars
      <4> QED BY <4>1
    <3> QED BY <1>13, <3>1, <3>2, <3>3
  <2>3. DebtReturns(i) => rstate'[i] = "Eof" /\ place'[i] = "done"
    <3>1. wend[i] = "done" \/ ~DebtReturns(i)
      BY DEF DebtReturns, RecvInv, OpensThenEnds
    <3> QED BY <1>13, <3>1 DEF DebtReturns, PollWriteBehind, Finish, Start, OpenTrailer,
        GrantSend, GraceExpired, Overrun, TakeOver, DriverRead, CompleteRecv, RecvAbort,
        ReadStage, ReadDirect, ReadDirectPending, svars, rvars, TypeInv, TypeOK
  <2> QED BY <1>2, <2>1, <2>2, <2>3 DEF DebtIsAccounted, DebtSettled, DebtDiscarded,
      DebtExact, DebtReturns
<1> QED BY <1>3, <1>4, <1>5, <1>6, <1>7, <1>9, <1>10, <1>11, <1>12, <1>13
   DEF Producer, Writer, Receiver, Consumer

\* Together: every step preserves the invariant, for its own trailer by the
\* lemmas above and for the others because it does not touch them.
LEMMA StrandStep ==
  ASSUME NoLeftovers, TypeInv, RecvInv, SendInv, StrandInv, [Next]_vars
  PROVE  StrandInv'
<1>1. ASSUME NEW i \in Ids, Producer(i) \/ Writer(i) \/ Receiver(i) \/ Consumer(i)
      PROVE  StrandInv'
  <2>1. StrandAt(i)
    BY DEF StrandInv
  <2>2. StagedOrReserved(i)'
    BY <1>1, <2>1, StagedStep
  <2>3. EndsFlushed(i)'
    BY <1>1, <2>1, FlushedStep
  <2>4. AbortIsSettled(i)'
    BY <1>1, <2>1, SettledStep
  <2>5. DebtIsAccounted(i)'
    BY <1>1, <2>1, AccountStep
  <2>6. ASSUME NEW j \in Ids, j # i PROVE StrandAt(j)'
    <3>1. Same(j)
      BY <1>1, <2>6, OthersStay
    <3>2. StrandAt(j)
      BY DEF StrandInv
    <3> QED BY <3>1, <3>2 DEF Same, StrandAt, StagedOrReserved, EndsFlushed,
        AbortIsSettled, DebtIsAccounted, DebtSettled, DebtDiscarded, DebtExact,
        DebtReturns, MidWrite
  <2> QED BY <2>2, <2>3, <2>4, <2>5, <2>6 DEF StrandInv, StrandAt
<1>2. CASE UNCHANGED vars
  BY <1>2 DEF vars, svars, wvars, rvars, StrandInv, StrandAt, StagedOrReserved,
     EndsFlushed, AbortIsSettled, DebtIsAccounted, DebtSettled, DebtDiscarded, DebtExact,
     DebtReturns, MidWrite
<1> QED BY <1>1, <1>2 DEF Next, Ended

-----------------------------------------------------------------------------
\* Every variable keeps its type, and each copy of the pool stays within the
\* window, whatever the applications do (SessionWindow in window.rs).
THEOREM TypeCorrect == Spec => []TypeOK
<1>1. Init => TypeInv
  BY TypeInit
<1>2. TypeInv /\ [Next]_vars => TypeInv'
  BY TypeStep
<1>3. TypeInv => TypeOK
  BY DEF TypeInv
<1> QED BY <1>1, <1>2, <1>3, PTL DEF Spec

\* No byte of either copy of the pool is created or lost, whatever order
\* debits, credits, aborts and discards come in (SessionWindow::refund and
\* settle).
THEOREM PoolsAreConserved == Spec => []PoolsConserved
<1>1. Init => TypeInv
  BY TypeInit
<1>2. TypeInv /\ [Next]_vars => TypeInv'
  BY TypeStep
<1>3. TypeInv => PoolsConserved
  BY DEF TypeInv
<1> QED BY <1>1, <1>2, <1>3, PTL DEF Spec

\* The receiver's accounts are exact: a trailer with a live handle owes the
\* pool the bytes that are held for it, no more and no less, whatever the
\* applications do (RecvShared in trailer.rs).
THEOREM ReceiverAccountsAreExact == Spec => []ReceiverOwesWhatItHolds
<1>1. Init => TypeInv /\ RecvInv
  BY TypeInit, RecvInit
<1>2. (TypeInv /\ RecvInv) /\ [Next]_vars => (TypeInv /\ RecvInv)'
  BY TypeStep, RecvStep
<1>3. TypeInv /\ RecvInv => ReceiverOwesWhatItHolds
  BY DEF RecvInv
<1> QED BY <1>1, <1>2, <1>3, PTL DEF Spec

\* When no trailer is aborted, accept_bytes never refuses a fragment, for any
\* number of trailers and any sizes, dropped handles included
\* (RecvShared::accept_bytes in trailer.rs).
THEOREM WindowIsNeverExceeded == ASSUME NoAborts PROVE Spec => []NoOverrun
<1> DEFINE IInv == TypeInv /\ RecvInv /\ DebitCovers /\ NoOverrun
<1>1. Init => IInv
  BY TypeInit, RecvInit, CoverInit DEF Init, NoOverrun
<1>2. IInv /\ [Next]_vars => IInv'
  BY TypeStep, RecvStep, CoverStep, NoOverrunStep
<1>3. IInv => NoOverrun
  OBVIOUS
<1> QED BY <1>1, <1>2, <1>3, PTL DEF Spec

\* The one writer task never waits for credit with the transport in hand, for
\* any number of trailers and whatever the applications do, aborts included
\* (RESERVED_HELD in trailer.rs).
THEOREM LeasesComeWithCredit == Spec => []LeaseHoldsCredit
<1> DEFINE IInv == TypeInv /\ RecvInv /\ SendInv
<1>1. Init => IInv
  BY TypeInit, RecvInit, SendInit
<1>2. IInv /\ [Next]_vars => IInv'
  BY TypeStep, RecvStep, LeaseStep, WriterStep DEF SendInv
<1>3. IInv => LeaseHoldsCredit
  <2>1. ASSUME IInv, NEW i \in Ids, sstate[i] \in {"Granted", "Staging"}
        PROVE  lease = i /\ reserved[i] > 0 /\ reserved[i] <= spool.debt[i]
    <3>1. spool.debt[i] \in Nat /\ credits[i] \in Nat /\ reserved[i] \in Nat
      BY <2>1, SizesAssumption DEF TypeInv, TypeOK, WindowType
    <3> QED BY <2>1, <3>1 DEF SendInv, LeaseIsOwned, DemandIsReserved, MidWrite,
        WriterIsCovered, Closed
  <2> QED BY <2>1 DEF LeaseHoldsCredit
<1> QED BY <1>1, <1>2, <1>3, PTL DEF Spec

\* When nothing is left behind on purpose, a trailer that is over has given
\* back every byte of credit at both ends, whether it was finished, dropped,
\* abandoned or cancelled (RecvShared::finish and discard in trailer.rs).
THEOREM NoCreditIsStranded == ASSUME NoLeftovers PROVE Spec => []NoStrandedCredit
<1> DEFINE IInv == TypeInv /\ RecvInv /\ SendInv /\ StrandInv
<1>1. Init => IInv
  BY TypeInit, RecvInit, SendInit, StrandInit
<1>2. IInv /\ [Next]_vars => IInv'
  BY TypeStep, RecvStep, LeaseStep, WriterStep, StrandStep DEF SendInv
<1>3. IInv => NoStrandedCredit
  <2>1. ASSUME IInv, NEW i \in Ids, Over(i)
        PROVE  spool.debt[i] = 0 /\ rpool.debt[i] = 0
    <3>1. StrandAt(i)
      BY <2>1 DEF StrandInv
    <3>2. rpool.debt[i] = 0
      BY <2>1, <3>1 DEF Over, StrandAt, EndsFlushed, RecvInv, DroppedOwesNothing
    <3>3. sstate[i] \in Closed /\ buffer[i] = 0
      BY <2>1, <3>1 DEF Over, SendInv, LetGoIsClosed, StrandAt, StagedOrReserved
    <3>4. CASE DebtExact(i)
      <4>1. rstate[i] = "None" /\ wire[i] = 0 /\ credits[i] = 0
        BY <2>1, <3>4 DEF Over, DebtExact, RecvInv, OpensThenEnds
      <4>2. sstate[i] = "Abort" => spool.debt[i] = 0
        BY <3>1 DEF StrandAt, AbortIsSettled
      <4>3. sstate[i] # "Abort" => reserved[i] = 0
        BY <3>1, <3>3 DEF StrandAt, StagedOrReserved, MidWrite, Closed
      <4> QED BY <3>2, <3>3, <3>4, <4>1, <4>2, <4>3 DEF DebtExact
    <3> QED BY <2>1, <3>1, <3>2, <3>4 DEF Over, StrandAt, DebtIsAccounted, DebtSettled,
        DebtDiscarded, DebtReturns
  <2> QED BY <2>1 DEF NoStrandedCredit
<1> QED BY <1>1, <1>2, <1>3, PTL DEF Spec
=============================================================================
