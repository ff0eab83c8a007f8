-------------------------- MODULE StrandSyncProofs --------------------------
(***************************************************************************)
(* That the resource and the channel of StrandSync keep their promises for *)
(* any number of strands, any limit, any buffer and any number of rounds.  *)
(***************************************************************************)
EXTENDS StrandSync, FiniteSetTheorems, SequenceTheorems, TLAPS

Distinct(q) == \A i, j \in DOMAIN q : q[i] = q[j] => i = j
Elems(q) == {q[i] : i \in DOMAIN q}

-----------------------------------------------------------------------------
(***************************************************************************)
(* Queues of strands.                                                      *)
(***************************************************************************)

\* push_back adds one strand behind the others.
LEMMA AppendFacts ==
  ASSUME NEW S, NEW q \in Seq(S), NEW x \in S
  PROVE  /\ Append(q, x) \in Seq(S)
         /\ Elems(Append(q, x)) = Elems(q) \cup {x}
         /\ Distinct(q) /\ x \notin Elems(q) => Distinct(Append(q, x))
         /\ q # <<>> => Head(Append(q, x)) = Head(q)
         /\ Append(q, x) # <<>>
<1> DEFINE a == Append(q, x)
<1>1. /\ a \in Seq(S) /\ Len(a) = Len(q) + 1 /\ Len(q) \in Nat
      /\ DOMAIN a = 1..(Len(q) + 1) /\ DOMAIN q = 1..Len(q)
      /\ \A i \in 1..Len(q) : a[i] = q[i]
      /\ a[Len(q) + 1] = x
  BY AppendProperties, LenProperties
<1>2. Elems(a) = Elems(q) \cup {x}
  <2>1. ASSUME NEW y \in Elems(a) PROVE y \in Elems(q) \cup {x}
    <3>1. PICK i \in 1..(Len(q) + 1) : y = a[i]
      BY <1>1 DEF Elems
    <3>2. CASE i = Len(q) + 1
      BY <1>1, <3>1, <3>2
    <3>3. CASE i \in 1..Len(q)
      BY <1>1, <3>1, <3>3 DEF Elems
    <3> QED BY <1>1, <3>2, <3>3
  <2>2. ASSUME NEW y \in Elems(q) PROVE y \in Elems(a)
    <3>1. PICK i \in 1..Len(q) : y = q[i]
      BY <1>1 DEF Elems
    <3>2. i \in DOMAIN a /\ y = a[i]
      BY <1>1, <3>1
    <3> QED BY <3>2 DEF Elems
  <2>3. x \in Elems(a)
    <3>1. Len(q) + 1 \in DOMAIN a
      BY <1>1
    <3> QED BY <1>1, <3>1 DEF Elems
  <2> QED BY <2>1, <2>2, <2>3
<1>3. ASSUME Distinct(q), x \notin Elems(q) PROVE Distinct(a)
  <2>1. \A i \in 1..Len(q) : q[i] # x
    BY <1>1, <1>3 DEF Elems
  <2>2. \A i, j \in 1..Len(q) : q[i] = q[j] => i = j
    BY <1>1, <1>3 DEF Distinct
  <2>3. \A i, j \in 1..(Len(q) + 1) : a[i] = a[j] => i = j
    BY <1>1, <2>1, <2>2
  <2> QED BY <1>1, <2>3 DEF Distinct
<1>4. ASSUME q # <<>> PROVE Head(a) = Head(q)
  <2>1. Len(q) >= 1 /\ Head(q) = q[1]
    BY <1>1, <1>4, HeadTailProperties, EmptySeq
  <2>2. a # <<>> /\ Head(a) = a[1]
    BY <1>1, HeadTailProperties, EmptySeq
  <2> QED BY <1>1, <2>1, <2>2
<1>5. a # <<>>
  BY <1>1, EmptySeq
<1> QED BY <1>1, <1>2, <1>3, <1>4, <1>5

\* pop_front takes the first strand out.
LEMMA TailFacts ==
  ASSUME NEW S, NEW q \in Seq(S), q # <<>>
  PROVE  /\ Tail(q) \in Seq(S) /\ Head(q) \in S /\ Head(q) \in Elems(q)
         /\ Len(q) \in Nat \ {0} /\ Len(Tail(q)) = Len(q) - 1
         /\ Distinct(q) => /\ Distinct(Tail(q))
                           /\ Elems(Tail(q)) = Elems(q) \ {Head(q)}
<1> DEFINE t == Tail(q)
<1>1. /\ t \in Seq(S) /\ Head(q) \in S /\ Head(q) = q[1]
      /\ Len(q) \in Nat /\ Len(q) >= 1 /\ Len(t) = Len(q) - 1
      /\ DOMAIN q = 1..Len(q) /\ DOMAIN t = 1..(Len(q) - 1)
      /\ \A i \in 1..(Len(q) - 1) : t[i] = q[i + 1]
  BY HeadTailProperties, LenProperties, EmptySeq
<1>2. Head(q) \in Elems(q)
  <2>1. 1 \in DOMAIN q
    BY <1>1
  <2> QED BY <1>1, <2>1 DEF Elems
<1>3. ASSUME Distinct(q)
      PROVE  Distinct(t) /\ Elems(t) = Elems(q) \ {Head(q)}
  <2>0. \A i, j \in 1..Len(q) : q[i] = q[j] => i = j
    BY <1>1, <1>3 DEF Distinct
  <2>1. Distinct(t)
    <3>1. \A i, j \in 1..(Len(q) - 1) : t[i] = t[j] => i = j
      <4> SUFFICES ASSUME NEW i \in 1..(Len(q) - 1), NEW j \in 1..(Len(q) - 1), t[i] = t[j]
                   PROVE  i = j
        OBVIOUS
      <4>1. i + 1 \in 1..Len(q) /\ j + 1 \in 1..Len(q) /\ q[i + 1] = q[j + 1]
        BY <1>1
      <4>2. i + 1 = j + 1
        BY <2>0, <4>1
      <4> QED BY <4>2
    <3> QED BY <1>1, <3>1 DEF Distinct
  <2>2. ASSUME NEW y \in Elems(t) PROVE y \in Elems(q) /\ y # Head(q)
    <3>1. PICK i \in 1..(Len(q) - 1) : y = t[i]
      BY <1>1 DEF Elems
    <3>2. i + 1 \in 1..Len(q) /\ 1 \in 1..Len(q) /\ i + 1 # 1 /\ y = q[i + 1]
      BY <1>1, <3>1
    <3>3. y # q[1]
      BY <2>0, <3>2
    <3> QED BY <1>1, <3>2, <3>3 DEF Elems
  <2>3. ASSUME NEW y \in Elems(q), y # Head(q) PROVE y \in Elems(t)
    <3>1. PICK i \in 1..Len(q) : y = q[i]
      BY <1>1 DEF Elems
    <3>2. i # 1
      BY <1>1, <2>3, <3>1
    <3>3. i - 1 \in 1..(Len(q) - 1) /\ (i - 1) + 1 = i
      BY <1>1, <3>2
    <3>4. y = t[i - 1]
      BY <1>1, <3>1, <3>3
    <3> QED BY <1>1, <3>3, <3>4 DEF Elems
  <2> QED BY <2>1, <2>2, <2>3
<1> QED BY <1>1, <1>2, <1>3

\* retain takes one strand out and keeps the others in their order.
LEMMA WithoutFacts ==
  ASSUME NEW S, NEW q \in Seq(S), Distinct(q), NEW s \in Elems(q)
  PROVE  /\ Without(q, s) \in Seq(S) /\ Distinct(Without(q, s))
         /\ Elems(Without(q, s)) = Elems(q) \ {s}
         /\ Head(q) # s => Without(q, s) # <<>> /\ Head(Without(q, s)) = Head(q)
<1> DEFINE n == Len(q)
           w == Without(q, s)
<1>0. n \in Nat /\ DOMAIN q = 1..n /\ \A i \in 1..n : q[i] \in S
  BY LenProperties, ElementOfSeq
<1>1. PICK at \in 1..n : q[at] = s /\ at = CHOOSE i \in DOMAIN q : q[i] = s
  <2>1. \E i \in DOMAIN q : q[i] = s
    BY DEF Elems
  <2> QED BY <1>0, <2>1
<1> DEFINE f == SubSeq(q, 1, at - 1)
           b == SubSeq(q, at + 1, n)
<1>2. f \in Seq(S) /\ Len(f) = at - 1 /\ \A i \in 1..(at - 1) : f[i] = q[i]
  <2>1. \A i \in 1..(at - 1) : q[i] \in S
    BY <1>0
  <2>2. /\ f \in Seq(S) /\ Len(f) = IF 1 <= at - 1 THEN (at - 1) - 1 + 1 ELSE 0
        /\ \A i \in 1..((at - 1) - 1 + 1) : f[i] = q[1 + i - 1]
    <3>1. 1 \in Int /\ at - 1 \in Int
      BY <1>0
    <3> QED BY <2>1, <3>1, SubSeqProperties
  <2>3. (at - 1) - 1 + 1 = at - 1 /\ \A i \in 1..(at - 1) : 1 + i - 1 = i
    BY <1>0
  <2> QED BY <1>0, <2>2, <2>3
<1>3. b \in Seq(S) /\ Len(b) = n - at /\ \A i \in 1..(n - at) : b[i] = q[at + i]
  <2>1. \A i \in (at + 1)..n : q[i] \in S
    BY <1>0
  <2>2. /\ b \in Seq(S) /\ Len(b) = IF at + 1 <= n THEN n - (at + 1) + 1 ELSE 0
        /\ \A i \in 1..(n - (at + 1) + 1) : b[i] = q[(at + 1) + i - 1]
    <3>1. at + 1 \in Int /\ n \in Int
      BY <1>0
    <3> QED BY <2>1, <3>1, SubSeqProperties
  <2>3. n - (at + 1) + 1 = n - at /\ \A i \in 1..(n - at) : (at + 1) + i - 1 = at + i
    BY <1>0
  <2> HIDE DEF b, n
  <2>4. Len(b) = n - at
    BY <1>0, <2>2
  <2>5. \A i \in 1..(n - at) : b[i] = q[at + i]
    BY <2>2, <2>3
  <2> QED BY <2>2, <2>4, <2>5
<1>4. w = f \o b
  BY <1>1 DEF Without
<1> HIDE DEF w, f, b, n
<1>5. /\ w \in Seq(S) /\ Len(w) = n - 1 /\ DOMAIN w = 1..(n - 1)
      /\ \A i \in 1..(at - 1) : w[i] = q[i]
      /\ \A i \in at..(n - 1) : w[i] = q[i + 1]
  <2>1. /\ w \in Seq(S) /\ Len(w) = Len(f) + Len(b)
        /\ \A i \in 1..(Len(f) + Len(b)) : w[i] = IF i <= Len(f) THEN f[i] ELSE b[i - Len(f)]
    BY <1>2, <1>3, <1>4, ConcatProperties
  <2>2. Len(w) = n - 1
    BY <1>0, <1>2, <1>3, <2>1
  <2>3. DOMAIN w = 1..(n - 1)
    BY <2>1, <2>2, LenProperties
  <2>4. ASSUME NEW i \in 1..(at - 1) PROVE w[i] = q[i]
    BY <1>0, <1>2, <1>3, <2>1, <2>4
  <2>5. ASSUME NEW i \in at..(n - 1) PROVE w[i] = q[i + 1]
    <3>1. ~(i <= at - 1) /\ i - (at - 1) \in 1..(n - at) /\ at + (i - (at - 1)) = i + 1
          /\ i \in 1..(n - 1)
      BY <1>0
    <3>2. w[i] = b[i - (at - 1)]
      BY <1>0, <1>2, <1>3, <2>1, <3>1
    <3> QED BY <1>3, <3>1, <3>2
  <2> QED BY <2>1, <2>2, <2>3, <2>4, <2>5
<1>6. \A i, j \in 1..n : q[i] = q[j] => i = j
  BY <1>0 DEF Distinct
<1> DEFINE o(i) == IF i < at THEN i ELSE i + 1
<1>7. \A i \in 1..(n - 1) : o(i) \in 1..n /\ o(i) # at /\ w[i] = q[o(i)]
  BY <1>0, <1>5
<1>8. Distinct(w)
  <2>1. ASSUME NEW i \in 1..(n - 1), NEW j \in 1..(n - 1), w[i] = w[j] PROVE i = j
    <3>1. o(i) = o(j)
      BY <1>6, <1>7, <2>1
    <3> QED BY <3>1
  <2> QED BY <1>5, <2>1 DEF Distinct
<1>9. Elems(w) = Elems(q) \ {s}
  <2>1. ASSUME NEW y \in Elems(w) PROVE y \in Elems(q) \ {s}
    <3>1. PICK i \in 1..(n - 1) : y = w[i]
      BY <1>5 DEF Elems
    <3>2. o(i) \in 1..n /\ o(i) # at /\ y = q[o(i)]
      BY <1>7, <3>1
    <3>3. y # s
      BY <1>1, <1>6, <3>2
    <3> QED BY <1>0, <3>2, <3>3 DEF Elems
  <2>2. ASSUME NEW y \in Elems(q), y # s PROVE y \in Elems(w)
    <3>1. PICK i \in 1..n : y = q[i]
      BY <1>0 DEF Elems
    <3>2. i # at
      BY <1>1, <2>2, <3>1
    <3>3. PICK k \in 1..(n - 1) : o(k) = i
      <4>1. CASE i < at
        BY <1>0, <3>2, <4>1
      <4>2. CASE i > at
        <5>1. i - 1 \in 1..(n - 1) /\ o(i - 1) = i
          BY <1>0, <4>2
        <5> QED BY <5>1
      <4> QED BY <1>0, <3>2, <4>1, <4>2
    <3>4. k \in DOMAIN w /\ y = w[k]
      BY <1>5, <1>7, <3>1, <3>3
    <3> QED BY <3>4 DEF Elems
  <2> QED BY <2>1, <2>2
<1>10. ASSUME Head(q) # s PROVE w # <<>> /\ Head(w) = Head(q)
  <2>1. q # <<>>
    BY <1>0, EmptySeq DEF n
  <2>2. Head(q) = q[1]
    BY <2>1
  <2>3. at # 1
    BY <1>1, <1>10, <2>2
  <2>4. n - 1 >= 1 /\ 1 \in 1..(at - 1)
    BY <1>0, <2>3
  <2>5. w # <<>> /\ w[1] = q[1]
    BY <1>0, <1>5, <2>4, EmptySeq
  <2> QED BY <1>5, <2>2, <2>5
<1> QED BY <1>5, <1>8, <1>9, <1>10 DEF w

-----------------------------------------------------------------------------
(***************************************************************************)
(* The resource.                                                           *)
(***************************************************************************)
InScope == {"inside", "putting", "leaving"}

\* Where a strand is says whether it holds a permit and which operations it
\* can be suspended in.
Control ==
  /\ \A s \in Entrants :
       /\ depth[s] > 0 <=> pc[s] \in InScope
       /\ pc[s] # "taking"
       /\ pc[s] \in InScope \cup {"acquiring"} => left[s] > 0
  /\ \A s \in Visitors : pc[s] # "putting"
  /\ \A s \in Consumers : pc[s] \in {"idle", "taking", "done"}

ResourceInv ==
  TypeOK /\ Control /\ PermitsConserved /\ WaitersAreWaiting /\ NoLostPermit

\* WaitersAreWaiting in the words of the lemmas about queues.
LEMMA WaitersInLine ==
  WaitersAreWaiting <=> /\ Distinct(waiters)
                        /\ Elems(waiters) = {s \in Entrants : pc[s] = "acquiring"}
BY DEF WaitersAreWaiting, Distinct, Elems

\* A strand that enters adds itself to the holders.
LEMMA HoldersGrow ==
  ASSUME TypeOK, NEW s \in Entrants, depth[s] = 0, depth' = [depth EXCEPT ![s] = 1]
  PROVE  Cardinality(Holders') = Cardinality(Holders) + 1
<1>1. Holders' = Holders \cup {s} /\ s \notin Holders
  BY DEF Holders, TypeOK
<1>2. IsFiniteSet(Holders)
  <2>1. IsFiniteSet(Strands) /\ Holders \subseteq Strands
    BY StrandsAssumption DEF Holders, Strands
  <2> QED BY <2>1, FS_Subset
<1> QED BY <1>1, <1>2, FS_AddElement

\* The holder that leaves the scope it entered first takes itself out.
LEMMA HoldersShrink ==
  ASSUME TypeOK, NEW s \in Entrants, depth[s] = 1, depth' = [depth EXCEPT ![s] = 0]
  PROVE  Cardinality(Holders') = Cardinality(Holders) - 1 /\ Cardinality(Holders) \in Nat \ {0}
<1>1. Holders' = Holders \ {s} /\ s \in Holders
  BY DEF Holders, TypeOK
<1>2. IsFiniteSet(Holders)
  <2>1. IsFiniteSet(Strands) /\ Holders \subseteq Strands
    BY StrandsAssumption DEF Holders, Strands
  <2> QED BY <2>1, FS_Subset
<1>3. Cardinality(Holders) \in Nat /\ Cardinality(Holders') = Cardinality(Holders) - 1
  BY <1>1, <1>2, FS_RemoveElement, FS_CardinalityType
<1>4. Cardinality(Holders') \in Nat
  BY <1>1, <1>2, FS_RemoveElement, FS_CardinalityType
<1> QED BY <1>3, <1>4

\* Nobody holds a permit at first.
LEMMA InitResource == Init => ResourceInv
<1> SUFFICES ASSUME Init PROVE ResourceInv
  OBVIOUS
<1> USE LimitAssumption, SizesAssumption
<1>1. TypeOK
  <2>1. active \in 0..Limit /\ depth \in [Entrants -> 0..MaxDepth]
        /\ left \in [Entrants -> 0..Rounds]
    BY DEF Init
  <2>2. /\ waiters \in Seq(Entrants) /\ queue \in Seq(Values) /\ taken \in Seq(Values)
        /\ senders \in Seq(Producers) /\ receivers \in Seq(Consumers)
    BY EmptySeq DEF Init
  <2> QED BY <2>1, <2>2 DEF Init, TypeOK
<1>2. Control
  BY StrandsAssumption DEF Init, Control, InScope, Strands, Entrants
<1>3. PermitsConserved
  <2>1. Holders = {}
    BY DEF Init, Holders
  <2> QED BY <2>1, FS_EmptySet DEF Init, PermitsConserved
<1>4. WaitersAreWaiting
  BY DEF Init, WaitersAreWaiting, Strands
<1>5. NoLostPermit
  BY DEF Init, NoLostPermit
<1> QED BY <1>1, <1>2, <1>3, <1>4, <1>5 DEF ResourceInv

\* resource_with takes a permit or joins the line.
LEMMA EnterResource ==
  ASSUME ResourceInv, NEW s \in Entrants, Enter(s)
  PROVE  ResourceInv'
<1> USE LimitAssumption, SizesAssumption
<1>0. /\ TypeOK /\ Control /\ PermitsConserved /\ NoLostPermit /\ WaitersAreWaiting
      /\ Distinct(waiters) /\ Elems(waiters) = {t \in Entrants : pc[t] = "acquiring"}
      /\ pc[s] = "idle" /\ left[s] > 0 /\ TryAcquire(s)
      /\ UNCHANGED <<channel, left, cancelled, woken, taken>>
      /\ s \in Strands /\ s \notin Consumers
  BY StrandsAssumption, WaitersInLine DEF ResourceInv, Enter, Strands, Entrants
<1>1. CASE active < Limit /\ waiters = <<>>
  <2>1. /\ active' = active + 1 /\ depth' = [depth EXCEPT ![s] = 1]
        /\ pc' = [pc EXCEPT ![s] = "inside"] /\ waiters' = waiters
    BY <1>0, <1>1 DEF TryAcquire, Hold, Goto
  <2>2. depth[s] = 0
    <3>1. depth[s] \in 0..MaxDepth
      BY <1>0 DEF TypeOK
    <3>2. ~(depth[s] > 0)
      BY <1>0 DEF Control, InScope
    <3> QED BY <3>1, <3>2
  <2>3. TypeOK'
    BY <1>0, <1>1, <2>1 DEF TypeOK, channel
  <2>4. Control'
    BY <1>0, <2>1 DEF Control, InScope, TypeOK, Strands, Entrants
  <2>5. PermitsConserved'
    <3>1. Cardinality(Holders') = Cardinality(Holders) + 1
      BY <1>0, <2>1, <2>2, HoldersGrow
    <3>2. active \in 0..Limit
      BY <1>0 DEF TypeOK
    <3> QED BY <1>0, <1>1, <2>1, <3>1, <3>2 DEF PermitsConserved
  <2>6. WaitersAreWaiting' /\ NoLostPermit'
    <3>1. {t \in Entrants : pc'[t] = "acquiring"} = {t \in Entrants : pc[t] = "acquiring"}
      BY <1>0, <2>1 DEF TypeOK, Strands
    <3> QED BY <1>0, <1>1, <2>1, <3>1 DEF WaitersAreWaiting, NoLostPermit
  <2> QED BY <2>3, <2>4, <2>5, <2>6 DEF ResourceInv
<1>2. CASE ~(active < Limit /\ waiters = <<>>) /\ s \in cancelled
  <2>1. active' = active /\ depth' = depth /\ pc' = [pc EXCEPT ![s] = "done"] /\ waiters' = waiters
    BY <1>0, <1>2 DEF TryAcquire, Goto
  <2>2. TypeOK'
    BY <1>0, <2>1 DEF TypeOK, channel
  <2>3. Control'
    BY <1>0, <2>1 DEF Control, InScope, TypeOK, Strands, Entrants
  <2>4. PermitsConserved'
    BY <1>0, <2>1 DEF PermitsConserved, Holders
  <2>5. WaitersAreWaiting' /\ NoLostPermit'
    <3>1. {t \in Entrants : pc'[t] = "acquiring"} = {t \in Entrants : pc[t] = "acquiring"}
      BY <1>0, <2>1 DEF TypeOK, Strands
    <3> QED BY <1>0, <2>1, <3>1 DEF WaitersAreWaiting, NoLostPermit
  <2> QED BY <2>2, <2>3, <2>4, <2>5 DEF ResourceInv
<1>3. CASE ~(active < Limit /\ waiters = <<>>) /\ s \notin cancelled
  <2>1. /\ active' = active /\ depth' = depth /\ pc' = [pc EXCEPT ![s] = "acquiring"]
        /\ waiters' = Append(waiters, s)
    BY <1>0, <1>3 DEF TryAcquire, Goto
  <2>2. waiters \in Seq(Entrants) /\ s \notin Elems(waiters)
    BY <1>0 DEF TypeOK
  <2>3. /\ waiters' \in Seq(Entrants) /\ Distinct(waiters')
        /\ Elems(waiters') = Elems(waiters) \cup {s}
        /\ waiters # <<>> => Head(waiters') = Head(waiters)
    BY <1>0, <2>1, <2>2, AppendFacts
  <2>4. TypeOK'
    BY <1>0, <2>1, <2>3 DEF TypeOK, channel
  <2>5. Control'
    BY <1>0, <2>1 DEF Control, InScope, TypeOK, Strands, Entrants
  <2>6. PermitsConserved'
    BY <1>0, <2>1 DEF PermitsConserved, Holders
  <2>7. WaitersAreWaiting'
    <3>1. {t \in Entrants : pc'[t] = "acquiring"}
            = {t \in Entrants : pc[t] = "acquiring"} \cup {s}
      BY <1>0, <2>1 DEF TypeOK, Strands
    <3> QED BY <1>0, <2>3, <3>1 DEF WaitersAreWaiting, Distinct, Elems
  <2>8. NoLostPermit'
    BY <1>0, <1>3, <2>1, <2>3 DEF NoLostPermit
  <2> QED BY <2>4, <2>5, <2>6, <2>7, <2>8 DEF ResourceInv
<1> QED BY <1>1, <1>2, <1>3

\* A poll of a pending acquire takes the permit from the front of the line, or
\* gives the place up, or goes back to sleep.
LEMMA PollResource ==
  ASSUME ResourceInv, NEW s \in Entrants, AcquirePoll(s)
  PROVE  ResourceInv'
<1> USE LimitAssumption, SizesAssumption
<1>0. /\ TypeOK /\ Control /\ PermitsConserved /\ NoLostPermit /\ WaitersAreWaiting
      /\ Distinct(waiters) /\ Elems(waiters) = {t \in Entrants : pc[t] = "acquiring"}
      /\ pc[s] = "acquiring" /\ s \in woken
      /\ UNCHANGED <<channel, left, cancelled, taken>>
      /\ s \in Strands /\ s \notin Consumers
      /\ waiters \in Seq(Entrants) /\ s \in Elems(waiters)
  BY StrandsAssumption, WaitersInLine DEF ResourceInv, AcquirePoll, Polled, Strands, Entrants, TypeOK
<1>01. waiters # <<>>
  BY <1>0 DEF Elems
<1>02. /\ Tail(waiters) \in Seq(Entrants) /\ Head(waiters) \in Elems(waiters)
       /\ Distinct(Tail(waiters)) /\ Elems(Tail(waiters)) = Elems(waiters) \ {Head(waiters)}
  BY <1>0, <1>01, TailFacts
<1>1. CASE Head(waiters) = s /\ active < Limit
  <2> DEFINE next == IF active + 1 < Limit THEN Front(Tail(waiters)) ELSE {}
  <2>1. /\ active' = active + 1 /\ depth' = [depth EXCEPT ![s] = 1]
        /\ pc' = [pc EXCEPT ![s] = "inside"] /\ waiters' = Tail(waiters)
        /\ woken' = (woken \ {s}) \cup next
    BY <1>1 DEF AcquirePoll, Hold, Goto
  <2>2. depth[s] = 0
    <3>1. depth[s] \in 0..MaxDepth
      BY <1>0 DEF TypeOK
    <3>2. ~(depth[s] > 0)
      BY <1>0 DEF Control, InScope
    <3> QED BY <3>1, <3>2
  <2>3. ASSUME Tail(waiters) # <<>>
        PROVE  Head(Tail(waiters)) \in Entrants /\ Front(Tail(waiters)) = {Head(Tail(waiters))}
    BY <1>02, <2>3, TailFacts DEF Front
  <2>4. next \subseteq Strands
    <3>1. Tail(waiters) = <<>> => Front(Tail(waiters)) = {}
      BY DEF Front
    <3> QED BY <2>3, <3>1 DEF Strands
  <2>5. TypeOK'
    <3> HIDE DEF next
    <3> QED BY <1>0, <1>02, <1>1, <2>1, <2>4 DEF TypeOK, channel
  <2>6. Control'
    BY <1>0, <2>1 DEF Control, InScope, TypeOK, Strands, Entrants
  <2>7. PermitsConserved'
    <3>1. Cardinality(Holders') = Cardinality(Holders) + 1
      BY <1>0, <2>1, <2>2, HoldersGrow
    <3>2. active \in 0..Limit
      BY <1>0 DEF TypeOK
    <3> QED BY <1>0, <1>1, <2>1, <3>1, <3>2 DEF PermitsConserved
  <2>8. WaitersAreWaiting'
    <3>1. {t \in Entrants : pc'[t] = "acquiring"}
            = {t \in Entrants : pc[t] = "acquiring"} \ {s}
      BY <1>0, <2>1 DEF TypeOK, Strands
    <3>2. Distinct(waiters') /\ Elems(waiters') = {t \in Entrants : pc'[t] = "acquiring"}
      BY <1>0, <1>02, <1>1, <2>1, <3>1
    <3> QED BY <3>2 DEF WaitersAreWaiting, Distinct, Elems
  <2>9. NoLostPermit'
    BY <2>1, <2>3 DEF NoLostPermit
  <2> QED BY <2>5, <2>6, <2>7, <2>8, <2>9 DEF ResourceInv
<1>2. CASE ~(Head(waiters) = s /\ active < Limit) /\ s \in cancelled
  <2>1. /\ active' = active /\ depth' = depth /\ pc' = [pc EXCEPT ![s] = "done"]
        /\ waiters' = Without(waiters, s) /\ woken' = woken \ {s}
    BY <1>2 DEF AcquirePoll, Goto
  <2>2. /\ waiters' \in Seq(Entrants) /\ Distinct(waiters')
        /\ Elems(waiters') = Elems(waiters) \ {s}
        /\ Head(waiters) # s => waiters' # <<>> /\ Head(waiters') = Head(waiters)
    BY <1>0, <2>1, WithoutFacts
  <2>3. TypeOK'
    BY <1>0, <2>1, <2>2 DEF TypeOK, channel
  <2>4. Control'
    BY <1>0, <2>1 DEF Control, InScope, TypeOK, Strands, Entrants
  <2>5. PermitsConserved'
    BY <1>0, <2>1 DEF PermitsConserved, Holders
  <2>6. WaitersAreWaiting'
    <3>1. {t \in Entrants : pc'[t] = "acquiring"}
            = {t \in Entrants : pc[t] = "acquiring"} \ {s}
      BY <1>0, <2>1 DEF TypeOK, Strands
    <3>2. Elems(waiters') = {t \in Entrants : pc'[t] = "acquiring"}
      BY <1>0, <2>2, <3>1
    <3> QED BY <2>2, <3>2 DEF WaitersAreWaiting, Distinct, Elems
  <2>7. NoLostPermit'
    BY <1>0, <1>01, <1>2, <2>1, <2>2 DEF NoLostPermit
  <2> QED BY <2>3, <2>4, <2>5, <2>6, <2>7 DEF ResourceInv
<1>3. CASE ~(Head(waiters) = s /\ active < Limit) /\ s \notin cancelled
  <2>1. UNCHANGED <<active, depth, pc, waiters>> /\ woken' = woken \ {s}
    BY <1>3 DEF AcquirePoll
  <2>2. TypeOK'
    BY <1>0, <2>1 DEF TypeOK, channel
  <2>4. Control' /\ PermitsConserved' /\ WaitersAreWaiting'
    BY <1>0, <2>1 DEF Control, PermitsConserved, Holders, WaitersAreWaiting
  <2>3. NoLostPermit'
    BY <1>0, <1>3, <2>1 DEF NoLostPermit
  <2> QED BY <2>2, <2>3, <2>4 DEF ResourceInv
<1> QED BY <1>1, <1>2, <1>3

\* The end of resource_with gives one permit back, at the depth where it was
\* taken, and wakes the front of the line.
LEMMA LeaveResource ==
  ASSUME ResourceInv, NEW s \in Entrants, Leave(s)
  PROVE  ResourceInv'
<1> USE LimitAssumption, SizesAssumption
<1>0. /\ TypeOK /\ Control /\ PermitsConserved /\ NoLostPermit /\ WaitersAreWaiting
      /\ pc[s] \in {"leaving", "inside"}
      /\ depth' = [depth EXCEPT ![s] = @ - 1]
      /\ UNCHANGED <<waiters, channel, cancelled, taken>>
      /\ s \in Strands /\ s \notin Consumers
  BY StrandsAssumption DEF ResourceInv, Leave, Strands, Entrants
<1>01. depth[s] \in 1..MaxDepth /\ left[s] \in 1..Rounds
  BY <1>0 DEF Control, InScope, TypeOK
<1>1. CASE depth[s] > 1
  <2>1. pc' = [pc EXCEPT ![s] = "leaving"] /\ UNCHANGED <<active, left, woken>>
    BY <1>1 DEF Leave, Goto
  <2>2. TypeOK'
    BY <1>0, <1>01, <1>1, <2>1 DEF TypeOK, channel
  <2>3. Control'
    BY <1>0, <1>01, <1>1, <2>1 DEF Control, InScope, TypeOK, Strands, Entrants
  <2>4. PermitsConserved'
    <3>1. Holders' = Holders
      BY <1>0, <1>01, <1>1 DEF Holders, TypeOK
    <3> QED BY <1>0, <2>1, <3>1 DEF PermitsConserved
  <2>5. WaitersAreWaiting' /\ NoLostPermit'
    <3>1. {t \in Entrants : pc'[t] = "acquiring"} = {t \in Entrants : pc[t] = "acquiring"}
      BY <1>0, <2>1 DEF TypeOK, Strands
    <3> QED BY <1>0, <2>1, <3>1 DEF WaitersAreWaiting, NoLostPermit
  <2> QED BY <2>2, <2>3, <2>4, <2>5 DEF ResourceInv
<1>2. CASE depth[s] = 1
  <2>1. PICK l \in {"done", "idle"} :
          /\ pc' = [pc EXCEPT ![s] = l]
          /\ active' = active - 1 /\ left' = [left EXCEPT ![s] = @ - 1]
          /\ woken' = woken \cup Front(waiters)
    BY <1>2 DEF Leave, Goto, Release
  <2>2. Front(waiters) \subseteq Strands
    <3>1. waiters \in Seq(Entrants)
      BY <1>0 DEF TypeOK
    <3>2. waiters # <<>> => Head(waiters) \in Entrants
      BY <3>1, TailFacts
    <3> QED BY <3>2 DEF Front, Strands
  <2>3. depth' = [depth EXCEPT ![s] = 0]
    BY <1>0, <1>2
  <2>4. active \in 1..Limit /\ PermitsConserved'
    <3>1. /\ Cardinality(Holders') = Cardinality(Holders) - 1
          /\ Cardinality(Holders) \in Nat \ {0}
      BY <1>0, <1>2, <2>3, HoldersShrink
    <3> QED BY <1>0, <2>1, <3>1 DEF PermitsConserved
  <2>5. TypeOK'
    BY <1>0, <1>01, <2>1, <2>2, <2>3, <2>4 DEF TypeOK, channel
  <2>6. Control'
    BY <1>0, <1>01, <2>1, <2>3 DEF Control, InScope, TypeOK, Strands, Entrants
  <2>7. WaitersAreWaiting' /\ NoLostPermit'
    <3>1. {t \in Entrants : pc'[t] = "acquiring"} = {t \in Entrants : pc[t] = "acquiring"}
      BY <1>0, <2>1 DEF TypeOK, Strands
    <3> QED BY <1>0, <2>1, <3>1 DEF WaitersAreWaiting, NoLostPermit, Front
  <2> QED BY <2>4, <2>5, <2>6, <2>7 DEF ResourceInv
<1> QED BY <1>01, <1>1, <1>2

\* What a strand does at the channel leaves the resource alone.
LEMMA ElsewhereResource ==
  ASSUME ResourceInv, TypeOK', UNCHANGED <<resource, depth, left>>,
         NEW s \in Strands, NEW l, pc' = [pc EXCEPT ![s] = l],
         \/ s \in Producers /\ pc[s] \in {"inside", "putting"} /\ l \in {"putting", "leaving"}
         \/ s \in Consumers /\ l \in {"idle", "taking", "done"},
         woken \ {s} \subseteq woken'
  PROVE  ResourceInv'
<1>0. /\ TypeOK /\ Control /\ PermitsConserved /\ NoLostPermit /\ WaitersAreWaiting
      /\ active' = active /\ waiters' = waiters /\ depth' = depth /\ left' = left
  BY DEF ResourceInv, resource
<1>1. Control'
  BY <1>0, StrandsAssumption DEF Control, InScope, TypeOK, Strands, Entrants
<1>2. PermitsConserved'
  BY <1>0 DEF PermitsConserved, Holders
<1>3. {t \in Entrants : pc'[t] = "acquiring"} = {t \in Entrants : pc[t] = "acquiring"}
  BY <1>0, StrandsAssumption DEF TypeOK, Strands, Entrants
<1>4. WaitersAreWaiting'
  BY <1>0, <1>3 DEF WaitersAreWaiting
<1>5. NoLostPermit'
  <2>1. ASSUME waiters # <<>> PROVE Head(waiters) # s
    <3>1. Head(waiters) \in Elems(waiters)
      BY <1>0, <2>1, TailFacts DEF TypeOK
    <3>2. Head(waiters) \in Entrants /\ pc[Head(waiters)] = "acquiring"
      BY <1>0, <3>1, WaitersInLine
    <3> QED BY <1>0, <3>2, StrandsAssumption
  <2> QED BY <1>0, <2>1 DEF NoLostPermit
<1> QED BY <1>1, <1>2, <1>4, <1>5 DEF ResourceInv

\* push_back, pop_front and the front of a queue of wakers.
LEMMA WakerQueue ==
  ASSUME NEW S, NEW q \in Seq(S)
  PROVE  PopFront(q) \in Seq(S) /\ Front(q) \subseteq S /\ Front(q) \subseteq Elems(q)
<1>1. CASE q = <<>>
  BY <1>1, EmptySeq DEF PopFront, Front
<1>2. CASE q # <<>>
  BY <1>2, TailFacts DEF PopFront, Front
<1> QED BY <1>1, <1>2

\* A put leaves the resource alone.
LEMMA PutResource ==
  ASSUME ResourceInv, NEW s \in Producers, Put(s)
  PROVE  ResourceInv'
<1> USE SizesAssumption
<1>0. /\ TypeOK /\ Control /\ pc[s] \in {"inside", "putting"}
      /\ UNCHANGED <<resource, sendClosed, recvClosed, depth, left, cancelled, taken>>
      /\ s \in Strands /\ s \in Entrants /\ Send(s)
  BY DEF ResourceInv, Put, Strands, Entrants
<1>1. Value(s) \in Values
  <2>1. left[s] \in 1..Rounds
    BY <1>0 DEF Control, InScope, TypeOK
  <2> QED BY <2>1 DEF Value, Values
<1>2. /\ Append(queue, Value(s)) \in Seq(Values) /\ Append(senders, s) \in Seq(Producers)
      /\ PopFront(receivers) \in Seq(Consumers) /\ Front(receivers) \subseteq Strands
  <2>1. queue \in Seq(Values) /\ senders \in Seq(Producers) /\ receivers \in Seq(Consumers)
    BY <1>0 DEF TypeOK
  <2>2. PopFront(receivers) \in Seq(Consumers) /\ Front(receivers) \subseteq Consumers
    BY <2>1, WakerQueue
  <2> QED BY <1>1, <2>1, <2>2 DEF Strands
<1>3. PICK l \in {"putting", "leaving"} : pc' = [pc EXCEPT ![s] = l]
  BY <1>0 DEF Send, Goto
<1>4. /\ queue' \in Seq(Values) /\ senders' \in Seq(Producers) /\ receivers' \in Seq(Consumers)
      /\ woken \ {s} \subseteq woken' /\ woken' \subseteq Strands
  BY <1>0, <1>2 DEF Send, PushBack, TypeOK
<1>5. TypeOK'
  BY <1>0, <1>3, <1>4 DEF TypeOK, resource
<1> QED BY <1>0, <1>3, <1>4, <1>5, ElsewhereResource

\* A take leaves the resource alone.
LEMMA TakeResource ==
  ASSUME ResourceInv, NEW s \in Consumers, Take(s)
  PROVE  ResourceInv'
<1>0. /\ TypeOK
      /\ UNCHANGED <<resource, sendClosed, recvClosed, depth, left, cancelled>>
      /\ s \in Strands /\ Recv(s)
  BY DEF ResourceInv, Take, Strands
<1>1. /\ PopFront(senders) \in Seq(Producers) /\ Front(senders) \subseteq Strands
      /\ Append(receivers, s) \in Seq(Consumers)
  <2>1. senders \in Seq(Producers) /\ receivers \in Seq(Consumers)
    BY <1>0 DEF TypeOK
  <2>2. PopFront(senders) \in Seq(Producers) /\ Front(senders) \subseteq Producers
    BY <2>1, WakerQueue
  <2> QED BY <2>1, <2>2 DEF Strands, Entrants
<1>2. queue # <<>> => Tail(queue) \in Seq(Values) /\ Append(taken, Head(queue)) \in Seq(Values)
  BY <1>0, TailFacts DEF TypeOK
<1>3. PICK l \in {"idle", "taking", "done"} : pc' = [pc EXCEPT ![s] = l]
  BY <1>0 DEF Recv, Goto
<1>4. /\ queue' \in Seq(Values) /\ senders' \in Seq(Producers) /\ receivers' \in Seq(Consumers)
      /\ taken' \in Seq(Values) /\ woken \ {s} \subseteq woken' /\ woken' \subseteq Strands
  BY <1>0, <1>1, <1>2 DEF Recv, TypeOK
<1>5. TypeOK'
  BY <1>0, <1>3, <1>4 DEF TypeOK, resource
<1> QED BY <1>0, <1>3, <1>4, <1>5, ElsewhereResource

\* Receiver.close leaves the resource alone.
LEMMA CloseReceiverResource ==
  ASSUME ResourceInv, NEW s \in Consumers, CloseReceiver(s)
  PROVE  ResourceInv'
<1>0. /\ TypeOK /\ s \in Strands /\ pc' = [pc EXCEPT ![s] = "done"]
      /\ woken' = woken \cup {senders[i] : i \in DOMAIN senders}
      /\ queue' = <<>> /\ senders' = <<>> /\ recvClosed' = TRUE
      /\ UNCHANGED <<resource, receivers, sendClosed, depth, left, cancelled, taken>>
  BY DEF ResourceInv, CloseReceiver, Goto, Strands
<1>1. {senders[i] : i \in DOMAIN senders} \subseteq Strands
  BY <1>0, ElementOfSeq DEF TypeOK, Strands, Entrants
<1>2. TypeOK'
  BY <1>0, <1>1, EmptySeq DEF TypeOK, resource
<1> QED BY <1>0, <1>2, ElsewhereResource

\* Every step keeps the resource's invariant.
LEMMA ResourceStep == ResourceInv /\ [Next]_vars => ResourceInv'
<1> SUFFICES ASSUME ResourceInv, [Next]_vars PROVE ResourceInv'
  OBVIOUS
<1>0. TypeOK /\ Control /\ PermitsConserved /\ NoLostPermit /\ WaitersAreWaiting
  BY DEF ResourceInv
<1>1. ASSUME NEW s \in Entrants, Reenter(s) PROVE ResourceInv'
  <2>1. /\ depth[s] < MaxDepth /\ depth' = [depth EXCEPT ![s] = @ + 1] /\ depth[s] \in 0..MaxDepth
        /\ pc[s] = "inside" /\ depth[s] > 0
        /\ UNCHANGED <<resource, channel, pc, left, cancelled, woken, taken>>
    BY <1>0, <1>1 DEF Reenter, TypeOK, Control, InScope
  <2>2. TypeOK'
    BY <1>0, <2>1, SizesAssumption DEF TypeOK, resource, channel
  <2>3. Control'
    BY <1>0, <2>1, SizesAssumption DEF Control, InScope, TypeOK
  <2>4. PermitsConserved'
    <3>1. Holders' = Holders
      BY <1>0, <2>1, SizesAssumption DEF Holders, TypeOK
    <3> QED BY <1>0, <2>1, <3>1 DEF PermitsConserved, resource
  <2>5. WaitersAreWaiting' /\ NoLostPermit'
    BY <1>0, <2>1 DEF WaitersAreWaiting, NoLostPermit, resource
  <2> QED BY <2>2, <2>3, <2>4, <2>5 DEF ResourceInv
<1>2. ASSUME CloseSender PROVE ResourceInv'
  <2>1. /\ woken' = woken \cup {receivers[i] : i \in DOMAIN receivers}
        /\ sendClosed' = TRUE /\ receivers' = <<>>
        /\ UNCHANGED <<resource, queue, senders, recvClosed, pc, depth, left, cancelled, taken>>
    BY <1>2 DEF CloseSender
  <2>2. {receivers[i] : i \in DOMAIN receivers} \subseteq Strands
    BY <1>0, ElementOfSeq DEF TypeOK, Strands
  <2>3. TypeOK'
    BY <1>0, <2>1, <2>2, EmptySeq DEF TypeOK, resource
  <2>4. Control' /\ PermitsConserved' /\ WaitersAreWaiting' /\ NoLostPermit'
    BY <1>0, <2>1 DEF Control, PermitsConserved, Holders, WaitersAreWaiting, NoLostPermit, resource
  <2> QED BY <2>3, <2>4 DEF ResourceInv
<1>3. ASSUME NEW s \in Strands, Cancel(s) PROVE ResourceInv'
  <2>1. /\ cancelled' = cancelled \cup {s} /\ s \in Cancellable
        /\ woken \subseteq woken' /\ woken' \subseteq woken \cup {s}
        /\ UNCHANGED <<resource, channel, pc, depth, left, taken>>
    BY <1>3 DEF Cancel
  <2>2. TypeOK'
    BY <1>0, <1>3, <2>1 DEF TypeOK, resource, channel
  <2>3. Control' /\ PermitsConserved' /\ WaitersAreWaiting' /\ NoLostPermit'
    BY <1>0, <2>1 DEF Control, PermitsConserved, Holders, WaitersAreWaiting, NoLostPermit, resource
  <2> QED BY <2>2, <2>3 DEF ResourceInv
<1>4. ASSUME UNCHANGED vars PROVE ResourceInv'
  <2>1. TypeOK'
    BY <1>0, <1>4 DEF TypeOK, vars, resource, channel
  <2>2. Control' /\ PermitsConserved' /\ WaitersAreWaiting' /\ NoLostPermit'
    BY <1>0, <1>4 DEF Control, PermitsConserved, Holders, WaitersAreWaiting, NoLostPermit, vars, resource
  <2> QED BY <2>1, <2>2 DEF ResourceInv
<1> QED
  BY <1>1, <1>2, <1>3, <1>4, EnterResource, PollResource, LeaveResource, PutResource,
     TakeResource, CloseReceiverResource DEF Next

\* The resource's invariant holds in every behaviour.
LEMMA ResourceAlways == Spec => []ResourceInv
BY InitResource, ResourceStep, PTL DEF Spec

\* In every behaviour every variable keeps its type, the count of permits that
\* are out among them: it is between zero and the limit.
THEOREM TypeCorrect == Spec => []TypeOK
<1>1. ResourceInv => TypeOK
  BY DEF ResourceInv
<1> QED BY <1>1, ResourceAlways, PTL

\* In every behaviour active counts the strands that hold a permit, each once,
\* however deep they entered.
THEOREM PermitsAreConserved == Spec => []PermitsConserved
<1>1. ResourceInv => PermitsConserved
  BY DEF ResourceInv
<1> QED BY <1>1, ResourceAlways, PTL

\* In every behaviour the line of an acquire holds exactly the strands that are
\* suspended in one, each once, whoever is cancelled.
THEOREM LineIsExact == Spec => []WaitersAreWaiting
<1>1. ResourceInv => WaitersAreWaiting
  BY DEF ResourceInv
<1> QED BY <1>1, ResourceAlways, PTL

\* In every behaviour a permit that is free with strands in line has the front
\* one woken, whoever is cancelled.
THEOREM NoPermitIsLost == Spec => []NoLostPermit
<1>1. ResourceInv => NoLostPermit
  BY DEF ResourceInv
<1> QED BY <1>1, ResourceAlways, PTL

-----------------------------------------------------------------------------
(***************************************************************************)
(* The channel.                                                            *)
(***************************************************************************)

\* The values that went through the channel, and those that are in it.
Stream == taken \o queue

\* The values of a producer so far: it has put the one of this round when it is
\* on its way out.
Sent ==
  [s \in Producers |-> Rounds - left[s] + (IF pc[s] = "leaving" THEN 1 ELSE 0)]

OrderInv ==
  /\ \A i, j \in DOMAIN Stream :
       i < j /\ Stream[i][1] = Stream[j][1] => Stream[i][2] < Stream[j][2]
  /\ \A i \in DOMAIN Stream : Stream[i][2] <= Sent[Stream[i][1]]

\* The values of the stream and how far each producer is.
LEMMA StreamFacts ==
  ASSUME TypeOK
  PROVE  /\ Stream \in Seq(Values) /\ Len(Stream) \in Nat /\ DOMAIN Stream = 1..Len(Stream)
         /\ \A i \in DOMAIN Stream : Stream[i][1] \in Producers /\ Stream[i][2] \in 1..Rounds
         /\ Sent \in [Producers -> Int] /\ \A s \in Producers : left[s] \in 0..Rounds
<1>1. queue \in Seq(Values) /\ taken \in Seq(Values)
  BY DEF TypeOK
<1>2. Stream \in Seq(Values)
  BY <1>1, ConcatProperties DEF Stream
<1>3. Len(Stream) \in Nat /\ DOMAIN Stream = 1..Len(Stream)
  BY <1>2, LenProperties
<1>4. \A i \in DOMAIN Stream : Stream[i] \in Values
  BY <1>2, <1>3, ElementOfSeq
<1>5. \A i \in DOMAIN Stream : Stream[i][1] \in Producers /\ Stream[i][2] \in 1..Rounds
  BY <1>4 DEF Values
<1>6. \A s \in Producers : left[s] \in 0..Rounds
  BY DEF TypeOK, Entrants
<1>7. Sent \in [Producers -> Int]
  BY <1>6, SizesAssumption DEF Sent
<1> QED BY <1>2, <1>3, <1>5, <1>6, <1>7

\* A step that puts no value into the channel and no producer back keeps the
\* order.
LEMMA OrderKept ==
  ASSUME TypeOK, OrderInv, Stream' = Stream, Sent' \in [Producers -> Int],
         \A s \in Producers : Sent[s] <= Sent'[s]
  PROVE  OrderInv'
<1>1. /\ \A i \in DOMAIN Stream : Stream[i][1] \in Producers /\ Stream[i][2] \in 1..Rounds
      /\ Sent \in [Producers -> Int]
  BY StreamFacts
<1>2. ASSUME NEW i \in DOMAIN Stream PROVE Stream[i][2] <= Sent'[Stream[i][1]]
  BY <1>1, SizesAssumption DEF OrderInv
<1> QED BY <1>2 DEF OrderInv

\* A producer goes back in no step of the resource.
LEMMA SentGrows ==
  ASSUME ResourceInv, ResourceInv', NEW s \in Entrants, Enter(s) \/ AcquirePoll(s) \/ Leave(s)
  PROVE  Sent' \in [Producers -> Int] /\ \A t \in Producers : Sent[t] <= Sent'[t]
<1>0. TypeOK /\ TypeOK' /\ Control /\ s \in Strands
  BY DEF ResourceInv, Strands
<1>1. \A t \in Producers : left[t] \in 0..Rounds /\ left'[t] \in 0..Rounds
  BY <1>0 DEF TypeOK, Entrants
<1>2. Sent' \in [Producers -> Int]
  BY <1>1, SizesAssumption DEF Sent
<1>3. ASSUME NEW t \in Producers PROVE Sent[t] <= Sent'[t]
  <2>1. CASE Enter(s) \/ AcquirePoll(s)
    <3>1. left' = left /\ pc[s] # "leaving"
      BY <2>1 DEF Enter, AcquirePoll
    <3>2. pc[t] = "leaving" => pc'[t] = "leaving"
      <4>1. \E l : pc' = [pc EXCEPT ![s] = l]
        <5>1. pc' = pc => pc' = [pc EXCEPT ![s] = pc[s]]
          BY <1>0 DEF TypeOK
        <5> QED BY <2>1, <5>1 DEF Enter, TryAcquire, AcquirePoll, Hold, Goto
      <4> QED BY <3>1, <4>1, <1>0 DEF TypeOK, Strands, Entrants
    <3> QED BY <1>1, <3>1, <3>2, SizesAssumption DEF Sent
  <2>2. CASE Leave(s) /\ t # s
    <3>1. left'[t] = left[t] /\ pc'[t] = pc[t]
      BY <1>0, <2>2 DEF Leave, Goto, Release, TypeOK, Strands, Entrants
    <3> QED BY <1>1, <3>1, SizesAssumption DEF Sent
  <2>3. CASE Leave(s) /\ t = s
    <3>1. pc[s] = "leaving"
      BY <2>3, StrandsAssumption DEF Leave
    <3>2. \/ pc'[s] = "leaving" /\ left' = left
          \/ left'[s] = left[s] - 1
      BY <1>0, <2>3 DEF Leave, Goto, Release, TypeOK
    <3> QED BY <1>1, <2>3, <3>1, <3>2, SizesAssumption DEF Sent
  <2> QED BY <2>1, <2>2, <2>3
<1> QED BY <1>2, <1>3

\* A put writes the next number of its producer behind everything in the stream.
LEMMA PutOrder ==
  ASSUME ResourceInv, ResourceInv', OrderInv, NEW s \in Producers, Put(s)
  PROVE  OrderInv'
<1>0. /\ TypeOK /\ TypeOK' /\ pc[s] \in {"inside", "putting"} /\ left' = left /\ taken' = taken
      /\ s \in Strands /\ Send(s)
  BY DEF ResourceInv, Put, Strands, Entrants
<1>1. /\ \A t \in Producers : left[t] \in 0..Rounds
      /\ Stream \in Seq(Values) /\ Len(Stream) \in Nat /\ DOMAIN Stream = 1..Len(Stream)
      /\ \A i \in DOMAIN Stream : Stream[i][1] \in Producers /\ Stream[i][2] \in 1..Rounds
      /\ Sent \in [Producers -> Int]
  BY <1>0, StreamFacts
<1>2. PICK l \in {"putting", "leaving"} : pc' = [pc EXCEPT ![s] = l]
  BY <1>0 DEF Send, Goto
<1>3. Sent' \in [Producers -> Int] /\ \A t \in Producers : Sent[t] <= Sent'[t]
  <2>1. ASSUME NEW t \in Producers PROVE pc[t] = "leaving" => pc'[t] = "leaving"
    BY <1>0, <1>2 DEF TypeOK, Strands, Entrants
  <2>2. Sent' \in [Producers -> Int]
    BY <1>0, <1>1, SizesAssumption DEF Sent
  <2>3. ASSUME NEW t \in Producers PROVE Sent[t] <= Sent'[t]
    BY <1>0, <1>1, <2>1, SizesAssumption DEF Sent
  <2> QED BY <2>2, <2>3
<1>4. CASE queue' = queue
  <2>1. Stream' = Stream
    BY <1>0, <1>4 DEF Stream
  <2> QED BY <1>0, <1>3, <2>1, OrderKept
<1>5. CASE queue' = Append(queue, Value(s)) /\ pc' = [pc EXCEPT ![s] = "leaving"]
  <2>1. Value(s) \in Values
    <3>1. left[s] \in 1..Rounds
      BY <1>0, <1>1 DEF ResourceInv, Control, InScope, Entrants
    <3> QED BY <3>1, SizesAssumption DEF Value, Values
  <2>2. Stream' = Append(Stream, Value(s))
    <3>1. queue \in Seq(Values) /\ taken \in Seq(Values)
      BY <1>0 DEF TypeOK
    <3>2. /\ Append(queue, Value(s)) = queue \o <<Value(s)>>
          /\ Append(Stream, Value(s)) = Stream \o <<Value(s)>>
      BY <1>1, <2>1, <3>1, AppendIsConcat
    <3>3. (taken \o queue) \o <<Value(s)>> = taken \o (queue \o <<Value(s)>>)
      BY <2>1, <3>1, ConcatAssociative
    <3> QED BY <1>0, <1>5, <3>2, <3>3 DEF Stream
  <2>3. /\ Sent[s] = Rounds - left[s] /\ Sent'[s] = Rounds - left[s] + 1
        /\ Value(s)[1] = s /\ Value(s)[2] = Rounds - left[s] + 1
    <3>1. left[s] \in 0..Rounds /\ pc[s] # "leaving" /\ pc'[s] = "leaving"
      BY <1>0, <1>1, <1>5 DEF TypeOK
    <3> QED BY <1>0, <3>1, SizesAssumption DEF Sent, Value
  <2> DEFINE n == Len(Stream)
             x == Value(s)
             a == Append(Stream, x)
  <2>4. /\ DOMAIN a = 1..(n + 1) /\ a[n + 1] = x
        /\ \A i \in 1..n : a[i] = Stream[i]
    BY <1>1, <2>1, AppendProperties, LenProperties
  <2> HIDE DEF a, x, n
  <2>5. n \in Nat /\ DOMAIN Stream = 1..n
    BY <1>1 DEF n
  <2>6. ASSUME NEW i \in 1..n, Stream[i][1] = s PROVE Stream[i][2] < x[2]
    <3>1. Stream[i][2] \in 1..Rounds /\ Stream[i][2] <= Sent[s]
      BY <1>1, <2>5, <2>6 DEF OrderInv
    <3>2. Stream[i][2] <= Rounds - left[s] /\ x[2] = Rounds - left[s] + 1 /\ left[s] \in 0..Rounds
      BY <1>1, <2>3, <3>1 DEF x
    <3> QED BY <3>1, <3>2, SizesAssumption
  <2>7. ASSUME NEW i \in 1..(n + 1), NEW j \in 1..(n + 1), i < j, a[i][1] = a[j][1]
        PROVE  a[i][2] < a[j][2]
    <3>1. i \in 1..n
      BY <2>5, <2>7
    <3>2. CASE j \in 1..n
      BY <2>4, <2>5, <2>7, <3>1, <3>2 DEF OrderInv
    <3>3. CASE j = n + 1
      BY <2>3, <2>4, <2>6, <2>7, <3>1, <3>3 DEF x
    <3> QED BY <2>5, <3>2, <3>3
  <2>8. ASSUME NEW i \in 1..(n + 1) PROVE a[i][2] <= Sent'[a[i][1]]
    <3>1. CASE i \in 1..n
      <4>1. /\ Stream[i][1] \in Producers /\ Stream[i][2] \in 1..Rounds
            /\ Stream[i][2] <= Sent[Stream[i][1]]
        BY <1>1, <2>5, <3>1 DEF OrderInv
      <4>2. Stream[i][2] <= Sent'[Stream[i][1]]
        BY <1>1, <1>3, <4>1, SizesAssumption
      <4> QED BY <2>4, <3>1, <4>2
    <3>2. CASE i = n + 1
      BY <1>1, <2>3, <2>4, <3>2, SizesAssumption DEF x
    <3> QED BY <2>5, <3>1, <3>2
  <2>9. Stream' = a
    BY <2>2 DEF a, x
  <2> QED BY <2>4, <2>7, <2>8, <2>9 DEF OrderInv
<1> QED BY <1>0, <1>4, <1>5 DEF Send, Goto, PushBack


\* A take moves the value at the front of the buffer behind those taken before.
LEMMA TakeStream ==
  ASSUME TypeOK, NEW s \in Consumers, Take(s)
  PROVE  Stream' = Stream
<1>0. queue \in Seq(Values) /\ taken \in Seq(Values) /\ Recv(s)
  BY DEF TypeOK, Take
<1>1. CASE queue' = queue /\ taken' = taken
  BY <1>1 DEF Stream
<1>2. CASE queue # <<>> /\ queue' = Tail(queue) /\ taken' = Append(taken, Head(queue))
  <2> DEFINE h == Head(queue)
             t == Tail(queue)
  <2>1. h \in Values /\ t \in Seq(Values) /\ <<h>> \in Seq(Values)
    BY <1>0, <1>2, HeadTailProperties
  <2>2. queue = <<h>> \o t
    <3>1. /\ Len(<<h>> \o t) = Len(queue)
          /\ \A i \in 1..Len(queue) : (<<h>> \o t)[i] = queue[i]
      BY <1>0, <1>2
    <3>2. <<h>> \o t \in Seq(Values)
      BY <2>1, ConcatProperties
    <3> QED BY <1>0, <3>1, <3>2, SeqEqual
  <2>3. Append(taken, h) = taken \o <<h>>
    BY <1>0, <2>1, AppendIsConcat
  <2>4. (taken \o <<h>>) \o t = taken \o (<<h>> \o t)
    BY <1>0, <2>1, ConcatAssociative
  <2> QED BY <1>2, <2>2, <2>3, <2>4 DEF Stream
<1> QED BY <1>0, <1>1, <1>2 DEF Recv

\* What was taken is the front of the stream.
LEMMA TakenIsPrefix ==
  ASSUME TypeOK
  PROVE  /\ DOMAIN taken \subseteq DOMAIN Stream
         /\ \A i \in DOMAIN taken : taken[i] = Stream[i]
<1>1. queue \in Seq(Values) /\ taken \in Seq(Values)
  BY DEF TypeOK
<1>2. /\ Len(taken) \in Nat /\ Len(queue) \in Nat /\ DOMAIN taken = 1..Len(taken)
      /\ DOMAIN Stream = 1..(Len(taken) + Len(queue))
      /\ \A i \in 1..(Len(taken) + Len(queue)) :
           Stream[i] = IF i <= Len(taken) THEN taken[i] ELSE queue[i - Len(taken)]
  BY <1>1, ConcatProperties, LenProperties DEF Stream
<1> QED BY <1>2

\* Every step keeps the order of the values.
LEMMA OrderStep == ResourceInv /\ OrderInv /\ [Next]_vars => OrderInv'
<1> SUFFICES ASSUME ResourceInv, OrderInv, [Next]_vars PROVE OrderInv'
  OBVIOUS
<1>0. TypeOK /\ TypeOK' /\ ResourceInv'
  BY ResourceStep DEF ResourceInv
<1>1. /\ \A t \in Producers : left[t] \in 0..Rounds
      /\ Sent \in [Producers -> Int]
      /\ \A i \in DOMAIN Stream : Stream[i][1] \in Producers /\ Stream[i][2] \in 1..Rounds
  BY <1>0, StreamFacts
<1>2. ASSUME NEW s \in Entrants, Enter(s) \/ AcquirePoll(s) \/ Leave(s) PROVE OrderInv'
  <2>1. queue' = queue /\ taken' = taken
    BY <1>2 DEF Enter, AcquirePoll, Leave, channel
  <2>2. Stream' = Stream
    BY <2>1 DEF Stream
  <2> QED BY <1>0, <1>2, <2>2, SentGrows, OrderKept
<1>3. ASSUME Stream' = Stream, left' = left, NEW s \in Strands \ Producers, NEW l,
             pc' = pc \/ pc' = [pc EXCEPT ![s] = l]
      PROVE  OrderInv'
  <2>1. \A t \in Producers : pc'[t] = pc[t]
    BY <1>0, <1>3 DEF TypeOK, Strands, Entrants
  <2>2. Sent' = Sent
    BY <1>3, <2>1 DEF Sent
  <2> QED BY <1>0, <1>1, <1>3, <2>2, OrderKept
<1>4. ASSUME UNCHANGED <<queue, taken, left, pc>> PROVE OrderInv'
  <2>1. Stream' = Stream /\ Sent' = Sent
    BY <1>4 DEF Stream, Sent
  <2> QED BY <2>1 DEF OrderInv
<1>5. ASSUME NEW s \in Consumers, Take(s) PROVE OrderInv'
  <2>1. s \in Strands \ Producers
    BY StrandsAssumption DEF Strands, Entrants
  <2>2. left' = left /\ \E l : pc' = [pc EXCEPT ![s] = l]
    BY <1>5 DEF Take, Recv, Goto
  <2> QED BY <1>0, <1>3, <1>5, <2>1, <2>2, TakeStream
<1>6. ASSUME NEW s \in Consumers, CloseReceiver(s) PROVE OrderInv'
  <2>1. /\ s \in Strands \ Producers /\ left' = left /\ pc' = [pc EXCEPT ![s] = "done"]
        /\ queue' = <<>> /\ taken' = taken
    BY <1>6, StrandsAssumption DEF CloseReceiver, Goto, Strands, Entrants
  <2>2. Sent' = Sent
    <3>1. \A t \in Producers : pc'[t] = pc[t]
      BY <1>0, <2>1 DEF TypeOK, Strands, Entrants
    <3> QED BY <2>1, <3>1 DEF Sent
  <2>3. Stream' = taken
    BY <1>0, <2>1, ConcatEmptySeq DEF Stream, TypeOK
  <2>4. DOMAIN taken \subseteq DOMAIN Stream /\ \A i \in DOMAIN taken : taken[i] = Stream[i]
    BY <1>0, TakenIsPrefix
  <2> QED BY <2>2, <2>3, <2>4 DEF OrderInv
<1>7. ASSUME NEW s \in Producers, Put(s) PROVE OrderInv'
  BY <1>0, <1>7, PutOrder
<1>8. ASSUME \/ \E s \in Entrants : Reenter(s)
             \/ CloseSender \/ \E s \in Strands : Cancel(s)
             \/ UNCHANGED vars
      PROVE  OrderInv'
  BY <1>4, <1>8 DEF Reenter, CloseSender, Cancel, vars, channel
<1> QED BY <1>2, <1>5, <1>6, <1>7, <1>8 DEF Next

\* In every behaviour the values of one producer are taken in the order in which
\* it put them and each once, whoever is cancelled and whoever closes.
THEOREM ValuesAreInOrder == Spec => []TakenInOrder
<1>1. Init => OrderInv
  <2>1. Init => Stream = <<>>
    BY DEF Init, Stream
  <2> QED BY <2>1 DEF OrderInv
<1>2. ResourceInv /\ OrderInv => TakenInOrder
  <2> SUFFICES ASSUME ResourceInv, OrderInv PROVE TakenInOrder
    OBVIOUS
  <2>1. /\ DOMAIN taken \subseteq DOMAIN Stream
        /\ \A i \in DOMAIN taken : taken[i] = Stream[i]
    BY TakenIsPrefix DEF ResourceInv
  <2> QED BY <2>1 DEF OrderInv, TakenInOrder
<1> QED BY <1>1, <1>2, InitResource, ResourceStep, OrderStep, PTL DEF Spec


Putting == {s \in Producers : pc[s] = "putting"}
Taking == {s \in Consumers : pc[s] = "taking"}

\* The queues of wakers hold those that wait and were not woken, each once.
WakersAreWaiting ==
  /\ Distinct(senders) /\ Elems(senders) = Putting \ woken
  /\ Distinct(receivers) /\ Elems(receivers) = Taking \ woken

\* A strand was woken for a wait it is still in.
WokenAreWaiting ==
  /\ \A s \in Producers \cap woken : pc[s] \in {"acquiring", "putting"}
  /\ Consumers \cap woken \subseteq Taking

\* While a strand sleeps, enough others are awake to use all the room there is
\* in the buffer, or all the values.
EnoughAreWoken ==
  /\ Putting \ woken # {} => Cardinality(Putting \cap woken) + Len(queue) >= Capacity
  /\ Taking \ woken # {} => Cardinality(Taking \cap woken) >= Len(queue)

\* A close wakes everyone it has to: that of the receiver leaves the strands that
\* wait to take asleep, with nothing in the buffer for them.
CloseWakes ==
  /\ recvClosed => Putting \subseteq woken /\ queue = <<>>
  /\ sendClosed => Taking \subseteq woken /\ \A s \in Producers : pc[s] = "done"

ChannelInv == WakersAreWaiting /\ WokenAreWaiting /\ EnoughAreWoken /\ CloseWakes
\* Those awake in a wait for the channel are finitely many.
LEMMA AwakeFinite ==
  ASSUME NEW W
  PROVE  /\ IsFiniteSet(Putting \cap W) /\ Cardinality(Putting \cap W) \in Nat
         /\ IsFiniteSet(Taking \cap W) /\ Cardinality(Taking \cap W) \in Nat
<1>1. Putting \cap W \subseteq Strands /\ Taking \cap W \subseteq Strands
  BY DEF Putting, Taking, Strands, Entrants
<1>2. IsFiniteSet(Putting \cap W) /\ IsFiniteSet(Taking \cap W)
  BY <1>1, StrandsAssumption, FS_Subset
<1> QED BY <1>2, FS_CardinalityType

\* Before anybody waits nothing is owed.
LEMMA InitChannel == Init => ChannelInv
<1> SUFFICES ASSUME Init PROVE ChannelInv
  OBVIOUS
<1>1. Putting = {} /\ Taking = {} /\ woken = {} /\ senders = <<>> /\ receivers = <<>>
  BY DEF Init, Putting, Taking, Strands, Entrants
<1>2. WakersAreWaiting
  BY <1>1 DEF WakersAreWaiting, Distinct, Elems
<1>3. WokenAreWaiting /\ EnoughAreWoken /\ CloseWakes
  BY <1>1 DEF Init, WokenAreWaiting, EnoughAreWoken, CloseWakes
<1> QED BY <1>2, <1>3 DEF ChannelInv

\* A step elsewhere keeps the channel's invariant.
LEMMA ChannelKept ==
  ASSUME ChannelInv, UNCHANGED channel, Putting' = Putting, Taking' = Taking,
         woken' \cap Putting = woken \cap Putting, woken' \cap Taking = woken \cap Taking,
         WokenAreWaiting', sendClosed => \A s \in Producers : pc'[s] = "done"
  PROVE  ChannelInv'
<1>1. /\ senders' = senders /\ receivers' = receivers /\ queue' = queue
      /\ sendClosed' = sendClosed /\ recvClosed' = recvClosed
  BY DEF channel
<1>2. /\ Putting' \ woken' = Putting \ woken /\ Taking' \ woken' = Taking \ woken
      /\ Putting' \cap woken' = Putting \cap woken /\ Taking' \cap woken' = Taking \cap woken
  OBVIOUS
<1>3. WakersAreWaiting'
  BY <1>1, <1>2 DEF ChannelInv, WakersAreWaiting, Distinct, Elems
<1>4. EnoughAreWoken'
  BY <1>1, <1>2 DEF ChannelInv, EnoughAreWoken
<1>5. CloseWakes'
  BY <1>1, <1>2 DEF ChannelInv, CloseWakes
<1> QED BY <1>3, <1>4, <1>5 DEF ChannelInv

\* The steps at the resource, and the cancellation of a visitor.
LEMMA ResourceStepChannel ==
  ASSUME ResourceInv, ResourceInv', ChannelInv, NEW s \in Entrants,
         Enter(s) \/ AcquirePoll(s) \/ Leave(s)
  PROVE  ChannelInv'
<1>0. /\ TypeOK /\ Control /\ WakersAreWaiting /\ WokenAreWaiting /\ EnoughAreWoken /\ CloseWakes
      /\ UNCHANGED channel /\ s \in Strands /\ s \notin Consumers
      /\ pc[s] \in {"idle", "acquiring", "leaving", "inside"}
      /\ Distinct(waiters) /\ Elems(waiters) = {t \in Entrants : pc[t] = "acquiring"}
      /\ waiters \in Seq(Entrants)
  BY StrandsAssumption, WaitersInLine
     DEF ResourceInv, ChannelInv, Enter, AcquirePoll, Leave, Strands, Entrants, TypeOK
<1>1. PICK l : pc' = [pc EXCEPT ![s] = l] /\ l \in {"inside", "done", "acquiring", "leaving", "idle"}
  <2>1. pc' = pc => pc' = [pc EXCEPT ![s] = pc[s]]
    BY <1>0 DEF TypeOK
  <2> QED BY <1>0, <2>1 DEF Enter, TryAcquire, AcquirePoll, Leave, Hold, Goto
<1>2. Putting' = Putting /\ Taking' = Taking
  BY <1>0, <1>1 DEF Putting, Taking, TypeOK, Strands, Entrants
<1>3. PICK W : /\ W \subseteq {t \in Entrants \ {s} : pc[t] = "acquiring"}
               /\ \/ woken' = (woken \ {s}) \cup W
                  \/ woken' = woken \cup W /\ s \notin Producers \cap woken
  <2>1. CASE Enter(s)
    <3>1. s \notin Producers \cap woken
      BY <1>0, <2>1 DEF Enter, WokenAreWaiting
    <3>2. woken' = woken \cup {}
      BY <2>1 DEF Enter
    <3> QED BY <3>1, <3>2
  <2>2. CASE AcquirePoll(s)
    <3>1. CASE woken' = woken \ {s}
      <4>1. woken' = (woken \ {s}) \cup {}
        BY <3>1
      <4> QED BY <4>1
    <3>2. CASE /\ Head(waiters) = s
               /\ woken' = (woken \ {s}) \cup (IF active + 1 < Limit THEN Front(Tail(waiters)) ELSE {})
      <4>1. waiters # <<>>
        BY <1>0, <2>2 DEF AcquirePoll, Elems
      <4>2. /\ Tail(waiters) \in Seq(Entrants)
            /\ Elems(Tail(waiters)) = Elems(waiters) \ {s}
        BY <1>0, <3>2, <4>1, TailFacts
      <4>3. Front(Tail(waiters)) \subseteq Elems(Tail(waiters))
        BY <4>2, WakerQueue
      <4> QED BY <1>0, <3>2, <4>2, <4>3
    <3> QED BY <2>2, <3>1, <3>2 DEF AcquirePoll
  <2>3. CASE Leave(s)
    <3>1. s \notin Producers \cap woken /\ pc[s] # "acquiring"
      BY <1>0, <2>3 DEF Leave, WokenAreWaiting
    <3>2. Front(waiters) \subseteq Elems(waiters)
      BY <1>0, WakerQueue
    <3>3. \/ woken' = woken \cup {}
          \/ woken' = woken \cup Front(waiters)
      BY <2>3 DEF Leave, Release
    <3> QED BY <1>0, <3>1, <3>2, <3>3
  <2> QED BY <2>1, <2>2, <2>3
<1>4. /\ woken' \cap Putting = woken \cap Putting /\ woken' \cap Taking = woken \cap Taking
      /\ woken' \cap Consumers = woken \cap Consumers
  BY <1>0, <1>3, StrandsAssumption DEF Putting, Taking, Entrants
<1>5. WokenAreWaiting'
  <2>1. ASSUME NEW t \in Producers \cap woken' PROVE pc'[t] \in {"acquiring", "putting"}
    <3>1. CASE t # s
      <4>1. pc'[t] = pc[t]
        BY <1>0, <1>1, <3>1 DEF TypeOK, Strands, Entrants
      <4> QED BY <1>0, <1>3, <2>1, <3>1, <4>1 DEF WokenAreWaiting
    <3>2. CASE t = s
      BY <1>0, <1>1, <1>3, <2>1, <3>2 DEF WokenAreWaiting, TypeOK
    <3> QED BY <3>1, <3>2
  <2> QED BY <1>0, <1>2, <1>4, <2>1 DEF WokenAreWaiting
<1>6. sendClosed => \A t \in Producers : pc'[t] = "done"
  BY <1>0, <1>1, StrandsAssumption DEF CloseWakes, TypeOK, Strands, Entrants
<1> QED BY <1>0, <1>2, <1>4, <1>5, <1>6, ChannelKept


\* A value that is put, or that is taken, pops the waker of one that waits at the
\* other end: if anybody slept there, one less sleeps and one more is awake.
LEMMA WakeFront ==
  ASSUME NEW S, NEW q \in Seq(S), Distinct(q), NEW W, NEW A, Elems(q) = W \ A,
         IsFiniteSet(W \cap A)
  PROVE  /\ Distinct(PopFront(q))
         /\ Elems(PopFront(q)) = W \ (A \cup Front(q))
         /\ W \ (A \cup Front(q)) # {}
              => Cardinality(W \cap (A \cup Front(q))) = Cardinality(W \cap A) + 1
<1>1. CASE q = <<>>
  <2>1. Front(q) = {} /\ PopFront(q) = q /\ Elems(q) = {}
    BY <1>1 DEF Front, PopFront, Elems
  <2> QED BY <2>1
<1>2. CASE q # <<>>
  <2>1. Front(q) = {Head(q)} /\ PopFront(q) = Tail(q)
    BY <1>2 DEF Front, PopFront
  <2>2. /\ Head(q) \in W \ A /\ Distinct(Tail(q))
        /\ Elems(Tail(q)) = Elems(q) \ {Head(q)}
    BY <1>2, TailFacts
  <2>3. W \ (A \cup {Head(q)}) = (W \ A) \ {Head(q)}
    OBVIOUS
  <2>4. W \cap (A \cup {Head(q)}) = (W \cap A) \cup {Head(q)} /\ Head(q) \notin W \cap A
    BY <2>2
  <2>5. Cardinality((W \cap A) \cup {Head(q)}) = Cardinality(W \cap A) + 1
    BY <2>4, FS_AddElement
  <2> QED BY <2>1, <2>2, <2>3, <2>4, <2>5
<1> QED BY <1>1, <1>2

\* A put.  Its strand was not asleep; it goes away awake, or goes to sleep when
\* the buffer has no room.
LEMMA PutChannel ==
  ASSUME ResourceInv, ResourceInv', ChannelInv, NEW s \in Producers, s \notin cancelled, Put(s)
  PROVE  ChannelInv'
<1> USE SizesAssumption
<1>0. /\ TypeOK /\ WakersAreWaiting /\ WokenAreWaiting /\ EnoughAreWoken /\ CloseWakes
      /\ s \in Strands /\ s \notin Consumers /\ Send(s)
      /\ sendClosed' = sendClosed /\ recvClosed' = recvClosed
      /\ queue \in Seq(Values) /\ senders \in Seq(Producers) /\ receivers \in Seq(Consumers)
      /\ Len(queue) \in Nat
  BY StrandsAssumption, LenProperties DEF ResourceInv, ChannelInv, Put, Strands, Entrants, TypeOK
<1>1. (s \in Putting /\ s \in woken) \/ (s \notin Putting /\ s \notin woken /\ pc[s] = "inside")
  BY <1>0 DEF Put, Polled, Putting, WokenAreWaiting
<1>2. ~sendClosed
  BY <1>0, <1>1 DEF CloseWakes, Putting
<1>3. ASSUME NEW l, pc' = [pc EXCEPT ![s] = l]
      PROVE  /\ Taking' = Taking /\ \A t \in Producers \ {s} : pc'[t] = pc[t]
             /\ pc'[s] = l
             /\ l = "putting" => Putting' = Putting \cup {s}
             /\ l = "leaving" => Putting' = Putting \ {s}
  BY <1>0, <1>3 DEF Putting, Taking, TypeOK, Strands, Entrants
<1>4. CASE recvClosed
  <2>1. /\ pc' = [pc EXCEPT ![s] = "leaving"] /\ woken' = woken \ {s}
        /\ UNCHANGED <<queue, senders, receivers>>
    BY <1>0, <1>4 DEF Send, Goto
  <2>2. /\ Putting' = Putting \ {s} /\ Taking' = Taking /\ Putting \subseteq woken
        /\ queue = <<>> /\ Taking \cap woken' = Taking \cap woken /\ Taking \ woken' = Taking \ woken
    BY <1>0, <1>3, <1>4, <2>1 DEF CloseWakes, Taking
  <2>3. WakersAreWaiting'
    BY <1>0, <2>1, <2>2 DEF WakersAreWaiting, Distinct, Elems
  <2>4. WokenAreWaiting'
    BY <1>0, <1>3, <2>1, <2>2 DEF WokenAreWaiting
  <2>5. EnoughAreWoken' /\ CloseWakes'
    BY <1>0, <1>2, <2>1, <2>2 DEF EnoughAreWoken, CloseWakes
  <2> QED BY <2>3, <2>4, <2>5 DEF ChannelInv
<1>5. CASE ~recvClosed /\ Len(queue) < Capacity
  <2>1. /\ pc' = [pc EXCEPT ![s] = "leaving"] /\ queue' = Append(queue, Value(s))
        /\ receivers' = PopFront(receivers) /\ senders' = senders
        /\ woken' = (woken \ {s}) \cup Front(receivers)
    BY <1>0, <1>2, <1>5 DEF Send, Goto, PushBack
  <2>2. Putting' = Putting \ {s} /\ Taking' = Taking
    BY <1>3, <2>1
  <2>3. Front(receivers) \subseteq Taking \ woken /\ Front(receivers) \cap Producers = {}
    <3>1. Front(receivers) \subseteq Elems(receivers) /\ Front(receivers) \subseteq Consumers
      BY <1>0, WakerQueue
    <3> QED BY <1>0, <3>1, StrandsAssumption DEF WakersAreWaiting, Entrants
  <2>4. /\ Putting' \ woken' = Putting \ woken
        /\ Putting' \cap woken' = (Putting \cap woken) \ {s}
    BY <1>1, <2>1, <2>2, <2>3 DEF Putting
  <2>5. Taking \ woken' = Taking \ (woken \cup Front(receivers))
        /\ Taking \cap woken' = Taking \cap (woken \cup Front(receivers))
    BY <1>0, <2>1 DEF Taking
  <2>6. /\ Distinct(receivers') /\ Elems(receivers') = Taking \ woken'
        /\ Taking \ woken' # {} => Cardinality(Taking \cap woken') = Cardinality(Taking \cap woken) + 1
    <3>1. IsFiniteSet(Taking \cap woken)
      BY AwakeFinite
    <3>2. Distinct(receivers) /\ Elems(receivers) = Taking \ woken
      BY <1>0 DEF WakersAreWaiting
    <3>3. /\ Distinct(PopFront(receivers))
          /\ Elems(PopFront(receivers)) = Taking \ (woken \cup Front(receivers))
          /\ Taking \ (woken \cup Front(receivers)) # {}
               => Cardinality(Taking \cap (woken \cup Front(receivers)))
                    = Cardinality(Taking \cap woken) + 1
      BY <1>0, <3>1, <3>2, WakeFront
    <3> QED BY <2>1, <2>5, <3>3
  <2>7. WakersAreWaiting'
    BY <1>0, <2>1, <2>2, <2>4, <2>6 DEF WakersAreWaiting, Distinct, Elems
  <2>8. WokenAreWaiting'
    BY <1>0, <1>3, <2>1, <2>2, <2>3 DEF WokenAreWaiting
  <2>9. Len(queue') = Len(queue) + 1
    <3>1. TypeOK'
      BY DEF ResourceInv
    <3> QED BY <1>0, <2>1
  <2>10. EnoughAreWoken'
    <3>1. /\ IsFiniteSet(Putting \cap woken) /\ Cardinality(Putting \cap woken) \in Nat
          /\ Cardinality(Taking \cap woken) \in Nat
      BY AwakeFinite
    <3>2. /\ Cardinality((Putting \cap woken) \ {s}) \in Nat
          /\ Cardinality((Putting \cap woken) \ {s}) + 1 >= Cardinality(Putting \cap woken)
      <4>1. CASE s \in Putting \cap woken
        <5>1. Cardinality((Putting \cap woken) \ {s}) = Cardinality(Putting \cap woken) - 1
          BY <3>1, <4>1, FS_RemoveElement
        <5>2. (Putting \cap woken) \ {s} = Putting \cap (woken \ {s})
          OBVIOUS
        <5>3. Cardinality((Putting \cap woken) \ {s}) \in Nat
          BY <5>2, AwakeFinite
        <5> QED BY <3>1, <5>1, <5>3
      <4>2. CASE s \notin Putting \cap woken
        <5>1. (Putting \cap woken) \ {s} = Putting \cap woken
          BY <4>2
        <5> QED BY <3>1, <5>1
      <4> QED BY <4>1, <4>2
    <3>3. ASSUME Putting \ woken # {}
          PROVE  Cardinality((Putting \cap woken) \ {s}) + Len(queue') >= Capacity
      <4>1. Cardinality(Putting \cap woken) + Len(queue) >= Capacity
        BY <1>0, <3>3 DEF EnoughAreWoken
      <4> QED BY <1>0, <2>9, <3>1, <3>2, <4>1
    <3>4. ASSUME Taking \ woken' # {}
          PROVE  Cardinality(Taking \cap woken') >= Len(queue')
      <4>1. Taking \ woken # {}
        BY <2>5, <3>4
      <4>2. Cardinality(Taking \cap woken) >= Len(queue)
        BY <1>0, <4>1 DEF EnoughAreWoken
      <4> QED BY <1>0, <2>6, <2>9, <3>1, <3>4, <4>2
    <3> QED BY <2>2, <2>4, <3>3, <3>4 DEF EnoughAreWoken
  <2>11. CloseWakes'
    BY <1>0, <1>2, <1>5 DEF CloseWakes
  <2> QED BY <2>7, <2>8, <2>10, <2>11 DEF ChannelInv
<1>6. CASE ~recvClosed /\ Len(queue) >= Capacity
  <2>1. /\ pc' = [pc EXCEPT ![s] = "putting"] /\ senders' = Append(senders, s)
        /\ woken' = woken \ {s} /\ UNCHANGED <<queue, receivers>>
    BY <1>0, <1>2, <1>6 DEF Send, Goto
  <2>2. Putting' = Putting \cup {s} /\ Taking' = Taking
    BY <1>3, <2>1
  <2>3. /\ Putting' \ woken' = (Putting \ woken) \cup {s} /\ s \notin Putting \ woken
        /\ Taking' \ woken' = Taking \ woken /\ Taking' \cap woken' = Taking \cap woken
    BY <1>0, <1>1, <2>1, <2>2 DEF Taking
  <2>4. Distinct(senders') /\ Elems(senders') = Putting' \ woken'
    BY <1>0, <2>1, <2>3, AppendFacts DEF WakersAreWaiting
  <2>5. WakersAreWaiting'
    BY <1>0, <2>1, <2>3, <2>4 DEF WakersAreWaiting, Distinct, Elems
  <2>6. WokenAreWaiting'
    BY <1>0, <1>3, <2>1, <2>2 DEF WokenAreWaiting
  <2>7. EnoughAreWoken'
    <3>1. Cardinality(Putting' \cap woken') \in Nat
      <4>1. Putting' \cap woken' = Putting \cap (woken \ {s})
        BY <2>1, <2>2
      <4> QED BY <4>1, AwakeFinite
    <3>2. Cardinality(Putting' \cap woken') + Len(queue) >= Capacity
      BY <1>0, <1>6, <3>1
    <3> QED BY <1>0, <2>1, <2>3, <3>2 DEF EnoughAreWoken
  <2>8. CloseWakes'
    BY <1>0, <1>2, <1>6 DEF CloseWakes
  <2> QED BY <2>5, <2>6, <2>7, <2>8 DEF ChannelInv
<1> QED BY <1>0, <1>4, <1>5, <1>6


\* A take, the other way round.
LEMMA TakeChannel ==
  ASSUME ResourceInv, ResourceInv', ChannelInv, NEW s \in Consumers, s \notin cancelled, Take(s)
  PROVE  ChannelInv'
<1> USE SizesAssumption
<1>0. /\ TypeOK /\ WakersAreWaiting /\ WokenAreWaiting /\ EnoughAreWoken /\ CloseWakes
      /\ s \in Strands /\ s \notin Producers /\ Recv(s)
      /\ sendClosed' = sendClosed /\ recvClosed' = recvClosed
      /\ queue \in Seq(Values) /\ senders \in Seq(Producers) /\ receivers \in Seq(Consumers)
      /\ Len(queue) \in Nat
  BY StrandsAssumption, LenProperties DEF ResourceInv, ChannelInv, Take, Strands, Entrants, TypeOK
<1>1. (s \in Taking /\ s \in woken) \/ (s \notin Taking /\ s \notin woken)
  BY <1>0 DEF Take, Polled, Taking, WokenAreWaiting
<1>2. ASSUME NEW l, pc' = [pc EXCEPT ![s] = l]
      PROVE  /\ Putting' = Putting /\ \A t \in Producers : pc'[t] = pc[t]
             /\ l = "taking" => Taking' = Taking \cup {s}
             /\ l \in {"idle", "done"} => Taking' = Taking \ {s}
  BY <1>0, <1>2 DEF Putting, Taking, TypeOK, Strands, Entrants
<1>3. CASE recvClosed \/ (queue = <<>> /\ sendClosed)
  <2>1. /\ pc' = [pc EXCEPT ![s] = "done"] /\ woken' = woken \ {s}
        /\ UNCHANGED <<queue, senders, receivers>>
    BY <1>0, <1>3 DEF Recv, Goto
  <2>2. /\ Putting' = Putting /\ Taking' = Taking \ {s} /\ queue = <<>> /\ Len(queue) = 0
        /\ \A t \in Producers : pc'[t] = pc[t]
    BY <1>0, <1>2, <1>3, <2>1 DEF CloseWakes
  <2>3. Putting' \ woken' = Putting \ woken /\ Putting' \cap woken' = Putting \cap woken
    BY <1>0, <2>1, <2>2 DEF Putting
  <2>4. Taking' \ woken' = Taking \ woken /\ Taking' \cap woken' = Taking \cap (woken \ {s})
    BY <1>1, <2>1, <2>2
  <2>5. WakersAreWaiting'
    <3>1. Distinct(senders') /\ Elems(senders') = Putting' \ woken'
      BY <1>0, <2>1, <2>3 DEF WakersAreWaiting
    <3>2. Distinct(receivers') /\ Elems(receivers') = Taking' \ woken'
      BY <1>0, <2>1, <2>4 DEF WakersAreWaiting
    <3> QED BY <3>1, <3>2 DEF WakersAreWaiting, Distinct, Elems
  <2>6. WokenAreWaiting'
    BY <1>0, <2>1, <2>2 DEF WokenAreWaiting
  <2>7. EnoughAreWoken'
    <3>1. Cardinality(Taking' \cap woken') >= Len(queue')
      <4>1. Cardinality(Taking \cap (woken \ {s})) \in Nat
        BY AwakeFinite
      <4>2. Cardinality(Taking' \cap woken') = Cardinality(Taking \cap (woken \ {s}))
        BY <2>4
      <4>3. Len(queue') = 0
        BY <2>1, <2>2
      <4> QED BY <4>1, <4>2, <4>3
    <3>2. Putting' \ woken' # {} => Cardinality(Putting' \cap woken') + Len(queue') >= Capacity
      BY <1>0, <2>1, <2>3 DEF EnoughAreWoken
    <3> QED BY <3>1, <3>2 DEF EnoughAreWoken
  <2>8. CloseWakes'
    BY <1>0, <2>1, <2>2, <2>3, <2>4 DEF CloseWakes
  <2> QED BY <2>5, <2>6, <2>7, <2>8 DEF ChannelInv
<1>4. CASE ~recvClosed /\ queue # <<>>
  <2>1. /\ pc' = [pc EXCEPT ![s] = "idle"] /\ queue' = Tail(queue)
        /\ senders' = PopFront(senders) /\ receivers' = receivers
        /\ woken' = (woken \ {s}) \cup Front(senders)
    BY <1>0, <1>4 DEF Recv, Goto
  <2>2. Putting' = Putting /\ Taking' = Taking \ {s} /\ \A t \in Producers : pc'[t] = pc[t]
    BY <1>2, <2>1
  <2>3. Front(senders) \subseteq Putting \ woken /\ Front(senders) \cap Consumers = {}
    <3>1. Front(senders) \subseteq Elems(senders) /\ Front(senders) \subseteq Producers
      BY <1>0, WakerQueue
    <3> QED BY <1>0, <3>1, StrandsAssumption DEF WakersAreWaiting, Entrants
  <2>4. /\ Taking' \ woken' = Taking \ woken
        /\ Taking' \cap woken' = (Taking \cap woken) \ {s}
    BY <1>1, <2>1, <2>2, <2>3 DEF Taking
  <2>5. Putting \ woken' = Putting \ (woken \cup Front(senders))
        /\ Putting \cap woken' = Putting \cap (woken \cup Front(senders))
    BY <1>0, <2>1 DEF Putting
  <2>6. /\ Distinct(senders') /\ Elems(senders') = Putting \ woken'
        /\ Putting \ woken' # {}
             => Cardinality(Putting \cap woken') = Cardinality(Putting \cap woken) + 1
    <3>1. IsFiniteSet(Putting \cap woken)
      BY AwakeFinite
    <3>2. Distinct(senders) /\ Elems(senders) = Putting \ woken
      BY <1>0 DEF WakersAreWaiting
    <3>3. /\ Distinct(PopFront(senders))
          /\ Elems(PopFront(senders)) = Putting \ (woken \cup Front(senders))
          /\ Putting \ (woken \cup Front(senders)) # {}
               => Cardinality(Putting \cap (woken \cup Front(senders)))
                    = Cardinality(Putting \cap woken) + 1
      BY <1>0, <3>1, <3>2, WakeFront
    <3> QED BY <2>1, <2>5, <3>3
  <2>7. WakersAreWaiting'
    <3>1. Distinct(senders') /\ Elems(senders') = Putting' \ woken'
      BY <2>2, <2>6
    <3>2. Distinct(receivers') /\ Elems(receivers') = Taking' \ woken'
      BY <1>0, <2>1, <2>4 DEF WakersAreWaiting
    <3> QED BY <3>1, <3>2 DEF WakersAreWaiting, Distinct, Elems
  <2>8. WokenAreWaiting'
    <3>1. \A t \in Producers \cap woken' : pc[t] \in {"acquiring", "putting"}
      BY <1>0, <2>1, <2>3 DEF WokenAreWaiting, Putting
    <3>2. Consumers \cap woken' \subseteq Taking'
      BY <1>0, <2>1, <2>2, <2>3 DEF WokenAreWaiting
    <3> QED BY <2>2, <3>1, <3>2 DEF WokenAreWaiting
  <2>9. Len(queue') = Len(queue) - 1 /\ Len(queue) >= 1
    BY <1>0, <1>4, <2>1, TailFacts
  <2>10. EnoughAreWoken'
    <3>1. /\ IsFiniteSet(Taking \cap woken) /\ Cardinality(Taking \cap woken) \in Nat
          /\ Cardinality(Putting \cap woken) \in Nat
      BY AwakeFinite
    <3>2. /\ Cardinality((Taking \cap woken) \ {s}) \in Nat
          /\ Cardinality((Taking \cap woken) \ {s}) + 1 >= Cardinality(Taking \cap woken)
      <4>1. CASE s \in Taking \cap woken
        <5>1. Cardinality((Taking \cap woken) \ {s}) = Cardinality(Taking \cap woken) - 1
          BY <3>1, <4>1, FS_RemoveElement
        <5>2. (Taking \cap woken) \ {s} = Taking \cap (woken \ {s})
          OBVIOUS
        <5>3. Cardinality((Taking \cap woken) \ {s}) \in Nat
          BY <5>2, AwakeFinite
        <5> QED BY <3>1, <5>1, <5>3
      <4>2. CASE s \notin Taking \cap woken
        <5>1. Cardinality((Taking \cap woken) \ {s}) = Cardinality(Taking \cap woken)
          BY <3>1, <4>2, FS_RemoveElement
        <5> QED BY <3>1, <5>1
      <4> QED BY <4>1, <4>2
    <3>3. ASSUME Taking \ woken # {}
          PROVE  Cardinality((Taking \cap woken) \ {s}) >= Len(queue')
      <4>1. Cardinality(Taking \cap woken) >= Len(queue)
        BY <1>0, <3>3 DEF EnoughAreWoken
      <4> QED BY <1>0, <2>9, <3>1, <3>2, <4>1
    <3>4. ASSUME Putting \ woken' # {}
          PROVE  Cardinality(Putting \cap woken') + Len(queue') >= Capacity
      <4>1. Putting \ woken # {}
        BY <2>5, <3>4
      <4>2. Cardinality(Putting \cap woken) + Len(queue) >= Capacity
        BY <1>0, <4>1 DEF EnoughAreWoken
      <4> QED BY <1>0, <2>6, <2>9, <3>1, <3>4, <4>2
    <3> QED BY <2>2, <2>4, <3>3, <3>4 DEF EnoughAreWoken
  <2>11. CloseWakes'
    BY <1>0, <1>4, <2>1, <2>2, <2>4 DEF CloseWakes
  <2> QED BY <2>7, <2>8, <2>10, <2>11 DEF ChannelInv
<1>5. CASE ~recvClosed /\ queue = <<>> /\ ~sendClosed
  <2>1. /\ pc' = [pc EXCEPT ![s] = "taking"] /\ receivers' = Append(receivers, s)
        /\ woken' = woken \ {s} /\ UNCHANGED <<queue, senders>>
    BY <1>0, <1>5 DEF Recv, Goto
  <2>2. Putting' = Putting /\ Taking' = Taking \cup {s} /\ \A t \in Producers : pc'[t] = pc[t]
    BY <1>2, <2>1
  <2>3. /\ Taking' \ woken' = (Taking \ woken) \cup {s} /\ s \notin Taking \ woken
        /\ Putting' \ woken' = Putting \ woken /\ Putting' \cap woken' = Putting \cap woken
    BY <1>0, <1>1, <2>1, <2>2 DEF Putting
  <2>4. Distinct(receivers') /\ Elems(receivers') = Taking' \ woken'
    BY <1>0, <2>1, <2>3, AppendFacts DEF WakersAreWaiting
  <2>5. WakersAreWaiting'
    BY <1>0, <2>1, <2>3, <2>4 DEF WakersAreWaiting, Distinct, Elems
  <2>6. WokenAreWaiting'
    BY <1>0, <2>1, <2>2 DEF WokenAreWaiting
  <2>7. EnoughAreWoken'
    <3>1. Cardinality(Taking' \cap woken') \in Nat
      <4>1. Taking' \cap woken' = Taking \cap (woken \ {s})
        BY <2>1, <2>2
      <4> QED BY <4>1, AwakeFinite
    <3>2. Len(queue) = 0
      BY <1>5
    <3>3. Cardinality(Taking' \cap woken') >= Len(queue)
      BY <3>1, <3>2
    <3> QED BY <1>0, <2>1, <2>3, <3>3 DEF EnoughAreWoken
  <2>8. CloseWakes'
    BY <1>0, <1>5 DEF CloseWakes
  <2> QED BY <2>5, <2>6, <2>7, <2>8 DEF ChannelInv
<1> QED BY <1>0, <1>3, <1>4, <1>5

\* Sender.close, once the producers are done, wakes every receiver.
LEMMA CloseSenderChannel ==
  ASSUME ResourceInv, ChannelInv, CloseSender
  PROVE  ChannelInv'
<1>0. /\ WakersAreWaiting /\ WokenAreWaiting /\ EnoughAreWoken /\ CloseWakes
      /\ \A s \in Producers : pc[s] = "done"
      /\ woken' = woken \cup Elems(receivers) /\ receivers' = <<>> /\ sendClosed' = TRUE
      /\ UNCHANGED <<queue, senders, recvClosed, pc>>
  BY DEF ChannelInv, CloseSender, Elems
<1>1. Putting = {} /\ Putting' = {} /\ Taking' = Taking /\ Taking \subseteq woken'
  BY <1>0 DEF Putting, Taking, WakersAreWaiting
<1>2. Elems(receivers) \subseteq Taking /\ Taking \subseteq Consumers
  BY <1>0 DEF WakersAreWaiting, Taking
<1>3. WakersAreWaiting'
  BY <1>0, <1>1 DEF WakersAreWaiting, Distinct, Elems
<1>4. WokenAreWaiting'
  BY <1>0, <1>1, <1>2, StrandsAssumption DEF WokenAreWaiting, Entrants
<1>5. EnoughAreWoken' /\ CloseWakes'
  BY <1>0, <1>1 DEF EnoughAreWoken, CloseWakes
<1> QED BY <1>3, <1>4, <1>5 DEF ChannelInv

\* Receiver.close wakes every sender.
LEMMA CloseReceiverChannel ==
  ASSUME ResourceInv, ChannelInv, NEW s \in Consumers, CloseReceiver(s)
  PROVE  ChannelInv'
<1>0. /\ TypeOK /\ WakersAreWaiting /\ WokenAreWaiting /\ EnoughAreWoken /\ CloseWakes
      /\ s \in Strands /\ s \notin Producers /\ pc[s] = "idle"
      /\ woken' = woken \cup Elems(senders) /\ senders' = <<>> /\ queue' = <<>>
      /\ recvClosed' = TRUE /\ pc' = [pc EXCEPT ![s] = "done"]
      /\ UNCHANGED <<receivers, sendClosed>>
  BY StrandsAssumption DEF ResourceInv, ChannelInv, CloseReceiver, Elems, Goto, Strands, Entrants
<1>1. /\ Putting' = Putting /\ Taking' = Taking /\ \A t \in Producers : pc'[t] = pc[t]
  BY <1>0 DEF Putting, Taking, TypeOK, Strands, Entrants
<1>2. Putting \subseteq woken' /\ Elems(senders) \subseteq Putting /\ Putting \subseteq Producers
  BY <1>0 DEF Putting, WakersAreWaiting
<1>3. WakersAreWaiting'
  <2>1. Taking \ woken' = Taking \ woken
    BY <1>0, <1>2, StrandsAssumption DEF Taking, Entrants
  <2> QED BY <1>0, <1>1, <1>2, <2>1 DEF WakersAreWaiting, Distinct, Elems
<1>4. WokenAreWaiting'
  <2>1. \A t \in Producers \cap woken' : pc[t] \in {"acquiring", "putting"}
    BY <1>0, <1>2 DEF WokenAreWaiting, Putting
  <2>2. \A t \in Consumers \cap woken' : t \in Taking
    BY <1>0, <1>2, StrandsAssumption DEF WokenAreWaiting, Entrants, Taking
  <2> QED BY <1>1, <2>1, <2>2 DEF WokenAreWaiting
<1>5. EnoughAreWoken' /\ CloseWakes'
  <2>1. Len(queue') = 0 /\ Cardinality(Taking' \cap woken') \in Nat
    BY <1>0, <1>1, AwakeFinite
  <2>2. sendClosed => Taking' \subseteq woken'
    BY <1>0, <1>1 DEF CloseWakes
  <2> QED BY <1>0, <1>1, <1>2, <2>1, <2>2 DEF EnoughAreWoken, CloseWakes
<1> QED BY <1>3, <1>4, <1>5 DEF ChannelInv

\* Every step keeps the channel's invariant when no strand that uses the channel
\* is cancelled.
LEMMA ChannelStep ==
  ASSUME Cancellable \cap (Producers \cup Consumers) = {}
  PROVE  ResourceInv /\ ChannelInv /\ [Next]_vars => ChannelInv'
<1> SUFFICES ASSUME ResourceInv, ChannelInv, [Next]_vars PROVE ChannelInv'
  OBVIOUS
<1>0. ResourceInv' /\ TypeOK /\ WokenAreWaiting /\ CloseWakes
  BY ResourceStep DEF ResourceInv, ChannelInv
<1>1. \A s \in Producers \cup Consumers : s \notin cancelled
  BY <1>0 DEF TypeOK
<1>2. ASSUME UNCHANGED <<channel, pc, woken>> PROVE ChannelInv'
  <2>1. Putting' = Putting /\ Taking' = Taking
    BY <1>2 DEF Putting, Taking
  <2>2. WokenAreWaiting' /\ (sendClosed => \A s \in Producers : pc'[s] = "done")
    BY <1>0, <1>2, <2>1 DEF WokenAreWaiting, CloseWakes
  <2> QED BY <1>2, <2>1, <2>2, ChannelKept
<1>3. ASSUME NEW s \in Strands, Cancel(s) PROVE ChannelInv'
  <2>1. /\ UNCHANGED <<channel, pc>> /\ s \notin Producers \cup Consumers
        /\ woken' = woken \/ woken' = woken \cup {s}
    BY <1>3 DEF Cancel
  <2>2. Putting' = Putting /\ Taking' = Taking
    BY <2>1 DEF Putting, Taking
  <2>3. woken' \cap Putting = woken \cap Putting /\ woken' \cap Taking = woken \cap Taking
    BY <2>1 DEF Putting, Taking
  <2>4. WokenAreWaiting' /\ (sendClosed => \A t \in Producers : pc'[t] = "done")
    BY <1>0, <2>1, <2>2 DEF WokenAreWaiting, CloseWakes
  <2> QED BY <2>1, <2>2, <2>3, <2>4, ChannelKept
<1>4. ASSUME (\E s \in Entrants : Reenter(s)) \/ UNCHANGED vars PROVE ChannelInv'
  BY <1>2, <1>4 DEF Reenter, vars
<1> QED
  BY <1>0, <1>1, <1>3, <1>4, ResourceStepChannel, PutChannel, TakeChannel, CloseSenderChannel,
     CloseReceiverChannel DEF Next

\* In every behaviour in which no strand that uses the channel is cancelled, a
\* buffer with room has no senders asleep unless one is awake, nor a buffer with
\* values receivers.
THEOREM NobodyIsStuck ==
  ASSUME Cancellable \cap (Producers \cup Consumers) = {}
  PROVE  Spec => []NoStuckWaiter
<1>1. TypeOK /\ ChannelInv => NoStuckWaiter
  <2> SUFFICES ASSUME TypeOK, ChannelInv PROVE NoStuckWaiter
    OBVIOUS
  <2>0. EnoughAreWoken /\ Len(queue) \in Nat
    BY LenProperties DEF ChannelInv, TypeOK
  <2>1. ASSUME Putting # {}, Len(queue) < Capacity PROVE Putting \cap woken # {}
    <3> SUFFICES ASSUME Putting \cap woken = {} PROVE FALSE
      OBVIOUS
    <3>1. Putting \ woken # {} /\ Cardinality(Putting \cap woken) = 0
      BY <2>1, FS_EmptySet
    <3> QED BY <2>0, <2>1, <3>1, SizesAssumption DEF EnoughAreWoken
  <2>2. ASSUME Taking # {}, queue # <<>> PROVE Taking \cap woken # {}
    <3> SUFFICES ASSUME Taking \cap woken = {} PROVE FALSE
      OBVIOUS
    <3>1. Taking \ woken # {} /\ Cardinality(Taking \cap woken) = 0
      BY <2>2, FS_EmptySet
    <3>2. Len(queue) # 0
      BY <2>2, EmptySeq DEF TypeOK
    <3> QED BY <2>0, <3>1, <3>2 DEF EnoughAreWoken
  <2> QED BY <2>1, <2>2 DEF NoStuckWaiter, Putting, Taking
<1>2. ResourceInv => TypeOK
  BY DEF ResourceInv
<1>3. Init => ChannelInv
  BY InitChannel
<1>4. ResourceInv /\ ChannelInv /\ [Next]_vars => ChannelInv'
  BY ChannelStep
<1> QED BY <1>1, <1>2, <1>3, <1>4, ResourceAlways, PTL DEF Spec

=============================================================================
