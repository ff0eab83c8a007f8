--------------------------- MODULE CycleGcProofs ----------------------------
(***************************************************************************)
(* That counting and collecting in CycleGc are sound for any number of     *)
(* objects, strands, fields and references.                                *)
(***************************************************************************)
EXTENDS CycleGc, FiniteSetTheorems, TLAPS

-----------------------------------------------------------------------------
(***************************************************************************)
(* Counting references.                                                    *)
(***************************************************************************)

\* There are finitely many references.
LEMMA RefsFinite == IsFiniteSet(Refs) /\ IsFiniteSet(Objects)
<1> DEFINE As == Fields \cup {"start", "result", "root"}
           T == Owners \X (As \X Objects)
           f == [t \in T |-> [by |-> t[1], as |-> t[2][1], to |-> t[2][2]]]
<1>1. IsFiniteSet(Objects) /\ IsFiniteSet(Owners) /\ IsFiniteSet(As)
  <2>1. IsFiniteSet(Objects)
    BY ObjectsAssumption, FS_Union DEF Objects
  <2>2. IsFiniteSet(Owners)
    BY <2>1, FS_AddElement DEF Owners
  <2>3. IsFiniteSet({"start", "result", "root"})
    <3>1. {"start", "result", "root"} = ({"start"} \cup {"result"}) \cup {"root"}
      OBVIOUS
    <3>2. IsFiniteSet({"start"})
      BY FS_Singleton
    <3>3. IsFiniteSet({"start"} \cup {"result"})
      BY <3>2, FS_AddElement
    <3> QED BY <3>1, <3>3, FS_AddElement
  <2>4. IsFiniteSet(As)
    BY <2>3, ObjectsAssumption, FS_Union
  <2> QED BY <2>1, <2>2, <2>4
<1>2. IsFiniteSet(T)
  BY <1>1, FS_Product
<1>3. f \in [T -> Refs]
  BY DEF Refs
<1>4. ASSUME NEW r \in Refs PROVE \E t \in T : f[t] = r
  <2>1. <<r.by, <<r.as, r.to>> >> \in T
    BY DEF Refs
  <2>2. f[<<r.by, <<r.as, r.to>> >>] = r
    BY <2>1 DEF Refs
  <2> QED BY <2>1, <2>2
<1>5. f \in Surjection(T, Refs)
  BY <1>3, <1>4 DEF Surjection
<1> QED BY <1>1, <1>2, <1>5, FS_Surjection

\* The count of references to an object is a number, and zero without one.
LEMMA ToType ==
  ASSUME NEW R, R \subseteq Refs, NEW o
  PROVE  /\ IsFiniteSet({r \in R : r.to = o}) /\ To(R, o) \in Nat
         /\ To(R, o) = 0 <=> \A r \in R : r.to # o
<1>1. {r \in R : r.to = o} \subseteq Refs
  OBVIOUS
<1>2. IsFiniteSet({r \in R : r.to = o})
  BY <1>1, RefsFinite, FS_Subset
<1>3. To(R, o) \in Nat
  BY <1>2, FS_CardinalityType DEF To
<1>4. To(R, o) = 0 <=> {r \in R : r.to = o} = {}
  BY <1>2, FS_EmptySet DEF To
<1> QED BY <1>2, <1>3, <1>4

\* References that are added count on top of those there were.
LEMMA ToAdd ==
  ASSUME NEW R, R \subseteq Refs, NEW E, E \subseteq Refs, R \cap E = {}, NEW o
  PROVE  To(R \cup E, o) = To(R, o) + To(E, o)
<1> DEFINE A == {r \in R : r.to = o}
           B == {r \in E : r.to = o}
<1>1. {r \in R \cup E : r.to = o} = A \cup B /\ A \cap B = {}
  OBVIOUS
<1>2. IsFiniteSet(A) /\ IsFiniteSet(B)
  BY ToType
<1>3. Cardinality(A \cup B) = Cardinality(A) + Cardinality(B) - Cardinality(A \cap B)
  BY <1>2, FS_Union
<1>4. Cardinality(A \cap B) = 0 /\ Cardinality(A) \in Nat /\ Cardinality(B) \in Nat
  BY <1>1, <1>2, FS_EmptySet, FS_CardinalityType
<1>5. To(R \cup E, o) = Cardinality(A \cup B)
  BY <1>1 DEF To
<1>6. To(R, o) = Cardinality(A) /\ To(E, o) = Cardinality(B)
  BY DEF To
<1> HIDE DEF A, B
<1> QED BY <1>3, <1>4, <1>5, <1>6

\* References that go no longer count.
LEMMA ToRemove ==
  ASSUME NEW R \in SUBSET Refs, NEW E \in SUBSET R, NEW o
  PROVE  To(R \ E, o) = To(R, o) - To(E, o) /\ To(E, o) <= To(R, o)
<1>1. R \ E \subseteq Refs /\ E \subseteq Refs /\ (R \ E) \cap E = {} /\ (R \ E) \cup E = R
  OBVIOUS
<1>2. To(R, o) = To(R \ E, o) + To(E, o)
  BY <1>1, ToAdd
<1>3. To(R \ E, o) \in Nat /\ To(E, o) \in Nat /\ To(R, o) \in Nat
  BY <1>1, ToType
<1> QED BY <1>2, <1>3

\* One reference counts for the object it names.
LEMMA ToOne ==
  ASSUME NEW r, NEW o
  PROVE  To({r}, o) = IF r.to = o THEN 1 ELSE 0
<1>1. CASE r.to = o
  <2>1. {q \in {r} : q.to = o} = {r}
    BY <1>1
  <2> QED BY <1>1, <2>1, FS_Singleton DEF To
<1>2. CASE r.to # o
  <2>1. {q \in {r} : q.to = o} = {}
    BY <1>2
  <2> QED BY <1>2, <2>1, FS_EmptySet DEF To
<1> QED BY <1>1, <1>2


-----------------------------------------------------------------------------
(***************************************************************************)
(* The invariant of the heap.                                              *)
(***************************************************************************)

\* An object without references is about to be released, and only such a one.
DoomedAreUnreferenced ==
  \A o \in Objects :
    /\ o \in doomed => strong[o] = 0
    /\ life[o] = "live" /\ strong[o] = 0 => o \in doomed

\* Who may hold a reference as what.
Fits(r) ==
  /\ r.by = Main => r.as \in Fields
  /\ r.by \in Nodes => r.as \in Fields \cup {"root"}
  /\ r.as = "root" => r.by \in Nodes

OwnersAreThere ==
  /\ \A r \in refs :
       /\ r.by = Main \/ life[r.by] = "live" \/ r.by \in running
       /\ Fits(r)
       /\ r.as = "result" => r.by \notin running /\ life[r.by] = "live"
       /\ r.as \in Fields /\ r.by \in Strands => r.by \in running
       /\ r.as = "start" => r.by \in running \cup attached
  /\ \A r, q \in refs : r.by = q.by /\ r.as = "result" /\ q.as = "result" => r = q
  /\ \A s \in running : life[s] # "unborn"
  /\ \A s \in attached : life[s] = "live"
  /\ \A o \in Objects : life[o] = "dropped" => o \in running

\* What goes on where: the collector's passes leave the heap alone up to the
\* last one, a VM that is out of enter has no strand running, and one that was
\* closed takes its objects off the ring as it clears them.
Phases ==
  /\ pass \in {"subtract", "partition", "spread", "respread"} => doomed = {} /\ busy = None
  /\ pass \in {"subtract", "partition", "spread", "respread", "sweep"}
       => vm \in {"in", "draining"}
  /\ pass = "cancel" => vm = "draining"
  /\ pass = "close" => vm = "closed"
  /\ vm \in {"out", "closed"} => running = {}
  /\ vm = "closed" => pass \in {"close", "idle"} /\ (pass = "idle" => ring = {})
  /\ vm # "closed" => \A o \in Objects : life[o] = "live" => o \in ring
  /\ vm = "closed" => /\ attached \subseteq ring
                      /\ \A r \in refs : r.by \in Nodes /\ r.as # "root" => r.by \in ring
  /\ pass = "subtract" => \A o \in ring : trial[o] = strong[o]

HeapInv ==
  TypeOK /\ CountsAreExact /\ NothingDangles /\ DoomedAreUnreferenced /\ OwnersAreThere /\ Phases

\* A borrow is held by somebody who refers to the object and runs.
LoansAreHeld ==
  /\ loan # NoLoan => loan.of \in Held(loan.to) /\ loan.to \in running \cup {Main}
  /\ vm # "in" => loan.to # Main

-----------------------------------------------------------------------------
(***************************************************************************)
(* The invariant of a collection.                                          *)
(***************************************************************************)

\* The references that no object of the ring shows to the collector.
Outside == refs \ UNION {Traced(item) : item \in ring}

Live(o) == trial[o] # 0

\* What the handles of strands and the host refer to.
Anchored == {r.to : r \in {q \in refs : q.by \in Strands \cup {Main}}}

\* The lists split the ring by the trial count, and what is referred to from
\* outside is on the side of the living.
Split ==
  /\ \A o \in ring : ~Live(o) <=> o \in trash \cup jhTrash
  /\ trash \subseteq Nodes /\ trash \cup jhTrash \subseteq ring
  /\ \A o \in alive : Live(o)
  /\ \A r \in Outside : Live(r.to)
  /\ \A o \in ring : Live(o) => o \in ReachedFrom(Anchored)

\* Of what is condemned, the condemned alone hold references; an item that is off
\* the list only has its roots left.
CondemnedByCondemned ==
  \A r \in refs : r.to \in Nodes /\ ~Live(r.to) =>
    r.by \in Nodes /\ ~Live(r.by) /\ (r.as # "root" => r.by \in trash)

CollectInv ==
  /\ pass = "partition" => \A o \in ring : trial[o] = To(Outside, o)
  /\ pass \in {"spread", "respread"} => Split
  /\ pass = "spread" =>
       \A o \in ring \ alive : Live(o) => \A kid \in Kids({o}) : Live(kid)
  /\ pass = "respread" =>
       /\ alive \subseteq Nodes
       /\ \A o \in (ring \cap Nodes) \ alive : Live(o) => \A kid \in Kids({o}) \cap Nodes : Live(kid)
       /\ \A o \in ring \cap Strands : \A kid \in Kids({o}) \cap Nodes : Live(kid)
       /\ jhTrash \cap Rooted = {}
  /\ pass = "sweep" =>
       /\ \A n \in Nodes \cap trash : ~Live(n)
       /\ CondemnedByCondemned

-----------------------------------------------------------------------------
(***************************************************************************)
(* Every step keeps the invariant of the heap.                             *)
(***************************************************************************)

Extra(o) == IF busy = o THEN 1 ELSE 0

\* A step that takes the references R away, adds E, and gives an extra reference
\* to the object it begins to clear, changes the counts by as much.
LEMMA CountsFollow ==
  ASSUME TypeOK, CountsAreExact,
         NEW R \in SUBSET refs, NEW E \in SUBSET Refs, E \cap refs = {},
         refs' = (refs \ R) \cup E,
         strong' = [o \in Objects |-> strong'[o]],
         \A o \in Objects :
           strong'[o] = (strong[o] + To(E, o) + (Extra(o)' - Extra(o))) - To(R, o)
  PROVE  /\ refs' \subseteq Refs /\ strong' \in [Objects -> Nat]
         /\ \A o \in Objects : strong'[o] = To(refs', o) + Extra(o)'
<1>1. refs \subseteq Refs /\ R \subseteq Refs /\ refs \ R \subseteq Refs /\ (refs \ R) \cap E = {}
  BY DEF TypeOK
<1>2. ASSUME NEW o \in Objects
      PROVE  strong'[o] = To(refs', o) + Extra(o)' /\ strong'[o] \in Nat
  <2>1. To(refs', o) = To(refs \ R, o) + To(E, o)
    BY <1>1, ToAdd
  <2>2. To(refs \ R, o) = To(refs, o) - To(R, o)
    <3>1. refs \in SUBSET Refs /\ R \in SUBSET refs
      BY <1>1
    <3> QED BY <3>1, ToRemove
  <2>3. To(refs, o) \in Nat /\ To(R, o) \in Nat /\ To(E, o) \in Nat /\ To(refs \ R, o) \in Nat
    BY <1>1, ToType
  <2>4. Extra(o) \in 0..1 /\ Extra(o)' \in 0..1
    BY DEF Extra
  <2>5. strong[o] = To(refs, o) + Extra(o)
    BY DEF CountsAreExact, Extra
  <2>6. strong'[o] = (strong[o] + To(E, o) + (Extra(o)' - Extra(o))) - To(R, o)
    OBVIOUS
  <2>7. strong'[o] = To(refs', o) + Extra(o)'
    BY <2>1, <2>2, <2>3, <2>4, <2>5, <2>6
  <2> QED BY <2>1, <2>3, <2>4, <2>7
<1>3. strong' \in [Objects -> Nat]
  BY <1>2
<1> QED BY <1>1, <1>2, <1>3

\* While a strand or the host runs, nothing waits to be released.
LEMMA ActsFacts ==
  ASSUME HeapInv, NEW a, Acts(a)
  PROVE  /\ TypeOK /\ CountsAreExact /\ NothingDangles /\ DoomedAreUnreferenced
         /\ OwnersAreThere /\ Phases
         /\ pass = "idle" /\ doomed = {} /\ busy = None /\ vm \in {"in", "draining"}
         /\ a \in running \cup {Main} /\ (a = Main => vm = "in")
<1>1. TypeOK /\ CountsAreExact /\ NothingDangles /\ DoomedAreUnreferenced /\ OwnersAreThere /\ Phases
  BY DEF HeapInv
<1>2. pass = "idle" /\ doomed = {} /\ busy = None
  BY DEF Acts, Quiet, AtRest
<1>3. Main \notin running
  BY <1>1, ObjectsAssumption DEF TypeOK
<1>4. (a = Main /\ vm = "in") \/ a \in running
  BY DEF Acts
<1>5. vm \in {"in", "draining"}
  BY <1>1, <1>4 DEF Phases, TypeOK
<1> QED BY <1>1, <1>2, <1>3, <1>4, <1>5

\* A copy of a reference.
LEMMA CopyHeap ==
  ASSUME HeapInv, NEW a, Acts(a), NEW x \in Owners, NEW k \in Fields, NEW o \in Objects,
         x = a \/ (x \in Nodes /\ life[x] = "live"), Fresh(x, k, o), life[o] = "live",
         Retain({Ref(x, k, o)}),
         UNCHANGED <<life, weak, ring, running, attached, listVars, loan, vm, pass, busy, doomed>>
  PROVE  HeapInv'
<1> DEFINE e == Ref(x, k, o)
<1>0. /\ TypeOK /\ CountsAreExact /\ NothingDangles /\ DoomedAreUnreferenced
      /\ OwnersAreThere /\ Phases
      /\ pass = "idle" /\ doomed = {} /\ busy = None /\ vm \in {"in", "draining"}
      /\ a \in running \cup {Main}
  BY ActsFacts
<1>1. e \in Refs /\ e.by = x /\ e.as = k /\ e.to = o /\ e \notin refs
  BY DEF Ref, Refs, Fresh
<1>2. /\ refs' = (refs \ {}) \cup {e}
      /\ strong' = [p \in Objects |-> strong[p] + To({e}, p)]
      /\ UNCHANGED <<life, weak, ring, running, attached, trial, alive, trash, jhTrash, loan, vm,
                     pass, busy, doomed>>
  BY DEF Retain, listVars
<1> HIDE DEF e
<1>3. /\ refs' \subseteq Refs /\ strong' \in [Objects -> Nat]
      /\ \A p \in Objects : strong'[p] = To(refs', p) + Extra(p)'
  <2>1. \A p \in Objects :
          strong'[p] = (strong[p] + To({e}, p) + (Extra(p)' - Extra(p))) - To({}, p)
    <3> TAKE p \in Objects
    <3>1. To({}, p) = 0 /\ To({e}, p) \in Nat
      BY <1>1, ToType
    <3>2. Extra(p)' = Extra(p) /\ Extra(p) \in 0..1
      BY <1>2 DEF Extra
    <3>3. strong[p] \in Nat /\ strong'[p] = strong[p] + To({e}, p)
      BY <1>0, <1>2 DEF TypeOK
    <3> QED BY <3>1, <3>2, <3>3
  <2>2. strong' = [p \in Objects |-> strong'[p]]
    BY <1>2
  <2>3. /\ {} \in SUBSET refs /\ {e} \in SUBSET Refs /\ {e} \cap refs = {}
        /\ refs' = (refs \ {}) \cup {e}
    BY <1>1, <1>2
  <2> QED BY <1>0, <2>1, <2>2, <2>3, CountsFollow
<1>4. TypeOK'
  BY <1>0, <1>2, <1>3 DEF TypeOK
<1>5. CountsAreExact'
  BY <1>0, <1>2, <1>3 DEF CountsAreExact, Extra
<1>6. NothingDangles'
  BY <1>0, <1>1, <1>2 DEF NothingDangles
<1>7. DoomedAreUnreferenced'
  <2>1. ASSUME NEW p \in Objects, life[p] = "live" PROVE strong'[p] # 0
    <3>1. strong[p] \in Nat \ {0}
      BY <1>0, <2>1 DEF DoomedAreUnreferenced, TypeOK
    <3>2. To({e}, p) \in Nat
      BY <1>1, ToType
    <3> QED BY <1>2, <3>1, <3>2
  <2> QED BY <1>0, <1>2, <2>1 DEF DoomedAreUnreferenced
<1>8. OwnersAreThere'
  <2>1. /\ e.by = Main \/ life[e.by] = "live" \/ e.by \in running
        /\ Fits(e) /\ e.as \in Fields /\ e.as # "result" /\ e.as # "start"
        /\ e.by \in Strands => e.by \in running
    BY <1>0, <1>1, ObjectsAssumption DEF Fits
  <2>2. \A r \in refs' : r \in refs \/ r = e
    BY <1>2
  <2> QED BY <1>0, <1>2, <2>1, <2>2 DEF OwnersAreThere
<1>9. Phases'
  BY <1>0, <1>2 DEF Phases
<1> QED BY <1>4, <1>5, <1>6, <1>7, <1>8, <1>9 DEF HeapInv

\* What a holder uses is there.
LEMMA HeldIsLive ==
  ASSUME TypeOK, NothingDangles, NEW a, NEW o \in Held(a)
  PROVE  o \in Objects /\ life[o] = "live" /\ \E r \in refs : r.to = o /\ r.by = a /\ r.as # "result"
BY DEF Held, TypeOK, Refs, NothingDangles

\* Loading and storing a reference.
LEMMA LoadHeap ==
  ASSUME HeapInv, NEW a \in Strands \cup {Main}, NEW k \in Fields, NEW x \in Objects,
         NEW o \in Objects, Load(a, k, x, o) \/ Store(a, k, x, o)
  PROVE  HeapInv'
<1>0. Acts(a) /\ TypeOK /\ NothingDangles
  BY DEF Load, Store, HeapInv
<1>1. CASE Load(a, k, x, o)
  <2>1. a \in Owners /\ Fresh(a, k, o)
    BY <1>1 DEF Load, Owners, Objects
  <2>2. life[o] = "live"
    <3>1. PICK r \in refs : r.to = o
      BY <1>1 DEF Load
    <3> QED BY <1>0, <3>1 DEF NothingDangles
  <2>3. Retain({Ref(a, k, o)}) /\ UNCHANGED <<life, weak, ring, running, attached, listVars, loan, vm, pass, busy, doomed>>
    BY <1>1 DEF Load
  <2> QED BY <1>0, <2>1, <2>2, <2>3, CopyHeap
<1>2. CASE Store(a, k, x, o)
  <2>1. x \in Held(a) /\ o \in Held(a)
    BY <1>2 DEF Store
  <2>2. x \in Owners /\ x \in Nodes /\ life[x] = "live" /\ life[o] = "live" /\ Fresh(x, k, o)
    BY <1>0, <1>2, <2>1, HeldIsLive DEF Store, Owners
  <2>3. Retain({Ref(x, k, o)}) /\ UNCHANGED <<life, weak, ring, running, attached, listVars, loan, vm, pass, busy, doomed>>
    BY <1>2 DEF Store
  <2> QED BY <1>0, <2>2, <2>3, CopyHeap
<1> QED BY <1>1, <1>2


\* A new object comes with the references E: one to it, and those that it has
\* from the start, a handle the one that the strand was started with and a node
\* its roots.
LEMMA BirthHeap ==
  ASSUME HeapInv, NEW a, Acts(a), NEW n \in Objects, Unborn(n), NEW E \in SUBSET Refs,
         \A e \in E : \/ e.by = a /\ e.as \in Fields /\ e.to = n
                      \/ /\ e.by = n /\ e.as = (IF n \in Strands THEN "start" ELSE "root")
                         /\ e.to \in Objects /\ life[e.to] = "live",
         \E e \in E : e.to = n,
         NEW N, N = {} \/ (N = {n} /\ n \in Strands), n \in Strands => N = {n},
         life' = [life EXCEPT ![n] = "live"],
         weak' = [weak EXCEPT ![n] = IF N = {} THEN 1 ELSE 2],
         ring' = ring \cup {n}, running' = running \cup N, attached' = attached \cup N,
         Retain(E), UNCHANGED <<listVars, loan, vm, pass, busy, doomed>>
  PROVE  HeapInv'
<1>0. /\ TypeOK /\ CountsAreExact /\ NothingDangles /\ DoomedAreUnreferenced
      /\ OwnersAreThere /\ Phases
      /\ pass = "idle" /\ doomed = {} /\ busy = None /\ vm \in {"in", "draining"}
      /\ a \in running \cup {Main}
  BY ActsFacts
<1>1. /\ life[n] = "unborn" /\ n \notin running /\ n \notin attached /\ n # Main
      /\ n # a
  BY <1>0, ObjectsAssumption DEF Unborn, OwnersAreThere, Objects
<1>2. \A r \in refs : r.to # n /\ r.by # n
  <2>1. \A r \in refs : r.to # n
    BY <1>0, <1>1 DEF NothingDangles
  <2>2. \A r \in refs : r.by # n
    BY <1>0, <1>1 DEF OwnersAreThere
  <2> QED BY <2>1, <2>2
<1>3. E \cap refs = {}
  BY <1>2
<1>4. /\ refs' = (refs \ {}) \cup E
      /\ strong' = [p \in Objects |-> strong[p] + To(E, p)]
      /\ UNCHANGED <<trial, alive, trash, jhTrash, loan, vm, pass, busy, doomed>>
  BY DEF Retain, listVars
<1>5. /\ refs' \subseteq Refs /\ strong' \in [Objects -> Nat]
      /\ \A p \in Objects : strong'[p] = To(refs', p) + Extra(p)'
  <2>1. \A p \in Objects :
          strong'[p] = (strong[p] + To(E, p) + (Extra(p)' - Extra(p))) - To({}, p)
    <3> TAKE p \in Objects
    <3>1. To({}, p) = 0 /\ To(E, p) \in Nat
      BY ToType
    <3>2. Extra(p)' = Extra(p) /\ Extra(p) \in 0..1
      BY <1>4 DEF Extra
    <3>3. strong[p] \in Nat /\ strong'[p] = strong[p] + To(E, p)
      BY <1>0, <1>4 DEF TypeOK
    <3> QED BY <3>1, <3>2, <3>3
  <2>2. strong' = [p \in Objects |-> strong'[p]]
    BY <1>4
  <2>3. {} \in SUBSET refs /\ refs' = (refs \ {}) \cup E
    BY <1>4
  <2> QED BY <1>0, <1>3, <2>1, <2>2, <2>3, CountsFollow
<1>6. /\ \A p \in Objects \ {n} : life'[p] = life[p] /\ weak'[p] = weak[p]
      /\ life'[n] = "live" /\ weak'[n] = (IF N = {} THEN 1 ELSE 2)
      /\ life' \in [Objects -> {"unborn", "live", "dropped", "freed"}]
      /\ weak' \in [Objects -> Nat]
  BY <1>0 DEF TypeOK
<1>7. TypeOK'
  BY <1>0, <1>4, <1>5, <1>6 DEF TypeOK
<1>8. CountsAreExact'
  <2>1. ASSUME NEW p \in Objects
        PROVE  weak'[p] = (IF life'[p] = "live" THEN 1 ELSE 0) + IF p \in running' THEN 1 ELSE 0
    <3>1. CASE p # n
      BY <1>0, <1>6, <3>1 DEF CountsAreExact
    <3>2. CASE p = n
      BY <1>1, <1>6, <3>2
    <3> QED BY <3>1, <3>2
  <2>2. ASSUME NEW p \in Objects PROVE strong'[p] = To(refs', p) + IF busy' = p THEN 1 ELSE 0
    BY <1>5 DEF Extra
  <2> QED BY <2>1, <2>2 DEF CountsAreExact
<1>9. NothingDangles'
  <2>1. \A r \in refs' : r.to \in Objects /\ life'[r.to] = "live"
    <3> TAKE r \in refs'
    <3>1. CASE r \in refs
      BY <1>0, <1>2, <1>6, <3>1 DEF NothingDangles, TypeOK, Refs
    <3>2. CASE r \in E
      BY <1>6, <3>2
    <3> QED BY <1>4, <3>1, <3>2
  <2>2. \A o \in ring' \cup alive \cup trash \cup jhTrash : life'[o] = "live"
    BY <1>0, <1>6 DEF NothingDangles, TypeOK, Objects
  <2> QED BY <1>0, <1>4, <2>1, <2>2 DEF NothingDangles
<1>10. DoomedAreUnreferenced'
  <2>1. ASSUME NEW p \in Objects, life'[p] = "live" PROVE strong'[p] # 0
    <3>1. To(E, p) \in Nat /\ (p = n => To(E, p) # 0)
      BY ToType
    <3>2. strong[p] \in Nat /\ (p # n => strong[p] # 0)
      BY <1>0, <1>6, <2>1 DEF DoomedAreUnreferenced, TypeOK
    <3> QED BY <1>4, <3>1, <3>2
  <2> QED BY <1>0, <1>4, <2>1 DEF DoomedAreUnreferenced
<1>11. OwnersAreThere'
  <2>1. \A r \in refs :
          /\ r.by = Main \/ life'[r.by] = "live" \/ r.by \in running'
          /\ Fits(r)
          /\ r.as = "result" => r.by \notin running' /\ life'[r.by] = "live"
          /\ r.as \in Fields /\ r.by \in Strands => r.by \in running'
          /\ r.as = "start" => r.by \in running' \cup attached'
    <3> TAKE r \in refs
    <3>1. r.by \in Owners /\ r.by # n
      BY <1>0, <1>2 DEF TypeOK, Refs
    <3>2. r.by # Main => life'[r.by] = life[r.by]
      BY <1>6, <3>1 DEF Owners
    <3>3. r.by \notin N
      BY <3>1
    <3>4. r.as = "result" => r.by # Main
      BY <1>0, ObjectsAssumption DEF OwnersAreThere, Fits
    <3> QED BY <1>0, <3>2, <3>3, <3>4 DEF OwnersAreThere
  <2>2. \A r \in E :
          /\ r.by = Main \/ life'[r.by] = "live" \/ r.by \in running'
          /\ Fits(r)
          /\ r.as # "result"
          /\ r.as \in Fields /\ r.by \in Strands => r.by \in running'
          /\ r.as = "start" => r.by \in running' \cup attached'
    <3> TAKE r \in E
    <3>1. CASE r.by = a /\ r.as \in Fields
      BY <1>0, <3>1, ObjectsAssumption DEF Fits, TypeOK
    <3>2. CASE r.by = n /\ r.as = "start" /\ n \in Strands
      BY <1>1, <1>6, <3>2, ObjectsAssumption DEF Fits
    <3>3. CASE r.by = n /\ r.as = "root" /\ n \in Nodes
      BY <1>1, <1>6, <3>3, ObjectsAssumption DEF Fits
    <3> QED BY <3>1, <3>2, <3>3 DEF Objects
  <2>3. \A r, q \in refs' : r.by = q.by /\ r.as = "result" /\ q.as = "result" => r = q
    BY <1>0, <1>4, <2>2 DEF OwnersAreThere
  <2>4. \A s \in running' : life'[s] # "unborn"
    BY <1>0, <1>1, <1>6 DEF OwnersAreThere, TypeOK, Objects
  <2>5. \A s \in attached' : life'[s] = "live"
    BY <1>0, <1>1, <1>6 DEF OwnersAreThere, TypeOK, Objects
  <2>6. refs' = refs \cup E
    BY <1>4
  <2>7. \A p \in Objects : life'[p] = "dropped" => p \in running'
    BY <1>0, <1>6 DEF OwnersAreThere
  <2> QED BY <2>1, <2>2, <2>3, <2>4, <2>5, <2>6, <2>7 DEF OwnersAreThere
<1>12. Phases'
  <2>1. \A o \in Objects : life'[o] = "live" => o \in ring'
    BY <1>0, <1>6 DEF Phases
  <2> QED BY <1>0, <1>4, <2>1 DEF Phases
<1> QED BY <1>7, <1>8, <1>9, <1>10, <1>11, <1>12 DEF HeapInv

\* new_from_raw.
LEMMA NewHeap ==
  ASSUME HeapInv, NEW a \in Strands \cup {Main}, NEW k \in Fields, NEW n \in Nodes,
         NEW roots \in SUBSET Objects, New(a, k, n, roots)
  PROVE  HeapInv'
<1> DEFINE d == Ref(a, k, n)
           E == {d} \cup {Ref(n, "root", o) : o \in roots}
<1>1. d \in Refs /\ d.by = a /\ d.as = k /\ d.to = n
  BY DEF Ref, Refs, Owners, Objects
<1>2. n \in Objects /\ n \notin Strands
  BY ObjectsAssumption DEF Objects
<1>3. /\ Acts(a) /\ Unborn(n) /\ life' = [life EXCEPT ![n] = "live"]
      /\ weak' = [weak EXCEPT ![n] = IF {} = {} THEN 1 ELSE 2]
      /\ ring' = ring \cup {n} /\ running' = running \cup {} /\ attached' = attached \cup {}
      /\ Retain(E) /\ UNCHANGED <<listVars, loan, vm, pass, busy, doomed>>
  BY DEF New
<1>4. \A o \in roots : life[o] = "live" /\ o \in Objects
  BY HeldIsLive DEF New, HeapInv
<1>5. ASSUME NEW e \in E, e # d
      PROVE  e \in Refs /\ e.by = n /\ e.as = "root" /\ e.to \in Objects /\ life[e.to] = "live"
  <2>1. PICK o \in roots : e = Ref(n, "root", o)
    BY <1>5
  <2> QED BY <1>2, <1>4, <2>1 DEF Ref, Refs, Owners
<1>6. d \in E
  OBVIOUS
<1> HIDE DEF d, E
<1>7. /\ E \in SUBSET Refs
      /\ \A e \in E : \/ e.by = a /\ e.as \in Fields /\ e.to = n
                     \/ /\ e.by = n /\ e.as = (IF n \in Strands THEN "start" ELSE "root")
                        /\ e.to \in Objects /\ life[e.to] = "live"
      /\ \E e \in E : e.to = n
  BY <1>1, <1>2, <1>5, <1>6
<1> QED BY <1>2, <1>3, <1>7, BirthHeap

\* spawn_background_raw.
LEMMA SpawnHeap ==
  ASSUME HeapInv, NEW a \in Strands \cup {Main}, NEW k \in Fields, NEW s \in Strands,
         NEW o \in Objects, Spawn(a, k, s, o)
  PROVE  HeapInv'
<1> DEFINE d == Ref(a, k, s)
           e == Ref(s, "start", o)
<1>1. /\ d \in Refs /\ d.by = a /\ d.as = k /\ d.to = s
      /\ e \in Refs /\ e.by = s /\ e.as = "start" /\ e.to = o
  BY DEF Ref, Refs, Owners, Objects
<1>2. s \in Objects
  BY DEF Objects
<1>3. /\ Acts(a) /\ Unborn(s) /\ life' = [life EXCEPT ![s] = "live"]
      /\ weak' = [weak EXCEPT ![s] = IF {s} = {} THEN 1 ELSE 2]
      /\ ring' = ring \cup {s} /\ running' = running \cup {s} /\ attached' = attached \cup {s}
      /\ Retain({d, e}) /\ UNCHANGED <<listVars, loan, vm, pass, busy, doomed>>
  BY DEF Spawn
<1>4. life[o] = "live"
  BY HeldIsLive DEF Spawn, HeapInv
<1> HIDE DEF d, e
<1>5. /\ {d, e} \in SUBSET Refs
      /\ \A r \in {d, e} : \/ r.by = a /\ r.as \in Fields /\ r.to = s
                           \/ /\ r.by = s /\ r.as = (IF s \in Strands THEN "start" ELSE "root")
                              /\ r.to \in Objects /\ life[r.to] = "live"
      /\ \E r \in {d, e} : r.to = s
  BY <1>1, <1>4
<1> QED BY <1>2, <1>3, <1>5, BirthHeap

\* What is released as references go: whoever has lost the last one, and nobody
\* who has one.
LEMMA DoomFollows ==
  ASSUME TypeOK, CountsAreExact, NothingDangles, DoomedAreUnreferenced,
         NEW R \in SUBSET refs, NEW E \in SUBSET Refs, E \cap refs = {},
         refs' = (refs \ R) \cup E,
         strong' = [o \in Objects |-> strong'[o]],
         \A o \in Objects :
           strong'[o] = (strong[o] + To(E, o) + (Extra(o)' - Extra(o))) - To(R, o),
         \A e \in E : e.to \notin doomed,
         \A o \in Objects : Extra(o)' = Extra(o) \/ (Extra(o)' > Extra(o) /\ o \notin doomed),
         NEW X \in SUBSET Objects, \A o \in X : life'[o] # "live",
         \A o \in Objects : life'[o] = "live" => life[o] = "live",
         doomed' = (doomed \ X) \cup {o \in Objects : To(R, o) > 0 /\ strong'[o] = 0}
  PROVE  /\ DoomedAreUnreferenced'
         /\ \A r \in refs' : r.to \notin doomed'
         /\ \A o \in doomed' : life[o] = "live" /\ o \in Objects
<1>1. /\ refs' \subseteq Refs /\ strong' \in [Objects -> Nat]
      /\ \A o \in Objects : strong'[o] = To(refs', o) + Extra(o)'
  BY CountsFollow
<1>2. \A o \in Objects : Extra(o) \in 0..1 /\ Extra(o)' \in 0..1
  BY DEF Extra
<1>3. refs \subseteq Refs /\ R \subseteq Refs /\ E \subseteq Refs
  BY DEF TypeOK
<1>4. \A o \in Objects : strong[o] \in Nat /\ strong'[o] \in Nat
                         /\ To(R, o) \in Nat /\ To(E, o) \in Nat /\ To(refs', o) \in Nat
  BY <1>1, <1>3, ToType DEF TypeOK
<1>5. ASSUME NEW o \in doomed' PROVE strong'[o] = 0 /\ life[o] = "live" /\ o \in Objects
  <2>1. CASE o \in doomed
    <3>1. o \in Objects /\ strong[o] = 0 /\ life[o] = "live"
      BY <2>1 DEF TypeOK, DoomedAreUnreferenced, NothingDangles
    <3>2. To(E, o) = 0
      <4>1. \A e \in E : e.to # o
        BY <2>1
      <4> QED BY <1>3, <4>1, ToType
    <3>3. Extra(o)' = Extra(o)
      BY <2>1, <3>1
    <3> QED BY <1>2, <1>4, <3>1, <3>2, <3>3
  <2>2. CASE o \notin doomed
    <3>1. o \in Objects /\ To(R, o) > 0 /\ strong'[o] = 0
      BY <2>2
    <3>2. To(R, o) # 0
      BY <1>4, <3>1
    <3>3. \E r \in R : r.to = o
      BY <1>3, <3>2, ToType
    <3> QED BY <3>1, <3>3 DEF NothingDangles
  <2> QED BY <2>1, <2>2
<1>6. ASSUME NEW r \in refs' PROVE r.to \notin doomed'
  <2> DEFINE o == r.to
  <2>1. o \in Objects
    BY <1>1, <1>6 DEF Refs
  <2>2. ~ \A q \in refs' : q.to # o
    BY <1>6
  <2> HIDE DEF o
  <2>3. To(refs', o) # 0
    BY <1>1, <2>2, ToType
  <2>4. To(refs', o) \in Nat /\ Extra(o)' \in 0..1 /\ strong'[o] = To(refs', o) + Extra(o)'
    BY <1>1, <1>2, <1>4, <2>1
  <2>5. strong'[o] # 0
    BY <2>3, <2>4
  <2>6. o \notin doomed'
    BY <1>5, <2>5
  <2> QED BY <2>6 DEF o
<1>7. ASSUME NEW o \in Objects, life'[o] = "live", strong'[o] = 0 PROVE o \in doomed'
  <2>1. life[o] = "live" /\ o \notin X
    BY <1>7
  <2>2. CASE strong[o] = 0
    BY <2>1, <2>2 DEF DoomedAreUnreferenced
  <2>3. CASE strong[o] # 0
    <3>1. Extra(o)' >= Extra(o)
      BY <1>2
    <3>2. To(R, o) > 0
      BY <1>2, <1>4, <1>7, <2>3, <3>1
    <3> QED BY <1>7, <3>2
  <2> QED BY <2>2, <2>3
<1>8. DoomedAreUnreferenced'
  BY <1>5, <1>7 DEF DoomedAreUnreferenced
<1> QED BY <1>5, <1>6, <1>8

\* Letting go of one reference.
LEMMA DiscardHeap ==
  ASSUME HeapInv, Quiet, NEW r \in refs, Forget({r}, {}),
         UNCHANGED <<life, weak, ring, running, attached, listVars, loan, vm, pass, busy>>
  PROVE  HeapInv'
<1>0. /\ TypeOK /\ CountsAreExact /\ NothingDangles /\ DoomedAreUnreferenced
      /\ OwnersAreThere /\ Phases
      /\ pass = "idle" /\ doomed = {} /\ busy = None
  BY DEF HeapInv, Quiet, AtRest
<1>1. /\ refs' = (refs \ {r}) \cup {}
      /\ strong' = [o \in Objects |-> (strong[o] + To({}, o)) - To({r}, o)]
      /\ doomed' = (doomed \ {}) \cup {o \in Objects : To({r}, o) > 0 /\ strong'[o] = 0}
      /\ UNCHANGED <<life, weak, ring, running, attached, trial, alive, trash, jhTrash, loan, vm,
                     pass, busy>>
  BY DEF Forget, listVars
<1>2. \A o \in Objects :
        strong'[o] = (strong[o] + To({}, o) + (Extra(o)' - Extra(o))) - To({r}, o)
  <2> TAKE o \in Objects
  <2>1. Extra(o)' = Extra(o) /\ Extra(o) \in 0..1
    BY <1>1 DEF Extra
  <2>2. strong[o] \in Nat /\ To({}, o) \in Nat /\ To({r}, o) \in Nat
    BY <1>0, ToType DEF TypeOK
  <2>3. strong'[o] = (strong[o] + To({}, o)) - To({r}, o)
    BY <1>1
  <2> QED BY <2>1, <2>2, <2>3
<1>3. strong' = [o \in Objects |-> strong'[o]]
  BY <1>1
<1>4. {r} \in SUBSET refs /\ {} \in SUBSET Refs /\ {} \cap refs = {}
  OBVIOUS
<1>5. /\ refs' \subseteq Refs /\ strong' \in [Objects -> Nat]
      /\ \A o \in Objects : strong'[o] = To(refs', o) + Extra(o)'
  BY <1>0, <1>1, <1>2, <1>3, <1>4, CountsFollow
<1>6. /\ DoomedAreUnreferenced'
      /\ \A q \in refs' : q.to \notin doomed'
      /\ \A o \in doomed' : life[o] = "live" /\ o \in Objects
  <2>1. \A o \in Objects : Extra(o)' = Extra(o)
    BY <1>1 DEF Extra
  <2>2. {} \in SUBSET Objects /\ \A o \in Objects : life'[o] = "live" => life[o] = "live"
    BY <1>1
  <2> QED BY <1>0, <1>1, <1>2, <1>3, <1>4, <2>1, <2>2, DoomFollows
<1>7. TypeOK'
  BY <1>0, <1>1, <1>5, <1>6 DEF TypeOK
<1>8. CountsAreExact'
  BY <1>0, <1>1, <1>5 DEF CountsAreExact, Extra
<1>9. NothingDangles'
  BY <1>0, <1>1, <1>6 DEF NothingDangles
<1>10. OwnersAreThere'
  BY <1>0, <1>1 DEF OwnersAreThere
<1>11. Phases'
  BY <1>0, <1>1 DEF Phases
<1> QED BY <1>6, <1>7, <1>8, <1>9, <1>10, <1>11 DEF HeapInv

\* A set with at most one member has no two.
LEMMA AtMostOne ==
  ASSUME NEW S, IsFiniteSet(S), Cardinality(S) <= 1
  PROVE  \A x, y \in S : x = y
<1> SUFFICES ASSUME NEW x \in S, NEW y \in S, x # y PROVE FALSE
  OBVIOUS
<1>1. IsFiniteSet({x}) /\ Cardinality({x}) = 1
  BY FS_Singleton
<1>2. Cardinality({x} \cup {y}) = 2
  BY <1>1, FS_AddElement
<1>3. Cardinality({x} \cup {y}) <= Cardinality(S)
  BY FS_Subset
<1>4. Cardinality(S) \in Nat
  BY FS_CardinalityType
<1> QED BY <1>2, <1>3, <1>4

\* The end of a strand.
LEMMA FinishHeap ==
  ASSUME HeapInv, NEW s \in Strands, NEW result \in SUBSET Objects, Finish(s, result)
  PROVE  HeapInv'
<1> DEFINE stack == {r \in refs : r.by = s /\ (r.as = "start" => s \notin attached)}
           done == {Ref(s, "result", o) : o \in IF strong[s] = 0 THEN {} ELSE result}
<1>a. Acts(s) /\ s \in running
  BY DEF Finish
<1>0. /\ TypeOK /\ CountsAreExact /\ NothingDangles /\ DoomedAreUnreferenced
      /\ OwnersAreThere /\ Phases
      /\ pass = "idle" /\ doomed = {} /\ busy = None /\ vm \in {"in", "draining"}
  BY <1>a, ActsFacts
<1>1. /\ refs' = (refs \ stack) \cup done
      /\ strong' = [o \in Objects |-> (strong[o] + To(done, o)) - To(stack, o)]
      /\ doomed' = (doomed \ {}) \cup {o \in Objects : To(stack, o) > 0 /\ strong'[o] = 0}
      /\ running' = running \ {s}
      /\ UNCHANGED <<ring, attached, trial, alive, trash, jhTrash, loan, vm, pass, busy>>
  BY DEF Finish, Forget, listVars
<1>2. result \subseteq Held(s) /\ (\A x, y \in result : x = y)
  <2>1. IsFiniteSet(result) /\ Cardinality(result) <= 1 /\ result \subseteq Held(s)
    BY RefsFinite, FS_Subset DEF Finish
  <2> QED BY <2>1, AtMostOne
<1>3. /\ \A e \in done : /\ e \in Refs /\ e.by = s /\ e.as = "result" /\ e.to \in result
                         /\ strong[s] # 0
      /\ \A d, e \in done : d = e
  BY <1>2 DEF Ref, Refs, Owners, Objects
<1>4. \A r \in stack : r \in refs /\ r.by = s
  OBVIOUS
<1>5. \A r \in refs : r.by = s => r \in stack \/ (r.as = "start" /\ s \in attached)
  OBVIOUS
<1>6. stack \in SUBSET refs /\ done \in SUBSET Refs /\ done \cap refs = {}
  BY <1>0, <1>3, <1>a DEF OwnersAreThere
<1> HIDE DEF stack, done
<1>7. \A o \in Objects :
        strong'[o] = (strong[o] + To(done, o) + (Extra(o)' - Extra(o))) - To(stack, o)
  <2> TAKE o \in Objects
  <2>1. Extra(o)' = Extra(o) /\ Extra(o) \in 0..1
    BY <1>1 DEF Extra
  <2>2. strong[o] \in Nat /\ To(done, o) \in Nat /\ To(stack, o) \in Nat
    BY <1>0, <1>6, ToType DEF TypeOK
  <2>3. strong'[o] = (strong[o] + To(done, o)) - To(stack, o)
    BY <1>1
  <2> QED BY <2>1, <2>2, <2>3
<1>8. strong' = [o \in Objects |-> strong'[o]]
  BY <1>1
<1>9. /\ refs' \subseteq Refs /\ strong' \in [Objects -> Nat]
      /\ \A o \in Objects : strong'[o] = To(refs', o) + Extra(o)'
  BY <1>0, <1>1, <1>6, <1>7, <1>8, CountsFollow
<1>10. /\ s \in Objects /\ s # Main /\ s \notin Nodes
       /\ strong[s] \in Nat /\ weak[s] \in Nat /\ life[s] \in {"unborn", "live", "dropped", "freed"}
  BY <1>0, ObjectsAssumption DEF TypeOK, Objects
<1>11. /\ strong[s] # 0 <=> life[s] = "live"
       /\ weak[s] = IF life[s] = "live" THEN 2 ELSE 1
  <2>1. life[s] = "live" => strong[s] # 0
    BY <1>0, <1>10 DEF DoomedAreUnreferenced
  <2>2. ASSUME strong[s] # 0 PROVE life[s] = "live"
    <3>1. strong[s] = To(refs, s)
      <4>1. To(refs, s) \in Nat /\ busy # s
        BY <1>0, ToType, ObjectsAssumption DEF TypeOK
      <4>2. strong[s] = To(refs, s) + IF busy = s THEN 1 ELSE 0
        BY <1>0, <1>10 DEF CountsAreExact
      <4> QED BY <4>1, <4>2
    <3>2. \E r \in refs : r.to = s
      BY <1>0, <2>2, <3>1, ToType DEF TypeOK
    <3> QED BY <1>0, <3>2 DEF NothingDangles
  <2>3. weak[s] = IF life[s] = "live" THEN 2 ELSE 1
    BY <1>0, <1>10, <1>a DEF CountsAreExact
  <2> QED BY <2>1, <2>2, <2>3
<1>12. /\ weak' = [weak EXCEPT ![s] = IF life[s] = "live" THEN 1 ELSE 0]
       /\ life' = [life EXCEPT ![s] = IF life[s] = "live" THEN "live" ELSE "freed"]
  <2>1. /\ weak' = [weak EXCEPT ![s] = @ - 1]
        /\ life' = [life EXCEPT ![s] = IF weak[s] = 1 THEN "freed"
                                       ELSE IF strong[s] = 0 THEN "dropped" ELSE @]
    BY DEF Finish, Unweak
  <2>2. CASE life[s] = "live"
    <3>1. weak[s] - 1 = 1 /\ weak[s] # 1 /\ strong[s] # 0
      BY <1>11, <2>2
    <3> QED BY <2>1, <2>2, <3>1
  <2>3. CASE life[s] # "live"
    <3>1. weak[s] - 1 = 0 /\ weak[s] = 1
      BY <1>11, <2>3
    <3> QED BY <2>1, <2>3, <3>1
  <2> QED BY <2>2, <2>3
<1>13. /\ \A o \in Objects : (life'[o] = "live" <=> life[o] = "live") /\ (life'[o] = "unborn" => life[o] = "unborn")
       /\ \A o \in Objects \ {s} : weak'[o] = weak[o] /\ life'[o] = life[o]
       /\ weak'[s] = (IF life'[s] = "live" THEN 1 ELSE 0)
       /\ life' \in [Objects -> {"unborn", "live", "dropped", "freed"}]
       /\ weak' \in [Objects -> Nat]
  BY <1>0, <1>10, <1>12 DEF TypeOK
<1>14. /\ DoomedAreUnreferenced'
       /\ \A q \in refs' : q.to \notin doomed'
       /\ \A o \in doomed' : life[o] = "live" /\ o \in Objects
  <2>1. \A o \in Objects : Extra(o)' = Extra(o)
    BY <1>1 DEF Extra
  <2>2. /\ {} \in SUBSET Objects /\ \A o \in Objects : life'[o] = "live" => life[o] = "live"
        /\ \A e \in done : e.to \notin doomed
    BY <1>0, <1>13
  <2> QED BY <1>0, <1>1, <1>6, <1>7, <1>8, <2>1, <2>2, DoomFollows
<1>15. TypeOK'
  BY <1>0, <1>1, <1>9, <1>13, <1>14 DEF TypeOK
<1>16. CountsAreExact'
  <2>1. ASSUME NEW o \in Objects
        PROVE  weak'[o] = (IF life'[o] = "live" THEN 1 ELSE 0) + IF o \in running' THEN 1 ELSE 0
    <3>1. CASE o # s
      BY <1>0, <1>1, <1>13, <3>1 DEF CountsAreExact
    <3>2. CASE o = s
      BY <1>1, <1>13, <3>2
    <3> QED BY <3>1, <3>2
  <2>2. ASSUME NEW o \in Objects PROVE strong'[o] = To(refs', o) + IF busy' = o THEN 1 ELSE 0
    BY <1>9 DEF Extra
  <2> QED BY <2>1, <2>2 DEF CountsAreExact
<1>17. NothingDangles'
  <2>1. \A r \in refs' : r.to \in Objects /\ life'[r.to] = "live"
    <3> TAKE r \in refs'
    <3>1. CASE r \in refs
      BY <1>0, <1>13, <3>1 DEF NothingDangles, TypeOK, Refs
    <3>2. CASE r \in done
      <4>1. r.to \in Held(s)
        BY <1>2, <1>3, <3>2
      <4> QED BY <1>0, <1>13, <4>1, HeldIsLive
    <3> QED BY <1>1, <3>1, <3>2
  <2>2. \A o \in ring \cup alive \cup trash \cup jhTrash : life'[o] = "live"
    BY <1>0, <1>13 DEF NothingDangles, TypeOK, Objects
  <2> QED BY <1>0, <1>1, <1>13, <1>14, <2>1, <2>2 DEF NothingDangles
<1>18. OwnersAreThere'
  <2>1. ASSUME NEW r \in refs'
        PROVE  /\ r.by = Main \/ life'[r.by] = "live" \/ r.by \in running'
               /\ Fits(r)
               /\ r.as = "result" => r.by \notin running' /\ life'[r.by] = "live"
               /\ r.as \in Fields /\ r.by \in Strands => r.by \in running'
               /\ r.as = "start" => r.by \in running' \cup attached'
    <3>1. CASE r \in refs /\ r.by # s
      <4>1. r.by \in Objects \cup {Main} /\ (r.as = "result" => r.by # Main)
        BY <1>0, <3>1, ObjectsAssumption DEF TypeOK, Refs, Owners, OwnersAreThere, Fits
      <4> QED BY <1>0, <1>1, <1>13, <3>1, <4>1 DEF OwnersAreThere
    <3>2. CASE r \in refs /\ r.by = s /\ r \notin stack
      <4>1. r.as = "start" /\ s \in attached
        BY <1>5, <3>2
      <4>2. life[s] = "live"
        BY <1>0, <4>1 DEF OwnersAreThere
      <4> QED BY <1>1, <1>10, <1>13, <3>2, <4>1, <4>2, ObjectsAssumption DEF Fits
    <3>3. CASE r \in done
      BY <1>1, <1>3, <1>10, <1>11, <1>13, <3>3, ObjectsAssumption DEF Fits
    <3>4. r \in done \/ (r \in refs /\ r \notin stack)
      BY <1>1, <2>1
    <3> QED BY <3>1, <3>2, <3>3, <3>4
  <2>2. \A r, q \in refs' : r.by = q.by /\ r.as = "result" /\ q.as = "result" => r = q
    <3>1. \A r \in refs : r.as = "result" => r.by # s
      BY <1>0, <1>a DEF OwnersAreThere
    <3> QED BY <1>0, <1>1, <1>3, <3>1 DEF OwnersAreThere
  <2>3. \A t \in running' : life'[t] # "unborn"
    BY <1>0, <1>1, <1>13 DEF OwnersAreThere, TypeOK, Objects
  <2>4. \A t \in attached' : life'[t] = "live"
    BY <1>0, <1>1, <1>13 DEF OwnersAreThere, TypeOK, Objects
  <2>5. \A o \in Objects : life'[o] = "dropped" => o \in running'
    BY <1>0, <1>1, <1>10, <1>12 DEF OwnersAreThere, TypeOK
  <2> QED BY <2>1, <2>2, <2>3, <2>4, <2>5 DEF OwnersAreThere
<1>19. Phases'
  BY <1>0, <1>1, <1>13 DEF Phases
<1> QED BY <1>14, <1>15, <1>16, <1>17, <1>18, <1>19 DEF HeapInv

\* Header::released.
LEMMA ReleasedHeap ==
  ASSUME HeapInv, NEW o \in Objects, Released(o)
  PROVE  HeapInv'
<1> DEFINE R == Contents(o)
<1>0. /\ TypeOK /\ CountsAreExact /\ NothingDangles /\ DoomedAreUnreferenced
      /\ OwnersAreThere /\ Phases /\ o \in doomed
  BY DEF HeapInv, Released
<1>1. /\ refs' = (refs \ R) \cup {}
      /\ strong' = [p \in Objects |-> strong[p] - To(R, p)]
      /\ doomed' = (doomed \ {o}) \cup {p \in Objects : To(R, p) > 0 /\ strong'[p] = 0}
      /\ attached' = attached \ {o}
      /\ ring' = ring \ {o} /\ alive' = alive \ {o} /\ trash' = trash \ {o}
      /\ jhTrash' = jhTrash \ {o}
      /\ UNCHANGED <<running, loan, vm, pass, trial, busy>>
  BY DEF Released, Unlink
<1>2. /\ \A r \in R : r \in refs /\ r.by = o
      /\ o \in Nodes => \A r \in refs : r.by = o => r \in R
      /\ \A r \in refs : r.by = o /\ r.as = "result" => r \in R
      /\ \A r \in refs : r.by = o /\ r.as = "start" /\ o \in attached \ running => r \in R
  BY ObjectsAssumption DEF Contents, InnerOf
<1> HIDE DEF R
<1>3. life[o] = "live" /\ strong[o] = 0 /\ (\A r \in refs : r.to # o) /\ o # Main
  BY <1>0, ObjectsAssumption DEF NothingDangles, DoomedAreUnreferenced, Objects
<1>4. busy # o
  <2>1. strong[o] = To(refs, o) + IF busy = o THEN 1 ELSE 0
    BY <1>0 DEF CountsAreExact
  <2>2. To(refs, o) \in Nat
    BY <1>0, ToType DEF TypeOK
  <2> QED BY <1>3, <2>1, <2>2
<1>5. weak[o] = IF o \in running THEN 2 ELSE 1
  BY <1>0, <1>3 DEF CountsAreExact
<1>6. /\ weak' = [weak EXCEPT ![o] = IF o \in running THEN 1 ELSE 0]
      /\ life' = [life EXCEPT ![o] = IF o \in running THEN "dropped" ELSE "freed"]
  <2>1. /\ weak' = [weak EXCEPT ![o] = @ - 1]
        /\ life' = [life EXCEPT ![o] = IF weak[o] = 1 THEN "freed"
                                       ELSE IF strong[o] = 0 THEN "dropped" ELSE @]
    BY DEF Released, Unweak
  <2>2. CASE o \in running
    <3>1. weak[o] - 1 = 1 /\ weak[o] # 1
      BY <1>5, <2>2
    <3> QED BY <1>3, <2>1, <2>2, <3>1
  <2>3. CASE o \notin running
    <3>1. weak[o] - 1 = 0 /\ weak[o] = 1
      BY <1>5, <2>3
    <3> QED BY <2>1, <2>3, <3>1
  <2> QED BY <2>2, <2>3
<1>7. /\ \A p \in Objects \ {o} : life'[p] = life[p] /\ weak'[p] = weak[p]
      /\ life'[o] # "live" /\ life'[o] # "unborn"
      /\ weak'[o] = IF o \in running THEN 1 ELSE 0
      /\ life' \in [Objects -> {"unborn", "live", "dropped", "freed"}]
      /\ weak' \in [Objects -> Nat]
  BY <1>0, <1>6 DEF TypeOK
<1>8. R \in SUBSET refs /\ {} \in SUBSET Refs /\ {} \cap refs = {} /\ {o} \in SUBSET Objects
  BY <1>2
<1>9. \A p \in Objects :
        strong'[p] = (strong[p] + To({}, p) + (Extra(p)' - Extra(p))) - To(R, p)
  <2> TAKE p \in Objects
  <2>1. Extra(p)' = Extra(p) /\ Extra(p) \in 0..1
    BY <1>1 DEF Extra
  <2>2. strong[p] \in Nat /\ To({}, p) = 0 /\ To(R, p) \in Nat
    BY <1>0, <1>8, ToType DEF TypeOK
  <2>3. strong'[p] = strong[p] - To(R, p)
    BY <1>1
  <2> QED BY <2>1, <2>2, <2>3
<1>10. strong' = [p \in Objects |-> strong'[p]]
  BY <1>1
<1>11. /\ refs' \subseteq Refs /\ strong' \in [Objects -> Nat]
       /\ \A p \in Objects : strong'[p] = To(refs', p) + Extra(p)'
  BY <1>0, <1>1, <1>8, <1>9, <1>10, CountsFollow
<1>12. /\ DoomedAreUnreferenced'
       /\ \A q \in refs' : q.to \notin doomed'
       /\ \A p \in doomed' : life[p] = "live" /\ p \in Objects
  <2>1. \A p \in Objects : Extra(p)' = Extra(p)
    BY <1>1 DEF Extra
  <2>2. /\ \A p \in Objects : life'[p] = "live" => life[p] = "live"
        /\ \A p \in {o} : life'[p] # "live"
    BY <1>7
  <2> QED BY <1>0, <1>1, <1>8, <1>9, <1>10, <2>1, <2>2, DoomFollows
<1>13. o \notin doomed'
  <2>1. To(R, o) = 0
    <3>1. R \subseteq Refs /\ \A r \in R : r.to # o
      BY <1>0, <1>3, <1>8 DEF TypeOK
    <3> QED BY <3>1, ToType
  <2> QED BY <1>1, <2>1
<1>14. TypeOK'
  BY <1>0, <1>1, <1>7, <1>11, <1>12 DEF TypeOK
<1>15. CountsAreExact'
  <2>1. ASSUME NEW p \in Objects
        PROVE  weak'[p] = (IF life'[p] = "live" THEN 1 ELSE 0) + IF p \in running' THEN 1 ELSE 0
    <3>1. CASE p # o
      BY <1>0, <1>1, <1>7, <3>1 DEF CountsAreExact
    <3>2. CASE p = o
      BY <1>1, <1>7, <3>2
    <3> QED BY <3>1, <3>2
  <2>2. ASSUME NEW p \in Objects PROVE strong'[p] = To(refs', p) + IF busy' = p THEN 1 ELSE 0
    BY <1>11 DEF Extra
  <2> QED BY <2>1, <2>2 DEF CountsAreExact
<1>16. NothingDangles'
  <2>1. \A r \in refs' : life'[r.to] = "live"
    BY <1>0, <1>1, <1>3, <1>7 DEF NothingDangles, TypeOK, Refs
  <2>2. \A p \in ring' \cup alive' \cup trash' \cup jhTrash' : life'[p] = "live"
    BY <1>0, <1>1, <1>7 DEF NothingDangles, TypeOK, Objects
  <2>3. \A p \in doomed' : life'[p] = "live"
    BY <1>7, <1>12, <1>13
  <2>4. busy' # None => life'[busy'] = "live"
    BY <1>0, <1>1, <1>4, <1>7 DEF NothingDangles, TypeOK
  <2> QED BY <1>12, <2>1, <2>2, <2>3, <2>4 DEF NothingDangles
<1>17. \A r \in refs' : r \in refs /\ (r.by = o => o \in Strands /\ o \in running /\ r.as # "result")
  <2> SUFFICES ASSUME NEW r \in refs', r.by = o
               PROVE  r \in refs /\ o \in Strands /\ o \in running /\ r.as # "result"
    BY <1>1
  <2>1. r \in refs /\ r \notin R /\ r.as \in Fields \cup {"start", "result", "root"}
    BY <1>0, <1>1 DEF TypeOK, Refs
  <2>2. o \in Strands /\ r.as # "result" /\ (r.as = "start" => ~(o \in attached \ running))
    BY <1>2, <2>1 DEF Objects
  <2>3. r.as # "root"
    BY <1>0, <2>1, <2>2, ObjectsAssumption DEF OwnersAreThere, Fits
  <2> QED BY <1>0, <2>1, <2>2, <2>3 DEF OwnersAreThere
<1>18. OwnersAreThere'
  <2>1. ASSUME NEW r \in refs'
        PROVE  /\ r.by = Main \/ life'[r.by] = "live" \/ r.by \in running'
               /\ Fits(r)
               /\ r.as = "result" => r.by \notin running' /\ life'[r.by] = "live"
               /\ r.as \in Fields /\ r.by \in Strands => r.by \in running'
               /\ r.as = "start" => r.by \in running' \cup attached'
    <3>1. r \in refs /\ r.by \in Objects \cup {Main}
      BY <1>0, <1>17, <2>1 DEF TypeOK, Refs, Owners
    <3>2. CASE r.by # o
      <4>1. r.as = "result" => r.by # Main
        BY <1>0, <3>1, ObjectsAssumption DEF OwnersAreThere, Fits
      <4> QED BY <1>0, <1>1, <1>7, <3>1, <3>2, <4>1 DEF OwnersAreThere
    <3>3. CASE r.by = o
      <4>1. Fits(r)
        BY <1>0, <3>1 DEF OwnersAreThere
      <4> QED BY <1>1, <1>3, <1>17, <2>1, <3>3, <4>1, ObjectsAssumption
    <3> QED BY <3>2, <3>3
  <2>2. \A r, q \in refs' : r.by = q.by /\ r.as = "result" /\ q.as = "result" => r = q
    BY <1>0, <1>1 DEF OwnersAreThere
  <2>3. \A t \in running' : life'[t] # "unborn"
    BY <1>0, <1>1, <1>7 DEF OwnersAreThere, TypeOK, Objects
  <2>4. \A t \in attached' : life'[t] = "live"
    BY <1>0, <1>1, <1>7 DEF OwnersAreThere, TypeOK, Objects
  <2>5. \A p \in Objects : life'[p] = "dropped" => p \in running'
    BY <1>0, <1>1, <1>6 DEF OwnersAreThere, TypeOK
  <2> QED BY <2>1, <2>2, <2>3, <2>4, <2>5 DEF OwnersAreThere
<1>19. Phases'
  <2>1. \A p \in Objects : life'[p] = "live" => p # o /\ life[p] = "live"
    BY <1>7
  <2>2. \A r \in refs' : r \in refs /\ (r.by \in Nodes => r.by # o)
    BY <1>17, ObjectsAssumption
  <2> QED BY <1>0, <1>1, <2>1, <2>2 DEF Phases
<1> QED BY <1>12, <1>14, <1>15, <1>16, <1>18, <1>19 DEF HeapInv

\* Clearing an item, with an extra reference to it.
LEMMA ClearHeap ==
  ASSUME HeapInv, AtRest, NEW o \in Objects, life[o] = "live", Clear(o),
         pass \in {"sweep", "cancel", "close"},
         ring' = ring \/ (ring' = ring \ {o} /\ pass = "close"), trash' \subseteq trash,
         UNCHANGED <<life, weak, running, trial, alive, jhTrash, loan, vm, pass>>
  PROVE  HeapInv'
<1> DEFINE R == Cleared(o)
<1>0. /\ TypeOK /\ CountsAreExact /\ NothingDangles /\ DoomedAreUnreferenced
      /\ OwnersAreThere /\ Phases /\ doomed = {} /\ busy = None
  BY DEF HeapInv, AtRest
<1>1. /\ refs' = (refs \ R) \cup {}
      /\ strong' = [p \in Objects |-> (strong[p] + IF p = o THEN 1 ELSE 0) - To(R, p)]
      /\ doomed' = (doomed \ {}) \cup {p \in Objects : To(R, p) > 0 /\ strong'[p] = 0}
      /\ attached' = attached \ {o} /\ busy' = o
  BY <1>0 DEF Clear
<1>2. /\ \A r \in R : r \in refs /\ r.by = o
      /\ o \in Nodes => \A r \in refs : r.by = o /\ r.as # "root" => r \in R
      /\ \A r \in refs : r.by = o /\ r.as = "start" /\ o \in attached \ running => r \in R
  BY ObjectsAssumption DEF Cleared, InnerOf
<1> HIDE DEF R
<1>3. R \in SUBSET refs /\ {} \in SUBSET Refs /\ {} \cap refs = {} /\ {} \in SUBSET Objects
  BY <1>2
<1>4. o # None
  BY ObjectsAssumption DEF Objects
<1>5. \A p \in Objects : Extra(p) = 0 /\ Extra(p)' = IF p = o THEN 1 ELSE 0
  BY <1>0, <1>1, ObjectsAssumption DEF Extra, Objects
<1>6. \A p \in Objects :
        strong'[p] = (strong[p] + To({}, p) + (Extra(p)' - Extra(p))) - To(R, p)
  <2> TAKE p \in Objects
  <2>1. strong[p] \in Nat /\ To({}, p) = 0 /\ To(R, p) \in Nat
    BY <1>0, <1>3, ToType DEF TypeOK
  <2>2. strong'[p] = (strong[p] + IF p = o THEN 1 ELSE 0) - To(R, p)
    BY <1>1
  <2> QED BY <1>5, <2>1, <2>2
<1>7. strong' = [p \in Objects |-> strong'[p]]
  BY <1>1
<1>8. /\ refs' \subseteq Refs /\ strong' \in [Objects -> Nat]
      /\ \A p \in Objects : strong'[p] = To(refs', p) + Extra(p)'
  BY <1>0, <1>1, <1>3, <1>6, <1>7, CountsFollow
<1>9. /\ DoomedAreUnreferenced'
      /\ \A q \in refs' : q.to \notin doomed'
      /\ \A p \in doomed' : life[p] = "live" /\ p \in Objects
  <2>1. \A p \in Objects : Extra(p)' = Extra(p) \/ (Extra(p)' > Extra(p) /\ p \notin doomed)
    BY <1>0, <1>5
  <2>2. \A p \in Objects : life'[p] = "live" => life[p] = "live"
    OBVIOUS
  <2> QED BY <1>0, <1>1, <1>3, <1>6, <1>7, <2>1, <2>2, DoomFollows
<1>10. TypeOK'
  BY <1>0, <1>1, <1>8, <1>9 DEF TypeOK
<1>11. CountsAreExact'
  BY <1>0, <1>8 DEF CountsAreExact, Extra
<1>12. NothingDangles'
  <2>1. ring' \subseteq ring
    OBVIOUS
  <2>2. \A r \in refs' : life'[r.to] = "live"
    BY <1>0, <1>1 DEF NothingDangles
  <2>3. \A p \in ring' \cup alive' \cup trash' \cup jhTrash' \cup doomed' : life'[p] = "live"
    BY <1>0, <1>9, <2>1 DEF NothingDangles
  <2> QED BY <1>1, <1>9, <2>2, <2>3 DEF NothingDangles
<1>13. OwnersAreThere'
  <2>1. \A r \in refs' : r \in refs /\ (r.as = "start" /\ r.by = o => o \in running)
    BY <1>0, <1>1, <1>2 DEF OwnersAreThere
  <2> QED BY <1>0, <1>1, <2>1 DEF OwnersAreThere
<1>14. Phases'
  <2>1. \A r \in refs' : r \in refs /\ (r.by \in Nodes /\ r.as # "root" => r.by # o)
    BY <1>1, <1>2
  <2>2. pass = "close" => vm = "closed"
    BY <1>0 DEF Phases
  <2> QED BY <1>0, <1>1, <2>1, <2>2 DEF Phases
<1> QED BY <1>9, <1>10, <1>11, <1>12, <1>13, <1>14 DEF HeapInv

\* Letting go of the extra reference.
LEMMA UnholdHeap ==
  ASSUME HeapInv, Unhold
  PROVE  HeapInv'
<1>0. /\ TypeOK /\ CountsAreExact /\ NothingDangles /\ DoomedAreUnreferenced
      /\ OwnersAreThere /\ Phases
      /\ busy # None /\ doomed = {} /\ busy' = None
      /\ strong' = [strong EXCEPT ![busy] = @ - 1]
      /\ doomed' = {o \in {busy} : strong[o] = 1}
      /\ UNCHANGED <<life, weak, refs, ring, running, attached, trial, alive, trash, jhTrash, loan,
                     vm, pass>>
  BY DEF HeapInv, Unhold, listVars
<1>1. /\ busy \in Objects /\ life[busy] = "live"
      /\ \A o \in Objects : strong[o] \in Nat
  BY <1>0 DEF TypeOK, NothingDangles
<1>2. \A o \in Objects : strong'[o] = IF o = busy THEN strong[o] - 1 ELSE strong[o]
  BY <1>0, <1>1 DEF TypeOK
<1>3. \A o \in Objects : Extra(o) = (IF o = busy THEN 1 ELSE 0) /\ Extra(o)' = 0
  BY <1>0, ObjectsAssumption DEF Extra, Objects
<1>4. /\ refs' \subseteq Refs /\ strong' \in [Objects -> Nat]
      /\ \A o \in Objects : strong'[o] = To(refs', o) + Extra(o)'
  <2>1. \A o \in Objects :
          strong'[o] = (strong[o] + To({}, o) + (Extra(o)' - Extra(o))) - To({}, o)
    <3> TAKE o \in Objects
    <3>1. To({}, o) = 0
      BY ToType
    <3> QED BY <1>1, <1>2, <1>3, <3>1
  <2>2. strong' = [o \in Objects |-> strong'[o]]
    BY <1>0 DEF TypeOK
  <2>3. {} \in SUBSET refs /\ {} \in SUBSET Refs /\ refs' = (refs \ {}) \cup {} /\ {} \cap refs = {}
    BY <1>0
  <2> QED BY <1>0, <2>1, <2>2, <2>3, CountsFollow
<1>5. TypeOK'
  BY <1>0, <1>1, <1>4 DEF TypeOK
<1>6. CountsAreExact'
  BY <1>0, <1>4 DEF CountsAreExact, Extra
<1>7. DoomedAreUnreferenced'
  <2>1. \A o \in Objects : life[o] = "live" => strong[o] # 0
    BY <1>0 DEF DoomedAreUnreferenced
  <2> QED BY <1>0, <1>1, <1>2, <2>1 DEF DoomedAreUnreferenced
<1>8. NothingDangles'
  <2>1. ASSUME NEW r \in refs, r.to \in doomed' PROVE FALSE
    <3> DEFINE o == r.to
    <3>1. o \in Objects /\ o \in doomed' /\ ~ \A q \in refs : q.to # o
      BY <1>0, <1>1, <2>1
    <3> HIDE DEF o
    <3>2. To(refs, o) # 0 /\ To(refs, o) \in Nat
      BY <1>0, <3>1, ToType DEF TypeOK
    <3>3. strong'[o] = 0
      BY <1>0, <1>1, <1>2, <3>1
    <3>4. strong'[o] = To(refs, o)
      BY <1>0, <1>3, <1>4, <3>1, <3>2
    <3> QED BY <3>2, <3>3, <3>4
  <2> QED BY <1>0, <1>1, <2>1 DEF NothingDangles
<1>9. OwnersAreThere'
  BY <1>0 DEF OwnersAreThere
<1>10. Phases'
  BY <1>0 DEF Phases
<1> QED BY <1>5, <1>6, <1>7, <1>8, <1>9, <1>10 DEF HeapInv

\* What the objects of the ring show the collector are references there are, and
\* no more of them lead to an object than it has.
LEMMA ShownAreThere ==
  ASSUME TypeOK, CountsAreExact, NothingDangles, busy = None,
         \A o \in Objects : life[o] = "live" => o \in ring, NEW o \in Objects
  PROVE  LET U == UNION {Traced(item) : item \in ring}
         IN  /\ U \subseteq refs /\ To(U, o) \in Nat /\ To(U, o) <= strong[o]
             /\ strong[o] = To(refs, o) /\ strong[o] - To(U, o) = To(Outside, o)
             /\ o \notin ring => To(U, o) = 0
<1> DEFINE U == UNION {Traced(item) : item \in ring}
<1>1. U \subseteq refs
  BY DEF Traced
<1>2. Outside = refs \ U
  BY DEF Outside
<1>3. refs \in SUBSET Refs /\ U \in SUBSET refs /\ U \subseteq Refs
  BY <1>1 DEF TypeOK
<1> HIDE DEF U
<1>4. To(U, o) \in Nat /\ To(refs, o) \in Nat
  BY <1>3, ToType
<1>5. To(Outside, o) = To(refs, o) - To(U, o) /\ To(U, o) <= To(refs, o)
  BY <1>2, <1>3, ToRemove
<1>6. strong[o] = To(refs, o)
  <2>1. strong[o] = To(refs, o) + IF busy = o THEN 1 ELSE 0
    BY DEF CountsAreExact
  <2>2. busy # o
    BY ObjectsAssumption DEF Objects
  <2> QED BY <1>4, <2>1, <2>2
<1>7. o \notin ring => To(U, o) = 0
  <2>1. o \notin ring => \A r \in U : r.to # o
    BY <1>3 DEF NothingDangles
  <2> QED BY <1>3, <2>1, ToType
<1>8. /\ U \subseteq refs /\ To(U, o) \in Nat /\ To(U, o) <= strong[o]
      /\ strong[o] = To(refs, o) /\ strong[o] - To(U, o) = To(Outside, o)
      /\ o \notin ring => To(U, o) = 0
  BY <1>3, <1>4, <1>5, <1>6, <1>7
<1> QED BY <1>8 DEF U

\* Pass 2 takes no count below zero.
LEMMA SubtractHeap ==
  ASSUME HeapInv, Subtract
  PROVE  HeapInv'
<1> DEFINE U == UNION {Traced(item) : item \in ring}
<1>0. /\ TypeOK /\ CountsAreExact /\ NothingDangles /\ DoomedAreUnreferenced
      /\ OwnersAreThere /\ Phases
      /\ pass = "subtract" /\ busy = None /\ pass' = "partition"
      /\ trial' = [o \in Objects |-> trial[o] - To(U, o)]
      /\ UNCHANGED <<life, strong, weak, refs, ring, running, attached, alive, trash, jhTrash, loan,
                     vm, busy, doomed>>
  BY DEF HeapInv, Subtract, Step, AtRest, heapVars
<1>1. /\ \A o \in Objects : life[o] = "live" => o \in ring
      /\ \A o \in ring : trial[o] = strong[o]
  BY <1>0 DEF Phases
<1>2. \A o \in Objects : trial[o] - To(U, o) \in Nat
  <2> TAKE o \in Objects
  <2>1. To(U, o) \in Nat /\ To(U, o) <= strong[o] /\ (o \notin ring => To(U, o) = 0)
    BY <1>0, <1>1, ShownAreThere
  <2>2. trial[o] \in Nat /\ strong[o] \in Nat
    BY <1>0 DEF TypeOK
  <2>3. CASE o \in ring
    BY <1>1, <2>1, <2>2, <2>3
  <2>4. CASE o \notin ring
    BY <2>1, <2>2, <2>4
  <2> QED BY <2>3, <2>4
<1> HIDE DEF U
<1>3. trial' \in [Objects -> Nat]
  BY <1>0, <1>2
<1>4. TypeOK'
  BY <1>0, <1>3 DEF TypeOK, Passes
<1>5. CountsAreExact' /\ NothingDangles' /\ DoomedAreUnreferenced' /\ OwnersAreThere'
  BY <1>0 DEF CountsAreExact, NothingDangles, DoomedAreUnreferenced, OwnersAreThere
<1>6. Phases'
  BY <1>0 DEF Phases
<1> QED BY <1>4, <1>5, <1>6 DEF HeapInv

\* Reviving some of the live objects with a trial count of zero.
LEMMA ReviveHeap ==
  ASSUME HeapInv, NEW S \in SUBSET Objects, \A o \in S : life[o] = "live", NEW item,
         Revive(S, item), pass \in {"spread", "respread"}, pass' \in {"spread", "respread"},
         UNCHANGED <<heapVars, loan, vm, busy, doomed>>
  PROVE  HeapInv'
<1>0. /\ TypeOK /\ CountsAreExact /\ NothingDangles /\ DoomedAreUnreferenced
      /\ OwnersAreThere /\ Phases
      /\ trial' = [o \in Objects |-> IF o \in S THEN 1 ELSE trial[o]]
      /\ alive' = (alive \ {item}) \cup S /\ trash' = trash \ S /\ jhTrash' = jhTrash \ S
      /\ UNCHANGED <<life, strong, weak, refs, ring, running, attached, loan, vm, busy, doomed>>
  BY DEF HeapInv, Revive, heapVars
<1>1. trial' \in [Objects -> Nat]
  BY <1>0 DEF TypeOK
<1>2. TypeOK'
  BY <1>0, <1>1 DEF TypeOK, Passes
<1>3. CountsAreExact' /\ DoomedAreUnreferenced' /\ OwnersAreThere'
  BY <1>0 DEF CountsAreExact, DoomedAreUnreferenced, OwnersAreThere
<1>4. NothingDangles'
  BY <1>0 DEF NothingDangles
<1>5. Phases'
  BY <1>0 DEF Phases
<1> QED BY <1>2, <1>3, <1>4, <1>5 DEF HeapInv

\* What an object shows is there.
LEMMA KidsAreLive ==
  ASSUME TypeOK, NothingDangles, NEW S, NEW o \in Kids(S)
  PROVE  o \in Objects /\ life[o] = "live"
BY DEF Kids, Traced, TypeOK, Refs, NothingDangles

\* Steps that leave the heap alone.
LEMMA IdleHeap ==
  ASSUME HeapInv, UNCHANGED <<heapVars, busy, doomed>>,
         \/ \E a \in Strands \cup {Main}, n \in Nodes, mut \in BOOLEAN : Borrow(a, n, mut)
         \/ \E a \in Strands \cup {Main} : Unborrow(a)
         \/ Collect \/ Partition \/ Condemn \/ EndCollect \/ Leave \/ EndCancel \/ Enter \/ Close
         \/ EndClose
  PROVE  HeapInv'
<1>0. /\ TypeOK /\ CountsAreExact /\ NothingDangles /\ DoomedAreUnreferenced
      /\ OwnersAreThere /\ Phases
      /\ UNCHANGED <<life, strong, weak, refs, ring, running, attached, busy, doomed>>
  BY DEF HeapInv, heapVars
<1>1. CountsAreExact' /\ DoomedAreUnreferenced' /\ OwnersAreThere'
  BY <1>0 DEF CountsAreExact, DoomedAreUnreferenced, OwnersAreThere
<1> SUFFICES TypeOK' /\ NothingDangles' /\ Phases'
  BY <1>1 DEF HeapInv
<1>2. CASE \E a \in Strands \cup {Main}, n \in Nodes, mut \in BOOLEAN : Borrow(a, n, mut)
  <2>1. /\ loan' \in [of : Nodes, to : Strands \cup {Main}, mut : BOOLEAN]
        /\ UNCHANGED <<trial, alive, trash, jhTrash, vm, pass>>
    BY <1>2 DEF Borrow, listVars
  <2>2. TypeOK'
    BY <1>0, <2>1 DEF TypeOK
  <2> QED BY <1>0, <2>1, <2>2 DEF NothingDangles, Phases
<1>3. CASE \E a \in Strands \cup {Main} : Unborrow(a)
  <2>1. loan' = NoLoan /\ UNCHANGED <<trial, alive, trash, jhTrash, vm, pass>>
    BY <1>3 DEF Unborrow, listVars
  <2>2. TypeOK'
    BY <1>0, <2>1 DEF TypeOK
  <2> QED BY <1>0, <2>1, <2>2 DEF NothingDangles, Phases
<1>4. CASE Collect
  <2>1. /\ trial' = [o \in Objects |-> IF o \in ring THEN strong[o] ELSE trial[o]]
        /\ UNCHANGED <<alive, trash, jhTrash, vm, loan>>
        /\ pass = "idle" /\ pass' = "subtract" /\ doomed = {} /\ busy = None /\ vm \in {"in", "draining"}
    BY <1>4 DEF Collect, Step, AtRest
  <2>2. trial' \in [Objects -> Nat]
    BY <1>0, <2>1 DEF TypeOK
  <2>3. TypeOK'
    BY <1>0, <2>1, <2>2 DEF TypeOK, Passes
  <2>4. \A o \in ring : trial'[o] = strong[o]
    BY <1>0, <2>1 DEF TypeOK
  <2> QED BY <1>0, <2>1, <2>3, <2>4 DEF NothingDangles, Phases
<1>5. CASE Partition
  <2>1. /\ alive' \subseteq ring /\ trash' \subseteq ring /\ jhTrash' \subseteq ring \cap Strands
        /\ UNCHANGED <<trial, vm, loan>> /\ pass = "partition" /\ pass' = "spread"
    BY <1>5 DEF Partition, Step
  <2>2. TypeOK'
    BY <1>0, <2>1 DEF TypeOK, Passes
  <2> QED BY <1>0, <2>1, <2>2 DEF NothingDangles, Phases
<1>6. CASE Condemn
  <2>1. /\ trash' = trash \cup jhTrash /\ jhTrash' = {}
        /\ UNCHANGED <<trial, alive, vm, loan>> /\ pass = "respread" /\ pass' = "sweep"
    BY <1>6 DEF Condemn
  <2>2. TypeOK'
    BY <1>0, <2>1 DEF TypeOK, Passes, Objects
  <2> QED BY <1>0, <2>1, <2>2 DEF NothingDangles, Phases
<1>7. CASE EndCollect
  <2>1. /\ trial' = [o \in Objects |-> 0] /\ pass = "sweep" /\ pass' = "idle"
        /\ vm' = (IF vm = "draining" /\ running = {} THEN "out" ELSE vm)
        /\ UNCHANGED <<alive, trash, jhTrash, loan>>
    BY <1>7 DEF EndCollect, Step
  <2>2. TypeOK'
    BY <1>0, <2>1 DEF TypeOK, Passes
  <2>3. vm \in {"in", "draining"}
    BY <1>0, <2>1 DEF Phases
  <2> QED BY <1>0, <2>1, <2>2, <2>3 DEF NothingDangles, Phases
<1>8. CASE Leave
  <2>1. /\ trash' = ring /\ vm = "in" /\ vm' = "draining" /\ pass = "idle" /\ pass' = "cancel"
        /\ UNCHANGED <<trial, alive, jhTrash, loan>>
    BY <1>8 DEF Leave, Step
  <2>2. TypeOK'
    BY <1>0, <2>1 DEF TypeOK, Passes
  <2> QED BY <1>0, <2>1, <2>2 DEF NothingDangles, Phases
<1>9. CASE EndCancel
  <2>1. pass = "cancel" /\ pass' = "idle" /\ UNCHANGED <<trial, alive, trash, jhTrash, loan, vm>>
    BY <1>9 DEF EndCancel, Step, listVars
  <2>2. TypeOK'
    BY <1>0, <2>1 DEF TypeOK, Passes
  <2> QED BY <1>0, <2>1, <2>2 DEF NothingDangles, Phases
<1>10. CASE Enter
  <2>1. /\ vm = "out" /\ vm' = "in" /\ pass = "idle"
        /\ UNCHANGED <<trial, alive, trash, jhTrash, loan, pass>>
    BY <1>10 DEF Enter, listVars
  <2>2. TypeOK'
    BY <1>0, <2>1 DEF TypeOK
  <2> QED BY <1>0, <2>1, <2>2 DEF NothingDangles, Phases
<1>11. CASE Close
  <2>1. /\ vm = "out" /\ vm' = "closed" /\ pass = "idle" /\ pass' = "close"
        /\ UNCHANGED <<trial, alive, trash, jhTrash, loan>>
    BY <1>11 DEF Close, Step, listVars
  <2>2. TypeOK'
    BY <1>0, <2>1 DEF TypeOK, Passes
  <2>3. running = {} /\ \A o \in Objects : life[o] = "live" => o \in ring
    BY <1>0, <2>1 DEF Phases
  <2>4. attached \subseteq ring /\ \A r \in refs : r.by \in Nodes => r.by \in ring
    BY <1>0, <2>3, ObjectsAssumption DEF OwnersAreThere, TypeOK, Objects
  <2>5. NothingDangles'
    BY <1>0, <2>1 DEF NothingDangles
  <2> QED BY <1>0, <2>1, <2>2, <2>3, <2>4, <2>5 DEF Phases
<1>12. CASE EndClose
  <2>1. /\ pass = "close" /\ pass' = "idle" /\ ring = {}
        /\ UNCHANGED <<trial, alive, trash, jhTrash, loan, vm>>
    BY <1>12 DEF EndClose, Step, listVars
  <2>2. TypeOK'
    BY <1>0, <2>1 DEF TypeOK, Passes
  <2> QED BY <1>0, <2>1, <2>2 DEF NothingDangles, Phases
<1> QED BY <1>2, <1>3, <1>4, <1>5, <1>6, <1>7, <1>8, <1>9, <1>10, <1>11, <1>12

\* An item that is passed over.
LEMMA PassOver ==
  ASSUME HeapInv, trash' \subseteq trash,
         UNCHANGED <<heapVars, busy, doomed, trial, alive, jhTrash, loan, vm, pass>>
  PROVE  HeapInv'
<1>0. /\ TypeOK /\ CountsAreExact /\ NothingDangles /\ DoomedAreUnreferenced
      /\ OwnersAreThere /\ Phases
      /\ UNCHANGED <<life, strong, weak, refs, ring, running, attached, busy, doomed, trial, alive,
                     jhTrash, loan, vm, pass>>
  BY DEF HeapInv, heapVars
<1>1. TypeOK'
  BY <1>0 DEF TypeOK
<1>2. CountsAreExact' /\ NothingDangles' /\ DoomedAreUnreferenced' /\ OwnersAreThere' /\ Phases'
  BY <1>0 DEF CountsAreExact, NothingDangles, DoomedAreUnreferenced, OwnersAreThere, Phases
<1> QED BY <1>1, <1>2 DEF HeapInv

\* The invariant of the heap is inductive.
LEMMA HeapStep ==
  ASSUME HeapInv, [Next]_vars
  PROVE  HeapInv'
<1>0. TypeOK /\ NothingDangles /\ Phases
  BY DEF HeapInv
<1>1. CASE Program
  <2>1. ASSUME NEW a \in Strands \cup {Main}, NEW k \in Fields, NEW n \in Nodes,
               NEW roots \in SUBSET Objects, New(a, k, n, roots)
        PROVE  HeapInv'
    BY <2>1, NewHeap
  <2>2. ASSUME NEW a \in Strands \cup {Main}, NEW k \in Fields, NEW s \in Strands,
               NEW o \in Objects, Spawn(a, k, s, o)
        PROVE  HeapInv'
    BY <2>2, SpawnHeap
  <2>3. ASSUME NEW a \in Strands \cup {Main}, NEW k \in Fields, NEW x \in Objects,
               NEW o \in Objects, Load(a, k, x, o) \/ Store(a, k, x, o)
        PROVE  HeapInv'
    BY <2>3, LoadHeap
  <2>4. ASSUME NEW a \in Strands \cup {Main}, NEW r \in refs, Discard(a, r) PROVE HeapInv'
    <3>1. /\ Quiet /\ Forget({r}, {})
          /\ UNCHANGED <<life, weak, ring, running, attached, listVars, loan, vm, pass, busy>>
      BY <2>4 DEF Discard, Acts
    <3> QED BY <3>1, DiscardHeap
  <2>5. ASSUME NEW a \in Strands \cup {Main}, NEW n \in Nodes, NEW mut \in BOOLEAN, Borrow(a, n, mut)
        PROVE  HeapInv'
    <3>1. UNCHANGED <<heapVars, busy, doomed>>
      BY <2>5 DEF Borrow
    <3> QED BY <2>5, <3>1, IdleHeap
  <2>6. ASSUME NEW a \in Strands \cup {Main}, Unborrow(a) PROVE HeapInv'
    <3>1. UNCHANGED <<heapVars, busy, doomed>>
      BY <2>6 DEF Unborrow
    <3> QED BY <2>6, <3>1, IdleHeap
  <2>7. ASSUME NEW r \in refs, LetGo(r) PROVE HeapInv'
    <3>1. /\ Quiet /\ Forget({r}, {})
          /\ UNCHANGED <<life, weak, ring, running, attached, listVars, loan, vm, pass, busy>>
      BY <2>7 DEF LetGo
    <3> QED BY <3>1, DiscardHeap
  <2>8. ASSUME NEW s \in Strands, NEW result \in SUBSET Objects, Finish(s, result) PROVE HeapInv'
    BY <2>8, FinishHeap
  <2> QED BY <1>1, <2>1, <2>2, <2>3, <2>4, <2>5, <2>6, <2>7, <2>8 DEF Program
<1>2. ASSUME NEW o \in Objects, Released(o) PROVE HeapInv'
  BY <1>2, ReleasedHeap
<1>3. CASE Unhold
  BY <1>3, UnholdHeap
<1>4. CASE Subtract
  BY <1>4, SubtractHeap
<1>5. CASE Collect \/ Partition \/ Condemn \/ EndCollect \/ Leave \/ EndCancel \/ Enter \/ Close \/ EndClose
  <2>1. UNCHANGED <<heapVars, busy, doomed>>
    BY <1>5 DEF Collect, Partition, Condemn, EndCollect, Leave, EndCancel, Enter, Close, EndClose
  <2> QED BY <1>5, <2>1, IdleHeap
<1>6. CASE Rescue
  <2> DEFINE S == Candidates(jhTrash) \cap Nodes
  <2>1. /\ Revive(S, None) /\ pass = "spread" /\ pass' = "respread"
        /\ UNCHANGED <<heapVars, loan, vm, busy, doomed>>
    BY <1>6 DEF Rescue
  <2>2. S \in SUBSET Objects /\ \A o \in S : life[o] = "live"
    BY <1>0, KidsAreLive DEF Candidates
  <2> QED BY <2>1, <2>2, ReviveHeap
<1>7. ASSUME NEW item \in Objects, Spread(item) PROVE HeapInv'
  <2> DEFINE S == Candidates({item})
  <2>1. /\ Revive(S, item) /\ pass = "spread" /\ pass' = "spread"
        /\ UNCHANGED <<heapVars, loan, vm, busy, doomed>>
    BY <1>7 DEF Spread
  <2>2. S \in SUBSET Objects /\ \A o \in S : life[o] = "live"
    BY <1>0, KidsAreLive DEF Candidates
  <2> QED BY <2>1, <2>2, ReviveHeap
<1>8. ASSUME NEW item \in Objects, Respread(item) PROVE HeapInv'
  <2> DEFINE S == Candidates({item}) \cap Nodes
  <2>1. /\ Revive(S, item) /\ pass = "respread" /\ pass' = "respread"
        /\ UNCHANGED <<heapVars, loan, vm, busy, doomed>>
    BY <1>8 DEF Respread
  <2>2. S \in SUBSET Objects /\ \A o \in S : life[o] = "live"
    BY <1>0, KidsAreLive DEF Candidates
  <2> QED BY <2>1, <2>2, ReviveHeap
<1>9. ASSUME NEW item \in Objects, Sweep(item) PROVE HeapInv'
  <2>1. /\ pass = "sweep" /\ AtRest /\ item \in trash /\ trash' = trash \ {item}
        /\ UNCHANGED <<trial, alive, jhTrash, loan, vm, pass>>
    BY <1>9 DEF Sweep
  <2>2. CASE Borrowed(item)
    BY <1>9, <2>1, <2>2, PassOver DEF Sweep
  <2>3. CASE ~Borrowed(item)
    <3>1. Clear(item) /\ UNCHANGED <<life, weak, ring, running>>
      BY <1>9, <2>3 DEF Sweep
    <3>2. life[item] = "live"
      BY <1>0, <2>1 DEF NothingDangles
    <3> QED BY <2>1, <3>1, <3>2, ClearHeap
  <2> QED BY <2>2, <2>3
<1>10. ASSUME NEW item \in Objects, CancelJoinHandle(item) PROVE HeapInv'
  <2>1. /\ pass = "cancel" /\ AtRest /\ item \in trash /\ trash' = trash \ {item}
        /\ UNCHANGED <<trial, alive, jhTrash, loan, vm, pass>>
    BY <1>10 DEF CancelJoinHandle
  <2>2. CASE item \notin Strands
    BY <1>10, <2>1, <2>2, PassOver DEF CancelJoinHandle
  <2>3. CASE item \in Strands
    <3>1. Clear(item) /\ UNCHANGED <<life, weak, ring, running>>
      BY <1>10, <2>3 DEF CancelJoinHandle
    <3>2. life[item] = "live"
      BY <1>0, <2>1 DEF NothingDangles
    <3> QED BY <2>1, <3>1, <3>2, ClearHeap
  <2> QED BY <2>2, <2>3
<1>11. ASSUME NEW item \in Objects, ClearArena(item) PROVE HeapInv'
  <2>1. /\ pass = "close" /\ AtRest /\ item \in ring /\ ring' = ring \ {item} /\ Clear(item)
        /\ trash' \subseteq trash
        /\ UNCHANGED <<life, weak, running, trial, alive, jhTrash, loan, vm, pass>>
    BY <1>11 DEF ClearArena, listVars
  <2>2. life[item] = "live"
    BY <1>0, <2>1 DEF NothingDangles
  <2> QED BY <2>1, <2>2, ClearHeap
<1>12. CASE UNCHANGED vars
  BY <1>12 DEF vars, heapVars, listVars, HeapInv, TypeOK, CountsAreExact, NothingDangles,
       DoomedAreUnreferenced, OwnersAreThere, Phases
<1> QED BY <1>1, <1>2, <1>3, <1>4, <1>5, <1>6, <1>7, <1>8, <1>9, <1>10, <1>11, <1>12 DEF Next

\* At the start there is nothing.
LEMMA HeapInit == Init => HeapInv
<1> SUFFICES ASSUME Init PROVE HeapInv
  OBVIOUS
<1>1. /\ life = [o \in Objects |-> "unborn"] /\ strong = [o \in Objects |-> 0]
      /\ weak = [o \in Objects |-> 0] /\ refs = {} /\ ring = {} /\ running = {} /\ attached = {}
      /\ loan = NoLoan /\ vm = "in" /\ pass = "idle" /\ trial = [o \in Objects |-> 0]
      /\ alive = {} /\ trash = {} /\ jhTrash = {} /\ busy = None /\ doomed = {}
  BY DEF Init
<1>2. TypeOK
  BY <1>1 DEF TypeOK, Passes
<1>3. CountsAreExact
  <2> SUFFICES ASSUME NEW o \in Objects
               PROVE  /\ strong[o] = To(refs, o) + IF busy = o THEN 1 ELSE 0
                      /\ weak[o] = (IF life[o] = "live" THEN 1 ELSE 0) + IF o \in running THEN 1 ELSE 0
    BY DEF CountsAreExact
  <2>1. To(refs, o) = 0
    BY <1>1, ToType
  <2>2. busy # o
    BY <1>1, ObjectsAssumption DEF Objects
  <2> QED BY <1>1, <2>1, <2>2
<1>4. NothingDangles /\ DoomedAreUnreferenced /\ OwnersAreThere /\ Phases
  BY <1>1 DEF NothingDangles, DoomedAreUnreferenced, OwnersAreThere, Phases
<1> QED BY <1>2, <1>3, <1>4 DEF HeapInv

\* The invariant of the heap holds throughout.
LEMMA HeapAlways == Spec => []HeapInv
BY HeapInit, HeapStep, PTL DEF Spec

\* For any number of objects and references, every variable keeps its type: no
\* count of arena.rs falls below zero, in particular.
THEOREM TypeCorrect == Spec => []TypeOK
<1>1. HeapInv => TypeOK
  BY DEF HeapInv
<1> QED BY <1>1, HeapAlways, PTL

\* For any number of objects and references, Header's counts are exact.
THEOREM CountsStayExact == Spec => []CountsAreExact
<1>1. HeapInv => CountsAreExact
  BY DEF HeapInv
<1> QED BY <1>1, HeapAlways, PTL

\* For any number of objects and references, nothing is used after it was freed.
THEOREM NothingIsUsedAfterFree == Spec => []NothingDangles
<1>1. HeapInv => NothingDangles
  BY DEF HeapInv
<1> QED BY <1>1, HeapAlways, PTL

-----------------------------------------------------------------------------
(***************************************************************************)
(* What nodes keep.                                                        *)
(***************************************************************************)

\* The roots make no cycle of nodes: every set of nodes has one that is no root
\* of any of them.
RootsHaveNoCycle ==
  \A S \in SUBSET Nodes : S # {} =>
    \E n \in S : \A r \in refs : r.as = "root" /\ r.by \in S => r.to # n

\* Only a new node comes with roots, and nothing has it for a root yet.
LEMMA RootsStep ==
  ASSUME HeapInv, RootsHaveNoCycle, [Next]_vars
  PROVE  RootsHaveNoCycle'
<1>0. TypeOK /\ NothingDangles
  BY DEF HeapInv
<1>1. ASSUME \A r \in refs' : r.as = "root" => r \in refs PROVE RootsHaveNoCycle'
  <2> SUFFICES ASSUME NEW S \in SUBSET Nodes, S # {}
               PROVE  \E n \in S : \A r \in refs' : r.as = "root" /\ r.by \in S => r.to # n
    BY DEF RootsHaveNoCycle
  <2>1. PICK n \in S : \A r \in refs : r.as = "root" /\ r.by \in S => r.to # n
    BY DEF RootsHaveNoCycle
  <2> QED BY <1>1, <2>1
<1>2. ASSUME NEW a \in Strands \cup {Main}, NEW k \in Fields, NEW n \in Nodes,
             NEW roots \in SUBSET Objects, New(a, k, n, roots)
      PROVE  RootsHaveNoCycle'
  <2>1. /\ refs' = refs \cup ({Ref(a, k, n)} \cup {Ref(n, "root", o) : o \in roots})
        /\ roots \subseteq Held(a) /\ life[n] = "unborn"
    BY <1>2 DEF New, Retain, Unborn
  <2>2. (\A r \in refs : r.to # n) /\ n \notin roots
    BY <1>0, <2>1, HeldIsLive DEF NothingDangles
  <2>3. ASSUME NEW r \in refs', r.as = "root"
        PROVE  r.to # n /\ (r \in refs \/ r.by = n)
    <3>1. CASE r \in refs
      BY <2>2, <3>1
    <3>2. CASE r = Ref(a, k, n)
      BY <2>3, <3>2, ObjectsAssumption DEF Ref
    <3>3. CASE \E o \in roots : r = Ref(n, "root", o)
      BY <2>2, <3>3 DEF Ref
    <3> QED BY <2>1, <3>1, <3>2, <3>3
  <2> SUFFICES ASSUME NEW S \in SUBSET Nodes, S # {}
               PROVE  \E m \in S : \A r \in refs' : r.as = "root" /\ r.by \in S => r.to # m
    BY DEF RootsHaveNoCycle
  <2>4. CASE n \in S
    BY <2>3, <2>4
  <2>5. CASE n \notin S
    <3>1. PICK m \in S : \A r \in refs : r.as = "root" /\ r.by \in S => r.to # m
      BY DEF RootsHaveNoCycle
    <3> QED BY <2>3, <2>5, <3>1
  <2> QED BY <2>4, <2>5
<1>3. CASE Program
  <2>1. ASSUME NEW a \in Strands \cup {Main}, NEW k \in Fields, NEW s \in Strands,
               NEW o \in Objects, Spawn(a, k, s, o)
        PROVE  \A r \in refs' : r.as = "root" => r \in refs
    BY <2>1, ObjectsAssumption DEF Spawn, Retain, Ref
  <2>2. ASSUME NEW a \in Strands \cup {Main}, NEW k \in Fields, NEW x \in Objects,
               NEW o \in Objects, Load(a, k, x, o) \/ Store(a, k, x, o)
        PROVE  \A r \in refs' : r.as = "root" => r \in refs
    BY <2>2, ObjectsAssumption DEF Load, Store, Retain, Ref
  <2>3. ASSUME NEW a \in Strands \cup {Main}, NEW r \in refs, Discard(a, r)
        PROVE  refs' \subseteq refs
    BY <2>3 DEF Discard, Forget
  <2>4. ASSUME NEW a \in Strands \cup {Main}, NEW n \in Nodes, NEW mut \in BOOLEAN,
               Borrow(a, n, mut)
        PROVE  refs' = refs
    BY <2>4 DEF Borrow, heapVars
  <2>5. ASSUME NEW s \in Strands, NEW result \in SUBSET Objects, Finish(s, result)
        PROVE  \A r \in refs' : r.as = "root" => r \in refs
    BY <2>5 DEF Finish, Forget, Ref
  <2>6. ASSUME NEW a \in Strands \cup {Main}, Unborrow(a) PROVE refs' = refs
    BY <2>6 DEF Unborrow, heapVars
  <2>7. ASSUME NEW r \in refs, LetGo(r) PROVE refs' \subseteq refs
    BY <2>7 DEF LetGo, Forget
  <2> QED BY <1>1, <1>2, <1>3, <2>1, <2>2, <2>3, <2>4, <2>5, <2>6, <2>7 DEF Program
<1>4. ASSUME NEW o \in Objects, Released(o) PROVE refs' \subseteq refs
  BY <1>4 DEF Released
<1>5. ASSUME NEW item \in Objects, Sweep(item) \/ CancelJoinHandle(item) \/ ClearArena(item)
      PROVE  refs' \subseteq refs
  BY <1>5 DEF Sweep, CancelJoinHandle, ClearArena, Clear, heapVars
<1>6. CASE Unhold \/ Collect \/ Subtract \/ Partition \/ Rescue \/ Condemn \/ EndCollect
           \/ Leave \/ EndCancel \/ Enter \/ Close \/ EndClose \/ UNCHANGED vars
  <2>1. refs' = refs
    BY <1>6 DEF Unhold, Collect, Subtract, Partition, Rescue, Condemn, EndCollect, Leave,
         EndCancel, Enter, Close, EndClose, vars, heapVars
  <2> QED BY <1>1, <2>1
<1>7. ASSUME NEW item \in Objects, Spread(item) \/ Respread(item) PROVE refs' = refs
  BY <1>7 DEF Spread, Respread, heapVars
<1> QED BY <1>1, <1>3, <1>4, <1>5, <1>6, <1>7 DEF Next

\* They never do.
LEMMA RootsAlways == Spec => [](HeapInv /\ RootsHaveNoCycle)
<1>1. Init => RootsHaveNoCycle
  BY DEF Init, RootsHaveNoCycle
<1>2. HeapInv /\ RootsHaveNoCycle /\ [Next]_vars => RootsHaveNoCycle'
  BY RootsStep
<1> QED BY <1>1, <1>2, HeapAlways, PTL DEF Spec

\* An object that is there when nothing is being released is referred to.
LEMMA LiveIsReferred ==
  ASSUME HeapInv, AtRest, NEW o \in Objects, life[o] = "live"
  PROVE  \E r \in refs : r.to = o
<1>0. /\ TypeOK /\ CountsAreExact /\ DoomedAreUnreferenced /\ doomed = {} /\ busy = None
  BY DEF HeapInv, AtRest
<1>1. strong[o] # 0
  BY <1>0 DEF DoomedAreUnreferenced
<1>2. strong[o] = To(refs, o) + IF busy = o THEN 1 ELSE 0
  BY <1>0 DEF CountsAreExact
<1>3. busy # o
  BY <1>0, ObjectsAssumption DEF Objects
<1>4. To(refs, o) # 0
  BY <1>1, <1>2, <1>3
<1> QED BY <1>0, <1>4, ToType DEF TypeOK

-----------------------------------------------------------------------------
(***************************************************************************)
(* Borrows.                                                                *)
(***************************************************************************)

\* A borrow stays held by a step that takes away neither its holder nor the
\* holder's reference.
LEMMA LoanKept ==
  ASSUME LoansAreHeld, loan' = loan,
         loan # NoLoan =>
           /\ \A r \in refs \ refs' : r.by # loan.to \/ r.as = "result" \/ r.to # loan.of
           /\ loan.to \in running => loan.to \in running',
         vm' # "in" => vm # "in" \/ loan.to # Main
  PROVE  LoansAreHeld'
<1>1. ASSUME loan # NoLoan
      PROVE  loan.of \in Held(loan.to)'
  <2>1. PICK r \in refs : r.by = loan.to /\ r.as # "result" /\ r.to = loan.of
    BY <1>1 DEF LoansAreHeld, Held
  <2>2. r \in refs'
    BY <1>1, <2>1
  <2> QED BY <2>1, <2>2 DEF Held
<1>2. loan # NoLoan => loan.to \in running' \cup {Main}
  BY DEF LoansAreHeld
<1>3. vm' # "in" => loan.to # Main
  BY DEF LoansAreHeld
<1> QED BY <1>1, <1>2, <1>3 DEF LoansAreHeld

\* What an object lets go of when it is cleared or released: only results and
\* the start of a strand that does not run, unless it is a node.
LEMMA DropsOfStrands ==
  ASSUME NEW o
  PROVE  \A r \in Cleared(o) \cup Contents(o) :
           /\ r \in refs /\ r.by = o
           /\ o \in Strands => r.as = "result" \/ (r.as = "start" /\ o \notin running)
           /\ o \in Strands /\ r \in Cleared(o) => r.as = "start" /\ o \notin running
BY DEF Cleared, Contents, InnerOf

\* Every step keeps borrows held.
LEMMA LoanStep ==
  ASSUME HeapInv, LoansAreHeld, [Next]_vars
  PROVE  LoansAreHeld'
<1>0. TypeOK /\ OwnersAreThere /\ Phases
  BY DEF HeapInv
<1>1. /\ loan # NoLoan => loan.of \in Nodes /\ loan.to \in Strands \cup {Main}
      /\ loan.to \notin Nodes
      /\ loan.to \in running => loan # NoLoan /\ loan.to \in Strands
  BY <1>0, ObjectsAssumption DEF TypeOK, NoLoan
<1>2. CASE Program
  <2>1. ASSUME NEW a \in Strands \cup {Main}, NEW k \in Fields, NEW n \in Nodes,
               NEW roots \in SUBSET Objects, New(a, k, n, roots)
        PROVE  LoansAreHeld'
    <3>1. loan' = loan /\ vm' = vm /\ running' = running /\ refs \subseteq refs'
      BY <2>1 DEF New, Retain
    <3> QED BY <3>1, LoanKept
  <2>2. ASSUME NEW a \in Strands \cup {Main}, NEW k \in Fields, NEW s \in Strands,
               NEW o \in Objects, Spawn(a, k, s, o)
        PROVE  LoansAreHeld'
    <3>1. loan' = loan /\ vm' = vm /\ running \subseteq running' /\ refs \subseteq refs'
      BY <2>2 DEF Spawn, Retain
    <3> QED BY <3>1, LoanKept
  <2>3. ASSUME NEW a \in Strands \cup {Main}, NEW k \in Fields, NEW x \in Objects,
               NEW o \in Objects, Load(a, k, x, o) \/ Store(a, k, x, o)
        PROVE  LoansAreHeld'
    <3>1. loan' = loan /\ vm' = vm /\ running' = running /\ refs \subseteq refs'
      BY <2>3 DEF Load, Store, Retain
    <3> QED BY <3>1, LoanKept
  <2>4. ASSUME NEW a \in Strands \cup {Main}, NEW r \in refs, Discard(a, r) PROVE LoansAreHeld'
    <3>1. loan' = loan /\ vm' = vm /\ running' = running /\ refs' = refs \ {r}
      BY <2>4 DEF Discard, Forget
    <3>2. (r.by = a /\ ~(loan.to = a /\ loan.of = r.to)) \/ r.by \in Nodes
      BY <2>4 DEF Discard, Borrowed
    <3>3. \A q \in refs \ refs' : q.by # loan.to \/ q.to # loan.of
      BY <1>1, <3>1, <3>2
    <3> QED BY <3>1, <3>3, LoanKept
  <2>5. ASSUME NEW a \in Strands \cup {Main}, NEW n \in Nodes, NEW mut \in BOOLEAN, Borrow(a, n, mut)
        PROVE  LoansAreHeld'
    <3>1. /\ loan' = [of |-> n, to |-> a, mut |-> mut] /\ n \in Held(a) /\ Acts(a)
          /\ refs' = refs /\ running' = running /\ vm' = vm
      BY <2>5 DEF Borrow, heapVars
    <3>2. a \in running \cup {Main} /\ (a = Main => vm = "in")
      BY <3>1, ActsFacts
    <3>3. n \in Held(a)'
      BY <3>1 DEF Held
    <3>4. loan'.of = n /\ loan'.to = a
      BY <3>1
    <3> QED BY <3>1, <3>2, <3>3, <3>4 DEF LoansAreHeld, Held
  <2>6. ASSUME NEW a \in Strands \cup {Main}, Unborrow(a) PROVE LoansAreHeld'
    <3>1. loan' = NoLoan
      BY <2>6 DEF Unborrow
    <3>2. NoLoan.to # Main
      BY ObjectsAssumption DEF NoLoan
    <3> QED BY <3>1, <3>2 DEF LoansAreHeld, NoLoan
  <2>7. ASSUME NEW r \in refs, LetGo(r) PROVE LoansAreHeld'
    <3>1. /\ loan' = loan /\ vm' = vm /\ running' = running /\ refs' = refs \ {r} /\ r.by = Main
          /\ vm # "in"
      BY <2>7 DEF LetGo, Forget
    <3>2. loan.to # Main
      BY <3>1 DEF LoansAreHeld
    <3> QED BY <3>1, <3>2, LoanKept
  <2>8. ASSUME NEW s \in Strands, NEW result \in SUBSET Objects, Finish(s, result) PROVE LoansAreHeld'
    <3>1. loan' = loan /\ vm' = vm /\ running' = running \ {s} /\ loan.to # s
      BY <2>8 DEF Finish
    <3>2. \A r \in refs \ refs' : r.by = s
      BY <2>8 DEF Finish, Forget
    <3> QED BY <3>1, <3>2, LoanKept
  <2> QED BY <1>2, <2>1, <2>2, <2>3, <2>4, <2>5, <2>6, <2>7, <2>8 DEF Program
<1>3. ASSUME NEW o \in Objects, loan' = loan, vm' = vm, running' = running,
             refs \ refs' \subseteq Cleared(o) \cup Contents(o)
      PROVE  LoansAreHeld'
  <2>1. ASSUME NEW r \in refs \ refs', loan # NoLoan
        PROVE  r.by # loan.to \/ r.as = "result" \/ r.to # loan.of
    <3>1. CASE loan.to # o
      BY <1>3, <2>1, <3>1, DropsOfStrands
    <3>2. CASE loan.to = o
      <4>1. o # Main
        BY ObjectsAssumption DEF Objects
      <4>2. o \in Strands /\ o \in running
        BY <1>1, <2>1, <3>2, <4>1 DEF LoansAreHeld
      <4> QED BY <1>3, <2>1, <4>2, DropsOfStrands
    <3> QED BY <3>1, <3>2
  <2> QED BY <1>3, <2>1, LoanKept
<1>4. ASSUME NEW o \in Objects, Released(o) PROVE LoansAreHeld'
  <2>1. /\ loan' = loan /\ vm' = vm /\ running' = running
        /\ refs \ refs' \subseteq Cleared(o) \cup Contents(o)
    BY <1>4 DEF Released
  <2> QED BY <1>3, <2>1
<1>5. ASSUME NEW item \in Objects, Sweep(item) \/ CancelJoinHandle(item) \/ ClearArena(item)
      PROVE  LoansAreHeld'
  <2>1. /\ loan' = loan /\ vm' = vm /\ running' = running
        /\ refs \ refs' \subseteq Cleared(item) \cup Contents(item)
    BY <1>5 DEF Sweep, CancelJoinHandle, ClearArena, Clear, heapVars
  <2> QED BY <1>3, <2>1
<1>6. ASSUME refs' = refs, running' = running, loan' = loan,
             vm' # "in" => vm # "in" \/ loan.to # Main
      PROVE  LoansAreHeld'
  BY <1>6, LoanKept
<1>7. CASE Unhold \/ Collect \/ Subtract \/ Partition \/ Rescue \/ Condemn \/ EndCollect
           \/ Leave \/ EndCancel \/ Enter \/ Close \/ EndClose \/ UNCHANGED vars
  <2>1. refs' = refs /\ running' = running /\ loan' = loan
    BY <1>7 DEF Unhold, Collect, Subtract, Partition, Rescue, Condemn, EndCollect, Leave,
         EndCancel, Enter, Close, EndClose, vars, heapVars
  <2>2. vm' # "in" => vm # "in" \/ loan.to # Main
    BY <1>7 DEF Unhold, Collect, Subtract, Partition, Rescue, Condemn, EndCollect, Leave,
         EndCancel, Enter, Close, EndClose, vars
  <2> QED BY <1>6, <2>1, <2>2
<1>8. ASSUME NEW item \in Objects, Spread(item) \/ Respread(item) PROVE LoansAreHeld'
  <2>1. refs' = refs /\ running' = running /\ loan' = loan /\ vm' = vm
    BY <1>8 DEF Spread, Respread, heapVars
  <2> QED BY <1>6, <2>1
<1> QED BY <1>2, <1>4, <1>5, <1>7, <1>8 DEF Next

-----------------------------------------------------------------------------
(***************************************************************************)
(* What the collector finds.                                               *)
(***************************************************************************)

\* A child is what one of the references shown leads to.
LEMMA KidsAre ==
  ASSUME NEW S, NEW o
  PROVE  o \in Kids(S) <=> \E r \in refs : r.by \in S /\ r \in Traced(r.by) /\ r.to = o
BY DEF Kids, Traced

\* ReachedFrom is the least closed set.
LEMMA ReachedIsLeast ==
  ASSUME NEW S, NEW T \in SUBSET Objects, S \subseteq T, Kids(T) \subseteq T
  PROVE  ReachedFrom(S) \subseteq T
BY DEF ReachedFrom

\* ReachedFrom has what it starts from and is closed.
LEMMA ReachedIsClosed ==
  ASSUME NEW S, TypeOK, NothingDangles
  PROVE  /\ S \cap Objects \subseteq ReachedFrom(S)
         /\ \A o \in ReachedFrom(S) : Kids({o}) \subseteq ReachedFrom(S)
<1>1. S \cap Objects \subseteq ReachedFrom(S)
  BY DEF ReachedFrom
<1>2. ASSUME NEW o \in ReachedFrom(S), NEW p \in Kids({o}) PROVE p \in ReachedFrom(S)
  <2>1. p \in Objects
    BY KidsAreLive
  <2>2. ASSUME NEW T \in SUBSET Objects, S \subseteq T, Kids(T) \subseteq T PROVE p \in T
    <3>1. o \in T
      BY <2>2 DEF ReachedFrom
    <3>2. p \in Kids(T)
      BY <3>1, KidsAre
    <3> QED BY <2>2, <3>2
  <2> QED BY <2>1, <2>2 DEF ReachedFrom
<1> QED BY <1>1, <1>2

\* A step that leaves the references and the handles alone changes nothing of
\* what reaches what.
LEMMA GraphKept ==
  ASSUME UNCHANGED <<refs, ring, running, attached>>
  PROVE  /\ Outside' = Outside /\ Anchored' = Anchored
         /\ ReachedFrom(Anchored)' = ReachedFrom(Anchored) /\ Rooted' = Rooted
         /\ \A S : Kids(S)' = Kids(S)
<1>1. \A o : Traced(o)' = Traced(o)
  BY DEF Traced
<1>2. \A S : Kids(S)' = Kids(S)
  BY <1>1 DEF Kids
<1>3. Outside' = Outside
  BY <1>1 DEF Outside
<1>4. Anchored' = Anchored
  BY DEF Anchored
<1>5. ReachedFrom(Anchored)' = ReachedFrom(Anchored)
  BY <1>2, <1>4 DEF ReachedFrom
<1>6. Rooted' = Rooted
  BY <1>2 DEF Rooted, ReachedFrom, Held
<1> QED BY <1>2, <1>3, <1>4, <1>5, <1>6

\* While a collection looks for garbage every live object is in the ring, and
\* what no object of the ring shows is held by the host or by a strand.
LEMMA WhileLooking ==
  ASSUME HeapInv, pass \in {"subtract", "partition", "spread", "respread"}
  PROVE  /\ TypeOK /\ CountsAreExact /\ NothingDangles /\ OwnersAreThere /\ Phases
         /\ doomed = {} /\ busy = None
         /\ \A o \in Objects : life[o] = "live" => o \in ring
         /\ ring \subseteq Objects
         /\ \A r \in refs : r.to \in ring
         /\ \A r \in refs : r \in Outside \/ (r.by \in ring /\ r \in Traced(r.by))
         /\ \A r \in Outside : r \in refs /\ r.by \in Strands \cup {Main}
<1>1. /\ TypeOK /\ CountsAreExact /\ NothingDangles /\ OwnersAreThere /\ Phases
      /\ doomed = {} /\ busy = None
      /\ \A o \in Objects : life[o] = "live" => o \in ring
      /\ ring \subseteq Objects
  BY DEF HeapInv, Phases, TypeOK
<1>2. \A r \in refs : r.to \in ring
  BY <1>1 DEF NothingDangles, TypeOK, Refs
<1>3. \A r \in refs : r \in Outside \/ (r.by \in ring /\ r \in Traced(r.by))
  BY DEF Outside, Traced
<1>4. ASSUME NEW r \in Outside PROVE r \in refs /\ r.by \in Strands \cup {Main}
  <2>1. r \in refs /\ r.by \in Nodes \cup Strands \cup {Main}
    BY <1>1 DEF Outside, TypeOK, Refs, Owners, Objects
  <2>2. CASE r.by \in Nodes
    <3>1. r.by \notin Strands /\ r.by # Main /\ r.by \in Objects
      BY <2>2, ObjectsAssumption DEF Objects
    <3>2. life[r.by] = "live"
      BY <1>1, <2>1, <3>1 DEF OwnersAreThere, TypeOK
    <3>3. r.by \in ring /\ r \in Traced(r.by)
      BY <1>1, <2>1, <3>1, <3>2 DEF Traced
    <3> QED BY <3>3 DEF Outside
  <2> QED BY <2>1, <2>2
<1> QED BY <1>1, <1>2, <1>3, <1>4

\* After pass 2 the trial count is the number of references from outside.
LEMMA SubtractCollect ==
  ASSUME HeapInv, Subtract
  PROVE  CollectInv'
<1>1. /\ pass = "subtract" /\ pass' = "partition"
      /\ trial' = [o \in Objects |-> trial[o] - To(UNION {Traced(item) : item \in ring}, o)]
      /\ UNCHANGED <<refs, ring, running, attached>>
  BY DEF Subtract, Step, heapVars
<1>2. /\ TypeOK /\ CountsAreExact /\ NothingDangles /\ busy = None
      /\ (\A o \in Objects : life[o] = "live" => o \in ring) /\ ring \subseteq Objects
      /\ \A o \in ring : trial[o] = strong[o]
  BY <1>1, WhileLooking DEF Phases
<1>3. Outside' = Outside
  BY <1>1, GraphKept
<1>4. ASSUME NEW o \in ring PROVE trial'[o] = To(Outside, o)
  <2>1. o \in Objects
    BY <1>2
  <2>2. strong[o] - To(UNION {Traced(item) : item \in ring}, o) = To(Outside, o)
    BY <1>2, <2>1, ShownAreThere
  <2> QED BY <1>1, <1>2, <2>1, <2>2
<1>5. \A o \in ring' : trial'[o] = To(Outside', o)
  BY <1>1, <1>3, <1>4
<1> QED BY <1>1, <1>5 DEF CollectInv

\* Pass 3.
LEMMA PartitionCollect ==
  ASSUME HeapInv, CollectInv, Partition
  PROVE  CollectInv'
<1>1. /\ pass = "partition" /\ pass' = "spread" /\ UNCHANGED <<refs, ring, running, attached, trial>>
      /\ alive' = {o \in ring : trial[o] # 0}
      /\ trash' = {o \in ring \cap Nodes : trial[o] = 0}
      /\ jhTrash' = {o \in ring \cap Strands : trial[o] = 0}
  BY DEF Partition, Step, heapVars
<1>2. /\ TypeOK /\ NothingDangles /\ ring \subseteq Objects
      /\ \A r \in Outside : r \in refs /\ r.to \in ring /\ r.by \in Strands \cup {Main}
  BY <1>1, WhileLooking
<1>3. /\ Outside' = Outside /\ Anchored' = Anchored
      /\ ReachedFrom(Anchored)' = ReachedFrom(Anchored)
  BY <1>1, GraphKept
<1>4. \A o \in ring : trial[o] # 0 <=> \E r \in Outside : r.to = o
  <2>1. Outside \subseteq Refs
    BY <1>2 DEF TypeOK
  <2>2. \A o \in ring : trial[o] = To(Outside, o)
    BY <1>1 DEF CollectInv
  <2> QED BY <2>1, <2>2, ToType
<1>5. Split'
  <2>1. \A o \in ring : trial[o] = 0 <=> o \in trash' \cup jhTrash'
    BY <1>1, <1>2 DEF Objects
  <2>2. trash' \subseteq Nodes /\ trash' \cup jhTrash' \subseteq ring
    BY <1>1
  <2>3. \A r \in Outside : trial[r.to] # 0
    BY <1>2, <1>4
  <2>4. \A o \in ring : trial[o] # 0 => o \in ReachedFrom(Anchored)
    <3>1. \A r \in Outside : r.to \in Anchored /\ r.to \in Objects
      BY <1>2 DEF Anchored
    <3> QED BY <1>2, <1>4, <3>1, ReachedIsClosed
  <2> QED BY <1>1, <1>3, <2>1, <2>2, <2>3, <2>4 DEF Split, Live
<1>6. ring' \ alive' = {o \in ring : trial[o] = 0}
  BY <1>1
<1> QED BY <1>1, <1>5, <1>6 DEF CollectInv, Live

\* Reviving what the anchored or the living lead to.
LEMMA ReviveSplit ==
  ASSUME HeapInv, pass \in {"spread", "respread"}, Split, NEW S \in SUBSET Objects,
         \A o \in S : o \in ring /\ o \in ReachedFrom(Anchored), NEW item, Revive(S, item),
         UNCHANGED heapVars
  PROVE  /\ Split' /\ \A o \in Objects : Live(o)' <=> Live(o) \/ o \in S
         /\ alive' = (alive \ {item}) \cup S
         /\ \A T : Kids(T)' = Kids(T)
<1>1. /\ trial' = [o \in Objects |-> IF o \in S THEN 1 ELSE trial[o]]
      /\ alive' = (alive \ {item}) \cup S /\ trash' = trash \ S /\ jhTrash' = jhTrash \ S
      /\ UNCHANGED <<refs, ring, running, attached>>
  BY DEF Revive, heapVars
<1>2. /\ TypeOK /\ ring \subseteq Objects /\ \A r \in Outside : r \in refs /\ r.to \in ring
  BY WhileLooking
<1>3. /\ Outside' = Outside /\ Anchored' = Anchored
      /\ ReachedFrom(Anchored)' = ReachedFrom(Anchored) /\ \A T : Kids(T)' = Kids(T)
  BY <1>1, GraphKept
<1>4. \A o \in Objects : Live(o)' <=> Live(o) \/ o \in S
  BY <1>1 DEF Live
<1>5. /\ \A o \in ring : ~Live(o)' <=> o \in trash' \cup jhTrash'
      /\ trash' \subseteq Nodes /\ trash' \cup jhTrash' \subseteq ring
    BY <1>1, <1>2, <1>4 DEF Split
<1>6. \A o \in alive' : Live(o)'
  <2>1. alive \subseteq Objects
    BY <1>2 DEF TypeOK
  <2> QED BY <1>1, <1>4, <2>1 DEF Split
<1>7. \A r \in Outside : trial'[r.to] # 0
  <2>1. \A r \in Outside : r.to \in Objects /\ Live(r.to)
    BY <1>2 DEF Split
  <2> QED BY <1>1, <2>1 DEF Live
<1>8. \A o \in ring : Live(o)' => o \in ReachedFrom(Anchored)
  BY <1>2, <1>4 DEF Split
<1>9. Split'
  BY <1>1, <1>3, <1>5, <1>6, <1>7, <1>8 DEF Split, Live
<1> QED BY <1>1, <1>3, <1>4, <1>9

\* Pass 4.
LEMMA SpreadCollect ==
  ASSUME HeapInv, CollectInv, NEW item \in Objects, Spread(item)
  PROVE  CollectInv'
<1> DEFINE S == Candidates({item})
<1>1. /\ pass = "spread" /\ pass' = "spread" /\ item \in alive /\ Revive(S, item)
      /\ UNCHANGED heapVars
  BY DEF Spread
<1>2. /\ TypeOK /\ NothingDangles /\ ring \subseteq Objects
      /\ \A o \in Objects : life[o] = "live" => o \in ring
  BY <1>1, WhileLooking
<1>3. Split /\ \A o \in ring \ alive : Live(o) => \A kid \in Kids({o}) : Live(kid)
  BY <1>1 DEF CollectInv
<1>4. S \in SUBSET Objects /\ \A o \in S : o \in ring /\ o \in ReachedFrom(Anchored)
  <2>1. item \in ring /\ Live(item)
    BY <1>1, <1>2, <1>3 DEF Split, NothingDangles
  <2>2. item \in ReachedFrom(Anchored)
    BY <1>3, <2>1 DEF Split
  <2>3. Kids({item}) \subseteq ReachedFrom(Anchored)
    BY <1>2, <2>2, ReachedIsClosed
  <2>4. S \subseteq Kids({item})
    BY DEF Candidates
  <2> QED BY <1>2, <2>3, <2>4, KidsAreLive
<1>5. \A o \in Kids({item}) : o \in Objects /\ (Live(o) \/ o \in S)
  BY <1>2, KidsAreLive DEF Candidates, Live
<1> HIDE DEF S
<1>6. /\ Split' /\ \A o \in Objects : Live(o)' <=> Live(o) \/ o \in S
      /\ alive' = (alive \ {item}) \cup S
      /\ \A T : Kids(T)' = Kids(T)
  BY <1>1, <1>3, <1>4, ReviveSplit
<1>7. ASSUME NEW o \in ring \ alive', trial'[o] # 0, NEW kid \in Kids({o}) PROVE trial'[kid] # 0
  <2>1. o \in Objects /\ o \notin S /\ Live(o)' /\ (o = item \/ o \in ring \ alive)
    BY <1>2, <1>6, <1>7 DEF Live
  <2>2. Live(o)
    BY <1>6, <2>1
  <2>3. kid \in Objects
    BY <1>2, KidsAreLive
  <2>4. Live(kid) \/ kid \in S
    BY <1>3, <1>5, <2>1, <2>2
  <2>5. Live(kid)'
    BY <1>6, <2>3, <2>4
  <2> QED BY <2>5 DEF Live
<1>8. ring' = ring
  BY <1>1 DEF heapVars
<1>9. \A o \in ring' \ alive' : trial'[o] # 0 => \A kid \in Kids({o})' : trial'[kid] # 0
  BY <1>6, <1>7, <1>8
<1> QED BY <1>1, <1>6, <1>9 DEF CollectInv, Live

\* When pass 4 is done, what is referred to from outside, and all that follows
\* from it, has a trial count: no strand among it is taken for an orphan.
LEMMA OrphansOnly ==
  ASSUME HeapInv, pass = "spread", Split, alive = {},
         \A o \in ring \ alive : Live(o) => \A kid \in Kids({o}) : Live(kid)
  PROVE  jhTrash \cap Rooted = {}
<1> DEFINE T == {o \in Objects : Live(o)}
           S == UNION {Held(a) : a \in (running \ attached) \cup {Main}}
<1>1. /\ TypeOK /\ OwnersAreThere /\ NothingDangles /\ ring \subseteq Objects
      /\ \A r \in refs : r \in Outside \/ (r.by \in ring /\ r \in Traced(r.by))
  BY WhileLooking
<1>2. S \subseteq T
  <2> SUFFICES ASSUME NEW a \in (running \ attached) \cup {Main}, NEW o \in Held(a) PROVE o \in T
    OBVIOUS
  <2>1. PICK r \in refs : r.by = a /\ r.as # "result" /\ r.to = o
    BY DEF Held
  <2>3. CASE a \in running \ attached
    <3>1. r \notin Traced(r.by)
      BY <1>1, <2>1, <2>3 DEF Traced, TypeOK
    <3>2. r \in Outside
      BY <1>1, <3>1
    <3> QED BY <1>1, <2>1, <3>2 DEF Split, TypeOK, Refs
  <2>4. CASE a = Main
    <3>1. r.by \notin ring
      BY <1>1, <2>1, <2>4, ObjectsAssumption DEF Objects
    <3>2. r \in Outside
      BY <1>1, <3>1
    <3> QED BY <1>1, <2>1, <3>2 DEF Split, TypeOK, Refs
  <2> QED BY <2>3, <2>4
<1>3. Kids(T) \subseteq T
  <2> SUFFICES ASSUME NEW o \in Kids(T) PROVE o \in T
    OBVIOUS
  <2>1. o \in Objects
    BY <1>1, KidsAreLive
  <2>2. PICK r \in refs : r.by \in T /\ r \in Traced(r.by) /\ r.to = o
    BY KidsAre
  <2>3. CASE r \in Outside
    BY <2>1, <2>2, <2>3 DEF Split
  <2>4. CASE r.by \in ring
    <3>1. o \in Kids({r.by})
      BY <2>2, KidsAre
    <3> QED BY <2>1, <2>2, <2>4, <3>1
  <2> QED BY <1>1, <2>3, <2>4
<1>4. T \in SUBSET Objects
  OBVIOUS
<1>5. Rooted = ReachedFrom(S)
  BY DEF Rooted
<1>6. \A o \in jhTrash : ~Live(o)
  BY DEF Split
<1>7. \A o \in T : Live(o)
  OBVIOUS
<1> HIDE DEF T, S
<1>8. Rooted \subseteq T
  BY <1>2, <1>3, <1>4, <1>5, ReachedIsLeast
<1> QED BY <1>6, <1>7, <1>8

\* Pass 4.5 begins.
LEMMA RescueCollect ==
  ASSUME HeapInv, CollectInv, Rescue
  PROVE  CollectInv'
<1> DEFINE S == Candidates(jhTrash) \cap Nodes
<1>1. /\ pass = "spread" /\ pass' = "respread" /\ alive = {} /\ Revive(S, None)
      /\ UNCHANGED heapVars
  BY DEF Rescue
<1>2. /\ TypeOK /\ NothingDangles /\ ring \subseteq Objects
      /\ \A o \in Objects : life[o] = "live" => o \in ring
  BY <1>1, WhileLooking
<1>3. Split /\ \A o \in ring \ alive : Live(o) => \A kid \in Kids({o}) : Live(kid)
  BY <1>1 DEF CollectInv
<1>4. S \in SUBSET Objects /\ \A o \in S : o \in ring /\ o \in ReachedFrom(Anchored)
  <2> SUFFICES ASSUME NEW o \in S PROVE o \in Objects /\ o \in ring /\ o \in ReachedFrom(Anchored)
    OBVIOUS
  <2>1. o \in Kids(jhTrash)
    BY DEF Candidates
  <2>2. o \in Objects /\ o \in ring
    BY <1>2, <2>1, KidsAreLive
  <2>3. PICK r \in refs : r.by \in jhTrash /\ r.to = o
    BY <2>1, KidsAre
  <2>4. o \in Anchored
    BY <1>2, <2>3 DEF Anchored, TypeOK
  <2> QED BY <1>2, <2>2, <2>4, ReachedIsClosed
<1>5. \A o \in Kids(jhTrash) \cap Nodes : o \in Objects /\ (Live(o) \/ o \in S)
  BY <1>2, KidsAreLive DEF Candidates, Live
<1>6. S \subseteq Nodes
  OBVIOUS
<1> HIDE DEF S
<1>7. /\ Split' /\ \A o \in Objects : Live(o)' <=> Live(o) \/ o \in S
      /\ alive' = (alive \ {None}) \cup S
      /\ \A T : Kids(T)' = Kids(T)
  BY <1>1, <1>3, <1>4, ReviveSplit
<1>8. UNCHANGED <<refs, ring, running, attached>> /\ alive' = S
  BY <1>1, <1>7 DEF heapVars
<1>9. ASSUME NEW o \in (ring \cap Nodes) \ alive', trial'[o] # 0, NEW kid \in Kids({o}) \cap Nodes
      PROVE  trial'[kid] # 0
  <2>1. o \in Objects /\ o \notin S /\ Live(o)' /\ o \in ring \ alive
    BY <1>1, <1>2, <1>8, <1>9 DEF Live
  <2>2. Live(kid) /\ kid \in Objects
    BY <1>2, <1>3, <1>7, <2>1, KidsAreLive
  <2> QED BY <1>7, <2>2 DEF Live
<1>10. ASSUME NEW o \in ring \cap Strands, NEW kid \in Kids({o}) \cap Nodes PROVE trial'[kid] # 0
  <2>1. kid \in Objects
    BY <1>2, KidsAreLive
  <2>2. CASE Live(o)
    <3>1. Live(kid)
      BY <1>1, <1>3, <2>2
    <3> QED BY <1>7, <2>1, <3>1 DEF Live
  <2>3. CASE ~Live(o)
    <3>1. o \in jhTrash
      BY <1>3, <2>3, ObjectsAssumption DEF Split
    <3>2. kid \in Kids(jhTrash)
      BY <3>1, KidsAre
    <3>3. Live(kid) \/ kid \in S
      BY <1>5, <3>2
    <3> QED BY <1>7, <2>1, <3>3 DEF Live
  <2> QED BY <2>2, <2>3
<1>11. jhTrash' \cap Rooted' = {}
  <2>1. jhTrash \cap Rooted = {}
    BY <1>1, <1>3, OrphansOnly
  <2>2. jhTrash' \subseteq jhTrash
    BY <1>1 DEF Revive
  <2>3. Rooted' = Rooted
    BY <1>8, GraphKept
  <2> QED BY <2>1, <2>2, <2>3
<1>12. /\ alive' \subseteq Nodes
       /\ \A o \in (ring' \cap Nodes) \ alive' : trial'[o] # 0 => \A kid \in Kids({o})' \cap Nodes : trial'[kid] # 0
       /\ \A o \in ring' \cap Strands : \A kid \in Kids({o})' \cap Nodes : trial'[kid] # 0
  BY <1>6, <1>7, <1>8, <1>9, <1>10
<1> QED BY <1>1, <1>7, <1>11, <1>12 DEF CollectInv, Live

\* Pass 4.5 goes on.
LEMMA RespreadCollect ==
  ASSUME HeapInv, CollectInv, NEW item \in Objects, Respread(item)
  PROVE  CollectInv'
<1> DEFINE S == Candidates({item}) \cap Nodes
<1>1. /\ pass = "respread" /\ pass' = "respread" /\ item \in alive /\ Revive(S, item)
      /\ UNCHANGED heapVars
  BY DEF Respread
<1>2. /\ TypeOK /\ NothingDangles /\ ring \subseteq Objects
      /\ \A o \in Objects : life[o] = "live" => o \in ring
  BY <1>1, WhileLooking
<1>3. /\ Split /\ alive \subseteq Nodes
      /\ \A o \in (ring \cap Nodes) \ alive : Live(o) => \A kid \in Kids({o}) \cap Nodes : Live(kid)
      /\ \A o \in ring \cap Strands : \A kid \in Kids({o}) \cap Nodes : Live(kid)
      /\ jhTrash \cap Rooted = {}
  BY <1>1 DEF CollectInv
<1>4. S \in SUBSET Objects /\ \A o \in S : o \in ring /\ o \in ReachedFrom(Anchored)
  <2>1. item \in ring /\ Live(item)
    BY <1>1, <1>2, <1>3 DEF Split, NothingDangles
  <2>2. item \in ReachedFrom(Anchored)
    BY <1>3, <2>1 DEF Split
  <2>3. Kids({item}) \subseteq ReachedFrom(Anchored)
    BY <1>2, <2>2, ReachedIsClosed
  <2>4. S \subseteq Kids({item})
    BY DEF Candidates
  <2> QED BY <1>2, <2>3, <2>4, KidsAreLive
<1>5. \A o \in Kids({item}) \cap Nodes : o \in Objects /\ (Live(o) \/ o \in S)
  BY <1>2, KidsAreLive DEF Candidates, Live
<1>6. S \subseteq Nodes
  OBVIOUS
<1> HIDE DEF S
<1>7. /\ Split' /\ \A o \in Objects : Live(o)' <=> Live(o) \/ o \in S
      /\ alive' = (alive \ {item}) \cup S
      /\ \A T : Kids(T)' = Kids(T)
  BY <1>1, <1>3, <1>4, ReviveSplit
<1>8. UNCHANGED <<refs, ring, running, attached>>
  BY <1>1 DEF heapVars
<1>9. ASSUME NEW o \in (ring \cap Nodes) \ alive', trial'[o] # 0, NEW kid \in Kids({o}) \cap Nodes
      PROVE  trial'[kid] # 0
  <2>1. o \in Objects /\ o \notin S /\ Live(o)' /\ (o = item \/ o \in (ring \cap Nodes) \ alive)
    BY <1>2, <1>7, <1>9 DEF Live
  <2>2. Live(o)
    BY <1>7, <2>1
  <2>3. kid \in Objects /\ (Live(kid) \/ kid \in S)
    BY <1>2, <1>3, <1>5, <2>1, <2>2, KidsAreLive
  <2> QED BY <1>7, <2>3 DEF Live
<1>10. ASSUME NEW o \in ring \cap Strands, NEW kid \in Kids({o}) \cap Nodes PROVE trial'[kid] # 0
  <2>1. kid \in Objects /\ Live(kid)
    BY <1>2, <1>3, KidsAreLive
  <2> QED BY <1>7, <2>1 DEF Live
<1>11. jhTrash' \cap Rooted' = {}
  <2>1. jhTrash' \subseteq jhTrash
    BY <1>1 DEF Revive
  <2>2. Rooted' = Rooted
    BY <1>8, GraphKept
  <2> QED BY <1>3, <2>1, <2>2
<1>12. /\ alive' \subseteq Nodes
       /\ \A o \in (ring' \cap Nodes) \ alive' : trial'[o] # 0 => \A kid \in Kids({o})' \cap Nodes : trial'[kid] # 0
       /\ \A o \in ring' \cap Strands : \A kid \in Kids({o})' \cap Nodes : trial'[kid] # 0
  BY <1>3, <1>6, <1>7, <1>8, <1>9, <1>10
<1> QED BY <1>1, <1>7, <1>11, <1>12 DEF CollectInv, Live

\* What is condemned is referred to by the condemned alone.
LEMMA CondemnCollect ==
  ASSUME HeapInv, CollectInv, Condemn
  PROVE  CollectInv'
<1>1. /\ pass = "respread" /\ pass' = "sweep" /\ alive = {} /\ trash' = trash \cup jhTrash
      /\ UNCHANGED <<refs, ring, trial>>
  BY DEF Condemn, heapVars
<1>2. /\ TypeOK /\ ring \subseteq Objects
      /\ \A r \in refs : r.to \in ring
      /\ \A r \in refs : r \in Outside \/ (r.by \in ring /\ r \in Traced(r.by))
  BY <1>1, WhileLooking
<1>3. /\ Split
      /\ \A o \in (ring \cap Nodes) \ alive : Live(o) => \A kid \in Kids({o}) \cap Nodes : Live(kid)
      /\ \A o \in ring \cap Strands : \A kid \in Kids({o}) \cap Nodes : Live(kid)
  BY <1>1 DEF CollectInv
<1>4. \A n \in Nodes \cap trash' : trial[n] = 0
  BY <1>1, <1>3 DEF Split, Live
<1>5. ASSUME NEW r \in refs, r.to \in Nodes, trial[r.to] = 0
      PROVE  r.by \in Nodes \cap trash' /\ trial[r.by] = 0
  <2>1. r \notin Outside
    BY <1>3, <1>5 DEF Split, Live
  <2>2. r.by \in ring /\ r.to \in Kids({r.by})
    BY <1>2, <2>1, KidsAre
  <2>3. r.by \in Nodes
    BY <1>2, <1>3, <1>5, <2>2 DEF Live, Objects
  <2>4. ~Live(r.by)
    BY <1>1, <1>3, <1>5, <2>2, <2>3 DEF Live
  <2> QED BY <1>1, <1>3, <2>2, <2>3, <2>4 DEF Split, Live
<1>6. CondemnedByCondemned'
  BY <1>1, <1>5 DEF CondemnedByCondemned, Live
<1> QED BY <1>1, <1>4, <1>6 DEF CollectInv, Live

\* Pass 5 meets no borrowed node.
LEMMA TrashIsNotBorrowed ==
  ASSUME HeapInv, LoansAreHeld, CollectInv, pass = "sweep", NEW o \in trash
  PROVE  ~Borrowed(o)
<1> SUFFICES ASSUME loan.of = o PROVE FALSE
  BY DEF Borrowed
<1>1. /\ TypeOK /\ o \in Objects
      /\ \A n \in Nodes \cap trash : ~Live(n)
      /\ \A r \in refs : r.to \in Nodes /\ ~Live(r.to) => r.by \in Nodes /\ ~Live(r.by)
  BY DEF HeapInv, TypeOK, CollectInv, CondemnedByCondemned
<1>2. loan # NoLoan
  BY <1>1, ObjectsAssumption DEF NoLoan, Objects
<1>3. o \in Nodes /\ loan.to \in Strands \cup {Main} /\ o \in Held(loan.to)
  BY <1>1, <1>2 DEF TypeOK, LoansAreHeld
<1>4. PICK r \in refs : r.by = loan.to /\ r.to = o
  BY <1>3 DEF Held
<1> QED BY <1>1, <1>3, <1>4, ObjectsAssumption

\* In pass 5 an item goes off the list as its references go.
LEMMA SweepCollect ==
  ASSUME HeapInv, CollectInv, pass = "sweep", pass' = "sweep", NEW o \in Objects,
         trash \ {o} \subseteq trash', trash' \subseteq trash, refs' \subseteq refs,
         o \in Nodes => o \in trash' \/ (\A r \in refs' : r.by = o => r.as = "root"),
         trial' = trial
  PROVE  CollectInv'
<1>1. (\A n \in Nodes \cap trash : ~Live(n)) /\ CondemnedByCondemned
  BY DEF CollectInv
<1>2. \A n \in Nodes \cap trash' : ~Live(n)'
  BY <1>1 DEF Live
<1>3. CondemnedByCondemned'
  BY <1>1 DEF CondemnedByCondemned, Live
<1> QED BY <1>2, <1>3 DEF CollectInv

CollectAll == HeapInv /\ LoansAreHeld /\ CollectInv

\* The invariant of a collection is inductive.
LEMMA CollectStep ==
  ASSUME CollectAll, [Next]_vars
  PROVE  CollectInv'
<1>0. HeapInv /\ LoansAreHeld /\ CollectInv /\ TypeOK
  BY DEF CollectAll, HeapInv
<1>1. ASSUME pass' \in {"idle", "subtract", "cancel", "close"} PROVE CollectInv'
  BY <1>1 DEF CollectInv
<1>2. CASE Program
  <2>1. pass' = "idle"
    <3>1. ASSUME NEW a, NEW k, NEW n, NEW roots, New(a, k, n, roots) PROVE pass' = "idle"
      BY <3>1 DEF New, Acts, Quiet
    <3>2. ASSUME NEW a, NEW k, NEW s, NEW o, Spawn(a, k, s, o) PROVE pass' = "idle"
      BY <3>2 DEF Spawn, Acts, Quiet
    <3>3. ASSUME NEW a, NEW k, NEW x, NEW o, Load(a, k, x, o) \/ Store(a, k, x, o) PROVE pass' = "idle"
      BY <3>3 DEF Load, Store, Acts, Quiet
    <3>4. ASSUME NEW a, NEW r, Discard(a, r) \/ LetGo(r) PROVE pass' = "idle"
      BY <3>4 DEF Discard, LetGo, Acts, Quiet
    <3>5. ASSUME NEW a, NEW n, NEW mut, Borrow(a, n, mut) \/ Unborrow(a) PROVE pass' = "idle"
      BY <3>5 DEF Borrow, Unborrow, Acts, Quiet
    <3>6. ASSUME NEW s, NEW result, Finish(s, result) PROVE pass' = "idle"
      BY <3>6 DEF Finish, Acts, Quiet
    <3> QED BY <1>2, <3>1, <3>2, <3>3, <3>4, <3>5, <3>6 DEF Program
  <2> QED BY <1>1, <2>1
<1>3. CASE Collect \/ EndCollect \/ Leave \/ EndCancel \/ Enter \/ Close \/ EndClose
  <2>1. pass' \in {"idle", "subtract", "cancel", "close"}
    BY <1>3 DEF Collect, EndCollect, Leave, EndCancel, Enter, Close, EndClose, Step
  <2> QED BY <1>1, <2>1
<1>4. CASE Subtract
  BY <1>0, <1>4, SubtractCollect
<1>5. CASE Partition
  BY <1>0, <1>5, PartitionCollect
<1>6. CASE Rescue
  BY <1>0, <1>6, RescueCollect
<1>7. CASE Condemn
  BY <1>0, <1>7, CondemnCollect
<1>8. ASSUME NEW item \in Objects, Spread(item) PROVE CollectInv'
  BY <1>0, <1>8, SpreadCollect
<1>9. ASSUME NEW item \in Objects, Respread(item) PROVE CollectInv'
  BY <1>0, <1>9, RespreadCollect
<1>10. ASSUME NEW item \in Objects, Sweep(item) PROVE CollectInv'
  <2>1. /\ pass = "sweep" /\ pass' = "sweep" /\ item \in trash /\ trash' = trash \ {item}
        /\ trial' = trial
    BY <1>10 DEF Sweep
  <2>2. ~Borrowed(item)
    BY <1>0, <2>1, TrashIsNotBorrowed
  <2>3. refs' = refs \ Cleared(item)
    BY <1>10, <2>2 DEF Sweep, Clear
  <2>4. item \in Nodes => \A r \in refs' : r.by = item => r.as = "root"
    BY <2>3, ObjectsAssumption DEF Cleared
  <2> QED BY <1>0, <2>1, <2>3, <2>4, SweepCollect
<1>11. ASSUME NEW o \in Objects, Released(o) PROVE CollectInv'
  <2>1. /\ o \in doomed /\ pass' = pass /\ trash' = trash \ {o} /\ trial' = trial
        /\ refs' = refs \ Contents(o)
    BY <1>11 DEF Released, Unlink
  <2>2. o \in Nodes => \A r \in refs' : r.by # o
    BY <2>1, ObjectsAssumption DEF Contents
  <2>3. CASE pass = "sweep"
    BY <1>0, <2>1, <2>2, <2>3, SweepCollect
  <2>4. CASE pass # "sweep"
    <3>1. pass \in {"idle", "cancel", "close"}
      BY <1>0, <2>1, <2>4 DEF HeapInv, Phases, TypeOK, Passes
    <3> QED BY <1>1, <2>1, <3>1
  <2> QED BY <2>3, <2>4
<1>12. CASE Unhold
  <2>1. /\ busy # None /\ pass' = pass /\ trash' = trash /\ trial' = trial /\ refs' = refs
    BY <1>12 DEF Unhold, listVars
  <2>2. busy \in Objects
    BY <1>0, <2>1 DEF TypeOK
  <2>3. CASE pass = "sweep"
    <3>1. (\A n \in Nodes \cap trash : ~Live(n)) /\ CondemnedByCondemned
      BY <1>0, <2>3 DEF CollectInv
    <3> QED BY <2>1, <2>3, <3>1 DEF CollectInv, Live, CondemnedByCondemned
  <2>4. CASE pass # "sweep"
    <3>1. pass \in {"idle", "cancel", "close"}
      BY <1>0, <2>1, <2>4 DEF HeapInv, Phases, TypeOK, Passes
    <3> QED BY <1>1, <2>1, <3>1
  <2> QED BY <2>3, <2>4
<1>13. ASSUME NEW item \in Objects, CancelJoinHandle(item) \/ ClearArena(item) PROVE CollectInv'
  <2>1. pass' \in {"cancel", "close"}
    BY <1>13 DEF CancelJoinHandle, ClearArena
  <2> QED BY <1>1, <2>1
<1>14. CASE UNCHANGED vars
  <2>1. UNCHANGED <<refs, ring, running, attached, trial, alive, trash, jhTrash, pass>>
    BY <1>14 DEF vars, heapVars, listVars
  <2>2. /\ Outside' = Outside /\ ReachedFrom(Anchored)' = ReachedFrom(Anchored)
        /\ Rooted' = Rooted /\ \A S : Kids(S)' = Kids(S)
    BY <2>1, GraphKept
  <2>3. Split' = Split
    BY <2>1, <2>2 DEF Split, Live
  <2>4. CondemnedByCondemned' = CondemnedByCondemned
    BY <2>1 DEF CondemnedByCondemned, Live
  <2> QED BY <1>0, <2>1, <2>2, <2>3, <2>4 DEF CollectInv, Live
<1> QED BY <1>2, <1>3, <1>4, <1>5, <1>6, <1>7, <1>8, <1>9, <1>10, <1>11, <1>12, <1>13, <1>14 DEF Next

\* The invariant of a collection holds throughout.
LEMMA CollectAlways == Spec => []CollectAll
<1>1. Init => CollectAll
  <2> SUFFICES ASSUME Init PROVE CollectAll
    OBVIOUS
  <2>1. HeapInv
    BY HeapInit
  <2>2. LoansAreHeld
    BY ObjectsAssumption DEF Init, LoansAreHeld, NoLoan
  <2>3. CollectInv
    BY DEF Init, CollectInv
  <2> QED BY <2>1, <2>2, <2>3 DEF CollectAll
<1>2. CollectAll /\ [Next]_vars => CollectAll'
  BY HeapStep, LoanStep, CollectStep DEF CollectAll
<1> QED BY <1>1, <1>2, PTL DEF Spec


\* For any number of objects and strands, a collection cancels only strands that
\* nobody can get at but orphans.
THEOREM OnlyOrphansAreCancelled == Spec => []CancelsOnlyOrphans
<1>1. CollectAll => CancelsOnlyOrphans
  BY DEF CollectAll, CollectInv, CancelsOnlyOrphans
<1> QED BY <1>1, CollectAlways, PTL

\* For any number of objects and strands, pass 5 meets no borrowed item.
THEOREM NoClearWaits == Spec => []NoClearIsDeferred
<1>1. CollectAll => NoClearIsDeferred
  BY TrashIsNotBorrowed DEF CollectAll, NoClearIsDeferred
<1> QED BY <1>1, CollectAlways, PTL

\* For any number of objects and strands, a collection finds every node that
\* neither the host nor a handle leads to, and none of them is left at its end.
THEOREM AllGarbageGoes == Spec => []GarbageGoes
<1>1. ASSUME CollectAll, pass = "respread", alive = {}, NEW n \in Nodes, life[n] = "live"
      PROVE  n \in trash \cup ReachedFrom({r.to : r \in {q \in refs : q.by \in Strands \cup {Main}}})
  <2>1. HeapInv /\ Split /\ n \in Objects /\ n \notin Strands
    BY <1>1, ObjectsAssumption DEF CollectAll, CollectInv, Objects
  <2>2. n \in ring /\ jhTrash \subseteq Strands
    BY <1>1, <2>1, WhileLooking DEF TypeOK
  <2> QED BY <2>1, <2>2 DEF Split, Anchored
<1>2. ASSUME CollectAll, RootsHaveNoCycle, pass = "sweep", trash = {}, AtRest,
             NEW n \in Nodes, life[n] = "live", trial[n] = 0
      PROVE  FALSE
  <2> DEFINE S == {m \in Nodes : life[m] = "live" /\ trial[m] = 0}
  <2>1. HeapInv /\ OwnersAreThere /\ TypeOK /\ CondemnedByCondemned
    BY <1>2 DEF CollectAll, HeapInv, CollectInv
  <2>2. S \in SUBSET Nodes /\ S # {}
    BY <1>2
  <2>3. PICK m \in S : \A r \in refs : r.as = "root" /\ r.by \in S => r.to # m
    BY <1>2, <2>2 DEF RootsHaveNoCycle
  <2>4. PICK r \in refs : r.to = m
    BY <1>2, <2>1, LiveIsReferred DEF Objects
  <2>5. r.by \in Nodes /\ trial[r.by] = 0 /\ r.as = "root"
    BY <1>2, <2>1, <2>4 DEF CondemnedByCondemned, Live
  <2>6. life[r.by] = "live"
    BY <2>1, <2>5, ObjectsAssumption DEF OwnersAreThere, TypeOK
  <2> QED BY <2>3, <2>4, <2>5, <2>6
<1>3. CollectAll /\ RootsHaveNoCycle => GarbageGoes
  BY <1>1, <1>2 DEF GarbageGoes
<1> QED BY <1>3, CollectAlways, RootsAlways, PTL

-----------------------------------------------------------------------------
(***************************************************************************)
(* What is left of a closed VM.                                            *)
(***************************************************************************)

\* With the host's references gone the only ones left are the results in the
\* handles and the roots of the nodes.
LEMMA ClosedHoldsLittle ==
  ASSUME HeapInv, vm = "closed", Quiet, \A r \in refs : r.by # Main
  PROVE  \A r \in refs : r.as = "result" \/ (r.as = "root" /\ r.by \in Nodes)
<1>0. TypeOK /\ OwnersAreThere /\ Phases /\ pass = "idle"
  BY DEF HeapInv, Quiet
<1>1. running = {} /\ ring = {} /\ attached = {}
  BY <1>0 DEF Phases
<1> TAKE r \in refs
<1>2. r.by \in Nodes \cup Strands /\ r.as \in Fields \cup {"start", "result", "root"}
  BY <1>0 DEF TypeOK, Refs, Owners, Objects
<1>3. r.as = "root" => r.by \in Nodes
  BY <1>0 DEF OwnersAreThere, Fits
<1>4. r.by \in Nodes => r.as = "root"
  BY <1>0, <1>1 DEF Phases
<1>5. r.by \in Strands => r.as \notin Fields /\ r.as # "start"
  BY <1>0, <1>1 DEF OwnersAreThere
<1> QED BY <1>2, <1>3, <1>4, <1>5

\* For any number of objects and strands, all that a closed VM leaves once the
\* host has let go is what the results of its strands lead to: an object without
\* a result behind it would be the root of a node that has none either, and so
\* on, in a circle.
THEOREM ClosingLeavesOnlyResults == Spec => []CloseLeavesOnlyResults
<1>1. ASSUME HeapInv, RootsHaveNoCycle, vm = "closed", Quiet, \A r \in refs : r.by # Main,
             NEW o \in Objects, life[o] \notin {"unborn", "freed"}
      PROVE  o \in ReachedFrom({r.to : r \in {q \in refs : q.as = "result"}})
  <2> DEFINE Results == {r.to : r \in {q \in refs : q.as = "result"}}
             F == ReachedFrom(Results)
             B == {p \in Objects : life[p] = "live" /\ p \notin F}
  <2>1. /\ TypeOK /\ NothingDangles /\ OwnersAreThere /\ Phases /\ AtRest /\ running = {}
    BY <1>1 DEF HeapInv, Phases, Quiet
  <2>2. life[o] = "live"
    BY <1>1, <2>1 DEF TypeOK, OwnersAreThere
  <2>3. /\ Results \cap Objects \subseteq F
        /\ \A p \in F : Kids({p}) \subseteq F
    BY <2>1, ReachedIsClosed
  <2>4. \A r \in refs : r.as = "result" => r.to \in F
    <3>1. \A r \in refs : r.as = "result" => r.to \in Results \cap Objects
      BY <2>1 DEF TypeOK, Refs
    <3> QED BY <2>3, <3>1
  <2> HIDE DEF F, Results
  <2>5. ASSUME NEW p \in B
        PROVE  \E r \in refs : r.as = "root" /\ r.to = p /\ r.by \in B \cap Nodes
    <3>1. PICK r \in refs : r.to = p
      BY <1>1, <2>1, LiveIsReferred
    <3>2. r.as = "root" /\ r.by \in Nodes /\ r.by \in Objects
      BY <1>1, <2>4, <3>1, ClosedHoldsLittle DEF Objects
    <3>3. life[r.by] = "live"
      BY <2>1, <3>2, ObjectsAssumption DEF OwnersAreThere
    <3>4. r.by \notin F
      <4>1. r \in Traced(r.by)
        BY <3>2, ObjectsAssumption DEF Traced
      <4>2. p \in Kids({r.by})
        BY <3>1, <4>1, KidsAre
      <4> QED BY <2>3, <2>5, <4>2
    <3> QED BY <3>1, <3>2, <3>3, <3>4
  <2>6. B = {}
    <3> SUFFICES ASSUME B # {} PROVE FALSE
      OBVIOUS
    <3>1. B \cap Nodes \in SUBSET Nodes /\ B \cap Nodes # {}
      BY <2>5
    <3>2. PICK n \in B \cap Nodes :
            \A r \in refs : r.as = "root" /\ r.by \in B \cap Nodes => r.to # n
      BY <1>1, <3>1 DEF RootsHaveNoCycle
    <3> QED BY <2>5, <3>2
  <2> QED BY <2>2, <2>6 DEF F, Results
<1>2. HeapInv /\ RootsHaveNoCycle => CloseLeavesOnlyResults
  BY <1>1 DEF CloseLeavesOnlyResults
<1> QED BY <1>2, RootsAlways, PTL

\* What is in use is referred to.
LEMMA InUseIsReferred ==
  ASSUME TypeOK, NothingDangles, NEW o \in Objects, \A r \in refs : r.to # o
  PROVE  o \notin InUse
<1> DEFINE T == Objects \ {o}
           S == UNION {Held(a) : a \in running \cup {Main}}
<1>1. S \subseteq T
  BY DEF Held, TypeOK, Refs
<1>2. Kids(T) \subseteq T
  BY DEF Kids, Traced, TypeOK, Refs
<1>3. T \in SUBSET Objects /\ InUse = ReachedFrom(S) /\ o \notin T
  BY DEF InUse
<1> HIDE DEF T, S
<1> QED BY <1>1, <1>2, <1>3, ReachedIsLeast

\* The nodes on the list of pass 5 are not in use.
LEMMA TrashIsNotInUse ==
  ASSUME HeapInv, CollectInv, pass = "sweep", NEW n \in Nodes \cap trash
  PROVE  n \notin InUse
<1> DEFINE T == Strands \cup {m \in Nodes : Live(m)}
           S == UNION {Held(a) : a \in running \cup {Main}}
<1>1. /\ TypeOK /\ NothingDangles
      /\ \A m \in Nodes \cap trash : ~Live(m)
      /\ \A r \in refs : r.to \in Nodes /\ ~Live(r.to) => r.by \in Nodes /\ ~Live(r.by)
  BY DEF HeapInv, CollectInv, CondemnedByCondemned
<1>2. \A r \in refs : r.to \in Nodes \cup Strands
  BY <1>1 DEF TypeOK, Refs, Objects
<1>3. S \subseteq T
  <2> SUFFICES ASSUME NEW a \in running \cup {Main}, NEW o \in Held(a) PROVE o \in T
    OBVIOUS
  <2>1. PICK r \in refs : r.by = a /\ r.to = o
    BY DEF Held
  <2>2. a \notin Nodes
    BY <1>1, ObjectsAssumption DEF TypeOK
  <2> QED BY <1>1, <1>2, <2>1, <2>2
<1>4. Kids(T) \subseteq T
  <2> SUFFICES ASSUME NEW o \in Kids(T) PROVE o \in T
    OBVIOUS
  <2>1. PICK r \in refs : r.by \in T /\ r.to = o
    BY KidsAre
  <2> QED BY <1>1, <1>2, <2>1, ObjectsAssumption
<1>5. T \in SUBSET Objects /\ InUse = ReachedFrom(S) /\ n \notin T
  BY <1>1, ObjectsAssumption DEF InUse, Objects
<1> HIDE DEF T, S
<1> QED BY <1>3, <1>4, <1>5, ReachedIsLeast

\* For any number of objects and strands, a collection takes nothing away from
\* what the host or a strand that still has to unwind can reach.
THEOREM WhatIsInUseIsKept == Spec => KeepsWhatIsInUse
<1> DEFINE Keeps == pass = "sweep" =>
                      \A r \in refs \ refs' :
                        r.by \in InUse => r.as = "start" /\ r.by \notin running
<1>1. ASSUME CollectAll, [Next]_vars PROVE Keeps
  <2> SUFFICES ASSUME pass = "sweep", NEW r \in refs \ refs', r.by \in InUse
               PROVE  r.as = "start" /\ r.by \notin running
    OBVIOUS
  <2>0. HeapInv /\ CollectInv /\ TypeOK /\ NothingDangles
    BY <1>1 DEF CollectAll, HeapInv
  <2>1. CASE Program
    <3>1. pass = "idle"
      BY <2>1 DEF Program, New, Spawn, Load, Store, Discard, LetGo, Borrow, Unborrow, Finish, Acts, Quiet
    <3> QED BY <3>1
  <2>2. ASSUME NEW o \in Objects, Released(o) PROVE r.as = "start" /\ r.by \notin running
    <3>1. r \in Contents(o) /\ o \in doomed
      BY <2>2 DEF Released
    <3>2. r.by = o
      BY <3>1, DropsOfStrands
    <3>3. \A q \in refs : q.to # o
      BY <2>0, <3>1 DEF NothingDangles
    <3> QED BY <2>0, <3>2, <3>3, InUseIsReferred
  <2>3. ASSUME NEW item \in Objects, Sweep(item) PROVE r.as = "start" /\ r.by \notin running
    <3>1. r \in Cleared(item) /\ item \in trash
      BY <2>3 DEF Sweep, Clear, heapVars
    <3>2. r.by = item
      BY <3>1, DropsOfStrands
    <3>3. CASE item \in Nodes
      BY <2>0, <3>1, <3>2, <3>3, TrashIsNotInUse
    <3>4. CASE item \in Strands
      BY <3>1, <3>2, <3>4, DropsOfStrands
    <3> QED BY <3>3, <3>4 DEF Objects
  <2>4. CASE Unhold \/ Collect \/ Subtract \/ Partition \/ Rescue \/ Condemn \/ EndCollect
             \/ Leave \/ EndCancel \/ Enter \/ Close \/ EndClose \/ UNCHANGED vars
    <3>1. refs' = refs
      BY <2>4 DEF Unhold, Collect, Subtract, Partition, Rescue, Condemn, EndCollect, Leave,
           EndCancel, Enter, Close, EndClose, vars, heapVars
    <3> QED BY <3>1
  <2>5. ASSUME NEW item \in Objects,
               Spread(item) \/ Respread(item) \/ CancelJoinHandle(item) \/ ClearArena(item)
        PROVE  FALSE
    BY <2>5 DEF Spread, Respread, CancelJoinHandle, ClearArena
  <2> QED BY <1>1, <2>1, <2>2, <2>3, <2>4, <2>5 DEF Next
<1>2. CollectAll /\ [Next]_vars => [Keeps]_vars
  BY <1>1
<1>3. KeepsWhatIsInUse <=> [][Keeps]_vars
  BY DEF KeepsWhatIsInUse
<1> HIDE DEF Keeps
<1> QED BY <1>2, <1>3, CollectAlways, PTL DEF Spec

=============================================================================
