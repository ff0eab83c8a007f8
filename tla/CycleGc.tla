------------------------------ MODULE CycleGc -------------------------------
(***************************************************************************)
(* The memory of the virtual machine (dolang-runtime/src/gc): objects      *)
(* counted by their strong references, and a collector that finds the      *)
(* cycles counting cannot free (gc/arena.rs, collect_full).                *)
(*                                                                         *)
(* A background strand has a handle, an object like the others.  While it  *)
(* has not been cleared the handle sees the strand's stack: what the stack *)
(* holds is inside the graph that the collector looks at.  Once cleared,   *)
(* the strand is cancelled, but it still runs until it has unwound, and    *)
(* what its stack holds counts as held from outside.                       *)
(*                                                                         *)
(* Not every reference of a node goes when the node is cleared: a Stream   *)
(* keeps its handle, an iterator what it iterates over, a Sender its       *)
(* receiver, a module, a class and an instance what they were made from.   *)
(* They have these from the moment they are made.                          *)
(*                                                                         *)
(* Nothing runs beside a collection.  One step takes one item off a list;  *)
(* the lists are sets, any order stands for the order of the rings.  The   *)
(* objects whose last reference went wait in doomed, and nothing else      *)
(* happens until each has dropped what it held.                            *)
(*                                                                         *)
(* Abstractions.  Objects of a type that cannot be in a cycle hold no      *)
(* reference and the collector passes them over: they are left out.        *)
(* A collection may start whenever the program is between two operations,  *)
(* whatever the balance of allocations.  One borrow at a time is           *)
(* outstanding between operations, never of a handle (object/strand.rs     *)
(* borrows one only while it polls).  A count does not come near its       *)
(* ceiling.  Finalizers touch no reference.  The native part of an object  *)
(* of a class, which an initializer makes, is kept too; it keeps nothing   *)
(* itself, so that it counts as a node that the object was made with.      *)
(***************************************************************************)
EXTENDS Naturals, FiniteSets

CONSTANTS
  Nodes,    \* the objects that are not strand handles
  Strands,  \* the handles, each with the strand it stands for
  Fields,   \* how many references an owner may have to one object
  Main,     \* the host and the strand that enter runs
  MaxRefs,  \* how many references there are at most
  None

ASSUME ObjectsAssumption ==
  /\ IsFiniteSet(Nodes) /\ IsFiniteSet(Strands) /\ IsFiniteSet(Fields)
  /\ Nodes \cap Strands = {} /\ Main \notin Nodes \cup Strands
  /\ None \notin Nodes \cup Strands \cup {Main}
  /\ Fields \cap {"start", "result", "root"} = {}
  /\ MaxRefs \in Nat

Objects == Nodes \cup Strands
Owners == Objects \cup {Main}

\* A reference: who holds it, as what, and to which object.  A strand holds the
\* value it was started with for as long as its StrandInner lives; the handle,
\* not the strand, holds the result.  A root is what a node was made with and
\* keeps until it goes itself.
Refs == [by : Owners, as : Fields \cup {"start", "result", "root"}, to : Objects]
Ref(w, k, o) == [by |-> w, as |-> k, to |-> o]

Passes == {"idle", "subtract", "partition", "spread", "respread", "sweep",
           "cancel", "close"}

VARIABLES
  life,      \* of each object: unborn, live, dropped, or freed
  strong,    \* Header::strong
  weak,      \* Header::weak
  refs,      \* the references there are
  ring,      \* the arena's ring of objects that may be in a cycle
  running,   \* the strands whose future has not ended
  attached,  \* the handles whose inner is Some
  loan,      \* the outstanding borrow
  vm,        \* in, draining, out (between two calls of enter), closed
  pass,      \* what the collector, or the end of enter or of the VM, is at
  trial,     \* Header::trial
  alive,     \* the list of that name
  trash,     \* trash, or the ring that clear and cancel_join_handles pop
  jhTrash,   \* jh_trash
  busy,      \* the object being cleared, with its extra reference
  doomed     \* the objects whose last strong reference is gone

heapVars == <<life, strong, weak, refs, ring, running, attached>>
listVars == <<trial, alive, trash, jhTrash>>
vars == <<heapVars, listVars, loan, vm, pass, busy, doomed>>

-----------------------------------------------------------------------------
(* References *)

To(R, o) == Cardinality({r \in R : r.to = o})

NoLoan == [of |-> None, to |-> None, mut |-> FALSE]

\* What the collector's visitor is shown by an object (Collect::accept).
Traced(o) ==
  {r \in refs : r.by = o /\ (o \in Strands /\ o \notin attached => r.as = "result")}
Kids(S) == {r.to : r \in UNION {Traced(o) : o \in S}}

\* What a holder can use: the result belongs to the handle.
Held(a) == {r.to : r \in {q \in refs : q.by = a /\ q.as # "result"}}

\* Drop for Base: the references of R go, and the objects they were the last
\* for are released.  More than one step of the code, none of which is seen.
Forget(R, extra) ==
  /\ refs' = (refs \ R) \cup extra
  /\ strong' = [o \in Objects |-> (strong[o] + To(extra, o)) - To(R, o)]
  /\ doomed' = doomed \cup {o \in Objects : To(R, o) > 0 /\ strong'[o] = 0}

\* A copy that does not count.
RetainNothing(R) == refs' = refs \cup R /\ UNCHANGED strong

\* Clone for Base.
Retain(R) ==
  /\ refs' = refs \cup R
  /\ strong' = [o \in Objects |-> strong[o] + To(R, o)]

Room(n) == Cardinality(refs) + n <= MaxRefs

-----------------------------------------------------------------------------
(* The program: the host's strand while enter runs, and the background     *)
(* strands until they have ended.                                          *)

AtRest == doomed = {} /\ busy = None
Quiet == pass = "idle" /\ AtRest
Acts(a) == Quiet /\ ((a = Main /\ vm = "in") \/ a \in running)
Unborn(o) == life[o] = "unborn"
Fresh(w, k, o) == Ref(w, k, o) \notin refs
Borrowed(o) == loan.of = o

\* new_from_raw: into the ring, with one reference, and holding what it keeps.
New(a, k, n, roots) ==
  /\ Acts(a) /\ Unborn(n) /\ roots \subseteq Held(a) /\ Room(1 + Cardinality(roots))
  /\ life' = [life EXCEPT ![n] = "live"]
  /\ weak' = [weak EXCEPT ![n] = 1]
  /\ ring' = ring \cup {n}
  /\ Retain({Ref(a, k, n)} \cup {Ref(n, "root", o) : o \in roots})
  /\ UNCHANGED <<running, attached, listVars, loan, vm, pass, busy, doomed>>

\* spawn_background_raw: the future keeps a weak reference to the handle.  With
\* the spawn channel closed the handle and the future go at once.
Spawn(a, k, s, o) ==
  /\ Acts(a) /\ vm = "in" /\ Unborn(s) /\ o \in Held(a) /\ Room(2)
  /\ life' = [life EXCEPT ![s] = "live"]
  /\ weak' = [weak EXCEPT ![s] = 2]
  /\ ring' = ring \cup {s}
  /\ running' = running \cup {s}
  /\ attached' = attached \cup {s}
  /\ Retain({Ref(a, k, s), Ref(s, "start", o)})
  /\ UNCHANGED <<listVars, loan, vm, pass, busy, doomed>>

\* The holder of x copies a reference out of it: a field of a node, which it
\* borrows, or the result of a strand, which it joins.
Load(a, k, x, o) ==
  /\ Acts(a) /\ x \in Held(a) /\ ~(Borrowed(x) /\ loan.mut) /\ Room(1)
  /\ \E r \in refs : r.by = x /\ r.to = o /\ (x \in Strands => r.as = "result")
  /\ Fresh(a, k, o)
  /\ Retain({Ref(a, k, o)})
  /\ UNCHANGED <<life, weak, ring, running, attached, listVars, loan, vm, pass, busy, doomed>>

\* It puts a reference into a field, with a mutable borrow for as long as that
\* takes.
Store(a, k, x, o) ==
  /\ Acts(a) /\ {x, o} \subseteq Held(a) /\ x \in Nodes /\ ~Borrowed(x) /\ Room(1)
  /\ Fresh(x, k, o)
  /\ Retain({Ref(x, k, o)})
  /\ UNCHANGED <<life, weak, ring, running, attached, listVars, loan, vm, pass, busy, doomed>>

\* It empties a field of a node it holds, or drops a value of its own stack
\* that it has not borrowed.
Discard(a, r) ==
  /\ Acts(a) /\ r \in refs /\ r.as \in Fields
  /\ \/ r.by = a /\ ~(loan.to = a /\ Borrowed(r.to))
     \/ r.by \in Held(a) \cap Nodes /\ ~Borrowed(r.by)
  /\ Forget({r}, {})
  /\ UNCHANGED <<life, weak, ring, running, attached, listVars, loan, vm, pass, busy>>

\* Outside enter the host, and the state that outlives the arena, can only let
\* go of what they keep.
LetGo(r) ==
  /\ Quiet /\ vm \in {"out", "closed"} /\ r \in refs /\ r.by = Main
  /\ Forget({r}, {})
  /\ UNCHANGED <<life, weak, ring, running, attached, listVars, loan, vm, pass, busy>>

\* borrow_imm and borrow_mut, held while other operations run.
Borrow(a, n, mut) ==
  /\ Acts(a) /\ loan = NoLoan /\ n \in Held(a) \cap Nodes
  /\ loan' = [of |-> n, to |-> a, mut |-> mut]
  /\ UNCHANGED <<heapVars, listVars, vm, pass, busy, doomed>>

Unborrow(a) ==
  /\ Acts(a) /\ loan.to = a
  /\ loan' = NoLoan
  /\ UNCHANGED <<heapVars, listVars, vm, pass, busy, doomed>>

\* release_weak and released_weak.
Unweak(o) ==
  /\ weak' = [weak EXCEPT ![o] = @ - 1]
  /\ life' = [life EXCEPT ![o] = IF weak[o] = 1 THEN "freed"
                                 ELSE IF strong[o] = 0 THEN "dropped" ELSE @]

\* The strand ends, by itself or cancelled: its result goes to the handle if
\* there still is one, the stack goes with the future, and the value it was
\* started with stays with the StrandInner while the handle has it.
Finish(s, result) ==
  LET stack == {r \in refs : r.by = s /\ (r.as = "start" => s \notin attached)}
      done == {Ref(s, "result", o) : o \in IF strong[s] = 0 THEN {} ELSE result}
  IN /\ Acts(s) /\ s \in running /\ loan.to # s
     /\ result \subseteq Held(s) /\ Cardinality(result) <= 1
     /\ running' = running \ {s}
     /\ Forget(stack, done)
     /\ Unweak(s)
     /\ UNCHANGED <<ring, attached, listVars, loan, vm, pass, busy>>

-----------------------------------------------------------------------------
(* Releasing and clearing *)

\* What goes when a handle lets go of its StrandInner: nothing while the future
\* has it too.
InnerOf(s) == {r \in refs : r.by = s /\ r.as = "start" /\ s \in attached \ running}

\* Collect::clear, and what dropping the contents lets go of: a handle that is
\* cleared keeps its result, a node its roots.
Cleared(o) ==
  IF o \in Strands THEN InnerOf(o) ELSE {r \in refs : r.by = o /\ r.as # "root"}
Contents(o) ==
  IF o \in Strands THEN InnerOf(o) \cup {r \in refs : r.by = o /\ r.as = "result"}
  ELSE {r \in refs : r.by = o}

\* A released object stays on the collector's lists.
ReleasedStaysQueued(o) ==
  /\ ring' = ring \ {o}
  /\ UNCHANGED <<alive, trash, jhTrash>>

Unlink(o) ==
  /\ ring' = ring \ {o}
  /\ alive' = alive \ {o}
  /\ trash' = trash \ {o}
  /\ jhTrash' = jhTrash \ {o}

\* Header::released.
Released(o) ==
  /\ o \in doomed
  /\ Unlink(o)
  /\ attached' = attached \ {o}
  /\ LET R == Contents(o)
     IN /\ refs' = refs \ R
        /\ strong' = [p \in Objects |-> strong[p] - To(R, p)]
        /\ doomed' = (doomed \ {o}) \cup {p \in Objects : To(R, p) > 0 /\ strong'[p] = 0}
  /\ Unweak(o)
  /\ UNCHANGED <<running, loan, vm, pass, trial, busy>>

\* retain, clear: the item keeps its extra reference until what it held is gone.
Clear(o) ==
  /\ busy' = o
  /\ attached' = attached \ {o}
  /\ LET R == Cleared(o)
     IN /\ refs' = refs \ R
        /\ strong' = [p \in Objects |->
             (strong[p] + IF p = o THEN 1 ELSE 0) - To(R, p)]
        /\ doomed' = {p \in Objects : To(R, p) > 0 /\ strong'[p] = 0}

\* release, of the extra reference.
Unhold ==
  /\ busy # None /\ doomed = {}
  /\ strong' = [strong EXCEPT ![busy] = @ - 1]
  /\ doomed' = {o \in {busy} : strong[o] = 1}
  /\ busy' = None
  /\ UNCHANGED <<life, weak, refs, ring, running, attached, listVars, loan, vm, pass>>

-----------------------------------------------------------------------------
(* The collector *)

Step(from, to) == pass = from /\ AtRest /\ pass' = to

\* Pass 1.  A mutable borrow puts the collection off.
Collect ==
  /\ Step("idle", "subtract") /\ vm \in {"in", "draining"}
  /\ ~loan.mut
  /\ trial' = [o \in Objects |-> IF o \in ring THEN strong[o] ELSE trial[o]]
  /\ UNCHANGED <<heapVars, alive, trash, jhTrash, loan, vm, busy, doomed>>

\* Nothing is taken off.
SubtractNothing ==
  /\ Step("subtract", "partition")
  /\ UNCHANGED <<heapVars, listVars, loan, vm, busy, doomed>>

\* Pass 2.
Subtract ==
  /\ Step("subtract", "partition")
  /\ trial' = [o \in Objects |->
       trial[o] - To(UNION {Traced(item) : item \in ring}, o)]
  /\ UNCHANGED <<heapVars, alive, trash, jhTrash, loan, vm, busy, doomed>>

\* Pass 3.
Partition ==
  /\ Step("partition", "spread")
  /\ alive' = {o \in ring : trial[o] # 0}
  /\ trash' = {o \in ring \cap Nodes : trial[o] = 0}
  /\ jhTrash' = {o \in ring \cap Strands : trial[o] = 0}
  /\ UNCHANGED <<heapVars, trial, loan, vm, busy, doomed>>

\* The children in S are alive after all.
Revive(S, item) ==
  /\ trial' = [o \in Objects |-> IF o \in S THEN 1 ELSE trial[o]]
  /\ alive' = (alive \ {item}) \cup S
  /\ trash' = trash \ S
  /\ jhTrash' = jhTrash \ S

Candidates(S) == {o \in Kids(S) : trial[o] = 0}

\* Strands are left out as they are in pass 4.5.
SpreadToNodes(item) ==
  /\ pass = "spread" /\ item \in alive
  /\ Revive(Candidates({item}) \cap Nodes, item)
  /\ UNCHANGED <<heapVars, loan, vm, pass, busy, doomed>>

\* Pass 4.
Spread(item) ==
  /\ pass = "spread" /\ item \in alive
  /\ Revive(Candidates({item}), item)
  /\ UNCHANGED <<heapVars, loan, vm, pass, busy, doomed>>

\* What the strands hold is not rescued.
RescueNothing ==
  /\ pass = "spread" /\ alive = {}
  /\ pass' = "respread"
  /\ UNCHANGED <<heapVars, listVars, loan, vm, busy, doomed>>

\* Pass 4.5: the strands will unwind, and need what they hold.
Rescue ==
  /\ pass = "spread" /\ alive = {}
  /\ pass' = "respread"
  /\ Revive(Candidates(jhTrash) \cap Nodes, None)
  /\ UNCHANGED <<heapVars, loan, vm, busy, doomed>>

\* Only the values on the stack itself are rescued.
RespreadNowhere(item) ==
  /\ pass = "respread" /\ item \in alive
  /\ Revive({}, item)
  /\ UNCHANGED <<heapVars, loan, vm, pass, busy, doomed>>

Respread(item) ==
  /\ pass = "respread" /\ item \in alive
  /\ Revive(Candidates({item}) \cap Nodes, item)
  /\ UNCHANGED <<heapVars, loan, vm, pass, busy, doomed>>

\* jh_trash.migrate.
Condemn ==
  /\ pass = "respread" /\ alive = {}
  /\ pass' = "sweep"
  /\ trash' = trash \cup jhTrash
  /\ jhTrash' = {}
  /\ UNCHANGED <<heapVars, trial, alive, loan, vm, busy, doomed>>

\* Pass 5, one item: skipped while it is borrowed.
Sweep(item) ==
  /\ pass = "sweep" /\ AtRest /\ item \in trash
  /\ trash' = trash \ {item}
  /\ IF Borrowed(item)
     THEN UNCHANGED <<heapVars, busy, doomed>>
     ELSE Clear(item) /\ UNCHANGED <<life, weak, ring, running>>
  /\ UNCHANGED <<trial, alive, jhTrash, loan, vm, pass>>

\* The end of a collection; the one that ends enter comes when every strand has.
\* The trial counts mean nothing until pass 1 sets them again.
EndCollect ==
  /\ Step("sweep", "idle") /\ trash = {}
  /\ trial' = [o \in Objects |-> 0]
  /\ vm' = IF vm = "draining" /\ running = {} THEN "out" ELSE vm
  /\ UNCHANGED <<heapVars, alive, trash, jhTrash, loan, busy, doomed>>

-----------------------------------------------------------------------------
(* The end of enter, and of the VM *)

\* enter: f has returned, the spawn channel is closed, and cancel_join_handles
\* pops the ring.
Leave ==
  /\ Step("idle", "cancel") /\ vm = "in" /\ loan.to # Main
  /\ vm' = "draining"
  /\ trash' = ring
  /\ UNCHANGED <<heapVars, trial, alive, jhTrash, loan, busy, doomed>>

\* The handles are cleared, the other objects moved to visited.
CancelJoinHandle(item) ==
  /\ pass = "cancel" /\ AtRest /\ item \in trash
  /\ trash' = trash \ {item}
  /\ IF item \in Strands
     THEN Clear(item) /\ UNCHANGED <<life, weak, ring, running>>
     ELSE UNCHANGED <<heapVars, busy, doomed>>
  /\ UNCHANGED <<trial, alive, jhTrash, loan, vm, pass>>

EndCancel ==
  /\ Step("cancel", "idle") /\ trash = {}
  /\ UNCHANGED <<heapVars, listVars, loan, vm, busy, doomed>>

Enter ==
  /\ pass = "idle" /\ AtRest /\ vm = "out"
  /\ vm' = "in"
  /\ UNCHANGED <<heapVars, listVars, loan, pass, busy, doomed>>

\* Drop for the VM, up to ArenaInner::clear.
Close ==
  /\ Step("idle", "close") /\ vm = "out"
  /\ vm' = "closed"
  /\ UNCHANGED <<heapVars, listVars, loan, busy, doomed>>

\* The items are unlinked and not cleared.
ClearArenaUnlinks(item) ==
  /\ pass = "close" /\ AtRest /\ item \in ring
  /\ ring' = ring \ {item}
  /\ UNCHANGED <<life, strong, weak, refs, running, attached, listVars, loan, vm, pass, busy, doomed>>

ClearArena(item) ==
  /\ pass = "close" /\ AtRest /\ item \in ring
  /\ ring' = ring \ {item}
  /\ Clear(item)
  /\ UNCHANGED <<life, weak, running, listVars, loan, vm, pass>>

EndClose ==
  /\ Step("close", "idle") /\ ring = {}
  /\ UNCHANGED <<heapVars, listVars, loan, vm, busy, doomed>>

-----------------------------------------------------------------------------
Init ==
  /\ life = [o \in Objects |-> "unborn"]
  /\ strong = [o \in Objects |-> 0]
  /\ weak = [o \in Objects |-> 0]
  /\ refs = {} /\ ring = {} /\ running = {} /\ attached = {}
  /\ loan = NoLoan /\ vm = "in" /\ pass = "idle"
  /\ trial = [o \in Objects |-> 0]
  /\ alive = {} /\ trash = {} /\ jhTrash = {}
  /\ busy = None /\ doomed = {}

Program ==
  \/ \E a \in Strands \cup {Main}, k \in Fields :
       \/ \E n \in Nodes, roots \in SUBSET Objects : New(a, k, n, roots)
       \/ \E s \in Strands, o \in Objects : Spawn(a, k, s, o)
       \/ \E x, o \in Objects : Load(a, k, x, o) \/ Store(a, k, x, o)
  \/ \E a \in Strands \cup {Main} :
       \/ \E r \in refs : Discard(a, r)
       \/ \E n \in Nodes, mut \in BOOLEAN : Borrow(a, n, mut)
       \/ Unborrow(a)
  \/ \E r \in refs : LetGo(r)
  \/ \E s \in Strands, result \in SUBSET Objects : Finish(s, result)

Next ==
  \/ Program
  \/ \E o \in Objects : Released(o)
  \/ Unhold
  \/ Collect \/ Subtract \/ Partition \/ Rescue \/ Condemn \/ EndCollect
  \/ \E item \in Objects : Spread(item) \/ Respread(item) \/ Sweep(item)
  \/ Leave \/ EndCancel \/ Enter \/ Close \/ EndClose
  \/ \E item \in Objects : CancelJoinHandle(item) \/ ClearArena(item)

Spec == Init /\ [][Next]_vars

-----------------------------------------------------------------------------
(* Properties *)

(* Every variable keeps its type; in particular no reference count of arena.rs
   falls below zero, whichever of its owners lets go first. *)
TypeOK ==
  /\ life \in [Objects -> {"unborn", "live", "dropped", "freed"}]
  /\ strong \in [Objects -> Nat] /\ weak \in [Objects -> Nat]
  /\ refs \subseteq Refs
  /\ ring \subseteq Objects
  /\ running \subseteq Strands /\ attached \subseteq Strands
  /\ loan \in [of : Nodes, to : Strands \cup {Main}, mut : BOOLEAN] \cup {NoLoan}
  /\ vm \in {"in", "draining", "out", "closed"} /\ pass \in Passes
  /\ trial \in [Objects -> Nat]
  /\ alive \subseteq Objects /\ trash \subseteq Objects /\ jhTrash \subseteq Strands
  /\ busy \in Objects \cup {None} /\ doomed \subseteq Objects

\* Header's counts are exact: strong is the number of references there are, with
\* the extra one of an object being cleared, and weak has one for all of them
\* together and one for the future of a strand.
CountsAreExact ==
  \A o \in Objects :
    /\ strong[o] = To(refs, o) + IF busy = o THEN 1 ELSE 0
    /\ weak[o] = (IF life[o] = "live" THEN 1 ELSE 0) + IF o \in running THEN 1 ELSE 0

\* Nothing is used after it was freed: every reference there is, every list the
\* collector pops from, and the item it is clearing, name objects whose contents
\* are still there, and only a live object is cleared or released again.
NothingDangles ==
  /\ \A r \in refs : life[r.to] = "live" /\ r.to \notin doomed
  /\ \A o \in ring \cup alive \cup trash \cup jhTrash \cup doomed : life[o] = "live"
  /\ busy # None => life[busy] = "live"

\* What follows from S through what the visitor is shown.
ReachedFrom(S) ==
  {o \in Objects : \A T \in SUBSET Objects : S \subseteq T /\ Kids(T) \subseteq T => o \in T}

\* What the program can still use: the host's values, and the stacks of the
\* strands that have not ended, cancelled or not.
InUse == ReachedFrom(UNION {Held(a) : a \in running \cup {Main}})

\* A collection takes nothing away from an object that the host or a strand that
\* still has to unwind can reach (the promise of passes 4 and 4.5: a program
\* does not find what it refers to mysteriously cleared).  What a strand that has
\* ended was started with is of use to nobody.
KeepsWhatIsInUse ==
  [][pass = "sweep" =>
       \A r \in refs \ refs' :
         r.by \in InUse => r.as = "start" /\ r.by \notin running]_vars

\* What keeps a strand from being orphaned: the host, and strands that are no
\* longer seen through their handles.
Rooted == ReachedFrom(UNION {Held(a) : a \in (running \ attached) \cup {Main}})

\* A collection cancels only strands whose handles nobody can get at but strands
\* that are orphans themselves (pass 4): the handles it is about to clear are
\* out of reach, through however many other handles and their stacks.
CancelsOnlyOrphans ==
  pass = "respread" => jhTrash \cap Rooted = {}

\* Pass 5 meets no borrowed item: "if something has an outstanding borrow, it
\* should also have an outstanding strong reference from outside the cycle".
NoClearIsDeferred ==
  pass = "sweep" => \A o \in trash : ~Borrowed(o)

\* A collection finds every node that neither the host nor a handle leads to, and
\* of the nodes it found none is left when the last item is done with, whatever
\* cycles they formed (passes 2 to 5).
GarbageGoes ==
  /\ pass = "respread" /\ alive = {} =>
       \A n \in Nodes : life[n] = "live" =>
         n \in trash \cup ReachedFrom({r.to : r \in {q \in refs : q.by \in Strands \cup {Main}}})
  /\ pass = "sweep" /\ trash = {} /\ AtRest =>
       \A n \in Nodes : life[n] = "live" => trial[n] # 0

\* When the VM is closed and the host has let go of everything, all that is left
\* is what the result of some strand leads to, a handle or a node: although
\* neither kind drops all it holds when it is cleared, ArenaInner::clear breaks
\* every cycle that does not pass a result.
CloseLeavesOnlyResults ==
  vm = "closed" /\ Quiet /\ (\A r \in refs : r.by # Main) =>
    \A o \in Objects :
      life[o] \in {"unborn", "freed"}
        \/ o \in ReachedFrom({r.to : r \in {q \in refs : q.as = "result"}})

\* The collection that ends enter, after every strand has ended, leaves only what
\* the host can reach (gc/mod.rs: clear zeroes all the strong references of an
\* object).
EnterLeavesNoGarbage ==
  vm = "draining" /\ running = {} /\ pass = "sweep" /\ trash = {} /\ AtRest =>
    \A o \in Objects : life[o] = "live" => o \in ReachedFrom(Held(Main))
=============================================================================
