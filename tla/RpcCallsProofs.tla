--------------------------- MODULE RpcCallsProofs ---------------------------
(***************************************************************************)
(* The calls of one connection, for any calls and any number of slots:     *)
(* neither end fails the other, a call in a slot is in exactly one place   *)
(* that will bring it to an end, and whoever waits has something to wait   *)
(* for.                                                                    *)
(***************************************************************************)
EXTENDS RpcCalls, FiniteSetTheorems, SequenceTheorems, TLAPS

(***************************************************************************)
(* The fragments of a message.                                             *)
(***************************************************************************)

\* What has been sent and not received, with what will be sent before
\* anything else, in each direction.
Up == c2s \o ccontrol
Down == s2c \o scontrol

Has(w, i, part) == \E k \in DOMAIN w : w[k].id = i /\ w[k].part = part

Parts == {"Begin", "Head", "Tail", "Abort"}

\* The order of a message's fragments; none comes twice.
Earlier(p, q) ==
  (p = "Begin" /\ q # "Begin") \/ (p = "Head" /\ q \in {"Tail", "Abort"})

InOrder(w, i) ==
  \A j, k \in DOMAIN w :
    (w[j].id = i /\ w[k].id = i /\ w[j].part \in Parts /\ w[k].part \in Parts /\ j < k)
      => Earlier(w[j].part, w[k].part)

\* Which fragments say that they are the first, when the reassembler has the
\* message as e.
Marked(w, i, e) ==
  \A k \in DOMAIN w : w[k].id = i =>
    /\ w[k].part = "Begin" => w[k].first
    /\ w[k].part = "Head" => (w[k].first <=> (e = "none" /\ ~Has(w, i, "Begin")))
    /\ w[k].part \notin {"Begin", "Head"} => ~w[k].first

\* What the fragments under way continue, with the message as e.
Continues(w, i, e, streams) ==
  /\ Has(w, i, "Begin") => e = "none"
  /\ Has(w, i, "Head") => e # "trailer"
  /\ Has(w, i, "Tail") => i \in streams /\ (e = "trailer" \/ Has(w, i, "Head"))
  /\ Has(w, i, "Abort") => e # "none" \/ Has(w, i, "Begin") \/ Has(w, i, "Head")
  /\ Has(w, i, "Abort") /\ Has(w, i, "Head") => i \in streams

\* And what they leave, for the scheduler to continue in the given phase.
Leads(w, i, phase, e, streams) ==
  /\ phase \in {"none", "queued", "discarded"} =>
       e = "none" /\ \A p \in Parts : ~Has(w, i, p)
  /\ phase = "started" =>
       /\ e = "payload" \/ Has(w, i, "Begin")
       /\ ~Has(w, i, "Head") /\ ~Has(w, i, "Tail") /\ ~Has(w, i, "Abort")
  /\ phase = "trailer" =>
       /\ i \in streams /\ (e = "trailer" \/ Has(w, i, "Head"))
       /\ ~Has(w, i, "Tail") /\ ~Has(w, i, "Abort")
  /\ phase = "sent" =>
       /\ ~Has(w, i, "Abort")
       /\ e = "payload" \/ Has(w, i, "Begin") => Has(w, i, "Head")
       /\ e = "trailer" \/ (Has(w, i, "Head") /\ i \in streams) => Has(w, i, "Tail")
  /\ phase = "aborted" =>
       /\ ~Has(w, i, "Tail")
       /\ e # "none" \/ Has(w, i, "Begin") \/ Has(w, i, "Head") => Has(w, i, "Abort")

Stream(w, i, phase, e, streams) ==
  /\ InOrder(w, i) /\ Marked(w, i, e)
  /\ Continues(w, i, e, streams) /\ Leads(w, i, phase, e, streams)

\* The requests, and the responses.
RequestStreams == \A i \in Calls : Stream(Up, i, csend[i], sin[i], ReqStreams)
ResponseStreams == \A i \in Calls : Stream(Down, i, rsend[i], cin[i], RespStreams)

\* Which fragments the control queues hold, and which come back at all.
OfParts(q, parts) == \A k \in DOMAIN q : q[k].part \in parts

ControlParts ==
  /\ OfParts(ccontrol, {"Abort", "Cancel"}) /\ OfParts(scontrol, {"Abort", "Error"})
  /\ OfParts(s2c, Parts \cup {"Error"})

-----------------------------------------------------------------------------
(***************************************************************************)
(* Where a call is.                                                        *)
(***************************************************************************)

Elements(s) == {s[k] : k \in DOMAIN s}
Distinct(s) == \A j, k \in DOMAIN s : s[j] = s[k] => j = k

Asked(i) == Queued("Request", i) \in Elements(cqueue)

\* A request passes the channel and the waiting queue once, before it is
\* scheduled.
RequestsOnce(q) == \A j, k \in DOMAIN q : q[j].part = "Request" /\ q[j] = q[k] => j = k

AskedOnce ==
  /\ RequestsOnce(cqueue)
  /\ Distinct(waiting)
  /\ \A i \in Calls :
       /\ call[i] \in {"new", "registered"} => csend[i] = "none" /\ ~Asked(i) /\ i \notin Elements(waiting)
       /\ Asked(i) => csend[i] = "none" /\ i \notin Elements(waiting)
       /\ i \in Elements(waiting) => csend[i] = "none"

\* Whether a queue holds one of these messages about call i, and not two.
Holds(q, i, parts) == \E k \in DOMAIN q : q[k].id = i /\ q[k].part \in parts
Once(q, i, parts) ==
  \A j, k \in DOMAIN q :
    (/\ q[j].id = i /\ q[j].part \in parts
     /\ q[k].id = i /\ q[k].part \in parts) => j = k

Answers == {"Response", "Error"}

\* The places that will bring a call to an end.
AtClient(i) == csend[i] \in {"queued", "started"}
Coming(i) == Has(Up, i, "Head")
AtServer(i) == i \in outstanding
Answered(i) == Holds(squeue, i, Answers)
Scheduled(i) == rsend[i] \in {"queued", "started"}
Returning(i) == Has(Down, i, "Head")
Failing(i) == Has(Down, i, "Error")
Aborting(i) == Has(Down, i, "Abort") /\ ~Has(Down, i, "Head") /\ cin[i] # "trailer"

\* A call is answered once.
AnsweredOnce(i) == Once(squeue, i, Answers) /\ Once(Down, i, {"Error"})

\* OneHolderPerSlot, and no such place for a call without a slot.
HeldOnce(i) ==
  One(AtClient(i)) + One(Coming(i)) + One(AtServer(i)) + One(Answered(i))
    + One(Scheduled(i)) + One(Returning(i)) + One(Failing(i)) + One(Aborting(i))
    = One(i \in active /\ ~Discarded(i))

\* A call has no slot before its request is scheduled, and no response before
\* it is answered with one; a handler runs for each outstanding call, and
\* none for one that is still arriving.
Dispatched(i) ==
  /\ csend[i] = "none" => i \notin active
  /\ (csend[i] = "none" \/ AtClient(i) \/ Coming(i) \/ AtServer(i) \/ Answered(i) \/ Failing(i))
       => rsend[i] = "none"
  /\ task[i] \in {"running", "told", "aborting"} <=> i \in outstanding
  /\ (Has(Up, i, "Begin") \/ sin[i] = "payload") => i \notin outstanding

\* The calls that the server may count when it has taken the first k of the
\* fragments w: the ones handed out, and the ones that have begun to arrive.
Counted(w, out, entries, k) ==
  {i \in Calls :
     \/ i \in out
     \/ \E j \in 1..k : w[j].id = i /\ w[j].part = "Head"
     \/ /\ entries[i] = "payload" \/ \E j \in 1..k : w[j].id = i /\ w[j].part = "Begin"
        /\ ~\E j \in 1..k : w[j].id = i /\ w[j].part = "Abort"}

\* No fragment of a request's payload meets more calls than there are slots.
Fits(w, out, entries) ==
  \A k \in DOMAIN w :
    w[k].part \in {"Begin", "Head"} =>
      Cardinality(Counted(w, out, entries, k - 1) \cup {w[k].id}) <= MaxCalls

Admissible == Fits(Up, outstanding, sin)

\* The parts of the invariant, each inductive with those before it.  Nothing is
\* said of a connection that is lost.
BaseInv == TypeOK /\ AskedOnce
RequestInv == link = "up" => RequestStreams
HeldInv ==
  link = "up" =>
    /\ ControlParts /\ ResponseStreams
    /\ \A i \in Calls : AnsweredOnce(i) /\ HeldOnce(i) /\ Dispatched(i)
AdmitInv == link = "up" => Admissible

CallInv == BaseInv /\ RequestInv /\ HeldInv /\ AdmitInv /\ PeersConform

-----------------------------------------------------------------------------
(***************************************************************************)
(* A message and its fragments, in either direction.                       *)
(***************************************************************************)

\* The places of a sequence that has grown by one, or lost its first.
LEMMA AppendPlaces ==
  ASSUME NEW S, NEW w \in Seq(S), NEW f \in S
  PROVE  /\ Append(w, f) \in Seq(S) /\ Len(w) \in Nat /\ DOMAIN w = 1..Len(w)
         /\ DOMAIN Append(w, f) = 1..(Len(w) + 1)
         /\ Append(w, f)[Len(w) + 1] = f
         /\ \A k \in DOMAIN w : Append(w, f)[k] = w[k]
OBVIOUS

LEMMA TailPlaces ==
  ASSUME NEW S, NEW w \in Seq(S), w # <<>>
  PROVE  /\ Tail(w) \in Seq(S) /\ Len(w) \in Nat /\ Len(w) >= 1 /\ DOMAIN w = 1..Len(w)
         /\ DOMAIN Tail(w) = 1..(Len(w) - 1)
         /\ Head(w) = w[1] /\ Head(w) \in S
         /\ \A k \in DOMAIN Tail(w) : Tail(w)[k] = w[k + 1]
OBVIOUS

LEMMA HasAppend ==
  ASSUME NEW w \in Seq(Fragments), NEW f \in Fragments, NEW i, NEW p
  PROVE  Has(Append(w, f), i, p) <=> (Has(w, i, p) \/ (f.id = i /\ f.part = p))
<1> DEFINE v == Append(w, f)
<1>1. /\ Len(w) \in Nat /\ DOMAIN w = 1..Len(w) /\ DOMAIN v = 1..(Len(w) + 1)
      /\ v[Len(w) + 1] = f /\ \A k \in DOMAIN w : v[k] = w[k]
  BY AppendPlaces
<1> HIDE DEF v
<1>2. (\E k \in DOMAIN v : v[k].id = i /\ v[k].part = p)
        <=> ((\E k \in DOMAIN w : w[k].id = i /\ w[k].part = p) \/ (f.id = i /\ f.part = p))
  BY <1>1
<1> QED BY <1>2 DEF Has, v

LEMMA HasTail ==
  ASSUME NEW w \in Seq(Fragments), w # <<>>, NEW i, NEW p
  PROVE  /\ Has(w, i, p) <=> (Has(Tail(w), i, p) \/ (Head(w).id = i /\ Head(w).part = p))
         /\ (InOrder(w, i) /\ p \in Parts /\ Head(w).id = i /\ Head(w).part = p)
              => ~Has(Tail(w), i, p)
<1> DEFINE v == Tail(w)
<1>1. /\ Len(w) \in Nat /\ Len(w) >= 1 /\ DOMAIN w = 1..Len(w)
      /\ DOMAIN v = 1..(Len(w) - 1) /\ Head(w) = w[1]
      /\ \A k \in DOMAIN v : v[k] = w[k + 1]
  BY TailPlaces
<1> HIDE DEF v
<1>2. \A k \in DOMAIN w : k = 1 \/ (k - 1 \in DOMAIN v /\ v[k - 1] = w[k])
  BY <1>1
<1>3. \A k \in DOMAIN v : k + 1 \in DOMAIN w /\ 1 < k + 1 /\ 1 \in DOMAIN w
  BY <1>1
<1>4. Has(w, i, p) <=> (Has(v, i, p) \/ (Head(w).id = i /\ Head(w).part = p))
  <2>1. ASSUME Has(w, i, p) PROVE Has(v, i, p) \/ (Head(w).id = i /\ Head(w).part = p)
    <3> PICK k \in DOMAIN w : w[k].id = i /\ w[k].part = p
      BY <2>1 DEF Has
    <3> QED BY <1>1, <1>2 DEF Has
  <2>2. ASSUME Has(v, i, p) PROVE Has(w, i, p)
    <3> PICK k \in DOMAIN v : v[k].id = i /\ v[k].part = p
      BY <2>2 DEF Has
    <3> QED BY <1>1, <1>3 DEF Has
  <2>3. ASSUME Head(w).id = i /\ Head(w).part = p PROVE Has(w, i, p)
    BY <1>1, <2>3 DEF Has
  <2> QED BY <2>1, <2>2, <2>3
<1>5. ASSUME InOrder(w, i), p \in Parts, Head(w).id = i, Head(w).part = p, Has(v, i, p)
      PROVE  FALSE
  <2> PICK k \in DOMAIN v : v[k].id = i /\ v[k].part = p
    BY <1>5 DEF Has
  <2>1. w[1].id = i /\ w[k + 1].id = i /\ w[1].part = p /\ w[k + 1].part = p
    BY <1>1, <1>5
  <2>2. Earlier(p, p)
    BY <2>1, <1>3, <1>5 DEF InOrder
  <2> QED BY <2>2, <1>5 DEF Earlier, Parts
<1> QED BY <1>4, <1>5 DEF v

\* Order and marks of a sequence that has grown.
LEMMA OrderAppend ==
  ASSUME NEW w \in Seq(Fragments), NEW f \in Fragments, NEW i, InOrder(w, i),
         (f.id = i /\ f.part \in Parts)
           => \A p \in Parts : Has(w, i, p) => Earlier(p, f.part)
  PROVE  InOrder(Append(w, f), i)
<1> DEFINE v == Append(w, f)
<1>1. /\ Len(w) \in Nat /\ DOMAIN w = 1..Len(w) /\ DOMAIN v = 1..(Len(w) + 1)
      /\ v[Len(w) + 1] = f /\ \A k \in DOMAIN w : v[k] = w[k]
  BY AppendPlaces
<1> HIDE DEF v
<1>2. SUFFICES ASSUME NEW j \in DOMAIN v, NEW k \in DOMAIN v, v[j].id = i, v[k].id = i,
                      v[j].part \in Parts, v[k].part \in Parts, j < k
               PROVE  Earlier(v[j].part, v[k].part)
  BY DEF InOrder, v
<1>3. j \in DOMAIN w /\ v[j] = w[j]
  BY <1>1, <1>2
<1>4. CASE k \in DOMAIN w
  BY <1>1, <1>2, <1>3, <1>4 DEF InOrder
<1>5. CASE k \notin DOMAIN w
  <2>1. v[k] = f
    BY <1>1, <1>5
  <2>2. Has(w, i, v[j].part)
    BY <1>2, <1>3 DEF Has
  <2> QED BY <1>2, <2>1, <2>2
<1> QED BY <1>4, <1>5

LEMMA OrderTail ==
  ASSUME NEW w \in Seq(Fragments), w # <<>>, NEW i, InOrder(w, i)
  PROVE  InOrder(Tail(w), i)
<1> DEFINE v == Tail(w)
<1>1. /\ Len(w) \in Nat /\ Len(w) >= 1 /\ DOMAIN w = 1..Len(w)
      /\ DOMAIN v = 1..(Len(w) - 1)
      /\ \A k \in DOMAIN v : v[k] = w[k + 1]
  BY TailPlaces
<1> HIDE DEF v
<1>2. SUFFICES ASSUME NEW j \in DOMAIN v, NEW k \in DOMAIN v, v[j].id = i, v[k].id = i,
                      v[j].part \in Parts, v[k].part \in Parts, j < k
               PROVE  Earlier(v[j].part, v[k].part)
  BY DEF InOrder, v
<1>3. j + 1 \in DOMAIN w /\ k + 1 \in DOMAIN w /\ j + 1 < k + 1 /\ v[j] = w[j + 1] /\ v[k] = w[k + 1]
  BY <1>1, <1>2
<1> QED BY <1>2, <1>3 DEF InOrder

\* What follows the head of a message's fragments.
LEMMA OrderHead ==
  ASSUME NEW w \in Seq(Fragments), w # <<>>, NEW i, InOrder(w, i),
         Head(w).id = i, Head(w).part \in Parts, NEW p \in Parts, Has(Tail(w), i, p)
  PROVE  Earlier(Head(w).part, p)
<1> DEFINE v == Tail(w)
<1>1. /\ Len(w) \in Nat /\ Len(w) >= 1 /\ DOMAIN w = 1..Len(w)
      /\ DOMAIN v = 1..(Len(w) - 1) /\ Head(w) = w[1]
      /\ \A k \in DOMAIN v : v[k] = w[k + 1]
  BY TailPlaces
<1> HIDE DEF v
<1>2. PICK k \in DOMAIN v : v[k].id = i /\ v[k].part = p
  BY DEF Has, v
<1>3. 1 \in DOMAIN w /\ k + 1 \in DOMAIN w /\ 1 < k + 1 /\ v[k] = w[k + 1]
  BY <1>1
<1> QED BY <1>1, <1>2, <1>3 DEF InOrder


\* A fragment that is not the message's, or not a part of one.
LEMMA StreamOther ==
  ASSUME NEW w \in Seq(Fragments), NEW f \in Fragments, NEW i, NEW phase, NEW e, NEW streams,
         Stream(w, i, phase, e, streams),
         f.id # i \/ (f.part \notin Parts /\ ~f.first)
  PROVE  Stream(Append(w, f), i, phase, e, streams)
<1> DEFINE v == Append(w, f)
<1>1. /\ Len(w) \in Nat /\ DOMAIN w = 1..Len(w) /\ DOMAIN v = 1..(Len(w) + 1)
      /\ v[Len(w) + 1] = f /\ \A k \in DOMAIN w : v[k] = w[k]
  BY AppendPlaces
<1>2. \A p \in Parts : Has(v, i, p) <=> Has(w, i, p)
  BY HasAppend
<1>3. InOrder(v, i)
  BY OrderAppend DEF Stream
<1> HIDE DEF v
<1>4. Marked(v, i, e)
  <2> SUFFICES ASSUME NEW k \in DOMAIN v, v[k].id = i
               PROVE  /\ v[k].part = "Begin" => v[k].first
                      /\ v[k].part = "Head" => (v[k].first <=> (e = "none" /\ ~Has(v, i, "Begin")))
                      /\ v[k].part \notin {"Begin", "Head"} => ~v[k].first
    BY DEF Marked
  <2>1. CASE k \in DOMAIN w
    <3>1. v[k] = w[k] /\ (Has(v, i, "Begin") <=> Has(w, i, "Begin"))
      BY <1>1, <1>2, <2>1 DEF Parts
    <3> QED BY <3>1, <2>1 DEF Stream, Marked
  <2>2. CASE k \notin DOMAIN w
    <3>1. v[k] = f
      BY <1>1, <2>2
    <3> QED BY <3>1 DEF Parts
  <2> QED BY <2>1, <2>2
<1>5. Continues(v, i, e, streams) /\ Leads(v, i, phase, e, streams)
  BY <1>2 DEF Stream, Continues, Leads, Parts
<1> QED BY <1>3, <1>4, <1>5 DEF Stream, v

\* The fragment of each phase and the phase it leads to.
Advances(i, phase, streams, step) ==
  LET f == step.fragment
      after == IF i \in streams THEN "trailer" ELSE "sent"
  IN  /\ f \in Fragments /\ f.id = i /\ f.part \in Parts /\ step.phase \in SendPhases
      /\ \/ phase = "queued" /\ f.part = "Begin" /\ f.first = TRUE /\ step.phase = "started"
         \/ phase = "queued" /\ f.part = "Head" /\ f.first = TRUE /\ step.phase = after
         \/ phase = "started" /\ f.part = "Head" /\ f.first = FALSE /\ step.phase = after
         \/ phase = "trailer" /\ f.part = "Tail" /\ f.first = FALSE /\ step.phase = "sent"

LEMMA StepTypes ==
  ASSUME NEW i \in Calls, NEW phase, NEW streams, NEW step \in Steps(i, phase, streams)
  PROVE  Advances(i, phase, streams, step)
<1> DEFINE f == step.fragment
           after == IF i \in streams THEN "trailer" ELSE "sent"
<1>0. \/ phase = "queued" /\ step = [fragment |-> Fragment("Begin", i, TRUE), phase |-> "started"]
      \/ phase = "queued" /\ step = [fragment |-> Fragment("Head", i, TRUE), phase |-> after]
      \/ phase = "started" /\ step = [fragment |-> Fragment("Head", i, FALSE), phase |-> after]
      \/ phase = "trailer" /\ step = [fragment |-> Fragment("Tail", i, FALSE), phase |-> "sent"]
  BY DEF Steps, Control
<1>1. /\ f \in Fragments /\ f.id = i /\ f.part \in Parts /\ step.phase \in SendPhases
      /\ \/ phase = "queued" /\ f.part = "Begin" /\ f.first = TRUE /\ step.phase = "started"
         \/ phase = "queued" /\ f.part = "Head" /\ f.first = TRUE /\ step.phase = after
         \/ phase = "started" /\ f.part = "Head" /\ f.first = FALSE /\ step.phase = after
         \/ phase = "trailer" /\ f.part = "Tail" /\ f.first = FALSE /\ step.phase = "sent"
  <2>0. after \in SendPhases
    BY DEF SendPhases
  <2> HIDE DEF after
  <2>1. ASSUME NEW part \in Parts, NEW first \in BOOLEAN, NEW ph \in SendPhases,
               step = [fragment |-> Fragment(part, i, first), phase |-> ph]
        PROVE  /\ f \in Fragments /\ f.id = i /\ f.part = part /\ f.first = first
               /\ step.phase = ph
    BY <2>1 DEF Fragment, Fragments, Parts
  <2>2. CASE phase = "queued" /\ step = [fragment |-> Fragment("Begin", i, TRUE), phase |-> "started"]
    BY <2>1, <2>2 DEF Parts, SendPhases
  <2>3. CASE phase = "queued" /\ step = [fragment |-> Fragment("Head", i, TRUE), phase |-> after]
    BY <2>0, <2>1, <2>3 DEF Parts
  <2>4. CASE phase = "started" /\ step = [fragment |-> Fragment("Head", i, FALSE), phase |-> after]
    BY <2>0, <2>1, <2>4 DEF Parts
  <2>5. CASE phase = "trailer" /\ step = [fragment |-> Fragment("Tail", i, FALSE), phase |-> "sent"]
    BY <2>1, <2>5 DEF Parts, SendPhases
  <2> QED BY <1>0, <2>2, <2>3, <2>4, <2>5
<1> QED BY <1>1 DEF Advances

\* advance: the next fragment of a message.
LEMMA StreamStep ==
  ASSUME NEW w \in Seq(Fragments), NEW i \in Calls, NEW phase, NEW e, NEW streams,
         Stream(w, i, phase, e, streams), NEW step \in Steps(i, phase, streams)
  PROVE  /\ step.fragment \in Fragments /\ step.fragment.id = i /\ step.phase \in SendPhases
         /\ step.fragment.part \in Parts
         /\ phase \in {"queued", "started", "trailer"}
         /\ Stream(Append(w, step.fragment), i, step.phase, e, streams)
<1> DEFINE f == step.fragment
           v == Append(w, f)
           after == IF i \in streams THEN "trailer" ELSE "sent"
<1>0. Advances(i, phase, streams, step)
  BY StepTypes
<1>1. /\ f \in Fragments /\ f.id = i /\ f.part \in Parts /\ step.phase \in SendPhases
      /\ \/ phase = "queued" /\ f.part = "Begin" /\ f.first = TRUE /\ step.phase = "started"
         \/ phase = "queued" /\ f.part = "Head" /\ f.first = TRUE /\ step.phase = after
         \/ phase = "started" /\ f.part = "Head" /\ f.first = FALSE /\ step.phase = after
         \/ phase = "trailer" /\ f.part = "Tail" /\ f.first = FALSE /\ step.phase = "sent"
  BY <1>0 DEF Advances
<1>2. /\ f \in Fragments /\ f.id = i /\ step.phase \in SendPhases /\ f.part \in Parts
      /\ phase \in {"queued", "started", "trailer"}
  BY <1>1
<1>3. \/ phase = "queued" /\ f.part = "Begin" /\ f.first = TRUE /\ step.phase = "started"
      \/ phase = "queued" /\ f.part = "Head" /\ f.first = TRUE /\ step.phase = after
      \/ phase = "started" /\ f.part = "Head" /\ f.first = FALSE /\ step.phase = after
      \/ phase = "trailer" /\ f.part = "Tail" /\ f.first = FALSE /\ step.phase = "sent"
  BY <1>1
<1> HIDE DEF f
<1>4. /\ Len(w) \in Nat /\ DOMAIN w = 1..Len(w) /\ DOMAIN v = 1..(Len(w) + 1)
      /\ v[Len(w) + 1] = f /\ \A k \in DOMAIN w : v[k] = w[k]
  BY <1>2, AppendPlaces
<1>5. \A p \in Parts : Has(v, i, p) <=> (Has(w, i, p) \/ f.part = p)
  BY <1>2, HasAppend
<1>6. InOrder(v, i)
  <2>1. \A p \in Parts : Has(w, i, p) => Earlier(p, f.part)
    BY <1>3 DEF Stream, Leads, Earlier, Parts
  <2> QED BY <1>2, <2>1, OrderAppend DEF Stream
<1>7. (e = "none" /\ ~Has(w, i, "Begin")) <=> phase = "queued" \/ (phase = "trailer" /\ e = "none" /\ ~Has(w, i, "Begin"))
  BY <1>3 DEF Stream, Leads, Continues, Parts
<1> HIDE DEF v
<1>8. Marked(v, i, e)
  <2> SUFFICES ASSUME NEW k \in DOMAIN v, v[k].id = i
               PROVE  /\ v[k].part = "Begin" => v[k].first
                      /\ v[k].part = "Head" => (v[k].first <=> (e = "none" /\ ~Has(v, i, "Begin")))
                      /\ v[k].part \notin {"Begin", "Head"} => ~v[k].first
    BY DEF Marked
  <2>1. CASE k \in DOMAIN w
    <3>1. v[k] = w[k]
      BY <1>4, <2>1
    <3>2. v[k].part \in Parts => Has(w, i, v[k].part)
      BY <3>1, <2>1 DEF Has
    <3>3. CASE v[k].part = "Head"
      <4>1. f.part # "Begin"
        BY <1>3, <3>2, <3>3 DEF Stream, Leads, Parts
      <4>2. Has(v, i, "Begin") <=> Has(w, i, "Begin")
        BY <4>1, <1>5 DEF Parts
      <4> QED BY <3>1, <3>3, <4>2, <2>1 DEF Stream, Marked
    <3>4. CASE v[k].part # "Head"
      BY <3>1, <3>4, <2>1 DEF Stream, Marked
    <3> QED BY <3>3, <3>4
  <2>2. CASE k \notin DOMAIN w
    <3>1. v[k] = f
      BY <1>4, <2>2
    <3>2. f.part = "Head" => (Has(v, i, "Begin") <=> Has(w, i, "Begin"))
      BY <1>5 DEF Parts
    <3> QED BY <3>1, <3>2, <1>3, <1>7
  <2> QED BY <2>1, <2>2
<1>9. Continues(v, i, e, streams)
  BY <1>3, <1>5 DEF Stream, Continues, Leads, Parts
<1>10. Leads(v, i, step.phase, e, streams)
  BY <1>3, <1>5 DEF Stream, Continues, Leads, Parts
<1>11. Stream(v, i, step.phase, e, streams)
  BY <1>6, <1>8, <1>9, <1>10 DEF Stream
<1> QED BY <1>2, <1>11 DEF f, v

\* An ABORT for what was sent of a message.
LEMMA StreamAbort ==
  ASSUME NEW w \in Seq(Fragments), NEW i \in Calls, NEW phase \in {"started", "trailer"},
         NEW e, NEW streams, Stream(w, i, phase, e, streams)
  PROVE  /\ Control("Abort", i) \in Fragments
         /\ Stream(Append(w, Control("Abort", i)), i, "aborted", e, streams)
<1> DEFINE f == Control("Abort", i)
           v == Append(w, f)
<1>2. f \in Fragments /\ f.id = i /\ f.part = "Abort" /\ f.first = FALSE
  BY DEF Control, Fragment, Fragments
<1> HIDE DEF f
<1>4. /\ Len(w) \in Nat /\ DOMAIN w = 1..Len(w) /\ DOMAIN v = 1..(Len(w) + 1)
      /\ v[Len(w) + 1] = f /\ \A k \in DOMAIN w : v[k] = w[k]
  BY <1>2, AppendPlaces
<1>5. \A p \in Parts : Has(v, i, p) <=> (Has(w, i, p) \/ f.part = p)
  BY <1>2, HasAppend
<1>6. InOrder(v, i)
  <2>1. \A p \in Parts : Has(w, i, p) => Earlier(p, f.part)
    BY <1>2 DEF Stream, Leads, Earlier, Parts
  <2> QED BY <1>2, <2>1, OrderAppend DEF Stream
<1> HIDE DEF v
<1>7. Has(v, i, "Begin") <=> Has(w, i, "Begin")
  BY <1>5, <1>2 DEF Parts
<1>8. Marked(v, i, e)
  <2> SUFFICES ASSUME NEW k \in DOMAIN v, v[k].id = i
               PROVE  /\ v[k].part = "Begin" => v[k].first
                      /\ v[k].part = "Head" => (v[k].first <=> (e = "none" /\ ~Has(v, i, "Begin")))
                      /\ v[k].part \notin {"Begin", "Head"} => ~v[k].first
    BY DEF Marked
  <2>1. CASE k \in DOMAIN w
    <3>1. v[k] = w[k]
      BY <1>4, <2>1
    <3> QED BY <1>7, <3>1, <2>1 DEF Stream, Marked
  <2>2. CASE k \notin DOMAIN w
    BY <1>2, <1>4, <2>2
  <2> QED BY <2>1, <2>2
<1>9. Continues(v, i, e, streams) /\ Leads(v, i, "aborted", e, streams)
  BY <1>2, <1>5 DEF Stream, Continues, Leads, Parts
<1> QED BY <1>2, <1>6, <1>8, <1>9 DEF Stream, f, v

\* The receiver takes a fragment of another message, or one that is no part
\* of a message.
LEMMA StreamSkip ==
  ASSUME NEW w \in Seq(Fragments), w # <<>>, NEW i, NEW phase, NEW e, NEW streams,
         Stream(w, i, phase, e, streams),
         Head(w).id # i \/ Head(w).part \notin Parts
  PROVE  Stream(Tail(w), i, phase, e, streams)
<1> DEFINE v == Tail(w)
<1>1. /\ Len(w) \in Nat /\ Len(w) >= 1 /\ DOMAIN w = 1..Len(w)
      /\ DOMAIN v = 1..(Len(w) - 1)
      /\ \A k \in DOMAIN v : v[k] = w[k + 1]
  BY TailPlaces
<1>2. \A p \in Parts : Has(v, i, p) <=> Has(w, i, p)
  BY HasTail
<1>3. InOrder(v, i)
  BY OrderTail DEF Stream
<1> HIDE DEF v
<1>4. Marked(v, i, e)
  <2> SUFFICES ASSUME NEW k \in DOMAIN v, v[k].id = i
               PROVE  /\ v[k].part = "Begin" => v[k].first
                      /\ v[k].part = "Head" => (v[k].first <=> (e = "none" /\ ~Has(v, i, "Begin")))
                      /\ v[k].part \notin {"Begin", "Head"} => ~v[k].first
    BY DEF Marked
  <2>1. v[k] = w[k + 1] /\ k + 1 \in DOMAIN w /\ (Has(v, i, "Begin") <=> Has(w, i, "Begin"))
    BY <1>1, <1>2 DEF Parts
  <2> QED BY <2>1 DEF Stream, Marked
<1>5. Continues(v, i, e, streams) /\ Leads(v, i, phase, e, streams)
  BY <1>2 DEF Stream, Continues, Leads, Parts
<1> QED BY <1>3, <1>4, <1>5 DEF Stream, v

\* Reassembler::accept: the next fragment of a message fits it, and leaves it
\* so that those that follow do.
After(f, streams) ==
  CASE f.part = "Begin" -> "payload"
    [] f.part = "Head" /\ f.id \in streams -> "trailer"
    [] OTHER -> "none"

LEMMA StreamAccept ==
  ASSUME NEW w \in Seq(Fragments), w # <<>>, NEW i, NEW phase \in SendPhases,
         NEW e \in EntryPhases, NEW streams, Stream(w, i, phase, e, streams),
         Head(w).id = i, Head(w).part \in Parts
  PROVE  /\ Head(w).first => e = "none" /\ Head(w).part \in {"Begin", "Head"}
         /\ Head(w).part \in {"Begin", "Head"} /\ ~Head(w).first => e = "payload"
         /\ Head(w).part = "Tail" => e = "trailer"
         /\ Head(w).part = "Abort" => e # "none"
         /\ Stream(Tail(w), i, phase, After(Head(w), streams), streams)
<1> DEFINE v == Tail(w)
           f == Head(w)
           d == After(f, streams)
<1>1. /\ Len(w) \in Nat /\ Len(w) >= 1 /\ DOMAIN w = 1..Len(w)
      /\ DOMAIN v = 1..(Len(w) - 1) /\ f = w[1] /\ f \in Fragments
      /\ \A k \in DOMAIN v : v[k] = w[k + 1]
  BY TailPlaces
<1>2. \A p \in Parts : Has(w, i, p) <=> (Has(v, i, p) \/ f.part = p)
  BY HasTail
<1>3. ~Has(v, i, f.part)
  BY HasTail DEF Stream
<1>4. \A p \in Parts : Has(v, i, p) => Earlier(f.part, p)
  BY OrderHead DEF Stream
<1>5. InOrder(v, i)
  BY OrderTail DEF Stream
<1>6. /\ d \in EntryPhases /\ f.part \in Parts /\ f.id = i /\ f.first \in BOOLEAN
      /\ f.part = "Begin" => d = "payload"
      /\ f.part = "Head" => d = (IF i \in streams THEN "trailer" ELSE "none")
      /\ f.part \in {"Tail", "Abort"} => d = "none"
  BY <1>1 DEF After, EntryPhases, Parts, Fragments
<1> HIDE DEF v, f, d
<1>7. /\ f.part = "Begin" => f.first
      /\ f.part = "Head" => (f.first <=> (e = "none" /\ ~Has(w, i, "Begin")))
      /\ f.part \notin {"Begin", "Head"} => ~f.first
  <2>1. 1 \in DOMAIN w /\ w[1].id = i
    BY <1>1, <1>6
  <2> QED BY <1>1, <2>1 DEF Stream, Marked
<1>8. /\ ~Has(v, i, "Begin")
      /\ f.part # "Begin" => ~Has(v, i, "Head")
      /\ f.part \in {"Tail", "Abort"} => ~Has(v, i, "Tail") /\ ~Has(v, i, "Abort")
  BY <1>4, <1>6 DEF Earlier, Parts
<1>9. /\ f.first => e = "none" /\ f.part \in {"Begin", "Head"}
      /\ f.part \in {"Begin", "Head"} /\ ~f.first => e = "payload"
      /\ f.part = "Tail" => e = "trailer"
      /\ f.part = "Abort" => e # "none"
  <2>1. /\ Has(w, i, "Begin") <=> f.part = "Begin"
        /\ Has(w, i, "Head") <=> (Has(v, i, "Head") \/ f.part = "Head")
        /\ f.part = "Tail" => Has(w, i, "Tail")
        /\ f.part = "Abort" => Has(w, i, "Abort")
    BY <1>2, <1>8 DEF Parts
  <2>2. f.part = "Begin" => e = "none"
    BY <2>1 DEF Stream, Continues
  <2>3. f.part = "Head" => e # "trailer"
    BY <2>1 DEF Stream, Continues
  <2>4. f.part = "Tail" => e = "trailer"
    BY <2>1, <1>2, <1>8 DEF Stream, Continues, Parts
  <2>5. f.part = "Abort" => e # "none"
    BY <2>1, <1>2, <1>8 DEF Stream, Continues, Parts
  <2> QED BY <1>7, <2>1, <2>2, <2>3, <2>4, <2>5, <1>6 DEF EntryPhases, Parts
<1>10. Marked(v, i, d)
  <2> SUFFICES ASSUME NEW k \in DOMAIN v, v[k].id = i
               PROVE  /\ v[k].part = "Begin" => v[k].first
                      /\ v[k].part = "Head" => (v[k].first <=> (d = "none" /\ ~Has(v, i, "Begin")))
                      /\ v[k].part \notin {"Begin", "Head"} => ~v[k].first
    BY DEF Marked
  <2>1. v[k] = w[k + 1] /\ k + 1 \in DOMAIN w
    BY <1>1
  <2>2. CASE v[k].part = "Head"
    <3>1. f.part = "Begin"
      <4>1. Has(v, i, "Head")
        BY <2>2 DEF Has
      <4> QED BY <4>1, <1>8
    <3>2. Has(w, i, "Begin")
      BY <3>1, <1>2 DEF Parts
    <3>3. ~v[k].first
      BY <2>1, <2>2, <3>2 DEF Stream, Marked
    <3> QED BY <2>2, <3>1, <3>3, <1>6
  <2>3. CASE v[k].part # "Head"
    BY <2>1, <2>3 DEF Stream, Marked
  <2> QED BY <2>2, <2>3
<1>11. Continues(v, i, d, streams)
  BY <1>2, <1>3, <1>6, <1>8, <1>9 DEF Stream, Continues, Leads, Parts, EntryPhases
<1>12. Leads(v, i, phase, d, streams)
  BY <1>2, <1>3, <1>6, <1>8, <1>9 DEF Stream, Continues, Leads, Parts, EntryPhases, SendPhases
<1> QED BY <1>5, <1>9, <1>10, <1>11, <1>12 DEF Stream, v, f, d


-----------------------------------------------------------------------------
(***************************************************************************)
(* The waiting queue and its promotion.                                    *)
(***************************************************************************)

LEMMA ConcatDistinct ==
  ASSUME NEW s \in Seq(Calls), NEW t \in Seq(Calls), Distinct(s), Distinct(t),
         Elements(s) \cap Elements(t) = {}
  PROVE  /\ s \o t \in Seq(Calls) /\ Distinct(s \o t)
         /\ Elements(s \o t) = Elements(s) \cup Elements(t)
<1> DEFINE n == Len(s)
           k == Len(t)
           c == s \o t
<1>1. /\ n \in Nat /\ k \in Nat /\ DOMAIN s = 1..n /\ DOMAIN t = 1..k
      /\ c \in Seq(Calls) /\ Len(c) = n + k /\ DOMAIN c = 1..(n + k)
  OBVIOUS
<1>2. \A i \in 1..(n + k) : \/ i \in 1..n /\ c[i] = s[i]
                            \/ i - n \in 1..k /\ c[i] = t[i - n] /\ ~(i \in 1..n)
  OBVIOUS
<1>3. /\ \A i \in 1..n : i \in 1..(n + k) /\ c[i] = s[i]
      /\ \A i \in 1..k : i + n \in 1..(n + k) /\ c[i + n] = t[i]
  OBVIOUS
<1> HIDE DEF n, k, c
<1>4. Elements(c) = Elements(s) \cup Elements(t)
  <2>1. Elements(c) \subseteq Elements(s) \cup Elements(t)
    BY <1>1, <1>2 DEF Elements
  <2>2. Elements(s) \subseteq Elements(c)
    BY <1>1, <1>3 DEF Elements
  <2>3. Elements(t) \subseteq Elements(c)
    BY <1>1, <1>3 DEF Elements
  <2> QED BY <2>1, <2>2, <2>3
<1>5. Distinct(c)
  <2> SUFFICES ASSUME NEW i \in DOMAIN c, NEW j \in DOMAIN c, c[i] = c[j] PROVE i = j
    BY DEF Distinct
  <2>1. i \in Int /\ j \in Int
    BY <1>1
  <2>2. CASE i \in 1..n /\ j \in 1..n
    BY <1>1, <1>3, <2>2 DEF Distinct
  <2>3. CASE i - n \in 1..k /\ c[i] = t[i - n] /\ j - n \in 1..k /\ c[j] = t[j - n]
    <3>1. i - n = j - n
      BY <1>1, <2>3 DEF Distinct
    <3> QED BY <1>1, <2>1, <3>1
  <2>4. ASSUME NEW x \in 1..n, NEW y \in 1..k, s[x] = t[y] PROVE FALSE
    BY <1>1, <2>4 DEF Elements
  <2> QED BY <1>1, <1>2, <2>2, <2>3, <2>4
<1> QED BY <1>1, <1>4, <1>5 DEF c

LEMMA OneDistinct ==
  ASSUME NEW m \in Calls
  PROVE  <<m>> \in Seq(Calls) /\ Distinct(<<m>>) /\ Elements(<<m>>) = {m}
BY DEF Distinct, Elements

LEMMA AppendDistinct ==
  ASSUME NEW s \in Seq(Calls), Distinct(s), NEW m \in Calls, m \notin Elements(s)
  PROVE  /\ Append(s, m) \in Seq(Calls) /\ Distinct(Append(s, m))
         /\ Elements(Append(s, m)) = Elements(s) \cup {m}
<1>1. Append(s, m) = s \o <<m>>
  BY AppendIsConcat
<1>2. Elements(s) \cap Elements(<<m>>) = {}
  BY OneDistinct
<1> QED BY <1>1, <1>2, OneDistinct, ConcatDistinct

\* A part of a queue.
LEMMA PartDistinct ==
  ASSUME NEW s \in Seq(Calls), Distinct(s), NEW a \in 1..(Len(s) + 1),
         NEW b \in 0..Len(s)
  PROVE  /\ SubSeq(s, a, b) \in Seq(Calls) /\ Distinct(SubSeq(s, a, b))
         /\ Elements(SubSeq(s, a, b)) = {s[i] : i \in a..b}
<1> DEFINE t == SubSeq(s, a, b)
<1>1. Len(s) \in Nat /\ DOMAIN s = 1..Len(s) /\ a \in Nat /\ b \in Nat /\ a..b \subseteq 1..Len(s)
  OBVIOUS
<1>2. /\ t \in Seq(Calls) /\ Len(t) = IF a <= b THEN b - a + 1 ELSE 0
      /\ \A i \in 1..(b - a + 1) : t[i] = s[a + i - 1]
  BY <1>1, SubSeqProperties
<1>3. DOMAIN t = 1..(b - a + 1)
  BY <1>1, <1>2
<1> HIDE DEF t
<1>4. Distinct(t)
  <2> SUFFICES ASSUME NEW i \in DOMAIN t, NEW j \in DOMAIN t, t[i] = t[j] PROVE i = j
    BY DEF Distinct
  <2>1. i \in Int /\ j \in Int /\ a + i - 1 \in a..b /\ a + j - 1 \in a..b
    BY <1>1, <1>3
  <2>2. s[a + i - 1] = s[a + j - 1]
    BY <1>2, <1>3
  <2>3. a + i - 1 = a + j - 1
    BY <1>1, <2>1, <2>2 DEF Distinct
  <2> QED BY <1>1, <2>1, <2>3
<1>5. Elements(t) = {s[i] : i \in a..b}
  <2>1. ASSUME NEW i \in DOMAIN t PROVE t[i] \in {s[j] : j \in a..b}
    <3>1. a + i - 1 \in a..b /\ t[i] = s[a + i - 1]
      BY <1>1, <1>2, <1>3
    <3> QED BY <3>1
  <2>2. ASSUME NEW j \in a..b PROVE s[j] \in Elements(t)
    <3>1. j - a + 1 \in 1..(b - a + 1) /\ a + (j - a + 1) - 1 = j
      BY <1>1
    <3>2. t[j - a + 1] = s[j] /\ j - a + 1 \in DOMAIN t
      BY <1>2, <1>3, <3>1
    <3> QED BY <3>2 DEF Elements
  <2> QED BY <2>1, <2>2 DEF Elements
<1> QED BY <1>2, <1>4, <1>5 DEF t

\* Without takes one call out of the queue.
LEMMA WithoutFacts ==
  ASSUME waiting \in Seq(Calls), Distinct(waiting), NEW c \in Elements(waiting)
  PROVE  /\ Without(c) \in Seq(Calls) /\ Distinct(Without(c))
         /\ Elements(Without(c)) = Elements(waiting) \ {c}
<1> DEFINE i == CHOOSE k \in DOMAIN waiting : waiting[k] = c
<1>0. i \in DOMAIN waiting /\ waiting[i] = c
  BY DEF Elements
<1>6. Without(c) = SubSeq(waiting, 1, i - 1) \o SubSeq(waiting, i + 1, Len(waiting))
  BY DEF Without
<1> HIDE DEF i
<1> DEFINE h == SubSeq(waiting, 1, i - 1)
           t == SubSeq(waiting, i + 1, Len(waiting))
<1>1. /\ Len(waiting) \in Nat /\ DOMAIN waiting = 1..Len(waiting) /\ i \in Nat /\ i >= 1 /\ i <= Len(waiting)
      /\ i - 1 \in 0..Len(waiting) /\ i + 1 \in 1..(Len(waiting) + 1) /\ 1 \in 1..(Len(waiting) + 1)
      /\ Len(waiting) \in 0..Len(waiting)
  BY <1>0
<1>2. /\ h \in Seq(Calls) /\ Distinct(h) /\ Elements(h) = {waiting[j] : j \in 1..(i - 1)}
      /\ t \in Seq(Calls) /\ Distinct(t) /\ Elements(t) = {waiting[j] : j \in (i + 1)..Len(waiting)}
  BY <1>1, PartDistinct
<1> HIDE DEF h, t
<1>3. Elements(h) \cap Elements(t) = {}
  <2> SUFFICES ASSUME NEW j \in 1..(i - 1), NEW k \in (i + 1)..Len(waiting), waiting[j] = waiting[k] PROVE FALSE
    BY <1>2
  <2>1. j \in DOMAIN waiting /\ k \in DOMAIN waiting /\ j # k
    BY <1>1
  <2> QED BY <2>1 DEF Distinct
<1>4. Elements(h) \cup Elements(t) = Elements(waiting) \ {waiting[i]}
  <2>1. \A j \in 1..Len(waiting) : j = i \/ j \in 1..(i - 1) \/ j \in (i + 1)..Len(waiting)
    BY <1>1
  <2>2. \A j \in 1..(i - 1) \cup ((i + 1)..Len(waiting)) : j \in DOMAIN waiting /\ j # i
    BY <1>1
  <2>3. \A j \in 1..(i - 1) \cup ((i + 1)..Len(waiting)) : waiting[j] # waiting[i]
    BY <1>0, <2>2 DEF Distinct
  <2> QED BY <1>0, <1>1, <1>2, <2>1, <2>2, <2>3 DEF Elements
<1>5. /\ h \o t \in Seq(Calls) /\ Distinct(h \o t)
      /\ Elements(h \o t) = Elements(h) \cup Elements(t)
  BY <1>2, <1>3, ConcatDistinct
<1> QED BY <1>0, <1>6, <1>4, <1>5 DEF h, t

\* promote_waiting gives slots to some of the calls that are waiting and still
\* wanted, those in T, and resolves the ones in U; the rest keep their place, or
\* are not wanted any more.
Promoted(queue, slots, live, results, sends, T, U) ==
  /\ active' = slots \cup T /\ active' \subseteq Calls /\ Cardinality(active') <= MaxCalls
  /\ csend' = [i \in Calls |-> IF i \in T THEN "queued" ELSE sends[i]]
  /\ waiting' \in Seq(Calls) /\ Distinct(waiting')
  /\ Elements(waiting') \subseteq Elements(queue) \ T
  /\ pending' = live \ U
  /\ result' = [i \in Calls |-> IF i \in U THEN "unencodable" ELSE results[i]]
  /\ (Elements(queue) \cap live) \subseteq Elements(waiting') \cup T \cup U

LEMMA PromoteFacts ==
  ASSUME NEW queue \in Seq(Calls), Distinct(queue), NEW slots \in SUBSET Calls,
         Cardinality(slots) <= MaxCalls, NEW live \in SUBSET Calls, NEW results, NEW sends,
         Promote(queue, slots, live, results, sends)
  PROVE  \E T \in SUBSET (Elements(queue) \cap live), U \in SUBSET live :
           Promoted(queue, slots, live, results, sends, T, U)
<1>1. /\ Len(queue) \in Nat /\ DOMAIN queue = 1..Len(queue)
      /\ \A k \in DOMAIN queue : queue[k] \in Calls
  OBVIOUS
<1>2. PICK n \in 0..Len(queue), bad \in SUBSET Unencodable :
        LET seen(m) == {queue[k] : k \in 1..m} \cap live
            taken(m) == seen(m) \ bad
            failed == seen(n) \cap bad
            full(m) == Cardinality(slots \cup taken(m)) >= MaxCalls
        IN  /\ bad \subseteq seen(n)
            /\ \A m \in 0..(n - 1) : ~full(m)
            /\ n = Len(queue) \/ full(n)
            /\ waiting' = SubSeq(queue, n + 1, Len(queue))
            /\ active' = slots \cup taken(n)
            /\ csend' = [i \in Calls |-> IF i \in taken(n) THEN "queued" ELSE sends[i]]
            /\ pending' = live \ failed
            /\ result' = [i \in Calls |-> IF i \in failed THEN "unencodable" ELSE results[i]]
  BY Zenon DEF Promote
<1> DEFINE Q(m) == {queue[k] : k \in 1..m}
           T == (Q(n) \cap live) \ bad
           U == (Q(n) \cap live) \cap bad
           R == {queue[k] : k \in (n + 1)..Len(queue)}
<1>3. /\ \A m \in 0..(n - 1) : ~(Cardinality(slots \cup ((Q(m) \cap live) \ bad)) >= MaxCalls)
      /\ waiting' = SubSeq(queue, n + 1, Len(queue))
      /\ active' = slots \cup T
      /\ csend' = [i \in Calls |-> IF i \in T THEN "queued" ELSE sends[i]]
      /\ pending' = live \ U
      /\ result' = [i \in Calls |-> IF i \in U THEN "unencodable" ELSE results[i]]
  BY <1>2, Zenon
<1>4. waiting' \in Seq(Calls) /\ Distinct(waiting') /\ Elements(waiting') = R
  <2>1. n + 1 \in 1..(Len(queue) + 1) /\ Len(queue) \in 0..Len(queue)
    BY <1>1
  <2> QED BY <1>3, <2>1, PartDistinct
<1>5. Q(n) \subseteq Elements(queue) /\ R \subseteq Elements(queue) /\ Q(n) \cap R = {}
      /\ Elements(queue) \subseteq Q(n) \cup R
  <2>1. \A k \in 1..n : k \in DOMAIN queue
    BY <1>1
  <2>2. \A k \in (n + 1)..Len(queue) : k \in DOMAIN queue
    BY <1>1
  <2>3. \A k \in DOMAIN queue : k \in 1..n \/ k \in (n + 1)..Len(queue)
    BY <1>1
  <2>4. \A j \in 1..n, k \in (n + 1)..Len(queue) : j # k
    BY <1>1
  <2> QED BY <2>1, <2>2, <2>3, <2>4 DEF Elements, Distinct
<1>6. slots \cup T \subseteq Calls /\ Cardinality(slots \cup T) <= MaxCalls
  <2>0. T \subseteq Calls
    BY <1>1
  <2>1. CASE n = 0
    <3>1. T = {}
      BY <2>1
    <3> QED BY <2>0, <3>1
  <2>2. CASE n # 0
    <3> DEFINE S == slots \cup ((Q(n - 1) \cap live) \ bad)
    <3>1. n - 1 \in 0..(n - 1) /\ n \in 1..n /\ n \in DOMAIN queue
      BY <1>1, <2>2
    <3>2. ~(Cardinality(S) >= MaxCalls)
      BY <1>3, <3>1
    <3>3. \A k \in 1..n : k = n \/ k \in 1..(n - 1)
      BY <1>1
    <3>4. slots \cup T \subseteq S \cup {queue[n]}
      BY <3>3
    <3>5. S \subseteq Calls /\ queue[n] \in Calls
      <4>1. \A k \in 1..(n - 1) : k \in DOMAIN queue
        BY <1>1
      <4> QED BY <1>1, <3>1, <4>1
    <3> HIDE DEF S, T, Q
    <3>6. IsFiniteSet(S) /\ Cardinality(S) \in Nat
      BY <3>5, CallsAssumption, FS_Subset, FS_CardinalityType
    <3>7. /\ IsFiniteSet(S \cup {queue[n]}) /\ Cardinality(S \cup {queue[n]}) \in Nat
          /\ Cardinality(S \cup {queue[n]}) <= Cardinality(S) + 1
      <4>1. IsFiniteSet(S \cup {queue[n]})
        BY <3>6, FS_AddElement
      <4>2. Cardinality(S \cup {queue[n]}) = Cardinality(S) \/ Cardinality(S \cup {queue[n]}) = Cardinality(S) + 1
        BY <3>6, FS_AddElement
      <4> QED BY <3>6, <4>1, <4>2
    <3>8. /\ Cardinality(slots \cup T) <= Cardinality(S \cup {queue[n]})
          /\ Cardinality(slots \cup T) \in Nat
      BY <3>4, <3>7, FS_Subset, FS_CardinalityType
    <3> QED BY <2>0, <3>2, <3>6, <3>7, <3>8, LimitAssumption
  <2> QED BY <2>1, <2>2
<1>7. /\ T \in SUBSET (Elements(queue) \cap live) /\ U \in SUBSET live
      /\ R \subseteq Elements(queue) \ T
      /\ (Elements(queue) \cap live) \subseteq R \cup T \cup U
  <2> HIDE DEF Q, R
  <2> QED BY <1>5
<1> HIDE DEF T, U, R, Q
<1>8. Promoted(queue, slots, live, results, sends, T, U)
  BY <1>3, <1>4, <1>6, <1>7 DEF Promoted
<1> QED BY <1>7, <1>8


-----------------------------------------------------------------------------
(***************************************************************************)
(* Types, and where a request is before it is scheduled.                   *)
(***************************************************************************)

Messages == [part : {"Request", "Cancel", "Terminal"}, id : Calls]

\* What a turn of the client's writer does when it takes a message from the
\* channel: the calls in T get a slot, those in S keep theirs.
Turn(m, S, T, sends) ==
  /\ cqueue # <<>> /\ m = Head(cqueue) /\ m \in Messages /\ cqueue' = Tail(cqueue)
  /\ active' = S \cup T /\ active' \subseteq Calls /\ Cardinality(active') <= MaxCalls
  /\ csend' = [i \in Calls |-> IF i \in T THEN "queued" ELSE sends[i]]
  /\ \A i \in T : i \in Elements(waiting) \/ m = Queued("Request", i)
  /\ \/ S = active /\ sends = csend /\ ccontrol' = ccontrol
     \/ /\ m.part = "Cancel" /\ m.id \in active /\ S = active
        /\ csend[m.id] \notin {"queued", "started"}
        /\ sends = [csend EXCEPT ![m.id] = IF @ = "trailer" THEN "aborted" ELSE @]
        /\ ccontrol' = IF csend[m.id] = "trailer"
                       THEN ccontrol \o <<Control("Abort", m.id), Control("Cancel", m.id)>>
                       ELSE Append(ccontrol, Control("Cancel", m.id))
     \/ /\ m.part = "Cancel" /\ m.id \in active /\ S = active \ {m.id}
        /\ csend[m.id] \in {"queued", "started"}
        /\ sends = [csend EXCEPT ![m.id] = IF @ = "started" THEN "aborted" ELSE "discarded"]
        /\ ccontrol' = IF csend[m.id] = "started"
                       THEN Append(ccontrol, Control("Abort", m.id)) ELSE ccontrol
        /\ m.id \notin pending'
  /\ waiting' \in Seq(Calls) /\ Distinct(waiting') /\ Elements(waiting') \cap T = {}
  /\ \A i \in Elements(waiting') : i \in Elements(waiting) \/ m = Queued("Request", i)
  /\ pending' \subseteq pending
  /\ result' \in [Calls -> {"none", "response", "cancelled", "closed", "unencodable"}]
  /\ \A i \in pending' :
       (i \in Elements(waiting) \/ m = Queued("Request", i))
         => i \in Elements(waiting') \cup T

LEMMA AdmitTurn ==
  ASSUME TypeOK, AskedOnce, AdmitNext
  PROVE  \E sends : \E m \in Messages, S \in SUBSET active, T \in SUBSET Calls :
           Turn(m, S, T, sends)
<1> DEFINE m == Head(cqueue)
           c == m.id
           Results == {"none", "response", "cancelled", "closed", "unencodable"}
<1>1. /\ cqueue \in Seq(Messages) /\ cqueue # <<>> /\ cqueue' = Tail(cqueue)
      /\ waiting \in Seq(Calls) /\ Distinct(waiting) /\ active \in SUBSET Calls
      /\ Cardinality(active) <= MaxCalls /\ pending \in SUBSET Calls
      /\ result \in [Calls -> Results] /\ csend \in [Calls -> SendPhases]
  BY DEF TypeOK, AskedOnce, AdmitNext, Messages
<1>2. m \in Messages /\ c \in Calls /\ m = [part |-> m.part, id |-> c]
  <2>1. m \in Messages
    BY <1>1, TailPlaces
  <2> HIDE DEF m
  <2> QED BY <2>1 DEF Messages
<1>3. \/ /\ m.part = "Request"
         /\ Promote(Append(waiting, c), active, pending, result, csend)
         /\ UNCHANGED ccontrol
      \/ m.part = "Cancel" /\ AdmitCancel(c)
      \/ /\ m.part = "Terminal"
         /\ Promote(waiting, active, pending, result, csend)
         /\ UNCHANGED ccontrol
  BY DEF AdmitNext
<1> HIDE DEF m, c
<1>4. m.part = "Request" => m = Queued("Request", c) /\ c \notin Elements(waiting)
  <2> SUFFICES ASSUME m.part = "Request"
               PROVE  m = Queued("Request", c) /\ c \notin Elements(waiting)
    OBVIOUS
  <2>1. m = Queued("Request", c)
    BY <1>2 DEF Queued
  <2>2. m \in Elements(cqueue)
    <3>1. Head(cqueue) = cqueue[1] /\ 1 \in DOMAIN cqueue
      BY <1>1
    <3> QED BY <3>1 DEF Elements, m
  <2>3. Asked(c)
    BY <2>1, <2>2 DEF Asked
  <2> QED BY <1>2, <2>1, <2>3 DEF AskedOnce
\* A promotion that starts from the queue q.
<1>5. ASSUME NEW q \in Seq(Calls), Distinct(q), NEW S \in SUBSET active, NEW P \in SUBSET pending,
             NEW R \in [Calls -> Results], NEW sends, Promote(q, S, P, R, sends),
             \A i \in Elements(q) : i \in Elements(waiting) \/ m = Queued("Request", i),
             \A i \in P : (i \in Elements(waiting) \/ m = Queued("Request", i)) => i \in Elements(q),
             \/ S = active /\ sends = csend /\ ccontrol' = ccontrol
             \/ /\ m.part = "Cancel" /\ c \in active /\ S = active
                /\ csend[c] \notin {"queued", "started"}
                /\ sends = [csend EXCEPT ![c] = IF @ = "trailer" THEN "aborted" ELSE @]
                /\ ccontrol' = IF csend[c] = "trailer"
                               THEN ccontrol \o <<Control("Abort", c), Control("Cancel", c)>>
                               ELSE Append(ccontrol, Control("Cancel", c))
             \/ /\ m.part = "Cancel" /\ c \in active /\ S = active \ {c}
                /\ csend[c] \in {"queued", "started"}
                /\ sends = [csend EXCEPT ![c] = IF @ = "started" THEN "aborted" ELSE "discarded"]
                /\ ccontrol' = IF csend[c] = "started"
                               THEN Append(ccontrol, Control("Abort", c)) ELSE ccontrol
                /\ c \notin P
      PROVE  \E T \in SUBSET Calls : Turn(m, S, T, sends)
  <2>1. S \in SUBSET Calls /\ P \in SUBSET Calls /\ Cardinality(S) <= MaxCalls
    <3>1. IsFiniteSet(active)
      BY <1>1, CallsAssumption, FS_Subset
    <3>2. Cardinality(S) <= Cardinality(active) /\ Cardinality(S) \in Nat /\ Cardinality(active) \in Nat
      BY <3>1, FS_Subset, FS_CardinalityType
    <3> QED BY <1>1, <3>2, LimitAssumption
  <2>2. PICK T \in SUBSET (Elements(q) \cap P), U \in SUBSET P : Promoted(q, S, P, R, sends, T, U)
    <3>1. Promote(q, S, P, R, sends) /\ Distinct(q)
      BY <1>5
    <3> QED BY <2>1, <3>1, PromoteFacts
  <2>3. result' \in [Calls -> Results]
    BY <2>2 DEF Promoted
  <2>4. T \in SUBSET Calls
    BY <2>1
  <2>5. Turn(m, S, T, sends)
    <3>1. \A i \in T : i \in Elements(waiting) \/ m = Queued("Request", i)
      BY <1>5, <2>2
    <3>2. \A i \in Elements(waiting') : i \in Elements(waiting) \/ m = Queued("Request", i)
      BY <1>5, <2>2 DEF Promoted
    <3>3. pending' \subseteq pending /\ pending' \subseteq P
      BY <2>2 DEF Promoted
    <3>4. \A i \in pending' : (i \in Elements(waiting) \/ m = Queued("Request", i))
            => i \in Elements(waiting') \cup T
      BY <1>5, <2>2 DEF Promoted
    <3>5. Elements(waiting') \cap T = {}
      BY <2>2 DEF Promoted
    <3>6. m = Head(cqueue) /\ c = m.id
      BY DEF m, c
    <3> QED BY <1>1, <1>2, <1>5, <2>2, <2>3, <3>1, <3>2, <3>3, <3>4, <3>5, <3>6 DEF Turn, Promoted
  <2> QED BY <2>4, <2>5
<1>6. CASE m.part = "Request" /\ Promote(Append(waiting, c), active, pending, result, csend)
           /\ UNCHANGED ccontrol
  <2>1. /\ Append(waiting, c) \in Seq(Calls) /\ Distinct(Append(waiting, c))
        /\ Elements(Append(waiting, c)) = Elements(waiting) \cup {c}
    BY <1>1, <1>2, <1>4, <1>6, AppendDistinct
  <2>2. \A i : m = Queued("Request", i) <=> i = c
    <3>1. m = Queued("Request", c) /\ m.id = c
      BY <1>4, <1>6 DEF c
    <3> QED BY <3>1 DEF Queued
  <2>3. \E T \in SUBSET Calls : Turn(m, active, T, csend)
    BY <1>1, <1>5, <1>6, <2>1, <2>2
  <2> QED BY <1>2, <2>3
<1>7. ASSUME m.part # "Request" PROVE \A i : m # Queued("Request", i)
  BY <1>7 DEF Queued
<1>8. CASE /\ m.part # "Request" /\ Promote(waiting, active, pending, result, csend)
           /\ UNCHANGED ccontrol
  <2>1. \E T \in SUBSET Calls : Turn(m, active, T, csend)
    BY <1>1, <1>5, <1>7, <1>8
  <2> QED BY <1>2, <2>1
<1>9. ASSUME NEW j \in SUBSET Calls PROVE Resolved(j, "cancelled") \in [Calls -> Results]
  BY <1>1 DEF Resolved
<1>10. CASE m.part = "Cancel" /\ CancelWaiting(c) /\ \E k \in 1..Len(waiting) : waiting[k] = c
  <2>1. c \in Elements(waiting)
    BY <1>1, <1>10 DEF Elements
  <2>2. /\ Without(c) \in Seq(Calls) /\ Distinct(Without(c))
        /\ Elements(Without(c)) = Elements(waiting) \ {c}
    BY <1>1, <2>1, WithoutFacts
  <2>3. /\ Promote(Without(c), active, pending \ {c}, Resolved({c}, "cancelled"), csend)
        /\ ccontrol' = ccontrol
    BY <1>10 DEF CancelWaiting
  <2>4. Resolved({c}, "cancelled") \in [Calls -> Results]
    BY <1>2, <1>9
  <2>5. \E T \in SUBSET Calls : Turn(m, active, T, csend)
    BY <1>1, <1>5, <1>7, <1>10, <2>2, <2>3, <2>4
  <2> QED BY <1>2, <2>5
<1>11. CASE m.part = "Cancel" /\ c \in active /\ CancelDispatched(c)
  <2> DEFINE sends == [csend EXCEPT ![c] = IF @ = "trailer" THEN "aborted" ELSE @]
  <2>1. /\ csend[c] \notin {"queued", "started"}
        /\ ccontrol' = IF csend[c] = "trailer"
                       THEN ccontrol \o <<Control("Abort", c), Control("Cancel", c)>>
                       ELSE Append(ccontrol, Control("Cancel", c))
        /\ Promote(waiting, active, pending, result, sends)
    BY <1>11 DEF CancelDispatched
  <2>2. sends = [csend EXCEPT ![c] = IF @ = "trailer" THEN "aborted" ELSE @]
    OBVIOUS
  <2> HIDE DEF sends
  <2>3. \E T \in SUBSET Calls : Turn(m, active, T, sends)
    BY <1>1, <1>5, <1>7, <1>11, <2>1, <2>2
  <2> QED BY <1>2, <2>3
<1>12. CASE m.part = "Cancel" /\ c \in active /\ CancelUnsent(c)
  <2> DEFINE sends == [csend EXCEPT ![c] = IF @ = "started" THEN "aborted" ELSE "discarded"]
  <2>1. /\ csend[c] \in {"queued", "started"}
        /\ ccontrol' = IF csend[c] = "started"
                       THEN Append(ccontrol, Control("Abort", c)) ELSE ccontrol
        /\ Promote(waiting, active \ {c}, pending \ {c}, Resolved({c}, "cancelled"), sends)
    BY <1>12 DEF CancelUnsent, SlotsAfterCancel, AbortStarted
  <2>2. sends = [csend EXCEPT ![c] = IF @ = "started" THEN "aborted" ELSE "discarded"]
    OBVIOUS
  <2> HIDE DEF sends
  <2>3. Resolved({c}, "cancelled") \in [Calls -> Results]
    BY <1>2, <1>9
  <2>4. /\ active \ {c} \in SUBSET active /\ pending \ {c} \in SUBSET pending /\ c \notin pending \ {c}
        /\ \A i \in pending \ {c} : i \in Elements(waiting) \/ m = Queued("Request", i) => i \in Elements(waiting)
    BY <1>7, <1>12
  <2>5. \E T \in SUBSET Calls : Turn(m, active \ {c}, T, sends)
    BY <1>1, <1>5, <1>7, <1>12, <2>1, <2>2, <2>3, <2>4
  <2> QED BY <1>2, <2>4, <2>5
<1>13. CASE m.part = "Cancel" /\ AdmitCancel(c)
  BY <1>8, <1>10, <1>11, <1>12, <1>13 DEF AdmitCancel
<1> QED BY <1>3, <1>6, <1>8, <1>13


LEMMA ElementsAppend ==
  ASSUME NEW S, NEW q \in Seq(S), NEW m \in S
  PROVE  /\ Elements(Append(q, m)) = Elements(q) \cup {m}
         /\ RequestsOnce(q) /\ (m.part # "Request" \/ m \notin Elements(q))
              => RequestsOnce(Append(q, m))
<1> DEFINE v == Append(q, m)
<1>1. /\ Len(q) \in Nat /\ DOMAIN q = 1..Len(q) /\ DOMAIN v = 1..(Len(q) + 1)
      /\ v[Len(q) + 1] = m /\ \A k \in DOMAIN q : v[k] = q[k]
  BY AppendPlaces
<1> HIDE DEF v
<1>2. \A k \in DOMAIN v : k \in DOMAIN q \/ k = Len(q) + 1
  BY <1>1
<1>3. DOMAIN q \subseteq DOMAIN v /\ Len(q) + 1 \in DOMAIN v
  BY <1>1
<1>4. Elements(v) = Elements(q) \cup {m}
  BY <1>1, <1>2, <1>3 DEF Elements
<1>5. ASSUME RequestsOnce(q), m.part # "Request" \/ m \notin Elements(q)
      PROVE  RequestsOnce(v)
  <2> SUFFICES ASSUME NEW j \in DOMAIN v, NEW k \in DOMAIN v, v[j].part = "Request", v[j] = v[k]
               PROVE  j = k
    BY DEF RequestsOnce
  <2>1. CASE j \in DOMAIN q /\ k \in DOMAIN q
    BY <1>1, <1>5, <2>1 DEF RequestsOnce
  <2>2. CASE j \in DOMAIN q /\ k = Len(q) + 1
    BY <1>1, <1>5, <2>2 DEF Elements
  <2>3. CASE k \in DOMAIN q /\ j = Len(q) + 1
    BY <1>1, <1>5, <2>3 DEF Elements
  <2> QED BY <1>2, <2>1, <2>2, <2>3
<1> QED BY <1>4, <1>5 DEF v

LEMMA ElementsTail ==
  ASSUME NEW S, NEW q \in Seq(S), q # <<>>
  PROVE  /\ Elements(q) = Elements(Tail(q)) \cup {Head(q)}
         /\ RequestsOnce(q) =>
              /\ RequestsOnce(Tail(q))
              /\ Head(q).part = "Request" => Head(q) \notin Elements(Tail(q))
<1> DEFINE v == Tail(q)
<1>1. /\ Len(q) \in Nat /\ Len(q) >= 1 /\ DOMAIN q = 1..Len(q)
      /\ DOMAIN v = 1..(Len(q) - 1) /\ Head(q) = q[1]
      /\ \A k \in DOMAIN v : v[k] = q[k + 1]
  BY TailPlaces
<1> HIDE DEF v
<1>2. \A k \in DOMAIN q : k = 1 \/ (k - 1 \in DOMAIN v /\ v[k - 1] = q[k])
  BY <1>1
<1>3. \A k \in DOMAIN v : k + 1 \in DOMAIN q /\ 1 # k + 1 /\ v[k] = q[k + 1]
  BY <1>1
<1>4. 1 \in DOMAIN q
  BY <1>1
<1>5. Elements(q) = Elements(v) \cup {Head(q)}
  <2>1. \A k \in DOMAIN q : q[k] \in Elements(v) \cup {Head(q)}
    BY <1>1, <1>2 DEF Elements
  <2>2. \A k \in DOMAIN v : v[k] \in Elements(q)
    BY <1>3 DEF Elements
  <2> QED BY <1>1, <1>4, <2>1, <2>2 DEF Elements
<1>6. ASSUME RequestsOnce(q) PROVE RequestsOnce(v)
  <2> SUFFICES ASSUME NEW j \in DOMAIN v, NEW k \in DOMAIN v, v[j].part = "Request", v[j] = v[k]
               PROVE  j = k
    BY DEF RequestsOnce
  <2>1. j + 1 = k + 1
    BY <1>3, <1>6 DEF RequestsOnce
  <2> QED BY <1>1, <2>1
<1>7. ASSUME RequestsOnce(q), Head(q).part = "Request", Head(q) \in Elements(v) PROVE FALSE
  <2> PICK k \in DOMAIN v : v[k] = Head(q)
    BY <1>7 DEF Elements
  <2> QED BY <1>1, <1>3, <1>4, <1>7 DEF RequestsOnce
<1> QED BY <1>5, <1>6, <1>7 DEF v

LEMMA PartsOf ==
  ASSUME TypeOK
  PROVE  /\ cqueue \in Seq(Messages) /\ c2s \in Seq(Fragments) /\ s2c \in Seq(Fragments)
         /\ ccontrol \in Seq(Fragments) /\ scontrol \in Seq(Fragments)
         /\ \A part \in {"Request", "Cancel", "Terminal"}, i \in Calls :
              Queued(part, i) \in Messages /\ Queued(part, i).part = part
         /\ \A part \in {"Abort", "Cancel", "Error"}, i \in Calls :
              /\ Control(part, i) \in Fragments /\ Control(part, i).part = part
              /\ Control(part, i).id = i /\ Control(part, i).first = FALSE
BY DEF TypeOK, Messages, Queued, Control, Fragment, Fragments

\* The channel, when a message that is no request is sent or none is.
LEMMA ChannelGrows ==
  ASSUME TypeOK, AskedOnce, NEW part \in {"Cancel", "Terminal"}, NEW i \in Calls,
         Send(part, i) \/ UNCHANGED cqueue
  PROVE  /\ cqueue' \in Seq(Messages) /\ RequestsOnce(cqueue')
         /\ \A j : Queued("Request", j) \in Elements(cqueue') <=> Asked(j)
<1>1. cqueue \in Seq(Messages) /\ Queued(part, i) \in Messages /\ Queued(part, i).part # "Request"
  BY PartsOf
<1>2. cqueue' = cqueue \/ cqueue' = Append(cqueue, Queued(part, i))
  BY DEF Send
<1>3. CASE cqueue' = cqueue
  BY <1>1, <1>3 DEF AskedOnce, Asked
<1>4. CASE cqueue' = Append(cqueue, Queued(part, i))
  <2>1. cqueue' \in Seq(Messages)
    BY <1>1, <1>4, AppendPlaces
  <2>2. RequestsOnce(cqueue') /\ Elements(cqueue') = Elements(cqueue) \cup {Queued(part, i)}
    BY <1>1, <1>4, ElementsAppend DEF AskedOnce
  <2>3. \A j : Queued("Request", j) # Queued(part, i)
    BY <1>1 DEF Queued
  <2> QED BY <2>1, <2>2, <2>3 DEF Asked
<1> QED BY <1>2, <1>3, <1>4

\* AskedOnce when neither the requests in the channel nor the waiting queue
\* change, and nobody starts over.
LEMMA AskedSame ==
  ASSUME AskedOnce, RequestsOnce(cqueue'), waiting' = waiting,
         \A j \in Calls : Queued("Request", j) \in Elements(cqueue') <=> Asked(j),
         \A j \in Calls : call'[j] \in {"new", "registered"} => call[j] \in {"new", "registered"},
         \A j \in Calls : csend[j] = "none" => csend'[j] = "none"
  PROVE  AskedOnce'
BY DEF AskedOnce, Asked


LEMMA BaseInit == Init => BaseInv
<1> SUFFICES ASSUME Init PROVE BaseInv
  OBVIOUS
<1>1. Cardinality({}) = 0 /\ MaxCalls \in Nat
  BY FS_EmptySet, LimitAssumption
<1>2. TypeOK
  BY <1>1 DEF Init, TypeOK, SendPhases, EntryPhases
<1>3. AskedOnce
  BY DEF Init, AskedOnce, RequestsOnce, Distinct, Elements, Asked
<1> QED BY <1>2, <1>3 DEF BaseInv

\* The steps of the client's handles.
LEMMA BaseHandles ==
  ASSUME BaseInv, NEW i \in Calls, Begin(i) \/ BeginQueued(i) \/ Application(i)
  PROVE  BaseInv'
<1> USE DEF BaseInv
<1>0. /\ call \in [Calls -> {"new", "registered", "streaming", "open", "dropped", "abandoned"}]
      /\ cqueue \in Seq(Messages) /\ Queued("Request", i) \in Messages
  BY PartsOf DEF TypeOK
<1>1. CASE Begin(i)
  <2>1. TypeOK'
    BY <1>1 DEF Begin, TypeOK, cwVars, netVars, srvVars, swVars
  <2>2. /\ cqueue' = cqueue /\ waiting' = waiting /\ csend' = csend
        /\ \A j \in Calls : call'[j] \in {"new", "registered"} => call[j] \in {"new", "registered"}
    BY <1>0, <1>1 DEF Begin, cwVars
  <2>3. AskedOnce'
    BY <2>2 DEF AskedOnce, Asked
  <2> QED BY <2>1, <2>3
<1>2. CASE BeginQueued(i) /\ cqueue' = Append(cqueue, Queued("Request", i))
  <2>0. /\ pending' = pending \/ pending' = pending \ {i}
        /\ result' = result \/ result' = Resolved({i}, "closed")
        /\ call' = [call EXCEPT ![i] = IF i \in ReqStreams THEN "streaming" ELSE "open"] \/ call' = [call EXCEPT ![i] = "open"]
    BY <1>2 DEF BeginQueued, Complete
  <2>1. cqueue' \in Seq(Messages) /\ Elements(cqueue') = Elements(cqueue) \cup {Queued("Request", i)}
    BY <1>0, <1>2, AppendPlaces, ElementsAppend
  <2>2. TypeOK'
    <3>1. call' \in [Calls -> {"new", "registered", "streaming", "open", "dropped", "abandoned"}]
      BY <1>0, <2>0
    <3>2. /\ pending' \subseteq Calls
          /\ result' \in [Calls -> {"none", "response", "cancelled", "closed", "unencodable"}]
      BY <2>0 DEF TypeOK, Resolved
    <3>3. cancelSent' \in [Calls -> BOOLEAN]
      BY <1>2 DEF BeginQueued, TypeOK
    <3> QED BY <1>2, <2>1, <3>1, <3>2, <3>3
            DEF BeginQueued, TypeOK, cwVars, netVars, srvVars, swVars, Messages
  <2>3. /\ call[i] = "registered" /\ waiting' = waiting /\ csend' = csend
        /\ call'[i] \notin {"new", "registered"} /\ \A j \in Calls : j # i => call'[j] = call[j]
    BY <1>0, <1>2, <2>0 DEF BeginQueued, cwVars
  <2>4. csend[i] = "none" /\ ~Asked(i) /\ i \notin Elements(waiting)
    BY <2>3 DEF AskedOnce
  <2>5. RequestsOnce(cqueue')
    BY <1>0, <1>2, <2>4, ElementsAppend DEF AskedOnce, Asked
  <2>6. \A j \in Calls : Queued("Request", j) \in Elements(cqueue') <=> (Asked(j) \/ j = i)
    BY <2>1 DEF Asked, Queued
  <2>7. AskedOnce'
    BY <2>3, <2>4, <2>5, <2>6 DEF AskedOnce, Asked
  <2> QED BY <2>2, <2>7
<1>3. CASE BeginQueued(i) /\ cqueue' = cqueue
  <2>1. TypeOK'
    <3>1. call' \in [Calls -> {"new", "registered", "streaming", "open", "dropped", "abandoned"}]
      BY <1>0, <1>3 DEF BeginQueued
    <3>2. /\ pending' = pending \/ pending' = pending \ {i}
          /\ result' = result \/ result' = Resolved({i}, "closed")
      BY <1>3 DEF BeginQueued, Complete
    <3>3. /\ pending' \subseteq Calls
          /\ result' \in [Calls -> {"none", "response", "cancelled", "closed", "unencodable"}]
      BY <3>2 DEF TypeOK, Resolved
    <3>4. cancelSent' \in [Calls -> BOOLEAN]
      BY <1>3 DEF BeginQueued, TypeOK
    <3> QED BY <1>3, <3>1, <3>3, <3>4 DEF BeginQueued, TypeOK, cwVars, netVars, srvVars, swVars
  <2>2. /\ waiting' = waiting /\ csend' = csend
        /\ \A j \in Calls : call'[j] \in {"new", "registered"} => call[j] \in {"new", "registered"}
    BY <1>0, <1>3 DEF BeginQueued, cwVars
  <2>3. AskedOnce'
    BY <1>3, <2>2 DEF AskedOnce, Asked
  <2> QED BY <2>1, <2>3
<1>4. CASE FinishTrailer(i)
  <2>1. TypeOK'
    BY <1>4 DEF FinishTrailer, TypeOK, regVars, cwVars, netVars, srvVars, swVars
  <2>2. /\ waiting' = waiting /\ csend' = csend /\ cqueue' = cqueue
        /\ \A j \in Calls : call'[j] \in {"new", "registered"} => call[j] \in {"new", "registered"}
    BY <1>0, <1>4 DEF FinishTrailer, cwVars
  <2>3. AskedOnce'
    BY <2>2 DEF AskedOnce, Asked
  <2> QED BY <2>1, <2>3
<1>5. CASE CancelCall(i)
  <2>1. /\ cqueue' \in Seq(Messages) /\ RequestsOnce(cqueue')
        /\ \A j : Queued("Request", j) \in Elements(cqueue') <=> Asked(j)
    BY <1>5, ChannelGrows DEF CancelCall
  <2>2. TypeOK'
    BY <1>5, <2>1 DEF CancelCall, TypeOK, regVars, cwVars, netVars, srvVars, swVars, Messages
  <2>3. waiting' = waiting /\ csend' = csend /\ call' = call
    BY <1>5 DEF CancelCall, cwVars
  <2>4. AskedOnce'
    BY <2>1, <2>3, AskedSame
  <2> QED BY <2>2, <2>4
<1>6. CASE DropCall(i)
  <2>1. /\ cqueue' \in Seq(Messages) /\ RequestsOnce(cqueue')
        /\ \A j : Queued("Request", j) \in Elements(cqueue') <=> Asked(j)
    <3>1. Send("Cancel", i) \/ UNCHANGED cqueue
      BY <1>6 DEF DropCall
    <3> QED BY <3>1, ChannelGrows
  <2>2. TypeOK'
    <3>1. call' \in [Calls -> {"new", "registered", "streaming", "open", "dropped", "abandoned"}]
      BY <1>0, <1>6 DEF DropCall
    <3>2. cancelSent' \in [Calls -> BOOLEAN] /\ pending' \subseteq Calls
      BY <1>6 DEF DropCall, TypeOK
    <3> QED BY <1>6, <2>1, <3>1, <3>2 DEF DropCall, TypeOK, cwVars, netVars, srvVars, swVars, Messages
  <2>3. /\ waiting' = waiting /\ csend' = csend
        /\ \A j \in Calls : call'[j] \in {"new", "registered"} => call[j] \in {"new", "registered"}
    BY <1>0, <1>6 DEF DropCall, cwVars
  <2>4. AskedOnce'
    BY <2>1, <2>3, AskedSame
  <2> QED BY <2>2, <2>4
<1>7. BeginQueued(i) => cqueue' = Append(cqueue, Queued("Request", i)) \/ cqueue' = cqueue
  BY DEF BeginQueued
<1> QED BY <1>1, <1>2, <1>3, <1>4, <1>5, <1>6, <1>7 DEF Application

\* The turns of the client's writer.
LEMMA BaseWriter ==
  ASSUME BaseInv, ClientTasks \/ (\E i \in Calls : SendRequest(i))
  PROVE  BaseInv'
<1> USE DEF BaseInv
<1>0. /\ cqueue \in Seq(Messages) /\ c2s \in Seq(Fragments) /\ ccontrol \in Seq(Fragments)
      /\ csend \in [Calls -> SendPhases]
  BY PartsOf DEF TypeOK
<1>1. CASE AdmitNext
  <2>a. PICK sends : \E m \in Messages, S \in SUBSET active, T \in SUBSET Calls : Turn(m, S, T, sends)
    BY <1>1, AdmitTurn
  <2>1. PICK m \in Messages, S \in SUBSET active, T \in SUBSET Calls : Turn(m, S, T, sends)
    BY <2>a
  <2>2. m.id \in Calls /\ S \subseteq active
    BY <2>1 DEF Messages
  <2>3. sends \in [Calls -> SendPhases] /\ \A j \in Calls : sends[j] = "none" <=> csend[j] = "none"
    BY <1>0, <2>1, <2>2 DEF Turn, SendPhases
  <2>4. csend' \in [Calls -> SendPhases]
    BY <2>1, <2>3 DEF Turn, SendPhases
  <2>5. ccontrol' \in Seq(Fragments)
    <3> DEFINE x == Control("Abort", m.id)
               y == Control("Cancel", m.id)
    <3>1. x \in Fragments /\ y \in Fragments
      BY <2>2, PartsOf
    <3>2. \/ ccontrol' = ccontrol \/ ccontrol' = ccontrol \o <<x, y>>
          \/ ccontrol' = Append(ccontrol, x) \/ ccontrol' = Append(ccontrol, y)
      BY <2>1 DEF Turn
    <3> HIDE DEF x, y
    <3>3. <<x, y>> \in Seq(Fragments)
      BY <3>1
    <3>4. ccontrol \o <<x, y>> \in Seq(Fragments)
      BY <1>0, <3>3, ConcatProperties
    <3>5. Append(ccontrol, x) \in Seq(Fragments) /\ Append(ccontrol, y) \in Seq(Fragments)
      BY <1>0, <3>1, AppendPlaces
    <3> QED BY <1>0, <3>2, <3>4, <3>5
  <2>6. cqueue # <<>> /\ m = Head(cqueue) /\ cqueue' = Tail(cqueue)
    BY <2>1 DEF Turn
  <2>7. cqueue' \in Seq(Messages)
    BY <1>0, <2>6, TailPlaces
  <2>8. TypeOK'
    <3>1. /\ active' \subseteq Calls /\ Cardinality(active') <= MaxCalls /\ waiting' \in Seq(Calls)
          /\ pending' \subseteq pending
          /\ result' \in [Calls -> {"none", "response", "cancelled", "closed", "unencodable"}]
      BY <2>1 DEF Turn
    <3>2. UNCHANGED <<appVars, registry, channel, cin, netVars, srvVars, swVars, fault>>
      BY <1>1 DEF AdmitNext
    <3> QED BY <2>4, <2>5, <2>7, <3>1, <3>2 DEF TypeOK, appVars, netVars, srvVars, swVars, Messages
  <2>9. /\ Elements(cqueue) = Elements(cqueue') \cup {m} /\ RequestsOnce(cqueue')
        /\ m.part = "Request" => m \notin Elements(cqueue')
    BY <1>0, <2>6, ElementsTail DEF AskedOnce
  <2>10. call' = call
    BY <1>1 DEF AdmitNext, appVars
  <2>11. ASSUME NEW j \in Calls, j \in Elements(waiting) \/ m = Queued("Request", j)
         PROVE  /\ call[j] \notin {"new", "registered"} /\ csend[j] = "none"
                /\ Queued("Request", j) \notin Elements(cqueue')
    <3>1. CASE j \in Elements(waiting)
      BY <2>9, <3>1 DEF AskedOnce, Asked
    <3>2. CASE m = Queued("Request", j)
      <4>1. m.part = "Request" /\ Asked(j)
        BY <2>9, <3>2 DEF Asked, Queued
      <4> QED BY <2>9, <3>2, <4>1 DEF AskedOnce
    <3> QED BY <2>11, <3>1, <3>2
  <2>12. /\ Distinct(waiting') /\ Elements(waiting') \cap T = {} /\ waiting' \in Seq(Calls)
         /\ \A j \in Elements(waiting') \cup T : j \in Elements(waiting) \/ m = Queued("Request", j)
         /\ csend' = [j \in Calls |-> IF j \in T THEN "queued" ELSE sends[j]]
    BY <2>1 DEF Turn
  <2>13. ASSUME NEW j \in Calls
         PROVE  /\ call'[j] \in {"new", "registered"} =>
                     csend'[j] = "none" /\ Queued("Request", j) \notin Elements(cqueue') /\ j \notin Elements(waiting')
                /\ Queued("Request", j) \in Elements(cqueue') => csend'[j] = "none" /\ j \notin Elements(waiting')
                /\ j \in Elements(waiting') => csend'[j] = "none"
    <3>1. CASE j \in Elements(waiting') \cup T
      <4>1. /\ call[j] \notin {"new", "registered"} /\ csend[j] = "none"
            /\ Queued("Request", j) \notin Elements(cqueue')
        BY <2>11, <2>12, <3>1
      <4> QED BY <2>3, <2>10, <2>12, <4>1
    <3>2. CASE j \notin Elements(waiting') \cup T
      <4>1. csend'[j] = sends[j]
        BY <2>12, <3>2
      <4> QED BY <2>3, <2>9, <2>10, <3>2, <4>1 DEF AskedOnce, Asked
    <3> QED BY <3>1, <3>2
  <2>14. AskedOnce'
    BY <2>9, <2>12, <2>13 DEF AskedOnce, Asked
  <2> QED BY <2>8, <2>14
<1>2. CASE AbandonWaiting
  <2>1. TypeOK'
    BY <1>2 DEF AbandonWaiting, TypeOK, appVars, regVars, netVars, srvVars, swVars
  <2>2. AskedOnce'
    BY <1>2 DEF AbandonWaiting, AskedOnce, Asked, Distinct, Elements, appVars
  <2> QED BY <2>1, <2>2
<1>3. CASE SendControl
  <2>1. c2s' \in Seq(Fragments) /\ ccontrol' \in Seq(Fragments)
    <3>1. /\ ccontrol # <<>> /\ c2s' = Append(c2s, Head(ccontrol)) /\ ccontrol' = Tail(ccontrol)
      BY <1>3 DEF SendControl
    <3>2. Head(ccontrol) \in Fragments /\ Tail(ccontrol) \in Seq(Fragments)
      BY <1>0, <3>1, TailPlaces
    <3> QED BY <1>0, <3>1, <3>2
  <2>2. TypeOK'
    BY <1>3, <2>1 DEF SendControl, TypeOK, appVars, regVars, srvVars, swVars
  <2>3. AskedOnce'
    BY <1>3 DEF SendControl, AskedOnce, Asked, appVars
  <2> QED BY <2>2, <2>3
<1>4. ASSUME NEW i \in Calls, SendRequest(i) PROVE BaseInv'
  <2>1. CASE \E step \in Steps(i, csend[i], ReqStreams) :
               /\ c2s' = Append(c2s, step.fragment)
               /\ csend' = [csend EXCEPT ![i] = step.phase]
               /\ UNCHANGED ccontrol
    <3> PICK step \in Steps(i, csend[i], ReqStreams) :
               /\ c2s' = Append(c2s, step.fragment)
               /\ csend' = [csend EXCEPT ![i] = step.phase]
               /\ UNCHANGED ccontrol
      BY <2>1
    <3>1. step.fragment \in Fragments /\ step.phase \in SendPhases /\ csend[i] # "none"
      BY StepTypes DEF Advances
    <3>2. c2s' \in Seq(Fragments) /\ csend' \in [Calls -> SendPhases]
      BY <1>0, <3>1, AppendPlaces
    <3>3. TypeOK'
      BY <1>4, <3>2 DEF SendRequest, TypeOK, appVars, regVars, srvVars, swVars
    <3>4. \A j \in Calls : csend[j] = "none" => csend'[j] = "none"
      BY <1>0, <3>1
    <3>5. AskedOnce'
      BY <1>4, <3>4 DEF SendRequest, AskedOnce, Asked, appVars
    <3> QED BY <3>3, <3>5
  <2>2. CASE /\ csend[i] = "trailer" /\ ccontrol' = <<Control("Abort", i), Control("Cancel", i)>>
             /\ csend' = [csend EXCEPT ![i] = "aborted"] /\ UNCHANGED c2s
    <3>1. Control("Abort", i) \in Fragments /\ Control("Cancel", i) \in Fragments
      BY PartsOf
    <3>2. ccontrol' \in Seq(Fragments) /\ csend' \in [Calls -> SendPhases]
      BY <1>0, <2>2, <3>1 DEF SendPhases
    <3>3. TypeOK'
      BY <1>4, <2>2, <3>2 DEF SendRequest, TypeOK, appVars, regVars, srvVars, swVars
    <3>4. \A j \in Calls : csend[j] = "none" => csend'[j] = "none"
      BY <1>0, <2>2
    <3>5. AskedOnce'
      BY <1>4, <3>4 DEF SendRequest, AskedOnce, Asked, appVars
    <3> QED BY <3>3, <3>5
  <2> QED BY <1>4, <2>1, <2>2 DEF SendRequest
<1> QED BY <1>1, <1>2, <1>3, <1>4 DEF ClientTasks


\* AskedOnce does not look at the server, nor at what the reader does.
LEMMA AskedUnchanged ==
  ASSUME AskedOnce, UNCHANGED <<call, cqueue, waiting, csend>>
  PROVE  AskedOnce'
BY DEF AskedOnce, Asked

\* The client's reader, and the end of the connection.
LEMMA BaseReader ==
  ASSUME BaseInv, Close \/ Fail \/ LoseLink \/ RecvResponse
  PROVE  BaseInv'
<1> USE DEF BaseInv
<1>0. /\ s2c \in Seq(Fragments) /\ active \subseteq Calls /\ Cardinality(active) <= MaxCalls
      /\ result \in [Calls -> {"none", "response", "cancelled", "closed", "unencodable"}]
      /\ cin \in [Calls -> EntryPhases] /\ pending \subseteq Calls
  BY PartsOf DEF TypeOK
<1>1. CASE Close
  <2>1. TypeOK'
    BY <1>1 DEF Close, TypeOK, appVars, cwVars, netVars, srvVars, swVars
  <2>2. AskedOnce'
    BY <1>1, AskedUnchanged DEF Close, appVars, cwVars
  <2> QED BY <2>1, <2>2
<1>2. CASE Fail
  <2>1. TypeOK'
    BY <1>2 DEF Fail, TypeOK, Complete, Resolved, appVars, cwVars, netVars, srvVars, swVars
  <2>2. AskedOnce'
    BY <1>2, AskedUnchanged DEF Fail, appVars, cwVars
  <2> QED BY <2>1, <2>2
<1>3. CASE LoseLink
  <2>1. TypeOK'
    BY <1>3 DEF LoseLink, TypeOK, regVars, appVars, cwVars, srvVars, swVars
  <2>2. AskedOnce'
    BY <1>3, AskedUnchanged DEF LoseLink, appVars, cwVars
  <2> QED BY <2>1, <2>2
<1>4. CASE RecvResponse
  <2> DEFINE f == Head(s2c)
  <2>1. f \in Fragments /\ s2c' \in Seq(Fragments) /\ f.id \in Calls
    <3>1. s2c # <<>> /\ s2c' = Tail(s2c)
      BY <1>4 DEF RecvResponse
    <3>2. f \in Fragments /\ s2c' \in Seq(Fragments)
      BY <1>0, <3>1, TailPlaces
    <3> HIDE DEF f
    <3> QED BY <3>2 DEF Fragments
  <2>2. /\ \/ UNCHANGED <<active, pending, result, cqueue>>
           \/ \E how \in {"response", "cancelled"} : FinishCall(f.id, how)
        /\ cin' = cin \/ cin' = Accepted(cin, f, RespStreams)
        /\ (fault' = "client" /\ link' = "lost") \/ UNCHANGED <<link, fault>>
        /\ UNCHANGED <<appVars, registry, channel, waiting, csend, ccontrol, c2s, srvVars, swVars>>
    BY <1>4 DEF RecvResponse
  <2> HIDE DEF f
  <2>3. /\ cqueue' \in Seq(Messages) /\ RequestsOnce(cqueue')
        /\ \A j : Queued("Request", j) \in Elements(cqueue') <=> Asked(j)
    <3>1. Send("Terminal", f.id) \/ UNCHANGED cqueue
      BY <2>2 DEF FinishCall
    <3> QED BY <2>1, <3>1, ChannelGrows
  <2>4. cin' \in [Calls -> EntryPhases]
    BY <1>0, <2>2 DEF Accepted, EntryPhases
  <2>5. /\ active' \subseteq active /\ pending' \subseteq Calls
        /\ result' \in [Calls -> {"none", "response", "cancelled", "closed", "unencodable"}]
    BY <1>0, <2>2 DEF FinishCall, Complete, Resolved
  <2>6. active' \subseteq Calls /\ Cardinality(active') <= MaxCalls
    <3>1. IsFiniteSet(active)
      BY <1>0, CallsAssumption, FS_Subset
    <3>2. Cardinality(active') <= Cardinality(active) /\ Cardinality(active') \in Nat /\ Cardinality(active) \in Nat
      BY <2>5, <3>1, FS_Subset, FS_CardinalityType
    <3> QED BY <1>0, <2>5, <3>2, LimitAssumption
  <2>7. link' \in {"up", "lost"} /\ fault' \in {"none", "client", "server"}
    BY <2>2 DEF TypeOK
  <2>8. TypeOK'
    BY <2>1, <2>2, <2>3, <2>4, <2>5, <2>6, <2>7 DEF TypeOK, appVars, srvVars, swVars, Messages
  <2>9. call' = call /\ waiting' = waiting /\ csend' = csend
    BY <2>2 DEF appVars
  <2>10. AskedOnce'
    BY <2>3, <2>9, AskedSame
  <2> QED BY <2>8, <2>10
<1> QED BY <1>1, <1>2, <1>3, <1>4

\* The server's steps.
LEMMA BaseServer ==
  ASSUME BaseInv,
         \/ RecvRequest \/ RecvCancel \/ StartDraining \/ AdmitResponse \/ SendServerControl
         \/ \E i \in Calls : Handler(i) \/ LeaveGuard(i) \/ SendResponse(i)
  PROVE  BaseInv'
<1> USE DEF BaseInv
<1> DEFINE SMessages == [part : {"Response", "Error", "Cancel"}, id : Calls]
           TaskTypes == {"none", "running", "told", "aborting", "done"}
<1>0. /\ c2s \in Seq(Fragments) /\ s2c \in Seq(Fragments) /\ scontrol \in Seq(Fragments)
      /\ squeue \in Seq(SMessages) /\ rsend \in [Calls -> SendPhases]
      /\ sin \in [Calls -> EntryPhases] /\ outstanding \subseteq Calls /\ guard \subseteq Calls
      /\ task \in [Calls -> TaskTypes]
      /\ \A part \in {"Response", "Error", "Cancel"}, i \in Calls :
           Append(squeue, Queued(part, i)) \in Seq(SMessages)
  <2>1. squeue \in Seq(SMessages)
    BY DEF TypeOK
  <2>2. \A part \in {"Response", "Error", "Cancel"}, i \in Calls : Queued(part, i) \in SMessages
    BY DEF Queued
  <2> HIDE DEF SMessages
  <2> QED BY <2>1, <2>2, PartsOf, AppendPlaces DEF TypeOK
<1>1. AskedOnce'
  BY AskedUnchanged DEF RecvRequest, RecvCancel, StartDraining, AdmitResponse, SendServerControl,
       Handler, Respond, DropContext, EnterGuard, LeaveGuard, SendResponse, appVars, regVars, cwVars
<1>2. ASSUME RecvRequest \/ RecvCancel PROVE TypeOK'
  <2> DEFINE f == Head(c2s)
  <2>1. f \in Fragments /\ c2s' \in Seq(Fragments) /\ f.id \in Calls
    <3>1. c2s # <<>> /\ c2s' = Tail(c2s)
      BY <1>2 DEF RecvRequest, RecvCancel
    <3>2. f \in Fragments /\ c2s' \in Seq(Fragments)
      BY <1>0, <3>1, TailPlaces
    <3> HIDE DEF f
    <3> QED BY <3>2 DEF Fragments
  <2>2. CASE RecvRequest
    <3>1. /\ squeue' = squeue \/ squeue' = Append(squeue, Queued("Error", f.id))
          /\ sin' = sin \/ sin' = Accepted(sin, f, ReqStreams)
          /\ outstanding' = outstanding \/ outstanding' = outstanding \cup {f.id}
          /\ task' = task \/ task' = [task EXCEPT ![f.id] = "running"]
          /\ (fault' = "server" /\ link' = "lost") \/ UNCHANGED <<link, fault>>
          /\ UNCHANGED <<appVars, regVars, cqueue, cwVars, cin, s2c, guard, drain, rsend, scontrol>>
      BY <2>2 DEF RecvRequest, ServerFails
    <3> HIDE DEF f
    <3>2. sin' \in [Calls -> EntryPhases]
      BY <1>0, <2>1, <3>1 DEF Accepted, EntryPhases
    <3>3. squeue' \in Seq(SMessages) /\ outstanding' \subseteq Calls /\ task' \in [Calls -> TaskTypes]
      BY <1>0, <2>1, <3>1
    <3>4. link' \in {"up", "lost"} /\ fault' \in {"none", "client", "server"}
      BY <3>1 DEF TypeOK
    <3> QED BY <2>1, <3>1, <3>2, <3>3, <3>4 DEF TypeOK, appVars, regVars, cwVars
  <2>3. CASE RecvCancel
    <3>1. /\ squeue' = squeue \/ squeue' = Append(squeue, Queued("Cancel", f.id))
          /\ guard' = guard \/ guard' = guard \ {f.id}
          /\ \/ task' = task \/ task' = [task EXCEPT ![f.id] = "told"]
             \/ task' = [task EXCEPT ![f.id] = "aborting"]
          /\ UNCHANGED <<appVars, regVars, cqueue, cwVars, cin, s2c, link, sin, outstanding,
                         drain, rsend, scontrol, fault>>
      BY <2>3 DEF RecvCancel
    <3> HIDE DEF f
    <3>2. squeue' \in Seq(SMessages) /\ guard' \subseteq Calls /\ task' \in [Calls -> TaskTypes]
      BY <1>0, <2>1, <3>1
    <3> QED BY <2>1, <3>1, <3>2 DEF TypeOK, appVars, regVars, cwVars
  <2> QED BY <1>2, <2>2, <2>3
<1>3. ASSUME NEW i \in Calls, Handler(i) \/ LeaveGuard(i) PROVE TypeOK'
  <2>1. CASE Respond(i) \/ DropContext(i)
    <3>1. /\ \E part \in {"Response", "Error"} : squeue' = Append(squeue, Queued(part, i))
          /\ task' = [task EXCEPT ![i] = "done"] /\ outstanding' = outstanding \ {i}
          /\ guard' = guard \/ guard' = guard \ {i}
          /\ drain' = drain \/ drain' = "asked"
          /\ UNCHANGED <<appVars, regVars, cqueue, cwVars, cin, netVars, sin, rsend, scontrol, fault>>
      BY <2>1 DEF Respond, DropContext, Answer
    <3>2. /\ squeue' \in Seq(SMessages) /\ guard' \subseteq Calls /\ task' \in [Calls -> TaskTypes]
          /\ outstanding' \subseteq Calls
      BY <1>0, <3>1
    <3> QED BY <3>1, <3>2 DEF TypeOK, appVars, regVars, cwVars, netVars
  <2>2. CASE EnterGuard(i) \/ LeaveGuard(i)
    BY <2>2 DEF EnterGuard, LeaveGuard, TypeOK, appVars, regVars, cwVars, netVars, swVars
  <2> QED BY <1>3, <2>1, <2>2 DEF Handler
<1>4. ASSUME StartDraining PROVE TypeOK'
  BY <1>4 DEF StartDraining, TypeOK, appVars, regVars, cwVars, netVars, swVars
<1>5. ASSUME AdmitResponse PROVE TypeOK'
  <2> DEFINE m == Head(squeue)
  <2>1. m \in SMessages /\ squeue' \in Seq(SMessages) /\ m.id \in Calls
    <3>1. squeue # <<>> /\ squeue' = Tail(squeue)
      BY <1>5 DEF AdmitResponse
    <3>2. m \in SMessages /\ squeue' \in Seq(SMessages)
      BY <1>0, <3>1, TailPlaces
    <3> HIDE DEF m
    <3> QED BY <3>2
  <2>2. /\ \/ rsend' = rsend
           \/ \E phase \in SendPhases : rsend' = [rsend EXCEPT ![m.id] = phase]
        /\ \/ scontrol' = scontrol
           \/ \E part \in {"Abort", "Error"} : scontrol' = Append(scontrol, Control(part, m.id))
        /\ UNCHANGED <<appVars, regVars, cqueue, cwVars, cin, netVars, srvVars, fault>>
    BY <1>5 DEF AdmitResponse, SendPhases
  <2> HIDE DEF m
  <2>3. \A part \in {"Abort", "Error"} : Control(part, m.id) \in Fragments
    BY <2>1, PartsOf
  <2>4. rsend' \in [Calls -> SendPhases] /\ scontrol' \in Seq(Fragments)
    <3>1. rsend' \in [Calls -> SendPhases]
      BY <1>0, <2>1, <2>2
    <3>2. \A part \in {"Abort", "Error"} : Append(scontrol, Control(part, m.id)) \in Seq(Fragments)
      BY <1>0, <2>3, AppendPlaces
    <3> QED BY <1>0, <2>2, <3>1, <3>2
  <2> QED BY <2>1, <2>2, <2>4 DEF TypeOK, appVars, regVars, cwVars, netVars, srvVars
<1>6. ASSUME SendServerControl PROVE TypeOK'
  <2>1. /\ scontrol # <<>> /\ s2c' = Append(s2c, Head(scontrol)) /\ scontrol' = Tail(scontrol)
    BY <1>6 DEF SendServerControl
  <2>2. Head(scontrol) \in Fragments /\ Tail(scontrol) \in Seq(Fragments)
    BY <1>0, <2>1, TailPlaces
  <2>3. s2c' \in Seq(Fragments) /\ scontrol' \in Seq(Fragments)
    BY <1>0, <2>1, <2>2
  <2> QED BY <1>6, <2>3 DEF SendServerControl, TypeOK, appVars, regVars, cwVars, srvVars
<1>7. ASSUME NEW i \in Calls, SendResponse(i) PROVE TypeOK'
  <2>1. CASE \E step \in Steps(i, rsend[i], RespStreams) :
               /\ s2c' = Append(s2c, step.fragment)
               /\ rsend' = [rsend EXCEPT ![i] = step.phase]
               /\ UNCHANGED scontrol
    <3> PICK step \in Steps(i, rsend[i], RespStreams) :
               /\ s2c' = Append(s2c, step.fragment)
               /\ rsend' = [rsend EXCEPT ![i] = step.phase]
               /\ UNCHANGED scontrol
      BY <2>1
    <3>1. step.fragment \in Fragments /\ step.phase \in SendPhases
      BY StepTypes DEF Advances
    <3>2. s2c' \in Seq(Fragments) /\ rsend' \in [Calls -> SendPhases]
      BY <1>0, <3>1, AppendPlaces
    <3> QED BY <1>7, <3>2 DEF SendResponse, TypeOK, appVars, regVars, cwVars, srvVars
  <2>2. CASE /\ scontrol' = <<Control("Abort", i)>> /\ rsend' = [rsend EXCEPT ![i] = "aborted"]
             /\ UNCHANGED s2c
    <3>1. Control("Abort", i) \in Fragments
      BY PartsOf
    <3>2. scontrol' \in Seq(Fragments) /\ rsend' \in [Calls -> SendPhases]
      BY <1>0, <2>2, <3>1 DEF SendPhases
    <3> QED BY <1>7, <2>2, <3>2 DEF SendResponse, TypeOK, appVars, regVars, cwVars, srvVars
  <2> QED BY <1>7, <2>1, <2>2 DEF SendResponse
<1> QED BY <1>1, <1>2, <1>3, <1>4, <1>5, <1>6, <1>7

LEMMA BaseStep == BaseInv /\ [Next]_vars => BaseInv'
<1> SUFFICES ASSUME BaseInv, [Next]_vars PROVE BaseInv'
  OBVIOUS
<1>1. CASE UNCHANGED vars
  <2>1. TypeOK'
    BY <1>1 DEF BaseInv, TypeOK, vars, appVars, regVars, cwVars, netVars, srvVars, swVars
  <2>2. AskedOnce'
    BY <1>1, AskedUnchanged DEF BaseInv, vars, appVars, cwVars
  <2> QED BY <2>1, <2>2 DEF BaseInv
<1>2. CASE Next
  BY <1>1, <1>2, BaseHandles, BaseWriter, BaseReader, BaseServer DEF Next, AtRest
<1> QED BY <1>1, <1>2

LEMMA BaseAlways == Spec => []BaseInv
BY BaseInit, BaseStep, PTL DEF Spec


-----------------------------------------------------------------------------
(***************************************************************************)
(* Whoever waits has something to wait for.                                *)
(***************************************************************************)

UnderWay(i) ==
  call[i] = "registered" \/ i \in active \/ i \in Elements(waiting) \/ Asked(i)

LEMMA PendingMeans ==
  PendingIsUnderWay <=> (link = "up" /\ channel = "open" => \A i \in pending : UnderWay(i))
BY DEF PendingIsUnderWay, UnderWay, Elements, Asked

\* The places where a call may be can grow, and nobody else comes to wait.
LEMMA PendingKept ==
  ASSUME PendingIsUnderWay, link' = "up" => link = "up", channel' = "open" => channel = "open",
         pending' \subseteq pending,
         link = "up" /\ channel = "open" =>
           \A j \in pending' :
             /\ call[j] = "registered" => call'[j] = "registered"
             /\ j \in active => j \in active'
             /\ j \in Elements(waiting) => j \in Elements(waiting')
             /\ Asked(j) => Queued("Request", j) \in Elements(cqueue')
  PROVE  PendingIsUnderWay'
<1>1. link' = "up" /\ channel' = "open" =>
        \A j \in pending' : UnderWay(j)'
  BY PendingMeans DEF UnderWay, Asked
<1>2. PendingIsUnderWay' <=> (link' = "up" /\ channel' = "open" => \A i \in pending' : UnderWay(i)')
  BY DEF PendingIsUnderWay, UnderWay, Elements, Asked
<1> QED BY <1>1, <1>2

LEMMA PendingStep == BaseInv /\ PendingIsUnderWay /\ [Next]_vars => PendingIsUnderWay'
<1> SUFFICES ASSUME BaseInv, PendingIsUnderWay, [Next]_vars PROVE PendingIsUnderWay'
  OBVIOUS
<1>0. /\ TypeOK /\ AskedOnce /\ cqueue \in Seq(Messages)
      /\ call \in [Calls -> {"new", "registered", "streaming", "open", "dropped", "abandoned"}]
  BY PartsOf DEF BaseInv, TypeOK
<1>1. ASSUME UNCHANGED <<call, pending, channel, cqueue, waiting, active>>, link' = "up" => link = "up"
      PROVE  PendingIsUnderWay'
  BY <1>1, PendingKept DEF Asked
<1>2. ASSUME NEW i \in Calls, Begin(i) PROVE PendingIsUnderWay'
  <2>1. /\ pending' = pending \/ (pending' = pending \cup {i} /\ call'[i] = "registered")
        /\ \A j \in Calls : call[j] = "registered" => call'[j] = "registered"
        /\ UNCHANGED <<link, channel, cqueue, waiting, active>>
    BY <1>0, <1>2 DEF Begin, netVars, cwVars
  <2>2. pending \subseteq Calls
    BY <1>0 DEF TypeOK
  <2>3. link' = "up" /\ channel' = "open" => \A j \in pending' : UnderWay(j)'
    BY <2>1, <2>2, PendingMeans DEF UnderWay, Asked
  <2>4. PendingIsUnderWay' <=> (link' = "up" /\ channel' = "open" => \A j \in pending' : UnderWay(j)')
    BY DEF PendingIsUnderWay, UnderWay, Elements, Asked
  <2> QED BY <2>3, <2>4
<1>3. ASSUME NEW i \in Calls, BeginQueued(i) PROVE PendingIsUnderWay'
  <2>1. CASE channel = "closed" \/ link = "lost"
    BY <1>3, <2>1, PendingMeans DEF BeginQueued, netVars, PendingIsUnderWay
  <2>2. CASE ~(channel = "closed" \/ link = "lost")
    <3>1. /\ cqueue' = Append(cqueue, Queued("Request", i)) /\ pending' = pending
          /\ UNCHANGED <<link, channel, waiting, active>>
          /\ \A j \in Calls : j # i => call'[j] = call[j]
      BY <1>0, <1>3, <2>2 DEF BeginQueued, netVars, cwVars
    <3>2. Elements(cqueue') = Elements(cqueue) \cup {Queued("Request", i)}
      BY <1>0, <3>1, ElementsAppend, PartsOf
    <3>3. pending \subseteq Calls
      BY <1>0 DEF TypeOK
    <3>4. link' = "up" /\ channel' = "open" => \A j \in pending' : UnderWay(j)'
      BY <3>1, <3>2, <3>3, PendingMeans DEF UnderWay, Asked
    <3>5. PendingIsUnderWay' <=> (link' = "up" /\ channel' = "open" => \A j \in pending' : UnderWay(j)')
      BY DEF PendingIsUnderWay, UnderWay, Elements, Asked
    <3> QED BY <3>4, <3>5
  <2> QED BY <2>1, <2>2
<1>4. ASSUME NEW i \in Calls, Application(i) PROVE PendingIsUnderWay'
  <2>1. /\ pending' \subseteq pending /\ UNCHANGED <<link, channel, waiting, active>>
        /\ \A j \in Calls : call[j] = "registered" => call'[j] = "registered"
        /\ Send("Cancel", i) \/ UNCHANGED cqueue
    BY <1>0, <1>4 DEF Application, FinishTrailer, CancelCall, DropCall, regVars, cwVars, netVars
  <2>2. \A j : Queued("Request", j) \in Elements(cqueue') <=> Asked(j)
    BY <1>0, <2>1, ChannelGrows
  <2>3. pending \subseteq Calls
    BY <1>0 DEF TypeOK
  <2> QED BY <2>1, <2>2, <2>3, PendingKept
<1>5. ASSUME Close \/ Fail \/ LoseLink \/ AbandonWaiting PROVE PendingIsUnderWay'
  BY <1>5 DEF Close, Fail, LoseLink, AbandonWaiting, PendingIsUnderWay, netVars, regVars
<1>6. ASSUME AdmitNext PROVE PendingIsUnderWay'
  <2>a. PICK sends : \E m \in Messages, S \in SUBSET active, T \in SUBSET Calls : Turn(m, S, T, sends)
    BY <1>0, <1>6, AdmitTurn
  <2>1. PICK m \in Messages, S \in SUBSET active, T \in SUBSET Calls : Turn(m, S, T, sends)
    BY <2>a
  <2>2. /\ cqueue # <<>> /\ m = Head(cqueue) /\ cqueue' = Tail(cqueue) /\ active' = S \cup T
        /\ pending' \subseteq pending
        /\ S = active \/ (S = active \ {m.id} /\ m.id \notin pending')
        /\ \A i \in pending' : (i \in Elements(waiting) \/ m = Queued("Request", i))
             => i \in Elements(waiting') \cup T
    BY <2>1 DEF Turn
  <2>3. Elements(cqueue) = Elements(cqueue') \cup {m}
    BY <1>0, <2>2, ElementsTail
  <2>4. UNCHANGED <<call, link, channel>>
    BY <1>6 DEF AdmitNext, appVars, netVars
  <2>5. link' = "up" /\ channel' = "open" => \A j \in pending' : UnderWay(j)'
    <3> SUFFICES ASSUME link = "up", channel = "open", NEW j \in pending' PROVE UnderWay(j)'
      BY <2>4
    <3>1. UnderWay(j)
      BY <2>2, PendingMeans
    <3>2. CASE call[j] = "registered"
      BY <2>4, <3>2 DEF UnderWay
    <3>3. CASE j \in active
      BY <2>2, <3>3 DEF UnderWay
    <3>4. CASE j \in Elements(waiting) \/ m = Queued("Request", j)
      BY <2>2, <3>4 DEF UnderWay
    <3>5. CASE Asked(j) /\ m # Queued("Request", j)
      BY <2>3, <3>5 DEF UnderWay, Asked
    <3> QED BY <3>1, <3>2, <3>3, <3>4, <3>5 DEF UnderWay
  <2>6. PendingIsUnderWay' <=> (link' = "up" /\ channel' = "open" => \A j \in pending' : UnderWay(j)')
    BY DEF PendingIsUnderWay, UnderWay, Elements, Asked
  <2> QED BY <2>5, <2>6
<1>7. ASSUME RecvResponse PROVE PendingIsUnderWay'
  <2> DEFINE c == Head(s2c).id
  <2>1. /\ \/ UNCHANGED <<active, pending, cqueue>>
           \/ pending' = pending \ {c} /\ active' = active \ {c} /\ Send("Terminal", c)
        /\ link' = "up" => link = "up"
        /\ UNCHANGED <<call, channel, waiting>>
    BY <1>7 DEF RecvResponse, FinishCall, Complete, appVars
  <2>2. c \in Calls
    <3>1. s2c # <<>> /\ s2c \in Seq(Fragments)
      BY <1>0, <1>7, PartsOf DEF RecvResponse
    <3>2. Head(s2c) \in Fragments
      BY <3>1, TailPlaces
    <3> QED BY <3>2 DEF Fragments
  <2> HIDE DEF c
  <2>3. \A j : Queued("Request", j) \in Elements(cqueue') <=> Asked(j)
    BY <1>0, <2>1, <2>2, ChannelGrows
  <2> QED BY <2>1, <2>3, PendingKept
<1>8. CASE SendControl \/ \E i \in Calls : SendRequest(i)
  BY <1>1, <1>8 DEF SendControl, SendRequest, appVars, regVars
<1>9. CASE \/ RecvRequest \/ RecvCancel \/ StartDraining \/ AdmitResponse \/ SendServerControl
           \/ \E i \in Calls : Handler(i) \/ LeaveGuard(i) \/ SendResponse(i)
  BY <1>0, <1>1, <1>9 DEF RecvRequest, RecvCancel, StartDraining, AdmitResponse, SendServerControl,
       Handler, Respond, DropContext, EnterGuard, LeaveGuard, SendResponse, ServerFails,
       appVars, regVars, cwVars, netVars
<1>10. CASE UNCHANGED vars
  BY <1>1, <1>10 DEF vars, appVars, regVars, cwVars, netVars
<1> QED BY <1>2, <1>3, <1>4, <1>5, <1>6, <1>7, <1>8, <1>9, <1>10 DEF Next, ClientTasks, AtRest

(* Every variable keeps its type for any calls and any number of slots; in
   particular promote_waiting never fills more slots than were agreed on
   (Shared.active_calls, client.rs). *)
THEOREM CallTypes == Spec => []TypeOK
<1>1. BaseInv => TypeOK
  BY DEF BaseInv
<1> QED BY <1>1, BaseAlways, PTL

(* While the connection is up and not closed, a call that somebody waits for
   is about to be queued, in the channel, in the waiting queue or in a slot,
   whatever is cancelled, dropped or fails to encode (Inner.pending,
   SendDriver::run and promote_waiting, client.rs). *)
THEOREM WaitersAreUnderWay == Spec => []PendingIsUnderWay
<1>1. Init => PendingIsUnderWay
  BY DEF Init, PendingIsUnderWay
<1> QED BY <1>1, BaseAlways, PendingStep, PTL DEF Spec

-----------------------------------------------------------------------------
(***************************************************************************)
(* The two queues of each direction as one, and messages that come once.   *)
(***************************************************************************)

LEMMA ConcatPlaces ==
  ASSUME NEW S, NEW a \in Seq(S), NEW b \in Seq(S)
  PROVE  /\ a \o b \in Seq(S) /\ Len(a) \in Nat /\ Len(b) \in Nat
         /\ DOMAIN a = 1..Len(a) /\ DOMAIN b = 1..Len(b)
         /\ DOMAIN (a \o b) = 1..(Len(a) + Len(b))
         /\ \A k \in DOMAIN a : (a \o b)[k] = a[k]
         /\ \A k \in DOMAIN b : (a \o b)[Len(a) + k] = b[k]
OBVIOUS

LEMMA ConcatAppend ==
  ASSUME NEW S, NEW a \in Seq(S), NEW b \in Seq(S), NEW x \in S
  PROVE  /\ a \o Append(b, x) = Append(a \o b, x)
         /\ b = <<>> => Append(a, x) \o b = Append(a \o b, x)
         /\ b = <<>> => a \o <<x>> = Append(a \o b, x)
<1>1. /\ a \o b \in Seq(S) /\ Append(b, x) \in Seq(S) /\ Append(a, x) \in Seq(S)
      /\ Append(a \o b, x) = (a \o b) \o <<x>> /\ Append(b, x) = b \o <<x>>
      /\ Append(a, x) = a \o <<x>> /\ <<x>> \in Seq(S)
  OBVIOUS
<1>2. (a \o b) \o <<x>> = a \o (b \o <<x>>)
  BY <1>1, ConcatAssociative
<1>3. b = <<>> => a \o b = a /\ Append(a, x) \o b = Append(a, x)
  BY <1>1, ConcatEmptySeq
<1> QED BY <1>1, <1>2, <1>3

LEMMA ConcatTwo ==
  ASSUME NEW S, NEW a \in Seq(S), NEW b \in Seq(S), NEW x \in S, NEW y \in S
  PROVE  /\ a \o (b \o <<x, y>>) = Append(Append(a \o b, x), y)
         /\ b = <<>> => a \o <<x, y>> = Append(Append(a \o b, x), y)
<1>1. b \o <<x, y>> = Append(Append(b, x), y)
  OBVIOUS
<1>2. Append(b, x) \in Seq(S) /\ a \o b \in Seq(S)
  OBVIOUS
<1>3. a \o Append(Append(b, x), y) = Append(a \o Append(b, x), y) /\ a \o Append(b, x) = Append(a \o b, x)
  BY <1>2, ConcatAppend
<1>4. b = <<>> => b \o <<x, y>> = <<x, y>>
  OBVIOUS
<1> QED BY <1>1, <1>3, <1>4

LEMMA ConcatTail ==
  ASSUME NEW S, NEW a \in Seq(S), NEW b \in Seq(S), a # <<>>
  PROVE  /\ a \o b \in Seq(S) /\ a \o b # <<>>
         /\ Head(a \o b) = Head(a) /\ Tail(a) \o b = Tail(a \o b)
<1>1. a \o b \in Seq(S) /\ Len(a \o b) = Len(a) + Len(b) /\ Len(a) \in Nat /\ Len(b) \in Nat /\ Len(a) >= 1
  OBVIOUS
<1>2. a \o b # <<>>
  BY <1>1
<1>3. Head(a \o b) = Head(a)
  BY <1>1, <1>2
<1>4. Tail(a) \o b = Tail(a \o b)
  <2>1. Tail(a) \in Seq(S) /\ Len(Tail(a)) = Len(a) - 1
    OBVIOUS
  <2>2. Tail(a) \o b \in Seq(S) /\ Len(Tail(a) \o b) = Len(a) - 1 + Len(b)
    BY <2>1, <1>1
  <2>3. Tail(a \o b) \in Seq(S) /\ Len(Tail(a \o b)) = Len(a) + Len(b) - 1
    BY <1>1, <1>2
  <2>4. ASSUME NEW k \in 1..Len(Tail(a) \o b) PROVE (Tail(a) \o b)[k] = Tail(a \o b)[k]
    BY <1>1, <1>2, <2>1, <2>2, <2>3
  <2> QED BY <2>2, <2>3, <2>4, SeqEqual, <1>1
<1> QED BY <1>1, <1>2, <1>3, <1>4

LEMMA ConcatMove ==
  ASSUME NEW S, NEW a \in Seq(S), NEW b \in Seq(S), b # <<>>
  PROVE  Append(a, Head(b)) \o Tail(b) = a \o b
<1>1. /\ Head(b) \in S /\ Tail(b) \in Seq(S) /\ <<Head(b)>> \in Seq(S) /\ Append(a, Head(b)) = a \o <<Head(b)>>
      /\ <<Head(b)>> \o Tail(b) = b
  OBVIOUS
<1>2. (a \o <<Head(b)>>) \o Tail(b) = a \o (<<Head(b)>> \o Tail(b))
  BY <1>1, ConcatAssociative
<1> QED BY <1>1, <1>2

LEMMA OnceAppend ==
  ASSUME NEW S, NEW q \in Seq(S), NEW m \in S, NEW i, NEW P
  PROVE  /\ Holds(Append(q, m), i, P) <=> (Holds(q, i, P) \/ (m.id = i /\ m.part \in P))
         /\ Once(q, i, P) /\ ~(m.id = i /\ m.part \in P /\ Holds(q, i, P))
              => Once(Append(q, m), i, P)
<1> DEFINE v == Append(q, m)
<1>1. /\ Len(q) \in Nat /\ DOMAIN q = 1..Len(q) /\ DOMAIN v = 1..(Len(q) + 1)
      /\ v[Len(q) + 1] = m /\ \A k \in DOMAIN q : v[k] = q[k]
  BY AppendPlaces
<1> HIDE DEF v
<1>2. Holds(v, i, P) <=> (Holds(q, i, P) \/ (m.id = i /\ m.part \in P))
  BY <1>1 DEF Holds
<1>3. ASSUME Once(q, i, P), ~(m.id = i /\ m.part \in P /\ Holds(q, i, P)) PROVE Once(v, i, P)
  <2> SUFFICES ASSUME NEW j \in DOMAIN v, NEW k \in DOMAIN v, v[j].id = i, v[j].part \in P,
                      v[k].id = i, v[k].part \in P
               PROVE  j = k
    BY DEF Once
  <2>1. CASE j \in DOMAIN q /\ k \in DOMAIN q
    BY <1>1, <1>3, <2>1 DEF Once
  <2>2. CASE ~(j \in DOMAIN q /\ k \in DOMAIN q)
    BY <1>1, <1>3, <2>2 DEF Holds
  <2> QED BY <2>1, <2>2
<1> QED BY <1>2, <1>3 DEF v

LEMMA OnceTail ==
  ASSUME NEW S, NEW q \in Seq(S), q # <<>>, NEW i, NEW P
  PROVE  /\ Holds(q, i, P) <=> (Holds(Tail(q), i, P) \/ (Head(q).id = i /\ Head(q).part \in P))
         /\ Once(q, i, P) =>
              /\ Once(Tail(q), i, P)
              /\ Head(q).id = i /\ Head(q).part \in P => ~Holds(Tail(q), i, P)
<1> DEFINE v == Tail(q)
<1>1. /\ Len(q) \in Nat /\ Len(q) >= 1 /\ DOMAIN q = 1..Len(q)
      /\ DOMAIN v = 1..(Len(q) - 1) /\ Head(q) = q[1]
      /\ \A k \in DOMAIN v : v[k] = q[k + 1]
  BY TailPlaces
<1> HIDE DEF v
<1>2. \A k \in DOMAIN q : k = 1 \/ (k - 1 \in DOMAIN v /\ v[k - 1] = q[k])
  BY <1>1
<1>3. \A k \in DOMAIN v : k + 1 \in DOMAIN q /\ 1 # k + 1 /\ v[k] = q[k + 1]
  BY <1>1
<1>4. 1 \in DOMAIN q
  BY <1>1
<1>5. Holds(q, i, P) <=> (Holds(v, i, P) \/ (Head(q).id = i /\ Head(q).part \in P))
  BY <1>1, <1>2, <1>3, <1>4 DEF Holds
<1>6. ASSUME Once(q, i, P) PROVE Once(v, i, P)
  <2> SUFFICES ASSUME NEW j \in DOMAIN v, NEW k \in DOMAIN v, v[j].id = i, v[j].part \in P,
                      v[k].id = i, v[k].part \in P
               PROVE  j = k
    BY DEF Once
  <2>1. j + 1 = k + 1
    BY <1>3, <1>6 DEF Once
  <2> QED BY <1>1, <2>1
<1>7. ASSUME Once(q, i, P), Head(q).id = i, Head(q).part \in P, Holds(v, i, P) PROVE FALSE
  BY <1>1, <1>3, <1>4, <1>7 DEF Once, Holds
<1> QED BY <1>5, <1>6, <1>7 DEF v

LEMMA HoldsOne ==
  \A q, i, p : Has(q, i, p) <=> Holds(q, i, {p})
BY DEF Has, Holds

-----------------------------------------------------------------------------
(***************************************************************************)
(* What the steps do to the fragments under way.                           *)
(***************************************************************************)

LEMMA WayTypes ==
  ASSUME TypeOK
  PROVE  Up \in Seq(Fragments) /\ Down \in Seq(Fragments)
<1>1. /\ c2s \in Seq(Fragments) /\ s2c \in Seq(Fragments)
      /\ ccontrol \in Seq(Fragments) /\ scontrol \in Seq(Fragments)
  BY PartsOf
<1> QED BY <1>1, ConcatPlaces DEF Up, Down

\* A turn of the client's writer about call c: the calls in T are scheduled.
Moved(c, S, T) ==
  /\ active' = S \cup T
  /\ \A j \in T : csend[j] = "none" /\ csend'[j] = "queued"
  /\ \A j \in Calls \ T : j # c => csend'[j] = csend[j]
  /\ \/ S = active /\ (c \notin T => csend'[c] = csend[c]) /\ Up' = Up
     \/ /\ c \in active /\ S = active /\ csend[c] \notin {"queued", "started", "trailer"}
        /\ (c \notin T => csend'[c] = csend[c]) /\ Up' = Append(Up, Control("Cancel", c))
     \/ /\ S = active /\ csend[c] = "trailer" /\ csend'[c] = "aborted"
        /\ Up' = Append(Append(Up, Control("Abort", c)), Control("Cancel", c))
     \/ S = active \ {c} /\ csend[c] = "queued" /\ csend'[c] = "discarded" /\ Up' = Up
     \/ /\ S = active \ {c} /\ csend[c] = "started" /\ csend'[c] = "aborted"
        /\ Up' = Append(Up, Control("Abort", c))

LEMMA TurnMoves ==
  ASSUME BaseInv, AdmitNext
  PROVE  \E c \in Calls, S \in SUBSET active, T \in SUBSET Calls : Moved(c, S, T)
<1>0. TypeOK /\ AskedOnce /\ csend \in [Calls -> SendPhases] /\ cqueue \in Seq(Messages)
  BY PartsOf DEF BaseInv, TypeOK
<1>a. PICK sends : \E m \in Messages, S \in SUBSET active, T \in SUBSET Calls : Turn(m, S, T, sends)
  BY <1>0, AdmitTurn
<1>1. PICK m \in Messages, S \in SUBSET active, T \in SUBSET Calls : Turn(m, S, T, sends)
  BY <1>a
<1> DEFINE c == m.id
           x == Control("Abort", c)
           y == Control("Cancel", c)
<1>2. c \in Calls
  BY DEF Messages
<1>3. x \in Fragments /\ y \in Fragments /\ c2s' = c2s
  BY <1>0, <1>2, PartsOf DEF AdmitNext, netVars
<1>4. /\ active' = S \cup T /\ csend' = [i \in Calls |-> IF i \in T THEN "queued" ELSE sends[i]]
      /\ \A i \in T : i \in Elements(waiting) \/ m = Queued("Request", i)
      /\ cqueue # <<>> /\ m = Head(cqueue)
      /\ \/ S = active /\ sends = csend /\ ccontrol' = ccontrol
         \/ /\ m.part = "Cancel" /\ c \in active /\ S = active
            /\ csend[c] \notin {"queued", "started"}
            /\ sends = [csend EXCEPT ![c] = IF @ = "trailer" THEN "aborted" ELSE @]
            /\ ccontrol' = IF csend[c] = "trailer" THEN ccontrol \o <<x, y>> ELSE Append(ccontrol, y)
         \/ /\ m.part = "Cancel" /\ c \in active /\ S = active \ {c}
            /\ csend[c] \in {"queued", "started"}
            /\ sends = [csend EXCEPT ![c] = IF @ = "started" THEN "aborted" ELSE "discarded"]
            /\ ccontrol' = IF csend[c] = "started" THEN Append(ccontrol, x) ELSE ccontrol
  BY <1>1 DEF Turn
<1> HIDE DEF c, x, y
<1>5. \A j \in T : csend[j] = "none" /\ csend'[j] = "queued"
  <2>1. m \in Elements(cqueue)
    <3>1. Head(cqueue) = cqueue[1] /\ 1 \in DOMAIN cqueue
      BY <1>0, <1>4
    <3> QED BY <1>4, <3>1 DEF Elements
  <2> QED BY <1>0, <1>4, <2>1 DEF AskedOnce, Asked
<1>6. c2s \in Seq(Fragments) /\ ccontrol \in Seq(Fragments)
  BY <1>0, PartsOf
<1>7. /\ ccontrol' = ccontrol => Up' = Up
      /\ ccontrol' = Append(ccontrol, x) => Up' = Append(Up, x)
      /\ ccontrol' = Append(ccontrol, y) => Up' = Append(Up, y)
      /\ ccontrol' = ccontrol \o <<x, y>> => Up' = Append(Append(Up, x), y)
  <2>1. /\ c2s \o Append(ccontrol, x) = Append(Up, x) /\ c2s \o Append(ccontrol, y) = Append(Up, y)
        /\ c2s \o (ccontrol \o <<x, y>>) = Append(Append(Up, x), y)
    <3>1. c2s \o Append(ccontrol, x) = Append(c2s \o ccontrol, x)
      BY <1>3, <1>6, ConcatAppend
    <3>2. c2s \o Append(ccontrol, y) = Append(c2s \o ccontrol, y)
      BY <1>3, <1>6, ConcatAppend
    <3>3. c2s \o (ccontrol \o <<x, y>>) = Append(Append(c2s \o ccontrol, x), y)
      <4>1. ccontrol \o <<x, y>> = Append(Append(ccontrol, x), y) /\ Append(ccontrol, x) \in Seq(Fragments)
        BY <1>3, <1>6
      <4>2. c2s \o Append(Append(ccontrol, x), y) = Append(c2s \o Append(ccontrol, x), y)
        BY <1>3, <1>6, <4>1, ConcatAppend
      <4> QED BY <3>1, <4>1, <4>2
    <3> QED BY <3>1, <3>2, <3>3, Zenon DEF Up
  <2>2. Up' = c2s \o ccontrol' /\ Up = c2s \o ccontrol
    BY <1>3 DEF Up
  <2> HIDE DEF Up
  <2> QED BY <2>1, <2>2
<1>8. /\ \A j \in Calls \ T : csend'[j] = sends[j]
      /\ sends = csend => \A j \in Calls \ T : csend'[j] = csend[j]
  BY <1>4
<1>9. CASE S = active /\ sends = csend /\ ccontrol' = ccontrol
  <2>1. Moved(c, S, T)
    BY <1>2, <1>4, <1>5, <1>7, <1>8, <1>9 DEF Moved
  <2> QED BY <1>2, <2>1
<1>10. ASSUME NEW ph, sends = [csend EXCEPT ![c] = ph]
       PROVE  (\A j \in Calls \ T : j # c => csend'[j] = csend[j]) /\ (c \notin T => csend'[c] = ph)
  BY <1>0, <1>2, <1>8, <1>10
<1>11. CASE /\ m.part = "Cancel" /\ c \in active /\ S = active /\ csend[c] \notin {"queued", "started"}
            /\ sends = [csend EXCEPT ![c] = IF @ = "trailer" THEN "aborted" ELSE @]
            /\ ccontrol' = IF csend[c] = "trailer" THEN ccontrol \o <<x, y>> ELSE Append(ccontrol, y)
  <2>1. CASE csend[c] = "trailer"
    <3>1. c \notin T
      BY <1>5, <2>1
    <3>2. sends = [csend EXCEPT ![c] = "aborted"]
      BY <1>11, <2>1
    <3>3. Moved(c, S, T)
      BY <1>4, <1>5, <1>7, <1>10, <1>11, <2>1, <3>1, <3>2 DEF Moved, x, y
    <3> QED BY <1>2, <3>3
  <2>2. CASE csend[c] # "trailer"
    <3>1. sends = [csend EXCEPT ![c] = csend[c]]
      BY <1>11, <2>2
    <3>2. Moved(c, S, T)
      BY <1>4, <1>5, <1>7, <1>10, <1>11, <2>2, <3>1 DEF Moved, y
    <3> QED BY <1>2, <3>2
  <2> QED BY <2>1, <2>2
<1>12. CASE /\ m.part = "Cancel" /\ c \in active /\ S = active \ {c} /\ csend[c] \in {"queued", "started"}
            /\ sends = [csend EXCEPT ![c] = IF @ = "started" THEN "aborted" ELSE "discarded"]
            /\ ccontrol' = IF csend[c] = "started" THEN Append(ccontrol, x) ELSE ccontrol
  <2>0. c \notin T
    BY <1>5, <1>12
  <2>1. CASE csend[c] = "started"
    <3>2. sends = [csend EXCEPT ![c] = "aborted"]
      BY <1>12, <2>1
    <3>3. Moved(c, S, T)
      BY <1>4, <1>5, <1>7, <1>10, <1>12, <2>0, <2>1, <3>2 DEF Moved, x
    <3> QED BY <1>2, <3>3
  <2>2. CASE csend[c] = "queued"
    <3>1. sends = [csend EXCEPT ![c] = "discarded"]
      BY <1>12, <2>2
    <3>2. Moved(c, S, T)
      BY <1>4, <1>5, <1>7, <1>10, <1>12, <2>0, <2>2, <3>1 DEF Moved
    <3> QED BY <1>2, <3>2
  <2> QED BY <1>12, <2>1, <2>2
<1> QED BY <1>4, <1>9, <1>11, <1>12

\* A fragment of a request is sent, or its trailer is given up.
Sends(i) ==
  \/ \E step \in Steps(i, csend[i], ReqStreams) :
       Up' = Append(Up, step.fragment) /\ csend' = [csend EXCEPT ![i] = step.phase]
  \/ /\ csend[i] = "trailer" /\ csend' = [csend EXCEPT ![i] = "aborted"]
     /\ Up' = Append(Append(Up, Control("Abort", i)), Control("Cancel", i))

LEMMA RequestSends ==
  ASSUME TypeOK, NEW i \in Calls, SendRequest(i)
  PROVE  Sends(i)
<1>1. c2s \in Seq(Fragments) /\ ccontrol \in Seq(Fragments) /\ ccontrol = <<>>
  BY PartsOf DEF SendRequest
<1>2. CASE \E step \in Steps(i, csend[i], ReqStreams) :
             /\ c2s' = Append(c2s, step.fragment)
             /\ csend' = [csend EXCEPT ![i] = step.phase]
             /\ UNCHANGED ccontrol
  <2> PICK step \in Steps(i, csend[i], ReqStreams) :
             /\ c2s' = Append(c2s, step.fragment)
             /\ csend' = [csend EXCEPT ![i] = step.phase]
             /\ UNCHANGED ccontrol
    BY <1>2
  <2>1. step.fragment \in Fragments
    BY StepTypes DEF Advances
  <2>2. Append(c2s, step.fragment) \o ccontrol = Append(c2s \o ccontrol, step.fragment)
    BY <1>1, <2>1, ConcatAppend
  <2>3. Up' = Append(Up, step.fragment)
    BY <2>2 DEF Up
  <2> QED BY <2>3 DEF Sends
<1>3. CASE /\ csend[i] = "trailer" /\ ccontrol' = <<Control("Abort", i), Control("Cancel", i)>>
           /\ csend' = [csend EXCEPT ![i] = "aborted"] /\ UNCHANGED c2s
  <2>1. Control("Abort", i) \in Fragments /\ Control("Cancel", i) \in Fragments
    BY PartsOf
  <2>2. Up' = Append(Append(Up, Control("Abort", i)), Control("Cancel", i))
    BY <1>1, <1>3, <2>1, ConcatTwo DEF Up
  <2> QED BY <1>3, <2>2 DEF Sends
<1> QED BY <1>2, <1>3 DEF SendRequest

\* The first fragment on its way to the server is taken.
LEMMA RequestTaken ==
  ASSUME TypeOK, c2s # <<>>, c2s' = Tail(c2s), ccontrol' = ccontrol
  PROVE  /\ Up # <<>> /\ Up' = Tail(Up) /\ Head(Up) = Head(c2s) /\ Head(Up) \in Fragments
         /\ Head(Up).id \in Calls
<1>1. c2s \in Seq(Fragments) /\ ccontrol \in Seq(Fragments) /\ Up \in Seq(Fragments)
  BY PartsOf, WayTypes
<1>2. Up # <<>> /\ Up' = Tail(Up) /\ Head(Up) = Head(c2s)
  BY <1>1, ConcatTail DEF Up
<1>3. Head(Up) \in Fragments
  BY <1>1, <1>2, TailPlaces
<1> QED BY <1>2, <1>3 DEF Fragments

\* A control fragment goes from one queue to the next.
LEMMA ControlMoves ==
  ASSUME TypeOK
  PROVE  /\ SendControl => Up' = Up /\ Down' = Down
         /\ SendServerControl => Up' = Up /\ Down' = Down
<1>1. /\ c2s \in Seq(Fragments) /\ ccontrol \in Seq(Fragments)
      /\ s2c \in Seq(Fragments) /\ scontrol \in Seq(Fragments)
  BY PartsOf
<1> QED BY <1>1, ConcatMove DEF SendControl, SendServerControl, Up, Down, swVars, cwVars, netVars

-----------------------------------------------------------------------------
(***************************************************************************)
(* The fragments of every request reach the server in order.               *)
(***************************************************************************)

LEMMA StreamUnsent ==
  ASSUME NEW w, NEW i, NEW e, NEW streams, NEW p \in {"none", "queued", "discarded"},
         NEW q \in {"none", "queued", "discarded"}, Stream(w, i, p, e, streams)
  PROVE  Stream(w, i, q, e, streams)
BY DEF Stream, Leads

\* An ABORT and a CANCEL together, as one call sees them that is not theirs.
LEMMA StreamOthers ==
  ASSUME NEW w \in Seq(Fragments), NEW c \in Calls, NEW i \in Calls, i # c, NEW phase, NEW e, NEW streams,
         Stream(w, i, phase, e, streams), TypeOK
  PROVE  /\ Stream(Append(w, Control("Abort", c)), i, phase, e, streams)
         /\ Stream(Append(w, Control("Error", c)), i, phase, e, streams)
         /\ Stream(Append(Append(w, Control("Abort", c)), Control("Cancel", c)), i, phase, e, streams)
<1>1. /\ Control("Abort", c) \in Fragments /\ Control("Abort", c).id = c
      /\ Control("Error", c) \in Fragments /\ Control("Error", c).id = c
      /\ Control("Cancel", c) \in Fragments /\ Control("Cancel", c).id = c
  BY PartsOf
<1>2. /\ Stream(Append(w, Control("Abort", c)), i, phase, e, streams)
      /\ Stream(Append(w, Control("Error", c)), i, phase, e, streams)
  BY <1>1, StreamOther
<1>3. Append(w, Control("Abort", c)) \in Seq(Fragments)
  BY <1>1, AppendPlaces
<1> QED BY <1>1, <1>2, <1>3, StreamOther

\* A fragment that is no part of a message leaves every message alone.
LEMMA StreamControl ==
  ASSUME NEW w \in Seq(Fragments), NEW c \in Calls, NEW part \in {"Cancel", "Error"}, NEW i,
         NEW phase, NEW e, NEW streams, Stream(w, i, phase, e, streams), TypeOK
  PROVE  Stream(Append(w, Control(part, c)), i, phase, e, streams)
<1>1. /\ Control(part, c) \in Fragments /\ Control(part, c).part = part
      /\ Control(part, c).first = FALSE
  BY DEF Control, Fragment, Fragments
<1>2. Control(part, c).part \notin Parts
  BY <1>1 DEF Parts
<1> QED BY <1>1, <1>2, StreamOther

LEMMA StreamTurn ==
  ASSUME BaseInv, RequestStreams, AdmitNext
  PROVE  RequestStreams'
<1>0. TypeOK /\ Up \in Seq(Fragments) /\ csend \in [Calls -> SendPhases]
  BY WayTypes DEF BaseInv, TypeOK
<1>1. PICK c \in Calls, S \in SUBSET active, T \in SUBSET Calls : Moved(c, S, T)
  BY TurnMoves
<1>2. sin' = sin
  BY DEF AdmitNext, srvVars
<1> SUFFICES ASSUME NEW j \in Calls PROVE Stream(Up', j, csend'[j], sin[j], ReqStreams)
  BY <1>2 DEF RequestStreams
<1>3. Stream(Up, j, csend[j], sin[j], ReqStreams)
  BY DEF RequestStreams
<1>4. j \in T => Stream(Up, j, csend'[j], sin[j], ReqStreams) /\ csend[j] = "none"
  <2>1. j \in T => csend[j] = "none" /\ csend'[j] = "queued"
    BY <1>1 DEF Moved
  <2> QED BY <1>3, <2>1, StreamUnsent
<1>5. j \notin T /\ j # c => Stream(Up, j, csend'[j], sin[j], ReqStreams)
  BY <1>1, <1>3 DEF Moved
<1>6. CASE Up' = Up /\ (c \notin T => csend'[c] = csend[c])
  BY <1>3, <1>4, <1>5, <1>6
<1>7. CASE (c \notin T => csend'[c] = csend[c]) /\ Up' = Append(Up, Control("Cancel", c))
  <2>1. Stream(Up, j, csend'[j], sin[j], ReqStreams)
    BY <1>3, <1>4, <1>5, <1>7
  <2> QED BY <1>0, <1>7, <2>1, StreamControl
<1>8. CASE /\ csend[c] = "trailer" /\ csend'[c] = "aborted"
           /\ Up' = Append(Append(Up, Control("Abort", c)), Control("Cancel", c))
  <2>1. CASE j # c
    BY <1>0, <1>4, <1>5, <1>8, <2>1, StreamOthers
  <2>2. CASE j = c
    <3>1. /\ Control("Abort", c) \in Fragments
          /\ Stream(Append(Up, Control("Abort", c)), c, "aborted", sin[c], ReqStreams)
      BY <1>0, <1>3, <1>8, <2>2, StreamAbort
    <3>2. Append(Up, Control("Abort", c)) \in Seq(Fragments)
      BY <1>0, <3>1, AppendPlaces
    <3> QED BY <1>0, <1>8, <2>2, <3>1, <3>2, StreamControl
  <2> QED BY <2>1, <2>2
<1>9. CASE csend[c] = "queued" /\ csend'[c] = "discarded" /\ Up' = Up
  <2>1. CASE j # c
    BY <1>4, <1>5, <1>9, <2>1
  <2>2. CASE j = c
    BY <1>3, <1>9, <2>2, StreamUnsent
  <2> QED BY <2>1, <2>2
<1>10. CASE csend[c] = "started" /\ csend'[c] = "aborted" /\ Up' = Append(Up, Control("Abort", c))
  <2>1. CASE j # c
    BY <1>0, <1>4, <1>5, <1>10, <2>1, StreamOthers
  <2>2. CASE j = c
    BY <1>0, <1>3, <1>10, <2>2, StreamAbort
  <2> QED BY <2>1, <2>2
<1> QED BY <1>1, <1>6, <1>7, <1>8, <1>9, <1>10 DEF Moved

LEMMA StreamSends ==
  ASSUME BaseInv, RequestStreams, NEW i \in Calls, SendRequest(i)
  PROVE  RequestStreams'
<1>0. TypeOK /\ Up \in Seq(Fragments) /\ csend \in [Calls -> SendPhases] /\ Sends(i)
  BY WayTypes, RequestSends DEF BaseInv, TypeOK
<1>1. sin' = sin
  BY DEF SendRequest, srvVars
<1> SUFFICES ASSUME NEW j \in Calls PROVE Stream(Up', j, csend'[j], sin[j], ReqStreams)
  BY <1>1 DEF RequestStreams
<1>2. Stream(Up, j, csend[j], sin[j], ReqStreams)
  BY DEF RequestStreams
<1>3. CASE \E step \in Steps(i, csend[i], ReqStreams) :
             Up' = Append(Up, step.fragment) /\ csend' = [csend EXCEPT ![i] = step.phase]
  <2> PICK step \in Steps(i, csend[i], ReqStreams) :
             Up' = Append(Up, step.fragment) /\ csend' = [csend EXCEPT ![i] = step.phase]
    BY <1>3
  <2>0. Advances(i, csend[i], ReqStreams, step)
    BY StepTypes
  <2>1. step.fragment \in Fragments /\ step.fragment.id = i
    BY <2>0 DEF Advances
  <2>2. CASE j = i
    <3>1. Stream(Append(Up, step.fragment), i, step.phase, sin[i], ReqStreams)
      BY <1>0, <1>2, <2>2, StreamStep
    <3> QED BY <1>0, <2>2, <3>1
  <2>3. CASE j # i
    <3>1. Stream(Append(Up, step.fragment), j, csend[j], sin[j], ReqStreams)
      BY <1>0, <1>2, <2>1, <2>3, StreamOther
    <3> QED BY <1>0, <2>3, <3>1
  <2> QED BY <2>2, <2>3
<1>4. CASE /\ csend[i] = "trailer" /\ csend' = [csend EXCEPT ![i] = "aborted"]
           /\ Up' = Append(Append(Up, Control("Abort", i)), Control("Cancel", i))
  <2>1. CASE j # i
    <3>1. csend'[j] = csend[j]
      BY <1>0, <1>4, <2>1
    <3> QED BY <1>0, <1>2, <1>4, <2>1, <3>1, StreamOthers
  <2>2. CASE j = i
    <3>1. /\ Control("Abort", i) \in Fragments
          /\ Stream(Append(Up, Control("Abort", i)), i, "aborted", sin[i], ReqStreams)
      BY <1>0, <1>2, <1>4, <2>2, StreamAbort
    <3>2. Append(Up, Control("Abort", i)) \in Seq(Fragments) /\ csend'[j] = "aborted"
      BY <1>0, <1>4, <2>2, <3>1, AppendPlaces
    <3> QED BY <1>0, <1>4, <2>2, <3>1, <3>2, StreamControl
  <2> QED BY <2>1, <2>2
<1> QED BY <1>0, <1>3, <1>4 DEF Sends

\* The server takes a fragment; sin is as the reassembler leaves it.
LEMMA StreamTaken ==
  ASSUME BaseInv, RequestStreams, c2s # <<>>, c2s' = Tail(c2s), ccontrol' = ccontrol, csend' = csend,
         \/ Head(c2s).part \in Parts /\ sin' = Accepted(sin, Head(c2s), ReqStreams)
         \/ Head(c2s).part \notin Parts /\ sin' = sin
  PROVE  RequestStreams'
<1> DEFINE f == Head(c2s)
<1>0. /\ TypeOK /\ Up \in Seq(Fragments) /\ csend \in [Calls -> SendPhases]
      /\ sin \in [Calls -> EntryPhases]
  BY WayTypes DEF BaseInv, TypeOK
<1>1. Up # <<>> /\ Up' = Tail(Up) /\ Head(Up) = f /\ f \in Fragments /\ f.id \in Calls
  BY <1>0, RequestTaken
<1> HIDE DEF f
<1> SUFFICES ASSUME NEW j \in Calls PROVE Stream(Tail(Up), j, csend[j], sin'[j], ReqStreams)
  BY <1>1 DEF RequestStreams
<1>2. Stream(Up, j, csend[j], sin[j], ReqStreams)
  BY DEF RequestStreams
<1>3. CASE f.part \in Parts /\ j = f.id
  <2>1. sin'[j] = After(f, ReqStreams)
    BY <1>0, <1>1, <1>3 DEF Accepted, After, f
  <2>2. csend[j] \in SendPhases /\ sin[j] \in EntryPhases
    BY <1>0
  <2>3. Stream(Tail(Up), j, csend[j], After(Head(Up), ReqStreams), ReqStreams)
    BY <1>0, <1>1, <1>2, <1>3, <2>2, StreamAccept
  <2> QED BY <1>1, <2>1, <2>3
<1>4. CASE ~(f.part \in Parts /\ j = f.id)
  <2>1. sin'[j] = sin[j]
    BY <1>0, <1>1, <1>4 DEF Accepted, f
  <2> QED BY <1>0, <1>1, <1>2, <1>4, <2>1, StreamSkip
<1> QED BY <1>3, <1>4

LEMMA RequestStep == BaseInv /\ RequestInv /\ [Next]_vars => RequestInv'
<1> SUFFICES ASSUME BaseInv, RequestInv, [Next]_vars, link' = "up" PROVE RequestStreams'
  BY DEF RequestInv
<1>0. TypeOK
  BY DEF BaseInv
<1>1. link = "up"
  BY DEF Next, vars, Begin, BeginQueued, Application, FinishTrailer, CancelCall, DropCall, Close, Fail,
       LoseLink, ClientTasks, AdmitNext, AbandonWaiting, SendControl, SendRequest, RecvResponse, RecvRequest,
       ServerFails, RecvCancel, StartDraining, Handler, Respond, DropContext, EnterGuard, LeaveGuard,
       SendResponse, AdmitResponse, SendServerControl, AtRest, netVars
<1>2. RequestStreams
  BY <1>1 DEF RequestInv
<1>3. ASSUME Up' = Up, csend' = csend, sin' = sin PROVE RequestStreams'
  BY <1>2, <1>3 DEF RequestStreams
<1>4. CASE AdmitNext
  BY <1>2, <1>4, StreamTurn
<1>5. CASE SendControl
  BY <1>0, <1>3, <1>5, ControlMoves DEF SendControl, srvVars
<1>6. CASE \E i \in Calls : SendRequest(i)
  BY <1>2, <1>6, StreamSends
<1>7. CASE RecvRequest
  <2>1. sin' = Accepted(sin, Head(c2s), ReqStreams) /\ Head(c2s).part \in Parts
    BY <1>7 DEF RecvRequest, ServerFails, Parts
  <2> QED BY <1>2, <1>7, <2>1, StreamTaken DEF RecvRequest, cwVars
<1>8. CASE RecvCancel
  <2>1. Head(c2s).part \notin Parts
    BY <1>8 DEF RecvCancel, Parts
  <2> QED BY <1>2, <1>8, <2>1, StreamTaken DEF RecvCancel, cwVars
<1>9. CASE SendServerControl
  BY <1>0, <1>3, <1>9, ControlMoves DEF SendServerControl, cwVars, srvVars
<1>10. CASE \/ \E i \in Calls : Begin(i) \/ BeginQueued(i) \/ Application(i)
            \/ Close \/ Fail \/ LoseLink \/ AbandonWaiting \/ AtRest \/ UNCHANGED vars
            \/ StartDraining \/ (\E i \in Calls : Handler(i) \/ LeaveGuard(i))
  <2>1. UNCHANGED <<c2s, ccontrol, csend, sin>>
    BY <1>10 DEF vars, Begin, BeginQueued, Application, FinishTrailer, CancelCall, DropCall, Close, Fail,
       LoseLink, AbandonWaiting, StartDraining, Handler, Respond, DropContext, EnterGuard, LeaveGuard,
       AtRest, netVars, cwVars, srvVars
  <2> QED BY <1>3, <2>1 DEF Up
<1>11. CASE AdmitResponse \/ RecvResponse \/ (\E i \in Calls : SendResponse(i))
  <2>1. UNCHANGED <<c2s, ccontrol, csend, sin>>
    BY <1>11 DEF SendResponse, AdmitResponse, RecvResponse, netVars, cwVars, srvVars
  <2> QED BY <1>3, <2>1 DEF Up
<1> QED BY <1>4, <1>5, <1>6, <1>7, <1>8, <1>9, <1>10, <1>11 DEF Next, ClientTasks

-----------------------------------------------------------------------------
(***************************************************************************)
(* The call in a slot is in one place.                                     *)
(***************************************************************************)

HeldCall(i) ==
  /\ Stream(Down, i, rsend[i], cin[i], RespStreams)
  /\ AnsweredOnce(i) /\ HeldOnce(i) /\ Dispatched(i)

Running == {"running", "told", "aborting"}

\* What a step may leave alone of a call: its request, its handler and what
\* that has answered, its response.
SameRequest(i) ==
  /\ csend'[i] = "none" <=> csend[i] = "none"
  /\ csend'[i] \in {"queued", "started"} <=> csend[i] \in {"queued", "started"}
  /\ Has(Up', i, "Head") <=> Has(Up, i, "Head")
  /\ (Has(Up', i, "Begin") \/ sin'[i] = "payload") => (Has(Up, i, "Begin") \/ sin[i] = "payload")

SameHandler(i) ==
  /\ i \in outstanding' <=> i \in outstanding
  /\ task'[i] \in Running <=> task[i] \in Running
  /\ Holds(squeue', i, Answers) <=> Holds(squeue, i, Answers)
  /\ Once(squeue', i, Answers)

SameResponse(i) ==
  /\ rsend'[i] = rsend[i]
  /\ Has(Down', i, "Head") <=> Has(Down, i, "Head")
  /\ Has(Down', i, "Error") <=> Has(Down, i, "Error")
  /\ (Has(Down', i, "Abort") /\ ~Has(Down', i, "Head") /\ cin'[i] # "trailer")
       <=> (Has(Down, i, "Abort") /\ ~Has(Down, i, "Head") /\ cin[i] # "trailer")
  /\ Once(Down', i, {"Error"})
  /\ Stream(Down', i, rsend'[i], cin'[i], RespStreams)

LEMMA HeldSame ==
  ASSUME NEW i \in Calls, HeldCall(i), SameRequest(i), SameHandler(i), SameResponse(i),
         i \in active' <=> i \in active
  PROVE  HeldCall(i)'
<1>1. Stream(Down', i, rsend'[i], cin'[i], RespStreams) /\ AnsweredOnce(i)'
  BY DEF SameResponse, SameHandler, AnsweredOnce
<1>2. HeldOnce(i)'
  BY DEF HeldCall, HeldOnce, SameRequest, SameHandler, SameResponse, One, AtClient, Coming, AtServer,
       Answered, Scheduled, Returning, Failing, Aborting, Discarded
<1>3. Dispatched(i)'
  BY DEF HeldCall, Dispatched, SameRequest, SameHandler, SameResponse, AtClient, Coming, AtServer,
       Answered, Failing, Running
<1> QED BY <1>1, <1>2, <1>3 DEF HeldCall

LEMMA RequestAlone ==
  ASSUME NEW i, Up' = Up, csend'[i] = csend[i], sin'[i] = sin[i]
  PROVE  SameRequest(i)
BY DEF SameRequest

LEMMA HandlerAlone ==
  ASSUME NEW i, HeldCall(i), UNCHANGED <<outstanding, task, squeue>>
  PROVE  SameHandler(i)
BY DEF SameHandler, HeldCall, AnsweredOnce

LEMMA ResponseAlone ==
  ASSUME NEW i, HeldCall(i), Down' = Down, rsend' = rsend, cin' = cin
  PROVE  SameResponse(i)
BY DEF SameResponse, HeldCall, AnsweredOnce

\* Messages to the server's writer, when they are about another call or no
\* answer.
LEMMA QueueAlone ==
  ASSUME TypeOK, NEW i \in Calls, Once(squeue, i, Answers), NEW c \in Calls,
         NEW part \in {"Response", "Error", "Cancel"}, c # i \/ part = "Cancel",
         squeue' = Append(squeue, Queued(part, c))
  PROVE  /\ Holds(squeue', i, Answers) <=> Holds(squeue, i, Answers)
         /\ Once(squeue', i, Answers)
<1> DEFINE M == [part : {"Response", "Error", "Cancel"}, id : Calls]
           m == Queued(part, c)
<1>1. squeue \in Seq(M) /\ m \in M /\ m.id = c /\ m.part = part
  BY DEF TypeOK, Queued
<1> HIDE DEF m, M
<1>2. ~(m.id = i /\ m.part \in Answers)
  BY <1>1 DEF Answers
<1>3. squeue' = Append(squeue, m)
  BY DEF m
<1> QED BY <1>1, <1>2, <1>3, OnceAppend

\* The answer of a call that has none yet.
LEMMA QueueOwn ==
  ASSUME TypeOK, NEW i \in Calls, ~Holds(squeue, i, Answers), NEW part \in Answers,
         Once(squeue, i, Answers), squeue' = Append(squeue, Queued(part, i))
  PROVE  Holds(squeue', i, Answers) /\ Once(squeue', i, Answers)
<1> DEFINE M == [part : {"Response", "Error", "Cancel"}, id : Calls]
           m == Queued(part, i)
<1>1. squeue \in Seq(M) /\ m \in M /\ m.id = i /\ m.part = part
  BY DEF TypeOK, Queued, Answers
<1> HIDE DEF m, M
<1>2. squeue' = Append(squeue, m)
  BY DEF m
<1> QED BY <1>1, <1>2, OnceAppend

\* An ABORT, a CANCEL or an ERROR is no Begin and no Head.
LEMMA ControlBesides ==
  ASSUME NEW w \in Seq(Fragments), NEW c \in Calls, NEW part \in {"Abort", "Cancel", "Error"},
         NEW i, NEW p, p # part
  PROVE  /\ Append(w, Control(part, c)) \in Seq(Fragments)
         /\ Has(Append(w, Control(part, c)), i, p) <=> Has(w, i, p)
<1>1. Control(part, c) \in Fragments /\ Control(part, c).part = part
  BY DEF Control, Fragment, Fragments
<1> QED BY <1>1, HasAppend, AppendPlaces

LEMMA HeldTurn ==
  ASSUME BaseInv, AdmitNext, \A i \in Calls : HeldCall(i)
  PROVE  \A i \in Calls : HeldCall(i)'
<1>0. TypeOK /\ Up \in Seq(Fragments)
  BY WayTypes DEF BaseInv
<1>1. PICK c \in Calls, S \in SUBSET active, T \in SUBSET Calls : Moved(c, S, T)
  BY TurnMoves
<1>2. /\ UNCHANGED <<rsend, cin, s2c, scontrol, sin, outstanding, task, squeue>>
      /\ Down' = Down
  BY DEF AdmitNext, netVars, srvVars, swVars, Down
<1> TAKE j \in Calls
<1>3. HeldCall(j) /\ SameHandler(j) /\ SameResponse(j)
  BY <1>2, HandlerAlone, ResponseAlone
<1>4. /\ Has(Up', j, "Head") <=> Has(Up, j, "Head")
      /\ Has(Up', j, "Begin") <=> Has(Up, j, "Begin")
  <2>1. \/ Up' = Up \/ Up' = Append(Up, Control("Cancel", c)) \/ Up' = Append(Up, Control("Abort", c))
        \/ Up' = Append(Append(Up, Control("Abort", c)), Control("Cancel", c))
    BY <1>1 DEF Moved
  <2>2. /\ Append(Up, Control("Abort", c)) \in Seq(Fragments)
        /\ Has(Append(Up, Control("Abort", c)), j, "Head") <=> Has(Up, j, "Head")
        /\ Has(Append(Up, Control("Abort", c)), j, "Begin") <=> Has(Up, j, "Begin")
    BY <1>0, ControlBesides
  <2>3. ASSUME NEW w \in Seq(Fragments)
        PROVE  /\ Has(Append(w, Control("Cancel", c)), j, "Head") <=> Has(w, j, "Head")
               /\ Has(Append(w, Control("Cancel", c)), j, "Begin") <=> Has(w, j, "Begin")
    BY ControlBesides
  <2>4. /\ Has(Append(Up, Control("Cancel", c)), j, "Head") <=> Has(Up, j, "Head")
        /\ Has(Append(Up, Control("Cancel", c)), j, "Begin") <=> Has(Up, j, "Begin")
    BY <1>0, <2>3
  <2>5. /\ Has(Append(Append(Up, Control("Abort", c)), Control("Cancel", c)), j, "Head") <=> Has(Up, j, "Head")
        /\ Has(Append(Append(Up, Control("Abort", c)), Control("Cancel", c)), j, "Begin") <=> Has(Up, j, "Begin")
    BY <2>2, <2>3
  <2> QED BY <2>1, <2>2, <2>4, <2>5, Zenon
<1>5. CASE j \in T
  <2>1. csend[j] = "none" /\ csend'[j] = "queued" /\ j \in active'
    BY <1>1, <1>5 DEF Moved
  <2>2. j \notin active /\ rsend[j] = "none"
    BY <1>3, <2>1 DEF HeldCall, Dispatched
  <2>3. HeldOnce(j)'
    BY <1>2, <1>3, <1>4, <2>1, <2>2 DEF HeldCall, HeldOnce, One, AtClient, Coming, AtServer,
       Answered, Scheduled, Returning, Failing, Aborting, Discarded
  <2>4. Dispatched(j)'
    BY <1>2, <1>3, <1>4, <2>1, <2>2 DEF HeldCall, Dispatched, Coming, AtServer, Answered, Failing
  <2> QED BY <1>3, <2>3, <2>4 DEF HeldCall, SameResponse, SameHandler, AnsweredOnce
<1>6. CASE j \notin T /\ csend'[j] = csend[j] /\ (j \in S <=> j \in active)
  <2>1. SameRequest(j) /\ (j \in active' <=> j \in active)
    BY <1>1, <1>2, <1>4, <1>6 DEF SameRequest, Moved
  <2> QED BY <1>3, <2>1, HeldSame
<1>7. CASE j \notin T /\ csend[j] = "trailer" /\ csend'[j] = "aborted" /\ S = active
  <2>1. SameRequest(j) /\ (j \in active' <=> j \in active)
    BY <1>1, <1>2, <1>4, <1>7 DEF SameRequest, Moved
  <2> QED BY <1>3, <2>1, HeldSame
<1>8. CASE /\ j \notin T /\ csend[j] \in {"queued", "started"} /\ csend'[j] \in {"discarded", "aborted"}
           /\ j \notin S
  <2>1. j \notin active'
    BY <1>1, <1>8 DEF Moved
  <2>2. HeldOnce(j)' /\ ~Coming(j) /\ ~AtServer(j) /\ ~Answered(j) /\ ~Failing(j)
    BY <1>2, <1>3, <1>4, <1>8, <2>1 DEF HeldCall, HeldOnce, One, AtClient, Coming, AtServer,
       Answered, Scheduled, Returning, Failing, Aborting, Discarded
  <2>3. Dispatched(j)'
    BY <1>2, <1>3, <1>4, <1>8, <2>2 DEF HeldCall, Dispatched, AtClient, Coming, AtServer, Answered, Failing
  <2> QED BY <1>3, <2>2, <2>3 DEF HeldCall, SameResponse, SameHandler, AnsweredOnce
<1> QED
  <2>1. \/ j \in T
        \/ j \notin T /\ csend'[j] = csend[j] /\ (j \in S <=> j \in active)
        \/ j \notin T /\ csend[j] = "trailer" /\ csend'[j] = "aborted" /\ S = active
        \/ /\ j \notin T /\ csend[j] \in {"queued", "started"} /\ csend'[j] \in {"discarded", "aborted"}
           /\ j \notin S
    BY <1>1 DEF Moved
  <2> QED BY <1>5, <1>6, <1>7, <1>8, <2>1

LEMMA HeldSends ==
  ASSUME BaseInv, RequestStreams, NEW i \in Calls, SendRequest(i), \A j \in Calls : HeldCall(j)
  PROVE  \A j \in Calls : HeldCall(j)'
<1>0. TypeOK /\ Up \in Seq(Fragments) /\ csend \in [Calls -> SendPhases] /\ Sends(i)
  BY WayTypes, RequestSends DEF BaseInv, TypeOK
<1>1. /\ UNCHANGED <<rsend, cin, s2c, scontrol, sin, outstanding, task, squeue, active>>
      /\ Down' = Down
  BY DEF SendRequest, srvVars, swVars, Down
<1> TAKE j \in Calls
<1>2. HeldCall(j) /\ SameHandler(j) /\ SameResponse(j)
  BY <1>1, HandlerAlone, ResponseAlone
<1>3. CASE \E step \in Steps(i, csend[i], ReqStreams) :
             Up' = Append(Up, step.fragment) /\ csend' = [csend EXCEPT ![i] = step.phase]
  <2> PICK step \in Steps(i, csend[i], ReqStreams) :
             Up' = Append(Up, step.fragment) /\ csend' = [csend EXCEPT ![i] = step.phase]
    BY <1>3
  <2> DEFINE f == step.fragment
  <2>0. Advances(i, csend[i], ReqStreams, step)
    BY StepTypes
  <2>1. /\ f \in Fragments /\ f.id = i /\ Up' = Append(Up, f)
        /\ \/ csend[i] = "queued" /\ f.part = "Begin" /\ csend'[i] = "started"
           \/ csend[i] \in {"queued", "started"} /\ f.part = "Head" /\ csend'[i] \in {"trailer", "sent"}
           \/ csend[i] = "trailer" /\ f.part = "Tail" /\ csend'[i] = "sent"
    BY <1>0, <2>0 DEF Advances
  <2> HIDE DEF f
  <2>2. \A p : Has(Up', j, p) <=> (Has(Up, j, p) \/ (i = j /\ f.part = p))
    BY <1>0, <2>1, HasAppend
  <2>3. CASE j # i
    <3>1. csend'[j] = csend[j]
      BY <1>0, <2>3
    <3>2. SameRequest(j)
      BY <1>1, <2>2, <2>3, <3>1 DEF SameRequest
    <3> QED BY <1>1, <1>2, <3>2, HeldSame
  <2>4. CASE j = i /\ f.part = "Begin"
    <3>1. /\ csend[i] = "queued" /\ csend'[i] = "started"
          /\ Has(Up', j, "Head") <=> Has(Up, j, "Head")
      BY <2>1, <2>2, <2>4
    <3>2. HeldOnce(j)' /\ ~AtServer(j)
      BY <1>1, <1>2, <2>4, <3>1 DEF HeldCall, HeldOnce, One, AtClient, Coming, AtServer,
         Answered, Scheduled, Returning, Failing, Aborting, Discarded
    <3>3. Dispatched(j)'
      BY <1>1, <1>2, <2>4, <3>1, <3>2 DEF HeldCall, Dispatched, AtClient, Coming, AtServer, Answered, Failing
    <3> QED BY <1>2, <3>2, <3>3 DEF HeldCall, SameResponse, SameHandler, AnsweredOnce
  <2>5. CASE j = i /\ f.part = "Head"
    <3>1. /\ csend[i] \in {"queued", "started"} /\ csend'[i] \in {"trailer", "sent"}
          /\ Has(Up', j, "Head") /\ (Has(Up', j, "Begin") <=> Has(Up, j, "Begin"))
      BY <2>1, <2>2, <2>5
    <3>2. ~Has(Up, j, "Head")
      BY <1>0, <2>5, <3>1 DEF RequestStreams, Stream, Leads, Parts
    <3>3. HeldOnce(j)'
      BY <1>1, <1>2, <2>5, <3>1, <3>2 DEF HeldCall, HeldOnce, One, AtClient, Coming, AtServer,
         Answered, Scheduled, Returning, Failing, Aborting, Discarded
    <3>4. Dispatched(j)'
      BY <1>1, <1>2, <2>5, <3>1 DEF HeldCall, Dispatched, AtClient, Coming, AtServer, Answered, Failing
    <3> QED BY <1>2, <3>3, <3>4 DEF HeldCall, SameResponse, SameHandler, AnsweredOnce
  <2>6. CASE j = i /\ f.part = "Tail"
    <3>1. SameRequest(j)
      BY <1>1, <2>1, <2>2, <2>6 DEF SameRequest
    <3> QED BY <1>1, <1>2, <3>1, HeldSame
  <2> QED BY <2>1, <2>3, <2>4, <2>5, <2>6
<1>4. CASE /\ csend[i] = "trailer" /\ csend' = [csend EXCEPT ![i] = "aborted"]
           /\ Up' = Append(Append(Up, Control("Abort", i)), Control("Cancel", i))
  <2>1. /\ Append(Up, Control("Abort", i)) \in Seq(Fragments)
        /\ Has(Append(Up, Control("Abort", i)), j, "Head") <=> Has(Up, j, "Head")
        /\ Has(Append(Up, Control("Abort", i)), j, "Begin") <=> Has(Up, j, "Begin")
    BY <1>0, ControlBesides
  <2>2. /\ Has(Up', j, "Head") <=> Has(Up, j, "Head")
        /\ Has(Up', j, "Begin") <=> Has(Up, j, "Begin")
    BY <1>4, <2>1, ControlBesides
  <2>3. csend'[j] = csend[j] \/ (csend[j] = "trailer" /\ csend'[j] = "aborted")
    BY <1>0, <1>4
  <2>4. SameRequest(j)
    BY <1>1, <2>2, <2>3 DEF SameRequest
  <2> QED BY <1>1, <1>2, <2>4, HeldSame
<1> QED BY <1>0, <1>3, <1>4 DEF Sends

LEMMA HeldRequest ==
  ASSUME BaseInv, RequestStreams, RecvRequest, link' = "up", \A j \in Calls : HeldCall(j)
  PROVE  \A j \in Calls : HeldCall(j)'
<1> DEFINE f == Head(c2s)
           i == f.id
<1>0. /\ TypeOK /\ Up \in Seq(Fragments) /\ sin \in [Calls -> EntryPhases]
      /\ task \in [Calls -> {"none", "running", "told", "aborting", "done"}]
      /\ csend \in [Calls -> SendPhases]
  BY WayTypes DEF BaseInv, TypeOK
<1>1. /\ f.part \in Parts /\ sin' = Accepted(sin, f, ReqStreams)
      /\ \/ /\ f.part = "Head" /\ squeue' = Append(squeue, Queued("Error", i))
            /\ UNCHANGED <<outstanding, task>>
         \/ /\ f.part = "Head" /\ outstanding' = outstanding \cup {i}
            /\ task' = [task EXCEPT ![i] = "running"] /\ UNCHANGED squeue
         \/ f.part # "Head" /\ UNCHANGED <<outstanding, task, squeue>>
  BY DEF RecvRequest, ServerFails, Parts
<1>2. /\ UNCHANGED <<rsend, cin, s2c, scontrol, csend, active>> /\ Down' = Down
  BY DEF RecvRequest, cwVars, Down
<1>3. Up # <<>> /\ Up' = Tail(Up) /\ Head(Up) = f /\ f \in Fragments /\ i \in Calls
  BY <1>0, RequestTaken DEF RecvRequest, cwVars
<1> HIDE DEF f, i
<1> TAKE j \in Calls
<1>4. HeldCall(j) /\ SameResponse(j)
  BY <1>2, ResponseAlone
<1>5. /\ \A p : Has(Up, j, p) <=> (Has(Up', j, p) \/ (i = j /\ f.part = p))
      /\ InOrder(Up, j)
  BY <1>0, <1>3, HasTail DEF i, RequestStreams, Stream
<1>6. CASE j # i
  <2>1. sin'[j] = sin[j] /\ (task'[j] = task[j]) /\ (j \in outstanding' <=> j \in outstanding)
    BY <1>0, <1>1, <1>3, <1>6 DEF Accepted, i
  <2>2. SameRequest(j)
    BY <1>2, <1>5, <1>6, <2>1 DEF SameRequest
  <2>3. /\ Holds(squeue', j, Answers) <=> Holds(squeue, j, Answers)
        /\ Once(squeue', j, Answers)
    <3>1. Once(squeue, j, Answers)
      BY <1>4 DEF HeldCall, AnsweredOnce
    <3>2. CASE squeue' = squeue
      BY <3>1, <3>2
    <3>3. CASE squeue' = Append(squeue, Queued("Error", i))
      BY <1>0, <1>3, <1>6, <3>1, <3>3, QueueAlone
    <3> QED BY <1>1, <3>2, <3>3
  <2>4. SameHandler(j)
    BY <2>1, <2>3 DEF SameHandler
  <2> QED BY <1>2, <1>4, <2>2, <2>4, HeldSame
<1>7. CASE j = i /\ f.part # "Head"
  <2>1. (Has(Up', j, "Begin") \/ sin'[j] = "payload") => (Has(Up, j, "Begin") \/ sin[j] = "payload")
    <3>1. sin'[j] = "payload" => f.part = "Begin"
      BY <1>0, <1>1, <1>3, <1>7 DEF Accepted, i
    <3> QED BY <1>5, <1>7, <3>1
  <2>2. SameRequest(j)
    BY <1>2, <1>5, <1>7, <2>1 DEF SameRequest
  <2>3. SameHandler(j)
    BY <1>1, <1>4, <1>7, HandlerAlone
  <2> QED BY <1>2, <1>4, <2>2, <2>3, HeldSame
<1>8. CASE j = i /\ f.part = "Head"
  <2>1. /\ Has(Up, j, "Head") /\ ~Has(Up', j, "Head") /\ ~Has(Up', j, "Begin") /\ sin'[j] # "payload"
    <3>1. Has(Up, j, "Head")
      BY <1>5, <1>8
    <3>2. ~Has(Up', j, "Head")
      BY <1>0, <1>3, <1>5, <1>8, HasTail DEF i, Parts
    <3>3. ~Has(Up', j, "Begin")
      <4>1. Has(Up', j, "Begin") => Earlier("Head", "Begin")
        BY <1>0, <1>3, <1>5, <1>8, OrderHead DEF i, Parts
      <4> QED BY <4>1 DEF Earlier
    <3>4. sin'[j] # "payload"
      BY <1>0, <1>1, <1>3, <1>8 DEF Accepted, i
    <3> QED BY <3>1, <3>2, <3>3, <3>4
  <2>2. /\ rsend[j] = "none" /\ csend[j] # "none" /\ csend[j] \notin {"queued", "started"}
        /\ j \notin outstanding /\ ~Holds(squeue, j, Answers)
        /\ ~Has(Down, j, "Head") /\ ~Has(Down, j, "Error") /\ ~Aborting(j) /\ j \in active
    <3>1. rsend[j] = "none"
      BY <1>4, <2>1 DEF HeldCall, Dispatched, Coming
    <3>2. csend[j] # "none"
      BY <2>1 DEF RequestStreams, Stream, Leads, Parts
    <3> QED BY <1>4, <2>1, <3>1, <3>2 DEF HeldCall, HeldOnce, One, AtClient, Coming, AtServer,
               Answered, Scheduled, Returning, Failing, Aborting, Discarded
  <2>3. CASE squeue' = Append(squeue, Queued("Error", i)) /\ UNCHANGED <<outstanding, task>>
    <3>1. Holds(squeue', j, Answers) /\ Once(squeue', j, Answers)
      <4>1. Once(squeue, j, Answers) /\ "Error" \in Answers
        BY <1>4 DEF HeldCall, AnsweredOnce, Answers
      <4> QED BY <1>0, <1>8, <2>2, <2>3, <4>1, QueueOwn
    <3>2. HeldOnce(j)'
      BY <1>2, <1>4, <2>1, <2>2, <2>3, <3>1 DEF HeldCall, HeldOnce, One, AtClient, Coming, AtServer,
         Answered, Scheduled, Returning, Failing, Aborting, Discarded
    <3>3. Dispatched(j)'
      BY <1>2, <1>4, <2>1, <2>2, <2>3 DEF HeldCall, Dispatched, AtClient, Coming, AtServer, Answered, Failing
    <3> QED BY <1>4, <3>1, <3>2, <3>3 DEF HeldCall, SameResponse, AnsweredOnce
  <2>4. CASE /\ outstanding' = outstanding \cup {i} /\ task' = [task EXCEPT ![i] = "running"]
             /\ UNCHANGED squeue
    <3>1. j \in outstanding' /\ task'[j] = "running"
      BY <1>0, <1>8, <2>4
    <3>2. HeldOnce(j)'
      BY <1>2, <1>4, <2>1, <2>2, <2>4, <3>1 DEF HeldCall, HeldOnce, One, AtClient, Coming, AtServer,
         Answered, Scheduled, Returning, Failing, Aborting, Discarded
    <3>3. Dispatched(j)'
      BY <1>2, <1>4, <2>1, <2>2, <2>4, <3>1 DEF HeldCall, Dispatched, AtClient, Coming, AtServer, Answered, Failing
    <3> QED BY <1>4, <2>4, <3>2, <3>3 DEF HeldCall, SameResponse, AnsweredOnce
  <2> QED BY <1>1, <1>8, <2>3, <2>4
<1> QED BY <1>6, <1>7, <1>8

LEMMA HeldCancel ==
  ASSUME BaseInv, RecvCancel, \A j \in Calls : HeldCall(j)
  PROVE  \A j \in Calls : HeldCall(j)'
<1> DEFINE i == Head(c2s).id
<1>0. /\ TypeOK /\ Up \in Seq(Fragments)
      /\ task \in [Calls -> {"none", "running", "told", "aborting", "done"}]
  BY WayTypes DEF BaseInv, TypeOK
<1>1. /\ Head(c2s).part = "Cancel" /\ sin' = sin /\ outstanding' = outstanding
      /\ \/ /\ i \in outstanding /\ squeue' = squeue
            /\ task' = [task EXCEPT ![i] = "told"] \/ task' = [task EXCEPT ![i] = "aborting"]
         \/ squeue' = Append(squeue, Queued("Cancel", i)) /\ task' = task
  BY DEF RecvCancel
<1>2. /\ UNCHANGED <<rsend, cin, s2c, scontrol, csend, active>> /\ Down' = Down
  BY DEF RecvCancel, cwVars, Down
<1>3. Up # <<>> /\ Up' = Tail(Up) /\ Head(Up) = Head(c2s) /\ i \in Calls
  BY <1>0, RequestTaken DEF RecvCancel, cwVars
<1> HIDE DEF i
<1> TAKE j \in Calls
<1>4. HeldCall(j) /\ SameResponse(j)
  BY <1>2, ResponseAlone
<1>5. \A p : p # "Cancel" => (Has(Up, j, p) <=> Has(Up', j, p))
  BY <1>0, <1>1, <1>3, HasTail
<1>6. SameRequest(j)
  BY <1>1, <1>2, <1>5 DEF SameRequest
<1>7. SameHandler(j)
  <2>1. Once(squeue, j, Answers) /\ (task[j] \in Running <=> j \in outstanding)
    BY <1>4 DEF HeldCall, AnsweredOnce, Dispatched, Running
  <2>2. CASE squeue' = squeue
    <3>1. task'[j] = task[j] \/ (j = i /\ i \in outstanding /\ task'[j] \in Running) \/ task' = task
      BY <1>0, <1>1, <1>3 DEF Running
    <3> QED BY <1>1, <2>1, <2>2, <3>1 DEF SameHandler
  <2>3. CASE squeue' = Append(squeue, Queued("Cancel", i)) /\ task' = task
    <3>1. /\ Holds(squeue', j, Answers) <=> Holds(squeue, j, Answers)
          /\ Once(squeue', j, Answers)
      BY <1>0, <1>3, <2>1, <2>3, QueueAlone
    <3> QED BY <1>1, <2>3, <3>1 DEF SameHandler
  <2> QED BY <1>1, <2>2, <2>3
<1> QED BY <1>2, <1>4, <1>6, <1>7, HeldSame

\* A handler answers.
LEMMA HeldAnswer ==
  ASSUME BaseInv, NEW i \in Calls, Respond(i) \/ DropContext(i), \A j \in Calls : HeldCall(j)
  PROVE  \A j \in Calls : HeldCall(j)'
<1>0. /\ TypeOK /\ task \in [Calls -> {"none", "running", "told", "aborting", "done"}]
  BY DEF BaseInv, TypeOK
<1>1. PICK part \in Answers : Answer(i, part)
  BY DEF Respond, DropContext, Answers
<1>2. /\ task' = [task EXCEPT ![i] = "done"] /\ outstanding' = outstanding \ {i}
      /\ squeue' = Append(squeue, Queued(part, i)) /\ task[i] \in Running
  BY <1>1 DEF Answer, Respond, DropContext, HasContext, Running
<1>3. /\ UNCHANGED <<rsend, cin, csend, sin, active>> /\ Down' = Down /\ Up' = Up
  BY DEF Respond, DropContext, cwVars, netVars, Down, Up
<1> TAKE j \in Calls
<1>4. HeldCall(j) /\ SameResponse(j) /\ SameRequest(j) /\ Once(squeue, j, Answers)
  BY <1>3, ResponseAlone, RequestAlone DEF HeldCall, AnsweredOnce
<1>5. CASE j # i
  <2>1. /\ Holds(squeue', j, Answers) <=> Holds(squeue, j, Answers)
        /\ Once(squeue', j, Answers)
    BY <1>0, <1>2, <1>4, <1>5, QueueAlone DEF Answers
  <2>2. task'[j] = task[j] /\ (j \in outstanding' <=> j \in outstanding)
    BY <1>0, <1>2, <1>5
  <2>3. SameHandler(j)
    BY <2>1, <2>2 DEF SameHandler
  <2> QED BY <1>3, <1>4, <2>3, HeldSame
<1>6. CASE j = i
  <2>1. j \in outstanding
    BY <1>2, <1>4, <1>6 DEF HeldCall, Dispatched, Running
  <2>2. ~Holds(squeue, j, Answers) /\ rsend[j] = "none"
    <3>1. rsend[j] = "none"
      BY <1>4, <2>1 DEF HeldCall, Dispatched, AtServer
    <3> QED BY <1>4, <2>1, <3>1 DEF HeldCall, HeldOnce, One, AtClient, Coming, AtServer,
         Answered, Scheduled, Returning, Failing, Aborting, Discarded
  <2>3. Holds(squeue', j, Answers) /\ Once(squeue', j, Answers)
    BY <1>0, <1>2, <1>4, <1>6, <2>2, QueueOwn
  <2>4. j \notin outstanding' /\ task'[j] = "done"
    BY <1>0, <1>2, <1>6
  <2>5. HeldOnce(j)'
    BY <1>3, <1>4, <2>1, <2>2, <2>3, <2>4 DEF HeldCall, HeldOnce, One, AtClient, Coming, AtServer,
         Answered, Scheduled, Returning, Failing, Aborting, Discarded
  <2>6. Dispatched(j)'
    BY <1>3, <1>4, <2>1, <2>2, <2>4 DEF HeldCall, Dispatched
  <2> QED BY <1>4, <2>3, <2>5, <2>6 DEF HeldCall, SameResponse, AnsweredOnce
<1> QED BY <1>5, <1>6

\* A fragment of another call's response is sent, or taken.
LEMMA ResponseOther ==
  ASSUME TypeOK, NEW j \in Calls, HeldCall(j), rsend'[j] = rsend[j], cin'[j] = cin[j],
         \/ \E f \in Fragments : f.id # j /\ Down' = Append(Down, f)
         \/ Down # <<>> /\ Head(Down).id # j /\ Down' = Tail(Down)
  PROVE  SameResponse(j)
<1>0. Down \in Seq(Fragments) /\ Once(Down, j, {"Error"}) /\ Stream(Down, j, rsend[j], cin[j], RespStreams)
  BY WayTypes DEF HeldCall, AnsweredOnce
<1>1. CASE \E f \in Fragments : f.id # j /\ Down' = Append(Down, f)
  <2> PICK f \in Fragments : f.id # j /\ Down' = Append(Down, f)
    BY <1>1
  <2>1. \A p : Has(Down', j, p) <=> Has(Down, j, p)
    BY <1>0, HasAppend
  <2>2. Once(Down', j, {"Error"})
    BY <1>0, OnceAppend
  <2>3. Stream(Down', j, rsend[j], cin[j], RespStreams)
    BY <1>0, StreamOther
  <2> QED BY <2>1, <2>2, <2>3 DEF SameResponse
<1>2. CASE Down # <<>> /\ Head(Down).id # j /\ Down' = Tail(Down)
  <2>1. \A p : Has(Down', j, p) <=> Has(Down, j, p)
    BY <1>0, <1>2, HasTail
  <2>2. Once(Down', j, {"Error"})
    BY <1>0, <1>2, OnceTail
  <2>3. Stream(Down', j, rsend[j], cin[j], RespStreams)
    BY <1>0, <1>2, StreamSkip
  <2> QED BY <2>1, <2>2, <2>3 DEF SameResponse
<1> QED BY <1>1, <1>2

\* A fragment that is no ERROR leaves the failures alone.
LEMMA ErrorsAlone ==
  ASSUME TypeOK, NEW j, Once(Down, j, {"Error"}), NEW f \in Fragments, f.part # "Error",
         Down' = Append(Down, f)
  PROVE  Once(Down', j, {"Error"})
<1>1. Down \in Seq(Fragments)
  BY WayTypes
<1> QED BY <1>1, OnceAppend

\* A response past its first fragment is taken back.
LEMMA HeldAborts ==
  ASSUME TypeOK, NEW i \in Calls, \A j \in Calls : HeldCall(j),
         \A j \in Calls : SameRequest(j) /\ SameHandler(j), active' = active, cin' = cin,
         rsend[i] \in {"started", "trailer"}, rsend' = [rsend EXCEPT ![i] = "aborted"],
         Down' = Append(Down, Control("Abort", i))
  PROVE  \A j \in Calls : HeldCall(j)'
<1>0. Down \in Seq(Fragments) /\ rsend \in [Calls -> SendPhases]
  BY WayTypes DEF TypeOK
<1>1. /\ Control("Abort", i) \in Fragments /\ Control("Abort", i).id = i
      /\ Control("Abort", i).part = "Abort"
  BY PartsOf
<1> TAKE j \in Calls
<1>2. CASE j # i
  <2>1. SameResponse(j)
    BY <1>0, <1>1, <1>2, ResponseOther
  <2> QED BY <2>1, HeldSame
<1>3. CASE j = i
  <2>1. /\ HeldCall(j) /\ SameRequest(j) /\ SameHandler(j)
        /\ Once(Down, j, {"Error"}) /\ Stream(Down, j, rsend[j], cin[j], RespStreams)
    BY DEF HeldCall, AnsweredOnce
  <2>2. Stream(Down', j, "aborted", cin[j], RespStreams) /\ rsend'[j] = "aborted"
    BY <1>0, <1>3, <2>1, StreamAbort
  <2>3. /\ Has(Down', j, "Abort") /\ (Has(Down', j, "Head") <=> Has(Down, j, "Head"))
        /\ (Has(Down', j, "Error") <=> Has(Down, j, "Error"))
    BY <1>0, <1>1, <1>3, HasAppend
  <2>4. Once(Down', j, {"Error"})
    BY <1>1, <2>1, ErrorsAlone
  <2>5. /\ ~Has(Down, j, "Abort")
        /\ rsend[j] = "started" => ~Has(Down, j, "Head") /\ cin[j] # "trailer"
        /\ rsend[j] = "trailer" => Has(Down, j, "Head") \/ cin[j] = "trailer"
    BY <1>3, <2>1 DEF Stream, Leads, Continues
  <2>6. HeldOnce(j)'
    BY <1>3, <2>1, <2>2, <2>3, <2>5 DEF HeldCall, HeldOnce, SameRequest, SameHandler, One, AtClient, Coming,
         AtServer, Answered, Scheduled, Returning, Failing, Aborting, Discarded
  <2>7. Dispatched(j)'
    BY <1>3, <2>1, <2>2, <2>3 DEF HeldCall, Dispatched, SameRequest, SameHandler, AtClient, Coming, AtServer,
         Answered, Failing, Running
  <2> QED BY <2>1, <2>2, <2>4, <2>6, <2>7 DEF HeldCall, SameHandler, AnsweredOnce
<1> QED BY <1>2, <1>3

LEMMA HeldResponds ==
  ASSUME BaseInv, NEW i \in Calls, SendResponse(i), \A j \in Calls : HeldCall(j)
  PROVE  \A j \in Calls : HeldCall(j)'
<1>0. /\ TypeOK /\ Down \in Seq(Fragments) /\ rsend \in [Calls -> SendPhases] /\ scontrol = <<>>
      /\ s2c \in Seq(Fragments) /\ scontrol \in Seq(Fragments)
  BY WayTypes, PartsOf DEF BaseInv, TypeOK, SendResponse
<1>1. /\ UNCHANGED <<cin, csend, sin, outstanding, task, squeue, active>> /\ Up' = Up
  BY DEF SendResponse, srvVars, cwVars, Up
<1>2. \A j \in Calls : SameRequest(j) /\ SameHandler(j)
  BY <1>1, RequestAlone, HandlerAlone
<1>3. CASE \E step \in Steps(i, rsend[i], RespStreams) :
             /\ s2c' = Append(s2c, step.fragment)
             /\ rsend' = [rsend EXCEPT ![i] = step.phase]
             /\ UNCHANGED scontrol
  <2> PICK step \in Steps(i, rsend[i], RespStreams) :
             /\ s2c' = Append(s2c, step.fragment)
             /\ rsend' = [rsend EXCEPT ![i] = step.phase]
             /\ UNCHANGED scontrol
    BY <1>3
  <2> DEFINE f == step.fragment
  <2>0. Advances(i, rsend[i], RespStreams, step)
    BY StepTypes
  <2>1. /\ f \in Fragments /\ f.id = i
        /\ \/ rsend[i] = "queued" /\ f.part = "Begin" /\ step.phase = "started"
           \/ rsend[i] \in {"queued", "started"} /\ f.part = "Head" /\ step.phase \in {"trailer", "sent"}
           \/ rsend[i] = "trailer" /\ f.part = "Tail" /\ step.phase = "sent"
    BY <2>0 DEF Advances
  <2>2. Down' = Append(Down, f)
    <3>1. Append(s2c, f) \o scontrol = Append(s2c \o scontrol, f)
      BY <1>0, <2>1, ConcatAppend
    <3> QED BY <3>1 DEF Down
  <2>3. \A j \in Calls : j = i => Stream(Append(Down, f), j, step.phase, cin[j], RespStreams)
    BY <1>0, StreamStep DEF HeldCall
  <2> HIDE DEF f
  <2> TAKE j \in Calls
  <2>4. CASE j # i
    <3>1. rsend'[j] = rsend[j] /\ cin'[j] = cin[j]
      BY <1>0, <1>1, <2>4
    <3>2. SameResponse(j)
      BY <1>0, <2>1, <2>2, <2>4, <3>1, ResponseOther
    <3> QED BY <1>1, <1>2, <3>2, HeldSame
  <2>5. CASE j = i
    <3>1. /\ HeldCall(j) /\ SameRequest(j) /\ SameHandler(j)
          /\ Once(Down, j, {"Error"}) /\ Stream(Down, j, rsend[j], cin[j], RespStreams)
      BY <1>2 DEF HeldCall, AnsweredOnce
    <3>2. /\ \A p : Has(Down', j, p) <=> (Has(Down, j, p) \/ f.part = p)
          /\ rsend'[j] = step.phase /\ Stream(Down', j, step.phase, cin[j], RespStreams)
      BY <1>0, <2>1, <2>2, <2>3, <2>5, HasAppend
    <3>3. Once(Down', j, {"Error"})
      <4>1. f.part # "Error"
        BY <2>1
      <4> QED BY <1>0, <2>1, <2>2, <3>1, <4>1, ErrorsAlone
    <3>4. ~Has(Down, j, "Abort") /\ (f.part = "Head" => ~Has(Down, j, "Head"))
      BY <2>1, <2>5, <3>1 DEF Stream, Leads, Parts
    <3>5. /\ Has(Down', j, "Head") <=> (Has(Down, j, "Head") \/ f.part = "Head")
          /\ Has(Down', j, "Error") <=> Has(Down, j, "Error")
          /\ ~Has(Down', j, "Abort")
      BY <2>1, <3>2, <3>4
    <3>6. HeldOnce(j)'
      BY <1>1, <2>1, <2>5, <3>1, <3>2, <3>4, <3>5 DEF HeldCall, HeldOnce, SameRequest, SameHandler, One, AtClient, Coming,
         AtServer, Answered, Scheduled, Returning, Failing, Aborting, Discarded
    <3>7. Dispatched(j)'
      BY <1>1, <2>1, <2>5, <3>1, <3>2, <3>5 DEF HeldCall, Dispatched, SameRequest, SameHandler, AtClient, Coming, AtServer,
         Answered, Failing, Running
    <3> QED BY <1>1, <3>1, <3>2, <3>3, <3>6, <3>7 DEF HeldCall, SameHandler, AnsweredOnce
  <2> QED BY <2>4, <2>5
<1>4. CASE /\ rsend[i] = "trailer" /\ scontrol' = <<Control("Abort", i)>>
           /\ rsend' = [rsend EXCEPT ![i] = "aborted"] /\ UNCHANGED s2c
  <2>1. Control("Abort", i) \in Fragments
    BY <1>0, PartsOf
  <2>2. Down' = Append(Down, Control("Abort", i))
    <3>1. s2c \o <<Control("Abort", i)>> = Append(s2c \o scontrol, Control("Abort", i))
      BY <1>0, <2>1, ConcatAppend
    <3> QED BY <1>4, <3>1 DEF Down
  <2> QED BY <1>0, <1>1, <1>2, <1>4, <2>2, HeldAborts
<1> QED BY <1>3, <1>4 DEF SendResponse

\* The server's writer takes a message from its queue.
LEMMA HeldAdmits ==
  ASSUME BaseInv, AdmitResponse, \A j \in Calls : HeldCall(j)
  PROVE  \A j \in Calls : HeldCall(j)'
<1> DEFINE M == [part : {"Response", "Error", "Cancel"}, id : Calls]
           m == Head(squeue)
           i == m.id
<1>0. /\ TypeOK /\ Down \in Seq(Fragments) /\ rsend \in [Calls -> SendPhases]
      /\ s2c \in Seq(Fragments) /\ scontrol \in Seq(Fragments) /\ squeue \in Seq(M)
  BY WayTypes, PartsOf DEF BaseInv, TypeOK
<1>1. /\ UNCHANGED <<cin, csend, sin, outstanding, task, active, s2c>> /\ Up' = Up
      /\ squeue # <<>> /\ squeue' = Tail(squeue)
  BY DEF AdmitResponse, srvVars, cwVars, netVars, Up
<1>2. \/ m.part = "Response" /\ rsend' = [rsend EXCEPT ![i] = "queued"] /\ scontrol' = scontrol
      \/ m.part = "Error" /\ scontrol' = Append(scontrol, Control("Error", i)) /\ rsend' = rsend
      \/ /\ m.part = "Cancel" /\ rsend[i] = "queued"
         /\ rsend' = [rsend EXCEPT ![i] = "discarded"] /\ scontrol' = scontrol
      \/ /\ m.part = "Cancel" /\ rsend[i] \in {"started", "trailer"}
         /\ rsend' = [rsend EXCEPT ![i] = "aborted"]
         /\ scontrol' = Append(scontrol, Control("Abort", i))
      \/ m.part = "Cancel" /\ rsend' = rsend /\ scontrol' = scontrol
  BY DEF AdmitResponse
<1> HIDE DEF M
<1>3. m \in M
  BY <1>0, <1>1, TailPlaces
<1> HIDE DEF m
<1>4. i \in Calls
  BY <1>3 DEF M
<1>5. \A j \in Calls : /\ Holds(squeue, j, Answers) <=> (Holds(squeue', j, Answers) \/ (i = j /\ m.part \in Answers))
                       /\ Once(squeue', j, Answers)
                       /\ i = j /\ m.part \in Answers => ~Holds(squeue', j, Answers)
  BY <1>0, <1>1, OnceTail DEF m, HeldCall, AnsweredOnce
<1> HIDE DEF i
<1>6. /\ scontrol' = scontrol => Down' = Down
      /\ \A part \in {"Abort", "Error"} :
           scontrol' = Append(scontrol, Control(part, i)) => Down' = Append(Down, Control(part, i))
  <2>1. \A part \in {"Abort", "Error"} : Control(part, i) \in Fragments
    BY <1>0, <1>4, PartsOf
  <2>2. \A part \in {"Abort", "Error"} :
          s2c \o Append(scontrol, Control(part, i)) = Append(s2c \o scontrol, Control(part, i))
    BY <1>0, <2>1, ConcatAppend
  <2> QED BY <1>1, <2>2 DEF Down
<1>7. \A j \in Calls : SameRequest(j)
  BY <1>1, RequestAlone
<1>8. \A j \in Calls : (i # j \/ m.part = "Cancel") => SameHandler(j)
  BY <1>1, <1>5 DEF SameHandler, Answers
<1>9. CASE m.part = "Response" /\ rsend' = [rsend EXCEPT ![i] = "queued"] /\ scontrol' = scontrol
  <2> TAKE j \in Calls
  <2>1. HeldCall(j) /\ SameRequest(j) /\ Down' = Down /\ Once(squeue', j, Answers)
        /\ Stream(Down, j, rsend[j], cin[j], RespStreams) /\ Once(Down, j, {"Error"})
    BY <1>5, <1>6, <1>7, <1>9 DEF HeldCall, AnsweredOnce
  <2>2. CASE j # i
    <3>1. rsend'[j] = rsend[j]
      BY <1>0, <1>9, <2>2
    <3>2. SameResponse(j)
      BY <1>1, <2>1, <3>1 DEF SameResponse
    <3> QED BY <1>1, <1>8, <2>1, <2>2, <3>2, HeldSame
  <2>3. CASE j = i
    <3>1. /\ Holds(squeue, j, Answers) /\ ~Holds(squeue', j, Answers) /\ rsend[j] = "none"
          /\ rsend'[j] = "queued"
      <4>1. Holds(squeue, j, Answers) /\ ~Holds(squeue', j, Answers)
        BY <1>5, <1>9, <2>3 DEF Answers
      <4> QED BY <1>0, <1>9, <2>1, <2>3, <4>1 DEF HeldCall, Dispatched, Answered
    <3>2. /\ ~Has(Up, j, "Head") /\ csend[j] \notin {"none", "queued", "started"} /\ j \notin outstanding
          /\ ~Has(Down, j, "Head") /\ ~Has(Down, j, "Error") /\ ~Aborting(j) /\ j \in active
      <4>1. /\ ~Has(Up, j, "Head") /\ csend[j] \notin {"queued", "started"} /\ j \notin outstanding
            /\ ~Has(Down, j, "Head") /\ ~Has(Down, j, "Error") /\ ~Aborting(j) /\ j \in active
        BY <2>1, <3>1 DEF HeldCall, HeldOnce, One, AtClient, Coming, AtServer,
           Answered, Scheduled, Returning, Failing, Aborting, Discarded
      <4> QED BY <2>1, <4>1 DEF HeldCall, Dispatched
    <3>3. HeldOnce(j)'
      BY <1>1, <2>1, <3>1, <3>2 DEF HeldOnce, One, AtClient, Coming, AtServer,
           Answered, Scheduled, Returning, Failing, Aborting, Discarded
    <3>4. Dispatched(j)'
      BY <1>1, <2>1, <3>1, <3>2 DEF HeldCall, Dispatched, AtClient, Coming, AtServer, Answered, Failing
    <3>5. Stream(Down', j, rsend'[j], cin'[j], RespStreams)
      BY <1>1, <2>1, <3>1, StreamUnsent
    <3> QED BY <2>1, <3>3, <3>4, <3>5 DEF HeldCall, AnsweredOnce
  <2> QED BY <2>2, <2>3
<1>10. CASE m.part = "Error" /\ scontrol' = Append(scontrol, Control("Error", i)) /\ rsend' = rsend
  <2> DEFINE f == Control("Error", i)
  <2>0. f \in Fragments /\ f.id = i /\ f.part = "Error" /\ Down' = Append(Down, f)
    BY <1>0, <1>4, <1>6, <1>10, PartsOf
  <2>9. \A j \in Calls : Stream(Down', j, rsend[j], cin[j], RespStreams)
    BY <1>0, <1>4, <2>0, StreamControl DEF HeldCall
  <2> HIDE DEF f
  <2> TAKE j \in Calls
  <2>1. HeldCall(j) /\ SameRequest(j) /\ Once(squeue', j, Answers) /\ Once(Down, j, {"Error"})
    BY <1>5, <1>7 DEF HeldCall, AnsweredOnce
  <2>2. CASE j # i
    <3>1. SameResponse(j)
      BY <1>0, <1>1, <1>10, <2>0, <2>1, <2>2, ResponseOther
    <3> QED BY <1>1, <1>8, <2>1, <2>2, <3>1, HeldSame
  <2>3. CASE j = i
    <3>1. /\ Holds(squeue, j, Answers) /\ ~Holds(squeue', j, Answers) /\ rsend[j] = "none"
      <4>1. Holds(squeue, j, Answers) /\ ~Holds(squeue', j, Answers)
        BY <1>5, <1>10, <2>3 DEF Answers
      <4> QED BY <2>1, <2>3, <4>1 DEF HeldCall, Dispatched, Answered
    <3>2. /\ ~Has(Up, j, "Head") /\ csend[j] \notin {"queued", "started"} /\ j \notin outstanding
          /\ ~Has(Down, j, "Head") /\ ~Has(Down, j, "Error") /\ ~Aborting(j) /\ j \in active
      BY <2>1, <3>1 DEF HeldCall, HeldOnce, One, AtClient, Coming, AtServer,
         Answered, Scheduled, Returning, Failing, Aborting, Discarded
    <3>3. /\ Has(Down', j, "Error") /\ (Has(Down', j, "Head") <=> Has(Down, j, "Head"))
          /\ (Has(Down', j, "Abort") <=> Has(Down, j, "Abort"))
      BY <1>0, <2>0, <2>3, HasAppend
    <3>4. HeldOnce(j)'
      BY <1>1, <1>10, <2>1, <3>1, <3>2, <3>3 DEF HeldOnce, One, AtClient, Coming, AtServer,
           Answered, Scheduled, Returning, Failing, Aborting, Discarded
    <3>5. Dispatched(j)'
      BY <1>1, <1>10, <2>1, <3>1, <3>2 DEF HeldCall, Dispatched, AtClient, Coming, AtServer, Answered, Failing
    <3>6. Once(Down', j, {"Error"})
      <4>1. ~Holds(Down, j, {"Error"})
        BY <3>2, HoldsOne
      <4> QED BY <1>0, <2>0, <2>1, <4>1, OnceAppend
    <3> QED BY <1>1, <1>10, <2>1, <2>9, <3>4, <3>5, <3>6 DEF HeldCall, AnsweredOnce
  <2> QED BY <2>2, <2>3
<1>11. CASE /\ m.part = "Cancel" /\ rsend[i] = "queued"
            /\ rsend' = [rsend EXCEPT ![i] = "discarded"] /\ scontrol' = scontrol
  <2> TAKE j \in Calls
  <2>1. HeldCall(j) /\ SameRequest(j) /\ SameHandler(j) /\ Down' = Down
        /\ Stream(Down, j, rsend[j], cin[j], RespStreams) /\ Once(Down, j, {"Error"})
    BY <1>6, <1>7, <1>8, <1>11 DEF HeldCall, AnsweredOnce
  <2>2. CASE j # i
    <3>1. rsend'[j] = rsend[j]
      BY <1>0, <1>11, <2>2
    <3>2. SameResponse(j)
      BY <1>1, <2>1, <3>1 DEF SameResponse
    <3> QED BY <1>1, <2>1, <3>2, HeldSame
  <2>3. CASE j = i
    <3>1. rsend[j] = "queued" /\ rsend'[j] = "discarded"
      BY <1>0, <1>11, <2>3
    <3>2. HeldOnce(j)'
      BY <1>1, <2>1, <3>1 DEF HeldCall, HeldOnce, SameRequest, SameHandler, One, AtClient, Coming, AtServer,
           Answered, Scheduled, Returning, Failing, Aborting, Discarded
    <3>3. Dispatched(j)'
      BY <1>1, <2>1, <3>1 DEF HeldCall, Dispatched, SameRequest, SameHandler, AtClient, Coming, AtServer,
           Answered, Failing, Running
    <3>4. Stream(Down', j, rsend'[j], cin'[j], RespStreams)
      BY <1>1, <2>1, <3>1, StreamUnsent
    <3> QED BY <2>1, <3>2, <3>3, <3>4 DEF HeldCall, AnsweredOnce, SameHandler
  <2> QED BY <2>2, <2>3
<1>12. CASE /\ m.part = "Cancel" /\ rsend[i] \in {"started", "trailer"}
            /\ rsend' = [rsend EXCEPT ![i] = "aborted"]
            /\ scontrol' = Append(scontrol, Control("Abort", i))
  <2>1. Down' = Append(Down, Control("Abort", i))
    BY <1>6, <1>12
  <2> QED BY <1>0, <1>1, <1>4, <1>7, <1>8, <1>12, <2>1, HeldAborts
<1>13. CASE m.part = "Cancel" /\ rsend' = rsend /\ scontrol' = scontrol
  <2> TAKE j \in Calls
  <2>1. SameResponse(j)
    BY <1>1, <1>6, <1>13, ResponseAlone
  <2> QED BY <1>1, <1>7, <1>8, <1>13, <2>1, HeldSame
<1> QED BY <1>2, <1>9, <1>10, <1>11, <1>12, <1>13

\* The first fragment on its way to the client is taken.
LEMMA ResponseTaken ==
  ASSUME TypeOK, s2c # <<>>, s2c' = Tail(s2c), scontrol' = scontrol
  PROVE  /\ Down # <<>> /\ Down' = Tail(Down) /\ Head(Down) = Head(s2c) /\ Head(Down) \in Fragments
         /\ Head(Down).id \in Calls
<1>1. s2c \in Seq(Fragments) /\ scontrol \in Seq(Fragments) /\ Down \in Seq(Fragments)
  BY PartsOf, WayTypes
<1>2. Down # <<>> /\ Down' = Tail(Down) /\ Head(Down) = Head(s2c)
  BY <1>1, ConcatTail DEF Down
<1>3. Head(Down) \in Fragments
  BY <1>1, <1>2, TailPlaces
<1> QED BY <1>2, <1>3 DEF Fragments

\* The client takes a fragment that it does not reject.
LEMMA HeldReceives ==
  ASSUME BaseInv, RecvResponse, link' = "up", ControlParts, \A j \in Calls : HeldCall(j)
  PROVE  \A j \in Calls : HeldCall(j)'
<1> DEFINE f == Head(s2c)
           i == f.id
<1>0. /\ TypeOK /\ Down \in Seq(Fragments) /\ rsend \in [Calls -> SendPhases]
      /\ cin \in [Calls -> EntryPhases]
  BY WayTypes DEF BaseInv, TypeOK
<1>1. /\ UNCHANGED <<csend, sin, outstanding, task, squeue, rsend>> /\ Up' = Up
  BY DEF RecvResponse, srvVars, swVars, Up
<1>2. Down # <<>> /\ Down' = Tail(Down) /\ Head(Down) = f /\ f \in Fragments /\ i \in Calls
  BY <1>0, ResponseTaken DEF RecvResponse, swVars
<1>3. \/ f.part = "Error" /\ cin' = cin /\ active' = active \ {i}
      \/ /\ f.part # "Error" /\ cin' = Accepted(cin, f, RespStreams)
         /\ \/ f.part = "Head" /\ active' = active \ {i}
            \/ f.part = "Abort" /\ cin[i] = "payload" /\ active' = active \ {i}
            \/ f.part # "Head" /\ ~(f.part = "Abort" /\ cin[i] = "payload") /\ active' = active
  BY DEF RecvResponse, FinishCall
<1> HIDE DEF f
<1>4. f.part \in Parts \cup {"Error"}
  <2>1. s2c # <<>> /\ s2c \in Seq(Fragments)
    BY <1>0, PartsOf DEF RecvResponse
  <2>2. s2c[1] = Head(s2c) /\ 1 \in DOMAIN s2c
    BY <2>1, TailPlaces
  <2> QED BY <2>2 DEF ControlParts, OfParts, f
<1>5. \A j \in Calls : SameRequest(j) /\ SameHandler(j)
  BY <1>1, RequestAlone, HandlerAlone
<1>6. f.part # "Error" => cin'[i] = After(f, RespStreams) /\ \A j \in Calls : j # i => cin'[j] = cin[j]
  BY <1>0, <1>2, <1>3 DEF Accepted, After
<1> HIDE DEF i
<1> TAKE j \in Calls
<1>7. CASE j # i
  <2>1. rsend'[j] = rsend[j] /\ cin'[j] = cin[j] /\ (j \in active' <=> j \in active)
    BY <1>1, <1>3, <1>6, <1>7
  <2>2. SameResponse(j)
    BY <1>0, <1>2, <1>7, <2>1, ResponseOther DEF i
  <2> QED BY <1>5, <2>1, <2>2, HeldSame
<1>8. CASE j = i
  <2>0. /\ HeldCall(j) /\ SameRequest(j) /\ SameHandler(j) /\ f.id = j
        /\ Once(Down, j, {"Error"}) /\ Stream(Down, j, rsend[j], cin[j], RespStreams)
    BY <1>5, <1>8 DEF HeldCall, AnsweredOnce, i
  <2>1. \A p : Has(Down, j, p) <=> (Has(Down', j, p) \/ f.part = p)
    BY <1>0, <1>2, <2>0, HasTail
  <2>2. Once(Down', j, {"Error"}) /\ (f.part = "Error" => ~Has(Down', j, "Error"))
    BY <1>0, <1>2, <2>0, OnceTail, HoldsOne
  <2>3. ASSUME HeldOnce(j)', Dispatched(j)', Stream(Down', j, rsend'[j], cin'[j], RespStreams)
        PROVE  HeldCall(j)'
    BY <2>0, <2>2, <2>3 DEF HeldCall, AnsweredOnce, SameHandler
  <2>4. Dispatched(j)'
    <3>1. Has(Down', j, "Error") => Has(Down, j, "Error")
      BY <2>1
    <3>2. j \in active' => j \in active
      BY <1>3
    <3> QED BY <1>1, <2>0, <3>1, <3>2 DEF HeldCall, Dispatched, SameRequest, SameHandler, AtClient, Coming,
               AtServer, Answered, Failing, Running
  <2>5. CASE f.part = "Error"
    <3>1. /\ Has(Down, j, "Error") /\ ~Has(Down', j, "Error") /\ j \notin active' /\ cin'[j] = cin[j]
          /\ (Has(Down', j, "Head") <=> Has(Down, j, "Head"))
          /\ (Has(Down', j, "Abort") <=> Has(Down, j, "Abort"))
      BY <1>3, <1>8, <2>1, <2>2, <2>5
    <3>2. HeldOnce(j)'
      BY <1>1, <2>0, <3>1 DEF HeldCall, HeldOnce, SameRequest, SameHandler, One, AtClient, Coming, AtServer,
           Answered, Scheduled, Returning, Failing, Aborting, Discarded
    <3>3. Stream(Down', j, rsend'[j], cin'[j], RespStreams)
      <4>1. f.part \notin Parts
        BY <2>5 DEF Parts
      <4> QED BY <1>0, <1>1, <1>2, <2>0, <3>1, <4>1, StreamSkip
    <3> QED BY <2>3, <2>4, <3>2, <3>3
  <2>6. ASSUME f.part \in Parts
        PROVE  /\ Stream(Down', j, rsend'[j], cin'[j], RespStreams)
               /\ (Has(Down', j, "Error") <=> Has(Down, j, "Error"))
               /\ ~Has(Down', j, f.part) /\ Has(Down, j, f.part)
               /\ \A p \in Parts : Has(Down', j, p) => Earlier(f.part, p)
               /\ cin'[j] = After(f, RespStreams)
    <3>1. cin'[j] = After(f, RespStreams) /\ rsend'[j] = rsend[j] /\ f.part # "Error"
      BY <1>1, <1>6, <1>8, <2>6 DEF Parts
    <3>2. Stream(Tail(Down), j, rsend[j], After(Head(Down), RespStreams), RespStreams)
      BY <1>0, <1>2, <2>0, <2>6, StreamAccept
    <3>3. InOrder(Down, j)
      BY <2>0 DEF Stream
    <3>4. ~Has(Down', j, f.part)
      BY <1>0, <1>2, <2>0, <2>6, <3>3, HasTail
    <3>5. \A p \in Parts : Has(Down', j, p) => Earlier(f.part, p)
      BY <1>0, <1>2, <2>0, <2>6, <3>3, OrderHead
    <3> QED BY <1>2, <2>1, <3>1, <3>2, <3>4, <3>5
  <2>7. CASE f.part = "Head"
    <3>1. /\ Has(Down, j, "Head") /\ ~Has(Down', j, "Head") /\ j \notin active'
          /\ (Has(Down', j, "Error") <=> Has(Down, j, "Error"))
          /\ (Has(Down', j, "Abort") <=> Has(Down, j, "Abort"))
      BY <1>3, <1>8, <2>1, <2>6, <2>7 DEF Parts
    <3>2. Has(Down', j, "Abort") => cin'[j] = "trailer"
      <4>1. Has(Down', j, "Abort") => j \in RespStreams
        BY <2>0, <3>1 DEF Stream, Continues
      <4> QED BY <2>0, <2>6, <2>7, <4>1 DEF After, Parts
    <3>3. HeldOnce(j)'
      BY <1>1, <2>0, <3>1, <3>2 DEF HeldCall, HeldOnce, SameRequest, SameHandler, One, AtClient, Coming, AtServer,
           Answered, Scheduled, Returning, Failing, Aborting, Discarded
    <3> QED BY <2>3, <2>4, <2>6, <2>7, <3>3 DEF Parts
  <2>8. CASE f.part = "Abort"
    <3>1. /\ Has(Down, j, "Abort") /\ ~Has(Down', j, "Abort") /\ ~Has(Down', j, "Head") /\ ~Has(Down, j, "Head")
          /\ (Has(Down', j, "Error") <=> Has(Down, j, "Error"))
      BY <2>1, <2>6, <2>8 DEF Parts, Earlier
    <3>2. cin[j] \in {"payload", "trailer"}
      <4>1. cin[j] # "none"
        BY <2>0, <2>8, <1>0, <1>2, StreamAccept DEF Parts
      <4> QED BY <1>0, <4>1 DEF EntryPhases
    <3>3. /\ cin[j] = "payload" => j \notin active'
          /\ cin[j] = "trailer" => active' = active
      BY <1>3, <1>8, <2>8
    <3>4. HeldOnce(j)'
      BY <1>1, <2>0, <3>1, <3>2, <3>3 DEF HeldCall, HeldOnce, SameRequest, SameHandler, One, AtClient, Coming, AtServer,
           Answered, Scheduled, Returning, Failing, Aborting, Discarded
    <3> QED BY <2>3, <2>4, <2>6, <2>8, <3>4 DEF Parts
  <2>9. CASE f.part \in {"Begin", "Tail"}
    <3>1. /\ active' = active /\ (Has(Down', j, "Error") <=> Has(Down, j, "Error"))
          /\ (Has(Down', j, "Head") <=> Has(Down, j, "Head"))
          /\ (Has(Down', j, "Abort") <=> Has(Down, j, "Abort"))
      BY <1>3, <2>1, <2>6, <2>9 DEF Parts
    <3>2. (Has(Down', j, "Abort") /\ ~Has(Down', j, "Head") /\ cin'[j] # "trailer")
            <=> (Has(Down, j, "Abort") /\ ~Has(Down, j, "Head") /\ cin[j] # "trailer")
      <4>1. CASE f.part = "Begin"
        <5>1. cin[j] = "none" /\ cin'[j] = "payload"
          BY <2>0, <2>6, <4>1 DEF Stream, Continues, After, Parts
        <5> QED BY <3>1, <5>1
      <4>2. CASE f.part = "Tail"
        <5>1. ~Has(Down', j, "Abort")
          BY <2>6, <4>2 DEF Parts, Earlier
        <5> QED BY <3>1, <5>1
      <4> QED BY <2>9, <4>1, <4>2
    <3>3. SameResponse(j)
      BY <1>1, <2>2, <2>6, <2>9, <3>1, <3>2 DEF SameResponse, Parts
    <3> QED BY <2>0, <3>1, <3>3, HeldSame
  <2> QED BY <1>4, <2>5, <2>7, <2>8, <2>9 DEF Parts
<1> QED BY <1>7, <1>8

LEMMA PartsStay ==
  ASSUME NEW S, NEW q \in Seq(S), NEW P, OfParts(q, P)
  PROVE  /\ \A m \in S : m.part \in P => OfParts(Append(q, m), P)
         /\ q # <<>> => OfParts(Tail(q), P) /\ Head(q).part \in P /\ Head(q) \in S
<1>1. ASSUME NEW m \in S, m.part \in P PROVE OfParts(Append(q, m), P)
  <2> DEFINE v == Append(q, m)
  <2>1. /\ Len(q) \in Nat /\ DOMAIN q = 1..Len(q) /\ DOMAIN v = 1..(Len(q) + 1)
        /\ v[Len(q) + 1] = m /\ \A k \in DOMAIN q : v[k] = q[k]
    BY AppendPlaces
  <2> HIDE DEF v
  <2>2. \A k \in DOMAIN v : k \in DOMAIN q \/ k = Len(q) + 1
    BY <2>1
  <2>3. OfParts(v, P)
    BY <1>1, <2>1, <2>2 DEF OfParts
  <2> QED BY <2>3 DEF v
<1>2. ASSUME q # <<>> PROVE OfParts(Tail(q), P) /\ Head(q).part \in P /\ Head(q) \in S
  <2> DEFINE v == Tail(q)
  <2>1. /\ Len(q) \in Nat /\ Len(q) >= 1 /\ DOMAIN q = 1..Len(q)
        /\ DOMAIN v = 1..(Len(q) - 1) /\ Head(q) = q[1] /\ Head(q) \in S
        /\ \A k \in DOMAIN v : v[k] = q[k + 1]
    BY <1>2, TailPlaces
  <2> HIDE DEF v
  <2>2. (\A k \in DOMAIN v : k + 1 \in DOMAIN q) /\ 1 \in DOMAIN q
    BY <2>1
  <2>3. OfParts(v, P) /\ Head(q).part \in P
    BY <2>1, <2>2 DEF OfParts
  <2> QED BY <2>1, <2>3 DEF v
<1> QED BY <1>1, <1>2

LEMMA ControlStep ==
  ASSUME BaseInv, ControlParts, Next \/ UNCHANGED vars
  PROVE  ControlParts'
<1>0. /\ TypeOK /\ AskedOnce /\ ccontrol \in Seq(Fragments) /\ scontrol \in Seq(Fragments)
      /\ s2c \in Seq(Fragments) /\ squeue \in Seq([part : {"Response", "Error", "Cancel"}, id : Calls])
  BY PartsOf DEF BaseInv, TypeOK
<1>1. /\ OfParts(ccontrol, {"Abort", "Cancel"}) /\ OfParts(scontrol, {"Abort", "Error"})
      /\ OfParts(s2c, Parts \cup {"Error"})
  BY DEF ControlParts
<1>2. \A c \in Calls : /\ Control("Abort", c) \in Fragments /\ Control("Abort", c).part = "Abort"
                       /\ Control("Cancel", c) \in Fragments /\ Control("Cancel", c).part = "Cancel"
                       /\ Control("Error", c) \in Fragments /\ Control("Error", c).part = "Error"
  BY <1>0, PartsOf
<1>3. \A c \in Calls : OfParts(Append(ccontrol, Control("Abort", c)), {"Abort", "Cancel"})
  BY <1>0, <1>1, <1>2, PartsStay
<1>4. \A c \in Calls : OfParts(Append(ccontrol, Control("Cancel", c)), {"Abort", "Cancel"})
  BY <1>0, <1>1, <1>2, PartsStay
<1>5. ASSUME NEW q \in Seq(Fragments), OfParts(q, {"Abort", "Cancel"}), NEW c \in Calls
      PROVE  OfParts(q \o <<Control("Abort", c), Control("Cancel", c)>>, {"Abort", "Cancel"})
  <2> DEFINE x == Control("Abort", c)
             y == Control("Cancel", c)
  <2>1. x \in Fragments /\ x.part = "Abort" /\ y \in Fragments /\ y.part = "Cancel"
    BY <1>2
  <2> HIDE DEF x, y
  <2>2. q \o <<x, y>> = Append(Append(q, x), y) /\ Append(q, x) \in Seq(Fragments)
    BY <2>1
  <2>3. OfParts(Append(q, x), {"Abort", "Cancel"})
    BY <1>5, <2>1, PartsStay
  <2>4. OfParts(Append(Append(q, x), y), {"Abort", "Cancel"})
    BY <2>1, <2>2, <2>3, PartsStay
  <2> QED BY <2>2, <2>4 DEF x, y
<1>6. CASE AdmitNext
  <2>a. PICK sends : \E m \in Messages, S \in SUBSET active, T \in SUBSET Calls : Turn(m, S, T, sends)
    BY <1>0, <1>6, AdmitTurn
  <2>1. PICK m \in Messages, S \in SUBSET active, T \in SUBSET Calls : Turn(m, S, T, sends)
    BY <2>a
  <2>2. m.id \in Calls
    BY DEF Messages
  <2>3. \/ ccontrol' = ccontrol \/ ccontrol' = Append(ccontrol, Control("Abort", m.id))
        \/ ccontrol' = Append(ccontrol, Control("Cancel", m.id))
        \/ ccontrol' = ccontrol \o <<Control("Abort", m.id), Control("Cancel", m.id)>>
    BY <2>1 DEF Turn
  <2>4. OfParts(ccontrol', {"Abort", "Cancel"})
    BY <1>0, <1>1, <1>3, <1>4, <1>5, <2>2, <2>3
  <2>5. scontrol' = scontrol /\ s2c' = s2c
    BY <1>6 DEF AdmitNext, netVars, swVars
  <2> QED BY <1>1, <2>4, <2>5 DEF ControlParts
<1>7. CASE SendControl
  <2>1. /\ ccontrol # <<>> /\ ccontrol' = Tail(ccontrol) /\ scontrol' = scontrol /\ s2c' = s2c
    BY <1>7 DEF SendControl, swVars
  <2>2. OfParts(ccontrol', {"Abort", "Cancel"})
    BY <1>0, <1>1, <2>1, PartsStay
  <2> QED BY <1>1, <2>1, <2>2 DEF ControlParts
<1>8. ASSUME NEW i \in Calls, SendRequest(i) PROVE ControlParts'
  <2>1. /\ scontrol' = scontrol /\ s2c' = s2c /\ ccontrol = <<>>
        /\ ccontrol' = ccontrol \/ ccontrol' = <<Control("Abort", i), Control("Cancel", i)>>
    BY <1>8 DEF SendRequest, swVars
  <2>2. OfParts(ccontrol', {"Abort", "Cancel"})
    <3>1. CASE ccontrol' = ccontrol
      BY <1>1, <3>1
    <3>2. CASE ccontrol' = <<Control("Abort", i), Control("Cancel", i)>>
      BY <1>2, <3>2 DEF OfParts
    <3> QED BY <2>1, <3>1, <3>2
  <2> QED BY <1>1, <2>1, <2>2 DEF ControlParts
<1>9. CASE AdmitResponse
  <2>1. Head(squeue).id \in Calls
    <3>1. squeue # <<>>
      BY <1>9 DEF AdmitResponse
    <3> DEFINE M == [part : {"Response", "Error", "Cancel"}, id : Calls]
    <3>2. squeue \in Seq(M)
      BY <1>0
    <3>3. \A m \in M : m.id \in Calls
      OBVIOUS
    <3> HIDE DEF M
    <3>4. Head(squeue) \in M
      BY <3>1, <3>2, TailPlaces
    <3> QED BY <3>3, <3>4
  <2>2. /\ ccontrol' = ccontrol /\ s2c' = s2c
        /\ \/ scontrol' = scontrol \/ scontrol' = Append(scontrol, Control("Error", Head(squeue).id))
           \/ scontrol' = Append(scontrol, Control("Abort", Head(squeue).id))
    BY <1>9 DEF AdmitResponse, cwVars, netVars
  <2>3. \A c \in Calls : /\ OfParts(Append(scontrol, Control("Error", c)), {"Abort", "Error"})
                         /\ OfParts(Append(scontrol, Control("Abort", c)), {"Abort", "Error"})
    BY <1>0, <1>1, <1>2, PartsStay
  <2>4. OfParts(scontrol', {"Abort", "Error"})
    BY <1>1, <2>1, <2>2, <2>3
  <2> QED BY <1>1, <2>2, <2>4 DEF ControlParts
<1>10. CASE SendServerControl
  <2>1. /\ scontrol # <<>> /\ scontrol' = Tail(scontrol) /\ s2c' = Append(s2c, Head(scontrol))
        /\ ccontrol' = ccontrol
    BY <1>10 DEF SendServerControl, cwVars
  <2>2. OfParts(scontrol', {"Abort", "Error"}) /\ Head(scontrol).part \in {"Abort", "Error"} /\ Head(scontrol) \in Fragments
    BY <1>0, <1>1, <2>1, PartsStay
  <2>3. Head(scontrol).part \in Parts \cup {"Error"}
    BY <2>2 DEF Parts
  <2>4. OfParts(s2c', Parts \cup {"Error"})
    BY <1>0, <1>1, <2>1, <2>2, <2>3, PartsStay
  <2> QED BY <1>1, <2>1, <2>2, <2>4 DEF ControlParts
<1>11. ASSUME NEW i \in Calls, SendResponse(i) PROVE ControlParts'
  <2>1. CASE s2c' = s2c /\ scontrol' = <<Control("Abort", i)>>
    <3>1. OfParts(scontrol', {"Abort", "Error"})
      BY <1>2, <2>1 DEF OfParts
    <3> QED BY <1>1, <1>11, <2>1, <3>1 DEF ControlParts, SendResponse, cwVars
  <2>2. CASE \E step \in Steps(i, rsend[i], RespStreams) : s2c' = Append(s2c, step.fragment) /\ scontrol' = scontrol
    <3> PICK step \in Steps(i, rsend[i], RespStreams) : s2c' = Append(s2c, step.fragment) /\ scontrol' = scontrol
      BY <2>2
    <3>1. Advances(i, rsend[i], RespStreams, step)
      BY StepTypes
    <3>2. step.fragment \in Fragments /\ step.fragment.part \in Parts \cup {"Error"}
      BY <3>1 DEF Advances
    <3>3. OfParts(s2c', Parts \cup {"Error"})
      BY <1>0, <1>1, <3>2, PartsStay
    <3> QED BY <1>1, <1>11, <3>3 DEF ControlParts, SendResponse, cwVars
  <2> QED BY <1>11, <2>1, <2>2 DEF SendResponse
<1>12. CASE RecvResponse
  <2>1. /\ s2c # <<>> /\ s2c' = Tail(s2c) /\ scontrol' = scontrol /\ ccontrol' = ccontrol
    BY <1>12 DEF RecvResponse, swVars
  <2>2. OfParts(s2c', Parts \cup {"Error"})
    BY <1>0, <1>1, <2>1, PartsStay
  <2> QED BY <1>1, <2>1, <2>2 DEF ControlParts
<1>13. CASE \/ \E i \in Calls : Begin(i) \/ BeginQueued(i) \/ Application(i)
            \/ Close \/ Fail \/ LoseLink \/ AbandonWaiting \/ AtRest \/ UNCHANGED vars
            \/ StartDraining \/ (\E i \in Calls : Handler(i) \/ LeaveGuard(i)) \/ RecvRequest \/ RecvCancel
  <2>1. UNCHANGED <<ccontrol, scontrol, s2c>>
    BY <1>13 DEF vars, Begin, BeginQueued, Application, FinishTrailer, CancelCall, DropCall, Close, Fail,
       LoseLink, AbandonWaiting, StartDraining, Handler, Respond, DropContext, EnterGuard, LeaveGuard,
       AtRest, RecvRequest, RecvCancel, netVars, cwVars, swVars
  <2> QED BY <1>1, <2>1 DEF ControlParts
<1> QED BY <1>6, <1>7, <1>8, <1>9, <1>10, <1>11, <1>12, <1>13 DEF Next, ClientTasks

\* The steps that do not concern the calls in their places.
LEMMA HeldAlone ==
  ASSUME \A j \in Calls : HeldCall(j), Up' = Up, Down' = Down,
         UNCHANGED <<csend, sin, outstanding, task, squeue, rsend, cin, active>>
  PROVE  \A j \in Calls : HeldCall(j)'
<1> TAKE j \in Calls
<1>1. SameRequest(j) /\ SameHandler(j) /\ SameResponse(j)
  BY RequestAlone, HandlerAlone, ResponseAlone
<1> QED BY <1>1, HeldSame

LEMMA LinkStays == [Next]_vars => (link' = "up" => link = "up")
BY DEF Next, vars, Begin, BeginQueued, Application, FinishTrailer, CancelCall, DropCall, Close, Fail,
     LoseLink, ClientTasks, AdmitNext, AbandonWaiting, SendControl, SendRequest, RecvResponse, RecvRequest,
     ServerFails, RecvCancel, StartDraining, Handler, Respond, DropContext, EnterGuard, LeaveGuard,
     SendResponse, AdmitResponse, SendServerControl, AtRest, netVars

LEMMA HeldStep == BaseInv /\ RequestInv /\ HeldInv /\ [Next]_vars => HeldInv'
<1> SUFFICES ASSUME BaseInv, RequestInv, HeldInv, [Next]_vars, link' = "up"
             PROVE  ControlParts' /\ \A j \in Calls : HeldCall(j)'
  BY DEF HeldInv, HeldCall, ResponseStreams
<1>0. link = "up" /\ TypeOK
  BY LinkStays DEF BaseInv
<1>1. RequestStreams /\ ControlParts /\ \A j \in Calls : HeldCall(j)
  BY <1>0 DEF RequestInv, HeldInv, HeldCall, ResponseStreams
<1>2. ControlParts'
  BY <1>1, ControlStep
<1>3. \A j \in Calls : HeldCall(j)'
  <2>1. CASE AdmitNext
    BY <1>1, <2>1, HeldTurn
  <2>2. CASE \E i \in Calls : SendRequest(i)
    BY <1>1, <2>2, HeldSends
  <2>3. CASE RecvRequest
    BY <1>1, <2>3, HeldRequest
  <2>4. CASE RecvCancel
    BY <1>1, <2>4, HeldCancel
  <2>5. CASE \E i \in Calls : Respond(i) \/ DropContext(i)
    BY <1>1, <2>5, HeldAnswer
  <2>6. CASE \E i \in Calls : SendResponse(i)
    BY <1>1, <2>6, HeldResponds
  <2>7. CASE AdmitResponse
    BY <1>1, <2>7, HeldAdmits
  <2>8. CASE RecvResponse
    BY <1>1, <2>8, HeldReceives
  <2>9. CASE SendControl
    BY <1>0, <1>1, <2>9, ControlMoves, HeldAlone DEF SendControl, srvVars, swVars
  <2>10. CASE SendServerControl
    BY <1>0, <1>1, <2>10, ControlMoves, HeldAlone DEF SendServerControl, srvVars, cwVars
  <2>11. CASE \/ \E i \in Calls : Begin(i) \/ BeginQueued(i) \/ Application(i)
              \/ Close \/ Fail \/ LoseLink \/ AbandonWaiting \/ AtRest \/ UNCHANGED vars
              \/ StartDraining \/ (\E i \in Calls : EnterGuard(i) \/ LeaveGuard(i))
    <3>1. UNCHANGED <<c2s, ccontrol, s2c, scontrol, csend, sin, outstanding, task, squeue, rsend, cin, active>>
      BY <2>11 DEF vars, Begin, BeginQueued, Application, FinishTrailer, CancelCall, DropCall, Close, Fail,
         LoseLink, AbandonWaiting, StartDraining, EnterGuard, LeaveGuard,
         AtRest, netVars, cwVars, swVars, srvVars
    <3>2. Up' = Up /\ Down' = Down
      BY <3>1 DEF Up, Down
    <3> QED BY <1>1, <3>1, <3>2, HeldAlone
  <2> QED BY <2>1, <2>2, <2>3, <2>4, <2>5, <2>6, <2>7, <2>8, <2>9, <2>10, <2>11
          DEF Next, ClientTasks, Handler
<1> QED BY <1>2, <1>3

LEMMA HeldInit == Init => RequestInv /\ HeldInv
<1> SUFFICES ASSUME Init PROVE RequestInv /\ HeldInv
  OBVIOUS
<1>1. Up = <<>> /\ Down = <<>> /\ squeue = <<>> /\ ccontrol = <<>> /\ scontrol = <<>> /\ s2c = <<>>
  BY DEF Init, Up, Down
<1>2. \A i, p : ~Has(<<>>, i, p) /\ ~Holds(<<>>, i, p) /\ Once(<<>>, i, p) /\ OfParts(<<>>, p)
  BY DEF Has, Holds, Once, OfParts
<1>3. \A i \in Calls : /\ csend[i] = "none" /\ sin[i] = "none" /\ rsend[i] = "none" /\ cin[i] = "none"
                       /\ task[i] = "none" /\ i \notin active /\ i \notin outstanding
  BY DEF Init
<1>4. \A i, streams : Stream(<<>>, i, "none", "none", streams)
  BY <1>2 DEF Stream, InOrder, Marked, Continues, Leads
<1>5. RequestInv
  BY <1>1, <1>3, <1>4 DEF RequestInv, RequestStreams
<1>6. ControlParts /\ ResponseStreams
  BY <1>1, <1>2, <1>3, <1>4 DEF ControlParts, ResponseStreams
<1>7. \A i \in Calls : AnsweredOnce(i)
  BY <1>1, <1>2 DEF AnsweredOnce
<1>8. \A i \in Calls : HeldOnce(i)
  BY <1>1, <1>2, <1>3 DEF HeldOnce, One, AtClient, Coming, AtServer, Answered, Scheduled, Returning,
       Failing, Aborting, Discarded
<1>9. \A i \in Calls : Dispatched(i)
  BY <1>1, <1>2, <1>3 DEF Dispatched
<1> QED BY <1>5, <1>6, <1>7, <1>8, <1>9 DEF HeldInv

LEMMA HeldAlways == Spec => [](BaseInv /\ RequestInv /\ HeldInv)
BY BaseInit, HeldInit, BaseStep, RequestStep, HeldStep, PTL DEF Spec

\* Counting what comes once.
LEMMA CountOnce ==
  ASSUME NEW q, NEW i, NEW P, Once(q, i, P)
  PROVE  Count(q, i, P) = One(Holds(q, i, P))
<1> DEFINE K == {k \in DOMAIN q : q[k].id = i /\ q[k].part \in P}
<1>1. CASE Holds(q, i, P)
  <2> PICK k \in DOMAIN q : q[k].id = i /\ q[k].part \in P
    BY <1>1 DEF Holds
  <2>1. K = {k}
    BY DEF Once
  <2>2. Cardinality({k}) = 1
    BY FS_Singleton
  <2> QED BY <1>1, <2>1, <2>2 DEF Count, One
<1>2. CASE ~Holds(q, i, P)
  <2>1. K = {}
    BY <1>2 DEF Holds
  <2>2. Cardinality({}) = 0
    BY FS_EmptySet
  <2> QED BY <1>2, <2>1, <2>2 DEF Count, One
<1> QED BY <1>1, <1>2

LEMMA CountTwo ==
  ASSUME NEW S, NEW a \in Seq(S), NEW b \in Seq(S), NEW i, NEW P, Once(a \o b, i, P)
  PROVE  /\ Count(a, i, P) = One(Holds(a, i, P)) /\ Count(b, i, P) = One(Holds(b, i, P))
         /\ Holds(a \o b, i, P) <=> (Holds(a, i, P) \/ Holds(b, i, P))
         /\ ~(Holds(a, i, P) /\ Holds(b, i, P))
<1> DEFINE c == a \o b
<1>1. /\ Len(a) \in Nat /\ Len(b) \in Nat /\ DOMAIN a = 1..Len(a) /\ DOMAIN b = 1..Len(b)
      /\ DOMAIN c = 1..(Len(a) + Len(b))
      /\ \A k \in DOMAIN a : c[k] = a[k]
      /\ \A k \in DOMAIN b : c[Len(a) + k] = b[k]
  BY ConcatPlaces
<1>0. Once(c, i, P)
  OBVIOUS
<1> HIDE DEF c
<1>2. /\ \A k \in DOMAIN a : k \in DOMAIN c /\ c[k] = a[k]
      /\ \A k \in DOMAIN b : Len(a) + k \in DOMAIN c /\ c[Len(a) + k] = b[k]
      /\ \A k \in DOMAIN c : k \in DOMAIN a \/ (k - Len(a) \in DOMAIN b /\ c[k] = b[k - Len(a)])
      /\ \A j \in DOMAIN a, k \in DOMAIN b : j # Len(a) + k
      /\ \A j, k \in DOMAIN b : Len(a) + j = Len(a) + k => j = k
  BY <1>1
<1>3. Once(a, i, P)
  BY <1>0, <1>2 DEF Once
<1>4. Once(b, i, P)
  BY <1>0, <1>2 DEF Once
<1>5. Holds(c, i, P) <=> (Holds(a, i, P) \/ Holds(b, i, P))
  <2>1. ASSUME Holds(c, i, P) PROVE Holds(a, i, P) \/ Holds(b, i, P)
    <3> PICK k \in DOMAIN c : c[k].id = i /\ c[k].part \in P
      BY <2>1 DEF Holds
    <3> QED BY <1>2 DEF Holds
  <2>2. ASSUME Holds(a, i, P) \/ Holds(b, i, P) PROVE Holds(c, i, P)
    BY <1>2, <2>2 DEF Holds
  <2> QED BY <2>1, <2>2
<1>6. ASSUME Holds(a, i, P), Holds(b, i, P) PROVE FALSE
  <2>1. PICK j \in DOMAIN a : a[j].id = i /\ a[j].part \in P
    BY <1>6 DEF Holds
  <2>2. PICK k \in DOMAIN b : b[k].id = i /\ b[k].part \in P
    BY <1>6 DEF Holds
  <2> QED BY <1>0, <1>2, <2>1, <2>2 DEF Once
<1> QED BY <1>3, <1>4, <1>5, <1>6, CountOnce DEF c

\* The fragments of a message come once, and so does its abort if nothing fails.
LEMMA PartsOnce ==
  ASSUME NEW w \in Seq(Fragments), NEW i, InOrder(w, i)
  PROVE  /\ \A p \in Parts : Once(w, i, {p})
         /\ Once(w, i, {"Error"}) /\ ~(Has(w, i, "Error") /\ Has(w, i, "Abort"))
              => Once(w, i, {"Error", "Abort"})
<1>0. Len(w) \in Nat /\ DOMAIN w = 1..Len(w)
  OBVIOUS
<1>1. ASSUME NEW p \in Parts PROVE Once(w, i, {p})
  <2> SUFFICES ASSUME NEW j \in DOMAIN w, NEW k \in DOMAIN w, w[j].id = i, w[j].part = p,
                      w[k].id = i, w[k].part = p, j # k
               PROVE  FALSE
    BY DEF Once
  <2>1. j < k \/ k < j
    BY <1>0
  <2>2. Earlier(p, p)
    BY <2>1 DEF InOrder
  <2> QED BY <2>2 DEF Earlier, Parts
<1>2. Once(w, i, {"Abort"})
  BY <1>1 DEF Parts
<1>3. ASSUME Once(w, i, {"Error"}), ~(Has(w, i, "Error") /\ Has(w, i, "Abort"))
      PROVE  Once(w, i, {"Error", "Abort"})
  BY <1>2, <1>3 DEF Once, Has
<1> QED BY <1>1, <1>3

(* While the connection is up, the call in a slot is in exactly one place that
   will bring it to an end, or its response was discarded unsent, wherever a
   cancellation has met it: the slot is freed once (admit_cancel and
   finish_call, client.rs; outstanding and admit, server.rs). *)
THEOREM SlotsHeldOnce == Spec => []OneHolderPerSlot
<1>1. BaseInv /\ RequestInv /\ HeldInv => OneHolderPerSlot
  <2> SUFFICES ASSUME BaseInv, RequestInv, HeldInv, link = "up", NEW i \in active
               PROVE  Holders(i) = One(~Discarded(i))
    BY DEF OneHolderPerSlot
  <2>0. /\ TypeOK /\ Up \in Seq(Fragments) /\ Down \in Seq(Fragments)
        /\ c2s \in Seq(Fragments) /\ s2c \in Seq(Fragments)
        /\ ccontrol \in Seq(Fragments) /\ scontrol \in Seq(Fragments)
        /\ i \in Calls /\ cin[i] \in EntryPhases /\ rsend[i] \in SendPhases
    BY WayTypes, PartsOf DEF BaseInv, TypeOK
  <2>1. /\ Stream(Up, i, csend[i], sin[i], ReqStreams) /\ Stream(Down, i, rsend[i], cin[i], RespStreams)
        /\ ControlParts /\ AnsweredOnce(i) /\ HeldOnce(i) /\ Dispatched(i)
    BY <2>0 DEF RequestInv, RequestStreams, HeldInv, ResponseStreams
  <2>2. InOrder(Up, i) /\ InOrder(Down, i) /\ "Head" \in Parts
    BY <2>1 DEF Stream, Parts
  <2>3. Count(c2s, i, {"Head"}) = One(Coming(i))
    <3>1. Once(c2s \o ccontrol, i, {"Head"})
      BY <2>0, <2>2, PartsOnce DEF Up
    <3>2. ~Holds(ccontrol, i, {"Head"})
      BY <2>1 DEF ControlParts, OfParts, Holds
    <3>3. Count(c2s, i, {"Head"}) = One(Holds(c2s, i, {"Head"}))
          /\ (Holds(c2s \o ccontrol, i, {"Head"}) <=> Holds(c2s, i, {"Head"}))
      BY <2>0, <3>1, <3>2, CountTwo
    <3>4. Coming(i) <=> Holds(c2s, i, {"Head"})
      BY <3>3, HoldsOne DEF Coming, Up
    <3> QED BY <3>3, <3>4 DEF One
  <2>4. Count(squeue, i, {"Response", "Error"}) = One(Answered(i))
    BY <2>1, CountOnce DEF AnsweredOnce, Answered, Answers
  <2>5. Count(s2c, i, {"Head"}) = One(Returning(i))
    <3>1. Once(s2c \o scontrol, i, {"Head"})
      BY <2>0, <2>2, PartsOnce DEF Down
    <3>2. ~Holds(scontrol, i, {"Head"})
      BY <2>1 DEF ControlParts, OfParts, Holds
    <3>3. Count(s2c, i, {"Head"}) = One(Holds(s2c, i, {"Head"}))
          /\ (Holds(s2c \o scontrol, i, {"Head"}) <=> Holds(s2c, i, {"Head"}))
      BY <2>0, <3>1, <3>2, CountTwo
    <3>4. Returning(i) <=> Holds(s2c, i, {"Head"})
      BY <3>3, HoldsOne DEF Returning, Down
    <3> QED BY <3>3, <3>4 DEF One
  <2>6. Once(Down, i, {"Error"})
    BY <2>1 DEF AnsweredOnce
  <2>7. Count(scontrol, i, {"Error"}) + Count(s2c, i, {"Error"}) = One(Failing(i))
    <3>1. /\ Count(scontrol, i, {"Error"}) = One(Holds(scontrol, i, {"Error"}))
          /\ Count(s2c, i, {"Error"}) = One(Holds(s2c, i, {"Error"}))
          /\ Holds(s2c \o scontrol, i, {"Error"}) <=> (Holds(s2c, i, {"Error"}) \/ Holds(scontrol, i, {"Error"}))
          /\ ~(Holds(s2c, i, {"Error"}) /\ Holds(scontrol, i, {"Error"}))
      BY <2>0, <2>6, CountTwo DEF Down
    <3>2. Failing(i) <=> Holds(s2c \o scontrol, i, {"Error"})
      BY HoldsOne DEF Failing, Down
    <3> QED BY <3>1, <3>2 DEF One
  <2>8. cin[i] # "trailer"
    <3> SUFFICES ASSUME cin[i] = "trailer" PROVE FALSE
      OBVIOUS
    <3>1. rsend[i] \in {"trailer", "sent", "aborted"} /\ ~Has(Down, i, "Head")
      BY <2>0, <2>1 DEF Stream, Leads, Continues, SendPhases
    <3>2. ~AtClient(i) /\ ~Coming(i) /\ ~AtServer(i) /\ ~Answered(i) /\ ~Failing(i)
      BY <2>1, <3>1 DEF Dispatched
    <3>3. ~Scheduled(i) /\ ~Returning(i) /\ ~Aborting(i) /\ ~Discarded(i)
      BY <3>1 DEF Scheduled, Returning, Aborting, Discarded
    <3> QED BY <2>1, <3>2, <3>3 DEF HeldOnce, One
  <2>9. ASSUME ~Returning(i)
        PROVE  Count(scontrol, i, {"Error", "Abort"}) + Count(s2c, i, {"Error", "Abort"})
                 = One(Failing(i)) + One(Aborting(i))
    <3>1. Aborting(i) <=> Has(Down, i, "Abort")
      BY <2>8, <2>9 DEF Aborting, Returning
    <3>2. ~(Failing(i) /\ Aborting(i))
      BY <2>1 DEF HeldOnce, One
    <3>3. Once(s2c \o scontrol, i, {"Error", "Abort"})
      <4>1. Once(Down, i, {"Error", "Abort"})
        BY <2>0, <2>2, <2>6, <3>1, <3>2, PartsOnce DEF Failing
      <4> QED BY <4>1 DEF Down
    <3>4. Holds(s2c \o scontrol, i, {"Error", "Abort"}) <=> (Failing(i) \/ Aborting(i))
      <4>1. Holds(Down, i, {"Error", "Abort"}) <=> (Has(Down, i, "Error") \/ Has(Down, i, "Abort"))
        BY DEF Holds, Has
      <4> QED BY <3>1, <4>1 DEF Failing, Down
    <3> DEFINE P == {"Error", "Abort"}
    <3>5. /\ Count(scontrol, i, P) = One(Holds(scontrol, i, P)) /\ Count(s2c, i, P) = One(Holds(s2c, i, P))
          /\ Holds(s2c \o scontrol, i, P) <=> (Holds(s2c, i, P) \/ Holds(scontrol, i, P))
          /\ ~(Holds(s2c, i, P) /\ Holds(scontrol, i, P))
      BY <2>0, <3>3, CountTwo
    <3> QED BY <3>2, <3>4, <3>5 DEF One
  <2>10. ASSUME Returning(i) PROVE ~Aborting(i)
    BY <2>10 DEF Returning, Aborting
  <2>11. /\ Count(scontrol, i, {"Error"}) \in Nat /\ Count(s2c, i, {"Error"}) \in Nat
         /\ ~Returning(i) => Count(scontrol, i, {"Error", "Abort"}) \in Nat /\ Count(s2c, i, {"Error", "Abort"}) \in Nat
    <3>1. IsFiniteSet(DOMAIN scontrol) /\ IsFiniteSet(DOMAIN s2c)
      <4>1. DOMAIN scontrol = 1..Len(scontrol) /\ DOMAIN s2c = 1..Len(s2c) /\ Len(scontrol) \in Nat /\ Len(s2c) \in Nat
        BY <2>0
      <4> QED BY <4>1, FS_Interval
    <3>2. ASSUME NEW q, IsFiniteSet(DOMAIN q), NEW P PROVE Count(q, i, P) \in Nat
      <4> DEFINE K == {k \in DOMAIN q : q[k].id = i /\ q[k].part \in P}
      <4>1. K \subseteq DOMAIN q
        OBVIOUS
      <4>2. IsFiniteSet(K)
        BY <3>2, <4>1, FS_Subset
      <4>3. Cardinality(K) \in Nat
        BY <4>2, FS_CardinalityType
      <4> QED BY <4>3 DEF Count
    <3> QED BY <3>1, <3>2
  <2>12. CASE Returning(i)
    <3>1. Count(s2c, i, {"Head"}) = 1
      BY <2>5, <2>12 DEF One
    <3>2. Holders(i) = One(csend[i] \in {"queued", "started"}) + Count(c2s, i, {"Head"})
                         + One(i \in outstanding) + Count(squeue, i, {"Response", "Error"})
                         + One(rsend[i] \in {"queued", "started"}) + 1
                         + Count(scontrol, i, {"Error"}) + Count(s2c, i, {"Error"})
      BY <3>1 DEF Holders
    <3> QED BY <2>1, <2>3, <2>4, <2>7, <2>10, <2>11, <2>12, <3>2 DEF HeldOnce, One, AtClient, AtServer, Scheduled
  <2>13. CASE ~Returning(i)
    <3>1. Count(s2c, i, {"Head"}) = 0
      BY <2>5, <2>13 DEF One
    <3>2. Holders(i) = One(csend[i] \in {"queued", "started"}) + Count(c2s, i, {"Head"})
                         + One(i \in outstanding) + Count(squeue, i, {"Response", "Error"})
                         + One(rsend[i] \in {"queued", "started"}) + 0
                         + Count(scontrol, i, {"Error", "Abort"}) + Count(s2c, i, {"Error", "Abort"})
      BY <3>1 DEF Holders
    <3> QED BY <2>1, <2>3, <2>4, <2>9, <2>11, <2>13, <3>2 DEF HeldOnce, One, AtClient, AtServer, Scheduled
  <2> QED BY <2>12, <2>13
<1> QED BY <1>1, HeldAlways, PTL

-----------------------------------------------------------------------------
(***************************************************************************)
(* Neither end rejects what the other sends.                               *)
(***************************************************************************)

LEMMA Smaller ==
  ASSUME NEW B \in SUBSET Calls, NEW A \in SUBSET B
  PROVE  /\ Cardinality(A) \in Nat /\ Cardinality(B) \in Nat /\ Cardinality(A) <= Cardinality(B)
         /\ IsFiniteSet(A) /\ IsFiniteSet(B)
<1>1. IsFiniteSet(B)
  BY CallsAssumption, FS_Subset
<1> QED BY <1>1, FS_Subset, FS_CardinalityType

LEMMA FragmentIds ==
  ASSUME NEW w \in Seq(Fragments), NEW k \in DOMAIN w
  PROVE  w[k] \in Fragments /\ w[k].id \in Calls
<1>1. w[k] \in Fragments
  OBVIOUS
<1> QED BY <1>1 DEF Fragments

LEMMA FitsFewer ==
  ASSUME NEW w \in Seq(Fragments), NEW out, NEW entries, NEW less \in SUBSET out, Fits(w, out, entries)
  PROVE  Fits(w, less, entries)
<1> SUFFICES ASSUME NEW k \in DOMAIN w, w[k].part \in {"Begin", "Head"}
             PROVE  Cardinality(Counted(w, less, entries, k - 1) \cup {w[k].id}) <= MaxCalls
  BY DEF Fits
<1> DEFINE A == Counted(w, less, entries, k - 1) \cup {w[k].id}
           B == Counted(w, out, entries, k - 1) \cup {w[k].id}
<1>1. A \subseteq B
  BY DEF Counted
<1>2. B \subseteq Calls
  BY FragmentIds DEF Counted
<1>3. Cardinality(B) <= MaxCalls
  BY DEF Fits
<1> HIDE DEF A, B
<1>4. Cardinality(A) <= Cardinality(B) /\ Cardinality(A) \in Nat /\ Cardinality(B) \in Nat
  BY <1>1, <1>2, Smaller
<1>5. Cardinality(A) <= MaxCalls
  BY <1>3, <1>4, LimitAssumption
<1> QED BY <1>5 DEF A

LEMMA FitsAppend ==
  ASSUME NEW w \in Seq(Fragments), NEW out, NEW entries, NEW f \in Fragments, Fits(w, out, entries),
         f.part \in {"Begin", "Head"}
           => Cardinality(Counted(w, out, entries, Len(w)) \cup {f.id}) <= MaxCalls
  PROVE  Fits(Append(w, f), out, entries)
<1> DEFINE v == Append(w, f)
<1>1. /\ Len(w) \in Nat /\ DOMAIN w = 1..Len(w) /\ DOMAIN v = 1..(Len(w) + 1)
      /\ v[Len(w) + 1] = f /\ \A k \in DOMAIN w : v[k] = w[k]
  BY AppendPlaces
<1> SUFFICES Fits(v, out, entries)
  OBVIOUS
<1> HIDE DEF v
<1> SUFFICES ASSUME NEW k \in DOMAIN v, v[k].part \in {"Begin", "Head"}
             PROVE  Cardinality(Counted(v, out, entries, k - 1) \cup {v[k].id}) <= MaxCalls
  BY DEF Fits
<1>2. \A j \in 1..(k - 1) : v[j] = w[j]
  BY <1>1
<1>3. Counted(v, out, entries, k - 1) = Counted(w, out, entries, k - 1)
  BY <1>2 DEF Counted
<1>4. CASE k \in DOMAIN w
  BY <1>1, <1>3, <1>4 DEF Fits
<1>5. CASE k \notin DOMAIN w
  <2>1. v[k] = f /\ k - 1 = Len(w)
    BY <1>1, <1>5
  <2> QED BY <1>3, <2>1
<1> QED BY <1>4, <1>5

LEMMA FitsTail ==
  ASSUME NEW w \in Seq(Fragments), w # <<>>, NEW out, NEW entries, NEW out2, NEW entries2,
         Fits(w, out, entries),
         \A i \in Calls :
           /\ i \in out2 => i \in out \/ (Head(w).id = i /\ Head(w).part = "Head")
           /\ entries2[i] = "payload" => entries[i] = "payload" \/ (Head(w).id = i /\ Head(w).part = "Begin")
           /\ Head(w).id = i /\ Head(w).part = "Abort" =>
                entries2[i] # "payload" /\ ~Has(Tail(w), i, "Begin")
  PROVE  Fits(Tail(w), out2, entries2)
<1> DEFINE v == Tail(w)
           f == Head(w)
<1>1. /\ Len(w) \in Nat /\ Len(w) >= 1 /\ DOMAIN w = 1..Len(w)
      /\ DOMAIN v = 1..(Len(w) - 1) /\ f = w[1] /\ v \in Seq(Fragments)
      /\ \A k \in DOMAIN v : v[k] = w[k + 1]
  BY TailPlaces
<1>2. \A i \in Calls :
           /\ i \in out2 => i \in out \/ (f.id = i /\ f.part = "Head")
           /\ entries2[i] = "payload" => entries[i] = "payload" \/ (f.id = i /\ f.part = "Begin")
           /\ f.id = i /\ f.part = "Abort" => entries2[i] # "payload" /\ ~Has(v, i, "Begin")
  OBVIOUS
<1> SUFFICES Fits(v, out2, entries2)
  OBVIOUS
<1> HIDE DEF v, f
<1> SUFFICES ASSUME NEW k \in DOMAIN v, v[k].part \in {"Begin", "Head"}
             PROVE  Cardinality(Counted(v, out2, entries2, k - 1) \cup {v[k].id}) <= MaxCalls
  BY DEF Fits
<1> DEFINE A == Counted(v, out2, entries2, k - 1) \cup {v[k].id}
           B == Counted(w, out, entries, k) \cup {w[k + 1].id}
<1>3. k + 1 \in DOMAIN w /\ v[k] = w[k + 1] /\ (k + 1) - 1 = k
  BY <1>1
<1>4. Cardinality(B) <= MaxCalls
  BY <1>3 DEF Fits
<1>5. B \subseteq Calls
  BY <1>3, FragmentIds DEF Counted
<1>6. /\ \A j \in 1..(k - 1) : j \in DOMAIN v /\ j + 1 \in 1..k /\ v[j] = w[j + 1]
      /\ \A j \in 1..k : (j = 1 /\ w[j] = f) \/ (j - 1 \in 1..(k - 1) /\ v[j - 1] = w[j])
      /\ 1 \in 1..k /\ w[1] = f
  <2>0. k \in 1..(Len(w) - 1) /\ w[1] = f
    BY <1>1
  <2>1. ASSUME NEW j \in 1..(k - 1) PROVE j \in DOMAIN v /\ j + 1 \in 1..k /\ v[j] = w[j + 1]
    <3>1. j \in 1..(Len(w) - 1) /\ j + 1 \in 1..k
      BY <1>1, <2>0
    <3> QED BY <1>1, <3>1
  <2>2. ASSUME NEW j \in 1..k, j # 1 PROVE j - 1 \in 1..(k - 1) /\ v[j - 1] = w[j]
    <3>1. j - 1 \in 1..(Len(w) - 1) /\ j - 1 \in 1..(k - 1) /\ (j - 1) + 1 = j
      BY <1>1, <2>0, <2>2
    <3>2. v[j - 1] = w[(j - 1) + 1]
      BY <1>1, <3>1
    <3> QED BY <3>1, <3>2
  <2> QED BY <2>0, <2>1, <2>2
<1>7. ASSUME NEW i \in Counted(v, out2, entries2, k - 1) PROVE i \in Counted(w, out, entries, k)
  <2>0. i \in Calls
    BY DEF Counted
  <2>1. CASE i \in out2
    BY <1>2, <1>6, <2>0, <2>1 DEF Counted
  <2>2. CASE \E j \in 1..(k - 1) : v[j].id = i /\ v[j].part = "Head"
    BY <1>6, <2>0, <2>2 DEF Counted
  <2>3. CASE /\ entries2[i] = "payload" \/ \E j \in 1..(k - 1) : v[j].id = i /\ v[j].part = "Begin"
             /\ ~\E j \in 1..(k - 1) : v[j].id = i /\ v[j].part = "Abort"
    <3>1. entries[i] = "payload" \/ \E j \in 1..k : w[j].id = i /\ w[j].part = "Begin"
      BY <1>2, <1>6, <2>0, <2>3
    <3>2. ~(f.id = i /\ f.part = "Abort")
      <4>1. (\E j \in 1..(k - 1) : v[j].id = i /\ v[j].part = "Begin") => Has(v, i, "Begin")
        BY <1>6 DEF Has
      <4> QED BY <1>2, <2>0, <2>3, <4>1
    <3>3. ~\E j \in 1..k : w[j].id = i /\ w[j].part = "Abort"
      BY <1>6, <2>3, <3>2
    <3> QED BY <2>0, <3>1, <3>3 DEF Counted
  <2> QED BY <2>1, <2>2, <2>3 DEF Counted
<1>8. A \subseteq B
  BY <1>3, <1>7
<1> HIDE DEF A, B
<1>9. Cardinality(A) <= Cardinality(B) /\ Cardinality(A) \in Nat /\ Cardinality(B) \in Nat
  BY <1>5, <1>8, Smaller
<1>10. Cardinality(A) <= MaxCalls
  BY <1>4, <1>9, LimitAssumption
<1> QED BY <1>10 DEF A

\* The calls that the server may count when it has taken everything have a slot.
LEMMA CountedHaveSlots ==
  ASSUME TypeOK, RequestStreams, \A i \in Calls : HeldCall(i)
  PROVE  Counted(Up, outstanding, sin, Len(Up)) \subseteq active
<1>0. Up \in Seq(Fragments) /\ DOMAIN Up = 1..Len(Up)
  BY WayTypes
<1> SUFFICES ASSUME NEW i \in Counted(Up, outstanding, sin, Len(Up)) PROVE i \in active
  OBVIOUS
<1>1. /\ i \in Calls
      /\ \/ i \in outstanding \/ Has(Up, i, "Head")
         \/ (sin[i] = "payload" \/ Has(Up, i, "Begin")) /\ ~Has(Up, i, "Abort")
  BY <1>0 DEF Counted, Has
<1>2. Stream(Up, i, csend[i], sin[i], ReqStreams) /\ HeldOnce(i) /\ csend[i] \in SendPhases
  BY <1>1 DEF RequestStreams, HeldCall, TypeOK
<1>3. i \in outstanding \/ Has(Up, i, "Head") \/ csend[i] = "started"
  BY <1>1, <1>2 DEF Stream, Leads, Continues, SendPhases, Parts
<1> QED BY <1>2, <1>3 DEF HeldOnce, One, AtClient, Coming, AtServer, Answered, Scheduled, Returning,
           Failing, Aborting, Discarded


\* An ABORT or a CANCEL asks for no room.
LEMMA FitsControl ==
  ASSUME NEW w \in Seq(Fragments), NEW out, NEW entries, NEW c \in Calls, NEW part \in {"Abort", "Cancel"},
         Fits(w, out, entries)
  PROVE  /\ Append(w, Control(part, c)) \in Seq(Fragments)
         /\ Fits(Append(w, Control(part, c)), out, entries)
<1> DEFINE f == Control(part, c)
<1>1. f \in Fragments /\ f.part = part
  BY DEF Control, Fragment, Fragments
<1> HIDE DEF f
<1>2. f.part \notin {"Begin", "Head"}
  BY <1>1
<1>3. Append(w, f) \in Seq(Fragments) /\ Fits(Append(w, f), out, entries)
  BY <1>1, <1>2, FitsAppend, AppendPlaces
<1> QED BY <1>3 DEF f

\* A turn of the client's writer, and a fragment of a request: whoever sends
\* a fragment of a payload has a slot, and so has everyone that will be counted.
LEMMA AdmitTurns ==
  ASSUME BaseInv, AdmitNext, Admissible
  PROVE  Admissible'
<1>0. Up \in Seq(Fragments) /\ outstanding' = outstanding /\ sin' = sin
  BY WayTypes DEF BaseInv, AdmitNext, srvVars
<1>1. PICK c \in Calls, S \in SUBSET active, T \in SUBSET Calls : Moved(c, S, T)
  BY TurnMoves
<1> DEFINE x == Control("Abort", c)
           y == Control("Cancel", c)
<1>2. Fits(Up, outstanding, sin)
  BY DEF Admissible
<1>3. /\ Append(Up, x) \in Seq(Fragments) /\ Fits(Append(Up, x), outstanding, sin)
      /\ Fits(Append(Up, y), outstanding, sin)
  BY <1>0, <1>2, FitsControl
<1>4. Fits(Append(Append(Up, x), y), outstanding, sin)
  BY <1>3, FitsControl
<1>5. Up' = Up \/ Up' = Append(Up, x) \/ Up' = Append(Up, y) \/ Up' = Append(Append(Up, x), y)
  BY <1>1 DEF Moved
<1> HIDE DEF x, y
<1>6. Fits(Up', outstanding', sin')
  BY <1>0, <1>2, <1>3, <1>4, <1>5
<1> QED BY <1>6 DEF Admissible

LEMMA AdmitSends ==
  ASSUME BaseInv, RequestStreams, \A j \in Calls : HeldCall(j), NEW i \in Calls, SendRequest(i), Admissible
  PROVE  Admissible'
<1>0. TypeOK /\ Up \in Seq(Fragments) /\ outstanding' = outstanding /\ sin' = sin
  BY WayTypes DEF BaseInv, SendRequest, srvVars
<1>1. Sends(i)
  BY <1>0, RequestSends
<1>2. Fits(Up, outstanding, sin)
  BY DEF Admissible
<1>3. CASE \E step \in Steps(i, csend[i], ReqStreams) : Up' = Append(Up, step.fragment)
  <2> PICK step \in Steps(i, csend[i], ReqStreams) : Up' = Append(Up, step.fragment)
    BY <1>3
  <2>1. Advances(i, csend[i], ReqStreams, step)
    BY StepTypes
  <2> DEFINE f == step.fragment
  <2>2. /\ f \in Fragments /\ f.id = i
        /\ f.part \in {"Begin", "Head"} => csend[i] \in {"queued", "started"}
    BY <2>1 DEF Advances
  <2> HIDE DEF f
  <2>3. ASSUME f.part \in {"Begin", "Head"}
        PROVE  Cardinality(Counted(Up, outstanding, sin, Len(Up)) \cup {f.id}) <= MaxCalls
    <3> DEFINE A == Counted(Up, outstanding, sin, Len(Up)) \cup {f.id}
    <3>1. HeldOnce(i) /\ AtClient(i)
      BY <2>2, <2>3 DEF HeldCall, AtClient
    <3>2. i \in active
      BY <3>1 DEF HeldOnce, One
    <3>3. A \subseteq active
      BY <1>0, <2>2, <3>2, CountedHaveSlots
    <3>4. active \in SUBSET Calls /\ Cardinality(active) <= MaxCalls
      BY <1>0 DEF TypeOK
    <3> HIDE DEF A
    <3>5. Cardinality(A) \in Nat /\ Cardinality(active) \in Nat /\ Cardinality(A) <= Cardinality(active)
      BY <3>3, <3>4, Smaller
    <3>6. Cardinality(A) <= MaxCalls
      BY <3>4, <3>5, LimitAssumption
    <3> QED BY <3>6 DEF A
  <2>4. Fits(Append(Up, f), outstanding, sin)
    BY <1>0, <1>2, <2>2, <2>3, FitsAppend
  <2>5. Up' = Append(Up, f)
    BY DEF f
  <2>6. Fits(Up', outstanding', sin')
    BY <1>0, <2>4, <2>5
  <2> QED BY <2>6 DEF Admissible
<1>4. CASE Up' = Append(Append(Up, Control("Abort", i)), Control("Cancel", i))
  <2> DEFINE x == Control("Abort", i)
             y == Control("Cancel", i)
  <2>1. Append(Up, x) \in Seq(Fragments) /\ Fits(Append(Up, x), outstanding, sin)
    BY <1>0, <1>2, FitsControl
  <2>2. Fits(Append(Append(Up, x), y), outstanding, sin)
    BY <2>1, FitsControl
  <2> HIDE DEF x, y
  <2>3. Fits(Up', outstanding', sin')
    BY <1>0, <1>4, <2>2 DEF x, y
  <2> QED BY <2>3 DEF Admissible
<1> QED BY <1>1, <1>3, <1>4 DEF Sends

\* The server takes a fragment: what it counts then was counted already.
LEMMA AdmitRequest ==
  ASSUME BaseInv, RequestStreams, RecvRequest, link' = "up", Admissible
  PROVE  Admissible'
<1> DEFINE f == Head(c2s)
<1>0. /\ TypeOK /\ Up \in Seq(Fragments) /\ sin \in [Calls -> EntryPhases]
      /\ c2s # <<>> /\ c2s' = Tail(c2s) /\ ccontrol' = ccontrol
  BY WayTypes DEF BaseInv, TypeOK, RecvRequest, cwVars
<1>1. /\ sin' = Accepted(sin, f, ReqStreams) /\ f.part \in Parts
      /\ outstanding' = outstanding \/ (f.part = "Head" /\ outstanding' = outstanding \cup {f.id})
  BY DEF RecvRequest, ServerFails, Parts
<1>2. Up # <<>> /\ Up' = Tail(Up) /\ Head(Up) = f /\ f.id \in Calls
  BY <1>0, RequestTaken
<1> HIDE DEF f
<1>3. \A i \in Calls :
        /\ i # f.id => sin'[i] = sin[i]
        /\ i = f.id => sin'[i] = After(f, ReqStreams)
  BY <1>0, <1>1, <1>2 DEF Accepted, After
<1>4. /\ After(f, ReqStreams) = "payload" => f.part = "Begin"
      /\ f.part = "Abort" => After(f, ReqStreams) # "payload"
  BY DEF After
<1>5. f.part = "Abort" => ~Has(Tail(Up), f.id, "Begin")
  <2>1. InOrder(Up, f.id)
    BY <1>2 DEF RequestStreams, Stream
  <2>2. "Begin" \in Parts /\ ~Earlier("Abort", "Begin")
    BY DEF Parts, Earlier
  <2>3. Has(Tail(Up), f.id, "Begin") => Earlier(Head(Up).part, "Begin")
    BY <1>0, <1>1, <1>2, <2>1, <2>2, OrderHead
  <2> QED BY <1>2, <2>2, <2>3
<1>6. \A i \in Calls :
        /\ i \in outstanding' => i \in outstanding \/ (Head(Up).id = i /\ Head(Up).part = "Head")
        /\ sin'[i] = "payload" => sin[i] = "payload" \/ (Head(Up).id = i /\ Head(Up).part = "Begin")
        /\ Head(Up).id = i /\ Head(Up).part = "Abort" => sin'[i] # "payload" /\ ~Has(Tail(Up), i, "Begin")
  BY <1>1, <1>2, <1>3, <1>4, <1>5
<1>7. Fits(Up, outstanding, sin)
  BY DEF Admissible
<1>8. Fits(Tail(Up), outstanding', sin')
  BY <1>0, <1>2, <1>6, <1>7, FitsTail
<1> QED BY <1>2, <1>8 DEF Admissible

LEMMA AdmitCancels ==
  ASSUME BaseInv, RequestStreams, RecvCancel, Admissible
  PROVE  Admissible'
<1>0. /\ TypeOK /\ Up \in Seq(Fragments) /\ outstanding' = outstanding /\ sin' = sin
      /\ c2s # <<>> /\ c2s' = Tail(c2s) /\ ccontrol' = ccontrol /\ Head(c2s).part = "Cancel"
  BY WayTypes DEF BaseInv, RecvCancel, cwVars
<1>1. Up # <<>> /\ Up' = Tail(Up) /\ Head(Up) = Head(c2s)
  BY <1>0, RequestTaken
<1>2. Head(Up).part # "Abort"
  BY <1>0, <1>1
<1>3. Fits(Up, outstanding, sin)
  BY DEF Admissible
<1>4. Fits(Tail(Up), outstanding, sin)
  BY <1>0, <1>1, <1>2, <1>3, FitsTail
<1>5. Fits(Up', outstanding', sin')
  BY <1>0, <1>1, <1>4
<1> QED BY <1>5 DEF Admissible

LEMMA AdmitStep == BaseInv /\ RequestInv /\ HeldInv /\ AdmitInv /\ [Next]_vars => AdmitInv'
<1> SUFFICES ASSUME BaseInv, RequestInv, HeldInv, AdmitInv, [Next]_vars, link' = "up"
             PROVE  Admissible'
  BY DEF AdmitInv
<1>0. link = "up" /\ TypeOK /\ Up \in Seq(Fragments)
  BY LinkStays, WayTypes DEF BaseInv
<1>1. RequestStreams /\ Admissible /\ \A j \in Calls : HeldCall(j)
  BY <1>0 DEF RequestInv, HeldInv, HeldCall, ResponseStreams, AdmitInv
<1>2. ASSUME Up' = Up, sin' = sin, outstanding' \subseteq outstanding PROVE Admissible'
  <2>1. Fits(Up, outstanding, sin)
    BY <1>1 DEF Admissible
  <2>2. Fits(Up, outstanding', sin)
    BY <1>0, <1>2, <2>1, FitsFewer
  <2>3. Fits(Up', outstanding', sin')
    BY <1>2, <2>2
  <2> QED BY <2>3 DEF Admissible
<1>3. CASE AdmitNext
  BY <1>1, <1>3, AdmitTurns
<1>4. CASE \E i \in Calls : SendRequest(i)
  BY <1>1, <1>4, AdmitSends
<1>5. CASE RecvRequest
  BY <1>1, <1>5, AdmitRequest
<1>6. CASE RecvCancel
  BY <1>1, <1>6, AdmitCancels
<1>7. CASE SendControl
  BY <1>0, <1>2, <1>7, ControlMoves DEF SendControl, srvVars
<1>8. CASE SendServerControl
  BY <1>0, <1>2, <1>8, ControlMoves DEF SendServerControl, srvVars
<1>9. CASE \E i \in Calls : Respond(i) \/ DropContext(i)
  <2>1. UNCHANGED <<c2s, ccontrol, sin>> /\ outstanding' \subseteq outstanding
    BY <1>9 DEF Respond, DropContext, Answer, netVars, cwVars
  <2> QED BY <1>2, <2>1 DEF Up
<1>10. CASE \/ \E i \in Calls : Begin(i) \/ BeginQueued(i) \/ Application(i)
            \/ Close \/ Fail \/ LoseLink \/ AbandonWaiting \/ AtRest \/ UNCHANGED vars
            \/ StartDraining \/ (\E i \in Calls : EnterGuard(i) \/ LeaveGuard(i))
  <2>1. UNCHANGED <<c2s, ccontrol, sin, outstanding>>
    BY <1>10 DEF vars, Begin, BeginQueued, Application, FinishTrailer, CancelCall, DropCall, Close, Fail,
       LoseLink, AbandonWaiting, StartDraining, EnterGuard, LeaveGuard, AtRest, netVars, cwVars, srvVars
  <2> QED BY <1>2, <2>1 DEF Up
<1>11. CASE AdmitResponse \/ RecvResponse \/ (\E i \in Calls : SendResponse(i))
  <2>1. UNCHANGED <<c2s, ccontrol, sin, outstanding>>
    BY <1>11 DEF SendResponse, AdmitResponse, RecvResponse, netVars, cwVars, srvVars
  <2> QED BY <1>2, <2>1 DEF Up
<1> QED BY <1>3, <1>4, <1>5, <1>6, <1>7, <1>8, <1>9, <1>10, <1>11 DEF Next, ClientTasks, Handler


LEMMA AdmitInit == Init => AdmitInv
<1> SUFFICES ASSUME Init PROVE Fits(Up, outstanding, sin)
  BY DEF AdmitInv, Admissible
<1>1. Up = <<>>
  BY DEF Init, Up
<1> QED BY <1>1 DEF Fits

\* Disjoint sets of calls and one call more, among no more than MaxCalls.
LEMMA Room ==
  ASSUME NEW C \in SUBSET Calls, Cardinality(C) <= MaxCalls, NEW A \in SUBSET C, NEW B \in SUBSET C,
         A \cap B = {}, NEW i \in C, i \notin A, i \notin B
  PROVE  /\ Cardinality(A) \in Nat /\ Cardinality(B) \in Nat
         /\ Cardinality(A) + Cardinality(B) + 1 <= MaxCalls
<1> DEFINE D == A \cup B
           E == D \cup {i}
<1>1. /\ IsFiniteSet(A) /\ IsFiniteSet(B) /\ Cardinality(A) \in Nat /\ Cardinality(B) \in Nat
      /\ Cardinality(C) \in Nat
  BY Smaller
<1>2. IsFiniteSet(D) /\ Cardinality(D) = Cardinality(A) + Cardinality(B)
  <2>1. /\ IsFiniteSet(A \cup B) /\ IsFiniteSet(A \cap B)
        /\ Cardinality(A \cup B) = Cardinality(A) + Cardinality(B) - Cardinality(A \cap B)
    BY <1>1, FS_Union, FS_Intersection
  <2>2. Cardinality(A \cap B) = 0
    BY FS_EmptySet
  <2>3. Cardinality(D) = Cardinality(A) + Cardinality(B) - 0
    BY <2>1, <2>2
  <2> QED BY <1>1, <2>1, <2>3
<1>3. Cardinality(E) = Cardinality(D) + 1
  BY <1>2, FS_AddElement
<1>4. Cardinality(E) \in Nat /\ Cardinality(E) <= Cardinality(C)
  BY Smaller
<1> HIDE DEF D, E
<1> QED BY <1>1, <1>2, <1>3, <1>4, LimitAssumption

\* What the server takes, it accepts.
LEMMA ServerAccepts ==
  ASSUME BaseInv, RequestStreams, \A j \in Calls : HeldCall(j), Admissible,
         c2s # <<>>, Head(c2s).part \in Parts
  PROVE  ~ServerRejects(Head(c2s))
<1> DEFINE f == Head(c2s)
           i == f.id
<1>0. /\ TypeOK /\ Up \in Seq(Fragments) /\ sin \in [Calls -> EntryPhases]
      /\ csend \in [Calls -> SendPhases] /\ outstanding \subseteq Calls
  BY WayTypes DEF BaseInv, TypeOK
<1>1. Up # <<>> /\ Head(Up) = f /\ i \in Calls
  <2>1. c2s \in Seq(Fragments) /\ ccontrol \in Seq(Fragments)
    BY <1>0, PartsOf
  <2>2. Up # <<>> /\ Head(Up) = f
    BY <2>1, ConcatTail DEF Up
  <2>3. Head(Up) \in Fragments
    BY <1>0, <2>2, TailPlaces
  <2> QED BY <2>2, <2>3 DEF Fragments
<1>2. f.part \in Parts
  OBVIOUS
<1> HIDE DEF f, i
<1>3. Stream(Up, i, csend[i], sin[i], ReqStreams) /\ csend[i] \in SendPhases /\ sin[i] \in EntryPhases
  BY <1>0, <1>1 DEF RequestStreams
<1>4. /\ f.first => sin[i] = "none" /\ f.part \in {"Begin", "Head"}
      /\ f.part \in {"Begin", "Head"} /\ ~f.first => sin[i] = "payload"
      /\ f.part = "Tail" => sin[i] = "trailer"
      /\ f.part = "Abort" => sin[i] # "none"
  <2>1. Head(Up).id = i
    BY <1>1 DEF i
  <2> QED BY <1>0, <1>1, <1>2, <1>3, <2>1, StreamAccept
<1>5. Has(Up, i, f.part)
  <2>1. f = Up[1] /\ 1 \in DOMAIN Up
    BY <1>0, <1>1, TailPlaces
  <2> QED BY <2>1 DEF Has, i
<1>6. f.part \in {"Begin", "Head"} => i \notin outstanding
  <2>1. HeldOnce(i) /\ Dispatched(i)
    BY <1>1 DEF HeldCall
  <2>2. f.part = "Begin" => i \notin outstanding
    BY <1>5, <2>1 DEF Dispatched
  <2>3. f.part = "Head" => i \notin outstanding
    BY <1>5, <2>1 DEF HeldOnce, One, Coming, AtServer
  <2> QED BY <2>2, <2>3
<1>7. ASSUME f.part \in {"Begin", "Head"}
      PROVE  /\ Cardinality(outstanding) \in Nat /\ Cardinality(Arriving(sin) \ {i}) \in Nat
             /\ Cardinality(outstanding) + Cardinality(Arriving(sin) \ {i}) + 1 <= MaxCalls
  <2> DEFINE C == Counted(Up, outstanding, sin, 0) \cup {i}
             B == Arriving(sin) \ {i}
  <2>1. C \in SUBSET Calls
    BY <1>1 DEF Counted
  <2>2. Cardinality(C) <= MaxCalls
    <3>1. Up[1] = f /\ 1 \in DOMAIN Up /\ 1 - 1 = 0
      BY <1>0, <1>1, TailPlaces
    <3>2. Cardinality(Counted(Up, outstanding, sin, 1 - 1) \cup {Up[1].id}) <= MaxCalls
      BY <1>7, <3>1 DEF Admissible, Fits
    <3> QED BY <3>1, <3>2 DEF i
  <2>3. outstanding \subseteq C
    BY <1>0 DEF Counted
  <2>4. B \subseteq C
    <3>1. \A j \in 1..0 : FALSE
      OBVIOUS
    <3> QED BY <3>1 DEF Counted, Arriving
  <2>5. outstanding \cap B = {}
    BY DEF HeldCall, Dispatched, Arriving
  <2>6. i \in C /\ i \notin B /\ i \notin outstanding
    BY <1>6, <1>7
  <2> HIDE DEF B, C
  <2>7. /\ Cardinality(outstanding) \in Nat /\ Cardinality(B) \in Nat
        /\ Cardinality(outstanding) + Cardinality(B) + 1 <= MaxCalls
    BY <2>1, <2>2, <2>3, <2>4, <2>5, <2>6, Room
  <2> QED BY <2>7 DEF B
<1>8. sin[i] = "none" => Arriving(sin) \ {i} = Arriving(sin)
  BY DEF Arriving
<1>9. f.part = "Begin" => f.first
  BY <1>3, <1>4, <1>5 DEF Stream, Continues
<1>10. ~Malformed(sin, f, ReqStreams)
  <2>1. ASSUME f.first PROVE Cardinality(Arriving(sin)) < MaxCalls
    <3>1. f.part \in {"Begin", "Head"} /\ Arriving(sin) \ {i} = Arriving(sin)
      BY <1>4, <1>8, <2>1
    <3>2. Cardinality(outstanding) + Cardinality(Arriving(sin)) + 1 <= MaxCalls
          /\ Cardinality(outstanding) \in Nat /\ Cardinality(Arriving(sin)) \in Nat
      BY <1>7, <3>1
    <3> QED BY <3>2, LimitAssumption
  <2>2. ASSUME f.first, Cardinality(Arriving(sin)) >= MaxCalls PROVE FALSE
    <3>1. f.part \in {"Begin", "Head"} /\ Arriving(sin) \ {i} = Arriving(sin)
      BY <1>4, <1>8, <2>2
    <3>2. Cardinality(Arriving(sin)) \in Nat
      BY <1>7, <3>1
    <3> QED BY <2>1, <2>2, <3>2, LimitAssumption
  <2> QED BY <1>4, <2>2 DEF Malformed, i
<1>11. ASSUME f.part = "Begin" PROVE i \notin outstanding /\ ~TooManyCalls(Cardinality(Arriving(sin)) + 1)
  <2>1. Arriving(sin) \ {i} = Arriving(sin)
    BY <1>4, <1>8, <1>9, <1>11
  <2>2. /\ Cardinality(outstanding) + Cardinality(Arriving(sin)) + 1 <= MaxCalls
        /\ Cardinality(outstanding) \in Nat /\ Cardinality(Arriving(sin)) \in Nat
    BY <1>7, <1>11, <2>1
  <2>3. ~TooManyCalls(Cardinality(Arriving(sin)) + 1)
    BY <2>2, LimitAssumption DEF TooManyCalls
  <2> QED BY <1>6, <1>11, <2>3
<1>12. ASSUME f.part = "Head" PROVE i \notin outstanding /\ ~TooManyCalls(Cardinality(Arriving(sin) \ {i}) + 1)
  <2>1. /\ Cardinality(outstanding) + Cardinality(Arriving(sin) \ {i}) + 1 <= MaxCalls
        /\ Cardinality(outstanding) \in Nat /\ Cardinality(Arriving(sin) \ {i}) \in Nat
    BY <1>7, <1>12
  <2>2. ~TooManyCalls(Cardinality(Arriving(sin) \ {i}) + 1)
    BY <2>1, LimitAssumption DEF TooManyCalls
  <2> QED BY <1>6, <1>12, <2>2
<1>13. ~ServerRejects(f)
  BY <1>10, <1>11, <1>12 DEF ServerRejects, i
<1> QED BY <1>13 DEF f

\* A response that has begun and is not whole is for a call with a slot.
LEMMA BegunHaveSlots ==
  ASSUME TypeOK, NEW i \in Calls, HeldCall(i),
         Has(Down, i, "Head") \/ Has(Down, i, "Begin") \/ cin[i] = "payload"
  PROVE  i \in active
<1>1. rsend[i] \in SendPhases /\ Stream(Down, i, rsend[i], cin[i], RespStreams) /\ HeldOnce(i)
  BY DEF TypeOK, HeldCall
<1>2. Scheduled(i) \/ Returning(i) \/ Aborting(i)
  BY <1>1 DEF Stream, Leads, Continues, SendPhases, Parts, Scheduled, Returning, Aborting
<1> QED BY <1>1, <1>2 DEF HeldOnce, One

\* And so does the client.
LEMMA ClientAccepts ==
  ASSUME BaseInv, ControlParts, \A j \in Calls : HeldCall(j), s2c # <<>>, Head(s2c).part # "Error"
  PROVE  ~ClientRejects(Head(s2c))
<1> DEFINE f == Head(s2c)
           i == f.id
<1>0. /\ TypeOK /\ Down \in Seq(Fragments) /\ cin \in [Calls -> EntryPhases]
      /\ rsend \in [Calls -> SendPhases] /\ active \in SUBSET Calls /\ Cardinality(active) <= MaxCalls
  BY WayTypes DEF BaseInv, TypeOK
<1>1. Down # <<>> /\ Head(Down) = f /\ i \in Calls /\ f.part \in Parts
  <2>1. s2c \in Seq(Fragments) /\ scontrol \in Seq(Fragments)
    BY <1>0, PartsOf
  <2>2. Down # <<>> /\ Head(Down) = f
    BY <2>1, ConcatTail DEF Down
  <2>3. Head(Down) \in Fragments
    BY <1>0, <2>2, TailPlaces
  <2>4. f = s2c[1] /\ 1 \in DOMAIN s2c
    BY <2>1, TailPlaces
  <2>5. f.part \in Parts
    BY <2>4 DEF ControlParts, OfParts
  <2> QED BY <2>2, <2>3, <2>5 DEF Fragments
<1> HIDE DEF f, i
<1>3. Stream(Down, i, rsend[i], cin[i], RespStreams) /\ rsend[i] \in SendPhases /\ cin[i] \in EntryPhases
  BY <1>0, <1>1 DEF HeldCall
<1>4. /\ f.first => cin[i] = "none" /\ f.part \in {"Begin", "Head"}
      /\ f.part \in {"Begin", "Head"} /\ ~f.first => cin[i] = "payload"
      /\ f.part = "Tail" => cin[i] = "trailer"
      /\ f.part = "Abort" => cin[i] # "none"
  <2>1. Head(Down).id = i
    BY <1>1 DEF i
  <2> QED BY <1>0, <1>1, <1>3, <2>1, StreamAccept
<1>5. Has(Down, i, f.part)
  <2>1. f = Down[1] /\ 1 \in DOMAIN Down
    BY <1>0, <1>1, TailPlaces
  <2> QED BY <2>1 DEF Has, i
<1>6. ASSUME f.first PROVE i \in active /\ ~(Cardinality(Arriving(cin)) >= MaxCalls)
  <2>1. i \in active
    BY <1>0, <1>1, <1>4, <1>5, <1>6, BegunHaveSlots
  <2>2. Arriving(cin) \subseteq active
    BY <1>0, BegunHaveSlots DEF Arriving
  <2>3. i \notin Arriving(cin)
    BY <1>4, <1>6 DEF Arriving
  <2>4. {} \in SUBSET active /\ Arriving(cin) \cap {} = {} /\ i \notin {}
    OBVIOUS
  <2>5. /\ Cardinality(Arriving(cin)) \in Nat /\ Cardinality({}) \in Nat
        /\ Cardinality(Arriving(cin)) + Cardinality({}) + 1 <= MaxCalls
    BY <1>0, <2>1, <2>2, <2>3, <2>4, Room
  <2>6. ~(Cardinality(Arriving(cin)) >= MaxCalls)
    BY <2>5, LimitAssumption
  <2> QED BY <2>1, <2>6
<1>7. ~Malformed(cin, f, RespStreams)
  BY <1>4, <1>6 DEF Malformed, i
<1>8. ~ClientRejects(f)
  BY <1>6, <1>7 DEF ClientRejects, i
<1> QED BY <1>8 DEF f

LEMMA ConformStep ==
  BaseInv /\ RequestInv /\ HeldInv /\ AdmitInv /\ PeersConform /\ [Next]_vars => PeersConform'
<1> SUFFICES ASSUME BaseInv, RequestInv, HeldInv, AdmitInv, PeersConform, [Next]_vars PROVE fault' = "none"
  BY DEF PeersConform
<1>0. fault = "none"
  BY DEF PeersConform
<1>1. ASSUME link = "up"
      PROVE  RequestStreams /\ ControlParts /\ Admissible /\ \A j \in Calls : HeldCall(j)
  BY <1>1 DEF RequestInv, HeldInv, HeldCall, ResponseStreams, AdmitInv
<1>2. CASE RecvRequest
  <2>1. link = "up" /\ c2s # <<>> /\ Head(c2s).part \in Parts
    BY <1>2 DEF RecvRequest, Parts
  <2>2. ~ServerRejects(Head(c2s))
    BY <1>1, <2>1, ServerAccepts
  <2> QED BY <1>0, <1>2, <2>2 DEF RecvRequest
<1>3. CASE RecvResponse
  <2>1. link = "up" /\ s2c # <<>>
    BY <1>3 DEF RecvResponse
  <2>2. Head(s2c).part # "Error" => ~ClientRejects(Head(s2c))
    BY <1>1, <2>1, ClientAccepts
  <2> QED BY <1>0, <1>3, <2>2 DEF RecvResponse
<1>4. CASE ~RecvRequest /\ ~RecvResponse
  <2>1. UNCHANGED fault
    BY <1>4 DEF Next, vars, Begin, BeginQueued, Application, FinishTrailer, CancelCall, DropCall, Close, Fail,
       LoseLink, ClientTasks, AdmitNext, AbandonWaiting, SendControl, SendRequest,
       RecvCancel, StartDraining, Handler, Respond, DropContext, EnterGuard, LeaveGuard,
       SendResponse, AdmitResponse, SendServerControl, AtRest
  <2> QED BY <1>0, <2>1
<1> QED BY <1>2, <1>3, <1>4

LEMMA CallAlways == Spec => []CallInv
<1>1. Init => PeersConform
  BY DEF Init, PeersConform
<1>2. Spec => []AdmitInv
  BY HeldAlways, AdmitInit, AdmitStep, PTL DEF Spec
<1>3. Spec => []PeersConform
  BY <1>1, <1>2, HeldAlways, ConformStep, PTL DEF Spec
<1> QED BY <1>2, <1>3, HeldAlways, PTL DEF CallInv

(* Two ends that follow this code never fail the connection on each other,
   whatever the number of calls and of slots: the server has room for every
   request that reaches it, although the client reuses the slot of a half-sent
   request as soon as its ABORT is queued, and no response begins for a call
   whose slot is gone (check_call_admission, check_header, Reassembler::accept). *)
THEOREM PeersAgree == Spec => []PeersConform
<1>1. CallInv => PeersConform
  BY DEF CallInv
<1> QED BY <1>1, CallAlways, PTL


-----------------------------------------------------------------------------
(***************************************************************************)
(* A call without a request trailer is cancelled once.                     *)
(***************************************************************************)

Plain == Calls \ ReqStreams
InChannel(i) == Holds(cqueue, i, {"Cancel"})
OnItsWay(i) == Holds(Up, i, {"Cancel"})

\* Its one Cancel is in the channel or on its way, and has been neither before
\* it was asked for nor after a guard has intercepted it.
CancelledOnce(i) ==
  /\ csend[i] # "trailer"
  /\ Once(cqueue, i, {"Cancel"}) /\ Once(Up, i, {"Cancel"})
  /\ ~(InChannel(i) /\ OnItsWay(i))
  /\ InChannel(i) \/ OnItsWay(i) => cancelSent[i]
  /\ task[i] = "told" => cancelSent[i] /\ ~InChannel(i) /\ ~OnItsWay(i)

\* What a step may leave alone of it.
SameChannel(i) == (InChannel(i)' <=> InChannel(i)) /\ Once(cqueue', i, {"Cancel"})
SameWay(i) == (OnItsWay(i)' <=> OnItsWay(i)) /\ Once(Up', i, {"Cancel"})
NotTold(i) == /\ task'[i] = "told" => task[i] = "told"
              /\ cancelSent[i] => cancelSent'[i]

LEMMA CancelsKept ==
  ASSUME NEW i, CancelledOnce(i), SameChannel(i), SameWay(i), NotTold(i), csend'[i] # "trailer"
  PROVE  CancelledOnce(i)'
BY DEF CancelledOnce, SameChannel, SameWay, NotTold

LEMMA ChannelBesides ==
  ASSUME TypeOK, NEW i, CancelledOnce(i), NEW c \in Calls, NEW part \in {"Request", "Cancel", "Terminal"},
         part # "Cancel" \/ c # i,
         cqueue' = cqueue \/ cqueue' = Append(cqueue, Queued(part, c))
  PROVE  SameChannel(i)
<1> DEFINE m == Queued(part, c)
<1>1. cqueue \in Seq(Messages) /\ m \in Messages /\ m.part = part /\ m.id = c
  BY PartsOf DEF Queued
<1>2. cqueue' = cqueue \/ cqueue' = Append(cqueue, m)
  OBVIOUS
<1> HIDE DEF m
<1>3. ~(m.id = i /\ m.part \in {"Cancel"})
  BY <1>1
<1>4. Once(cqueue, i, {"Cancel"})
  BY DEF CancelledOnce
<1>5. /\ Holds(Append(cqueue, m), i, {"Cancel"}) <=> Holds(cqueue, i, {"Cancel"})
      /\ Once(Append(cqueue, m), i, {"Cancel"})
  BY <1>1, <1>3, <1>4, OnceAppend
<1> QED BY <1>2, <1>4, <1>5 DEF SameChannel, InChannel

LEMMA WayBesides ==
  ASSUME TypeOK, NEW i, NEW w \in Seq(Fragments), Once(w, i, {"Cancel"}), NEW f \in Fragments,
         f.part # "Cancel" \/ f.id # i
  PROVE  /\ Append(w, f) \in Seq(Fragments)
         /\ Holds(Append(w, f), i, {"Cancel"}) <=> Holds(w, i, {"Cancel"})
         /\ Once(Append(w, f), i, {"Cancel"})
<1>1. ~(f.id = i /\ f.part \in {"Cancel"})
  OBVIOUS
<1> QED BY <1>1, OnceAppend, AppendPlaces

\* The application asks for it.
LEMMA CancelAsked ==
  ASSUME BaseInv, NEW c \in Calls, CancelCall(c) \/ DropCall(c), NEW i \in Plain, CancelledOnce(i)
  PROVE  CancelledOnce(i)'
<1>0. TypeOK /\ cqueue \in Seq(Messages) /\ cancelSent \in [Calls -> BOOLEAN] /\ i \in Calls
  BY PartsOf DEF BaseInv, TypeOK, Plain
<1>1. UNCHANGED <<c2s, ccontrol, csend, task>>
  BY DEF CancelCall, DropCall, cwVars, netVars, srvVars
<1>2. \/ ~cancelSent[c] /\ cancelSent' = [cancelSent EXCEPT ![c] = TRUE] /\ Send("Cancel", c)
      \/ UNCHANGED <<cancelSent, cqueue>>
  BY DEF CancelCall, DropCall
<1>3. Up' = Up
  BY <1>1 DEF Up
<1>4. SameWay(i) /\ NotTold(i) /\ csend'[i] # "trailer"
  BY <1>0, <1>1, <1>2, <1>3 DEF SameWay, NotTold, OnItsWay, CancelledOnce
<1>5. CASE c # i \/ UNCHANGED cqueue
  <2>1. cqueue' = cqueue \/ (c # i /\ cqueue' = Append(cqueue, Queued("Cancel", c)))
    BY <1>2, <1>5 DEF Send
  <2>2. SameChannel(i)
    <3>1. CASE cqueue' = cqueue
      BY <3>1 DEF SameChannel, InChannel, CancelledOnce
    <3>2. CASE c # i /\ cqueue' = Append(cqueue, Queued("Cancel", c))
      BY <1>0, <3>2, ChannelBesides
    <3> QED BY <2>1, <3>1, <3>2
  <2> QED BY <1>4, <2>2, CancelsKept
<1>6. CASE c = i /\ cqueue' # cqueue
  <2> DEFINE m == Queued("Cancel", i)
  <2>1. /\ ~cancelSent[i] /\ cancelSent'[i] /\ cqueue' = Append(cqueue, m)
    BY <1>0, <1>2, <1>6 DEF Send
  <2>2. ~InChannel(i) /\ ~OnItsWay(i) /\ task[i] # "told"
    BY <2>1 DEF CancelledOnce
  <2>3. m \in Messages
    BY <1>0, PartsOf
  <2> HIDE DEF m
  <2>4. Once(cqueue', i, {"Cancel"})
    BY <1>0, <2>1, <2>2, <2>3, OnceAppend DEF InChannel, CancelledOnce
  <2>5. ~OnItsWay(i)' /\ task'[i] # "told" /\ Once(Up', i, {"Cancel"}) /\ csend'[i] # "trailer"
    BY <1>1, <1>3, <1>4, <2>2 DEF OnItsWay, SameWay
  <2> QED BY <2>1, <2>4, <2>5 DEF CancelledOnce
<1> QED BY <1>5, <1>6

\* The writer takes it from the channel, and may send it on.
LEMMA CancelTurn ==
  ASSUME BaseInv, AdmitNext, NEW i \in Plain, CancelledOnce(i)
  PROVE  CancelledOnce(i)'
<1>0. /\ TypeOK /\ AskedOnce /\ cqueue \in Seq(Messages) /\ Up \in Seq(Fragments) /\ i \in Calls
      /\ c2s \in Seq(Fragments) /\ ccontrol \in Seq(Fragments) /\ csend \in [Calls -> SendPhases]
  BY PartsOf, WayTypes DEF BaseInv, Plain, TypeOK
<1>1. UNCHANGED <<c2s, task, cancelSent>>
  BY DEF AdmitNext, appVars, netVars, srvVars
<1>a. PICK sends : \E m \in Messages, S \in SUBSET active, T \in SUBSET Calls : Turn(m, S, T, sends)
  BY <1>0, AdmitTurn
<1>2. PICK m \in Messages, S \in SUBSET active, T \in SUBSET Calls : Turn(m, S, T, sends)
  BY <1>a
<1> DEFINE c == m.id
           x == Control("Abort", c)
           y == Control("Cancel", c)
           P == {"Cancel"}
<1>3. c \in Calls
  BY DEF Messages
<1>4. /\ x \in Fragments /\ y \in Fragments /\ x.part = "Abort" /\ y.part = "Cancel" /\ y.id = c
  BY <1>0, <1>3, PartsOf
<1>5. /\ cqueue # <<>> /\ m = Head(cqueue) /\ cqueue' = Tail(cqueue)
      /\ csend' = [j \in Calls |-> IF j \in T THEN "queued" ELSE sends[j]]
      /\ \/ sends = csend /\ ccontrol' = ccontrol
         \/ /\ m.part = "Cancel"
            /\ sends = [csend EXCEPT ![c] = IF @ = "trailer" THEN "aborted" ELSE @]
            /\ ccontrol' = IF csend[c] = "trailer" THEN ccontrol \o <<x, y>> ELSE Append(ccontrol, y)
         \/ /\ m.part = "Cancel"
            /\ sends = [csend EXCEPT ![c] = IF @ = "started" THEN "aborted" ELSE "discarded"]
            /\ ccontrol' = IF csend[c] = "started" THEN Append(ccontrol, x) ELSE ccontrol
  BY <1>2 DEF Turn
<1>6. csend[i] # "trailer" /\ csend'[i] # "trailer"
  <2>1. csend[i] # "trailer"
    BY DEF CancelledOnce
  <2>2. sends[i] # "trailer"
    BY <1>0, <1>3, <1>5, <2>1
  <2> QED BY <1>0, <1>5, <2>1, <2>2
<1> HIDE DEF c, x, y
<1>7. \/ Up' = Up \/ Up' = Append(Up, x)
      \/ m.part = "Cancel" /\ Up' = Append(Up, y)
      \/ m.part = "Cancel" /\ c # i /\ Up' = Append(Append(Up, x), y)
  <2>1. /\ c2s \o Append(ccontrol, x) = Append(c2s \o ccontrol, x)
        /\ c2s \o Append(ccontrol, y) = Append(c2s \o ccontrol, y)
    BY <1>0, <1>4, ConcatAppend
  <2>2. c2s \o (ccontrol \o <<x, y>>) = Append(Append(c2s \o ccontrol, x), y)
    BY <1>0, <1>4, ConcatTwo
  <2>3. Up = c2s \o ccontrol /\ Up' = c2s \o ccontrol'
    BY <1>1 DEF Up
  <2>4. \/ ccontrol' = ccontrol \/ ccontrol' = Append(ccontrol, x)
        \/ m.part = "Cancel" /\ ccontrol' = Append(ccontrol, y)
        \/ m.part = "Cancel" /\ c # i /\ ccontrol' = ccontrol \o <<x, y>>
    BY <1>5, <1>6
  <2> HIDE DEF Up
  <2> QED BY <2>1, <2>2, <2>3, <2>4
<1>8. /\ Holds(cqueue, i, P) <=> (Holds(cqueue', i, P) \/ (c = i /\ m.part = "Cancel"))
      /\ Once(cqueue', i, P)
      /\ c = i /\ m.part = "Cancel" => ~Holds(cqueue', i, P)
  BY <1>0, <1>5, OnceTail DEF c, CancelledOnce
<1>9. /\ Once(Up, i, P) /\ ~(Holds(cqueue, i, P) /\ Holds(Up, i, P))
      /\ Holds(cqueue, i, P) \/ Holds(Up, i, P) => cancelSent[i]
      /\ task[i] = "told" => cancelSent[i] /\ ~Holds(cqueue, i, P) /\ ~Holds(Up, i, P)
  BY DEF CancelledOnce, InChannel, OnItsWay
<1>10. /\ Append(Up, x) \in Seq(Fragments)
       /\ Holds(Append(Up, x), i, P) <=> Holds(Up, i, P)
       /\ Once(Append(Up, x), i, P)
  BY <1>0, <1>4, <1>9, WayBesides
<1>11. c # i =>
         /\ Holds(Append(Up, y), i, P) <=> Holds(Up, i, P)
         /\ Once(Append(Up, y), i, P)
         /\ Holds(Append(Append(Up, x), y), i, P) <=> Holds(Up, i, P)
         /\ Once(Append(Append(Up, x), y), i, P)
  BY <1>0, <1>4, <1>9, <1>10, WayBesides
<1>12. CASE c # i \/ m.part # "Cancel"
  <2>1. (Holds(Up', i, P) <=> Holds(Up, i, P)) /\ Once(Up', i, P)
    <3>1. CASE Up' = Up
      BY <1>9, <3>1
    <3>2. CASE Up' = Append(Up, x)
      BY <1>10, <3>2
    <3>3. CASE c # i /\ (Up' = Append(Up, y) \/ Up' = Append(Append(Up, x), y))
      BY <1>11, <3>3
    <3> QED BY <1>7, <1>12, <3>1, <3>2, <3>3
  <2>2. SameWay(i) /\ SameChannel(i)
    BY <1>8, <1>12, <2>1 DEF SameWay, SameChannel, OnItsWay, InChannel
  <2>3. NotTold(i)
    BY <1>1 DEF NotTold
  <2> QED BY <1>6, <2>2, <2>3, CancelsKept
<1>13. CASE c = i /\ m.part = "Cancel"
  <2>1. Holds(cqueue, i, P) /\ ~Holds(cqueue', i, P) /\ ~Holds(Up, i, P) /\ cancelSent[i] /\ task[i] # "told"
    BY <1>8, <1>9, <1>13
  <2>2. Once(Append(Up, y), i, P)
    BY <1>0, <1>4, <1>9, <2>1, OnceAppend
  <2>3. Once(Up', i, P)
    BY <1>7, <1>9, <1>10, <1>13, <2>2
  <2>4. cancelSent'[i] /\ task'[i] # "told"
    BY <1>1, <2>1
  <2> QED BY <1>6, <1>8, <2>1, <2>3, <2>4 DEF CancelledOnce, InChannel
<1> QED BY <1>12, <1>13

\* A fragment of a request is sent, which this Cancel is no part of.
LEMMA CancelSends ==
  ASSUME BaseInv, NEW c \in Calls, SendRequest(c), NEW i \in Plain, CancelledOnce(i)
  PROVE  CancelledOnce(i)'
<1>0. /\ TypeOK /\ Up \in Seq(Fragments) /\ i \in Calls /\ i \notin ReqStreams
      /\ csend \in [Calls -> SendPhases]
  BY WayTypes DEF BaseInv, Plain, TypeOK
<1>1. UNCHANGED <<cqueue, task, cancelSent>>
  BY DEF SendRequest, appVars, srvVars
<1>2. Sends(c)
  BY <1>0, RequestSends
<1>3. csend[i] # "trailer" /\ Once(Up, i, {"Cancel"}) /\ Once(cqueue, i, {"Cancel"})
  BY DEF CancelledOnce
<1>4. SameChannel(i) /\ NotTold(i)
  BY <1>1, <1>3 DEF SameChannel, NotTold, InChannel
<1>5. CASE \E step \in Steps(c, csend[c], ReqStreams) :
             Up' = Append(Up, step.fragment) /\ csend' = [csend EXCEPT ![c] = step.phase]
  <2> PICK step \in Steps(c, csend[c], ReqStreams) :
             Up' = Append(Up, step.fragment) /\ csend' = [csend EXCEPT ![c] = step.phase]
    BY <1>5
  <2>1. Advances(c, csend[c], ReqStreams, step)
    BY StepTypes
  <2> DEFINE f == step.fragment
  <2>2. f \in Fragments /\ f.part # "Cancel" /\ (c \notin ReqStreams => step.phase # "trailer")
    BY <2>1 DEF Advances, Parts
  <2>3. csend'[i] # "trailer"
    BY <1>0, <1>3, <2>2
  <2> HIDE DEF f
  <2>4. Up' = Append(Up, f)
    BY DEF f
  <2>5. SameWay(i)
    BY <1>0, <1>3, <2>2, <2>4, WayBesides DEF SameWay, OnItsWay
  <2> QED BY <1>4, <2>3, <2>5, CancelsKept
<1>6. CASE /\ csend[c] = "trailer" /\ csend' = [csend EXCEPT ![c] = "aborted"]
           /\ Up' = Append(Append(Up, Control("Abort", c)), Control("Cancel", c))
  <2> DEFINE x == Control("Abort", c)
             y == Control("Cancel", c)
  <2>1. /\ x \in Fragments /\ y \in Fragments /\ x.part = "Abort" /\ y.id = c /\ c # i
    BY <1>0, <1>3, <1>6, PartsOf
  <2>2. Up' = Append(Append(Up, x), y)
    BY <1>6
  <2>3. csend'[i] # "trailer"
    BY <1>0, <1>3, <1>6, <2>1
  <2> HIDE DEF x, y
  <2>4. /\ Append(Up, x) \in Seq(Fragments) /\ Once(Append(Up, x), i, {"Cancel"})
        /\ Holds(Append(Up, x), i, {"Cancel"}) <=> Holds(Up, i, {"Cancel"})
    BY <1>0, <1>3, <2>1, WayBesides
  <2>5. /\ Once(Append(Append(Up, x), y), i, {"Cancel"})
        /\ Holds(Append(Append(Up, x), y), i, {"Cancel"}) <=> Holds(Append(Up, x), i, {"Cancel"})
    BY <1>0, <2>1, <2>4, WayBesides
  <2>6. SameWay(i)
    BY <2>2, <2>4, <2>5 DEF SameWay, OnItsWay
  <2> QED BY <1>4, <2>3, <2>6, CancelsKept
<1> QED BY <1>2, <1>5, <1>6 DEF Sends

\* The server takes a fragment.
LEMMA CancelTaken ==
  ASSUME BaseInv, RecvRequest \/ RecvCancel, NEW i \in Plain, CancelledOnce(i)
  PROVE  CancelledOnce(i)' /\ (task[i] = "told" => task'[i] # "aborting")
<1> DEFINE f == Head(c2s)
           P == {"Cancel"}
<1>0. /\ TypeOK /\ Up \in Seq(Fragments) /\ i \in Calls /\ c2s # <<>> /\ c2s' = Tail(c2s)
      /\ UNCHANGED <<ccontrol, cqueue, csend, cancelSent>>
      /\ task \in [Calls -> {"none", "running", "told", "aborting", "done"}]
  BY WayTypes DEF BaseInv, Plain, TypeOK, RecvRequest, RecvCancel, cwVars, appVars
<1>1. Up # <<>> /\ Up' = Tail(Up) /\ Head(Up) = f /\ f \in Fragments /\ f.id \in Calls
  BY <1>0, RequestTaken
<1>2. \/ f.part # "Cancel" /\ (task' = task \/ task' = [task EXCEPT ![f.id] = "running"])
      \/ /\ f.part = "Cancel"
         /\ \/ task' = task
            \/ task' = [task EXCEPT ![f.id] = "told"]
            \/ task' = [task EXCEPT ![f.id] = "aborting"]
  BY DEF RecvRequest, RecvCancel
<1> HIDE DEF f
<1>3. /\ Holds(Up, i, P) <=> (Holds(Up', i, P) \/ (f.id = i /\ f.part = "Cancel"))
      /\ Once(Up', i, P)
      /\ f.id = i /\ f.part = "Cancel" => ~Holds(Up', i, P)
  BY <1>0, <1>1, OnceTail DEF CancelledOnce
<1>4. csend[i] # "trailer" /\ Once(cqueue, i, P)
  BY DEF CancelledOnce
<1>5. SameChannel(i) /\ csend'[i] # "trailer"
  BY <1>0, <1>4 DEF SameChannel, InChannel
<1>6. CASE f.id # i \/ f.part # "Cancel"
  <2>1. SameWay(i)
    BY <1>3, <1>6 DEF SameWay, OnItsWay
  <2>2. NotTold(i) /\ (task[i] = "told" => task'[i] # "aborting")
    BY <1>0, <1>1, <1>2, <1>6 DEF NotTold
  <2> QED BY <1>5, <2>1, <2>2, CancelsKept
<1>7. CASE f.id = i /\ f.part = "Cancel"
  <2>1. Holds(Up, i, P) /\ ~Holds(Up', i, P)
    BY <1>3, <1>7
  <2>2. task[i] # "told" /\ ~InChannel(i) /\ cancelSent[i]
    BY <2>1 DEF CancelledOnce, OnItsWay
  <2>3. ~InChannel(i)' /\ cancelSent'[i] /\ ~OnItsWay(i)'
    BY <1>0, <2>1, <2>2 DEF InChannel, OnItsWay
  <2> QED BY <1>3, <1>5, <2>2, <2>3 DEF CancelledOnce, SameChannel
<1> QED BY <1>6, <1>7

\* The steps that no Cancel takes part in.
LEMMA CancelAlone ==
  ASSUME BaseInv, NEW i \in Plain, CancelledOnce(i), Up' = Up, csend' = csend, NotTold(i),
         NEW c \in Calls, NEW part \in {"Request", "Terminal"},
         cqueue' = cqueue \/ cqueue' = Append(cqueue, Queued(part, c))
  PROVE  CancelledOnce(i)'
<1>1. SameChannel(i)
  BY ChannelBesides DEF BaseInv
<1>2. SameWay(i) /\ csend'[i] # "trailer"
  BY DEF SameWay, OnItsWay, CancelledOnce
<1> QED BY <1>1, <1>2, CancelsKept


\* A told handler of such a call is not aborted by a step.
Undisturbed(i) == task[i] = "told" => task'[i] # "aborting"

LEMMA CancelStep ==
  ASSUME BaseInv, [Next]_vars, NEW i \in Plain, CancelledOnce(i)
  PROVE  CancelledOnce(i)' /\ Undisturbed(i)
<1>0. /\ i \in Calls /\ TypeOK /\ cancelSent \in [Calls -> BOOLEAN]
      /\ task \in [Calls -> {"none", "running", "told", "aborting", "done"}]
  BY DEF BaseInv, TypeOK, Plain
<1>1. CASE \E c \in Calls : CancelCall(c) \/ DropCall(c)
  <2>1. task' = task
    BY <1>1 DEF CancelCall, DropCall, srvVars
  <2>2. CancelledOnce(i)'
    BY <1>1, CancelAsked
  <2> QED BY <2>1, <2>2 DEF Undisturbed
<1>2. CASE AdmitNext
  <2>1. task' = task
    BY <1>2 DEF AdmitNext, srvVars
  <2>2. CancelledOnce(i)'
    BY <1>2, CancelTurn
  <2> QED BY <2>1, <2>2 DEF Undisturbed
<1>3. CASE \E c \in Calls : SendRequest(c)
  <2>1. task' = task
    BY <1>3 DEF SendRequest, srvVars
  <2>2. CancelledOnce(i)'
    BY <1>3, CancelSends
  <2> QED BY <2>1, <2>2 DEF Undisturbed
<1>4. CASE RecvRequest \/ RecvCancel
  BY <1>4, CancelTaken DEF Undisturbed
<1>5. ASSUME Up' = Up, csend' = csend, NotTold(i), Undisturbed(i), NEW c \in Calls,
             NEW part \in {"Request", "Terminal"},
             cqueue' = cqueue \/ cqueue' = Append(cqueue, Queued(part, c))
      PROVE  CancelledOnce(i)' /\ Undisturbed(i)
  BY <1>5, CancelAlone
<1>6. ASSUME task' = task, cancelSent' = cancelSent PROVE NotTold(i) /\ Undisturbed(i)
  BY <1>6 DEF NotTold, Undisturbed
<1>7. CASE \E c \in Calls : Begin(c) \/ BeginQueued(c) \/ FinishTrailer(c)
  <2> PICK c \in Calls : Begin(c) \/ BeginQueued(c) \/ FinishTrailer(c)
    BY <1>7
  <2>1. UNCHANGED <<c2s, ccontrol, csend, task>>
    BY DEF Begin, BeginQueued, FinishTrailer, cwVars, netVars, srvVars
  <2>2. Up' = Up /\ Undisturbed(i)
    BY <2>1 DEF Up, Undisturbed
  <2>3. cancelSent' = cancelSent \/ cancelSent' = [cancelSent EXCEPT ![c] = TRUE]
    BY DEF Begin, BeginQueued, FinishTrailer
  <2>4. NotTold(i)
    BY <1>0, <2>1, <2>3 DEF NotTold
  <2>5. cqueue' = cqueue \/ cqueue' = Append(cqueue, Queued("Request", c))
    BY DEF Begin, BeginQueued, FinishTrailer
  <2> QED BY <1>5, <2>1, <2>2, <2>4, <2>5
<1>8. CASE RecvResponse
  <2> DEFINE c == Head(s2c).id
  <2>1. UNCHANGED <<c2s, ccontrol, csend, task, cancelSent>>
    BY <1>8 DEF RecvResponse, appVars, srvVars
  <2>2. Up' = Up
    BY <2>1 DEF Up
  <2>3. cqueue' = cqueue \/ cqueue' = Append(cqueue, Queued("Terminal", c))
    BY <1>8 DEF RecvResponse, FinishCall, Send
  <2>4. c \in Calls
    <3>1. s2c \in Seq(Fragments) /\ s2c # <<>>
      BY <1>0, <1>8, PartsOf DEF RecvResponse
    <3>2. Head(s2c) \in Fragments
      BY <3>1, TailPlaces
    <3> QED BY <3>2 DEF Fragments
  <2> HIDE DEF c
  <2> QED BY <1>5, <1>6, <2>1, <2>2, <2>3, <2>4
<1>9. CASE \E c \in Calls : Respond(c) \/ DropContext(c)
  <2> PICK c \in Calls : Respond(c) \/ DropContext(c)
    BY <1>9
  <2>1. UNCHANGED <<c2s, ccontrol, csend, cancelSent, cqueue>> /\ task' = [task EXCEPT ![c] = "done"]
    BY DEF Respond, DropContext, Answer, cwVars, netVars, appVars
  <2>2. Up' = Up
    BY <2>1 DEF Up
  <2>3. NotTold(i) /\ Undisturbed(i)
    BY <1>0, <2>1 DEF NotTold, Undisturbed
  <2> QED BY <1>0, <1>5, <2>1, <2>2, <2>3
<1>10. CASE SendControl \/ SendServerControl
  <2>1. UNCHANGED <<csend, cancelSent, cqueue, task>>
    BY <1>10 DEF SendControl, SendServerControl, cwVars, appVars, srvVars
  <2>2. Up' = Up
    BY <1>0, <1>10, ControlMoves
  <2> QED BY <1>0, <1>5, <1>6, <2>1, <2>2
<1>11. CASE \/ Close \/ Fail \/ LoseLink \/ AbandonWaiting \/ AtRest \/ UNCHANGED vars
            \/ StartDraining \/ AdmitResponse
            \/ \E c \in Calls : EnterGuard(c) \/ LeaveGuard(c) \/ SendResponse(c)
  <2>1. UNCHANGED <<c2s, ccontrol, csend, cancelSent, cqueue, task>>
    BY <1>11 DEF vars, Close, Fail, LoseLink, AbandonWaiting, AtRest, StartDraining, AdmitResponse,
       EnterGuard, LeaveGuard, SendResponse, netVars, cwVars, srvVars, appVars
  <2>2. Up' = Up
    BY <2>1 DEF Up
  <2> QED BY <1>0, <1>5, <1>6, <2>1, <2>2
<1> QED BY <1>1, <1>2, <1>3, <1>4, <1>7, <1>8, <1>9, <1>10, <1>11
        DEF Next, ClientTasks, Handler, Application

PlainInv == \A i \in Plain : CancelledOnce(i)

(* A handler whose guard intercepted the cancellation of its call is not
   aborted afterwards, if the request has no trailer: such a call is cancelled
   once (Call::cancel and Drop for Call, client.rs; Kind::Cancel, server.rs). *)
THEOREM PlainHandlersDecide == Spec => [][\A i \in Plain : Undisturbed(i)]_vars
<1>1. Init => PlainInv
  <2> SUFFICES ASSUME Init, NEW i \in Plain PROVE CancelledOnce(i)
    BY DEF PlainInv
  <2>1. Up = <<>> /\ cqueue = <<>>
    BY DEF Init, Up
  <2>2. csend[i] = "none" /\ task[i] = "none"
    BY DEF Init, Plain
  <2>3. \A p : ~Holds(<<>>, i, p) /\ Once(<<>>, i, p)
    BY DEF Holds, Once
  <2> QED BY <2>1, <2>2, <2>3 DEF CancelledOnce, InChannel, OnItsWay
<1>2. BaseInv /\ PlainInv /\ [Next]_vars => PlainInv' /\ \A i \in Plain : Undisturbed(i)
  <2> SUFFICES ASSUME BaseInv, PlainInv, [Next]_vars, NEW i \in Plain
               PROVE  CancelledOnce(i)' /\ Undisturbed(i)
    BY DEF PlainInv
  <2> QED BY CancelStep DEF PlainInv
<1> QED BY <1>1, <1>2, BaseAlways, PTL DEF Spec

(* Without request trailers this is GuardedHandlerDecides for every handler;
   with them it does not hold, since dropping an unfinished TrailerSend
   cancels its call twice (CallContext::cancel_guard, server.rs). *)
THEOREM GuardsHoldWithoutTrailers ==
  ASSUME ReqStreams = {}
  PROVE  Spec => GuardedHandlerDecides
<1>1. Plain = Calls
  BY DEF Plain
<1>2. (\A i \in Plain : Undisturbed(i)) => \A i \in Calls : task[i] = "told" => task'[i] # "aborting"
  BY <1>1 DEF Undisturbed
<1>3. [\A i \in Plain : Undisturbed(i)]_vars
        => [\A i \in Calls : task[i] = "told" => task'[i] # "aborting"]_vars
  BY <1>2
<1> QED BY <1>3, PlainHandlersDecide, PTL DEF GuardedHandlerDecides
=============================================================================
