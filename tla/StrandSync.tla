----------------------------- MODULE StrandSync -----------------------------
(***************************************************************************)
(* The two things background strands of a Do program wait on each other    *)
(* with: strand.Resource (dolang-runtime/src/stdlib/strand.rs), which      *)
(* limits how many strands are in a scope, and strand.channel              *)
(* (dolang-runtime/src/object/channel.rs), a bounded queue.  Strands enter *)
(* a resource, again if they like, put values into a channel from there,   *)
(* leave, and others take the values.  A strand may be cancelled.          *)
(*                                                                         *)
(* Strands are cooperative: a step runs to the next suspension.  Each one  *)
(* is a task of its own and is polled when a waker of it is called; a poll *)
(* tries the operation first, and only when that is still pending looks at *)
(* the strand's cancellation (Pinned::poll).                               *)
(*                                                                         *)
(* Abstractions.  Values are numbered per strand.  Not modelled: scoped    *)
(* strands, which share the task and the reservations of their parent, the *)
(* error a sender may close with, and the collection of a channel that     *)
(* nobody can reach.                                                       *)
(***************************************************************************)
EXTENDS Naturals, Sequences, FiniteSets

CONSTANTS
  Visitors,    \* strands that only enter and leave the resource
  Producers,   \* strands that put values while inside
  Consumers,   \* strands that take values, outside the resource
  Cancellable, \* the ones that may be cancelled
  Limit,       \* the reservations of the resource
  Capacity,    \* the buffer of the channel
  Rounds,      \* how often a strand enters
  MaxDepth,    \* how deep a strand enters again
  CloseRecv    \* whether a consumer may close the receiver

Entrants == Visitors \cup Producers
Strands == Entrants \cup Consumers

ASSUME StrandsAssumption ==
  /\ IsFiniteSet(Strands) /\ Cancellable \subseteq Strands
  /\ Entrants \cap Consumers = {} /\ Visitors \cap Producers = {}
ASSUME LimitAssumption == Limit \in Nat \ {0}
ASSUME SizesAssumption ==
  /\ Capacity \in Nat /\ Rounds \in Nat /\ MaxDepth \in Nat \ {0}
  /\ CloseRecv \in BOOLEAN

VARIABLES
  active,     \* ResourceInner.active
  waiters,    \* and its queue of the strands that wait
  queue,      \* Receiver.queue
  senders,    \* and its queues of wakers
  receivers,
  sendClosed, recvClosed,
  pc,         \* where each strand is
  depth,      \* HeldResource.depth; zero when it holds no permit
  left,       \* the rounds it has left
  cancelled,  \* the strands whose interrupt token is triggered
  woken,      \* the strands that will be polled
  taken       \* the values the consumers took, in order

resource == <<active, waiters>>
channel == <<queue, senders, receivers, sendClosed, recvClosed>>
vars == <<resource, channel, pc, depth, left, cancelled, woken, taken>>

Values == Producers \X (1..Rounds)

(* Every variable keeps its type; in particular a resource never has more
   permits out than its limit (ResourceInner of strand.rs). *)
TypeOK ==
  /\ active \in 0..Limit
  /\ waiters \in Seq(Entrants)
  /\ queue \in Seq(Values)
  /\ senders \in Seq(Producers) /\ receivers \in Seq(Consumers)
  /\ sendClosed \in BOOLEAN /\ recvClosed \in BOOLEAN
  /\ pc \in [Strands -> {"idle", "acquiring", "inside", "putting", "leaving",
                         "taking", "done"}]
  /\ depth \in [Entrants -> 0..MaxDepth]
  /\ left \in [Entrants -> 0..Rounds]
  /\ cancelled \subseteq Cancellable /\ woken \subseteq Strands
  /\ taken \in Seq(Values)

Init ==
  /\ active = 0 /\ waiters = <<>>
  /\ queue = <<>> /\ senders = <<>> /\ receivers = <<>>
  /\ sendClosed = FALSE /\ recvClosed = FALSE
  /\ pc = [s \in Strands |-> "idle"]
  /\ depth = [s \in Entrants |-> 0]
  /\ left = [s \in Entrants |-> Rounds]
  /\ cancelled = {} /\ woken = {} /\ taken = <<>>

Goto(s, l) == pc' = [pc EXCEPT ![s] = l]
Suspended(s) == pc[s] \in {"acquiring", "putting", "taking"}
\* The event loop polls a strand whose waker was called.  One that was not
\* waiting is polled once for nothing when it waits again.
Polled(s) == s \in woken

\* The wakers at the head of a queue, if any.
Front(q) == IF q = <<>> THEN {} ELSE {Head(q)}

-----------------------------------------------------------------------------
(***************************************************************************)
(* strand.Resource.                                                        *)
(***************************************************************************)
Hold(s) ==
  /\ active' = active + 1
  /\ depth' = [depth EXCEPT ![s] = 1]
  /\ Goto(s, "inside")

\* A drop of a pending acquire that leaves its place in line.
KeepsPlace(q, s) == q

\* The drop of the pending acquire of a cancelled strand.  It was polled first,
\* so that it was not at the front with a permit free: nobody else is woken.
\* A waiter has an id of its own: retain takes out the one entry that has it.
Without(q, s) ==
  LET at == CHOOSE i \in DOMAIN q : q[i] = s
  IN  SubSeq(q, 1, at - 1) \o SubSeq(q, at + 1, Len(q))

\* The first poll of AcquireResource: try_acquire, or wait in line.
TryAcquire(s) ==
  \/ /\ active < Limit /\ waiters = <<>>
     /\ Hold(s) /\ UNCHANGED waiters
  \/ /\ ~(active < Limit /\ waiters = <<>>)
     /\ IF s \in cancelled
          THEN Goto(s, "done") /\ UNCHANGED waiters
          ELSE Goto(s, "acquiring") /\ waiters' = Append(waiters, s)
     /\ UNCHANGED <<active, depth>>

\* resource_with.
Enter(s) ==
  /\ pc[s] = "idle" /\ left[s] > 0
  /\ TryAcquire(s)
  /\ UNCHANGED <<channel, left, cancelled, woken, taken>>

\* A later poll: the front waiter takes a permit when there is one, and wakes
\* the next one when there is another.
AcquirePoll(s) ==
  /\ pc[s] = "acquiring" /\ Polled(s)
  /\ \/ /\ Head(waiters) = s /\ active < Limit
        /\ waiters' = Tail(waiters)
        /\ Hold(s)
        /\ woken' = (woken \ {s}) \cup (IF active + 1 < Limit THEN Front(Tail(waiters)) ELSE {})
     \/ /\ ~(Head(waiters) = s /\ active < Limit)
        /\ IF s \in cancelled
             THEN /\ waiters' = Without(waiters, s)
                  /\ Goto(s, "done")
             ELSE UNCHANGED <<waiters, pc>>
        /\ woken' = woken \ {s}
        /\ UNCHANGED <<active, depth>>
  /\ UNCHANGED <<channel, left, cancelled, taken>>

\* Entering again in the same strand counts its depth.
Reenter(s) ==
  /\ pc[s] = "inside" /\ depth[s] < MaxDepth
  /\ depth' = [depth EXCEPT ![s] = @ + 1]
  /\ UNCHANGED <<resource, channel, pc, left, cancelled, woken, taken>>

\* A release that wakes nobody.
ReleaseQuietly == active' = active - 1 /\ UNCHANGED woken

\* release_one.
Release ==
  /\ active' = active - 1
  /\ woken' = woken \cup Front(waiters)

\* A resource_with that drops the permit at every depth.
LeaveAtOnce(s) ==
  /\ pc[s] = "leaving" \/ (pc[s] = "inside" /\ s \in Visitors)
  /\ depth' = [depth EXCEPT ![s] = @ - 1]
  /\ Release
  /\ left' = [left EXCEPT ![s] = IF depth[s] = 1 THEN @ - 1 ELSE @]
  /\ Goto(s, IF depth[s] > 1 THEN "leaving" ELSE IF left[s] = 1 THEN "done" ELSE "idle")
  /\ UNCHANGED <<waiters, channel, cancelled, taken>>

\* The end of resource_with, at one depth; the block has returned or raised.
Leave(s) ==
  /\ pc[s] = "leaving" \/ (pc[s] = "inside" /\ s \in Visitors)
  /\ depth' = [depth EXCEPT ![s] = @ - 1]
  /\ \/ /\ depth[s] > 1
        /\ Goto(s, "leaving")
        /\ UNCHANGED <<active, left, woken>>
     \/ /\ depth[s] = 1
        /\ Release
        /\ left' = [left EXCEPT ![s] = @ - 1]
        /\ Goto(s, IF left[s] = 1 \/ s \in cancelled \/ recvClosed THEN "done" ELSE "idle")
  /\ UNCHANGED <<waiters, channel, cancelled, taken>>

-----------------------------------------------------------------------------
(***************************************************************************)
(* strand.channel.                                                         *)
(***************************************************************************)
Value(s) == <<s, Rounds - left[s] + 1>>
PopFront(q) == IF q = <<>> THEN <<>> ELSE Tail(q)

\* The queue as a stack.
PushFront(q, x) == <<x>> \o q
PushBack(q, x) == Append(q, x)

\* Receiver::send, and what a strand does with the result.  A pending poll has
\* left its waker, and nothing takes it out when the strand is cancelled.
Send(s) ==
  \/ /\ sendClosed \/ recvClosed
     /\ Goto(s, "leaving")
     /\ woken' = woken \ {s}
     /\ UNCHANGED <<queue, senders, receivers>>
  \/ /\ ~sendClosed /\ ~recvClosed /\ Len(queue) < Capacity
     /\ queue' = PushBack(queue, Value(s))
     /\ receivers' = PopFront(receivers)
     /\ woken' = (woken \ {s}) \cup Front(receivers)
     /\ Goto(s, "leaving")
     /\ UNCHANGED senders
  \/ /\ ~sendClosed /\ ~recvClosed /\ Len(queue) >= Capacity
     /\ senders' = Append(senders, s)
     /\ Goto(s, IF s \in cancelled THEN "leaving" ELSE "putting")
     /\ woken' = woken \ {s}
     /\ UNCHANGED <<queue, receivers>>

Put(s) ==
  /\ \/ pc[s] = "inside" /\ s \in Producers
     \/ pc[s] = "putting" /\ Polled(s)
  /\ Send(s)
  /\ UNCHANGED <<resource, sendClosed, recvClosed, depth, left, cancelled, taken>>

\* A recv that calls a sender's waker only when the buffer was full.
RecvFromFull(s) ==
  /\ ~recvClosed /\ queue # <<>>
  /\ queue' = Tail(queue)
  /\ taken' = Append(taken, Head(queue))
  /\ senders' = IF Len(queue) = Capacity THEN PopFront(senders) ELSE senders
  /\ woken' = (woken \ {s}) \cup (IF Len(queue) = Capacity THEN Front(senders) ELSE {})
  /\ Goto(s, "idle")
  /\ UNCHANGED receivers

\* Receiver::recv, likewise.
Recv(s) ==
  \/ /\ recvClosed \/ (queue = <<>> /\ sendClosed)
     /\ Goto(s, "done")
     /\ woken' = woken \ {s}
     /\ UNCHANGED <<queue, senders, receivers, taken>>
  \/ /\ ~recvClosed /\ queue # <<>>
     /\ queue' = Tail(queue)
     /\ taken' = Append(taken, Head(queue))
     /\ senders' = PopFront(senders)
     /\ woken' = (woken \ {s}) \cup Front(senders)
     /\ Goto(s, "idle")
     /\ UNCHANGED receivers
  \/ /\ ~recvClosed /\ queue = <<>> /\ ~sendClosed
     /\ receivers' = Append(receivers, s)
     /\ Goto(s, IF s \in cancelled THEN "done" ELSE "taking")
     /\ woken' = woken \ {s}
     /\ UNCHANGED <<queue, senders, taken>>

Take(s) ==
  /\ pc[s] = "idle" \/ (pc[s] = "taking" /\ Polled(s))
  /\ Recv(s)
  /\ UNCHANGED <<resource, sendClosed, recvClosed, depth, left, cancelled>>

\* A close that only sets the flag.
CloseQuietly ==
  /\ ~sendClosed /\ \A s \in Producers : pc[s] = "done"
  /\ sendClosed' = TRUE
  /\ UNCHANGED <<resource, queue, senders, receivers, recvClosed, pc, depth, left,
                 cancelled, woken, taken>>

\* Sender.close: the program calls it when its producers are done.
CloseSender ==
  /\ ~sendClosed /\ \A s \in Producers : pc[s] = "done"
  /\ sendClosed' = TRUE
  /\ woken' = woken \cup {receivers[i] : i \in DOMAIN receivers}
  /\ receivers' = <<>>
  /\ UNCHANGED <<resource, queue, senders, recvClosed, pc, depth, left, cancelled, taken>>

\* Receiver.close.  It wakes the senders, not the receivers: one that waits
\* sleeps on until the sender is closed.
CloseReceiver(s) ==
  /\ CloseRecv /\ ~recvClosed /\ pc[s] = "idle"
  /\ recvClosed' = TRUE
  /\ queue' = <<>>
  /\ woken' = woken \cup {senders[i] : i \in DOMAIN senders}
  /\ senders' = <<>>
  /\ Goto(s, "done")
  /\ UNCHANGED <<resource, receivers, sendClosed, depth, left, cancelled, taken>>

-----------------------------------------------------------------------------
\* Strand.cancel: the waker the strand registered with its token is called.
Cancel(s) ==
  /\ s \in Cancellable \ cancelled /\ pc[s] # "done"
  /\ cancelled' = cancelled \cup {s}
  /\ woken' = IF Suspended(s) THEN woken \cup {s} ELSE woken
  /\ UNCHANGED <<resource, channel, pc, depth, left, taken>>

Step(s) ==
  \/ s \in Entrants /\ (Enter(s) \/ AcquirePoll(s) \/ Leave(s))
  \/ s \in Producers /\ Put(s)
  \/ s \in Consumers /\ Take(s)

Next ==
  \/ \E s \in Entrants : Enter(s) \/ AcquirePoll(s) \/ Reenter(s) \/ Leave(s)
  \/ \E s \in Producers : Put(s)
  \/ \E s \in Consumers : Take(s) \/ CloseReceiver(s)
  \/ CloseSender
  \/ \E s \in Strands : Cancel(s)

Spec == Init /\ [][Next]_vars

\* The event loop polls every strand that can run, and a program whose producers
\* are done closes the sender.
FairSpec ==
  /\ Spec
  /\ \A s \in Strands : WF_vars(Step(s))
  /\ WF_vars(CloseSender)

-----------------------------------------------------------------------------
(***************************************************************************)
(* Properties.                                                             *)
(***************************************************************************)
Holders == {s \in Entrants : depth[s] > 0}

\* The resource counts every strand that is inside exactly once, however deep
\* it entered and however it left, and never more of them than its limit.
PermitsConserved == active = Cardinality(Holders) /\ active <= Limit

\* The waiters are exactly the strands that are suspended in an acquire, each
\* once: no cancelled strand stays in line, where its waker would be called in
\* the place of another's.
WaitersAreWaiting ==
  /\ \A i, j \in DOMAIN waiters : waiters[i] = waiters[j] => i = j
  /\ {waiters[i] : i \in DOMAIN waiters} = {s \in Entrants : pc[s] = "acquiring"}

\* A permit that is free with strands in line has the front one woken: the
\* wake-up that release_one sends is never used up by a strand that does not
\* take the permit.
NoLostPermit == waiters # <<>> /\ active < Limit => Head(waiters) \in woken

\* No strand waits to send while the buffer has room, nor to receive while it
\* holds a value, without one of those that wait being woken.
NoStuckWaiter ==
  /\ LET waiting == {s \in Producers : pc[s] = "putting"}
     IN  waiting # {} /\ Len(queue) < Capacity => waiting \cap woken # {}
  /\ LET waiting == {s \in Consumers : pc[s] = "taking"}
     IN  waiting # {} /\ queue # <<>> => waiting \cap woken # {}

\* The values of one producer are taken in the order it put them, each once.
TakenInOrder ==
  \A i, j \in DOMAIN taken :
    i < j /\ taken[i][1] = taken[j][1] => taken[i][2] < taken[j][2]

\* Every strand ends: permits come round to all who wait for one, values leave
\* the channel, and the end of the values reaches every consumer, also the one
\* that waited when another closed the receiver: the sender's close wakes it.
EveryoneEnds == <>(\A s \in Strands : pc[s] = "done")

\* After Receiver.close nobody sleeps in a receive (channel.rs, op_mcall of the
\* receiver).
CloseReachesReceivers ==
  recvClosed => {s \in Consumers : pc[s] = "taking"} \subseteq woken
=============================================================================
