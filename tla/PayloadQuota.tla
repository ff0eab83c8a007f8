---------------------------- MODULE PayloadQuota ----------------------------
(***************************************************************************)
(* The messages of one direction of a dolang-rpc connection, from the send *)
(* driver's channel to the peer's application: the fragment scheduler and  *)
(* the reassembler of fragment.rs, and the payload quota of window.rs that *)
(* travels the other way.                                                  *)
(*                                                                         *)
(* A message is charged its whole payload before its first fragment and,   *)
(* if it needs several fragments, holds one of the scheduler's slots until *)
(* its last.  The peer charges the same bytes as they arrive and gives     *)
(* them back once its application is done with the call.                   *)
(*                                                                         *)
(* Abstractions.  A payload is its length; native handles are the number   *)
(* of fragments needed to carry them; the bytes of trailers, their credit  *)
(* and their leases are TrailerFlow's, and a trailer here is only whether  *)
(* its producer is idle, has finished or is gone: the fragments it sends   *)
(* only take their turn.  The send driver's other control messages         *)
(* (Cancel, Error, Release) bypass all of this and are left out, as is the *)
(* fate of the calls (RpcCalls).                                           *)
(***************************************************************************)
EXTENDS SessionWindow, Sequences

CONSTANTS
  Msgs,      \* the messages the application sends
  Size,      \* the length of each payload
  Batches,   \* how many fragments each needs for its native handles
  Streams,   \* the messages with a trailer
  Cancels,   \* the messages that may be cancelled
  Fragment,  \* Limits::max_fragment_size, without the header
  Quota,     \* Limits::max_outstanding_payload
  MaxCalls   \* Limits::max_concurrent_calls

\* The negotiated limits: no payload exceeds the quota (an encoder refuses it).
ASSUME MsgsAssumption ==
  /\ IsFiniteSet(Msgs)
  /\ Size \in [Msgs -> Nat] /\ Batches \in [Msgs -> Nat]
  /\ Streams \subseteq Msgs /\ Cancels \subseteq Msgs
ASSUME LimitsAssumption ==
  /\ Fragment \in Nat \ {0} /\ Quota \in Nat /\ MaxCalls \in Nat \ {0}
  /\ \A m \in Msgs : Size[m] <= Quota

VARIABLES
  \* the sending application
  todo,      \* the messages not yet queued
  asked,     \* the messages whose cancellation was requested
  producer,  \* what each trailer's writer wants of the scheduler
  \* the send driver
  inbox,     \* SendDriver.outgoing
  waiting, active, control, slots,  \* Scheduler
  offset, batch, started,           \* ActiveSend, per message
  writer,    \* where the driver's loop is
  budget, parked, woken,            \* PayloadBudget and the task's wake-up
  \* the transport
  wire, back,
  \* the peer
  entry,     \* Reassembler.incomplete
  pool,      \* Reassembler.payload_credit
  holding,   \* the messages whose PayloadCharge is alive
  owed,      \* the PayloadCredit waiting in the peer's control queue
  got,       \* the messages handed to the peer's application
  unwanted,  \* those whose trailer it dropped
  fault      \* the protocol error that ended the connection

schedVars == <<waiting, active, slots, budget>>
sendVars == <<offset, batch, started>>
peerVars == <<entry, pool, holding, owed, got, unwanted, fault>>
vars == <<todo, asked, producer, inbox, schedVars, control, sendVars, writer,
          parked, woken, wire, back, peerVars>>

Fragments ==
  [id : Msgs, first : BOOLEAN, last : BOOLEAN, trailer : BOOLEAN,
   abort : BOOLEAN, len : 0..Quota]

(* Every variable keeps its type; in particular the quota of PayloadBudget and
   the scheduler's fragmented slots never leave their range. *)
TypeOK ==
  /\ todo \subseteq Msgs /\ asked \subseteq Msgs
  /\ producer \in [Msgs -> {"none", "idle", "finished", "dropped"}]
  /\ inbox \in Seq([op : {"send", "cancel", "discarded"}, id : Msgs])
  /\ waiting \in Seq(Msgs) /\ active \in Seq(Msgs) /\ control \in Seq(Msgs)
  /\ slots \in 0..MaxCalls
  /\ offset \in [Msgs -> 0..Quota] /\ batch \in [Msgs -> Nat]
  /\ started \subseteq Msgs
  /\ writer \in {"select", "registered", "ready", "asleep"}
  /\ budget \in 0..Quota /\ parked \in BOOLEAN /\ woken \in BOOLEAN
  /\ wire \in Seq(Fragments) /\ back \in Seq(1..Quota)
  /\ entry \in [Msgs -> {"none", "payload", "trailer"}]
  /\ pool \in WindowType(Msgs, Quota)
  /\ holding \subseteq Msgs /\ got \subseteq Msgs /\ unwanted \subseteq Msgs
  /\ owed \in 0..Quota
  /\ fault \in {"none", "quota", "incomplete", "unknown"}

Init ==
  /\ todo = Msgs /\ asked = {}
  /\ producer = [m \in Msgs |-> IF m \in Streams THEN "idle" ELSE "none"]
  /\ inbox = <<>> /\ waiting = <<>> /\ active = <<>> /\ control = <<>>
  /\ slots = 0
  /\ offset = [m \in Msgs |-> 0] /\ batch = [m \in Msgs |-> 0] /\ started = {}
  /\ writer = "select" /\ budget = Quota /\ parked = FALSE /\ woken = FALSE
  /\ wire = <<>> /\ back = <<>>
  /\ entry = [m \in Msgs |-> "none"]
  /\ pool = NewWindow(Msgs, Quota)
  /\ holding = {} /\ owed = 0 /\ got = {} /\ unwanted = {}
  /\ fault = "none"

Elements(s) == {s[i] : i \in DOMAIN s}

\* s with its item m removed.
Without(s, m) ==
  LET k == CHOOSE k \in DOMAIN s : s[k] = m
  IN  SubSeq(s, 1, k - 1) \o SubSeq(s, k + 1, Len(s))

-----------------------------------------------------------------------------
(***************************************************************************)
(* The scheduler's queues as one record, for the operations that change    *)
(* several of them at once.                                                *)
(***************************************************************************)
Queues(w, a, n, b) == [waiting |-> w, active |-> a, slots |-> n, budget |-> b]

SetQueues(q) ==
  /\ waiting' = q.waiting /\ active' = q.active
  /\ slots' = q.slots /\ budget' = q.budget

\* ActiveSend::multi_fragment, decided at admission.
MultiFragment(m) == m \in Streams \/ Size[m] > Fragment \/ Batches[m] > 1

SlotsOf(ms) == Cardinality({i \in DOMAIN ms : MultiFragment(ms[i])})
BytesOf(ms) == Total([i \in DOMAIN ms |-> Size[ms[i]]])

\* try_charge, for each of the sends ms in turn: a slot if it needs one and
\* quota for the whole payload.
TryCharge(q, ms) ==
  /\ BytesOf(ms) <= q.budget
  /\ q.slots + SlotsOf(ms) <= MaxCalls \/ SlotsOf(ms) = 0

\* start, for each of the sends ms in turn.
Start(q, ms) ==
  [q EXCEPT !.active = @ \o ms, !.slots = @ + SlotsOf(ms),
            !.budget = @ - BytesOf(ms)]

\* promote_waiting: the sends at the head of the queue that fit, in order, and
\* none from behind the first that does not.
PromoteWaiting(q) ==
  LET head(k) == SubSeq(q.waiting, 1, k)
      fit == {k \in 0..Len(q.waiting) : TryCharge(q, head(k))}
      n == CHOOSE k \in fit : \A j \in fit : j <= k
  IN  [Start(q, head(n)) EXCEPT !.waiting = SubSeq(@, n + 1, Len(@))]

\* admit_message: starts at once only if nothing is waiting.
AdmitMessage(q, m) ==
  IF q.waiting = <<>> /\ TryCharge(q, <<m>>) THEN Start(q, <<m>>)
  ELSE [q EXCEPT !.waiting = Append(@, m)]

\* The send m leaves the active queue, and its slot goes to who waits for one.
FreeSlot(q, m) ==
  IF MultiFragment(m) THEN PromoteWaiting([q EXCEPT !.slots = @ - 1]) ELSE q

\* A cancellation that gives the whole charge back.
CancelRefundsAll(q, m) ==
  PromoteWaiting(Queues(q.waiting, Without(q.active, m),
                        IF MultiFragment(m) THEN q.slots - 1 ELSE q.slots,
                        q.budget + Size[m]))

\* try_cancel_active, for an active send: the unsent rest of its charge comes
\* back now; the peer returns the other part.
CancelActive(q, m) ==
  PromoteWaiting(Queues(q.waiting, Without(q.active, m),
                        IF MultiFragment(m) THEN q.slots - 1 ELSE q.slots,
                        q.budget + (Size[m] - offset[m])))

HasWork == control # <<>> \/ active # <<>>
HasPending == HasWork \/ waiting # <<>>

\* A send that can move: payload left, no trailer, or a producer that wants
\* the transport (SendShared::poll_action).
CanMove(m) == offset[m] # Size[m] \/ producer[m] # "idle"

\* PayloadBudget::credit wakes whoever is registered on the pool.
WakeOnCredit(n) ==
  /\ woken' = (woken \/ (n > 0 /\ parked))
  /\ parked' = (parked /\ n = 0)

-----------------------------------------------------------------------------
(***************************************************************************)
(* The sending application.                                                *)
(***************************************************************************)
Queue(op, m) == inbox' = Append(inbox, [op |-> op, id |-> m])

Send(m) ==
  /\ m \in todo
  /\ todo' = todo \ {m}
  /\ Queue("send", m)
  /\ UNCHANGED <<asked, producer, schedVars, control, sendVars, writer, parked,
                 woken, wire, back, peerVars>>

RequestCancel(m) ==
  /\ m \in Cancels \ (todo \cup asked)
  /\ asked' = asked \cup {m}
  /\ Queue("cancel", m)
  /\ UNCHANGED <<todo, producer, schedVars, control, sendVars, writer, parked,
                 woken, wire, back, peerVars>>

\* The trailer's writer finishes or is dropped, and wakes the driver.
Produce(m, p) ==
  /\ m \notin todo /\ producer[m] = "idle"
  /\ producer' = [producer EXCEPT ![m] = p]
  /\ woken' = TRUE
  /\ UNCHANGED <<todo, asked, inbox, schedVars, control, sendVars, writer,
                 parked, wire, back, peerVars>>

-----------------------------------------------------------------------------
(***************************************************************************)
(* The send driver.  Its loop selects between its channel and              *)
(* Scheduler::ready; ready registers on the pool, then promotes, then      *)
(* looks for a send that can move; advance writes one fragment.            *)
(***************************************************************************)
Live == fault = "none"

\* SendDriver::admit, for a message.
Admit(m) ==
  /\ Head(inbox).op = "send"
  /\ SetQueues(AdmitMessage(Queues(waiting, active, slots, budget), m))
  /\ UNCHANGED <<producer, control, parked, woken>>

\* SendDriver::admit, for a cancellation: a send that has not started leaves
\* no trace, one that has is aborted.
Cancel(m) ==
  /\ Head(inbox).op = "cancel"
  /\ producer' = IF m \in Elements(waiting \o active)
                   THEN [producer EXCEPT ![m] = "none"] ELSE producer
  /\ \/ /\ m \in Elements(waiting)
        /\ SetQueues(Queues(Without(waiting, m), active, slots, budget))
        /\ UNCHANGED <<control, parked, woken>>
     \/ /\ m \in Elements(active)
        /\ SetQueues(CancelActive(Queues(waiting, active, slots, budget), m))
        /\ control' = IF m \in started THEN Append(control, m) ELSE control
        /\ WakeOnCredit(Size[m] - offset[m])
     \/ /\ m \notin Elements(waiting \o active)
        /\ UNCHANGED <<schedVars, control, parked, woken>>

\* discard_active_trailer: the trailer is dropped, and the send's next turn
\* closes the message.
DiscardTrailer(m) ==
  /\ Head(inbox).op = "discarded"
  /\ producer' = IF m \in Elements(active)
                   THEN [producer EXCEPT ![m] = "none"] ELSE producer
  /\ UNCHANGED <<schedVars, control, parked, woken>>

\* outgoing.recv().
Receive ==
  /\ Live /\ writer = "select" /\ inbox # <<>>
  /\ LET m == Head(inbox).id IN Admit(m) \/ Cancel(m) \/ DiscardTrailer(m)
  /\ inbox' = Tail(inbox)
  /\ UNCHANGED <<todo, asked, sendVars, writer, wire, back, peerVars>>

\* A ready that leaves its registration on the pool to a later poll.
PollReadyUnregistered ==
  /\ Live /\ writer = "select" /\ HasPending
  /\ woken' = FALSE
  /\ writer' = IF control # <<>> THEN "ready" ELSE "registered"
  /\ UNCHANGED <<todo, asked, producer, inbox, schedVars, control, sendVars,
                 parked, wire, back, peerVars>>

\* Scheduler::ready: a queued control message needs nothing else; otherwise the
\* task registers on the pool before anything is spent.
PollReady ==
  /\ Live /\ writer = "select" /\ HasPending
  /\ woken' = FALSE
  /\ IF control # <<>>
       THEN writer' = "ready" /\ UNCHANGED parked
       ELSE writer' = "registered" /\ parked' = (parked \/ waiting # <<>>)
  /\ UNCHANGED <<todo, asked, producer, inbox, schedVars, control, sendVars,
                 wire, back, peerVars>>

\* The rest of ready: promotion, and whether a send can move.
Spend ==
  /\ Live /\ writer = "registered"
  /\ SetQueues(PromoteWaiting(Queues(waiting, active, slots, budget)))
  /\ writer' = IF \E m \in Elements(active') : CanMove(m) THEN "ready" ELSE "asleep"
  /\ UNCHANGED <<todo, asked, producer, inbox, control, sendVars, parked, woken,
                 wire, back, peerVars>>

\* Nothing to drive: the select waits for its channel alone.
Idle ==
  /\ Live /\ writer = "select" /\ ~HasPending /\ inbox = <<>>
  /\ writer' = "asleep" /\ woken' = FALSE
  /\ UNCHANGED <<todo, asked, producer, inbox, schedVars, control, sendVars,
                 parked, wire, back, peerVars>>

Wake ==
  /\ Live /\ writer = "asleep"
  /\ woken \/ inbox # <<>>
  /\ writer' = "select"
  /\ UNCHANGED <<todo, asked, producer, inbox, schedVars, control, sendVars,
                 parked, woken, wire, back, peerVars>>

-----------------------------------------------------------------------------
(***************************************************************************)
(* Scheduler::advance: a control fragment if one is queued, otherwise one  *)
(* fragment of the first active send that can move; those passed over go   *)
(* to the back of the queue.                                               *)
(***************************************************************************)
Frag(m, first, last, trailer, abort, len) ==
  [id |-> m, first |-> first, last |-> last, trailer |-> trailer,
   abort |-> abort, len |-> len]

NextIndex ==
  CHOOSE i \in DOMAIN active :
    /\ CanMove(active[i])
    /\ \A j \in 1..(i - 1) : ~CanMove(active[j])

Rotated(i) == SubSeq(active, i + 1, Len(active)) \o SubSeq(active, 1, i - 1)

\* The payload's fragments, the handles' and the empty one that must open a
\* message come before the trailer.
PayloadLeft(m) == offset[m] < Size[m] \/ batch[m] < Batches[m] \/ m \notin started

AdvanceControl ==
  /\ wire' = Append(wire, Frag(Head(control), FALSE, FALSE, FALSE, TRUE, 0))
  /\ control' = Tail(control)
  /\ UNCHANGED <<producer, schedVars, sendVars>>

AdvancePayload(m, rest) ==
  LET end == Lesser(offset[m] + Fragment, Size[m])
      sent == Lesser(batch[m] + 1, Batches[m])
      done == end = Size[m] /\ sent = Batches[m]
      stream == producer[m] # "none"
  IN  /\ PayloadLeft(m)
      /\ wire' = Append(wire, Frag(m, m \notin started, done /\ ~stream,
                                   done /\ stream, FALSE, end - offset[m]))
      /\ offset' = [offset EXCEPT ![m] = end]
      /\ batch' = [batch EXCEPT ![m] = sent]
      /\ started' = started \cup {m}
      /\ IF done /\ ~stream
           THEN SetQueues(FreeSlot(Queues(waiting, rest, slots, budget), m))
           ELSE SetQueues(Queues(waiting, Append(rest, m), slots, budget))
      /\ UNCHANGED <<producer, control>>

\* The fragment that ends a trailer, or the ABORT for one that was dropped.
AdvanceEnd(m, rest) ==
  /\ ~PayloadLeft(m)
  /\ IF producer[m] = "dropped"
       THEN control' = Append(control, m) /\ UNCHANGED wire
       ELSE /\ wire' = Append(wire, Frag(m, FALSE, TRUE, FALSE, FALSE, 0))
            /\ UNCHANGED control
  /\ SetQueues(FreeSlot(Queues(waiting, rest, slots, budget), m))
  /\ UNCHANGED <<producer, sendVars>>

AdvanceSend ==
  LET m == active[NextIndex]
      rest == Rotated(NextIndex)
  IN  AdvancePayload(m, rest) \/ AdvanceEnd(m, rest)

\* A scheduler whose ABORTs wait for their turn behind the sends.
AdvanceAbortsLast ==
  /\ Live /\ writer = "ready"
  /\ IF \E m \in Elements(active) : CanMove(m) THEN AdvanceSend ELSE AdvanceControl
  /\ writer' = "select"
  /\ UNCHANGED <<todo, asked, inbox, parked, woken, back, peerVars>>

Advance ==
  /\ Live /\ writer = "ready"
  /\ IF control # <<>> THEN AdvanceControl ELSE AdvanceSend
  /\ writer' = "select"
  /\ UNCHANGED <<todo, asked, inbox, parked, woken, back, peerVars>>

-----------------------------------------------------------------------------
(***************************************************************************)
(* The peer: Reassembler::accept, the application that holds each call's   *)
(* charge, and the credit it returns.                                      *)
(***************************************************************************)
Fail(reason) ==
  fault' = reason /\ UNCHANGED <<entry, pool, holding, owed, got, unwanted>>

PayloadPhase == Cardinality({m \in Msgs : entry[m] = "payload"})

\* PayloadCharge::release that forgets the debt of a message it settles.
ReleaseKeepsCredit(m) ==
  pool' = SettleForgets(pool, m) /\ owed' = owed

\* PayloadCharge::release, and admit_payload_credit, which merges.
Release(m) ==
  pool' = Settle(pool, m) /\ owed' = owed + pool.debt[m]

AcceptAbort(f) ==
  /\ f.abort
  /\ IF entry[f.id] = "none" THEN Fail("unknown")
     ELSE /\ entry' = [entry EXCEPT ![f.id] = "none"]
          /\ Release(f.id)
          /\ UNCHANGED <<holding, got, unwanted, fault>>

\* A fragment of a trailer, or the one that ends it: nothing is charged here.
AcceptTrailer(f) ==
  /\ ~f.abort /\ ~f.first /\ entry[f.id] = "trailer"
  /\ entry' = IF f.last THEN [entry EXCEPT ![f.id] = "none"] ELSE entry
  /\ UNCHANGED <<pool, holding, owed, got, unwanted, fault>>

AcceptPayload(f) ==
  /\ ~f.abort /\ (f.first \/ entry[f.id] # "trailer")
  /\ IF f.first # (entry[f.id] = "none") THEN Fail("unknown")
     ELSE IF f.first /\ ~f.last /\ PayloadPhase >= MaxCalls THEN Fail("incomplete")
     ELSE IF ~Fits(pool, f.len) THEN Fail("quota")
     ELSE /\ pool' = AcceptBytes(pool, f.id, f.len)
          /\ entry' = [entry EXCEPT ![f.id] =
                         IF f.last THEN "none"
                         ELSE IF f.trailer THEN "trailer" ELSE "payload"]
          /\ IF f.last \/ f.trailer
               THEN holding' = holding \cup {f.id} /\ got' = got \cup {f.id}
               ELSE UNCHANGED <<holding, got>>
          /\ UNCHANGED <<owed, unwanted, fault>>

Accept ==
  /\ Live /\ wire # <<>>
  /\ LET f == Head(wire) IN AcceptAbort(f) \/ AcceptTrailer(f) \/ AcceptPayload(f)
  /\ wire' = Tail(wire)
  /\ UNCHANGED <<todo, asked, producer, inbox, schedVars, control, sendVars,
                 writer, parked, woken, back>>

\* The application is done with a call, or calls release_payload.
Finished(m) ==
  /\ Live /\ m \in holding
  /\ holding' = holding \ {m}
  /\ Release(m)
  /\ UNCHANGED <<todo, asked, producer, inbox, schedVars, control, sendVars,
                 writer, parked, woken, wire, back, entry, got, unwanted,
                 fault>>

\* The peer's application drops a trailer it does not want.  The Discard is
\* queued to the sender's writer at once: its delay is the queue's.
DropTrailer(m) ==
  /\ Live /\ entry[m] = "trailer" /\ m \notin unwanted
  /\ unwanted' = unwanted \cup {m}
  /\ Queue("discarded", m)
  /\ UNCHANGED <<todo, asked, producer, schedVars, control, sendVars, writer,
                 parked, woken, wire, back, entry, pool, holding, owed, got,
                 fault>>

\* The peer's writer sends the merged credit.
ReturnCredit ==
  /\ Live /\ owed > 0
  /\ back' = Append(back, owed) /\ owed' = 0
  /\ UNCHANGED <<todo, asked, producer, inbox, schedVars, control, sendVars,
                 writer, parked, woken, wire, entry, pool, holding, got, unwanted,
                 fault>>

\* Event::PayloadCredit, in the driver's reader.
TakeCredit ==
  /\ Live /\ back # <<>>
  /\ budget' = budget + Head(back)
  /\ WakeOnCredit(Head(back))
  /\ back' = Tail(back)
  /\ UNCHANGED <<todo, asked, producer, inbox, waiting, active, slots, control,
                 sendVars, writer, wire, peerVars>>

-----------------------------------------------------------------------------
Driver == Receive \/ PollReady \/ Spend \/ Idle \/ Wake \/ Advance
Peer == Accept \/ ReturnCredit \/ TakeCredit

Next ==
  \/ \E m \in Msgs : Send(m) \/ RequestCancel(m) \/ Finished(m) \/ DropTrailer(m)
  \/ \E m \in Msgs, p \in {"finished", "dropped"} : Produce(m, p)
  \/ Driver
  \/ Peer

Spec == Init /\ [][Next]_vars

\* The tasks run when they can, a transport delivers, and the peer's
\* application is done with every call at some point.
TasksRun ==
  WF_vars(Driver) /\ WF_vars(Peer) /\ WF_vars(\E m \in Msgs : Finished(m))

\* Trailers whose producers never end.
OpenSpec == Spec /\ TasksRun

\* And every producer ends its trailer.
FairSpec ==
  /\ OpenSpec
  /\ \A m \in Streams : WF_vars(Produce(m, "finished") \/ Produce(m, "dropped"))

-----------------------------------------------------------------------------
(***************************************************************************)
(* Properties.                                                             *)
(***************************************************************************)

\* No byte of the quota is lost or made twice, through every cancellation,
\* abort and early release: it is in the sender's budget, in a charged send's
\* unsent rest, on the wire, in the peer's debts or on its way back.
QuotaConserved ==
  Live =>
    budget + Total([i \in DOMAIN active |-> Size[active[i]] - offset[active[i]]])
           + Total([i \in DOMAIN wire |-> wire[i].len])
           + Total(pool.debt) + owed + Total(back) = Quota

\* A sender that throttles itself by the negotiated limits is never refused:
\* not for the quota, not for the incomplete messages, and not for an ABORT
\* or a fragment the reassembler knows nothing of.
PeersConform == fault = "none"

\* When the send driver sleeps with no wake-up due, nothing it holds could
\* move: credit that arrived between ready's registration and its debit is
\* not slept through.
NoLostWakeup ==
  (Live /\ writer = "asleep" /\ ~woken /\ inbox = <<>>) =>
    /\ \A i \in DOMAIN active : ~CanMove(active[i])
    /\ control = <<>>
    /\ waiting # <<>> =>
         ~TryCharge(Queues(waiting, active, slots, budget), <<Head(waiting)>>)

\* Charging whole payloads at admission leaves no deadlock: when producers end
\* their trailers and the peer finishes its calls, every message queued and
\* not cancelled reaches the peer's application.
EveryMessageArrives ==
  \A m \in Msgs : (m \notin todo) ~> (m \in got \cup asked)

\* What CallContext::trailer says of open pipes: they are bounded by trailer
\* credit and not by max_concurrent_calls, so those already open keep no other
\* message out.
OpenPipesKeepNothingOut ==
  \A m \in Msgs \ Streams : (m \notin todo) ~> (m \in got \cup asked)
=============================================================================
