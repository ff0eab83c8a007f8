---------------------------- MODULE ServerDrain -----------------------------
(***************************************************************************)
(* The end of a dolang-rpc server's connection: Server::serve, its two     *)
(* drivers (server.rs) and the drain signal between them (driver.rs).      *)
(*                                                                         *)
(* A handler may ask for a graceful shutdown with its response.  The       *)
(* receive driver then refuses new requests, keeps reading (the quota that *)
(* responses wait for comes that way) and, once the handlers it had        *)
(* dispatched are done, seals the drain; it ends when the client's         *)
(* transport does.  What the send driver must still write before it may    *)
(* stop depends on the signal.                                             *)
(*                                                                         *)
(* Abstractions.  A response is one fragment and takes one unit of the     *)
(* payload quota, which the client gives back when it is done with the     *)
(* response; a request trailer is one message behind its request.  The     *)
(* scheduler's fragments and slots are PayloadQuota's, cancellation is     *)
(* RpcCalls', the bytes of trailers are TrailerFlow's.  Of the client      *)
(* (client.rs) only what the server sees is kept.                          *)
(***************************************************************************)
EXTENDS Naturals, Sequences, SequencesExt

CONSTANTS
  Calls,     \* the calls of one client
  Stoppers,  \* those whose handler calls CallContext::shutdown
  Uploads,   \* those whose handler reads a request trailer to its end
  Quota,     \* the responses the client takes before it returns quota
  Vanish     \* when the client may leave with calls under way

ASSUME CallsAssumption ==
  /\ IsFiniteSet(Calls) /\ Stoppers \subseteq Calls /\ Uploads \subseteq Calls
ASSUME QuotaAssumption == Quota \in Nat \ {0}
\* Never, at any time, or at any time but in the middle of an upload.
ASSUME VanishAssumption == Vanish \in {"never", "anytime", "uploaded"}

VARIABLES
  \* the client and the transport
  call,      \* what the client knows of each call
  sending,   \* the calls whose request trailer it has still to send
  holding,   \* the responses whose quota it has not returned
  linked,    \* the client's transport is open
  up, down,  \* what is in transit, in each direction
  \* the handlers
  task,      \* where the handler of each call is
  read,      \* the calls whose request trailer has arrived
  shutdown,  \* Shared.shutdown, the oneshot to the receive driver
  \* the receive driver
  recv, draining,
  mode,      \* the drain signal
  \* the send driver
  channel,   \* SendDriver.outgoing
  control, waiting, active, budget,  \* Scheduler
  closed,
  seen,      \* the mode it has acted on
  send

clientVars == <<call, sending, holding, linked>>
taskVars == <<task, read, shutdown>>
recvVars == <<recv, draining, mode>>
schedVars == <<control, waiting, active, budget>>
sendVars == <<schedVars, closed, seen, send>>
vars == <<clientVars, up, down, taskVars, recvVars, channel, sendVars>>

Modes == {"Running", "Graceful", "Abrupt"}
Answers == [op : {"Response", "Error"}, id : Calls]

(* Every variable keeps its type; in particular the quota of the response
   direction (PayloadBudget) never falls below zero. *)
TypeOK ==
  /\ call \in [Calls -> {"new", "sent", "answered", "error", "lost"}]
  /\ sending \subseteq Uploads /\ holding \subseteq Calls /\ linked \in BOOLEAN
  /\ up \in Seq([op : {"Request", "Trailer", "PayloadCredit"}, id : Calls])
  /\ down \in Seq(Answers) /\ channel \in Seq(Answers)
  /\ task \in [Calls -> {"none", "running", "responded", "done"}]
  /\ read \subseteq Uploads /\ shutdown \in {"armed", "sent", "taken"}
  /\ recv \in {"running", "settling", "ended"} /\ draining \in BOOLEAN
  /\ mode \in Modes /\ seen \in Modes
  /\ control \in Seq(Calls) /\ waiting \in Seq(Calls) /\ active \in Seq(Calls)
  /\ budget \in 0..Quota /\ closed \in BOOLEAN
  /\ send \in {"head", "select", "stopped", "failed"}

Init ==
  /\ call = [c \in Calls |-> "new"]
  /\ sending = {} /\ holding = {} /\ linked = TRUE
  /\ up = <<>> /\ down = <<>>
  /\ task = [c \in Calls |-> "none"] /\ read = {} /\ shutdown = "armed"
  /\ recv = "running" /\ draining = FALSE /\ mode = "Running"
  /\ channel = <<>> /\ control = <<>> /\ waiting = <<>> /\ active = <<>>
  /\ budget = Quota /\ closed = FALSE /\ seen = "Running" /\ send = "head"

Message(op, c) == [op |-> op, id |-> c]
In(s, op, c) == \E i \in DOMAIN s : s[i] = Message(op, c)

-----------------------------------------------------------------------------
(***************************************************************************)
(* The client.                                                             *)
(***************************************************************************)
Transmit(op, c) == up' = IF linked THEN Append(up, Message(op, c)) ELSE up

Issue(c) ==
  /\ linked /\ call[c] = "new"
  /\ call' = [call EXCEPT ![c] = "sent"]
  /\ sending' = IF c \in Uploads THEN sending \cup {c} ELSE sending
  /\ Transmit("Request", c)
  /\ UNCHANGED <<holding, linked, down, taskVars, recvVars, channel, sendVars>>

Upload(c) ==
  /\ linked /\ c \in sending
  /\ sending' = sending \ {c}
  /\ Transmit("Trailer", c)
  /\ UNCHANGED <<call, holding, linked, down, taskVars, recvVars, channel,
                 sendVars>>

\* An answer ends the call, and with an early one the upload.
ClientReceive ==
  /\ linked /\ down # <<>>
  /\ LET m == Head(down)
     IN  /\ call' = [call EXCEPT ![m.id] =
                       IF m.op = "Response" THEN "answered" ELSE "error"]
         /\ holding' = IF m.op = "Response" THEN holding \cup {m.id} ELSE holding
         /\ sending' = sending \ {m.id}
  /\ down' = Tail(down)
  /\ UNCHANGED <<linked, up, taskVars, recvVars, channel, sendVars>>

ReturnQuota(c) ==
  /\ linked /\ c \in holding
  /\ holding' = holding \ {c}
  /\ Transmit("PayloadCredit", c)
  /\ UNCHANGED <<call, sending, linked, down, taskVars, recvVars, channel,
                 sendVars>>

Quiet == holding = {} /\ \A c \in Calls : call[c] # "sent"

Depart ==
  /\ linked /\ linked' = FALSE
  /\ call' = [c \in Calls |-> IF call[c] = "sent" THEN "lost" ELSE call[c]]
  /\ sending' = {} /\ holding' = {} /\ down' = <<>>
  /\ UNCHANGED <<up, taskVars, recvVars, channel, sendVars>>

\* Client::close, which lets the calls finish, and Client::abort or the loss of
\* the client.  What it had written can still be read.
ClientClose == Quiet /\ Depart
ClientVanish ==
  /\ \/ Vanish = "anytime"
     \/ Vanish = "uploaded" /\ sending = {}
  /\ ~Quiet /\ Depart

-----------------------------------------------------------------------------
(***************************************************************************)
(* The drain signal.                                                       *)
(***************************************************************************)
\* set: never downgrades Abrupt.
SetMode(m) == mode' = IF mode = "Abrupt" THEN mode ELSE m

Dispatched(t) == {c \in Calls : t[c] \in {"running", "responded"}}

\* A seal that asks only whether a drain was requested.
SealIfAsked(d, t) == IF d THEN SetMode("Graceful") ELSE UNCHANGED mode

\* seal_if_idle
SealIfIdle(d, t) ==
  IF d /\ Dispatched(t) = {} THEN SetMode("Graceful") ELSE UNCHANGED mode

-----------------------------------------------------------------------------
(***************************************************************************)
(* The receive driver and the handlers it polls.                           *)
(***************************************************************************)
\* The driver dispatches a request, or refuses it once it drains.
RecvRequest(c) ==
  IF draining
  THEN channel' = Append(channel, Message("Error", c)) /\ UNCHANGED task
  ELSE task' = [task EXCEPT ![c] = "running"] /\ UNCHANGED channel

\* RecvDriver::run, one whole message.
RecvMessage ==
  /\ recv = "running" /\ up # <<>>
  /\ up' = Tail(up)
  /\ LET m == Head(up)
     IN  \/ /\ m.op = "Request" /\ RecvRequest(m.id)
            /\ UNCHANGED <<read, budget>>
         \/ /\ m.op = "Trailer" /\ read' = read \cup {m.id}
            /\ UNCHANGED <<task, channel, budget>>
         \/ /\ m.op = "PayloadCredit" /\ budget' = budget + 1
            /\ UNCHANGED <<task, channel, read>>
  /\ UNCHANGED <<clientVars, down, shutdown, recvVars, control, waiting, active,
                 closed, seen, send>>

\* The shutdown arm of its select: the oneshot is consumed once.
RecvShutdown ==
  /\ recv = "running" /\ shutdown = "sent" /\ ~draining
  /\ shutdown' = "taken" /\ draining' = TRUE
  /\ SealIfIdle(TRUE, task)
  /\ UNCHANGED <<clientVars, up, down, task, read, recv, channel, sendVars>>

\* A handler's last poll was seen by tasks.next().
TaskDone(c) ==
  /\ recv # "ended" /\ task[c] = "responded"
  /\ task' = [task EXCEPT ![c] = "done"]
  /\ IF recv = "running" THEN SealIfIdle(draining, task') ELSE UNCHANGED mode
  /\ UNCHANGED <<clientVars, up, down, read, shutdown, recv, draining, channel,
                 sendVars>>

\* An answer that leaves `responded` unset, so that the context's drop adds an
\* error.
AnswerThenError(c) == <<Message("Response", c), Message("Error", c)>>

\* What respond queues: one response, and the context counts as used.
Answer(c) == <<Message("Response", c)>>

\* respond, respond_with_trailer and finish_shutdown: the answer is queued
\* before the shutdown is requested, and the handler may run on after both.
Respond(c) ==
  /\ recv # "ended" /\ task[c] = "running"
  /\ c \in Uploads => c \in read
  /\ task' = [task EXCEPT ![c] = "responded"]
  /\ channel' = channel \o Answer(c)
  /\ shutdown' = IF c \in Stoppers /\ shutdown = "armed" THEN "sent" ELSE shutdown
  /\ UNCHANGED <<clientVars, up, down, read, recvVars, sendVars>>

\* A handler that gives its call up: the context's drop queues an error.
GiveUp(c) ==
  /\ recv # "ended" /\ task[c] = "running" /\ c \notin Stoppers
  /\ c \in Uploads => c \in read
  /\ task' = [task EXCEPT ![c] = "responded"]
  /\ channel' = Append(channel, Message("Error", c))
  /\ UNCHANGED <<clientVars, up, down, read, shutdown, recvVars, sendVars>>

\* The tasks are dropped with the driver, and the contexts of those that have
\* not answered with them.
DropTasks ==
  /\ task' = [c \in Calls |-> IF task[c] = "none" THEN "none" ELSE "done"]
  /\ channel' = channel \o
       SetToSeq({Message("Error", c) : c \in {c \in Calls : task[c] = "running"}})

\* The transport has ended: a drain still lets its handlers finish.
RecvEnd ==
  /\ recv = "running" /\ up = <<>> /\ ~linked
  /\ IF draining
     THEN recv' = "settling" /\ UNCHANGED <<task, channel, mode>>
     ELSE recv' = "ended" /\ DropTasks /\ SetMode("Abrupt")
  /\ UNCHANGED <<clientVars, up, down, read, shutdown, draining, sendVars>>

RecvSettle ==
  /\ recv = "settling" /\ Dispatched(task) = {}
  /\ recv' = "ended" /\ SetMode("Abrupt")
  /\ UNCHANGED <<clientVars, up, down, taskVars, draining, channel, sendVars>>

-----------------------------------------------------------------------------
(***************************************************************************)
(* The send driver: the head of its loop, and the arms of its select.      *)
(***************************************************************************)
HasWork == control # <<>> \/ active # <<>>
HasPending == HasWork \/ waiting # <<>>

\* PayloadBudget::try_debit
TryDebit(n) == n <= budget /\ budget' = budget - n

\* A drain that is over as soon as the scheduler is empty.
DoneWhenIdle(m) ==
  CASE m = "Running" -> closed /\ ~HasWork
    [] m = "Graceful" -> ~HasPending
    [] m = "Abrupt" -> ~HasWork

Done(m) ==
  CASE m = "Running" -> closed /\ ~HasWork
    [] m = "Graceful" -> closed /\ ~HasPending
    [] m = "Abrupt" -> ~HasWork

SendHead ==
  /\ send = "head"
  /\ seen' = mode
  /\ send' = IF Done(mode) THEN "stopped" ELSE "select"
  /\ UNCHANGED <<clientVars, up, down, taskVars, recvVars, channel, schedVars,
                 closed>>

\* admit: a response waits for quota, and behind those that wait; an error is a
\* control message.
Admit ==
  /\ send = "select" /\ channel # <<>>
  /\ channel' = Tail(channel) /\ send' = "head"
  /\ LET m == Head(channel)
     IN  \/ /\ m.op = "Error" /\ control' = Append(control, m.id)
            /\ UNCHANGED <<waiting, active, budget>>
         \/ /\ m.op = "Response" /\ waiting = <<>> /\ TryDebit(1)
            /\ active' = Append(active, m.id)
            /\ UNCHANGED <<control, waiting>>
         \/ /\ m.op = "Response" /\ ~(waiting = <<>> /\ budget > 0)
            /\ waiting' = Append(waiting, m.id)
            /\ UNCHANGED <<control, active, budget>>
  /\ UNCHANGED <<clientVars, up, down, taskVars, recvVars, closed, seen>>

\* The senders of the channel are the receive driver's and the contexts', which
\* are gone by then.
ChannelClosed ==
  /\ send = "select" /\ ~closed /\ channel = <<>> /\ recv = "ended"
  /\ closed' = TRUE /\ send' = "head"
  /\ UNCHANGED <<clientVars, up, down, taskVars, recvVars, channel, schedVars,
                 seen>>

\* drain.changed(), while the signal's sender is alive or its last mode unseen.
DrainChanged ==
  /\ send = "select" /\ mode # seen
  /\ send' = "head"
  /\ UNCHANGED <<clientVars, up, down, taskVars, recvVars, channel, schedVars,
                 closed, seen>>

\* A write to a client that has left is lost or fails.
Deliver(op, c) == down' = IF linked THEN Append(down, Message(op, c)) ELSE down

\* ready and advance: control first, then the waiting sends that fit and the
\* first of the active ones.
Transmission ==
  \/ /\ control # <<>>
     /\ Deliver("Error", Head(control)) /\ control' = Tail(control)
     /\ UNCHANGED <<waiting, active, budget>>
  \/ /\ control = <<>>
     /\ LET n == IF Len(waiting) < budget THEN Len(waiting) ELSE budget
            due == active \o SubSeq(waiting, 1, n)
        IN  /\ due # <<>>
            /\ Deliver("Response", Head(due)) /\ active' = Tail(due)
            /\ waiting' = SubSeq(waiting, n + 1, Len(waiting))
            /\ TryDebit(n)
     /\ UNCHANGED control

Advance ==
  /\ send = "select" /\ Transmission
  /\ send' = "head"
  /\ UNCHANGED <<clientVars, up, taskVars, recvVars, channel, closed, seen>>

\* A failed write ends serve, which drops the receive driver and its tasks.
SendFail ==
  /\ send = "select" /\ ~linked
  /\ HasWork \/ (waiting # <<>> /\ budget > 0)
  /\ send' = "failed" /\ recv' = "ended"
  /\ task' = [c \in Calls |-> IF task[c] = "none" THEN "none" ELSE "done"]
  /\ UNCHANGED <<clientVars, up, down, read, shutdown, draining, mode, channel,
                 schedVars, closed, seen>>

\* Server::serve returns when both drivers have ended, or the send driver fails.
Served == send = "failed" \/ (send = "stopped" /\ recv = "ended")

-----------------------------------------------------------------------------
Client ==
  \/ \E c \in Calls : Issue(c) \/ Upload(c) \/ ReturnQuota(c)
  \/ ClientReceive \/ ClientClose \/ ClientVanish

Handler(c) == Respond(c) \/ GiveUp(c) \/ TaskDone(c)

RecvDriver == RecvMessage \/ RecvShutdown \/ RecvEnd \/ RecvSettle

SendDriver ==
  SendHead \/ Admit \/ ChannelClosed \/ DrainChanged \/ Advance \/ SendFail

Next == Client \/ (\E c \in Calls : Handler(c)) \/ RecvDriver \/ SendDriver

Spec == Init /\ [][Next]_vars

\* serve polls its drivers and the handlers for as long as they can run; the
\* handlers answer; the client finishes its uploads, takes what arrives, gives
\* quota back and, once it waits for nothing, closes.  It need not call, and it
\* need not vanish.
FairSpec ==
  /\ Spec
  /\ WF_vars(RecvMessage) /\ WF_vars(RecvShutdown)
  /\ WF_vars(RecvEnd) /\ WF_vars(RecvSettle)
  /\ WF_vars(SendHead) /\ SF_vars(Admit) /\ SF_vars(ChannelClosed)
  /\ SF_vars(DrainChanged) /\ SF_vars(Advance \/ SendFail)
  /\ \A c \in Calls : WF_vars(Handler(c)) /\ WF_vars(Upload(c))
                      /\ WF_vars(ReturnQuota(c))
  /\ WF_vars(ClientReceive) /\ WF_vars(ClientClose)

-----------------------------------------------------------------------------
(***************************************************************************)
(* Properties.                                                             *)
(***************************************************************************)
\* An answer of c that is on its way to the client.
Carried(c) ==
  {<<"channel", i>> : i \in {i \in DOMAIN channel : channel[i].id = c}}
  \cup {<<"control", i>> : i \in {i \in DOMAIN control : control[i] = c}}
  \cup {<<"waiting", i>> : i \in {i \in DOMAIN waiting : waiting[i] = c}}
  \cup {<<"active", i>> : i \in {i \in DOMAIN active : active[i] = c}}
  \cup {<<"down", i>> : i \in {i \in DOMAIN down : down[i].id = c}}

\* While the client is connected, each call it waits for is at exactly one
\* place: a request still to be read, a handler that has not answered, or one
\* answer in the channel, the scheduler or the transport; and a call that has
\* ended is at none (Server::serve loses no accepted call and answers none
\* twice, whatever the drain does).
EveryCallIsHeldOnce ==
  linked => \A c \in Calls :
    (IF In(up, "Request", c) THEN 1 ELSE 0)
    + (IF task[c] = "running" THEN 1 ELSE 0)
    + Cardinality(Carried(c)) = (IF call[c] = "sent" THEN 1 ELSE 0)

\* A sealed drain is what DrainSignal::seal_if_idle says: no handler still runs,
\* so that what is queued when the send driver sees it is all that it owes but
\* refusals.
SealedMeansAnswered == mode = "Graceful" => Dispatched(task) = {}

\* The fate of a call, as DrainPromise tells them apart.
Fate(c) ==
  CASE call[c] = "sent" /\ task[c] # "none" -> "accepted"
    [] call[c] = "error" /\ task[c] # "none" -> "failed"
    [] call[c] = "error" /\ task[c] = "none" -> "refused"
    [] OTHER -> call[c]

Promise == INSTANCE DrainPromise
             WITH fate <- [c \in Calls |-> Fate(c)], left <- ~linked,
                  over <- Served

\* serve keeps the promise: it refuses only while it drains, answers what it
\* has accepted, responses that wait for quota included, never hangs up before
\* the client does, and always ends after it.
KeepsPromise == Promise!Spec
=============================================================================
