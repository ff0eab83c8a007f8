------------------------------ MODULE RpcCalls ------------------------------
(***************************************************************************)
(* The life of the calls of one dolang-rpc connection: client.rs,          *)
(* server.rs and the message phases of fragment.rs between them.           *)
(*                                                                         *)
(* A call is registered, queued to the client's writer task, given one of  *)
(* the connection's call slots, scheduled and sent; the server's reader    *)
(* dispatches it to a handler, whose answer is queued to the server's      *)
(* writer and travels back; the client's reader resolves the call and      *)
(* frees its slot.  A cancellation follows the call through all of these   *)
(* places and may meet it in any of them, or cross its answer.             *)
(*                                                                         *)
(* Abstractions.  Payloads are not carried: a message is sent as a first   *)
(* fragment (Begin) and the payload's last one (Head), or as a Head alone; *)
(* the fragments in between change nothing.  A message with a trailer goes *)
(* on until the fragment that ends it (Tail); TrailerFlow models what      *)
(* happens there.  A message may stay queued in the scheduler for as long  *)
(* as payload quota or the other messages hold it back.  Opaque handles,   *)
(* file descriptors and the end of a drained session are left out.         *)
(***************************************************************************)
EXTENDS Naturals, Sequences, FiniteSets

CONSTANTS
  Calls,        \* the calls the client application makes
  MaxCalls,     \* Limits::max_concurrent_calls, agreed on by both ends
  ReqStreams,   \* the calls made with call_with_trailer
  RespStreams,  \* the calls answered with respond_with_trailer
  Unencodable,  \* the calls whose request may fail to encode
  Events        \* what may happen beside calls and answers, see below

(***************************************************************************)
(*   cancel    the application calls Call::cancel                          *)
(*   drop      the application drops a Call or a TrailerSend               *)
(*   guard     handlers use cancel_guard                                   *)
(*   shutdown  a handler asks for shutdown when it responds                *)
(*   close     the application calls Client::close                         *)
(*   lose      the transport fails                                         *)
(***************************************************************************)
AllEvents == {"cancel", "drop", "guard", "shutdown", "close", "lose"}

ASSUME CallsAssumption == IsFiniteSet(Calls)
ASSUME LimitAssumption == MaxCalls \in Nat
ASSUME KindsAssumption ==
  /\ ReqStreams \subseteq Calls /\ RespStreams \subseteq Calls
  /\ Unencodable \subseteq Calls /\ Events \subseteq AllEvents

VARIABLES
  \* the client's handles
  call,        \* the application's end of each call
  cancelSent,  \* Call.cancel_sent
  pending,     \* Inner.pending: the calls registered and not resolved
  result,      \* what each call was resolved with
  registry,    \* whether Inner.pending has been poisoned
  channel,     \* Inner.outgoing
  \* the client's tasks
  cqueue,      \* the messages in that channel
  waiting,     \* SendDriver.waiting
  active,      \* Shared.active_calls
  csend,       \* the requests in the scheduler
  ccontrol,    \* Scheduler.control
  cin,         \* the responses in the reassembler
  \* the transport
  c2s, s2c, link,
  \* the server
  sin,         \* the requests in the reassembler
  outstanding, \* SharedInner.outstanding
  task,        \* the handler of each call
  guard,       \* the calls with a live cancellation signal
  drain,       \* the progress of a requested shutdown
  squeue,      \* the messages queued to the server's writer
  rsend,       \* the responses in the scheduler
  scontrol,    \* Scheduler.control
  fault        \* which end has failed the connection for a protocol error

appVars == <<call, cancelSent>>
regVars == <<pending, result, registry, channel>>
cwVars  == <<waiting, active, csend, ccontrol>>
netVars == <<c2s, s2c, link>>
srvVars == <<sin, outstanding, task, guard, drain>>
swVars  == <<squeue, rsend, scontrol>>
vars == <<appVars, regVars, cqueue, cwVars, cin, netVars, srvVars, swVars, fault>>

\* A scheduled message: not started, past its first fragment, in its trailer,
\* out of the scheduler; or cancelled there, unstarted or half sent.
SendPhases == {"none", "queued", "started", "trailer", "sent", "discarded", "aborted"}

\* A message in the reassembler.
EntryPhases == {"none", "payload", "trailer"}

Fragments ==
  [part : {"Begin", "Head", "Tail", "Abort", "Cancel", "Error"},
   id : Calls, first : BOOLEAN]

Fragment(part, i, first) == [part |-> part, id |-> i, first |-> first]
Control(part, i) == Fragment(part, i, FALSE)

Queued(part, i) == [part |-> part, id |-> i]

(* Every variable keeps its type; in particular active_calls (client.rs) never
   exceeds the negotiated limit. *)
TypeOK ==
  /\ call \in [Calls -> {"new", "registered", "streaming", "open", "dropped",
                         "abandoned"}]
  /\ cancelSent \in [Calls -> BOOLEAN]
  /\ pending \subseteq Calls
  /\ result \in [Calls -> {"none", "response", "cancelled", "closed", "unencodable"}]
  /\ registry \in {"live", "failed"}
  /\ channel \in {"open", "closed"}
  /\ cqueue \in Seq([part : {"Request", "Cancel", "Terminal"}, id : Calls])
  /\ waiting \in Seq(Calls)
  /\ active \subseteq Calls /\ Cardinality(active) <= MaxCalls
  /\ csend \in [Calls -> SendPhases]
  /\ ccontrol \in Seq(Fragments)
  /\ cin \in [Calls -> EntryPhases]
  /\ c2s \in Seq(Fragments) /\ s2c \in Seq(Fragments)
  /\ link \in {"up", "lost"}
  /\ sin \in [Calls -> EntryPhases]
  /\ outstanding \subseteq Calls
  /\ task \in [Calls -> {"none", "running", "told", "aborting", "done"}]
  /\ guard \subseteq Calls
  /\ drain \in {"none", "asked", "draining"}
  /\ squeue \in Seq([part : {"Response", "Error", "Cancel"}, id : Calls])
  /\ rsend \in [Calls -> SendPhases]
  /\ scontrol \in Seq(Fragments)
  /\ fault \in {"none", "client", "server"}

Init ==
  /\ call = [i \in Calls |-> "new"]
  /\ cancelSent = [i \in Calls |-> FALSE]
  /\ pending = {}
  /\ result = [i \in Calls |-> "none"]
  /\ registry = "live"
  /\ channel = "open"
  /\ cqueue = <<>> /\ waiting = <<>> /\ ccontrol = <<>>
  /\ active = {}
  /\ csend = [i \in Calls |-> "none"]
  /\ cin = [i \in Calls |-> "none"]
  /\ c2s = <<>> /\ s2c = <<>> /\ link = "up"
  /\ sin = [i \in Calls |-> "none"]
  /\ outstanding = {}
  /\ task = [i \in Calls |-> "none"]
  /\ guard = {}
  /\ drain = "none"
  /\ squeue = <<>> /\ scontrol = <<>>
  /\ rsend = [i \in Calls |-> "none"]
  /\ fault = "none"

-----------------------------------------------------------------------------
(***************************************************************************)
(* The client's handles.                                                   *)
(***************************************************************************)

\* Inner::complete: resolves the calls that are still pending.
Resolved(ids, how) ==
  [i \in Calls |-> IF i \in ids \cap pending THEN how ELSE result[i]]
Complete(ids, how) == pending' = pending \ ids /\ result' = Resolved(ids, how)

\* Inner::send, which a closed channel turns into nothing.
Send(part, i) ==
  cqueue' = IF channel = "open" THEN Append(cqueue, Queued(part, i)) ELSE cqueue

\* begin: a poisoned registry refuses the call at once.
Begin(i) ==
  /\ call[i] = "new"
  /\ \/ /\ registry = "live"
        /\ pending' = pending \cup {i}
        /\ call' = [call EXCEPT ![i] = "registered"]
        /\ UNCHANGED <<result, cancelSent>>
     \/ /\ registry = "failed"
        /\ result' = [result EXCEPT ![i] = "closed"]
        /\ call' = [call EXCEPT ![i] = "open"]
        /\ cancelSent' = [cancelSent EXCEPT ![i] = TRUE]
        /\ UNCHANGED pending
  /\ UNCHANGED <<registry, channel, cqueue, cwVars, cin, netVars, srvVars, swVars,
                 fault>>

\* begin: with the registration made, the request is queued; it cannot be if
\* the channel is closed or the writer task is gone with its transport.
BeginQueued(i) ==
  /\ call[i] = "registered"
  /\ \/ /\ channel = "open"
        /\ cqueue' = Append(cqueue, Queued("Request", i))
        /\ call' = [call EXCEPT ![i] = IF i \in ReqStreams THEN "streaming" ELSE "open"]
        /\ UNCHANGED <<pending, result, cancelSent>>
     \/ /\ channel = "closed" \/ link = "lost"
        /\ Complete({i}, "closed")
        /\ call' = [call EXCEPT ![i] = "open"]
        /\ cancelSent' = [cancelSent EXCEPT ![i] = TRUE]
        /\ UNCHANGED cqueue
  /\ UNCHANGED <<registry, channel, cwVars, cin, netVars, srvVars, swVars, fault>>

\* TrailerSend::finish hands out the Call.
FinishTrailer(i) ==
  /\ call[i] = "streaming"
  /\ call' = [call EXCEPT ![i] = "open"]
  /\ UNCHANGED <<cancelSent, regVars, cqueue, cwVars, cin, netVars, srvVars, swVars,
                 fault>>

\* Call::cancel
CancelCall(i) ==
  /\ "cancel" \in Events
  /\ call[i] = "open" /\ ~cancelSent[i]
  /\ cancelSent' = [cancelSent EXCEPT ![i] = TRUE]
  /\ Send("Cancel", i)
  /\ UNCHANGED <<call, regVars, cwVars, cin, netVars, srvVars, swVars, fault>>

\* Drop for Call, on its own or inside an unfinished TrailerSend.
DropCall(i) ==
  /\ "drop" \in Events
  /\ \/ call[i] = "open" /\ call' = [call EXCEPT ![i] = "dropped"]
     \/ call[i] = "streaming" /\ call' = [call EXCEPT ![i] = "abandoned"]
  /\ pending' = pending \ {i}
  /\ \/ /\ i \in pending /\ ~cancelSent[i]
        /\ cancelSent' = [cancelSent EXCEPT ![i] = TRUE]
        /\ Send("Cancel", i)
     \/ ~(i \in pending /\ ~cancelSent[i]) /\ UNCHANGED <<cancelSent, cqueue>>
  /\ UNCHANGED <<result, registry, channel, cwVars, cin, netVars, srvVars, swVars,
                 fault>>

\* Client::close closes the channel first.
Close ==
  /\ "close" \in Events /\ channel = "open"
  /\ channel' = "closed"
  /\ UNCHANGED <<appVars, pending, result, registry, cqueue, cwVars, cin, netVars,
                 srvVars, swVars, fault>>

\* Inner::fail, from close or from the reader of a broken connection: the
\* first failure resolves every waiting call and poisons the registry.
Fail ==
  /\ channel = "closed" \/ link = "lost"
  /\ registry = "live"
  /\ registry' = "failed"
  /\ Complete(pending, "closed")
  /\ UNCHANGED <<appVars, channel, cqueue, cwVars, cin, netVars, srvVars, swVars,
                 fault>>

-----------------------------------------------------------------------------
(***************************************************************************)
(* The client's writer task: SendDriver.                                   *)
(***************************************************************************)

\* Promotion of the whole queue, whatever the number of slots.
PromoteAll(queue, slots, live, results, sends) ==
  /\ waiting' = <<>>
  /\ active' = slots \cup {queue[k] : k \in DOMAIN queue}
  /\ csend' = [i \in Calls |-> IF i \in active' \ slots THEN "queued" ELSE sends[i]]
  /\ pending' = live /\ result' = results

\* promote_waiting, from the values a turn of the loop has left behind: pops
\* requests while a slot is free.  A request nobody waits for any more is
\* dropped and one that fails to encode is resolved; neither takes a slot.
Promote(queue, slots, live, results, sends) ==
  \E n \in 0..Len(queue), bad \in SUBSET Unencodable :
    LET seen(m) == {queue[k] : k \in 1..m} \cap live
        taken(m) == seen(m) \ bad
        failed == seen(n) \cap bad
        full(m) == Cardinality(slots \cup taken(m)) >= MaxCalls
    IN  /\ bad \subseteq seen(n)
        /\ \A m \in 0..(n - 1) : ~full(m)
        /\ n = Len(queue) \/ full(n)
        /\ waiting' = SubSeq(queue, n + 1, Len(queue))
        /\ active' = slots \cup taken(n)
        /\ csend' = [i \in Calls |-> IF i \in taken(n) THEN "queued" ELSE sends[i]]
        /\ pending' = live \ failed
        /\ result' = [i \in Calls |-> IF i \in failed THEN "unencodable" ELSE results[i]]

\* A request cancelled half sent keeps its slot until the server answers.
AbortKeepsSlot(i) == active

\* run: admit_cancel says that no terminal message will come.
SlotsAfterCancel(i) == active \ {i}

\* admit_cancel: the request has left the scheduler, or the server already
\* has it whole; the call keeps its slot until it is answered.
CancelDispatched(i) ==
  /\ csend[i] \notin {"queued", "started"}
  /\ ccontrol' = IF csend[i] = "trailer"
                 THEN ccontrol \o <<Control("Abort", i), Control("Cancel", i)>>
                 ELSE Append(ccontrol, Control("Cancel", i))
  /\ Promote(waiting, active, pending, result,
             [csend EXCEPT ![i] = IF @ = "trailer" THEN "aborted" ELSE @])

\* A half-sent request taken back without a word to the server.
AbortUnsaid(i) == ccontrol

\* admit_cancel: an ABORT for what has been sent of the request.
AbortStarted(i) ==
  IF csend[i] = "started" THEN Append(ccontrol, Control("Abort", i)) ELSE ccontrol

\* admit_cancel: the server has not been handed the request.
CancelUnsent(i) ==
  /\ csend[i] \in {"queued", "started"}
  /\ ccontrol' = AbortStarted(i)
  /\ Promote(waiting, SlotsAfterCancel(i), pending \ {i},
             Resolved({i}, "cancelled"),
             [csend EXCEPT ![i] = IF @ = "started" THEN "aborted" ELSE "discarded"])

\* The queue when position and remove have taken the call out.
Without(i) ==
  LET k == CHOOSE k \in DOMAIN waiting : waiting[k] = i
  IN  SubSeq(waiting, 1, k - 1) \o SubSeq(waiting, k + 1, Len(waiting))

\* A call that loses its place in the queue and is not told.
CancelWaitingForgets(i) ==
  /\ Promote(Without(i), active, pending, result, csend)
  /\ UNCHANGED ccontrol

\* run: a request that never got a slot is resolved on the spot.
CancelWaiting(i) ==
  /\ Promote(Without(i), active, pending \ {i}, Resolved({i}, "cancelled"), csend)
  /\ UNCHANGED ccontrol

\* run, Outgoing::Cancel: in the waiting queue, in a slot, or gone.
AdmitCancel(i) ==
  \/ (\E k \in 1..Len(waiting) : waiting[k] = i) /\ CancelWaiting(i)
  \/ /\ \A k \in 1..Len(waiting) : waiting[k] # i
     /\ \/ i \in active /\ (CancelDispatched(i) \/ CancelUnsent(i))
        \/ /\ i \notin active
           /\ Promote(waiting, active, pending, result, csend)
           /\ UNCHANGED ccontrol

\* run: one message of the channel, then promote_waiting.
AdmitNext ==
  /\ link = "up" /\ cqueue # <<>>
  /\ cqueue' = Tail(cqueue)
  /\ LET m == Head(cqueue)
     IN  \/ /\ m.part = "Request"
            /\ Promote(Append(waiting, m.id), active, pending, result, csend)
            /\ UNCHANGED ccontrol
         \/ m.part = "Cancel" /\ AdmitCancel(m.id)
         \/ /\ m.part = "Terminal"
            /\ Promote(waiting, active, pending, result, csend)
            /\ UNCHANGED ccontrol
  /\ UNCHANGED <<appVars, registry, channel, cin, netVars, srvVars, swVars, fault>>

\* run: the channel has been closed and emptied.
AbandonWaiting ==
  /\ link = "up" /\ channel = "closed" /\ cqueue = <<>> /\ waiting # <<>>
  /\ waiting' = <<>>
  /\ UNCHANGED <<appVars, regVars, cqueue, active, csend, ccontrol, cin, netVars,
                 srvVars, swVars, fault>>

\* advance: what may follow in each phase of a message.
Steps(i, phase, streams) ==
  LET after == IF i \in streams THEN "trailer" ELSE "sent"
  IN  CASE phase = "queued"  -> {[fragment |-> Fragment("Begin", i, TRUE), phase |-> "started"],
                                 [fragment |-> Fragment("Head", i, TRUE), phase |-> after]}
        [] phase = "started" -> {[fragment |-> Fragment("Head", i, FALSE), phase |-> after]}
        [] phase = "trailer" -> {[fragment |-> Control("Tail", i), phase |-> "sent"]}
        [] OTHER -> {}

\* advance: control fragments first.
SendControl ==
  /\ link = "up" /\ ccontrol # <<>>
  /\ c2s' = Append(c2s, Head(ccontrol))
  /\ ccontrol' = Tail(ccontrol)
  /\ UNCHANGED <<appVars, regVars, cqueue, waiting, active, csend, cin, s2c, link,
                 srvVars, swVars, fault>>

\* advance: one fragment of a request.  Its trailer ends when it has been
\* finished; one dropped unfinished is aborted, and the call with it.
SendRequest(i) ==
  /\ link = "up" /\ ccontrol = <<>>
  /\ \/ /\ csend[i] = "trailer" => call[i] \notin {"streaming", "abandoned"}
        /\ \E step \in Steps(i, csend[i], ReqStreams) :
             /\ c2s' = Append(c2s, step.fragment)
             /\ csend' = [csend EXCEPT ![i] = step.phase]
        /\ UNCHANGED ccontrol
     \/ /\ csend[i] = "trailer" /\ call[i] = "abandoned"
        /\ ccontrol' = <<Control("Abort", i), Control("Cancel", i)>>
        /\ csend' = [csend EXCEPT ![i] = "aborted"]
        /\ UNCHANGED c2s
  /\ UNCHANGED <<appVars, regVars, cqueue, waiting, active, cin, s2c, link, srvVars,
                 swVars, fault>>

-----------------------------------------------------------------------------
(***************************************************************************)
(* Reassembler::accept, at either end.                                     *)
(***************************************************************************)

Arriving(entries) == {i \in Calls : entries[i] = "payload"}

\* A fragment that does not fit the message it names, or one too many.
Malformed(entries, f, streams) ==
  \/ f.first /\ entries[f.id] # "none"
  \/ /\ f.first /\ (f.part = "Begin" \/ f.id \in streams)
     /\ Cardinality(Arriving(entries)) >= MaxCalls
  \/ f.part \in {"Begin", "Head"} /\ ~f.first /\ entries[f.id] # "payload"
  \/ f.part = "Tail" /\ entries[f.id] # "trailer"
  \/ f.part = "Abort" /\ entries[f.id] = "none"

Accepted(entries, f, streams) ==
  [entries EXCEPT ![f.id] =
     CASE f.part = "Begin" -> "payload"
       [] f.part = "Head" /\ f.id \in streams -> "trailer"
       [] OTHER -> "none"]

-----------------------------------------------------------------------------
(***************************************************************************)
(* The server's reader task, and the handlers it polls.                    *)
(***************************************************************************)

\* check_call_admission: arriving and dispatched calls share one limit.
TooManyCalls(n) == Cardinality(outstanding) + n > MaxCalls

\* A protocol error ends the connection.
ServerFails == fault' = "server" /\ link' = "lost"

\* Reassembler and RecvDriver::run, for a fragment of a request.
ServerRejects(f) ==
  \/ Malformed(sin, f, ReqStreams)
  \/ /\ f.part = "Begin"
     /\ f.id \in outstanding \/ TooManyCalls(Cardinality(Arriving(sin)) + 1)
  \/ /\ f.part = "Head" /\ drain # "draining"
     /\ \/ f.id \in outstanding
        \/ TooManyCalls(Cardinality(Arriving(sin) \ {f.id}) + 1)

RecvRequest ==
  /\ link = "up" /\ c2s # <<>> /\ Head(c2s).part \in {"Begin", "Head", "Tail", "Abort"}
  /\ c2s' = Tail(c2s)
  /\ LET f == Head(c2s)
     IN  \/ /\ ServerRejects(f)
            /\ ServerFails
            /\ UNCHANGED <<sin, outstanding, task, squeue>>
         \/ /\ ~ServerRejects(f)
            /\ sin' = Accepted(sin, f, ReqStreams)
            /\ \/ /\ f.part = "Head" /\ drain = "draining"
                  /\ squeue' = Append(squeue, Queued("Error", f.id))
                  /\ UNCHANGED <<outstanding, task>>
               \/ /\ f.part = "Head" /\ drain # "draining"
                  /\ outstanding' = outstanding \cup {f.id}
                  /\ task' = [task EXCEPT ![f.id] = "running"]
                  /\ UNCHANGED squeue
               \/ f.part # "Head" /\ UNCHANGED <<outstanding, task, squeue>>
            /\ UNCHANGED <<link, fault>>
  /\ UNCHANGED <<appVars, regVars, cqueue, cwVars, cin, s2c, guard, drain, rsend,
                 scontrol>>

\* RecvDriver::run, Kind::Cancel: a live guard is signalled, an unguarded
\* handler is aborted, and an answer already queued is left to the writer.
RecvCancel ==
  /\ link = "up" /\ c2s # <<>> /\ Head(c2s).part = "Cancel"
  /\ c2s' = Tail(c2s)
  /\ LET i == Head(c2s).id
     IN  \/ /\ i \in outstanding /\ i \in guard
            /\ guard' = guard \ {i}
            /\ task' = [task EXCEPT ![i] = "told"]
            /\ UNCHANGED squeue
         \/ /\ i \in outstanding /\ i \notin guard
            /\ task' = [task EXCEPT ![i] = "aborting"]
            /\ UNCHANGED <<guard, squeue>>
         \/ /\ i \notin outstanding
            /\ squeue' = Append(squeue, Queued("Cancel", i))
            /\ UNCHANGED <<guard, task>>
  /\ UNCHANGED <<appVars, regVars, cqueue, cwVars, cin, s2c, link, sin, outstanding,
                 drain, rsend, scontrol, fault>>

\* The handler has the context to itself: it is not inside a guard.
HasContext(i) == task[i] \in {"running", "told"} /\ i \notin guard

\* The call leaves the server with one message for the writer.
Answer(i, part) ==
  /\ task' = [task EXCEPT ![i] = "done"]
  /\ outstanding' = outstanding \ {i}
  /\ squeue' = Append(squeue, Queued(part, i))

\* respond and respond_with_trailer; the handler may have asked for shutdown.
Respond(i) ==
  /\ HasContext(i)
  /\ Answer(i, "Response")
  /\ \/ "shutdown" \in Events /\ drain = "none" /\ drain' = "asked"
     \/ UNCHANGED drain
  /\ UNCHANGED <<appVars, regVars, cqueue, cwVars, cin, netVars, sin, guard, rsend,
                 scontrol, fault>>

\* Drop for CallContext: a handler that returned without an answer, or one
\* that was aborted, in its guard or out of it.
DropContext(i) ==
  /\ HasContext(i) \/ task[i] = "aborting"
  /\ Answer(i, "Error")
  /\ guard' = guard \ {i}
  /\ UNCHANGED <<appVars, regVars, cqueue, cwVars, cin, netVars, sin, drain, rsend,
                 scontrol, fault>>

\* cancel_guard, entered and left.
EnterGuard(i) ==
  /\ "guard" \in Events
  /\ HasContext(i)
  /\ guard' = guard \cup {i}
  /\ UNCHANGED <<appVars, regVars, cqueue, cwVars, cin, netVars, sin, outstanding,
                 task, drain, swVars, fault>>

LeaveGuard(i) ==
  /\ i \in guard /\ task[i] \in {"running", "told"}
  /\ guard' = guard \ {i}
  /\ UNCHANGED <<appVars, regVars, cqueue, cwVars, cin, netVars, sin, outstanding,
                 task, drain, swVars, fault>>

\* The reader takes note of the shutdown.
StartDraining ==
  /\ drain = "asked"
  /\ drain' = "draining"
  /\ UNCHANGED <<appVars, regVars, cqueue, cwVars, cin, netVars, sin, outstanding,
                 task, guard, swVars, fault>>

-----------------------------------------------------------------------------
(***************************************************************************)
(* The server's writer task: SendDriver.                                   *)
(***************************************************************************)

\* admit.  A Cancel takes a response out of the scheduler; the client hears
\* of it only if a fragment of the response has left.
AdmitResponse ==
  /\ link = "up" /\ squeue # <<>>
  /\ squeue' = Tail(squeue)
  /\ LET m == Head(squeue)
     IN  \/ /\ m.part = "Response"
            /\ rsend' = [rsend EXCEPT ![m.id] = "queued"]
            /\ UNCHANGED scontrol
         \/ /\ m.part = "Error"
            /\ scontrol' = Append(scontrol, Control("Error", m.id))
            /\ UNCHANGED rsend
         \/ /\ m.part = "Cancel" /\ rsend[m.id] = "queued"
            /\ rsend' = [rsend EXCEPT ![m.id] = "discarded"]
            /\ UNCHANGED scontrol
         \/ /\ m.part = "Cancel" /\ rsend[m.id] \in {"started", "trailer"}
            /\ rsend' = [rsend EXCEPT ![m.id] = "aborted"]
            /\ scontrol' = Append(scontrol, Control("Abort", m.id))
         \/ /\ m.part = "Cancel" /\ rsend[m.id] \notin {"queued", "started", "trailer"}
            /\ UNCHANGED <<rsend, scontrol>>
  /\ UNCHANGED <<appVars, regVars, cqueue, cwVars, cin, netVars, srvVars, fault>>

SendServerControl ==
  /\ link = "up" /\ scontrol # <<>>
  /\ s2c' = Append(s2c, Head(scontrol))
  /\ scontrol' = Tail(scontrol)
  /\ UNCHANGED <<appVars, regVars, cqueue, cwVars, cin, c2s, link, srvVars, squeue,
                 rsend, fault>>

\* advance: one fragment of a response.  The handler may drop its trailer
\* unfinished.
SendResponse(i) ==
  /\ link = "up" /\ scontrol = <<>>
  /\ \/ /\ \E step \in Steps(i, rsend[i], RespStreams) :
             /\ s2c' = Append(s2c, step.fragment)
             /\ rsend' = [rsend EXCEPT ![i] = step.phase]
        /\ UNCHANGED scontrol
     \/ /\ rsend[i] = "trailer"
        /\ scontrol' = <<Control("Abort", i)>>
        /\ rsend' = [rsend EXCEPT ![i] = "aborted"]
        /\ UNCHANGED s2c
  /\ UNCHANGED <<appVars, regVars, cqueue, cwVars, cin, c2s, link, srvVars, squeue,
                 fault>>

-----------------------------------------------------------------------------
(***************************************************************************)
(* The client's reader task: RecvDriver.                                   *)
(***************************************************************************)

\* Reassembler and check_header: a response may only begin for a live call.
ClientRejects(f) ==
  \/ f.first /\ f.id \notin active
  \/ Malformed(cin, f, RespStreams)

\* A reader that leaves the writer to find out about the slot by itself.
FinishCallSilently(i, how) ==
  /\ active' = active \ {i}
  /\ Complete({i}, how)
  /\ UNCHANGED cqueue

\* finish_call, complete, and the Terminal that prompts a promotion.
FinishCall(i, how) ==
  /\ active' = active \ {i}
  /\ Complete({i}, how)
  /\ Send("Terminal", i)

\* dispatch and the Aborted arm of run.  The end of a trailer is not the end
\* of a call: that came with the Head.
RecvResponse ==
  /\ link = "up" /\ s2c # <<>>
  /\ s2c' = Tail(s2c)
  /\ LET f == Head(s2c)
     IN  \/ /\ f.part # "Error" /\ ClientRejects(f)
            /\ fault' = "client" /\ link' = "lost"
            /\ UNCHANGED <<cin, active, pending, result, cqueue>>
         \/ /\ f.part = "Error"
            /\ FinishCall(f.id, "cancelled")
            /\ UNCHANGED <<cin, link, fault>>
         \/ /\ f.part # "Error" /\ ~ClientRejects(f)
            /\ cin' = Accepted(cin, f, RespStreams)
            /\ \/ f.part = "Head" /\ FinishCall(f.id, "response")
               \/ /\ f.part = "Abort" /\ cin[f.id] = "payload"
                  /\ FinishCall(f.id, "cancelled")
               \/ /\ f.part # "Head" /\ ~(f.part = "Abort" /\ cin[f.id] = "payload")
                  /\ UNCHANGED <<active, pending, result, cqueue>>
            /\ UNCHANGED <<link, fault>>
  /\ UNCHANGED <<appVars, registry, channel, waiting, csend, ccontrol, c2s, srvVars,
                 swVars>>

\* The transport fails under both ends.
LoseLink ==
  /\ "lose" \in Events /\ link = "up"
  /\ link' = "lost"
  /\ UNCHANGED <<appVars, regVars, cqueue, cwVars, cin, c2s, s2c, srvVars, swVars,
                 fault>>

-----------------------------------------------------------------------------
Application(i) == FinishTrailer(i) \/ CancelCall(i) \/ DropCall(i)
ClientTasks == AdmitNext \/ AbandonWaiting \/ SendControl
Handler(i) == Respond(i) \/ DropContext(i) \/ EnterGuard(i)

\* Nothing is under way: the application may be idle, or wait.
AtRest ==
  /\ \A i \in Calls : call[i] \notin {"new", "registered", "streaming"}
  /\ \/ link = "lost" /\ registry = "failed"
     \/ /\ cqueue = <<>> /\ ccontrol = <<>> /\ c2s = <<>> /\ s2c = <<>>
        /\ squeue = <<>> /\ scontrol = <<>> /\ outstanding = {}
        /\ \A i \in Calls : {csend[i], rsend[i]} \cap {"queued", "started", "trailer"} = {}
  /\ UNCHANGED vars

Next ==
  \/ \E i \in Calls : Begin(i) \/ BeginQueued(i) \/ Application(i)
  \/ Close \/ Fail \/ LoseLink
  \/ ClientTasks \/ (\E i \in Calls : SendRequest(i)) \/ RecvResponse
  \/ RecvRequest \/ RecvCancel \/ StartDraining
  \/ \E i \in Calls : Handler(i) \/ LeaveGuard(i) \/ SendResponse(i)
  \/ AdmitResponse \/ SendServerControl
  \/ AtRest

Spec == Init /\ [][Next]_vars

(***************************************************************************)
(* Both ends' tasks are always polled, and both schedulers serve their     *)
(* messages in turn.  A handler comes to an end and leaves its guards, and *)
(* an application that has begun a call or a trailer goes on with it.      *)
(* Nobody has to cancel, drop or close anything.                           *)
(***************************************************************************)
Fairness ==
  /\ WF_vars(ClientTasks) /\ WF_vars(RecvResponse) /\ WF_vars(Fail)
  /\ WF_vars(RecvRequest \/ RecvCancel) /\ WF_vars(AdmitResponse)
  /\ WF_vars(SendServerControl)
  /\ \A i \in Calls :
       /\ WF_vars(BeginQueued(i)) /\ WF_vars(FinishTrailer(i))
       /\ WF_vars(SendRequest(i)) /\ WF_vars(SendResponse(i))
       /\ WF_vars(LeaveGuard(i)) /\ SF_vars(Respond(i) \/ DropContext(i))

FairSpec == Spec /\ Fairness

-----------------------------------------------------------------------------
(***************************************************************************)
(* Safety.                                                                 *)
(***************************************************************************)

\* Two ends that follow this code never fail the connection on each other: a
\* request is not sent before the server has room for it, although the slot
\* of a half-sent request is reused before the server has heard of its
\* cancellation; and no answer begins for a call whose slot is gone
\* (check_call_admission, check_header, Reassembler::accept).
PeersConform == fault = "none"

\* How many of these messages about call i a queue holds.
Count(queue, i, parts) ==
  Cardinality({k \in DOMAIN queue : queue[k].id = i /\ queue[k].part \in parts})
One(P) == IF P THEN 1 ELSE 0

\* The places that will bring the call in a slot to an end.  The abort of a
\* response that has been sent whole only ends its trailer.
Holders(i) ==
  LET whole == Count(s2c, i, {"Head"})
      ends == IF whole = 0 THEN {"Error", "Abort"} ELSE {"Error"}
  IN  One(csend[i] \in {"queued", "started"}) + Count(c2s, i, {"Head"})
        + One(i \in outstanding) + Count(squeue, i, {"Response", "Error"})
        + One(rsend[i] \in {"queued", "started"}) + whole
        + Count(scontrol, i, ends) + Count(s2c, i, ends)

\* The server has thrown a response away before any of it was sent.
Discarded(i) == rsend[i] = "discarded"

\* While the connection is up, the call in a slot is in exactly one place
\* that will bring it to an end, whatever a cancellation has met on its way:
\* it cannot be answered twice, and only a response discarded unsent leaves
\* it unanswered (active_calls, outstanding, Scheduler).
OneHolderPerSlot ==
  link = "up" =>
    \A i \in active : Holders(i) = One(~Discarded(i))

\* A caller that still waits has something to wait for: its call is on its
\* way to the writer or holds a slot (Inner::pending).
PendingIsUnderWay ==
  link = "up" /\ channel = "open" =>
    \A i \in pending :
      \/ call[i] = "registered" \/ i \in active
      \/ \E k \in DOMAIN waiting : waiting[k] = i
      \/ \E k \in DOMAIN cqueue : cqueue[k] = Queued("Request", i)

\* A handler whose guard intercepted the cancellation decides what to do
\* about it: it is not aborted afterwards (CallContext::cancel_guard).
GuardedHandlerDecides ==
  [][\A i \in Calls : task[i] = "told" => task'[i] # "aborting"]_vars

(***************************************************************************)
(* Liveness.                                                               *)
(***************************************************************************)

Waits(i) == call[i] = "open" /\ result[i] = "none"

\* Every call resolves, with a response or an error, whether it is cancelled,
\* refused by a draining server, or overtaken by the end of the connection
\* (Call, Call::cancel).
CallsResolve == \A i \in Calls : Waits(i) ~> ~Waits(i)

\* The same, while no cancellation makes the server throw a response away
\* unsent: then that call and the ones waiting for its slot are stuck.
CallsResolveUnlessDiscarded ==
  \A i \in Calls : Waits(i) ~> (~Waits(i) \/ \E j \in Calls : Discarded(j))
=============================================================================
