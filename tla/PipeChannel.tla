----------------------------- MODULE PipeChannel -----------------------------
(***************************************************************************)
(* The pipe channel of dolang-ext-shell/src/pipe_channel.rs between two    *)
(* stages of a pipeline, each one strand.  A stage that puts or reads      *)
(* values and a stage that runs an external program meet in one channel:   *)
(* it starts with a slot for one value, becomes a real pipe as soon as     *)
(* either stage runs a program, and goes back when the programs have       *)
(* ended, which may happen many times.                                     *)
(*                                                                         *)
(* Strands are cooperative: the code between two awaits is one step, and   *)
(* PipeChannelShared is a record that the operators below transform as the *)
(* methods of the same names do.  A parked strand runs again only when one *)
(* of its wakers is called.                                                *)
(*                                                                         *)
(* Abstractions.  What passes through is a sequence of numbered items: one *)
(* per value put and one per write of a program.  Framing, encoding and    *)
(* the values themselves are left out, as are the errors of system calls   *)
(* other than a broken pipe, and the cancellation of a stage.              *)
(***************************************************************************)
EXTENDS Naturals, Sequences, FiniteSets

CONSTANTS
  Stages,       \* what the two stages may do: pairs of sequences of operations
  Emits,        \* how many items a program writes
  PipeCapacity, \* the items a pipe of the operating system holds
  BufCapacity,  \* and a BufReader
  MaxPipes      \* a bound on the pipes one channel creates

\* Upstream: put a value, run a program.  Downstream: the next value, all of
\* them, run a program that reads to the end, run one that may exit before.
SendOps == {"put", "run"}
RecvOps == {"next", "all", "run", "head"}

ASSUME StagesAssumption == Stages \subseteq Seq(SendOps) \X Seq(RecvOps)
ASSUME SizesAssumption ==
  /\ Emits \in Nat
  /\ PipeCapacity \in Nat \ {0} /\ BufCapacity \in Nat \ {0}
  /\ MaxPipes \in Nat

VARIABLES
  plan,    \* the pair the pipeline was started with
  ch,      \* PipeChannelShared
  strand,  \* the two stages
  tasks,   \* spawn_task: stale bytes on their way into a pipe
  data,    \* the bytes in each pipe
  pipes,   \* how many pipes were created
  sent,    \* how many items entered the channel
  got      \* the items the downstream side received

vars == <<plan, ch, strand, tasks, data, pipes, sent, got>>

Strands == {"sender", "receiver"}
PipeIds == 0..MaxPipes
NoPipe == 0

States == {"Value", "RecvPipe", "SendPipe", "Draining", "Direct"}
Ends == {"absent", "present", "taken"}

\* A BufReader over the read end of a pipe.
Reader(p, buf) == [pipe |-> p, buf |-> buf]
NoReader == Reader(NoPipe, <<>>)

Idle == [pc |-> "idle", script |-> <<>>, write |-> NoPipe, read |-> NoReader,
         fresh |-> NoPipe, stale |-> 0, prog |-> NoPipe, left |-> 0]

\* The types of PipeChannelShared, of a strand and of a stale value on its way.
Pcs == {"idle", "parked", "writing", "reading", "negotiating", "opening",
        "draining", "flushing", "cloning", "running", "failed", "closed",
        "panicked"}
ReaderType == [pipe : PipeIds, buf : Seq(Nat)]
ChannelType ==
  [state : States, buffered : Nat,
   send : [is : Ends, pipe : PipeIds], recv : [is : Ends, reader : ReaderType],
   sendClosed : BOOLEAN, recvClosed : BOOLEAN,
   sendWakers : SUBSET Strands, recvWakers : SUBSET Strands,
   negotiateWakers : SUBSET Strands, woken : SUBSET Strands]
StrandType ==
  [pc : Pcs, script : Seq(SendOps \cup RecvOps), write : PipeIds, read : ReaderType,
   fresh : PipeIds, stale : Nat, prog : PipeIds, left : Nat]
TaskType == [pipe : PipeIds, item : Nat]

(* Every variable keeps its type, and no pipe holds more than it can
   (pipe_channel.rs, PipeChannelShared and the guards that hold its ends). *)
TypeOK ==
  /\ plan \in Stages
  /\ ch \in ChannelType
  /\ strand \in [Strands -> StrandType]
  /\ tasks \subseteq TaskType
  /\ data \in [1..MaxPipes -> Seq(Nat)]
  /\ \A p \in 1..MaxPipes : Len(data[p]) <= PipeCapacity
  /\ pipes \in PipeIds /\ sent \in Nat
  /\ got \in Seq(Nat)

Init ==
  /\ ch = [state |-> "Value", buffered |-> 0,
           send |-> [is |-> "absent", pipe |-> NoPipe],
           recv |-> [is |-> "absent", reader |-> NoReader],
           sendClosed |-> FALSE, recvClosed |-> FALSE,
           sendWakers |-> {}, recvWakers |-> {}, negotiateWakers |-> {},
           woken |-> {}]
  /\ plan \in Stages
  /\ strand = [s \in Strands |->
                 [Idle EXCEPT !.script = plan[IF s = "sender" THEN 1 ELSE 2]]]
  /\ tasks = {} /\ pipes = 0 /\ sent = 0 /\ got = <<>>
  /\ data = [p \in 1..MaxPipes |-> <<>>]

-----------------------------------------------------------------------------
(***************************************************************************)
(* PipeChannelShared.                                                      *)
(***************************************************************************)
WakeSenders(c) == [c EXCEPT !.woken = @ \cup c.sendWakers, !.sendWakers = {}]
WakeReceivers(c) == [c EXCEPT !.woken = @ \cup c.recvWakers, !.recvWakers = {}]
WakeNegotiators(c) ==
  [c EXCEPT !.woken = @ \cup c.negotiateWakers, !.negotiateWakers = {}]
WakeAll(c) == WakeSenders(WakeReceivers(WakeNegotiators(c)))

SendEnd(is, p) == [is |-> is, pipe |-> p]
RecvEnd(is, r) == [is |-> is, reader |-> r]
NoSend == SendEnd("absent", NoPipe)
NoRecv == RecvEnd("absent", NoReader)
TakenSend == SendEnd("taken", NoPipe)
TakenRecv == RecvEnd("taken", NoReader)

\* recv_done: the downstream program has exited.
RecvDone(c) ==
  CASE c.state = "Direct" ->
         WakeReceivers(WakeNegotiators([c EXCEPT !.state = "SendPipe"]))
    [] c.state = "RecvPipe" /\ c.sendClosed ->
         WakeAll([c EXCEPT !.state = "Value", !.recv = NoRecv])
    [] c.state = "RecvPipe" /\ ~c.sendClosed /\ c.send.is = "absent" ->
         WakeReceivers(WakeNegotiators([c EXCEPT !.state = "Draining"]))
    [] c.state = "RecvPipe" /\ ~c.sendClosed /\ c.send.is # "absent" ->
         WakeAll([c EXCEPT !.state = "Value", !.recv = NoRecv, !.send = NoSend])

\* A send_done that leaves the channel's own descriptor open.
SendDoneKeepsEnd(c) ==
  IF c.state = "SendPipe"
    THEN WakeReceivers(WakeNegotiators([c EXCEPT !.state = "Draining"]))
    ELSE WakeSenders(WakeNegotiators([c EXCEPT !.state = "RecvPipe"]))

\* send_done: the upstream program has exited.
SendDone(c) ==
  IF c.state = "SendPipe"
    THEN WakeReceivers(WakeNegotiators(
           [c EXCEPT !.state = "Draining", !.send = NoSend]))
    ELSE WakeSenders(WakeNegotiators(
           [c EXCEPT !.state = "RecvPipe", !.send = NoSend]))

\* Where recv_done and send_done are not unreachable!().
MayRecvDone(c) == c.state \in {"RecvPipe", "Direct"}
MaySendDone(c) == c.state \in {"SendPipe", "Direct"}

CloseRecv(c) == WakeAll([c EXCEPT !.recvClosed = TRUE, !.recv = NoRecv])
CloseSend(c) == WakeAll([c EXCEPT !.sendClosed = TRUE, !.send = NoSend])

\* restore_send_end: the drop of a SendEndGuard.
RestoreSend(c, p) ==
  IF c.sendClosed THEN WakeAll(c)
  ELSE IF c.state \in {"RecvPipe", "SendPipe", "Direct"}
    THEN WakeSenders(WakeNegotiators([c EXCEPT !.send = SendEnd("present", p)]))
  ELSE c

\* The drop of a RecvEndGuard.
RestoreRecv(c, r) ==
  IF c.recvClosed THEN WakeAll(c)
  ELSE WakeReceivers(WakeNegotiators([c EXCEPT !.recv = RecvEnd("present", r)]))

\* discard_recv_buffer.
DiscardRecvBuffer(c) ==
  IF c.recv.is = "present" THEN [c EXCEPT !.recv.reader.buf = <<>>] ELSE c

\* take_buffered_bytes: the value in the slot becomes bytes for the pipe.
TakeBuffered(c) ==
  IF c.buffered = 0 THEN c
  ELSE WakeSenders(WakeNegotiators([c EXCEPT !.buffered = 0]))

-----------------------------------------------------------------------------
(***************************************************************************)
(* The pipes of the operating system: a write end or a read end is open    *)
(* while the channel, a guard, a task or a program holds it.               *)
(***************************************************************************)
HasWriter(p) ==
  \/ ch.send.is = "present" /\ ch.send.pipe = p
  \/ \E s \in Strands : strand[s].write = p \/ strand[s].fresh = p
  \/ \E t \in tasks : t.pipe = p
  \/ strand["sender"].prog = p

HasReader(p) ==
  \/ ch.recv.is = "present" /\ ch.recv.reader.pipe = p
  \/ \E s \in Strands : strand[s].read.pipe = p \/ strand[s].fresh = p
  \/ strand["receiver"].prog = p

HasRoom(p) == Len(data[p]) < PipeCapacity
Write(p, item) == data' = [data EXCEPT ![p] = Append(@, item)]

\* A read through a BufReader: from its buffer, which it fills when empty.
Filled(r) ==
  IF r.buf # <<>> THEN r.buf
  ELSE SubSeq(data[r.pipe], 1,
              IF Len(data[r.pipe]) < BufCapacity THEN Len(data[r.pipe]) ELSE BufCapacity)

Unread(r) ==
  IF r.buf # <<>> THEN data
  ELSE [data EXCEPT ![r.pipe] = SubSeq(@, Len(Filled(r)) + 1, Len(@))]

AtEnd(r) == Filled(r) = <<>> /\ ~HasWriter(r.pipe)

-----------------------------------------------------------------------------
(***************************************************************************)
(* Strands.  Op is the operation the stage is in; a step that ends it goes *)
(* on to the next one.                                                     *)
(***************************************************************************)
Op(s) == Head(strand[s].script)
Become(s, r) == strand' = [strand EXCEPT ![s] = r]
At(s, pc) == [strand[s] EXCEPT !.pc = pc]

\* The operation is complete, with nothing held.
Done(s) == [strand[s] EXCEPT !.pc = "idle", !.script = Tail(@), !.write = NoPipe,
                             !.read = NoReader, !.prog = NoPipe]
\* It failed: the stage ends and closes its end.
Failed(s) == [Idle EXCEPT !.pc = "failed"]
Panicked(s) == [Idle EXCEPT !.pc = "panicked"]

Starts(s, op) == strand[s].pc = "idle" /\ strand[s].script # <<>> /\ Op(s) = op
Resumes(s, op) ==
  /\ strand[s].pc = "parked" /\ Op(s) = op /\ s \in ch.woken

Awake(s) == [ch EXCEPT !.woken = @ \ {s}]

\* The end of a stage closes its end of the channel.
CloseStage(s) ==
  /\ \/ strand[s].pc = "idle" /\ strand[s].script = <<>>
     \/ strand[s].pc = "failed"
  /\ ch' = IF s = "sender" THEN CloseSend(ch) ELSE CloseRecv(ch)
  /\ Become(s, At(s, "closed"))
  /\ UNCHANGED <<tasks, data, pipes, sent, got>>

-----------------------------------------------------------------------------
(***************************************************************************)
(* PipeSender::put.                                                        *)
(***************************************************************************)
PutReady ==
  \/ ch.sendClosed \/ ch.recvClosed
  \/ ch.state = "Value" /\ ch.buffered = 0
  \/ ch.state = "RecvPipe" /\ ch.send.is = "present"
  \/ ch.state \in {"SendPipe", "Direct"}

\* One turn of its loop, with c the channel as the strand finds it.
PutTurn(c) ==
  \/ /\ c.recvClosed  \* SinkStop
     /\ ch' = c /\ Become("sender", Failed("sender"))
     /\ UNCHANGED sent
  \/ /\ ~c.recvClosed /\ c.state = "Value" /\ c.buffered = 0
     /\ ch' = WakeReceivers([c EXCEPT !.buffered = sent + 1])
     /\ sent' = sent + 1
     /\ Become("sender", Done("sender"))
  \/ /\ ~c.recvClosed
     /\ c.state = "Draining" \/ (c.state = "Value" /\ c.buffered # 0)
     /\ ch' = [c EXCEPT !.sendWakers = {"sender"}]
     /\ Become("sender", At("sender", "parked"))
     /\ UNCHANGED sent
  \/ /\ ~c.recvClosed /\ c.state = "RecvPipe" /\ c.send.is = "present"
     /\ ch' = [c EXCEPT !.send = TakenSend]
     /\ Become("sender", [At("sender", "writing") EXCEPT !.write = c.send.pipe])
     /\ UNCHANGED sent
  \/ /\ ~c.recvClosed  \* "program owns channel end"
     /\ \/ c.state \in {"SendPipe", "Direct"}
        \/ c.state = "RecvPipe" /\ c.send.is # "present"
     /\ ch' = c /\ Become("sender", Failed("sender"))
     /\ UNCHANGED sent

Put ==
  /\ \/ Starts("sender", "put") /\ PutTurn(ch)
     \/ Resumes("sender", "put") /\ PutReady /\ PutTurn(Awake("sender"))
     \/ /\ Resumes("sender", "put") /\ ~PutReady
        /\ ch' = [Awake("sender") EXCEPT !.sendWakers = {"sender"}]
        /\ UNCHANGED <<strand, sent>>
  /\ UNCHANGED <<tasks, data, pipes, got>>

\* write_all, and the guard's drop.
PutWrite ==
  LET p == strand["sender"].write
  IN  /\ strand["sender"].pc = "writing"
      /\ ch' = RestoreSend(ch, p)
      /\ \/ /\ HasReader(p) /\ HasRoom(p)
            /\ Write(p, sent + 1) /\ sent' = sent + 1
            /\ Become("sender", Done("sender"))
         \/ /\ ~HasReader(p)
            /\ Become("sender", Failed("sender"))
            /\ UNCHANGED <<data, sent>>
      /\ UNCHANGED <<tasks, pipes, got>>

-----------------------------------------------------------------------------
(***************************************************************************)
(* PipeReceiver::next; "all" calls it until it reports the end.            *)
(***************************************************************************)
Reads == {"next", "all"}

NextReady ==
  \/ ch.sendClosed \/ ch.recvClosed
  \/ ch.state = "Value" /\ ch.buffered # 0
  \/ ch.state \in {"SendPipe", "Draining"} /\ ch.recv.is = "present"
  \/ ch.state \in {"RecvPipe", "Direct"}

\* An item arrived, or none will.
Received == IF Op("receiver") = "all" THEN At("receiver", "idle") ELSE Done("receiver")

\* The state is Value: the value in the slot, the end, or the wait for either.
NextInValue(c) ==
  \/ /\ c.buffered # 0
     /\ ch' = WakeSenders(WakeNegotiators([c EXCEPT !.buffered = 0]))
     /\ got' = Append(got, c.buffered)
     /\ Become("receiver", Received)
  \/ /\ c.buffered = 0 /\ c.sendClosed
     /\ ch' = c /\ Become("receiver", Done("receiver"))
     /\ UNCHANGED got
  \/ /\ c.buffered = 0 /\ ~c.sendClosed
     /\ ch' = [c EXCEPT !.recvWakers = {"receiver"}]
     /\ Become("receiver", [At("receiver", "parked") EXCEPT !.read = NoReader])
     /\ UNCHANGED got

\* One turn of its loop; at the end of the pipe it goes on in Value at once.
NextTurn(c) ==
  \/ c.state = "Value" /\ NextInValue(c)
  \/ /\ c.state \in {"SendPipe", "Draining"} /\ c.recv.is = "present"
     /\ ch' = [c EXCEPT !.recv = TakenRecv]
     /\ Become("receiver", [At("receiver", "reading") EXCEPT !.read = c.recv.reader])
     /\ UNCHANGED got
  \/ /\ c.state = "Draining" /\ c.recv.is = "absent"
     /\ NextInValue(WakeAll([c EXCEPT !.state = "Value"]))
  \/ /\ \/ c.state \in {"RecvPipe", "Direct"}
        \/ c.state = "SendPipe" /\ c.recv.is # "present"
        \/ c.state = "Draining" /\ c.recv.is = "taken"
     /\ ch' = c /\ Become("receiver", Failed("receiver"))
     /\ UNCHANGED got

Next1 ==
  /\ \E op \in Reads :
       \/ Starts("receiver", op) /\ NextTurn(ch)
       \/ Resumes("receiver", op) /\ NextReady /\ NextTurn(Awake("receiver"))
       \/ /\ Resumes("receiver", op) /\ ~NextReady
          /\ ch' = [Awake("receiver") EXCEPT !.recvWakers = {"receiver"}]
          /\ UNCHANGED <<strand, got>>
  /\ UNCHANGED <<tasks, data, pipes, sent>>

\* read_value: an item, and the guard's drop; or the end of the pipe, and the
\* channel is back to values.
NextRead ==
  LET r == strand["receiver"].read
  IN  /\ strand["receiver"].pc = "reading"
      /\ \/ /\ Filled(r) # <<>>
            /\ got' = Append(got, Head(Filled(r)))
            /\ data' = Unread(r)
            /\ ch' = RestoreRecv(ch, Reader(r.pipe, Tail(Filled(r))))
            /\ Become("receiver", [Received EXCEPT !.read = NoReader])
         \/ /\ AtEnd(r)
            /\ NextInValue(WakeAll([ch EXCEPT !.state = "Value"]))
            /\ UNCHANGED data
      /\ UNCHANGED <<tasks, pipes, sent>>

-----------------------------------------------------------------------------
(***************************************************************************)
(* negotiate_recv and negotiate_send: wait until the state allows it, make *)
(* a pipe if one is needed, and check the state again after that await.    *)
(***************************************************************************)
\* "go", "wait" or "error".
RecvVerdict(c) ==
  IF c.state = "Value" \/ (c.state \in {"SendPipe", "Draining"} /\ c.recv.is # "taken")
    THEN "go"
  ELSE IF c.state = "RecvPipe" THEN "error" ELSE "wait"

\* A negotiation that does not wait for the reader of the old pipe.
SendVerdictEager(c) ==
  IF c.state \in {"Value", "Draining"} \/ (c.state = "RecvPipe" /\ c.send.is # "taken")
    THEN "go"
  ELSE IF c.state \in {"SendPipe", "Direct"} THEN "error" ELSE "wait"

SendVerdict(c) ==
  IF \/ c.state = "Value"
     \/ c.state = "RecvPipe" /\ c.send.is # "taken"
     \/ c.state = "Draining" /\ c.recv.is # "taken"
    THEN "go"
  ELSE IF c.state \in {"SendPipe", "Direct"} THEN "error" ELSE "wait"

Verdict(s, c) == IF s = "sender" THEN SendVerdict(c) ELSE RecvVerdict(c)

NeedsPipe(s, c) ==
  IF s = "sender" THEN c.state \in {"Value", "Draining"}
  ELSE c.state = "Value" \/ (c.state = "Draining" /\ ~c.sendClosed)

\* A guard's drop when its program has exited, or the panic of unreachable!().
SendGuardDrop(c, r) ==
  IF MaySendDone(c) THEN ch' = SendDone(c) /\ Become("sender", r)
  ELSE ch' = c /\ Become("sender", Panicked("sender"))

RecvGuardDrop(c, r) ==
  IF MayRecvDone(c) THEN ch' = RecvDone(c) /\ Become("receiver", r)
  ELSE ch' = c /\ Become("receiver", Panicked("receiver"))

\* send_pipe and recv_pipe, right after the negotiation: the end is taken while
\* it is duplicated for the program; it may have been closed.
Duplicating(s, w, r) ==
  [At(s, "cloning") EXCEPT !.write = w, !.read = r, !.fresh = NoPipe, !.stale = 0]

Duplicate(s, c) ==
  IF s = "sender"
    THEN IF c.send.is = "present"
           THEN /\ ch' = [c EXCEPT !.send = TakenSend]
                /\ Become(s, Duplicating(s, c.send.pipe, NoReader))
           ELSE SendGuardDrop(c, Failed(s))
    ELSE IF c.recv.is = "present"
           THEN /\ ch' = [c EXCEPT !.recv = TakenRecv]
                /\ Become(s, Duplicating(s, NoPipe, c.recv.reader))
           ELSE RecvGuardDrop(c, Failed(s))

\* The receiver's task with a write end of its own.
FlushStaleShared(s, c, w, stale) ==
  \/ /\ w = NoPipe
     /\ Duplicate(s, c) /\ UNCHANGED tasks
  \/ /\ w # NoPipe
     /\ tasks' = tasks \cup {[pipe |-> w, item |-> i] : i \in {stale} \ {0}}
     /\ Duplicate(s, RestoreSend(c, w))

\* The negotiating strand holds the write end w, and stale is the value that
\* was in the slot.  The receiver leaves it to a task, with the write end; the
\* sender writes it itself.  Without one the guard is dropped at once.
FlushStale(s, c, w, stale) ==
  \/ /\ w = NoPipe
     /\ Duplicate(s, c) /\ UNCHANGED tasks
  \/ /\ w # NoPipe /\ stale = 0
     /\ Duplicate(s, RestoreSend(c, w)) /\ UNCHANGED tasks
  \/ /\ w # NoPipe /\ stale # 0 /\ s = "receiver"
     /\ tasks' = tasks \cup {[pipe |-> w, item |-> stale]}
     /\ Duplicate(s, c)
  \/ /\ w # NoPipe /\ stale # 0 /\ s = "sender"
     /\ ch' = c
     /\ Become(s, [At(s, "flushing") EXCEPT !.write = w, !.fresh = NoPipe,
                                            !.stale = stale])
     /\ UNCHANGED tasks

\* A new pipe without what is left in the old one.
DrainNothing(s, c, w, old) == FlushStale(s, c, w, 0)

\* The same, after what is left in an old pipe has gone into the new one.
DrainFirst(s, c, w, old) ==
  /\ ch' = c
  /\ Become(s, [At(s, "draining") EXCEPT !.write = w, !.read = old, !.fresh = NoPipe])
  /\ UNCHANGED tasks

Panic(s, c) == ch' = c /\ Become(s, Panicked(s)) /\ UNCHANGED tasks

FreshPipe(s, c, state) ==
  [c EXCEPT !.recv = RecvEnd("present", Reader(strand[s].fresh, <<>>)),
            !.send = TakenSend, !.state = state]

BecomeRecvPipe(c) ==
  LET s == "receiver"
      p == strand[s].fresh
  IN  \/ /\ c.state = "Value"
         /\ FlushStale(s, WakeSenders(FreshPipe(s, TakeBuffered(c), "RecvPipe")),
                       p, c.buffered)
      \/ /\ c.state = "SendPipe"
         /\ FlushStale(s, [DiscardRecvBuffer(c) EXCEPT !.state = "Direct"], NoPipe, 0)
      \/ /\ c.state = "Draining" /\ c.sendClosed
         /\ FlushStale(s, WakeSenders([c EXCEPT !.state = "RecvPipe"]), NoPipe, 0)
      \/ /\ c.state = "Draining" /\ ~c.sendClosed
         /\ IF c.recv.is = "present"
              THEN DrainFirst(s, WakeSenders(FreshPipe(s, c, "RecvPipe")), p, c.recv.reader)
              ELSE Panic(s, c)

BecomeSendPipe(c) ==
  LET s == "sender"
      p == strand[s].fresh
  IN  \/ /\ c.state = "Value"
         /\ FlushStale(s, WakeReceivers(FreshPipe(s, TakeBuffered(c), "SendPipe")),
                       p, c.buffered)
      \/ /\ c.state = "RecvPipe"
         /\ IF c.send.is = "present"
              THEN FlushStale(s, [c EXCEPT !.send = TakenSend, !.state = "Direct"],
                              c.send.pipe, 0)
              ELSE Panic(s, c)
      \/ /\ c.state = "Draining"
         /\ IF c.recv.is = "present"
              THEN DrainFirst(s, WakeReceivers(FreshPipe(s, c, "SendPipe")), p, c.recv.reader)
              ELSE Panic(s, c)

NegotiateTurn(s, c) ==
  \/ /\ Verdict(s, c) = "error"
     /\ ch' = c /\ Become(s, Failed(s)) /\ UNCHANGED tasks
  \/ /\ Verdict(s, c) = "wait"
     /\ ch' = [c EXCEPT !.negotiateWakers = @ \cup {s}]
     /\ Become(s, At(s, "negotiating")) /\ UNCHANGED tasks
  \/ /\ Verdict(s, c) = "go" /\ NeedsPipe(s, c) /\ strand[s].fresh = NoPipe
     /\ ch' = c /\ Become(s, At(s, "opening")) /\ UNCHANGED tasks
  \/ /\ Verdict(s, c) = "go" /\ ~(NeedsPipe(s, c) /\ strand[s].fresh = NoPipe)
     /\ IF s = "sender" THEN BecomeSendPipe(c) ELSE BecomeRecvPipe(c)

\* vfs().pipe() returns; the loop starts again.
Opened(s) ==
  /\ strand[s].pc = "opening" /\ pipes < MaxPipes
  /\ pipes' = pipes + 1
  /\ Become(s, [At(s, "negotiating") EXCEPT !.fresh = pipes + 1])
  /\ ch' = [ch EXCEPT !.woken = @ \cup {s}]
  /\ UNCHANGED <<tasks, data, sent, got>>

Negotiate(s) ==
  /\ \/ (\E op \in {"run", "head"} : Starts(s, op)) /\ NegotiateTurn(s, ch)
     \/ /\ strand[s].pc = "negotiating" /\ s \in ch.woken
        /\ NegotiateTurn(s, Awake(s))
  /\ UNCHANGED <<data, pipes, sent, got>>

\* drain_pipe: what is left in the old pipe goes into the new one first.
Drain(s) ==
  LET r == strand[s].read
      p == strand[s].write
  IN  /\ strand[s].pc = "draining"
      /\ \/ /\ Filled(r) # <<>> /\ HasReader(p) /\ HasRoom(p)
            /\ data' = [Unread(r) EXCEPT ![p] = Append(@, Head(Filled(r)))]
            /\ Become(s, [strand[s] EXCEPT !.read.buf = Tail(Filled(r))])
            /\ UNCHANGED <<ch, tasks>>
         \/ /\ AtEnd(r)
            /\ FlushStale(s, ch, p, 0)
            /\ UNCHANGED data
         \/ /\ Filled(r) # <<>> /\ ~HasReader(p)
            /\ ch' = RestoreSend(ch, p)
            /\ Become(s, Failed(s))
            /\ UNCHANGED <<data, tasks>>
      /\ UNCHANGED <<pipes, sent, got>>

\* The sender's own write of the stale value.
Flush ==
  LET p == strand["sender"].write
  IN  /\ strand["sender"].pc = "flushing"
      /\ \/ /\ HasReader(p) /\ HasRoom(p)
            /\ Write(p, strand["sender"].stale)
            /\ Duplicate("sender", RestoreSend(ch, p))
         \/ /\ ~HasReader(p)
            /\ ch' = RestoreSend(ch, p) /\ Become("sender", Failed("sender"))
            /\ UNCHANGED data
      /\ UNCHANGED <<tasks, pipes, sent, got>>

TaskWrite(t) ==
  /\ t \in tasks
  /\ \/ HasReader(t.pipe) /\ HasRoom(t.pipe) /\ Write(t.pipe, t.item)
     \/ ~HasReader(t.pipe) /\ UNCHANGED data
  /\ tasks' = tasks \ {t}
  /\ ch' = RestoreSend(ch, t.pipe)
  /\ UNCHANGED <<strand, pipes, sent, got>>

-----------------------------------------------------------------------------
(***************************************************************************)
(* The programs.  The channel's end goes back into its slot once it is     *)
(* duplicated; the guard of the negotiation is dropped when the program    *)
(* has exited.                                                             *)
(***************************************************************************)
SendLaunch ==
  LET p == strand["sender"].write
  IN  /\ strand["sender"].pc = "cloning"
      /\ ch' = RestoreSend(ch, p)
      /\ Become("sender", [At("sender", "running") EXCEPT
                             !.write = NoPipe, !.prog = p, !.left = Emits])
      /\ UNCHANGED <<tasks, data, pipes, sent, got>>

SendProgram ==
  LET p == strand["sender"].prog
  IN  /\ strand["sender"].pc = "running" /\ strand["sender"].left > 0
      /\ HasReader(p) /\ HasRoom(p)
      /\ Write(p, sent + 1) /\ sent' = sent + 1
      /\ Become("sender", [strand["sender"] EXCEPT !.left = @ - 1])
      /\ UNCHANGED <<ch, tasks, pipes, got>>

\* It has written everything, or its pipe is broken.
SendExit ==
  /\ strand["sender"].pc = "running"
  /\ strand["sender"].left = 0 \/ ~HasReader(strand["sender"].prog)
  /\ SendGuardDrop(ch, [Done("sender") EXCEPT !.left = 0])
  /\ UNCHANGED <<tasks, data, pipes, sent, got>>

RecvLaunch ==
  LET r == strand["receiver"].read
  IN  /\ strand["receiver"].pc = "cloning"
      /\ ch' = RestoreRecv(ch, r)
      /\ Become("receiver", [At("receiver", "running") EXCEPT
                               !.read = NoReader, !.prog = r.pipe])
      /\ UNCHANGED <<tasks, data, pipes, sent, got>>

\* A program reads from its own descriptor, past any BufReader.
RecvProgram ==
  LET p == strand["receiver"].prog
  IN  /\ strand["receiver"].pc = "running" /\ data[p] # <<>>
      /\ got' = Append(got, Head(data[p]))
      /\ data' = [data EXCEPT ![p] = Tail(@)]
      /\ UNCHANGED <<ch, strand, tasks, pipes, sent>>

RecvExit ==
  LET p == strand["receiver"].prog
  IN  /\ strand["receiver"].pc = "running"
      /\ Op("receiver") = "head" \/ (data[p] = <<>> /\ ~HasWriter(p))
      /\ RecvGuardDrop(ch, Done("receiver"))
      /\ UNCHANGED <<tasks, data, pipes, sent, got>>

-----------------------------------------------------------------------------
Programs ==
  \/ SendLaunch \/ SendProgram \/ SendExit
  \/ RecvLaunch \/ RecvProgram \/ RecvExit

Next ==
  /\ \/ Put \/ PutWrite \/ Next1 \/ NextRead \/ Flush
     \/ \E s \in Strands : Negotiate(s) \/ Opened(s) \/ Drain(s) \/ CloseStage(s)
     \/ \E t \in tasks : TaskWrite(t)
     \/ Programs
  /\ UNCHANGED plan

Spec == Init /\ [][Next]_vars

\* Strands and tasks run when they can; programs write, read and exit.
FairSpec == Spec /\ WF_vars(Next)

-----------------------------------------------------------------------------
(***************************************************************************)
(* Properties.                                                             *)
(***************************************************************************)

\* Neither an unwrap of an absent end nor an unreachable!() of recv_done or
\* send_done is ever reached.
NoPanic == \A s \in Strands : strand[s].pc # "panicked"

\* Items arrive in the order they entered, whatever the channel turned into
\* in between, and none arrives twice.
InOrder == \A i, j \in DOMAIN got : i < j => got[i] < got[j]

Ended == \A s \in Strands : strand[s].pc = "closed"
ReadsToTheEnd == plan[2] \in {<<"all">>, <<"run">>}

\* When both stages have ended, a downstream stage that reads to the end has
\* received every item that entered the channel.
NothingLost == Ended /\ ReadsToTheEnd => got = [i \in 1..sent |-> i]

\* Both stages end: nobody waits forever for a waker that is not called or an
\* end of file that does not come.
StagesEnd == <>Ended
=============================================================================
