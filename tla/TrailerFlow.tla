---------------------------- MODULE TrailerFlow ----------------------------
(***************************************************************************)
(* Trailer streams of one direction of a dolang-rpc connection             *)
(* (dolang-rpc/src/trailer.rs, with the scheduler and reassembler steps of *)
(* fragment.rs that drive it).                                             *)
(*                                                                         *)
(* A message may be followed by a trailer, a byte stream that a producer   *)
(* writes through a TrailerSend and a consumer reads through a             *)
(* TrailerRecv.  All trailers of the direction share one pool of credit:   *)
(* the sender debits its copy before a byte may leave, the receiver        *)
(* charges its own copy as fragments arrive and returns the bytes, in      *)
(* Credit fragments, once the consumer is done with them.                  *)
(*                                                                         *)
(* On each side one driver task serves all trailers, and lends the         *)
(* transport to one of them at a time (SendLease, RecvLease).  Everything  *)
(* done under one SendShared or RecvShared mutex is one action.            *)
(*                                                                         *)
(* Abstractions.  Bytes are counted, not carried.  A fragment enters the   *)
(* wire whole, when the driver has flushed it, and fragments of one        *)
(* message may be cut anew when they are received.  The fragments of one   *)
(* message arrive in order; those of different messages in any order,      *)
(* which includes the order of the transport.  Credit for one message that *)
(* is on its way back is one number.  Transport errors are left out: they  *)
(* end the connection and both pools with it.                              *)
(***************************************************************************)
EXTENDS SessionWindow

CONSTANTS
  Ids,             \* the messages that carry a trailer
  Window,          \* Limits::trailer_session_window
  CreditInterval,  \* Limits::trailer_credit_interval
  MaxFragment,     \* the fragment size limit
  SendCopyThreshold,        \* writes up to this size are staged at once
  RecvCopyThreshold,        \* fragments up to this size are drained at once
  RecvDemandCopyThreshold,  \* ... when the consumer is already waiting
  Manual,          \* trailers taken in manual-credit mode
  Stoppable,       \* trailers whose consumer may stop polling for good
  TrailerLen,      \* bound: the bytes a producer has for one trailer
  Liberties        \* what the applications at both ends may do, see below

(***************************************************************************)
(* Liberties of the applications beyond writing a trailer to its end and   *)
(* reading it to its end:                                                  *)
(*   drop_early     drop the TrailerRecv before the trailer has ended      *)
(*   drop_ended     drop it after the end with bytes unread or unreleased  *)
(*   abandon        drop the TrailerSend without finishing it              *)
(*   shutdown_drop  close the TrailerSend as an AsyncWrite, then drop it   *)
(*   cancel         cancel the message that carries the trailer            *)
(*   finish_pending finish while an unfinished write is still pending      *)
(*   stop_mid_read  stop polling while a read of the transport is pending  *)
(***************************************************************************)
AllLiberties ==
  {"drop_early", "drop_ended", "abandon", "shutdown_drop", "cancel",
   "finish_pending", "stop_mid_read"}

\* The liberties that end a trailer while the receiver still holds its bytes.
Aborting == {"abandon", "shutdown_drop", "cancel"}

\* Nobody holds the lease.
NoId == "NoId"

ASSUME IdsAssumption == IsFiniteSet(Ids) /\ NoId \notin Ids
ASSUME SizesAssumption ==
  /\ Window \in Nat \ {0}
  /\ CreditInterval \in Nat
  /\ MaxFragment \in Nat \ {0}
  /\ SendCopyThreshold \in Nat
  /\ RecvCopyThreshold \in Nat
  /\ RecvDemandCopyThreshold \in Nat
  /\ TrailerLen \in Nat
ASSUME ModesAssumption ==
  /\ Manual \subseteq Ids /\ Stoppable \subseteq Ids
  /\ Liberties \subseteq AllLiberties

VARIABLES
  \* the sending endpoint
  place,     \* where the scheduler keeps the message
  sstate,    \* SendShared.state
  reserved,  \* SendShared.reserved
  buffer,    \* bytes of the fragment staged in SendShared.buffer
  toWrite,   \* bytes the producer still has to write
  writer,    \* the producer's TrailerSend
  lease,     \* the trailer that holds the SendLease
  spool,     \* the send side of the credit pool
  \* the transport
  wire,      \* trailer bytes on their way
  wend,      \* the fragment that ends the trailer
  credits,   \* credit on its way back
  discards,  \* a Discard on its way back
  \* the receiving endpoint
  rstate,    \* RecvShared.state
  remaining, \* RecvShared.remaining: bytes of the granted fragment not read
  stage,     \* bytes in RecvShared.stage
  out,       \* bytes delivered to the consumer and not retired
  pending,   \* RecvShared.pending
  reader,    \* whether the TrailerRecv is alive
  rlease,    \* the trailer that holds the RecvLease
  rpool,     \* the receive side of the credit pool
  broken     \* the receiver failed the connection: credit window exceeded

svars == <<place, sstate, reserved, buffer, toWrite, writer, lease, spool>>
wvars == <<wire, wend, credits, discards>>
rvars == <<rstate, remaining, stage, out, pending, reader, rlease, rpool>>
vars == <<svars, wvars, rvars, broken>>

(***************************************************************************)
(* A message is waiting in the scheduler until it has been charged, then   *)
(* active while its payload goes out; the payload's last fragment opens    *)
(* the trailer.  After a Discard the trailer is detached and only the      *)
(* terminal commit is left to send.                                        *)
(***************************************************************************)
Places == {"waiting", "active", "trailer", "detached", "done"}

SendStates == {"Idle", "Demand", "Granted", "Staging", "Fragment",
               "FragmentDemand", "Finish", "FragmentFinish", "Abort"}

RecvStates == {"None", "Idle", "Demand", "Reading", "Unclaimed", "Draining",
               "Fragment", "FragmentDemand", "Eof", "Discard", "Failed"}

(* Every variable keeps its type; in particular both copies of the credit pool
   (window.rs) stay between zero and the window. *)
TypeOK ==
  /\ place \in [Ids -> Places]
  /\ sstate \in [Ids -> SendStates]
  /\ reserved \in [Ids -> Nat]
  /\ buffer \in [Ids -> Nat]
  /\ toWrite \in [Ids -> Nat]
  /\ writer \in [Ids -> {"open", "shut", "gone"}]
  /\ lease \in Ids \cup {NoId}
  /\ spool \in WindowType(Ids, Window)
  /\ wire \in [Ids -> Nat]
  /\ wend \in [Ids -> {"none", "last", "abort", "done"}]
  /\ credits \in [Ids -> Nat]
  /\ discards \in [Ids -> BOOLEAN]
  /\ rstate \in [Ids -> RecvStates]
  /\ remaining \in [Ids -> Nat]
  /\ stage \in [Ids -> Nat]
  /\ out \in [Ids -> Nat]
  /\ pending \in [Ids -> Nat]
  /\ reader \in [Ids -> BOOLEAN]
  /\ rlease \in Ids \cup {NoId}
  /\ rpool \in WindowType(Ids, Window)
  /\ broken \in BOOLEAN

Zero == [i \in Ids |-> 0]

Init ==
  /\ place = [i \in Ids |-> "waiting"]
  /\ sstate = [i \in Ids |-> "Idle"]
  /\ reserved = Zero
  /\ buffer = Zero
  /\ toWrite = [i \in Ids |-> TrailerLen]
  /\ writer = [i \in Ids |-> "open"]
  /\ lease = NoId
  /\ spool = NewWindow(Ids, Window)
  /\ wire = Zero
  /\ wend = [i \in Ids |-> "none"]
  /\ credits = Zero
  /\ discards = [i \in Ids |-> FALSE]
  /\ rstate = [i \in Ids |-> "None"]
  /\ remaining = Zero
  /\ stage = Zero
  /\ out = Zero
  /\ pending = Zero
  /\ reader = [i \in Ids |-> TRUE]
  /\ rlease = NoId
  /\ rpool = NewWindow(Ids, Window)
  /\ broken = FALSE

-----------------------------------------------------------------------------
(***************************************************************************)
(* The producer: TrailerSend.                                              *)
(***************************************************************************)

\* poll_write in Idle.  Nothing is reserved for a message that has not
\* started, and with an empty pool the writer parks: no step in either case.
\* A small fragment is staged at once; a large one asks for the transport
\* and carries its reservation along.
PollWriteIdle(i) ==
  /\ writer[i] = "open" /\ sstate[i] = "Idle" /\ place[i] # "waiting"
  /\ \E want \in 1..Lesser(toWrite[i], MaxFragment) :
       LET len == Granted(spool, want)
       IN  /\ len > 0
           /\ spool' = DebitUpTo(spool, i, want)
           /\ \/ /\ len <= SendCopyThreshold
                 /\ buffer' = [buffer EXCEPT ![i] = len]
                 /\ toWrite' = [toWrite EXCEPT ![i] = @ - len]
                 /\ sstate' = [sstate EXCEPT ![i] = "Fragment"]
                 /\ UNCHANGED reserved
              \/ /\ len > SendCopyThreshold
                 /\ reserved' = [reserved EXCEPT ![i] = len]
                 /\ sstate' = [sstate EXCEPT ![i] = "Demand"]
                 /\ UNCHANGED <<buffer, toWrite>>
  /\ UNCHANGED <<place, writer, lease, wvars, rvars, broken>>

\* poll_write while a staged fragment has not been flushed.
PollWriteBehind(i) ==
  /\ writer[i] = "open" /\ sstate[i] = "Fragment" /\ toWrite[i] > 0
  /\ sstate' = [sstate EXCEPT ![i] = "FragmentDemand"]
  /\ UNCHANGED <<place, reserved, buffer, toWrite, writer, lease, spool,
                 wvars, rvars, broken>>

\* Returning the part of the reservation that the fragment does use as well.
UnreserveAll(i, len) == Refund(spool, i, reserved[i])

\* unreserve: the part of the reservation that the fragment does not use.
Unreserve(i, len) == Refund(spool, i, reserved[i] - len)

\* poll_write with the transport in hand.  Granted writes to the transport
\* and leaves the rest in the buffer, Staging copies everything there; both
\* release what the fragment does not use.  The caller may come back with a
\* smaller buffer than the one it reserved for.
PollWriteLeased(i) ==
  /\ writer[i] = "open" /\ sstate[i] \in {"Granted", "Staging"}
  /\ \E len \in 1..Lesser(reserved[i], Lesser(toWrite[i], MaxFragment)) :
       /\ spool' = Unreserve(i, len)
       /\ buffer' = [buffer EXCEPT ![i] = len]
       /\ toWrite' = [toWrite EXCEPT ![i] = @ - len]
  /\ reserved' = [reserved EXCEPT ![i] = 0]
  /\ sstate' = [sstate EXCEPT ![i] = "Fragment"]
  /\ UNCHANGED <<place, writer, lease, wvars, rvars, broken>>

\* poll_write in Granted when the transport is not ready: the writer keeps
\* the grant and the part of the reservation it would use.
PollWriteBlocked(i) ==
  /\ writer[i] = "open" /\ sstate[i] = "Granted"
  /\ \E len \in 1..Lesser(reserved[i], Lesser(toWrite[i], MaxFragment)) :
       /\ len < reserved[i]
       /\ spool' = Unreserve(i, len)
       /\ reserved' = [reserved EXCEPT ![i] = len]
  /\ UNCHANGED <<place, sstate, buffer, toWrite, writer, lease,
                 wvars, rvars, broken>>

\* SendShared::finish
Finished(state) ==
  CASE state \in {"Fragment", "FragmentDemand", "FragmentFinish"} -> "FragmentFinish"
    [] state = "Abort" -> "Abort"
    [] OTHER -> "Finish"

MidWrite(i) == sstate[i] \in {"Demand", "Granted", "Staging"}

\* TrailerSend::finish consumes the handle; poll_close leaves it behind.
Finish(i) ==
  /\ writer[i] \in {"open", "shut"}
  /\ MidWrite(i) => "finish_pending" \in Liberties
  /\ sstate' = [sstate EXCEPT ![i] = Finished(@)]
  /\ \/ writer' = [writer EXCEPT ![i] = "gone"]
     \/ writer[i] = "open" /\ writer' = [writer EXCEPT ![i] = "shut"]
  /\ UNCHANGED <<place, reserved, buffer, toWrite, lease, spool,
                 wvars, rvars, broken>>

\* SendShared::set_aborted: the state and the pool.
SetAborted(i) ==
  /\ sstate' = [sstate EXCEPT ![i] = IF @ \in {"Finish", "FragmentFinish"}
                                     THEN @ ELSE "Abort"]
  /\ spool' = Settle(spool, i)

\* Drop for TrailerSend, and SendShared::abandon.
DropSend(i) ==
  /\ \/ writer[i] = "open" /\ "abandon" \in Liberties
     \/ writer[i] = "shut" /\ "shutdown_drop" \in Liberties
  /\ writer' = [writer EXCEPT ![i] = "gone"]
  /\ SetAborted(i)
  /\ UNCHANGED <<place, reserved, buffer, toWrite, lease, wvars, rvars, broken>>

-----------------------------------------------------------------------------
(***************************************************************************)
(* The sending driver: Scheduler::start, ready and advance, and the        *)
(* endpoint's handling of what the peer sends back.                        *)
(***************************************************************************)

\* Scheduler::start: the producer may now spend credit.
Start(i) ==
  /\ place[i] = "waiting"
  /\ place' = [place EXCEPT ![i] = "active"]
  /\ UNCHANGED <<sstate, reserved, buffer, toWrite, writer, lease, spool,
                 wvars, rvars, broken>>

\* The payload's last fragment carries TRAILER; the reassembler installs the
\* stream and dispatches the message.
OpenTrailer(i) ==
  /\ place[i] = "active" /\ lease = NoId /\ rlease = NoId
  /\ place' = [place EXCEPT ![i] = "trailer"]
  /\ rstate' = [rstate EXCEPT ![i] = "Idle"]
  /\ UNCHANGED <<sstate, reserved, buffer, toWrite, writer, lease, spool, wvars,
                 remaining, stage, out, pending, reader, rlease, rpool, broken>>

\* advance, SendAction::Fragment: poll_action and SendShared::grant.
GrantSend(i) ==
  /\ lease = NoId /\ place[i] = "trailer"
  /\ sstate[i] \in {"Demand", "Fragment", "FragmentDemand", "FragmentFinish"}
  /\ lease' = i
  /\ sstate' = [sstate EXCEPT ![i] = IF buffer[i] = 0 THEN "Granted" ELSE @]
  /\ UNCHANGED <<place, reserved, buffer, toWrite, writer, spool,
                 wvars, rvars, broken>>

\* wait_fragment: the writer did not show up in its grace turn.
GraceExpired(i) ==
  /\ lease = i /\ sstate[i] = "Granted"
  /\ sstate' = [sstate EXCEPT ![i] = "Staging"]
  /\ UNCHANGED <<place, reserved, buffer, toWrite, writer, lease, spool,
                 wvars, rvars, broken>>

\* SendLease::complete
Completed(state) ==
  CASE state \in {"Fragment", "FragmentDemand"} -> "Idle"
    [] state = "FragmentFinish" -> "Finish"
    [] OTHER -> state

\* The message leaves the scheduler behind its terminal fragment.
Conclude(i, end) ==
  /\ wend' = [wend EXCEPT ![i] = end]
  /\ place' = [place EXCEPT ![i] = "done"]

\* wait_fragment flushes what is staged, the lease completes, and advance
\* goes on with the action that was reported: requeue the message, or send
\* its terminal fragment.
SendFragment(i) ==
  /\ lease = i /\ sstate[i] \notin {"Granted", "Staging"}
  /\ wire' = [wire EXCEPT ![i] = @ + buffer[i]]
  /\ buffer' = [buffer EXCEPT ![i] = 0]
  /\ lease' = NoId
  /\ sstate' = [sstate EXCEPT ![i] = Completed(@)]
  /\ \/ sstate[i] = "Finish" /\ Conclude(i, "last")
     \/ sstate[i] = "Abort" /\ Conclude(i, "abort")
     \/ sstate[i] \notin {"Finish", "Abort"} /\ UNCHANGED <<wend, place>>
  /\ UNCHANGED <<reserved, toWrite, writer, spool, credits, discards, rvars, broken>>

\* advance without a fragment to send: the terminal commit, or the ABORT of
\* a dropped producer, whose staged bytes never leave.
SendTerminal(i) ==
  /\ lease = NoId
  /\ \/ place[i] = "trailer" /\ sstate[i] = "Finish" /\ Conclude(i, "last")
     \/ place[i] = "trailer" /\ sstate[i] = "Abort" /\ Conclude(i, "abort")
     \/ place[i] = "detached" /\ Conclude(i, "last")
  /\ buffer' = [buffer EXCEPT ![i] = 0]
  /\ UNCHANGED <<sstate, reserved, toWrite, writer, lease, spool, wire, credits,
                 discards, rvars, broken>>

\* Scheduler::try_cancel_active, between two turns of the writer loop.  An
\* ABORT follows only if a fragment of the message has left.
CancelSend(i) ==
  /\ "cancel" \in Liberties
  /\ lease = NoId /\ place[i] # "done"
  /\ \/ place[i] = "detached" /\ UNCHANGED <<sstate, spool>>
     \/ place[i] # "detached" /\ SetAborted(i)
  /\ \/ place[i] \in {"trailer", "detached"} /\ Conclude(i, "abort")
     \/ /\ place[i] \in {"waiting", "active"}
        /\ place' = [place EXCEPT ![i] = "done"]
        /\ UNCHANGED wend
  /\ buffer' = [buffer EXCEPT ![i] = 0]
  /\ UNCHANGED <<reserved, toWrite, writer, lease, wire, credits, discards,
                 rvars, broken>>

\* The reader applies a Credit to the pool.
RecvCredit(i) ==
  /\ \E n \in 1..credits[i] :
       /\ credits' = [credits EXCEPT ![i] = @ - n]
       /\ spool' = Refund(spool, i, n)
  /\ UNCHANGED <<place, sstate, reserved, buffer, toWrite, writer, lease,
                 wire, wend, discards, rvars, broken>>

\* Outgoing::PeerDiscarded settles by message, active or not.
PeerDiscardedPool(i) == Settle(spool, i)

\* Outgoing::PeerDiscarded and Scheduler::discard_active_trailer, between
\* two turns of the writer loop.
PeerDiscarded(i) ==
  /\ discards[i] /\ lease = NoId
  /\ discards' = [discards EXCEPT ![i] = FALSE]
  /\ spool' = PeerDiscardedPool(i)
  /\ \/ /\ place[i] = "trailer"
        /\ sstate' = [sstate EXCEPT ![i] = IF @ \in {"Finish", "FragmentFinish"}
                                           THEN @ ELSE "Abort"]
        /\ place' = [place EXCEPT ![i] = "detached"]
        /\ buffer' = [buffer EXCEPT ![i] = 0]
     \/ place[i] # "trailer" /\ UNCHANGED <<sstate, place, buffer>>
  /\ UNCHANGED <<reserved, toWrite, writer, lease, wire, wend, credits,
                 rvars, broken>>

-----------------------------------------------------------------------------
(***************************************************************************)
(* The receiving driver: Reassembler::accept and RecvShared.               *)
(***************************************************************************)

\* A receiver that charges the bytes of a trailer it has settled.
ChargeAlways(i) == TRUE

\* A discarded trailer's bytes are sunk as they arrive and never charged.
Charged(i) == rstate[i] # "Discard"

\* accept_bytes and RecvShared::grant.
AcceptFragment(i) ==
  /\ rlease = NoId /\ ~broken
  /\ \E n \in 1..Lesser(wire[i], MaxFragment) :
       /\ Charged(i) => Fits(rpool, n)
       /\ wire' = [wire EXCEPT ![i] = @ - n]
       /\ remaining' = [remaining EXCEPT ![i] = n]
       /\ rpool' = IF Charged(i) THEN AcceptBytes(rpool, i, n) ELSE rpool
       /\ LET threshold == IF rstate[i] = "Demand" THEN RecvDemandCopyThreshold
                                                   ELSE RecvCopyThreshold
          IN  rstate' = [rstate EXCEPT ![i] =
                           CASE @ = "Discard" -> "Discard"
                             [] @ # "Discard" /\ n <= threshold -> "Draining"
                             [] OTHER -> "Unclaimed"]
  /\ rlease' = i
  /\ UNCHANGED <<svars, wend, credits, discards, stage, out, pending, reader, broken>>

\* accept_bytes refuses the fragment, which is fatal for the connection.
Overrun(i) ==
  /\ rlease = NoId /\ ~broken /\ Charged(i)
  /\ \E n \in 1..Lesser(wire[i], MaxFragment) : ~Fits(rpool, n)
  /\ broken' = TRUE
  /\ UNCHANGED <<svars, wvars, rvars>>

\* A driver that leaves every fragment to the consumer.
NeverTakeOver(i) == FALSE /\ UNCHANGED vars

\* wait_fragment: the consumer did not claim the fragment in its grace turn.
TakeOver(i) ==
  /\ rlease = i /\ rstate[i] = "Unclaimed"
  /\ rstate' = [rstate EXCEPT ![i] = "Draining"]
  /\ UNCHANGED <<svars, wvars, remaining, stage, out, pending, reader, rlease,
                 rpool, broken>>

\* wait_fragment: the driver reads, into the stage or into nothing.
DriverRead(i) ==
  /\ rlease = i /\ rstate[i] \in {"Draining", "Discard"}
  /\ \E n \in 1..remaining[i] :
       /\ remaining' = [remaining EXCEPT ![i] = @ - n]
       /\ stage' = [stage EXCEPT ![i] = IF Charged(i) THEN @ + n ELSE @]
       /\ rstate' = [rstate EXCEPT ![i] =
                       IF @ = "Draining" /\ n = remaining[i] THEN "Fragment" ELSE @]
  /\ UNCHANGED <<svars, wvars, out, pending, reader, rlease, rpool, broken>>

\* RecvLease::complete
CompleteRecv(i) ==
  /\ rlease = i
  /\ \/ rstate[i] \in {"Fragment", "FragmentDemand"}
     \/ rstate[i] = "Discard" /\ remaining[i] = 0
  /\ rlease' = NoId
  /\ rstate' = [rstate EXCEPT ![i] = CASE @ = "Fragment" -> "Idle"
                                       [] @ = "FragmentDemand" -> "Demand"
                                       [] OTHER -> @]
  /\ UNCHANGED <<svars, wvars, remaining, stage, out, pending, reader, rpool, broken>>

\* flush: everything pending goes back to the pool and out as a Credit.
Flush(i, amount) ==
  /\ pending' = [pending EXCEPT ![i] = 0]
  /\ rpool' = Refund(rpool, i, amount)
  /\ credits' = [credits EXCEPT ![i] = @ + amount]

\* The end of a trailer that throws its coalesced credit away.
FinishDropsPending(i) ==
  pending' = [pending EXCEPT ![i] = 0] /\ UNCHANGED <<rpool, credits>>

\* RecvShared::finish flushes through the Eof path of retire.
FinishFlush(i) == Flush(i, pending[i])

\* The terminal commit: Reassembler::accept and RecvShared::finish.
RecvLast(i) ==
  /\ rlease = NoId /\ ~broken /\ wire[i] = 0 /\ wend[i] = "last"
  /\ wend' = [wend EXCEPT ![i] = "done"]
  /\ rstate' = [rstate EXCEPT ![i] = "Eof"]
  /\ FinishFlush(i)
  /\ UNCHANGED <<svars, wire, discards, remaining, stage, out, reader, rlease, broken>>

\* An ABORT fragment: Reassembler::accept and RecvShared::fail.
RecvAbort(i) ==
  /\ rlease = NoId /\ ~broken /\ wire[i] = 0 /\ wend[i] = "abort"
  /\ wend' = [wend EXCEPT ![i] = "done"]
  /\ rstate' = [rstate EXCEPT ![i] = "Failed"]
  /\ UNCHANGED <<svars, wire, credits, discards, remaining, stage, out, pending,
                 reader, rlease, rpool, broken>>

-----------------------------------------------------------------------------
(***************************************************************************)
(* The consumer: TrailerRecv.                                              *)
(***************************************************************************)

\* An automatic trailer retires what poll_read delivered before the call
\* returns, under a second lock; until then the consumer does nothing else.
Between(i) == reader[i] /\ (out[i] = 0 \/ i \in Manual)

\* poll_read: staged bytes first, whatever the state.
ReadStage(i) ==
  /\ Between(i)
  /\ \E n \in 1..stage[i] :
       /\ stage' = [stage EXCEPT ![i] = @ - n]
       /\ out' = [out EXCEPT ![i] = @ + n]
  /\ UNCHANGED <<svars, wvars, rstate, remaining, pending, reader, rlease, rpool, broken>>

\* poll_read of a fragment that is still on the transport.
ReadDirect(i) ==
  /\ Between(i) /\ stage[i] = 0 /\ rstate[i] \in {"Reading", "Unclaimed"}
  /\ \E n \in 1..remaining[i] :
       /\ remaining' = [remaining EXCEPT ![i] = @ - n]
       /\ out' = [out EXCEPT ![i] = @ + n]
       /\ rstate' = [rstate EXCEPT ![i] = IF n = remaining[i] THEN "Fragment"
                                                              ELSE "Draining"]
  /\ UNCHANGED <<svars, wvars, stage, pending, reader, rlease, rpool, broken>>

\* The same, with no byte ready: the consumer is trusted to come back.
ReadDirectPending(i) ==
  /\ Between(i) /\ stage[i] = 0 /\ rstate[i] = "Unclaimed"
  /\ rstate' = [rstate EXCEPT ![i] = "Reading"]
  /\ UNCHANGED <<svars, wvars, remaining, stage, out, pending, reader, rlease,
                 rpool, broken>>

\* poll_read with nothing to deliver: the consumer waits, and gives back
\* whatever it had retired.
ReadDemand(i) ==
  /\ Between(i) /\ stage[i] = 0 /\ rstate[i] \in {"Idle", "Fragment"}
  /\ rstate' = [rstate EXCEPT ![i] = IF @ = "Idle" THEN "Demand" ELSE "FragmentDemand"]
  /\ Flush(i, pending[i])
  /\ UNCHANGED <<svars, wire, wend, discards, remaining, stage, out, reader,
                 rlease, broken>>

IsStalled(i) == rstate[i] \in {"Demand", "FragmentDemand"} /\ stage[i] = 0

MustFlush(i) == rstate[i] = "Eof" \/ IsExhausted(rpool) \/ IsStalled(i)

\* retire: n bytes are done with; coalesce below half a credit interval.
Retire(i, n) ==
  /\ out' = [out EXCEPT ![i] = @ - n]
  /\ LET held == pending[i] + n
     IN  \/ held * 2 < CreditInterval /\ ~MustFlush(i)
            /\ pending' = [pending EXCEPT ![i] = held]
            /\ UNCHANGED <<rpool, credits>>
         \/ ~(held * 2 < CreditInterval /\ ~MustFlush(i)) /\ Flush(i, held)

\* retire_and_emit of an automatic trailer, release of a manual one.
RetireDelivered(i) ==
  /\ reader[i]
  /\ \/ i \notin Manual /\ out[i] > 0 /\ Retire(i, out[i])
     \/ i \in Manual /\ \E n \in 1..out[i] : Retire(i, n)
  /\ UNCHANGED <<svars, wire, wend, discards, rstate, remaining, stage, reader,
                 rlease, broken>>

\* Only a trailer that has ended has nothing to stop.
Notify(i) == rstate[i] # "Eof"

\* Drop for TrailerRecv: RecvShared::discard.  What is left in the stage can
\* no longer be read.
DropRecv(i) ==
  /\ Between(i) /\ rstate[i] # "None"
  /\ rstate[i] \notin {"Eof", "Failed"} => "drop_early" \in Liberties
  /\ rstate[i] = "Eof" /\ stage[i] + out[i] > 0 => "drop_ended" \in Liberties
  /\ reader' = [reader EXCEPT ![i] = FALSE]
  /\ rstate' = [rstate EXCEPT ![i] = IF @ \in {"Eof", "Failed"} THEN @ ELSE "Discard"]
  /\ discards' = [discards EXCEPT ![i] = Notify(i)]
  /\ rpool' = Settle(rpool, i)
  /\ pending' = [pending EXCEPT ![i] = 0]
  /\ stage' = [stage EXCEPT ![i] = 0]
  /\ out' = [out EXCEPT ![i] = 0]
  /\ UNCHANGED <<svars, wire, wend, credits, remaining, rlease, broken>>

-----------------------------------------------------------------------------
Producer(i) ==
  \/ PollWriteIdle(i) \/ PollWriteBehind(i) \/ PollWriteLeased(i)
  \/ PollWriteBlocked(i) \/ Finish(i) \/ DropSend(i)

Writer(i) ==
  \/ Start(i) \/ OpenTrailer(i) \/ GrantSend(i) \/ GraceExpired(i)
  \/ SendFragment(i) \/ SendTerminal(i) \/ CancelSend(i)
  \/ RecvCredit(i) \/ PeerDiscarded(i)

Receiver(i) ==
  \/ AcceptFragment(i) \/ Overrun(i) \/ TakeOver(i) \/ DriverRead(i)
  \/ CompleteRecv(i) \/ RecvLast(i) \/ RecvAbort(i)

Consumer(i) ==
  \/ ReadStage(i) \/ ReadDirect(i) \/ ReadDirectPending(i) \/ ReadDemand(i)
  \/ RetireDelivered(i) \/ DropRecv(i)

\* Every trailer has run its course, or the connection is gone.
Over(i) ==
  /\ place[i] = "done" /\ writer[i] = "gone"
  /\ credits[i] = 0 /\ ~discards[i]
  /\ rstate[i] = "None" \/ (rstate[i] \in {"Eof", "Failed"} /\ ~reader[i])

Ended == (broken \/ \A i \in Ids : Over(i)) /\ UNCHANGED vars

Next ==
  \/ \E i \in Ids : Producer(i) \/ Writer(i) \/ Receiver(i) \/ Consumer(i)
  \/ Ended

Spec == Init /\ [][Next]_vars

(***************************************************************************)
(* The two drivers are tasks of their own and are always polled.  A        *)
(* producer comes back for the transport it asked for and finishes its     *)
(* trailer; a consumer keeps reading, except for the ones that may stop:   *)
(* those come back only when a read of the transport is pending, and with  *)
(* stop_mid_read not even then.                                            *)
(***************************************************************************)
Returns(i) ==
  IF i \notin Stoppable THEN Consumer(i)
  ELSE /\ "stop_mid_read" \notin Liberties
       /\ rstate[i] = "Reading"
       /\ ReadDirect(i)

Fairness ==
  \A i \in Ids : /\ WF_vars(Producer(i)) /\ WF_vars(Writer(i))
                 /\ WF_vars(Receiver(i)) /\ WF_vars(Returns(i))

FairSpec == Spec /\ Fairness

-----------------------------------------------------------------------------
(***************************************************************************)
(* Safety.                                                                 *)
(***************************************************************************)

\* A sender that spends only its own copy of the pool never makes the
\* receiver refuse a fragment: the two copies of the pool may disagree, but
\* only in the safe direction (RecvShared::accept_bytes).
NoOverrun == ~broken

\* Whatever order debits, credits, discards and aborts come in, no byte of
\* either copy of the pool is created or lost: a Credit that crosses an abort
\* or a Discard is not refunded twice (SessionWindow::refund and settle).
PoolsConserved == Conserved(spool, Window) /\ Conserved(rpool, Window)

\* While its handle is alive, what a trailer owes the receiver's pool is
\* exactly the bytes the receiver holds for it: on the transport, staged,
\* delivered but not retired, or retired but not yet credited.
ReceiverOwesWhatItHolds ==
  \A i \in Ids : reader[i] =>
    rpool.debt[i] = remaining[i] + stage[i] + out[i] + pending[i]

\* The one writer task never waits for credit while it holds the transport:
\* a trailer with a lease and nothing staged has its reservation in hand
\* (RESERVED_HELD in trailer.rs).
LeaseHoldsCredit ==
  \A i \in Ids : sstate[i] \in {"Granted", "Staging"} =>
    lease = i /\ reserved[i] > 0 /\ reserved[i] <= spool.debt[i]

\* Once a trailer is over and nothing of it is under way any more, it owes
\* the sender's pool nothing: no credit is stranded for the life of the
\* connection (RecvShared::finish, RecvShared::discard).
NoStrandedCredit ==
  \A i \in Ids : Over(i) => spool.debt[i] = 0 /\ rpool.debt[i] = 0

(***************************************************************************)
(* Liveness.                                                               *)
(***************************************************************************)

\* A consumer that stops reading holds up nobody else: the driver drains its
\* fragments for it, and as long as the pool has room for the others their
\* trailers are sent, read and credited to the end
\* (RecvShared::wait_fragment).
OthersFinish == \A i \in Ids \ Stoppable : <>Over(i)
=============================================================================
