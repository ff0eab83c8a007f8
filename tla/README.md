# TLA+ models of dolang's concurrent core

This directory holds TLA+ models of the parts of dolang in which several actors
work on shared state, the TLC configurations that check them on small instances,
and TLAPS proofs for all instances. The repository's own documentation of the
largest of these parts is `dolang-rpc/ARCHITECTURE.md`.

    tlc -workers 2 -config TrailerFlow_safety.cfg MCTrailerFlow
    tlapm TrailerFlowProofs.tla

## Inventory

dolang is a shell-oriented language: a compiler to bytecode (`dolang-compile`,
`dolang-bytecode`), a virtual machine (`dolang-runtime`), extension crates
(`dolang-ext-*`), a language server, and a virtual file system (`dolang-vfs`)
that a script may drive on another machine or in another container. The last one
works over `dolang-rpc`: an asynchronous, multiplexed, flow-controlled RPC
protocol with native-handle passing. Most of the repository is sequential and
covered by the regression tests of the language. Three parts are not:

- `dolang-rpc`: two peers, two tasks on each (a reader and a writer), application
  futures that may be dropped at any await, and several ledgers that the two ends
  keep in step by messages;
- the runtime's strands, which wait for each other in resources and channels, may
  be cancelled wherever they wait, and, when the garbage collector has found them
  orphaned and cancelled them, unwind through what it found dead with them;
- the shell's pipes, whose two ends change at their own awaits between passing
  values and being the ends of a real pipe that a program has.

They are what these models are about.

| component | state it keeps | operations | what is hard | what makes it correct |
|---|---|---|---|---|
| credit pools (`window.rs`) | available bytes, debt per message | debit, refund, settle, accept | refunds that cross settlements; entries that outlive their message | no byte created or lost; refund and settle in any order |
| trailer streams (`trailer.rs`) | per trailer a send and a receive state machine, a reservation, a stage, coalesced credit; per direction a transport lease | write, finish, drop, close; grant, flush, take over; read, release, discard | three parties (application, driver, peer) under several locks; credit returned late or never | a sender that keeps its debits never overruns the receiver; no credit stranded; one slow consumer does not stop the rest |
| call lifecycle (`client.rs`, `server.rs`) | registry of pending calls, call slots, waiting queue; outstanding calls, handler tasks, guards | call, cancel, drop, close, respond, guard, shutdown | a cancellation may meet its call in a dozen places or cross its answer | neither end fails the other; each slot is freed exactly once; each awaited call resolves |
| fragment scheduler and reassembler (`fragment.rs`, `PayloadBudget` in `window.rs`) | messages waiting, in payload or trailer phase, control queue, payload quota, slots | admit, charge, start, promote, advance, cancel, discard; accept, release | order of control and data; quota that is returned by the other half while the task goes to sleep | quota conserved; limits agreed by both ends never exceeded; every message arrives |
| drain (`driver.rs`) | a verdict: running, graceful, abrupt | publish, observe | a writer that waits for credit from a reader that is gone | everything accepted is finished, and the server stops |
| opaque handles (`session.rs`, `handle.rs`, `escrow.rs`) | tables of local and mirrored resources with grant counts; ledgers per message | register, give, cite, release, unregister, commit, rescind | counts at the two ends, releases crossing gifts | a resource lives as long as somebody can name it, and no longer |
| connection set-up (`auth.rs`, `unbound.rs`, `negotiate`) | limits and identity of each end | exchange, clamp | both ends must compute the same limits | symmetric limits |
| transports (`transport/`) | sockets, pipes, descriptors | read, write, pass handles | platform I/O | an ordered reliable stream |
| shell pipes (`dolang-ext-shell`) | mode of the channel, the two ends of a real pipe, buffered value and bytes, wakers | put, next, negotiate, drain, close; launch and exit of programs | ends switch modes at their own awaits | nothing lost or reordered in a switch; every stage ends |
| strand resources and channels (`dolang-runtime`) | active count and line of waiters; queue, wakers of senders and receivers | acquire, enter, leave; send, receive, close; cancel | a strand woken and cancelled before it runs | no permit, wake-up or value lost |
| garbage collector (`gc/`) | strong, weak and trial counts, borrow flags, four lists | clone, drop, borrow, collect, cancel handles, clear | it cancels strands that still unwind through what it found dead | nothing in use cleared, nothing freed twice, garbage goes |
| virtual machine, compiler, language server | frames, trees, tables | instructions, passes | size | language semantics |

How they interact: application futures reach the drivers over unbounded channels
(`Outgoing`) and over the mutexes of `SendShared` and `RecvShared`; the drivers
reach the peer by fragments over one ordered stream per direction; the reader
returns credit to the pools directly, and goes through the writer's channel for
everything else. Strands of one machine run on one thread, by turns; they meet in
resources, channels and pipes, and in the collector, which runs between two of
their turns. `PROJECT.json` lists the components with their sources, and
under `hazards` the lines of code where a test would hardly reach a failure.

## Modules

### SessionWindow

The pool of `window.rs` as pure operators: a record of the available bytes and
the debt of each message. Each operator is one critical section under the pool's
mutex (`debit_up_to`, `refund`, `settle`, `accept_bytes`, `is_exhausted`). The
code's hash map drops zero entries; here every message has a debt. `Total`, in the
module `Totals`, adds up the debts as the size of a set of unit bytes, which needs
no recursion and so can be reasoned about by the prover. `Totals` also counts the
places of a sequence for the modules that add up what is under way.

### TrailerFlow (extends SessionWindow)

All trailers of one direction of a connection. A message may be followed by a
trailer; its producer writes through a `TrailerSend`, its consumer reads from a
`TrailerRecv`. All trailers share one pool at each end.

| variables | code |
|---|---|
| `place` | where the message is in the `Scheduler` |
| `sstate`, `reserved`, `buffer`, `lease` | `SendShared.state`, `.reserved`, `.buffer`, `SendLease` |
| `toWrite`, `writer` | what the producer has left, its `TrailerSend` handle |
| `spool`, `rpool` | `Shared.trailer_session`, and the receiver's pool |
| `wire`, `wend`, `credits`, `discards` | fragments, terminal fragment, `Credit` and `Discard` under way |
| `rstate`, `remaining`, `stage`, `pending`, `rlease` | `RecvShared.state`, `.remaining`, `.stage`, `.pending`, `RecvLease` |
| `out`, `reader` | bytes delivered and not retired, the `TrailerRecv` handle |
| `broken` | the receiver failed the connection: credit window exceeded |

Actions are grouped by who takes them: `Producer` (the arms of `poll_write`,
`finish`, `poll_close`, `Drop`), `Writer` (start, open, grant, grace turn, flush,
terminal fragment, cancel, incoming `Credit` and `Discard`), `Receiver` (accept,
overrun, take over, drain, complete, end, abort) and `Consumer` (the arms of
`poll_read`, retire or release, `Drop`). Everything done under one mutex is one
action; where the code drops the lock and takes it again (deliver, then retire)
there are two.

`Liberties` is a constant that says what the applications may do beyond writing
and reading a trailer to its end: drop a receiver early or after the end, abandon
a sender, close and drop it, cancel the message, finish with a write pending,
stop polling in the middle of a read. Each run names the liberties it needs, so
that a property is stated with exactly the behaviour it survives.

Abstractions: bytes are counted, not carried; a fragment enters the wire whole
and may be cut anew by the receiver; fragments of different messages may overtake
each other, which includes the transport's order; transport errors are left out,
since they end both pools.

### RpcCalls

The calls of one connection from `Client::call` to the resolved `Call`: the
registry and its poisoning, the writer's channel, the waiting queue and call
slots (`active_calls`), the phases of a request and a response in the schedulers
(queued, started, trailer, sent, discarded, aborted), fragments in both
directions (`Begin`, `Head`, `Tail`, `Abort`, and the control fragments `Cancel`
and `Error`), the reassembler's structural checks, the server's admission check,
handler tasks and cancellation guards, refusal of requests during a drain, and
the client's reader. `Events` says what may happen besides calls and answers:
cancel, drop, guard, shutdown, close, loss of the transport.

`Promote` is `promote_waiting`: it runs at the end of every turn of the writer's
loop and so is part of every action that models such a turn. Message payloads are
not carried, and the middle fragments of a payload are left out, since they
change no state. Both ends accept that a message stays queued for as long as
quota and the other messages hold it back: the scheduler's choice is
nondeterministic, and fair where liveness is concerned.

`TrailerFlow` and `RpcCalls` meet in the scheduler: `RpcCalls` knows of a trailer
only its beginning (`Head`), its end (`Tail`) and its abort, and `TrailerFlow` of
a message only that it starts, opens its trailer and is cancelled.

### PayloadQuota (extends SessionWindow)

The messages of one direction, from the send driver's channel to the peer's
application: `Scheduler` and `Reassembler` of `fragment.rs`, `PayloadBudget` and
`PayloadCharge` of `window.rs`, and the loop that drives them. A message is
charged its whole payload before its first fragment and, if it needs several,
holds a slot until its last; the peer charges the same bytes as they arrive and
gives them back as `PayloadCredit` once its application is done.

| variables | code |
|---|---|
| `waiting`, `active`, `control`, `slots` | the `Scheduler` |
| `offset`, `batch`, `started` | `ActiveSend` |
| `budget`, `parked`, `woken`, `writer` | `PayloadBudget`, its waker, and where `SendDriver::run` is |
| `entry`, `pool`, `holding`, `owed` | `Reassembler.incomplete`, `.payload_credit`, live `PayloadCharge`s, credit to send |

`ready` is two actions, since the credit may come between its registration on
the pool and its debit: `PollReady` registers, `Spend` promotes and decides.
Trailers only take their turn here; their bytes are `TrailerFlow`'s.

### ServerDrain and DrainPromise

How a server's connection ends. `DrainPromise` is what the client may rely on: an
accepted call is answered or given up by its handler and never refused, a call is
refused only while the server drains, the server ends only after the client has
left, every call comes to an end, and so does the server. `ServerDrain` has the
code: `RecvDriver` and `SendDriver` of `server.rs`, the `DrainSignal` between
them (`Running`, `Graceful`, `Abrupt`), handler tasks, the quota that responses
wait for, and a client that calls, uploads, closes or vanishes. `Fate` maps the
client's view and the handler's of each call to the states of `DrainPromise`; the
refinement is checked with its liveness part.

### OpaqueSession

One opaque resource (`session.rs`): the owner's entry and the peer's mirror of
it, gifts in responses, citations in requests, releases on their way back, and
the ledgers of messages that are written, cancelled or rescinded. A handle is an
`Arc` that its entry knows by a `Weak`; between the moment its last reference
goes and the moment its `Drop` takes the lock, another message may find it dead
and install a new one. Both moments are actions.

### PipeChannel

The channel between two stages of a pipeline (`pipe_channel.rs`). Each stage is a
sequence of operations: put or take values, read to the end, run a program on
that end of the channel. `ch` is `PipeChannelShared`; every poll that finds the
lock free is one action (`PutTurn`, `NextTurn`, `NegotiateTurn`), and the awaits
in between (writing, reading, opening a pipe, draining, flushing stale bytes) are
actions of their own. Operating system pipes are a bounded queue with a set of
holders at each end; a program holds a duplicate of its end until it exits.

### StrandSync

`strand.resource` (`stdlib/strand.rs`) and `strand.channel`
(`object/channel.rs`). Entrants acquire a permit, may enter again, and leave;
producers put values and consumers take them; strands in `Cancellable` may be
cancelled wherever they wait, which drops the future they wait in. `woken` is the
set of strands whose waker was called and that have not run since. A consumer may
close the receiver while the other one waits; the code wakes only the senders then.

### CycleGc

The collector (`gc/arena.rs`), the references it counts and the strands whose
handles it may find dead. The heap is the set `refs` of strong references, each
with its holder, what it is held as and its target; `strong` and `weak` are the
code's counters, kept separately so that they can go wrong. A collection is the
passes of `collect_full`, item by item: trial counts, subtraction, partition,
spreading of liveness, rescue of what an orphaned strand still uses, and the
sweep, in which each cleared object may release others. Nothing runs beside a
collection; a strand it cancelled goes on until it has unwound, and a collection
may come again before that. `Enter`, `Leave` and `Close` are the life of the machine around it.

`Cleared` is what `Collect::clear` lets go of, which is not all an object holds. A
handle keeps its result. A `Stream` keeps its handle and its iterator and sink
theirs (`object/strand.rs:226`, `256`, `363`), the iterators over tuples, records,
arrays, dicts and sets what they iterate over, a channel's sender its receiver, and
modules, classes and instances what they were made from ("GC cannot safely clear
annexes", `class.rs:709`). Such a reference is held as `"root"`: a node has it from
the moment it is made (`New`), loses it when it is released, and in between nobody
changes it, so that roots lead from younger nodes to older ones and make no cycle
of nodes alone.

### MC modules

Instances for TLC: the sets of messages, calls, stages and objects, and the sets
of liberties and events the configurations choose from.

### Proof modules

`TrailerFlowProofs`, `RpcCallsProofs`, `PayloadQuotaProofs`, `ServerDrainProofs`,
`OpaqueSessionProofs`, `PipeChannelProofs`, `StrandSyncProofs` and `CycleGcProofs`,
each about the module it is named after. See "Proofs" below.

## Runs

| run | shows | states |
|---|---|---|
| `trailers_safety` | with consumers that drop their handle at any time, and one in manual-credit mode: no overrun (`NoOverrun`), the writer never waits for credit with the transport in hand (`LeaseHoldsCredit`), no credit is left behind by a trailer that is over (`NoStrandedCredit`) | 0.66 M |
| `trailers_anything` | with every liberty taken: both pools account for every byte (`PoolsConserved`), the receiver's for exactly the bytes it holds (`ReceiverOwesWhatItHolds`) | 2.5 M |
| `trailers_live` | one consumer stops for good, the other trailer still finishes (`OthersFinish`) | 0.19 M |
| `trailers_abandon` | expects a violation of `NoOverrun`, see below | |
| `calls_safety` | two calls, one slot, trailers both ways, a request that may not encode, cancel, drop, guard and shutdown anywhere: neither end fails the other (`PeersConform`), each slot has exactly one place that will free it (`OneHolderPerSlot`), whoever waits has something to wait for (`PendingIsUnderWay`) | 1.2 M |
| `calls_live` | every awaited call resolves through cancel, shutdown, close and loss of the link, unless a response is thrown away unsent (`CallsResolveUnlessDiscarded`) | 0.14 M |
| `quota` | no byte of the quota lost or made twice (`QuotaConserved`), the peer never refuses (`PeersConform`), the driver never sleeps through its credit (`NoLostWakeup`), every message arrives (`EveryMessageArrives`) | 84 k |
| `drain` | `ServerDrain` implements `DrainPromise` (`KeepsPromise`), each call waited for is at one place (`EveryCallIsHeldOnce`), a sealed drain has no handler left (`SealedMeansAnswered`) | 119 k |
| `opaque` | the two ends' counts balance with what is under way (`GrantsBalance`), citations find their entry (`CitationsResolve`), live handles keep their entry and their grants (`HandlesKeepTheirEntries`), nothing is left behind (`NothingLeaks`) | 1.1 M |
| `shell_pipe` | no panic (`NoPanic`), items in order and none lost across mode changes (`InOrder`, `NothingLost`), every stage ends (`StagesEnd`) | 33 k |
| `strands` | permits counted exactly (`PermitsConserved`), the line holds who waits and nobody else (`WaitersAreWaiting`), no wake-up lost (`NoLostPermit`, `NoStuckWaiter`), order (`TakenInOrder`), everyone ends (`EveryoneEnds`) | 295 k |
| `gc` | counts exact (`CountsAreExact`), no use after free (`NothingDangles`), nothing in use loses a reference to a collection (`KeepsWhatIsInUse`), no borrowed object is swept (`NoClearIsDeferred`), only orphans are cancelled (`CancelsOnlyOrphans`), garbage goes (`GarbageGoes`), closing leaves only what a strand's result leads to (`CloseLeavesOnlyResults`) | 1.8 M |

`TypeOK` is a property of the runs about trailers and calls. The other modules
state one too; it is proved for every module, and the runs list the properties
that say more.

`trailers_abandon` shows a disagreement between the code and its comments.
Producer `a` sends its bytes and drops the `TrailerSend`. `set_aborted` settles
the debt at once, `b` spends the same bytes again, and the receiver, which still
holds `a`'s, refuses `b`'s fragment and fails the connection, which
`trailer.rs:862` says a well-behaved peer never brings about.

### Disagreements met on the way

Each of these was found by changing a constant of a run, or adding a property,
as given; none has a run of its own.

| what happens | shown by |
|---|---|
| A `TrailerSend` that was shut down, which commits its trailer, and then dropped runs the abandon path: `poll_close` leaves the completion in place. The rest is as in `trailers_abandon`. `server.rs:992`: "asynchronously shut down the returned writer, to commit the trailer". | `trailers_safety`, `Liberties <- ShutdownDrop`: `NoOverrun` |
| A consumer drops a trailer that has ended with bytes staged or unreleased: its own pool is settled, the sender is never credited. `trailer.rs:1181`: "rather than stranding it for the life of the connection". | `trailers_safety`, `Liberties <- DropEnded`: `NoStrandedCredit` |
| A consumer polls a read, gets `Pending` from the transport and never comes back; the receiver loop waits for it in `Reading`. `trailer.rs:1006`: "forward progress independent of whether (or how promptly) the consumer polls". | `trailers_live`, `Liberties <- StopMidRead`: `OthersFinish` |
| `finish` with a large write pending (state `Demand`) leaves the reservation of that write in the pool. | reading `trailer.rs:342` |
| A `Cancel` finds the response in the server's scheduler, unstarted, and removes it; nothing is sent, and the call and its slot wait for ever. `ARCHITECTURE.md:942`: "the request receives its normal `Response`". | `calls_live`, `Events <- Cancelling`: `CallsResolve` |
| Dropping an unfinished request trailer sends two `Cancel`s; the guard takes the first, the second aborts the handler in its clean-up. `ARCHITECTURE.md:936`: "The handler then decides how to clean up and what response to send". | `calls_safety`, `Events <- Dropping`: `GuardedHandlerDecides` |
| A message in its trailer phase keeps its slot, so that as many open pipes as there are slots keep every message of several fragments out. The documentation of trailers says that open pipes are bounded by credit and not by `max_concurrent_calls`. | `quota`, `SPECIFICATION OpenSpec`: `OpenPipesKeepNothingOut` |
| A message with an empty payload and an idle trailer producer is not sent before the producer acts. | `quota`: `CanMove` |
| The client vanishes in the middle of an upload: the receive driver ends with its transport and waits for handlers, one of which waits for trailer bytes; `serve` does not return. | `drain`, `Vanish = "anytime"`: `KeepsPromise` |
| Two programs in a row upstream of a program: `send_done` has given the end away in `Direct`, and the second negotiation unwraps it (`pipe_channel.rs:720`). Line 155: "Sequential *writers* upstream are well defined and preserved by `Draining`". | `shell_pipe`, `Stages <- SequentialWriters`: `NoPanic`; where the program downstream has already ended with the first one, what the second writes is lost: `NothingLost` |
| A program started upstream after the downstream stage has closed in `Value` gets a pipe nobody reads, and writes until it is full. | `shell_pipe`, stages with a late run against `<<"head">>`: `StagesEnd` |
| A strand cancelled while it waits in a channel leaves its waker in the queue; the next wake-up is spent on it, and another waiting strand sleeps on. | `strands`, `Visitors <- NoneOf`, `Producers <- OneProducer`, `Cancellable <- OneConsumer`, `Limit = 1`, `Capacity = 1`, `CloseRecv = FALSE`: `NoStuckWaiter` |
| `Receiver.close` (`object/channel.rs:273`) wakes the senders, not another receiver that waits in `next`: it sleeps until the sender is closed, for ever if the program never does that. | `strands`, `INVARIANT CloseReachesReceivers`; `EveryoneEnds` holds because the program closes the sender in the end |
| `Handle::clear` (`object/strand.rs:75`) lets go of the strand and not of its result: a result that leads back to its own handle outlives every collection. Where the way back passes a reference that `clear` keeps, as that of a `Stream` that its own strand returns, the node is left with the handle after `ArenaInner::clear` too, which is why `CloseLeavesOnlyResults` excepts what results lead to. `gc/mod.rs:39` asks of `clear` "to visit/zero all strongly-referenced GC objects". | `gc`, `INVARIANT EnterLeavesNoGarbage` |
| `Session::release` upgrades the handle's `Weak` under the table's lock to see whether it is alive; should every other reference go meanwhile, that temporary is the last one, and its `Drop` takes the lock it is under. | reading `session.rs:595` |

### Bounds

Trailers: two of two bytes, a window of two (three in the liveness run), a
fragment limit of two, copy thresholds that put one-byte fragments on the copying
path and two-byte fragments on the granting path. The window is as small as one
trailer, so that the pool runs out, reservations are cut short and two trailers
compete for every byte; the credit interval is four times the window, so that
coalescing always holds credit back until something forces it out. In the
liveness run the receive thresholds are zero, so that every fragment goes through
the claim of the consumer. The theorems below lift what can be proved from these
bounds.

Calls: two and one slot make every reuse of a slot happen; one of the requests
does not encode. Each call may be cancelled once, as in the code.

Quota: three messages of four bytes in all against a quota of two and one slot,
so that messages wait for bytes, for the slot and for each other; one needs two
fragments and two batches of handles, one has a trailer.

Drain: three calls, one of which stops the server and one of which uploads, with
a quota of one response, so that an answer waits for the client's credit during
the drain.

Opaque: counts stop at 3 in place of 2^32 - 1 and the release threshold, with four
gifts, so that both are passed; two citations may use, acquire or unregister.

Pipe: every upstream stage of up to four operations against seven downstream
stages, two items per operation, a pipe and a buffer of two. The combinations
left out are the two in the table above.

Strands: a visitor that may be cancelled and enter twice, two producers and two
consumers; limit and capacity two, two rounds.

Collector: two nodes with one field, two strands, five references at once. Every
cycle through nodes, handles, stacks and results fits; two strands let one orphan
be reached from another.

Deadlock is checked in the runs about trailers and calls: `Ended` and `AtRest`
let a system stop that has nothing left to do, and only then. The other systems
come to an end; in which state they may is said by their liveness properties, and
in `OpaqueSession` and `CycleGc` by `NothingLeaks` and
`CloseLeavesOnlyResults`.

### Fairness

Reader and writer are tasks of their own at both ends, polled as long as the
connection lives: their actions are weakly fair. In `TrailerFlow` a producer
comes back for a transport it asked for and finishes its trailer, and a consumer
goes on reading. Those in `Stoppable` need not; they only come back for a read
that is already pending, and with `stop_mid_read` not even then. In `RpcCalls`
the scheduler serves each message in turn (a round robin in the code), a handler
that can answer infinitely often eventually does (strong fairness, since it may
enter a guard again and again), and a started call is queued. Nothing obliges an
application to cancel, drop or close.

In `PayloadQuota` the driver's and the peer's steps are weakly fair, producers
end their trailers (not in `OpenSpec`) and the peer's application finishes its
calls: `max_outstanding_payload` promises nothing to an application that keeps
them. In `ServerDrain` the arms of the writer's `select` are strongly fair, since
`select` polls all of its arms in each turn; handlers answer, and a client that
waits for nothing more closes. In `StrandSync` the event loop polls every strand
that can run, strands inside a resource leave it, and a program whose producers
are done closes the sender, as one that iterates over the channel has to. In
`PipeChannel` one weak fairness of the whole is enough, since no behaviour is
infinite.

## Proofs

Everything below is checked by `tlapm` from nothing, for every value of the
constants that the assumptions named in each module allow: any finite sets of
messages, calls, strands and objects, any sizes and limits (positive where
negotiation makes them so). No theorem assumes anything else, except the four
whose assumption is stated with them, each of which is needed, as a line of the
table above shows, and four about `PipeChannel`, which name the stages they are
about. The inductive invariants were checked with TLC on the
instances of the runs before they were proved.

A run's property is seldom inductive. What has to be added, and why, is the
substance of each proof:

Sums and pools come up in several modules. `Total` is monotone and changes by as
much as one entry does; `ChargeFacts`, `DebitFacts`, `RefundFacts` and `SettleFacts`
(`TrailerFlowProofs`) show that every operation leaves a conserved pool within its
bounds. No induction over the messages is needed, because a sum is the size of a
set. Further lemmas say the same of queues: what appending to a sequence, taking
its head and changing one place do to a sum. Each proof module states the ones it
uses.

**`TrailerFlowProofs`** (`IdsAssumption`, `SizesAssumption`, `ModesAssumption`)

- `TypeCorrect`: `Spec => []TypeOK`, and `PoolsAreConserved`: `Spec =>
  []PoolsConserved`. The types alone are not inductive: that a pool stays within
  `0..Window` after a refund follows from conservation, and so `TypeInv` is both
  together. Neither depends on what the applications do.
- `ReceiverAccountsAreExact`: `Spec => []ReceiverOwesWhatItHolds`, again for all
  liberties. The strengthening `RecvInv` adds what makes a flush return exactly
  its amount and a fragment start with nothing left over: a dropped trailer owes
  nothing and is discarded or ended (`DroppedOwesNothing`); bytes of a fragment
  remain only under its lease (`FragmentHasLease`); nothing arrives before a
  trailer opens or after it ends (`OpensThenEnds`); only a dropped trailer is
  discarded (`DiscardMeansDropped`).
- `WindowIsNeverExceeded`: if none of the aborting liberties is taken
  (`NoAborts`), `Spec => []NoOverrun`. The invariant that makes it so is
  `DebitCovers`: what the sender was debited for a live trailer covers the
  receiver's debt, the credit on its way back, the bytes on the wire, the staged
  fragment and the reservation. If a fragment did not fit, the receiver's debts
  with the fragment added would still be below the sender's, trailer by trailer,
  and their total within the window: a contradiction. The assumption is needed, as
  `trailers_abandon` and the same run with `ShutdownDrop` show.
- `LeasesComeWithCredit`: `Spec => []LeaseHoldsCredit`, for all liberties. `SendInv`
  says who owns the transport and what it was given with it: the lease belongs to
  a trailer that is granted, a demand has its reservation, a trailer its producer
  has let go of is closed, and what is reserved is covered by the debit.
- `NoCreditIsStranded`: `Spec => []NoStrandedCredit`, if no consumer drops a trailer
  that has ended and no producer finishes with a write pending (`NoLeftovers`).
  `StrandInv` follows the last bytes of a trailer to the credit that settles them.
  Both excluded liberties leave credit behind; the table has a line for each.

**`RpcCallsProofs`** (`CallsAssumption`: finitely many calls; `LimitAssumption`,
`KindsAssumption`), for any number of slots, any of the calls with trailers and
any `Events`

The invariant `CallInv` is built in four layers, each inductive with those before
it; from the second on, nothing is said of a connection that is lost.

- `CallTypes`: `Spec => []TypeOK`, and `WaitersAreUnderWay`: `Spec =>
  []PendingIsUnderWay`. `BaseInv` adds `AskedOnce` to the types: a request passes the
  channel and the waiting queue once, before it is scheduled, so that `Promote`,
  which may start several calls in one step, never takes a slot twice.
- `RequestInv` and the first part of `HeldInv` describe the fragments under way in
  each direction, what has been sent followed by what the control queue will send
  first: in order and none twice (`InOrder`), with the right first one (`Marked`),
  continuing what the reassembler has (`Continues`) and leaving what the scheduler
  will continue (`Leads`). A step appends, takes or aborts, and there is one lemma
  for each, used for requests and for responses.
- `SlotsHeldOnce`: `Spec => []OneHolderPerSlot`. The property alone is not inductive:
  it says nothing of calls without a slot, and an abort that ends a call cannot
  be told from one that ends a trailer. `HeldOnce` counts the eight places a call
  can be in and equates the count with having a slot and a response that was not
  discarded, for every call; `Dispatched` adds that nothing is answered before it
  was asked and that no call arrives while its handler runs.
- `PeersAgree`: `Spec => []PeersConform`. What the server counts when a fragment
  arrives is not what the client counted when it sent it. `AdmitInv` therefore
  speaks of every place of the way up: the calls handed out or arriving once all
  fragments before it have been taken, with its own, are at most `MaxCalls`. That
  holds when a fragment is sent, since all of them have slots then
  (`CountedHaveSlots`), and stays true when fragments are taken and answers given.
  An ABORT before the next request on the same way is what makes the early reuse
  of a slot sound.
- `PlainHandlersDecide`: an action property. A handler whose guard intercepted the
  cancellation of a call without a request trailer is not aborted afterwards:
  its one `Cancel` is in the channel or on its way, and has gone when the handler
  has been told (`CancelledOnce`). `GuardsHoldWithoutTrailers` concludes `Spec =>
  GuardedHandlerDecides` when no call has one; the table shows what happens to
  calls that have.

**`PayloadQuotaProofs`** (`MsgsAssumption`, `LimitsAssumption`: no payload exceeds the
quota, since an encoder refuses it)

- `QuotaTypes`, `QuotaIsConserved`, `PeerNeverRefuses`: `Spec => []TypeOK`, `Spec =>
  []QuotaConserved`, `Spec => []PeersConform`, from one invariant `FlowInv`. That the
  budget never exceeds the quota follows from the balance of all the bytes, so
  types and balance are proved together; `QuotaBalance` states that balance with
  the charges as a sum over the set of active messages, which does not depend on
  their order. `Sound` says that the queues hold each send once and that a slot is
  taken for each active send of several fragments, `SentOnce` that a message
  passes the application, the channel and the queues once, `Progress` how far each
  send is.
  That the peer never refuses cannot be seen from its present state: a fragment
  is judged when it arrives. `WireInv` therefore speaks of every place of the wire:
  the fragments of a message come first to last and none follow a closing one
  (`WireOrder`); what the peer knows, followed by what is on the wire, agrees with
  the scheduler (`WireMatches`); and wherever the wire is cut, the messages
  begun and not complete at the cut are within the peer's bound
  (`IncompleteBound`), since each of them holds a slot or its abort is queued.
- `NoWakeupIsLost`: `Spec => []NoLostWakeup`. `WakeInv` is the argument for
  registering before spending: a driver that has registered and has messages
  waiting is parked or already woken, and one that sleeps unwoken has left the head
  of the queue only because neither quota nor slots admit it.

**`ServerDrainProofs`** (`CallsAssumption`, `QuotaAssumption`, `VanishAssumption`)

- `DrainTypes`, `SealedDrainOwesNothing`, `NoCallIsLost`: `Spec => []TypeOK`, `Spec =>
  []SealedMeansAnswered`, `Spec => []EveryCallIsHeldOnce`. `DrainInv` adds that a call
  is asked and answered at most once (`AskedOnce`, `AnswersFit`), that nothing is
  running or under way that the client did not ask (`AskedFor`), that the responses
  under way fit the quota (`QuotaBound`), and what each state of the drain signal
  excludes (`Drained`, `RunningIsOpen`).
- `ServeKeepsItsPromise`: `Spec => Promise!Init /\ [][Promise!Next]_(Promise!vars)`, the
  safety half of the refinement of `DrainPromise`. `FateCases` gives the fate of a
  call in each place it can be, and `PromiseStep` has one step per action: it is a
  step of the promise for the one call it is about, or leaves every fate alone.
  The other half of `KeepsPromise` is liveness and stays with TLC.

**`OpaqueSessionProofs`** (`GiftsAssumption`, `CountsAssumption`)

- `SessionTypes`, `GrantsStayBalanced`, `CitationsAlwaysResolve`,
  `LivingHandlesHaveEntries`, `ResourcesDoNotLeak`: `Spec => []TypeOK` and the four
  properties of the run, all from `SessionInv`. None of the four is inductive
  alone: a citation resolves because its entry stays while grants are out
  (`EntryStays`), the grants are out because each citation under way is backed by
  one the peer has not yet given back (`CitesAreBacked`, place by place along the
  wire), and the peer's count is known because gifts and releases balance
  (`GrantsBalance`). The balance breaks for good once a count has saturated; the
  theorems say what is left then, as the properties do.

**`StrandSyncProofs`** (`StrandsAssumption`, `LimitAssumption`, `SizesAssumption`)

- `TypeCorrect`, `PermitsAreConserved`, `LineIsExact`, `NoPermitIsLost`: `Spec =>
  []TypeOK`, `PermitsConserved`, `WaitersAreWaiting` and `NoLostPermit`, whoever is
  cancelled. They need each other: a cancelled strand hands the permit it was woken
  for to the next in line, and that is the right one only if the line is exact.
  `ResourceInv` adds where a strand may be with and without a permit (`Control`).
- `ValuesAreInOrder`: `Spec => []TakenInOrder`. `OrderInv` speaks of the values taken
  and those in the buffer as one sequence, and of how many each producer has sent.
- `NobodyIsStuck`: if nobody who uses the channel can be cancelled
  (`Cancellable \cap (Producers \cup Consumers) = {}`), `Spec => []NoStuckWaiter`.
  `ChannelInv` counts: as many are awake as there is room, or values, to be
  claimed, or else nobody is asleep. A cancelled waiter spends a wake-up, as the
  table shows, so that the assumption is needed.

**`CycleGcProofs`** (`ObjectsAssumption`)

- `TypeCorrect`, `CountsStayExact`, `NothingIsUsedAfterFree`: `Spec => []TypeOK`,
  `CountsAreExact`, `NothingDangles`, from `HeapInv`, which adds that what is about
  to be freed is referred to by nobody, that owners of references exist and hold
  them as what they may, and what each pass of a collection leaves alone.
- `ClosingLeavesOnlyResults`: `Spec => []CloseLeavesOnlyResults`, from `HeapInv` and
  `RootsHaveNoCycle`: every set of nodes has one that is no root of the others. After
  the arena was cleared only results and roots are left; an object that no result
  leads to is the root of a node that none leads to either, and such nodes would
  have to form a cycle.
- `OnlyOrphansAreCancelled`, `NoClearWaits`, `AllGarbageGoes`: `CancelsOnlyOrphans`,
  `NoClearIsDeferred`, `GarbageGoes`. `CollectInv` says what each pass has
  established: after subtraction the trial count of an object is the number of
  references that no object of the ring accounts for; while liveness spreads, a
  live object that is done has only live children; in the sweep, what is condemned
  is held by the condemned alone, and by its roots once an item is off the list,
  so that `RootsHaveNoCycle` leaves none at the end. Borrows are excluded from the
  trash by `LoansAreHeld`.
- `WhatIsInUseIsKept`: `Spec => KeepsWhatIsInUse`, an action property: no step of a
  sweep takes a reference away from what the host, or a strand that still has to
  unwind, can reach.

**`PipeChannelProofs`** (`StagesAssumption`, `SizesAssumption`): any sequences of
operations of the two stages, any capacities.

- `PipeInOrder`: `Spec => []InOrder`; `PipeTypes`: `Spec => []TypeOK`;
  `ReceiverNeverPanics`. That what was received is in order says nothing about
  what comes next, so that `Core` orders everything under way: received, then
  what the reader downstream holds in its buffer and its pipe, then what is in
  the old pipe being drained into it, then a stale value on its way; all of them
  at most `sent`. A value in the slot is the only thing on its way. `Core` also
  says who may write where: nobody writes to a pipe before the stale value that
  goes to it, the pipe an old one is drained into has no other writer, and one
  that was opened and not installed yet is empty. `Core` is about a view of the
  state (`MainOf`, `OldOf`, `WritersOf`, `PendingOf`, ...). Every action is
  shown to be one of a few moves of that view (`Move...`), and each move to keep
  `Core`. `Control` ties the view to the control state: which end of the channel
  is present, taken or absent in each state, and what each strand holds at each
  await.
- `FirstProgramNeverPanics`: `NoPanic`, when the upstream stage runs a program at
  most as its first operation, whatever is downstream. Before its negotiation is
  over the channel has seen nothing of it and has room for a pipe (`Before`); while
  the program is there, the state is `SendPipe` or `Direct` and keeps the side the
  program writes to (`During`); after it only values are put (`Behind`).
- `AllIsEverything`: `NoPanic`, and everything received in the end, when the downstream
  stage takes any number of values and then reads to the end, whatever is
  upstream. `OnAll` says which states there are with such a reader; `Delivers` is the
  order of `Core` without gaps: received, in the reader, in the old pipe and on its
  way are exactly `1..sent`. Both are inductive together only: that a mode ends
  with an empty pipe needs to know that the writer is gone.
- `ProgramReadsEverything`: `NoPanic` and `NothingLost`, when the downstream stage is
  a program and the upstream stage puts a value between any two of its own. The
  program goes through `Waits` (not started), `Drains` (it takes over what an earlier
  pipe still holds), `Pipes` (values are written to its pipe) and `Joined` (it shares a pipe
  with a program upstream), back and forth between the last two. It sees an end of file
  only when the sender has closed, or is between operations with a channel in
  `Draining`, where a value it puts waits until the receiver has ended and is then
  refused (`Over`); everything that entered was received. `SendSide`
  keeps two programs apart: after one, the channel is never asked for its end
  again before a value has brought it back.
- `NothingIsLost`: from the last two, `NothingLost` for all stages except two programs
  in a row upstream of a program, for which the table shows that it fails.

Only model-checked:

- all liveness properties, `Progress` of `DrainPromise` included: fairness and
  `ENABLED` are out of this prover's reach;
- `NoPanic` of `PipeChannel` for the stages of the run that none of its theorems is
  about: programs upstream after other operations, against `<<"run", "all">>`,
  `<<"next", "run">>` and `<<"head", "all">>`.

## Not modelled

- Escrow of native handles and `WANT_ACK`, which only macOS has; negotiation and
  authentication, which are over before anything is concurrent; the encoding of
  payloads; the transports, taken as ordered reliable streams that may end.
- `steal_recv_pipe` and `steal_send_pipe` of the shell's pipes; timeouts, groups and
  `join_all` of strands, which interrupt and wake as cancellation and channels do.
- When the collector decides to run: it may at any step that allows it.
- `dolang-vfs` and the rest of the shell: their effects are the host's.
- The bytecode interpreter, the compiler, the type checker, the language server
  and the private utility crates, by far the largest part of the repository: they
  are sequential, over unbounded trees and tables, and have no small instance
  that would say more than their tests.

## Plan

What is left:

- `NoPanic` of `PipeChannel` for a downstream stage that changes between values and
  programs, with late programs upstream. The invariant has to join the phases of
  the three theorems, and to follow a stale value whose pipe has been left.
- `steal_recv_pipe` and `steal_send_pipe`, which end the life of a channel.
