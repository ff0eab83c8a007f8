--------------------------- MODULE OpaqueSession ----------------------------
(***************************************************************************)
(* One opaque resource of a dolang-rpc session (session.rs): the owner     *)
(* registers it and gifts it to its peer in responses, the peer cites it   *)
(* in requests, and both count the grants so that the owner's entry lives  *)
(* exactly as long as somebody can still name it.                          *)
(*                                                                         *)
(* A handle is an Arc, and its entry knows it by a Weak.  Between the      *)
(* moment its last reference goes and the moment its Drop locks the tables *)
(* a message may arrive, find that the handle cannot be upgraded, and      *)
(* install a fresh one.  Handles are numbered in the order they are made;  *)
(* one is dying when it was made, nothing refers to it, and its Drop has   *)
(* not run.                                                                *)
(*                                                                         *)
(* Abstractions.  Ids are never reused, so one resource stands for all.    *)
(* A message matters for the handle it names and for the moment its        *)
(* payload is complete; clones of a handle are one reference.  Markers and *)
(* serials refuse a program's mistakes, not races, and are left out.  The  *)
(* reference that release takes while it looks at the handle is gone       *)
(* before another thread acts.                                             *)
(***************************************************************************)
EXTENDS Totals, Sequences

CONSTANTS
  Gifts,     \* how many responses give the resource
  Cites,     \* the requests that cite it
  MaxCount,  \* u32::MAX, the ceiling of a count
  Threshold  \* GRANT_RELEASE_THRESHOLD, the peer's own ceiling

ASSUME GiftsAssumption == Gifts \in Nat \ {0} /\ IsFiniteSet(Cites)
ASSUME CountsAssumption ==
  /\ MaxCount \in Nat /\ Threshold \in Nat
  /\ 2 <= Threshold /\ Threshold <= MaxCount

LocalRefs == 1 .. Cardinality(Cites) + 1
RemoteRefs == 1 .. Gifts
None == 0

VARIABLES
  \* the owner
  local,      \* its LocalEntry, and whether the table holds it
  minted,     \* how many LocalRefs were made
  retired,    \* those whose Drop has run
  kept,       \* the application holds the Gift that register returned
  ungiven,    \* the gifts not yet serialised
  writing,    \* the gifts in the ledgers of messages being written
  \* the transport
  down,       \* the gifts on their way to the peer
  up,         \* the citations and releases on their way back
  \* the peer
  remote,     \* its RemoteEntry, and whether the table holds it
  made,       \* how many RemoteRefs were made
  dropped,    \* those whose Drop has run
  held,       \* those its application holds
  releasing,  \* what each of them has still to hand to the sink; 0 is receive
  outgoing,   \* the releases in its send driver
  \* the citing requests, at both ends
  cite,       \* where each of them is
  names,      \* the handle that each holds on to
  fault       \* a citation could not be resolved

ownerVars == <<local, minted, retired, kept, ungiven, writing>>
peerVars == <<remote, made, dropped, held, releasing, outgoing>>
citeVars == <<cite, names>>
vars == <<ownerVars, down, up, peerVars, citeVars, fault>>

Steps == {"new", "queued", "sent", "decoded", "guarded", "over"}

(* Every variable keeps its type; in particular the grant counts of the two
   tables (session.rs) stay within the bound they saturate at. *)
TypeOK ==
  /\ local \in [present : BOOLEAN, resource : BOOLEAN, granted : 0..MaxCount,
                handle : LocalRefs]
  /\ remote \in [present : BOOLEAN, granted : 0..Threshold,
                 handle : RemoteRefs \cup {None}]
  /\ minted \in LocalRefs /\ retired \subseteq LocalRefs /\ kept \in BOOLEAN
  /\ ungiven \in 0..Gifts /\ writing \in 0..Gifts /\ down \in 0..Gifts
  /\ up \in Seq([op : {"cite"}, id : Cites] \cup [op : {"release"}, count : 1..MaxCount])
  /\ made \in {None} \cup RemoteRefs
  /\ dropped \subseteq RemoteRefs /\ held \subseteq RemoteRefs
  /\ releasing \in [{None} \cup RemoteRefs -> 0..MaxCount]
  /\ outgoing \in Seq(1..MaxCount)
  /\ cite \in [Cites -> Steps]
  /\ names \in [Cites -> LocalRefs \cup RemoteRefs \cup {None}]
  /\ fault \in BOOLEAN

Absent == [present |-> FALSE, granted |-> 0, handle |-> None]

\* register
Init ==
  /\ local = [present |-> TRUE, resource |-> TRUE, granted |-> 0, handle |-> 1]
  /\ minted = 1 /\ retired = {} /\ kept = TRUE
  /\ ungiven = Gifts /\ writing = 0 /\ down = 0 /\ up = <<>>
  /\ remote = Absent
  /\ made = None /\ dropped = {} /\ held = {}
  /\ releasing = [r \in {None} \cup RemoteRefs |-> 0] /\ outgoing = <<>>
  /\ cite = [m \in Cites |-> "new"] /\ names = [m \in Cites |-> None]
  /\ fault = FALSE

-----------------------------------------------------------------------------
(***************************************************************************)
(* Counts and handles.                                                     *)
(***************************************************************************)
\* saturating_add and saturating_sub
SatAdd(a, b) == IF a + b > MaxCount THEN MaxCount ELSE a + b
SatSub(a, b) == IF a < b THEN 0 ELSE a - b

\* A saturated count is never lowered again.
Lowered(granted, n) == IF granted = MaxCount THEN granted ELSE SatSub(granted, n)

\* A handle that something still refers to, so that Weak::upgrade succeeds: at
\* the owner the application, the ledgers of its gifts and the citations that
\* arrived; at the peer the application and, until its payload is complete, a
\* request that cites it.
LocalAlive(r) ==
  \/ r = 1 /\ (kept \/ writing > 0)
  \/ \E m \in Cites : cite[m] = "decoded" /\ names[m] = r
RemoteAliveInApp(r) == r \in held
RemoteAlive(r) ==
  \/ r \in held
  \/ \E m \in Cites : cite[m] = "queued" /\ names[m] = r

LocalDying(r) == r <= minted /\ r \notin retired /\ ~LocalAlive(r)
RemoteDying(r) == r <= made /\ r \notin dropped /\ ~RemoteAlive(r)

-----------------------------------------------------------------------------
(***************************************************************************)
(* The owner.                                                              *)
(***************************************************************************)
\* Session::gift, while a response is encoded.
Gift ==
  /\ kept /\ ungiven > 0
  /\ ungiven' = ungiven - 1 /\ writing' = writing + 1
  /\ local' = IF local.present
              THEN [local EXCEPT !.granted = SatAdd(@, 1)] ELSE local
  /\ UNCHANGED <<minted, retired, kept, down, up, peerVars, citeVars, fault>>

\* Ledger::commit: the last fragment of the payload is written.
Commit ==
  /\ writing > 0
  /\ writing' = writing - 1 /\ down' = down + 1
  /\ UNCHANGED <<local, minted, retired, kept, ungiven, up, peerVars, citeVars,
                 fault>>

\* A ledger that is only dropped.
RescindNothing(entry) == entry

\* Ledger::rescind, for one gift.
Rescinded(entry) ==
  IF entry.present THEN [entry EXCEPT !.granted = Lowered(@, 1)] ELSE entry

\* A response that is cancelled, or cannot be encoded, before its payload is
\* complete.
Rescind ==
  /\ writing > 0
  /\ writing' = writing - 1
  /\ local' = Rescinded(local)
  /\ UNCHANGED <<minted, retired, kept, ungiven, down, up, peerVars, citeVars,
                 fault>>

DropGift ==
  /\ kept /\ kept' = FALSE
  /\ UNCHANGED <<local, minted, retired, ungiven, writing, down, up, peerVars,
                 citeVars, fault>>

\* LocalRef::drop
LocalDrop(r) ==
  /\ LocalDying(r)
  /\ retired' = retired \cup {r}
  /\ local' = IF local.present /\ local.handle = r /\ local.granted = 0
              THEN [local EXCEPT !.present = FALSE, !.resource = FALSE]
              ELSE local
  /\ UNCHANGED <<minted, kept, ungiven, writing, down, up, peerVars, citeVars,
                 fault>>

\* An entry that stays.
NeverRemoved(entry) == entry

\* The end of release: without grants and without a handle the entry goes.
RemovedIfUnused(entry) ==
  IF entry.granted = 0 /\ ~LocalAlive(entry.handle)
  THEN [entry EXCEPT !.present = FALSE, !.resource = FALSE] ELSE entry

\* The owner's receive driver, which a fault has not ended, has a message.
Reading(op) == ~fault /\ up # <<>> /\ Head(up).op = op

\* Session::release
Release ==
  /\ Reading("release")
  /\ up' = Tail(up)
  /\ local' = IF local.present
              THEN RemovedIfUnused(
                     [local EXCEPT !.granted = Lowered(@, Head(up).count)])
              ELSE local
  /\ UNCHANGED <<minted, retired, kept, ungiven, writing, down, peerVars,
                 citeVars, fault>>

\* Session::cite, while a request is decoded: the handle the entry knows, or a
\* fresh one.  An id without an entry ends the connection.
DecodeCite ==
  /\ Reading("cite")
  /\ up' = Tail(up)
  /\ LET m == Head(up).id
         fresh == local.present /\ ~LocalAlive(local.handle)
         r == IF fresh THEN minted + 1 ELSE local.handle
     IN  /\ fault' = ~local.present
         /\ cite' = [cite EXCEPT ![m] = IF local.present THEN "decoded" ELSE "over"]
         /\ names' = [names EXCEPT ![m] = r]
         /\ local' = [local EXCEPT !.handle = r]
         /\ minted' = IF fresh THEN minted + 1 ELSE minted
  /\ UNCHANGED <<retired, kept, ungiven, writing, down, peerVars>>

\* What the handler of a citing request does with its citation, which each of
\* these consumes.
UseCite(m, step) ==
  /\ cite[m] = "decoded"
  /\ cite' = [cite EXCEPT ![m] = step]
  /\ UNCHANGED <<minted, retired, kept, ungiven, writing, down, up, peerVars,
                 names, fault>>

Busy == \E m \in Cites : cite[m] = "guarded"

\* acquire: a guard on the resource, or InvalidOpaque.
Acquire(m) ==
  /\ UseCite(m, IF local.present /\ local.resource THEN "guarded" ELSE "over")
  /\ UNCHANGED local

\* unregister: the slot is emptied and guards keep the resource alive.
Unregister(m) ==
  /\ UseCite(m, "over")
  /\ local' = [local EXCEPT !.resource = FALSE]

\* try_unregister: nothing happens while a guard is alive.
TryUnregister(m) ==
  /\ UseCite(m, "over")
  /\ local' = IF Busy THEN local ELSE [local EXCEPT !.resource = FALSE]

IgnoreCite(m) == UseCite(m, "over") /\ UNCHANGED local

DropGuard(m) ==
  /\ cite[m] = "guarded"
  /\ cite' = [cite EXCEPT ![m] = "over"]
  /\ UNCHANGED <<ownerVars, down, up, peerVars, names, fault>>

-----------------------------------------------------------------------------
(***************************************************************************)
(* The peer.                                                               *)
(***************************************************************************)
\* Session::receive, while a response is decoded: the table's lock is released
\* before the excess is handed to the sink.
Receive ==
  /\ down > 0 /\ releasing[None] = 0
  /\ down' = down - 1
  /\ LET granted == SatAdd(remote.granted, 1)
         over == granted >= Threshold
         alive == remote.present /\ RemoteAlive(remote.handle)
         r == IF alive THEN remote.handle ELSE made + 1
     IN  /\ remote' = [present |-> TRUE, handle |-> r,
                       granted |-> IF over THEN 1 ELSE granted]
         /\ releasing' = IF over THEN [releasing EXCEPT ![None] = granted - 1]
                         ELSE releasing
         /\ made' = IF alive THEN made ELSE made + 1
         /\ held' = held \cup {r}
  /\ UNCHANGED <<ownerVars, up, dropped, outgoing, citeVars, fault>>

\* A request that cites is queued; it refers to the handle from then on.
Cite(m, r) ==
  /\ cite[m] = "new" /\ r \in held
  /\ cite' = [cite EXCEPT ![m] = "queued"]
  /\ names' = [names EXCEPT ![m] = r]
  /\ UNCHANGED <<ownerVars, down, up, peerVars, fault>>

\* Its payload is complete, or it is cancelled before that.
CommitCite(m) ==
  /\ cite[m] = "queued"
  /\ cite' = [cite EXCEPT ![m] = "sent"]
  /\ up' = Append(up, [op |-> "cite", id |-> m])
  /\ UNCHANGED <<ownerVars, down, peerVars, names, fault>>

CancelCite(m) ==
  /\ cite[m] = "queued"
  /\ cite' = [cite EXCEPT ![m] = "over"]
  /\ UNCHANGED <<ownerVars, down, up, peerVars, names, fault>>

DropHandle(r) ==
  /\ r \in held
  /\ held' = held \ {r}
  /\ UNCHANGED <<ownerVars, down, up, remote, made, dropped, releasing,
                 outgoing, citeVars, fault>>

\* A drop that takes the total whoever it belongs to.
PointsAnywhere(r) == remote.present

\* RemoteEntry::points_at
PointsAt(r) == remote.present /\ remote.handle = r

\* RemoteRef::drop: the handle that the entry knows takes the whole total.
RemoteDrop(r) ==
  /\ RemoteDying(r)
  /\ dropped' = dropped \cup {r}
  /\ IF PointsAt(r)
     THEN remote' = Absent /\ releasing' = [releasing EXCEPT ![r] = remote.granted]
     ELSE UNCHANGED <<remote, releasing>>
  /\ UNCHANGED <<ownerVars, down, up, made, held, outgoing, citeVars, fault>>

\* ReleaseSink::release, and the send driver's turn.
Sink(t) ==
  /\ releasing[t] > 0
  /\ releasing' = [releasing EXCEPT ![t] = 0]
  /\ outgoing' = Append(outgoing, releasing[t])
  /\ UNCHANGED <<ownerVars, down, up, remote, made, dropped, held, citeVars,
                 fault>>

WriteRelease ==
  /\ outgoing # <<>>
  /\ outgoing' = Tail(outgoing)
  /\ up' = Append(up, [op |-> "release", count |-> Head(outgoing)])
  /\ UNCHANGED <<ownerVars, down, remote, made, dropped, held, releasing,
                 citeVars, fault>>

-----------------------------------------------------------------------------
Owner ==
  \/ Gift \/ Commit \/ Rescind \/ DropGift \/ Release \/ DecodeCite
  \/ \E r \in LocalRefs : LocalDrop(r)
  \/ \E m \in Cites :
       Acquire(m) \/ Unregister(m) \/ TryUnregister(m) \/ IgnoreCite(m)
       \/ DropGuard(m)

Peer ==
  \/ Receive \/ WriteRelease
  \/ \E r \in RemoteRefs : DropHandle(r) \/ RemoteDrop(r)
  \/ \E m \in Cites :
       CommitCite(m) \/ CancelCite(m) \/ \E r \in RemoteRefs : Cite(m, r)
  \/ \E t \in {None} \cup RemoteRefs : Sink(t)

Next == Owner \/ Peer

Spec == Init /\ [][Next]_vars

-----------------------------------------------------------------------------
(***************************************************************************)
(* Properties.                                                             *)
(***************************************************************************)
\* What each message from the peer gives back.
GivesBack(msg) == IF msg.op = "release" THEN msg.count ELSE 0
Counts(msgs) == [i \in DOMAIN msgs |-> GivesBack(msgs[i])]

Released == Total(releasing) + Total(outgoing) + Total(Counts(up))

\* The owner's count is what the peer holds and what is under way in either
\* direction, whatever gifts and dying handles cross, until it saturates
\* (LocalEntry.granted, the protocol count).
GrantsBalance ==
  local.granted # MaxCount =>
    local.granted = writing + down + remote.granted + Released

\* The entry outlives every citation on its way: Session::cite finds it, as
\* its comment says of an unknown id ("It cannot arise from a race").
CitationsResolve == ~fault

\* A handle that is alive is the one its entry knows, and the entry is there: at
\* the owner (Session::acquire calls the contrary unreachable), and at the peer,
\* where nothing can cite through a handle whose grants were given back.
HandlesKeepTheirEntries ==
  /\ \A r \in LocalRefs : LocalAlive(r) => local.present /\ local.handle = r
  /\ \A r \in RemoteRefs : RemoteAlive(r) =>
       remote.present /\ remote.handle = r /\ remote.granted > 0

\* Once nobody holds or carries a reference and every Drop has run, the entry
\* and its resource are gone, unless the count saturated.
NothingLeaks ==
  /\ ~\E r \in LocalRefs : LocalAlive(r) \/ LocalDying(r)
  /\ ~\E r \in RemoteRefs : RemoteAlive(r) \/ RemoteDying(r)
  /\ down = 0 /\ up = <<>> /\ Released = 0
  /\ local.granted # MaxCount
  => ~local.present
=============================================================================
