---------------------------- MODULE DrainPromise ----------------------------
(***************************************************************************)
(* What a dolang-rpc server promises its client about the end of a         *)
(* connection, without its drivers, queues and signals.                    *)
(*                                                                         *)
(* A call the server has accepted is answered, or fails because its        *)
(* handler gave it up; it is never refused.  A call is refused only by a   *)
(* server that drains, and a drain begins only once a handler that asks    *)
(* for it has been accepted.  The server ends only after the client has    *)
(* left.  Every call comes to an end, and after the client so does the     *)
(* server.                                                                 *)
(***************************************************************************)
CONSTANTS
  Calls,    \* the calls of one client
  Stoppers  \* the calls whose handler asks for a graceful shutdown

VARIABLES
  fate,      \* what has become of each call
  draining,  \* the server has begun to drain
  left,      \* the client has left
  over       \* the server has ended

vars == <<fate, draining, left, over>>

Underway == {"sent", "accepted"}
Ends == {"answered", "failed", "refused", "lost"}

Init ==
  /\ fate = [c \in Calls |-> "new"]
  /\ draining = FALSE /\ left = FALSE /\ over = FALSE

Become(c, from, to) ==
  /\ fate[c] = from
  /\ fate' = [fate EXCEPT ![c] = to]
  /\ UNCHANGED <<draining, left, over>>

Send(c) == ~left /\ Become(c, "new", "sent")
Accept(c) == ~draining /\ Become(c, "sent", "accepted")
Refuse(c) == draining /\ Become(c, "sent", "refused")
Answer(c) == Become(c, "accepted", "answered")
Fail(c) == Become(c, "accepted", "failed")

Drain ==
  /\ \E c \in Stoppers : fate[c] \in {"accepted", "answered", "lost"}
  /\ ~draining /\ draining' = TRUE
  /\ UNCHANGED <<fate, left, over>>

Leave ==
  /\ ~left /\ left' = TRUE
  /\ fate' = [c \in Calls |-> IF fate[c] \in Underway THEN "lost" ELSE fate[c]]
  /\ UNCHANGED <<draining, over>>

End ==
  /\ left /\ ~over /\ over' = TRUE
  /\ UNCHANGED <<fate, draining, left>>

Next ==
  \/ \E c \in Calls : Send(c) \/ Accept(c) \/ Refuse(c) \/ Answer(c) \/ Fail(c)
  \/ Drain \/ Leave \/ End

Progress ==
  /\ \A c \in Calls : fate[c] \in Underway ~> fate[c] \in Ends
  /\ left ~> over

Spec == Init /\ [][Next]_vars /\ Progress
=============================================================================
