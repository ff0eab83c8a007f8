--------------------------- MODULE SessionWindow ---------------------------
(***************************************************************************)
(* The byte pools of dolang-rpc/src/window.rs.                             *)
(*                                                                         *)
(* A SessionWindow is the pair of the bytes still available and the debt   *)
(* recorded for each message.  The code keeps the debts in a hash map and  *)
(* drops an entry that reaches zero; here every message has a debt, zero   *)
(* when the map has no entry.  Each operator below is one critical section *)
(* under the pool's mutex.                                                 *)
(***************************************************************************)
EXTENDS Totals

Lesser(a, b) == IF a <= b THEN a ELSE b

WindowType(Msgs, size) ==
  [available : 0..size, debt : [Msgs -> 0..size]]

\* SessionWindow::new
NewWindow(Msgs, size) ==
  [available |-> size, debt |-> [m \in Msgs |-> 0]]

\* debit_up_to: how many of the n bytes asked for the pool can spare.
Granted(w, n) == Lesser(n, w.available)

\* Move n bytes from the pool to the debt of m, or back.
Charge(w, m, n) ==
  [available |-> w.available - n, debt |-> [w.debt EXCEPT ![m] = @ + n]]

\* debit_up_to: the pool after the sender spent what it could of n bytes.
DebitUpTo(w, m, n) == Charge(w, m, Granted(w, n))

\* A refund that trusts its caller.
RefundUnclamped(w, m, n) == Charge(w, m, 0 - n)

\* refund: returns at most what m still owes, so that a refund for a message
\* already settled, or a second one for the same bytes, returns nothing.
Refund(w, m, n) == Charge(w, m, 0 - Lesser(n, w.debt[m]))

\* A settlement that forgets the debt without giving the bytes back.
SettleForgets(w, m) == [w EXCEPT !.debt[m] = 0]

\* settle: everything m still owes.
Settle(w, m) == Charge(w, m, 0 - w.debt[m])

\* accept_bytes: whether n more bytes stay within what was granted, and the
\* pool once they are charged.
Fits(w, n) == n <= w.available
AcceptBytes(w, m, n) == Charge(w, m, n)

IsExhausted(w) == w.available = 0

\* Every byte of a pool of this size is either available or owed by one
\* message.
Conserved(w, size) == w.available + Total(w.debt) = size
=============================================================================
