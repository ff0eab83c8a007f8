----------------------------- MODULE MCRpcCalls -----------------------------
(***************************************************************************)
(* Two calls of one connection, and what may happen to them, for TLC.      *)
(***************************************************************************)
EXTENDS RpcCalls, TLC

CONSTANTS a, b

TwoCalls == {a, b}
NoneOf == {}
OnlyA == {a}

Cancelling == {"cancel"}
Interrupting == {"cancel", "drop", "guard", "shutdown"}
Dropping == {"drop", "guard"}
Ending == {"cancel", "close", "lose", "shutdown"}
=============================================================================
