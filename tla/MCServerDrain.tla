--------------------------- MODULE MCServerDrain ----------------------------
(***************************************************************************)
(* Small instances of ServerDrain.                                         *)
(***************************************************************************)
EXTENDS ServerDrain

CONSTANTS a, b, s

ThreeCalls == {a, b, s}
OnlyA == {a}
OnlyS == {s}
=============================================================================
