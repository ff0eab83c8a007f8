--------------------------- MODULE MCTrailerFlow ---------------------------
(***************************************************************************)
(* Two trailers of one direction, and what the applications may do to      *)
(* them, for TLC.                                                          *)
(***************************************************************************)
EXTENDS TrailerFlow, TLC

CONSTANTS a, b

TwoIds == {a, b}
NoneOf == {}
OnlyA == {a}
OnlyB == {b}

Patient == {}
DropEarly == {"drop_early"}
DropEnded == {"drop_ended"}
Abandon == {"abandon"}
ShutdownDrop == {"shutdown_drop"}
StopMidRead == {"stop_mid_read"}
Everything == AllLiberties \ {"stop_mid_read"}

Symmetry == Permutations(TwoIds)
=============================================================================
