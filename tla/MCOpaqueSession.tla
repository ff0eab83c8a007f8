-------------------------- MODULE MCOpaqueSession ---------------------------
(***************************************************************************)
(* A small instance of OpaqueSession.                                      *)
(***************************************************************************)
EXTENDS OpaqueSession, TLC

CONSTANTS x, y

TwoCites == {x, y}
CiteSymmetry == Permutations(TwoCites)
=============================================================================
