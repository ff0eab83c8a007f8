----------------------------- MODULE MCCycleGc ------------------------------
(***************************************************************************)
(* Small instances of CycleGc.                                             *)
(***************************************************************************)
EXTENDS CycleGc, TLC

CONSTANTS n1, n2, s1, s2, f

TwoNodes == {n1, n2}
TwoStrands == {s1, s2}
OneField == {f}
HeapSymmetry == Permutations(TwoNodes) \cup Permutations(TwoStrands)
=============================================================================
