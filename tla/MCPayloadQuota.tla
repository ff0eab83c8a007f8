--------------------------- MODULE MCPayloadQuota ---------------------------
(***************************************************************************)
(* Two or three messages that together exceed the quota, for TLC.          *)
(***************************************************************************)
EXTENDS PayloadQuota, TLC

CONSTANTS a, b, c

ThreeMsgs == {a, b, c}
NoneOf == {}
OnlyA == {a}
OnlyB == {b}

Sizes == a :> 1 @@ b :> 2 @@ c :> 1
SomeHandles == a :> 1 @@ b :> 2 @@ c :> 0
=============================================================================
