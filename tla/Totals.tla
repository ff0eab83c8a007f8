------------------------------- MODULE Totals -------------------------------
(***************************************************************************)
(* The sum of a function with natural values, counted as the size of a set *)
(* of units, one pair <<m, k>> for every k in 1..f[m]; and how many of a   *)
(* sequence's places hold a member of a set.                               *)
(***************************************************************************)
EXTENDS Integers, FiniteSets

Units(f) == UNION {{m} \X (1..f[m]) : m \in DOMAIN f}

Total(f) == Cardinality(Units(f))

PlacesOf(s, T) == {i \in DOMAIN s : s[i] \in T}

CountIn(s, T) == Cardinality(PlacesOf(s, T))
=============================================================================
