------------------------------ MODULE MCOrderFlow ------------------------------
(* The instances of OrderFlow that TLC checks. *)
EXTENDS OrderFlow, TLC

CONSTANTS k1, k2

OneKey == {k1}
Keys == {k1, k2}
Symmetry == Permutations(Keys)
FromOne == 1 .. 2
FromTwo == 2 .. 3
OneSymbol == [k \in Key |-> 1]
NoLag == {0}
UnitFill == {1}
Reports == {"Live", "Filled", "Cancelled"}
Filled == 0 .. OrderQty
=============================================================================
