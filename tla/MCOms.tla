--------------------------------- MODULE MCOms ---------------------------------
(* The instances of Oms that TLC checks. *)
EXTENDS Oms, TLC

CONSTANTS k1, k2, b1, b2

Keys == {k1, k2}
BrokerIds == {b1, b2}
Symmetry == Permutations(Keys) \cup Permutations(BrokerIds)

NoLag == {0}
UnitFill == {1}
NothingFilled == {0}
OneBrokerId == {b1}
LateEvents == {0, 1}
LiveReport == {"Live"}
=============================================================================
