------------------------------- MODULE MCTrading -------------------------------
(* The instances of Trading that TLC checks. *)
EXTENDS Trading, TLC

CONSTANTS s1, s2

One == {s1}
Two == {s1, s2}
Symmetry == Permutations(Two)
NoLadder == <<>>
Prices == {12, 24}
Sizes == {1, 2}
UnitSize == {1}
NoValue == {}
AllKinds == {"Tick", "Heartbeat", "Halt", "Reject", "Reconnect", "StateSync"}
NoHalts == {"Tick", "Heartbeat"}
NoSync == {"Tick", "Halt", "Heartbeat"}
=============================================================================
