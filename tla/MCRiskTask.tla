------------------------------ MODULE MCRiskTask ------------------------------
(* The instance of RiskTask that TLC checks. *)
EXTENDS RiskTask

CONSTANT s1

One == {s1}
TwoSteps == <<[profit |-> 12, loss |-> 6], [profit |-> 24, loss |-> 9]>>
Prices == {12, 24}
Sizes == {1, 2}
FastValues == {-24, 0, 12}
=============================================================================
