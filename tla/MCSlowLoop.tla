------------------------------- MODULE MCSlowLoop -------------------------------
(* The instances of SlowLoop that TLC checks. *)
EXTENDS SlowLoop, TLC

CONSTANTS s1, s2, s3

Three == {s1, s2, s3}
Two == {s1, s2}
=============================================================================
