----------------------------- MODULE MCDataQuality -----------------------------
(* The instance of DataQuality that TLC checks.  Every constant is a small    *)
(* number, given in the configurations: time counts checks of the heartbeat,  *)
(* and the channel of degraded notifications holds as many as the code gives. *)
EXTENDS DataQuality
=============================================================================
