----------------------------- MODULE MCEventFlow -----------------------------
(* The instance of EventFlow that TLC checks: a critical event, one that may  *)
(* be dropped, and the three forms the reader refuses.                        *)
EXTENDS EventFlow

MCFrame == {<<"Fill", "valid">>, <<"Tick", "valid">>, <<"Tick", "corrupt">>,
            <<"CancelAck", "invalid">>, <<"StateSync", "undecodable">>}

MCChannelCap == [c \in Consumer |-> 1]
=============================================================================
