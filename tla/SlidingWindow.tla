----------------------------- MODULE SlidingWindow -----------------------------
(***************************************************************************)
(* What a TimeRingBuffer promises: the timestamps of the last Capacity     *)
(* arrivals, in the order they came, without the ones that were older than *)
(* the window when they had become the oldest kept.                        *)
(***************************************************************************)
EXTENDS Integers, Sequences

CONSTANTS
  Capacity,   \* how many timestamps are kept at most
  Window,     \* how far back they go
  Timestamp   \* the times that may arrive

VARIABLE window

Horizon(now) == IF now > Window THEN now - Window ELSE 0

\* s without its first n elements.
Without(s, n) == SubSeq(s, n + 1, Len(s))

\* How many elements at the front of s are older than the horizon.
Expired(s, horizon) ==
  CHOOSE n \in 0..Len(s) :
    /\ \A k \in 1..n : s[k] < horizon
    /\ n < Len(s) => s[n + 1] >= horizon

Bounded(s) == IF Len(s) > Capacity THEN Tail(s) ELSE s

\* An event at ts arrives: it is added, and the front expires.
Arrive(ts) ==
  LET grown == Bounded(Append(window, ts))
  IN window' = Without(grown, Expired(grown, Horizon(ts)))

Init == window = <<>>

Next == \E ts \in Timestamp : Arrive(ts)

Spec == Init /\ [][Next]_window
=============================================================================
