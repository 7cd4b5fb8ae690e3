----------------------------- MODULE PriorityPipe -----------------------------
(***************************************************************************)
(* What the path from the socket to the router promises: a queue that      *)
(* keeps the order of what it is offered, refuses only when it is full,    *)
(* and never refuses an event that is critical.                            *)
(***************************************************************************)
EXTENDS Naturals, Sequences

CONSTANTS
  Event,          \* what may be offered
  Critical(_),    \* the events that must not be refused
  Capacity        \* how many events the queue holds

VARIABLES
  offered,        \* every event offered so far
  pending,        \* accepted and not taken yet
  taken           \* taken so far

pipe == <<offered, pending, taken>>

Offer(e) ==
  /\ offered' = Append(offered, e)
  /\ \/ pending' = Append(pending, e)
     \/ /\ ~Critical(e)
        /\ Len(pending) >= Capacity
        /\ UNCHANGED pending
  /\ UNCHANGED taken

Take ==
  /\ pending # <<>>
  /\ taken' = Append(taken, Head(pending))
  /\ pending' = Tail(pending)
  /\ UNCHANGED offered

Init ==
  /\ offered = <<>>
  /\ pending = <<>>
  /\ taken = <<>>

Next == Take \/ \E e \in Event : Offer(e)

Spec == Init /\ [][Next]_pipe
=============================================================================
