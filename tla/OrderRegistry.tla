----------------------------- MODULE OrderRegistry -----------------------------
(***************************************************************************)
(* What the idempotency keys promise: ids are handed out in increasing     *)
(* order, and a key is given at most one of them, for good.  An id may     *)
(* also go to an order without a key (one placed by hand at the broker).   *)
(***************************************************************************)
EXTENDS Naturals

CONSTANTS Key, MaxId

VARIABLES id_of,    \* the keys registered so far, with their ids
          next_id   \* the smallest id not handed out

Init ==
  /\ id_of = [k \in {} |-> 0]
  /\ next_id = 1

Register(k) ==
  /\ next_id \in 1 .. MaxId
  /\ k \notin DOMAIN id_of
  /\ id_of' = [x \in DOMAIN id_of \cup {k} |-> IF x = k THEN next_id ELSE id_of[x]]
  /\ next_id' = next_id + 1

Anonymous ==
  /\ next_id \in 1 .. MaxId
  /\ next_id' = next_id + 1
  /\ UNCHANGED id_of

Next == Anonymous \/ \E k \in Key : Register(k)

Spec == Init /\ [][Next]_<<id_of, next_id>>
=============================================================================
