----------------------------- MODULE TimeRingBuffer -----------------------------
(***************************************************************************)
(* TimeRingBuffer of core_types/src/time_buffer.rs: a ring of slots that   *)
(* keeps the last max_elements items pushed and forgets, when asked to,    *)
(* those older than its window.  One slot always stays free, so that head  *)
(* = tail means empty.  Pruning and eviction only move the tail: the slots *)
(* behind it keep what they held.                                          *)
(***************************************************************************)
EXTENDS Integers, Sequences

\* A slot nothing was ever pushed to; its timestamp is before every other.
NoSlot == [ts |-> -1, item |-> 0]

\* TimeRingBuffer::new
NewRing(max_elements, window) ==
  [buffer |-> [i \in 0..max_elements |-> NoSlot], head |-> 0, tail |-> 0,
   capacity |-> max_elements + 1, window_micros |-> window]

\* The index after i, wrapping around.
Wrap(ring, i) == IF i + 1 = ring.capacity THEN 0 ELSE i + 1

\* Mutant of PushItem: a full ring does not give up its oldest item.
PushItemOverrun(ring, timestamp, item) ==
  [ring EXCEPT !.buffer[ring.head] = [ts |-> timestamp, item |-> item],
               !.head = Wrap(ring, ring.head)]

\* push: a full ring evicts its oldest item.
PushItem(ring, timestamp, item) ==
  LET next_head == Wrap(ring, ring.head)
  IN [ring EXCEPT !.tail = IF next_head = ring.tail THEN Wrap(ring, ring.tail) ELSE @,
                  !.buffer[ring.head] = [ts |-> timestamp, item |-> item],
                  !.head = next_head]

\* len
Length(ring) == IF ring.head >= ring.tail THEN ring.head - ring.tail
                ELSE ring.capacity + ring.head - ring.tail

\* The index of the k-th slot from the tail.
IndexOf(ring, k) == IF ring.tail + k < ring.capacity THEN ring.tail + k
                    ELSE ring.tail + k - ring.capacity

\* iter, from the oldest item to the newest.
Items(ring) == [k \in 1..Length(ring) |-> ring.buffer[IndexOf(ring, k - 1)]]

\* current_time.saturating_sub(window_micros)
Cutoff(window, now) == IF now > window THEN now - window ELSE 0

\* prune_expired: the tail moves to the first item within the window.  An item
\* that is older than one pushed before it stays as long as that one does.
PruneExpired(ring, now) ==
  LET Expired(k) == ring.buffer[IndexOf(ring, k)].ts < Cutoff(ring.window_micros, now)
  IN [ring EXCEPT !.tail =
        IndexOf(ring, CHOOSE n \in 0..Length(ring) :
                        /\ \A k \in 0..(n - 1) : Expired(k)
                        /\ n < Length(ring) => ~Expired(n))]

\* min_max, of a ring that is not empty.
MinMax(ring) ==
  LET held == {Items(ring)[k].item : k \in 1..Length(ring)}
  IN [low  |-> CHOOSE x \in held : \A y \in held : x <= y,
      high |-> CHOOSE x \in held : \A y \in held : x >= y]
=============================================================================
