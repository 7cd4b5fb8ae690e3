------------------------------ MODULE MCWatchlist ------------------------------
(* The instances of Watchlist that TLC checks. *)
EXTENDS Watchlist, TLC

CONSTANTS s1, s2, s3

Three == {s1, s2, s3}
Two == {s1, s2}
Symmetry == Permutations(Three)
=============================================================================
