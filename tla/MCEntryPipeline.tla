--------------------------- MODULE MCEntryPipeline ---------------------------
(* The instance of EntryPipeline that TLC checks: a few milliseconds around   *)
(* the end of the opening window, a good quote and one that a guard rejects,  *)
(* a tape that scores high and an empty one.  The limits are those of         *)
(* configs/default.toml except for the counts and the times, which are small. *)
EXTENDS EntryPipeline

MCQuote == {[bid |-> 998, ask |-> 1001, bid_size |-> 300, ask_size |-> 200]}

MCMetrics == {[NoMetrics EXCEPT !.rate = 90, !.aggressive = 90, !.large = 90,
                                !.depth = 5000]}

\* The opening window ends before the second millisecond.
MCMinuteOf == [ts \in 1..MaxTime |-> IF ts < 2 THEN 584 ELSE 585]

MCSector == [s \in {"sym", "tech", "mine"} |-> IF s = "mine" THEN "mining" ELSE "technology"]
MCCorrelation == [pair \in {{"sym", "mine"}, {"sym", "tech"}} |-> 30]

MCGates == [score_warm |-> 67, score_normal |-> 72, score_post_target |-> 82,
            price_min |-> 100, price_max |-> 2000, spread_pct |-> 1,
            min_volume |-> 2000, min_turnover |-> 5000]
MCWeights == [r |-> 30, a |-> 22, lp |-> 22, spr |-> 13, abs |-> 8, bls |-> 5]
MCSizing == [risk |-> 2500, min_stop_abs |-> 2, min_stop_permille |-> 12, k_atr |-> 2,
             budget |-> 500000, nav_cap |-> 375000, liquidity_permille |-> 1]
MCFees == [commission |-> 50, sec |-> 278, taf |-> 166, alpha |-> 50, beta |-> 3000,
           min_net |-> 1000]
=============================================================================
