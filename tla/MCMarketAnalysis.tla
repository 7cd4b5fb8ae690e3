--------------------------- MODULE MCMarketAnalysis ---------------------------
(* The instance of MarketAnalysis that TLC checks: two prices a churning      *)
(* distance apart and one farther, Snapshots with and without volume, news    *)
(* and levels, and every input of the regime at a limit or beyond it.         *)
EXTENDS MarketAnalysis

MCSnap ==
  {[volume |-> 400, average |-> 100, news |-> FALSE, ema |-> 90,  resistance |-> 95],
   [volume |-> 200, average |-> 100, news |-> TRUE,  ema |-> 0,   resistance |-> 95],
   [volume |-> 200, average |-> 100, news |-> FALSE, ema |-> 0, resistance |-> 0]}

MCRegimeParams ==
  [atr_normal_max |-> 18, atr_caution_max |-> 28,
   breadth_normal_min |-> 4500, breadth_caution_min |-> 3500,
   widening_caution |-> 2500, widening_riskoff |-> 5000]

MCRegimeInput ==
  {<<"atr", 28>>, <<"breadth", 4000>>, <<"baseline", 4>>, <<"spread", 5>>,
   <<"spread", 6>>, <<"quality", "Degraded">>}

MCEvents == {[day |-> 1, name |-> "CPI", before |-> 60, after |-> 30]}
\* An event of the findings whose window begins on the day before.
MCNightEvents == {[day |-> 1, name |-> "CPI", before |-> 600, after |-> 30]}
MCClock == <<[day |-> 1, minute |-> 450], [day |-> 1, minute |-> 600],
             [day |-> 9, minute |-> 500], [day |-> 10, minute |-> 500]>>
=============================================================================
