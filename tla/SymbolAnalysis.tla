----------------------------- MODULE SymbolAnalysis -----------------------------
(***************************************************************************)
(* The two engines the SlowLoop keeps for a symbol: ContextEngine of       *)
(* context_engine/src/lib.rs, which decides whether the symbol is in play, *)
(* and MtfEngine of mtf_engine/src/lib.rs, which confirms the trend on     *)
(* four time frames.  Multipliers are whole numbers, moves per mille.      *)
(***************************************************************************)
EXTENDS Integers, FiniteSets

CONSTANTS
  PlayRatio,        \* volume_multiplier_2x
  StrongRatio,      \* volume_multiplier_3x
  SectorMin,        \* sector_momentum_min_pct
  ChurnMax,         \* churn_max_move_pct
  RequireAll,       \* MtfParams.require_all
  StaleAfter        \* stale_data_threshold_ms

ASSUME AnalysisAssumption ==
  /\ {PlayRatio, StrongRatio, SectorMin, ChurnMax, StaleAfter} \subseteq Nat
  /\ RequireAll \in BOOLEAN

-----------------------------------------------------------------------------
(* ContextEngine. *)

\* ContextEngine::new; sector is the change of a favorable sector, 0 for none.
NewContext == [volume |-> 0, average |-> 0, surge |-> FALSE, news |-> FALSE,
               sector |-> 0, churning |-> FALSE]

\* update_price_window: a window without prices leaves the answer as it is.
UpdatePriceWindow(ctx, low, high) ==
  [ctx EXCEPT !.churning = IF high > 0 THEN 1000 * (high - low) < ChurnMax * high ELSE @]

\* update_volume and update_news with the fields of a Snapshot, as the SlowLoop
\* calls them: a surge is more than StrongRatio times the average.
UpdateVolume(ctx, snap) ==
  [ctx EXCEPT !.volume = snap.volume, !.average = snap.average,
              !.surge = snap.volume > StrongRatio * snap.average,
              !.news = snap.news]

\* update_sector_momentum
UpdateSector(ctx, change) == [ctx EXCEPT !.sector = change]

\* evaluate_state
EvaluateState(ctx) ==
  IF ctx.churning THEN "NoPlay"
  ELSE IF ctx.average = 0 THEN "Undetermined"
  ELSE IF ctx.surge /\ ctx.volume >= StrongRatio * ctx.average THEN "Play"
  ELSE IF ctx.volume < PlayRatio * ctx.average THEN "NoPlay"
  ELSE IF ctx.news \/ (ctx.sector # 0 /\ ctx.sector >= SectorMin) THEN "Play"
  ELSE "Undetermined"

-----------------------------------------------------------------------------
(* MtfEngine. *)

\* An input with the time it was last set, 0 for never.
Never == [value |-> 0, at |-> 0]

\* MtfEngine::new
NewMtf == [weekly |-> Never, daily |-> Never, four_hour |-> Never, quarter |-> Never,
           price |-> 0]

\* Mutant of SetLevel: a zero from the bridge refreshes the level it does not carry.
SetLevelAlways(old, value, ts) ==
  [value |-> IF value > 0 THEN value ELSE old.value, at |-> ts]

\* update_weekly_ema and update_daily_resistance: a zero is no update.
SetLevel(old, value, ts) == IF value > 0 THEN [value |-> value, at |-> ts] ELSE old

\* update_4h_structure and update_15m_pullback
SetAnswer(yes, ts) == [value |-> IF yes THEN 1 ELSE 0, at |-> ts]

\* is_stale
Stale(input, ts) == input.at = 0 \/ ts - input.at > StaleAfter

\* evaluate: the time frames confirmed by fresh inputs.
Confirmed(mtf, ts) ==
  {f \in {"weekly", "daily"} :
     ~Stale(mtf[f], ts) /\ mtf[f].value > 0 /\ mtf.price > mtf[f].value}
  \cup {f \in {"four_hour", "quarter"} : ~Stale(mtf[f], ts) /\ mtf[f].value = 1}

\* mtf_pass
MtfPass(mtf, ts) == Cardinality(Confirmed(mtf, ts)) >= IF RequireAll THEN 4 ELSE 3
=============================================================================
