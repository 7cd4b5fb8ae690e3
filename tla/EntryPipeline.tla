----------------------------- MODULE EntryPipeline -----------------------------
(***************************************************************************)
(* The way of one symbol's events through the TapeEngine to an entry:      *)
(* on_event and evaluate_entry_logic of tape_engine/src/lib.rs, the guards *)
(* they ask, the scores, the fees, the position sizer of                   *)
(* risk_engine/src/sizing.rs and the session of risk_engine/src/session.rs *)
(* as the FastLoop uses them (app_runtime/src/lib.rs:907-1186).            *)
(*                                                                         *)
(* FastLoop models positions and PnL and leaves open whether the gates let *)
(* an entry pass; here the gates are modelled, and what RiskState answers  *)
(* (monitor_only and the rules of check_entry before the exposure), the    *)
(* account and the positions held elsewhere are inputs.  The guards get    *)
(* the source time of the event as the current time and as that of the     *)
(* data.                                                                   *)
(*                                                                         *)
(* Prices are in cents, ratios in percent, daily volumes in thousands of   *)
(* shares; fees and profits are in hundredths of a cent, rounded down      *)
(* where the code keeps fractions.                                         *)
(***************************************************************************)
EXTENDS GuardEvaluator, FiniteSetsExt

CONSTANTS
  Sym,              \* the symbol followed
  Price,            \* prices of its trades
  Quote,            \* its quotes: [bid, ask, bid_size, ask_size]
  Metrics,          \* the other tape metrics: see NoMetrics
  Volume,           \* avg_20d_volume of a daily context
  Cash,             \* what available_cash may answer
  TenthEarned,      \* whether the realized PnL is a tenth of the capital: answers
  HeldElsewhere,    \* the sets of other symbols in which a position may be open
  Sector,           \* ExposureValidator.sector_map, a partial function
  Correlation,      \* correlation_matrix: from sets of two symbols to percent
  Regime,           \* the regimes update_regime may set
  Context,          \* the states of a daily context
  MtfResult,        \* the values of mtf_pass
  MaxSkew,          \* bound: how late an event may come, in milliseconds
  MaxTime,          \* bound: the last source time
  WarmTicks,        \* updates from WarmActive to FullActive, 100
  MinuteOf,         \* the minute of the day in New York at each source time
  PreAfterEnabled,  \* config.session.pre_after_enabled
  Gates,            \* limits of check_liquidity and the thresholds of the score
  Weights,          \* tape.weights, in percent
  Sizing,           \* SizingConfig, and the parameters of the stop distance
  Fees              \* PricingModel

\* The fields of TapeMetrics, those of the quote apart.
Book == [bid : Int, ask : Int, bid_size : Nat, ask_size : Nat]
TapeMetrics == [rate : Int, aggressive : Int, large : Int, absorption : Int,
                support : Int, reversal : BOOLEAN, vwap : Int, atr : Int,
                atr_1m : Int, vol_1m : Int, depth : Int]

ASSUME EntryAssumption ==
  /\ MaxSkew \in Nat /\ MaxTime \in Nat /\ WarmTicks \in Nat \ {0}
  /\ TenthEarned \subseteq BOOLEAN /\ PreAfterEnabled \in BOOLEAN
  /\ MinuteOf \in [1..MaxTime -> 0..1439]
  /\ Quote \subseteq Book
  /\ Metrics \subseteq TapeMetrics
  /\ Weights \in [r : Nat, a : Nat, lp : Nat, spr : Nat, abs : Nat, bls : Nat]

VARIABLES
  guard,                \* guard_evaluator.states[Sym]
  tape,                 \* bid, ask, bid_size, ask_size and price of the tape
  metrics,              \* its other metrics
  gate,                 \* what the slow side set: tier, context, volume, mtf, regime
  cold_start_state,
  ticks_in_warm_state,
  daily_target_reached,
  now,                  \* the latest source time seen
  order,                \* the entry the last event sent, NoOrder for none
  warmth                \* history: updates since the last reset, WarmTicks + 1 for a surge

cold_vars == <<cold_start_state, ticks_in_warm_state, warmth>>
slow_vars == <<metrics, gate, daily_target_reached>>
vars == <<guard, tape, now, order, cold_vars, slow_vars>>

\* TapeMetrics::default()
NoQuote == [bid |-> 0, ask |-> 0, bid_size |-> 0, ask_size |-> 0]
NoMetrics == [rate |-> 0, aggressive |-> 0, large |-> 0, absorption |-> 0, support |-> 0,
              reversal |-> FALSE, vwap |-> 0, atr |-> 0, atr_1m |-> 0, vol_1m |-> 0,
              depth |-> 0]
NoTape == [price |-> 0, quote |-> NoQuote]

\* SymbolState::new(), and the regime of TapeEngine::new.
NoGate == [tier |-> "C", context |-> "None", volume |-> 0, mtf |-> FALSE,
           regime |-> "Normal"]

NoOrder == [ts |-> 0, price |-> 0, qty |-> 0, cash |-> 0]

Spread(q) == q.ask - q.bid

-----------------------------------------------------------------------------
(* The size of an entry. *)

\* §16.1 in app_runtime: the widest of the stop distances.  The half spread is
\* taken as a hundredth of the spread, so its part is a two-hundredth.
StopDistance(price) ==
  Max({2, Spread(tape.quote) \div 200, Sizing.k_atr * metrics.atr_1m,
       Sizing.min_stop_abs, (price * Sizing.min_stop_permille) \div 1000,
       (4 * metrics.atr_1m) \div 5})

\* calculate_size: what the risk, the budget, the account, the cash and the
\* liquidity allow, whichever is least.
CalculateSize(price, cash) ==
  IF price <= 0 \/ price <= StopDistance(price) THEN 0
  ELSE Min({Sizing.risk \div StopDistance(price), Sizing.budget \div price,
            Sizing.nav_cap \div price, cash \div price,
            gate.volume * Sizing.liquidity_permille})

\* §16.3: half the size once the daily target is reached, and a quarter of that
\* once a tenth of the capital is earned; at least a share in both cases.
ReducedSize(n, tenth) ==
  LET half == IF daily_target_reached THEN Max({n \div 2, 1}) ELSE n
  IN IF tenth THEN Max({half \div 4, 1}) ELSE half

-----------------------------------------------------------------------------
(* Fees, slippage and the expected net of an entry. *)

\* total_fees, with an exit ten percent above the price.
TotalFees(shares, price) ==
  2 * Fees.commission * shares
    + (Fees.sec * price * 11 * shares) \div 1000000
    + (Fees.taf * shares) \div 100

\* expected_slippage: the spread is divided by 200 as if it were in cents.
ExpectedSlippage(shares, price) ==
  shares * Max({Spread(tape.quote) \div 2,
                (Fees.alpha * metrics.vol_1m * price) \div 10000,
                IF metrics.depth > 0 THEN (Fees.beta * shares) \div metrics.depth
                ELSE Fees.beta \div 100})

\* expected_net: gross is a tenth of the price per share, up to 50 dollars.
ExpectedNet(shares, price) ==
  IF shares = 0 THEN -10000
  ELSE Min({10 * price * shares, 500000})
         - TotalFees(shares, price) - ExpectedSlippage(shares, price)

-----------------------------------------------------------------------------
(* The gates. *)

Percentage(x) == Max({0, Min({x, 100})})

\* calculate_scores
TapeScore ==
  LET spread == IF Spread(tape.quote) <= 1 THEN 100
                ELSE Max({0, 100 - 20 * (Spread(tape.quote) - 1)})
  IN Percentage((Weights.r * Percentage(metrics.rate)
                 + Weights.a * Percentage(metrics.aggressive)
                 + Weights.lp * Percentage(metrics.large)
                 + Weights.spr * spread
                 + Weights.abs * Percentage(metrics.absorption)
                 + Weights.bls * Percentage(metrics.support)) \div 100)

\* The score that a symbol in this cold-start state must reach.
Threshold ==
  CASE cold_start_state = "WarmActive" -> Gates.score_warm
    [] cold_start_state = "FullActive" ->
         IF daily_target_reached THEN Gates.score_post_target ELSE Gates.score_normal
    [] cold_start_state = "ColdStart" -> 101

\* check_new_position: a second position needs a different, known sector and a
\* known correlation below one half.
CheckNewPosition(held) ==
  \/ held = {}
  \/ \E other \in held :
       /\ held = {other}
       /\ {Sym, other} \subseteq DOMAIN Sector /\ Sector[Sym] # Sector[other]
       /\ {Sym, other} \in DOMAIN Correlation /\ Correlation[{Sym, other}] < 50

\* check_liquidity, with the volume of the daily context.
CheckLiquidity(price) ==
  /\ price >= Gates.price_min /\ price <= Gates.price_max
  /\ 100 * Spread(tape.quote) <= Gates.spread_pct * Max({price, 1})
  /\ gate.volume >= Gates.min_volume
  /\ gate.volume * price >= Gates.min_turnover

\* check_anti_chase
ChasesPrice(price) ==
  metrics.vwap > 0 /\ metrics.atr > 0 /\ price > metrics.vwap + 2 * metrics.atr

\* Steps 0 to 8 of evaluate_entry_logic; `admitted` is the answer of RiskState.
BeforeGuards(price, admitted, held) ==
  /\ admitted
  /\ gate.tier = "A"
  /\ CheckNewPosition(held)
  /\ CheckLiquidity(price)
  /\ gate.regime = "Normal"
  /\ gate.context = "Play"
  /\ gate.mtf
  /\ ~ChasesPrice(price)

\* Steps 10 to 12; check_exposure repeats CheckNewPosition.
AfterGuards(price, size, held) ==
  /\ ~metrics.reversal
  /\ TapeScore >= Threshold
  /\ ExpectedNet(size, price) > Fees.min_net
  /\ CheckNewPosition(held)

\* session_state, by the minute of the day.
SessionState(minute) ==
  CASE minute < 240 \/ minute >= 1200 -> "Closed"
    [] minute \in 240..569 -> "PreMarket"
    [] minute \in 570..584 -> "OpenVolatility"
    [] minute \in 585..944 -> "TradingHours"
    [] minute \in 945..959 -> "CloseVolatility"
    [] minute \in 960..1199 -> "AfterHours"

\* entry_allowed
EntryAllowed(ts) ==
  \/ SessionState(MinuteOf[ts]) = "TradingHours"
  \/ PreAfterEnabled /\ SessionState(MinuteOf[ts]) \in {"PreMarket", "AfterHours"}

-----------------------------------------------------------------------------
(* The events. *)

\* The source times an event may carry.
Time == {ts \in 1..MaxTime : ts >= now - MaxSkew}

Seen(ts) == now' = Max({now, ts})

\* evaluate_entry_logic: the guards are asked only when the gates before them
\* let the entry pass.
EntryLogic(tracked, ts, price, size, admitted, held) ==
  IF ~BeforeGuards(price, admitted, held) THEN Outcome(tracked, "Gate")
  ELSE LET checked == CheckExecution(tracked, ts, ts, tape.quote, price)
       IN IF checked.reason # "None" THEN checked
          ELSE Outcome(checked.guard,
                       IF AfterGuards(price, size, held) THEN "None" ELSE "Gate")

\* A Tick: outside the session it is evaluated like any other, and sends nothing.
OnTick(ts, price, cash, tenth, admitted, held) ==
  LET size    == ReducedSize(CalculateSize(price, cash), tenth)
      tracked == TrackEvent(guard, ts)
      decided == EntryLogic(tracked.guard, ts, price, size, admitted, held)
      passed  == tracked.reason = "None" /\ decided.reason = "None"
  IN /\ guard' = IF tracked.reason = "None" THEN decided.guard ELSE tracked.guard
     /\ tape' = IF tracked.reason = "None" THEN [tape EXCEPT !.price = price] ELSE tape
     /\ order' = IF passed /\ EntryAllowed(ts) /\ size > 0
                 THEN [ts |-> ts, price |-> price, qty |-> size, cash |-> cash]
                 ELSE NoOrder
     /\ Seen(ts)
     /\ UNCHANGED <<cold_vars, slow_vars>>

\* A Snapshot replaces the quote, unless the flicker guard stops it.
OnSnapshot(ts, quote) ==
  LET tracked == TrackEvent(guard, ts)
  IN /\ guard' = tracked.guard
     /\ tape' = IF tracked.reason = "None" THEN [tape EXCEPT !.quote = quote] ELSE tape
     /\ order' = NoOrder
     /\ Seen(ts)
     /\ UNCHANGED <<cold_vars, slow_vars>>

\* Any other event of the symbol: a Fill, a Halt, a delta of the book.
OnActivity(ts) ==
  /\ guard' = TrackEvent(guard, ts).guard
  /\ order' = NoOrder
  /\ Seen(ts)
  /\ UNCHANGED <<tape, cold_vars, slow_vars>>

\* A Reconnect, which no symbol's guard stops, forgets the tape; the counter of
\* warm updates keeps its value.
OnReconnect ==
  /\ tape' = NoTape /\ metrics' = NoMetrics
  /\ cold_start_state' = "ColdStart"
  /\ order' = NoOrder
  /\ warmth' = 0
  /\ UNCHANGED <<guard, now, ticks_in_warm_state, gate, daily_target_reached>>

-----------------------------------------------------------------------------
(* The slow side. *)

\* Mutant of UpdateColdStart: the counter goes on from before the reconnect.
UpdateColdStartResumes(surge) ==
  /\ IF surge THEN cold_start_state' = "FullActive" /\ UNCHANGED ticks_in_warm_state
     ELSE CASE cold_start_state = "ColdStart" ->
                 cold_start_state' = "WarmActive" /\ UNCHANGED ticks_in_warm_state
            [] cold_start_state = "WarmActive" ->
                 /\ ticks_in_warm_state' = ticks_in_warm_state + 1
                 /\ cold_start_state' = IF ticks_in_warm_state' >= WarmTicks
                                        THEN "FullActive" ELSE "WarmActive"
            [] cold_start_state = "FullActive" ->
                 UNCHANGED <<cold_start_state, ticks_in_warm_state>>
  /\ warmth' = IF surge THEN WarmTicks + 1 ELSE Min({warmth + 1, WarmTicks + 1})
  /\ order' = NoOrder
  /\ UNCHANGED <<guard, tape, now, slow_vars>>

\* update_cold_start: a surge, or enough updates, activate the symbol fully.
UpdateColdStart(surge) ==
  /\ IF surge THEN cold_start_state' = "FullActive" /\ UNCHANGED ticks_in_warm_state
     ELSE CASE cold_start_state = "ColdStart" ->
                 cold_start_state' = "WarmActive" /\ ticks_in_warm_state' = 0
            [] cold_start_state = "WarmActive" ->
                 /\ ticks_in_warm_state' = ticks_in_warm_state + 1
                 /\ cold_start_state' = IF ticks_in_warm_state' >= WarmTicks
                                        THEN "FullActive" ELSE "WarmActive"
            [] cold_start_state = "FullActive" ->
                 UNCHANGED <<cold_start_state, ticks_in_warm_state>>
  /\ warmth' = IF surge THEN WarmTicks + 1 ELSE Min({warmth + 1, WarmTicks + 1})
  /\ order' = NoOrder
  /\ UNCHANGED <<guard, tape, now, slow_vars>>

\* update_tier, update_daily_context, update_mtf_analysis and update_regime.
SetGate(new) ==
  /\ gate' = new
  /\ order' = NoOrder
  /\ UNCHANGED <<guard, tape, now, cold_vars, metrics, daily_target_reached>>

UpdateTier == SetGate([gate EXCEPT !.tier = "A"])

UpdateDailyContext(context, volume) ==
  SetGate([gate EXCEPT !.context = context, !.volume = volume])

UpdateMtfAnalysis(pass) == SetGate([gate EXCEPT !.mtf = pass])

UpdateRegime(regime) == SetGate([gate EXCEPT !.regime = regime])

\* The metrics of the tape are written through get_mut_state.
UpdateMetrics(new) ==
  /\ metrics' = new
  /\ order' = NoOrder
  /\ UNCHANGED <<guard, tape, now, cold_vars, gate, daily_target_reached>>

\* set_daily_target_reached
ReachTarget ==
  /\ daily_target_reached' = TRUE
  /\ order' = NoOrder
  /\ UNCHANGED <<guard, tape, now, cold_vars, metrics, gate>>

-----------------------------------------------------------------------------
(* Specification. *)

Init ==
  /\ guard = NewGuard
  /\ tape = NoTape /\ metrics = NoMetrics
  /\ gate = NoGate
  /\ cold_start_state = "ColdStart" /\ ticks_in_warm_state = 0 /\ warmth = 0
  /\ daily_target_reached = FALSE
  /\ now = 0
  /\ order = NoOrder

MarketEvent ==
  \E ts \in Time :
    \/ \E price \in Price, cash \in Cash, tenth \in TenthEarned,
          admitted \in BOOLEAN, held \in HeldElsewhere :
         OnTick(ts, price, cash, tenth, admitted, held)
    \/ \E quote \in Quote : OnSnapshot(ts, quote)
    \/ OnActivity(ts)

SlowSide ==
  \/ \E surge \in BOOLEAN : UpdateColdStart(surge)
  \/ UpdateTier
  \/ \E context \in Context, volume \in Volume : UpdateDailyContext(context, volume)
  \/ \E pass \in MtfResult : UpdateMtfAnalysis(pass)
  \/ \E regime \in Regime : UpdateRegime(regime)
  \/ \E new \in Metrics : UpdateMetrics(new)
  \/ ReachTarget

Next == MarketEvent \/ OnReconnect \/ SlowSide

Spec == Init /\ [][Next]_vars

-----------------------------------------------------------------------------
(* Properties. *)

\* The times in the flicker window, from the oldest to the newest.
WindowTimes == [k \in 1..Length(guard.flicker) |-> Items(guard.flicker)[k].ts]

Promise == INSTANCE SlidingWindow WITH
             Capacity <- 2 * MaxFlicker, Window <- FlickerWindow,
             Timestamp <- 1..MaxTime, window <- WindowTimes

\* Whatever wraps around, is evicted, expires, or arrives late or during a
\* block, the ring of the flicker guard keeps what a sliding window keeps.
WindowSpec == Promise!Spec

\* A block lasts: until an event at or after its end has been seen, no order is
\* sent, and neither a late event, a quote, a reconnect nor the slow side ends
\* the block or moves its end.
BlockHolds ==
  [][guard.block_reason # "None" /\ now' < guard.blocked_until
       => /\ order' = NoOrder
          /\ guard'.block_reason = guard.block_reason
          /\ guard'.blocked_until = guard.blocked_until]_vars

\* A symbol is fully active exactly when it has had a surge, or WarmTicks updates
\* after the one that warmed it, since it started or the bridge reconnected; and
\* it takes one update to send an order at all.
ActivityEarned ==
  /\ (cold_start_state = "FullActive") = (warmth = WarmTicks + 1)
  /\ warmth = 0 => order = NoOrder

\* The sizer's comment, "don't exceed available cash": an entry costs at most the
\* cash that was available.
EntryWithinCash == order.qty * order.price <= order.cash
=============================================================================
