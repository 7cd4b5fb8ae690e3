----------------------------- MODULE GuardEvaluator -----------------------------
(***************************************************************************)
(* The microstructure guards of one symbol, risk_engine/src/guards.rs: a   *)
(* window of event times that finds the symbol flickering, five checks of  *)
(* the quote an entry would meet, and a block with a reason and an end     *)
(* that any of them starts.  Prices are in cents, times in milliseconds,   *)
(* as the fields of GuardConfig say.                                       *)
(***************************************************************************)
EXTENDS TimeRingBuffer

CONSTANTS
  MaxFlicker,       \* max_flicker_count, 10
  FlickerWindow,    \* flicker_window_ms, 1000
  BlockTtl,         \* ttl_ms, 2000
  MaxStaleness,     \* max_staleness_ms, 3000
  MaxSpread,        \* max_spread_cents, 5 cents
  MinLiquidity,     \* min_liquidity_shares, 200
  MaxImbalance,     \* max_imbalance_ratio, in percent
  SlippageTol       \* slippage_tol_cents, 3 cents

ASSUME GuardAssumption ==
  /\ MaxFlicker \in Nat \ {0} /\ FlickerWindow \in Nat /\ BlockTtl \in Nat
  /\ {MaxStaleness, MaxSpread, MinLiquidity, MaxImbalance, SlippageTol} \subseteq Nat

\* GuardState::new
NewGuard == [flicker |-> NewRing(2 * MaxFlicker, FlickerWindow),
             blocked_until |-> 0, block_reason |-> "None"]

\* What a call leaves and answers; the reason is "None" for Ok.
Outcome(guard, reason) == [guard |-> guard, reason |-> reason]

\* Step 0 of both calls: a block that has not run out answers with its reason.
InBlock(guard, ts) == ts < guard.blocked_until /\ guard.block_reason # "None"

\* reject
Rejected(guard, ts, reason) ==
  Outcome([guard EXCEPT !.blocked_until = ts + BlockTtl, !.block_reason = reason], reason)

\* Mutant of TrackEvent: a new flicker report cuts the running block short.
TrackEventUnblocks(guard, ts) ==
  LET ring    == PruneExpired(PushItem(guard.flicker, ts, 0), ts)
      tracked == [guard EXCEPT !.flicker = ring]
  IN IF Length(ring) > MaxFlicker THEN Rejected(tracked, ts, "GuardFlicker")
     ELSE Outcome([tracked EXCEPT !.block_reason = "None"], "None")

\* track_event: outside a block the time of the event enters the window, and too
\* many of them start a block.
TrackEvent(guard, ts) ==
  LET ring    == PruneExpired(PushItem(guard.flicker, ts, 0), ts)
      tracked == [guard EXCEPT !.flicker = ring]
  IN IF InBlock(guard, ts) THEN Outcome(guard, guard.block_reason)
     ELSE IF Length(ring) > MaxFlicker THEN Rejected(tracked, ts, "GuardFlicker")
     ELSE Outcome(tracked, "None")

Distance(a, b) == IF a > b THEN a - b ELSE b - a

\* The first guard that the quote fails, if any.  The distance of the mid price
\* from the last trade is compared doubled, as the mid may be half a cent.
FailedGuard(ts, data_ts, quote, last_trade) ==
  LET spread == quote.ask - quote.bid
      total  == quote.bid_size + quote.ask_size
  IN IF ts - data_ts > MaxStaleness THEN "GuardStale"
     ELSE IF spread > MaxSpread \/ spread <= 0 THEN "GuardSpread"
     ELSE IF total < MinLiquidity THEN "GuardL2Vacuum"
     ELSE IF 100 * Distance(quote.bid_size, quote.ask_size) > MaxImbalance * total
          THEN "GuardImbalance"
     ELSE IF Distance(quote.bid + quote.ask, 2 * last_trade) > 2 * SlippageTol
          THEN "GuardSlippage"
     ELSE "None"

\* check_execution: a failed guard starts a block; a pass forgets the last one.
CheckExecution(guard, ts, data_ts, quote, last_trade) ==
  LET failed == FailedGuard(ts, data_ts, quote, last_trade)
  IN IF InBlock(guard, ts) THEN Outcome(guard, guard.block_reason)
     ELSE IF failed # "None" THEN Rejected(guard, ts, failed)
     ELSE Outcome([guard EXCEPT !.block_reason = "None"], "None")
=============================================================================
