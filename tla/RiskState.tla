------------------------------- MODULE RiskState -------------------------------
(***************************************************************************)
(* What the Risk task and the FastLoop share: RiskState of                 *)
(* risk_engine/src/lib.rs with its PdtGuard, behind a mutex, its file      *)
(* risk_state.json, the channel of orders to the OMS, and the shutdown     *)
(* token.  Each operation below runs under the mutex and is a part of the  *)
(* actions of the two tasks.                                               *)
(*                                                                         *)
(* The application sets no sectors, correlations, corporate actions or     *)
(* tickers of the blocklist file, so exposure_validator admits no second   *)
(* position and blocklist_loader blocks no symbol.                         *)
(***************************************************************************)
EXTENDS Integers, FiniteSetsExt, Sequences, Functions

CONSTANTS
  Symbol,           \* SymbolId
  InitialMaxLoss,   \* config.risk.max_daily_loss_usd
  Ladder,           \* risk_ladder: [profit, loss] steps, sorted by profit
  MaxDayTrades,     \* PdtGuard.max_day_trades
  PdtDays,          \* the window of PdtGuard, in calendar days
  Capital,          \* config.risk.account_capital_usd
  OrderCap,         \* capacity of oms_order_tx
  MaxDay            \* bound: the last market day

ASSUME RiskStateAssumption ==
  /\ IsFiniteSet(Symbol)
  /\ InitialMaxLoss \in Nat /\ Capital \in Nat /\ OrderCap \in Nat
  /\ MaxDayTrades \in Nat /\ PdtDays \in Nat \ {0} /\ MaxDay \in Nat \ {0}
  /\ Ladder \in Seq([profit: Int, loss: Int])
  /\ \A i, j \in DOMAIN Ladder : i < j => Ladder[i].profit <= Ladder[j].profit

VARIABLES
  daily_pnl,        \* daily_pnl_usd
  current_max,      \* current_max_daily_loss
  open_positions,   \* the number of positions in the last StateSync
  blocklist,        \* the blocked symbols
  monitor_only,
  trades,           \* pdt_guard.trades: the day of each day trade kept
  unsettled,        \* unsettled_proceeds: [settlement day -> USD]
  orders,           \* the NewOrder commands in the channel to the OMS
  shutdown,         \* shutdown_token is cancelled
  today             \* market_day_boundary of the current time

limits == <<daily_pnl, current_max>>
entry_rules == <<open_positions, blocklist, monitor_only>>
risk_state == <<limits, entry_rules, trades, unsettled>>
shared == <<risk_state, orders, shutdown, today>>

Day == 1..MaxDay

-----------------------------------------------------------------------------
(* PnL and the loss ladder. *)

\* The limit a PnL calls for: that of the last step of the ladder it reaches.
LimitAt(pnl) ==
  LET crossed == {i \in DOMAIN Ladder : pnl >= Ladder[i].profit}
  IN IF crossed = {} THEN InitialMaxLoss ELSE Ladder[Max(crossed)].loss

\* Mutant of UpdatePnl: the limit follows the PnL down again.
UpdatePnlLoosens(pnl) ==
  /\ daily_pnl' = pnl
  /\ current_max' = LimitAt(pnl)

\* update_pnl, update_risk_limits: the limit only ever tightens.
UpdatePnl(pnl) ==
  /\ daily_pnl' = pnl
  /\ current_max' = IF LimitAt(pnl) < current_max THEN LimitAt(pnl) ELSE current_max

\* should_terminate
Breached(pnl, max_loss) == pnl <= -max_loss
ShouldTerminate == Breached(daily_pnl, current_max)

-----------------------------------------------------------------------------
(* Day trades and settlement. *)

\* Mutant of Recent: the last day of the window is pruned.
RecentShort(day, d) == day - d < PdtDays - 1

\* The days of the window that ends with `day`.
Recent(day, d) == day - d < PdtDays

\* record_day_trade: the trades before the first recent one are pruned.
RecordDayTrade(day) ==
  LET all   == Append(trades, day)
      first == Min({i \in DOMAIN all : Recent(day, all[i])})
  IN trades' = SubSeq(all, first, Len(all))

\* day_trade_count_last_5_days
DayTradeCount(day) ==
  Cardinality({i \in DOMAIN trades : day - trades[i] < PdtDays})

\* would_violate
WouldViolate(day) == DayTradeCount(day) >= MaxDayTrades

\* Mutant of LockProceeds: a second sale of the day replaces the first.
LockProceedsOnce(day, proceeds) ==
  unsettled' = [unsettled EXCEPT ![day + 1] = proceeds]

\* The proceeds of a sale on `day` settle on the next.
LockProceeds(day, proceeds) ==
  unsettled' = [unsettled EXCEPT ![day + 1] = @ + proceeds]

\* available_cash
AvailableCash(day) ==
  LET locked == SumFunctionOnSet(unsettled, {d \in DOMAIN unsettled : d > day})
  IN IF locked < Capital THEN Capital - locked ELSE 0

-----------------------------------------------------------------------------
(* Entries and orders. *)

\* check_entry, with no ticker, sector or correlation set; `breached` is the
\* answer of should_terminate.
CheckEntry(s, open, day, breached) ==
  /\ ~monitor_only
  /\ s \notin blocklist
  /\ ~breached
  /\ ~WouldViolate(day)
  /\ open = {}

\* oms_order_tx.try_send(NewOrder) of each order of a sequence, in turn.
SendOrders(new) ==
  orders' = LET all == orders \o new
            IN IF Len(all) <= OrderCap THEN all ELSE SubSeq(all, 1, OrderCap)

\* RiskState::new, and set_risk_ladder, which applies the ladder to a PnL of 0.
RiskStateInit ==
  /\ daily_pnl = 0
  /\ current_max = IF LimitAt(0) < InitialMaxLoss THEN LimitAt(0) ELSE InitialMaxLoss
  /\ open_positions = 0 /\ blocklist = {} /\ monitor_only = FALSE
  /\ trades = <<>>
  /\ unsettled = [d \in 1..(MaxDay + 1) |-> 0]
  /\ orders = <<>> /\ shutdown = FALSE /\ today = 1
=============================================================================
