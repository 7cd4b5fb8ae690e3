-------------------------------- MODULE RiskTask --------------------------------
(***************************************************************************)
(* The Risk task of app_runtime/src/lib.rs:431-629.  It keeps positions of *)
(* its own, books what fills realize, locks the proceeds of sales, counts  *)
(* day trades, writes the daily PnL, sends partial exits, and cancels the  *)
(* shutdown token when a heartbeat finds the loss limit breached.  The     *)
(* FastLoop, which also writes the daily PnL, is an action of its          *)
(* environment here and a module of its own.                               *)
(***************************************************************************)
EXTENDS RiskState, TradeAccounting

CONSTANTS
  Price, FillSize,  \* the prices and sizes of fills
  ExitGross,        \* 50.0: the gross profit that calls for a partial exit
  FastPnl,          \* the values the FastLoop may report as daily PnL
  MaxQty,           \* bound: shares held or owed
  MaxFills          \* bound: fills in a run

ASSUME RiskTaskAssumption ==
  /\ Price \subseteq Nat \ {0} /\ FillSize \subseteq Nat \ {0}
  /\ ExitGross \in Nat /\ FastPnl \subseteq Int
  /\ MaxQty \in Nat /\ MaxFills \in Nat

VARIABLES
  positions,        \* RiskPosition of each symbol
  intraday_buy,     \* intraday_buy_tracker: the day of the last buy, 0 for none
  global_realized,  \* global_realized_pnl
  cash,             \* history: what the fills of a symbol paid into the account
  peak,             \* history: the highest daily PnL ever written
  day_trades,       \* history: the day trades of each day
  sold,             \* history: the proceeds of each day
  fills             \* history: the number of fills

tracker == <<positions, intraday_buy, global_realized>>
history == <<cash, peak, day_trades, sold, fills>>
rvars == <<shared, tracker, history>>

Fill == [side: Side, size: FillSize, price: Price]

Higher(a, b) == IF a < b THEN b ELSE a

-----------------------------------------------------------------------------
(* EventKind::Fill *)

Held(s) == [qty |-> positions[s].qty, avg |-> positions[s].avg]

\* The new position, and what the fill realized.
Book(s, fill) ==
  LET pnl == Booked(Held(s), fill)
      new == After(Held(s), fill)
  IN /\ positions' = [positions EXCEPT
                        ![s] = [qty |-> new.qty, avg |-> new.avg,
                                realized |-> @.realized + pnl]]
     /\ global_realized' = global_realized + pnl

\* A sale completes a day trade when the symbol was bought that day.
CompletesDayTrade(s, fill, day) == fill.side = "Ask" /\ intraday_buy[s] = day

\* The buy tracker, the settlement and the day-trade count.
Settle(s, fill, day) ==
  LET done == CompletesDayTrade(s, fill, day)
  IN /\ intraday_buy' = [intraday_buy EXCEPT
                           ![s] = IF fill.side = "Bid" THEN day
                                  ELSE IF done THEN 0 ELSE @]
     /\ IF done THEN RecordDayTrade(day) ELSE UNCHANGED trades
     /\ IF fill.side = "Ask" THEN LockProceeds(day, fill.size * fill.price)
        ELSE UNCHANGED unsettled

\* The partial exit after a fill that leaves a long position in profit: half of
\* it, when the gross profit reaches ExitGross or the price is 10 % above cost.
ExitQty(pos, price) ==
  IF /\ pos.qty > 0 /\ pos.avg > 0
     /\ \/ UnrealizedPnl(pos.qty, pos.avg, price) >= ExitGross
        \/ 10 * (price - pos.avg) >= pos.avg
  THEN pos.qty \div 2 ELSE 0

PartialExit(s, pos, price) ==
  LET qty == ExitQty(pos, price)
  IN IF qty > 0
     THEN SendOrders(<<[kind |-> "exit", symbol |-> s, side |-> "Ask", qty |-> qty]>>)
     ELSE UNCHANGED orders

\* A Fill event whose ts_src lies on `day`.
RiskFill(s, fill, day) ==
  /\ Book(s, fill)
  /\ Settle(s, fill, day)
  /\ UpdatePnl(global_realized')
  /\ PartialExit(s, After(Held(s), fill), fill.price)
  /\ UNCHANGED <<entry_rules, shutdown, today>>

-----------------------------------------------------------------------------
(* The other events. *)

\* Mutant of RiskHeartbeat: a loss of exactly the limit is not a breach.
RiskHeartbeatStrict ==
  /\ shutdown' = (shutdown \/ daily_pnl < -current_max)
  /\ UNCHANGED <<risk_state, orders, today, tracker>>

RiskHeartbeat ==
  /\ shutdown' = (shutdown \/ ShouldTerminate)
  /\ UNCHANGED <<risk_state, orders, today, tracker>>

\* StateSync, rebuild_state: only the number of positions is taken.
RiskStateSync(n) ==
  /\ open_positions' = n
  /\ UNCHANGED <<limits, blocklist, monitor_only, trades, unsettled, orders,
                 shutdown, today, tracker>>

\* A Reject whose reason names a delisting or compliance.
RiskReject(s) ==
  /\ blocklist' = blocklist \cup {s}
  /\ UNCHANGED <<limits, open_positions, monitor_only, trades, unsettled, orders,
                 shutdown, today, tracker>>

-----------------------------------------------------------------------------
(* Specification of the task on its own. *)

RiskInit ==
  /\ RiskStateInit
  /\ positions = [s \in Symbol |-> [qty |-> 0, avg |-> 0, realized |-> 0]]
  /\ intraday_buy = [s \in Symbol |-> 0]
  /\ global_realized = 0
  /\ cash = [s \in Symbol |-> 0]
  /\ peak = 0
  /\ day_trades = [d \in Day |-> 0]
  /\ sold = [d \in Day |-> 0]
  /\ fills = 0

\* A fill is processed on its day or, from the queue, on the day after.
OnFill(s, fill, day) ==
  /\ fills < MaxFills /\ fills' = fills + 1
  /\ Magnitude(positions[s].qty + Signed(fill)) <= MaxQty
  /\ Exact(Held(s), fill)
  /\ RiskFill(s, fill, day)
  /\ cash' = [cash EXCEPT ![s] = @ + CashOf(fill)]
  /\ peak' = Higher(peak, daily_pnl')
  /\ day_trades' = IF CompletesDayTrade(s, fill, day)
                   THEN [day_trades EXCEPT ![day] = @ + 1] ELSE day_trades
  /\ sold' = IF fill.side = "Ask"
             THEN [sold EXCEPT ![day] = @ + fill.size * fill.price] ELSE sold

\* The FastLoop writes the daily PnL.
FastUpdate(pnl) ==
  /\ UpdatePnl(pnl)
  /\ peak' = Higher(peak, pnl)
  /\ UNCHANGED <<entry_rules, trades, unsettled, orders, shutdown, today, tracker,
                 cash, day_trades, sold, fills>>

\* The OMS takes an order.
TakeOrder ==
  /\ orders # <<>> /\ orders' = Tail(orders)
  /\ UNCHANGED <<risk_state, shutdown, today, tracker, history>>

NextDay ==
  /\ today < MaxDay /\ today' = today + 1
  /\ UNCHANGED <<risk_state, orders, shutdown, tracker, history>>

RiskNext ==
  \/ \E s \in Symbol, fill \in Fill, day \in Day :
       day \in {today - 1, today} /\ OnFill(s, fill, day)
  \/ RiskHeartbeat /\ UNCHANGED history
  \/ \E n \in 0..Cardinality(Symbol) : RiskStateSync(n) /\ UNCHANGED history
  \/ \E s \in Symbol : RiskReject(s) /\ UNCHANGED history
  \/ \E pnl \in FastPnl : FastUpdate(pnl)
  \/ TakeOrder
  \/ NextDay

RiskSpec == RiskInit /\ [][RiskNext]_rvars

\* The bridge sends a heartbeat every 250 ms, and the router passes it on.
RiskFairSpec == RiskSpec /\ WF_rvars(RiskHeartbeat /\ UNCHANGED history)

-----------------------------------------------------------------------------
(* Properties. *)

\* Type invariant of the task.
RiskTypeOK ==
  /\ positions \in [Symbol -> [qty: Int, avg: Int, realized: Int]]
  /\ intraday_buy \in [Symbol -> 0..MaxDay]
  /\ global_realized \in Int /\ daily_pnl \in Int /\ current_max \in Int
  /\ trades \in Seq(Day) /\ unsettled \in [1..(MaxDay + 1) -> Nat]
  /\ blocklist \subseteq Symbol /\ open_positions \in 0..Cardinality(Symbol)
  /\ monitor_only \in BOOLEAN /\ shutdown \in BOOLEAN /\ today \in Day
  /\ cash \in [Symbol -> Int] /\ peak \in Int
  /\ day_trades \in [Day -> Nat] /\ sold \in [Day -> Nat] /\ fills \in 0..MaxFills

\* The books balance: whatever fills open, increase, reduce, close or flip a
\* position, in any order, the PnL booked for the symbol is the money that its
\* fills paid in and out plus what the shares still held have cost.
BooksBalance ==
  \A s \in Symbol : positions[s].realized = cash[s] + Basis(Held(s))

\* The ratchet has a memory: whatever either writer writes later, the limit in
\* force is at least as tight as the one the highest PnL so far called for.
RatchetRemembers == current_max <= LimitAt(peak)

\* Pruning forgets no day trade that still counts: the count of PdtGuard over
\* its pruned queue is the count over all day trades since the start.
DayTradesCounted ==
  DayTradeCount(today) =
    SumFunctionOnSet(day_trades, {d \in Day : today - d < PdtDays})

\* Cash of the day's sales cannot be spent on the day: what is available today
\* is the capital without the proceeds of every sale not yet settled.
ProceedsLocked ==
  LET unspendable == SumFunctionOnSet(sold, {d \in Day : d >= today})
  IN AvailableCash(today) = IF unspendable < Capital THEN Capital - unspendable ELSE 0

\* A breach of the loss limit that lasts stops the system: it may be hidden
\* again by a later write, but no write keeps it from being seen.
BreachShutsDown == ShouldTerminate ~> (shutdown \/ ~ShouldTerminate)
=============================================================================
