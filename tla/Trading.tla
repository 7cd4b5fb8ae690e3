-------------------------------- MODULE Trading --------------------------------
(***************************************************************************)
(* The trading loop: the broker's events reach the router, which passes    *)
(* each to the channels of the tasks it concerns and drops it where there  *)
(* is no room; the FastLoop and the Risk task each take theirs at their    *)
(* own pace, write the shared RiskState, and send orders through the OMS   *)
(* to the broker, whose fills come back as events.  The process may die    *)
(* and be started again from risk_state.json.                              *)
(*                                                                         *)
(* The OMS is reduced to a channel that may lose an order (module Oms has  *)
(* its bookkeeping), the broker to a book and its immediate-or-cancel      *)
(* orders.                                                                 *)
(***************************************************************************)
EXTENDS RiskTask, FastLoop, SequencesExt

CONSTANTS
  QueueCap,      \* capacity of the channels of the two tasks
  MaxWorking,    \* bound: orders at the broker at a time
  MaxEvents,     \* bound: events of the broker besides fills, and restarts
  MaxSteps,      \* bound: these and the fills together
  Kinds          \* bound: the kinds of events the broker sends besides fills

ASSUME TradingAssumption ==
  /\ {QueueCap, MaxWorking, MaxEvents, MaxSteps} \subseteq Nat
  /\ Kinds \subseteq {"Tick", "Heartbeat", "Halt", "Reject", "Reconnect", "StateSync"}

VARIABLES
  fast_q, risk_q,  \* the channels of the FastLoop and the Risk task
  working,         \* the orders at the broker
  book,            \* the broker's positions
  fill_count,      \* history: the fills so far, bounded by MaxFills
  event_count,     \* history: the other events and restarts so far
  diverged         \* history: a task missed a fill, or the process restarted

queues == <<fast_q, risk_q>>
broker == <<working, book, fill_count, event_count>>
tvars == <<shared, tracker, history, fast_vars, queues, broker, diverged>>

tasks == <<shared, tracker, history, fast_vars>>

-----------------------------------------------------------------------------
(* The router. *)

\* try_send to a channel: an event for which there is no room is dropped.
Offer(queue, event) == IF Len(queue) < QueueCap THEN Append(queue, event) ELSE queue

ToFast(kind) == kind \in {"Tick", "Fill", "Halt", "Reconnect", "StateSync"}
ToRisk(kind) == kind \in {"Fill", "Heartbeat", "Halt", "Reject", "Reconnect", "StateSync"}

\* Mutant of Route: the FastLoop is not sent the fills.
RouteFillsToRisk(event) ==
  /\ fast_q' = IF ToFast(event.kind) /\ event.kind # "Fill"
               THEN Offer(fast_q, event) ELSE fast_q
  /\ risk_q' = IF ToRisk(event.kind) THEN Offer(risk_q, event) ELSE risk_q

\* The DataRouter's match on the kind of an event.
Route(event) ==
  /\ fast_q' = IF ToFast(event.kind) THEN Offer(fast_q, event) ELSE fast_q
  /\ risk_q' = IF ToRisk(event.kind) THEN Offer(risk_q, event) ELSE risk_q

-----------------------------------------------------------------------------
(* The OMS and the broker. *)

\* The OMS takes an order and sends it, or fails to.
OmsForward ==
  /\ orders # <<>> /\ orders' = Tail(orders)
  /\ \/ Len(working) < MaxWorking /\ working' = Append(working, Head(orders))
     \/ UNCHANGED working
  /\ UNCHANGED <<risk_state, shutdown, today, tracker, history, fast_vars, queues,
                 book, fill_count, event_count, diverged>>

\* Bound: what the broker and the operator may still do.
Room == fill_count + event_count < MaxSteps
EventRoom == Room /\ event_count < MaxEvents

\* A working order is filled, wholly or in part, at some price.
BrokerFill(i, size, price) ==
  LET order == working[i]
      fill  == [side |-> order.side, size |-> size, price |-> price]
      event == [kind |-> "Fill", symbol |-> order.symbol, fill |-> fill]
  IN /\ Room /\ fill_count < MaxFills /\ fill_count' = fill_count + 1
     /\ size <= order.qty
     /\ Exact(book[order.symbol], fill)
     /\ book' = [book EXCEPT ![order.symbol] = After(@, fill)]
     /\ working' = IF size = order.qty THEN RemoveAt(working, i)
                   ELSE [working EXCEPT ![i].qty = @ - size]
     /\ Route(event)
     /\ diverged' = (diverged \/ Len(fast_q) >= QueueCap \/ Len(risk_q) >= QueueCap)
     /\ UNCHANGED <<tasks, event_count>>

\* What is left of an immediate-or-cancel order is cancelled.
BrokerExpire(i) ==
  /\ working' = RemoveAt(working, i)
  /\ UNCHANGED <<tasks, queues, book, fill_count, event_count, diverged>>

Listed == {s \in Symbol : book[s].qty # 0}

\* The other events: of a symbol, of the connection, and the StateSync, which
\* lists the positions of the book.
OtherEvents ==
  {event \in [kind: {"Tick"}, symbol: Symbol, price: Price]
             \cup [kind: {"Halt", "Reject"}, symbol: Symbol]
             \cup [kind: {"Heartbeat", "Reconnect"}]
             \cup {[kind |-> "StateSync", held |-> Restrict(book, Listed)]} :
     event.kind \in Kinds}

\* Bound: heartbeats go on for ever, the rest only up to MaxEvents.
BrokerEvent(event) ==
  /\ IF event.kind = "Heartbeat" THEN UNCHANGED event_count
     ELSE EventRoom /\ event_count' = event_count + 1
  /\ Route(event)
  /\ UNCHANGED <<tasks, working, book, fill_count, diverged>>

-----------------------------------------------------------------------------
(* The tasks take their events. *)

\* The FastLoop's next event, with the choices it depends on.
FastTick(event) ==
  /\ event.kind = "Tick"
  /\ UNCHANGED diverged
  /\ \/ \E blocked \in BOOLEAN : ClosedTick(event.symbol, event.price, blocked)
     \/ EmergencyTick(event.symbol)
     \/ \E blocked, signal \in BOOLEAN, size \in Affordable(event.price) :
          OpenTick(event.symbol, event.price, blocked, signal, size)

FastOther(event) ==
  \/ /\ event.kind = "Fill"
     /\ \E blocked \in BOOLEAN :
          /\ FastFill(event.symbol, event.fill, blocked)
          /\ diverged' = (diverged \/ blocked \/ event.symbol \in disabled_symbols)
  \/ event.kind = "Halt" /\ FastHalt(event.symbol) /\ UNCHANGED diverged
  \/ event.kind = "Reconnect" /\ FastReconnect /\ UNCHANGED diverged
  \/ event.kind = "StateSync" /\ FastStateSync(event.held) /\ UNCHANGED diverged
  \/ event.kind \in {"Reconnect", "StateSync"} /\ FastBlocked /\ UNCHANGED diverged

FastStep ==
  /\ fast_q # <<>> /\ fast_q' = Tail(fast_q)
  /\ LET event == Head(fast_q)
     IN \/ FastTick(event)
        \/ FastOther(event)
        \/ /\ CloseAll(IF event.kind = "Halt" THEN {event.symbol} ELSE {})
           /\ UNCHANGED diverged
  /\ UNCHANGED <<tracker, history, risk_q, broker>>

FastStop ==
  /\ FastShutdown
  /\ UNCHANGED <<tracker, history, queues, broker, diverged>>

\* The Risk task's next event.
RiskStep ==
  /\ risk_q # <<>> /\ risk_q' = Tail(risk_q)
  /\ LET event == Head(risk_q)
     IN CASE event.kind = "Fill"      -> RiskFill(event.symbol, event.fill, today)
          [] event.kind = "Heartbeat" -> RiskHeartbeat
          [] event.kind = "StateSync" -> RiskStateSync(Cardinality(DOMAIN event.held))
          [] event.kind = "Reject"    -> RiskReject(event.symbol)
          [] OTHER                    -> UNCHANGED <<shared, tracker>>
  /\ UNCHANGED <<history, fast_vars, fast_q, broker, diverged>>

-----------------------------------------------------------------------------
(* The process dies, or is shut down, and is started again: RiskState comes *)
(* from the file, without its PdtGuard; the trackers start at zero.        *)

Restart ==
  /\ EventRoom /\ event_count' = event_count + 1
  /\ daily_pnl' = saved.daily_pnl /\ current_max' = saved.current_max
  /\ open_positions' = saved.open_positions
  /\ blocklist' = saved.blocklist /\ monitor_only' = saved.monitor_only
  /\ unsettled' = saved.unsettled
  /\ trades' = <<>> /\ orders' = <<>> /\ shutdown' = FALSE
  /\ positions' = [s \in Symbol |-> [qty |-> 0, avg |-> 0, realized |-> 0]]
  /\ intraday_buy' = [s \in Symbol |-> 0]
  /\ global_realized' = 0
  /\ symbol_states' = [s \in Symbol |-> NewState]
  /\ global_realized_pnl' = 0 /\ global_unrealized_pnl' = 0
  /\ daily_target_reached' = FALSE
  /\ halted_symbols' = {} /\ disabled_symbols' = {} /\ fast_stopped' = FALSE
  /\ fast_q' = <<>> /\ risk_q' = <<>>
  /\ diverged' = TRUE
  /\ UNCHANGED <<saved, today, history, working, book, fill_count>>

-----------------------------------------------------------------------------
(* Specification. *)

TradingInit ==
  /\ RiskInit /\ FastInit /\ saved = NoFile
  /\ fast_q = <<>> /\ risk_q = <<>>
  /\ working = <<>> /\ book = [s \in Symbol |-> [qty |-> 0, avg |-> 0]]
  /\ fill_count = 0 /\ event_count = 0 /\ diverged = FALSE

Broker ==
  \/ \E i \in DOMAIN working :
       \/ \E size \in FillSize, price \in Price : BrokerFill(i, size, price)
       \/ BrokerExpire(i)
  \/ \E event \in OtherEvents : BrokerEvent(event)

TradingNext ==
  \/ OmsForward \/ Broker \/ FastStep \/ FastStop \/ RiskStep \/ Restart

TradingSpec == TradingInit /\ [][TradingNext]_tvars

-----------------------------------------------------------------------------
(* Properties. *)

\* Type invariant: the state of the composition.
TradingTypeOK ==
  /\ \A s \in Symbol : positions[s].qty \in Int /\ symbol_states[s].position \in Int
  /\ Len(fast_q) <= QueueCap /\ Len(risk_q) <= QueueCap /\ Len(orders) <= OrderCap
  /\ Len(working) <= MaxWorking
  /\ \A i \in DOMAIN working : working[i].qty > 0

\* The globals of the FastLoop, kept by adding differences event by event, are
\* the sums over its symbols: no tick, fill or StateSync, in any order, leaves
\* a part of a PnL behind.
GlobalsAreSums ==
  /\ global_realized_pnl =
       SumFunction([s \in Symbol |-> symbol_states[s].realized_pnl])
  /\ global_unrealized_pnl =
       SumFunction([s \in Symbol |-> symbol_states[s].unrealized_pnl])

\* The shares of s that an event adds to a position.
Shares(event, s) ==
  IF event.kind = "Fill" /\ event.symbol = s THEN Signed(event.fill) ELSE 0

Pending(queue, s) == SumFunction([n \in DOMAIN queue |-> Shares(queue[n], s)])

\* The two trackers, and the broker's book, differ by the fills still in the
\* channels and by nothing else, as long as no fill was dropped or skipped;
\* a StateSync anywhere between the fills does not disturb this.
TrackersFollowBook ==
  ~diverged /\ ~fast_stopped =>
    \A s \in Symbol :
      /\ symbol_states[s].position + Pending(fast_q, s) = book[s].qty
      /\ positions[s].qty + Pending(risk_q, s) = book[s].qty

\* Two tasks book every fill for themselves, each at its own pace, and both
\* write the daily PnL from what they booked.  When both have seen every fill
\* they agree: on the cost of each position, on what it realized and on the
\* realized PnL of the account, wherever ticks and StateSyncs fell between.
TrackersAgree ==
  (/\ ~diverged /\ ~fast_stopped
   /\ \A i \in DOMAIN fast_q : fast_q[i].kind # "Fill"
   /\ \A i \in DOMAIN risk_q : risk_q[i].kind # "Fill")
  => /\ global_realized = global_realized_pnl
     /\ \A s \in Symbol :
          /\ positions[s].avg = symbol_states[s].avg_cost
          /\ positions[s].realized = symbol_states[s].realized_pnl

\* The documented meaning of daily_pnl_usd, "Realized + Unrealized PnL".
DailyPnlIsTotal ==
  (~diverged /\ fast_q = <<>> /\ risk_q = <<>>)
    => daily_pnl = global_realized_pnl + global_unrealized_pnl

\* The FastLoop's announcement: once the limit is breached it ends with a close
\* order for every open position.
BreachClosesAll ==
  [][(~fast_stopped /\ fast_stopped' /\ ShouldTerminate) =>
       \A s \in OpenSymbols :
         \E i \in DOMAIN orders' :
           orders'[i].kind = "close" /\ orders'[i].symbol = s]_tvars

\* "Long-Only": the account never owes shares.
LongOnly == \A s \in Symbol : book[s].qty >= 0

\* "Default: Max 1 position".
MaxOnePosition == Cardinality(Listed) <= 1
=============================================================================
