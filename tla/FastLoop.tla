-------------------------------- MODULE FastLoop --------------------------------
(***************************************************************************)
(* The FastLoop task of app_runtime/src/lib.rs:839-1222 and the TapeEngine *)
(* of tape_engine/src/lib.rs it owns.  It keeps positions of its own,      *)
(* marks them to the last price, writes the daily PnL, sends entries and   *)
(* emergency exits, saves RiskState on fills, and closes every position    *)
(* before the first event that finds the loss limit breached.              *)
(*                                                                         *)
(* What the tape, the clock and the sizer's caps decide is a choice:       *)
(* whether the session is open, a halt lasted five minutes, the flicker    *)
(* guard blocks the symbol, the gates after check_entry let the entry      *)
(* pass, and how many of the affordable shares the sizer takes.            *)
(***************************************************************************)
EXTENDS RiskState, TradeAccounting

CONSTANTS
  TierA,          \* the symbols update_tier moved to Tier A: none in the application
  DailyTarget,    \* 50.0, the realized PnL that halves the size
  GrossTarget,    \* account_capital * 0.10, the one that quarters it
  MaxOrder        \* bound: shares the sizer takes

ASSUME FastLoopAssumption ==
  /\ TierA \subseteq Symbol
  /\ {DailyTarget, GrossTarget, MaxOrder} \subseteq Nat

VARIABLES
  symbol_states,      \* position, avg_cost, realized_pnl, unrealized_pnl, tape.price
  global_realized_pnl,
  global_unrealized_pnl,
  daily_target_reached,
  halted_symbols,     \* halted_symbols_fast
  disabled_symbols,   \* disabled_symbols_session
  fast_stopped,       \* the loop has ended
  saved               \* risk_state.json

pnl_vars == <<symbol_states, global_realized_pnl, global_unrealized_pnl,
              daily_target_reached>>
session_vars == <<halted_symbols, disabled_symbols>>
fast_vars == <<pnl_vars, session_vars, fast_stopped, saved>>

NewState == [position |-> 0, avg_cost |-> 0, realized_pnl |-> 0,
             unrealized_pnl |-> 0, price |-> 0]

-----------------------------------------------------------------------------
(* TapeEngine. *)

Position(s) == [qty |-> symbol_states[s].position, avg |-> symbol_states[s].avg_cost]
OpenSymbols == {s \in Symbol : symbol_states[s].position # 0}

\* The unrealized PnL of a symbol in its new state replaces the old one in the
\* global, and the total becomes the daily PnL.
Mark(s, state, price, realized) ==
  LET unrealized == UnrealizedPnl(state.position, state.avg_cost, price)
  IN /\ symbol_states' = [symbol_states EXCEPT
                            ![s] = [state EXCEPT !.unrealized_pnl = unrealized]]
     /\ global_realized_pnl' = realized
     /\ global_unrealized_pnl' =
          global_unrealized_pnl + unrealized - symbol_states[s].unrealized_pnl
     /\ UpdatePnl(global_realized_pnl' + global_unrealized_pnl')

\* process_tick up to the entry logic: a held symbol is marked to the price.
ProcessTick(s, price) ==
  LET state == [symbol_states[s] EXCEPT !.price = price]
  IN IF state.position # 0
     THEN Mark(s, state, price, global_realized_pnl)
     ELSE /\ symbol_states' = [symbol_states EXCEPT ![s] = state]
          /\ UNCHANGED <<global_realized_pnl, global_unrealized_pnl, limits>>

\* Mutant of ProcessFill: the fill is booked at the last price of the tape.
ProcessFillAtTape(s, fill) ==
  LET old   == symbol_states[s]
      price == IF old.price > 0 THEN old.price ELSE fill.price
      taped == [fill EXCEPT !.price = price]
      new   == After(Position(s), taped)
  IN Mark(s, [old EXCEPT !.position = new.qty, !.avg_cost = new.avg,
                         !.realized_pnl = @ + Booked(Position(s), taped)],
          price, global_realized_pnl + Booked(Position(s), taped))

\* process_fill: the position is marked to the last price of the tape, if any.
ProcessFill(s, fill) ==
  LET new == After(Position(s), fill)
      pnl == Booked(Position(s), fill)
      old == symbol_states[s]
  IN Mark(s, [old EXCEPT !.position = new.qty, !.avg_cost = new.avg,
                         !.realized_pnl = @ + pnl],
          IF old.price > 0 THEN old.price ELSE fill.price,
          global_realized_pnl + pnl)

\* Mutant of ProcessSync: the global PnL survives the positions.
ProcessSyncKeepsGlobal(held) ==
  /\ symbol_states' =
       [s \in Symbol |->
          [symbol_states[s] EXCEPT
             !.position = IF s \in DOMAIN held THEN held[s].qty ELSE 0,
             !.avg_cost = IF s \in DOMAIN held THEN held[s].avg ELSE 0,
             !.unrealized_pnl = 0]]
  /\ UNCHANGED <<global_realized_pnl, global_unrealized_pnl, daily_target_reached, limits>>

\* on_event(StateSync): the broker's positions replace all others.
ProcessSync(held) ==
  /\ symbol_states' =
       [s \in Symbol |->
          [symbol_states[s] EXCEPT
             !.position = IF s \in DOMAIN held THEN held[s].qty ELSE 0,
             !.avg_cost = IF s \in DOMAIN held THEN held[s].avg ELSE 0,
             !.unrealized_pnl = 0]]
  /\ global_unrealized_pnl' = 0
  /\ UNCHANGED <<global_realized_pnl, daily_target_reached, limits>>

\* evaluate_entry_logic, after the tick is booked; `signal` stands for the gates
\* of steps 2 to 11.
EntryPasses(s, signal, breached) ==
  s \in TierA /\ signal /\ CheckEntry(s, OpenSymbols, today, breached)

-----------------------------------------------------------------------------
(* Sizing. *)

AtLeastOne(n) == IF n < 1 THEN 1 ELSE n

\* calculate_size: any number of the shares that the available cash buys.
Affordable(price) == {n \in 0..MaxOrder : n * price <= AvailableCash(today)}

\* The size after the reductions for a reached target: at least one share.
Reduced(n) ==
  LET half == IF daily_target_reached THEN AtLeastOne(n \div 2) ELSE n
  IN IF global_realized_pnl >= GrossTarget /\ GrossTarget > 0
     THEN AtLeastOne(half \div 4) ELSE half

Order(kind, s, side, qty) ==
  [kind |-> kind, symbol |-> s, side |-> side, qty |-> qty]

-----------------------------------------------------------------------------
(* The events.  None is taken while the loss limit is breached. *)

Running == ~fast_stopped /\ ~ShouldTerminate

\* The first event under a breach closes every position and ends the loop;
\* symbols are taken in the order of the map.  `halts` is the event's symbol
\* if it is a Halt, which is noted first.
CloseAll(halts) ==
  /\ ~fast_stopped /\ ShouldTerminate
  /\ \E order \in {p \in [1..Cardinality(OpenSymbols) -> OpenSymbols] :
                     \A i, j \in DOMAIN p : i # j => p[i] # p[j]} :
       SendOrders([i \in DOMAIN order |->
         LET held == symbol_states[order[i]].position
         IN Order("close", order[i], IF held > 0 THEN "Ask" ELSE "Bid", Magnitude(held))])
  /\ fast_stopped' = TRUE
  /\ halted_symbols' = halted_symbols \cup halts
  /\ UNCHANGED <<risk_state, shutdown, today, pnl_vars, disabled_symbols, saved>>

\* A Tick outside the entry windows only updates the state.
ClosedTick(s, price, blocked) ==
  /\ Running
  /\ IF blocked THEN UNCHANGED <<pnl_vars, limits>>
     ELSE ProcessTick(s, price) /\ UNCHANGED daily_target_reached
  /\ UNCHANGED <<entry_rules, trades, unsettled, orders, shutdown, today,
                 session_vars, fast_stopped, saved>>

\* A Tick that ends a halt of five minutes or more: the position is sold and the
\* symbol disabled for the session.
EmergencyTick(s) ==
  /\ Running
  /\ s \in halted_symbols
  /\ LET held == symbol_states[s].position
     IN SendOrders(IF held > 0 THEN <<Order("exit", s, "Ask", held)>> ELSE <<>>)
  /\ halted_symbols' = halted_symbols \ {s}
  /\ disabled_symbols' = disabled_symbols \cup {s}
  /\ UNCHANGED <<risk_state, shutdown, today, pnl_vars, fast_stopped, saved>>

\* Any other Tick is skipped for a disabled symbol; else it is booked, and sends
\* an entry when every gate lets it pass.
OpenTick(s, price, blocked, signal, size) ==
  /\ Running
  /\ halted_symbols' = halted_symbols \ {s}
  /\ IF s \in disabled_symbols \/ blocked
     THEN UNCHANGED <<pnl_vars, limits, orders>>
     ELSE /\ ProcessTick(s, price)
          /\ UNCHANGED daily_target_reached
          /\ IF /\ EntryPasses(s, signal, Breached(daily_pnl', current_max'))
                /\ Reduced(size) > 0
             THEN SendOrders(<<Order("entry", s, "Bid", Reduced(size))>>)
             ELSE UNCHANGED orders
  /\ UNCHANGED <<entry_rules, trades, unsettled, shutdown, today,
                 disabled_symbols, fast_stopped, saved>>

\* A Fill of a disabled symbol is skipped; one of a symbol blocked by the
\* flicker guard is not booked; RiskState is saved after the rest.
FastFill(s, fill, blocked) ==
  /\ Running
  /\ IF s \in disabled_symbols
     THEN UNCHANGED <<pnl_vars, limits, saved>>
     ELSE /\ IF blocked
             THEN UNCHANGED <<symbol_states, global_realized_pnl,
                              global_unrealized_pnl, limits>>
             ELSE ProcessFill(s, fill)
          /\ daily_target_reached' =
               (daily_target_reached \/ global_realized_pnl' >= DailyTarget)
          /\ saved' = [daily_pnl |-> daily_pnl', current_max |-> current_max',
                       open_positions |-> open_positions, blocklist |-> blocklist,
                       monitor_only |-> monitor_only, unsettled |-> unsettled]
  /\ UNCHANGED <<entry_rules, trades, unsettled, orders, shutdown, today,
                 session_vars, fast_stopped>>

FastStateSync(held) ==
  /\ Running
  /\ ProcessSync(held)
  /\ UNCHANGED <<entry_rules, trades, unsettled, orders, shutdown, today,
                 session_vars, fast_stopped, saved>>

\* An event of the connection that the flicker guard blocks is skipped.
FastBlocked ==
  /\ Running
  /\ UNCHANGED <<shared, pnl_vars, session_vars, fast_stopped, saved>>

\* Reconnect forgets the tape of every symbol.
FastReconnect ==
  /\ Running
  /\ symbol_states' = [s \in Symbol |-> [symbol_states[s] EXCEPT !.price = 0]]
  /\ UNCHANGED <<risk_state, orders, shutdown, today, global_realized_pnl,
                 global_unrealized_pnl, daily_target_reached, session_vars,
                 fast_stopped, saved>>

FastHalt(s) ==
  /\ Running
  /\ halted_symbols' = halted_symbols \cup {s}
  /\ UNCHANGED <<risk_state, orders, shutdown, today, pnl_vars,
                 disabled_symbols, fast_stopped, saved>>

\* The cancelled token ends the loop, whatever waits in its channel.
FastShutdown ==
  /\ ~fast_stopped /\ shutdown
  /\ fast_stopped' = TRUE
  /\ UNCHANGED <<shared, pnl_vars, session_vars, saved>>

-----------------------------------------------------------------------------

FastInit ==
  /\ symbol_states = [s \in Symbol |-> NewState]
  /\ global_realized_pnl = 0 /\ global_unrealized_pnl = 0
  /\ daily_target_reached = FALSE
  /\ halted_symbols = {} /\ disabled_symbols = {}
  /\ fast_stopped = FALSE

NoFile == [daily_pnl |-> 0, current_max |-> InitialMaxLoss, open_positions |-> 0,
           blocklist |-> {}, monitor_only |-> FALSE,
           unsettled |-> [d \in 1..(MaxDay + 1) |-> 0]]
=============================================================================
