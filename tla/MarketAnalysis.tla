----------------------------- MODULE MarketAnalysis -----------------------------
(***************************************************************************)
(* What the SlowLoop concludes from its events (app_runtime/src/lib.rs:    *)
(* 732-822): for a symbol on the watchlist, the daily context and the      *)
(* confirmation of the trend; for the market, the regime.  The promotions  *)
(* and demotions of the same events are in SlowLoop, the write to          *)
(* monitor_only in DataQuality.                                            *)
(*                                                                         *)
(* The application calls neither update_sector_momentum, nor the updates   *)
(* of the 4h and 15m answers, nor those of the regime other than the       *)
(* calendar's: they are actions of a caller of the engines.                *)
(***************************************************************************)
EXTENDS SymbolAnalysis, MarketRegime, TimeRingBuffer, FiniteSetsExt, SequencesExt

CONSTANTS
  Price,          \* prices of the symbol's trades
  Snap,           \* Snapshots: [volume, average, news, ema, resistance]
  Sector,         \* changes of a favorable sector
  RegimeInput,    \* updates of the regime: <<input, value>>
  PriceHistory,   \* capacity of the price history, 1000
  ChurnWindow,    \* churn_window_minutes, in the unit of source times
  Clock,          \* [source time -> [day, minute]] in New York
  MaxTime,        \* bound: the last source time
  MaxInputs       \* bound: updates of the engines

ASSUME MarketAssumption ==
  /\ Price \subseteq Nat \ {0} /\ Sector \subseteq Int /\ ChurnWindow \in Nat
  /\ PriceHistory \in Nat \ {0} /\ MaxTime \in Nat \ {0} /\ MaxInputs \in Nat
  /\ Snap \subseteq [volume : Nat, average : Nat, news : BOOLEAN, ema : Nat, resistance : Nat]
  /\ RegimeInput \subseteq ({"atr", "breadth", "baseline", "spread"} \X Nat)
                     \cup ({"quality"} \X {"Ok", "Degraded", "Bad"})

VARIABLES
  has_context,    \* context_engines holds the symbol
  ctx,            \* its ContextEngine
  prices,         \* price_history of the symbol
  mtf,            \* its MtfEngine
  published,      \* context and MTF result in the watchlist, and when they were set
  regime,         \* the RegimeEngine
  market_regime,  \* watchlist.current_regime
  now,            \* the source time of the last event
  inputs,         \* updates so far
  ticks,          \* history: [at, price] of every Tick
  told            \* history: what the Snapshots and the callers last said, and when

symbol_vars == <<has_context, ctx, prices, mtf, published, ticks, told>>
regime_vars == <<regime, market_regime>>
vars == <<symbol_vars, regime_vars, now, inputs>>

Frame == {"weekly", "daily", "four_hour", "quarter"}

-----------------------------------------------------------------------------
(* The events of the symbol. *)

\* An event at the same time as the last or later.
Input(ts) ==
  /\ inputs < MaxInputs /\ inputs' = inputs + 1
  /\ now' = ts

\* watchlist.update_symbol_context with what the engines compute.
Publish(ts) ==
  published' = [context |-> EvaluateState(ctx'), mtf |-> MtfPass(mtf', ts), at |-> ts]

\* A Tick enters the price history, which is never pruned; its extremes say
\* whether the price churns.
OnTick(ts, price) ==
  /\ Input(ts)
  /\ has_context' = TRUE
  /\ prices' = PushItem(prices, ts, price)
  /\ LET range == MinMax(prices')
     IN ctx' = UpdatePriceWindow(ctx, range.low, range.high)
  /\ mtf' = [mtf EXCEPT !.price = price]
  /\ Publish(ts)
  /\ ticks' = Append(ticks, [at |-> ts, price |-> price])
  /\ UNCHANGED <<regime_vars, told>>

\* Mutant of TakeVolume: news once heard stays.
TakeVolumeKeepsNews(snap) ==
  ctx' = IF has_context THEN [UpdateVolume(ctx, snap) EXCEPT !.news = @ \/ ctx.news] ELSE ctx

\* context_engines.get_mut: the volume and the news of a Snapshot are lost on a
\* symbol that has no engine yet.
TakeVolume(snap) == ctx' = IF has_context THEN UpdateVolume(ctx, snap) ELSE ctx

\* A Snapshot.  Its levels reach the MTF engine in any case, and the engine that
\* was missing exists afterwards.
OnSnapshot(ts, snap) ==
  /\ Input(ts)
  /\ TakeVolume(snap)
  /\ has_context' = TRUE
  /\ mtf' = [mtf EXCEPT !.weekly = SetLevel(@, snap.ema, ts),
                        !.daily  = SetLevel(@, snap.resistance, ts)]
  /\ Publish(ts)
  /\ told' = [told EXCEPT
       !.snap = IF has_context THEN [volume |-> snap.volume, average |-> snap.average,
                                     news |-> snap.news] ELSE @,
       !.at["weekly"] = IF snap.ema > 0 THEN ts ELSE @,
       !.at["daily"]  = IF snap.resistance > 0 THEN ts ELSE @]
  /\ UNCHANGED <<prices, ticks, regime_vars>>

\* update_4h_structure and update_15m_pullback
UpdateAnswer(ts, frame, yes) ==
  /\ Input(ts)
  /\ mtf' = [mtf EXCEPT ![frame] = SetAnswer(yes, ts)]
  /\ told' = [told EXCEPT !.at[frame] = IF yes THEN ts ELSE 0]
  /\ UNCHANGED <<has_context, ctx, prices, published, ticks, regime_vars>>

\* update_sector_momentum
UpdateSectorMomentum(change) ==
  /\ Input(now)
  /\ has_context
  /\ ctx' = UpdateSector(ctx, change)
  /\ told' = [told EXCEPT !.sector = change]
  /\ UNCHANGED <<has_context, prices, mtf, published, ticks, regime_vars>>

-----------------------------------------------------------------------------
(* The regime. *)

\* A Heartbeat takes the calendar into the regime and publishes it.
OnHeartbeat(ts) ==
  /\ Input(ts)
  /\ LET active == CalendarActive(Clock[ts].day, Clock[ts].minute, Clock[ts].day - Clock[1].day)
     IN regime' = UpdateRegimeInput(regime, "calendar", active)
  /\ market_regime' = regime'.state
  /\ UNCHANGED symbol_vars

\* The other updates of the RegimeEngine.
UpdateMarket(input, value) ==
  /\ Input(now)
  /\ regime' = UpdateRegimeInput(regime, input, value)
  /\ UNCHANGED <<symbol_vars, market_regime>>

-----------------------------------------------------------------------------
(* Specification. *)

Init ==
  /\ has_context = FALSE /\ ctx = NewContext
  /\ prices = NewRing(PriceHistory, ChurnWindow)
  /\ mtf = NewMtf
  /\ published = [context |-> "None", mtf |-> FALSE, at |-> 0]
  /\ regime = NewRegime /\ market_regime = "Normal"
  /\ now = 1 /\ inputs = 0
  /\ ticks = <<>>
  /\ told = [snap |-> [volume |-> 0, average |-> 0, news |-> FALSE], sector |-> 0,
             at |-> [f \in Frame |-> 0]]

Next ==
  \/ \E ts \in now..MaxTime :
       \/ \E price \in Price : OnTick(ts, price)
       \/ \E snap \in Snap : OnSnapshot(ts, snap)
       \/ \E frame \in {"four_hour", "quarter"}, yes \in BOOLEAN : UpdateAnswer(ts, frame, yes)
       \/ OnHeartbeat(ts)
  \/ \E change \in Sector : UpdateSectorMomentum(change)
  \/ \E update \in RegimeInput : UpdateMarket(update[1], update[2])

Spec == Init /\ [][Next]_vars

-----------------------------------------------------------------------------
(* Properties. *)

\* The prices move enough: by ChurnMax of the highest, between two of them.
Moves(recent) ==
  \/ recent = <<>>
  \/ \E i, j \in DOMAIN recent :
       /\ \A k \in DOMAIN recent : recent[k].price <= recent[i].price
       /\ 1000 * (recent[i].price - recent[j].price) >= ChurnMax * recent[i].price

LastTicks == SubSeq(ticks, Max({1, Len(ticks) - PriceHistory + 1}), Len(ticks))

\* A Play is published only when what the bridge last said earns it: twice the
\* volume with news or a favorable sector, or more than three times, on a price
\* that moved among the last PriceHistory trades; nothing said before counts.
PlayEarned ==
  [][published' # published /\ published'.context = "Play" =>
       /\ Moves(LastTicks)'
       /\ \/ told'.snap.volume > StrongRatio * told'.snap.average
          \/ /\ told'.snap.volume >= PlayRatio * told'.snap.average
             /\ told'.snap.news \/ (told'.sector > 0 /\ told'.sector >= SectorMin)
       /\ told'.snap.average > 0]_vars

\* A strict confirmation is published only when all four answers were given, and
\* given within the staleness limit: a Snapshot without a level does not renew it.
ConfirmationFresh ==
  [][published' # published /\ published'.mtf /\ RequireAll =>
       \A f \in Frame : told'.at[f] # 0 /\ published'.at - told'.at[f] <= StaleAfter]_vars

\* The regime is the worst that any of its inputs, as last updated, calls for, in
\* whatever order they came; the last Heartbeat's answer is the calendar input.
Calls(severity) ==
  \/ /\ severity = 2
     /\ \/ regime.quality # "Ok"
        \/ regime.atr >= RegimeParams.atr_caution_max
        \/ regime.breadth <= RegimeParams.breadth_caution_min
        \/ WidensBy(regime, RegimeParams.widening_riskoff)
  \/ /\ severity = 1
     /\ \/ regime.calendar
        \/ regime.atr > RegimeParams.atr_normal_max
        \/ regime.breadth < RegimeParams.breadth_normal_min
        \/ WidensBy(regime, RegimeParams.widening_caution)

RegimeIsWorst ==
  LET worst == Max({0} \cup {severity \in 1..2 : Calls(severity)})
  IN regime.state = <<"Normal", "Caution", "RiskOff">>[worst + 1]

\* configs/default.toml says of the two limits "<= 0.28% -> Caution, else Risk-Off"
\* and ">= 35% -> Caution, else Risk-Off": at the limits the regime is not yet
\* Risk-Off.
LimitsAreCaution ==
  /\ regime.quality = "Ok" /\ ~WidensBy(regime, RegimeParams.widening_riskoff)
  /\ regime.atr <= RegimeParams.atr_caution_max
  /\ regime.breadth >= RegimeParams.breadth_caution_min
  => regime.state # "RiskOff"

\* context_engine says a price churns that moved less than the limit "for
\* churn_window_minutes": a Play is not published on a price that did not move in
\* that window.
ChurnIsRecent ==
  [][published' # published /\ published'.context = "Play" =>
       Moves(SelectSeq(ticks', LAMBDA t : t.at >= now' - ChurnWindow))]_vars

\* The comment at the Snapshot arm, "Update context engine volume from snapshot":
\* the context published with a Snapshot is that of its volume.
SnapshotCounts ==
  [][\A snap \in Snap, ts \in 1..MaxTime :
       OnSnapshot(ts, snap) => ctx'.volume = snap.volume]_vars

\* calendar.rs says the calendar is on "within +/- window of each event", also
\* when the window begins on the day before.
CalendarCoversWindow ==
  \A event \in Events, t \in {ts \in 1..MaxTime : ts = now} :
    (CalendarFile = "loaded"
      /\ LET away == 1440 * (Clock[t].day - event.day) + Clock[t].minute - EventTime(event.name)
         IN away >= -event.before /\ away <= event.after)
    => CalendarActive(Clock[t].day, Clock[t].minute, 0)
=============================================================================
