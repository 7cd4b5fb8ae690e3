------------------------------ MODULE MarketRegime ------------------------------
(***************************************************************************)
(* The regime of the market, RegimeEngine of regime_engine/src/lib.rs, and *)
(* the calendar of high-impact events that feeds it,                       *)
(* risk_engine/src/calendar.rs.  Ratios are in hundredths of a percent,    *)
(* times of day in minutes.                                                *)
(***************************************************************************)
EXTENDS Integers

CONSTANTS
  RegimeParams,   \* the limits of configs/default.toml, [regime]
  Events,         \* the events of the calendar file: [day, name, before, after]
  CalendarFile,   \* what loading it comes to: "loaded", "missing" or "broken"
  StaleDays       \* seven days

-----------------------------------------------------------------------------
(* CalendarRisk. *)

\* event_time
EventTime(name) ==
  CASE name \in {"NFP", "CPI", "PPI", "GDP"} -> 510
    [] name \in {"FOMC", "FOMC Minutes"} -> 840
    [] name = "OPEC" -> 540
    [] OTHER -> 570

\* The time of day after or before a number of minutes, past midnight.
TimeOfDay(minute) == minute % 1440

\* The window of an event, both ends taken as times of the event's day.
InWindow(event, day, minute) ==
  /\ event.day = day
  /\ minute >= TimeOfDay(EventTime(event.name) - event.before)
  /\ minute <= TimeOfDay(EventTime(event.name) + event.after)

\* is_active, `age` days after the file was loaded: a file that could not be
\* parsed counts as loaded at the epoch, one that is missing as loaded and empty.
CalendarActive(day, minute, age) ==
  \/ CalendarFile = "broken"
  \/ age > StaleDays
  \/ CalendarFile = "loaded" /\ \E event \in Events : InWindow(event, day, minute)

-----------------------------------------------------------------------------
(* RegimeEngine. *)

\* RegimeEngine::new
NewRegime == [atr |-> 0, breadth |-> 4500, baseline |-> 0, spread |-> 0,
              calendar |-> FALSE, quality |-> "Ok", state |-> "Normal"]

\* The limits accept a market nothing is known of: the state of `new` is its own.
ASSUME RegimeAssumption ==
  /\ RegimeParams.atr_normal_max \in Nat /\ RegimeParams.atr_caution_max \in Nat \ {0}
  /\ RegimeParams.breadth_normal_min \in Nat /\ RegimeParams.breadth_normal_min <= 4500
  /\ RegimeParams.breadth_caution_min \in Nat /\ RegimeParams.breadth_caution_min < 4500

\* The widening of the spread, times the baseline, against a limit.
WidensBy(r, limit) == r.baseline > 0 /\ 10000 * (r.spread - r.baseline) >= limit * r.baseline

\* calculate_state
CalculateState(r) ==
  IF \/ r.quality # "Ok"
     \/ r.atr >= RegimeParams.atr_caution_max
     \/ r.breadth <= RegimeParams.breadth_caution_min
     \/ WidensBy(r, RegimeParams.widening_riskoff)
  THEN "RiskOff"
  ELSE IF \/ r.calendar
          \/ r.atr > RegimeParams.atr_normal_max
          \/ r.breadth < RegimeParams.breadth_normal_min
          \/ WidensBy(r, RegimeParams.widening_caution)
  THEN "Caution" ELSE "Normal"

\* recalc, at the end of every update.
Recalc(r) == [r EXCEPT !.state = CalculateState(r)]

\* Mutant of UpdateRegimeInput: the update of the spread baseline forgets recalc.
UpdateRegimeInputStale(r, input, value) ==
  IF input = "baseline" THEN [r EXCEPT ![input] = value]
  ELSE Recalc([r EXCEPT ![input] = value])

\* set_spread_baseline, update_current_spread, update_atr, update_breadth,
\* update_calendar_risk and update_data_quality.
UpdateRegimeInput(r, input, value) == Recalc([r EXCEPT ![input] = value])
=============================================================================
