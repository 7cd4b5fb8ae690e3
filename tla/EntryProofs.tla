------------------------------ MODULE EntryProofs ------------------------------
(***************************************************************************)
(* Proofs about EntryPipeline: a block of the guards lasts until its end   *)
(* has been seen, a symbol earns its activity anew after every reconnect,  *)
(* and the ring of the flicker guard is a sliding window, for every set of *)
(* prices, quotes, metrics and limits and every size of the ring.          *)
(***************************************************************************)
EXTENDS EntryPipeline, Aggregates, SequenceTheorems, TLAPS

-----------------------------------------------------------------------------
(* Percentages. *)

\* Max of zero and an integer is an integer.
LEMMA MaxWithZero ==
  ASSUME NEW x \in Int
  PROVE  Max({0, x}) \in Int
<1>1. 0 \in Int
  OBVIOUS
<1> QED BY <1>1, MaxOfTwo, Zenon

\* A percentage is between 0 and 100, whatever it is taken of.
LEMMA PercentageRange ==
  ASSUME NEW x \in Int
  PROVE  Percentage(x) \in 0..100
<1> DEFINE capped == Min({x, 100})
<1>1. capped \in Int /\ capped <= 100
  BY MinOfTwo
<1>2. Percentage(x) = Max({0, capped})
  BY DEF Percentage
<1> HIDE DEF capped
<1>3. Percentage(x) \in Int /\ Percentage(x) >= 0 /\ Percentage(x) \in {0, capped}
  BY <1>1, <1>2, MaxOfTwo
<1> QED BY <1>1, <1>3

-----------------------------------------------------------------------------
(* The state. *)

\* The guard of a symbol, whatever its window holds.
IsGuard(g) ==
  /\ g = [flicker |-> g.flicker, blocked_until |-> g.blocked_until,
          block_reason |-> g.block_reason]
  /\ g.blocked_until \in Nat

GuardOK == now \in Nat /\ IsGuard(guard)

\* The guard of a new symbol is one.
LEMMA NewGuardIsGuard == IsGuard(NewGuard)
  BY DEF IsGuard, NewGuard

\* Starting a block keeps a guard a guard.
LEMMA RejectedIsGuard ==
  ASSUME NEW g, IsGuard(g), NEW ts \in Nat, NEW reason
  PROVE  IsGuard(Rejected(g, ts, reason).guard)
<1>1. Rejected(g, ts, reason).guard
        = [flicker |-> g.flicker, blocked_until |-> ts + BlockTtl, block_reason |-> reason]
  BY Zenon DEF IsGuard, Rejected, Outcome
<1>2. ts + BlockTtl \in Nat
  BY GuardAssumption
<1> QED BY <1>1, <1>2 DEF IsGuard

\* track_event keeps a guard a guard, and within a block it leaves it alone and
\* answers with its reason.
LEMMA TrackEventResult ==
  ASSUME NEW g, IsGuard(g), NEW ts \in Nat
  PROVE  /\ IsGuard(TrackEvent(g, ts).guard)
         /\ InBlock(g, ts) => TrackEvent(g, ts) = Outcome(g, g.block_reason)
<1> DEFINE ring == PruneExpired(PushItem(g.flicker, ts, 0), ts)
           tracked == [g EXCEPT !.flicker = ring]
<1>1. IsGuard(tracked)
  BY DEF IsGuard
<1>2. CASE InBlock(g, ts)
  <2>1. TrackEvent(g, ts) = Outcome(g, g.block_reason)
    BY <1>2 DEF TrackEvent
  <2> QED BY <2>1 DEF Outcome
<1>3. CASE ~InBlock(g, ts) /\ Length(ring) > MaxFlicker
  <2>1. TrackEvent(g, ts) = Rejected(tracked, ts, "GuardFlicker")
    BY <1>3 DEF TrackEvent
  <2> HIDE DEF tracked
  <2> QED BY <1>1, <1>3, <2>1, RejectedIsGuard
<1>4. CASE ~InBlock(g, ts) /\ ~(Length(ring) > MaxFlicker)
  <2>1. TrackEvent(g, ts) = Outcome(tracked, "None")
    BY <1>4 DEF TrackEvent
  <2> HIDE DEF tracked
  <2> QED BY <1>1, <1>4, <2>1 DEF Outcome
<1> QED BY <1>2, <1>3, <1>4

\* So does check_execution.
LEMMA CheckExecutionResult ==
  ASSUME NEW g, IsGuard(g), NEW ts \in Nat, NEW quote, NEW price
  PROVE  IsGuard(CheckExecution(g, ts, ts, quote, price).guard)
<1> DEFINE failed == FailedGuard(ts, ts, quote, price)
           forgotten == [g EXCEPT !.block_reason = "None"]
<1>1. CASE InBlock(g, ts)
  BY <1>1 DEF CheckExecution, Outcome
<1>2. CASE ~InBlock(g, ts) /\ failed # "None"
  <2>1. CheckExecution(g, ts, ts, quote, price) = Rejected(g, ts, failed)
    BY <1>2 DEF CheckExecution
  <2> HIDE DEF failed
  <2> QED BY <2>1, RejectedIsGuard
<1>3. CASE ~InBlock(g, ts) /\ failed = "None"
  <2>1. CheckExecution(g, ts, ts, quote, price) = Outcome(forgotten, "None")
    BY <1>3 DEF CheckExecution
  <2>2. IsGuard(forgotten)
    BY DEF IsGuard
  <2> QED BY <2>1, <2>2 DEF Outcome
<1> QED BY <1>1, <1>2, <1>3

\* And so does the whole entry logic, which asks it or not.
LEMMA EntryLogicResult ==
  ASSUME NEW g, IsGuard(g), NEW ts \in Nat, NEW price, NEW size, NEW admitted, NEW held
  PROVE  IsGuard(EntryLogic(g, ts, price, size, admitted, held).guard)
<1> DEFINE checked == CheckExecution(g, ts, ts, tape.quote, price)
<1>1. IsGuard(checked.guard)
  BY CheckExecutionResult
<1>2. \/ EntryLogic(g, ts, price, size, admitted, held).guard = g
      \/ EntryLogic(g, ts, price, size, admitted, held).guard = checked.guard
  BY DEF EntryLogic, Outcome
<1> QED BY <1>1, <1>2

\* What a market event does to the guard and the clock.
LEMMA SeenTime ==
  ASSUME now \in Nat, NEW ts \in Time, Seen(ts)
  PROVE  ts \in Nat /\ now' \in Nat /\ ts <= now'
<1>1. ts \in Nat
  BY EntryAssumption DEF Time
<1> QED BY <1>1, MaxOfTwo DEF Seen

\* The guard stays a guard, and the clock never runs backwards.
LEMMA GuardOKHolds == Spec => []GuardOK
<1>1. Init => GuardOK
  BY NewGuardIsGuard DEF Init, GuardOK
<1>2. GuardOK /\ [Next]_vars => GuardOK'
  <2> SUFFICES ASSUME GuardOK, [Next]_vars PROVE GuardOK'
    OBVIOUS
  <2> USE DEF GuardOK
  <2>1. ASSUME NEW ts \in Time, NEW price \in Price, NEW cash \in Cash,
               NEW tenth \in TenthEarned, NEW admitted \in BOOLEAN,
               NEW held \in HeldElsewhere, OnTick(ts, price, cash, tenth, admitted, held)
        PROVE  GuardOK'
    <3>1. Seen(ts)
      BY <2>1 DEF OnTick
    <3>2. ts \in Nat /\ now' \in Nat
      BY <3>1, SeenTime
    <3> DEFINE tracked == TrackEvent(guard, ts)
               size == ReducedSize(CalculateSize(price, cash), tenth)
               decided == EntryLogic(tracked.guard, ts, price, size, admitted, held)
    <3>3. IsGuard(tracked.guard)
      BY <3>2, TrackEventResult
    <3>4. IsGuard(decided.guard)
      <4> HIDE DEF tracked, size
      <4> QED BY <3>2, <3>3, EntryLogicResult
    <3>5. guard' = IF tracked.reason = "None" THEN decided.guard ELSE tracked.guard
      BY <2>1 DEF OnTick
    <3>6. IsGuard(guard')
      <4> HIDE DEF tracked, decided
      <4> QED BY <3>3, <3>4, <3>5
    <3> QED BY <3>2, <3>6 DEF IsGuard
  <2>2. ASSUME NEW ts \in Time, Seen(ts), guard' = TrackEvent(guard, ts).guard
        PROVE  GuardOK'
    <3>1. ts \in Nat /\ now' \in Nat
      BY <2>2, SeenTime
    <3>2. IsGuard(guard')
      BY <2>2, <3>1, TrackEventResult
    <3> QED BY <3>1, <3>2 DEF IsGuard
  <2>3. CASE MarketEvent
    BY <2>1, <2>2, <2>3 DEF MarketEvent, OnSnapshot, OnActivity
  <2>4. CASE UNCHANGED <<guard, now>>
    BY <2>4 DEF IsGuard
  <2>5. CASE OnReconnect \/ SlowSide \/ UNCHANGED vars
    BY <2>4, <2>5 DEF OnReconnect, SlowSide, UpdateColdStart, UpdateTier,
       UpdateDailyContext, UpdateMtfAnalysis, UpdateRegime, SetGate, UpdateMetrics,
       ReachTarget, vars
  <2> QED BY <2>3, <2>5 DEF Next
<1> QED BY <1>1, <1>2, PTL DEF Spec

-----------------------------------------------------------------------------
(* A block lasts. *)

BlockStep ==
  guard.block_reason # "None" /\ now' < guard.blocked_until
    => /\ order' = NoOrder
       /\ guard'.block_reason = guard.block_reason
       /\ guard'.blocked_until = guard.blocked_until

\* Until an event at or after its end is seen, a block of a symbol stays as it is
\* and no entry is sent (track_event and check_execution of GuardEvaluator).
THEOREM BlocksHold == Spec => BlockHolds
<1>1. GuardOK /\ [Next]_vars => BlockStep \/ UNCHANGED vars
  <2> SUFFICES ASSUME GuardOK, Next, guard.block_reason # "None",
                      now' < guard.blocked_until
               PROVE  order' = NoOrder /\ guard' = guard
    BY DEF BlockStep
  <2> USE DEF GuardOK
  <2>1. ASSUME NEW ts \in Time, Seen(ts)
        PROVE  TrackEvent(guard, ts) = Outcome(guard, guard.block_reason)
    <3>1. ts \in Nat /\ now' \in Nat /\ ts <= now'
      BY <2>1, SeenTime
    <3>2. InBlock(guard, ts)
      BY <3>1 DEF InBlock, IsGuard
    <3> QED BY <3>1, <3>2, TrackEventResult
  <2>2. ASSUME NEW ts \in Time, NEW price \in Price, NEW cash \in Cash,
               NEW tenth \in TenthEarned, NEW admitted \in BOOLEAN,
               NEW held \in HeldElsewhere, OnTick(ts, price, cash, tenth, admitted, held)
        PROVE  order' = NoOrder /\ guard' = guard
    <3>1. TrackEvent(guard, ts).reason # "None" /\ TrackEvent(guard, ts).guard = guard
      BY <2>1, <2>2 DEF OnTick, Outcome
    <3> HIDE DEF GuardOK
    <3> QED BY <2>2, <3>1 DEF OnTick
  <2>3. CASE MarketEvent
    BY <2>1, <2>2, <2>3 DEF MarketEvent, OnSnapshot, OnActivity, Outcome
  <2>4. CASE OnReconnect \/ SlowSide
    BY <2>4 DEF OnReconnect, SlowSide, UpdateColdStart, UpdateTier,
       UpdateDailyContext, UpdateMtfAnalysis, UpdateRegime, SetGate, UpdateMetrics,
       ReachTarget
  <2> QED BY <2>3, <2>4 DEF Next
<1>2. UNCHANGED vars => (BlockStep \/ UNCHANGED vars)
  OBVIOUS
<1>3. [][BlockStep]_vars => BlockHolds
  BY PTL DEF BlockHolds, BlockStep
<1> QED BY <1>1, <1>3, GuardOKHolds, PTL DEF Spec

-----------------------------------------------------------------------------
(* Activity is earned. *)

TapeOK ==
  /\ tape = [price |-> tape.price, quote |-> tape.quote]
  /\ tape.quote \in Book
  /\ metrics \in TapeMetrics

\* The cold-start state is what the updates since the last reset make of it.
ColdStartTold ==
  \/ cold_start_state = "ColdStart" /\ warmth = 0
  \/ /\ cold_start_state = "WarmActive"
     /\ warmth \in 1..WarmTicks /\ ticks_in_warm_state = warmth - 1
  \/ cold_start_state = "FullActive" /\ warmth = WarmTicks + 1

EntryInv == TapeOK /\ ColdStartTold /\ (warmth = 0 => order = NoOrder)

\* Sums and products of integers are integers.
LEMMA IntClosed == \A i, j \in Int : i * j \in Int /\ i + j \in Int
  OBVIOUS

\* The score of a tape never exceeds 100, so that a cold symbol's threshold of
\* 101 is out of reach.
LEMMA ScoreRange == TapeOK => TapeScore \in 0..100
<1> SUFFICES ASSUME TapeOK PROVE TapeScore \in 0..100
  OBVIOUS
<1> DEFINE width == Spread(tape.quote)
           wide == 100 - 20 * (width - 1)
           spread == IF width <= 1 THEN 100 ELSE Max({0, wide})
<1>1. width \in Int
  BY DEF TapeOK, Book, Spread
<1>2. spread \in Int
  <2>1. wide \in Int
    <3> HIDE DEF width
    <3> QED BY <1>1
  <2>2. Max({0, wide}) \in Int
    BY <2>1, MaxWithZero, Zenon
  <2>3. CASE width <= 1
    BY <2>3
  <2>4. CASE ~(width <= 1)
    BY <2>2, <2>4, Zenon
  <2> QED BY <2>3, <2>4
<1>3. /\ Percentage(metrics.rate) \in Int /\ Percentage(metrics.aggressive) \in Int
      /\ Percentage(metrics.large) \in Int /\ Percentage(metrics.absorption) \in Int
      /\ Percentage(metrics.support) \in Int
  BY PercentageRange DEF TapeOK, TapeMetrics
<1> DEFINE sum == Weights.r * Percentage(metrics.rate)
                   + Weights.a * Percentage(metrics.aggressive)
                   + Weights.lp * Percentage(metrics.large)
                   + Weights.spr * spread
                   + Weights.abs * Percentage(metrics.absorption)
                   + Weights.bls * Percentage(metrics.support)
<1>4. sum \in Int
  <2> HIDE DEF spread
  <2>1. /\ Weights.r \in Int /\ Weights.a \in Int /\ Weights.lp \in Int
        /\ Weights.spr \in Int /\ Weights.abs \in Int /\ Weights.bls \in Int
    BY EntryAssumption
  <2>2. /\ Weights.r * Percentage(metrics.rate) \in Int
        /\ Weights.a * Percentage(metrics.aggressive) \in Int
        /\ Weights.lp * Percentage(metrics.large) \in Int
        /\ Weights.spr * spread \in Int
        /\ Weights.abs * Percentage(metrics.absorption) \in Int
        /\ Weights.bls * Percentage(metrics.support) \in Int
    BY <1>2, <1>3, <2>1, IntClosed, Zenon
  <2> QED BY <2>2, IntClosed, Zenon
<1>5. TapeScore = Percentage(sum \div 100)
  BY DEF TapeScore
<1>6. sum \div 100 \in Int
  <2> HIDE DEF sum
  <2> QED BY <1>4
<1> HIDE DEF sum
<1> QED BY <1>5, <1>6, PercentageRange

\* A symbol that is cold passes no gate.
LEMMA ColdPassesNothing ==
  ASSUME TapeOK, cold_start_state = "ColdStart",
         NEW g, NEW ts, NEW price, NEW size, NEW admitted, NEW held
  PROVE  EntryLogic(g, ts, price, size, admitted, held).reason # "None"
<1>1. Threshold = 101
  BY DEF Threshold
<1>2. ~AfterGuards(price, size, held)
  BY <1>1, ScoreRange DEF AfterGuards
<1> QED BY <1>2 DEF EntryLogic, Outcome

\* Every update moves the state along with the history of updates.
LEMMA ColdStartStep ==
  ASSUME ColdStartTold, NEW surge \in BOOLEAN, UpdateColdStart(surge)
  PROVE  ColdStartTold' /\ warmth' # 0 /\ order' = NoOrder
<1>1. WarmTicks \in Nat \ {0}
  BY EntryAssumption
<1>2. warmth \in 0..(WarmTicks + 1)
  BY <1>1 DEF ColdStartTold
<1> DEFINE next == warmth + 1
           full == WarmTicks + 1
<1>3. /\ Min({next, full}) \in {next, full}
      /\ Min({next, full}) <= next /\ Min({next, full}) <= full
  <2>1. next \in Int /\ full \in Int
    BY <1>1, <1>2
  <2> HIDE DEF next, full
  <2> QED BY <2>1, MinOfTwo
<1>4. CASE surge
  <2>1. cold_start_state' = "FullActive" /\ warmth' = WarmTicks + 1
    BY <1>4 DEF UpdateColdStart
  <2> QED BY <1>1, <2>1 DEF UpdateColdStart, ColdStartTold
<1>5. CASE ~surge
  <2>1. warmth' = Min({warmth + 1, WarmTicks + 1})
    BY <1>5 DEF UpdateColdStart
  <2>2. warmth' = IF warmth <= WarmTicks THEN warmth + 1 ELSE WarmTicks + 1
    BY <1>1, <1>2, <1>3, <2>1
  <2>3. CASE cold_start_state = "ColdStart"
    BY <1>1, <1>5, <2>2, <2>3 DEF UpdateColdStart, ColdStartTold
  <2>4. CASE cold_start_state = "WarmActive"
    BY <1>1, <1>5, <2>2, <2>4 DEF UpdateColdStart, ColdStartTold
  <2>5. CASE cold_start_state = "FullActive"
    BY <1>1, <1>5, <2>2, <2>5 DEF UpdateColdStart, ColdStartTold
  <2> QED BY <2>2, <2>3, <2>4, <2>5, <1>5 DEF ColdStartTold, UpdateColdStart
<1> QED BY <1>4, <1>5 DEF UpdateColdStart

\* A symbol is fully active exactly when a surge or WarmTicks updates since the
\* last reset have made it so, and a cold one sends nothing (update_cold_start,
\* the reset of a Reconnect and the thresholds of evaluate_entry_logic).
THEOREM ActivityIsEarned == Spec => []ActivityEarned
<1>1. Init => EntryInv
  BY DEF Init, EntryInv, TapeOK, ColdStartTold, NoTape, NoQuote, NoMetrics,
         Book, TapeMetrics
<1>2. EntryInv /\ [Next]_vars => EntryInv'
  <2> SUFFICES ASSUME EntryInv, [Next]_vars PROVE EntryInv'
    OBVIOUS
  <2> USE DEF EntryInv
  <2>1. ASSUME NEW ts \in Time, NEW price \in Price, NEW cash \in Cash,
               NEW tenth \in TenthEarned, NEW admitted \in BOOLEAN,
               NEW held \in HeldElsewhere, OnTick(ts, price, cash, tenth, admitted, held)
        PROVE  EntryInv'
    <3>1. ColdStartTold' /\ UNCHANGED <<warmth, cold_start_state>>
      BY <2>1 DEF OnTick, ColdStartTold, cold_vars
    <3>2. TapeOK'
      BY <2>1 DEF OnTick, TapeOK, slow_vars
    <3>3. warmth = 0 => order' = NoOrder
      <4> SUFFICES ASSUME warmth = 0 PROVE order' = NoOrder
        OBVIOUS
      <4> DEFINE size == ReducedSize(CalculateSize(price, cash), tenth)
                 tracked == TrackEvent(guard, ts)
                 decided == EntryLogic(tracked.guard, ts, price, size, admitted, held)
      <4>1. cold_start_state = "ColdStart"
        BY EntryAssumption DEF ColdStartTold
      <4>2. decided.reason # "None"
        <5> HIDE DEF size, tracked
        <5> QED BY <4>1, ColdPassesNothing
      <4> QED BY <2>1, <4>2 DEF OnTick
    <3> QED BY <3>1, <3>2, <3>3
  <2>2. ASSUME NEW ts \in Time, NEW quote \in Quote, OnSnapshot(ts, quote)
        PROVE  EntryInv'
    <3>1. TapeOK'
      BY <2>2, EntryAssumption DEF OnSnapshot, TapeOK, slow_vars
    <3> QED BY <2>2, <3>1 DEF OnSnapshot, ColdStartTold, cold_vars
  <2>3. ASSUME NEW ts \in Time, OnActivity(ts)
        PROVE  EntryInv'
    BY <2>3 DEF OnActivity, TapeOK, ColdStartTold, cold_vars, slow_vars
  <2>4. CASE OnReconnect
    BY <2>4 DEF OnReconnect, TapeOK, ColdStartTold, NoTape, NoQuote, NoMetrics,
         Book, TapeMetrics
  <2>5. CASE \E surge \in BOOLEAN : UpdateColdStart(surge)
    <3>1. ColdStartTold' /\ order' = NoOrder
      BY <2>5, ColdStartStep
    <3> QED BY <2>5, <3>1 DEF UpdateColdStart, TapeOK, slow_vars
  <2>6. ASSUME NEW new, SetGate(new)
        PROVE  EntryInv'
    BY <2>6 DEF SetGate, TapeOK, ColdStartTold, cold_vars
  <2>7. CASE \E new \in Metrics : UpdateMetrics(new)
    <3>1. TapeOK'
      BY <2>7, EntryAssumption DEF UpdateMetrics, TapeOK
    <3> QED BY <2>7, <3>1 DEF UpdateMetrics, ColdStartTold, cold_vars
  <2>8. CASE ReachTarget
    BY <2>8 DEF ReachTarget, TapeOK, ColdStartTold, cold_vars
  <2>9. CASE UNCHANGED vars
    BY <2>9 DEF vars, TapeOK, ColdStartTold, cold_vars, slow_vars
  <2> QED BY <2>1, <2>2, <2>3, <2>4, <2>5, <2>6, <2>7, <2>8, <2>9
          DEF Next, MarketEvent, SlowSide, UpdateTier, UpdateDailyContext,
              UpdateMtfAnalysis, UpdateRegime
<1>3. EntryInv => ActivityEarned
  BY EntryAssumption DEF EntryInv, ColdStartTold, ActivityEarned
<1> QED BY <1>1, <1>2, <1>3, PTL DEF Spec

-----------------------------------------------------------------------------
(* The flicker window. *)

Slot == [ts : Int, item : {0}]

\* A ring of a guard: one slot more than it may hold.
Ring == [buffer : [0..(2 * MaxFlicker) -> Slot], head : 0..(2 * MaxFlicker),
         tail : 0..(2 * MaxFlicker), capacity : {2 * MaxFlicker + 1},
         window_micros : {FlickerWindow}]

Times(ring) == [k \in 1..Length(ring) |-> Items(ring)[k].ts]

\* A function on 1..n is a sequence of that length.
LEMMA ListIsSeq ==
  ASSUME NEW n \in Nat, NEW f \in [1..n -> Int]
  PROVE  f \in Seq(Int) /\ Len(f) = n
  OBVIOUS

\* A ring holds at most what it was made for, and its indices stay in bounds.
LEMMA RingBounds ==
  ASSUME NEW r \in Ring
  PROVE  /\ Length(r) \in 0..(2 * MaxFlicker)
         /\ \A k \in 0..(2 * MaxFlicker) : IndexOf(r, k) \in 0..(2 * MaxFlicker)
<1> DEFINE c == 2 * MaxFlicker
           h == r.head
           t == r.tail
<1>1. c \in Nat /\ h \in 0..c /\ t \in 0..c /\ r.capacity = c + 1
  BY GuardAssumption DEF Ring
<1>2. Length(r) = IF h >= t THEN h - t ELSE c + 1 + h - t
  BY <1>1 DEF Length
<1>3. \A k \in 0..c : IndexOf(r, k) = IF t + k < c + 1 THEN t + k ELSE t + k - (c + 1)
  BY <1>1 DEF IndexOf
<1> HIDE DEF c, h, t
<1>4. Length(r) \in 0..c
  BY <1>1, <1>2
<1>5. \A k \in 0..c : IndexOf(r, k) \in 0..c
  BY <1>1, <1>3
<1> QED BY <1>4, <1>5 DEF c

\* The times of a ring are a sequence, read from its tail on.
LEMMA TimesOfRing ==
  ASSUME NEW r \in Ring
  PROVE  /\ Times(r) \in Seq(Int) /\ Len(Times(r)) = Length(r)
         /\ \A k \in 1..Length(r) : Times(r)[k] = r.buffer[IndexOf(r, k - 1)].ts
<1> DEFINE L == Length(r)
<1>1. L \in 0..(2 * MaxFlicker) /\ 2 * MaxFlicker \in Nat
  BY RingBounds, GuardAssumption
<1>2. \A k \in 1..L : Times(r)[k] = r.buffer[IndexOf(r, k - 1)].ts
  BY DEF Times, Items
<1>3. ASSUME NEW k \in 1..L PROVE r.buffer[IndexOf(r, k - 1)].ts \in Int
  <2>1. k - 1 \in 0..(2 * MaxFlicker)
    <3> HIDE DEF L
    <3> QED BY <1>1
  <2>2. IndexOf(r, k - 1) \in 0..(2 * MaxFlicker)
    BY <2>1, RingBounds
  <2> DEFINE i == IndexOf(r, k - 1)
  <2> HIDE DEF i
  <2>3. i \in 0..(2 * MaxFlicker) => r.buffer[i] \in Slot
    BY DEF Ring
  <2> USE DEF i
  <2> QED BY <2>2, <2>3 DEF Slot
<1>4. Times(r) \in [1..L -> Int]
  BY <1>2, <1>3 DEF Times
<1>5. Times(r) \in Seq(Int) /\ Len(Times(r)) = L
  <2> HIDE DEF L
  <2> QED BY <1>1, <1>4, ListIsSeq
<1> QED BY <1>2, <1>5


\* A new ring is empty.
LEMMA NewRingIsEmpty ==
  NewRing(2 * MaxFlicker, FlickerWindow) \in Ring
  /\ Times(NewRing(2 * MaxFlicker, FlickerWindow)) = <<>>
<1> DEFINE r == NewRing(2 * MaxFlicker, FlickerWindow)
<1>1. 2 * MaxFlicker \in Nat /\ NoSlot \in Slot
  BY GuardAssumption DEF NoSlot, Slot
<1>2. r \in Ring
  BY <1>1 DEF NewRing, Ring
<1>3. Length(r) = 0
  BY DEF NewRing, Length
<1> HIDE DEF r
<1>4. Times(r) \in Seq(Int) /\ Len(Times(r)) = 0
  BY <1>2, <1>3, TimesOfRing
<1>5. Times(r) = <<>>
  BY <1>4, EmptySeq
<1> QED BY <1>2, <1>5 DEF r

\* A push adds the time at the end and, to a ring that is full, gives up the oldest.
LEMMA PushIsBounded ==
  ASSUME NEW r \in Ring, NEW ts \in Int
  PROVE  /\ PushItem(r, ts, 0) \in Ring
         /\ Times(PushItem(r, ts, 0)) = Promise!Bounded(Append(Times(r), ts))
<1> DEFINE c == 2 * MaxFlicker
           h == r.head
           t == r.tail
           next == Wrap(r, h)
           new == PushItem(r, ts, 0)
           entry == [ts |-> ts, item |-> 0]
           grown == Append(Times(r), ts)
           L == Length(r)
<1>1. /\ c \in Nat \ {0} /\ h \in 0..c /\ t \in 0..c /\ r.capacity = c + 1
      /\ r.buffer \in [0..c -> Slot]
  BY GuardAssumption DEF Ring
<1>2. entry \in Slot
  BY DEF Slot
<1>3. /\ new.head = next /\ new.capacity = r.capacity
      /\ new.tail = IF next = t THEN Wrap(r, t) ELSE t
      /\ new.buffer = [r.buffer EXCEPT ![h] = entry]
  BY DEF PushItem, Ring
<1>4. \A i \in 0..c : Wrap(r, i) = IF i + 1 = c + 1 THEN 0 ELSE i + 1
  BY <1>1 DEF Wrap
<1>5. next = IF h = c THEN 0 ELSE h + 1
  <2> HIDE DEF c, h
  <2> QED BY <1>1, <1>4
<1>6. next \in 0..c /\ new.tail \in 0..c
  <2> HIDE DEF c, h, t, next, new
  <2> QED BY <1>1, <1>3, <1>4, <1>5
<1>7. new.buffer \in [0..c -> Slot]
  <2> HIDE DEF entry, c, h, new
  <2> QED BY <1>1, <1>2, <1>3
<1>8. new \in Ring
  <2> DEFINE first == IF next = t THEN Wrap(r, t) ELSE t
             slots == [r.buffer EXCEPT ![h] = entry]
  <2>1. new = [r EXCEPT !.tail = first, !.buffer = slots, !.head = next]
    BY DEF PushItem
  <2>2. first \in 0..c /\ slots \in [0..c -> Slot]
    <3> HIDE DEF new, first, slots
    <3> USE DEF first, slots
    <3> QED BY <1>3, <1>6, <1>7
  <2> HIDE DEF new, next, first, slots
  <2> QED BY <1>6, <2>1, <2>2 DEF Ring
<1>9. /\ L = IF h >= t THEN h - t ELSE c + 1 + h - t
      /\ \A k \in Int : IndexOf(r, k) = IF t + k < c + 1 THEN t + k ELSE t + k - (c + 1)
  BY <1>1 DEF Length, IndexOf
<1>10. /\ Length(new) = IF next >= new.tail THEN next - new.tail
                        ELSE c + 1 + next - new.tail
       /\ \A k \in Int : IndexOf(new, k) = IF new.tail + k < c + 1 THEN new.tail + k
                                           ELSE new.tail + k - (c + 1)
  <2> HIDE DEF new, next, c
  <2> QED BY <1>1, <1>3 DEF Length, IndexOf
<1>11. L \in 0..c
  BY RingBounds
<1>12. /\ Times(r) \in Seq(Int) /\ Len(Times(r)) = L
       /\ \A k \in 1..L : Times(r)[k] = r.buffer[IndexOf(r, k - 1)].ts
  BY TimesOfRing
<1>13. /\ Times(new) \in Seq(Int) /\ Len(Times(new)) = Length(new)
       /\ \A k \in 1..Length(new) : Times(new)[k] = new.buffer[IndexOf(new, k - 1)].ts
  <2> HIDE DEF new
  <2> QED BY <1>8, TimesOfRing
<1>14. /\ grown \in Seq(Int) /\ Len(grown) = L + 1 /\ grown[L + 1] = ts
       /\ \A k \in 1..L : grown[k] = Times(r)[k]
  <2> HIDE DEF L
  <2> QED BY <1>12, AppendProperties
<1>15. \A i \in 0..c : new.buffer[i] = IF i = h THEN entry ELSE r.buffer[i]
  <2> HIDE DEF entry, c, h, new
  <2> QED BY <1>1, <1>3
<1>16. entry.ts = ts
  OBVIOUS
<1> HIDE DEF c, h, t, next, new, entry, grown, L
<1>17. CASE next # t
  <2>1. new.tail = t /\ L < c /\ Length(new) = L + 1
    <3>1. new.tail = t
      BY <1>3, <1>17
    <3>2. CASE h = c
      <4>1. next = 0 /\ t > 0 /\ L = h - t /\ Length(new) = c + 1 - t
        BY <1>1, <1>5, <1>9, <1>10, <1>17, <3>1, <3>2
      <4> QED BY <1>1, <3>1, <3>2, <4>1
    <3>3. CASE h # c
      <4>1. next = h + 1
        BY <1>5, <3>3
      <4>2. CASE h >= t
        BY <1>1, <1>9, <1>10, <3>1, <3>3, <4>1, <4>2
      <4>3. CASE h < t
        <5>1. L = c + 1 + h - t /\ next < t /\ Length(new) = c + 1 + next - t
          BY <1>1, <1>9, <1>10, <1>17, <3>1, <4>1, <4>3
        <5> QED BY <1>1, <3>1, <4>1, <4>3, <5>1
      <4> QED BY <1>1, <4>2, <4>3
    <3> QED BY <3>2, <3>3
  <2>2. Promise!Bounded(grown) = grown
    BY <1>11, <1>14, <2>1, <1>1 DEF Promise!Bounded, c
  <2>3. ASSUME NEW k \in 1..L PROVE Times(new)[k] = grown[k]
    <3> DEFINE i == IndexOf(r, k - 1)
               j == k - 1
    <3>0. j \in 0..(L - 1)
      BY <1>11
    <3> HIDE DEF j
    <3>1. /\ IndexOf(r, j) = (IF t + j < c + 1 THEN t + j ELSE t + j - (c + 1))
          /\ IndexOf(new, j) = IndexOf(r, j)
      <4>1. j \in Int
        BY <3>0
      <4>2. IndexOf(r, j) = IF t + j < c + 1 THEN t + j ELSE t + j - (c + 1)
        BY <1>9, <4>1
      <4>3. IndexOf(new, j) = IF t + j < c + 1 THEN t + j ELSE t + j - (c + 1)
        BY <1>10, <2>1, <4>1
      <4> QED BY <4>2, <4>3
    <3> USE DEF j
    <3> HIDE DEF i
    <3>2. i \in 0..c /\ i # h
      <4>1. j \in 0..(L - 1) /\ i = (IF t + j < c + 1 THEN t + j ELSE t + j - (c + 1))
        BY <3>0, <3>1 DEF i
      <4> HIDE DEF j
      <4>2. CASE t + j < c + 1
        BY <1>1, <1>9, <1>11, <4>1, <4>2
      <4>3. CASE t + j >= c + 1
        BY <1>1, <1>9, <1>11, <4>1, <4>3
      <4> QED BY <1>1, <1>11, <4>1, <4>2, <4>3
    <3>3. k \in 1..Length(new)
      BY <1>11, <2>1
    <3>4. Times(new)[k] = r.buffer[i].ts
      BY <1>13, <1>15, <3>1, <3>2, <3>3 DEF i
    <3> QED BY <1>12, <1>14, <3>4 DEF i
  <2>4. Times(new)[L + 1] = grown[L + 1]
    <3>1. IndexOf(new, L) = h
      BY <1>1, <1>9, <1>10, <1>11, <2>1
    <3>2. L + 1 \in 1..Length(new) /\ (L + 1) - 1 = L
      BY <1>11, <2>1
    <3>3. Times(new)[L + 1] = new.buffer[h].ts
      BY <1>13, <3>1, <3>2
    <3> QED BY <1>1, <1>14, <1>15, <1>16, <3>3
  <2>5. \A k \in 1..(L + 1) : Times(new)[k] = grown[k]
    BY <1>11, <2>3, <2>4
  <2>6. Times(new) = grown
    BY <1>13, <1>14, <2>1, <2>5, SeqEqual
  <2> QED BY <1>8, <2>2, <2>6 DEF new, grown
<1>18. CASE next = t
  <2>1. /\ new.tail = (IF t = c THEN 0 ELSE t + 1) /\ L = c /\ Length(new) = c
    <3>1. new.tail = IF t = c THEN 0 ELSE t + 1
      BY <1>1, <1>3, <1>4, <1>18
    <3>2. L = c
      <4>1. CASE h = c
        BY <1>1, <1>5, <1>9, <1>18, <4>1
      <4>2. CASE h # c
        BY <1>1, <1>5, <1>9, <1>18, <4>2
      <4> QED BY <4>1, <4>2
    <3>3. Length(new) = c
      <4>1. CASE t = c
        BY <1>1, <1>10, <1>18, <3>1, <4>1
      <4>2. CASE t # c
        BY <1>1, <1>10, <1>18, <3>1, <4>2
      <4> QED BY <4>1, <4>2
    <3> QED BY <3>1, <3>2, <3>3
  <2>2. Promise!Bounded(grown) = Tail(grown)
    BY <1>1, <1>14, <2>1 DEF Promise!Bounded, c
  <2>3. grown # <<>> /\ Tail(grown) \in Seq(Int) /\ Len(Tail(grown)) = c
        /\ \A k \in 1..c : Tail(grown)[k] = grown[k + 1]
    <3>1. grown # <<>>
      BY <1>14, <1>11, EmptySeq
    <3> QED BY <1>1, <1>14, <2>1, <3>1, HeadTailProperties
  <2>4. ASSUME NEW k \in 1..c PROVE Times(new)[k] = Tail(grown)[k]
    <3>1. Times(new)[k] = new.buffer[IndexOf(new, k - 1)].ts
      BY <1>13, <2>1
    <3>2. CASE k < c
      <4> DEFINE i == IndexOf(r, k)
      <4>1. i = (IF t + k < c + 1 THEN t + k ELSE t + k - (c + 1))
            /\ IndexOf(new, k - 1) = i
        <5>1. k \in Int /\ k - 1 \in Int
          OBVIOUS
        <5>2. i = IF t + k < c + 1 THEN t + k ELSE t + k - (c + 1)
          BY <1>9, <5>1
        <5>3. IndexOf(new, k - 1) = IF new.tail + (k - 1) < c + 1 THEN new.tail + (k - 1)
                                    ELSE new.tail + (k - 1) - (c + 1)
          BY <1>10, <5>1
        <5>4. CASE t = c
          BY <1>1, <2>1, <3>2, <5>2, <5>3, <5>4
        <5>5. CASE t # c
          BY <1>1, <2>1, <3>2, <5>2, <5>3, <5>5
        <5> QED BY <5>2, <5>4, <5>5
      <4> HIDE DEF i
      <4>2. i \in 0..c /\ i # h
        <5>1. CASE t + k < c + 1
          BY <1>1, <1>5, <1>18, <3>2, <4>1, <5>1
        <5>2. CASE t + k >= c + 1
          BY <1>1, <1>5, <1>18, <3>2, <4>1, <5>2
        <5> QED BY <1>1, <5>1, <5>2
      <4>3. Times(new)[k] = r.buffer[i].ts
        BY <1>15, <3>1, <4>1, <4>2
      <4>4. k + 1 \in 1..L /\ (k + 1) - 1 = k
        BY <1>1, <2>1, <3>2
      <4>5. grown[k + 1] = r.buffer[i].ts
        BY <1>12, <1>14, <4>4 DEF i
      <4> QED BY <2>3, <4>3, <4>5
    <3>3. CASE k = c
      <4>1. IndexOf(new, k - 1) = h
        <5>1. IndexOf(new, c - 1) = IF new.tail + (c - 1) < c + 1 THEN new.tail + (c - 1)
                                    ELSE new.tail + (c - 1) - (c + 1)
          BY <1>1, <1>10
        <5>2. CASE t = c
          BY <1>1, <1>5, <1>18, <2>1, <3>3, <5>1, <5>2
        <5>3. CASE t # c
          BY <1>1, <1>5, <1>18, <2>1, <3>3, <5>1, <5>3
        <5> QED BY <5>2, <5>3
      <4>2. Times(new)[k] = ts
        BY <1>1, <1>15, <1>16, <3>1, <4>1
      <4> QED BY <1>14, <2>1, <2>3, <3>3, <4>2
    <3>4. k < c \/ k = c
      BY <1>1
    <3> QED BY <3>2, <3>3, <3>4
  <2>5. Times(new) = Tail(grown)
    BY <1>13, <2>1, <2>3, <2>4, SeqEqual
  <2> QED BY <1>8, <2>2, <2>5 DEF new, grown
<1> QED BY <1>17, <1>18

\* Among the first n indices there is one before which nothing is in S, and which
\* is followed by an element of S unless it is n.
LEMMA CountExists ==
  ASSUME NEW n \in Nat, NEW S \in SUBSET (1..n)
  PROVE  \E k \in 0..n : (\A i \in 1..k : i \notin S) /\ (k < n => k + 1 \in S)
<1>1. CASE S = {}
  <2>1. n \in 0..n
    OBVIOUS
  <2> QED BY <1>1, <2>1
<1>2. CASE S # {}
  <2>1. Min(S) \in S /\ \A y \in S : Min(S) <= y
    <3>1. S \subseteq Nat
      OBVIOUS
    <3> QED BY <1>2, <3>1, LeastExists
  <2> DEFINE m == Min(S)
  <2> HIDE DEF m
  <2>2. m \in S /\ m \in 1..n /\ \A y \in S : m <= y
    BY <2>1 DEF m
  <2>3. m - 1 \in 0..n /\ (m - 1) + 1 = m
    BY <2>2
  <2>4. \A i \in 1..(m - 1) : i \notin S
    BY <2>2
  <2> QED BY <2>2, <2>3, <2>4
<1> QED BY <1>1, <1>2

\* Pruning takes away the times at the front that are before the horizon.
LEMMA PruneIsExpiry ==
  ASSUME NEW r \in Ring, NEW ts \in Nat
  PROVE  /\ PruneExpired(r, ts) \in Ring
         /\ Times(PruneExpired(r, ts))
              = Promise!Without(Times(r), Promise!Expired(Times(r), Promise!Horizon(ts)))
<1> DEFINE c == 2 * MaxFlicker
           t == r.tail
           h == r.head
           L == Length(r)
           s == Times(r)
           cut == Promise!Horizon(ts)
           Stays == {k \in 1..L : s[k] >= cut}
           First(n) == (\A i \in 1..n : i \notin Stays) /\ (n < L => n + 1 \in Stays)
           new == PruneExpired(r, ts)
           gone == Promise!Expired(s, cut)
<1>1. /\ c \in Nat \ {0} /\ h \in 0..c /\ t \in 0..c /\ r.capacity = c + 1
      /\ r.buffer \in [0..c -> Slot] /\ r.window_micros = FlickerWindow /\ FlickerWindow \in Nat
  BY GuardAssumption DEF Ring
<1>2. L \in 0..c
  BY RingBounds
<1>3. /\ s \in Seq(Int) /\ Len(s) = L
      /\ \A k \in 1..L : s[k] = r.buffer[IndexOf(r, k - 1)].ts /\ s[k] \in Int
  <2>1. s \in Seq(Int) /\ Len(s) = L
        /\ \A k \in 1..L : s[k] = r.buffer[IndexOf(r, k - 1)].ts
    BY TimesOfRing
  <2> HIDE DEF s, L
  <2> QED BY <2>1, ElementOfSeq
<1>4. cut \in Nat /\ cut = Cutoff(r.window_micros, ts)
  BY <1>1 DEF Promise!Horizon, Cutoff
<1> HIDE DEF cut
<1>5. \E n \in 0..L : First(n)
  <2>1. L \in Nat /\ Stays \in SUBSET (1..L)
    BY <1>2
  <2> HIDE DEF L, s, Stays
  <2> QED BY <2>1, CountExists
<1>6. \A m, n \in 0..L : First(m) /\ First(n) => m = n
  <2> HIDE DEF L, s, Stays
  <2>1. ASSUME NEW m \in 0..L, NEW n \in 0..L, First(m), First(n), m < n
        PROVE  FALSE
    <3>1. m + 1 \in Stays /\ m + 1 \in 1..n
      BY <1>2, <2>1
    <3> QED BY <2>1, <3>1
  <2> HIDE DEF First
  <2> QED BY <1>2, <2>1
<1>7. gone \in 0..L /\ First(gone)
  <2> DEFINE Front(n) == (\A k \in 1..n : s[k] < cut) /\ (n < L => s[n + 1] >= cut)
  <2>1. \A n \in 0..L : First(n) <=> Front(n)
    <3>1. \A k \in 1..L : k \in Stays <=> ~(s[k] < cut)
      <4> HIDE DEF s, L
      <4> QED BY <1>3, <1>4
    <3>2. \A k \in 1..L : s[k] >= cut <=> ~(s[k] < cut)
      <4> HIDE DEF s, L
      <4> QED BY <1>3, <1>4
    <3> HIDE DEF s, L, Stays
    <3>3. ASSUME NEW n \in 0..L
          PROVE  First(n) <=> Front(n)
      <4>1. 1..n \subseteq 1..L /\ (n < L => n + 1 \in 1..L)
        BY <1>2
      <4> QED BY <3>1, <3>2, <4>1
    <3> HIDE DEF First, Front
    <3> QED BY <3>3
  <2>2. gone = CHOOSE n \in 0..L : Front(n)
    BY <1>3 DEF Promise!Expired
  <2> HIDE DEF s, L, First, Front, gone
  <2>3. \E n \in 0..L : Front(n)
    BY <1>5, <2>1
  <2>4. gone \in 0..L /\ Front(gone)
    BY <2>2, <2>3
  <2> QED BY <2>1, <2>4
<1>8. new = [r EXCEPT !.tail = IndexOf(r, gone)]
  <2> DEFINE Old(k) == r.buffer[IndexOf(r, k)].ts < Cutoff(r.window_micros, ts)
             chosen == CHOOSE n \in 0..L : /\ \A k \in 0..(n - 1) : Old(k)
                                           /\ n < L => ~Old(n)
  <2>1. \A k \in 1..L : Old(k - 1) <=> k \notin Stays
    <3> HIDE DEF s, L
    <3> QED BY <1>3, <1>4
  <2>2. new = [r EXCEPT !.tail = IndexOf(r, chosen)]
    BY DEF PruneExpired
  <2> HIDE DEF Old, Stays, L
  <2>3. ASSUME NEW n \in 0..L
        PROVE  First(n) <=> (\A k \in 0..(n - 1) : Old(k)) /\ (n < L => ~Old(n))
    <3>1. ASSUME First(n), NEW k \in 0..(n - 1) PROVE Old(k)
      <4>1. k + 1 \in 1..n /\ k + 1 \in 1..L /\ (k + 1) - 1 = k
        BY <1>2
      <4> QED BY <2>1, <3>1, <4>1
    <3>2. ASSUME \A k \in 0..(n - 1) : Old(k), NEW i \in 1..n PROVE i \notin Stays
      <4>1. i - 1 \in 0..(n - 1) /\ i \in 1..L
        BY <1>2
      <4> QED BY <2>1, <3>2, <4>1
    <3>3. n < L => (n + 1 \in Stays <=> ~Old(n))
      <4>1. n < L => n + 1 \in 1..L /\ (n + 1) - 1 = n
        BY <1>2
      <4> QED BY <2>1, <4>1
    <3> QED BY <3>1, <3>2, <3>3
  <2>4. chosen \in 0..L /\ First(chosen)
    <3> HIDE DEF First
    <3>1. \E n \in 0..L : (\A k \in 0..(n - 1) : Old(k)) /\ (n < L => ~Old(n))
      BY <1>5, <2>3
    <3>2. chosen \in 0..L /\ (\A k \in 0..(chosen - 1) : Old(k)) /\ (chosen < L => ~Old(chosen))
      BY <3>1
    <3> QED BY <2>3, <3>2
  <2> HIDE DEF First, chosen, gone
  <2>5. chosen = gone
    BY <1>6, <1>7, <2>4
  <2> QED BY <2>2, <2>5
<1> HIDE DEF gone, new, First
<1>9. IndexOf(r, gone) \in 0..c
  <2>1. gone \in 0..c
    <3> HIDE DEF c, L
    <3> QED BY <1>1, <1>2, <1>7
  <2> QED BY <2>1, RingBounds
<1>10. new \in Ring
  BY <1>8, <1>9 DEF Ring
<1>11. /\ new.tail = IndexOf(r, gone) /\ new.head = h /\ new.capacity = c + 1
       /\ new.buffer = r.buffer
  BY <1>1, <1>8 DEF Ring
<1>12. /\ L = IF h >= t THEN h - t ELSE c + 1 + h - t
       /\ Length(new) = IF h >= new.tail THEN h - new.tail ELSE c + 1 + h - new.tail
       /\ \A k \in Int : IndexOf(r, k) = IF t + k < c + 1 THEN t + k ELSE t + k - (c + 1)
       /\ \A k \in Int : IndexOf(new, k) = IF new.tail + k < c + 1 THEN new.tail + k
                                           ELSE new.tail + k - (c + 1)
  <2> HIDE DEF c
  <2> QED BY <1>1, <1>11 DEF Length, IndexOf
<1>13. /\ Times(new) \in Seq(Int) /\ Len(Times(new)) = Length(new)
       /\ \A k \in 1..Length(new) : Times(new)[k] = new.buffer[IndexOf(new, k - 1)].ts
  BY <1>10, TimesOfRing
<1> HIDE DEF c, h, t, L
<1> DEFINE g == gone
           tail == new.tail
<1>14. Length(new) = L - gone
  <2>1. g \in 0..L /\ tail = IF t + g < c + 1 THEN t + g ELSE t + g - (c + 1)
    BY <1>2, <1>7, <1>11, <1>12
  <2>2. Length(new) = IF h >= tail THEN h - tail ELSE c + 1 + h - tail
    BY <1>12
  <2> HIDE DEF g, tail
  <2>3. Length(new) = L - g
    <3>1. CASE h >= t
      BY <1>1, <1>2, <1>12, <2>1, <2>2, <3>1
    <3>2. CASE h < t /\ t + g < c + 1
      BY <1>1, <1>2, <1>12, <2>1, <2>2, <3>2
    <3>3. CASE h < t /\ t + g >= c + 1
      BY <1>1, <1>2, <1>12, <2>1, <2>2, <3>3
    <3> QED BY <1>1, <1>2, <2>1, <3>1, <3>2, <3>3
  <2> QED BY <2>3 DEF g
<1>15. ASSUME NEW k \in 0..(L - gone - 1)
       PROVE  IndexOf(new, k) = IndexOf(r, gone + k)
  <2>1. g \in 0..L /\ tail = IF t + g < c + 1 THEN t + g ELSE t + g - (c + 1)
    BY <1>2, <1>7, <1>11, <1>12
  <2>2. k \in 0..(L - g - 1)
    OBVIOUS
  <2> HIDE DEF g, tail
  <2>3. IndexOf(new, k) = IF tail + k < c + 1 THEN tail + k ELSE tail + k - (c + 1)
    BY <1>12, <2>2, <2>1, <1>2 DEF tail
  <2>4. IndexOf(r, g + k) = IF t + (g + k) < c + 1 THEN t + (g + k) ELSE t + (g + k) - (c + 1)
    BY <1>12, <2>2, <2>1, <1>2
  <2>5. IndexOf(new, k) = IndexOf(r, g + k)
    <3>1. CASE t + g < c + 1
      BY <1>1, <1>2, <2>1, <2>2, <2>3, <2>4, <3>1
    <3>2. CASE t + g >= c + 1
      BY <1>1, <1>2, <2>1, <2>2, <2>3, <2>4, <3>2
    <3> QED BY <1>1, <1>2, <2>1, <3>1, <3>2
  <2> QED BY <2>5 DEF g
<1> DEFINE rest == SubSeq(s, gone + 1, Len(s))
<1> HIDE DEF s
<1>16. /\ rest \in Seq(Int) /\ Len(rest) = L - gone
       /\ \A k \in 1..(L - gone) : rest[k] = s[gone + k]
  <2>1. \A i \in (gone + 1)..L : s[i] \in Int
    BY <1>2, <1>3, <1>7
  <2>2. /\ rest \in Seq(Int)
        /\ Len(rest) = IF gone + 1 <= L THEN L - (gone + 1) + 1 ELSE 0
        /\ \A i \in 1..(L - (gone + 1) + 1) : rest[i] = s[gone + 1 + i - 1]
    BY <1>2, <1>3, <1>7, <2>1, SubSeqProperties
  <2> HIDE DEF rest
  <2>3. Len(rest) = L - gone
    BY <1>2, <1>7, <2>2
  <2>4. ASSUME NEW k \in 1..(L - gone) PROVE rest[k] = s[gone + k]
    <3>1. k \in 1..(L - (gone + 1) + 1) /\ gone + 1 + k - 1 = gone + k
      BY <1>2, <1>7
    <3> QED BY <2>2, <3>1
  <2> QED BY <2>2, <2>3, <2>4
<1>17. ASSUME NEW k \in 1..(L - gone) PROVE Times(new)[k] = rest[k]
  <2>1. /\ k - 1 \in 0..(L - gone - 1) /\ gone + k \in 1..L
        /\ gone + (k - 1) = (gone + k) - 1 /\ k \in 1..Length(new)
    BY <1>2, <1>7, <1>14
  <2>2. IndexOf(new, k - 1) = IndexOf(r, (gone + k) - 1)
    BY <1>15, <2>1
  <2>3. Times(new)[k] = r.buffer[IndexOf(r, (gone + k) - 1)].ts
    BY <1>11, <1>13, <2>1, <2>2
  <2> QED BY <1>3, <1>16, <2>1, <2>3
<1>18. Times(new) = rest
  <2> HIDE DEF rest
  <2> QED BY <1>13, <1>14, <1>16, <1>17, SeqEqual
<1> QED BY <1>10, <1>18 DEF Promise!Without, new, gone, rest, s, cut

\* What an event of the symbol does to the window of its guard.
Sampled(ring, ts) == PruneExpired(PushItem(ring, ts, 0), ts)

\* track_event samples the event or leaves the window alone.
LEMMA TrackEventWindow ==
  ASSUME NEW g, IsGuard(g), NEW ts
  PROVE  TrackEvent(g, ts).guard.flicker \in {g.flicker, Sampled(g.flicker, ts)}
<1> DEFINE ring == Sampled(g.flicker, ts)
           tracked == [g EXCEPT !.flicker = ring]
<1>1. tracked = [flicker |-> ring, blocked_until |-> g.blocked_until,
                 block_reason |-> g.block_reason]
  BY DEF IsGuard
<1>2. CASE InBlock(g, ts)
  BY <1>2 DEF TrackEvent, Outcome
<1>3. CASE ~InBlock(g, ts)
  <2>1. TrackEvent(g, ts) \in {Rejected(tracked, ts, "GuardFlicker"), Outcome(tracked, "None")}
    BY <1>3 DEF TrackEvent, Sampled
  <2> HIDE DEF tracked, ring
  <2>2. tracked.flicker = ring
    BY <1>1
  <2>3. Rejected(tracked, ts, "GuardFlicker").guard.flicker = ring
    BY <1>1 DEF Rejected, Outcome
  <2>4. Outcome(tracked, "None").guard.flicker = ring
    BY <2>2 DEF Outcome
  <2> QED BY <2>1, <2>3, <2>4 DEF ring
<1> QED BY <1>2, <1>3

\* The execution guards and the entry logic leave it alone.
LEMMA EntryLogicWindow ==
  ASSUME NEW g, IsGuard(g), NEW ts, NEW price, NEW size, NEW admitted, NEW held
  PROVE  EntryLogic(g, ts, price, size, admitted, held).guard.flicker = g.flicker
<1> DEFINE checked == CheckExecution(g, ts, ts, tape.quote, price)
           failed == FailedGuard(ts, ts, tape.quote, price)
<1>1. checked.guard.flicker = g.flicker
  <2>1. checked \in {Outcome(g, g.block_reason), Rejected(g, ts, failed),
                     Outcome([g EXCEPT !.block_reason = "None"], "None")}
    BY DEF CheckExecution
  <2> HIDE DEF checked, failed
  <2>2. Rejected(g, ts, failed).guard.flicker = g.flicker
    BY DEF Rejected, Outcome, IsGuard
  <2>3. Outcome([g EXCEPT !.block_reason = "None"], "None").guard.flicker = g.flicker
    BY DEF Outcome, IsGuard
  <2> QED BY <2>1, <2>2, <2>3 DEF Outcome
<1>2. EntryLogic(g, ts, price, size, admitted, held).guard \in {g, checked.guard}
  BY DEF EntryLogic, Outcome
<1> QED BY <1>1, <1>2

RingOK == guard.flicker \in Ring

\* Every step samples an event, or leaves the window alone.
LEMMA WindowStep ==
  ASSUME GuardOK, [Next]_vars
  PROVE  \/ guard'.flicker = guard.flicker
         \/ \E ts \in 1..MaxTime : guard'.flicker = Sampled(guard.flicker, ts)
<1> USE DEF GuardOK
<1>1. ASSUME NEW ts \in Time, NEW price \in Price, NEW cash \in Cash,
             NEW tenth \in TenthEarned, NEW admitted \in BOOLEAN,
             NEW held \in HeldElsewhere, OnTick(ts, price, cash, tenth, admitted, held)
      PROVE  guard'.flicker \in {guard.flicker, Sampled(guard.flicker, ts)}
  <2> DEFINE tracked == TrackEvent(guard, ts)
             size == ReducedSize(CalculateSize(price, cash), tenth)
             decided == EntryLogic(tracked.guard, ts, price, size, admitted, held)
  <2>1. ts \in Nat
    BY EntryAssumption DEF Time
  <2>2. IsGuard(tracked.guard)
    BY <2>1, TrackEventResult
  <2>3. guard' \in {decided.guard, tracked.guard}
    BY <1>1 DEF OnTick
  <2>4. tracked.guard.flicker \in {guard.flicker, Sampled(guard.flicker, ts)}
    BY TrackEventWindow
  <2> HIDE DEF tracked, size
  <2>5. decided.guard.flicker = tracked.guard.flicker
    BY <2>2, EntryLogicWindow
  <2> QED BY <2>3, <2>4, <2>5
<1>2. ASSUME NEW ts \in Time, guard' = TrackEvent(guard, ts).guard
      PROVE  guard'.flicker \in {guard.flicker, Sampled(guard.flicker, ts)}
  BY <1>2, TrackEventWindow
<1>3. Time \subseteq 1..MaxTime
  BY DEF Time
<1>4. CASE MarketEvent
  <2>1. PICK ts \in Time : guard'.flicker \in {guard.flicker, Sampled(guard.flicker, ts)}
    BY <1>1, <1>2, <1>4 DEF MarketEvent, OnSnapshot, OnActivity
  <2> QED BY <1>3, <2>1
<1>5. CASE OnReconnect \/ SlowSide \/ UNCHANGED vars
  BY <1>5 DEF OnReconnect, SlowSide, UpdateColdStart, UpdateTier,
     UpdateDailyContext, UpdateMtfAnalysis, UpdateRegime, SetGate, UpdateMetrics,
     ReachTarget, vars
<1> QED BY <1>4, <1>5 DEF Next

\* A sample stays a ring, and is an arrival at the window.
LEMMA SampleArrives ==
  ASSUME NEW r \in Ring, NEW ts \in Nat
  PROVE  /\ Sampled(r, ts) \in Ring
         /\ LET grown == Promise!Bounded(Append(Times(r), ts))
            IN Times(Sampled(r, ts))
                 = Promise!Without(grown, Promise!Expired(grown, Promise!Horizon(ts)))
<1> DEFINE pushed == PushItem(r, ts, 0)
<1>1. pushed \in Ring /\ Times(pushed) = Promise!Bounded(Append(Times(r), ts))
  BY PushIsBounded
<1> HIDE DEF pushed
<1>2. /\ PruneExpired(pushed, ts) \in Ring
      /\ Times(PruneExpired(pushed, ts))
           = Promise!Without(Times(pushed), Promise!Expired(Times(pushed), Promise!Horizon(ts)))
  BY <1>1, PruneIsExpiry
<1> QED BY <1>1, <1>2 DEF Sampled, pushed

\* The ring buffer of the flicker guard is a sliding window: whatever wraps
\* around, is evicted or expires, and however late the events come (push,
\* prune_expired and iter of TimeRingBuffer), for every size of the ring.
THEOREM WindowKept == Spec => WindowSpec
<1>1. WindowTimes = Times(guard.flicker)
  BY DEF WindowTimes, Times
<1>2. WindowTimes' = Times(guard'.flicker)
  BY DEF WindowTimes, Times
<1>3. Init => RingOK /\ Promise!Init
  <2> SUFFICES ASSUME Init PROVE RingOK /\ Promise!Init
    OBVIOUS
  <2>1. guard.flicker = NewRing(2 * MaxFlicker, FlickerWindow)
    BY DEF Init, NewGuard
  <2> QED BY <1>1, <2>1, NewRingIsEmpty DEF RingOK, Promise!Init
<1>4. GuardOK /\ RingOK /\ [Next]_vars => RingOK' /\ [Promise!Next]_WindowTimes
  <2> SUFFICES ASSUME GuardOK, RingOK, [Next]_vars
               PROVE  RingOK' /\ [Promise!Next]_WindowTimes
    OBVIOUS
  <2>1. CASE guard'.flicker = guard.flicker
    BY <1>1, <1>2, <2>1 DEF RingOK
  <2>2. ASSUME NEW ts \in 1..MaxTime, guard'.flicker = Sampled(guard.flicker, ts)
        PROVE  RingOK' /\ Promise!Next
    <3>1. guard.flicker \in Ring /\ ts \in Nat
      BY DEF RingOK
    <3> DEFINE r == guard.flicker
               grown == Promise!Bounded(Append(Times(r), ts))
    <3>2. /\ Sampled(r, ts) \in Ring
          /\ Times(Sampled(r, ts))
               = Promise!Without(grown, Promise!Expired(grown, Promise!Horizon(ts)))
      <4> HIDE DEF r
      <4>1. r \in Ring
        BY <3>1 DEF r
      <4> QED BY <3>1, <4>1, SampleArrives
    <3>3. Promise!Arrive(ts)
      BY <1>1, <1>2, <2>2, <3>2 DEF Promise!Arrive
    <3>4. guard'.flicker \in Ring
      BY <2>2, <3>2
    <3> QED BY <3>3, <3>4 DEF RingOK, Promise!Next
  <2> QED BY <2>1, <2>2, WindowStep
<1> QED BY <1>3, <1>4, GuardOKHolds, PTL DEF Spec, WindowSpec, Promise!Spec
=============================================================================
