------------------------------ MODULE MarketProofs ------------------------------
(***************************************************************************)
(* Proofs about MarketAnalysis, for every calendar, every set of limits    *)
(* and every order of the updates: the regime is the worst that its inputs *)
(* call for, a strict confirmation rests on four fresh answers, and a Play *)
(* on what was last said and on the last PriceHistory trades.              *)
(*                                                                         *)
(* The last needs the ring: HoldsLast says that its slots are the last     *)
(* ticks, from the oldest to the newest, and PushKeepsLast that a push     *)
(* keeps it so. ContextOK then ties what the ContextEngine remembers to    *)
(* what was said and traded.                                               *)
(***************************************************************************)
EXTENDS MarketAnalysis, Aggregates, SequenceTheorems, TLAPS

-----------------------------------------------------------------------------
(* The regime. *)

RegimeField == {"atr", "breadth", "baseline", "spread", "calendar", "quality", "state"}

\* A record with the fields of the RegimeEngine, whatever their values.
IsRegime(r) == DOMAIN r = RegimeField /\ r = [f \in RegimeField |-> r[f]]

RegimeOK ==
  IsRegime(regime) /\ regime.calendar \in BOOLEAN /\ regime.state = CalculateState(regime)

\* After any update the state is that of the inputs.
LEMMA UpdateRecalculates ==
  ASSUME NEW r, IsRegime(r), NEW input, NEW value
  PROVE  /\ IsRegime(UpdateRegimeInput(r, input, value))
         /\ UpdateRegimeInput(r, input, value).state
              = CalculateState(UpdateRegimeInput(r, input, value))
<1> DEFINE s == [r EXCEPT ![input] = value]
           t == Recalc(s)
<1>1. IsRegime(s)
  BY DEF IsRegime, RegimeField
<1>2. t = [s EXCEPT !.state = CalculateState(s)]
  BY DEF Recalc
<1> HIDE DEF s
<1>3. IsRegime(t) /\ t.state = CalculateState(s)
  BY <1>1, <1>2 DEF IsRegime, RegimeField
<1>4. \A f \in RegimeField \ {"state"} : t[f] = s[f]
  BY <1>1, <1>2 DEF IsRegime
<1>5. CalculateState(t) = CalculateState(s)
  <2> HIDE DEF t
  <2>1. /\ t.quality = s.quality /\ t.atr = s.atr /\ t.breadth = s.breadth
        /\ t.baseline = s.baseline /\ t.spread = s.spread /\ t.calendar = s.calendar
    BY <1>4 DEF RegimeField
  <2> QED BY <2>1 DEF CalculateState, WidensBy
<1> QED BY <1>3, <1>5 DEF UpdateRegimeInput, s

\* The calendar's answer is the only truth value among the inputs.
LEMMA CalendarStaysTruth ==
  ASSUME IsRegime(regime), regime.calendar \in BOOLEAN, NEW input \in RegimeField, NEW value,
         input = "calendar" => value \in BOOLEAN
  PROVE  UpdateRegimeInput(regime, input, value).calendar \in BOOLEAN
<1> DEFINE s == [regime EXCEPT ![input] = value]
<1>1. s.calendar \in BOOLEAN /\ "calendar" \in DOMAIN s
  BY DEF IsRegime, RegimeField
<1>2. UpdateRegimeInput(regime, input, value) = [s EXCEPT !.state = CalculateState(s)]
  BY DEF UpdateRegimeInput, Recalc
<1> HIDE DEF s
<1> QED BY <1>1, <1>2

\* The state is at all times that of the inputs.
LEMMA RegimeOKHolds == Spec => []RegimeOK
<1>1. Init => RegimeOK
  <2>1. IsRegime(NewRegime)
    BY DEF IsRegime, RegimeField, NewRegime
  <2>2. CalculateState(NewRegime) = "Normal"
    <3>1. ~WidensBy(NewRegime, RegimeParams.widening_riskoff)
          /\ ~WidensBy(NewRegime, RegimeParams.widening_caution)
      BY DEF WidensBy, NewRegime
    <3>2. /\ NewRegime.quality = "Ok" /\ NewRegime.atr = 0 /\ NewRegime.breadth = 4500
          /\ NewRegime.calendar = FALSE
      BY DEF NewRegime
    <3> DEFINE a == RegimeParams.atr_caution_max
               b == RegimeParams.atr_normal_max
               c == RegimeParams.breadth_caution_min
               d == RegimeParams.breadth_normal_min
    <3>3. a \in Nat \ {0} /\ b \in Nat /\ c \in Nat /\ c < 4500 /\ d \in Nat /\ d <= 4500
      BY RegimeAssumption
    <3>4. /\ ~(NewRegime.atr >= a) /\ ~(NewRegime.breadth <= c)
          /\ ~(NewRegime.atr > b) /\ ~(NewRegime.breadth < d)
      BY <3>2, <3>3
    <3>5. ~(NewRegime.quality # "Ok") /\ ~NewRegime.calendar
      BY <3>2
    <3> QED BY <3>1, <3>4, <3>5, Zenon DEF CalculateState, a, b, c, d
  <2>3. NewRegime.state = "Normal" /\ NewRegime.calendar = FALSE
    BY DEF NewRegime
  <2> QED BY <2>1, <2>2, <2>3 DEF Init, RegimeOK
<1>2. RegimeOK /\ [Next]_vars => RegimeOK'
  <2> SUFFICES ASSUME RegimeOK, [Next]_vars PROVE RegimeOK'
    OBVIOUS
  <2>1. ASSUME NEW input \in RegimeField, NEW value,
               input = "calendar" => value \in BOOLEAN,
               regime' = UpdateRegimeInput(regime, input, value)
        PROVE  RegimeOK'
    <3>1. IsRegime(regime) /\ regime.calendar \in BOOLEAN
      BY DEF RegimeOK
    <3>2. IsRegime(regime') /\ regime'.state = CalculateState(regime')
      BY <2>1, <3>1, UpdateRecalculates
    <3>3. regime'.calendar \in BOOLEAN
      BY <2>1, <3>1, CalendarStaysTruth
    <3> QED BY <3>2, <3>3 DEF RegimeOK, IsRegime, CalculateState, WidensBy
  <2>2. ASSUME UNCHANGED regime
        PROVE  RegimeOK'
    BY <2>2 DEF RegimeOK, IsRegime, CalculateState, WidensBy
  <2>3. ASSUME NEW ts, OnHeartbeat(ts)
        PROVE  RegimeOK'
    <3>1. CalendarActive(Clock[ts].day, Clock[ts].minute, Clock[ts].day - Clock[1].day) \in BOOLEAN
      BY Zenon DEF CalendarActive
    <3>2. "calendar" \in RegimeField
      BY DEF RegimeField
    <3> QED BY <2>1, <2>3, <3>1, <3>2 DEF OnHeartbeat
  <2>4. ASSUME NEW update \in RegimeInput, UpdateMarket(update[1], update[2])
        PROVE  RegimeOK'
    <3>1. update[1] \in RegimeField /\ update[1] # "calendar"
      BY MarketAssumption DEF RegimeField
    <3> QED BY <2>1, <2>4, <3>1 DEF UpdateMarket
  <2> QED BY <2>2, <2>3, <2>4 DEF Next, OnTick, OnSnapshot, UpdateAnswer,
          UpdateSectorMomentum, vars, regime_vars
<1> QED BY <1>1, <1>2, PTL DEF Spec

\* The largest of a set of severities.
LEMMA MaxOfSeverities ==
  ASSUME NEW S \in SUBSET {0, 1, 2}, 0 \in S
  PROVE  Max(S) = IF 2 \in S THEN 2 ELSE IF 1 \in S THEN 1 ELSE 0
<1>1. \E x \in S : \A y \in S : x >= y
  <2>1. CASE 2 \in S
    BY <2>1
  <2>2. CASE 2 \notin S /\ 1 \in S
    BY <2>2
  <2>3. CASE 2 \notin S /\ 1 \notin S
    BY <2>3
  <2> QED BY <2>1, <2>2, <2>3
<1> DEFINE m == Max(S)
<1>2. m \in S /\ \A y \in S : m >= y
  BY <1>1 DEF Max
<1> HIDE DEF m
<1>3. m \in {0, 1, 2} /\ (2 \in S => m >= 2) /\ (1 \in S => m >= 1)
  BY <1>2
<1>4. m = IF 2 \in S THEN 2 ELSE IF 1 \in S THEN 1 ELSE 0
  BY <1>2, <1>3
<1> QED BY <1>4 DEF m

\* The state is the worst any input calls for, whatever the order of the updates
\* (recalc and calculate_state of regime_engine).
THEOREM RegimeIsTheWorst == Spec => []RegimeIsWorst
<1>1. RegimeOK => RegimeIsWorst
  <2> SUFFICES ASSUME RegimeOK PROVE RegimeIsWorst
    OBVIOUS
  <2> DEFINE S == {0} \cup {severity \in 1..2 : Calls(severity)}
             worst == Max(S)
  <2>1. regime.state = IF Calls(2) THEN "RiskOff" ELSE IF Calls(1) THEN "Caution" ELSE "Normal"
    BY DEF RegimeOK, CalculateState, Calls
  <2>2. /\ S \in SUBSET {0, 1, 2} /\ 0 \in S
        /\ 2 \in S <=> Calls(2)
        /\ 1 \in S <=> Calls(1)
    OBVIOUS
  <2>3. worst = IF 2 \in S THEN 2 ELSE IF 1 \in S THEN 1 ELSE 0
    <3> HIDE DEF S
    <3> QED BY <2>2, MaxOfSeverities
  <2>4. regime.state = <<"Normal", "Caution", "RiskOff">>[worst + 1]
    <3> HIDE DEF S, worst
    <3> QED BY <2>1, <2>2, <2>3
  <2> QED BY <2>4 DEF RegimeIsWorst
<1> QED BY <1>1, RegimeOKHolds, PTL

-----------------------------------------------------------------------------
(* The confirmation. *)

MtfInput == [value : Nat, at : Nat]

MtfOK ==
  /\ now \in Nat
  /\ mtf \in [weekly : MtfInput, daily : MtfInput, four_hour : MtfInput,
              quarter : MtfInput, price : Nat]
  /\ told = [snap |-> told.snap, sector |-> told.sector, at |-> told.at]
  /\ told.at \in [Frame -> Nat]
  /\ mtf.weekly.at = told.at["weekly"]
  /\ mtf.daily.at = told.at["daily"]
  /\ mtf.four_hour.value = 1 => mtf.four_hour.at = told.at["four_hour"]
  /\ mtf.quarter.value = 1 => mtf.quarter.at = told.at["quarter"]

\* There are four time frames.
LEMMA FourFrames == IsFiniteSet(Frame) /\ Cardinality(Frame) = 4
<1>1. IsFiniteSet({"weekly"}) /\ Cardinality({"weekly"}) = 1
  BY FS_Singleton
<1>2. IsFiniteSet({"weekly", "daily"}) /\ Cardinality({"weekly", "daily"}) = 2
  <2>1. {"weekly", "daily"} = {"weekly"} \cup {"daily"} /\ "daily" \notin {"weekly"}
    OBVIOUS
  <2> QED BY <1>1, <2>1, FS_AddElement
<1>3. /\ IsFiniteSet({"weekly", "daily", "four_hour"})
      /\ Cardinality({"weekly", "daily", "four_hour"}) = 3
  <2>1. /\ {"weekly", "daily", "four_hour"} = {"weekly", "daily"} \cup {"four_hour"}
        /\ "four_hour" \notin {"weekly", "daily"}
    OBVIOUS
  <2> QED BY <1>2, <2>1, FS_AddElement
<1>4. /\ Frame = {"weekly", "daily", "four_hour"} \cup {"quarter"}
      /\ "quarter" \notin {"weekly", "daily", "four_hour"}
  BY DEF Frame
<1> QED BY <1>3, <1>4, FS_AddElement

\* A strict pass takes all four time frames.
LEMMA StrictPass ==
  ASSUME NEW m, NEW ts, RequireAll, MtfPass(m, ts)
  PROVE  /\ ~Stale(m.weekly, ts) /\ ~Stale(m.daily, ts)
         /\ ~Stale(m.four_hour, ts) /\ m.four_hour.value = 1
         /\ ~Stale(m.quarter, ts) /\ m.quarter.value = 1
<1>1. Confirmed(m, ts) \subseteq Frame
  BY DEF Confirmed, Frame
<1>2. Cardinality(Confirmed(m, ts)) >= 4
  BY DEF MtfPass
<1>3. /\ Cardinality(Confirmed(m, ts)) \in Nat
      /\ Cardinality(Confirmed(m, ts)) <= Cardinality(Frame)
      /\ Cardinality(Confirmed(m, ts)) = Cardinality(Frame) => Confirmed(m, ts) = Frame
  BY <1>1, FourFrames, FS_Subset, FS_CardinalityType
<1>4. Confirmed(m, ts) = Frame
  BY <1>2, <1>3, FourFrames
<1>5. \A f \in Frame : f \in Confirmed(m, ts)
  BY <1>4
<1> QED BY <1>5 DEF Confirmed, Frame

\* The times of the inputs are those at which they were last said.
LEMMA MtfOKHolds == Spec => []MtfOK
<1>1. Init => MtfOK
  BY DEF Init, MtfOK, NewMtf, Never, MtfInput, Frame
<1>2. MtfOK /\ [Next]_vars => MtfOK'
  <2> SUFFICES ASSUME MtfOK, [Next]_vars PROVE MtfOK'
    OBVIOUS
  <2> USE DEF MtfOK
  <2>1. ASSUME NEW ts \in now..MaxTime PROVE ts \in Nat
    BY MarketAssumption
  <2>2. ASSUME NEW ts \in now..MaxTime, NEW price \in Price, OnTick(ts, price)
        PROVE  MtfOK'
    BY <2>1, <2>2, MarketAssumption DEF OnTick, Input
  <2>3. ASSUME NEW ts \in now..MaxTime, NEW snap \in Snap, OnSnapshot(ts, snap)
        PROVE  MtfOK'
    <3>1. snap.ema \in Nat /\ snap.resistance \in Nat /\ ts \in Nat
      BY <2>1, MarketAssumption
    <3> DEFINE weekly == SetLevel(mtf.weekly, snap.ema, ts)
               daily  == SetLevel(mtf.daily, snap.resistance, ts)
    <3>2. /\ weekly \in MtfInput /\ daily \in MtfInput
          /\ weekly.at = IF snap.ema > 0 THEN ts ELSE mtf.weekly.at
          /\ daily.at = IF snap.resistance > 0 THEN ts ELSE mtf.daily.at
      BY <3>1 DEF SetLevel, MtfInput
    <3>3. mtf' = [mtf EXCEPT !.weekly = weekly, !.daily = daily]
      BY <2>3 DEF OnSnapshot
    <3> HIDE DEF weekly, daily
    <3>4. /\ mtf' \in [weekly : MtfInput, daily : MtfInput, four_hour : MtfInput,
                       quarter : MtfInput, price : Nat]
          /\ mtf'.weekly = weekly /\ mtf'.daily = daily
          /\ mtf'.four_hour = mtf.four_hour /\ mtf'.quarter = mtf.quarter
      BY <3>2, <3>3
    <3> DEFINE said == IF has_context THEN [volume |-> snap.volume, average |-> snap.average,
                                            news |-> snap.news] ELSE told.snap
               newWeekly == IF snap.ema > 0 THEN ts ELSE told.at["weekly"]
               newDaily == IF snap.resistance > 0 THEN ts ELSE told.at["daily"]
    <3>5. told' = [told EXCEPT !.snap = said, !.at["weekly"] = newWeekly,
                               !.at["daily"] = newDaily]
      BY <2>3 DEF OnSnapshot
    <3>6. newWeekly \in Nat /\ newDaily \in Nat
      BY <3>1 DEF Frame
    <3> HIDE DEF said, newWeekly, newDaily
    <3>7. told' = [snap |-> told'.snap, sector |-> told'.sector, at |-> told'.at]
      BY <3>5
    <3>9. /\ told'.at \in [Frame -> Nat]
          /\ told'.at["weekly"] = newWeekly /\ told'.at["daily"] = newDaily
          /\ told'.at["four_hour"] = told.at["four_hour"]
          /\ told'.at["quarter"] = told.at["quarter"]
      BY <3>5, <3>6 DEF Frame
    <3>8. now' \in Nat
      BY <2>3, <3>1 DEF OnSnapshot, Input
    <3> QED BY <3>2, <3>4, <3>7, <3>8, <3>9 DEF newWeekly, newDaily
  <2>4. ASSUME NEW ts \in now..MaxTime, NEW frame \in {"four_hour", "quarter"},
               NEW yes \in BOOLEAN, UpdateAnswer(ts, frame, yes)
        PROVE  MtfOK'
    <3> DEFINE answer == SetAnswer(yes, ts)
               at == IF yes THEN ts ELSE 0
    <3>1. ts \in Nat /\ now' \in Nat
      BY <2>1, <2>4 DEF UpdateAnswer, Input
    <3>2. answer \in MtfInput /\ at \in Nat /\ (answer.value = 1 => answer.at = at)
      BY <3>1 DEF SetAnswer, MtfInput
    <3>3. mtf' = [mtf EXCEPT ![frame] = answer] /\ told' = [told EXCEPT !.at[frame] = at]
      BY <2>4 DEF UpdateAnswer
    <3> HIDE DEF answer, at
    <3>4. /\ told' = [snap |-> told'.snap, sector |-> told'.sector, at |-> told'.at]
          /\ told'.at = [told.at EXCEPT ![frame] = at]
      BY <3>3
    <3>5. CASE frame = "four_hour"
      BY <3>1, <3>2, <3>3, <3>4, <3>5 DEF Frame
    <3>6. CASE frame = "quarter"
      BY <3>1, <3>2, <3>3, <3>4, <3>6 DEF Frame
    <3> QED BY <3>5, <3>6
  <2>5. CASE \E change \in Sector : UpdateSectorMomentum(change)
    BY <2>5 DEF UpdateSectorMomentum, Input
  <2>6. ASSUME NEW ts \in now..MaxTime, OnHeartbeat(ts)
        PROVE  MtfOK'
    BY <2>1, <2>6 DEF OnHeartbeat, Input, symbol_vars
  <2>7. CASE \E update \in RegimeInput : UpdateMarket(update[1], update[2])
    BY <2>7 DEF UpdateMarket, Input, symbol_vars
  <2>8. CASE UNCHANGED vars
    BY <2>8 DEF vars, symbol_vars
  <2> QED BY <2>2, <2>3, <2>4, <2>5, <2>6, <2>7, <2>8 DEF Next
<1> QED BY <1>1, <1>2, PTL DEF Spec

FreshStep ==
  published' # published /\ published'.mtf /\ RequireAll =>
    \A f \in Frame : told'.at[f] # 0 /\ published'.at - told'.at[f] <= StaleAfter

\* No strict confirmation is published on an answer that is missing or stale
\* (is_stale and evaluate of mtf_engine, and the updates that skip a zero).
THEOREM ConfirmationsAreFresh == Spec => ConfirmationFresh
<1>1. MtfOK /\ MtfOK' /\ [Next]_vars => FreshStep \/ UNCHANGED vars
  <2> SUFFICES ASSUME MtfOK, MtfOK', Next, published' # published, published'.mtf, RequireAll
               PROVE  \A f \in Frame : told'.at[f] # 0 /\ published'.at - told'.at[f] <= StaleAfter
    BY DEF FreshStep
  <2>1. PICK ts \in now..MaxTime : Publish(ts)
    BY DEF Next, OnTick, OnSnapshot, UpdateAnswer, UpdateSectorMomentum, OnHeartbeat,
           UpdateMarket, symbol_vars
  <2>2. published'.at = ts /\ MtfPass(mtf', ts) /\ ts \in Nat
    BY <2>1, MarketAssumption DEF Publish, MtfOK
  <2>3. /\ ~Stale(mtf'.weekly, ts) /\ ~Stale(mtf'.daily, ts)
        /\ ~Stale(mtf'.four_hour, ts) /\ mtf'.four_hour.value = 1
        /\ ~Stale(mtf'.quarter, ts) /\ mtf'.quarter.value = 1
    BY <2>2, StrictPass
  <2>4. /\ told'.at \in [Frame -> Nat]
        /\ mtf'.weekly.at = told'.at["weekly"] /\ mtf'.daily.at = told'.at["daily"]
        /\ mtf'.four_hour.at = told'.at["four_hour"]
        /\ mtf'.quarter.at = told'.at["quarter"]
    BY <2>3 DEF MtfOK
  <2>5. StaleAfter \in Nat
    BY AnalysisAssumption
  <2> QED BY <2>2, <2>3, <2>4, <2>5 DEF Stale, Frame
<1>2. [][FreshStep]_vars => ConfirmationFresh
  BY PTL DEF ConfirmationFresh, FreshStep
<1> QED BY <1>1, <1>2, MtfOKHolds, PTL DEF Spec


-----------------------------------------------------------------------------
(* The price history. *)

TickType == [at : Nat, price : Nat \ {0}]

IsRing(ring) ==
  ring \in [buffer : [0..PriceHistory -> [ts : Int, item : Nat]],
            head : 0..PriceHistory, tail : 0..PriceHistory,
            capacity : {PriceHistory + 1}, window_micros : Nat]

\* The ring holds the prices of the last ticks, from the oldest to the newest.
HoldsLast(ring, seq) ==
  LET n == Length(ring)
  IN /\ n = IF Len(seq) < PriceHistory THEN Len(seq) ELSE PriceHistory
     /\ \A k \in 0..(n - 1) : ring.buffer[IndexOf(ring, k)].item = seq[Len(seq) - n + k + 1].price

\* A ring without an item.
LEMMA NewRingHolds ==
  IsRing(NewRing(PriceHistory, ChurnWindow)) /\ HoldsLast(NewRing(PriceHistory, ChurnWindow), <<>>)
<1> DEFINE ring == NewRing(PriceHistory, ChurnWindow)
<1>1. PriceHistory \in Nat \ {0} /\ ChurnWindow \in Nat
  BY MarketAssumption
<1>2. /\ ring.head = 0 /\ ring.tail = 0 /\ ring.capacity = PriceHistory + 1
      /\ ring = [buffer |-> [i \in 0..PriceHistory |-> NoSlot], head |-> 0, tail |-> 0,
                 capacity |-> PriceHistory + 1, window_micros |-> ChurnWindow]
  BY DEF NewRing
<1>3. NoSlot \in [ts : Int, item : Nat]
  BY DEF NoSlot
<1>4. IsRing(ring)
  BY <1>1, <1>2, <1>3 DEF IsRing
<1> HIDE DEF ring
<1>5. Length(ring) = 0
  BY <1>2 DEF Length
<1>6. HoldsLast(ring, <<>>)
  BY <1>1, <1>5 DEF HoldsLast
<1> QED BY <1>4, <1>6 DEF ring

\* The arithmetic of a ring of P + 1 slots: the slot after i, the slots from l up
\* to h, and the k-th slot from l.
After(P, i) == IF i = P THEN 0 ELSE i + 1
Gap(P, h, l) == IF h >= l THEN h - l ELSE P + 1 + h - l
At(P, l, k) == IF l + k < P + 1 THEN l + k ELSE l + k - (P + 1)

\* A head that moves on pushes the tail along when it meets it: the ring is then
\* full and stays so, else it holds one more.
Moved(P, h, l, nh, nl) == nh = After(P, h) /\ nl = IF nh = l THEN After(P, l) ELSE l

LEMMA GapGrows ==
  ASSUME NEW P \in Nat, P >= 1, NEW h \in 0..P, NEW l \in 0..P, NEW nh, NEW nl,
         Moved(P, h, l, nh, nl)
  PROVE  /\ nh \in 0..P /\ nl \in 0..P /\ Gap(P, h, l) \in 0..P
         /\ nl = (IF Gap(P, h, l) < P THEN l ELSE After(P, l))
         /\ Gap(P, nh, nl) = IF Gap(P, h, l) < P THEN Gap(P, h, l) + 1 ELSE P
<1>1. CASE nh = l
  <2>1. Gap(P, h, l) = P
    BY <1>1 DEF Moved, After, Gap
  <2>2. Gap(P, nh, nl) = P
    BY <1>1 DEF Moved, After, Gap
  <2> QED BY <1>1, <2>1, <2>2 DEF Moved, After
<1>2. CASE nh # l
  <2>1. Gap(P, h, l) \in 0..(P - 1)
    BY <1>2 DEF Moved, After, Gap
  <2>2. Gap(P, nh, nl) = Gap(P, h, l) + 1
    BY <1>2 DEF Moved, After, Gap
  <2> QED BY <1>2, <2>1, <2>2 DEF Moved, After
<1> QED BY <1>1, <1>2

\* Counted from the tail, the slots up to the head are those of the gap, and the
\* head is the one after them.
Counted(P, h, l, k) ==
  /\ At(P, l, k) \in 0..P /\ (At(P, l, k) = h <=> k = Gap(P, h, l))
  /\ k + 1 <= Gap(P, h, l) => At(P, After(P, l), k) = At(P, l, k + 1)

LEMMA SlotsOfGap ==
  ASSUME NEW P \in Nat, P >= 1, NEW h \in 0..P, NEW l \in 0..P,
         NEW k \in Nat, k <= Gap(P, h, l)
  PROVE  Counted(P, h, l, k)
BY DEF Counted, At, Gap, After

\* A push keeps the last items: a full ring gives up its oldest.
LEMMA PushKeepsLast ==
  ASSUME NEW ring, IsRing(ring), NEW seq \in Seq(TickType), HoldsLast(ring, seq), NEW t \in TickType
  PROVE  /\ IsRing(PushItem(ring, t.at, t.price))
         /\ HoldsLast(PushItem(ring, t.at, t.price), Append(seq, t))
<1>0. /\ PriceHistory \in Nat /\ PriceHistory >= 1 /\ Len(seq) \in Nat
      /\ ring.head \in 0..PriceHistory /\ ring.tail \in 0..PriceHistory
      /\ After(PriceHistory, ring.head) \in Nat /\ After(PriceHistory, ring.tail) \in Nat
  <2>1. PriceHistory \in Nat /\ PriceHistory >= 1
    BY MarketAssumption
  <2>2. Len(seq) \in Nat
    BY LenProperties
  <2>3. ring.head \in 0..PriceHistory /\ ring.tail \in 0..PriceHistory
    BY DEF IsRing
  <2>4. \A i \in 0..PriceHistory : After(PriceHistory, i) \in Nat
    BY <2>1 DEF After
  <2> QED BY <2>1, <2>2, <2>3, <2>4
<1>a. PICK P \in Nat, L \in Nat : P = PriceHistory /\ L = Len(seq)
  BY <1>0
<1>b. PICK h \in Nat, l \in Nat : h = ring.head /\ l = ring.tail
  BY <1>0
<1>c. After(P, h) \in Nat /\ After(P, l) \in Nat
  BY <1>0, <1>a, <1>b
<1>d. PICK nh \in Nat : nh = After(P, h)
  BY <1>c
<1>e. PICK nl \in Nat : nl = IF nh = l THEN After(P, l) ELSE l
  BY <1>c
<1>1. /\ P \in Nat /\ P >= 1 /\ P = PriceHistory /\ h = ring.head /\ l = ring.tail /\ L = Len(seq)
      /\ nh = After(P, h) /\ nl = (IF nh = l THEN After(P, l) ELSE l) /\ Moved(P, h, l, nh, nl)
      /\ L \in Nat /\ h \in 0..P /\ l \in 0..P /\ nh \in 0..P /\ nl \in 0..P
  BY <1>0, <1>a, <1>b, <1>d, <1>e DEF Moved, After
<1>2. PICK slot : slot = [ts |-> t.at, item |-> t.price]
  OBVIOUS
<1>3. slot.item = t.price /\ slot \in [ts : Int, item : Nat]
  BY <1>2 DEF TickType
<1>4. PICK new : new = PushItem(ring, t.at, t.price)
  OBVIOUS
<1>5. ring.capacity = P + 1 /\ ring.buffer \in [0..P -> [ts : Int, item : Nat]]
  BY <1>1 DEF IsRing
<1>6. Wrap(ring, h) = After(P, h) /\ Wrap(ring, l) = After(P, l)
  <2>1. \A i \in 0..P : i + 1 = P + 1 <=> i = P
    BY <1>1
  <2> QED BY <1>1, <1>5, <2>1 DEF Wrap, After
<1>7. new = [ring EXCEPT !.tail = nl, !.buffer = [@ EXCEPT ![h] = slot], !.head = nh]
  BY <1>1, <1>2, <1>4, <1>6 DEF PushItem
<1>8. [ring.buffer EXCEPT ![h] = slot] \in [0..P -> [ts : Int, item : Nat]]
  BY <1>3, <1>5
<1>9. IsRing(new)
  BY <1>1, <1>7, <1>8 DEF IsRing
<1>10. /\ new.head = nh /\ new.tail = nl /\ new.capacity = P + 1
       /\ new.buffer = [ring.buffer EXCEPT ![h] = slot]
  BY <1>5, <1>7 DEF IsRing
<1>11. new.buffer[h] = slot /\ \A i \in 0..P : i # h => new.buffer[i] = ring.buffer[i]
  BY <1>1, <1>5, <1>10
<1>12. PICK n \in 0..P, shift \in 0..1 :
         /\ n = Gap(P, h, l) /\ n = Length(ring) /\ n = IF L < P THEN L ELSE P
         /\ shift = IF n < P THEN 0 ELSE 1
         /\ nl = (IF n < P THEN l ELSE After(P, l))
         /\ Length(new) = IF n < P THEN n + 1 ELSE P
  <2>1. Length(ring) = Gap(P, h, l) /\ Length(new) = Gap(P, nh, nl)
    BY <1>1, <1>5, <1>10 DEF Length, Gap
  <2>2. Gap(P, h, l) = IF L < P THEN L ELSE P
    BY <1>1, <2>1 DEF HoldsLast
  <2>3. /\ Gap(P, h, l) \in 0..P
        /\ nl = (IF Gap(P, h, l) < P THEN l ELSE After(P, l))
        /\ Gap(P, nh, nl) = IF Gap(P, h, l) < P THEN Gap(P, h, l) + 1 ELSE P
    BY <1>1, GapGrows
  <2> QED BY <2>1, <2>2, <2>3
<1>13. PICK m \in 0..P : m = Length(new)
  BY <1>1, <1>12
<1>14. ASSUME NEW k \in 0..(m - 1)
       PROVE  /\ k + shift \in 0..n
              /\ IndexOf(new, k) = At(P, l, k + shift) /\ IndexOf(ring, k + shift) = At(P, l, k + shift)
              /\ At(P, l, k + shift) \in 0..P
              /\ At(P, l, k + shift) = h <=> k + shift = n
  <2>1. k \in Nat /\ k + shift \in 0..n /\ k + shift \in Nat
    BY <1>12, <1>13
  <2>2. IndexOf(new, k) = At(P, nl, k) /\ IndexOf(ring, k + shift) = At(P, l, k + shift)
    BY <1>1, <1>5, <1>10 DEF IndexOf, At
  <2>3. At(P, l, k + shift) \in 0..P /\ (At(P, l, k + shift) = h <=> k + shift = n)
    <3>1. PICK j \in Nat : j = k + shift
      BY <2>1
    <3>2. Gap(P, h, l) = n /\ j <= Gap(P, h, l)
      BY <1>12, <2>1, <3>1
    <3>3. Counted(P, h, l, j)
      BY <1>1, <3>2, SlotsOfGap
    <3> QED BY <3>1, <3>2, <3>3 DEF Counted
  <2>4. CASE shift = 0
    BY <1>12, <2>1, <2>2, <2>3, <2>4
  <2>5. CASE shift = 1
    <3>1. k <= Gap(P, h, l) /\ k + 1 <= Gap(P, h, l)
      BY <1>12, <2>1, <2>5
    <3>2. At(P, After(P, l), k) = At(P, l, k + 1)
      BY <1>1, <2>1, <3>1, SlotsOfGap DEF Counted
    <3> QED BY <1>12, <2>1, <2>2, <2>3, <2>5, <3>2
  <2> QED BY <2>4, <2>5
<1>15. /\ Len(Append(seq, t)) = L + 1 /\ Append(seq, t)[L + 1] = t
       /\ \A i \in 1..L : Append(seq, t)[i] = seq[i]
  BY <1>1, AppendProperties
<1>16. ASSUME NEW k \in 0..(m - 1)
       PROVE  new.buffer[IndexOf(new, k)].item = Append(seq, t)[(L + 1) - m + k + 1].price
  <2>1. (L + 1) - m + k + 1 = (L - n + (k + shift)) + 1
    BY <1>12, <1>13
  <2>2. CASE k + shift = n
    <3>1. (L + 1) - m + k + 1 = L + 1
      BY <1>12, <2>1, <2>2
    <3>2. IndexOf(new, k) = h
      BY <1>14, <2>2
    <3> QED BY <1>3, <1>11, <1>15, <3>1, <3>2
  <2>3. CASE k + shift # n
    <3>1. k + shift \in 0..(n - 1)
      BY <1>12, <1>14, <2>3
    <3>2. (L - n + (k + shift)) + 1 \in 1..L
      BY <1>12, <3>1
    <3>3. new.buffer[IndexOf(new, k)] = ring.buffer[IndexOf(ring, k + shift)]
      BY <1>11, <1>14, <2>3
    <3>4. ring.buffer[IndexOf(ring, k + shift)].item = seq[L - n + (k + shift) + 1].price
      BY <1>1, <1>12, <3>1 DEF HoldsLast
    <3> QED BY <1>15, <2>1, <3>2, <3>3, <3>4
  <2> QED BY <2>2, <2>3
<1>17. m = IF L + 1 < P THEN L + 1 ELSE P
  BY <1>12, <1>13
<1>18. HoldsLast(new, Append(seq, t))
  BY <1>1, <1>13, <1>15, <1>16, <1>17 DEF HoldsLast
<1> QED BY <1>4, <1>9, <1>18


\* The items of a ring are numbers, counted from the tail.
LEMMA ItemsAreNat ==
  ASSUME NEW ring, IsRing(ring)
  PROVE  /\ Length(ring) \in 0..PriceHistory
         /\ \A k \in 1..Length(ring) : /\ Items(ring)[k] = ring.buffer[IndexOf(ring, k - 1)]
                                       /\ Items(ring)[k].item \in Nat
<1>0. /\ PriceHistory \in Nat
      /\ ring.head \in 0..PriceHistory /\ ring.tail \in 0..PriceHistory
  BY MarketAssumption DEF IsRing
<1>1. PICK P \in Nat, h \in Nat, l \in Nat : P = PriceHistory /\ h = ring.head /\ l = ring.tail
  BY <1>0
<1>2. /\ h \in 0..P /\ l \in 0..P /\ ring.capacity = P + 1
      /\ ring.buffer \in [0..P -> [ts : Int, item : Nat]]
  BY <1>0, <1>1 DEF IsRing
<1>3. Length(ring) \in 0..P
  <2>1. Length(ring) = Gap(P, h, l)
    BY <1>1, <1>2 DEF Length, Gap
  <2> QED BY <1>2, <2>1 DEF Gap
<1>4. ASSUME NEW k \in 1..Length(ring)
      PROVE  /\ Items(ring)[k] = ring.buffer[IndexOf(ring, k - 1)]
             /\ Items(ring)[k].item \in Nat
  <2>1. IndexOf(ring, k - 1) \in 0..P
    <3>1. IndexOf(ring, k - 1) = At(P, l, k - 1) /\ k - 1 \in 0..P
      BY <1>1, <1>2, <1>3 DEF IndexOf, At
    <3> QED BY <1>2, <3>1 DEF At
  <2>2. ring.buffer[IndexOf(ring, k - 1)] \in [ts : Int, item : Nat]
    BY <1>2, <2>1
  <2>3. Items(ring)[k] = ring.buffer[IndexOf(ring, k - 1)]
    BY DEF Items
  <2> QED BY <2>2, <2>3
<1> QED BY <1>1, <1>3, <1>4

\* min_max of a ring that is not empty: the least and the greatest of its items.
LEMMA MinMaxFound ==
  ASSUME NEW ring, IsRing(ring), NEW n, n = Length(ring), n >= 1
  PROVE  /\ \E i \in 1..n : /\ MinMax(ring).high = Items(ring)[i].item
                            /\ \A k \in 1..n : Items(ring)[k].item <= Items(ring)[i].item
         /\ \E j \in 1..n : MinMax(ring).low = Items(ring)[j].item
<1> DEFINE f == [k \in 1..n |-> Items(ring)[k].item]
           held == {Items(ring)[k].item : k \in 1..Length(ring)}
<1>1. n \in Nat /\ \A k \in 1..n : f[k] = Items(ring)[k].item /\ f[k] \in Int
  BY ItemsAreNat, MarketAssumption
<1>2. held = {f[k] : k \in 1..n}
  OBVIOUS
<1>3. /\ MinMax(ring).low = CHOOSE x \in held : \A y \in held : x <= y
      /\ MinMax(ring).high = CHOOSE x \in held : \A y \in held : x >= y
  BY DEF MinMax
<1> HIDE DEF f, held
<1>4. /\ \E i \in 1..n : \A k \in 1..n : f[k] <= f[i]
      /\ \E i \in 1..n : \A k \in 1..n : f[i] <= f[k]
  BY <1>1, TopOfList, BottomOfList
<1>5. (\E x \in held : \A y \in held : x <= y) /\ (\E x \in held : \A y \in held : x >= y)
  <2>1. PICK a \in 1..n, b \in 1..n :
          (\A k \in 1..n : f[a] <= f[k]) /\ (\A k \in 1..n : f[k] <= f[b])
    BY <1>4
  <2>2. f[a] \in held /\ f[b] \in held
    BY <1>2
  <2>3. \A y \in held : f[a] <= y /\ f[b] >= y
    BY <1>1, <1>2, <2>1
  <2> QED BY <2>2, <2>3
<1>6. MinMax(ring).low \in held /\ MinMax(ring).high \in held
      /\ \A y \in held : MinMax(ring).high >= y
  BY <1>3, <1>5
<1>7. PICK i \in 1..n, j \in 1..n : MinMax(ring).high = f[i] /\ MinMax(ring).low = f[j]
  BY <1>2, <1>6
<1>8. \A k \in 1..n : f[k] <= f[i]
  BY <1>1, <1>2, <1>6, <1>7
<1> QED BY <1>1, <1>7, <1>8

\* The last PriceHistory elements of a list, as LastTicks takes them.
LastOf(seq) == SubSeq(seq, Max({1, Len(seq) - PriceHistory + 1}), Len(seq))

\* They are the ones that the ring holds.
LEMMA LastOfRing ==
  ASSUME NEW ring, IsRing(ring), NEW seq \in Seq(TickType), HoldsLast(ring, seq),
         NEW n, n = Length(ring)
  PROVE  /\ DOMAIN LastOf(seq) = 1..n
         /\ \A k \in 1..n : /\ LastOf(seq)[k].price = Items(ring)[k].item
                            /\ LastOf(seq)[k].price \in Nat \ {0}
<1>0. /\ PriceHistory \in Nat /\ PriceHistory >= 1 /\ Len(seq) \in Nat
      /\ n \in 0..PriceHistory
  BY ItemsAreNat, MarketAssumption, LenProperties
<1>1. PICK P \in Nat, L \in Nat, m \in Nat :
        P = PriceHistory /\ P >= 1 /\ L = Len(seq) /\ m = n /\ m \in 0..P
  BY <1>0
<1>2. m = (IF L < P THEN L ELSE P)
  BY <1>1 DEF HoldsLast
<1>3. Max({1, L - P + 1}) = L - m + 1
  <2>1. /\ Max({1, L - P + 1}) \in {1, L - P + 1} /\ Max({1, L - P + 1}) >= 1
        /\ Max({1, L - P + 1}) >= L - P + 1
    BY MaxOfTwo
  <2> QED BY <1>2, <2>1
<1>4. PICK s : s = LastOf(seq)
  OBVIOUS
<1>5. s = [k \in 1..m |-> seq[L - m + k]]
  <2>1. s = SubSeq(seq, L - m + 1, L)
    BY <1>1, <1>3, <1>4 DEF LastOf
  <2>2. s = [k \in 1..(1 + L - (L - m + 1)) |-> seq[(L - m + 1) + k - 1]]
    BY <2>1
  <2>3. 1 + L - (L - m + 1) = m /\ \A k \in 1..m : (L - m + 1) + k - 1 = L - m + k
    OBVIOUS
  <2> QED BY <2>2, <2>3
<1>6. ASSUME NEW k \in 1..m
      PROVE  s[k].price = Items(ring)[k].item /\ s[k].price \in Nat \ {0}
  <2>1. k - 1 \in 0..(m - 1) /\ L - m + (k - 1) + 1 = L - m + k /\ L - m + k \in 1..L
    BY <1>2
  <2>2. ring.buffer[IndexOf(ring, k - 1)].item = seq[L - m + (k - 1) + 1].price
    BY <1>1, <2>1 DEF HoldsLast
  <2>3. Items(ring)[k] = ring.buffer[IndexOf(ring, k - 1)]
    BY <1>1, ItemsAreNat
  <2>4. seq[L - m + k] \in TickType
    BY <1>1, <2>1, ElementOfSeq
  <2> QED BY <1>5, <2>1, <2>2, <2>3, <2>4 DEF TickType
<1> QED BY <1>1, <1>4, <1>5, <1>6

\* A window that does not churn is one in which the price moved.
LEMMA QuietMoves ==
  ASSUME NEW ring, IsRing(ring), NEW seq \in Seq(TickType), HoldsLast(ring, seq), seq # <<>>,
         NEW low, low = MinMax(ring).low, NEW high, high = MinMax(ring).high
  PROVE  high > 0 /\ (~(1000 * (high - low) < ChurnMax * high) => Moves(LastOf(seq)))
<1>1. PICK n \in Nat : n = Length(ring) /\ n >= 1
  <2>1. PriceHistory \in Nat /\ PriceHistory >= 1
    BY MarketAssumption
  <2>2. Len(seq) \in Nat /\ Len(seq) # 0
    BY LenProperties, EmptySeq
  <2> QED BY <2>1, <2>2 DEF HoldsLast
<1>2. PICK s : s = LastOf(seq)
  OBVIOUS
<1>3. /\ DOMAIN s = 1..n
      /\ \A k \in 1..n : s[k].price = Items(ring)[k].item /\ s[k].price \in Nat \ {0}
  BY <1>1, <1>2, LastOfRing
<1>4. PICK i \in 1..n, j \in 1..n :
        /\ high = s[i].price /\ low = s[j].price
        /\ \A k \in 1..n : s[k].price <= s[i].price
  BY <1>1, <1>3, MinMaxFound
<1>5. high \in Nat /\ low \in Nat /\ high > 0 /\ ChurnMax \in Nat
  BY <1>3, <1>4, AnalysisAssumption
<1>6. ~(1000 * (high - low) < ChurnMax * high) => 1000 * (high - low) >= ChurnMax * high
  BY <1>5
<1> QED BY <1>2, <1>3, <1>4, <1>5, <1>6 DEF Moves


-----------------------------------------------------------------------------
(* What is published of a symbol. *)

\* The price history is a ring of the last ticks.
RingOK == ticks \in Seq(TickType) /\ IsRing(prices) /\ HoldsLast(prices, ticks)

ContextType == [volume : Nat, average : Nat, surge : BOOLEAN, news : BOOLEAN,
                sector : Int, churning : BOOLEAN]

\* The ContextEngine knows what was last said, and what the last ticks show.
ContextOK ==
  /\ ctx \in ContextType
  /\ told.snap = [volume |-> ctx.volume, average |-> ctx.average, news |-> ctx.news]
  /\ told.sector = ctx.sector
  /\ ctx.surge => ctx.volume > StrongRatio * ctx.average
  /\ ~ctx.churning => Moves(LastOf(ticks))

\* A Tick is a tick of the type above.
LEMMA TickTyped ==
  ASSUME MtfOK, NEW ts \in now..MaxTime, NEW price \in Price
  PROVE  [at |-> ts, price |-> price] \in TickType
<1>1. ts \in Nat /\ price \in Nat \ {0}
  BY MarketAssumption DEF MtfOK
<1> QED BY <1>1 DEF TickType

\* Only a Tick touches the price history.
LEMMA RingOKHolds == Spec => []RingOK
<1>1. Init => RingOK
  BY NewRingHolds, EmptySeq DEF Init, RingOK
<1>2. MtfOK /\ RingOK /\ [Next]_vars => RingOK'
  <2> SUFFICES ASSUME MtfOK, RingOK, [Next]_vars PROVE RingOK'
    OBVIOUS
  <2>1. ASSUME NEW ts \in now..MaxTime, NEW price \in Price, OnTick(ts, price)
        PROVE  RingOK'
    <3>1. PICK t \in TickType : t = [at |-> ts, price |-> price]
      BY TickTyped
    <3>2. t.at = ts /\ t.price = price
      BY <3>1
    <3>3. prices' = PushItem(prices, t.at, t.price) /\ ticks' = Append(ticks, t)
      BY <2>1, <3>1, <3>2 DEF OnTick
    <3>4. ticks' \in Seq(TickType)
      BY <3>3, AppendProperties DEF RingOK
    <3>5. IsRing(PushItem(prices, t.at, t.price))
          /\ HoldsLast(PushItem(prices, t.at, t.price), Append(ticks, t))
      BY PushKeepsLast DEF RingOK
    <3> QED BY <3>3, <3>4, <3>5 DEF RingOK, IsRing, HoldsLast, Length, IndexOf
  <2>2. CASE UNCHANGED <<prices, ticks>>
    BY <2>2 DEF RingOK, IsRing, HoldsLast, Length, IndexOf
  <2> QED BY <2>1, <2>2 DEF Next, OnSnapshot, UpdateAnswer, UpdateSectorMomentum, OnHeartbeat,
             UpdateMarket, symbol_vars, vars
<1> QED BY <1>1, <1>2, MtfOKHolds, PTL DEF Spec

\* The context follows every input that it hears, and every tick.
LEMMA ContextOKHolds == Spec => []ContextOK
<1>1. Init => ContextOK
  <2> SUFFICES ASSUME Init PROVE ContextOK
    OBVIOUS
  <2>1. LastOf(<<>>) = <<>>
    <3>1. PICK P \in Nat : P = PriceHistory
      BY MarketAssumption
    <3>2. Max({1, 0 - P + 1}) >= 1 /\ Max({1, 0 - P + 1}) \in Int
      <4>1. PICK a \in Int : a = 0 - P + 1
        OBVIOUS
      <4>2. Max({1, a}) >= 1 /\ Max({1, a}) \in Int
        <5>1. 1 \in Int
          OBVIOUS
        <5> QED BY ONLY <5>1, a \in Int, MaxOfTwo, Zenon
      <4> QED BY <4>1, <4>2
    <3>3. Len(<<>>) = 0
      OBVIOUS
    <3> QED BY <3>1, <3>2, <3>3, SubSeqEmpty DEF LastOf
  <2>2. Moves(LastOf(ticks))
    BY <2>1 DEF Init, Moves
  <2> QED BY <2>2 DEF Init, ContextOK, ContextType, NewContext
<1>2. MtfOK /\ RingOK /\ RingOK' /\ ContextOK /\ [Next]_vars => ContextOK'
  <2> SUFFICES ASSUME MtfOK, RingOK, RingOK', ContextOK, [Next]_vars PROVE ContextOK'
    OBVIOUS
  <2>1. ASSUME NEW ts \in now..MaxTime, NEW price \in Price, OnTick(ts, price)
        PROVE  ContextOK'
    <3>1. PICK ring, seq, low, high :
            /\ ring = prices' /\ seq = ticks' /\ low = MinMax(prices').low
            /\ high = MinMax(prices').high
      OBVIOUS
    <3>2. low = MinMax(ring).low /\ high = MinMax(ring).high
      BY <3>1
    <3>3. IsRing(ring) /\ HoldsLast(ring, seq) /\ seq \in Seq(TickType)
      BY <3>1 DEF RingOK, IsRing, HoldsLast, Length, IndexOf
    <3>4. seq # <<>>
      BY <2>1, <3>1, TickTyped, AppendProperties DEF OnTick, RingOK
    <3>5. high > 0 /\ (~(1000 * (high - low) < ChurnMax * high) => Moves(LastOf(seq)))
      BY <3>2, <3>3, <3>4, QuietMoves
    <3>6. PICK churns \in BOOLEAN : churns <=> 1000 * (high - low) < ChurnMax * high
      OBVIOUS
    <3>7. ctx' = [ctx EXCEPT !.churning = churns]
      <4>1. ctx' = UpdatePriceWindow(ctx, low, high)
        BY <2>1, <3>1 DEF OnTick
      <4>2. ctx' = [ctx EXCEPT !.churning = 1000 * (high - low) < ChurnMax * high]
        BY <3>5, <4>1 DEF UpdatePriceWindow
      <4>3. (1000 * (high - low) < ChurnMax * high) = churns
        BY <3>6
      <4> QED BY <4>2, <4>3
    <3>8. ctx' \in ContextType /\ ctx'.churning = churns
          /\ ctx'.volume = ctx.volume /\ ctx'.average = ctx.average /\ ctx'.news = ctx.news
          /\ ctx'.surge = ctx.surge /\ ctx'.sector = ctx.sector
      BY <3>7, Zenon DEF ContextOK, ContextType
    <3>9. told' = told
      BY <2>1 DEF OnTick
    <3>10. ~ctx'.churning => Moves(LastOf(ticks'))
      BY <3>1, <3>5, <3>6, <3>8
    <3> QED BY <3>8, <3>9, <3>10 DEF ContextOK
  <2>2. ASSUME NEW ts \in now..MaxTime, NEW snap \in Snap, OnSnapshot(ts, snap)
        PROVE  ContextOK'
    <3> DEFINE heard == [volume |-> snap.volume, average |-> snap.average, news |-> snap.news]
               said == IF has_context THEN heard ELSE told.snap
    <3>1. snap.volume \in Nat /\ snap.average \in Nat /\ snap.news \in BOOLEAN
      BY MarketAssumption
    <3>2. told'.snap = said /\ told'.sector = told.sector /\ ticks' = ticks
      BY <2>2 DEF OnSnapshot, MtfOK
    <3>3. CASE ~has_context
      <4>1. ctx' = ctx /\ told'.snap = told.snap
        BY <2>2, <3>2, <3>3 DEF OnSnapshot, TakeVolume
      <4> QED BY <3>2, <4>1 DEF ContextOK
    <3>4. CASE has_context
      <4>1. PICK surges \in BOOLEAN : surges <=> snap.volume > StrongRatio * snap.average
        OBVIOUS
      <4>2. ctx' = [ctx EXCEPT !.volume = snap.volume, !.average = snap.average,
                               !.surge = surges, !.news = snap.news]
        <5>1. ctx' = UpdateVolume(ctx, snap)
          BY <2>2, <3>4 DEF OnSnapshot, TakeVolume
        <5>2. (snap.volume > StrongRatio * snap.average) = surges
          BY <4>1
        <5> QED BY <5>1, <5>2 DEF UpdateVolume
      <4>3. ctx' \in ContextType /\ ctx'.surge = surges
            /\ ctx'.volume = snap.volume /\ ctx'.average = snap.average
            /\ ctx'.news = snap.news /\ ctx'.sector = ctx.sector /\ ctx'.churning = ctx.churning
        BY <3>1, <4>2 DEF ContextOK, ContextType
      <4>4. told'.snap = heard
        BY <3>2, <3>4
      <4> QED BY <3>2, <4>1, <4>3, <4>4 DEF ContextOK
    <3> QED BY <3>3, <3>4
  <2>3. ASSUME NEW change \in Sector, UpdateSectorMomentum(change)
        PROVE  ContextOK'
    <3>1. change \in Int
      BY MarketAssumption
    <3>2. ctx' = [ctx EXCEPT !.sector = change] /\ ticks' = ticks
      BY <2>3 DEF UpdateSectorMomentum, UpdateSector
    <3>3. told'.snap = told.snap /\ told'.sector = change
      BY <2>3 DEF UpdateSectorMomentum, MtfOK
    <3> QED BY <3>1, <3>2, <3>3 DEF ContextOK, ContextType
  <2>4. ASSUME NEW ts \in now..MaxTime, NEW frame \in {"four_hour", "quarter"},
               NEW yes \in BOOLEAN, UpdateAnswer(ts, frame, yes)
        PROVE  ContextOK'
    <3>1. told'.snap = told.snap /\ told'.sector = told.sector
      BY <2>4 DEF UpdateAnswer, MtfOK
    <3> QED BY <2>4, <3>1 DEF UpdateAnswer, ContextOK
  <2>5. CASE UNCHANGED <<ctx, told, ticks>>
    BY <2>5 DEF ContextOK
  <2> QED BY <2>1, <2>2, <2>3, <2>4, <2>5 DEF Next, OnHeartbeat, UpdateMarket, symbol_vars, vars
<1> QED BY <1>1, <1>2, MtfOKHolds, RingOKHolds, PTL DEF Spec

EarnedStep ==
  published' # published /\ published'.context = "Play" =>
    /\ Moves(LastTicks)'
    /\ \/ told'.snap.volume > StrongRatio * told'.snap.average
       \/ /\ told'.snap.volume >= PlayRatio * told'.snap.average
          /\ told'.snap.news \/ (told'.sector > 0 /\ told'.sector >= SectorMin)
    /\ told'.snap.average > 0

\* What evaluate_state calls a Play, of a context that is up to date.
LEMMA PlayNeeds ==
  ASSUME NEW c \in ContextType, EvaluateState(c) = "Play",
         c.surge => c.volume > StrongRatio * c.average
  PROVE  /\ ~c.churning /\ c.average > 0
         /\ \/ c.volume > StrongRatio * c.average
            \/ /\ c.volume >= PlayRatio * c.average
               /\ c.news \/ (c.sector > 0 /\ c.sector >= SectorMin)
<1>1. /\ c.volume \in Nat /\ c.average \in Nat /\ c.sector \in Int
      /\ SectorMin \in Nat /\ PlayRatio \in Nat /\ StrongRatio \in Nat
  BY AnalysisAssumption DEF ContextType
<1>2. ~c.churning /\ c.average # 0
  BY DEF EvaluateState
<1>3. CASE c.surge
  BY <1>1, <1>2, <1>3
<1>4. CASE ~c.surge
  <2>1. /\ ~(c.volume < PlayRatio * c.average)
        /\ c.news \/ (c.sector # 0 /\ c.sector >= SectorMin)
    BY <1>2, <1>4 DEF EvaluateState
  <2> QED BY <1>1, <1>2, <2>1
<1> QED BY <1>3, <1>4

\* A Play is published only on a volume that the bridge last said, with news or a
\* favorable sector, and on a price that moved among the last PriceHistory trades
\* (evaluate_state and update_price_window of context_engine, TimeRingBuffer).
THEOREM PlaysAreEarned == Spec => PlayEarned
<1>1. ContextOK' /\ [Next]_vars => EarnedStep \/ UNCHANGED vars
  <2> SUFFICES ASSUME ContextOK', Next, published' # published, published'.context = "Play"
               PROVE  EarnedStep
    BY DEF EarnedStep
  <2>1. PICK ts \in now..MaxTime : Publish(ts)
    BY DEF Next, OnTick, OnSnapshot, UpdateAnswer, UpdateSectorMomentum, OnHeartbeat,
           UpdateMarket, symbol_vars
  <2>2. EvaluateState(ctx') = "Play"
    BY <2>1 DEF Publish
  <2>3. /\ ctx' \in ContextType
        /\ told'.snap = [volume |-> ctx'.volume, average |-> ctx'.average, news |-> ctx'.news]
        /\ told'.sector = ctx'.sector
        /\ ctx'.surge => ctx'.volume > StrongRatio * ctx'.average
        /\ ~ctx'.churning => Moves(LastOf(ticks'))
    BY DEF ContextOK
  <2>4. /\ ~ctx'.churning /\ ctx'.average > 0
        /\ \/ ctx'.volume > StrongRatio * ctx'.average
           \/ /\ ctx'.volume >= PlayRatio * ctx'.average
              /\ ctx'.news \/ (ctx'.sector > 0 /\ ctx'.sector >= SectorMin)
    BY <2>2, <2>3, PlayNeeds
  <2>5. Moves(LastTicks)'
    BY <2>3, <2>4 DEF LastTicks, LastOf
  <2> QED BY <2>3, <2>4, <2>5 DEF EarnedStep
<1>2. [][EarnedStep]_vars => PlayEarned
  BY PTL DEF PlayEarned, EarnedStep
<1> QED BY <1>1, <1>2, ContextOKHolds, PTL DEF Spec
=============================================================================
