------------------------------- MODULE RiskProofs -------------------------------
(***************************************************************************)
(* Proofs about the Risk task and about Trading, for every set of symbols, *)
(* prices, fills and every ladder. The core is FillBalances, the           *)
(* conservation law of trade_accounting: what a fill books is what it pays *)
(* plus what it adds to the cost of the position.                          *)
(*                                                                         *)
(* RiskInv adds to the books what they remember of the fills: CountsHold,  *)
(* for today and every day to come the pruned queue holds the day trades   *)
(* of that day's window, and SalesSettle, what settles on a day is what    *)
(* was sold on the day before.                                             *)
(*                                                                         *)
(* TradeInv is that of Trading: the globals are the sums over the symbols, *)
(* and the channel of each task leads from its account of a symbol to the  *)
(* position the broker holds, with the same realized PnL for both (Leads,  *)
(* BooksFollow), so that tasks that have read everything agree.            *)
(***************************************************************************)
EXTENDS Trading, Aggregates, SequenceTheorems, TLAPS

Pos == [qty: Int, avg: Int]
AnyFill == [side: Side, size: Nat \ {0}, price: Nat \ {0}]

-----------------------------------------------------------------------------
(* Arithmetic of a fill. *)

\* A whole quotient times the divisor is the dividend.
LEMMA WholeQuotient ==
  ASSUME NEW a \in Int, NEW d \in Nat \ {0}, a % d = 0
  PROVE  a \div d \in Int /\ d * (a \div d) = a
<1>1. a \div d \in Int /\ a = d * (a \div d) + (a % d)
  OBVIOUS
<1> QED BY <1>1

\* An increase keeps the money: the new basis is the old one and what was paid.
LEMMA IncreaseKeepsCost ==
  ASSUME NEW q \in Nat \ {0}, NEW a \in Int, NEW n \in Nat \ {0}, NEW p \in Nat,
         (q * a + n * p) % (q + n) = 0
  PROVE  /\ WeightedAvgCost(q, a, n, p) \in Int
         /\ (q + n) * WeightedAvgCost(q, a, n, p) = q * a + n * p
<1>1. q * a + n * p \in Int /\ q + n \in Nat \ {0}
  OBVIOUS
<1>2. WeightedAvgCost(q, a, n, p) = (q * a + n * p) \div (q + n)
  BY DEF WeightedAvgCost
<1> HIDE DEF WeightedAvgCost
<1> QED BY <1>1, <1>2, WholeQuotient

\* trade_accounting conserves money: whether a fill opens, increases, reduces,
\* closes or flips a position, what it books is what it pays into the account
\* plus the change of the position's cost.
LEMMA FillBalances ==
  ASSUME NEW pos \in Pos, NEW fill \in AnyFill, Exact(pos, fill)
  PROVE  /\ After(pos, fill) \in Pos
         /\ Booked(pos, fill) \in Int
         /\ Booked(pos, fill) = CashOf(fill) + Basis(After(pos, fill)) - Basis(pos)
<1> DEFINE q == pos.qty
           a == pos.avg
           n == fill.size
           p == fill.price
           s == Signed(fill)
<1>1. q \in Int /\ a \in Int /\ n \in Nat \ {0} /\ p \in Nat \ {0}
  BY DEF Pos, AnyFill
<1>2. (fill.side = "Bid" /\ s = n) \/ (fill.side = "Ask" /\ s = -n)
  BY DEF Signed, AnyFill, Side
<1>3. After(pos, fill).qty = q + s /\ After(pos, fill).avg = AvgAfter(pos, fill)
  BY DEF After
<1>4. CASE q = 0
  <2>1. AvgAfter(pos, fill) = p
    <3>1. ~SameSide(q, s) /\ ~Flips(q, q + s) /\ q + s # 0
      BY <1>1, <1>2, <1>4 DEF SameSide, Flips
    <3> QED BY <1>4, <3>1 DEF AvgAfter
  <2>2. Booked(pos, fill) = 0
    BY <1>4 DEF Booked
  <2>3. Basis(After(pos, fill)) = (q + s) * p /\ Basis(pos) = q * a
    BY <1>3, <2>1 DEF Basis
  <2>4. (q + s) * p = s * p /\ q * a = 0 /\ s * p \in Int /\ q + s \in Int
    BY <1>1, <1>2, <1>4
  <2>5. CashOf(fill) = -(s * p)
    BY DEF CashOf
  <2>6. After(pos, fill) \in Pos
    BY <1>1, <2>1, <2>4 DEF After, Pos
  <2> HIDE DEF q, a, n, p, s
  <2> QED BY <2>2, <2>3, <2>4, <2>5, <2>6
<1>5. CASE q # 0 /\ SameSide(q, s)
  <2> DEFINE w == WeightedAvgCost(Magnitude(q), a, n, p)
  <2>1. AvgAfter(pos, fill) = w
    BY <1>1, <1>2, <1>5 DEF AvgAfter, SameSide, Flips
  <2>2. Booked(pos, fill) = 0
    BY <1>5 DEF Booked
  <2>3. Magnitude(q) \in Nat \ {0}
    BY <1>1, <1>5 DEF Magnitude
  <2>4. (Magnitude(q) * a + n * p) % (Magnitude(q) + n) = 0
    BY <1>5 DEF Exact
  <2>5. w \in Int /\ (Magnitude(q) + n) * w = Magnitude(q) * a + n * p
    <3> DEFINE k == Magnitude(q)
    <3>1. k \in Nat \ {0} /\ p \in Nat /\ (k * a + n * p) % (k + n) = 0
      BY <1>1, <2>3, <2>4
    <3>2. /\ WeightedAvgCost(k, a, n, p) \in Int
          /\ (k + n) * WeightedAvgCost(k, a, n, p) = k * a + n * p
      <4> HIDE DEF k, q, a, n, p
      <4> QED BY <1>1, <3>1, IncreaseKeepsCost
    <3> QED BY <3>2
  <2>6. \/ q > 0 /\ Magnitude(q) = q /\ s = n
        \/ q < 0 /\ Magnitude(q) = -q /\ s = -n
    BY <1>1, <1>2, <1>5 DEF Magnitude, SameSide
  <2>7. Basis(After(pos, fill)) = (q + s) * w /\ Basis(pos) = q * a
    BY <1>3, <2>1 DEF Basis
  <2>8. CashOf(fill) = -(s * p)
    BY DEF CashOf
  <2>9. After(pos, fill) \in Pos
    BY <1>1, <1>2, <2>1, <2>5 DEF After, Pos
  <2>10. (q + s) * w = q * a + s * p
    <3> HIDE DEF q, a, n, p, s, w
    <3>1. CASE q > 0 /\ Magnitude(q) = q /\ s = n
      BY <2>5, <3>1
    <3>2. CASE q < 0 /\ Magnitude(q) = -q /\ s = -n
      <4>1. ((-q) + n) * w = (-q) * a + n * p
        BY <2>5, <3>2
      <4>2. ((-q) + n) * w = -((q - n) * w) /\ (-q) * a = -(q * a) /\ (-n) * p = -(n * p)
        BY <1>1, <2>5
      <4>3. (q - n) * w \in Int /\ q * a \in Int /\ n * p \in Int /\ q + (-n) = q - n
        BY <1>1, <2>5
      <4> QED BY <3>2, <4>1, <4>2, <4>3
    <3> QED BY <2>6, <3>1, <3>2
  <2> HIDE DEF q, a, n, p, s, w
  <2>11. s * p \in Int /\ q * a \in Int
    BY <1>1, <1>2
  <2> QED BY <2>2, <2>7, <2>8, <2>9, <2>10, <2>11
<1>6. CASE q # 0 /\ ~SameSide(q, s)
  <2> DEFINE c == Closes(q, fill)
             v == AvgAfter(pos, fill)
  <2>1. Booked(pos, fill) = RealizedPnl(q, a, fill)
    BY <1>6 DEF Booked
  <2>2. Basis(After(pos, fill)) = (q + s) * v /\ Basis(pos) = q * a
    BY <1>3 DEF Basis
  <2>3. CashOf(fill) = -(s * p)
    BY DEF CashOf
  <2>4. \/ q > 0 /\ fill.side = "Ask" /\ s = -n
        \/ q < 0 /\ fill.side = "Bid" /\ s = n
    BY <1>1, <1>2, <1>6 DEF SameSide
  <2>5. \/ q > 0 /\ Booked(pos, fill) = (p - a) * c
        \/ q < 0 /\ Booked(pos, fill) = (a - p) * c
    BY <1>1, <2>1, <2>4 DEF RealizedPnl
  <2>6. c = IF n <= Magnitude(q) THEN n ELSE Magnitude(q)
    BY DEF Closes
  <2>7. v = IF q + s = 0 THEN 0 ELSE IF Flips(q, q + s) THEN p ELSE a
    BY <1>1, <1>2, <1>6 DEF AvgAfter, SameSide, Flips
  <2>8. v \in Int
    BY <1>1, <2>7
  <2>9. After(pos, fill) \in Pos
    BY <1>1, <1>2, <2>8 DEF After, Pos
  <2>10. CASE q > 0
    <3>1. s = -n /\ Magnitude(q) = q /\ Booked(pos, fill) = (p - a) * c
      BY <1>1, <2>4, <2>5, <2>10 DEF Magnitude
    <3>2. \/ n < q /\ c = n /\ v = a
          \/ n = q /\ c = n /\ v = 0
          \/ n > q /\ c = q /\ v = p
      BY <1>1, <2>6, <2>7, <2>10, <3>1 DEF Flips
    <3> HIDE DEF q, a, n, p, s, c, v
    <3>3. (p - a) * c = n * p + (q - n) * v - q * a
      <4>1. CASE n < q /\ c = n /\ v = a
        BY <1>1, <4>1
      <4>2. CASE n = q /\ c = n /\ v = 0
        BY <1>1, <4>2
      <4>3. CASE n > q /\ c = q /\ v = p
        BY <1>1, <4>3
      <4> QED BY <3>2, <4>1, <4>2, <4>3
    <3>4. -((-n) * p) = n * p /\ q + (-n) = q - n
      BY <1>1
    <3>5. (p - a) * c \in Int
      BY <1>1, <2>10, <3>2
    <3> QED BY <2>2, <2>3, <2>9, <3>1, <3>3, <3>4, <3>5
  <2>11. CASE q < 0
    <3>1. s = n /\ Magnitude(q) = -q /\ Booked(pos, fill) = (a - p) * c
      BY <1>1, <2>4, <2>5, <2>11 DEF Magnitude
    <3>2. \/ n < -q /\ c = n /\ v = a
          \/ n = -q /\ c = n /\ v = 0
          \/ n > -q /\ c = -q /\ v = p
      BY <1>1, <2>6, <2>7, <2>11, <3>1 DEF Flips
    <3> HIDE DEF q, a, n, p, s, c, v
    <3>3. (a - p) * c = -(n * p) + (q + n) * v - q * a
      <4>1. CASE n < -q /\ c = n /\ v = a
        BY <1>1, <4>1
      <4>2. CASE n = -q /\ c = n /\ v = 0
        BY <1>1, <4>2
      <4>3. CASE n > -q /\ c = -q /\ v = p
        BY <1>1, <4>3
      <4> QED BY <3>2, <4>1, <4>2, <4>3
    <3>4. (a - p) * c \in Int
      BY <1>1, <2>11, <3>2
    <3> QED BY <2>2, <2>3, <2>9, <3>1, <3>3, <3>4
  <2> QED BY <1>1, <1>6, <2>10, <2>11
<1> QED BY <1>4, <1>5, <1>6

-----------------------------------------------------------------------------
(* The limit and the day trades. *)

\* Every PnL has a limit.
LEMMA LimitExists ==
  ASSUME NEW pnl \in Int
  PROVE  LimitAt(pnl) \in Int
<1> DEFINE crossed == {i \in DOMAIN Ladder : pnl >= Ladder[i].profit}
<1>1. LimitAt(pnl) = IF crossed = {} THEN InitialMaxLoss ELSE Ladder[Max(crossed)].loss
  BY DEF LimitAt
<1>2. Ladder \in Seq([profit: Int, loss: Int]) /\ InitialMaxLoss \in Nat
  BY RiskStateAssumption
<1>3. Len(Ladder) \in Nat /\ crossed \subseteq 1..Len(Ladder)
  BY <1>2
<1>4. CASE crossed = {}
  BY <1>1, <1>2, <1>4
<1>5. CASE crossed # {}
  <2>1. Max(crossed) \in 1..Len(Ladder)
    BY <1>3, <1>5, GreatestExists
  <2>2. Ladder[Max(crossed)] \in [profit: Int, loss: Int]
    BY <1>2, <2>1, ElementOfSeq
  <2> QED BY <1>1, <1>5, <2>2
<1> QED BY <1>4, <1>5

\* Pruning leaves a sequence of days.
LEMMA PruneKeepsDays ==
  ASSUME NEW day \in Day, trades \in Seq(Day), RecordDayTrade(day)
  PROVE  trades' \in Seq(Day)
<1> DEFINE all == Append(trades, day)
           kept == {i \in DOMAIN all : Recent(day, all[i])}
<1>1. all \in Seq(Day) /\ Len(all) = Len(trades) + 1 /\ all[Len(all)] = day
  OBVIOUS
<1>2. Len(all) \in Nat /\ DOMAIN all = 1..Len(all) /\ Len(all) \in 1..Len(all)
  BY <1>1
<1>3. Recent(day, day)
  BY RiskStateAssumption DEF Recent, Day
<1>4. kept \subseteq 1..Len(all) /\ kept # {}
  BY <1>1, <1>2, <1>3
<1>5. kept \subseteq Nat
  BY <1>4
<1>6. Min(kept) \in 1..Len(all)
  BY <1>2, <1>4, <1>5, LeastExists
<1>7. trades' = SubSeq(all, Min(kept), Len(all))
  BY DEF RecordDayTrade
<1> HIDE DEF all, kept
<1> QED BY <1>1, <1>2, <1>6, <1>7, SubSeqProperties

\* A day trade adds one to the count of every later day whose window it lies
\* in, and pruning takes none away: what record_day_trade drops lies outside
\* the window of its day, and of all days that follow.
LEMMA PruneKeepsCounts ==
  ASSUME NEW day \in Day, trades \in Seq(Day), RecordDayTrade(day),
         NEW D \in Nat, D >= day
  PROVE  DayTradeCount(D)' = DayTradeCount(D) + IF D - day < PdtDays THEN 1 ELSE 0
<1> DEFINE all == Append(trades, day)
           n == Len(all)
           kept == {i \in DOMAIN all : Recent(day, all[i])}
           first == Min(kept)
           counted(s) == {i \in DOMAIN s : D - s[i] < PdtDays}
<1>1. /\ all \in Seq(Day) /\ n = Len(trades) + 1 /\ all[n] = day
      /\ Len(trades) \in Nat /\ \A i \in 1..Len(trades) : all[i] = trades[i]
  OBVIOUS
<1>2. n \in Nat /\ n \in 1..n /\ DOMAIN all = 1..n /\ DOMAIN trades = 1..(n - 1)
  BY <1>1
<1>3. PdtDays \in Nat \ {0} /\ Day \subseteq Nat
  BY RiskStateAssumption DEF Day
<1>4. kept \subseteq Nat /\ kept # {} /\ kept \subseteq 1..n
  BY <1>1, <1>2, <1>3 DEF Recent
<1>5. first \in 1..n /\ \A i \in kept : first <= i
  BY <1>4, LeastExists
<1>6. trades' = SubSeq(all, first, n)
  BY DEF RecordDayTrade
<1> HIDE DEF first
<1>7. \A i \in 1..n : all[i] \in Day
  BY <1>1, <1>2
<1>8. /\ trades' \in Seq(Day) /\ Len(trades') = n - first + 1
      /\ \A i \in 1..(n - first + 1) : trades'[i] = all[first + i - 1]
  <2>1. \A i \in first..n : all[i] \in Day
    BY <1>5, <1>7
  <2> HIDE DEF all, n
  <2> QED BY <1>2, <1>5, <1>6, <2>1, SubSeqProperties
<1>9. DOMAIN trades' = 1..(n - first + 1)
  BY <1>8
<1>10. counted(all) \subseteq 1..n /\ IsFiniteSet(counted(all))
  <2>1. counted(all) \subseteq 1..n
    BY <1>2
  <2>2. IsFiniteSet(1..n)
    BY <1>2, FS_Interval
  <2> QED BY <2>1, <2>2, FS_Subset
<1>11. counted(all) \subseteq first..n
  <2> SUFFICES ASSUME NEW i \in counted(all) PROVE i \in first..n
    OBVIOUS
  <2>1. i \in 1..n /\ D - all[i] < PdtDays /\ all[i] \in Nat
    BY <1>2, <1>3, <1>7
  <2>2. day - all[i] < PdtDays
    BY <1>3, <2>1
  <2>3. i \in kept
    BY <1>2, <2>1, <2>2 DEF Recent
  <2> QED BY <1>2, <1>5, <2>1, <2>3
<1>12. Cardinality(counted(trades')) = Cardinality(counted(all))
  <2> DEFINE k == first - 1
             T == counted(trades')
             S == counted(all)
  <2>1. k \in Int /\ S \in SUBSET Int /\ T \in SUBSET Int
    BY <1>5, <1>9, <1>11
  <2>2. ASSUME NEW j \in Int
        PROVE  j \in T <=> j + k \in S
    <3>1. j \in 1..(n - first + 1) <=> j + k \in first..n
      BY <1>2, <1>5
    <3>2. j \in 1..(n - first + 1) => trades'[j] = all[j + k]
      <4> SUFFICES ASSUME j \in 1..(n - first + 1) PROVE trades'[j] = all[j + k]
        OBVIOUS
      <4>1. first + j - 1 = j + k
        BY <1>5
      <4> QED BY <1>8, <4>1
    <3>3. first..n \subseteq 1..n
      BY <1>2, <1>5
    <3> HIDE DEF k, all, n
    <3> QED BY <1>2, <1>9, <1>11, <3>1, <3>2, <3>3
  <2> HIDE DEF k, T, S
  <2>3. IsFiniteSet(S)
    BY <1>10 DEF S
  <2>4. Cardinality(T) = Cardinality(S)
    BY <2>1, <2>2, <2>3, SizeMoved
  <2> QED BY <2>4 DEF T, S
<1>13. Cardinality(counted(all))
        = Cardinality(counted(trades)) + IF D - day < PdtDays THEN 1 ELSE 0
  <2>1. n \notin counted(trades) /\ IsFiniteSet(counted(trades))
    <3>1. n \notin 1..(n - 1) /\ counted(trades) \subseteq 1..(n - 1) /\ 1..(n - 1) \subseteq 1..n
      BY <1>2
    <3>2. IsFiniteSet(1..(n - 1))
      BY <1>2, FS_Interval
    <3> QED BY <3>1, <3>2, FS_Subset
  <2>2. CASE D - day < PdtDays
    <3>1. counted(all) = counted(trades) \cup {n}
      BY <1>1, <1>2, <2>2
    <3>2. Cardinality(counted(trades) \cup {n}) = Cardinality(counted(trades)) + 1
      BY <2>1, FS_AddElement
    <3> QED BY <2>2, <3>1, <3>2
  <2>3. CASE ~(D - day < PdtDays)
    <3>1. counted(all) = counted(trades)
      BY <1>1, <1>2, <2>3
    <3>2. Cardinality(counted(trades)) \in Nat
      BY <2>1, FS_CardinalityType
    <3>3. Cardinality(counted(trades)) = Cardinality(counted(trades)) + 0
      <4> HIDE DEF counted
      <4> QED BY <3>2
    <3> QED BY <2>3, <3>1, <3>3
  <2> QED BY <2>2, <2>3
<1> QED BY <1>12, <1>13 DEF DayTradeCount

-----------------------------------------------------------------------------
(* The inductive invariant. *)

\* For today and every day to come: the trades in the pruned queue that the
\* day will count are the day trades of its window.
CountsHold ==
  \A day \in Nat : day >= today =>
    DayTradeCount(day) = SumFunctionOnSet(day_trades, {d \in Day : day - d < PdtDays})

\* What settles on a day is what was sold on the day before.
SalesSettle == unsettled[1] = 0 /\ \A d \in Day : unsettled[d + 1] = sold[d]

RiskInv == RiskTypeOK /\ BooksBalance /\ RatchetRemembers /\ CountsHold /\ SalesSettle

\* The days of the model are finitely many.
LEMMA DaysFinite ==
  ASSUME NEW S \in SUBSET Day
  PROVE  IsFiniteSet(S)
<1>1. 1 \in Int /\ MaxDay \in Int
  BY RiskStateAssumption
<1>2. IsFiniteSet(1..MaxDay)
  BY ONLY <1>1, FS_Interval
<1>3. IsFiniteSet(Day)
  BY <1>2 DEF Day
<1> QED BY <1>3, FS_Subset

\* A write of the daily PnL keeps the limit and the peak in step.
LEMMA RatchetStep ==
  ASSUME NEW pnl \in Int, UpdatePnl(pnl), peak' = Higher(peak, pnl),
         current_max \in Int, peak \in Int, RatchetRemembers
  PROVE  /\ daily_pnl' \in Int /\ current_max' \in Int /\ peak' \in Int
         /\ current_max' <= LimitAt(peak')
<1>1. LimitAt(pnl) \in Int /\ LimitAt(peak) \in Int
  BY LimitExists
<1>2. daily_pnl' = pnl
  BY DEF UpdatePnl
<1>3. current_max' \in Int /\ current_max' <= current_max /\ current_max' <= LimitAt(pnl)
  BY <1>1 DEF UpdatePnl
<1>4. peak' = peak \/ peak' = pnl
  BY DEF Higher
<1>5. current_max' <= LimitAt(peak)
  BY <1>1, <1>3 DEF RatchetRemembers
<1> QED BY <1>1, <1>2, <1>3, <1>4, <1>5

\* Init establishes the invariant.
LEMMA RiskInitInv == RiskInit => RiskInv
<1> SUFFICES ASSUME RiskInit PROVE RiskInv
  OBVIOUS
<1>1. LimitAt(0) \in Int /\ InitialMaxLoss \in Nat /\ MaxDay \in Nat \ {0} /\ MaxFills \in Nat
  BY LimitExists, RiskStateAssumption, RiskTaskAssumption
<1>2. IsFiniteSet(Symbol) /\ Cardinality(Symbol) \in Nat
  BY RiskStateAssumption, FS_CardinalityType
<1>3. /\ positions \in [Symbol -> [qty: Int, avg: Int, realized: Int]]
      /\ intraday_buy \in [Symbol -> 0..MaxDay] /\ cash \in [Symbol -> Int]
  BY <1>1 DEF RiskInit
<1>4. /\ global_realized \in Int /\ peak \in Int /\ fills \in 0..MaxFills
      /\ day_trades \in [Day -> Nat] /\ sold \in [Day -> Nat]
  BY <1>1 DEF RiskInit
<1>5. /\ daily_pnl \in Int /\ current_max \in Int /\ today \in Day
      /\ unsettled \in [1..(MaxDay + 1) -> Nat]
      /\ open_positions \in 0..Cardinality(Symbol)
  BY <1>1, <1>2 DEF RiskInit, RiskStateInit, Day
<1>6. trades \in Seq(Day) /\ blocklist \subseteq Symbol
  BY DEF RiskInit, RiskStateInit
<1>7. BooksBalance
  BY DEF RiskInit, BooksBalance, Held, Basis
<1>8. RatchetRemembers
  BY <1>1 DEF RiskInit, RiskStateInit, RatchetRemembers
<1>9. monitor_only \in BOOLEAN /\ shutdown \in BOOLEAN
  BY DEF RiskInit, RiskStateInit
<1>10. CountsHold
  <2> SUFFICES ASSUME NEW day \in Nat
               PROVE  DayTradeCount(day)
                        = SumFunctionOnSet(day_trades, {d \in Day : day - d < PdtDays})
    BY DEF CountsHold
  <2> DEFINE window == {d \in Day : day - d < PdtDays}
  <2>1. IsFiniteSet(window)
    BY DaysFinite
  <2>2. \A d \in window : day_trades[d] = 0
    BY DEF RiskInit
  <2> HIDE DEF window
  <2>3. SumFunctionOnSet(day_trades, window) = 0
    BY <2>1, <2>2, SumZero
  <2>4. DayTradeCount(day) = Cardinality({})
    BY DEF RiskInit, RiskStateInit, DayTradeCount
  <2> QED BY <2>3, <2>4, FS_EmptySet DEF window
<1>11. SalesSettle
  <2>1. \A d \in Day : d + 1 \in 1..(MaxDay + 1)
    BY <1>1 DEF Day
  <2> QED BY <1>1, <2>1 DEF RiskInit, RiskStateInit, SalesSettle
<1> QED BY <1>3, <1>4, <1>5, <1>6, <1>7, <1>8, <1>9, <1>10, <1>11 DEF RiskInv, RiskTypeOK

\* A fill: one fact per part of the invariant it disturbs.
LEMMA OnFillInv ==
  ASSUME RiskInv, NEW s \in Symbol, NEW fill \in Fill, NEW day \in Day,
         day \in {today - 1, today}, OnFill(s, fill, day)
  PROVE  RiskInv'
<1> DEFINE old == positions[s]
           new == After(Held(s), fill)
           pnl == Booked(Held(s), fill)
           entry == [qty |-> new.qty, avg |-> new.avg, realized |-> old.realized + pnl]
           proceeds == fill.size * fill.price
<1> USE DEF RiskInv
<1>1. fill \in AnyFill
  BY RiskTaskAssumption DEF Fill, AnyFill
<1>2. Held(s) \in Pos /\ old \in [qty: Int, avg: Int, realized: Int]
  BY DEF RiskTypeOK, Held, Pos
<1>3. new \in Pos /\ pnl \in Int /\ pnl = CashOf(fill) + Basis(new) - Basis(Held(s))
  BY <1>1, <1>2, FillBalances DEF OnFill
<1>4. CashOf(fill) \in Int /\ proceeds \in Nat
  BY <1>1 DEF CashOf, Signed, AnyFill, Side
<1> HIDE DEF new, pnl, proceeds
<1>5. positions' = [positions EXCEPT ![s] = entry]
  BY DEF OnFill, RiskFill, Book, new, pnl
<1>6. global_realized' = global_realized + pnl /\ global_realized' \in Int
  BY <1>3 DEF OnFill, RiskFill, Book, pnl, RiskTypeOK
<1>7. entry \in [qty: Int, avg: Int, realized: Int]
  BY <1>2, <1>3 DEF Pos
<1> HIDE DEF entry
<1>8. positions' \in [Symbol -> [qty: Int, avg: Int, realized: Int]]
  BY <1>5, <1>7 DEF RiskTypeOK
<1>9. cash' = [cash EXCEPT ![s] = @ + CashOf(fill)] /\ cash' \in [Symbol -> Int]
  <2>1. cash' = [cash EXCEPT ![s] = @ + CashOf(fill)]
    BY DEF OnFill
  <2>2. cash \in [Symbol -> Int]
    BY DEF RiskTypeOK
  <2> QED BY <1>4, <2>1, <2>2
<1>10. /\ daily_pnl' \in Int /\ current_max' \in Int /\ peak' \in Int
       /\ current_max' <= LimitAt(peak')
  <2>1. UpdatePnl(global_realized') /\ peak' = Higher(peak, daily_pnl')
    BY DEF OnFill, RiskFill
  <2>2. daily_pnl' = global_realized'
    BY <2>1 DEF UpdatePnl
  <2> QED BY <1>6, <2>1, <2>2, RatchetStep DEF RiskTypeOK
<1>11. intraday_buy' \in [Symbol -> 0..MaxDay]
  <2>1. \E d \in {day, 0, intraday_buy[s]} :
          intraday_buy' = [intraday_buy EXCEPT ![s] = d]
    BY DEF OnFill, RiskFill, Settle
  <2>2. {day, 0, intraday_buy[s]} \subseteq 0..MaxDay
    BY RiskStateAssumption DEF RiskTypeOK, Day
  <2> QED BY <2>1, <2>2 DEF RiskTypeOK
<1>12. trades' \in Seq(Day)
  BY PruneKeepsDays DEF OnFill, RiskFill, Settle, RiskTypeOK
<1>13. unsettled' \in [1..(MaxDay + 1) -> Nat]
  <2>1. unsettled' = unsettled
          \/ unsettled' = [unsettled EXCEPT ![day + 1] = @ + proceeds]
    BY DEF OnFill, RiskFill, Settle, LockProceeds, proceeds
  <2>2. day + 1 \in 1..(MaxDay + 1)
    BY RiskStateAssumption DEF Day
  <2>3. unsettled \in [1..(MaxDay + 1) -> Nat]
    BY DEF RiskTypeOK
  <2>4. unsettled[day + 1] + proceeds \in Nat
    BY <1>4, <2>2, <2>3
  <2> QED BY <2>1, <2>2, <2>3, <2>4
<1>14. day_trades' \in [Day -> Nat]
  <2>1. day_trades' = day_trades \/ day_trades' = [day_trades EXCEPT ![day] = @ + 1]
    BY DEF OnFill
  <2>2. day_trades \in [Day -> Nat]
    BY DEF RiskTypeOK
  <2> QED BY <2>1, <2>2
<1>15. sold' \in [Day -> Nat]
  <2>1. sold' = sold \/ sold' = [sold EXCEPT ![day] = @ + proceeds]
    BY DEF OnFill, proceeds
  <2>2. sold \in [Day -> Nat]
    BY DEF RiskTypeOK
  <2>3. sold[day] + proceeds \in Nat
    BY <1>4, <2>2
  <2> QED BY <2>1, <2>2, <2>3
<1>16. fills' \in 0..MaxFills
  BY RiskTaskAssumption DEF OnFill, RiskTypeOK
<1>17. UNCHANGED <<entry_rules, shutdown, today>>
  BY DEF OnFill, RiskFill
<1>18. RiskTypeOK'
  BY <1>6, <1>8, <1>9, <1>10, <1>11, <1>12, <1>13, <1>14, <1>15, <1>16, <1>17
     DEF RiskTypeOK, entry_rules
<1>19. BooksBalance'
  <2>1. ASSUME NEW t \in Symbol
        PROVE  positions'[t].realized =
                 cash'[t] + Basis([qty |-> positions'[t].qty, avg |-> positions'[t].avg])
    <3>1. positions[t].realized = cash[t] + Basis(Held(t))
      BY DEF BooksBalance
    <3>2. CASE t # s
      <4>1. positions'[t] = positions[t] /\ cash'[t] = cash[t]
        BY <1>5, <1>9, <3>2 DEF RiskTypeOK
      <4> QED BY <3>1, <4>1 DEF Held
    <3>3. CASE t = s
      <4>1. positions'[s] = entry /\ cash'[s] = cash[s] + CashOf(fill)
        BY <1>5, <1>9 DEF RiskTypeOK
      <4>2. entry.realized = old.realized + pnl /\ entry.qty = new.qty /\ entry.avg = new.avg
        BY DEF entry
      <4>3. Basis([qty |-> entry.qty, avg |-> entry.avg]) = Basis(new)
        BY <4>2 DEF Basis
      <4>4. Basis(new) \in Int /\ Basis(Held(s)) \in Int /\ cash[s] \in Int
        <5>1. \A pos \in Pos : Basis(pos) \in Int
          BY DEF Basis, Pos
        <5>2. cash[s] \in Int
          BY DEF RiskTypeOK
        <5> QED BY <1>2, <1>3, <5>1, <5>2
      <4> HIDE DEF old
      <4>5. old.realized = cash[s] + Basis(Held(s))
        BY <3>1, <3>3 DEF old
      <4> QED BY <1>3, <1>4, <3>3, <4>1, <4>2, <4>3, <4>4, <4>5
    <3> QED BY <3>2, <3>3
  <2> QED BY <2>1 DEF BooksBalance, Held
<1>20. RatchetRemembers'
  BY <1>10 DEF RatchetRemembers
<1>21. CountsHold'
  <2> SUFFICES ASSUME NEW D \in Nat, D >= today'
               PROVE  DayTradeCount(D)'
                        = SumFunctionOnSet(day_trades', {d \in Day : D - d < PdtDays})
    BY DEF CountsHold
  <2> DEFINE window == {d \in Day : D - d < PdtDays}
  <2>1. today' = today /\ today \in Nat /\ day \in Nat /\ day <= today
    BY <1>17, RiskStateAssumption DEF RiskTypeOK, Day
  <2>2. DayTradeCount(D) = SumFunctionOnSet(day_trades, window)
    BY <2>1 DEF CountsHold
  <2>3. CASE ~CompletesDayTrade(s, fill, day)
    <3>1. trades' = trades /\ day_trades' = day_trades
      BY <2>3 DEF OnFill, RiskFill, Settle
    <3> QED BY <2>2, <3>1 DEF DayTradeCount
  <2>4. CASE CompletesDayTrade(s, fill, day)
    <3>1. RecordDayTrade(day) /\ day_trades' = [day_trades EXCEPT ![day] = @ + 1]
      BY <2>4 DEF OnFill, RiskFill, Settle
    <3>2. DayTradeCount(D)' = DayTradeCount(D) + IF D - day < PdtDays THEN 1 ELSE 0
      <4>1. D >= day /\ D \in Nat
        BY <2>1
      <4>2. trades \in Seq(Day)
        BY DEF RiskTypeOK
      <4> QED BY ONLY <3>1, <4>1, <4>2, day \in Day, PruneKeepsCounts
    <3>3. window \in SUBSET Day /\ IsFiniteSet(window)
      BY DaysFinite
    <3>4. /\ day_trades'[day] = day_trades[day] + 1
          /\ \A d \in window : day_trades[d] \in Int
          /\ \A d \in window : d # day => day_trades'[d] = day_trades[d]
      BY <3>1, <3>3 DEF RiskTypeOK
    <3>5. SumFunctionOnSet(day_trades', window)
            = SumFunctionOnSet(day_trades, window) + IF day \in window THEN 1 ELSE 0
      <4> DEFINE f == day_trades
                 g == day_trades'
      <4>1. /\ \A d \in window : f[d] \in Int /\ (d # day => g[d] = f[d])
            /\ g[day] = f[day] + 1
        BY <3>4
      <4>2. IsFiniteSet(window) /\ 1 \in Int
        BY <3>3
      <4> HIDE DEF window, f, g
      <4>3. SumFunctionOnSet(g, window)
              = SumFunctionOnSet(f, window) + IF day \in window THEN 1 ELSE 0
        BY <4>1, <4>2, SumGrows
      <4> QED BY <4>3 DEF f, g
    <3>6. D - day < PdtDays <=> day \in window
      OBVIOUS
    <3> QED BY <2>2, <3>2, <3>5, <3>6
  <2> QED BY <2>3, <2>4
<1>22. SalesSettle'
  <2>1. MaxDay \in Nat /\ day \in Nat /\ day >= 1 /\ \A d \in Day : d \in Nat /\ d >= 1
    BY RiskStateAssumption DEF Day
  <2>2. \/ UNCHANGED <<unsettled, sold>>
        \/ /\ unsettled' = [unsettled EXCEPT ![day + 1] = @ + proceeds]
           /\ sold' = [sold EXCEPT ![day] = @ + proceeds]
    BY DEF OnFill, RiskFill, Settle, LockProceeds, proceeds
  <2>3. /\ 1 \in DOMAIN unsettled /\ \A d \in Day : d + 1 \in DOMAIN unsettled
        /\ DOMAIN sold = Day
    <3>1. unsettled \in [1..(MaxDay + 1) -> Nat] /\ sold \in [Day -> Nat]
      BY DEF RiskTypeOK
    <3>2. 1 \in 1..(MaxDay + 1) /\ \A d \in Day : d + 1 \in 1..(MaxDay + 1)
      BY <2>1 DEF Day
    <3> QED BY <3>1, <3>2
  <2> QED BY <2>1, <2>2, <2>3 DEF SalesSettle
<1> QED BY <1>18, <1>19, <1>20, <1>21, <1>22

\* The FastLoop's write: only the limits and the peak move.
LEMMA FastUpdateInv ==
  ASSUME RiskInv, NEW pnl \in FastPnl, FastUpdate(pnl)
  PROVE  RiskInv'
<1> USE DEF RiskInv
<1>1. /\ daily_pnl' \in Int /\ current_max' \in Int /\ peak' \in Int
      /\ current_max' <= LimitAt(peak')
  BY RiskTaskAssumption, RatchetStep DEF FastUpdate, RiskTypeOK
<1>2. UNCHANGED <<entry_rules, trades, unsettled, shutdown, today, tracker,
                  cash, day_trades, sold, fills>>
  BY DEF FastUpdate
<1>3. RiskTypeOK'
  BY <1>1, <1>2 DEF RiskTypeOK, entry_rules, tracker
<1>4. BooksBalance'
  BY <1>2 DEF BooksBalance, Held, tracker
<1>5. RatchetRemembers'
  BY <1>1 DEF RatchetRemembers
<1>6. CountsHold' /\ SalesSettle'
  BY <1>2 DEF CountsHold, SalesSettle, DayTradeCount
<1> QED BY <1>3, <1>4, <1>5, <1>6

\* The other steps touch neither the books nor the limits.
LEMMA OtherStepInv ==
  ASSUME RiskInv,
         UNCHANGED <<limits, trades, unsettled, tracker, history>>,
         blocklist' \subseteq Symbol,
         open_positions' \in 0..Cardinality(Symbol),
         monitor_only' \in BOOLEAN, shutdown' \in BOOLEAN,
         today' \in Day, today' >= today
  PROVE  RiskInv'
<1>1. RiskTypeOK'
  BY DEF RiskInv, RiskTypeOK, limits, tracker, history
<1>2. BooksBalance'
  BY DEF RiskInv, BooksBalance, Held, tracker, history
<1>3. RatchetRemembers'
  BY DEF RiskInv, RatchetRemembers, limits, history
<1>4. CountsHold'
  <2>1. today \in Nat /\ today' \in Nat
    BY RiskStateAssumption DEF RiskInv, RiskTypeOK, Day
  <2>2. \A day \in Nat : day >= today' => day >= today
    BY <2>1
  <2> QED BY <2>2 DEF RiskInv, CountsHold, DayTradeCount, history
<1>5. SalesSettle'
  BY DEF RiskInv, SalesSettle, history
<1> QED BY <1>1, <1>2, <1>3, <1>4, <1>5 DEF RiskInv

\* Every step keeps the invariant.
LEMMA RiskNextInv == RiskInv /\ [RiskNext]_rvars => RiskInv'
<1> SUFFICES ASSUME RiskInv, [RiskNext]_rvars PROVE RiskInv'
  OBVIOUS
<1>1. /\ blocklist \subseteq Symbol /\ open_positions \in 0..Cardinality(Symbol)
      /\ today \in Day
  BY DEF RiskInv, RiskTypeOK
<1>2. /\ monitor_only \in BOOLEAN /\ shutdown \in BOOLEAN
      /\ today >= today /\ today + 1 >= today
  BY RiskStateAssumption DEF RiskInv, RiskTypeOK, Day
<1>3. ASSUME NEW s \in Symbol, NEW fill \in Fill, NEW day \in Day,
             day \in {today - 1, today}, OnFill(s, fill, day)
      PROVE  RiskInv'
  BY <1>3, OnFillInv
<1>4. CASE RiskHeartbeat /\ UNCHANGED history
  <2>1. shutdown' \in BOOLEAN
    BY <1>4 DEF RiskHeartbeat
  <2>2. UNCHANGED <<limits, trades, unsettled, tracker, history>>
    BY <1>4 DEF RiskHeartbeat, risk_state
  <2>3. UNCHANGED <<blocklist, open_positions, monitor_only, today>>
    BY <1>4 DEF RiskHeartbeat, risk_state, entry_rules
  <2> QED BY <1>1, <1>2, <2>1, <2>2, <2>3, OtherStepInv
<1>5. ASSUME NEW n \in 0..Cardinality(Symbol), RiskStateSync(n) /\ UNCHANGED history
      PROVE  RiskInv'
  BY <1>1, <1>2, <1>5, OtherStepInv DEF RiskStateSync
<1>6. ASSUME NEW s \in Symbol, RiskReject(s) /\ UNCHANGED history
      PROVE  RiskInv'
  BY <1>1, <1>2, <1>6, OtherStepInv DEF RiskReject
<1>7. ASSUME NEW pnl \in FastPnl, FastUpdate(pnl)
      PROVE  RiskInv'
  BY <1>7, FastUpdateInv
<1>8. CASE TakeOrder
  BY <1>1, <1>2, <1>8, OtherStepInv DEF TakeOrder, risk_state, entry_rules
<1>9. CASE NextDay
  <2>1. today' \in Day /\ today' >= today
    BY <1>1, <1>2, <1>9, RiskStateAssumption DEF NextDay, Day
  <2> QED BY <1>1, <1>2, <1>9, <2>1, OtherStepInv DEF NextDay, risk_state, entry_rules
<1>10. CASE UNCHANGED rvars
  BY <1>1, <1>2, <1>10, OtherStepInv DEF rvars, shared, risk_state, entry_rules
<1> QED BY <1>3, <1>4, <1>5, <1>6, <1>7, <1>8, <1>9, <1>10 DEF RiskNext

-----------------------------------------------------------------------------
(* The theorems. *)

\* The inductive invariant of the Risk task holds in every reachable state.
THEOREM RiskInvariant == RiskSpec => []RiskInv
<1> QED BY RiskInitInv, RiskNextInv, PTL DEF RiskSpec

\* The state of the Risk task and of RiskState keeps its types.
THEOREM RiskTypeCorrect == RiskSpec => []RiskTypeOK
<1>1. RiskInv => RiskTypeOK
  BY DEF RiskInv
<1> QED BY <1>1, RiskInvariant, PTL

\* The Risk task's books balance, for all prices, sizes and fills: the PnL
\* booked for a symbol is what its fills paid plus the cost of what is held.
THEOREM BooksAlwaysBalance == RiskSpec => []BooksBalance
<1>1. RiskInv => BooksBalance
  BY DEF RiskInv
<1> QED BY <1>1, RiskInvariant, PTL

\* The loss limit never forgets, whichever of the two tasks writes the daily
\* PnL, and for every ladder: it is as tight as the highest PnL called for.
THEOREM RatchetHolds == RiskSpec => []RatchetRemembers
<1>1. RiskInv => RatchetRemembers
  BY DEF RiskInv
<1> QED BY <1>1, RiskInvariant, PTL

\* PdtGuard forgets no day trade that still counts: the queue it prunes counts
\* the day trades of the window, however fills of two days are interleaved.
THEOREM DayTradesAlwaysCounted == RiskSpec => []DayTradesCounted
<1>1. RiskInv => DayTradesCounted
  <2> SUFFICES ASSUME RiskInv PROVE DayTradesCounted
    OBVIOUS
  <2>1. today \in Nat /\ today >= today
    BY RiskStateAssumption DEF RiskInv, RiskTypeOK, Day
  <2> QED BY <2>1 DEF RiskInv, CountsHold, DayTradesCounted
<1> QED BY <1>1, RiskInvariant, PTL

\* Unsettled cash is never available: available_cash is the capital without the
\* proceeds of every sale of today or of a later day.
THEOREM ProceedsStayLocked == RiskSpec => []ProceedsLocked
<1>1. RiskInv => ProceedsLocked
  <2> SUFFICES ASSUME RiskInv PROVE ProceedsLocked
    OBVIOUS
  <2>1. MaxDay \in Nat /\ today \in 1..MaxDay
    BY RiskStateAssumption DEF RiskInv, RiskTypeOK, Day
  <2>2. /\ {d \in DOMAIN unsettled : d > today} = (today + 1)..(MaxDay + 1)
        /\ {d \in Day : d >= today} = today..MaxDay
    BY <2>1 DEF RiskInv, RiskTypeOK, Day
  <2>3. \A d \in today..MaxDay : sold[d] \in Int /\ sold[d] = unsettled[d + 1]
    BY <2>1 DEF RiskInv, RiskTypeOK, SalesSettle, Day
  <2>4. SumFunctionOnSet(sold, today..MaxDay)
          = SumFunctionOnSet(unsettled, (today + 1)..(MaxDay + 1))
    BY <2>1, <2>3, SumMoved
  <2> QED BY <2>2, <2>4 DEF ProceedsLocked, AvailableCash
<1> QED BY <1>1, RiskInvariant, PTL


-----------------------------------------------------------------------------
(* The trading loop: what a channel still has to tell of a position. *)

TradeOrder == [kind: {"entry", "exit", "close"}, symbol: Symbol, side: Side, qty: Nat \ {0}]

FillEvent == [kind: {"Fill"}, symbol: Symbol, fill: Fill]
SymbolEvent == [kind: {"Tick"}, symbol: Symbol, price: Price]
               \cup [kind: {"Halt", "Reject"}, symbol: Symbol]
PlainEvent == [kind: {"Heartbeat", "Reconnect"}]
Holdings == UNION {[S -> Pos] : S \in SUBSET Symbol}
SyncEvent == [kind: {"StateSync"}, held: Holdings]
TradeEvent == FillEvent \cup SymbolEvent \cup PlainEvent \cup SyncEvent

\* A position with the PnL it has realized, as one of the books shows it.
Account == [qty: Int, avg: Int, realized: Int]

PosOf(a) == [qty |-> a.qty, avg |-> a.avg]

\* The account of symbol s after an event.
Taken(a, event, s) ==
  IF event.kind = "Fill" /\ event.symbol = s
  THEN [qty |-> After(PosOf(a), event.fill).qty, avg |-> After(PosOf(a), event.fill).avg,
        realized |-> a.realized + Booked(PosOf(a), event.fill)]
  ELSE a

\* What a StateSync says of symbol s.
Told(held, s) ==
  [qty |-> IF s \in DOMAIN held THEN held[s].qty ELSE 0,
   avg |-> IF s \in DOMAIN held THEN held[s].avg ELSE 0]

\* The fills of s in the queue lead from one account of it to another, and a
\* StateSync in the queue says of s what it finds there: `t' has the accounts
\* before, between and after the events.
Trace(queue, s, a, b, t) ==
  /\ t \in [0..Len(queue) -> Account]
  /\ t[0] = a /\ t[Len(queue)] = b
  /\ \A n \in 1..Len(queue) :
       /\ t[n] = Taken(t[n - 1], queue[n], s)
       /\ queue[n].kind = "StateSync" => Told(queue[n].held, s) = PosOf(t[n - 1])

Leads(queue, s, a, b) == \E t : Trace(queue, s, a, b, t)

\* An empty channel has nothing to tell.
LEMMA LeadsEmpty ==
  ASSUME NEW s, NEW a \in Account
  PROVE  Leads(<<>>, s, a, a)
<1> DEFINE t == [n \in 0..0 |-> a]
<1>1. Len(<<>>) = 0 /\ 1..0 = {} /\ t \in [0..0 -> Account] /\ t[0] = a
  OBVIOUS
<1> HIDE DEF t
<1>2. Trace(<<>>, s, a, a, t)
  BY <1>1 DEF Trace
<1> QED BY <1>2 DEF Leads

\* An event that is queued is taken after all that are there.
LEMMA LeadsAppend ==
  ASSUME NEW queue \in Seq(TradeEvent), NEW e \in TradeEvent, NEW s, NEW a, NEW b,
         Leads(queue, s, a, b), Taken(b, e, s) \in Account,
         e.kind = "StateSync" => Told(e.held, s) = PosOf(b)
  PROVE  Leads(Append(queue, e), s, a, Taken(b, e, s))
<1> DEFINE N == Len(queue)
           q == Append(queue, e)
           c == Taken(b, e, s)
<1>1. PICK t : Trace(queue, s, a, b, t)
  BY DEF Leads
<1>2. /\ N \in Nat /\ Len(q) = N + 1 /\ q[N + 1] = e
      /\ \A n \in 1..N : q[n] = queue[n]
  BY AppendProperties
<1> DEFINE u == [n \in 0..(N + 1) |-> IF n <= N THEN t[n] ELSE c]
<1>3. t \in [0..N -> Account] /\ c \in Account
  BY <1>1 DEF Trace
<1> HIDE DEF q, c
<1>4. u \in [0..(N + 1) -> Account]
  BY <1>2, <1>3
<1>5. /\ u[0] = t[0] /\ u[N + 1] = c
      /\ \A n \in 0..N : u[n] = t[n]
  BY <1>2
<1> HIDE DEF u
<1>6. ASSUME NEW n \in 1..(N + 1)
      PROVE  /\ u[n] = Taken(u[n - 1], q[n], s)
             /\ q[n].kind = "StateSync" => Told(q[n].held, s) = PosOf(u[n - 1])
  <2>1. CASE n \in 1..N
    <3>1. n - 1 \in 0..N /\ n \in 0..N
      BY <1>2, <2>1
    <3>2. u[n] = t[n] /\ u[n - 1] = t[n - 1] /\ q[n] = queue[n]
      BY <1>2, <1>5, <2>1, <3>1
    <3> QED BY <1>1, <2>1, <3>2 DEF Trace
  <2>2. CASE n = N + 1
    <3>1. n - 1 = N /\ N \in 0..N
      BY <1>2, <2>2
    <3>2. u[n - 1] = b
      BY <1>1, <1>5, <3>1 DEF Trace
    <3>3. q[n] = e /\ u[n] = c
      BY <1>2, <1>5, <2>2
    <3> QED BY <3>2, <3>3 DEF c
  <2> QED BY <1>2, <2>1, <2>2
<1>7. Trace(q, s, a, c, u)
  BY <1>1, <1>2, <1>4, <1>5, <1>6 DEF Trace
<1> QED BY <1>7 DEF Leads, q, c

\* The first event of the channel takes the account where the rest begins.
LEMMA LeadsPopped ==
  ASSUME NEW queue \in Seq(TradeEvent), queue # <<>>, NEW s, NEW a, NEW b,
         Leads(queue, s, a, b)
  PROVE  /\ Leads(Tail(queue), s, Taken(a, Head(queue), s), b)
         /\ Taken(a, Head(queue), s) \in Account
         /\ Head(queue).kind = "StateSync" => Told(Head(queue).held, s) = PosOf(a)
<1> DEFINE N == Len(queue)
           q == Tail(queue)
<1>1. PICK t : Trace(queue, s, a, b, t)
  BY DEF Leads
<1>2. /\ N \in Nat /\ N >= 1 /\ Len(q) = N - 1 /\ Head(queue) = queue[1]
      /\ \A n \in 1..(N - 1) : q[n] = queue[n + 1]
  BY HeadTailProperties
<1> DEFINE u == [n \in 0..(N - 1) |-> t[n + 1]]
<1>3. t \in [0..N -> Account]
  BY <1>1 DEF Trace
<1> HIDE DEF q
<1>4. u \in [0..(N - 1) -> Account]
  <2>1. \A n \in 0..(N - 1) : n + 1 \in 0..N
    BY <1>2
  <2> QED BY <1>3, <2>1
<1>5. \A n \in 0..(N - 1) : u[n] = t[n + 1]
  OBVIOUS
<1> HIDE DEF u
<1>6. u[0] = t[1] /\ u[N - 1] = t[N]
  BY <1>2, <1>5
<1>7. /\ t[1] = Taken(a, Head(queue), s)
      /\ Head(queue).kind = "StateSync" => Told(Head(queue).held, s) = PosOf(a)
  <2>1. 1 \in 1..N /\ 1 - 1 = 0
    BY <1>2
  <2> QED BY <1>1, <1>2, <2>1 DEF Trace
<1>8. ASSUME NEW n \in 1..(N - 1)
      PROVE  /\ u[n] = Taken(u[n - 1], q[n], s)
             /\ q[n].kind = "StateSync" => Told(q[n].held, s) = PosOf(u[n - 1])
  <2>1. n + 1 \in 1..N /\ n - 1 \in 0..(N - 1) /\ n \in 0..(N - 1) /\ (n + 1) - 1 = (n - 1) + 1
    BY <1>2
  <2>2. u[n] = t[n + 1] /\ u[n - 1] = t[(n + 1) - 1] /\ q[n] = queue[n + 1]
    BY <1>2, <1>5, <2>1
  <2> QED BY <1>1, <2>1, <2>2 DEF Trace
<1>9. Trace(q, s, t[1], b, u)
  BY <1>1, <1>2, <1>4, <1>6, <1>8 DEF Trace
<1>10. t[1] \in Account
  BY <1>2, <1>3
<1> QED BY <1>7, <1>9, <1>10 DEF Leads, q

\* A channel without a fill of s leaves its account where it is.
LEMMA LeadsNowhere ==
  ASSUME NEW queue \in Seq(TradeEvent), NEW s, NEW a, NEW b, Leads(queue, s, a, b),
         \A n \in DOMAIN queue : queue[n].kind # "Fill"
  PROVE  a = b
<1> DEFINE N == Len(queue)
<1>1. PICK t : Trace(queue, s, a, b, t)
  BY DEF Leads
<1>2. N \in Nat /\ DOMAIN queue = 1..N
  OBVIOUS
<1>3. \A n \in 1..N : t[n] = t[n - 1]
  BY <1>1, <1>2 DEF Trace, Taken
<1> DEFINE Bad == {n \in 0..N : t[n] # t[0]}
<1>4. Bad = {}
  <2> SUFFICES ASSUME Bad # {} PROVE FALSE
    OBVIOUS
  <2>1. Bad \subseteq Nat
    BY <1>2
  <2>2. PICK m \in Bad : \A k \in Bad : m <= k
    BY <2>1, LeastNat
  <2>3. m # 0 /\ m \in 0..N
    OBVIOUS
  <2>4. m - 1 \in 0..N /\ m \in 1..N /\ ~(m <= m - 1)
    BY <1>2, <2>3
  <2>5. t[m - 1] = t[0]
    BY <2>2, <2>4
  <2> QED BY <1>3, <2>4, <2>5
<1>5. t[N] = t[0]
  BY <1>2, <1>4
<1> QED BY <1>1, <1>5 DEF Trace

\* The shares on their way make up the difference of the two positions.
LEMMA LeadsPending ==
  ASSUME NEW queue \in Seq(TradeEvent), NEW s, NEW a, NEW b, Leads(queue, s, a, b)
  PROVE  a.qty + Pending(queue, s) = b.qty
<1> DEFINE N == Len(queue)
           w == [n \in DOMAIN queue |-> Shares(queue[n], s)]
<1>1. PICK t : Trace(queue, s, a, b, t)
  BY DEF Leads
<1> DEFINE z == [n \in 0..N |-> t[n].qty]
<1>2. N \in Nat /\ DOMAIN queue = 1..N /\ \A n \in 1..N : queue[n] \in TradeEvent
  OBVIOUS
<1>3. \A n \in 0..N : t[n] \in Account
  BY <1>1 DEF Trace
<1>4. \A n \in 0..N : z[n] \in Int
  BY <1>3 DEF Account
<1>5. ASSUME NEW n \in 1..N
      PROVE  w[n] = z[n] - z[n - 1]
  <2>1. n - 1 \in 0..N /\ n \in 0..N
    BY <1>2
  <2>2. t[n].qty = t[n - 1].qty + Shares(queue[n], s)
    <3>1. t[n] = Taken(t[n - 1], queue[n], s) /\ t[n - 1] \in Account
      BY <1>1, <1>3, <2>1 DEF Trace
    <3>2. CASE queue[n].kind = "Fill" /\ queue[n].symbol = s
      BY <3>1, <3>2 DEF Taken, After, PosOf, Shares
    <3>3. CASE ~(queue[n].kind = "Fill" /\ queue[n].symbol = s)
      BY <3>1, <3>3 DEF Taken, Shares, Account
    <3> QED BY <3>2, <3>3
  <2>3. Shares(queue[n], s) \in Int
    <3>1. queue[n].kind = "Fill" => queue[n].fill \in Fill
      BY <1>2 DEF TradeEvent, FillEvent, SymbolEvent, PlainEvent, SyncEvent
    <3>2. \A f \in Fill : Signed(f) \in Int
      <4>1. FillSize \subseteq Int
        BY RiskTaskAssumption
      <4>2. \A f \in Fill : f.size \in Int
        BY <4>1 DEF Fill
      <4> QED BY <4>2 DEF Signed
    <3> QED BY <3>1, <3>2 DEF Shares
  <2>4. t[n - 1].qty \in Int
    BY <1>3, <2>1 DEF Account
  <2> QED BY <1>2, <2>1, <2>2, <2>3, <2>4
<1>6. Pending(queue, s) = SumFunctionOnSet(w, 1..N)
  BY <1>2 DEF Pending, SumFunction
<1>7. z[0] = a.qty /\ z[N] = b.qty
  BY <1>1, <1>2 DEF Trace
<1>8. N \in Nat
  BY <1>2
<1>9. 0 \in 0..N
  BY <1>2
<1> HIDE DEF w, z, N
<1>10. z[N] = z[0] + SumFunctionOnSet(w, 1..N)
  BY <1>4, <1>5, <1>8, Telescopes
<1> QED BY <1>6, <1>7, <1>10


-----------------------------------------------------------------------------
(* The state of the trading loop. *)

SymbolState == [position: Int, avg_cost: Int, realized_pnl: Int, unrealized_pnl: Int, price: Nat]

FastTypes ==
  /\ symbol_states \in [Symbol -> SymbolState]
  /\ global_realized_pnl \in Int /\ global_unrealized_pnl \in Int

RiskTypes == positions \in [Symbol -> Account] /\ global_realized \in Int

\* The realized PnL of the Risk task is the sum over its positions.
RiskSum == global_realized = SumFunction([s \in Symbol |-> positions[s].realized])

BookTypes ==
  /\ book \in [Symbol -> Pos]
  /\ \A s \in Symbol : book[s].qty = 0 => book[s].avg = 0

OrderTypes ==
  /\ orders \in Seq(TradeOrder) /\ Len(orders) <= OrderCap
  /\ working \in Seq(TradeOrder) /\ Len(working) <= MaxWorking

QueueTypes ==
  /\ fast_q \in Seq(TradeEvent) /\ Len(fast_q) <= QueueCap
  /\ risk_q \in Seq(TradeEvent) /\ Len(risk_q) <= QueueCap

\* The account of a symbol as the FastLoop has it.
FastAccount(s) ==
  [qty |-> symbol_states[s].position, avg |-> symbol_states[s].avg_cost,
   realized |-> symbol_states[s].realized_pnl]

\* The broker's position, with the PnL that its fills realized.
Final(s, r) == [qty |-> book[s].qty, avg |-> book[s].avg, realized |-> r]

\* As long as no fill was dropped or skipped, each task's channel leads from its
\* account of a symbol to the same final one.
BooksFollow ==
  ~diverged =>
    \E R \in [Symbol -> Int] : \A s \in Symbol :
      /\ Leads(risk_q, s, positions[s], Final(s, R[s]))
      /\ ~fast_stopped => Leads(fast_q, s, FastAccount(s), Final(s, R[s]))

TradeInv ==
  /\ FastTypes /\ GlobalsAreSums /\ RiskTypes /\ RiskSum
  /\ BookTypes /\ OrderTypes /\ QueueTypes /\ BooksFollow

-----------------------------------------------------------------------------
(* Fills, whatever they find. *)

\* A fill yields a position and a PnL; a closed position has no cost.
LEMMA FillYields ==
  ASSUME NEW pos \in Pos, NEW fill \in AnyFill
  PROVE  /\ After(pos, fill) \in Pos
         /\ Booked(pos, fill) \in Int
         /\ After(pos, fill).qty = 0 => After(pos, fill).avg = 0
<1> DEFINE q == pos.qty
           a == pos.avg
           n == fill.size
           p == fill.price
           s == Signed(fill)
<1>1. q \in Int /\ a \in Int /\ n \in Nat \ {0} /\ p \in Nat \ {0}
  BY DEF Pos, AnyFill
<1>2. s \in Int /\ s # 0
  BY <1>1 DEF Signed
<1>3. After(pos, fill).qty = q + s /\ After(pos, fill).avg = AvgAfter(pos, fill)
  BY DEF After
<1>4. q # 0 => WeightedAvgCost(Magnitude(q), a, n, p) \in Int
  <2>1. ASSUME q # 0, NEW m, m = Magnitude(q) PROVE WeightedAvgCost(m, a, n, p) \in Int
    <3>1. m \in Nat \ {0}
      BY <1>1, <2>1 DEF Magnitude
    <3>2. m * a + n * p \in Int /\ m + n \in Nat \ {0}
      BY <1>1, <3>1
    <3>3. (m * a + n * p) \div (m + n) \in Int
      BY <3>2
    <3> QED BY <3>1, <3>3 DEF WeightedAvgCost
  <2> QED BY <2>1
<1>5. AvgAfter(pos, fill) \in Int /\ (q + s = 0 => AvgAfter(pos, fill) = 0)
  <2>1. CASE q = 0
    <3>1. ~SameSide(q, s) /\ ~Flips(q, q + s) /\ q + s # 0
      BY <1>1, <1>2, <2>1 DEF SameSide, Flips
    <3>2. AvgAfter(pos, fill) = p
      BY <2>1, <3>1 DEF AvgAfter
    <3> QED BY <1>1, <3>1, <3>2
  <2>2. CASE q # 0 /\ SameSide(q, s)
    <3>1. ~Flips(q, q + s) /\ q + s # 0
      BY <1>1, <1>2, <2>2 DEF SameSide, Flips
    <3>2. AvgAfter(pos, fill) = WeightedAvgCost(Magnitude(q), a, n, p)
      BY <2>2, <3>1 DEF AvgAfter
    <3> QED BY <1>4, <2>2, <3>1, <3>2
  <2>3. CASE q # 0 /\ ~SameSide(q, s) /\ q + s = 0
    <3>1. ~Flips(q, q + s)
      BY <2>3 DEF Flips
    <3>2. AvgAfter(pos, fill) = 0
      BY <2>3, <3>1 DEF AvgAfter
    <3> QED BY <3>2
  <2>4. CASE q # 0 /\ ~SameSide(q, s) /\ q + s # 0
    <3>1. AvgAfter(pos, fill) \in {p, a}
      <4>1. CASE Flips(q, q + s)
        BY <2>4, <4>1 DEF AvgAfter
      <4>2. CASE ~Flips(q, q + s)
        BY <2>4, <4>2 DEF AvgAfter
      <4> QED BY <4>1, <4>2
    <3> QED BY <1>1, <2>4, <3>1
  <2> QED BY <2>1, <2>2, <2>3, <2>4
<1>6. Booked(pos, fill) \in Int
  <2>1. Closes(q, fill) \in Int
    BY <1>1 DEF Closes, Magnitude
  <2>2. RealizedPnl(q, a, fill) \in Int
    BY <1>1, <2>1 DEF RealizedPnl
  <2> QED BY <2>2 DEF Booked
<1>7. q + s \in Int
  BY <1>1, <1>2
<1>8. After(pos, fill) = [qty |-> q + s, avg |-> AvgAfter(pos, fill)]
  BY DEF After
<1>9. After(pos, fill) \in Pos
  BY <1>5, <1>7, <1>8 DEF Pos
<1> QED BY <1>3, <1>5, <1>6, <1>9

\* The fills of the broker have a whole size and price.
LEMMA FillTypes ==
  ASSUME NEW fill \in Fill
  PROVE  fill \in AnyFill
<1>1. FillSize \subseteq Nat \ {0} /\ Price \subseteq Nat \ {0}
  BY RiskTaskAssumption
<1> QED BY <1>1 DEF Fill, AnyFill

\* An account stays one through any event.
LEMMA TakenType ==
  ASSUME NEW a \in Account, NEW e \in TradeEvent, NEW s
  PROVE  Taken(a, e, s) \in Account /\ PosOf(a) \in Pos
<1>1. PosOf(a) \in Pos
  BY DEF PosOf, Pos, Account
<1>2. CASE e.kind = "Fill" /\ e.symbol = s
  <2>1. e.fill \in AnyFill
    <3>1. e.fill \in Fill
      BY <1>2 DEF TradeEvent, FillEvent, SymbolEvent, PlainEvent, SyncEvent
    <3> QED BY <3>1, FillTypes
  <2>2. After(PosOf(a), e.fill) \in Pos /\ Booked(PosOf(a), e.fill) \in Int
    BY <1>1, <2>1, FillYields
  <2>3. a.realized \in Int
    BY DEF Account
  <2>4. a.realized + Booked(PosOf(a), e.fill) \in Int
    BY <2>2, <2>3
  <2> QED BY <1>1, <1>2, <2>2, <2>4 DEF Taken, Account, Pos
<1>3. CASE ~(e.kind = "Fill" /\ e.symbol = s)
  BY <1>1, <1>3 DEF Taken
<1> QED BY <1>2, <1>3

-----------------------------------------------------------------------------
(* Steps of the FastLoop on its accounts. *)

\* Marking a symbol books its PnL in the globals, and touches no other symbol.
LEMMA MarkBooks ==
  ASSUME FastTypes, GlobalsAreSums, NEW s \in Symbol, NEW state \in SymbolState,
         NEW price \in Nat, NEW pnl \in Int, NEW realized,
         realized = global_realized_pnl + pnl,
         state.realized_pnl = symbol_states[s].realized_pnl + pnl,
         Mark(s, state, price, realized)
  PROVE  /\ FastTypes' /\ GlobalsAreSums'
         /\ FastAccount(s)' = [qty |-> state.position, avg |-> state.avg_cost,
                               realized |-> state.realized_pnl]
         /\ \A r \in Symbol : r # s => FastAccount(r)' = FastAccount(r)
<1> DEFINE u == UnrealizedPnl(state.position, state.avg_cost, price)
           old == symbol_states[s]
           new == [state EXCEPT !.unrealized_pnl = u]
<1>1. u \in Int
  <2>1. state.position \in Int /\ state.avg_cost \in Int
    BY DEF SymbolState
  <2>2. Magnitude(state.position) \in Int
    BY <2>1 DEF Magnitude
  <2> QED BY <2>1, <2>2 DEF UnrealizedPnl
<1>2. /\ symbol_states' = [symbol_states EXCEPT ![s] = new]
      /\ global_realized_pnl' = global_realized_pnl + pnl
      /\ global_unrealized_pnl' = global_unrealized_pnl + u - old.unrealized_pnl
  BY DEF Mark
<1>3. old \in SymbolState /\ symbol_states \in [Symbol -> SymbolState]
  BY DEF FastTypes
<1> HIDE DEF u
<1>4. /\ new \in SymbolState /\ new.position = state.position
      /\ new.avg_cost = state.avg_cost /\ new.realized_pnl = state.realized_pnl
      /\ new.unrealized_pnl = u
  BY <1>1 DEF SymbolState
<1> HIDE DEF new, old
<1>5. /\ symbol_states' \in [Symbol -> SymbolState] /\ symbol_states'[s] = new
      /\ \A r \in Symbol : r # s => symbol_states'[r] = symbol_states[r]
  BY <1>2, <1>3, <1>4
<1>6. old.realized_pnl \in Int /\ old.unrealized_pnl \in Int
  BY <1>3 DEF SymbolState
<1>7. FastTypes'
  BY <1>1, <1>2, <1>5, <1>6 DEF FastTypes
<1>8. GlobalsAreSums'
  <2> DEFINE f1 == [r \in Symbol |-> symbol_states[r].realized_pnl]
             g1 == [r \in Symbol |-> symbol_states'[r].realized_pnl]
             f2 == [r \in Symbol |-> symbol_states[r].unrealized_pnl]
             g2 == [r \in Symbol |-> symbol_states'[r].unrealized_pnl]
  <2>1. /\ \A r \in Symbol : f1[r] \in Int /\ f2[r] \in Int
        /\ \A r \in Symbol : r # s => g1[r] = f1[r] /\ g2[r] = f2[r]
    BY <1>3, <1>5 DEF SymbolState
  <2>2. g1[s] = f1[s] + pnl
    BY <1>4, <1>5
  <2>3. g2[s] = f2[s] + (u - old.unrealized_pnl)
    BY <1>1, <1>4, <1>5, <1>6 DEF old
  <2>4. /\ global_realized_pnl = SumFunctionOnSet(f1, Symbol)
        /\ global_unrealized_pnl = SumFunctionOnSet(f2, Symbol)
    BY DEF GlobalsAreSums, SumFunction
  <2>5. /\ SumFunction([r \in Symbol |-> symbol_states[r].realized_pnl])'
             = SumFunctionOnSet(g1, Symbol)
        /\ SumFunction([r \in Symbol |-> symbol_states[r].unrealized_pnl])'
             = SumFunctionOnSet(g2, Symbol)
    BY DEF SumFunction
  <2>6. IsFiniteSet(Symbol) /\ u - old.unrealized_pnl \in Int
    BY <1>1, <1>6, RiskStateAssumption
  <2> HIDE DEF f1, f2, g1, g2
  <2>7. SumFunctionOnSet(g1, Symbol) = SumFunctionOnSet(f1, Symbol) + pnl
    BY <2>1, <2>2, <2>6, SumGrows
  <2>8. PICK d \in Int : d = u - old.unrealized_pnl
    BY <2>6
  <2>9. SumFunctionOnSet(g2, Symbol) = SumFunctionOnSet(f2, Symbol) + d
    <3>1. g2[s] = f2[s] + d
      BY <2>3, <2>8
    <3> QED BY <2>1, <2>6, <3>1, SumGrows
  <2>10. global_unrealized_pnl' = global_unrealized_pnl + d
    BY <1>1, <1>2, <1>6, <2>8 DEF FastTypes
  <2> QED BY <1>2, <2>4, <2>5, <2>7, <2>9, <2>10 DEF GlobalsAreSums
<1>9. FastAccount(s)' = [qty |-> state.position, avg |-> state.avg_cost,
                         realized |-> state.realized_pnl]
  BY <1>4, <1>5 DEF FastAccount
<1>10. \A r \in Symbol : r # s => FastAccount(r)' = FastAccount(r)
  BY <1>5 DEF FastAccount
<1> QED BY <1>7, <1>8, <1>9, <1>10

\* A tick moves no account.
LEMMA TickBooks ==
  ASSUME FastTypes, GlobalsAreSums, NEW s \in Symbol, NEW price \in Price,
         ProcessTick(s, price)
  PROVE  /\ FastTypes' /\ GlobalsAreSums'
         /\ \A r \in Symbol : FastAccount(r)' = FastAccount(r)
<1> DEFINE state == [symbol_states[s] EXCEPT !.price = price]
<1>1. price \in Nat /\ symbol_states \in [Symbol -> SymbolState]
  BY RiskTaskAssumption DEF FastTypes
<1>2. /\ state \in SymbolState
      /\ state.position = symbol_states[s].position
      /\ state.avg_cost = symbol_states[s].avg_cost
      /\ state.realized_pnl = symbol_states[s].realized_pnl
      /\ state.unrealized_pnl = symbol_states[s].unrealized_pnl
      /\ state.realized_pnl \in Int
  BY <1>1 DEF SymbolState
<1>3. CASE state.position # 0
  <2>1. Mark(s, state, price, global_realized_pnl)
    BY <1>3 DEF ProcessTick
  <2> HIDE DEF state
  <2>2. /\ state.realized_pnl = symbol_states[s].realized_pnl + 0
        /\ global_realized_pnl = global_realized_pnl + 0
    BY <1>2 DEF FastTypes
  <2>3. /\ FastTypes' /\ GlobalsAreSums'
        /\ FastAccount(s)' = [qty |-> state.position, avg |-> state.avg_cost,
                              realized |-> state.realized_pnl]
        /\ \A r \in Symbol : r # s => FastAccount(r)' = FastAccount(r)
    BY <1>1, <1>2, <2>1, <2>2, MarkBooks
  <2> QED BY <1>2, <2>3 DEF FastAccount
<1>4. CASE state.position = 0
  <2>1. /\ symbol_states' = [symbol_states EXCEPT ![s] = state]
        /\ UNCHANGED <<global_realized_pnl, global_unrealized_pnl>>
    BY <1>4 DEF ProcessTick
  <2> HIDE DEF state
  <2>2. /\ symbol_states' \in [Symbol -> SymbolState] /\ symbol_states'[s] = state
        /\ \A r \in Symbol : r # s => symbol_states'[r] = symbol_states[r]
    BY <1>1, <1>2, <2>1
  <2>3. \A r \in Symbol : FastAccount(r)' = FastAccount(r)
    BY <1>2, <2>2 DEF FastAccount
  <2>4. /\ [r \in Symbol |-> symbol_states[r].realized_pnl]'
             = [r \in Symbol |-> symbol_states[r].realized_pnl]
        /\ [r \in Symbol |-> symbol_states[r].unrealized_pnl]'
             = [r \in Symbol |-> symbol_states[r].unrealized_pnl]
    BY <1>2, <2>2
  <2> QED BY <2>1, <2>2, <2>3, <2>4 DEF FastTypes, GlobalsAreSums
<1> QED BY <1>3, <1>4

\* A fill that is booked is taken into the account of its symbol.
LEMMA FillBooks ==
  ASSUME FastTypes, GlobalsAreSums, NEW e \in FillEvent, ProcessFill(e.symbol, e.fill)
  PROVE  /\ FastTypes' /\ GlobalsAreSums'
         /\ \A r \in Symbol : FastAccount(r)' = Taken(FastAccount(r), e, r)
<1> DEFINE s == e.symbol
           fill == e.fill
           new == After(Position(s), fill)
           pnl == Booked(Position(s), fill)
           old == symbol_states[s]
           price == IF old.price > 0 THEN old.price ELSE fill.price
           state == [old EXCEPT !.position = new.qty, !.avg_cost = new.avg,
                                !.realized_pnl = @ + pnl]
<1>1. s \in Symbol /\ fill \in AnyFill /\ e.kind = "Fill" /\ old \in SymbolState
  BY FillTypes DEF FillEvent, FastTypes
<1>2. Position(s) \in Pos /\ Position(s) = PosOf(FastAccount(s))
  BY <1>1 DEF Position, Pos, SymbolState, PosOf, FastAccount
<1>3. new \in Pos /\ pnl \in Int
  BY <1>1, <1>2, FillYields
<1>4. Mark(s, state, price, global_realized_pnl + pnl)
  BY DEF ProcessFill
<1>5. price \in Nat
  BY <1>1 DEF SymbolState, AnyFill
<1>6. Taken(FastAccount(s), e, s)
        = [qty |-> new.qty, avg |-> new.avg, realized |-> old.realized_pnl + pnl]
  BY <1>1, <1>2 DEF Taken, FastAccount
<1>7. \A r \in Symbol : r # s => Taken(FastAccount(r), e, r) = FastAccount(r)
  BY DEF Taken
<1> HIDE DEF new, pnl, price
<1>8. /\ state \in SymbolState /\ state.position = new.qty /\ state.avg_cost = new.avg
      /\ state.realized_pnl = old.realized_pnl + pnl
  <2>1. new.qty \in Int /\ new.avg \in Int /\ old.realized_pnl \in Int
    BY <1>1, <1>3 DEF SymbolState, Pos
  <2>2. PICK r \in Int : r = old.realized_pnl + pnl
    BY <1>3, <2>1
  <2>3. state = [old EXCEPT !.position = new.qty, !.avg_cost = new.avg, !.realized_pnl = r]
    BY <2>2
  <2> HIDE DEF state, old
  <2> QED BY <1>1, <2>1, <2>2, <2>3 DEF SymbolState
<1> HIDE DEF state, old, s
<1>9. /\ FastTypes' /\ GlobalsAreSums'
      /\ FastAccount(s)' = [qty |-> state.position, avg |-> state.avg_cost,
                            realized |-> state.realized_pnl]
      /\ \A r \in Symbol : r # s => FastAccount(r)' = FastAccount(r)
  BY <1>1, <1>3, <1>4, <1>5, <1>8, MarkBooks DEF old
<1> QED BY <1>6, <1>7, <1>8, <1>9


\* What an event of each kind carries.
LEMMA EventKinds ==
  ASSUME NEW e \in TradeEvent
  PROVE  /\ e.kind = "Fill" => e \in FillEvent /\ e.symbol \in Symbol /\ e.fill \in Fill
         /\ e.kind = "Tick" => e.symbol \in Symbol /\ e.price \in Price
         /\ e.kind \in {"Halt", "Reject"} => e.symbol \in Symbol
         /\ e.kind = "StateSync" => e.held \in Holdings
BY DEF TradeEvent, FillEvent, SymbolEvent, PlainEvent, SyncEvent

\* The globals stay the sums when no symbol changes its PnL.
LEMMA SumsStay ==
  ASSUME FastTypes, GlobalsAreSums, symbol_states' \in [Symbol -> SymbolState],
         UNCHANGED <<global_realized_pnl, global_unrealized_pnl>>,
         \A r \in Symbol : /\ symbol_states'[r].realized_pnl = symbol_states[r].realized_pnl
                           /\ symbol_states'[r].unrealized_pnl = symbol_states[r].unrealized_pnl
  PROVE  FastTypes' /\ GlobalsAreSums'
<1>1. /\ [r \in Symbol |-> symbol_states[r].realized_pnl]'
           = [r \in Symbol |-> symbol_states[r].realized_pnl]
      /\ [r \in Symbol |-> symbol_states[r].unrealized_pnl]'
           = [r \in Symbol |-> symbol_states[r].unrealized_pnl]
  OBVIOUS
<1> QED BY <1>1 DEF FastTypes, GlobalsAreSums

\* A StateSync that says of a symbol what its account says leaves it alone.
LEMMA SyncBooks ==
  ASSUME FastTypes, GlobalsAreSums, NEW held \in Holdings, ProcessSync(held)
  PROVE  /\ FastTypes' /\ GlobalsAreSums'
         /\ \A r \in Symbol : Told(held, r) = PosOf(FastAccount(r))
                                => FastAccount(r)' = FastAccount(r)
<1> DEFINE told(r) == Told(held, r)
<1>0. global_unrealized_pnl' = 0 /\ global_realized_pnl' = global_realized_pnl
  BY DEF ProcessSync
<1>1. \A r \in Symbol : told(r) \in Pos
  <2>1. PICK S \in SUBSET Symbol : held \in [S -> Pos]
    BY DEF Holdings
  <2> QED BY <2>1 DEF Told, Pos
<1>2. symbol_states' = [r \in Symbol |->
             [symbol_states[r] EXCEPT !.position = told(r).qty, !.avg_cost = told(r).avg,
                                      !.unrealized_pnl = 0]]
  BY DEF ProcessSync, Told
<1> HIDE DEF told
<1>3. ASSUME NEW r \in Symbol
      PROVE  /\ symbol_states'[r] \in SymbolState
             /\ symbol_states'[r].position = told(r).qty
             /\ symbol_states'[r].avg_cost = told(r).avg
             /\ symbol_states'[r].realized_pnl = symbol_states[r].realized_pnl
             /\ symbol_states'[r].unrealized_pnl = 0
  <2>1. /\ symbol_states[r] \in SymbolState /\ told(r).qty \in Int /\ told(r).avg \in Int
        /\ symbol_states'[r] =
             [symbol_states[r] EXCEPT !.position = told(r).qty, !.avg_cost = told(r).avg,
                                      !.unrealized_pnl = 0]
    BY <1>1, <1>2 DEF FastTypes, Pos
  <2>2. PICK q, a \in Int : q = told(r).qty /\ a = told(r).avg
    BY <2>1
  <2>3. symbol_states'[r] =
          [symbol_states[r] EXCEPT !.position = q, !.avg_cost = a, !.unrealized_pnl = 0]
    BY <2>1, <2>2
  <2>4. symbol_states'[r] =
          [position |-> q, avg_cost |-> a, realized_pnl |-> symbol_states[r].realized_pnl,
           unrealized_pnl |-> 0, price |-> symbol_states[r].price]
    BY <2>1, <2>3 DEF SymbolState
  <2> QED BY <2>1, <2>2, <2>4 DEF SymbolState
<1>4. symbol_states' \in [Symbol -> SymbolState]
  <2> DEFINE new(r) == [symbol_states[r] EXCEPT !.position = told(r).qty,
                          !.avg_cost = told(r).avg, !.unrealized_pnl = 0]
  <2>1. symbol_states' = [r \in Symbol |-> new(r)]
    BY <1>2
  <2> HIDE DEF new
  <2> QED BY <1>3, <2>1
<1>5. GlobalsAreSums'
  <2>1. [r \in Symbol |-> symbol_states[r].realized_pnl]'
          = [r \in Symbol |-> symbol_states[r].realized_pnl]
    BY <1>3
  <2> DEFINE f == [r \in Symbol |-> symbol_states'[r].unrealized_pnl]
  <2>2. \A r \in Symbol : f[r] = 0
    BY <1>3
  <2>3. SumFunction([r \in Symbol |-> symbol_states[r].unrealized_pnl])'
          = SumFunctionOnSet(f, Symbol)
    BY DEF SumFunction
  <2> HIDE DEF f
  <2>4. SumFunctionOnSet(f, Symbol) = 0
    BY <2>2, RiskStateAssumption, SumZero
  <2> QED BY <1>0, <2>1, <2>3, <2>4 DEF GlobalsAreSums
<1>6. FastTypes'
  <2>1. global_unrealized_pnl' \in Int /\ global_realized_pnl' \in Int
    BY <1>0 DEF FastTypes
  <2> QED BY <1>4, <2>1 DEF FastTypes
<1>7. ASSUME NEW r \in Symbol, told(r) = PosOf(FastAccount(r))
      PROVE  FastAccount(r)' = FastAccount(r)
  <2>1. told(r).qty = symbol_states[r].position /\ told(r).avg = symbol_states[r].avg_cost
    BY <1>7 DEF PosOf, FastAccount
  <2> QED BY <1>3, <2>1 DEF FastAccount
<1> QED BY <1>5, <1>6, <1>7 DEF told

\* A Reconnect moves no account.
LEMMA ReconnectBooks ==
  ASSUME FastTypes, GlobalsAreSums, FastReconnect
  PROVE  /\ FastTypes' /\ GlobalsAreSums'
         /\ \A r \in Symbol : FastAccount(r)' = FastAccount(r)
<1>1. symbol_states' = [r \in Symbol |-> [symbol_states[r] EXCEPT !.price = 0]]
  BY DEF FastReconnect
<1>2. \A r \in Symbol : symbol_states[r] \in SymbolState
  BY DEF FastTypes
<1>3. ASSUME NEW r \in Symbol
      PROVE  /\ symbol_states'[r] \in SymbolState
             /\ symbol_states'[r].position = symbol_states[r].position
             /\ symbol_states'[r].avg_cost = symbol_states[r].avg_cost
             /\ symbol_states'[r].realized_pnl = symbol_states[r].realized_pnl
             /\ symbol_states'[r].unrealized_pnl = symbol_states[r].unrealized_pnl
  <2>1. symbol_states'[r] = [symbol_states[r] EXCEPT !.price = 0]
    BY <1>1
  <2> QED BY <1>2, <2>1 DEF SymbolState
<1>4. symbol_states' \in [Symbol -> SymbolState]
  <2> DEFINE new(r) == [symbol_states[r] EXCEPT !.price = 0]
  <2>1. symbol_states' = [r \in Symbol |-> new(r)]
    BY <1>1
  <2> HIDE DEF new
  <2> QED BY <1>3, <2>1
<1>5. UNCHANGED <<global_realized_pnl, global_unrealized_pnl>>
  BY DEF FastReconnect
<1>6. \A r \in Symbol : FastAccount(r)' = FastAccount(r)
  BY <1>3 DEF FastAccount
<1> QED BY <1>3, <1>4, <1>5, <1>6, SumsStay


\* A Tick moves no account, whichever way the FastLoop takes it.
LEMMA FastTickBooks ==
  ASSUME FastTypes, GlobalsAreSums, NEW e \in TradeEvent, FastTick(e)
  PROVE  /\ FastTypes' /\ GlobalsAreSums' /\ UNCHANGED diverged
         /\ \A r \in Symbol : FastAccount(r)' = FastAccount(r)
<1>1. e.kind = "Tick" /\ e.symbol \in Symbol /\ e.price \in Price /\ UNCHANGED diverged
  BY EventKinds DEF FastTick
<1>2. CASE ProcessTick(e.symbol, e.price)
  BY <1>1, <1>2, TickBooks
<1>3. CASE UNCHANGED pnl_vars
  BY <1>1, <1>3, SumsStay DEF pnl_vars, FastTypes, FastAccount
<1>4. CASE \E blocked \in BOOLEAN : ClosedTick(e.symbol, e.price, blocked)
  BY <1>2, <1>3, <1>4 DEF ClosedTick
<1>5. CASE EmergencyTick(e.symbol)
  BY <1>3, <1>5 DEF EmergencyTick
<1>6. CASE \E blocked, signal \in BOOLEAN, size \in Affordable(e.price) :
             OpenTick(e.symbol, e.price, blocked, signal, size)
  BY <1>2, <1>3, <1>6 DEF OpenTick
<1> QED BY <1>4, <1>5, <1>6 DEF FastTick

\* What an event does to the accounts of the FastLoop: a fill that is not
\* skipped is taken, and nothing else moves them.
LEMMA FastEventBooks ==
  ASSUME FastTypes, GlobalsAreSums, NEW e \in TradeEvent,
         \/ FastTick(e)
         \/ FastOther(e)
         \/ CloseAll(IF e.kind = "Halt" THEN {e.symbol} ELSE {}) /\ UNCHANGED diverged
  PROVE  /\ FastTypes' /\ GlobalsAreSums' /\ ~fast_stopped
         /\ diverged => diverged'
         /\ ~diverged' /\ ~fast_stopped' =>
              \A r \in Symbol :
                (e.kind = "StateSync" => Told(e.held, r) = PosOf(FastAccount(r)))
                  => FastAccount(r)' = Taken(FastAccount(r), e, r)
<1>1. ASSUME NEW r \in Symbol, e.kind # "Fill" PROVE Taken(FastAccount(r), e, r) = FastAccount(r)
  BY <1>1 DEF Taken
<1>2. CASE FastTick(e)
  <2>1. ~fast_stopped /\ e.kind = "Tick"
    BY <1>2 DEF FastTick, ClosedTick, EmergencyTick, OpenTick, Running
  <2> QED BY <1>1, <1>2, <2>1, FastTickBooks
<1>3. CASE /\ e.kind = "Fill"
           /\ \E blocked \in BOOLEAN :
                /\ FastFill(e.symbol, e.fill, blocked)
                /\ diverged' = (diverged \/ blocked \/ e.symbol \in disabled_symbols)
  <2>1. PICK blocked \in BOOLEAN :
          /\ FastFill(e.symbol, e.fill, blocked)
          /\ diverged' = (diverged \/ blocked \/ e.symbol \in disabled_symbols)
    BY <1>3
  <2>2. ~fast_stopped
    BY <2>1 DEF FastFill, Running
  <2>3. CASE blocked \/ e.symbol \in disabled_symbols
    <3>1. diverged'
      BY <2>1, <2>3
    <3>2. UNCHANGED <<symbol_states, global_realized_pnl, global_unrealized_pnl>>
      BY <2>1, <2>3 DEF FastFill, pnl_vars
    <3>3. FastTypes' /\ GlobalsAreSums'
      BY <3>2, SumsStay DEF FastTypes
    <3> QED BY <2>2, <3>1, <3>3
  <2>4. CASE ~(blocked \/ e.symbol \in disabled_symbols)
    <3>1. ProcessFill(e.symbol, e.fill)
      BY <2>1, <2>4 DEF FastFill
    <3>2. e \in FillEvent
      BY <1>3, EventKinds
    <3>3. diverged => diverged'
      BY <2>1
    <3> QED BY <2>2, <3>1, <3>2, <3>3, FillBooks
  <2> QED BY <2>3, <2>4
<1>4. CASE e.kind = "Halt" /\ FastHalt(e.symbol) /\ UNCHANGED diverged
  <2>1. ~fast_stopped /\ UNCHANGED <<symbol_states, global_realized_pnl, global_unrealized_pnl>>
    BY <1>4 DEF FastHalt, Running, pnl_vars
  <2>2. FastTypes' /\ GlobalsAreSums' /\ \A r \in Symbol : FastAccount(r)' = FastAccount(r)
    BY <2>1, SumsStay DEF FastTypes, FastAccount
  <2> QED BY <1>1, <1>4, <2>1, <2>2
<1>5. CASE e.kind = "Reconnect" /\ FastReconnect /\ UNCHANGED diverged
  <2>1. ~fast_stopped
    BY <1>5 DEF FastReconnect, Running
  <2> QED BY <1>1, <1>5, <2>1, ReconnectBooks
<1>6. CASE e.kind = "StateSync" /\ FastStateSync(e.held) /\ UNCHANGED diverged
  <2>1. ~fast_stopped /\ ProcessSync(e.held)
    BY <1>6 DEF FastStateSync, Running
  <2>2. e.held \in Holdings
    BY <1>6, EventKinds
  <2>3. /\ FastTypes' /\ GlobalsAreSums'
        /\ \A r \in Symbol : Told(e.held, r) = PosOf(FastAccount(r))
                               => FastAccount(r)' = FastAccount(r)
    BY <2>1, <2>2, SyncBooks
  <2> QED BY <1>1, <1>6, <2>1, <2>3
<1>7. CASE e.kind \in {"Reconnect", "StateSync"} /\ FastBlocked /\ UNCHANGED diverged
  <2>1. ~fast_stopped /\ UNCHANGED <<symbol_states, global_realized_pnl, global_unrealized_pnl>>
    BY <1>7 DEF FastBlocked, Running, pnl_vars
  <2>2. FastTypes' /\ GlobalsAreSums' /\ \A r \in Symbol : FastAccount(r)' = FastAccount(r)
    BY <2>1, SumsStay DEF FastTypes, FastAccount
  <2> QED BY <1>1, <1>7, <2>1, <2>2
<1>8. CASE CloseAll(IF e.kind = "Halt" THEN {e.symbol} ELSE {}) /\ UNCHANGED diverged
  <2>1. /\ ~fast_stopped /\ fast_stopped' = TRUE
        /\ UNCHANGED <<symbol_states, global_realized_pnl, global_unrealized_pnl>>
    BY <1>8 DEF CloseAll, pnl_vars
  <2>2. FastTypes' /\ GlobalsAreSums'
    BY <2>1, SumsStay DEF FastTypes
  <2> QED BY <1>8, <2>1, <2>2
<1> QED BY <1>2, <1>3, <1>4, <1>5, <1>6, <1>7, <1>8 DEF FastOther


-----------------------------------------------------------------------------
(* Steps of the Risk task on its accounts. *)

\* A fill is taken into the account of its symbol, and its PnL into the total.
LEMMA RiskFillBooks ==
  ASSUME RiskTypes, RiskSum, NEW e \in FillEvent, Book(e.symbol, e.fill)
  PROVE  /\ RiskTypes' /\ RiskSum'
         /\ \A r \in Symbol : positions'[r] = Taken(positions[r], e, r)
<1> DEFINE s == e.symbol
           pnl == Booked(Held(s), e.fill)
           new == Taken(positions[s], e, s)
<1>1. s \in Symbol /\ e \in TradeEvent /\ e.kind = "Fill" /\ e.fill \in AnyFill
  BY FillTypes DEF FillEvent, TradeEvent
<1>2. positions[s] \in Account /\ Held(s) = PosOf(positions[s])
  BY <1>1 DEF RiskTypes, Held, PosOf
<1>3. new \in Account /\ PosOf(positions[s]) \in Pos
  BY <1>1, <1>2, TakenType
<1>4. pnl \in Int
  BY <1>1, <1>2, <1>3, FillYields
<1>5. new.realized = positions[s].realized + pnl
  BY <1>1, <1>2 DEF Taken
<1>6. positions' = [positions EXCEPT ![s] = new] /\ global_realized' = global_realized + pnl
  BY <1>1, <1>2 DEF Book, Taken
<1>7. \A r \in Symbol : r # s => Taken(positions[r], e, r) = positions[r]
  BY DEF Taken
<1>8. positions \in [Symbol -> Account]
  BY DEF RiskTypes
<1> HIDE DEF new, pnl
<1>9. /\ positions' \in [Symbol -> Account] /\ positions'[s] = new
      /\ \A r \in Symbol : r # s => positions'[r] = positions[r]
  BY <1>1, <1>3, <1>6, <1>8
<1>10. RiskTypes'
  BY <1>4, <1>6, <1>9 DEF RiskTypes
<1>11. RiskSum'
  <2> DEFINE f == [r \in Symbol |-> positions[r].realized]
             g == [r \in Symbol |-> positions'[r].realized]
  <2>1. /\ \A r \in Symbol : f[r] \in Int
        /\ \A r \in Symbol : r # s => g[r] = f[r]
    BY <1>8, <1>9 DEF Account
  <2>2. g[s] = f[s] + pnl
    BY <1>1, <1>5, <1>9
  <2>3. global_realized = SumFunctionOnSet(f, Symbol)
    BY DEF RiskSum, SumFunction
  <2>4. SumFunction([r \in Symbol |-> positions[r].realized])' = SumFunctionOnSet(g, Symbol)
    BY DEF SumFunction
  <2> HIDE DEF f, g, s
  <2>5. SumFunctionOnSet(g, Symbol) = SumFunctionOnSet(f, Symbol) + pnl
    BY <1>1, <1>4, <2>1, <2>2, RiskStateAssumption, SumGrows
  <2> QED BY <1>6, <2>3, <2>4, <2>5 DEF RiskSum
<1> QED BY <1>7, <1>9, <1>10, <1>11 DEF new

\* A step that leaves the tracker alone.
LEMMA RiskIdle ==
  ASSUME RiskTypes, RiskSum, UNCHANGED tracker
  PROVE  RiskTypes' /\ RiskSum' /\ UNCHANGED positions
<1>1. UNCHANGED <<positions, global_realized>>
  BY DEF tracker
<1>2. [s \in Symbol |-> positions[s].realized]' = [s \in Symbol |-> positions[s].realized]
  BY <1>1
<1> QED BY <1>1, <1>2 DEF RiskTypes, RiskSum

\* What the Risk task does with an event.
RiskEvent(e) ==
  CASE e.kind = "Fill"      -> RiskFill(e.symbol, e.fill, today)
    [] e.kind = "Heartbeat" -> RiskHeartbeat
    [] e.kind = "StateSync" -> RiskStateSync(Cardinality(DOMAIN e.held))
    [] e.kind = "Reject"    -> RiskReject(e.symbol)
    [] OTHER                -> UNCHANGED <<shared, tracker>>

\* What an event does to the accounts of the Risk task.
LEMMA RiskEventBooks ==
  ASSUME RiskTypes, RiskSum, NEW e \in TradeEvent, RiskEvent(e)
  PROVE  /\ RiskTypes' /\ RiskSum'
         /\ \A r \in Symbol : positions'[r] = Taken(positions[r], e, r)
<1>1. CASE e.kind = "Fill"
  <2>1. e \in FillEvent
    BY <1>1, EventKinds
  <2>2. Book(e.symbol, e.fill)
    BY <1>1 DEF RiskEvent, RiskFill
  <2> QED BY <2>1, <2>2, RiskFillBooks
<1>2. CASE e.kind # "Fill"
  <2>1. UNCHANGED tracker
    <3>1. CASE e.kind = "Heartbeat"
      BY <3>1 DEF RiskEvent, RiskHeartbeat
    <3>2. CASE e.kind = "StateSync"
      BY <3>2 DEF RiskEvent, RiskStateSync
    <3>3. CASE e.kind = "Reject"
      BY <3>3 DEF RiskEvent, RiskReject
    <3>4. CASE e.kind \notin {"Fill", "Heartbeat", "StateSync", "Reject"}
      BY <3>4 DEF RiskEvent
    <3> QED BY <1>2, <3>1, <3>2, <3>3, <3>4
  <2>2. \A r \in Symbol : Taken(positions[r], e, r) = positions[r]
    BY <1>2 DEF Taken
  <2> QED BY <2>1, <2>2, RiskIdle
<1> QED BY <1>1, <1>2


-----------------------------------------------------------------------------
(* The orders. *)

\* Orders sent to the OMS stay within its channel.
LEMMA SendTypes ==
  ASSUME orders \in Seq(TradeOrder), Len(orders) <= OrderCap,
         NEW new \in Seq(TradeOrder), SendOrders(new)
  PROVE  orders' \in Seq(TradeOrder) /\ Len(orders') <= OrderCap
<1> DEFINE all == orders \o new
<1>1. all \in Seq(TradeOrder) /\ Len(all) \in Nat /\ OrderCap \in Nat
  BY ConcatProperties, RiskStateAssumption
<1>2. orders' = IF Len(all) <= OrderCap THEN all ELSE SubSeq(all, 1, OrderCap)
  BY DEF SendOrders
<1> HIDE DEF all
<1>3. CASE Len(all) <= OrderCap
  BY <1>1, <1>2, <1>3
<1>4. CASE ~(Len(all) <= OrderCap)
  <2>1. OrderCap \in 0..Len(all)
    BY <1>1, <1>4
  <2>2. /\ SubSeq(all, 1, OrderCap) \in Seq(TradeOrder)
        /\ Len(SubSeq(all, 1, OrderCap)) = IF 1 <= OrderCap THEN OrderCap - 1 + 1 ELSE 0
    <3>1. /\ 1 \in 1..(Len(all) + 1) /\ OrderCap \in (1 - 1)..Len(all)
      BY <1>1, <2>1
    <3> QED BY <1>1, <3>1, SubSeqProperties
  <2> QED BY <1>1, <1>2, <1>4, <2>2
<1> QED BY <1>3, <1>4

\* One order of a positive size, or none.
LEMMA SendOne ==
  ASSUME orders \in Seq(TradeOrder), Len(orders) <= OrderCap,
         NEW kind \in {"entry", "exit", "close"}, NEW s \in Symbol, NEW side \in Side,
         NEW qty \in Int, qty > 0, SendOrders(<<Order(kind, s, side, qty)>>)
  PROVE  orders' \in Seq(TradeOrder) /\ Len(orders') <= OrderCap
<1>1. Order(kind, s, side, qty) \in TradeOrder
  BY DEF Order, TradeOrder
<1>2. <<Order(kind, s, side, qty)>> \in Seq(TradeOrder)
  BY <1>1
<1> QED BY <1>2, SendTypes

\* The FastLoop sends whole orders: an entry, an exit, or a close for every position.
LEMMA FastOrders ==
  ASSUME FastTypes, orders \in Seq(TradeOrder), Len(orders) <= OrderCap, NEW e \in TradeEvent,
         \/ FastTick(e)
         \/ FastOther(e)
         \/ CloseAll(IF e.kind = "Halt" THEN {e.symbol} ELSE {}) /\ UNCHANGED diverged
  PROVE  orders' \in Seq(TradeOrder) /\ Len(orders') <= OrderCap
<1> DEFINE Good == orders' \in Seq(TradeOrder) /\ Len(orders') <= OrderCap
<1>0. \A s \in Symbol : symbol_states[s].position \in Int
  BY DEF FastTypes, SymbolState
<1>1. CASE UNCHANGED orders
  BY <1>1
<1>2. ASSUME NEW s \in Symbol, EmergencyTick(s) PROVE Good
  <2>1. CASE symbol_states[s].position > 0
    <3>1. SendOrders(<<Order("exit", s, "Ask", symbol_states[s].position)>>)
      BY <1>2, <2>1 DEF EmergencyTick
    <3>2. "exit" \in {"entry", "exit", "close"} /\ "Ask" \in Side
      BY DEF Side
    <3>3. PICK held \in Int : held = symbol_states[s].position
      BY <1>0
    <3> QED BY <2>1, <3>1, <3>2, <3>3, SendOne
  <2>2. CASE ~(symbol_states[s].position > 0)
    <3>1. SendOrders(<<>>) /\ <<>> \in Seq(TradeOrder)
      BY <1>2, <2>2 DEF EmergencyTick
    <3> QED BY <3>1, SendTypes
  <2> QED BY <2>1, <2>2
<1>3. ASSUME NEW s \in Symbol, NEW price, NEW blocked, NEW signal, NEW size \in Affordable(price),
             OpenTick(s, price, blocked, signal, size)
      PROVE  Good
  <2>1. size \in Nat
    BY FastLoopAssumption DEF Affordable
  <2>2. Reduced(size) \in Int
    BY <2>1 DEF Reduced, AtLeastOne
  <2>3. CASE UNCHANGED orders
    BY <1>1, <2>3
  <2>4. CASE Reduced(size) > 0 /\ SendOrders(<<Order("entry", s, "Bid", Reduced(size))>>)
    <3>1. "entry" \in {"entry", "exit", "close"} /\ "Bid" \in Side
      BY DEF Side
    <3> QED BY <2>2, <2>4, <3>1, SendOne
  <2> QED BY <1>3, <2>3, <2>4 DEF OpenTick
<1>4. ASSUME NEW halts, CloseAll(halts) PROVE Good
  <2> DEFINE n == Cardinality(OpenSymbols)
             close(s) == Order("close", s, IF symbol_states[s].position > 0 THEN "Ask" ELSE "Bid",
                               Magnitude(symbol_states[s].position))
  <2>1. PICK order \in [1..n -> OpenSymbols] : SendOrders([i \in DOMAIN order |-> close(order[i])])
    BY <1>4 DEF CloseAll
  <2>2. \A s \in OpenSymbols : close(s) \in TradeOrder
    <3> SUFFICES ASSUME NEW s \in OpenSymbols PROVE close(s) \in TradeOrder
      OBVIOUS
    <3>1. s \in Symbol /\ symbol_states[s].position # 0 /\ symbol_states[s].position \in Int
      BY <1>0 DEF OpenSymbols
    <3>2. Magnitude(symbol_states[s].position) \in Nat \ {0}
      BY <3>1 DEF Magnitude
    <3> QED BY <3>1, <3>2 DEF Order, TradeOrder, Side
  <2>3. n \in Nat
    <3>1. IsFiniteSet(OpenSymbols)
      BY RiskStateAssumption, FS_Subset DEF OpenSymbols
    <3> QED BY <3>1, FS_CardinalityType
  <2>4. DOMAIN order = 1..n /\ \A i \in 1..n : order[i] \in OpenSymbols
    BY <2>1
  <2> HIDE DEF close, n
  <2>5. [i \in DOMAIN order |-> close(order[i])] \in [1..n -> TradeOrder]
    BY <2>2, <2>4
  <2>6. [i \in DOMAIN order |-> close(order[i])] \in Seq(TradeOrder)
    BY <2>3, <2>5
  <2> QED BY <2>1, <2>6, SendTypes
<1>5. CASE FastTick(e)
  <2>1. e.symbol \in Symbol
    BY <1>5, EventKinds DEF FastTick
  <2> QED BY <1>1, <1>2, <1>3, <1>5, <2>1 DEF FastTick, ClosedTick
<1>6. CASE FastOther(e)
  BY <1>1, <1>6 DEF FastOther, FastFill, FastHalt, FastReconnect, FastStateSync, FastBlocked, shared
<1>7. CASE CloseAll(IF e.kind = "Halt" THEN {e.symbol} ELSE {})
  BY <1>4, <1>7
<1> QED BY <1>5, <1>6, <1>7

\* The Risk task sends partial exits of at least one share.
LEMMA RiskOrders ==
  ASSUME RiskTypes, orders \in Seq(TradeOrder), Len(orders) <= OrderCap, NEW e \in TradeEvent,
         RiskEvent(e)
  PROVE  orders' \in Seq(TradeOrder) /\ Len(orders') <= OrderCap
<1>1. CASE UNCHANGED orders
  BY <1>1
<1>2. CASE e.kind = "Fill"
  <2> DEFINE s == e.symbol
             pos == After(Held(s), e.fill)
             qty == ExitQty(pos, e.fill.price)
  <2>1. s \in Symbol /\ e.fill \in AnyFill
    BY <1>2, EventKinds, FillTypes
  <2>2. PartialExit(s, pos, e.fill.price)
    BY <1>2 DEF RiskEvent, RiskFill
  <2>3. Held(s) \in Pos
    BY <2>1 DEF RiskTypes, Account, Held, Pos
  <2>4. pos \in Pos
    BY <2>1, <2>3, FillYields
  <2> HIDE DEF pos
  <2>5. qty \in Int
    BY <2>4 DEF ExitQty, Pos
  <2>6. CASE qty > 0
    <3>1. SendOrders(<<Order("exit", s, "Ask", qty)>>)
      BY <2>2, <2>6 DEF PartialExit, Order
    <3>2. "exit" \in {"entry", "exit", "close"} /\ "Ask" \in Side
      BY DEF Side
    <3> HIDE DEF qty, s
    <3> QED BY <2>1, <2>5, <2>6, <3>1, <3>2, SendOne
  <2>7. CASE ~(qty > 0)
    BY <1>1, <2>2, <2>7 DEF PartialExit
  <2> QED BY <2>6, <2>7
<1>3. CASE e.kind # "Fill"
  <2>1. CASE e.kind = "Heartbeat"
    BY <1>1, <2>1 DEF RiskEvent, RiskHeartbeat
  <2>2. CASE e.kind = "StateSync"
    BY <1>1, <2>2 DEF RiskEvent, RiskStateSync
  <2>3. CASE e.kind = "Reject"
    BY <1>1, <2>3 DEF RiskEvent, RiskReject
  <2>4. CASE e.kind \notin {"Fill", "Heartbeat", "StateSync", "Reject"}
    BY <1>1, <2>4 DEF RiskEvent, shared
  <2> QED BY <1>3, <2>1, <2>2, <2>3, <2>4
<1> QED BY <1>2, <1>3


-----------------------------------------------------------------------------
(* The channels. *)

\* The router keeps the channels within their capacity.
LEMMA RouteTypes ==
  ASSUME QueueTypes, NEW e \in TradeEvent, Route(e)
  PROVE  QueueTypes'
<1>1. ASSUME NEW queue \in Seq(TradeEvent), Len(queue) <= QueueCap
      PROVE  Offer(queue, e) \in Seq(TradeEvent) /\ Len(Offer(queue, e)) <= QueueCap
  <2>1. QueueCap \in Nat /\ Len(queue) \in Nat
    BY TradingAssumption
  <2>2. Append(queue, e) \in Seq(TradeEvent) /\ Len(Append(queue, e)) = Len(queue) + 1
    BY AppendProperties
  <2> QED BY <1>1, <2>1, <2>2 DEF Offer
<1>2. /\ fast_q \in Seq(TradeEvent) /\ Len(fast_q) <= QueueCap
      /\ risk_q \in Seq(TradeEvent) /\ Len(risk_q) <= QueueCap
  BY DEF QueueTypes
<1>3. fast_q' \in {fast_q, Offer(fast_q, e)} /\ risk_q' \in {risk_q, Offer(risk_q, e)}
  BY DEF Route
<1>4. fast_q' \in Seq(TradeEvent) /\ Len(fast_q') <= QueueCap
  BY <1>1, <1>2, <1>3
<1>5. risk_q' \in Seq(TradeEvent) /\ Len(risk_q') <= QueueCap
  BY <1>1, <1>2, <1>3
<1> QED BY <1>4, <1>5 DEF QueueTypes

\* An event that moves no account may be queued, dropped or not routed.
LEMMA OfferLeads ==
  ASSUME NEW queue \in Seq(TradeEvent), NEW e \in TradeEvent, e.kind # "Fill",
         NEW s, NEW a, NEW b \in Account, Leads(queue, s, a, b),
         e.kind = "StateSync" => Told(e.held, s) = PosOf(b),
         NEW q \in {queue, Offer(queue, e)}
  PROVE  Leads(q, s, a, b)
<1>1. Taken(b, e, s) = b
  BY DEF Taken
<1>2. Leads(Append(queue, e), s, a, b)
  BY <1>1, LeadsAppend
<1>3. q \in {queue, Append(queue, e)}
  BY DEF Offer
<1> QED BY <1>2, <1>3

\* The broker's position with its PnL is an account, with the position of the book.
LEMMA FinalType ==
  ASSUME BookTypes, NEW s \in Symbol, NEW r \in Int
  PROVE  Final(s, r) \in Account /\ PosOf(Final(s, r)) = book[s]
<1>1. book[s] \in Pos
  BY DEF BookTypes
<1> QED BY <1>1 DEF Final, Account, PosOf, Pos

\* The other events of the broker, and what a StateSync among them says.
LEMMA OtherEventTypes ==
  ASSUME BookTypes, NEW e \in OtherEvents
  PROVE  /\ e \in TradeEvent /\ e.kind # "Fill"
         /\ e.kind = "StateSync" => \A s \in Symbol : Told(e.held, s) = book[s]
<1>1. CASE e \in [kind: {"Tick"}, symbol: Symbol, price: Price]
                 \cup [kind: {"Halt", "Reject"}, symbol: Symbol]
                 \cup [kind: {"Heartbeat", "Reconnect"}]
  BY <1>1 DEF TradeEvent, SymbolEvent, PlainEvent
<1>2. CASE e = [kind |-> "StateSync", held |-> Restrict(book, Listed)]
  <2>1. Listed \subseteq Symbol /\ DOMAIN book = Symbol /\ \A s \in Symbol : book[s] \in Pos
    BY DEF Listed, BookTypes
  <2>2. e.held = [s \in Listed |-> book[s]] /\ e.kind = "StateSync"
    BY <1>2 DEF Restrict
  <2>3. e.held \in [Listed -> Pos]
    BY <2>1, <2>2
  <2>4. e.held \in Holdings
    BY <2>1, <2>3 DEF Holdings
  <2>5. e \in TradeEvent
    BY <1>2, <2>2, <2>4 DEF TradeEvent, SyncEvent
  <2>6. ASSUME NEW s \in Symbol PROVE Told(e.held, s) = book[s]
    <3>1. CASE s \in Listed
      BY <2>1, <2>2, <3>1 DEF Told, Pos
    <3>2. CASE s \notin Listed
      <4>1. book[s].qty = 0 /\ book[s].avg = 0
        BY <3>2 DEF Listed, BookTypes
      <4>2. Told(e.held, s) = [qty |-> 0, avg |-> 0]
        BY <2>2, <3>2 DEF Told
      <4> QED BY <2>1, <4>1, <4>2 DEF Pos
    <3> QED BY <3>1, <3>2
  <2> QED BY <2>2, <2>5, <2>6
<1> QED BY <1>1, <1>2 DEF OtherEvents


-----------------------------------------------------------------------------
(* The steps keep the invariant. *)

\* The broker's orders without one of them.
LEMMA RemoveTypes ==
  ASSUME NEW queue \in Seq(TradeOrder), NEW i \in DOMAIN queue
  PROVE  RemoveAt(queue, i) \in Seq(TradeOrder) /\ Len(RemoveAt(queue, i)) <= Len(queue)
<1> DEFINE N == Len(queue)
           p == SubSeq(queue, 1, i - 1)
           q == SubSeq(queue, i + 1, N)
<1>1. N \in Nat /\ i \in 1..N /\ \A n \in 1..N : queue[n] \in TradeOrder
  OBVIOUS
<1>2. p \in Seq(TradeOrder) /\ Len(p) = i - 1
  <2>1. i - 1 \in Int /\ 1 \in Int /\ \A n \in 1..(i - 1) : queue[n] \in TradeOrder
    BY <1>1
  <2>2. p \in Seq(TradeOrder) /\ Len(p) = IF 1 <= i - 1 THEN i - 1 - 1 + 1 ELSE 0
    BY <2>1, SubSeqProperties
  <2> QED BY <1>1, <2>2
<1>3. q \in Seq(TradeOrder) /\ Len(q) = N - i
  <2>1. i + 1 \in Int /\ N \in Int /\ \A n \in (i + 1)..N : queue[n] \in TradeOrder
    BY <1>1
  <2>2. q \in Seq(TradeOrder) /\ Len(q) = IF i + 1 <= N THEN N - (i + 1) + 1 ELSE 0
    BY <2>1, SubSeqProperties
  <2> QED BY <1>1, <2>2
<1>4. RemoveAt(queue, i) = p \o q
  BY DEF RemoveAt
<1> HIDE DEF p, q
<1>5. p \o q \in Seq(TradeOrder) /\ Len(p \o q) = Len(p) + Len(q)
  BY <1>2, <1>3, ConcatProperties
<1> QED BY <1>1, <1>2, <1>3, <1>4, <1>5

\* Steps that move neither a book nor a channel.
LEMMA BooksIdle ==
  ASSUME BooksFollow, UNCHANGED <<symbol_states, positions, book, fast_q, risk_q>>,
         diverged => diverged', fast_stopped => fast_stopped'
  PROVE  BooksFollow'
<1> SUFFICES ASSUME ~diverged' PROVE BooksFollow'
  BY DEF BooksFollow
<1>1. PICK R \in [Symbol -> Int] : \A s \in Symbol :
        /\ Leads(risk_q, s, positions[s], Final(s, R[s]))
        /\ ~fast_stopped => Leads(fast_q, s, FastAccount(s), Final(s, R[s]))
  BY DEF BooksFollow
<1>2. \A s \in Symbol :
        /\ Leads(risk_q', s, positions'[s], Final(s, R[s])')
        /\ ~fast_stopped' => Leads(fast_q', s, FastAccount(s)', Final(s, R[s])')
  BY <1>1 DEF Final, FastAccount
<1> QED BY <1>2 DEF BooksFollow

LEMMA ForwardInv ==
  ASSUME TradeInv, OmsForward
  PROVE  TradeInv'
<1> USE DEF TradeInv
<1>1. /\ orders # <<>> /\ orders' = Tail(orders)
      /\ \/ Len(working) < MaxWorking /\ working' = Append(working, Head(orders))
         \/ UNCHANGED working
      /\ UNCHANGED <<tracker, pnl_vars, fast_stopped, fast_q, risk_q, book, diverged>>
  BY DEF OmsForward, fast_vars, queues
<1>2. OrderTypes'
  <2>1. /\ Tail(orders) \in Seq(TradeOrder) /\ Len(Tail(orders)) = Len(orders) - 1
        /\ Head(orders) \in TradeOrder /\ Len(orders) \in Nat
    BY <1>1, HeadTailProperties DEF OrderTypes
  <2>2. orders' \in Seq(TradeOrder) /\ Len(orders') <= OrderCap
    BY <1>1, <2>1, RiskStateAssumption DEF OrderTypes
  <2>3. /\ Append(working, Head(orders)) \in Seq(TradeOrder)
        /\ Len(Append(working, Head(orders))) = Len(working) + 1 /\ Len(working) \in Nat
    BY <2>1, AppendProperties DEF OrderTypes
  <2>4. working' \in Seq(TradeOrder) /\ Len(working') <= MaxWorking
    <3>1. MaxWorking \in Nat
      BY TradingAssumption
    <3>2. CASE Len(working) < MaxWorking /\ working' = Append(working, Head(orders))
      BY <2>3, <3>1, <3>2
    <3>3. CASE UNCHANGED working
      BY <3>3 DEF OrderTypes
    <3> QED BY <1>1, <3>2, <3>3
  <2> QED BY <2>2, <2>4 DEF OrderTypes
<1>3. UNCHANGED <<symbol_states, global_realized_pnl, global_unrealized_pnl, positions,
                  global_realized, book, fast_q, risk_q>>
  BY <1>1 DEF tracker, pnl_vars
<1>4. FastTypes' /\ GlobalsAreSums'
  BY <1>3, SumsStay DEF FastTypes
<1>5. RiskTypes' /\ RiskSum'
  BY <1>1, RiskIdle
<1>6. BookTypes' /\ QueueTypes' /\ BooksFollow'
  BY <1>1, <1>3, BooksIdle DEF BookTypes, QueueTypes
<1> QED BY <1>2, <1>4, <1>5, <1>6


\* A fill that finds room in both channels is on its way to both tasks: the
\* final account of its symbol moves on, and both channels lead to it.
LEMMA FillFollows ==
  ASSUME TradeInv, NEW e \in FillEvent, Route(e),
         Len(fast_q) < QueueCap, Len(risk_q) < QueueCap, ~diverged,
         book' = [book EXCEPT ![e.symbol] = After(@, e.fill)],
         UNCHANGED <<symbol_states, positions, fast_stopped>>
  PROVE  BooksFollow'
<1> USE DEF TradeInv
<1> DEFINE s0 == e.symbol
           pnl == Booked(book[s0], e.fill)
<1>1. PICK R \in [Symbol -> Int] : \A s \in Symbol :
        /\ Leads(risk_q, s, positions[s], Final(s, R[s]))
        /\ ~fast_stopped => Leads(fast_q, s, FastAccount(s), Final(s, R[s]))
  BY DEF BooksFollow
<1>2. s0 \in Symbol /\ e \in TradeEvent /\ e.kind = "Fill" /\ e.fill \in AnyFill
  BY FillTypes DEF FillEvent, TradeEvent
<1>3. book \in [Symbol -> Pos]
  BY DEF BookTypes
<1>4. pnl \in Int /\ After(book[s0], e.fill) \in Pos
  BY <1>2, <1>3, FillYields
<1>5. PICK T \in [Symbol -> Int] :
        T[s0] = R[s0] + pnl /\ \A s \in Symbol : s # s0 => T[s] = R[s]
  <2> DEFINE t == [R EXCEPT ![s0] = @ + pnl]
  <2>1. t \in [Symbol -> Int] /\ t[s0] = R[s0] + pnl /\ \A s \in Symbol : s # s0 => t[s] = R[s]
    BY <1>2, <1>4
  <2> HIDE DEF t
  <2> QED BY <2>1
<1>6. fast_q' = Append(fast_q, e) /\ risk_q' = Append(risk_q, e)
  BY <1>2 DEF Route, Offer, ToFast, ToRisk
<1>7. ASSUME NEW s \in Symbol
      PROVE  /\ Taken(Final(s, R[s]), e, s) \in Account
             /\ Final(s, T[s])' = Taken(Final(s, R[s]), e, s)
  <2>1. Final(s, R[s]) \in Account /\ PosOf(Final(s, R[s])) = book[s]
    BY FinalType
  <2>2. Final(s, T[s])' = [qty |-> book'[s].qty, avg |-> book'[s].avg, realized |-> T[s]]
    BY DEF Final
  <2>3. CASE s = s0
    <3>1. book'[s] = After(book[s], e.fill) /\ T[s] = R[s] + pnl
      BY <1>2, <1>3, <1>5, <2>3
    <3>2. Taken(Final(s, R[s]), e, s) =
            [qty |-> After(book[s], e.fill).qty, avg |-> After(book[s], e.fill).avg,
             realized |-> Final(s, R[s]).realized + Booked(book[s], e.fill)]
      BY <1>2, <2>1, <2>3 DEF Taken
    <3>3. Final(s, R[s]).realized = R[s]
      BY DEF Final
    <3> QED BY <1>2, <2>1, <2>2, <2>3, <3>1, <3>2, <3>3, TakenType
  <2>4. CASE s # s0
    <3>1. book'[s] = book[s] /\ T[s] = R[s]
      BY <1>3, <1>5, <2>4
    <3> QED BY <2>1, <2>2, <2>4, <3>1 DEF Taken, Final
  <2> QED BY <2>3, <2>4
<1>8. ASSUME NEW s \in Symbol
      PROVE  /\ Leads(risk_q', s, positions'[s], Final(s, T[s])')
             /\ ~fast_stopped' => Leads(fast_q', s, FastAccount(s)', Final(s, T[s])')
  <2>1. fast_q \in Seq(TradeEvent) /\ risk_q \in Seq(TradeEvent) /\ e.kind # "StateSync"
    BY <1>2 DEF QueueTypes
  <2>2. Leads(Append(risk_q, e), s, positions[s], Taken(Final(s, R[s]), e, s))
    BY <1>1, <1>2, <1>7, <2>1, LeadsAppend
  <2>3. ~fast_stopped =>
          Leads(Append(fast_q, e), s, FastAccount(s), Taken(Final(s, R[s]), e, s))
    BY <1>1, <1>2, <1>7, <2>1, LeadsAppend
  <2>4. positions'[s] = positions[s] /\ FastAccount(s)' = FastAccount(s)
    BY DEF FastAccount
  <2> QED BY <1>6, <1>7, <2>2, <2>3, <2>4
<1> QED BY <1>5, <1>8 DEF BooksFollow

LEMMA FillInv ==
  ASSUME TradeInv, NEW i \in DOMAIN working, NEW size \in FillSize, NEW price \in Price,
         BrokerFill(i, size, price)
  PROVE  TradeInv'
<1> USE DEF TradeInv
<1> DEFINE order == working[i]
           fill == [side |-> order.side, size |-> size, price |-> price]
           e == [kind |-> "Fill", symbol |-> order.symbol, fill |-> fill]
<1>1. /\ size <= order.qty /\ Route(e)
      /\ book' = [book EXCEPT ![order.symbol] = After(@, fill)]
      /\ working' = IF size = order.qty THEN RemoveAt(working, i)
                    ELSE [working EXCEPT ![i].qty = @ - size]
      /\ diverged' = (diverged \/ Len(fast_q) >= QueueCap \/ Len(risk_q) >= QueueCap)
      /\ UNCHANGED tasks
  BY DEF BrokerFill
<1>2. order \in TradeOrder /\ working \in Seq(TradeOrder)
  BY DEF OrderTypes
<1>3. e \in FillEvent /\ e.symbol = order.symbol /\ e.fill = fill /\ order.symbol \in Symbol
  BY <1>2 DEF TradeOrder, FillEvent, Fill
<1>4. e \in TradeEvent
  BY <1>3 DEF TradeEvent
<1>5. UNCHANGED <<symbol_states, global_realized_pnl, global_unrealized_pnl, positions,
                  global_realized, fast_stopped, orders, tracker>>
  BY <1>1 DEF tasks, tracker, fast_vars, pnl_vars, shared
<1> HIDE DEF e, fill
<1>6. FastTypes' /\ GlobalsAreSums' /\ RiskTypes' /\ RiskSum'
  BY <1>5, SumsStay, RiskIdle DEF FastTypes
<1>7. QueueTypes'
  BY <1>1, <1>4, RouteTypes
<1>8. BookTypes'
  <2>1. fill \in AnyFill
    BY <1>3, FillTypes DEF FillEvent
  <2>2. book \in [Symbol -> Pos] /\ book[order.symbol] \in Pos
    BY <1>3 DEF BookTypes
  <2>3. /\ After(book[order.symbol], fill) \in Pos
        /\ After(book[order.symbol], fill).qty = 0 => After(book[order.symbol], fill).avg = 0
    BY <2>1, <2>2, FillYields
  <2> HIDE DEF order
  <2>4. /\ book' \in [Symbol -> Pos] /\ book'[order.symbol] = After(book[order.symbol], fill)
        /\ \A s \in Symbol : s # order.symbol => book'[s] = book[s]
    BY <1>1, <1>3, <2>2, <2>3
  <2> QED BY <2>3, <2>4 DEF BookTypes
<1>9. OrderTypes'
  <2>1. CASE size = order.qty
    <3>1. working' = RemoveAt(working, i)
      BY <1>1, <2>1
    <3>2. working' \in Seq(TradeOrder) /\ Len(working') <= Len(working)
      BY <1>2, <3>1, RemoveTypes
    <3>3. Len(working') \in Nat /\ Len(working) \in Nat /\ MaxWorking \in Nat
      BY <1>2, <3>2, TradingAssumption
    <3> QED BY <1>5, <3>2, <3>3 DEF OrderTypes
  <2>2. CASE size # order.qty
    <3>1. size \in Nat /\ order.qty \in Nat /\ size < order.qty
      BY <1>1, <1>2, <2>2, RiskTaskAssumption DEF TradeOrder
    <3>2. [order EXCEPT !.qty = @ - size] \in TradeOrder
      <4>1. order.qty - size \in Nat \ {0}
        BY <3>1
      <4> HIDE DEF order
      <4> QED BY <1>2, <4>1 DEF TradeOrder
    <3>3. working' = [working EXCEPT ![i] = [order EXCEPT !.qty = @ - size]]
      BY <1>1, <2>2
    <3>4. working' \in Seq(TradeOrder) /\ Len(working') = Len(working)
      BY <1>2, <3>2, <3>3
    <3> QED BY <1>5, <3>4 DEF OrderTypes
  <2> QED BY <2>1, <2>2
<1>10. BooksFollow'
  <2>1. CASE diverged'
    BY <2>1 DEF BooksFollow
  <2>2. CASE ~diverged'
    <3>1. ~diverged /\ Len(fast_q) < QueueCap /\ Len(risk_q) < QueueCap
      <4>1. Len(fast_q) \in Nat /\ Len(risk_q) \in Nat /\ QueueCap \in Nat
        BY TradingAssumption DEF QueueTypes
      <4>2. diverged' = (diverged \/ Len(fast_q) >= QueueCap \/ Len(risk_q) >= QueueCap)
        BY <1>1
      <4>3. ~diverged /\ ~(Len(fast_q) >= QueueCap) /\ ~(Len(risk_q) >= QueueCap)
        BY ONLY <2>2, <4>2, Zenon
      <4> QED BY <4>1, <4>3
    <3>2. book' = [book EXCEPT ![e.symbol] = After(@, e.fill)]
      BY <1>1, <1>3
    <3> QED BY <1>1, <1>3, <1>5, <3>1, <3>2, FillFollows
  <2> QED BY <2>1, <2>2
<1> QED BY <1>6, <1>7, <1>8, <1>9, <1>10


LEMMA ExpireInv ==
  ASSUME TradeInv, NEW i \in DOMAIN working, BrokerExpire(i)
  PROVE  TradeInv'
<1> USE DEF TradeInv
<1>1. working' = RemoveAt(working, i) /\ UNCHANGED <<tasks, queues, book, diverged>>
  BY DEF BrokerExpire
<1>2. UNCHANGED <<symbol_states, global_realized_pnl, global_unrealized_pnl, positions,
                  global_realized, fast_stopped, orders, tracker, fast_q, risk_q, book>>
  BY <1>1 DEF tasks, tracker, fast_vars, pnl_vars, shared, queues
<1>3. FastTypes' /\ GlobalsAreSums' /\ RiskTypes' /\ RiskSum'
  BY <1>2, SumsStay, RiskIdle DEF FastTypes
<1>4. OrderTypes'
  <2>1. working' \in Seq(TradeOrder) /\ Len(working') <= Len(working)
    BY <1>1, RemoveTypes DEF OrderTypes
  <2>2. Len(working') \in Nat /\ Len(working) \in Nat /\ MaxWorking \in Nat
    BY <2>1, TradingAssumption DEF OrderTypes
  <2> QED BY <1>2, <2>1, <2>2 DEF OrderTypes
<1>5. BookTypes' /\ QueueTypes' /\ BooksFollow'
  BY <1>1, <1>2, BooksIdle DEF BookTypes, QueueTypes
<1> QED BY <1>3, <1>4, <1>5

LEMMA EventInv ==
  ASSUME TradeInv, NEW e \in OtherEvents, BrokerEvent(e)
  PROVE  TradeInv'
<1> USE DEF TradeInv
<1>1. Route(e) /\ UNCHANGED <<tasks, working, book, diverged>>
  BY DEF BrokerEvent
<1>2. UNCHANGED <<symbol_states, global_realized_pnl, global_unrealized_pnl, positions,
                  global_realized, fast_stopped, orders, tracker, working, book, diverged>>
  BY <1>1 DEF tasks, tracker, fast_vars, pnl_vars, shared
<1>3. /\ e \in TradeEvent /\ e.kind # "Fill"
      /\ e.kind = "StateSync" => \A s \in Symbol : Told(e.held, s) = book[s]
  BY OtherEventTypes
<1>4. FastTypes' /\ GlobalsAreSums' /\ RiskTypes' /\ RiskSum'
  BY <1>2, SumsStay, RiskIdle DEF FastTypes
<1>5. BookTypes' /\ OrderTypes'
  BY <1>2 DEF BookTypes, OrderTypes
<1>6. QueueTypes'
  BY <1>1, <1>3, RouteTypes
<1>7. BooksFollow'
  <2> SUFFICES ASSUME ~diverged' PROVE BooksFollow'
    BY DEF BooksFollow
  <2>1. ~diverged
    BY <1>2
  <2>2. PICK R \in [Symbol -> Int] : \A s \in Symbol :
          /\ Leads(risk_q, s, positions[s], Final(s, R[s]))
          /\ ~fast_stopped => Leads(fast_q, s, FastAccount(s), Final(s, R[s]))
    BY <2>1 DEF BooksFollow
  <2>3. fast_q' \in {fast_q, Offer(fast_q, e)} /\ risk_q' \in {risk_q, Offer(risk_q, e)}
    BY <1>1 DEF Route
  <2>4. ASSUME NEW s \in Symbol
        PROVE  /\ Leads(risk_q', s, positions[s], Final(s, R[s]))
               /\ ~fast_stopped => Leads(fast_q', s, FastAccount(s), Final(s, R[s]))
    <3>1. Final(s, R[s]) \in Account /\ PosOf(Final(s, R[s])) = book[s]
      BY FinalType
    <3>2. fast_q \in Seq(TradeEvent) /\ risk_q \in Seq(TradeEvent)
      BY DEF QueueTypes
    <3>3. e.kind = "StateSync" => Told(e.held, s) = PosOf(Final(s, R[s]))
      BY <1>3, <3>1
    <3>4. Leads(risk_q', s, positions[s], Final(s, R[s]))
      BY <1>3, <2>2, <2>3, <3>1, <3>2, <3>3, OfferLeads
    <3>5. ~fast_stopped => Leads(fast_q', s, FastAccount(s), Final(s, R[s]))
      BY <1>3, <2>2, <2>3, <3>1, <3>2, <3>3, OfferLeads
    <3> QED BY <3>4, <3>5
  <2>5. \A s \in Symbol :
          /\ Leads(risk_q', s, positions'[s], Final(s, R[s])')
          /\ ~fast_stopped' => Leads(fast_q', s, FastAccount(s)', Final(s, R[s])')
    BY <1>2, <2>4 DEF Final, FastAccount
  <2> QED BY <2>5 DEF BooksFollow
<1> QED BY <1>4, <1>5, <1>6, <1>7

\* A channel without its first event.
LEMMA TailTypes ==
  ASSUME NEW queue \in Seq(TradeEvent), Len(queue) <= QueueCap, queue # <<>>
  PROVE  /\ Tail(queue) \in Seq(TradeEvent) /\ Len(Tail(queue)) <= QueueCap
         /\ Head(queue) \in TradeEvent
<1>1. /\ Tail(queue) \in Seq(TradeEvent) /\ Len(Tail(queue)) = Len(queue) - 1
      /\ Head(queue) \in TradeEvent /\ Len(queue) \in Nat
  BY HeadTailProperties
<1>2. QueueCap \in Nat
  BY TradingAssumption
<1> QED BY <1>1, <1>2

LEMMA FastInv ==
  ASSUME TradeInv, FastStep
  PROVE  TradeInv'
<1> USE DEF TradeInv
<1> DEFINE e == Head(fast_q)
<1>1. /\ fast_q # <<>> /\ fast_q' = Tail(fast_q)
      /\ UNCHANGED <<tracker, risk_q, working, book>>
  BY DEF FastStep, broker
<1>2. /\ fast_q' \in Seq(TradeEvent) /\ Len(fast_q') <= QueueCap /\ e \in TradeEvent
      /\ fast_q \in Seq(TradeEvent)
  BY <1>1, TailTypes DEF QueueTypes
<1>3. \/ FastTick(e)
      \/ FastOther(e)
      \/ CloseAll(IF e.kind = "Halt" THEN {e.symbol} ELSE {}) /\ UNCHANGED diverged
  BY DEF FastStep
<1>4. /\ FastTypes' /\ GlobalsAreSums' /\ ~fast_stopped
      /\ diverged => diverged'
      /\ ~diverged' /\ ~fast_stopped' =>
           \A r \in Symbol :
             (e.kind = "StateSync" => Told(e.held, r) = PosOf(FastAccount(r)))
               => FastAccount(r)' = Taken(FastAccount(r), e, r)
  BY <1>2, <1>3, FastEventBooks
<1>5. OrderTypes'
  <2>1. orders' \in Seq(TradeOrder) /\ Len(orders') <= OrderCap
    BY <1>2, <1>3, FastOrders DEF OrderTypes
  <2> QED BY <1>1, <2>1 DEF OrderTypes
<1>6. RiskTypes' /\ RiskSum' /\ UNCHANGED positions
  BY <1>1, RiskIdle
<1>7. BookTypes' /\ QueueTypes'
  BY <1>1, <1>2 DEF BookTypes, QueueTypes
<1> HIDE DEF e
<1>8. BooksFollow'
  <2> SUFFICES ASSUME ~diverged' PROVE BooksFollow'
    BY DEF BooksFollow
  <2>1. PICK R \in [Symbol -> Int] : \A s \in Symbol :
          /\ Leads(risk_q, s, positions[s], Final(s, R[s]))
          /\ ~fast_stopped => Leads(fast_q, s, FastAccount(s), Final(s, R[s]))
    BY <1>4 DEF BooksFollow
  <2>2. \A s \in Symbol : Final(s, R[s])' = Final(s, R[s])
    BY <1>1 DEF Final
  <2>3. ASSUME NEW s \in Symbol, ~fast_stopped'
        PROVE  Leads(fast_q', s, FastAccount(s)', Final(s, R[s]))
    <3>1. Leads(fast_q, s, FastAccount(s), Final(s, R[s]))
      BY <1>4, <2>1
    <3>2. /\ Leads(fast_q', s, Taken(FastAccount(s), e, s), Final(s, R[s]))
          /\ e.kind = "StateSync" => Told(e.held, s) = PosOf(FastAccount(s))
      BY <1>1, <1>2, <3>1, LeadsPopped DEF e
    <3>3. FastAccount(s)' = Taken(FastAccount(s), e, s)
      BY <1>4, <2>3, <3>2
    <3> QED BY <3>2, <3>3
  <2>4. \A s \in Symbol :
          /\ Leads(risk_q', s, positions'[s], Final(s, R[s])')
          /\ ~fast_stopped' => Leads(fast_q', s, FastAccount(s)', Final(s, R[s])')
    BY <1>1, <1>6, <2>1, <2>2, <2>3
  <2> QED BY <2>4 DEF BooksFollow
<1> QED BY <1>4, <1>5, <1>6, <1>7, <1>8

LEMMA RiskEventInv ==
  ASSUME TradeInv, RiskStep
  PROVE  TradeInv'
<1> USE DEF TradeInv
<1> DEFINE e == Head(risk_q)
<1>1. /\ risk_q # <<>> /\ risk_q' = Tail(risk_q)
      /\ UNCHANGED <<fast_vars, fast_q, working, book, diverged>>
  BY DEF RiskStep, broker
<1>2. /\ risk_q' \in Seq(TradeEvent) /\ Len(risk_q') <= QueueCap /\ e \in TradeEvent
      /\ risk_q \in Seq(TradeEvent)
  BY <1>1, TailTypes DEF QueueTypes
<1>3. RiskEvent(e)
  BY DEF RiskStep, RiskEvent
<1>4. UNCHANGED <<symbol_states, global_realized_pnl, global_unrealized_pnl, fast_stopped>>
  BY <1>1 DEF fast_vars, pnl_vars
<1>5. /\ RiskTypes' /\ RiskSum'
      /\ \A r \in Symbol : positions'[r] = Taken(positions[r], e, r)
  BY <1>2, <1>3, RiskEventBooks
<1>6. OrderTypes'
  <2>1. orders' \in Seq(TradeOrder) /\ Len(orders') <= OrderCap
    BY <1>2, <1>3, RiskOrders DEF OrderTypes
  <2> QED BY <1>1, <2>1 DEF OrderTypes
<1>7. FastTypes' /\ GlobalsAreSums'
  BY <1>4, SumsStay DEF FastTypes
<1>8. BookTypes' /\ QueueTypes'
  BY <1>1, <1>2 DEF BookTypes, QueueTypes
<1> HIDE DEF e
<1>9. BooksFollow'
  <2> SUFFICES ASSUME ~diverged' PROVE BooksFollow'
    BY DEF BooksFollow
  <2>1. PICK R \in [Symbol -> Int] : \A s \in Symbol :
          /\ Leads(risk_q, s, positions[s], Final(s, R[s]))
          /\ ~fast_stopped => Leads(fast_q, s, FastAccount(s), Final(s, R[s]))
    BY <1>1 DEF BooksFollow
  <2>2. \A s \in Symbol : Leads(risk_q', s, positions'[s], Final(s, R[s]))
    BY <1>1, <1>2, <1>5, <2>1, LeadsPopped DEF e
  <2>3. \A s \in Symbol :
          /\ Leads(risk_q', s, positions'[s], Final(s, R[s])')
          /\ ~fast_stopped' => Leads(fast_q', s, FastAccount(s)', Final(s, R[s])')
    BY <1>1, <1>4, <2>1, <2>2 DEF Final, FastAccount
  <2> QED BY <2>3 DEF BooksFollow
<1> QED BY <1>5, <1>6, <1>7, <1>8, <1>9


LEMMA StopInv ==
  ASSUME TradeInv, FastStop
  PROVE  TradeInv'
<1> USE DEF TradeInv
<1>1. /\ fast_stopped' = TRUE /\ UNCHANGED <<shared, pnl_vars, tracker, queues, broker, diverged>>
  BY DEF FastStop, FastShutdown
<1>2. UNCHANGED <<symbol_states, global_realized_pnl, global_unrealized_pnl, positions,
                  global_realized, orders, working, fast_q, risk_q, book>>
  BY <1>1 DEF tracker, pnl_vars, shared, queues, broker
<1>3. FastTypes' /\ GlobalsAreSums' /\ RiskTypes' /\ RiskSum'
  BY <1>1, <1>2, SumsStay, RiskIdle DEF FastTypes
<1>4. BookTypes' /\ OrderTypes' /\ QueueTypes' /\ BooksFollow'
  BY <1>1, <1>2, BooksIdle DEF BookTypes, OrderTypes, QueueTypes
<1> QED BY <1>3, <1>4

\* A process that starts has no position, no order and nothing in its channels.
Fresh ==
  /\ symbol_states = [s \in Symbol |-> NewState]
  /\ global_realized_pnl = 0 /\ global_unrealized_pnl = 0
  /\ positions = [s \in Symbol |-> [qty |-> 0, avg |-> 0, realized |-> 0]]
  /\ global_realized = 0
  /\ fast_q = <<>> /\ risk_q = <<>>

FreshTypes == FastTypes /\ GlobalsAreSums /\ RiskTypes /\ RiskSum /\ QueueTypes

LEMMA FreshState == Fresh => FreshTypes
<1> SUFFICES ASSUME Fresh PROVE FreshTypes
  OBVIOUS
<1> USE DEF Fresh
<1>1. FastTypes /\ RiskTypes
  BY DEF FastTypes, RiskTypes, NewState, SymbolState, Account
<1>2. QueueTypes
  BY TradingAssumption DEF QueueTypes
<1>3. ASSUME NEW f, \A s \in Symbol : f[s] = 0, DOMAIN f = Symbol
      PROVE  SumFunction(f) = 0
  BY <1>3, RiskStateAssumption, SumZero DEF SumFunction
<1>4. GlobalsAreSums
  <2> DEFINE f == [s \in Symbol |-> symbol_states[s].realized_pnl]
             g == [s \in Symbol |-> symbol_states[s].unrealized_pnl]
  <2>1. \A s \in Symbol : f[s] = 0 /\ g[s] = 0
    BY DEF NewState
  <2>2. DOMAIN f = Symbol /\ DOMAIN g = Symbol
    OBVIOUS
  <2> HIDE DEF f, g
  <2>3. SumFunction(f) = 0 /\ SumFunction(g) = 0
    BY <1>3, <2>1, <2>2
  <2> QED BY <2>3 DEF GlobalsAreSums, f, g
<1>5. RiskSum
  <2> DEFINE f == [s \in Symbol |-> positions[s].realized]
  <2>1. DOMAIN f = Symbol /\ \A s \in Symbol : f[s] = 0
    OBVIOUS
  <2> HIDE DEF f
  <2>2. SumFunction(f) = 0
    BY <1>3, <2>1
  <2> QED BY <2>2 DEF RiskSum, f
<1> QED BY <1>1, <1>2, <1>4, <1>5 DEF FreshTypes

LEMMA RestartInv ==
  ASSUME TradeInv, Restart
  PROVE  TradeInv'
<1> USE DEF TradeInv
<1>1. /\ symbol_states' = [s \in Symbol |-> NewState]
      /\ global_realized_pnl' = 0 /\ global_unrealized_pnl' = 0
      /\ positions' = [s \in Symbol |-> [qty |-> 0, avg |-> 0, realized |-> 0]]
      /\ global_realized' = 0
      /\ fast_q' = <<>> /\ risk_q' = <<>> /\ orders' = <<>> /\ diverged' = TRUE
      /\ UNCHANGED <<working, book>>
  BY DEF Restart
<1>2. FastTypes' /\ GlobalsAreSums' /\ RiskTypes' /\ RiskSum' /\ QueueTypes'
  <2>1. Fresh'
    BY <1>1 DEF Fresh
  <2>2. FreshTypes'
    BY <2>1, FreshState, PTL
  <2> QED BY <2>2 DEF FreshTypes
<1>3. OrderTypes'
  BY <1>1, RiskStateAssumption DEF OrderTypes
<1>4. BookTypes' /\ BooksFollow'
  BY <1>1 DEF BookTypes, BooksFollow
<1> QED BY <1>2, <1>3, <1>4

LEMMA TradingStart == TradingInit => TradeInv
<1> SUFFICES ASSUME TradingInit PROVE TradeInv
  OBVIOUS
<1>1. /\ symbol_states = [s \in Symbol |-> NewState]
      /\ global_realized_pnl = 0 /\ global_unrealized_pnl = 0
      /\ positions = [s \in Symbol |-> [qty |-> 0, avg |-> 0, realized |-> 0]]
      /\ global_realized = 0
      /\ fast_q = <<>> /\ risk_q = <<>> /\ orders = <<>> /\ working = <<>>
      /\ book = [s \in Symbol |-> [qty |-> 0, avg |-> 0]]
  BY DEF TradingInit, RiskInit, RiskStateInit, FastInit
<1>2. FastTypes /\ GlobalsAreSums /\ RiskTypes /\ RiskSum /\ QueueTypes
  BY <1>1, FreshState DEF Fresh, FreshTypes
<1>3. OrderTypes /\ BookTypes
  BY <1>1, RiskStateAssumption, TradingAssumption DEF OrderTypes, BookTypes, Pos
<1>4. BooksFollow
  <2> DEFINE zero == [qty |-> 0, avg |-> 0, realized |-> 0]
             R == [s \in Symbol |-> 0]
  <2>1. zero \in Account /\ R \in [Symbol -> Int]
    BY DEF Account
  <2>2. \A s \in Symbol : positions[s] = zero /\ FastAccount(s) = zero /\ Final(s, R[s]) = zero
    BY <1>1 DEF FastAccount, NewState, Final
  <2>3. \A s \in Symbol : Leads(<<>>, s, zero, zero)
    BY <2>1, LeadsEmpty
  <2> HIDE DEF zero
  <2>4. \A s \in Symbol :
          /\ Leads(risk_q, s, positions[s], Final(s, R[s]))
          /\ ~fast_stopped => Leads(fast_q, s, FastAccount(s), Final(s, R[s]))
    BY <1>1, <2>2, <2>3
  <2> QED BY <2>1, <2>4 DEF BooksFollow
<1> QED BY <1>2, <1>3, <1>4 DEF TradeInv

LEMMA TradingStep == TradeInv /\ [TradingNext]_tvars => TradeInv'
<1> SUFFICES ASSUME TradeInv, [TradingNext]_tvars PROVE TradeInv'
  OBVIOUS
<1>1. CASE OmsForward
  BY <1>1, ForwardInv
<1>2. CASE Broker
  BY <1>2, FillInv, ExpireInv, EventInv DEF Broker
<1>3. CASE FastStep
  BY <1>3, FastInv
<1>4. CASE FastStop
  BY <1>4, StopInv
<1>5. CASE RiskStep
  BY <1>5, RiskEventInv
<1>6. CASE Restart
  BY <1>6, RestartInv
<1>7. CASE UNCHANGED tvars
  <2> USE DEF TradeInv
  <2>1. UNCHANGED <<symbol_states, global_realized_pnl, global_unrealized_pnl, positions, tracker,
                    fast_stopped, orders, working, fast_q, risk_q, book, diverged>>
    BY <1>7 DEF tvars, shared, tracker, fast_vars, pnl_vars, queues, broker
  <2>2. FastTypes' /\ GlobalsAreSums' /\ RiskTypes' /\ RiskSum'
    BY <2>1, SumsStay, RiskIdle DEF FastTypes
  <2>3. BookTypes' /\ OrderTypes' /\ QueueTypes' /\ BooksFollow'
    BY <2>1, BooksIdle DEF BookTypes, OrderTypes, QueueTypes
  <2> QED BY <2>2, <2>3
<1> QED BY <1>1, <1>2, <1>3, <1>4, <1>5, <1>6, <1>7 DEF TradingNext

-----------------------------------------------------------------------------
(* The theorems of the trading loop. *)

\* The inductive invariant of the trading loop: types, the globals as sums, and
\* the channels that lead from each task's accounts to those of the broker.
THEOREM TradingInvariant == TradingSpec => []TradeInv
BY TradingStart, TradingStep, PTL DEF TradingSpec

\* The state of the trading loop has its types: channels within their capacity,
\* no order of zero shares at the broker.
THEOREM TradingTypeCorrect == TradingSpec => []TradingTypeOK
<1>1. TradeInv => TradingTypeOK
  <2> SUFFICES ASSUME TradeInv PROVE TradingTypeOK
    OBVIOUS
  <2>1. \A s \in Symbol : positions[s].qty \in Int /\ symbol_states[s].position \in Int
    BY DEF TradeInv, FastTypes, RiskTypes, SymbolState, Account
  <2>2. \A i \in DOMAIN working : working[i].qty > 0
    <3>1. \A i \in DOMAIN working : working[i] \in TradeOrder
      BY DEF TradeInv, OrderTypes
    <3> QED BY <3>1 DEF TradeOrder
  <2> QED BY <2>1, <2>2 DEF TradeInv, OrderTypes, QueueTypes, TradingTypeOK
<1> QED BY <1>1, TradingInvariant, PTL

\* The globals of the FastLoop, kept by differences (process_tick, process_fill and
\* the StateSync branch of on_event), are the sums over the symbols.
THEOREM GlobalsAlwaysSums == TradingSpec => []GlobalsAreSums
<1>1. TradeInv => GlobalsAreSums
  BY DEF TradeInv
<1> QED BY <1>1, TradingInvariant, PTL

\* The trackers of the two tasks differ from the broker's book by the fills in
\* their channels and by nothing else, until a fill is dropped or skipped.
THEOREM TrackersAlwaysFollow == TradingSpec => []TrackersFollowBook
<1>1. TradeInv => TrackersFollowBook
  <2> SUFFICES ASSUME TradeInv, ~diverged, ~fast_stopped, NEW s \in Symbol
               PROVE  /\ symbol_states[s].position + Pending(fast_q, s) = book[s].qty
                      /\ positions[s].qty + Pending(risk_q, s) = book[s].qty
    BY DEF TrackersFollowBook
  <2>1. PICK r : /\ Leads(risk_q, s, positions[s], Final(s, r))
                 /\ Leads(fast_q, s, FastAccount(s), Final(s, r))
    BY DEF TradeInv, BooksFollow
  <2>2. fast_q \in Seq(TradeEvent) /\ risk_q \in Seq(TradeEvent)
    BY DEF TradeInv, QueueTypes
  <2>3. FastAccount(s).qty + Pending(fast_q, s) = Final(s, r).qty
    BY <2>1, <2>2, LeadsPending
  <2>4. positions[s].qty + Pending(risk_q, s) = Final(s, r).qty
    BY <2>1, <2>2, LeadsPending
  <2> QED BY <2>3, <2>4 DEF FastAccount, Final
<1> QED BY <1>1, TradingInvariant, PTL

\* Two tasks that book every fill for themselves agree on costs and realized PnL
\* once both have seen every fill, whatever fell between the fills.
THEOREM TrackersAlwaysAgree == TradingSpec => []TrackersAgree
<1>1. TradeInv => TrackersAgree
  <2> SUFFICES ASSUME TradeInv, ~diverged, ~fast_stopped,
                      \A i \in DOMAIN fast_q : fast_q[i].kind # "Fill",
                      \A i \in DOMAIN risk_q : risk_q[i].kind # "Fill"
               PROVE  /\ global_realized = global_realized_pnl
                      /\ \A s \in Symbol :
                           /\ positions[s].avg = symbol_states[s].avg_cost
                           /\ positions[s].realized = symbol_states[s].realized_pnl
    BY DEF TrackersAgree
  <2>1. ASSUME NEW s \in Symbol PROVE positions[s] = FastAccount(s)
    <3>1. PICK r : /\ Leads(risk_q, s, positions[s], Final(s, r))
                   /\ Leads(fast_q, s, FastAccount(s), Final(s, r))
      BY DEF TradeInv, BooksFollow
    <3>2. fast_q \in Seq(TradeEvent) /\ risk_q \in Seq(TradeEvent)
      BY DEF TradeInv, QueueTypes
    <3>3. FastAccount(s) = Final(s, r)
      BY <3>1, <3>2, LeadsNowhere
    <3>4. positions[s] = Final(s, r)
      BY <3>1, <3>2, LeadsNowhere
    <3> QED BY <3>3, <3>4
  <2>2. ASSUME NEW s \in Symbol
        PROVE  /\ positions[s].avg = symbol_states[s].avg_cost
               /\ positions[s].realized = symbol_states[s].realized_pnl
    <3>1. positions[s] = [qty |-> symbol_states[s].position, avg |-> symbol_states[s].avg_cost,
                          realized |-> symbol_states[s].realized_pnl]
      BY <2>1 DEF FastAccount
    <3> QED BY <3>1
  <2>3. [s \in Symbol |-> positions[s].realized] = [s \in Symbol |-> symbol_states[s].realized_pnl]
    BY <2>2
  <2> QED BY <2>2, <2>3 DEF TradeInv, GlobalsAreSums, RiskSum
<1> QED BY <1>1, TradingInvariant, PTL
=============================================================================
