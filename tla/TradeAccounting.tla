---------------------------- MODULE TradeAccounting ----------------------------
(***************************************************************************)
(* The arithmetic of core_types/src/trade_accounting.rs, and what a fill   *)
(* does to a position.  The latter is written twice in the code, in        *)
(* TapeEngine::process_fill and in the Risk task, "(Same as TapeEngine)";  *)
(* both are the operators After and Booked.  A position is the signed      *)
(* quantity and its average cost; money is counted in whole units.         *)
(***************************************************************************)
EXTENDS Integers

Side == {"Bid", "Ask"}

Magnitude(n) == IF n < 0 THEN -n ELSE n

\* The signed size of a fill: a Bid fill buys.
Signed(fill) == IF fill.side = "Bid" THEN fill.size ELSE -fill.size

SameSide(qty, n) == (qty > 0 /\ n > 0) \/ (qty < 0 /\ n < 0)

\* compute_weighted_avg_cost
WeightedAvgCost(qty, avg, new_qty, price) ==
  IF qty = 0 THEN price ELSE (qty * avg + new_qty * price) \div (qty + new_qty)

\* qty_to_close: a fill closes no more than there is.
Closes(qty, fill) ==
  IF fill.size <= Magnitude(qty) THEN fill.size ELSE Magnitude(qty)

\* compute_realized_pnl: zero unless the fill is on the closing side.
RealizedPnl(qty, avg, fill) ==
  CASE qty > 0 /\ fill.side = "Ask" -> (fill.price - avg) * Closes(qty, fill)
    [] qty < 0 /\ fill.side = "Bid" -> (avg - fill.price) * Closes(qty, fill)
    [] OTHER -> 0

\* compute_unrealized_pnl
UnrealizedPnl(qty, avg, price) ==
  CASE qty = 0 -> 0
    [] qty > 0 -> (price - avg) * qty
    [] OTHER   -> (avg - price) * Magnitude(qty)

-----------------------------------------------------------------------------

Flips(qty, after) == (qty > 0 /\ after < 0) \/ (qty < 0 /\ after > 0)

\* Mutant of AvgAfter: a flipped position keeps the old average.
AvgAfterFlipKept(pos, fill) ==
  LET after == pos.qty + Signed(fill)
  IN CASE pos.qty = 0 -> fill.price
       [] SameSide(pos.qty, Signed(fill)) ->
            WeightedAvgCost(Magnitude(pos.qty), pos.avg, fill.size, fill.price)
       [] after = 0 -> 0
       [] OTHER -> pos.avg

\* The average cost after a fill: opened, increased, closed, flipped or reduced.
AvgAfter(pos, fill) ==
  LET after == pos.qty + Signed(fill)
  IN CASE pos.qty = 0 -> fill.price
       [] SameSide(pos.qty, Signed(fill)) ->
            WeightedAvgCost(Magnitude(pos.qty), pos.avg, fill.size, fill.price)
       [] after = 0 -> 0
       [] Flips(pos.qty, after) -> fill.price
       [] OTHER -> pos.avg

\* The position after a fill.
After(pos, fill) == [qty |-> pos.qty + Signed(fill), avg |-> AvgAfter(pos, fill)]

\* The PnL a fill realizes: opening and increasing fills realize nothing.
Booked(pos, fill) ==
  IF pos.qty = 0 \/ SameSide(pos.qty, Signed(fill)) THEN 0
  ELSE RealizedPnl(pos.qty, pos.avg, fill)

\* Bound: the average of an increased position is a whole number of units.
Exact(pos, fill) ==
  SameSide(pos.qty, Signed(fill)) =>
    (Magnitude(pos.qty) * pos.avg + fill.size * fill.price)
       % (Magnitude(pos.qty) + fill.size) = 0

\* What a position has cost: the money it stands for in the books.
Basis(pos) == pos.qty * pos.avg

\* What a fill pays into the account.
CashOf(fill) == -(Signed(fill) * fill.price)
=============================================================================
