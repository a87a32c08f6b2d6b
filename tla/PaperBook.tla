----------------------------- MODULE PaperBook -----------------------------
(***************************************************************************)
(* The simulated book (backend/app/engines/paper_book.py): what an order   *)
(* would have done against a quote, and what a fill changes in a position, *)
(* the cash and the realised result.  Pure operators, on the exact         *)
(* arithmetic of TradingRisk.                                              *)
(***************************************************************************)
EXTENDS TradingRisk

Quote         == [bid : Int, ask : Int]
PositionState == [quantity : Nat, average : Nat]
EmptyPosition == [quantity |-> 0, average |-> 0]

\* The middle of the book, to the nearest cent.
MidCents(quote) == HalfUp(quote.bid + quote.ask, 2)

\* A price moved by bps basis points, to the nearest cent.
ApplyBps(price, bps) == HalfUp(price * (BpsWhole + bps), BpsWhole)

-----------------------------------------------------------------------------

NotFilled(state) == [state |-> state, quantity |-> 0, price |-> 0, cost |-> 0]

\* A mutant: the two sides of the book are swapped.
ExecutedSwapped(side, quote, slippage) ==
  IF side = "buy" THEN ApplyBps(quote.bid, slippage)
                  ELSE ApplyBps(quote.ask, -slippage)

\* Slippage works against the order, on top of the touch it crosses to.
Executed(side, quote, slippage) ==
  IF side = "buy" THEN ApplyBps(quote.ask, slippage)
                  ELSE ApplyBps(quote.bid, -slippage)

Marketable(side, executed, limit) ==
  IF side = "buy" THEN executed <= limit ELSE executed >= limit

SimulateFill(side, quantity, order_type, quote, slippage, limit) ==
  LET touched  == Executed(side, quote, slippage)
      executed == IF order_type # "limit" THEN touched
                  ELSE IF side = "buy" THEN LeastOf(touched, limit)
                                       ELSE GreatestOf(touched, limit)
      perUnit  == IF side = "buy" THEN executed - MidCents(quote)
                                  ELSE MidCents(quote) - executed
  IN  IF quantity <= 0 \/ quote.bid <= 0 \/ quote.ask <= 0
      THEN NotFilled("rejected")
      ELSE IF order_type = "limit" /\ limit = NoLimit THEN NotFilled("rejected")
      ELSE IF order_type = "limit" /\ ~Marketable(side, touched, limit)
      THEN NotFilled("pending")
      ELSE [ state |-> "filled", quantity |-> quantity, price |-> executed,
             cost  |-> ValueCents(quantity, GreatestOf(perUnit, 0)) ]

-----------------------------------------------------------------------------
(* A fill and everything it changes, together.                             *)

\* A mutant: the mean of two prices, whatever was bought at each.
BoughtAverageUnweighted(position, fill) ==
  IF position.quantity = 0 THEN fill.price
  ELSE HalfUp(position.average + fill.price, 2)

BoughtAverage(position, fill) ==
  HalfUp((ValueCents(position.quantity, position.average)
            + ValueCents(fill.quantity, fill.price)) * Unit,
         position.quantity + fill.quantity)

Bought(position, cash, fill) ==
  [ position |-> [ quantity |-> position.quantity + fill.quantity,
                   average  |-> BoughtAverage(position, fill) ],
    cash     |-> cash - ValueCents(fill.quantity, fill.price),
    realised |-> 0 ]

\* A mutant: a partial sale restates the average of what is left at the price
\* of the sale.
SoldRestatingAverage(position, cash, fill) ==
  LET gross == ValueCents(fill.quantity, fill.price)
      left  == position.quantity - fill.quantity
  IN [ position |-> [ quantity |-> left,
                      average  |-> IF left = 0 THEN 0 ELSE fill.price ],
       cash     |-> cash + gross,
       realised |-> gross - ValueCents(fill.quantity, position.average) ]

\* A mutant: a closed position keeps its average price.
SoldKeepingAverage(position, cash, fill) ==
  LET gross == ValueCents(fill.quantity, fill.price)
  IN [ position |-> [position EXCEPT !.quantity = @ - fill.quantity],
       cash     |-> cash + gross,
       realised |-> gross - ValueCents(fill.quantity, position.average) ]

\* Selling does not change what the remaining units cost; a closed position
\* keeps no memory of its price.
Sold(position, cash, fill) ==
  LET gross == ValueCents(fill.quantity, fill.price)
      left  == position.quantity - fill.quantity
  IN [ position |-> [ quantity |-> left,
                      average  |-> IF left = 0 THEN 0 ELSE position.average ],
       cash     |-> cash + gross,
       realised |-> gross - ValueCents(fill.quantity, position.average) ]

\* The code raises ValueError where this is false.
Covered(position, side, fill) ==
  side = "sell" => fill.quantity <= position.quantity

\* Meaningful where the fill is filled and Covered.
ApplyFill(position, cash, side, fill) ==
  IF side = "buy" THEN Bought(position, cash, fill) ELSE Sold(position, cash, fill)
=============================================================================
