-------------------------- MODULE MCMandateReview --------------------------
(* MandateReview on small figures: four lots to the unit, a price that     *)
(* divides no ceiling evenly, so that every rounding direction matters.    *)
EXTENDS MandateReview

CONSTANTS stock, coin

MCSymbol == {stock, coin}

BaseMandate ==
  [ max_position |-> 5, max_exposure |-> 6, max_order_notional |-> 4,
    max_daily_loss |-> 2, max_drawdown_bps |-> 1500, max_orders_per_day |-> 2,
    min_cash_buffer |-> 1, min_order_notional |-> 1,
    allowed_symbols |-> {stock}, allowed_sides |-> Sides,
    allowed_order_types |-> {"market"},
    allow_short |-> FALSE, allow_leverage |-> FALSE ]

MCMandates ==
  { [BaseMandate EXCEPT !.allow_leverage = leverage, !.allow_short = short] :
      leverage \in BOOLEAN, short \in BOOLEAN }

MCReach ==
  [ max_position |-> 4..5, max_exposure |-> 4..6, max_order_notional |-> 2..4,
    max_daily_loss |-> 2..3, max_orders_per_day |-> 1..2,
    min_cash_buffer |-> 0..1, min_order_notional |-> 0..2 ]

MCSituations ==
  { [ quantity |-> q, cash |-> cash, elsewhere |-> 1, fallen |-> fallen,
      realised_today |-> pnl, orders_today |-> 1, halted |-> FALSE, armed |-> TRUE ] :
      q \in {0, 5}, cash \in {2, 6}, fallen \in {0, 1}, pnl \in {-2, 1} }

MCIntents ==
  { [ symbol |-> sym, side |-> side, quantity |-> q, order_type |-> "market",
      price |-> 3, limit |-> NoLimit ] :
      sym \in {stock}, side \in Sides, q \in {2, 7} }
  \union
  { [ symbol |-> coin, side |-> "buy", quantity |-> 2, order_type |-> "market",
      price |-> 3, limit |-> NoLimit ] }
=============================================================================
