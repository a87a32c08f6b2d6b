----------------------------- MODULE MCSandbox -----------------------------
(* Sandbox on two instruments and a two-price market, two lots to the      *)
(* unit: odd quantities at odd prices are worth half cents, so every       *)
(* rounding happens.                                                       *)
EXTENDS Sandbox

CONSTANTS stock, coin

MCSymbol    == {stock, coin}
MCWhitelist == <<stock, coin>>
MCPrices    == {3, 5}

BaseMandate ==
  [ max_position |-> 9, max_exposure |-> 12, max_order_notional |-> 8,
    max_daily_loss |-> 2, max_drawdown_bps |-> 1500, max_orders_per_day |-> 3,
    min_cash_buffer |-> 10, min_order_notional |-> 2,
    allowed_symbols |-> MCSymbol, allowed_sides |-> Sides,
    allowed_order_types |-> {"market"},
    allow_short |-> FALSE, allow_leverage |-> FALSE ]

MCMandates == { BaseMandate,
                [BaseMandate EXCEPT !.max_position = 7, !.max_daily_loss = 1] }

MCSettings == [ minimum_conviction |-> 5, minimum_probability_bps |-> 5500,
                full_conviction_share_bps |-> 10000 ]

MCAnswers ==
  { [choice |-> c, conviction |-> k, probability |-> 6000] :
      c \in {"buy", "sell"}, k \in {5, 10} }

MCStakes == {20}
=============================================================================
