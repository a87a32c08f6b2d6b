------------------------------ MODULE Strategy ------------------------------
(***************************************************************************)
(* From three answers to an order (backend/app/decision/strategy.py): the  *)
(* thresholds, then the size, which no model chooses.                      *)
(***************************************************************************)
EXTENDS TradingRisk

NoAnswer  == -1
ScoreMax  == 10
ShareUnit == ScoreMax * BpsWhole   \* a share of conviction tenths of basis points

Directions  == {"buy", "sell", "hold"}
Settings == [ minimum_conviction : Nat, minimum_probability_bps : Nat,
              full_conviction_share_bps : 0..BpsWhole ]
Answers  == [ choice : Directions, conviction : -1..ScoreMax,
              probability : -1..BpsWhole ]

\* With nothing held a sale is not offered (direction_question).
Offered(held) == IF held > 0 THEN Directions ELSE {"buy", "hold"}

\* The answers clear the thresholds (gate).
Clears(answers, settings) ==
  /\ answers.choice # "hold"
  /\ answers.conviction # NoAnswer
  /\ answers.conviction >= settings.minimum_conviction
  /\ answers.probability # NoAnswer
  /\ answers.probability >= settings.minimum_probability_bps

\* The share of the ceiling, or of the position, a conviction commits.
Share(answers, settings) ==
  settings.full_conviction_share_bps * answers.conviction

\* A buy is sized from the position ceiling, a sale from what is held: both
\* round down, so a sale is never of more than is held.
IntendedQuantity(answers, settings, mandate, held, price) ==
  IF answers.choice = "buy"
  THEN (mandate.max_position * Share(answers, settings) * Unit)
         \div (ShareUnit * price)
  ELSE (held * Share(answers, settings)) \div ShareUnit

\* A market order at the last close.  There is no order (a Skip) where its
\* quantity is not positive.
SizedIntent(symbol, answers, settings, mandate, held, price) ==
  [ symbol |-> symbol, side |-> answers.choice,
    quantity |-> IntendedQuantity(answers, settings, mandate, held, price),
    order_type |-> "market", price |-> price, limit |-> NoLimit ]
=============================================================================
