--------------------------- MODULE SandboxProofs ---------------------------
(***************************************************************************)
(* Sandbox, for any instruments, lots to the unit, mandates, prices,       *)
(* spread, slippage and answers of the model: the types, the double entry, *)
(* and what no step of a tour may do.                                      *)
(*                                                                         *)
(* Every figure is a worth rounded once, half up.  The proofs multiply by  *)
(* the divisor and reason on integers: HalfUpNear is all they know of it.  *)
(***************************************************************************)
EXTENDS Sandbox, TradingRiskProofs, Sums

-----------------------------------------------------------------------------
(* Rounding.                                                               *)

\* A quotient rounded half up is within half a unit of it.
LEMMA HalfUpNear ==
  ASSUME NEW n \in Nat, NEW d \in Nat \ {0}
  PROVE  /\ HalfUp(n, d) \in Nat
         /\ 2 * (d * HalfUp(n, d)) <= 2 * n + d
         /\ 2 * n < 2 * (d * HalfUp(n, d)) + d
<1> DEFINE e == 2 * d
           x == 2 * n + d
           h == x \div e
<1>1. e \in Nat \ {0} /\ x \in Nat
  OBVIOUS
<1>2. h \in Nat /\ e * h <= x /\ x < e * h + e
  <2> HIDE DEF e, x
  <2> QED BY <1>1
<1>3. HalfUp(n, d) = h
  BY DEF HalfUp
<1>4. e * h = 2 * (d * h)
  <2> HIDE DEF h
  <2> QED BY <1>2
<1> HIDE DEF h
<1> QED BY <1>2, <1>3, <1>4

\* The worth of q lots, in halves of a lot-cent.
LEMMA ValueNear ==
  ASSUME NEW q \in Nat, NEW p \in Nat
  PROVE  /\ ValueCents(q, p) \in Nat /\ Unit * ValueCents(q, p) \in Nat /\ q * p \in Nat
         /\ 2 * (Unit * ValueCents(q, p)) <= 2 * (q * p) + Unit
         /\ 2 * (q * p) < 2 * (Unit * ValueCents(q, p)) + Unit
<1> DEFINE n == q * p
           v == HalfUp(n, Unit)
<1>1. n \in Nat /\ Unit \in Nat \ {0}
  BY UnitAssumption
<1>2. ValueCents(q, p) = v
  BY DEF ValueCents
<1> HIDE DEF n
<1>3. /\ v \in Nat
      /\ 2 * (Unit * v) <= 2 * n + Unit
      /\ 2 * n < 2 * (Unit * v) + Unit
  BY <1>1, HalfUpNear
<1> HIDE DEF v
<1>4. Unit * v \in Nat
  BY <1>1, <1>3
<1> QED BY <1>1, <1>2, <1>3, <1>4 DEF n

\* No lots are worth nothing.
LEMMA NoLotsNoWorth ==
  ASSUME NEW p \in Nat
  PROVE  ValueCents(0, p) = 0
<1>1. 0 * p = 0
  OBVIOUS
<1>2. HalfUp(0, Unit) \in Nat /\ HalfUp(0, Unit) <= 0
  BY UnitAssumption, HalfUpBounded
<1> QED BY <1>1, <1>2 DEF ValueCents

\* The worth of some lots rises with their price.
LEMMA ValueRisesWithPrice ==
  ASSUME NEW q \in Nat, NEW p \in Nat, NEW r \in Nat, p <= r
  PROVE  ValueCents(q, p) <= ValueCents(q, r)
<1> DEFINE v == ValueCents(q, p)
           w == ValueCents(q, r)
<1>1. /\ v \in Nat /\ Unit * v \in Nat /\ q * p \in Nat
      /\ 2 * (Unit * v) <= 2 * (q * p) + Unit
  BY ValueNear
<1>2. /\ w \in Nat /\ Unit * w \in Nat /\ q * r \in Nat
      /\ 2 * (q * r) < 2 * (Unit * w) + Unit
  BY ValueNear
<1> HIDE DEF v, w
<1>3. Unit \in Nat \ {0} /\ q * p <= q * r
  BY UnitAssumption
<1>4. Unit * v < Unit * w + Unit
  BY <1>1, <1>2, <1>3
<1>5. SUFFICES ASSUME v >= w + 1 PROVE FALSE
  BY <1>1, <1>2 DEF v, w
<1>6. Unit * v >= Unit * (w + 1) /\ Unit * (w + 1) = Unit * w + Unit
  BY <1>1, <1>2, <1>3, <1>5
<1> QED BY <1>1, <1>2, <1>3, <1>4, <1>6

\* Less than three half units is at most one.
LEMMA HalfUnits ==
  ASSUME NEW k \in Int, 2 * (Unit * k) < 3 * Unit
  PROVE  k <= 1
<1>1. Unit \in Nat \ {0}
  BY UnitAssumption
<1>2. SUFFICES ASSUME k >= 2 PROVE FALSE
  OBVIOUS
<1>3. Unit * k >= Unit * 2
  BY <1>1, <1>2
<1>4. Unit * 2 = 2 * Unit /\ Unit * k \in Int
  BY <1>1
<1> QED BY <1>1, <1>3, <1>4

\* Two lots of the same thing are worth what they are worth apart, to a cent.
LEMMA ValueOfBoth ==
  ASSUME NEW a \in Nat, NEW b \in Nat, NEW p \in Nat
  PROVE  /\ ValueCents(a + b, p) <= ValueCents(a, p) + ValueCents(b, p) + 1
         /\ ValueCents(a, p) + ValueCents(b, p) <= ValueCents(a + b, p) + 1
<1> DEFINE x == ValueCents(a, p)
           y == ValueCents(b, p)
           z == ValueCents(a + b, p)
<1>1. /\ x \in Nat /\ Unit * x \in Nat /\ a * p \in Nat
      /\ 2 * (Unit * x) <= 2 * (a * p) + Unit
      /\ 2 * (a * p) < 2 * (Unit * x) + Unit
  BY ValueNear
<1>2. /\ y \in Nat /\ Unit * y \in Nat /\ b * p \in Nat
      /\ 2 * (Unit * y) <= 2 * (b * p) + Unit
      /\ 2 * (b * p) < 2 * (Unit * y) + Unit
  BY ValueNear
<1>3. /\ z \in Nat /\ Unit * z \in Nat
      /\ 2 * (Unit * z) <= 2 * ((a + b) * p) + Unit
      /\ 2 * ((a + b) * p) < 2 * (Unit * z) + Unit
  <2>1. a + b \in Nat
    OBVIOUS
  <2> DEFINE c == a + b
  <2> HIDE DEF c
  <2>2. /\ ValueCents(c, p) \in Nat /\ Unit * ValueCents(c, p) \in Nat
        /\ 2 * (Unit * ValueCents(c, p)) <= 2 * (c * p) + Unit
        /\ 2 * (c * p) < 2 * (Unit * ValueCents(c, p)) + Unit
    BY <2>1, ValueNear DEF c
  <2> QED BY <2>2 DEF c
<1>4. (a + b) * p = a * p + b * p
  OBVIOUS
<1>5. Unit \in Nat \ {0}
  BY UnitAssumption
<1> HIDE DEF x, y, z
<1>6. z - x - y <= 1
  <2>1. Unit * (z - x - y) = Unit * z - Unit * x - Unit * y
    BY <1>1, <1>2, <1>3, <1>5
  <2>2. 2 * (Unit * (z - x - y)) < 3 * Unit
    BY <1>1, <1>2, <1>3, <1>4, <1>5, <2>1
  <2> QED BY <1>1, <1>2, <1>3, <2>2, HalfUnits
<1>7. x + y - z <= 1
  <2>1. Unit * (x + y - z) = Unit * x + Unit * y - Unit * z
    BY <1>1, <1>2, <1>3, <1>5
  <2>2. 2 * (Unit * (x + y - z)) < 3 * Unit
    BY <1>1, <1>2, <1>3, <1>4, <1>5, <2>1
  <2> QED BY <1>1, <1>2, <1>3, <2>2, HalfUnits
<1>8. z <= x + y + 1 /\ x + y <= z + 1
  BY <1>1, <1>2, <1>3, <1>6, <1>7
<1> QED BY <1>8 DEF x, y, z

-----------------------------------------------------------------------------
(* The book: what a fill does to a position's cost (apply_fill).           *)

Fill == [state : {"filled"}, quantity : Nat \ {0}, price : Nat, cost : Nat]

\* The average of a purchase spreads its cost over the lots: restated lot by
\* lot, the cost is what was paid, to half a cent a lot and half a cent.
LEMMA BoughtCost ==
  ASSUME NEW old \in PositionState, NEW cash \in Int, NEW fill \in Fill
  PROVE  LET new  == Bought(old, cash, fill).position
             paid == ValueCents(fill.quantity, fill.price)
         IN /\ new \in PositionState /\ new.quantity = old.quantity + fill.quantity
            /\ paid \in Nat /\ Cost(old) \in Nat /\ Cost(new) \in Nat
            /\ 2 * (Unit * (Cost(new) - Cost(old) - paid)) <= new.quantity + Unit
            /\ 2 * (Unit * (Cost(old) + paid - Cost(new))) <= new.quantity + Unit
<1> DEFINE k    == old.quantity + fill.quantity
           paid == ValueCents(fill.quantity, fill.price)
           was  == ValueCents(old.quantity, old.average)
           w    == was + paid
           avg  == HalfUp(w * Unit, k)
           now  == ValueCents(k, avg)
<1>1. /\ old.quantity \in Nat /\ old.average \in Nat /\ Unit \in Nat \ {0}
      /\ fill.quantity \in Nat \ {0} /\ fill.price \in Nat
  BY UnitAssumption DEF PositionState, Fill
<1>2. paid \in Nat /\ was \in Nat /\ w \in Nat
  <2>1. fill.quantity \in Nat
    BY <1>1
  <2>2. paid \in Nat
    BY <1>1, <2>1, ValueCentsType
  <2>3. was \in Nat
    BY <1>1, ValueCentsType
  <2> HIDE DEF paid, was
  <2> QED BY <2>2, <2>3
<1>3. k \in Nat \ {0}
  BY <1>1
<1> HIDE DEF k, paid, was
<1>4. w * Unit \in Nat
  BY <1>1, <1>2
<1>5. /\ avg \in Nat
      /\ 2 * (k * avg) <= 2 * (w * Unit) + k
      /\ 2 * (w * Unit) < 2 * (k * avg) + k
  BY <1>3, <1>4, HalfUpNear
<1> HIDE DEF avg
<1>6. /\ now \in Nat /\ Unit * now \in Nat /\ k * avg \in Nat
      /\ 2 * (Unit * now) <= 2 * (k * avg) + Unit
      /\ 2 * (k * avg) < 2 * (Unit * now) + Unit
  BY <1>3, <1>5, ValueNear
<1> HIDE DEF now
<1>7. /\ Unit * (now - was - paid) = Unit * now - w * Unit
      /\ Unit * (was + paid - now) = w * Unit - Unit * now
  BY <1>1, <1>2, <1>6
<1>8. /\ 2 * (Unit * (now - was - paid)) <= k + Unit
      /\ 2 * (Unit * (was + paid - now)) <= k + Unit
  <2> HIDE DEF w
  <2> QED BY <1>1, <1>3, <1>4, <1>5, <1>6, <1>7
<1>9. Bought(old, cash, fill).position = [quantity |-> k, average |-> avg]
  BY DEF Bought, BoughtAverage, k, avg, w, was, paid
<1>10. [quantity |-> k, average |-> avg] \in PositionState
  BY <1>3, <1>5 DEF PositionState
<1>11. Cost(old) = was /\ Cost([quantity |-> k, average |-> avg]) = now
  BY DEF Cost, was, now
<1> QED BY <1>2, <1>6, <1>8, <1>9, <1>10, <1>11 DEF k, paid

\* A sale takes out of the cost what it reports as sold, to one cent.
LEMMA SoldCost ==
  ASSUME NEW old \in PositionState, NEW cash \in Int, NEW fill \in Fill,
         fill.quantity <= old.quantity
  PROVE  LET new  == Sold(old, cash, fill).position
             sold == ValueCents(fill.quantity, old.average)
         IN /\ new \in PositionState /\ new.quantity = old.quantity - fill.quantity
            /\ new.quantity = 0 => new = EmptyPosition
            /\ sold \in Nat /\ Cost(old) \in Nat /\ Cost(new) \in Nat
            /\ Cost(new) + sold <= Cost(old) + 1
            /\ Cost(old) <= Cost(new) + sold + 1
<1> DEFINE left == old.quantity - fill.quantity
           sold == ValueCents(fill.quantity, old.average)
           was  == ValueCents(old.quantity, old.average)
           avg  == IF left = 0 THEN 0 ELSE old.average
           now  == ValueCents(left, avg)
<1>1. /\ old.quantity \in Nat /\ old.average \in Nat
      /\ fill.quantity \in Nat \ {0} /\ left \in Nat /\ avg \in Nat
      /\ left + fill.quantity = old.quantity
  BY DEF PositionState, Fill
<1>2. now = ValueCents(left, old.average)
  <2>1. CASE left = 0
    BY <1>1, <2>1, NoLotsNoWorth
  <2>2. CASE left # 0
    BY <2>2
  <2> QED BY <2>1, <2>2
<1>3. /\ was <= ValueCents(left, old.average) + sold + 1
      /\ ValueCents(left, old.average) + sold <= was + 1
  <2> HIDE DEF left
  <2> QED BY <1>1, ValueOfBoth
<1>4. sold \in Nat /\ was \in Nat /\ now \in Nat
  <2> HIDE DEF left, avg
  <2> QED BY <1>1, ValueCentsType
<1>5. Sold(old, cash, fill).position = [quantity |-> left, average |-> avg]
  BY DEF Sold
<1>6. [quantity |-> left, average |-> avg] \in PositionState
  BY <1>1 DEF PositionState
<1>7. left = 0 => [quantity |-> left, average |-> avg] = EmptyPosition
  BY DEF EmptyPosition
<1>8. Cost(old) = was /\ Cost([quantity |-> left, average |-> avg]) = now
  BY DEF Cost
<1> HIDE DEF sold, was, now, avg
<1> QED BY <1>2, <1>3, <1>4, <1>5, <1>6, <1>7, <1>8 DEF sold

-----------------------------------------------------------------------------
(* The market: where a tour executes, beside the close it is measured at.  *)

\* The ask, moved up by the slippage, is no better than the close; the bid,
\* moved down by it, is no better either (simulate_fill).
LEMMA ExecutedAgainst ==
  ASSUME NEW s \in Symbol, price \in [Symbol -> Prices]
  PROVE  /\ price[s] \in Nat \ {0}
         /\ QuoteOf(s).bid \in Nat \ {0} /\ QuoteOf(s).ask \in Nat \ {0}
         /\ Executed("buy", QuoteOf(s), SlippageBps) \in Nat
         /\ Executed("sell", QuoteOf(s), SlippageBps) \in Nat
         /\ price[s] <= Executed("buy", QuoteOf(s), SlippageBps)
         /\ Executed("sell", QuoteOf(s), SlippageBps) <= price[s]
<1> DEFINE p   == price[s]
           ask == QuoteOf(s).ask
           bid == QuoteOf(s).bid
           up  == ask * (BpsWhole + SlippageBps)
           dn  == bid * (BpsWhole + (-SlippageBps))
<1>1. p \in Nat \ {0} /\ HalfSpread \in Nat /\ SlippageBps \in 0..1000
  BY SandboxAssumption
<1>2. ask = p + HalfSpread
  BY DEF QuoteOf
<1>3. bid \in Nat /\ bid > 0 /\ bid <= p
  BY <1>1 DEF QuoteOf, GreatestOf
<1>4. ask \in Nat /\ ask >= p /\ ask > 0
  BY <1>1, <1>2
<1> HIDE DEF p, ask, bid
<1>5. up \in Nat /\ up >= ask * BpsWhole
  <2>1. up = ask * BpsWhole + ask * SlippageBps
    BY <1>1, <1>4 DEF BpsWhole
  <2>2. ask * SlippageBps \in Nat /\ ask * BpsWhole \in Nat
    BY <1>1, <1>4 DEF BpsWhole
  <2> QED BY <2>1, <2>2
<1>6. dn \in Nat /\ dn <= bid * BpsWhole
  <2>1. dn = bid * BpsWhole - bid * SlippageBps
    BY <1>1, <1>3 DEF BpsWhole
  <2>2. bid * SlippageBps \in Nat /\ bid * BpsWhole \in Nat
    BY <1>1, <1>3 DEF BpsWhole
  <2>3. BpsWhole + (-SlippageBps) \in Nat
    BY <1>1 DEF BpsWhole
  <2>4. dn \in Nat
    BY <1>3, <2>3
  <2> QED BY <2>1, <2>2, <2>4
<1>7. BpsWhole \in Nat \ {0}
  BY DEF BpsWhole
<1> DEFINE h == HalfUp(up, BpsWhole)
           l == HalfUp(dn, BpsWhole)
<1>8. h \in Nat /\ ask <= h
  <2>1. /\ h \in Nat /\ 2 * up < 2 * (BpsWhole * h) + BpsWhole
    <3> HIDE DEF up
    <3> QED BY <1>5, <1>7, HalfUpNear
  <2> HIDE DEF up, h
  <2>2. 2 * (ask * 10000) < 2 * (10000 * h) + 10000
    BY <1>4, <1>5, <2>1 DEF BpsWhole
  <2> QED BY <1>4, <2>1, <2>2
<1>9. l \in Nat /\ l <= bid
  <2> HIDE DEF dn
  <2> QED BY <1>3, <1>6, <1>7, HalfUpBounded
<1>10. Executed("buy", QuoteOf(s), SlippageBps) = h
  BY DEF Executed, ApplyBps, ask
<1>11. Executed("sell", QuoteOf(s), SlippageBps) = l
  BY DEF Executed, ApplyBps, bid
<1> HIDE DEF h, l
<1> QED BY <1>1, <1>3, <1>4, <1>8, <1>9, <1>10, <1>11 DEF p, ask, bid

-----------------------------------------------------------------------------
(* What the gate is handed, and what it lets through.                      *)

\* The cost of the positions and their worth at a market are whole cents.
LEMMA ExposureType ==
  ASSUME NEW held \in [Symbol -> PositionState]
  PROVE  Exposure(held) \in Int
<1>1. [s \in Symbol |-> Cost(held[s])] \in [Symbol -> Int]
  BY ValueCentsType DEF Cost, PositionState
<1> QED BY <1>1, SumType, SandboxAssumption DEF Exposure

LEMMA MarketWorthType ==
  ASSUME NEW acc \in Account, NEW held \in [Symbol -> PositionState],
         NEW at \in [Symbol -> Prices]
  PROVE  MarketWorth(acc, held, at) \in Int
<1> DEFINE worth == [s \in Symbol |-> ValueCents(held[s].quantity, at[s])]
<1>1. \A s \in Symbol : held[s].quantity \in Nat /\ at[s] \in Nat
  BY SandboxAssumption DEF PositionState
<1>2. worth \in [Symbol -> Int]
  BY <1>1, ValueCentsType
<1>3. SumFunction(worth) \in Int
  BY <1>2, SumType, SandboxAssumption
<1>4. acc.cash \in Int
  BY DEF Account
<1> QED BY <1>3, <1>4 DEF MarketWorth

LEMMA StateForType ==
  ASSUME TypeOK, NEW s \in Symbol
  PROVE  PeakNow \in Int /\ StateFor(s, PeakNow) \in AccountState
<1>1. /\ account.cash \in Int /\ account.peak \in Int
      /\ account.realised_today \in Int /\ account.orders_today \in Nat
  BY DEF TypeOK, Account
<1>2. Exposure(positions) \in Int
  BY ExposureType DEF TypeOK
<1>3. positions[s].quantity \in Nat /\ reference[s] \in Nat
  BY SandboxAssumption DEF TypeOK, PositionState
<1>4. ValueCents(positions[s].quantity, reference[s]) \in Nat
  BY <1>3, ValueCentsType
<1>5. account.cash + Exposure(positions) \in Int
  BY <1>1, <1>2
<1>6. PeakNow \in Int
  BY <1>1, <1>5 DEF PeakNow, GreatestOf
<1> DEFINE e == Exposure(positions)
           v == ValueCents(positions[s].quantity, reference[s])
           k == PeakNow
<1>7. StateFor(s, PeakNow) =
        [ equity |-> account.cash + e, cash |-> account.cash, peak |-> k,
          exposure |-> e, position |-> v, quantity |-> positions[s].quantity,
          realised_today |-> account.realised_today,
          orders_today |-> account.orders_today, halted |-> FALSE, armed |-> TRUE ]
  BY DEF StateFor
<1> HIDE DEF e, v, k
<1>8. e \in Int /\ v \in Int /\ k \in Int /\ account.cash + e \in Int
  BY <1>2, <1>4, <1>5, <1>6 DEF e, v, k
<1>9. FALSE \in BOOLEAN /\ TRUE \in BOOLEAN
  OBVIOUS
<1>10. [ equity |-> account.cash + e, cash |-> account.cash, peak |-> k,
         exposure |-> e, position |-> v, quantity |-> positions[s].quantity,
         realised_today |-> account.realised_today,
         orders_today |-> account.orders_today, halted |-> FALSE, armed |-> TRUE ]
         \in AccountState
  BY <1>1, <1>3, <1>8, <1>9 DEF AccountState
<1> QED BY <1>6, <1>7, <1>8, <1>10 DEF k

\* An order of the strategy is one the gate can be handed.
LEMMA IntentForType ==
  ASSUME TypeOK, NEW s \in Symbol, NEW answers \in AnswerSet,
         Clears(answers, ThresholdSettings)
  PROVE  /\ IntentFor(s, answers) \in OrderIntent
         /\ IntentFor(s, answers).side = answers.choice
         /\ answers.choice \in Sides
         /\ IntentFor(s, answers).price = reference[s]
         /\ IntentFor(s, answers).order_type = "market"
<1> DEFINE held == positions[s].quantity
           p    == reference[s]
           c    == answers.conviction
           f    == ThresholdSettings.full_conviction_share_bps
           k    == IntendedQuantity(answers, ThresholdSettings, mandate, held, p)
<1>1. held \in Nat /\ p \in Nat \ {0}
  BY SandboxAssumption DEF TypeOK, PositionState
<1>2. answers \in Answers
  BY SandboxAssumption
<1>3. answers.choice \in Directions /\ c \in -1..ScoreMax
  BY <1>2 DEF Answers
<1>4. answers.choice \in Sides /\ c \in Nat
  BY <1>3 DEF Clears, Directions, Sides, NoAnswer
<1>5. f \in Nat
  BY SandboxAssumption DEF Settings
<1>6. mandate.max_position \in Nat
  BY SandboxAssumption DEF TypeOK, Mandate
<1>7. Unit \in Nat /\ ShareUnit \in Nat \ {0}
  BY UnitAssumption DEF ShareUnit, ScoreMax, BpsWhole
<1> HIDE DEF held, p, c, f
<1>8. f * c \in Nat
  BY <1>4, <1>5
<1> DEFINE sh == f * c
<1>9. Share(answers, ThresholdSettings) = sh
  BY DEF Share, f, c
<1> HIDE DEF sh
<1>10. (mandate.max_position * sh * Unit) \div (ShareUnit * p) \in Int
  <2>1. mandate.max_position * sh * Unit \in Nat
    BY <1>6, <1>7, <1>8 DEF sh
  <2>2. ShareUnit * p \in Nat \ {0}
    BY <1>1, <1>7
  <2> QED BY <2>1, <2>2
<1>11. (held * sh) \div ShareUnit \in Int
  <2>1. held * sh \in Nat
    BY <1>1, <1>8 DEF sh
  <2> QED BY <1>7, <2>1
<1>12. k \in Int
  BY <1>9, <1>10, <1>11 DEF IntendedQuantity
<1>13. IntentFor(s, answers) =
         [ symbol |-> s, side |-> answers.choice, quantity |-> k,
           order_type |-> "market", price |-> p, limit |-> NoLimit ]
  BY DEF IntentFor, SizedIntent, held, p
<1> HIDE DEF k
<1>14. "market" \in OrderTypes /\ NoLimit \in Int /\ p \in Int
  BY <1>1 DEF OrderTypes, NoLimit
<1>15. IntentFor(s, answers) \in OrderIntent
  <2>1. [ symbol |-> s, side |-> answers.choice, quantity |-> k,
          order_type |-> "market", price |-> p, limit |-> NoLimit ] \in OrderIntent
    BY <1>4, <1>12, <1>14 DEF OrderIntent
  <2> QED BY <1>13, <2>1
<1> QED BY <1>4, <1>13, <1>15 DEF p

\* What the gate let a purchase of q lots through for.
Within(q) ==
  LET notional == ValueCents(q, reference[Here])
  IN /\ ValueCents(positions[Here].quantity, reference[Here]) + notional <= mandate.max_position
     /\ Exposure(positions) + notional <= mandate.max_exposure
     /\ notional <= account.cash - mandate.min_cash_buffer
     /\ account.orders_today < mandate.max_orders_per_day
     /\ -account.realised_today < mandate.max_daily_loss

\* An order that is filled went through the mandate, executes on its own side
\* of the book, and is booked as it was filled (_place, _settle).
LEMMA OrderedMeans ==
  ASSUME TypeOK, ExamineOrdered
  PROVE  /\ Here \in Symbol
         /\ \E side \in Sides, fill \in Fill :
              /\ Settle(side, fill)
              /\ fill.price = Executed(side, QuoteOf(Here), SlippageBps)
              /\ side = "buy" => Within(fill.quantity)
              /\ side = "sell" => fill.quantity <= positions[Here].quantity
<1>1. Here \in Symbol
  BY SandboxAssumption DEF ExamineOrdered, Turning, Here
<1>2. PICK a \in AnswerSet :
        /\ Clears(a, ThresholdSettings)
        /\ VerdictOn(IntentFor(Here, a)).decision # "refused"
        /\ Covered(positions[Here], IntentFor(Here, a).side,
                   FillOf(IntentFor(Here, a), VerdictOn(IntentFor(Here, a)).quantity))
        /\ Settle(IntentFor(Here, a).side,
                  FillOf(IntentFor(Here, a), VerdictOn(IntentFor(Here, a)).quantity))
  BY DEF ExamineOrdered
<1> DEFINE i == IntentFor(Here, a)
           v == VerdictOn(i)
           f == FillOf(i, v.quantity)
<1>3. /\ i \in OrderIntent /\ i.side \in Sides /\ i.price = reference[Here]
      /\ i.order_type = "market"
  BY <1>1, <1>2, IntentForType
<1>4. mandate \in Mandate /\ StateFor(Here, PeakNow) \in AccountState
  BY <1>1, StateForType, SandboxAssumption DEF TypeOK
<1>5. v.decision # "refused" /\ v = EvaluateOrder(mandate, StateFor(Here, PeakNow), i)
  BY <1>2 DEF VerdictOn
<1> HIDE DEF i, v
<1>6. v.quantity \in 1..i.quantity
  BY <1>3, <1>4, <1>5, PassedOrderFits
<1>7. v.quantity \in Nat \ {0}
  BY <1>3, <1>6 DEF OrderIntent
<1> DEFINE touched == Executed(i.side, QuoteOf(Here), SlippageBps)
           perUnit == IF i.side = "buy" THEN touched - MidCents(QuoteOf(Here))
                                        ELSE MidCents(QuoteOf(Here)) - touched
           cost    == ValueCents(v.quantity, GreatestOf(perUnit, 0))
<1>8. /\ QuoteOf(Here).bid \in Nat \ {0} /\ QuoteOf(Here).ask \in Nat \ {0}
      /\ touched \in Nat
  BY <1>1, <1>3, ExecutedAgainst DEF TypeOK, Sides
<1>9. f = [state |-> "filled", quantity |-> v.quantity, price |-> touched, cost |-> cost]
  <2>1. ~(v.quantity <= 0 \/ QuoteOf(Here).bid <= 0 \/ QuoteOf(Here).ask <= 0)
    BY <1>7, <1>8
  <2> QED BY <1>3, <2>1 DEF SimulateFill, FillOf
<1>10. cost \in Nat
  <2>1. MidCents(QuoteOf(Here)) \in Int
    <3>1. QuoteOf(Here).bid + QuoteOf(Here).ask \in Nat /\ 2 \in Nat \ {0}
      BY <1>8
    <3> QED BY <3>1, HalfUpNear DEF MidCents
  <2>2. GreatestOf(perUnit, 0) \in Nat
    BY <1>8, <2>1 DEF GreatestOf
  <2> HIDE DEF perUnit
  <2> QED BY <1>7, <2>2, ValueCentsType
<1> HIDE DEF touched, cost
<1>11. f \in Fill /\ f.quantity = v.quantity /\ f.price = touched
  <2>1. [state |-> "filled", quantity |-> v.quantity, price |-> touched, cost |-> cost]
          \in Fill
    BY <1>7, <1>8, <1>10 DEF Fill
  <2> QED BY <1>9, <2>1
<1>12. ASSUME i.side = "buy" PROVE Within(v.quantity)
  <2> DEFINE st == StateFor(Here, PeakNow)
             n  == ValueCents(v.quantity, reference[Here])
  <2>1. /\ PermissionBreaches(mandate, st, i) = {} /\ StandingBreaches(mandate, st, i) = {}
        /\ v.notional = n
    BY <1>3, <1>4, <1>5, PassedTheGate
  <2>2. st.orders_today < mandate.max_orders_per_day
    BY <1>3, <1>4, <2>1, PermissionMeans
  <2>3. ~IsReducing(st, i)
    BY <1>12 DEF IsReducing
  <2>4. ~(-st.realised_today >= mandate.max_daily_loss)
    <3> DEFINE broken ==
                 [ daily_loss_ceiling |-> -st.realised_today >= mandate.max_daily_loss,
                   drawdown_ceiling   |-> /\ st.peak > 0
                                          /\ DrawdownBps(st) >= mandate.max_drawdown_bps ]
    <3>1. StandingBreaches(mandate, st, i) =
            {rule \in DOMAIN broken : ~IsReducing(st, i) /\ broken[rule]}
      BY DEF StandingBreaches
    <3>2. "daily_loss_ceiling" \in DOMAIN broken
      OBVIOUS
    <3>3. ~broken["daily_loss_ceiling"]
      <4> HIDE DEF broken
      <4> QED BY <2>1, <2>3, <3>1, <3>2
    <3> HIDE DEF st
    <3> QED BY <3>3
  <2>5. \A rule \in DOMAIN Room(mandate, st) : n <= Room(mandate, st)[rule]
    BY <1>3, <1>4, <1>5, <1>12, <2>1, PassedOrderFits
  <2>6. /\ n <= mandate.max_position - st.position
        /\ n <= mandate.max_exposure - st.exposure
        /\ n <= st.cash - mandate.min_cash_buffer
    BY <2>5 DEF Room
  <2>7. /\ st.position = ValueCents(positions[Here].quantity, reference[Here])
        /\ st.exposure = Exposure(positions) /\ st.cash = account.cash
        /\ st.realised_today = account.realised_today
        /\ st.orders_today = account.orders_today
    BY DEF StateFor
  <2> HIDE DEF st
  <2>8. /\ st.position \in Int /\ st.exposure \in Int /\ st.cash \in Int
        /\ st.realised_today \in Int /\ mandate.max_position \in Int
        /\ mandate.max_exposure \in Int /\ mandate.min_cash_buffer \in Int
        /\ mandate.max_daily_loss \in Int
    BY <1>4 DEF st, AccountState, Mandate
  <2>9. n \in Nat
    <3>1. reference[Here] \in Nat /\ v.quantity \in Nat
      BY <1>1, <1>7, SandboxAssumption DEF TypeOK
    <3> QED BY <3>1, ValueCentsType
  <2> HIDE DEF n
  <2> QED BY <2>2, <2>4, <2>6, <2>7, <2>8, <2>9 DEF Within, n
<1>13. ASSUME i.side = "sell" PROVE f.quantity <= positions[Here].quantity
  BY <1>2, <1>13 DEF Covered, v, i
<1>14. Settle(i.side, f)
  BY <1>2 DEF v, i
<1> HIDE DEF f
<1> QED BY <1>1, <1>3, <1>11, <1>12, <1>13, <1>14 DEF touched

-----------------------------------------------------------------------------
(* What an order changes, all of it together (_settle).                    *)

\* One position replaced moves the exposure by the change of its cost.
LEMMA ExposureMoves ==
  ASSUME NEW held \in [Symbol -> PositionState], NEW s \in Symbol,
         NEW p \in PositionState
  PROVE  /\ Exposure(held) \in Int
         /\ Exposure([held EXCEPT ![s] = p]) - Exposure(held) = Cost(p) - Cost(held[s])
<1> DEFINE held2 == [held EXCEPT ![s] = p]
           f == [x \in Symbol |-> Cost(held[x])]
           h == [x \in Symbol |-> Cost(held2[x])]
<1>1. held2 \in [Symbol -> PositionState]
  OBVIOUS
<1>2. ASSUME NEW g \in [Symbol -> PositionState]
      PROVE  [x \in Symbol |-> Cost(g[x])] \in [Symbol -> Int]
  BY ValueCentsType DEF Cost, PositionState
<1>3. f \in [Symbol -> Int] /\ h \in [Symbol -> Int]
  <2>1. f \in [Symbol -> Int]
    BY <1>2
  <2>2. h \in [Symbol -> Int]
    <3> HIDE DEF held2
    <3> QED BY <1>1, <1>2
  <2> QED BY <2>1, <2>2
<1>4. \A y \in Symbol \ {s} : f[y] = h[y]
  OBVIOUS
<1>5. f[s] = Cost(held[s]) /\ h[s] = Cost(p)
  OBVIOUS
<1>6. Exposure(held) = SumFunction(f) /\ Exposure(held2) = SumFunction(h)
  BY DEF Exposure
<1> HIDE DEF f, h, held2
<1>7. SumFunction(h) - SumFunction(f) = h[s] - f[s]
  <2>1. IsFiniteSet(Symbol) /\ s \in Symbol
    BY SandboxAssumption
  <2> QED BY <1>3, <1>4, <2>1, SumMoves, Zenon
<1>8. SumFunction(f) \in Int
  BY <1>3, SumType, SandboxAssumption
<1> QED BY <1>5, <1>6, <1>7, <1>8 DEF held2

\* One position replaced, and the cash moved, at the market of a tour.
LEMMA WorthMoves ==
  ASSUME NEW held \in [Symbol -> PositionState], NEW s \in Symbol,
         NEW p \in PositionState, NEW a, NEW b, a.cash \in Int, b.cash \in Int,
         price \in [Symbol -> Prices]
  PROVE  /\ MarketWorth(a, held, price) \in Int
         /\ MarketWorth(b, [held EXCEPT ![s] = p], price) \in Int
         /\ MarketWorth(b, [held EXCEPT ![s] = p], price) - MarketWorth(a, held, price)
              = b.cash - a.cash + ValueCents(p.quantity, price[s])
                                - ValueCents(held[s].quantity, price[s])
<1> DEFINE held2 == [held EXCEPT ![s] = p]
           f == [x \in Symbol |-> ValueCents(held[x].quantity, price[x])]
           h == [x \in Symbol |-> ValueCents(held2[x].quantity, price[x])]
<1>1. held2 \in [Symbol -> PositionState]
  OBVIOUS
<1>2. ASSUME NEW g \in [Symbol -> PositionState]
      PROVE  [x \in Symbol |-> ValueCents(g[x].quantity, price[x])] \in [Symbol -> Int]
  <2>1. \A x \in Symbol : g[x].quantity \in Nat /\ price[x] \in Nat
    BY SandboxAssumption DEF PositionState
  <2>2. \A x \in Symbol : ValueCents(g[x].quantity, price[x]) \in Int
    <3>1. TAKE x \in Symbol
    <3>2. g[x].quantity \in Nat /\ price[x] \in Nat
      BY <2>1
    <3> DEFINE q == g[x].quantity
               c == price[x]
    <3>3. ValueCents(q, c) \in Nat
      <4> HIDE DEF q, c
      <4> QED BY <3>2, ValueCentsType DEF q, c
    <3> QED BY <3>3
  <2> QED BY <2>2
<1>3. f \in [Symbol -> Int] /\ h \in [Symbol -> Int]
  <2>1. f \in [Symbol -> Int]
    BY <1>2
  <2>2. h \in [Symbol -> Int]
    <3> HIDE DEF held2
    <3> QED BY <1>1, <1>2
  <2> QED BY <2>1, <2>2
<1>4. \A y \in Symbol \ {s} : f[y] = h[y]
  OBVIOUS
<1>5. /\ f[s] = ValueCents(held[s].quantity, price[s])
      /\ h[s] = ValueCents(p.quantity, price[s])
  OBVIOUS
<1>6. /\ MarketWorth(a, held, price) = a.cash + SumFunction(f)
      /\ MarketWorth(b, held2, price) = b.cash + SumFunction(h)
  BY DEF MarketWorth
<1>7. f[s] \in Int /\ h[s] \in Int
  BY <1>3
<1> HIDE DEF f, h, held2
<1>8. SumFunction(h) - SumFunction(f) = h[s] - f[s]
  <2>1. IsFiniteSet(Symbol) /\ s \in Symbol
    BY SandboxAssumption
  <2> QED BY <1>3, <1>4, <2>1, SumMoves, Zenon
<1>9. SumFunction(f) \in Int /\ SumFunction(h) \in Int
  BY <1>3, SumType, SandboxAssumption
<1> DEFINE ca == a.cash
           cb == b.cash
<1>10. ca \in Int /\ cb \in Int
  OBVIOUS
<1>11. (cb + SumFunction(h)) - (ca + SumFunction(f)) = cb - ca + h[s] - f[s]
  <2> HIDE DEF ca, cb
  <2> QED BY <1>7, <1>8, <1>9, <1>10
<1>12. ca + SumFunction(f) \in Int /\ cb + SumFunction(h) \in Int
  <2> HIDE DEF ca, cb
  <2> QED BY <1>9, <1>10
<1> QED BY <1>5, <1>6, <1>11, <1>12 DEF held2

\* The account and the book after a fill that leaves p, costs paid (or brings
\* -paid) and realises r.
Booked(p, paid, r, rounded) ==
  /\ positions' = [positions EXCEPT ![Here] = p]
  /\ account' \in Account
  /\ account'.cash = account.cash - paid
  /\ account'.initial = account.initial
  /\ account'.counters_on = account.counters_on
  /\ account'.orders_today = account.orders_today + 1
  /\ account'.realised_today = account.realised_today + r
  /\ account'.realised_total = account.realised_total + r
  /\ rounding' = rounding + rounded
  /\ dayResult' = dayResult + r

\* A purchase books its cost, and realises nothing.
LEMMA SettleBuys ==
  ASSUME TypeOK, Here \in Symbol, NEW fill \in Fill, Settle("buy", fill)
  PROVE  LET p == Bought(positions[Here], account.cash, fill).position
         IN Booked(p, ValueCents(fill.quantity, fill.price), 0, p.quantity + Unit)
<1> DEFINE b    == Bought(positions[Here], account.cash, fill)
           p    == b.position
           paid == ValueCents(fill.quantity, fill.price)
<1>1. /\ b.cash = account.cash - paid /\ b.realised = 0
      /\ ApplyFill(positions[Here], account.cash, "buy", fill) = b
      /\ RoundingOf("buy", p) = p.quantity + Unit
  BY DEF Bought, ApplyFill, RoundingOf
<1>2. paid \in Nat
  <2>1. fill.quantity \in Nat /\ fill.price \in Nat
    BY DEF Fill
  <2> QED BY <2>1, ValueCentsType
<1>3. PeakNow \in Int
  BY StateForType
<1> HIDE DEF paid
<1> DEFINE c == account.cash - paid
           k == PeakNow
<1>4. account \in Account /\ dayResult \in Int /\ account.cash \in Int
  BY DEF TypeOK, Account
<1>5. c \in Int
  BY <1>2, <1>4
<1>6. /\ positions' = [positions EXCEPT ![Here] = p]
      /\ account' = [account EXCEPT !.peak = k, !.orders_today = @ + 1, !.cash = c,
                                    !.realised_today = @ + 0, !.realised_total = @ + 0]
      /\ rounding' = rounding + (p.quantity + Unit)
      /\ dayResult' = dayResult + 0
  <2> HIDE DEF b
  <2> QED BY <1>1 DEF Settle
<1> HIDE DEF b, c, k
<1>7. account' = [ cash |-> c, initial |-> account.initial, peak |-> k,
                   counters_on |-> account.counters_on,
                   orders_today |-> account.orders_today + 1,
                   realised_today |-> account.realised_today + 0,
                   realised_total |-> account.realised_total + 0 ]
  BY <1>4, <1>6 DEF Account
<1>8. /\ account.initial \in Nat /\ account.counters_on \in Nat
      /\ account.orders_today + 1 \in Nat /\ account.realised_today + 0 \in Int
      /\ account.realised_total + 0 \in Int /\ k \in Int
  BY <1>3, <1>4 DEF Account, k
<1>9. account' \in Account
  BY <1>5, <1>7, <1>8 DEF Account
<1> QED BY <1>6, <1>7, <1>9 DEF Booked, c, paid, b

\* A sale books what it brings, and realises it less what its lots cost.
LEMMA SettleSells ==
  ASSUME TypeOK, Here \in Symbol, NEW fill \in Fill, Settle("sell", fill)
  PROVE  LET p     == Sold(positions[Here], account.cash, fill).position
             gross == ValueCents(fill.quantity, fill.price)
         IN Booked(p, -gross, gross - ValueCents(fill.quantity, positions[Here].average),
                   2 * Unit)
<1> DEFINE b     == Sold(positions[Here], account.cash, fill)
           p     == b.position
           gross == ValueCents(fill.quantity, fill.price)
           r     == gross - ValueCents(fill.quantity, positions[Here].average)
<1>1. /\ b.cash = account.cash + gross /\ b.realised = r
      /\ ApplyFill(positions[Here], account.cash, "sell", fill) = b
      /\ RoundingOf("sell", p) = 2 * Unit
  BY DEF Sold, ApplyFill, RoundingOf
<1>2. gross \in Nat /\ r \in Int
  <2>1. /\ fill.quantity \in Nat /\ fill.price \in Nat
        /\ positions[Here].average \in Nat
    BY DEF Fill, TypeOK, PositionState
  <2>2. gross \in Nat /\ ValueCents(fill.quantity, positions[Here].average) \in Nat
    BY <2>1, ValueCentsType
  <2> HIDE DEF gross
  <2> QED BY <2>2
<1>3. PeakNow \in Int
  BY StateForType
<1> HIDE DEF r, gross
<1> DEFINE c == account.cash + gross
           k == PeakNow
<1>4. account \in Account /\ dayResult \in Int /\ account.cash \in Int
  BY DEF TypeOK, Account
<1>5. c \in Int /\ c = account.cash - (-gross)
  BY <1>2, <1>4
<1>6. /\ positions' = [positions EXCEPT ![Here] = p]
      /\ account' = [account EXCEPT !.peak = k, !.orders_today = @ + 1, !.cash = c,
                                    !.realised_today = @ + r, !.realised_total = @ + r]
      /\ rounding' = rounding + 2 * Unit
      /\ dayResult' = dayResult + r
  <2> HIDE DEF b
  <2> QED BY <1>1 DEF Settle
<1> HIDE DEF b, c, k
<1>7. account' = [ cash |-> c, initial |-> account.initial, peak |-> k,
                   counters_on |-> account.counters_on,
                   orders_today |-> account.orders_today + 1,
                   realised_today |-> account.realised_today + r,
                   realised_total |-> account.realised_total + r ]
  BY <1>4, <1>6 DEF Account
<1>8. /\ account.initial \in Nat /\ account.counters_on \in Nat
      /\ account.orders_today + 1 \in Nat /\ account.realised_today + r \in Int
      /\ account.realised_total + r \in Int /\ k \in Int
  BY <1>2, <1>3, <1>4 DEF Account, k
<1>9. account' \in Account
  BY <1>5, <1>7, <1>8 DEF Account
<1> QED BY <1>5, <1>6, <1>7, <1>9 DEF Booked, b, r, gross

\* What an order changes balances: what the book gained at cost is what was
\* paid and realised, to the rounding the fill is counted for.
Balances(p, paid, r, rounded) ==
  /\ 2 * (Unit * (Cost(p) - Cost(positions[Here]) - paid - r)) <= rounded
  /\ 2 * (Unit * (paid + r - Cost(p) + Cost(positions[Here]))) <= rounded

LEMMA OrderedBooks ==
  ASSUME TypeOK, ExamineOrdered
  PROVE  /\ Here \in Symbol
         /\ \E p \in PositionState, paid \in Int, r \in Int, rounded \in Nat :
              /\ Booked(p, paid, r, rounded)
              /\ p.quantity = 0 => p = EmptyPosition
              /\ Balances(p, paid, r, rounded)
              /\ Cost(p) \in Int /\ Cost(positions[Here]) \in Int
<1>1. Here \in Symbol
  BY OrderedMeans
<1>2. PICK side \in Sides, fill \in Fill :
        /\ Settle(side, fill)
        /\ side = "sell" => fill.quantity <= positions[Here].quantity
  BY OrderedMeans
<1>3. positions[Here] \in PositionState /\ account.cash \in Int /\ Unit \in Nat \ {0}
  BY <1>1, UnitAssumption DEF TypeOK, Account
<1> DEFINE old == positions[Here]
<1>4. CASE side = "buy"
  <2> DEFINE p    == Bought(old, account.cash, fill).position
             paid == ValueCents(fill.quantity, fill.price)
  <2>1. Booked(p, paid, 0, p.quantity + Unit)
    BY <1>1, <1>2, <1>4, SettleBuys
  <2>2. /\ p \in PositionState /\ p.quantity = old.quantity + fill.quantity
        /\ paid \in Nat /\ Cost(old) \in Nat /\ Cost(p) \in Nat
        /\ 2 * (Unit * (Cost(p) - Cost(old) - paid)) <= p.quantity + Unit
        /\ 2 * (Unit * (Cost(old) + paid - Cost(p))) <= p.quantity + Unit
    BY <1>3, BoughtCost
  <2> HIDE DEF p, paid
  <2>3. p.quantity # 0 /\ p.quantity + Unit \in Nat
    BY <1>3, <2>2 DEF PositionState, Fill
  <2>4. /\ Cost(p) - Cost(old) - paid - 0 = Cost(p) - Cost(old) - paid
        /\ paid + 0 - Cost(p) + Cost(old) = Cost(old) + paid - Cost(p)
    BY <2>2
  <2>5. Balances(p, paid, 0, p.quantity + Unit)
    BY <2>2, <2>4 DEF Balances
  <2>6. paid \in Int /\ 0 \in Int /\ Cost(p) \in Int /\ Cost(old) \in Int
    BY <2>2
  <2> QED BY <1>1, <2>1, <2>2, <2>3, <2>5, <2>6
<1>5. CASE side = "sell"
  <2> DEFINE p     == Sold(old, account.cash, fill).position
             gross == ValueCents(fill.quantity, fill.price)
             sold  == ValueCents(fill.quantity, old.average)
             paid  == -gross
             r     == gross - sold
  <2>1. Booked(p, paid, r, 2 * Unit)
    BY <1>1, <1>2, <1>5, SettleSells
  <2>2. /\ p \in PositionState
        /\ p.quantity = 0 => p = EmptyPosition
        /\ sold \in Nat /\ Cost(old) \in Nat /\ Cost(p) \in Nat
        /\ Cost(p) + sold <= Cost(old) + 1
        /\ Cost(old) <= Cost(p) + sold + 1
    BY <1>2, <1>3, <1>5, SoldCost
  <2>3. gross \in Nat
    <3>1. fill.quantity \in Nat /\ fill.price \in Nat
      BY DEF Fill
    <3> QED BY <3>1, ValueCentsType
  <2> HIDE DEF p, gross, sold
  <2>4. paid \in Int /\ r \in Int /\ 2 * Unit \in Nat
    BY <1>3, <2>2, <2>3
  <2> DEFINE d == Cost(p) - Cost(old) - paid - r
             e == paid + r - Cost(p) + Cost(old)
  <2>5. d \in Int /\ e \in Int /\ d <= 1 /\ e <= 1
    BY <2>2, <2>3
  <2> HIDE DEF d, e
  <2>6. Unit * d <= Unit /\ Unit * e <= Unit /\ Unit * d \in Int /\ Unit * e \in Int
    BY <1>3, <2>5
  <2>7. 2 * (Unit * d) <= 2 * Unit /\ 2 * (Unit * e) <= 2 * Unit
    BY <1>3, <2>6
  <2>8. Balances(p, paid, r, 2 * Unit)
    BY <2>7 DEF Balances, d, e
  <2>9. Cost(p) \in Int /\ Cost(old) \in Int
    BY <2>2
  <2> HIDE DEF paid, r
  <2> QED BY <1>1, <2>1, <2>2, <2>4, <2>8, <2>9
<1> QED BY <1>2, <1>4, <1>5 DEF Sides

-----------------------------------------------------------------------------
(* The invariant.                                                          *)

\* The day's result as the account carries it is the one history recalls: the
\* counters start again when the day does, and only then.  Once the market has
\* lived as long as the window, the window ends at the present.
WindowEndsNow == step = WarmUp => reference = price
IInv == TypeOK /\ dayResult = account.realised_today /\ BookExplained /\ WindowEndsNow

\* A distance under a bound, as two differences.
LEMMA DistanceWithin ==
  ASSUME NEW a \in Int, NEW b \in Int, NEW k \in Int
  PROVE  2 * Unit * Distance(a, b) <= k
           <=> 2 * (Unit * (a - b)) <= k /\ 2 * (Unit * (b - a)) <= k
<1> DEFINE d == Distance(a, b)
<1>1. Unit \in Nat \ {0} /\ a - b \in Int /\ b - a \in Int
  BY UnitAssumption
<1>2. d \in Int /\ d >= a - b /\ d >= b - a /\ (d = a - b \/ d = b - a)
  BY DEF Distance, GreatestOf
<1> HIDE DEF d
<1>3. 2 * Unit * d = 2 * (Unit * d) /\ Unit * d \in Int
  BY <1>1, <1>2
<1>4. /\ Unit * (a - b) <= Unit * d /\ Unit * (b - a) <= Unit * d
      /\ Unit * (a - b) \in Int /\ Unit * (b - a) \in Int
  <2> DEFINE x == a - b
             y == b - a
  <2> HIDE DEF x, y
  <2>1. x \in Int /\ y \in Int /\ x <= d /\ y <= d
    BY <1>1, <1>2 DEF x, y
  <2>2. /\ Unit * x <= Unit * d /\ Unit * y <= Unit * d
        /\ Unit * x \in Int /\ Unit * y \in Int
    BY <1>1, <1>2, <2>1
  <2> QED BY <2>2 DEF x, y
<1>5. Unit * d = Unit * (a - b) \/ Unit * d = Unit * (b - a)
  BY <1>2
<1> QED BY <1>3, <1>4, <1>5 DEF d

LEMMA OrderedExplained ==
  ASSUME IInv, ExamineOrdered
  PROVE  BookExplained'
<1>1. PICK p \in PositionState : \E paid \in Int, r \in Int, rounded \in Nat :
        /\ Booked(p, paid, r, rounded)
        /\ Balances(p, paid, r, rounded)
        /\ Cost(p) \in Int /\ Cost(positions[Here]) \in Int
  BY OrderedBooks DEF IInv
<1>2. PICK paid \in Int, r \in Int, rounded \in Nat :
        /\ Booked(p, paid, r, rounded)
        /\ Balances(p, paid, r, rounded)
        /\ Cost(p) \in Int /\ Cost(positions[Here]) \in Int
  BY <1>1
<1>3. Here \in Symbol /\ positions \in [Symbol -> PositionState]
  BY OrderedBooks DEF IInv, TypeOK
<1>4. /\ account.cash \in Int /\ account.initial \in Int
      /\ account.realised_total \in Int /\ rounding \in Int
  BY DEF IInv, TypeOK, Account
<1> DEFINE e  == Exposure(positions)
           e2 == Exposure(positions')
           c  == Cost(p) - Cost(positions[Here])
           a  == account.cash + e
           b  == account.initial + account.realised_total
           a2 == account'.cash + e2
           b2 == account'.initial + account'.realised_total
<1>5. positions' = [positions EXCEPT ![Here] = p] /\ positions' \in [Symbol -> PositionState]
  BY <1>2, <1>3 DEF Booked
<1>6. e \in Int /\ e2 \in Int /\ c \in Int /\ e2 - e = c
  <2>1. e \in Int /\ e2 - e = c
    BY <1>3, <1>5, ExposureMoves
  <2>2. e2 \in Int
    BY <1>5, ExposureType
  <2> QED BY <1>2, <2>1, <2>2
<1>7. /\ account'.cash = account.cash - paid /\ account'.initial = account.initial
      /\ account'.realised_total = account.realised_total + r
      /\ rounding' = rounding + rounded
  BY <1>2 DEF Booked
<1> HIDE DEF e, e2, c
<1>8. a \in Int /\ b \in Int /\ a2 \in Int /\ b2 \in Int
  BY <1>4, <1>6, <1>7
<1>9. /\ a2 - b2 = (a - b) + (c - paid - r)
      /\ b2 - a2 = (b - a) + (paid + r - c)
  BY <1>4, <1>6, <1>7
<1>10. 2 * (Unit * (a - b)) <= rounding /\ 2 * (Unit * (b - a)) <= rounding
  <2>1. 2 * Unit * Distance(a, b) <= rounding
    BY DEF IInv, BookExplained, e
  <2> HIDE DEF a, b
  <2> QED BY <1>4, <1>8, <2>1, DistanceWithin
<1>11. /\ 2 * (Unit * (c - paid - r)) <= rounded
       /\ 2 * (Unit * (paid + r - c)) <= rounded
  <2>1. paid + r - c = paid + r - Cost(p) + Cost(positions[Here])
    BY <1>2 DEF c
  <2> QED BY <1>2, <2>1 DEF Balances, c
<1> HIDE DEF a, b, a2, b2
<1> DEFINE m == a - b
           n == b - a
           x == c - paid - r
           y == paid + r - c
<1>12. m \in Int /\ n \in Int /\ x \in Int /\ y \in Int /\ Unit \in Nat \ {0}
  BY <1>6, <1>8, UnitAssumption
<1> HIDE DEF m, n, x, y
<1>13. /\ Unit * (m + x) = Unit * m + Unit * x
       /\ Unit * (n + y) = Unit * n + Unit * y
       /\ Unit * m \in Int /\ Unit * x \in Int /\ Unit * n \in Int /\ Unit * y \in Int
  BY <1>12
<1>14. 2 * (Unit * (m + x)) <= rounding + rounded /\ 2 * (Unit * (n + y)) <= rounding + rounded
  <2>1. /\ 2 * (Unit * m) <= rounding /\ 2 * (Unit * n) <= rounding
        /\ 2 * (Unit * x) <= rounded /\ 2 * (Unit * y) <= rounded
    BY <1>10, <1>11 DEF m, n, x, y
  <2> QED BY <1>2, <1>4, <1>13, <2>1
<1>15. 2 * (Unit * (a2 - b2)) <= rounding' /\ 2 * (Unit * (b2 - a2)) <= rounding'
  BY <1>7, <1>9, <1>14 DEF m, n, x, y
<1>16. 2 * Unit * Distance(a2, b2) <= rounding'
  <2>1. rounding' \in Int
    BY <1>2, <1>4, <1>7
  <2> QED BY <1>8, <1>15, <2>1, DistanceWithin
<1> QED BY <1>16 DEF BookExplained, a2, b2, e2

LEMMA OrderedTyped ==
  ASSUME IInv, ExamineOrdered
  PROVE  TypeOK' /\ dayResult' = account'.realised_today /\ WindowEndsNow'
<1>1. PICK p \in PositionState : \E paid \in Int, r \in Int, rounded \in Nat :
        Booked(p, paid, r, rounded) /\ (p.quantity = 0 => p = EmptyPosition)
  BY OrderedBooks DEF IInv
<1>2. PICK paid \in Int, r \in Int, rounded \in Nat :
        Booked(p, paid, r, rounded) /\ (p.quantity = 0 => p = EmptyPosition)
  BY <1>1
<1>3. Here \in Symbol
  BY OrderedBooks DEF IInv
<1>4. /\ positions \in [Symbol -> PositionState]
      /\ \A s \in Symbol : positions[s].quantity = 0 => positions[s] = EmptyPosition
      /\ positions' = [positions EXCEPT ![Here] = p]
  BY <1>2 DEF Booked, IInv, TypeOK
<1>5. /\ positions' \in [Symbol -> PositionState]
      /\ \A s \in Symbol : positions'[s].quantity = 0 => positions'[s] = EmptyPosition
  BY <1>2, <1>3, <1>4
<1>6. /\ account' \in Account /\ account'.counters_on = account.counters_on
      /\ account'.realised_today = account.realised_today + r
      /\ rounding' = rounding + rounded /\ dayResult' = dayResult + r
  BY <1>2 DEF Booked
<1>7. rounding' \in Nat /\ dayResult' \in Int /\ dayResult' = account'.realised_today
  BY <1>2, <1>6 DEF IInv, TypeOK
<1>8. /\ mandate' = mandate /\ today' = today
      /\ step' = step /\ price' = price /\ reference' = reference
  BY DEF ExamineOrdered
<1>9. turn' \in 0..(Len(Whitelist) + 1)
  <2>1. Len(Whitelist) \in Nat
    BY SandboxAssumption
  <2> QED BY <2>1 DEF ExamineOrdered, Turning
<1>10. fills' \in 0..MaxFills
  BY SandboxAssumption DEF ExamineOrdered, IInv, TypeOK
<1>11. highest' \in Int
  <2>1. MarketWorth(account', positions', reference) \in Int
    BY <1>5, <1>6, MarketWorthType DEF IInv, TypeOK
  <2> QED BY <2>1 DEF ExamineOrdered, GreatestOf, IInv, TypeOK
<1>12. account'.counters_on <= today'
  BY <1>6, <1>8 DEF IInv, TypeOK
<1>13. WindowEndsNow'
  BY <1>8 DEF IInv, WindowEndsNow
<1> QED BY <1>5, <1>6, <1>7, <1>8, <1>9, <1>10, <1>11, <1>12, <1>13 DEF IInv, TypeOK

\* What is read off the market is of its type.
LEMMA ReadingTyped ==
  ASSUME NEW m \in Readings
  PROVE  /\ m.step \in 0..WarmUp
         /\ m.price \in [Symbol -> Prices] /\ m.reference \in [Symbol -> Prices]
         /\ m.step = WarmUp => m.reference = m.price
  BY DEF Readings, Market

\* With nothing held nothing is exposed.
LEMMA NothingHeld ==
  Exposure([s \in Symbol |-> EmptyPosition]) = 0
<1> DEFINE held == [s \in Symbol |-> EmptyPosition]
           f    == [s \in Symbol |-> Cost(held[s])]
<1>1. Cost(EmptyPosition) = 0
  BY NoLotsNoWorth DEF Cost, EmptyPosition
<1>2. \A s \in Symbol : f[s] = 0
  BY <1>1
<1>3. f \in [Symbol -> Int]
  BY <1>1
<1>4. Exposure(held) = SumFunction(f)
  BY DEF Exposure
<1> HIDE DEF f, held
<1>5. IsFiniteSet(Symbol)
  BY SandboxAssumption
<1>6. SumFunction(f) = 0
  BY <1>2, <1>3, <1>5, SumOfZeros
<1> QED BY <1>4, <1>6 DEF held

\* An account just opened, or just reset, is explained by its stake alone.
LEMMA FreshExplained ==
  ASSUME NEW stake \in Nat, NEW day \in Nat
  PROVE  /\ FreshAccount(stake, day) \in Account
         /\ FreshAccount(stake, day).realised_today = 0
         /\ FreshAccount(stake, day).counters_on = day
         /\ 2 * Unit * Distance(FreshAccount(stake, day).cash
                                  + Exposure([s \in Symbol |-> EmptyPosition]),
                                FreshAccount(stake, day).initial
                                  + FreshAccount(stake, day).realised_total) <= 0
<1>1. /\ FreshAccount(stake, day).cash = stake /\ FreshAccount(stake, day).initial = stake
      /\ FreshAccount(stake, day).realised_total = 0
      /\ FreshAccount(stake, day).realised_today = 0
      /\ FreshAccount(stake, day).counters_on = day
      /\ FreshAccount(stake, day) \in Account
  BY DEF FreshAccount, Account
<1>2. Distance(stake + 0, stake + 0) = 0
  BY DEF Distance, GreatestOf
<1>3. 2 * Unit * 0 <= 0
  BY UnitAssumption
<1> QED BY <1>1, <1>2, <1>3, NothingHeld

LEMMA EmptyTyped ==
  /\ [s \in Symbol |-> EmptyPosition] \in [Symbol -> PositionState]
  /\ \A s \in Symbol : [x \in Symbol |-> EmptyPosition][s] = EmptyPosition
<1>1. EmptyPosition \in PositionState
  BY DEF EmptyPosition, PositionState
<1> QED BY <1>1

LEMMA InitIInv == Init => IInv
<1> SUFFICES ASSUME Init PROVE IInv
  OBVIOUS
<1>1. PICK stake \in Stakes : account = FreshAccount(stake, 1) /\ highest = stake
  BY DEF Init
<1>2. stake \in Nat /\ 1 \in Nat
  BY SandboxAssumption
<1>3. /\ account \in Account /\ account.realised_today = 0 /\ account.counters_on = 1
      /\ 2 * Unit * Distance(account.cash + Exposure(positions),
                             account.initial + account.realised_total) <= 0
  BY <1>1, <1>2, FreshExplained DEF Init
<1>4. /\ positions \in [Symbol -> PositionState]
      /\ \A s \in Symbol : positions[s] = EmptyPosition
  BY EmptyTyped DEF Init
<1>5. BookExplained
  BY <1>3 DEF BookExplained, Init
<1>6. 1 \in 1..MaxDay /\ 0 \in 0..MaxFills /\ 0 \in 0..(Len(Whitelist) + 1)
  BY SandboxAssumption
<1>7. highest \in Int
  BY <1>1, <1>2
<1>8. PICK m \in Readings : step = m.step /\ price = m.price /\ reference = m.reference
  BY DEF Init
<1>9. /\ step \in 0..WarmUp /\ price \in [Symbol -> Prices]
      /\ reference \in [Symbol -> Prices] /\ WindowEndsNow
  BY <1>8, ReadingTyped DEF WindowEndsNow
<1> QED BY <1>3, <1>4, <1>5, <1>6, <1>7, <1>9 DEF IInv, TypeOK, Init

\* The invariant is kept by every step.
LEMMA StepIInv == IInv /\ [Next]_vars => IInv'
<1> SUFFICES ASSUME IInv, [Next]_vars PROVE IInv'
  OBVIOUS
<1> USE DEF IInv
<1>0. Len(Whitelist) \in Nat
  BY SandboxAssumption
<1>1. CASE StartTour
  <2>1. AccountFor(account) \in Account
    <3>1. CASE account.counters_on = today
      BY <3>1 DEF AccountFor, TypeOK
    <3>2. CASE account.counters_on # today
      <4>1. account \in Account /\ today \in Nat
        BY SandboxAssumption DEF TypeOK
      <4>2. AccountFor(account) =
              [ cash |-> account.cash, initial |-> account.initial, peak |-> account.peak,
                counters_on |-> today, orders_today |-> 0, realised_today |-> 0,
                realised_total |-> account.realised_total ]
        BY <3>2, <4>1 DEF AccountFor, Account
      <4> QED BY <4>1, <4>2 DEF Account
    <3> QED BY <3>1, <3>2
  <2>2. /\ AccountFor(account).counters_on = today
        /\ AccountFor(account).cash = account.cash
        /\ AccountFor(account).initial = account.initial
        /\ AccountFor(account).realised_total = account.realised_total
        /\ IF account.counters_on = today
           THEN AccountFor(account).realised_today = account.realised_today
           ELSE AccountFor(account).realised_today = 0
    BY DEF AccountFor, TypeOK, Account
  <2>3. BookExplained'
    BY <1>1, <2>2 DEF StartTour, BookExplained
  <2>4. dayResult' = account'.realised_today /\ dayResult' \in Int
    BY <1>1, <2>2 DEF StartTour, TypeOK
  <2>5. turn' \in 0..(Len(Whitelist) + 1)
    BY <1>0, <1>1 DEF StartTour
  <2>6. account'.counters_on <= today'
    BY <1>1, <2>2 DEF StartTour, TypeOK
  <2>7. account' \in Account
    BY <1>1, <2>1 DEF StartTour
  <2> QED BY <1>1, <2>3, <2>4, <2>5, <2>6, <2>7 DEF StartTour, TypeOK, WindowEndsNow
<1>2. CASE ExamineWithoutOrder
  <2>1. turn' \in 0..(Len(Whitelist) + 1)
    BY <1>0, <1>2 DEF ExamineWithoutOrder, Turning
  <2> QED BY <1>2, <2>1 DEF ExamineWithoutOrder, TypeOK, BookExplained, WindowEndsNow
<1>3. CASE ExamineNotSent
  <2>1. turn' \in 0..(Len(Whitelist) + 1)
    BY <1>0, <1>3 DEF ExamineNotSent, Turning
  <2>2. Here \in Symbol
    BY <1>3, SandboxAssumption DEF ExamineNotSent, Turning, Here
  <2>3. PeakNow \in Int
    BY <2>2, StateForType
  <2> DEFINE k == PeakNow
  <2>4. account' = [account EXCEPT !.peak = k]
    BY <1>3 DEF ExamineNotSent
  <2> HIDE DEF k
  <2>5. /\ account' \in Account /\ account'.counters_on = account.counters_on
        /\ account'.cash = account.cash /\ account'.initial = account.initial
        /\ account'.realised_total = account.realised_total
        /\ account'.realised_today = account.realised_today
    BY <2>3, <2>4 DEF TypeOK, Account, k
  <2>6. BookExplained'
    BY <1>3, <2>5 DEF ExamineNotSent, BookExplained
  <2>7. dayResult' = account'.realised_today
    BY <1>3, <2>5 DEF ExamineNotSent
  <2>8. account'.counters_on <= today'
    BY <1>3, <2>5 DEF ExamineNotSent, TypeOK
  <2> QED BY <1>3, <2>1, <2>5, <2>6, <2>7, <2>8 DEF ExamineNotSent, TypeOK, WindowEndsNow
<1>4. CASE ExamineOrdered
  BY <1>4, OrderedTyped, OrderedExplained
<1>5. CASE EndTour
  <2>1. PICK m \in Readings : step' = m.step /\ price' = m.price /\ reference' = m.reference
    BY <1>5 DEF EndTour, Moved
  <2>2. /\ step' \in 0..WarmUp /\ price' \in [Symbol -> Prices]
        /\ reference' \in [Symbol -> Prices] /\ WindowEndsNow'
    BY <2>1, ReadingTyped DEF WindowEndsNow
  <2>3. turn' \in 0..(Len(Whitelist) + 1)
    BY <1>0, <1>5 DEF EndTour
  <2>4. MarketWorth(account, positions, reference') \in Int
    BY <2>2, MarketWorthType DEF TypeOK
  <2>5. highest' \in Int
    BY <1>5, <2>4 DEF EndTour, GreatestOf, TypeOK
  <2>6. BookExplained'
    BY <1>5 DEF EndTour, BookExplained
  <2> QED BY <1>5, <2>2, <2>3, <2>5, <2>6 DEF EndTour, TypeOK
<1>6. CASE ResetSandbox \/ StartSession
  <2>0. Restaked
    BY <1>6 DEF ResetSandbox, StartSession
  <2>1. PICK stake \in Stakes : account' = FreshAccount(stake, today) /\ highest' = stake
    BY <2>0 DEF Restaked
  <2>2. stake \in Nat /\ today \in Nat
    BY SandboxAssumption DEF TypeOK
  <2>3. /\ account' \in Account /\ account'.realised_today = 0 /\ account'.counters_on = today
        /\ 2 * Unit * Distance(account'.cash + Exposure(positions'),
                               account'.initial + account'.realised_total) <= 0
    BY <2>0, <2>1, <2>2, FreshExplained DEF Restaked
  <2>4. /\ positions' \in [Symbol -> PositionState]
        /\ \A s \in Symbol : positions'[s] = EmptyPosition
    BY <2>0, EmptyTyped DEF Restaked
  <2>5. BookExplained'
    BY <2>0, <2>3 DEF BookExplained, Restaked
  <2>6. 0 \in 0..MaxFills /\ highest' \in Int
    BY <2>1, <2>2, SandboxAssumption
  <2>7. account'.counters_on <= today'
    BY <2>0, <2>2, <2>3 DEF Restaked
  <2>8. /\ step' \in 0..WarmUp /\ price' \in [Symbol -> Prices]
        /\ reference' \in [Symbol -> Prices] /\ WindowEndsNow'
    <3>1. CASE ResetSandbox
      BY <3>1 DEF ResetSandbox, TypeOK, WindowEndsNow
    <3>2. CASE StartSession
      <4>1. PICK m \in Readings :
              step' = m.step /\ price' = m.price /\ reference' = m.reference
        BY <3>2 DEF StartSession
      <4> QED BY <4>1, ReadingTyped DEF WindowEndsNow
    <3> QED BY <1>6, <3>1, <3>2
  <2> QED BY <2>0, <2>3, <2>4, <2>5, <2>6, <2>7, <2>8 DEF Restaked, TypeOK
<1>7. CASE WritePolicy
  BY <1>7 DEF WritePolicy, TypeOK, BookExplained, WindowEndsNow
<1>8. CASE DayTurns
  <2>1. today' \in 1..MaxDay /\ account.counters_on <= today'
    BY <1>8, SandboxAssumption DEF DayTurns, TypeOK, Account
  <2> QED BY <1>8, <2>1 DEF DayTurns, TypeOK, BookExplained, WindowEndsNow
<1>9. CASE UNCHANGED vars
  BY <1>9 DEF vars, TypeOK, BookExplained, WindowEndsNow
<1> QED BY <1>1, <1>2, <1>3, <1>4, <1>5, <1>6, <1>7, <1>8, <1>9 DEF Next

THEOREM SandboxInvariance == Spec => []IInv
  BY InitIInv, StepIInv, PTL DEF Spec

\* The types, and that a closed position keeps no memory of its price, always.
THEOREM SandboxTypesAlways == Spec => []TypeOK
<1>1. IInv => TypeOK
  BY DEF IInv
<1> QED BY <1>1, SandboxInvariance, PTL

\* The cash, the book at cost, the stake and the realised result explain one
\* another after any number of fills, at any prices.
THEOREM BookExplainedAlways == Spec => []BookExplained
<1>1. IInv => BookExplained
  BY DEF IInv
<1> QED BY <1>1, SandboxInvariance, PTL

-----------------------------------------------------------------------------
(* What no step may do.                                                    *)

\* A position grows only where a tour has just bought it, within the mandate.
LEMMA OnlyPurchasesGrow ==
  ASSUME IInv, [Next]_vars, NEW s \in Symbol, Grew(s)
  PROVE  /\ ExamineOrdered /\ s = Here
         /\ \E fill \in Fill :
              /\ Settle("buy", fill) /\ Within(fill.quantity)
              /\ fill.price = Executed("buy", QuoteOf(Here), SlippageBps)
              /\ positions'[s].quantity = positions[s].quantity + fill.quantity
<1>1. positions[s].quantity \in Nat /\ positions'[s].quantity > positions[s].quantity
  BY DEF IInv, TypeOK, PositionState, Grew
<1>2. positions' # positions
  BY <1>1
<1>3. ~Restaked
  <2> SUFFICES ASSUME Restaked PROVE FALSE
    OBVIOUS
  <2>1. positions'[s].quantity = 0
    BY DEF Restaked, EmptyPosition
  <2> QED BY <1>1, <2>1
<1>4. ExamineOrdered
  BY <1>2, <1>3 DEF Next, vars, StartTour, ExamineWithoutOrder, ExamineNotSent,
                    EndTour, ResetSandbox, StartSession, WritePolicy, DayTurns
<1>5. Here \in Symbol
  BY <1>4, OrderedMeans DEF IInv
<1>6. PICK side \in Sides, fill \in Fill :
        /\ Settle(side, fill)
        /\ fill.price = Executed(side, QuoteOf(Here), SlippageBps)
        /\ side = "buy" => Within(fill.quantity)
        /\ side = "sell" => fill.quantity <= positions[Here].quantity
  BY <1>4, OrderedMeans DEF IInv
<1>7. /\ positions \in [Symbol -> PositionState] /\ positions[Here] \in PositionState
      /\ account.cash \in Int
  BY <1>5 DEF IInv, TypeOK, Account
<1>8. side = "buy"
  <2> SUFFICES ASSUME side = "sell" PROVE FALSE
    BY DEF Sides
  <2> DEFINE p == Sold(positions[Here], account.cash, fill).position
  <2>1. positions' = [positions EXCEPT ![Here] = p]
    BY <1>5, <1>6, SettleSells DEF Booked, IInv
  <2>2. p.quantity = positions[Here].quantity - fill.quantity
    BY <1>6, <1>7, SoldCost
  <2> HIDE DEF p
  <2>3. s = Here
    BY <1>1, <1>7, <2>1
  <2>4. positions'[s].quantity = positions[s].quantity - fill.quantity
    BY <1>7, <2>1, <2>2, <2>3
  <2> QED BY <1>1, <2>4 DEF Fill
<1> DEFINE b == Bought(positions[Here], account.cash, fill).position
<1>9. positions' = [positions EXCEPT ![Here] = b]
  BY <1>5, <1>6, <1>8, SettleBuys DEF Booked, IInv
<1>10. b.quantity = positions[Here].quantity + fill.quantity
  BY <1>7, BoughtCost
<1> HIDE DEF b
<1>11. s = Here
  BY <1>1, <1>7, <1>9
<1>12. positions'[s].quantity = positions[s].quantity + fill.quantity
  BY <1>7, <1>9, <1>10, <1>11
<1> QED BY <1>4, <1>6, <1>8, <1>11, <1>12

\* The close a purchase is checked at is the one the gate was handed.
LEMMA CheckedAtReference ==
  ASSUME IInv, NEW s \in Symbol
  PROVE  CheckedAt(s) = reference[s]
<1>1. step < WarmUp \/ step = WarmUp
  BY SandboxAssumption DEF IInv, TypeOK
<1> QED BY <1>1, SandboxAssumption DEF IInv, WindowEndsNow, CheckedAt

\* Once the day has lost its ceiling, no step makes a position larger before
\* the counters start again.
THEOREM LossClosesTheDayAlways == Spec => LossClosesTheDay
<1>1. ASSUME IInv, [Next]_vars, -dayResult >= mandate.max_daily_loss
      PROVE  \A s \in Symbol : ~Grew(s)
  <2> SUFFICES ASSUME NEW s \in Symbol, Grew(s) PROVE FALSE
    OBVIOUS
  <2>1. PICK fill \in Fill : Within(fill.quantity)
    BY <1>1, OnlyPurchasesGrow
  <2>2. -account.realised_today < mandate.max_daily_loss
    BY <2>1 DEF Within
  <2>3. /\ dayResult = account.realised_today /\ dayResult \in Int
        /\ mandate.max_daily_loss \in Int
    BY <1>1, SandboxAssumption DEF IInv, TypeOK, Mandate
  <2> QED BY <1>1, <2>2, <2>3
<1>2. IInv /\ [Next]_vars
        => [-dayResult >= mandate.max_daily_loss => \A s \in Symbol : ~Grew(s)]_vars
  BY <1>1
<1> QED BY <1>2, SandboxInvariance, PTL DEF Spec, LossClosesTheDay

\* What a purchase leaves is inside the mandate, but for what it pays above
\* the close it was checked at: position, exposure, reserve and the day's orders,
\* for any distance between that close and the one the book quotes around.
THEOREM BuyKeepsMandateAlways == Spec => BuyKeepsMandate
<1> DEFINE Kept(s) ==
      LET over == PaidAbove(s, positions'[s].quantity - positions[s].quantity)
      IN /\ ValueCents(positions'[s].quantity, CheckedAt(s)) <= mandate.max_position + 1
         /\ 2 * Unit * (Exposure(positions') - mandate.max_exposure - over)
              <= positions'[s].quantity + Unit
         /\ account'.cash >= mandate.min_cash_buffer - over
         /\ account'.orders_today <= mandate.max_orders_per_day
<1>1. ASSUME IInv, [Next]_vars, NEW s \in Symbol, Grew(s) PROVE Kept(s)
  <2>1. s = Here /\ ExamineOrdered
    BY <1>1, OnlyPurchasesGrow
  <2>2. PICK fill \in Fill :
          /\ Settle("buy", fill) /\ Within(fill.quantity)
          /\ fill.price = Executed("buy", QuoteOf(Here), SlippageBps)
          /\ positions'[s].quantity = positions[s].quantity + fill.quantity
    BY <1>1, OnlyPurchasesGrow
  <2> DEFINE old  == positions[Here]
             q    == fill.quantity
             new  == Bought(old, account.cash, fill).position
             paid == ValueCents(q, fill.price)
             n    == ValueCents(q, CheckedAt(Here))
             e    == Exposure(positions)
             e2   == Exposure(positions')
             v    == ValueCents(old.quantity, CheckedAt(Here))
             v2   == ValueCents(old.quantity + q, CheckedAt(Here))
  <2>3. /\ positions \in [Symbol -> PositionState] /\ old \in PositionState
        /\ account.cash \in Int /\ account.orders_today \in Nat /\ Here \in Symbol
        /\ mandate.max_position \in Int /\ mandate.max_exposure \in Int
        /\ mandate.min_cash_buffer \in Int /\ mandate.max_orders_per_day \in Int
    <3>1. positions \in [Symbol -> PositionState] /\ account \in Account
      BY <1>1 DEF IInv, TypeOK
    <3>2. Here \in Symbol
      BY <1>1, <2>1
    <3>3. mandate \in Mandate
      BY <1>1, SandboxAssumption DEF IInv, TypeOK
    <3>4. account.cash \in Int /\ account.orders_today \in Nat
      BY <3>1 DEF Account
    <3>5. /\ mandate.max_position \in Int /\ mandate.max_exposure \in Int
          /\ mandate.min_cash_buffer \in Int
          /\ mandate.max_orders_per_day \in Int
      BY <3>3 DEF Mandate
    <3>6. old \in PositionState
      BY <3>1, <3>2
    <3> QED BY <3>1, <3>2, <3>4, <3>5, <3>6
  <2>4. old.quantity \in Nat /\ q \in Nat /\ CheckedAt(Here) \in Nat
    <3>1. old.quantity \in Nat
      BY <2>3 DEF PositionState
    <3>2. q \in Nat
      BY DEF Fill
    <3>3. reference \in [Symbol -> Nat]
      BY <1>1, SandboxAssumption DEF IInv, TypeOK
    <3>4. CheckedAt(Here) = reference[Here]
      BY <1>1, <2>3, CheckedAtReference
    <3> QED BY <2>3, <3>1, <3>2, <3>3, <3>4
  <2>5. Booked(new, paid, 0, new.quantity + Unit)
    BY <1>1, <2>2, <2>3, SettleBuys DEF IInv
  <2>6. /\ new \in PositionState /\ new.quantity = old.quantity + q
        /\ paid \in Nat /\ Cost(old) \in Nat /\ Cost(new) \in Nat
        /\ 2 * (Unit * (Cost(new) - Cost(old) - paid)) <= new.quantity + Unit
    BY <2>3, BoughtCost
  <2>7. n \in Nat
    BY <2>4, ValueCentsType
  <2>8. v \in Nat /\ v2 \in Nat /\ v2 <= v + n + 1
    <3> DEFINE k == old.quantity
               c == CheckedAt(Here)
    <3> HIDE DEF k, c
    <3>1. ValueCents(k + q, c) <= ValueCents(k, c) + ValueCents(q, c) + 1
      BY <2>4, ValueOfBoth DEF k, c
    <3>2. ValueCents(k, c) \in Nat
      BY <2>4, ValueCentsType DEF k, c
    <3>3. ValueCents(k + q, c) \in Nat
      <4>1. k + q \in Nat /\ c \in Nat
        BY <2>4 DEF k, c
      <4> QED BY <4>1, ValueCentsType
    <3> QED BY <3>1, <3>2, <3>3 DEF k, c
  <2>9. /\ positions' = [positions EXCEPT ![Here] = new]
        /\ account'.cash = account.cash - paid
        /\ account'.orders_today = account.orders_today + 1
    BY <2>5 DEF Booked
  <2>10. e \in Int /\ e2 - e = Cost(new) - Cost(old)
    BY <2>3, <2>6, <2>9, ExposureMoves
  <2>11. e2 \in Int
    <3>1. positions' \in [Symbol -> PositionState]
      BY <2>3, <2>6, <2>9
    <3> QED BY <3>1, ExposureType
  <2>12. /\ v + n <= mandate.max_position /\ e + n <= mandate.max_exposure
         /\ n <= account.cash - mandate.min_cash_buffer
         /\ account.orders_today < mandate.max_orders_per_day
    <3>1. CheckedAt(Here) = reference[Here]
      BY <1>1, <2>3, CheckedAtReference
    <3> QED BY <2>2, <3>1 DEF Within
  <2>13. positions'[s].quantity - positions[s].quantity = q
    BY <2>1, <2>2, <2>3, <2>4
  <2>14. PaidAbove(s, q) = paid - n
    BY <2>1, <2>2 DEF PaidAbove
  <2>15. positions'[s].quantity = old.quantity + q
    BY <2>1, <2>2
  <2> HIDE DEF paid, n, e, e2, v, v2, new
  <2>16. v2 <= mandate.max_position + 1
    BY <2>3, <2>7, <2>8, <2>12
  <2>17. account'.cash >= mandate.min_cash_buffer - (paid - n)
    BY <2>3, <2>6, <2>7, <2>9, <2>12
  <2>18. account'.orders_today <= mandate.max_orders_per_day
    BY <2>3, <2>9, <2>12
  <2>19. 2 * Unit * (e2 - mandate.max_exposure - (paid - n)) <= old.quantity + q + Unit
    <3> DEFINE x == e2 - mandate.max_exposure - (paid - n)
               y == Cost(new) - Cost(old) - paid
    <3>1. x \in Int /\ y \in Int /\ x <= y /\ Unit \in Nat \ {0}
      BY <2>3, <2>6, <2>7, <2>10, <2>11, <2>12, UnitAssumption
    <3>2. 2 * (Unit * y) <= new.quantity + Unit
      BY <2>6
    <3> HIDE DEF x, y
    <3>3. Unit * x <= Unit * y /\ Unit * x \in Int /\ Unit * y \in Int
      BY <3>1
    <3>4. 2 * Unit * x = 2 * (Unit * x)
      BY <3>1
    <3>5. 2 * Unit * x <= old.quantity + q + Unit
      BY <2>4, <2>6, <3>1, <3>2, <3>3, <3>4
    <3> QED BY <3>5 DEF x
  <2> QED BY <2>1, <2>13, <2>14, <2>15, <2>16, <2>17, <2>18, <2>19 DEF e2, v2
<1>2. IInv /\ [Next]_vars => [\A s \in Symbol : Grew(s) => Kept(s)]_vars
  BY <1>1
<1> QED BY <1>2, SandboxInvariance, PTL DEF Spec, BuyKeepsMandate

\* A fill raises the account's worth, at the market it was made in, by at most
\* a cent of rounding.
THEOREM TradingCostsMoneyAlways == Spec => TradingCostsMoney
<1>1. ASSUME IInv, [Next]_vars, price' = price, fills' = fills + 1
      PROVE  MarketWorth(account', positions', price)
               <= MarketWorth(account, positions, price) + 1
  <2>1. ExamineOrdered
    <3>1. fills \in Nat
      BY <1>1, SandboxAssumption DEF IInv, TypeOK
    <3>2. fills' # fills /\ fills' # 0
      BY <1>1, <3>1
    <3> QED BY <1>1, <3>2 DEF Next, vars, StartTour, ExamineWithoutOrder, ExamineNotSent,
                              EndTour, WritePolicy, DayTurns, ResetSandbox,
                              StartSession, Restaked
  <2>2. Here \in Symbol
    BY <1>1, <2>1, OrderedMeans DEF IInv
  <2>3. PICK side \in Sides, fill \in Fill :
          /\ Settle(side, fill)
          /\ fill.price = Executed(side, QuoteOf(Here), SlippageBps)
          /\ side = "sell" => fill.quantity <= positions[Here].quantity
    BY <1>1, <2>1, OrderedMeans DEF IInv
  <2> DEFINE old  == positions[Here]
             q    == fill.quantity
             c    == price[Here]
             n    == ValueCents(q, c)
             paid == ValueCents(q, fill.price)
             v    == ValueCents(old.quantity, c)
             w    == MarketWorth(account, positions, price)
             w2   == MarketWorth(account', positions', price)
  <2>4. /\ positions \in [Symbol -> PositionState] /\ old \in PositionState
        /\ account.cash \in Int /\ price \in [Symbol -> Prices] /\ account \in Account
    BY <1>1, <2>2 DEF IInv, TypeOK, Account
  <2>5. old.quantity \in Nat /\ q \in Nat /\ c \in Nat /\ fill.price \in Nat
    BY <2>2, <2>4, SandboxAssumption DEF PositionState, Fill
  <2>6. n \in Nat /\ paid \in Nat /\ v \in Nat
    <3>1. n \in Nat
      <4> HIDE DEF q, c
      <4> QED BY <2>5, ValueCentsType
    <3>2. paid \in Nat
      <4> HIDE DEF q
      <4> QED BY <2>5, ValueCentsType
    <3>3. v \in Nat
      <4> HIDE DEF c, old
      <4> QED BY <2>5, ValueCentsType
    <3> QED BY <3>1, <3>2, <3>3
  <2>7. CASE side = "buy"
    <3> DEFINE new == Bought(old, account.cash, fill).position
               v2  == ValueCents(new.quantity, c)
    <3>1. Booked(new, paid, 0, new.quantity + Unit)
      BY <1>1, <2>2, <2>3, <2>7, SettleBuys DEF IInv
    <3>2. new \in PositionState /\ new.quantity = old.quantity + q
      BY <2>4, BoughtCost
    <3> HIDE DEF new
    <3>3. /\ positions' = [positions EXCEPT ![Here] = new]
          /\ account'.cash = account.cash - paid
      BY <3>1 DEF Booked
    <3>4. account'.cash \in Int
      <4> HIDE DEF paid
      <4> QED BY <2>4, <2>6, <3>3
    <3>5. w \in Int /\ w2 \in Int /\ w2 - w = account'.cash - account.cash + v2 - v
      <4>1. MarketWorth(account', [positions EXCEPT ![Here] = new], price)
              - MarketWorth(account, positions, price)
              = account'.cash - account.cash + v2 - v
        BY <2>2, <2>4, <3>2, <3>4, WorthMoves
      <4>2. /\ MarketWorth(account, positions, price) \in Int
            /\ MarketWorth(account', [positions EXCEPT ![Here] = new], price) \in Int
        BY <2>2, <2>4, <3>2, <3>4, WorthMoves
      <4> QED BY <3>3, <4>1, <4>2
    <3>6. v2 \in Nat /\ v2 <= v + n + 1
      <4> DEFINE k == old.quantity
      <4> HIDE DEF k, c, q
      <4>1. ValueCents(k + q, c) <= ValueCents(k, c) + ValueCents(q, c) + 1
        BY <2>5, ValueOfBoth DEF k
      <4>2. k + q \in Nat
        BY <2>5 DEF k
      <4>3. ValueCents(k + q, c) \in Nat
        BY <2>5, <4>2, ValueCentsType
      <4> QED BY <3>2, <4>1, <4>3 DEF k
    <3>7. n <= paid
      <4>1. c <= fill.price
        BY <2>2, <2>3, <2>4, <2>7, ExecutedAgainst
      <4> HIDE DEF c, q
      <4> QED BY <2>5, <4>1, ValueRisesWithPrice
    <3> HIDE DEF v, n, paid, v2, w, w2
    <3>8. w2 <= w + 1
      BY <2>4, <2>6, <3>3, <3>5, <3>6, <3>7
    <3> QED BY <3>8 DEF w, w2
  <2>8. CASE side = "sell"
    <3> DEFINE new == Sold(old, account.cash, fill).position
               v2  == ValueCents(new.quantity, c)
    <3>1. Booked(new, -paid, paid - ValueCents(q, old.average), 2 * Unit)
      BY <1>1, <2>2, <2>3, <2>8, SettleSells DEF IInv
    <3>2. new \in PositionState /\ new.quantity = old.quantity - q
      BY <2>3, <2>4, <2>8, SoldCost
    <3> HIDE DEF new
    <3>3. /\ positions' = [positions EXCEPT ![Here] = new]
          /\ account'.cash = account.cash - (-paid)
      BY <3>1 DEF Booked
    <3>4. account'.cash \in Int
      <4> HIDE DEF paid
      <4> QED BY <2>4, <2>6, <3>3
    <3>5. w \in Int /\ w2 \in Int /\ w2 - w = account'.cash - account.cash + v2 - v
      <4>1. MarketWorth(account', [positions EXCEPT ![Here] = new], price)
              - MarketWorth(account, positions, price)
              = account'.cash - account.cash + v2 - v
        BY <2>2, <2>4, <3>2, <3>4, WorthMoves
      <4>2. /\ MarketWorth(account, positions, price) \in Int
            /\ MarketWorth(account', [positions EXCEPT ![Here] = new], price) \in Int
        BY <2>2, <2>4, <3>2, <3>4, WorthMoves
      <4> QED BY <3>3, <4>1, <4>2
    <3>6. v2 \in Nat /\ v2 + n <= v + 1
      <4> DEFINE k == new.quantity
      <4>1. k \in Nat /\ k + q = old.quantity
        BY <2>5, <3>2 DEF PositionState
      <4> HIDE DEF k, c, q
      <4>2. ValueCents(k, c) + ValueCents(q, c) <= ValueCents(k + q, c) + 1
        BY <2>5, <4>1, ValueOfBoth
      <4>3. ValueCents(k, c) \in Nat
        BY <2>5, <4>1, ValueCentsType
      <4> QED BY <4>1, <4>2, <4>3 DEF k
    <3>7. paid <= n
      <4>1. fill.price <= c
        BY <2>2, <2>3, <2>4, <2>8, ExecutedAgainst
      <4> HIDE DEF c, q
      <4> QED BY <2>5, <4>1, ValueRisesWithPrice
    <3> HIDE DEF v, n, paid, v2, w, w2
    <3>8. w2 <= w + 1
      BY <2>4, <2>6, <3>3, <3>5, <3>6, <3>7
    <3> QED BY <3>8 DEF w, w2
  <2> QED BY <2>7, <2>8 DEF Sides
<1>2. IInv /\ [Next]_vars
        => [price' = price /\ fills' = fills + 1
              => MarketWorth(account', positions', price)
                   <= MarketWorth(account, positions, price) + 1]_vars
  BY <1>1
<1> QED BY <1>2, SandboxInvariance, PTL DEF Spec, TradingCostsMoney

-----------------------------------------------------------------------------
(* The books.                                                              *)

\* The figures as DoubleEntry reads them.
Figures ==
  << account.cash, [s \in Symbol |-> positions[s].quantity],
     [s \in Symbol |-> Cost(positions[s])],
     account.realised_total, account.realised_today >>

\* A position replaced is one entry replaced.
LEMMA OneEntryMoves ==
  ASSUME positions \in [Symbol -> PositionState], NEW s \in Symbol,
         NEW p \in PositionState, positions' = [positions EXCEPT ![s] = p]
  PROVE  /\ [x \in Symbol |-> positions'[x].quantity]
              = [[x \in Symbol |-> positions[x].quantity] EXCEPT ![s] = p.quantity]
         /\ [x \in Symbol |-> Cost(positions'[x])]
              = [[x \in Symbol |-> Cost(positions[x])] EXCEPT ![s] = Cost(p)]
<1>1. positions'[s] = p /\ \A x \in Symbol \ {s} : positions'[x] = positions[x]
  OBVIOUS
<1>2. [x \in Symbol |-> positions'[x].quantity]
        = [[x \in Symbol |-> positions[x].quantity] EXCEPT ![s] = p.quantity]
  BY <1>1
<1>3. [x \in Symbol |-> Cost(positions'[x])]
        = [[x \in Symbol |-> Cost(positions[x])] EXCEPT ![s] = Cost(p)]
  BY <1>1
<1> QED BY <1>2, <1>3

\* A settled purchase is an entry of the books.
LEMMA PurchaseEntered ==
  ASSUME TypeOK, NEW s \in Symbol, s = Here, NEW fill \in Fill, Settle("buy", fill)
  PROVE  Books!Buy(s)
<1> DEFINE old  == positions[s]
           p    == Bought(old, account.cash, fill).position
           paid == ValueCents(fill.quantity, fill.price)
           held == [x \in Symbol |-> positions[x].quantity]
           cost == [x \in Symbol |-> Cost(positions[x])]
<1>1. /\ positions \in [Symbol -> PositionState] /\ old \in PositionState
      /\ account \in Account /\ account.cash \in Int /\ Unit \in Nat \ {0}
  BY UnitAssumption DEF TypeOK, Account
<1>2. Booked(p, paid, 0, p.quantity + Unit)
  BY SettleBuys
<1>3. /\ p \in PositionState /\ p.quantity = old.quantity + fill.quantity
      /\ paid \in Nat /\ Cost(old) \in Nat /\ Cost(p) \in Nat
      /\ 2 * (Unit * (Cost(p) - Cost(old) - paid)) <= p.quantity + Unit
      /\ 2 * (Unit * (Cost(old) + paid - Cost(p))) <= p.quantity + Unit
  BY <1>1, BoughtCost
<1> HIDE DEF p, paid
<1>4. /\ positions' = [positions EXCEPT ![s] = p]
      /\ account'.cash = account.cash - paid
      /\ account'.realised_today = account.realised_today
      /\ account'.realised_total = account.realised_total
  BY <1>1, <1>2 DEF Booked, Account
<1>5. /\ [x \in Symbol |-> positions'[x].quantity] = [held EXCEPT ![s] = p.quantity]
      /\ [x \in Symbol |-> Cost(positions'[x])] = [cost EXCEPT ![s] = Cost(p)]
  BY <1>1, <1>3, <1>4, OneEntryMoves
<1>6. /\ held[s] = old.quantity /\ cost[s] = Cost(old)
      /\ [x \in Symbol |-> positions'[x].quantity][s] = p.quantity
      /\ [x \in Symbol |-> Cost(positions'[x])][s] = Cost(p)
  BY <1>4, <1>1
<1>7. p.quantity > old.quantity
  BY <1>1, <1>3 DEF Fill, PositionState
<1>8. account'.cash <= account.cash /\ account.cash - account'.cash = paid
  BY <1>1, <1>3, <1>4
<1>9. Books!Near(Cost(p) - Cost(old), paid, p.quantity + Unit)
  <2> DEFINE x == Cost(p) - Cost(old) - paid
             y == Cost(old) + paid - Cost(p)
  <2>1. x \in Int /\ y \in Int
    BY <1>3
  <2>2. /\ (Cost(p) - Cost(old)) - paid = x /\ paid - (Cost(p) - Cost(old)) = y
        /\ 2 * (Unit * x) <= p.quantity + Unit /\ 2 * (Unit * y) <= p.quantity + Unit
    BY <1>3
  <2> HIDE DEF x, y
  <2>3. 2 * Unit * x = 2 * (Unit * x) /\ 2 * Unit * y = 2 * (Unit * y)
    BY <1>1, <2>1
  <2> QED BY <2>2, <2>3 DEF Books!Near
<1>10. Books!Only(s)
  BY <1>5, <1>6 DEF Books!Only
<1> HIDE DEF old, held, cost
<1> QED BY <1>4, <1>6, <1>7, <1>8, <1>9, <1>10 DEF Books!Buy, held, cost

\* A settled sale is one too.
LEMMA SaleEntered ==
  ASSUME TypeOK, NEW s \in Symbol, s = Here, NEW fill \in Fill, Settle("sell", fill),
         fill.quantity <= positions[s].quantity
  PROVE  Books!Sell(s)
<1> DEFINE old   == positions[s]
           p     == Sold(old, account.cash, fill).position
           gross == ValueCents(fill.quantity, fill.price)
           sold  == ValueCents(fill.quantity, old.average)
           held  == [x \in Symbol |-> positions[x].quantity]
           cost  == [x \in Symbol |-> Cost(positions[x])]
<1>1. /\ positions \in [Symbol -> PositionState] /\ old \in PositionState
      /\ old.quantity \in Nat /\ old.average \in Nat /\ fill.quantity \in Nat \ {0}
      /\ account \in Account /\ account.cash \in Int /\ Unit \in Nat \ {0}
      /\ account.realised_total \in Int /\ account.realised_today \in Int
  BY UnitAssumption DEF TypeOK, Account, PositionState, Fill
<1>2. Booked(p, -gross, gross - sold, 2 * Unit)
  BY SettleSells
<1>3. /\ p \in PositionState /\ p.quantity = old.quantity - fill.quantity
      /\ p.quantity = 0 => p = EmptyPosition
      /\ sold \in Nat /\ Cost(old) \in Nat /\ Cost(p) \in Nat
      /\ Cost(p) + sold <= Cost(old) + 1
      /\ Cost(old) <= Cost(p) + sold + 1
  BY <1>1, SoldCost
<1>4. gross \in Nat
  <2>1. fill.quantity \in Nat /\ fill.price \in Nat
    BY DEF Fill
  <2> QED BY <2>1, ValueCentsType
<1>5. p.quantity = 0 => sold = Cost(old) /\ Cost(p) = 0
  <2> SUFFICES ASSUME p.quantity = 0 PROVE sold = Cost(old) /\ Cost(p) = 0
    OBVIOUS
  <2>1. fill.quantity = old.quantity
    BY <1>1, <1>3
  <2>2. Cost(EmptyPosition) = 0
    BY NoLotsNoWorth DEF Cost, EmptyPosition
  <2> HIDE DEF p
  <2> QED BY <1>3, <2>1, <2>2 DEF Cost
<1>6. Cost(p) <= Cost(old)
  <2>1. CASE p.quantity = 0
    BY <1>3, <1>5, <2>1
  <2>2. CASE p.quantity # 0
    <3>1. p.average = old.average
      BY <2>2 DEF Sold
    <3> HIDE DEF p, old
    <3>2. p.quantity \in Nat /\ p.quantity <= old.quantity
      BY <1>1, <1>3 DEF PositionState
    <3> QED BY <1>1, <3>1, <3>2, ValueCentsMonotone DEF Cost
  <2> QED BY <2>1, <2>2
<1> HIDE DEF p, gross, sold
<1>7. /\ positions' = [positions EXCEPT ![s] = p]
      /\ account'.cash = account.cash + gross
      /\ account'.realised_today = account.realised_today + (gross - sold)
      /\ account'.realised_total = account.realised_total + (gross - sold)
  <2>1. account.cash - (-gross) = account.cash + gross
    BY <1>1, <1>4
  <2> QED BY <1>2, <2>1 DEF Booked
<1>8. /\ [x \in Symbol |-> positions'[x].quantity] = [held EXCEPT ![s] = p.quantity]
      /\ [x \in Symbol |-> Cost(positions'[x])] = [cost EXCEPT ![s] = Cost(p)]
  BY <1>1, <1>3, <1>7, OneEntryMoves
<1>9. /\ held[s] = old.quantity /\ cost[s] = Cost(old)
      /\ [x \in Symbol |-> positions'[x].quantity][s] = p.quantity
      /\ [x \in Symbol |-> Cost(positions'[x])][s] = Cost(p)
  BY <1>1, <1>7
<1>10. p.quantity < old.quantity
  BY <1>1, <1>3
<1> DEFINE gained == account'.realised_total - account.realised_total
           freed  == account'.cash - account.cash - gained
<1>11. /\ gained = gross - sold /\ freed = sold
       /\ account'.cash >= account.cash
       /\ account'.realised_today = account.realised_today + gained
  BY <1>1, <1>3, <1>4, <1>7
<1> HIDE DEF gained, freed
<1>12. Books!Near(Cost(old) - Cost(p), freed, 2 * Unit)
  <2> DEFINE x == (Cost(old) - Cost(p)) - freed
             y == freed - (Cost(old) - Cost(p))
  <2>1. x \in Int /\ y \in Int /\ x <= 1 /\ y <= 1
    BY <1>3, <1>11
  <2> HIDE DEF x, y
  <2>2. 2 * Unit * x <= 2 * Unit /\ 2 * Unit * y <= 2 * Unit
    BY <1>1, <2>1
  <2> QED BY <2>2 DEF Books!Near, x, y
<1>13. Books!Only(s)
  BY <1>8, <1>9 DEF Books!Only
<1> HIDE DEF old, held, cost
<1> QED BY <1>5, <1>6, <1>9, <1>10, <1>11, <1>12, <1>13
        DEF Books!Sell, held, cost, gained, freed

\* A stake put in, once or again.
LEMMA FreshFigures ==
  ASSUME NEW stake \in Nat, NEW day \in Nat
  PROVE  /\ FreshAccount(stake, day).cash = stake
         /\ FreshAccount(stake, day).realised_total = 0
         /\ FreshAccount(stake, day).realised_today = 0
         /\ [s \in Symbol |-> [x \in Symbol |-> EmptyPosition][s].quantity]
              = [s \in Symbol |-> 0]
         /\ [s \in Symbol |-> Cost([x \in Symbol |-> EmptyPosition][s])]
              = [s \in Symbol |-> 0]
<1>1. Cost(EmptyPosition) = 0
  BY NoLotsNoWorth DEF Cost, EmptyPosition
<1>2. EmptyPosition.quantity = 0
  BY DEF EmptyPosition
<1> QED BY <1>1, <1>2 DEF FreshAccount

\* The paper account keeps the books DoubleEntry describes, whatever the
\* prices, the mandates, the thresholds and the answers (engines/paper_book.py,
\* apply_fill; trading/service.py, _settle, account_for, reset_sandbox).
THEOREM KeepsTheBooksAlways == Spec => KeepsTheBooks
<1>1. ASSUME Init PROVE Books!Fresh
  <2>1. PICK stake \in Stakes : account = FreshAccount(stake, 1)
    BY <1>1 DEF Init
  <2>2. stake \in Nat /\ 1 \in Nat
    BY SandboxAssumption
  <2> QED BY <1>1, <2>1, <2>2, FreshFigures DEF Init, Books!Fresh
<1>2. ASSUME IInv, [Next]_vars PROVE [Books!Next]_Figures
  <2>1. CASE ExamineOrdered
    <3>1. Here \in Symbol /\ TypeOK
      BY <1>2, <2>1, OrderedMeans DEF IInv
    <3>2. PICK side \in Sides, fill \in Fill :
            /\ Settle(side, fill)
            /\ side = "sell" => fill.quantity <= positions[Here].quantity
      BY <2>1, <3>1, OrderedMeans
    <3>3. PICK s \in Symbol : s = Here
      BY <3>1
    <3>4. CASE side = "buy"
      BY <3>1, <3>2, <3>3, <3>4, PurchaseEntered DEF Books!Next
    <3>5. CASE side = "sell"
      BY <3>1, <3>2, <3>3, <3>5, SaleEntered DEF Books!Next
    <3> QED BY <3>4, <3>5 DEF Sides
  <2>2. CASE StartTour
    <3>1. account \in Account /\ account' = AccountFor(account) /\ positions' = positions
      BY <1>2, <2>2 DEF StartTour, IInv, TypeOK
    <3>2. /\ account'.cash = account.cash
          /\ account'.realised_total = account.realised_total
          /\ account'.realised_today \in {0, account.realised_today}
      BY <3>1 DEF AccountFor, Account
    <3>3. CASE account'.realised_today = 0
      BY <3>1, <3>2, <3>3 DEF Books!NewDay, Books!Next
    <3>4. CASE account'.realised_today = account.realised_today
      BY <3>1, <3>2, <3>4 DEF Figures
    <3> QED BY <3>2, <3>3, <3>4
  <2>3. CASE ResetSandbox \/ StartSession
    <3>0. Restaked
      BY <2>3 DEF ResetSandbox, StartSession
    <3>1. PICK stake \in Stakes : account' = FreshAccount(stake, today)
      BY <3>0 DEF Restaked
    <3>2. stake \in Nat /\ today \in Nat
      BY <1>2, SandboxAssumption DEF IInv, TypeOK
    <3>3. Books!Reset
      BY <3>0, <3>1, <3>2, FreshFigures DEF Restaked, Books!Reset, Books!Fresh
    <3> QED BY <3>3 DEF Books!Next
  <2>4. CASE ExamineNotSent
    <3>1. account \in Account /\ positions' = positions
      BY <1>2, <2>4 DEF ExamineNotSent, IInv, TypeOK
    <3>2. /\ account'.cash = account.cash
          /\ account'.realised_total = account.realised_total
          /\ account'.realised_today = account.realised_today
      BY <2>4, <3>1 DEF ExamineNotSent, Account
    <3> QED BY <3>1, <3>2 DEF Figures
  <2>5. CASE ExamineWithoutOrder \/ EndTour \/ WritePolicy \/ DayTurns \/ UNCHANGED vars
    <3>1. account' = account /\ positions' = positions
      BY <2>5 DEF ExamineWithoutOrder, EndTour, WritePolicy, DayTurns, vars
    <3> QED BY <3>1 DEF Figures
  <2> QED BY <1>2, <2>1, <2>2, <2>3, <2>4, <2>5 DEF Next
<1>3. Init => Books!Fresh
  BY <1>1
<1>4. IInv /\ [Next]_vars => [Books!Next]_Figures
  BY <1>2
<1> QED BY <1>3, <1>4, SandboxInvariance, PTL
        DEF Spec, KeepsTheBooks, Books!Spec, Books!figures, Figures
=============================================================================
