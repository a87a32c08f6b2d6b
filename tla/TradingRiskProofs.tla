------------------------- MODULE TradingRiskProofs -------------------------
(***************************************************************************)
(* What the mandate's gate guarantees for every mandate, every account and *)
(* every order, whatever the size of a lot.                                *)
(***************************************************************************)
EXTENDS TradingRisk, WellFoundedInduction, TLAPS

-----------------------------------------------------------------------------
(* Arithmetic.                                                             *)

\* Rounding a non-negative worth to the nearest cent never passes a whole
\* number of cents the exact worth does not pass (engines/quantity.py).
LEMMA HalfUpBounded ==
  ASSUME NEW n \in Nat, NEW d \in Nat \ {0}, NEW t \in Nat, n <= t * d
  PROVE  HalfUp(n, d) \in Nat /\ HalfUp(n, d) <= t
<1> DEFINE e == 2 * d
           x == 2 * n + d
<1>1. e \in Nat \ {0} /\ x \in Nat
  OBVIOUS
<1>2. x <= t * e + d
  <2>1. 2 * n <= 2 * (t * d)
    OBVIOUS
  <2>2. t * e = 2 * (t * d)
    OBVIOUS
  <2> QED BY <2>1, <2>2
<1>3. x < (t + 1) * e
  <2>1. (t + 1) * e = t * e + e
    OBVIOUS
  <2>2. d < e
    OBVIOUS
  <2> QED BY <1>2, <2>1, <2>2
<1>4. x \div e \in Nat /\ (x \div e) * e <= x
  BY <1>1
<1>5. x \div e <= t
  <2> SUFFICES ASSUME x \div e >= t + 1 PROVE FALSE
    BY <1>4
  <2>1. (x \div e) * e >= (t + 1) * e
    BY <1>1, <1>4
  <2> QED BY <2>1, <1>3, <1>4
<1> QED BY <1>4, <1>5 DEF HalfUp

\* A worth is a number of cents, and a positive number of lots at a positive
\* price is never worth less than nothing.
LEMMA ValueCentsType ==
  ASSUME NEW q \in Nat, NEW p \in Nat
  PROVE  ValueCents(q, p) \in Nat
<1>1. q * p \in Nat /\ Unit \in Nat \ {0}
  BY UnitAssumption
<1>2. q * p <= (q * p) * Unit
  BY <1>1
<1> QED BY <1>1, <1>2, HalfUpBounded DEF ValueCents

\* _quantity_for_value rounds down: no quantity up to the one it returns is
\* worth more than the target it was given.
LEMMA QuantityForValueFits ==
  ASSUME NEW target \in Int, NEW price \in Nat \ {0}, NEW q \in Nat,
         q <= QuantityForValue(target, price), q > 0
  PROVE  ValueCents(q, price) <= target
<1>1. target > 0 /\ QuantityForValue(target, price) = (target * Unit) \div price
  BY DEF QuantityForValue
<1>2. target * Unit \in Nat
  BY <1>1, UnitAssumption
<1>3. ((target * Unit) \div price) * price <= target * Unit
  BY <1>2
<1>4. (target * Unit) \div price \in Nat
  BY <1>2
<1>5. q * price <= ((target * Unit) \div price) * price
  BY <1>1, <1>4
<1>6. q * price <= target * Unit
  BY <1>3, <1>4, <1>5, <1>2
<1> QED BY <1>1, <1>6, UnitAssumption, HalfUpBounded DEF ValueCents

LEMMA QuantityForValueType ==
  ASSUME NEW target \in Int, NEW price \in Nat \ {0}
  PROVE  QuantityForValue(target, price) \in Nat
<1>1. CASE target <= 0
  BY <1>1 DEF QuantityForValue
<1>2. CASE target > 0
  <2>1. target * Unit \in Nat
    BY <1>2, UnitAssumption
  <2> QED BY <1>2, <2>1 DEF QuantityForValue
<1> QED BY <1>1, <1>2

\* More lots are never worth less.
LEMMA ValueCentsMonotone ==
  ASSUME NEW a \in Nat, NEW b \in Nat, NEW p \in Nat, a <= b
  PROVE  ValueCents(a, p) <= ValueCents(b, p)
<1> DEFINE e == 2 * Unit
           x == 2 * (a * p) + Unit
           y == 2 * (b * p) + Unit
<1>1. e \in Nat \ {0} /\ a * p \in Nat /\ b * p \in Nat
  BY UnitAssumption
<1>2. a * p <= b * p
  OBVIOUS
<1>3. x \in Nat /\ y \in Nat /\ x <= y
  BY <1>1, <1>2, UnitAssumption
<1>4. x \div e <= y \div e
  <2> DEFINE u == x \div e
             v == y \div e
  <2> HIDE DEF x, y, e
  <2>1. u \in Nat /\ v \in Nat /\ u * e <= x /\ y < (v + 1) * e
    BY <1>1, <1>3
  <2> HIDE DEF u, v
  <2>2. u * e < (v + 1) * e
    BY <2>1, <1>1, <1>3
  <2>3. ~(u >= v + 1)
    <3> SUFFICES ASSUME u >= v + 1 PROVE FALSE
      OBVIOUS
    <3>1. u * e >= (v + 1) * e
      BY <2>1, <1>1
    <3> QED BY <3>1, <2>2, <2>1, <1>1
  <2>4. u <= v
    BY <2>1, <2>3
  <2> QED BY <2>4 DEF u, v
<1> QED BY <1>1, <1>4 DEF ValueCents, HalfUp

-----------------------------------------------------------------------------
(* One turn of the loop over the ceilings.                                 *)

\* Whatever the ceiling leaves, the quantity kept after one turn is no larger
\* than before, and neither it nor anything smaller is worth more than that.
LEMMA ShrunkFits ==
  ASSUME NEW i \in OrderIntent, i.price > 0, i.quantity > 0, i.side = "buy",
         NEW q \in Nat, q <= i.quantity, NEW room \in Int
  PROVE  /\ Shrunk(q, room, i) \in Nat
         /\ Shrunk(q, room, i) <= q
         /\ \A k \in 1..Shrunk(q, room, i) : ValueCents(k, i.price) <= room
<1>1. i.price \in Nat \ {0} /\ i.quantity \in Nat \ {0}
  BY DEF OrderIntent
<1>2. CASE Notional(i) <= room
  <2>1. Shrunk(q, room, i) = q
    BY <1>2 DEF Shrunk
  <2>2. ASSUME NEW k \in 1..q PROVE ValueCents(k, i.price) <= room
    <3>1. ValueCents(k, i.price) <= ValueCents(i.quantity, i.price)
      BY <1>1, ValueCentsMonotone
    <3>2. k \in Nat /\ i.price \in Nat
      BY <1>1
    <3>3. ValueCents(k, i.price) \in Nat /\ ValueCents(i.quantity, i.price) \in Nat
      BY <3>2, <1>1, ValueCentsType
    <3> QED BY <3>1, <3>3, <1>2 DEF Notional
  <2> QED BY <2>1, <2>2
<1>3. CASE ~(Notional(i) <= room)
  <2> DEFINE c == QuantityForValue(room, i.price)
  <2>1. c \in Nat
    BY <1>1, QuantityForValueType
  <2>2. Shrunk(q, room, i) = LeastOf(q, c)
    BY <1>3 DEF Shrunk
  <2>3. LeastOf(q, c) \in Nat /\ LeastOf(q, c) <= q /\ LeastOf(q, c) <= c
    BY <2>1 DEF LeastOf
  <2>4. ASSUME NEW k \in 1..LeastOf(q, c) PROVE ValueCents(k, i.price) <= room
    <3>1. k \in Nat /\ k > 0 /\ k <= c
      BY <2>1, <2>3
    <3> QED BY <3>1, <1>1, QuantityForValueFits
  <2> QED BY <2>2, <2>3, <2>4
<1> QED BY <1>2, <1>3

-----------------------------------------------------------------------------
(* The gate.                                                               *)

\* The loop over the four ceilings ends with a quantity that fits under all
\* of them, not only under the last one it looked at.
LEMMA SizedQuantityFits ==
  ASSUME NEW m \in Mandate, NEW s \in AccountState, NEW i \in OrderIntent,
         i.price > 0, i.quantity > 0, i.side = "buy"
  PROVE  /\ SizedQuantity(m, s, i) \in Nat
         /\ SizedQuantity(m, s, i) <= i.quantity
         /\ \A rule \in DOMAIN Room(m, s) :
              \A k \in 1..SizedQuantity(m, s, i) :
                ValueCents(k, i.price) <= Room(m, s)[rule]
<1> DEFINE r1 == m.max_order_notional
           r2 == m.max_position - s.position
           r3 == m.max_exposure - s.exposure
           r4 == s.cash - m.min_cash_buffer
           q1 == Shrunk(i.quantity, r1, i)
           q2 == Shrunk(q1, r2, i)
           q3 == Shrunk(q2, r3, i)
           q4 == Shrunk(q3, r4, i)
<1>1. r1 \in Int /\ r2 \in Int /\ r3 \in Int /\ r4 \in Int /\ i.quantity \in Nat
  BY DEF Mandate, AccountState, OrderIntent
<1>2. SizedQuantity(m, s, i) = q4
  BY DEF SizedQuantity, Room
<1> HIDE DEF r1, r2, r3, r4
<1>3. q1 \in Nat /\ q1 <= i.quantity /\ \A k \in 1..q1 : ValueCents(k, i.price) <= r1
  BY <1>1, ShrunkFits
<1> HIDE DEF q1
<1>4. q2 \in Nat /\ q2 <= q1 /\ \A k \in 1..q2 : ValueCents(k, i.price) <= r2
  BY <1>1, <1>3, ShrunkFits
<1> HIDE DEF q2
<1>5. q3 \in Nat /\ q3 <= q2 /\ \A k \in 1..q3 : ValueCents(k, i.price) <= r3
  <2>1. q2 <= i.quantity
    BY <1>1, <1>3, <1>4
  <2> QED BY <2>1, <1>1, <1>4, ShrunkFits
<1> HIDE DEF q3
<1>6. q4 \in Nat /\ q4 <= q3 /\ \A k \in 1..q4 : ValueCents(k, i.price) <= r4
  <2>1. q3 <= i.quantity
    BY <1>1, <1>3, <1>4, <1>5
  <2> QED BY <2>1, <1>1, <1>5, ShrunkFits
<1> HIDE DEF q4
<1>7. q4 <= i.quantity /\ 1..q4 \subseteq 1..q3 /\ 1..q4 \subseteq 1..q2 /\ 1..q4 \subseteq 1..q1
  BY <1>1, <1>3, <1>4, <1>5, <1>6
<1>8. \A k \in 1..q4 : /\ ValueCents(k, i.price) <= r1
                       /\ ValueCents(k, i.price) <= r2
                       /\ ValueCents(k, i.price) <= r3
                       /\ ValueCents(k, i.price) <= r4
  BY <1>3, <1>4, <1>5, <1>6, <1>7
<1>9. \A rule \in DOMAIN Room(m, s) : Room(m, s)[rule] \in {r1, r2, r3, r4}
  BY DEF Room, r1, r2, r3, r4
<1> QED BY <1>2, <1>6, <1>7, <1>8, <1>9

\* An order that passed the gate broke no permission rule and no standing
\* one, and goes out in the quantity the loop over the ceilings kept.
LEMMA PassedTheGate ==
  ASSUME NEW m \in Mandate, NEW s \in AccountState, NEW i \in OrderIntent,
         EvaluateOrder(m, s, i).decision # "refused"
  PROVE  /\ PermissionBreaches(m, s, i) = {}
         /\ StandingBreaches(m, s, i) = {}
         /\ ~(SizedQuantity(m, s, i) <= 0)
         /\ EvaluateOrder(m, s, i).quantity = SizedQuantity(m, s, i)
         /\ EvaluateOrder(m, s, i).notional = ValueCents(SizedQuantity(m, s, i), i.price)
         /\ ~(/\ m.min_order_notional > 0
              /\ EvaluateOrder(m, s, i).notional < m.min_order_notional)
<1> DEFINE permission == PermissionBreaches(m, s, i)
           standing   == StandingBreaches(m, s, i)
           quantity   == SizedQuantity(m, s, i)
           notional   == ValueCents(quantity, i.price)
<1>1. permission = {}
  BY DEF EvaluateOrder, Refused
<1>2. standing = {}
  BY <1>1 DEF EvaluateOrder, Refused
<1>3. ~(quantity <= 0)
  BY <1>1, <1>2 DEF EvaluateOrder, Refused
<1>4. ~(m.min_order_notional > 0 /\ notional < m.min_order_notional)
  BY <1>1, <1>2, <1>3 DEF EvaluateOrder, Refused
<1>5. EvaluateOrder(m, s, i) =
        [ decision |-> IF quantity = i.quantity THEN "allowed" ELSE "reduced",
          quantity |-> quantity, notional |-> notional,
          rule     |-> SizeRule(m, s, i, NoRule) ]
  BY <1>1, <1>2, <1>3, <1>4 DEF EvaluateOrder
<1> QED BY <1>1, <1>2, <1>3, <1>4, <1>5

\* An order that breaks no permission rule has a price and a quantity, does
\* not sell more than is held unless shorts are allowed, and meets the cap on
\* the day's orders; without leverage a buy is covered by the cash.
LEMMA PermissionMeans ==
  ASSUME NEW m \in Mandate, NEW s \in AccountState, NEW i \in OrderIntent,
         PermissionBreaches(m, s, i) = {}
  PROVE  /\ ~s.halted /\ s.armed
         /\ i.price > 0 /\ i.quantity > 0
         /\ i.symbol \in m.allowed_symbols
         /\ i.side = "sell" /\ ~m.allow_short => i.quantity <= s.quantity
         /\ s.orders_today < m.max_orders_per_day
         /\ i.side = "buy" /\ ~m.allow_leverage => ~(Notional(i) > s.cash)
<1>1. i.price \in Int /\ i.quantity \in Int /\ s.quantity \in Nat
      /\ s.orders_today \in Nat /\ m.max_orders_per_day \in Nat
  BY DEF Mandate, AccountState, OrderIntent
<1> DEFINE broken == PermissionTests(m, s, i)
<1>2. PermissionBreaches(m, s, i) = {rule \in DOMAIN broken : broken[rule]}
  BY DEF PermissionBreaches
<1>3. \A rule \in DOMAIN broken : ~broken[rule]
  <2> HIDE DEF broken
  <2> QED BY <1>2, Zenon
<1>4. ~broken["halted"] /\ ~broken["not_armed"] /\ ~broken["symbol_not_allowed"]
      /\ ~broken["non_positive_quantity"] /\ ~broken["sell_exceeds_position"]
      /\ ~broken["orders_per_day"] /\ ~broken["leverage_not_allowed"]
  <2>1. {"halted", "not_armed", "symbol_not_allowed", "non_positive_quantity",
         "sell_exceeds_position", "orders_per_day", "leverage_not_allowed"}
          \subseteq DOMAIN broken
    BY DEF PermissionTests
  <2> HIDE DEF broken
  <2> QED BY <1>3, <2>1, Zenon
<1>5. ~s.halted
  BY <1>4, Zenon DEF PermissionTests
<1>6. ~(~s.armed)
  BY <1>4, Zenon DEF PermissionTests
<1>7. ~(i.symbol \notin m.allowed_symbols)
  BY <1>4, Zenon DEF PermissionTests
<1>8. ~(i.price <= 0 \/ i.quantity <= 0)
  BY <1>4, Zenon DEF PermissionTests
<1>9. ~(i.side = "sell" /\ ~m.allow_short /\ i.quantity > s.quantity)
  BY <1>4, Zenon DEF PermissionTests
<1>10. ~(s.orders_today >= m.max_orders_per_day)
  BY <1>4, Zenon DEF PermissionTests
<1>11. ~(~m.allow_leverage /\ i.side = "buy" /\ Notional(i) > s.cash)
  BY <1>4, Zenon DEF PermissionTests, Notional
<1> QED BY <1>1, <1>5, <1>6, <1>7, <1>8, <1>9, <1>10, <1>11

\* What passes is never larger than what was asked, and a buy that passes is
\* worth, at the reference price, no more than any ceiling leaves: the
\* reductions made for the four ceilings do not undo one another.
THEOREM PassedOrderFits ==
  ASSUME NEW m \in Mandate, NEW s \in AccountState, NEW i \in OrderIntent,
         EvaluateOrder(m, s, i).decision # "refused"
  PROVE  /\ EvaluateOrder(m, s, i).quantity \in 1..i.quantity
         /\ i.side = "buy" =>
              \A rule \in DOMAIN Room(m, s) :
                EvaluateOrder(m, s, i).notional <= Room(m, s)[rule]
<1> DEFINE q == SizedQuantity(m, s, i)
<1>1. /\ PermissionBreaches(m, s, i) = {} /\ ~(q <= 0)
      /\ EvaluateOrder(m, s, i).quantity = q
      /\ EvaluateOrder(m, s, i).notional = ValueCents(q, i.price)
  BY PassedTheGate
<1>2. i.price > 0 /\ i.quantity > 0 /\ i.quantity \in Int /\ i.side \in Sides
  BY <1>1, PermissionMeans DEF OrderIntent
<1>3. CASE i.side = "sell"
  <2>1. q = i.quantity
    BY <1>3 DEF SizedQuantity, Shrunk
  <2> QED BY <2>1, <1>1, <1>2, <1>3
<1>4. CASE i.side = "buy"
  <2>1. /\ q \in Nat /\ q <= i.quantity
        /\ \A rule \in DOMAIN Room(m, s) :
              \A k \in 1..q : ValueCents(k, i.price) <= Room(m, s)[rule]
    BY <1>2, <1>4, SizedQuantityFits
  <2> HIDE DEF q
  <2>2. q \in 1..q /\ q \in 1..i.quantity
    BY <2>1, <1>1, <1>2
  <2> QED BY <2>1, <2>2, <1>1
<1> QED BY <1>2, <1>3, <1>4 DEF Sides

\* A sale of no more than is held is never answered by a loss ceiling or a
\* drawdown, nor made smaller: a permission rule or the floor under one order
\* is all that can stop it (_standing_breach, _size_ceilings).
THEOREM ReducingSaleIsNotTrapped ==
  ASSUME NEW m \in Mandate, NEW s \in AccountState, NEW i \in OrderIntent,
         IsReducing(s, i), PermissionBreaches(m, s, i) = {},
         EvaluateOrder(m, s, i).decision # "allowed"
  PROVE  /\ EvaluateOrder(m, s, i) = Refused("below_minimum_notional")
         /\ Notional(i) < m.min_order_notional
<1>1. StandingBreaches(m, s, i) = {}
  BY DEF StandingBreaches
<1>2. i.side = "sell"
  BY DEF IsReducing
<1>3. SizedQuantity(m, s, i) = i.quantity
  BY <1>2 DEF SizedQuantity, Shrunk
<1>4. SizeBreaches(m, s, i) = {}
  BY <1>2 DEF SizeBreaches
<1>5. ~(i.quantity <= 0)
  <2>1. i.quantity > 0 /\ i.quantity \in Int
    BY PermissionMeans DEF OrderIntent
  <2> QED BY <2>1
<1>6. CASE m.min_order_notional > 0 /\ Notional(i) < m.min_order_notional
  <2>1. EvaluateOrder(m, s, i) = Refused(SizeRule(m, s, i, "below_minimum_notional"))
    BY <1>1, <1>3, <1>5, <1>6 DEF EvaluateOrder, Notional
  <2> QED BY <2>1, <1>4, <1>6 DEF SizeRule
<1>7. CASE ~(m.min_order_notional > 0 /\ Notional(i) < m.min_order_notional)
  <2>1. EvaluateOrder(m, s, i) =
          [ decision |-> IF i.quantity = i.quantity THEN "allowed" ELSE "reduced",
            quantity |-> i.quantity, notional |-> Notional(i),
            rule     |-> SizeRule(m, s, i, NoRule) ]
    BY <1>1, <1>3, <1>5, <1>7 DEF EvaluateOrder, Notional
  <2> QED BY <2>1
<1> QED BY <1>6, <1>7

\* An account without cash buys nothing of any worth: whatever the mandate, a
\* buy that passes is worth zero cents and only where the mandate sets no
\* floor under one order.  (The live account, whose cash the code never
\* writes, is such an account: models/trading_account.py.)
THEOREM BrokeBuysNothing ==
  ASSUME NEW m \in Mandate, NEW s \in AccountState, NEW i \in OrderIntent,
         s.cash <= 0, i.side = "buy",
         EvaluateOrder(m, s, i).decision # "refused"
  PROVE  EvaluateOrder(m, s, i).notional <= 0 /\ m.min_order_notional = 0
<1> DEFINE notional == EvaluateOrder(m, s, i).notional
<1>1. notional <= Room(m, s)["cash_buffer"] /\ "cash_buffer" \in DOMAIN Room(m, s)
  BY PassedOrderFits DEF Room
<1>2. Room(m, s)["cash_buffer"] = s.cash - m.min_cash_buffer
  BY DEF Room
<1>3. s.cash \in Int /\ m.min_cash_buffer \in Nat /\ m.min_order_notional \in Nat
  BY DEF Mandate, AccountState
<1>4. notional \in Nat
  <2>1. /\ PermissionBreaches(m, s, i) = {}
        /\ notional = ValueCents(SizedQuantity(m, s, i), i.price)
        /\ EvaluateOrder(m, s, i).quantity = SizedQuantity(m, s, i)
    BY PassedTheGate
  <2>2. SizedQuantity(m, s, i) \in Nat /\ i.price \in Nat
    <3>1. i.price > 0 /\ i.price \in Int /\ i.quantity \in Int
      BY <2>1, PermissionMeans DEF OrderIntent
    <3>2. EvaluateOrder(m, s, i).quantity \in 1..i.quantity
      BY PassedOrderFits
    <3> QED BY <3>1, <3>2, <2>1
  <2> QED BY <2>1, <2>2, ValueCentsType
<1>5. ~(m.min_order_notional > 0 /\ notional < m.min_order_notional)
  BY PassedTheGate
<1> HIDE DEF notional
<1>6. notional <= 0
  BY <1>1, <1>2, <1>3, <1>4
<1>7. m.min_order_notional = 0
  BY <1>3, <1>4, <1>5, <1>6
<1> QED BY <1>6, <1>7 DEF notional

-----------------------------------------------------------------------------
(* The largest order that fits.                                            *)

\* _quantity_for_value leaves nothing on the table: one lot more is worth,
\* exactly, more than the target.
LEMMA QuantityForValueLargest ==
  ASSUME NEW target \in Int, NEW price \in Nat \ {0}
  PROVE  (QuantityForValue(target, price) + 1) * price > target * Unit
<1>1. CASE target <= 0
  <2>1. QuantityForValue(target, price) = 0
    BY <1>1 DEF QuantityForValue
  <2>2. target * Unit <= 0
    BY <1>1, UnitAssumption
  <2> QED BY <2>1, <2>2, UnitAssumption
<1>2. CASE target > 0
  <2> DEFINE x == target * Unit
             d == x \div price
  <2>1. x \in Nat
    BY <1>2, UnitAssumption
  <2>2. QuantityForValue(target, price) = d
    BY <1>2 DEF QuantityForValue
  <2> HIDE DEF x
  <2>3. (d + 1) * price > x
    BY <2>1
  <2> HIDE DEF d
  <2> QED BY <2>2, <2>3 DEF x
<1> QED BY <1>1, <1>2

\* One turn of the loop keeps the quantity, or cuts it for a ceiling it
\* exceeds, to the largest that ceiling leaves.
LEMMA ShrunkIs ==
  ASSUME NEW i \in OrderIntent, i.price > 0, NEW q \in Nat, NEW room \in Int
  PROVE  /\ Shrunk(q, room, i) \in Nat
         /\ \/ Shrunk(q, room, i) = q
            \/ /\ i.side = "buy" /\ Notional(i) > room
               /\ (Shrunk(q, room, i) + 1) * i.price > room * Unit
<1>1. i.price \in Nat \ {0} /\ i.side \in Sides
  BY DEF OrderIntent
<1> DEFINE c == QuantityForValue(room, i.price)
<1>2. c \in Nat /\ (c + 1) * i.price > room * Unit
  BY <1>1, QuantityForValueType, QuantityForValueLargest
<1>3. Notional(i) \in Int
  <2>1. i.quantity * i.price \in Int
    BY DEF OrderIntent
  <2> DEFINE n == i.quantity * i.price
  <2> HIDE DEF n
  <2>2. HalfUp(n, Unit) \in Int
    BY <2>1, UnitAssumption DEF n, HalfUp
  <2> QED BY <2>2 DEF Notional, ValueCents, n
<1>4. Shrunk(q, room, i) = IF i.side = "sell" \/ Notional(i) <= room THEN q
                           ELSE IF q <= c THEN q ELSE c
  BY DEF Shrunk, LeastOf
<1> HIDE DEF c
<1> QED BY <1>1, <1>2, <1>3, <1>4 DEF Sides

\* What is reduced is reduced for a ceiling it exceeded, and to the largest
\* quantity that ceiling leaves (evaluate_order).
THEOREM ReducedOrderIsLargest ==
  ASSUME NEW m \in Mandate, NEW s \in AccountState, NEW i \in OrderIntent,
         EvaluateOrder(m, s, i).decision = "reduced"
  PROVE  \E rule \in SizeBreaches(m, s, i) :
           (EvaluateOrder(m, s, i).quantity + 1) * i.price > Room(m, s)[rule] * Unit
<1> DEFINE r1 == m.max_order_notional
           r2 == m.max_position - s.position
           r3 == m.max_exposure - s.exposure
           r4 == s.cash - m.min_cash_buffer
           q1 == Shrunk(i.quantity, r1, i)
           q2 == Shrunk(q1, r2, i)
           q3 == Shrunk(q2, r3, i)
           q4 == Shrunk(q3, r4, i)
           Room4 == Room(m, s)
<1>1. r1 \in Int /\ r2 \in Int /\ r3 \in Int /\ r4 \in Int
  BY DEF Mandate, AccountState
<1>2. i.price > 0 /\ i.quantity \in Nat
  <2>1. PermissionBreaches(m, s, i) = {}
    BY PassedTheGate
  <2> QED BY <2>1, PermissionMeans DEF OrderIntent
<1>3. /\ EvaluateOrder(m, s, i).quantity = SizedQuantity(m, s, i)
      /\ SizedQuantity(m, s, i) # i.quantity
  <2>1. /\ PermissionBreaches(m, s, i) = {} /\ StandingBreaches(m, s, i) = {}
        /\ EvaluateOrder(m, s, i).quantity = SizedQuantity(m, s, i)
    BY PassedTheGate
  <2>2. SizedQuantity(m, s, i) = i.quantity => EvaluateOrder(m, s, i).decision # "reduced"
    BY <2>1 DEF EvaluateOrder, Refused
  <2> QED BY <2>1, <2>2
<1>4. SizedQuantity(m, s, i) = q4
  BY DEF SizedQuantity, Room
<1>5. Room4 = [ order_notional_ceiling |-> r1, position_ceiling |-> r2,
                exposure_ceiling |-> r3, cash_buffer |-> r4 ]
  BY DEF Room
<1>6. /\ Room4["order_notional_ceiling"] = r1 /\ Room4["position_ceiling"] = r2
      /\ Room4["exposure_ceiling"] = r3 /\ Room4["cash_buffer"] = r4
      /\ DOMAIN Room4 = { "order_notional_ceiling", "position_ceiling",
                          "exposure_ceiling", "cash_buffer" }
  <2> HIDE DEF r1, r2, r3, r4, Room4
  <2> QED BY <1>5
<1> HIDE DEF r1, r2, r3, r4, Room4
<1> DEFINE Cut(q, r) == i.side = "buy" /\ Notional(i) > r /\ (q + 1) * i.price > r * Unit
<1>7. q1 \in Nat /\ (q1 = i.quantity \/ Cut(q1, r1))
  BY <1>1, <1>2, ShrunkIs
<1> HIDE DEF q1
<1>8. q2 \in Nat /\ (q2 = q1 \/ Cut(q2, r2))
  BY <1>1, <1>2, <1>7, ShrunkIs
<1> HIDE DEF q2
<1>9. q3 \in Nat /\ (q3 = q2 \/ Cut(q3, r3))
  BY <1>1, <1>2, <1>8, ShrunkIs
<1> HIDE DEF q3
<1>10. q4 \in Nat /\ (q4 = q3 \/ Cut(q4, r4))
  BY <1>1, <1>2, <1>9, ShrunkIs
<1> HIDE DEF q4
<1>11. Cut(q4, r1) \/ Cut(q4, r2) \/ Cut(q4, r3) \/ Cut(q4, r4)
  <2> HIDE DEF Cut
  <2> QED BY <1>3, <1>4, <1>7, <1>8, <1>9, <1>10
<1>12. \E rule \in DOMAIN Room4 : Cut(q4, Room4[rule])
  <2> HIDE DEF Cut
  <2> QED BY <1>6, <1>11
<1>13. PICK rule \in DOMAIN Room4 : Cut(q4, Room4[rule])
  BY <1>12
<1>14. rule \in SizeBreaches(m, s, i)
  BY <1>13 DEF SizeBreaches, Room4
<1> QED BY <1>3, <1>4, <1>13, <1>14 DEF Room4

-----------------------------------------------------------------------------
(* A wider mandate.                                                        *)

LEMMA QuantityForValueMonotone ==
  ASSUME NEW a \in Int, NEW b \in Int, NEW price \in Nat \ {0}, a <= b
  PROVE  QuantityForValue(a, price) <= QuantityForValue(b, price)
<1>0. QuantityForValue(a, price) \in Nat /\ QuantityForValue(b, price) \in Nat
  BY QuantityForValueType
<1>1. CASE a <= 0
  <2>1. QuantityForValue(a, price) = 0
    BY <1>1 DEF QuantityForValue
  <2> QED BY <1>0, <2>1
<1>2. CASE a > 0
  <2> DEFINE x == a * Unit
             y == b * Unit
             u == x \div price
             v == y \div price
  <2>1. x \in Nat /\ y \in Nat /\ x <= y
    BY <1>2, UnitAssumption
  <2>2. QuantityForValue(a, price) = u /\ QuantityForValue(b, price) = v
    BY <1>2 DEF QuantityForValue
  <2> HIDE DEF x, y
  <2>3. u \in Nat /\ v \in Nat /\ u * price <= x /\ y < (v + 1) * price
    BY <2>1
  <2> HIDE DEF u, v
  <2>4. u * price < (v + 1) * price
    BY <2>1, <2>3
  <2>5. ~(u >= v + 1)
    <3> SUFFICES ASSUME u >= v + 1 PROVE FALSE
      OBVIOUS
    <3>1. u * price >= (v + 1) * price
      BY <2>3
    <3> QED BY <2>3, <2>4, <3>1
  <2> QED BY <2>2, <2>3, <2>5
<1> QED BY <1>1, <1>2

\* More room, and no less quantity to start from, leave no less quantity.
LEMMA ShrunkMonotone ==
  ASSUME NEW i \in OrderIntent, i.price > 0,
         NEW a \in Nat, NEW b \in Nat, a <= b,
         NEW r \in Int, NEW w \in Int, r <= w
  PROVE  /\ Shrunk(a, r, i) \in Nat /\ Shrunk(b, w, i) \in Nat
         /\ Shrunk(a, r, i) <= Shrunk(b, w, i)
<1> DEFINE c == QuantityForValue(r, i.price)
           d == QuantityForValue(w, i.price)
           n == Notional(i)
<1>1. i.price \in Nat \ {0}
  BY DEF OrderIntent
<1>2. c \in Nat /\ d \in Nat /\ c <= d
  BY <1>1, QuantityForValueType, QuantityForValueMonotone
<1>3. n \in Int
  <2> DEFINE k == i.quantity * i.price
  <2>1. k \in Int
    BY DEF OrderIntent
  <2> HIDE DEF k
  <2>2. HalfUp(k, Unit) \in Int
    BY <2>1, UnitAssumption DEF HalfUp
  <2> QED BY <2>2 DEF Notional, ValueCents, k
<1>4. /\ Shrunk(a, r, i) = IF i.side = "sell" \/ n <= r THEN a ELSE IF a <= c THEN a ELSE c
      /\ Shrunk(b, w, i) = IF i.side = "sell" \/ n <= w THEN b ELSE IF b <= d THEN b ELSE d
  BY DEF Shrunk, LeastOf
<1> HIDE DEF c, d, n
<1> QED BY <1>2, <1>3, <1>4

\* No ceiling lower, no floor higher, and the same permissions.
Wider(m, w) ==
  /\ m.max_position <= w.max_position /\ m.max_exposure <= w.max_exposure
  /\ m.max_order_notional <= w.max_order_notional
  /\ m.max_daily_loss <= w.max_daily_loss
  /\ m.max_orders_per_day <= w.max_orders_per_day
  /\ m.max_drawdown_bps = w.max_drawdown_bps
  /\ w.min_cash_buffer <= m.min_cash_buffer
  /\ w.min_order_notional <= m.min_order_notional
  /\ w.allowed_symbols = m.allowed_symbols /\ w.allowed_sides = m.allowed_sides
  /\ w.allowed_order_types = m.allowed_order_types
  /\ w.allow_short = m.allow_short /\ w.allow_leverage = m.allow_leverage

LEMMA WiderPermits ==
  ASSUME NEW m \in Mandate, NEW w \in Mandate, Wider(m, w),
         NEW s \in AccountState, NEW i \in OrderIntent
  PROVE  /\ PermissionBreaches(m, s, i) = {} => PermissionBreaches(w, s, i) = {}
         /\ StandingBreaches(m, s, i) = {} => StandingBreaches(w, s, i) = {}
<1>1. ASSUME PermissionBreaches(m, s, i) = {} PROVE PermissionBreaches(w, s, i) = {}
  <2> DEFINE narrow == PermissionTests(m, s, i)
             wide   == PermissionTests(w, s, i)
  <2>1. s.orders_today >= w.max_orders_per_day => s.orders_today >= m.max_orders_per_day
    BY DEF Wider, Mandate, AccountState
  <2>2. /\ w.allowed_symbols = m.allowed_symbols /\ w.allowed_sides = m.allowed_sides
        /\ w.allowed_order_types = m.allowed_order_types
        /\ w.allow_short = m.allow_short /\ w.allow_leverage = m.allow_leverage
    BY DEF Wider
  <2>3. wide["halted"] => narrow["halted"]
    BY <2>2, Zenon DEF PermissionTests
  <2>4. wide["not_armed"] => narrow["not_armed"]
    BY <2>2, Zenon DEF PermissionTests
  <2>5. wide["unknown_side"] => narrow["unknown_side"]
    BY <2>2, Zenon DEF PermissionTests
  <2>6. wide["unknown_order_type"] => narrow["unknown_order_type"]
    BY <2>2, Zenon DEF PermissionTests
  <2>7. wide["side_not_allowed"] => narrow["side_not_allowed"]
    BY <2>2, Zenon DEF PermissionTests
  <2>8. wide["order_type_not_allowed"] => narrow["order_type_not_allowed"]
    BY <2>2, Zenon DEF PermissionTests
  <2>9. wide["symbol_not_allowed"] => narrow["symbol_not_allowed"]
    BY <2>2, Zenon DEF PermissionTests
  <2>10. wide["limit_price_missing"] => narrow["limit_price_missing"]
    BY <2>2, Zenon DEF PermissionTests
  <2>11. wide["non_positive_quantity"] => narrow["non_positive_quantity"]
    BY <2>2, Zenon DEF PermissionTests
  <2>12. wide["sell_exceeds_position"] => narrow["sell_exceeds_position"]
    BY <2>2, Zenon DEF PermissionTests
  <2>13. wide["orders_per_day"] => narrow["orders_per_day"]
    BY <2>1, Zenon DEF PermissionTests
  <2>14. wide["leverage_not_allowed"] => narrow["leverage_not_allowed"]
    BY <2>2, Zenon DEF PermissionTests
  <2>15. /\ DOMAIN narrow = DOMAIN wide
         /\ DOMAIN wide = { "halted", "not_armed", "unknown_side", "unknown_order_type",
               "side_not_allowed", "order_type_not_allowed", "symbol_not_allowed",
               "limit_price_missing", "non_positive_quantity", "sell_exceeds_position",
               "orders_per_day", "leverage_not_allowed" }
    BY DEF PermissionTests
  <2> HIDE DEF narrow, wide
  <2>16. \A rule \in DOMAIN wide : wide[rule] => narrow[rule]
    <3>1. \A rule \in { "halted", "not_armed", "unknown_side", "unknown_order_type" } :
            wide[rule] => narrow[rule]
      BY <2>3, <2>4, <2>5, <2>6, Zenon
    <3>2. \A rule \in { "side_not_allowed", "order_type_not_allowed", "symbol_not_allowed",
                       "limit_price_missing" } : wide[rule] => narrow[rule]
      BY <2>7, <2>8, <2>9, <2>10, Zenon
    <3>3. \A rule \in { "non_positive_quantity", "sell_exceeds_position", "orders_per_day",
                       "leverage_not_allowed" } : wide[rule] => narrow[rule]
      BY <2>11, <2>12, <2>13, <2>14, Zenon
    <3> QED BY <2>15, <3>1, <3>2, <3>3
  <2>17. \A rule \in DOMAIN narrow : ~narrow[rule]
    <3>1. PermissionBreaches(m, s, i) = {rule \in DOMAIN narrow : narrow[rule]}
      BY DEF PermissionBreaches, narrow
    <3> QED BY <1>1, <3>1, Zenon
  <2>18. \A rule \in DOMAIN wide : ~wide[rule]
    BY <2>15, <2>16, <2>17, Zenon
  <2>19. PermissionBreaches(w, s, i) = {rule \in DOMAIN wide : wide[rule]}
    BY DEF PermissionBreaches, wide
  <2> QED BY <2>18, <2>19, Zenon
<1>2. ASSUME StandingBreaches(m, s, i) = {} PROVE StandingBreaches(w, s, i) = {}
  <2>1. -s.realised_today >= w.max_daily_loss => -s.realised_today >= m.max_daily_loss
    BY DEF Wider, Mandate, AccountState
  <2>2. w.max_drawdown_bps = m.max_drawdown_bps
    BY DEF Wider
  <2> DEFINE Loss(x) == -s.realised_today >= x.max_daily_loss
             Fall(x) == s.peak > 0 /\ DrawdownBps(s) >= x.max_drawdown_bps
             Tests(x) == [daily_loss_ceiling |-> Loss(x), drawdown_ceiling |-> Fall(x)]
  <2>3. (Loss(w) => Loss(m)) /\ (Fall(w) => Fall(m))
    BY <2>1, <2>2
  <2>4. /\ StandingBreaches(m, s, i) =
               {rule \in DOMAIN Tests(m) : ~IsReducing(s, i) /\ Tests(m)[rule]}
        /\ StandingBreaches(w, s, i) =
               {rule \in DOMAIN Tests(w) : ~IsReducing(s, i) /\ Tests(w)[rule]}
    BY DEF StandingBreaches
  <2> HIDE DEF Loss, Fall
  <2>5. IsReducing(s, i) \/ (~Loss(m) /\ ~Fall(m))
    <3>1. /\ "daily_loss_ceiling" \in DOMAIN Tests(m) /\ "drawdown_ceiling" \in DOMAIN Tests(m)
      OBVIOUS
    <3>2. ~IsReducing(s, i) => ~Tests(m)["daily_loss_ceiling"] /\ ~Tests(m)["drawdown_ceiling"]
      <4> HIDE DEF Tests
      <4> QED BY <1>2, <2>4, <3>1, Zenon
    <3> QED BY <3>2, Zenon
  <2>6. \A rule \in DOMAIN Tests(w) : ~(~IsReducing(s, i) /\ Tests(w)[rule])
    <3>1. /\ DOMAIN Tests(w) = {"daily_loss_ceiling", "drawdown_ceiling"}
      OBVIOUS
    <3>2. IsReducing(s, i) \/ (~Tests(w)["daily_loss_ceiling"] /\ ~Tests(w)["drawdown_ceiling"])
      BY <2>3, <2>5, Zenon
    <3> HIDE DEF Tests
    <3> QED BY <3>1, <3>2, Zenon
  <2> HIDE DEF Tests
  <2> QED BY <2>4, <2>6, Zenon
<1> QED BY <1>1, <1>2

LEMMA SizedQuantityMonotone ==
  ASSUME NEW m \in Mandate, NEW w \in Mandate, Wider(m, w),
         NEW s \in AccountState, NEW i \in OrderIntent, i.price > 0, i.quantity > 0
  PROVE  /\ SizedQuantity(m, s, i) \in Nat /\ SizedQuantity(w, s, i) \in Nat
         /\ SizedQuantity(m, s, i) <= SizedQuantity(w, s, i)
<1> DEFINE r1(x) == x.max_order_notional
           r2(x) == x.max_position - s.position
           r3(x) == x.max_exposure - s.exposure
           r4(x) == s.cash - x.min_cash_buffer
           q1(x) == Shrunk(i.quantity, r1(x), i)
           q2(x) == Shrunk(q1(x), r2(x), i)
           q3(x) == Shrunk(q2(x), r3(x), i)
           q4(x) == Shrunk(q3(x), r4(x), i)
<1>1. /\ r1(m) \in Int /\ r2(m) \in Int /\ r3(m) \in Int /\ r4(m) \in Int
      /\ r1(w) \in Int /\ r2(w) \in Int /\ r3(w) \in Int /\ r4(w) \in Int
      /\ r1(m) <= r1(w) /\ r2(m) <= r2(w) /\ r3(m) <= r3(w) /\ r4(m) <= r4(w)
      /\ i.quantity \in Nat
  BY DEF Wider, Mandate, AccountState, OrderIntent
<1>2. SizedQuantity(m, s, i) = q4(m) /\ SizedQuantity(w, s, i) = q4(w)
  BY DEF SizedQuantity, Room
<1> HIDE DEF r1, r2, r3, r4
<1>3. q1(m) \in Nat /\ q1(w) \in Nat /\ q1(m) <= q1(w)
  BY <1>1, ShrunkMonotone
<1> HIDE DEF q1
<1>4. q2(m) \in Nat /\ q2(w) \in Nat /\ q2(m) <= q2(w)
  BY <1>1, <1>3, ShrunkMonotone
<1> HIDE DEF q2
<1>5. q3(m) \in Nat /\ q3(w) \in Nat /\ q3(m) <= q3(w)
  BY <1>1, <1>4, ShrunkMonotone
<1> HIDE DEF q3
<1>6. q4(m) \in Nat /\ q4(w) \in Nat /\ q4(m) <= q4(w)
  BY <1>1, <1>5, ShrunkMonotone
<1> HIDE DEF q4
<1> QED BY <1>2, <1>6

\* A wider mandate never sends less: no rule of the gate works against another
\* (evaluate_order).
THEOREM WiderSendsNoLess ==
  ASSUME NEW m \in Mandate, NEW w \in Mandate, Wider(m, w),
         NEW s \in AccountState, NEW i \in OrderIntent
  PROVE  EvaluateOrder(m, s, i).quantity <= EvaluateOrder(w, s, i).quantity
<1> DEFINE q == SizedQuantity(m, s, i)
           k == SizedQuantity(w, s, i)
<1>1. CASE EvaluateOrder(m, s, i).decision = "refused"
  <2>1. EvaluateOrder(m, s, i).quantity = 0
    BY <1>1 DEF EvaluateOrder, Refused
  <2>2. EvaluateOrder(w, s, i).quantity \in Nat
    <3>1. CASE EvaluateOrder(w, s, i).decision = "refused"
      BY <3>1 DEF EvaluateOrder, Refused
    <3>2. CASE EvaluateOrder(w, s, i).decision # "refused"
      BY <3>2, PassedOrderFits DEF OrderIntent
    <3> QED BY <3>1, <3>2
  <2> QED BY <2>1, <2>2
<1>2. CASE EvaluateOrder(m, s, i).decision # "refused"
  <2>1. /\ PermissionBreaches(m, s, i) = {} /\ StandingBreaches(m, s, i) = {}
        /\ ~(q <= 0) /\ EvaluateOrder(m, s, i).quantity = q
        /\ ~(m.min_order_notional > 0 /\ ValueCents(q, i.price) < m.min_order_notional)
    BY <1>2, PassedTheGate
  <2>2. PermissionBreaches(w, s, i) = {} /\ StandingBreaches(w, s, i) = {}
    BY <2>1, WiderPermits
  <2>3. i.price > 0 /\ i.quantity > 0 /\ i.quantity \in Nat /\ i.price \in Nat
    BY <2>1, PermissionMeans DEF OrderIntent
  <2>4. q \in Nat /\ k \in Nat /\ q <= k
    BY <2>3, SizedQuantityMonotone
  <2> HIDE DEF q, k
  <2>5. ValueCents(q, i.price) <= ValueCents(k, i.price)
    BY <2>3, <2>4, ValueCentsMonotone
  <2>6. ValueCents(q, i.price) \in Nat /\ ValueCents(k, i.price) \in Nat
    BY <2>3, <2>4, ValueCentsType
  <2>7. ~(w.min_order_notional > 0 /\ ValueCents(k, i.price) < w.min_order_notional)
    <3>1. /\ m.min_order_notional \in Nat /\ w.min_order_notional \in Nat
          /\ w.min_order_notional <= m.min_order_notional
      BY DEF Wider, Mandate
    <3> QED BY <2>1, <2>5, <2>6, <3>1
  <2>8. ~(k <= 0)
    BY <2>1, <2>4
  <2>9. EvaluateOrder(w, s, i) =
          [ decision |-> IF k = i.quantity THEN "allowed" ELSE "reduced",
            quantity |-> k, notional |-> ValueCents(k, i.price),
            rule     |-> SizeRule(w, s, i, NoRule) ]
    BY <2>2, <2>7, <2>8 DEF EvaluateOrder, k
  <2> QED BY <2>1, <2>4, <2>9
<1> QED BY <1>1, <1>2

-----------------------------------------------------------------------------
(* Verdicts.                                                               *)

\* The first of the broken rules is one of those the gate looks through.
LEMMA FirstOfNamed ==
  ASSUME NEW order, NEW n \in Nat, DOMAIN order = 1..n,
         NEW rules \in SUBSET RulesOf(order), rules # {}
  PROVE  FirstOf(order, rules) \in RulesOf(order)
<1> DEFINE K == {k \in 1..n : order[k] \in rules}
           First(c) == /\ order[c] \in rules
                       /\ \A j \in 1..(c - 1) : order[j] \notin rules
<1>1. K \in SUBSET Nat /\ K # {}
  BY DEF RulesOf
<1>2. PICK k \in K : \A j \in K : ~(j < k)
  <2> HIDE DEF K
  <2>1. \E k \in K : \A j \in K : <<j, k>> \notin OpToRel(<, Nat)
    BY <1>1, NatLessThanWellFounded, WFMin
  <2>2. \A j, k \in K : j < k => <<j, k>> \in OpToRel(<, Nat)
    BY <1>1 DEF OpToRel
  <2> QED BY <2>1, <2>2, Zenon
<1>3. \A j \in 1..(k - 1) : order[j] \notin rules
  BY <1>2
<1>4. k \in 1..n /\ First(k)
  BY <1>2, <1>3
<1> DEFINE c == CHOOSE c \in DOMAIN order : First(c)
<1>5. FirstOf(order, rules) = order[c]
  BY DEF FirstOf
<1>6. c \in DOMAIN order
  <2> HIDE DEF First
  <2> QED BY <1>4
<1> HIDE DEF c
<1> QED BY <1>5, <1>6 DEF RulesOf

\* Every rule the gate can break has its place in the order it looks through.
LEMMA PermissionsNamed ==
  ASSUME NEW m, NEW s, NEW i
  PROVE  PermissionBreaches(m, s, i) \subseteq RulesOf(PermissionOrder)
<1>1. PermissionBreaches(m, s, i) \subseteq
        { "halted", "not_armed", "unknown_side", "unknown_order_type",
          "side_not_allowed", "order_type_not_allowed", "symbol_not_allowed",
          "limit_price_missing", "non_positive_quantity", "sell_exceeds_position",
          "orders_per_day", "leverage_not_allowed" }
  BY DEF PermissionBreaches, PermissionTests
<1>2. \A k \in 1..12 : PermissionOrder[k] \in RulesOf(PermissionOrder)
  <2>1. DOMAIN PermissionOrder = 1..12
    BY DEF PermissionOrder
  <2> QED BY <2>1 DEF RulesOf
<1>3. PermissionOrder[1] = "halted" /\ PermissionOrder[2] = "not_armed"
  BY DEF PermissionOrder
<1>4. PermissionOrder[3] = "unknown_side" /\ PermissionOrder[4] = "unknown_order_type"
  BY DEF PermissionOrder
<1>5. /\ PermissionOrder[5] = "side_not_allowed"
      /\ PermissionOrder[6] = "order_type_not_allowed"
  BY DEF PermissionOrder
<1>6. /\ PermissionOrder[7] = "symbol_not_allowed"
      /\ PermissionOrder[8] = "limit_price_missing"
  BY DEF PermissionOrder
<1>7. /\ PermissionOrder[9] = "non_positive_quantity"
      /\ PermissionOrder[10] = "sell_exceeds_position"
  BY DEF PermissionOrder
<1>8. PermissionOrder[11] = "orders_per_day" /\ PermissionOrder[12] = "leverage_not_allowed"
  BY DEF PermissionOrder
<1>9. /\ 1 \in 1..12 /\ 2 \in 1..12 /\ 3 \in 1..12 /\ 4 \in 1..12
      /\ 5 \in 1..12 /\ 6 \in 1..12 /\ 7 \in 1..12 /\ 8 \in 1..12
      /\ 9 \in 1..12 /\ 10 \in 1..12 /\ 11 \in 1..12 /\ 12 \in 1..12
  OBVIOUS
<1>10. /\ "halted" \in RulesOf(PermissionOrder) /\ "not_armed" \in RulesOf(PermissionOrder)
       /\ "unknown_side" \in RulesOf(PermissionOrder)
       /\ "unknown_order_type" \in RulesOf(PermissionOrder)
       /\ "side_not_allowed" \in RulesOf(PermissionOrder)
       /\ "order_type_not_allowed" \in RulesOf(PermissionOrder)
  BY <1>2, <1>3, <1>4, <1>5, <1>9, Zenon
<1>11. /\ "symbol_not_allowed" \in RulesOf(PermissionOrder)
       /\ "limit_price_missing" \in RulesOf(PermissionOrder)
       /\ "non_positive_quantity" \in RulesOf(PermissionOrder)
       /\ "sell_exceeds_position" \in RulesOf(PermissionOrder)
       /\ "orders_per_day" \in RulesOf(PermissionOrder)
       /\ "leverage_not_allowed" \in RulesOf(PermissionOrder)
  BY <1>2, <1>6, <1>7, <1>8, <1>9, Zenon
<1> QED BY <1>1, <1>10, <1>11

LEMMA StandingNamed ==
  ASSUME NEW m, NEW s, NEW i
  PROVE  StandingBreaches(m, s, i) \subseteq RulesOf(StandingOrder)
<1>1. StandingBreaches(m, s, i) \subseteq {"daily_loss_ceiling", "drawdown_ceiling"}
  BY DEF StandingBreaches
<1>2. /\ DOMAIN StandingOrder = 1..2
      /\ StandingOrder[1] = "daily_loss_ceiling" /\ StandingOrder[2] = "drawdown_ceiling"
  BY DEF StandingOrder
<1>3. 1 \in 1..2 /\ 2 \in 1..2
  OBVIOUS
<1>4. /\ "daily_loss_ceiling" \in RulesOf(StandingOrder)
      /\ "drawdown_ceiling" \in RulesOf(StandingOrder)
  BY <1>2, <1>3, Zenon DEF RulesOf
<1> QED BY <1>1, <1>4

LEMMA SizesNamed ==
  ASSUME NEW m, NEW s, NEW i
  PROVE  SizeBreaches(m, s, i) \subseteq RulesOf(SizeOrder)
<1>1. SizeBreaches(m, s, i) \subseteq { "order_notional_ceiling", "position_ceiling",
                                        "exposure_ceiling", "cash_buffer" }
  BY DEF SizeBreaches, Room
<1>2. /\ DOMAIN SizeOrder = 1..4
      /\ SizeOrder[1] = "order_notional_ceiling" /\ SizeOrder[2] = "position_ceiling"
      /\ SizeOrder[3] = "exposure_ceiling" /\ SizeOrder[4] = "cash_buffer"
  BY DEF SizeOrder
<1>3. 1 \in 1..4 /\ 2 \in 1..4 /\ 3 \in 1..4 /\ 4 \in 1..4
  OBVIOUS
<1>4. /\ "order_notional_ceiling" \in RulesOf(SizeOrder)
      /\ "position_ceiling" \in RulesOf(SizeOrder)
      /\ "exposure_ceiling" \in RulesOf(SizeOrder)
      /\ "cash_buffer" \in RulesOf(SizeOrder)
  BY <1>2, <1>3, Zenon DEF RulesOf
<1> QED BY <1>1, <1>4

LEMMA SizeRuleNamed ==
  ASSUME NEW m, NEW s, NEW i, NEW default
  PROVE  SizeRule(m, s, i, default) \in RulesOf(SizeOrder) \union {default}
<1>1. CASE SizeBreaches(m, s, i) = {}
  BY <1>1 DEF SizeRule
<1>2. CASE SizeBreaches(m, s, i) # {}
  <2>1. DOMAIN SizeOrder = 1..4
    BY DEF SizeOrder
  <2>2. SizeBreaches(m, s, i) \in SUBSET RulesOf(SizeOrder)
    BY SizesNamed
  <2>3. FirstOf(SizeOrder, SizeBreaches(m, s, i)) \in RulesOf(SizeOrder)
    BY <1>2, <2>1, <2>2, FirstOfNamed
  <2> QED BY <1>2, <2>3 DEF SizeRule
<1> QED BY <1>1, <1>2

LEMMA RefusedIsVerdict ==
  ASSUME NEW rule \in RulesOf(PermissionOrder) \union RulesOf(StandingOrder)
                      \union RulesOf(SizeOrder)
                      \union {"reduced_to_nothing", "below_minimum_notional"}
  PROVE  Refused(rule) \in Verdict
BY Zenon DEF Refused, Verdict

\* The gate answers with a verdict, whatever it is asked.
THEOREM EvaluateOrderType ==
  ASSUME NEW m \in Mandate, NEW s \in AccountState, NEW i \in OrderIntent
  PROVE  EvaluateOrder(m, s, i) \in Verdict
<1> DEFINE q == SizedQuantity(m, s, i)
           n == ValueCents(q, i.price)
<1>1. CASE PermissionBreaches(m, s, i) # {}
  <2>1. DOMAIN PermissionOrder = 1..12
    BY DEF PermissionOrder
  <2>2. FirstOf(PermissionOrder, PermissionBreaches(m, s, i)) \in RulesOf(PermissionOrder)
    BY <1>1, <2>1, PermissionsNamed, FirstOfNamed
  <2>3. EvaluateOrder(m, s, i) =
          Refused(FirstOf(PermissionOrder, PermissionBreaches(m, s, i)))
    BY <1>1 DEF EvaluateOrder
  <2> QED BY <2>2, <2>3, RefusedIsVerdict
<1>2. CASE PermissionBreaches(m, s, i) = {} /\ StandingBreaches(m, s, i) # {}
  <2>1. DOMAIN StandingOrder = 1..2
    BY DEF StandingOrder
  <2>2. FirstOf(StandingOrder, StandingBreaches(m, s, i)) \in RulesOf(StandingOrder)
    BY <1>2, <2>1, StandingNamed, FirstOfNamed
  <2>3. EvaluateOrder(m, s, i) = Refused(FirstOf(StandingOrder, StandingBreaches(m, s, i)))
    BY <1>2 DEF EvaluateOrder
  <2> QED BY <2>2, <2>3, RefusedIsVerdict
<1>3. CASE /\ PermissionBreaches(m, s, i) = {} /\ StandingBreaches(m, s, i) = {}
           /\ q <= 0
  <2>1. EvaluateOrder(m, s, i) = Refused(SizeRule(m, s, i, "reduced_to_nothing"))
    BY <1>3 DEF EvaluateOrder
  <2> QED BY <2>1, SizeRuleNamed, RefusedIsVerdict
<1>4. CASE /\ PermissionBreaches(m, s, i) = {} /\ StandingBreaches(m, s, i) = {}
           /\ ~(q <= 0)
           /\ m.min_order_notional > 0 /\ n < m.min_order_notional
  <2>1. EvaluateOrder(m, s, i) = Refused(SizeRule(m, s, i, "below_minimum_notional"))
    BY <1>4 DEF EvaluateOrder
  <2> QED BY <2>1, SizeRuleNamed, RefusedIsVerdict
<1>5. CASE /\ PermissionBreaches(m, s, i) = {} /\ StandingBreaches(m, s, i) = {}
           /\ ~(q <= 0)
           /\ ~(m.min_order_notional > 0 /\ n < m.min_order_notional)
  <2> DEFINE d    == IF q = i.quantity THEN "allowed" ELSE "reduced"
             rule == SizeRule(m, s, i, NoRule)
  <2>1. EvaluateOrder(m, s, i) =
          [decision |-> d, quantity |-> q, notional |-> n, rule |-> rule]
    BY <1>5 DEF EvaluateOrder
  <2>2. d \in {"allowed", "reduced"}
    OBVIOUS
  <2>3. rule \in RulesOf(SizeOrder) \union {NoRule}
    BY SizeRuleNamed
  <2>4. i.price > 0 /\ i.quantity > 0 /\ i.quantity \in Nat /\ i.price \in Nat
    BY <1>5, PermissionMeans DEF OrderIntent
  <2>5. q \in Nat
    <3>1. Wider(m, m)
      BY DEF Wider, Mandate
    <3> QED BY <2>4, <3>1, SizedQuantityMonotone
  <2>6. q \in Nat \ {0} /\ n \in Nat
    <3>1. ~(q <= 0)
      BY <1>5
    <3> HIDE DEF q
    <3>2. q \in Nat \ {0}
      BY <2>5, <3>1
    <3> QED BY <2>4, <2>5, <3>2, ValueCentsType
  <2> HIDE DEF d, rule, q, n
  <2>7. [decision |-> d, quantity |-> q, notional |-> n, rule |-> rule]
          \in [decision : {"allowed", "reduced"}, quantity : Nat \ {0}, notional : Nat,
               rule : RulesOf(SizeOrder) \union {NoRule}]
    BY <2>2, <2>3, <2>6, Zenon
  <2> QED BY <2>1, <2>7, Zenon DEF Verdict
<1> HIDE DEF q, n
<1> QED BY <1>1, <1>2, <1>3, <1>4, <1>5
=============================================================================
