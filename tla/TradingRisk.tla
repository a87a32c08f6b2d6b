---------------------------- MODULE TradingRisk ----------------------------
(***************************************************************************)
(* The mandate: the one gate every order passes                            *)
(* (backend/app/engines/trading_risk.py), with the exact arithmetic it     *)
(* rests on (backend/app/engines/quantity.py).                             *)
(*                                                                         *)
(* Money is an integer number of cents, a rate an integer number of basis  *)
(* points.  A quantity is an integer number of LOTS: the code keeps 18     *)
(* decimal places, so a unit is Unit = 10^18 lots there; every operator    *)
(* below is stated for any positive Unit.                                  *)
(*                                                                         *)
(* Everything here is a pure operator, as it is a pure function there.     *)
(***************************************************************************)
EXTENDS Integers

CONSTANTS
  Symbol,   \* the instruments an order can name
  Unit      \* lots in one unit of an instrument (10^SCALE)

ASSUME UnitAssumption == Unit \in Nat \ {0}

BpsWhole == 10000

Sides      == {"buy", "sell"}
OrderTypes == {"market", "limit"}
NoLimit    == -1      \* limit_price_cents is None

-----------------------------------------------------------------------------
(* Exact arithmetic, rounded once.                                         *)

LeastOf(a, b)    == IF a <= b THEN a ELSE b
GreatestOf(a, b) == IF a >= b THEN a ELSE b

\* n / d to the nearest integer, a tie going away from zero (ROUND_HALF_UP).
HalfUp(n, d) ==
  IF n >= 0 THEN (2 * n + d) \div (2 * d) ELSE -((d - 2 * n) \div (2 * d))

\* The worth of q lots at p cents a unit, in cents.
ValueCents(q, p) == HalfUp(q * p, Unit)

\* A mutant: the reduced quantity kept strictly under the ceiling, which the
\* mandate's inclusive ceilings do not ask.
QuantityStrictlyBelow(target, price) ==
  IF target <= 0 \/ price <= 0 THEN 0 ELSE (target * Unit - 1) \div price

\* The largest quantity worth no more than target: rounded DOWN, always.
QuantityForValue(target, price) ==
  IF target <= 0 \/ price <= 0 THEN 0 ELSE (target * Unit) \div price

-----------------------------------------------------------------------------
(* What the gate is handed.                                                *)

\* Every ceiling is inclusive; an empty whitelist allows nothing.
Mandate ==
  [ max_position : Nat, max_exposure : Nat, max_order_notional : Nat,
    max_daily_loss : Nat, max_drawdown_bps : Nat, max_orders_per_day : Nat,
    min_cash_buffer : Nat, min_order_notional : Nat,
    allowed_symbols : SUBSET Symbol, allowed_sides : SUBSET Sides,
    allowed_order_types : SUBSET OrderTypes,
    allow_short : BOOLEAN, allow_leverage : BOOLEAN ]

AccountState ==
  [ equity : Int, cash : Int, peak : Int, exposure : Int, position : Int,
    quantity : Nat, realised_today : Int, orders_today : Nat,
    halted : BOOLEAN, armed : BOOLEAN ]

OrderIntent ==
  [ symbol : Symbol, side : Sides, quantity : Int, order_type : OrderTypes,
    price : Int, limit : Int ]

-----------------------------------------------------------------------------
(* Rules that admit no smaller version of themselves.                      *)

\* The test behind each permission rule.
PermissionTests(m, s, i) ==
  [ halted                 |-> s.halted,
    not_armed              |-> ~s.armed,
    unknown_side           |-> i.side \notin Sides,
    unknown_order_type     |-> i.order_type \notin OrderTypes,
    side_not_allowed       |-> i.side \notin m.allowed_sides,
    order_type_not_allowed |-> i.order_type \notin m.allowed_order_types,
    symbol_not_allowed     |-> i.symbol \notin m.allowed_symbols,
    limit_price_missing    |-> i.order_type = "limit" /\ i.limit = NoLimit,
    non_positive_quantity  |-> i.price <= 0 \/ i.quantity <= 0,
    sell_exceeds_position  |-> /\ i.side = "sell"
                               /\ ~m.allow_short
                               /\ i.quantity > s.quantity,
    \* a churn control: it holds for a sale too
    orders_per_day         |-> s.orders_today >= m.max_orders_per_day,
    leverage_not_allowed   |-> /\ ~m.allow_leverage
                               /\ i.side = "buy"
                               /\ ValueCents(i.quantity, i.price) > s.cash ]

\* The permission rules this order breaks.  The code returns at the first one,
\* in PermissionOrder; none of the tests has an effect.
PermissionBreaches(m, s, i) ==
  LET broken == PermissionTests(m, s, i)
  IN {rule \in DOMAIN broken : broken[rule]}

PermissionOrder ==
  << "halted", "not_armed", "unknown_side", "unknown_order_type",
     "side_not_allowed", "order_type_not_allowed", "symbol_not_allowed",
     "limit_price_missing", "non_positive_quantity", "sell_exceeds_position",
     "orders_per_day", "leverage_not_allowed" >>

FirstOf(order, rules) ==
  order[CHOOSE k \in DOMAIN order :
          /\ order[k] \in rules
          /\ \A j \in 1..(k - 1) : order[j] \notin rules]

-----------------------------------------------------------------------------
(* Rules that close the account to new risk, not to reducing it.           *)

IsReducing(s, i) == i.side = "sell" /\ i.quantity <= s.quantity

DrawdownBps(s) == HalfUp((s.peak - s.equity) * BpsWhole, s.peak)

\* A mutant: the loss ceilings hold for a reducing sale too.
StandingForEveryOrder(m, s, i) ==
  LET broken ==
        [ daily_loss_ceiling |-> -s.realised_today >= m.max_daily_loss,
          drawdown_ceiling   |-> /\ s.peak > 0
                                 /\ DrawdownBps(s) >= m.max_drawdown_bps ]
  IN {rule \in DOMAIN broken : broken[rule]}

StandingBreaches(m, s, i) ==
  LET broken ==
        [ daily_loss_ceiling |-> -s.realised_today >= m.max_daily_loss,
          drawdown_ceiling   |-> /\ s.peak > 0
                                 /\ DrawdownBps(s) >= m.max_drawdown_bps ]
  IN {rule \in DOMAIN broken : ~IsReducing(s, i) /\ broken[rule]}

StandingOrder == << "daily_loss_ceiling", "drawdown_ceiling" >>

-----------------------------------------------------------------------------
(* Rules that reduce.                                                      *)

\* What each size rule leaves for THIS order.
Room(m, s) ==
  [ order_notional_ceiling |-> m.max_order_notional,
    position_ceiling       |-> m.max_position - s.position,
    exposure_ceiling       |-> m.max_exposure - s.exposure,
    cash_buffer            |-> s.cash - m.min_cash_buffer ]

SizeOrder == << "order_notional_ceiling", "position_ceiling",
                "exposure_ceiling", "cash_buffer" >>

Notional(i) == ValueCents(i.quantity, i.price)

\* The size rules a buy exceeds.  A sale reduces every one of them.
SizeBreaches(m, s, i) ==
  {rule \in DOMAIN Room(m, s) : i.side = "buy" /\ Notional(i) > Room(m, s)[rule]}

\* One turn of the loop over the ceilings.
Shrunk(q, room, i) ==
  IF i.side = "sell" \/ Notional(i) <= room
  THEN q
  ELSE LeastOf(q, QuantityForValue(room, i.price))

\* A mutant: the loop keeps the last ceiling's candidate, not the smallest.
LastCandidate(m, s, i) ==
  LET room == Room(m, s)
      Last(q, r) == IF i.side = "sell" \/ Notional(i) <= r
                    THEN q ELSE QuantityForValue(r, i.price)
  IN Last(Last(Last(Last(i.quantity, room.order_notional_ceiling),
                    room.position_ceiling),
               room.exposure_ceiling),
          room.cash_buffer)

SizedQuantity(m, s, i) ==
  LET room == Room(m, s)
  IN Shrunk(Shrunk(Shrunk(Shrunk(i.quantity, room.order_notional_ceiling, i),
                          room.position_ceiling, i),
                   room.exposure_ceiling, i),
            room.cash_buffer, i)

-----------------------------------------------------------------------------
(* The gate.  `rule` is the first breach of the verdict, "none" if it has  *)
(* no breach; `notional` is the quantity at the reference price.           *)

NoRule == "none"

RulesOf(order) == {order[k] : k \in DOMAIN order}

\* A refusal names what was broken, or the floor the reductions went under; an
\* order that passes names the first ceiling that reduced it, if one did.
Verdict ==
  [ decision : {"refused"}, quantity : {0}, notional : {0},
    rule     : RulesOf(PermissionOrder) \union RulesOf(StandingOrder)
               \union RulesOf(SizeOrder)
               \union {"reduced_to_nothing", "below_minimum_notional"} ]
  \union
  [ decision : {"allowed", "reduced"}, quantity : Nat \ {0}, notional : Nat,
    rule     : RulesOf(SizeOrder) \union {NoRule} ]

Refused(rule) ==
  [decision |-> "refused", quantity |-> 0, notional |-> 0, rule |-> rule]

\* The first size rule the order exceeds; what it is called if none does.
SizeRule(m, s, i, default) ==
  IF SizeBreaches(m, s, i) = {}
  THEN default ELSE FirstOf(SizeOrder, SizeBreaches(m, s, i))

\* A mutant: an order reduced to nothing is sent where there is no floor.
EvaluateKeepingNothing(m, s, i) ==
  LET permission == PermissionBreaches(m, s, i)
      standing   == StandingBreaches(m, s, i)
      quantity   == SizedQuantity(m, s, i)
      notional   == ValueCents(quantity, i.price)
  IN  IF permission # {} THEN Refused(FirstOf(PermissionOrder, permission))
      ELSE IF standing # {} THEN Refused(FirstOf(StandingOrder, standing))
      ELSE IF m.min_order_notional > 0 /\ notional < m.min_order_notional
           THEN Refused(SizeRule(m, s, i, "below_minimum_notional"))
      ELSE [ decision |-> IF quantity = i.quantity THEN "allowed" ELSE "reduced",
             quantity |-> quantity, notional |-> notional,
             rule     |-> SizeRule(m, s, i, NoRule) ]

\* The gate's answer: permissions, then standing rules, then the reductions.
EvaluateOrder(m, s, i) ==
  LET permission == PermissionBreaches(m, s, i)
      standing   == StandingBreaches(m, s, i)
      quantity   == SizedQuantity(m, s, i)
      notional   == ValueCents(quantity, i.price)
  IN  IF permission # {} THEN Refused(FirstOf(PermissionOrder, permission))
      ELSE IF standing # {} THEN Refused(FirstOf(StandingOrder, standing))
      ELSE IF quantity <= 0
           THEN Refused(SizeRule(m, s, i, "reduced_to_nothing"))
      ELSE IF m.min_order_notional > 0 /\ notional < m.min_order_notional
           THEN Refused(SizeRule(m, s, i, "below_minimum_notional"))
      ELSE [ decision |-> IF quantity = i.quantity THEN "allowed" ELSE "reduced",
             quantity |-> quantity, notional |-> notional,
             rule     |-> SizeRule(m, s, i, NoRule) ]
=============================================================================
