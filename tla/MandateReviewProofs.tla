------------------------ MODULE MandateReviewProofs ------------------------
(***************************************************************************)
(* Two of the gate's promises as invariants of every review, whatever the  *)
(* mandates, accounts and orders it starts from and wherever the ceilings  *)
(* are moved: from TradingRiskProofs, and the fact that a review always    *)
(* shows the gate's own verdict.                                           *)
(***************************************************************************)
EXTENDS MandateReview, TradingRiskProofs

\* What is typed, and whose verdict is shown.
Shown ==
  /\ mandate \in Mandate /\ account \in AccountState /\ intent \in OrderIntent
  /\ verdict = EvaluateOrder(mandate, account, intent)

LEMMA MeasuredType ==
  ASSUME NEW sit \in Situation, NEW p \in Nat
  PROVE  Measured(sit, p) \in AccountState
<1> DEFINE position == ValueCents(sit.quantity, p)
<1>1. position \in Nat
  BY ValueCentsType DEF Situation
<1> HIDE DEF position
<1>2. /\ sit.cash \in Int /\ sit.elsewhere \in Nat /\ sit.fallen \in Nat
      /\ sit.quantity \in Nat /\ sit.realised_today \in Int
      /\ sit.orders_today \in Nat /\ sit.halted \in BOOLEAN /\ sit.armed \in BOOLEAN
  BY DEF Situation
<1>3. Measured(sit, p) =
        [ equity |-> sit.cash + (position + sit.elsewhere), cash |-> sit.cash,
          peak |-> sit.cash + (position + sit.elsewhere) + sit.fallen,
          exposure |-> position + sit.elsewhere, position |-> position,
          quantity |-> sit.quantity, realised_today |-> sit.realised_today,
          orders_today |-> sit.orders_today,
          halted |-> sit.halted, armed |-> sit.armed ]
  BY DEF Measured, position
<1> QED BY <1>1, <1>2, <1>3 DEF AccountState

\* Moving one ceiling leaves a mandate a mandate.
LEMMA MovedMandate ==
  ASSUME NEW m \in Mandate, NEW name \in Ceilings \union Floors, NEW v \in Nat
  PROVE  [m EXCEPT ![name] = v] \in Mandate
BY DEF Mandate, Ceilings, Floors

\* The verdict on show is always the gate's answer on the mandate in force, and
\* the three of them keep their types (evaluate_order, write_policy).
THEOREM ShownAlways == Spec => []Shown
<1>1. Init => Shown
  <2> SUFFICES ASSUME Init PROVE Shown
    OBVIOUS
  <2>1. PICK sit \in Situations : account = Measured(sit, intent.price)
    BY DEF Init
  <2>2. intent \in OrderIntent /\ intent.price \in Nat
    BY ReviewAssumption DEF Init, OrderIntent
  <2>3. account \in AccountState
    BY <2>1, <2>2, MeasuredType, ReviewAssumption
  <2> QED BY <2>2, <2>3, ReviewAssumption DEF Init, Shown
<1>2. Shown /\ [Next]_vars => Shown'
  <2> SUFFICES ASSUME Shown, [Next]_vars PROVE Shown'
    OBVIOUS
  <2>1. CASE MoveCeiling
    <3>1. PICK name \in Ceilings \union Floors, notch \in {-1, 1} :
            /\ mandate[name] + notch \in Reach[name]
            /\ mandate' = [mandate EXCEPT ![name] = mandate[name] + notch]
            /\ verdict' = EvaluateOrder(mandate', account, intent)
            /\ UNCHANGED <<account, intent>>
      BY <2>1 DEF MoveCeiling
    <3>2. mandate[name] + notch \in Nat
      BY <3>1, ReviewAssumption
    <3>3. mandate' \in Mandate
      BY <3>1, <3>2, MovedMandate DEF Shown
    <3> QED BY <3>1, <3>3 DEF Shown
  <2>2. CASE UNCHANGED vars
    BY <2>2 DEF Shown, vars
  <2> QED BY <2>1, <2>2 DEF Next
<1> QED BY <1>1, <1>2, PTL DEF Spec

\* A buy that passes fits under every ceiling at once, and nothing that passes
\* is larger than what was asked (evaluate_order).
THEOREM SizedOrderFitsAlways == Spec => []SizedOrderFits
<1>1. Shown => SizedOrderFits
  BY PassedOrderFits DEF Shown, SizedOrderFits
<1> QED BY <1>1, ShownAlways, PTL

\* No review ever shows a sale of no more than is held refused or cut by a
\* loss ceiling, a drawdown or a size rule (_standing_breach).
THEOREM ReducingSaleStaysOpenAlways == Spec => []ReducingSaleStaysOpen
<1>1. Shown => ReducingSaleStaysOpen
  BY ReducingSaleIsNotTrapped DEF Shown, ReducingSaleStaysOpen, Refused
<1> QED BY <1>1, ShownAlways, PTL

\* Whatever is moved and asked, the review shows a mandate, an account, an
\* order and a verdict (engines/trading_risk.py).
THEOREM ReviewTypesAlways == Spec => []TypeOK
<1>1. Shown => TypeOK
  BY EvaluateOrderType DEF Shown, TypeOK
<1> QED BY <1>1, ShownAlways, PTL

\* An order cut down is cut for a ceiling it exceeds, and no further than that
\* ceiling asks (evaluate_order, _quantity_for_value).
THEOREM LargestThatFitsAlways == Spec => []LargestThatFits
<1>1. Shown => LargestThatFits
  BY ReducedOrderIsLargest DEF Shown, LargestThatFits
<1> QED BY <1>1, ShownAlways, PTL

\* Raising a ceiling or lowering a floor never turns a passed order into a
\* refused one and never shrinks it (evaluate_order).
THEOREM WiderNeverSendsLessAlways == Spec => WiderNeverSendsLess
<1> DEFINE Sends ==
             (/\ \A name \in Ceilings : mandate'[name] >= mandate[name]
              /\ \A name \in Floors : mandate'[name] <= mandate[name])
             => verdict'.quantity >= verdict.quantity
<1>1. Shown /\ [Next]_vars => [Sends]_vars
  <2> SUFFICES ASSUME Shown, MoveCeiling,
                      \A name \in Ceilings : mandate'[name] >= mandate[name],
                      \A name \in Floors : mandate'[name] <= mandate[name]
               PROVE  verdict'.quantity >= verdict.quantity
    BY DEF Next
  <2>1. PICK name \in Ceilings \union Floors, notch \in {-1, 1} :
          /\ mandate[name] + notch \in Reach[name]
          /\ mandate' = [mandate EXCEPT ![name] = mandate[name] + notch]
          /\ verdict' = EvaluateOrder(mandate', account, intent)
          /\ UNCHANGED <<account, intent>>
    BY DEF MoveCeiling
  <2>2. mandate[name] + notch \in Nat
    BY <2>1, ReviewAssumption
  <2>3. mandate' \in Mandate /\ mandate \in Mandate
    BY <2>1, <2>2, MovedMandate DEF Shown
  <2>4. /\ mandate.max_drawdown_bps = mandate'.max_drawdown_bps
        /\ mandate'.allowed_symbols = mandate.allowed_symbols
        /\ mandate'.allowed_sides = mandate.allowed_sides
        /\ mandate'.allowed_order_types = mandate.allowed_order_types
        /\ mandate'.allow_short = mandate.allow_short
        /\ mandate'.allow_leverage = mandate.allow_leverage
    BY <2>1, <2>3 DEF Mandate, Ceilings, Floors
  <2>5. /\ mandate'.max_position >= mandate.max_position
        /\ mandate'.max_exposure >= mandate.max_exposure
        /\ mandate'.max_order_notional >= mandate.max_order_notional
        /\ mandate'.max_daily_loss >= mandate.max_daily_loss
        /\ mandate'.max_orders_per_day >= mandate.max_orders_per_day
        /\ mandate'.min_cash_buffer <= mandate.min_cash_buffer
        /\ mandate'.min_order_notional <= mandate.min_order_notional
    BY DEF Ceilings, Floors
  <2>6. Wider(mandate, mandate')
    <3>1. /\ mandate.max_position \in Nat /\ mandate'.max_position \in Nat
          /\ mandate.max_exposure \in Nat /\ mandate'.max_exposure \in Nat
          /\ mandate.max_order_notional \in Nat /\ mandate'.max_order_notional \in Nat
          /\ mandate.max_daily_loss \in Nat /\ mandate'.max_daily_loss \in Nat
          /\ mandate.max_orders_per_day \in Nat /\ mandate'.max_orders_per_day \in Nat
      BY <2>3 DEF Mandate
    <3> QED BY <2>4, <2>5, <3>1 DEF Wider
  <2>7. EvaluateOrder(mandate, account, intent).quantity
          <= EvaluateOrder(mandate', account, intent).quantity
    BY <2>3, <2>6, WiderSendsNoLess DEF Shown
  <2>8. /\ EvaluateOrder(mandate, account, intent).quantity \in Nat
        /\ EvaluateOrder(mandate', account, intent).quantity \in Nat
    <3>1. /\ EvaluateOrder(mandate, account, intent) \in Verdict
          /\ EvaluateOrder(mandate', account, intent) \in Verdict
      BY <2>3, EvaluateOrderType DEF Shown
    <3> QED BY <3>1 DEF Verdict
  <2> QED BY <2>1, <2>7, <2>8 DEF Shown
<1> QED BY <1>1, ShownAlways, PTL DEF Spec, WiderNeverSendsLess
=============================================================================
