--------------------------- MODULE MandateReview ---------------------------
(***************************************************************************)
(* The gate of TradingRisk put to work on one proposed order while the     *)
(* household moves its ceilings one notch at a time (PUT /invest/policy):  *)
(* every state holds a mandate, an account, an intent and the verdict the  *)
(* gate gives on them, and a step moves one ceiling and asks again.        *)
(*                                                                         *)
(* The account states are the consistent ones: the position is worth what  *)
(* its quantity is worth at the reference price, and the exposure holds    *)
(* the position.                                                           *)
(***************************************************************************)
EXTENDS TradingRisk

CONSTANTS
  Mandates,      \* mandates to start from
  Situations,    \* accounts before they are priced
  Intents,       \* proposed orders
  Reach          \* bound: the figures each ceiling and floor moves among

\* The ceilings a wider mandate raises; the two floors it lowers.
Ceilings == { "max_position", "max_exposure", "max_order_notional",
              "max_daily_loss", "max_orders_per_day" }
Floors   == { "min_cash_buffer", "min_order_notional" }

Situation ==
  [ quantity : Nat, cash : Int, elsewhere : Nat, fallen : Nat,
    realised_today : Int, orders_today : Nat, halted : BOOLEAN, armed : BOOLEAN ]

ASSUME ReviewAssumption ==
  /\ Mandates \subseteq Mandate
  /\ Situations \subseteq Situation
  /\ Intents \subseteq OrderIntent
  /\ \A i \in Intents : i.price >= 0
  /\ Reach \in [Ceilings \union Floors -> SUBSET Nat]

VARIABLES mandate, account, intent, verdict

vars == <<mandate, account, intent, verdict>>

\* The account as run_cycle hands it to the gate.
Measured(sit, price) ==
  LET position == ValueCents(sit.quantity, price)
      exposure == position + sit.elsewhere
      equity   == sit.cash + exposure
  IN [ equity |-> equity, cash |-> sit.cash, peak |-> equity + sit.fallen,
       exposure |-> exposure, position |-> position, quantity |-> sit.quantity,
       realised_today |-> sit.realised_today, orders_today |-> sit.orders_today,
       halted |-> sit.halted, armed |-> sit.armed ]

Init ==
  /\ mandate \in Mandates
  /\ intent \in Intents
  /\ \E sit \in Situations : account = Measured(sit, intent.price)
  /\ verdict = EvaluateOrder(mandate, account, intent)

\* The household moves one ceiling or floor by one notch, either way.
MoveCeiling ==
  \E name \in Ceilings \union Floors, notch \in {-1, 1} :
    /\ mandate[name] + notch \in Reach[name]
    /\ mandate' = [mandate EXCEPT ![name] = @ + notch]
    /\ verdict' = EvaluateOrder(mandate', account, intent)
    /\ UNCHANGED <<account, intent>>

Next == MoveCeiling

Spec == Init /\ [][Next]_vars

-----------------------------------------------------------------------------

TypeOK ==
  /\ mandate \in Mandate
  /\ account \in AccountState
  /\ intent  \in OrderIntent
  /\ verdict \in Verdict

\* A buy that passes the gate fits under EVERY ceiling at once, at the
\* reference price, and is never larger than what was asked: reducing for one
\* ceiling may not undo the reduction made for another (evaluate_order).
SizedOrderFits ==
  verdict.decision # "refused" =>
    /\ verdict.quantity \in 1..intent.quantity
    /\ intent.side = "buy" =>
         \A rule \in DOMAIN Room(mandate, account) :
           verdict.notional <= Room(mandate, account)[rule]

\* A size rule REDUCES, "down to the largest quantity that satisfies every
\* size rule at once": one lot more would be worth, exactly, more than the
\* room some exceeded ceiling leaves.
LargestThatFits ==
  verdict.decision = "reduced" =>
    \E rule \in SizeBreaches(mandate, account, intent) :
      (verdict.quantity + 1) * intent.price > Room(mandate, account)[rule] * Unit

\* A sale that shrinks a position is never refused or cut by a loss ceiling, a
\* drawdown or a size rule, however deep the loss: only a permission rule or
\* the floor under one order can stop it (_standing_breach, _size_ceilings).
ReducingSaleStaysOpen ==
  /\ IsReducing(account, intent)
  /\ PermissionBreaches(mandate, account, intent) = {}
  /\ verdict.decision # "allowed"
  => /\ verdict.rule = "below_minimum_notional"
     /\ Notional(intent) < mandate.min_order_notional

\* Widening the mandate by any one notch never turns a passed order into a
\* refused one and never shrinks it: the rules do not work against each other.
WiderNeverSendsLess ==
  [][ (/\ \A name \in Ceilings : mandate'[name] >= mandate[name]
       /\ \A name \in Floors : mandate'[name] <= mandate[name])
      => verdict'.quantity >= verdict.quantity ]_vars
=============================================================================
