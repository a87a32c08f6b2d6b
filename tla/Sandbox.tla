------------------------------ MODULE Sandbox ------------------------------
(***************************************************************************)
(* The paper account in one pair of hands: tours over the whitelist        *)
(* (backend/app/trading/service.py, run_cycle), the synthetic market that  *)
(* moves one step per tour, the turn of the day, the household rewriting   *)
(* its mandate, resetting the sandbox and starting a simulated day.  Every *)
(* order goes through Strategy (the size), TradingRisk (the mandate) and   *)
(* PaperBook (the execution), with their exact rounding.                   *)
(*                                                                         *)
(* A tour decides on the last close of a window of the market's history    *)
(* (HISTORY_LENGTH closes) and trades on a book quoted around the close of *)
(* the current step.  The two are the same close only once the market has  *)
(* lived as long as the window: before that the window is taken from the   *)
(* start of the market, and ends in its future (trading/sandbox.py).       *)
(*                                                                         *)
(* Nothing is concurrent here; what several hands do is Desk's subject.    *)
(***************************************************************************)
EXTENDS PaperBook, Strategy, Sequences, FiniteSets, Functions

CONSTANTS
  Whitelist,     \* the instruments, in the order a tour examines them
  Mandates,      \* the mandates the household may write
  ThresholdSettings,  \* the strategy thresholds beside them
  AnswerSet,     \* the answers a model may give
  Prices,        \* closes of the synthetic market
  WarmUp,        \* the first step at which the window ends at the present:
                 \* HISTORY_LENGTH - 1
  HalfSpread,    \* cents between the close and each side of the book
  SlippageBps,   \* of the venue
  Stakes,        \* the amounts a sandbox may be reset to
  MaxDay,        \* bound: the calendar ends
  MaxFills       \* bound: fills between two resets

ASSUME SandboxAssumption ==
  /\ IsFiniteSet(Symbol)
  /\ Whitelist \in Seq(Symbol) /\ Len(Whitelist) > 0
  /\ Mandates \subseteq Mandate
  /\ ThresholdSettings \in Settings
  /\ AnswerSet \subseteq Answers
  /\ Prices \subseteq Nat \ {0}
  /\ WarmUp \in Nat
  /\ HalfSpread \in Nat /\ SlippageBps \in 0..1000
  /\ Stakes \subseteq Nat
  /\ MaxDay \in Nat \ {0} /\ MaxFills \in Nat

VARIABLES
  mandate,    \* TradingPolicy
  step,       \* sandbox_step; WarmUp stands for every later step
  price,      \* the close of each instrument at that step
  reference,  \* the last close of the window a tour reads
  account,    \* TradingAccount, mode paper
  positions,  \* TradingPosition rows; a missing row is EmptyPosition
  today,      \* the calendar
  turn,       \* 0: no tour; k: the tour is at Whitelist[k]
  fills,      \* history: fills since the last reset
  rounding,   \* history: what the roundings since then may explain, in
              \* halves of a lot-cent
  dayResult,  \* history: realised since the counters last had to start again
  highest     \* history: the account's highest worth at reference prices since then

vars == <<mandate, step, price, reference, account, positions, today, turn, fills,
          rounding, dayResult, highest>>

Account == [ cash : Int, initial : Nat, peak : Int, counters_on : Nat,
             orders_today : Nat, realised_today : Int, realised_total : Int ]

FreshAccount(cash, day) ==
  [ cash |-> cash, initial |-> cash, peak |-> cash, counters_on |-> day,
    orders_today |-> 0, realised_today |-> 0, realised_total |-> 0 ]

\* A mutant: the daily counters start again with every tour.
AccountForTour(acc) ==
  [acc EXCEPT !.counters_on = today, !.orders_today = 0, !.realised_today = 0]

\* account_for: the daily counters start again when the day has turned.
AccountFor(acc) ==
  IF acc.counters_on = today THEN acc
  ELSE [acc EXCEPT !.counters_on = today, !.orders_today = 0, !.realised_today = 0]

-----------------------------------------------------------------------------
(* What a tour measures.                                                   *)

Cost(p)     == ValueCents(p.quantity, p.average)
Exposure(held) == SumFunction([s \in Symbol |-> Cost(held[s])])

\* The account at given prices.  It is not what the code's gate is handed.
MarketWorth(acc, held, at) ==
  acc.cash + SumFunction([s \in Symbol |-> ValueCents(held[s].quantity, at[s])])

\* The synthetic book around a close: a spread, and never a price of zero.
QuoteOf(s) ==
  [ bid |-> IF HalfSpread = 0 THEN price[s] ELSE GreatestOf(1, price[s] - HalfSpread),
    ask |-> price[s] + HalfSpread ]

\* The account as the gate is handed it: the exposure, and so the equity and
\* the drawdown, at COST; the position at the window's last close.  A paper account
\* is always armed.
StateFor(s, peak) ==
  LET exposure == Exposure(positions)
  IN [ equity |-> account.cash + exposure, cash |-> account.cash, peak |-> peak,
       exposure |-> exposure,
       position |-> ValueCents(positions[s].quantity, reference[s]),
       quantity |-> positions[s].quantity,
       realised_today |-> account.realised_today,
       orders_today |-> account.orders_today,
       halted |-> FALSE, armed |-> TRUE ]

PeakNow == GreatestOf(account.peak, account.cash + Exposure(positions))

IntentFor(s, answers) ==
  SizedIntent(s, answers, ThresholdSettings, mandate, positions[s].quantity, reference[s])

\* The most one fill may round away: a purchase restates an average to the
\* cent for every lot held, a sale splits one rounded worth in two.
RoundingOf(side, after) ==
  IF side = "buy" THEN after.quantity + Unit ELSE 2 * Unit

-----------------------------------------------------------------------------

\* Where the market may be: anywhere, with the window's last close the present
\* one from the step WarmUp on.
Market == [ step : 0..WarmUp, price : [Symbol -> Prices], reference : [Symbol -> Prices] ]
Readings == { m \in Market : m.step = WarmUp => m.reference = m.price }

\* The market moves one step.  The window stays where it is, its last close a
\* close to come, until the market reaches it; from then on they move together.
Moved == { m \in Readings :
             /\ m.step = LeastOf(step + 1, WarmUp)
             /\ step < WarmUp => m.reference = reference }

Init ==
  /\ mandate \in Mandates
  /\ \E m \in Readings : step = m.step /\ price = m.price /\ reference = m.reference
  /\ \E stake \in Stakes : account = FreshAccount(stake, 1) /\ highest = stake
  /\ positions = [s \in Symbol |-> EmptyPosition]
  /\ today = 1 /\ turn = 0 /\ fills = 0 /\ rounding = 0 /\ dayResult = 0

StartTour ==
  /\ turn = 0
  /\ turn' = 1
  /\ account' = AccountFor(account)
  /\ dayResult' = IF account.counters_on = today THEN dayResult ELSE 0
  /\ UNCHANGED <<mandate, step, price, reference, positions, today, fills, rounding, highest>>

Here == Whitelist[turn]
Turning == turn \in 1..Len(Whitelist)

\* No order: the indicators failed, the model failed, answered hold or below
\* the thresholds, or the size came to nothing.
ExamineWithoutOrder ==
  /\ Turning
  /\ turn' = turn + 1
  /\ UNCHANGED <<mandate, step, price, reference, account, positions, today, fills,
                 rounding, dayResult, highest>>

\* The mandate's answer to an order, and the venue's to what was left of it.
VerdictOn(intent) == EvaluateOrder(mandate, StateFor(Here, PeakNow), intent)

FillOf(intent, quantity) ==
  SimulateFill(intent.side, quantity, intent.order_type, QuoteOf(Here),
               SlippageBps, intent.limit)

\* The peak is measured before the mandate is asked, and kept whatever becomes
\* of the order: one the mandate refuses, one a policy in observer mode does
\* not send, one the venue fails to take.
ExamineNotSent ==
  /\ Turning
  /\ \E answers \in AnswerSet :
       /\ answers.choice \in Offered(positions[Here].quantity)
       /\ Clears(answers, ThresholdSettings)
       /\ IntentFor(Here, answers).quantity > 0
  /\ account' = [account EXCEPT !.peak = PeakNow]
  /\ turn' = turn + 1
  /\ UNCHANGED <<mandate, step, price, reference, positions, today, fills,
                 rounding, dayResult, highest>>

\* A filled order is counted and booked: position, cash and realised result
\* together (_settle).
Settle(side, fill) ==
  LET outcome == ApplyFill(positions[Here], account.cash, side, fill)
  IN /\ positions' = [positions EXCEPT ![Here] = outcome.position]
     /\ account' = [account EXCEPT !.peak = PeakNow,
                                   !.orders_today = @ + 1,
                                   !.cash = outcome.cash,
                                   !.realised_today = @ + outcome.realised,
                                   !.realised_total = @ + outcome.realised]
     /\ rounding' = rounding + RoundingOf(side, outcome.position)
     /\ dayResult' = dayResult + outcome.realised

\* An order sent to the simulated book, filled there and settled (_place).
ExamineOrdered ==
  /\ Turning
  /\ fills < MaxFills
  /\ \E answers \in AnswerSet :
       LET intent  == IntentFor(Here, answers)
           verdict == VerdictOn(intent)
           fill    == FillOf(intent, verdict.quantity)
       IN /\ answers.choice \in Offered(positions[Here].quantity)
          /\ Clears(answers, ThresholdSettings)
          /\ intent.quantity > 0
          /\ verdict.decision # "refused"
          /\ fill.state = "filled"
          /\ Covered(positions[Here], intent.side, fill)
          /\ Settle(intent.side, fill)
  /\ turn' = turn + 1
  /\ fills' = fills + 1
  /\ highest' = GreatestOf(highest, MarketWorth(account', positions', reference))
  /\ UNCHANGED <<mandate, step, price, reference, today>>

\* The tour ends, and the synthetic market moves one step.
EndTour ==
  /\ turn = Len(Whitelist) + 1
  /\ turn' = 0
  /\ \E m \in Moved : step' = m.step /\ price' = m.price /\ reference' = m.reference
  /\ highest' = GreatestOf(highest, MarketWorth(account, positions, reference'))
  /\ UNCHANGED <<mandate, account, positions, today, fills, rounding, dayResult>>

\* The stake back, no position, the counters at zero (reset_sandbox).
Restaked ==
  /\ turn = 0
  /\ \E stake \in Stakes :
       account' = FreshAccount(stake, today) /\ highest' = stake
  /\ positions' = [s \in Symbol |-> EmptyPosition]
  /\ fills' = 0 /\ rounding' = 0 /\ dayResult' = 0
  /\ UNCHANGED <<mandate, today, turn>>

\* The household resets its sandbox; the market stays where it is.
ResetSandbox == Restaked /\ UNCHANGED <<step, price, reference>>

\* A simulated day starts: a clean sandbox, and the market at the day's seed.
StartSession ==
  /\ Restaked
  /\ \E m \in Readings : step' = m.step /\ price' = m.price /\ reference' = m.reference

\* write_policy, between two tours.
WritePolicy ==
  /\ turn = 0
  /\ mandate' \in Mandates
  /\ UNCHANGED <<step, price, reference, account, positions, today, turn, fills,
                 rounding, dayResult, highest>>

\* Midnight, at any moment: a tour keeps the day it started on.
DayTurns ==
  /\ today < MaxDay
  /\ today' = today + 1
  /\ UNCHANGED <<mandate, step, price, reference, account, positions, turn, fills,
                 rounding, dayResult, highest>>

Next ==
  \/ StartTour \/ ExamineWithoutOrder \/ ExamineNotSent \/ ExamineOrdered
  \/ EndTour \/ ResetSandbox \/ StartSession \/ WritePolicy \/ DayTurns

Spec == Init /\ [][Next]_vars

-----------------------------------------------------------------------------
(* Properties.                                                             *)

TypeOK ==
  /\ mandate \in Mandates
  /\ step \in 0..WarmUp
  /\ price \in [Symbol -> Prices] /\ reference \in [Symbol -> Prices]
  /\ account \in Account
  /\ positions \in [Symbol -> PositionState]
  \* a closed position keeps no memory of its price
  /\ \A s \in Symbol : positions[s].quantity = 0 => positions[s] = EmptyPosition
  /\ today \in 1..MaxDay /\ account.counters_on <= today
  /\ turn \in 0..(Len(Whitelist) + 1)
  /\ fills \in 0..MaxFills /\ rounding \in Nat
  /\ dayResult \in Int /\ highest \in Int

Distance(a, b) == GreatestOf(a - b, b - a)

\* Double entry.  The cash, the positions at cost, the stake and the realised
\* result always explain one another, up to what the roundings of the average
\* price and of each worth can account for since the last reset: a cent
\* neither appears nor is lost by buying, selling in parts and buying again
\* (apply_fill, _settle, reset_sandbox).
BookExplained ==
  2 * Unit * Distance(account.cash + Exposure(positions),
                      account.initial + account.realised_total) <= rounding

Grew(s) == positions'[s].quantity > positions[s].quantity

\* The close a purchase is checked at: the present one, once the market has
\* lived as long as the window; before that, one of a step to come.
CheckedAt(s) == IF step < WarmUp THEN reference[s] ELSE price[s]

\* What the purchase of q more lots pays above their worth at that close: the
\* half spread, the slippage, the roundings of both, and during the warm-up the
\* whole distance between two closes of the market.
PaidAbove(s, q) ==
  ValueCents(q, Executed("buy", QuoteOf(s), SlippageBps)) - ValueCents(q, CheckedAt(s))

\* Whatever was bought before, at whatever price, a purchase leaves the account
\* inside the mandate, but for what it pays above the close it was checked at:
\* the position at that close under its ceiling, the exposure at cost under its
\* own up to the rounding of one average, the reserve in cash, the day's orders
\* within the cap (evaluate_order measures at the window's last close,
\* simulate_fill executes at the present ask plus slippage).
BuyKeepsMandate ==
  [][ \A s \in Symbol : Grew(s) =>
        LET over == PaidAbove(s, positions'[s].quantity - positions[s].quantity)
        IN /\ ValueCents(positions'[s].quantity, CheckedAt(s)) <= mandate.max_position + 1
           /\ 2 * Unit * (Exposure(positions') - mandate.max_exposure - over)
                <= positions'[s].quantity + Unit
           /\ account'.cash >= mandate.min_cash_buffer - over
           /\ account'.orders_today <= mandate.max_orders_per_day ]_vars

\* "The chart is the very market the decisions were taken on", "step k was
\* decided on index seed + k - 1" (api/invest_session.py): an order is decided
\* at the close of the step it is placed at.
DecidedOnTheMarketShown ==
  [][ fills' = fills + 1 => reference[Here] = price[Here] ]_vars

\* The account keeps the books DoubleEntry describes: whatever the prices, the
\* mandate and the order of the fills, cash and cost move together, one position
\* at a time, a purchase realises nothing, a sale realises what it brings above
\* what its lots were booked for, to the cent when it closes the position
\* (apply_fill, _settle, account_for, reset_sandbox).
Books == INSTANCE DoubleEntry WITH
  cash   <- account.cash,
  held   <- [s \in Symbol |-> positions[s].quantity],
  cost   <- [s \in Symbol |-> Cost(positions[s])],
  result <- account.realised_total,
  day    <- account.realised_today
KeepsTheBooks == Books!Spec

\* Trading creates no value.  During a tour the market stands still, and
\* nothing a tour does raises the worth of the account at that market by more
\* than the roundings of one fill: the spread and the slippage are paid, never
\* earned, in both directions (simulate_fill).
TradingCostsMoney ==
  [][ price' = price /\ fills' = fills + 1 =>
        MarketWorth(account', positions', price)
          <= MarketWorth(account, positions, price) + 1 ]_vars

\* Once the day's realised loss has reached its ceiling no position grows
\* before the counters start again, through any number of tours and rewritten
\* mandates (_standing_breach, account_for).
LossClosesTheDay ==
  [][ -dayResult >= mandate.max_daily_loss
        => \A s \in Symbol : ~Grew(s) ]_vars

\* "Equity below this share of its own peak halts buying" (engines/
\* trading_risk.py, Mandate), the equity holding "every open position, at
\* reference price" (AccountState).
DrawdownHaltsBuying ==
  [][ (\E s \in Symbol : Grew(s)) =>
        (highest - MarketWorth(account, positions, reference)) * BpsWhole
          < (mandate.max_drawdown_bps + 1) * highest ]_vars
=============================================================================
