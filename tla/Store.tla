------------------------------- MODULE Store -------------------------------
(***************************************************************************)
(* What the trading pipeline's actors share: the SQLite rows of one        *)
(* household, the single writer lock, the sealed journal, and the venue    *)
(* the orders go to (backend/app/db.py, models/trading_*.py,               *)
(* trading/audit.py).                                                      *)
(*                                                                         *)
(* A request reads rows into its own database session, works on them, and  *)
(* commits.  SQLite in WAL mode lets readers read the last commit at any   *)
(* time and lets one transaction write; the ORM session writes back only   *)
(* the columns whose value differs from the one it loaded.                 *)
(*                                                                         *)
(* Money is coarse here: every order is of one lot worth one coin.  The    *)
(* figures are Sandbox's subject; who overwrites whom is this one's.       *)
(***************************************************************************)
EXTENDS Integers, FiniteSets

CONSTANTS
  Request,    \* requests that change the policy or the sandbox
  Tour,       \* requests to run a tour
  Day,        \* requests to play a simulated day, and its runner
  Instrument, \* the whitelist
  Stake,      \* coins in a fresh paper account
  BrokerCash  \* coins the broker holds in the live account

Hand  == Tour \union Day       \* whoever plays cycles
Actor == Request \union Hand
NoOne == "no_one"

ASSUME StoreAssumption ==
  /\ Request \intersect Hand = {} /\ Tour \intersect Day = {}
  /\ NoOne \notin Actor
  /\ IsFiniteSet(Instrument)
  /\ Stake \in Nat /\ BrokerCash \in Nat

VARIABLES
  policy,   \* TradingPolicy, as last committed
  books,    \* TradingAccount and TradingPosition rows of each mode
  days,     \* TradingSession rows
  journal,  \* TradeAuditEvent rows
  lock,     \* whose transaction is writing
  ledger    \* what the venue accepted in each mode since the last reset:
            \* the book one hand, losing nothing, would have kept

store == <<policy, books, days, journal, lock, ledger>>

-----------------------------------------------------------------------------
(* Rows.                                                                   *)

Autonomy == {"observer", "paper", "live"}
Mode     == {"paper", "live"}

\* An arming is a timestamp, so two armings differ: it is named after the
\* request that gave it.  The reason of a halt is named after its request.
Policy ==
  [ autonomy : Autonomy, halted : BOOLEAN,
    reason : Request \union {NoOne}, armed : Request \union {NoOne} ]

ModeOf(autonomy) == IF autonomy = "live" THEN "live" ELSE "paper"

NoRow == -1    \* no TradingPosition row for this instrument

Book == [ cash : Nat, orders : Nat, held : [Instrument -> Nat \union {NoRow}] ]

\* What the venue accepted, one order after another.
Ledger == [ cash : Int, orders : Nat, net : [Instrument -> Int] ]

EmptyLedger(coins) ==
  [ cash |-> coins, orders |-> 0, net |-> [s \in Instrument |-> 0] ]

FreshBook(coins) ==
  [ cash |-> coins, orders |-> 0, held |-> [s \in Instrument |-> NoRow] ]

Units(row) == IF row = NoRow THEN 0 ELSE row

DayRow == [ status : {"none", "running", "finished", "stopped", "failed"},
            stop : BOOLEAN, completed : Nat ]

-----------------------------------------------------------------------------
(* Writing back a row: the columns that differ from the loaded ones.       *)

\* A mutant: the whole row is written back.
WrittenWhole(row, before, after) == after

Written(row, before, after) ==
  [f \in DOMAIN row |-> IF after[f] = before[f] THEN row[f] ELSE after[f]]

\* A mutant: the positions are changed in memory and never written.
WrittenCash(row, before, after) ==
  [ cash   |-> IF after.cash = before.cash THEN row.cash ELSE after.cash,
    orders |-> IF after.orders = before.orders THEN row.orders ELSE after.orders,
    held   |-> row.held ]

WrittenBook(row, before, after) ==
  [ cash   |-> IF after.cash = before.cash THEN row.cash ELSE after.cash,
    orders |-> IF after.orders = before.orders THEN row.orders ELSE after.orders,
    held   |-> Written(row.held, before.held, after.held) ]

-----------------------------------------------------------------------------
(* The sealed journal.  An entry's hash covers its predecessor's and its   *)
(* own sequence, so an entry names the one it follows; `by` stands for its *)
(* content.  (user_id, sequence) is unique.                                *)

Entry == [ sequence : Nat \ {0}, previous : Nat, by : Actor ]

\* append, n times in a row by one actor who read `last` as the last entry.
Appended(last, n, actor) ==
  { [sequence |-> last + k, previous |-> last + k - 1, by |-> actor] : k \in 1..n }

IsLast(j, n) ==
  /\ \A e \in j : e.sequence <= n
  /\ n = 0 \/ \E e \in j : e.sequence = n

\* The row append reads: the highest sequence, 0 (GENESIS) if there is none.
LastSequence(j) == CHOOSE n \in {0} \union {e.sequence : e \in j} : IsLast(j, n)

\* A mutant: the journal without its unique constraint.
NeverTaken(sequence, j) == FALSE

\* The unique constraint a flush would violate.
Taken(sequence, j) == \E e \in j : e.sequence = sequence

\* The journal as verify_chain reads it, by sequence.
LogOf(j) ==
  [n \in 1..LastSequence(j) |-> (CHOOSE e \in j : e.sequence = n).by]

Free(actor) == lock \in {NoOne, actor}
=============================================================================
