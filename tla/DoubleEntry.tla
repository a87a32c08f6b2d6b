---------------------------- MODULE DoubleEntry ----------------------------
(***************************************************************************)
(* What the paper account promises whoever reads its figures               *)
(* (backend/app/engines/paper_book.py, apply_fill; trading/service.py,     *)
(* _settle): cash becomes lots and lots become cash and a result, one      *)
(* instrument at a time, each entry matched by another to a rounding.      *)
(* Prices, mandates and models are out of sight.                           *)
(***************************************************************************)
EXTENDS Integers

CONSTANTS
  Symbol,  \* the instruments
  Unit     \* lots in one unit of an instrument

VARIABLES
  cash,
  held,    \* lots of each instrument
  cost,    \* what the lots of each instrument are booked for
  result,  \* realised since the stake was put in
  day      \* realised since the day's counters started

figures == <<cash, held, cost, result, day>>

\* Two amounts of cents that differ by at most so many halves of a lot-cent.
Near(a, b, halves) == 2 * Unit * (a - b) <= halves /\ 2 * Unit * (b - a) <= halves

Only(s) ==
  /\ held' = [held EXCEPT ![s] = held'[s]]
  /\ cost' = [cost EXCEPT ![s] = cost'[s]]

Fresh ==
  /\ cash \in Nat
  /\ held = [s \in Symbol |-> 0] /\ cost = [s \in Symbol |-> 0]
  /\ result = 0 /\ day = 0

\* What is paid is what the position is booked for, to half a cent a lot and
\* half a cent.  Nothing is realised.
Buy(s) ==
  /\ held'[s] > held[s] /\ Only(s)
  /\ cash' <= cash
  /\ Near(cost'[s] - cost[s], cash - cash', held'[s] + Unit)
  /\ UNCHANGED <<result, day>>

\* What a sale brings is what its lots were booked for and a result, to a cent;
\* one that closes the position splits it exactly, and leaves nothing booked.
Sell(s) ==
  LET gained == result' - result
      freed  == cash' - cash - gained
  IN /\ held'[s] < held[s] /\ Only(s)
     /\ cash' >= cash
     /\ cost'[s] <= cost[s] /\ Near(cost[s] - cost'[s], freed, 2 * Unit)
     /\ held'[s] = 0 => cost'[s] = 0 /\ freed = cost[s]
     /\ day' = day + gained

\* The counters start again.
NewDay == day' = 0 /\ UNCHANGED <<cash, held, cost, result>>

\* The stake is put in again.
Reset == Fresh'

Next == (\E s \in Symbol : Buy(s) \/ Sell(s)) \/ NewDay \/ Reset

Spec == Fresh /\ [][Next]_figures
=============================================================================
