---------------------------- MODULE OncePerLine ----------------------------
(***************************************************************************)
(* What a household may rely on when it counts its transactions: a         *)
(* statement line is counted once, and once more each time somebody asks   *)
(* for it.  Nothing that brings rows takes any away, and a row becomes one *)
(* of another line only on purpose.                                        *)
(***************************************************************************)
EXTENDS Integers

CONSTANT Line

VARIABLES
  copies,   \* copies[l]: the rows that are the line l
  asked     \* asked[l]: the rows of l somebody made on purpose

Counting == [Line -> Nat]

Init == copies = [l \in Line |-> 0] /\ asked = [l \in Line |-> 0]

\* A line counted no more often than asked has room for the statement's own.
Room(l) == IF copies[l] <= asked[l] THEN 1 ELSE 0

\* Rows come: those asked for, and one more at most of a line that has room.
Receive ==
  /\ copies' \in Counting /\ asked' \in Counting
  /\ \A l \in Line :
       /\ copies[l] <= copies'[l] /\ asked[l] <= asked'[l]
       /\ copies'[l] - copies[l] <= asked'[l] - asked[l] + Room(l)

\* Rows go.
Remove ==
  /\ copies' \in Counting /\ asked' = asked
  /\ \A l \in Line : copies'[l] <= copies[l]

\* A row of l becomes one of k.
Move(l, k) ==
  /\ l # k /\ copies[l] > 0
  /\ copies' = [copies EXCEPT ![l] = @ - 1, ![k] = @ + 1]
  /\ asked' = [asked EXCEPT ![k] = @ + 1]

Next == Receive \/ Remove \/ \E l, k \in Line : Move(l, k)

Spec == Init /\ [][Next]_<<copies, asked>>
=============================================================================
