--------------------------- MODULE SealedJournal ---------------------------
(***************************************************************************)
(* What the sealed journal promises (backend/app/trading/audit.py): a log  *)
(* that only grows, at its end, by the entries of one author at a time.    *)
(* Nothing is ever rewritten, reordered, forked or removed.                *)
(***************************************************************************)
EXTENDS Naturals, Sequences

CONSTANT Author

VARIABLE log

Init == log = << >>

AppendBy(author) ==
  /\ Len(log') > Len(log)
  /\ log' = [i \in 1..Len(log') |-> IF i <= Len(log) THEN log[i] ELSE author]

Next == \E author \in Author : AppendBy(author)

Spec == Init /\ [][Next]_log
=============================================================================
