------------------------------ MODULE DayLife ------------------------------
(***************************************************************************)
(* What a simulated day promises (backend/app/trading/session.py): it is   *)
(* played one step at a time, once asked to stop it commits at most the    *)
(* step it was in, and its row closes once, on a verdict that is true.     *)
(***************************************************************************)
EXTENDS Naturals

CONSTANTS Day, Steps

VARIABLES
  status,     \* of each day's row
  completed,  \* steps the row counts
  stop,       \* somebody asked the day to stop
  mayCommit   \* the day may still commit a step

row == <<status, completed, stop, mayCommit>>

Init ==
  /\ status = [d \in Day |-> "none"] /\ completed = [d \in Day |-> 0]
  /\ stop = [d \in Day |-> FALSE] /\ mayCommit = [d \in Day |-> TRUE]

Start(d) ==
  /\ status[d] = "none"
  /\ status' = [status EXCEPT ![d] = "running"]
  /\ UNCHANGED <<completed, stop, mayCommit>>

\* A step is committed.  After a stop there is no other.
Play(d) ==
  /\ status[d] = "running" /\ completed[d] < Steps /\ mayCommit[d]
  /\ completed' = [completed EXCEPT ![d] = @ + 1]
  /\ mayCommit' = [mayCommit EXCEPT ![d] = ~stop[d]]
  /\ UNCHANGED <<status, stop>>

\* The stop is asked for.  A step already begun may still be committed.
AskStop(d) ==
  /\ status[d] = "running" /\ ~stop[d]
  /\ stop' = [stop EXCEPT ![d] = TRUE]
  /\ \E begun \in BOOLEAN : mayCommit' = [mayCommit EXCEPT ![d] = begun]
  /\ UNCHANGED <<status, completed>>

\* The step begun before a stop is lost, of several days at once in a restart.
Lose ==
  /\ mayCommit' \in [Day -> BOOLEAN] /\ mayCommit' # mayCommit
  /\ \A d \in Day : mayCommit'[d] # mayCommit[d] => stop[d] /\ mayCommit[d]
  /\ UNCHANGED <<status, completed, stop>>

\* The row closes: on "finished" with every step played, on "stopped" after a
\* stop.
Close(d, verdict) ==
  /\ status[d] = "running"
  /\ verdict = "finished" => completed[d] = Steps
  /\ verdict = "stopped" => stop[d] /\ ~mayCommit[d]
  /\ status' = [status EXCEPT ![d] = verdict]
  /\ UNCHANGED <<completed, stop, mayCommit>>

Next ==
  \/ \E d \in Day : Start(d) \/ Play(d) \/ AskStop(d)
  \/ \E d \in Day, verdict \in {"finished", "stopped", "failed"} : Close(d, verdict)
  \/ Lose

Spec == Init /\ [][Next]_row
=============================================================================
