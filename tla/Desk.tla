-------------------------------- MODULE Desk --------------------------------
(***************************************************************************)
(* The whole trading desk of one household: the requests of Oversight, the *)
(* tours (backend/app/api/invest_run.py, run), the simulated days          *)
(* (api/invest_session.py, start, _play, stop_day; trading/session.py) and *)
(* the process that may be restarted under them, on one Store.             *)
(*                                                                         *)
(* An actor acts once: the sets Request, Tour and Day say how many of each *)
(* a run has, and an empty set leaves that kind of actor out.              *)
(***************************************************************************)
EXTENDS Oversight, Cycle, Functions

CONSTANTS
  StartAutonomy,   \* the autonomy modes the household may begin with
  Steps,           \* cycles in a simulated day
  FailureStreak    \* consecutive steps of failures that end a day

ASSUME DeskAssumption ==
  /\ StartAutonomy \subseteq Autonomy
  /\ Steps \in Nat \ {0} /\ FailureStreak \in Nat \ {0}

vars == <<store, request, hand>>

Init ==
  /\ \E autonomy \in StartAutonomy :
       policy = [autonomy |-> autonomy, halted |-> FALSE, reason |-> NoOne, armed |-> NoOne]
  \* account_for creates the live account with no cash, and nothing refreshes it
  /\ books = [paper |-> FreshBook(Stake), live |-> FreshBook(0)]
  /\ days = [d \in Day |-> [status |-> "none", stop |-> FALSE, completed |-> 0]]
  /\ journal = {}
  /\ lock = NoOne
  /\ ledger = [paper |-> EmptyLedger(Stake), live |-> EmptyLedger(BrokerCash)]
  /\ request = [r \in Request |-> Idle]
  /\ hand = [h \in Hand |-> AtRest]

Running == {d \in Day : days[d].status = "running"}

-----------------------------------------------------------------------------
(* What the beginning of a tour and of a day have in common.               *)

\* policy_for, and the 409 of a halted pipeline.
ReadPolicy(h) ==
  /\ hand[h].pc = "idle"
  /\ hand' = [hand EXCEPT ![h].pc = IF policy.halted THEN "refused" ELSE "read",
                          ![h].policy = policy, ![h].mode = ModeOf(policy.autonomy)]
  /\ UNCHANGED <<store, request>>

\* running_day, and the 409 of a sandbox in use.  A day reads the account it
\* is about to reset here.
CheckDay(h) ==
  /\ hand[h].pc = "read"
  /\ hand' = [hand EXCEPT ![h].pc = IF Running = {} THEN "checked" ELSE "refused",
                          ![h].base = books["paper"]]
  /\ UNCHANGED <<store, request>>

-----------------------------------------------------------------------------
(* A tour.                                                                 *)

TourBegins(t) ==
  /\ hand[t].pc = "checked"
  /\ BeginCycle(t, FALSE)
  /\ UNCHANGED <<store, request>>

TourExamines(t) == Examine(t, "failed") /\ UNCHANGED request

TourCommits(t) ==
  /\ CycleDone(t)
  /\ CommitBook(t)
  /\ hand' = [hand EXCEPT ![t].pc = "answered", ![t].staged = 0]
  /\ UNCHANGED <<policy, days, ledger, request>>

TourStep(t) ==
  ReadPolicy(t) \/ CheckDay(t) \/ TourBegins(t) \/ TourExamines(t) \/ TourCommits(t)

-----------------------------------------------------------------------------
(* A simulated day: the request that starts it, then its runner.           *)

\* start_session and the commit: a clean sandbox, the row, one entry.
DayStarts(d) ==
  /\ hand[d].pc = "checked"
  /\ lock = NoOne
  /\ books' = [books EXCEPT !["paper"] =
                 [WrittenBook(@, hand[d].base, FreshBook(Stake))
                    EXCEPT !.held = FreshBook(Stake).held]]
  /\ ledger' = [ledger EXCEPT !["paper"] = EmptyLedger(Stake)]
  /\ days' = [days EXCEPT ![d].status = "running"]
  /\ journal' = journal \union Appended(LastSequence(journal), 1, d)
  /\ hand' = [hand EXCEPT ![d].pc = "queued"]
  /\ UNCHANGED <<policy, lock, request>>

DayNotStarted(d) ==
  /\ hand[d].pc = "checked"
  /\ lock # NoOne
  /\ hand' = [hand EXCEPT ![d].pc = "failed"]
  /\ UNCHANGED <<store, request>>

\* _play opens its own session; run_session reads the policy, once for the day.
DayBegins(d) ==
  /\ hand[d].pc = "queued"
  /\ hand' = [hand EXCEPT ![d].pc = "top", ![d].policy = policy,
                          ![d].mode = ModeOf(policy.autonomy)]
  /\ UNCHANGED <<store, request>>

\* _play without a usable provider: the row says failed, and nothing is played.
DayWithoutProvider(d) ==
  /\ hand[d].pc = "queued"
  /\ lock = NoOne
  /\ days' = [days EXCEPT ![d].status = "failed"]
  /\ hand' = [hand EXCEPT ![d].pc = "answered"]
  /\ UNCHANGED <<policy, books, journal, lock, ledger, request>>

\* A mutant: the flag is read from the row the session already holds.
StopUnheard(d) == FALSE

\* The flag, read again from the database before each step.
StopHeard(d) == days[d].stop

\* Between two steps the row says whether to stop; the account and the
\* positions this session already holds are not read again.
StepBegins(d) ==
  /\ hand[d].pc = "top"
  /\ ~StopHeard(d)
  /\ BeginCycle(d, days[d].completed > 0)
  /\ UNCHANGED <<store, request>>

DayHearsStop(d) ==
  /\ hand[d].pc = "top"
  /\ StopHeard(d)
  /\ hand' = [hand EXCEPT ![d].pc = "closing", ![d].verdict = "stopped"]
  /\ UNCHANGED <<store, request>>

StepExamines(d) == Examine(d, "dead") /\ UNCHANGED request

\* A mutant: a day that ends for its failures is taken for finished.
VerdictUnread(completed, streak) ==
  IF streak >= FailureStreak \/ completed = Steps THEN "finished" ELSE "none"

\* How a day stands once a step is committed: over for the model's failures,
\* over for its steps, or not over.
Verdict(completed, streak) ==
  IF streak >= FailureStreak THEN "failed"
  ELSE IF completed = Steps THEN "finished" ELSE "none"

\* A step is committed; it failed if every instrument did, which then sent
\* nothing.
StepCommits(d) ==
  LET completed == days[d].completed + 1
  IN /\ CycleDone(d)
     /\ CommitBook(d)
     /\ days' = [days EXCEPT ![d].completed = completed]
     /\ \E failed \in BOOLEAN :
          LET streak  == IF failed THEN hand[d].streak + 1 ELSE 0
              verdict == Verdict(completed, streak)
          IN /\ failed => hand[d].mine = hand[d].base
             /\ hand' = [hand EXCEPT
                  ![d].pc = IF verdict = "none" THEN "top" ELSE "closing",
                  ![d].staged = 0, ![d].base = hand[d].mine,
                  ![d].streak = streak, ![d].verdict = verdict]
     /\ UNCHANGED <<policy, ledger, request>>

\* _close: the verdict, one entry, the last commit.
DayCloses(d) ==
  /\ hand[d].pc = "closing"
  /\ lock = NoOne
  /\ days' = [days EXCEPT ![d].status = hand[d].verdict]
  /\ journal' = journal \union Appended(LastSequence(journal), 1, d)
  /\ hand' = [hand EXCEPT ![d].pc = "answered"]
  /\ UNCHANGED <<policy, books, lock, ledger, request>>

\* The lock could not be had: the exception ends the background task.
DayDies(d) ==
  /\ hand[d].pc \in {"queued", "closing"}
  /\ lock # NoOne
  /\ hand' = [hand EXCEPT ![d].pc = "dead"]
  /\ UNCHANGED <<store, request>>

DayStarting(d) == ReadPolicy(d) \/ CheckDay(d) \/ DayStarts(d) \/ DayNotStarted(d)

DayPlaying(d) ==
  \/ DayBegins(d) \/ DayWithoutProvider(d)
  \/ StepBegins(d) \/ DayHearsStop(d) \/ StepExamines(d) \/ StepCommits(d)
  \/ DayCloses(d) \/ DayDies(d)

\* stop_day, pressed while the row says running.
StopDay(d) ==
  /\ days[d].status = "running"
  /\ ~days[d].stop
  /\ lock = NoOne
  /\ days' = [days EXCEPT ![d].stop = TRUE]
  /\ UNCHANGED <<policy, books, journal, lock, ledger, request, hand>>

-----------------------------------------------------------------------------

AtWork(h) == hand[h].pc \notin {"idle", "answered", "refused", "failed", "dead"}

\* The process is restarted: every request and every runner is gone with its
\* open transaction, every committed row remains, and nothing is taken up
\* again.
Restart ==
  /\ "restart" \in Faults
  /\ \E h \in Hand : AtWork(h)
  /\ hand' = [h \in Hand |->
                IF AtWork(h) THEN [hand[h] EXCEPT !.pc = "dead", !.staged = 0]
                ELSE hand[h]]
  /\ request' = [r \in Request |->
                   IF request[r].pc \in {"loaded", "chained"}
                   THEN [request[r] EXCEPT !.pc = "failed"] ELSE request[r]]
  /\ lock' = NoOne
  /\ UNCHANGED <<policy, books, days, journal, ledger>>

\* Everybody has acted.
Done ==
  /\ RequestsAtRest
  /\ \A h \in Hand : ~AtWork(h) /\ hand[h].pc # "idle"
  /\ UNCHANGED vars

Next ==
  \/ \E r \in Request : OversightStep(r) /\ UNCHANGED hand
  \/ \E t \in Tour : TourStep(t)
  \/ \E d \in Day : DayStarting(d) \/ DayPlaying(d) \/ StopDay(d)
  \/ Restart
  \/ Done

Spec == Init /\ [][Next]_vars

\* What the process gives every request and every runner it has: a thread that
\* is not starved.  Nobody is obliged to make a request, nor to press stop.
Fairness ==
  /\ \A r \in Request :
       WF_vars((Chain(r) \/ Commit(r) \/ Collide(r) \/ CommitReset(r) \/ GiveUp(r))
                 /\ UNCHANGED hand)
  /\ \A t \in Tour :
       WF_vars(CheckDay(t) \/ TourBegins(t) \/ TourExamines(t) \/ TourCommits(t))
  /\ \A d \in Day : WF_vars(DayStarts(d) \/ DayNotStarted(d) \/ DayPlaying(d))

FairSpec == Spec /\ Fairness

-----------------------------------------------------------------------------
(* Properties.                                                             *)

\* Every row, session and book is what the modules above say it is.
TypeOK ==
  /\ policy \in Policy
  /\ books \in [Mode -> Book]
  /\ days \in [Day -> DayRow]
  /\ journal \subseteq Entry
  /\ lock \in Hand \union {NoOne}
  /\ ledger \in [Mode -> Ledger]
  /\ request \in [Request -> Requests]
  /\ hand \in [Hand -> Hands]

\* The sealed journal never forks and never has a gap (trading/audit.py,
\* append and verify_chain): whoever chains onto whatever it had read, every
\* entry follows the one numbered just before it, no number is given twice,
\* and the numbers run down to 1.
JournalIntact ==
  /\ \A e \in journal : e.previous = e.sequence - 1
  /\ \A e, f \in journal : e.sequence = f.sequence => e = f
  /\ \A e \in journal : e.sequence > 1 => \E f \in journal : f.sequence = e.previous

\* Read by sequence, the journal is the append-only log of SealedJournal: with
\* every actor, every lost race and every restart, its past never changes and
\* each commit adds the entries of one actor at its end (trading/audit.py).
Sealed == INSTANCE SealedJournal WITH Author <- Actor, log <- LogOf(journal)
JournalIsSealed == Sealed!Spec

\* Each day's row lives the life DayLife promises, with whatever stops, dies or
\* restarts around its runner: it is played once, no step is committed after the
\* one a stop found begun, and it closes once, finished with every step played
\* or stopped because somebody asked (trading/session.py, run_session, _close).
Life == INSTANCE DayLife WITH
  status    <- [d \in Day |-> days[d].status],
  completed <- [d \in Day |-> days[d].completed],
  stop      <- [d \in Day |-> days[d].stop],
  mayCommit <- [d \in Day |-> days[d].stop => hand[d].pc = "cycle"]
DayLivesOnce == Life!Spec

\* Only a resume lifts a halt (api/invest_policy.py, resume), one that had
\* read the pipeline halted: no other request, whatever stale row it had
\* loaded before the halt, writes the halt away when it commits.
OnlyResumeLiftsHalt ==
  [][policy.halted /\ ~policy'.halted =>
       \E r \in Request :
         /\ request[r].kind = "resume" /\ request[r].policy.halted
         /\ request[r].pc = "chained" /\ request'[r].pc = "answered"]_vars

\* However the requests interleave, a halted row carries a reason, a row that
\* is not halted carries none, and both the reason and the arming it shows are
\* those of a request the journal recorded (api/invest_oversight.py, halt;
\* api/invest_policy.py, arm and resume).
RowTellsItsStory ==
  /\ policy.halted <=> policy.reason # NoOne
  /\ \A r \in {policy.reason, policy.armed} \ {NoOne} : \E e \in journal : e.by = r

\* Between two transactions, the paper account a lone hand keeps is the one
\* the venue would account for: its cash, its order counter and its positions
\* (trading/service.py, _settle).
BookFollowsVenue ==
  lock = NoOne =>
    /\ books["paper"].cash = ledger["paper"].cash
    /\ books["paper"].orders = ledger["paper"].orders
    /\ \A s \in Instrument : Units(books["paper"].held[s]) = ledger["paper"].net[s]

\* A crash between an order and its settlement never leaves half of it: with
\* one hand on the paper account, what was paid and what is held always make
\* up the starting cash, whatever was interrupted or left unanswered
\* (trading/service.py, _place and _settle; one commit per cycle).
NothingHalfSettled ==
  books["paper"].cash
    + SumFunction([s \in Instrument |-> Units(books["paper"].held[s])]) = Stake

\* With one hand on the account, and whatever its session has kept from step to
\* step, the venue never accepts more orders in a day than the mandate's cap,
\* sales included (engines/trading_risk.py, Mandate.max_orders_per_day).
CapHolds == \A m \in Mode : ledger[m].orders <= Cap

\* When hands overlap, each writes back over the counter of the others
\* (trading/service.py, run_cycle and _settle): the cap of a day is then a cap
\* for each hand.  The venue never accepts more than that many orders for each,
\* through resets, restarts and settlements that fail.
CapPerHand == \A m \in Mode : ledger[m].orders <= Cap * Cardinality(Hand)

\* The cord, once pulled, holds (api/invest_oversight.py, halt: "Aucun ordre
\* ne sera transmis"): no order reaches the venue while the row says halted.
HaltStopsOrders ==
  [][policy.halted => \A m \in Mode : ledger'[m].orders <= ledger[m].orders]_vars

\* A day that started ends (trading/session.py, run_session and _close).
DayEnds == \A d \in Day : days[d].status = "running" ~> days[d].status # "running"

\* A stop heard between two steps ends the day as stopped, with no further
\* step (trading/session.py, run_session).
StopIsHonoured ==
  \A d \in Day : days[d].stop /\ hand[d].pc = "top" ~> days[d].status = "stopped"
=============================================================================
