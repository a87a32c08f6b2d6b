------------------------------- MODULE Cycle -------------------------------
(***************************************************************************)
(* One cycle over the whitelist by one hand, as its database transaction   *)
(* sees it (backend/app/trading/service.py, run_cycle, _record, _place,    *)
(* _settle): the book is read once, the first record written takes the     *)
(* writer lock, orders go to the venue from inside the open transaction,   *)
(* and one commit at the end makes everything visible, or nothing.         *)
(***************************************************************************)
EXTENDS Store, Sequences

CONSTANTS
  Whitelist,   \* the order a cycle examines the instruments in
  Cap,         \* max_orders_per_day of the mandate
  Faults       \* what the environment may do: a subset of FaultKinds

FaultKinds == {"restart", "unanswered"}

ASSUME CycleAssumption ==
  /\ Whitelist \in Seq(Instrument) /\ Whitelist # << >>
  /\ Cap \in Nat
  /\ Faults \subseteq FaultKinds

VARIABLE hand   \* hand[h]: where the hand h is, and its database session

\* base is the book as this session last loaded or flushed it, mine the book
\* as it has changed it since.
AtRest == [ pc |-> "idle", policy |-> policy, mode |-> "paper", base |-> books["paper"],
            mine |-> books["paper"], turn |-> 0, staged |-> 0, streak |-> 0,
            verdict |-> "none" ]

Hands == [ pc : {"idle", "read", "checked", "queued", "top", "cycle", "closing",
                 "answered", "refused", "failed", "dead"},
           policy : Policy, mode : Mode, base : Book, mine : Book,
           turn : Nat, staged : Nat, streak : Nat,
           verdict : {"none", "finished", "stopped", "failed"} ]

\* The cycle starts: account_for and positions_of.  A row this session already
\* holds keeps the values it was first loaded with (`cached` says which session
\* keeps a book between two cycles).
Loaded(mode, cached, kept) ==
  IF ~kept THEN books[mode]
  ELSE [ cash   |-> cached.cash, orders |-> cached.orders,
         held   |-> [s \in Instrument |->
                       IF NoRow \in {books[mode].held[s], cached.held[s]}
                       THEN books[mode].held[s] ELSE cached.held[s]] ]

BeginCycle(h, kept) ==
  LET book == Loaded(hand[h].mode, hand[h].mine, kept)
  IN hand' = [hand EXCEPT ![h].pc = "cycle", ![h].base = book, ![h].mine = book,
                          ![h].turn = 1, ![h].staged = 0]

InCycle(h)  == hand[h].pc = "cycle" /\ hand[h].turn \in 1..Len(Whitelist)
Current(h)  == Whitelist[hand[h].turn]

\* A mutant: a sale walks through the cap of the day.
MayPassSelling(h, side) ==
  /\ ~hand[h].policy.halted
  /\ hand[h].mode = "live" => hand[h].policy.armed # NoOne
  /\ IF side = "buy" THEN hand[h].mine.cash > 0 /\ hand[h].mine.orders < Cap
                     ELSE Units(hand[h].mine.held[Current(h)]) > 0

\* A mutant: a purchase is let through without the cash for it.
MayPassBroke(h, side) ==
  /\ ~hand[h].policy.halted
  /\ hand[h].mode = "live" => hand[h].policy.armed # NoOne
  /\ hand[h].mine.orders < Cap
  /\ side = "buy" \/ Units(hand[h].mine.held[Current(h)]) > 0

\* The gate, as far as this session's own policy and book decide it: what it
\* lets through may still be refused by a rule about figures.
MayPass(h, side) ==
  /\ ~hand[h].policy.halted
  /\ hand[h].mode = "live" => hand[h].policy.armed # NoOne
  /\ hand[h].mine.orders < Cap
  /\ IF side = "buy" THEN hand[h].mine.cash > 0
                     ELSE Units(hand[h].mine.held[Current(h)]) > 0

Lots(side) == IF side = "buy" THEN 1 ELSE -1

\* A mutant: a filled order is not counted.
SettledUncounted(book, s, side) ==
  [book EXCEPT !.cash = @ - Lots(side), !.held[s] = Units(@) + Lots(side)]

\* A filled order in this session's book, and in the venue's account of it.
Settled(book, s, side) ==
  [book EXCEPT !.cash = @ - Lots(side), !.orders = @ + 1,
               !.held[s] = Units(@) + Lots(side)]

Executed(h, side) ==
  ledger' = [ledger EXCEPT ![hand[h].mode].cash = @ - Lots(side),
                           ![hand[h].mode].orders = @ + 1,
                           ![hand[h].mode].net[Current(h)] = @ + Lots(side)]

\* The journal entries of one instrument's turn are flushed: this takes the
\* lock, or finds it this hand's already.
Recorded(h, entries) ==
  /\ Free(h)
  /\ lock' = h
  /\ hand' = [hand EXCEPT ![h].turn = @ + 1, ![h].staged = @ + entries]

\* No order sent: skipped, failed or held (one entry), refused by the mandate
\* or kept back by the observer mode (two), failed at the venue (three).
ExamineSendingNothing(h) ==
  /\ InCycle(h)
  /\ \E entries \in 1..3 : Recorded(h, entries)
  /\ UNCHANGED <<policy, books, days, journal, ledger>>

\* The row the settlement inserts exists by now, or the one it updates does
\* not: the flush raises.
RowConflict(h, s) ==
  (hand[h].base.held[s] = NoRow) # (books[hand[h].mode].held[s] = NoRow)

\* An order sent, accepted, filled and settled.
ExamineFilled(h) ==
  /\ InCycle(h)
  /\ hand[h].policy.autonomy # "observer"
  /\ \E side \in {"buy", "sell"} :
       /\ MayPass(h, side)
       /\ ~RowConflict(h, Current(h))
       /\ Free(h)
       /\ lock' = h
       /\ hand' = [hand EXCEPT ![h].turn = @ + 1, ![h].staged = @ + 3,
                               ![h].mine = Settled(@, Current(h), side)]
       /\ Executed(h, side)
  /\ UNCHANGED <<policy, books, days, journal>>

\* An order the venue accepted without filling it: counted, nothing to settle.
ExaminePending(h) ==
  /\ InCycle(h)
  /\ hand[h].policy.autonomy # "observer"
  /\ \E side \in {"buy", "sell"} : MayPass(h, side)
  /\ Free(h)
  /\ lock' = h
  /\ hand' = [hand EXCEPT ![h].turn = @ + 1, ![h].staged = @ + 2,
                          ![h].mine.orders = @ + 1]
  /\ ledger' = [ledger EXCEPT ![hand[h].mode].orders = @ + 1]
  /\ UNCHANGED <<policy, books, days, journal>>

\* The venue executed the order and its answer never came: the code records a
\* failed order, counts nothing and settles nothing.
ExamineUnanswered(h) ==
  /\ "unanswered" \in Faults
  /\ InCycle(h)
  /\ hand[h].policy.autonomy # "observer"
  /\ \E side \in {"buy", "sell"} :
       /\ MayPass(h, side)
       /\ Executed(h, side)
  /\ Recorded(h, 3)
  /\ UNCHANGED <<policy, books, days, journal>>

\* The session is abandoned: an exception, or the lock not obtained in time.
\* Nothing of the open transaction remains; what the venue did remains done.
RollBack(h, pc) ==
  /\ hand' = [hand EXCEPT ![h].pc = pc, ![h].staged = 0]
  /\ lock' = IF lock = h THEN NoOne ELSE lock

\* The order is sent and accepted, then its settlement cannot be flushed.
ExamineConflict(h, pc) ==
  /\ InCycle(h)
  /\ hand[h].policy.autonomy # "observer"
  /\ \E side \in {"buy", "sell"} :
       /\ MayPass(h, side)
       /\ RowConflict(h, Current(h))
       /\ Free(h)
       /\ Executed(h, side)
  /\ RollBack(h, pc)
  /\ UNCHANGED <<policy, books, days, journal>>

\* "database is locked", before the first record: no order has been sent.
CycleGivesUp(h, pc) ==
  /\ InCycle(h)
  /\ ~Free(h)
  /\ RollBack(h, pc)
  /\ UNCHANGED <<policy, books, days, journal, ledger>>

Examine(h, pc) ==
  \/ ExamineSendingNothing(h) \/ ExamineFilled(h) \/ ExaminePending(h)
  \/ ExamineUnanswered(h) \/ ExamineConflict(h, pc) \/ CycleGivesUp(h, pc)

\* Every instrument examined: the book's changed columns and the staged
\* entries become visible together, and the lock is let go.
CycleDone(h) == hand[h].pc = "cycle" /\ hand[h].turn = Len(Whitelist) + 1

\* A mutant: the transaction is left open.
FlushBook(h) ==
  /\ books' = [books EXCEPT ![hand[h].mode] =
                 WrittenBook(@, hand[h].base, hand[h].mine)]
  /\ journal' = journal \union Appended(LastSequence(journal), hand[h].staged, h)
  /\ lock' = h

CommitBook(h) ==
  /\ books' = [books EXCEPT ![hand[h].mode] =
                 WrittenBook(@, hand[h].base, hand[h].mine)]
  /\ journal' = journal \union Appended(LastSequence(journal), hand[h].staged, h)
  /\ lock' = NoOne
=============================================================================
