----------------------------- MODULE DeskProofs -----------------------------
(***************************************************************************)
(* Desk, for any number of requests, tours, days, instruments and steps:   *)
(* the types, the sealed journal, which neither a lost race nor a restart  *)
(* breaks, and, however stale the rows the requests work on, what only a   *)
(* resume does and what a policy row may tell.                             *)
(***************************************************************************)
EXTENDS Desk, Sums, TLAPS

-----------------------------------------------------------------------------
(* The journal as a set of entries.                                        *)

\* The entries of j are numbered 1 to n, each number once, each entry naming
\* the number before its own.
Intact(j, n) ==
  /\ j \subseteq Entry
  /\ \A e \in j : e.sequence <= n /\ e.previous = e.sequence - 1
  /\ \A k \in 1..n : \E e \in j : e.sequence = k
  /\ \A e, f \in j : e.sequence = f.sequence => e = f

\* The row append reads is the highest number of an intact journal (audit.append).
LEMMA LastOfIntact ==
  ASSUME NEW j, NEW n \in Nat, Intact(j, n)
  PROVE  LastSequence(j) = n
<1> DEFINE S == {0} \union {e.sequence : e \in j}
<1>1. n \in S /\ IsLast(j, n)
  <2>1. CASE n = 0
    BY <2>1 DEF Intact, IsLast
  <2>2. CASE n # 0
    <3>1. PICK e \in j : e.sequence = n
      BY <2>2 DEF Intact
    <3> QED BY <3>1 DEF Intact, IsLast
  <2> QED BY <2>1, <2>2
<1>2. ASSUME NEW m \in S, IsLast(j, m) PROVE m = n
  <2>1. m \in Nat /\ m <= n
    BY <1>2 DEF Intact, Entry
  <2>2. n <= m
    <3>1. CASE n = 0
      BY <3>1, <2>1
    <3>2. CASE n # 0
      <4>1. PICK e \in j : e.sequence = n
        BY <3>2 DEF Intact
      <4> QED BY <4>1, <1>2 DEF IsLast
    <3> QED BY <3>1, <3>2
  <2> QED BY <2>1, <2>2
<1> QED BY <1>1, <1>2 DEF LastSequence

\* What one actor appends after the last entry keeps the journal intact
\* (audit.append, any number of times in one transaction).
LEMMA AppendIntact ==
  ASSUME NEW j, NEW n \in Nat, NEW m \in Nat, NEW actor \in Actor, Intact(j, n)
  PROVE  Intact(j \union Appended(n, m, actor), n + m)
<1> DEFINE A == Appended(n, m, actor)
<1>1. A \subseteq Entry
  BY DEF Appended, Entry
<1>2. \A e \in A : e.sequence \in (n + 1)..(n + m) /\ e.previous = e.sequence - 1
  BY DEF Appended
<1>3. \A k \in (n + 1)..(n + m) : \E e \in A : e.sequence = k
  <2> TAKE k \in (n + 1)..(n + m)
  <2> DEFINE e == [sequence |-> n + (k - n), previous |-> n + (k - n) - 1, by |-> actor]
  <2>1. k - n \in 1..m
    OBVIOUS
  <2>2. e \in A
    BY <2>1 DEF Appended
  <2> QED BY <2>2
<1>4. \A e, f \in A : e.sequence = f.sequence => e = f
  BY DEF Appended
<1>5. \A e \in j : e.sequence \in 1..n
  BY DEF Intact, Entry
<1> HIDE DEF A
<1>6. \A e \in j \union A : e.sequence <= n + m /\ e.previous = e.sequence - 1
  BY <1>2, <1>5 DEF Intact
<1>7. \A k \in 1..(n + m) : \E e \in j \union A : e.sequence = k
  <2> TAKE k \in 1..(n + m)
  <2>1. k \in 1..n \/ k \in (n + 1)..(n + m)
    OBVIOUS
  <2> QED BY <2>1, <1>3 DEF Intact
<1>8. \A e, f \in j \union A : e.sequence = f.sequence => e = f
  BY <1>2, <1>4, <1>5 DEF Intact
<1> QED BY <1>1, <1>6, <1>7, <1>8 DEF Intact, A

\* Said without the numbers: the property the runs check.
LEMMA IntactMeans ==
  ASSUME NEW n \in Nat, Intact(journal, n)
  PROVE  JournalIntact
<1>1. \A e \in journal : e.sequence > 1 => \E f \in journal : f.sequence = e.previous
  <2> SUFFICES ASSUME NEW e \in journal, e.sequence > 1
               PROVE  \E f \in journal : f.sequence = e.previous
    OBVIOUS
  <2>1. e.previous = e.sequence - 1 /\ e.previous \in 1..n
    BY DEF Intact, Entry
  <2> QED BY <2>1 DEF Intact
<1> QED BY <1>1 DEF Intact, JournalIntact

-----------------------------------------------------------------------------
(* The inductive invariant.  The types alone are not inductive: the number *)
(* a request chains onto is a number only because the journal has a last   *)
(* entry; and a commit keeps the journal intact only because no request    *)
(* ever holds a number beyond the last one.                                *)

Chained(n) == \A r \in Request : request[r].last <= n

IInv == TypeOK /\ \E n \in Nat : Intact(journal, n) /\ Chained(n)

LEMMA InitIInv == Init => IInv
<1> SUFFICES ASSUME Init PROVE IInv
  OBVIOUS
<1> USE DEF Init
<1>1. policy \in Policy
  BY DeskAssumption DEF Policy
<1>2. books \in [Mode -> Book]
  BY StoreAssumption DEF Mode, Book, FreshBook, NoRow
<1>3. days \in [Day -> DayRow]
  BY DEF DayRow
<1>4. ledger \in [Mode -> Ledger]
  BY StoreAssumption DEF Mode, Ledger, EmptyLedger
<1>5. request \in [Request -> Requests]
  BY <1>1, <1>2 DEF Idle, Requests, AllKinds, Mode
<1>6. hand \in [Hand -> Hands]
  BY <1>1, <1>2 DEF AtRest, Hands, Mode
<1>7. journal \subseteq Entry /\ lock \in Hand \union {NoOne}
  OBVIOUS
<1>8. Intact(journal, 0) /\ Chained(0)
  BY DEF Intact, Chained, Idle
<1> QED BY <1>1, <1>2, <1>3, <1>4, <1>5, <1>6, <1>7, <1>8 DEF IInv, TypeOK

\* A row written back field by field is still a row.
LEMMA WrittenPolicy ==
  ASSUME NEW row \in Policy, NEW before \in Policy, NEW after \in Policy
  PROVE  Written(row, before, after) \in Policy
BY DEF Written, Policy

LEMMA WrittenBookType ==
  ASSUME NEW row \in Book, NEW before \in Book, NEW after \in Book
  PROVE  WrittenBook(row, before, after) \in Book
<1>1. Written(row.held, before.held, after.held) \in [Instrument -> Nat \union {NoRow}]
  BY DEF Written, Book
<1> QED BY <1>1 DEF WrittenBook, Book

LEMMA FreshBookType ==
  ASSUME NEW coins \in Nat
  PROVE  FreshBook(coins) \in Book
BY DEF FreshBook, Book, NoRow

LEMMA EmptyLedgerType ==
  ASSUME NEW coins \in Nat
  PROVE  EmptyLedger(coins) \in Ledger
BY DEF EmptyLedger, Ledger

LEMMA AssignedType ==
  ASSUME NEW kind \in AllKinds, NEW p \in Policy, NEW r \in Request
  PROVE  Assigned(kind, p, r) \in Policy
BY DEF Assigned, AllKinds, Policy, Autonomy

-----------------------------------------------------------------------------
(* The requests of Oversight.                                              *)

\* A request that finds its number free holds the last one: whoever committed
\* since it chained would have taken it (api/invest_policy.py, the commit).
LEMMA CommitAtEnd ==
  ASSUME TypeOK, NEW n \in Nat, Intact(journal, n), Chained(n),
         NEW r \in Request, Commit(r)
  PROVE  request[r].last = n
<1>1. request[r].last \in Nat /\ request[r].last <= n
  BY DEF Chained, TypeOK, Requests
<1>2. ~(request[r].last + 1 \in 1..n)
  BY DEF Commit, Taken, Intact
<1> QED BY <1>1, <1>2

LEMMA OversightIInv ==
  ASSUME IInv, NEW r \in Request, OversightStep(r), UNCHANGED hand
  PROVE  IInv'
<1> PICK n \in Nat : Intact(journal, n) /\ Chained(n)
  BY DEF IInv
<1> USE DEF TypeOK, IInv, store
<1>l. LastSequence(journal) = n
  BY LastOfIntact
<1>1. CASE Load(r)
  <2>1. request' \in [Request -> Requests]
    <3>1. PICK kind \in Kinds, pc \in {"loaded", "answered", "refused"} :
            request' = [request EXCEPT ![r].pc = pc, ![r].kind = kind,
                                       ![r].policy = policy,
                                       ![r].book = books["paper"]]
      BY <1>1 DEF Load
    <3>2. kind \in AllKinds /\ policy \in Policy /\ books["paper"] \in Book
      BY OversightAssumption DEF Mode
    <3> DEFINE now == [pc |-> pc, kind |-> kind, policy |-> policy,
                       book |-> books["paper"], last |-> request[r].last]
    <3>3. now \in Requests
      BY <3>2 DEF Requests
    <3>4. request'[r] = now
      <4>1. request[r] \in Requests
        OBVIOUS
      <4> QED BY <3>1, <4>1 DEF Requests
    <3>5. \A x \in Request : x # r => request'[x] = request[x]
      BY <3>1
    <3> HIDE DEF now
    <3>6. request' = [x \in Request |-> request'[x]]
      BY <3>1
    <3> QED BY <3>3, <3>4, <3>5, <3>6
  <2>2. Chained(n)'
    BY <1>1 DEF Load, Chained
  <2> QED BY <1>1, <2>1, <2>2 DEF Load
<1>2. CASE Chain(r)
  <2>1. request' \in [Request -> Requests]
    BY <1>2, <1>l DEF Chain, Requests
  <2>2. Chained(n)'
    BY <1>2, <1>l DEF Chain, Chained, Requests
  <2> QED BY <1>2, <2>1, <2>2 DEF Chain
<1>3. CASE Commit(r)
  <2>1. request[r] \in Requests /\ r \in Actor
    BY DEF Actor
  <2>2. request[r].last = n
    BY <1>3, CommitAtEnd
  <2>3. Intact(journal', n + 1)
    BY <1>3, <2>1, <2>2, AppendIntact DEF Commit
  <2>4. policy' \in Policy
    BY <1>3, <2>1, AssignedType, WrittenPolicy DEF Commit, Requests
  <2>5. request' \in [Request -> Requests]
    BY <1>3 DEF Commit, Requests
  <2>6. Chained(n + 1)'
    BY <1>3 DEF Commit, Chained, Requests
  <2> QED BY <1>3, <2>3, <2>4, <2>5, <2>6 DEF Commit, Intact
<1>4. CASE Collide(r)
  <2>1. request' \in [Request -> Requests] /\ Chained(n)'
    BY <1>4 DEF Collide, Requests, Chained
  <2> QED BY <1>4, <2>1 DEF Collide
<1>5. CASE CommitReset(r)
  <2>1. request[r] \in Requests /\ r \in Actor
    BY DEF Actor
  <2>2. Intact(journal', n + 1)
    BY <1>5, <1>l, <2>1, AppendIntact DEF CommitReset
  <2>3. books' \in [Mode -> Book]
    <3>1. FreshBook(Stake) \in Book /\ books["paper"] \in Book
      BY StoreAssumption, FreshBookType DEF Mode
    <3>2. WrittenBook(books["paper"], request[r].book, FreshBook(Stake)) \in Book
      BY <3>1, <2>1, WrittenBookType DEF Requests
    <3> QED BY <1>5, <3>1, <3>2 DEF CommitReset, Book
  <2>4. ledger' \in [Mode -> Ledger]
    BY <1>5, StoreAssumption, EmptyLedgerType DEF CommitReset, Mode
  <2>5. request' \in [Request -> Requests] /\ Chained(n + 1)'
    BY <1>5 DEF CommitReset, Requests, Chained
  <2> QED BY <1>5, <2>2, <2>3, <2>4, <2>5 DEF CommitReset, Intact
<1>6. CASE GiveUp(r)
  <2>1. request' \in [Request -> Requests] /\ Chained(n)'
    BY <1>6 DEF GiveUp, Requests, Chained
  <2> QED BY <1>6, <2>1 DEF GiveUp
<1> QED BY <1>1, <1>2, <1>3, <1>4, <1>5, <1>6 DEF OversightStep

-----------------------------------------------------------------------------
(* The hands: what a cycle does to the session it runs in.                 *)

LEMMA SettledType ==
  ASSUME NEW book \in Book, NEW s \in Instrument, NEW side \in {"buy", "sell"},
         IF side = "buy" THEN book.cash > 0 ELSE Units(book.held[s]) > 0
  PROVE  Settled(book, s, side) \in Book
<1>1. Units(book.held[s]) \in Nat
  BY DEF Units, Book
<1>2. book.cash - Lots(side) \in Nat /\ Units(book.held[s]) + Lots(side) \in Nat
  BY <1>1 DEF Lots, Book, Units
<1>3. book.orders + 1 \in Nat
  BY DEF Book
<1> QED BY <1>2, <1>3 DEF Settled, Book

LEMMA ExecutedType ==
  ASSUME TypeOK, NEW h \in Hand, InCycle(h), NEW side \in {"buy", "sell"}, Executed(h, side)
  PROVE  ledger' \in [Mode -> Ledger]
<1>1. hand[h].mode \in Mode /\ Current(h) \in Instrument
  BY CycleAssumption DEF TypeOK, Hands, InCycle, Current
<1>2. ledger[hand[h].mode] \in Ledger /\ Lots(side) \in Int
  BY <1>1 DEF TypeOK, Lots
<1> QED BY <1>1, <1>2 DEF Executed, TypeOK, Ledger

LEMMA LoadedType ==
  ASSUME TypeOK, NEW mode \in Mode, NEW cached \in Book, NEW kept \in BOOLEAN
  PROVE  Loaded(mode, cached, kept) \in Book
BY DEF Loaded, Book, TypeOK

LEMMA BeginCycleType ==
  ASSUME TypeOK, NEW h \in Hand, NEW kept \in BOOLEAN, BeginCycle(h, kept)
  PROVE  hand' \in [Hand -> Hands]
<1>1. hand[h] \in Hands
  BY DEF TypeOK
<1>2. Loaded(hand[h].mode, hand[h].mine, kept) \in Book
  BY <1>1, LoadedType DEF Hands
<1> QED BY <1>1, <1>2 DEF BeginCycle, TypeOK, Hands

\* Nothing but the session, the lock and the venue moves while a cycle
\* examines an instrument.
LEMMA ExamineType ==
  ASSUME TypeOK, NEW h \in Hand, NEW pc \in {"failed", "dead"}, Examine(h, pc)
  PROVE  /\ hand' \in [Hand -> Hands]
         /\ lock' \in Hand \union {NoOne}
         /\ ledger' \in [Mode -> Ledger]
         /\ UNCHANGED <<policy, books, days, journal>>
<1>1. hand[h] \in Hands
  BY DEF TypeOK
<1>2. CASE ExamineSendingNothing(h)
  BY <1>1, <1>2 DEF ExamineSendingNothing, Recorded, Hands, TypeOK
<1>3. CASE ExamineFilled(h)
  BY <1>1, <1>3, SettledType, ExecutedType DEF ExamineFilled, Hands, TypeOK, MayPass
<1>4. CASE ExaminePending(h)
  BY <1>1, <1>4 DEF ExaminePending, Hands, TypeOK, Book, Ledger
<1>5. CASE ExamineUnanswered(h)
  BY <1>1, <1>5, ExecutedType DEF ExamineUnanswered, Recorded, Hands, TypeOK
<1>6. CASE ExamineConflict(h, pc)
  BY <1>1, <1>6, ExecutedType DEF ExamineConflict, RollBack, Hands, TypeOK
<1>7. CASE CycleGivesUp(h, pc)
  BY <1>1, <1>7 DEF CycleGivesUp, RollBack, Hands, TypeOK
<1> QED BY <1>2, <1>3, <1>4, <1>5, <1>6, <1>7 DEF Examine

\* A cycle committed: a whole book, and the staged entries at the end of the
\* journal.
LEMMA CommitBookType ==
  ASSUME TypeOK, NEW h \in Hand, CommitBook(h), NEW n \in Nat, Intact(journal, n)
  PROVE  /\ books' \in [Mode -> Book]
         /\ lock' \in Hand \union {NoOne}
         /\ hand[h].staged \in Nat
         /\ Intact(journal', n + hand[h].staged)
<1>1. hand[h] \in Hands /\ h \in Actor
  BY DEF TypeOK, Actor
<1>2. LastSequence(journal) = n
  BY LastOfIntact
<1>3. hand[h].mode \in Mode /\ hand[h].staged \in Nat
      /\ hand[h].base \in Book /\ hand[h].mine \in Book
  BY <1>1 DEF Hands
<1>4. books' \in [Mode -> Book]
  BY <1>3, WrittenBookType DEF CommitBook, TypeOK
<1>5. Intact(journal', n + hand[h].staged)
  BY <1>1, <1>2, <1>3, AppendIntact DEF CommitBook
<1> QED BY <1>3, <1>4, <1>5 DEF CommitBook

\* Whatever only a hand does leaves the requests' numbers below the last one.
LEMMA ChainedAbove ==
  ASSUME TypeOK, NEW n \in Nat, NEW k \in Nat, Chained(n), UNCHANGED request
  PROVE  Chained(n + k)'
BY DEF Chained, TypeOK, Requests

LEMMA ReadPolicyIInv ==
  ASSUME IInv, NEW h \in Hand, ReadPolicy(h)
  PROVE  IInv'
<1>1. ModeOf(policy.autonomy) \in Mode /\ policy \in Policy /\ hand[h] \in Hands
  BY DEF ModeOf, Mode, IInv, TypeOK
<1>2. hand' \in [Hand -> Hands]
  BY <1>1 DEF ReadPolicy, IInv, TypeOK, Hands
<1> QED BY <1>2 DEF ReadPolicy, IInv, TypeOK, store, Chained

LEMMA CheckDayIInv ==
  ASSUME IInv, NEW h \in Hand, CheckDay(h)
  PROVE  IInv'
<1>1. books["paper"] \in Book /\ hand[h] \in Hands
  BY DEF Mode, IInv, TypeOK
<1>2. hand' \in [Hand -> Hands]
  BY <1>1 DEF CheckDay, IInv, TypeOK, Hands
<1> QED BY <1>2 DEF CheckDay, IInv, TypeOK, store, Chained

LEMMA TourIInv ==
  ASSUME IInv, NEW t \in Tour, TourStep(t)
  PROVE  IInv'
<1> PICK n \in Nat : Intact(journal, n) /\ Chained(n)
  BY DEF IInv
<1>h. t \in Hand /\ hand[t] \in Hands /\ TypeOK
  BY DEF Hand, IInv, TypeOK
<1>1. CASE ReadPolicy(t)
  BY <1>1, <1>h, ReadPolicyIInv
<1>2. CASE CheckDay(t)
  BY <1>2, <1>h, CheckDayIInv
<1>3. CASE TourBegins(t)
  <2>1. hand' \in [Hand -> Hands]
    BY <1>3, <1>h, BeginCycleType DEF TourBegins
  <2> QED BY <1>3, <1>h, <2>1 DEF TourBegins, IInv, TypeOK, store, Chained
<1>4. CASE TourExamines(t)
  BY <1>4, <1>h, ExamineType DEF TourExamines, IInv, TypeOK, Chained
<1>5. CASE TourCommits(t)
  <2>1. hand' \in [Hand -> Hands]
    BY <1>5, <1>h DEF TourCommits, TypeOK, Hands
  <2>2. PICK k \in Nat :
          /\ Intact(journal', n + k)
          /\ books' \in [Mode -> Book] /\ lock' \in Hand \union {NoOne}
    BY <1>5, <1>h, CommitBookType DEF TourCommits
  <2>3. Chained(n + k)'
    BY <1>5, <1>h, <2>2, ChainedAbove DEF TourCommits
  <2> QED BY <1>5, <1>h, <2>1, <2>2, <2>3 DEF TourCommits, IInv, TypeOK, Intact
<1> QED BY <1>1, <1>2, <1>3, <1>4, <1>5 DEF TourStep

LEMMA DayIInv ==
  ASSUME IInv, NEW d \in Day, DayStarting(d) \/ DayPlaying(d) \/ StopDay(d)
  PROVE  IInv'
<1> PICK n \in Nat : Intact(journal, n) /\ Chained(n)
  BY DEF IInv
<1>h. d \in Hand /\ d \in Actor /\ hand[d] \in Hands /\ days[d] \in DayRow /\ TypeOK
  BY DEF Hand, Actor, IInv, TypeOK
<1>l. LastSequence(journal) = n
  BY LastOfIntact
<1>1. CASE ReadPolicy(d)
  BY <1>1, <1>h, ReadPolicyIInv
<1>2. CASE CheckDay(d)
  BY <1>2, <1>h, CheckDayIInv
<1>3. CASE DayStarts(d)
  <2>1. books' \in [Mode -> Book]
    <3>1. FreshBook(Stake) \in Book /\ books["paper"] \in Book
      BY <1>h, StoreAssumption, FreshBookType DEF Mode, TypeOK
    <3>2. WrittenBook(books["paper"], hand[d].base, FreshBook(Stake)) \in Book
      BY <3>1, <1>h, WrittenBookType DEF Hands
    <3> QED BY <1>3, <1>h, <3>1, <3>2 DEF DayStarts, Book, TypeOK
  <2>2. ledger' \in [Mode -> Ledger]
    BY <1>3, <1>h, StoreAssumption, EmptyLedgerType DEF DayStarts, Mode, TypeOK
  <2>3. days' \in [Day -> DayRow] /\ hand' \in [Hand -> Hands]
    BY <1>3, <1>h DEF DayStarts, DayRow, Hands, TypeOK
  <2>4. Intact(journal', n + 1)
    BY <1>3, <1>h, <1>l, AppendIntact DEF DayStarts
  <2>5. Chained(n + 1)'
    BY <1>3, <1>h, ChainedAbove DEF DayStarts
  <2> QED BY <1>3, <1>h, <2>1, <2>2, <2>3, <2>4, <2>5 DEF DayStarts, IInv, TypeOK, Intact
<1>4. CASE DayNotStarted(d)
  <2>1. hand' \in [Hand -> Hands]
    BY <1>4, <1>h DEF DayNotStarted, Hands, TypeOK
  <2> QED BY <1>4, <1>h, <2>1 DEF DayNotStarted, IInv, TypeOK, store, Chained
<1>5. CASE DayBegins(d)
  <2>1. hand' \in [Hand -> Hands]
    BY <1>5, <1>h DEF DayBegins, Hands, TypeOK, ModeOf, Mode
  <2> QED BY <1>5, <1>h, <2>1 DEF DayBegins, IInv, TypeOK, store, Chained
<1>6. CASE DayWithoutProvider(d)
  <2>1. days' \in [Day -> DayRow] /\ hand' \in [Hand -> Hands]
    BY <1>6, <1>h DEF DayWithoutProvider, DayRow, Hands, TypeOK
  <2> QED BY <1>6, <1>h, <2>1 DEF DayWithoutProvider, IInv, TypeOK, Chained
<1>7. CASE StepBegins(d)
  <2>1. hand' \in [Hand -> Hands]
    <3>1. (days[d].completed > 0) \in BOOLEAN
      OBVIOUS
    <3> QED BY <1>7, <1>h, <3>1, BeginCycleType DEF StepBegins
  <2> QED BY <1>7, <1>h, <2>1 DEF StepBegins, IInv, TypeOK, store, Chained
<1>8. CASE DayHearsStop(d)
  <2>1. hand' \in [Hand -> Hands]
    BY <1>8, <1>h DEF DayHearsStop, Hands, TypeOK
  <2> QED BY <1>8, <1>h, <2>1 DEF DayHearsStop, IInv, TypeOK, store, Chained
<1>9. CASE StepExamines(d)
  BY <1>9, <1>h, ExamineType DEF StepExamines, IInv, TypeOK, Chained
<1>10. CASE StepCommits(d)
  <2>1. days' \in [Day -> DayRow]
    BY <1>10, <1>h DEF StepCommits, DayRow, TypeOK
  <2>2. hand' \in [Hand -> Hands]
    <3>1. PICK failed \in BOOLEAN :
            LET streak  == IF failed THEN hand[d].streak + 1 ELSE 0
                verdict == Verdict(days[d].completed + 1, streak)
            IN hand' = [hand EXCEPT
                 ![d].pc = IF verdict = "none" THEN "top" ELSE "closing",
                 ![d].staged = 0, ![d].base = hand[d].mine,
                 ![d].streak = streak, ![d].verdict = verdict]
      BY <1>10 DEF StepCommits
    <3> DEFINE streak  == IF failed THEN hand[d].streak + 1 ELSE 0
               verdict == Verdict(days[d].completed + 1, streak)
               now     == IF verdict = "none" THEN "top" ELSE "closing"
    <3>2. streak \in Nat /\ hand[d].mine \in Book
      BY <1>h DEF Hands
    <3>3. verdict \in {"none", "finished", "failed"}
      BY DEF Verdict
    <3>4. hand' = [hand EXCEPT ![d].pc = now, ![d].staged = 0, ![d].base = hand[d].mine,
                               ![d].streak = streak, ![d].verdict = verdict]
      BY <3>1
    <3> HIDE DEF streak, verdict
    <3> QED BY <1>h, <3>2, <3>3, <3>4 DEF Hands, TypeOK
  <2>3. PICK k \in Nat :
          /\ Intact(journal', n + k)
          /\ books' \in [Mode -> Book] /\ lock' \in Hand \union {NoOne}
    BY <1>10, <1>h, CommitBookType DEF StepCommits
  <2>4. Chained(n + k)'
    BY <1>10, <1>h, <2>3, ChainedAbove DEF StepCommits
  <2> QED BY <1>10, <1>h, <2>1, <2>2, <2>3, <2>4 DEF StepCommits, IInv, TypeOK, Intact
<1>11. CASE DayCloses(d)
  <2>1. days' \in [Day -> DayRow] /\ hand' \in [Hand -> Hands]
    BY <1>11, <1>h DEF DayCloses, DayRow, Hands, TypeOK
  <2>2. Intact(journal', n + 1)
    BY <1>11, <1>h, <1>l, AppendIntact DEF DayCloses
  <2>3. Chained(n + 1)'
    BY <1>11, <1>h, ChainedAbove DEF DayCloses
  <2> QED BY <1>11, <1>h, <2>1, <2>2, <2>3 DEF DayCloses, IInv, TypeOK, Intact
<1>12. CASE DayDies(d)
  <2>1. hand' \in [Hand -> Hands]
    BY <1>12, <1>h DEF DayDies, Hands, TypeOK
  <2> QED BY <1>12, <1>h, <2>1 DEF DayDies, IInv, TypeOK, store, Chained
<1>13. CASE StopDay(d)
  <2>1. days' \in [Day -> DayRow]
    BY <1>13, <1>h DEF StopDay, DayRow, TypeOK
  <2> QED BY <1>13, <1>h, <2>1 DEF StopDay, IInv, TypeOK, Chained
<1> QED BY <1>1, <1>2, <1>3, <1>4, <1>5, <1>6, <1>7, <1>8, <1>9, <1>10, <1>11, <1>12,
           <1>13 DEF DayStarting, DayPlaying

LEMMA RestartIInv ==
  ASSUME IInv, Restart
  PROVE  IInv'
<1> PICK n \in Nat : Intact(journal, n) /\ Chained(n)
  BY DEF IInv
<1>1. hand' \in [Hand -> Hands]
  <2>1. ASSUME NEW h \in Hand
        PROVE  [hand[h] EXCEPT !.pc = "dead", !.staged = 0] \in Hands
    BY DEF IInv, TypeOK, Hands
  <2> QED BY <2>1 DEF Restart, IInv, TypeOK
<1>2. request' \in [Request -> Requests] /\ Chained(n)'
  BY DEF Restart, IInv, TypeOK, Requests, Chained
<1> QED BY <1>1, <1>2 DEF Restart, IInv, TypeOK

\* Every step keeps the invariant.
LEMMA NextIInv == IInv /\ [Next]_vars => IInv'
<1> SUFFICES ASSUME IInv, [Next]_vars PROVE IInv'
  OBVIOUS
<1>1. ASSUME NEW r \in Request, OversightStep(r), UNCHANGED hand PROVE IInv'
  BY <1>1, OversightIInv
<1>2. ASSUME NEW t \in Tour, TourStep(t) PROVE IInv'
  BY <1>2, TourIInv
<1>3. ASSUME NEW d \in Day, DayStarting(d) \/ DayPlaying(d) \/ StopDay(d) PROVE IInv'
  BY <1>3, DayIInv
<1>4. CASE Restart
  BY <1>4, RestartIInv
<1>5. CASE UNCHANGED vars
  BY <1>5 DEF IInv, TypeOK, vars, store, Chained
<1>6. CASE Done
  BY <1>6, <1>5 DEF Done
<1> QED BY <1>1, <1>2, <1>3, <1>4, <1>5, <1>6 DEF Next

\* What a step does to the journal: nothing, or the entries of one actor after
\* the last one.
LEMMA JournalStep ==
  ASSUME IInv, [Next]_vars
  PROVE  \/ journal' = journal
         \/ \E k \in Nat, actor \in Actor :
              journal' = journal \union Appended(LastSequence(journal), k, actor)
<1> PICK n \in Nat : Intact(journal, n) /\ Chained(n)
  BY DEF IInv
<1>t. TypeOK /\ LastSequence(journal) = n
  BY LastOfIntact DEF IInv
<1>1. ASSUME NEW r \in Request, Commit(r)
      PROVE  journal' = journal \union Appended(LastSequence(journal), 1, r) /\ r \in Actor
  BY <1>1, <1>t, CommitAtEnd DEF Commit, Actor
<1>2. ASSUME NEW r \in Request, CommitReset(r)
      PROVE  journal' = journal \union Appended(LastSequence(journal), 1, r) /\ r \in Actor
  BY <1>2 DEF CommitReset, Actor
<1>3. ASSUME NEW h \in Hand, CommitBook(h)
      PROVE  /\ journal' = journal \union Appended(LastSequence(journal), hand[h].staged, h)
             /\ hand[h].staged \in Nat /\ h \in Actor
  BY <1>3, <1>t DEF CommitBook, Actor, TypeOK, Hands
<1>4. ASSUME NEW d \in Day, DayStarts(d) \/ DayCloses(d)
      PROVE  journal' = journal \union Appended(LastSequence(journal), 1, d) /\ d \in Actor
  BY <1>4 DEF DayStarts, DayCloses, Actor, Hand
<1>5. ASSUME NEW r \in Request, OversightStep(r), ~Commit(r), ~CommitReset(r)
      PROVE  journal' = journal
  BY <1>5 DEF OversightStep, Load, Chain, Collide, GiveUp, store
<1>6. ASSUME NEW h \in Hand, ReadPolicy(h) \/ CheckDay(h) \/ (\E pc \in {"failed", "dead"} : Examine(h, pc))
      PROVE  journal' = journal
  BY <1>6, <1>t, ExamineType DEF ReadPolicy, CheckDay, store
<1>7. ASSUME NEW t \in Tour, TourStep(t), ~CommitBook(t)
      PROVE  journal' = journal
  BY <1>7, <1>6 DEF TourStep, TourBegins, TourExamines, TourCommits, store, Hand
<1>8. ASSUME NEW d \in Day, DayStarting(d) \/ DayPlaying(d) \/ StopDay(d),
             ~CommitBook(d), ~DayStarts(d), ~DayCloses(d)
      PROVE  journal' = journal
  BY <1>8, <1>6
     DEF DayStarting, DayPlaying, DayNotStarted, DayBegins, DayWithoutProvider, StepBegins,
         DayHearsStop, StepExamines, StepCommits, DayDies, StopDay, store, Hand
<1>9. Restart \/ Done \/ UNCHANGED vars => journal' = journal
  BY DEF Restart, Done, vars, store
<1>10. Tour \subseteq Hand /\ Day \subseteq Hand
  BY DEF Hand
<1> QED BY <1>1, <1>2, <1>3, <1>4, <1>5, <1>7, <1>8, <1>9, <1>10 DEF Next

-----------------------------------------------------------------------------
(* The journal as a log.                                                   *)

\* Read by sequence, an intact journal is a log of as many authors.
LEMMA LogOfIntact ==
  ASSUME NEW j, NEW n \in Nat, Intact(j, n)
  PROVE  /\ LogOf(j) \in Seq(Actor)
         /\ Len(LogOf(j)) = n
         /\ \A e \in j : LogOf(j)[e.sequence] = e.by
<1>1. LastSequence(j) = n
  BY LastOfIntact
<1>2. \A k \in 1..n : \E e \in j : e.sequence = k
  BY DEF Intact
<1>3. \A e \in j : (CHOOSE f \in j : f.sequence = e.sequence) = e
  BY DEF Intact
<1>4. \A k \in 1..n : (CHOOSE e \in j : e.sequence = k).by \in Actor
  BY <1>2 DEF Intact, Entry
<1>5. LogOf(j) \in [1..n -> Actor]
  BY <1>1, <1>4 DEF LogOf
<1>6. \A e \in j : e.sequence \in 1..n
  BY DEF Intact, Entry
<1>7. \A e \in j : LogOf(j)[e.sequence] = (CHOOSE f \in j : f.sequence = e.sequence).by
  BY <1>1, <1>6 DEF LogOf
<1> QED BY <1>3, <1>5, <1>7

\* What one actor appends is what AppendBy adds.
LEMMA LogOfAppended ==
  ASSUME NEW j, NEW n \in Nat, NEW k \in Nat \ {0}, NEW actor \in Actor, Intact(j, n)
  PROVE  LET jj == j \union Appended(n, k, actor)
         IN  /\ Len(LogOf(jj)) = n + k /\ Len(LogOf(j)) = n
             /\ LogOf(jj) = [i \in 1..(n + k) |-> IF i <= n THEN LogOf(j)[i] ELSE actor]
<1> DEFINE jj == j \union Appended(n, k, actor)
<1>1. Intact(jj, n + k) /\ n + k \in Nat
  BY AppendIntact
<1> HIDE DEF jj
<1>2. /\ LogOf(jj) \in Seq(Actor) /\ Len(LogOf(jj)) = n + k
      /\ \A e \in jj : LogOf(jj)[e.sequence] = e.by
  BY <1>1, LogOfIntact
<1>3. Len(LogOf(j)) = n /\ \A e \in j : LogOf(j)[e.sequence] = e.by
  BY LogOfIntact
<1>4. ASSUME NEW i \in 1..(n + k)
      PROVE  LogOf(jj)[i] = IF i <= n THEN LogOf(j)[i] ELSE actor
  <2>1. CASE i <= n
    <3>1. PICK e \in j : e.sequence = i
      BY <2>1 DEF Intact
    <3> QED BY <2>1, <3>1, <1>2, <1>3 DEF jj
  <2>2. CASE ~(i <= n)
    <3>1. PICK e \in jj : e.sequence = i
      BY <1>1 DEF Intact
    <3>2. e \in Appended(n, k, actor)
      BY <2>2, <3>1 DEF Intact, Entry, jj
    <3>3. e.by = actor
      BY <3>2 DEF Appended
    <3> QED BY <2>2, <3>1, <3>3, <1>2
  <2> QED BY <2>1, <2>2
<1>5. LogOf(jj) = [i \in 1..(n + k) |-> LogOf(jj)[i]]
  BY <1>2
<1>6. LogOf(jj) = [i \in 1..(n + k) |-> IF i <= n THEN LogOf(j)[i] ELSE actor]
  BY <1>4, <1>5
<1> QED BY <1>2, <1>3, <1>6 DEF jj

LEMMA InitSealed == Init => Sealed!Init
<1> SUFFICES ASSUME Init PROVE LogOf(journal) = << >>
  BY DEF Sealed!Init
<1>1. Intact(journal, 0)
  BY DEF Init, Intact
<1> QED BY <1>1, LogOfIntact

LEMMA NextSealed == IInv /\ [Next]_vars => [Sealed!Next]_(LogOf(journal))
<1> SUFFICES ASSUME IInv, [Next]_vars PROVE [Sealed!Next]_(LogOf(journal))
  OBVIOUS
<1>1. CASE journal' = journal
  BY <1>1
<1>2. ASSUME NEW k \in Nat, NEW actor \in Actor,
             journal' = journal \union Appended(LastSequence(journal), k, actor)
      PROVE  [Sealed!Next]_(LogOf(journal))
  <2> PICK n \in Nat : Intact(journal, n)
    BY DEF IInv
  <2>1. LastSequence(journal) = n
    BY LastOfIntact
  <2>2. CASE k = 0
    <3>1. journal' = journal
      BY <1>2, <2>2 DEF Appended
    <3> QED BY <3>1
  <2>3. CASE k # 0
    <3>1. /\ Len(LogOf(journal')) = n + k /\ Len(LogOf(journal)) = n
          /\ LogOf(journal') = [i \in 1..(n + k) |->
                                  IF i <= n THEN LogOf(journal)[i] ELSE actor]
      BY <1>2, <2>1, <2>3, LogOfAppended
    <3>2. Len(LogOf(journal')) > Len(LogOf(journal))
      BY <3>1, <2>3
    <3> QED BY <3>1, <3>2 DEF Sealed!Next, Sealed!AppendBy
  <2> QED BY <2>2, <2>3
<1> QED BY <1>1, <1>2, JournalStep

-----------------------------------------------------------------------------
(* Theorems.                                                               *)

\* The strengthening the others rest on is kept by every step of every actor:
\* the types, and a journal that runs from 1 to its last sequence.
THEOREM Invariance == Spec => []IInv
BY InitIInv, NextIInv, PTL DEF Spec

\* Every row, session and book keeps its type, however many actors there are
\* (models/trading_*.py).
THEOREM TypesAlways == Spec => []TypeOK
<1>1. IInv => TypeOK
  BY DEF IInv
<1> QED BY <1>1, Invariance, PTL

\* The sealed journal never forks and never has a gap (trading/audit.py): not
\* with any number of requests chaining onto what they read before somebody
\* else committed, nor with any number of restarts.
THEOREM JournalAlwaysIntact == Spec => []JournalIntact
<1>1. IInv => JournalIntact
  BY IntactMeans DEF IInv
<1> QED BY <1>1, Invariance, PTL

\* The desk implements the append-only log (trading/audit.py): read by
\* sequence, the journal never changes its past, whoever races, fails or is
\* restarted.
THEOREM SealedAlways == Spec => JournalIsSealed
<1>1. Init => Sealed!Init
  BY InitSealed
<1>2. IInv /\ [Next]_vars => [Sealed!Next]_(LogOf(journal))
  BY NextSealed
<1> QED BY <1>1, <1>2, Invariance, PTL DEF Spec, JournalIsSealed, Sealed!Spec

-----------------------------------------------------------------------------
(* What one commit writes.                                                 *)

\* Column by column: the row keeps what this request left as it had loaded it.
LEMMA WrittenColumns ==
  ASSUME NEW row \in Policy, NEW before \in Policy, NEW after \in Policy
  PROVE  LET now == Written(row, before, after)
         IN  /\ now.halted = IF after.halted = before.halted THEN row.halted ELSE after.halted
             /\ now.reason = IF after.reason = before.reason THEN row.reason ELSE after.reason
             /\ now.armed = IF after.armed = before.armed THEN row.armed ELSE after.armed
BY DEF Written, Policy

\* What each kind of request assigns.
LEMMA AssignedColumns ==
  ASSUME NEW kind \in AllKinds, NEW p \in Policy, NEW r \in Request
  PROVE  LET q == Assigned(kind, p, r)
         IN  /\ kind = "halt" => q.halted = TRUE /\ q.reason = r
             /\ kind = "resume" => q.halted = FALSE /\ q.reason = NoOne
             /\ kind \notin {"halt", "resume"} => q.halted = p.halted /\ q.reason = p.reason
             /\ q.armed \in {NoOne, r, p.armed}
BY DEF Assigned, AllKinds, Policy, Autonomy

\* Only a commit changes the policy.
LEMMA PolicyStep ==
  ASSUME IInv, [Next]_vars, policy' # policy
  PROVE  \E r \in Request : Commit(r) /\ UNCHANGED hand
<1>1. ASSUME NEW r \in Request, OversightStep(r), ~Commit(r)
      PROVE  policy' = policy
  BY <1>1 DEF OversightStep, Load, Chain, Collide, GiveUp, CommitReset, store
<1>2. ASSUME NEW h \in Hand,
             ReadPolicy(h) \/ CheckDay(h) \/ (\E pc \in {"failed", "dead"} : Examine(h, pc))
      PROVE  policy' = policy
  BY <1>2, ExamineType DEF ReadPolicy, CheckDay, store, IInv
<1>3. ASSUME NEW t \in Tour, TourStep(t)
      PROVE  policy' = policy
  BY <1>3, <1>2 DEF TourStep, TourBegins, TourExamines, TourCommits, store, Hand
<1>4. ASSUME NEW d \in Day, DayStarting(d) \/ DayPlaying(d) \/ StopDay(d)
      PROVE  policy' = policy
  BY <1>4, <1>2
     DEF DayStarting, DayPlaying, DayStarts, DayNotStarted, DayBegins, DayWithoutProvider,
         StepBegins, DayHearsStop, StepExamines, StepCommits, DayCloses, DayDies, StopDay,
         store, Hand
<1>5. Restart \/ Done \/ UNCHANGED vars => policy' = policy
  BY DEF Restart, Done, vars, store
<1> QED BY <1>1, <1>3, <1>4, <1>5 DEF Next

-----------------------------------------------------------------------------
(* Who lifts a halt.                                                       *)

LEMMA LiftedByResume ==
  ASSUME IInv, [Next]_vars, policy.halted, ~policy'.halted
  PROVE  \E r \in Request :
           /\ request[r].kind = "resume" /\ request[r].policy.halted
           /\ request[r].pc = "chained" /\ request'[r].pc = "answered"
<1>1. PICK r \in Request : Commit(r)
  BY PolicyStep
<1> DEFINE q == request[r]
           now == Assigned(q.kind, q.policy, r)
<1>2. policy \in Policy /\ q \in Requests /\ q.policy \in Policy /\ q.kind \in AllKinds
  BY DEF IInv, TypeOK, Requests
<1>3. now \in Policy /\ policy' = Written(policy, q.policy, now)
  BY <1>1, <1>2, AssignedType DEF Commit
<1>4. now.halted # q.policy.halted /\ now.halted = FALSE
  <2> HIDE DEF now, q
  <2>1. policy'.halted = IF now.halted = q.policy.halted THEN policy.halted ELSE now.halted
    BY <1>2, <1>3, WrittenColumns
  <2>2. now.halted \in BOOLEAN /\ policy.halted \in BOOLEAN
    BY <1>2, <1>3 DEF Policy
  <2>3. CASE now.halted = q.policy.halted
    <3>1. policy'.halted = policy.halted
      BY <2>1, <2>3
    <3> QED BY <3>1
  <2>4. CASE now.halted # q.policy.halted
    <3>1. policy'.halted = now.halted
      BY <2>1, <2>4
    <3> QED BY <2>2, <2>4, <3>1
  <2> QED BY <2>3, <2>4
<1>5. q.kind = "resume" /\ q.policy.halted
  <2>1. /\ q.kind = "halt" => now.halted = TRUE
        /\ q.kind \notin {"halt", "resume"} => now.halted = q.policy.halted
    <3> HIDE DEF q
    <3>1. \A kind \in AllKinds, p \in Policy :
            /\ kind = "halt" => Assigned(kind, p, r).halted = TRUE
            /\ kind \notin {"halt", "resume"} => Assigned(kind, p, r).halted = p.halted
      BY AssignedColumns
    <3> QED BY <1>2, <3>1
  <2> HIDE DEF now
  <2>2. q.policy.halted \in BOOLEAN
    BY <1>2 DEF Policy
  <2> QED BY <1>4, <2>1, <2>2
<1>6. q.pc = "chained" /\ request'[r].pc = "answered"
  BY <1>1 DEF Commit, IInv, TypeOK, Requests
<1> QED BY <1>5, <1>6

\* Only a resume that had read the pipeline halted lifts a halt
\* (api/invest_policy.py, resume), among any number of requests that loaded
\* their row before the halt.
THEOREM OnlyResumeLiftsHaltAlways == Spec => OnlyResumeLiftsHalt
<1>1. IInv /\ [Next]_vars =>
        (policy.halted /\ ~policy'.halted =>
           \E r \in Request :
             /\ request[r].kind = "resume" /\ request[r].policy.halted
             /\ request[r].pc = "chained" /\ request'[r].pc = "answered")
  BY LiftedByResume
<1> QED BY <1>1, Invariance, PTL DEF Spec, OnlyResumeLiftsHalt

-----------------------------------------------------------------------------
(* What a row may tell.  A stale commit keeps a halt and its reason         *)
(* together only because what it had loaded told a story too, and because  *)
(* no halt is under way on a row loaded halted, nor a resume on one that   *)
(* was not.                                                                *)

Consistent(p) == p.halted <=> p.reason # NoOne

UnderWay(r) ==
  request[r].pc \in {"loaded", "chained"} =>
    /\ request[r].kind = "halt" => ~request[r].policy.halted
    /\ request[r].kind = "resume" => request[r].policy.halted

OnRecord(p, j) ==
  \A r \in {p.reason, p.armed} \ {NoOne} : \E e \in j : e.by = r

StoryInv ==
  /\ Consistent(policy)
  /\ \A r \in Request : Consistent(request[r].policy) /\ UnderWay(r)
  /\ OnRecord(policy, journal)

LEMMA InitStory == Init => StoryInv
BY DEF Init, StoryInv, Consistent, UnderWay, OnRecord, Idle

\* Both columns are written, or neither.
LEMMA CommitConsistent ==
  ASSUME IInv, StoryInv, NEW r \in Request, Commit(r)
  PROVE  Consistent(policy') /\ OnRecord(policy', journal')
<1> DEFINE kind == request[r].kind
           p    == request[r].policy
           now  == Assigned(kind, p, r)
<1>1. policy \in Policy /\ p \in Policy /\ kind \in AllKinds
  BY DEF IInv, TypeOK, Requests
<1>2. now \in Policy /\ policy' = Written(policy, p, now)
  BY <1>1, AssignedType DEF Commit
<1>3. /\ Consistent(policy) /\ Consistent(p)
      /\ kind = "halt" => ~p.halted
      /\ kind = "resume" => p.halted
  BY DEF StoryInv, UnderWay, Commit
<1>4. r # NoOne
  BY StoreAssumption DEF Actor
<1>5. \E e \in journal' : e.by = r
  <2>1. ASSUME NEW last \in Nat
        PROVE  \E e \in Appended(last, 1, r) : e.by = r
    <3> DEFINE e == [sequence |-> last + 1, previous |-> last + 1 - 1, by |-> r]
    <3>1. e \in Appended(last, 1, r)
      BY DEF Appended
    <3> QED BY <3>1
  <2>2. request[r].last \in Nat
    BY DEF IInv, TypeOK, Requests
  <2> QED BY <2>1, <2>2 DEF Commit
<1>6. \A e \in journal : e \in journal'
  BY DEF Commit
<1> HIDE DEF kind, p
<1>7. /\ kind = "halt" => now.halted = TRUE /\ now.reason = r
      /\ kind = "resume" => now.halted = FALSE /\ now.reason = NoOne
      /\ kind \notin {"halt", "resume"} => now.halted = p.halted /\ now.reason = p.reason
      /\ now.armed \in {NoOne, r, p.armed}
  BY <1>1, AssignedColumns
<1> HIDE DEF now
<1>8. /\ policy'.halted = IF now.halted = p.halted THEN policy.halted ELSE now.halted
      /\ policy'.reason = IF now.reason = p.reason THEN policy.reason ELSE now.reason
      /\ policy'.armed = IF now.armed = p.armed THEN policy.armed ELSE now.armed
  BY <1>1, <1>2, WrittenColumns
<1>9. p.halted \in BOOLEAN /\ policy.halted \in BOOLEAN
  BY <1>1 DEF Policy
<1>10. Consistent(policy')
  <2>1. CASE kind = "halt"
    <3>1. p.halted = FALSE /\ p.reason = NoOne
      BY <2>1, <1>3, <1>9 DEF Consistent
    <3>2. policy'.halted = TRUE /\ policy'.reason = r
      BY <2>1, <3>1, <1>4, <1>7, <1>8
    <3> QED BY <3>2, <1>4 DEF Consistent
  <2>2. CASE kind = "resume"
    <3>1. p.halted = TRUE /\ p.reason # NoOne
      BY <2>2, <1>3, <1>9 DEF Consistent
    <3>2. policy'.halted = FALSE /\ policy'.reason = NoOne
      BY <2>2, <3>1, <1>7, <1>8
    <3> QED BY <3>2 DEF Consistent
  <2>3. CASE kind \notin {"halt", "resume"}
    <3>1. policy'.halted = policy.halted /\ policy'.reason = policy.reason
      BY <2>3, <1>7, <1>8
    <3> QED BY <3>1, <1>3 DEF Consistent
  <2> QED BY <2>1, <2>2, <2>3
<1>11. OnRecord(policy', journal')
  <2>1. policy'.reason \in {policy.reason, r, NoOne}
    BY <1>7, <1>8
  <2>2. policy'.armed \in {policy.armed, r, NoOne}
    BY <1>7, <1>8
  <2>3. \A x \in {policy.reason, policy.armed} \ {NoOne} : \E e \in journal : e.by = x
    BY DEF StoryInv, OnRecord
  <2> QED BY <2>1, <2>2, <2>3, <1>5, <1>6 DEF OnRecord
<1> QED BY <1>10, <1>11

\* What a request holds stays what it loaded, and it loads a consistent row.
LEMMA RequestStory ==
  ASSUME IInv, StoryInv, [Next]_vars, NEW r \in Request
  PROVE  Consistent(request'[r].policy) /\ UnderWay(r)'
<1>t. request \in [Request -> Requests] /\ request[r] \in Requests
  BY DEF IInv, TypeOK
<1>s. Consistent(policy) /\ Consistent(request[r].policy) /\ UnderWay(r)
  BY DEF StoryInv
<1>1. CASE request'[r] = request[r]
  BY <1>1, <1>s DEF UnderWay
<1>2. CASE Load(r)
  <2>1. PICK kind \in Kinds, pc \in {"loaded", "answered", "refused"} :
          /\ pc = "answered" <=> AnsweredAtOnce(kind, policy)
          /\ request'[r].pc = pc /\ request'[r].kind = kind /\ request'[r].policy = policy
    BY <1>2, <1>t DEF Load, Requests
  <2>2. UnderWay(r)'
    BY <2>1 DEF UnderWay, AnsweredAtOnce
  <2> QED BY <2>1, <2>2, <1>s
<1>3. CASE Chain(r) \/ Commit(r) \/ Collide(r) \/ CommitReset(r) \/ GiveUp(r)
  <2>1. /\ request'[r].policy = request[r].policy /\ request'[r].kind = request[r].kind
        /\ request'[r].pc = "chained" => request[r].pc = "loaded"
        /\ request'[r].pc # "loaded"
    BY <1>3, <1>t DEF Chain, Commit, Collide, CommitReset, GiveUp, Requests
  <2> QED BY <2>1, <1>s DEF UnderWay
<1>4. CASE Restart
  <2>1. /\ request'[r].policy = request[r].policy /\ request'[r].kind = request[r].kind
        /\ request'[r].pc \notin {"loaded", "chained"}
    BY <1>4, <1>t DEF Restart, Requests
  <2> QED BY <2>1, <1>s DEF UnderWay
<1>5. ASSUME NEW q \in Request, q # r, OversightStep(q)
      PROVE  request'[r] = request[r]
  BY <1>5, <1>t DEF OversightStep, Load, Chain, Commit, Collide, CommitReset, GiveUp
<1>6. ASSUME NEW t \in Tour, TourStep(t)
      PROVE  request' = request
  BY <1>6 DEF TourStep, ReadPolicy, CheckDay, TourBegins, TourExamines, TourCommits
<1>7. ASSUME NEW d \in Day, DayStarting(d) \/ DayPlaying(d) \/ StopDay(d)
      PROVE  request' = request
  BY <1>7
     DEF DayStarting, DayPlaying, ReadPolicy, CheckDay, DayStarts, DayNotStarted, DayBegins,
         DayWithoutProvider, StepBegins, DayHearsStop, StepExamines, StepCommits, DayCloses,
         DayDies, StopDay
<1>8. Done \/ UNCHANGED vars => request' = request
  BY DEF Done, vars
<1> QED BY <1>1, <1>2, <1>3, <1>4, <1>5, <1>6, <1>7, <1>8 DEF Next, OversightStep

LEMMA NextStory == IInv /\ StoryInv /\ [Next]_vars => StoryInv'
<1> SUFFICES ASSUME IInv, StoryInv, [Next]_vars PROVE StoryInv'
  OBVIOUS
<1>1. \A r \in Request : Consistent(request'[r].policy) /\ UnderWay(r)'
  BY RequestStory
<1>2. Consistent(policy') /\ OnRecord(policy', journal')
  <2>1. CASE policy' # policy
    BY <2>1, PolicyStep, CommitConsistent
  <2>2. CASE policy' = policy
    <3>1. journal \subseteq journal'
      BY JournalStep
    <3> QED BY <2>2, <3>1 DEF StoryInv, OnRecord
  <2> QED BY <2>1, <2>2
<1> QED BY <1>1, <1>2 DEF StoryInv, Consistent, OnRecord

\* A row tells its story (api/invest_oversight.py, halt; api/invest_policy.py,
\* arm and resume), however many stale rows are written over it.
THEOREM RowTellsItsStoryAlways == Spec => []RowTellsItsStory
<1>1. Init => IInv /\ StoryInv
  BY InitIInv, InitStory
<1>2. IInv /\ StoryInv /\ [Next]_vars => (IInv /\ StoryInv)'
  BY NextIInv, NextStory
<1>3. IInv /\ StoryInv => RowTellsItsStory
  BY DEF StoryInv, Consistent, OnRecord, RowTellsItsStory
<1> QED BY <1>1, <1>2, <1>3, PTL DEF Spec

-----------------------------------------------------------------------------
(* One hand.  With one tour or one day at work, and nobody to reset the    *)
(* sandbox under it, what the hand has in its session is what the rows say *)
(* plus what the open transaction did, and the venue's account is that     *)
(* too.  The requests that govern the pipeline may still interleave with   *)
(* it, and the process may be restarted at any point.                      *)

\* What a book is worth in lots, each worth one coin.
Worth(book) == book.cash + SumFunction([s \in Instrument |-> Units(book.held[s])])

\* The book of mode m as the hand last knew it: its session's inside a cycle,
\* the committed rows outside one.
Kept(h, m) ==
  IF hand[h].pc = "cycle" /\ hand[h].mode = m THEN hand[h].mine ELSE books[m]

\* Where the hand is, what it may hold: the lock only inside a cycle, a base
\* nobody has overwritten, and between two steps the rows it wrote itself.
Alone(h) ==
  /\ \A r \in Request : request[r].kind # "reset"
  /\ lock \in {NoOne, h}
  /\ hand[h].pc # "cycle" => lock = NoOne
  /\ hand[h].pc = "checked" => hand[h].base = books["paper"]
  /\ (h \in Day /\ hand[h].pc \in {"idle", "read", "checked", "queued"}) =>
       days[h].completed = 0
  /\ (hand[h].pc = "top" /\ days[h].completed > 0) =>
       hand[h].mine = books[hand[h].mode]
  /\ hand[h].pc = "cycle" =>
       /\ hand[h].base = books[hand[h].mode]
       /\ (lock = NoOne => hand[h].mine = hand[h].base)
  /\ hand[h].pc = "dead" => "restart" \in Faults

Paid(h) == Worth(books["paper"]) = Stake /\ Worth(Kept(h, "paper")) = Stake

Agree(h) ==
  /\ \A m \in Mode : ledger[m].orders = Kept(h, m).orders
  /\ ledger["paper"].cash = Kept(h, "paper").cash
  /\ \A s \in Instrument : ledger["paper"].net[s] = Units(Kept(h, "paper").held[s])

\* An answer that never comes is the one thing the venue knows and the book
\* does not; a hand that died took with it what it had not committed.
Follows(h) ==
  "unanswered" \notin Faults =>
    /\ \A m \in Mode : ledger[m].orders <= Cap
    /\ hand[h].pc # "dead" => Agree(h)

LoneInv(h) == Alone(h) /\ Paid(h) /\ Follows(h)

\* A fresh sandbox is worth the starting cash (models/trading_account.py).
LEMMA WorthOfFresh == Worth(FreshBook(Stake)) = Stake
<1> DEFINE zeros == [s \in Instrument |-> Units(FreshBook(Stake).held[s])]
<1>1. zeros \in [Instrument -> Int] /\ \A s \in Instrument : zeros[s] = 0
  BY DEF FreshBook, Units
<1>2. IsFiniteSet(Instrument) /\ Stake \in Nat
  BY StoreAssumption
<1> HIDE DEF zeros
<1>3. SumFunction(zeros) = 0
  BY <1>1, <1>2, SumOfZeros
<1>4. Worth(FreshBook(Stake)) = Stake + SumFunction(zeros)
  BY DEF Worth, FreshBook, zeros
<1> QED BY <1>2, <1>3, <1>4

\* A settled order moves value between the cash and a position, and makes none
\* (service._settle).
LEMMA WorthOfSettled ==
  ASSUME NEW book \in Book, NEW s \in Instrument, NEW side \in {"buy", "sell"},
         IF side = "buy" THEN book.cash > 0 ELSE Units(book.held[s]) > 0
  PROVE  /\ Worth(Settled(book, s, side)) = Worth(book)
         /\ \A x \in Instrument :
              Units(Settled(book, s, side).held[x]) =
                Units(book.held[x]) + (IF x = s THEN Lots(side) ELSE 0)
<1> DEFINE now    == Settled(book, s, side)
           before == [x \in Instrument |-> Units(book.held[x])]
           after  == [x \in Instrument |-> Units(now.held[x])]
<1>1. book.held \in [Instrument -> Nat \union {NoRow}] /\ book.cash \in Nat /\ Lots(side) \in Int
  BY DEF Book, Lots
<1>2. now.held = [book.held EXCEPT ![s] = Units(book.held[s]) + Lots(side)]
      /\ now.cash = book.cash - Lots(side)
  BY DEF Settled, Book
<1>3. \A x \in Instrument : Units(book.held[x]) \in Nat
  BY <1>1 DEF Units
<1>4. Units(book.held[s]) + Lots(side) \in Nat
  BY <1>3 DEF Lots
<1>5. now.held[s] = Units(book.held[s]) + Lots(side)
  BY <1>1, <1>2
<1>6. \A x \in Instrument \ {s} : now.held[x] = book.held[x]
  BY <1>1, <1>2
<1> HIDE DEF now
<1>7. Units(now.held[s]) = Units(book.held[s]) + Lots(side)
  BY <1>4, <1>5 DEF Units, NoRow
<1>8. before \in [Instrument -> Int] /\ after \in [Instrument -> Int]
  BY <1>1, <1>3, <1>6, <1>7
<1>9. \A x \in Instrument \ {s} : before[x] = after[x]
  BY <1>6
<1>10. after[s] - before[s] = Lots(side)
  BY <1>1, <1>3, <1>7
<1>11. IsFiniteSet(Instrument)
  BY StoreAssumption
<1>12. Worth(book) = book.cash + SumFunction(before)
       /\ Worth(now) = now.cash + SumFunction(after)
  BY DEF Worth
<1>13. \A x \in Instrument :
         Units(now.held[x]) = Units(book.held[x]) + (IF x = s THEN Lots(side) ELSE 0)
  BY <1>3, <1>6, <1>7
<1> HIDE DEF before, after
<1>14. SumFunction(before) \in Int /\ SumFunction(after) \in Int
  BY <1>8, <1>11, SumType
<1>15. SumFunction(after) - SumFunction(before) = after[s] - before[s]
  BY <1>8, <1>9, <1>11, SumMoves
<1>16. Worth(now) = Worth(book)
  BY <1>1, <1>2, <1>10, <1>12, <1>14, <1>15
<1> QED BY <1>13, <1>16 DEF now

\* The commit of a session whose base nobody overwrote makes its book the row.
LEMMA WrittenIsMine ==
  ASSUME NEW row \in Book, NEW after \in Book
  PROVE  WrittenBook(row, row, after) = after
<1>1. row.held \in [Instrument -> Nat \union {NoRow}]
      /\ after.held \in [Instrument -> Nat \union {NoRow}]
  BY DEF Book
<1>2. Written(row.held, row.held, after.held) = after.held
  BY <1>1 DEF Written
<1> QED BY <1>2 DEF WrittenBook, Book

\* A session that kept the rows as they are begins its cycle with them.
LEMMA LoadedIsRow ==
  ASSUME TypeOK, NEW mode \in Mode, NEW cached, NEW kept \in BOOLEAN,
         kept => cached = books[mode]
  PROVE  Loaded(mode, cached, kept) = books[mode]
<1>1. books[mode] \in Book
  BY DEF TypeOK
<1>2. CASE kept
  <2>1. [s \in Instrument |-> books[mode].held[s]] = books[mode].held
    BY <1>1 DEF Book
  <2>2. \A s \in Instrument :
          (IF NoRow \in {books[mode].held[s], cached.held[s]}
           THEN books[mode].held[s] ELSE cached.held[s]) = books[mode].held[s]
    BY <1>2
  <2>3. Loaded(mode, cached, kept) =
          [cash |-> books[mode].cash, orders |-> books[mode].orders, held |-> books[mode].held]
    BY <1>2, <2>1, <2>2 DEF Loaded
  <2> QED BY <1>1, <2>3 DEF Book
<1>3. CASE ~kept
  BY <1>3 DEF Loaded
<1> QED BY <1>2, <1>3

\* Outside a cycle, what moves neither a book nor the venue leaves what the
\* hand has paid and how it agrees with the venue.
LEMMA QuietStep ==
  ASSUME NEW h, Paid(h), Follows(h), UNCHANGED <<books, ledger>>,
         hand[h].pc # "cycle", hand'[h].pc # "cycle", hand[h].pc # "dead"
  PROVE  Paid(h)' /\ Follows(h)'
<1>1. \A m \in Mode : Kept(h, m) = books[m] /\ Kept(h, m)' = books[m]
  BY DEF Kept
<1>2. "paper" \in Mode
  BY DEF Mode
<1>3. Paid(h)'
  BY <1>1, <1>2 DEF Paid, Worth
<1>4. Agree(h) => Agree(h)'
  BY <1>1, <1>2 DEF Agree
<1> QED BY <1>3, <1>4 DEF Follows

\* The beginning of a tour, and of a day (invest_run.run, invest_session.start).
LEMMA BeginningAlone ==
  ASSUME IInv, NEW h, Hand = {h}, LoneInv(h), ReadPolicy(h) \/ CheckDay(h)
  PROVE  LoneInv(h)'
<1>1. h \in Hand /\ hand \in [Hand -> Hands]
  BY DEF IInv, TypeOK
<1>2. /\ hand[h].pc \in {"idle", "read"}
      /\ hand'[h].pc \in {"read", "checked", "refused"}
      /\ hand'[h].pc = "checked" => hand'[h].base = books["paper"]
      /\ UNCHANGED <<store, request>>
  BY <1>1 DEF ReadPolicy, CheckDay, Hands
<1>3. Alone(h)'
  BY <1>2 DEF LoneInv, Alone, store
<1> QED BY <1>2, <1>3, QuietStep DEF LoneInv, store

\* A cycle begins on the rows as they are (service.run_cycle).
LEMMA BeginCycleAlone ==
  ASSUME IInv, NEW h, Hand = {h}, LoneInv(h), NEW kept \in BOOLEAN, BeginCycle(h, kept),
         UNCHANGED <<store, request>>, hand[h].pc \in {"checked", "top"},
         kept => hand[h].mine = books[hand[h].mode]
  PROVE  LoneInv(h)'
<1>1. h \in Hand /\ hand \in [Hand -> Hands] /\ hand[h] \in Hands /\ hand[h].mode \in Mode
      /\ TypeOK
  BY DEF IInv, TypeOK, Hands
<1>2. Loaded(hand[h].mode, hand[h].mine, kept) = books[hand[h].mode]
  BY <1>1, LoadedIsRow
<1>3. /\ hand'[h].pc = "cycle" /\ hand'[h].mode = hand[h].mode
      /\ hand'[h].base = books[hand[h].mode] /\ hand'[h].mine = books[hand[h].mode]
  BY <1>1, <1>2 DEF BeginCycle, Hands
<1>4. Alone(h)'
  BY <1>3 DEF LoneInv, Alone, store
<1>5. \A m \in Mode : Kept(h, m) = books[m] /\ Kept(h, m)' = books[m]
  BY <1>3 DEF Kept, store
<1>6. "paper" \in Mode
  BY DEF Mode
<1>7. Paid(h)'
  BY <1>5, <1>6 DEF LoneInv, Paid, Worth, store
<1>8. Agree(h) => Agree(h)'
  BY <1>5, <1>6 DEF Agree, store
<1>9. Follows(h)'
  BY <1>3, <1>8 DEF LoneInv, Follows, store
<1> QED BY <1>4, <1>7, <1>9 DEF LoneInv

\* What a session of a cycle may do with its own book, and what that does to
\* the venue's.
LEMMA ExamineAlone ==
  ASSUME IInv, NEW h, Hand = {h}, LoneInv(h), NEW pc \in {"failed", "dead"}, Examine(h, pc),
         UNCHANGED request
  PROVE  LoneInv(h)'
<1>1. /\ h \in Hand /\ hand \in [Hand -> Hands] /\ hand[h] \in Hands /\ TypeOK
      /\ hand[h].mode \in Mode /\ hand[h].mine \in Book /\ "paper" \in Mode
      /\ ledger \in [Mode -> Ledger]
  BY DEF IInv, TypeOK, Hands, Mode
<1> DEFINE mode == hand[h].mode
           mine == hand[h].mine
           s    == Current(h)
<1>2. UNCHANGED <<policy, books, days, journal>>
  BY <1>1, ExamineType
<1>3. hand[h].pc = "cycle" /\ s \in Instrument
  BY CycleAssumption DEF Examine, ExamineSendingNothing, ExamineFilled, ExaminePending,
     ExamineUnanswered, ExamineConflict, CycleGivesUp, InCycle, Current
<1>4. hand[h].base = books[mode] /\ lock \in {NoOne, h}
  BY <1>3 DEF LoneInv, Alone
<1>5. ~ExamineConflict(h, pc) /\ ~CycleGivesUp(h, pc)
  BY <1>4 DEF ExamineConflict, CycleGivesUp, RowConflict, Free
<1>6. \A m \in Mode : Kept(h, m) = IF m = mode THEN mine ELSE books[m]
  BY <1>3 DEF Kept
\* The hand keeps its place, its mode and its base, and holds the lock.
<1>7. ASSUME hand'[h].pc = "cycle", hand'[h].mode = mode, hand'[h].base = hand[h].base,
             lock' = h
      PROVE  Alone(h)' /\ \A m \in Mode : Kept(h, m)' = IF m = mode THEN hand'[h].mine
                                                          ELSE books[m]
  <2>1. h # NoOne
    BY <1>1, StoreAssumption DEF Actor
  <2>2. Alone(h)'
    BY <1>2, <1>4, <1>7, <2>1 DEF LoneInv, Alone
  <2> QED BY <1>2, <1>7, <2>2 DEF Kept
<1>8. CASE ExamineSendingNothing(h) \/ ExamineUnanswered(h)
  <2>1. /\ hand'[h].pc = "cycle" /\ hand'[h].mode = mode /\ hand'[h].base = hand[h].base
        /\ hand'[h].mine = mine /\ lock' = h
    BY <1>1, <1>3, <1>8 DEF ExamineSendingNothing, ExamineUnanswered, Recorded, Hands
  <2>2. "unanswered" \notin Faults => ledger' = ledger
    BY <1>8 DEF ExamineSendingNothing, ExamineUnanswered
  <2>3. \A m \in Mode : Kept(h, m)' = Kept(h, m)
    BY <1>6, <1>7, <2>1
  <2>4. Paid(h)'
    BY <1>1, <1>2, <2>3 DEF LoneInv, Paid, Worth
  <2>5. ledger' = ledger /\ Agree(h) => Agree(h)'
    BY <1>1, <2>3 DEF Agree
  <2>6. Follows(h)'
    BY <1>3, <2>2, <2>5 DEF LoneInv, Follows
  <2> QED BY <1>7, <2>1, <2>4, <2>6 DEF LoneInv
<1>9. CASE ExamineFilled(h)
  <2>1. PICK side \in {"buy", "sell"} :
          /\ MayPass(h, side)
          /\ lock' = h
          /\ hand' = [hand EXCEPT ![h].turn = @ + 1, ![h].staged = @ + 3,
                                  ![h].mine = Settled(@, Current(h), side)]
          /\ Executed(h, side)
    BY <1>9 DEF ExamineFilled
  <2> DEFINE now == Settled(mine, s, side)
  <2>2. /\ hand'[h].pc = "cycle" /\ hand'[h].mode = mode /\ hand'[h].base = hand[h].base
        /\ hand'[h].mine = now
    BY <1>1, <1>3, <2>1 DEF Hands
  <2>3. \A m \in Mode : Kept(h, m)' = IF m = mode THEN now ELSE books[m]
    BY <1>7, <2>1, <2>2
  <2>4. mine.orders < Cap /\ IF side = "buy" THEN mine.cash > 0 ELSE Units(mine.held[s]) > 0
    BY <2>1 DEF MayPass
  <2>5. /\ Worth(now) = Worth(mine)
        /\ \A x \in Instrument :
             Units(now.held[x]) = Units(mine.held[x]) + (IF x = s THEN Lots(side) ELSE 0)
    BY <1>1, <1>3, <2>4, WorthOfSettled
  <2>6. now.cash = mine.cash - Lots(side) /\ now.orders = mine.orders + 1
    BY <1>1 DEF Settled, Book
  <2> HIDE DEF now
  <2>7. Paid(h)'
    <3>1. Worth(Kept(h, "paper"))' = Worth(Kept(h, "paper"))
      BY <1>1, <1>6, <2>3, <2>5 DEF Worth
    <3> QED BY <1>2, <3>1 DEF LoneInv, Paid, Worth
  <2>8. /\ ledger'[mode].orders = ledger[mode].orders + 1
        /\ ledger'[mode].cash = ledger[mode].cash - Lots(side)
        /\ \A x \in Instrument : ledger'[mode].net[x] =
             ledger[mode].net[x] + (IF x = s THEN Lots(side) ELSE 0)
        /\ \A m \in Mode : m # mode => ledger'[m] = ledger[m]
    <3>1. ledger' = [ledger EXCEPT ![mode].cash = @ - Lots(side),
                                   ![mode].orders = @ + 1,
                                   ![mode].net[s] = @ + Lots(side)]
      BY <2>1 DEF Executed
    <3>2. ledger[mode] \in Ledger /\ Lots(side) \in Int
      BY <1>1 DEF Lots
    <3> HIDE DEF mode, s
    <3>3. ledger'[mode] = [ledger[mode] EXCEPT !.cash = @ - Lots(side), !.orders = @ + 1,
                                               !.net[s] = @ + Lots(side)]
      BY <1>1, <3>1 DEF mode
    <3>4. ledger[mode].net \in [Instrument -> Int]
      BY <3>2 DEF Ledger
    <3>5. \A m \in Mode : m # mode => ledger'[m] = ledger[m]
      BY <1>1, <3>1
    <3> QED BY <1>3, <3>2, <3>3, <3>4, <3>5 DEF Ledger
  <2>9. Agree(h) => Agree(h)'
    <3> SUFFICES ASSUME Agree(h) PROVE Agree(h)'
      OBVIOUS
    <3>1. \A m \in Mode : ledger'[m].orders = Kept(h, m)'.orders
      BY <1>1, <1>6, <2>3, <2>6, <2>8 DEF Agree
    <3>2. ledger'["paper"].cash = Kept(h, "paper")'.cash
      BY <1>1, <1>6, <2>3, <2>6, <2>8 DEF Agree
    <3>3. \A x \in Instrument : ledger'["paper"].net[x] = Units(Kept(h, "paper")'.held[x])
      BY <1>1, <1>6, <2>3, <2>5, <2>8 DEF Agree
    <3> QED BY <3>1, <3>2, <3>3 DEF Agree
  <2>10. Follows(h)'
    <3> SUFFICES ASSUME "unanswered" \notin Faults
                 PROVE  (\A m \in Mode : ledger'[m].orders <= Cap) /\ Agree(h)'
      BY DEF Follows
    <3>1. (\A m \in Mode : ledger[m].orders <= Cap) /\ Agree(h)
      BY <1>3 DEF LoneInv, Follows
    <3>2. ledger[mode].orders = mine.orders
      BY <1>1, <1>6, <3>1 DEF Agree
    <3>3. mine.orders + 1 <= Cap
      BY <1>1, <2>4, CycleAssumption DEF Book
    <3>4. \A m \in Mode : ledger'[m].orders <= Cap
      BY <2>8, <3>1, <3>2, <3>3
    <3> QED BY <2>9, <3>1, <3>4
  <2> QED BY <1>7, <2>1, <2>2, <2>7, <2>10 DEF LoneInv
<1>10. CASE ExaminePending(h)
  <2>1. /\ hand'[h].pc = "cycle" /\ hand'[h].mode = mode /\ hand'[h].base = hand[h].base
        /\ hand'[h].mine = [mine EXCEPT !.orders = @ + 1] /\ lock' = h
    BY <1>1, <1>3, <1>10 DEF ExaminePending, Hands
  <2> DEFINE now == [mine EXCEPT !.orders = @ + 1]
  <2>2. \A m \in Mode : Kept(h, m)' = IF m = mode THEN now ELSE books[m]
    BY <1>7, <2>1
  <2>3. now.cash = mine.cash /\ now.held = mine.held /\ now.orders = mine.orders + 1
    BY <1>1 DEF Book
  <2>4. mine.orders < Cap
    BY <1>10 DEF ExaminePending, MayPass
  <2>5. /\ ledger'[mode].orders = ledger[mode].orders + 1
        /\ ledger'[mode].cash = ledger[mode].cash /\ ledger'[mode].net = ledger[mode].net
        /\ \A m \in Mode : m # mode => ledger'[m] = ledger[m]
    BY <1>1, <1>10 DEF ExaminePending, Ledger
  <2> HIDE DEF now
  <2>6. Paid(h)'
    <3>1. Worth(Kept(h, "paper"))' = Worth(Kept(h, "paper"))
      BY <1>1, <1>6, <2>2, <2>3 DEF Worth
    <3> QED BY <1>2, <3>1 DEF LoneInv, Paid, Worth
  <2>7. Agree(h) => Agree(h)'
    <3> SUFFICES ASSUME Agree(h) PROVE Agree(h)'
      OBVIOUS
    <3>1. \A m \in Mode : ledger'[m].orders = Kept(h, m)'.orders
      BY <1>1, <1>6, <2>2, <2>3, <2>5 DEF Agree
    <3>2. ledger'["paper"].cash = Kept(h, "paper")'.cash
      BY <1>1, <1>6, <2>2, <2>3, <2>5 DEF Agree
    <3>3. \A x \in Instrument : ledger'["paper"].net[x] = Units(Kept(h, "paper")'.held[x])
      BY <1>1, <1>6, <2>2, <2>3, <2>5 DEF Agree
    <3> QED BY <3>1, <3>2, <3>3 DEF Agree
  <2>8. Follows(h)'
    <3> SUFFICES ASSUME "unanswered" \notin Faults
                 PROVE  (\A m \in Mode : ledger'[m].orders <= Cap) /\ Agree(h)'
      BY DEF Follows
    <3>1. (\A m \in Mode : ledger[m].orders <= Cap) /\ Agree(h)
      BY <1>3 DEF LoneInv, Follows
    <3>2. ledger[mode].orders = mine.orders
      BY <1>1, <1>6, <3>1 DEF Agree
    <3>3. mine.orders + 1 <= Cap
      BY <1>1, <2>4, CycleAssumption DEF Book
    <3>4. \A m \in Mode : ledger'[m].orders <= Cap
      BY <2>5, <3>1, <3>2, <3>3
    <3> QED BY <2>7, <3>1, <3>4
  <2> QED BY <1>7, <2>1, <2>6, <2>8 DEF LoneInv
<1> QED BY <1>5, <1>8, <1>9, <1>10 DEF Examine

\* The commit of a cycle: the book of the session becomes the row, and the
\* hand is back between two transactions.
LEMMA CommitBookAlone ==
  ASSUME IInv, NEW h, Hand = {h}, LoneInv(h), CycleDone(h), CommitBook(h),
         UNCHANGED <<ledger, request>>,
         hand'[h].pc \in {"answered", "top", "closing"}, hand'[h].mode = hand[h].mode,
         hand'[h].pc = "top" => hand'[h].mine = hand[h].mine
  PROVE  LoneInv(h)'
<1>1. /\ h \in Hand /\ hand[h] \in Hands /\ hand[h].mode \in Mode /\ hand[h].mine \in Book
      /\ "paper" \in Mode /\ books \in [Mode -> Book]
  BY DEF IInv, TypeOK, Hands, Mode
<1>2. hand[h].pc = "cycle" /\ hand[h].base = books[hand[h].mode]
  BY DEF CycleDone, LoneInv, Alone
<1>3. books' = [books EXCEPT ![hand[h].mode] = hand[h].mine] /\ lock' = NoOne
  BY <1>1, <1>2, WrittenIsMine DEF CommitBook
<1>4. \A m \in Mode : books'[m] = Kept(h, m) /\ Kept(h, m)' = books'[m]
  BY <1>1, <1>2, <1>3 DEF Kept
<1>5. Alone(h)'
  BY <1>1, <1>2, <1>3 DEF LoneInv, Alone
<1>6. Worth(Kept(h, "paper")) = Stake
  BY DEF LoneInv, Paid
<1>7. Paid(h)'
  BY <1>1, <1>4, <1>6 DEF Paid, Worth
<1>8. Agree(h) => Agree(h)'
  BY <1>1, <1>4 DEF Agree
<1>9. Follows(h)'
  BY <1>2, <1>8 DEF LoneInv, Follows
<1> QED BY <1>5, <1>7, <1>9 DEF LoneInv

LEMMA TourAlone ==
  ASSUME IInv, NEW h, Hand = {h}, LoneInv(h), NEW t \in Tour, TourStep(t)
  PROVE  LoneInv(h)'
<1>1. t = h /\ hand \in [Hand -> Hands] /\ hand[h] \in Hands
  BY DEF Hand, IInv, TypeOK
<1>2. CASE ReadPolicy(t) \/ CheckDay(t)
  BY <1>1, <1>2, BeginningAlone
<1>3. CASE TourBegins(t)
  BY <1>1, <1>3, BeginCycleAlone DEF TourBegins
<1>4. CASE TourExamines(t)
  BY <1>1, <1>4, ExamineAlone DEF TourExamines
<1>5. CASE TourCommits(t)
  <2>1. hand'[h].pc = "answered" /\ hand'[h].mode = hand[h].mode
    BY <1>1, <1>5 DEF TourCommits, Hands
  <2> QED BY <1>1, <1>5, <2>1, CommitBookAlone DEF TourCommits
<1> QED BY <1>2, <1>3, <1>4, <1>5 DEF TourStep

\* A day's clean sandbox (invest_session.start).
LEMMA DayStartsAlone ==
  ASSUME IInv, NEW h, Hand = {h}, LoneInv(h), h \in Day, DayStarts(h)
  PROVE  LoneInv(h)'
<1>1. /\ h \in Hand /\ hand \in [Hand -> Hands] /\ hand[h] \in Hands
      /\ books \in [Mode -> Book] /\ "paper" \in Mode /\ ledger \in [Mode -> Ledger]
      /\ days \in [Day -> DayRow]
  BY DEF IInv, TypeOK, Mode
<1>2. hand[h].pc = "checked" /\ hand[h].base = books["paper"] /\ lock = NoOne /\ lock' = NoOne
  BY DEF DayStarts, LoneInv, Alone
<1>3. FreshBook(Stake) \in Book
  BY StoreAssumption, FreshBookType
<1>4. books' = [books EXCEPT !["paper"] = FreshBook(Stake)]
  <2>1. WrittenBook(books["paper"], hand[h].base, FreshBook(Stake)) = FreshBook(Stake)
    BY <1>1, <1>2, <1>3, WrittenIsMine
  <2>2. [FreshBook(Stake) EXCEPT !.held = FreshBook(Stake).held] = FreshBook(Stake)
    BY <1>3 DEF Book
  <2> QED BY <2>1, <2>2 DEF DayStarts
<1>5. ledger' = [ledger EXCEPT !["paper"] = EmptyLedger(Stake)]
  BY DEF DayStarts
<1>6. hand'[h].pc = "queued" /\ days'[h].completed = days[h].completed /\ UNCHANGED request
  BY <1>1 DEF DayStarts, Hands, DayRow
<1>7. Alone(h)'
  BY <1>2, <1>6 DEF LoneInv, Alone
<1>8. \A m \in Mode : Kept(h, m) = books[m] /\ Kept(h, m)' = books'[m]
  BY <1>2, <1>6 DEF Kept
<1>9. books'["paper"] = FreshBook(Stake) /\ ledger'["paper"] = EmptyLedger(Stake)
      /\ \A m \in Mode : m # "paper" => books'[m] = books[m] /\ ledger'[m] = ledger[m]
  BY <1>1, <1>4, <1>5
<1>10. Paid(h)'
  BY <1>1, <1>8, <1>9, WorthOfFresh DEF Paid, Worth
<1>11. Agree(h) => Agree(h)'
  BY <1>1, <1>8, <1>9 DEF Agree, FreshBook, EmptyLedger, Units
<1>12. EmptyLedger(Stake).orders <= Cap
  BY CycleAssumption DEF EmptyLedger
<1>13. Follows(h)'
  BY <1>2, <1>9, <1>11, <1>12 DEF LoneInv, Follows
<1> QED BY <1>7, <1>10, <1>13 DEF LoneInv

LEMMA DayAlone ==
  ASSUME IInv, NEW h, Hand = {h}, LoneInv(h), NEW d \in Day,
         DayStarting(d) \/ DayPlaying(d) \/ StopDay(d)
  PROVE  LoneInv(h)'
<1>1. /\ d = h /\ h \in Day /\ hand \in [Hand -> Hands] /\ hand[h] \in Hands
      /\ days \in [Day -> DayRow]
      /\ days[h] \in DayRow
  BY DEF Hand, IInv, TypeOK
<1>2. CASE ReadPolicy(d) \/ CheckDay(d)
  BY <1>1, <1>2, BeginningAlone
<1>3. CASE DayStarts(d)
  BY <1>1, <1>3, DayStartsAlone
\* Nobody else ever holds the lock.
<1>4. ~DayNotStarted(d) /\ ~DayDies(d)
  BY <1>1 DEF DayNotStarted, DayDies, LoneInv, Alone
<1>5. CASE StepBegins(d)
  <2>1. (days[d].completed > 0) \in BOOLEAN
    OBVIOUS
  <2>2. hand[h].pc = "top"
    BY <1>1, <1>5 DEF StepBegins
  <2>3. days[d].completed > 0 => hand[h].mine = books[hand[h].mode]
    BY <1>1, <2>2 DEF LoneInv, Alone
  <2> QED BY <1>1, <1>5, <2>1, <2>2, <2>3, BeginCycleAlone DEF StepBegins
<1>6. CASE StepExamines(d)
  BY <1>1, <1>6, ExamineAlone DEF StepExamines
<1>7. CASE StepCommits(d)
  <2>1. /\ hand'[h].pc \in {"top", "closing"} /\ hand'[h].mode = hand[h].mode
        /\ hand'[h].mine = hand[h].mine
    BY <1>1, <1>7 DEF StepCommits, Hands
  <2>2. CycleDone(h) /\ CommitBook(h) /\ UNCHANGED <<ledger, request>>
    BY <1>1, <1>7 DEF StepCommits
  <2> QED BY <2>1, <2>2, CommitBookAlone
<1>8. CASE DayBegins(d)
  <2>1. /\ hand[h].pc = "queued" /\ hand'[h].pc = "top" /\ UNCHANGED <<store, request>>
    BY <1>1, <1>8 DEF DayBegins, Hands
  <2>2. days[h].completed = 0
    BY <1>1, <2>1 DEF LoneInv, Alone
  <2>3. Alone(h)'
    BY <2>1, <2>2 DEF LoneInv, Alone, store
  <2> QED BY <2>1, <2>3, QuietStep DEF LoneInv, store
<1>9. CASE DayWithoutProvider(d) \/ DayHearsStop(d) \/ DayCloses(d)
  <2>1. /\ hand[h].pc \in {"queued", "top", "closing"}
        /\ hand'[h].pc \in {"answered", "closing"}
        /\ UNCHANGED <<books, ledger, lock, request>>
    BY <1>1, <1>9 DEF DayWithoutProvider, DayHearsStop, DayCloses, Hands, store
  <2>2. Alone(h)'
    BY <2>1 DEF LoneInv, Alone
  <2> QED BY <2>1, <2>2, QuietStep DEF LoneInv
<1>10. CASE StopDay(d)
  <2>1. /\ UNCHANGED <<books, ledger, lock, request, hand>>
        /\ days'[h].completed = days[h].completed
    BY <1>1, <1>10 DEF StopDay, DayRow
  <2>2. \A m : Kept(h, m)' = Kept(h, m)
    BY <2>1 DEF Kept
  <2>3. Alone(h)'
    BY <2>1 DEF LoneInv, Alone
  <2>4. Paid(h)'
    BY <2>1, <2>2 DEF LoneInv, Paid, Worth
  <2>5. Agree(h) => Agree(h)'
    BY <2>1, <2>2 DEF Agree
  <2> QED BY <2>1, <2>3, <2>4, <2>5 DEF LoneInv, Follows
<1> QED BY <1>2, <1>3, <1>4, <1>5, <1>6, <1>7, <1>8, <1>9, <1>10 DEF DayStarting, DayPlaying

\* No request but a reset touches a book, and none holds the lock beyond its
\* own commit.
LEMMA RequestAlone ==
  ASSUME IInv, NEW h, Hand = {h}, "reset" \notin Kinds, LoneInv(h),
         NEW r \in Request, OversightStep(r), UNCHANGED hand
  PROVE  LoneInv(h)'
<1>1. request \in [Request -> Requests] /\ request[r] \in Requests
  BY DEF IInv, TypeOK
<1>2. Load(r) \/ Chain(r) \/ Commit(r) \/ Collide(r) \/ GiveUp(r)
  <2>1. ~CommitReset(r)
    BY DEF CommitReset, LoneInv, Alone
  <2> QED BY <2>1 DEF OversightStep
<1>3. UNCHANGED <<books, ledger, lock, days>>
  <2>1. CASE Load(r)
    BY <2>1, Zenon DEF Load, store
  <2>2. CASE Chain(r) \/ Commit(r) \/ Collide(r) \/ GiveUp(r)
    BY <2>2 DEF Chain, Commit, Collide, GiveUp, store
  <2> QED BY <1>2, <2>1, <2>2
<1>4. request'[r].kind # "reset"
  <2>1. CASE Load(r)
    BY <2>1, <1>1 DEF Load, Requests
  <2>2. CASE Chain(r) \/ Commit(r) \/ Collide(r) \/ GiveUp(r)
    <3>1. request'[r].kind = request[r].kind
      BY <2>2, <1>1 DEF Chain, Commit, Collide, GiveUp, Requests
    <3> QED BY <3>1 DEF LoneInv, Alone
  <2> QED BY <1>2, <2>1, <2>2
<1>5. \A q \in Request : q # r => request'[q] = request[q]
  <2>1. CASE Load(r)
    BY <2>1, <1>1 DEF Load
  <2>2. CASE Chain(r) \/ Commit(r) \/ Collide(r) \/ GiveUp(r)
    BY <2>2, <1>1 DEF Chain, Commit, Collide, GiveUp
  <2> QED BY <1>2, <2>1, <2>2
<1>6. \A m : Kept(h, m)' = Kept(h, m)
  BY <1>3 DEF Kept
<1>7. Alone(h)'
  <2>1. \A q \in Request : request'[q].kind # "reset"
    BY <1>4, <1>5 DEF LoneInv, Alone
  <2> QED BY <1>3, <2>1 DEF LoneInv, Alone
<1>8. Paid(h)'
  BY <1>3, <1>6 DEF LoneInv, Paid, Worth
<1>9. Agree(h) => Agree(h)'
  BY <1>3, <1>6 DEF Agree
<1> QED BY <1>3, <1>7, <1>8, <1>9 DEF LoneInv, Follows

\* A restart takes the open transaction away whole: what remains is the row as
\* last committed, and a venue that may have heard more.
LEMMA RestartAlone ==
  ASSUME IInv, NEW h, Hand = {h}, LoneInv(h), Restart
  PROVE  LoneInv(h)'
<1>1. h \in Hand /\ hand \in [Hand -> Hands] /\ hand[h] \in Hands
      /\ request \in [Request -> Requests]
  BY DEF IInv, TypeOK
<1>2. hand'[h].pc = "dead" /\ lock' = NoOne /\ "restart" \in Faults
      /\ UNCHANGED <<books, ledger, days>>
  BY <1>1 DEF Restart, Hands
<1>3. \A r \in Request : request'[r].kind # "reset"
  BY <1>1 DEF Restart, Requests, LoneInv, Alone
<1>4. Alone(h)'
  BY <1>2, <1>3 DEF LoneInv, Alone
<1>5. Kept(h, "paper")' = books["paper"]
  BY <1>2 DEF Kept
<1>6. Paid(h)'
  BY <1>2, <1>5 DEF LoneInv, Paid, Worth
<1> QED BY <1>2, <1>4, <1>6 DEF LoneInv, Follows

LEMMA InitAlone ==
  ASSUME NEW h, Hand = {h}, Init
  PROVE  LoneInv(h)
<1>1. /\ books["paper"] = FreshBook(Stake) /\ books["live"] = FreshBook(0)
      /\ ledger["paper"] = EmptyLedger(Stake) /\ ledger["live"] = EmptyLedger(BrokerCash)
      /\ hand[h].pc = "idle" /\ lock = NoOne
      /\ \A r \in Request : request[r].kind = "halt"
      /\ \A d \in Day : days[d].completed = 0
  BY DEF Init, AtRest, Idle
<1>2. \A m \in Mode : Kept(h, m) = books[m]
  BY <1>1 DEF Kept
<1>3. "paper" \in Mode
  BY DEF Mode
<1>4. Alone(h)
  BY <1>1 DEF Alone
<1>5. Paid(h)
  BY <1>1, <1>2, <1>3, WorthOfFresh DEF Paid
<1>6. Agree(h)
  BY <1>1, <1>2, <1>3 DEF Agree, Mode, FreshBook, EmptyLedger, Units
<1>7. \A m \in Mode : ledger[m].orders <= Cap
  BY <1>1, CycleAssumption DEF Mode, EmptyLedger
<1> QED BY <1>4, <1>5, <1>6, <1>7 DEF LoneInv, Follows

LEMMA NextAlone ==
  ASSUME NEW h, Hand = {h}, "reset" \notin Kinds, IInv, LoneInv(h), [Next]_vars
  PROVE  LoneInv(h)'
<1>1. ASSUME NEW r \in Request, OversightStep(r), UNCHANGED hand PROVE LoneInv(h)'
  BY <1>1, RequestAlone
<1>2. ASSUME NEW t \in Tour, TourStep(t) PROVE LoneInv(h)'
  BY <1>2, TourAlone
<1>3. ASSUME NEW d \in Day, DayStarting(d) \/ DayPlaying(d) \/ StopDay(d) PROVE LoneInv(h)'
  BY <1>3, DayAlone
<1>4. CASE Restart
  BY <1>4, RestartAlone
<1>5. CASE UNCHANGED vars
  <2>1. \A m : Kept(h, m)' = Kept(h, m)
    BY <1>5 DEF Kept, vars, store
  <2>2. Alone(h)'
    BY <1>5 DEF LoneInv, Alone, vars, store
  <2>3. Paid(h)'
    BY <1>5, <2>1 DEF LoneInv, Paid, Worth, vars, store
  <2>4. Agree(h) => Agree(h)'
    BY <1>5, <2>1 DEF Agree, vars, store
  <2> QED BY <1>5, <2>2, <2>3, <2>4 DEF LoneInv, Follows, vars, store
<1>6. CASE Done
  BY <1>6, <1>5 DEF Done
<1> QED BY <1>1, <1>2, <1>3, <1>4, <1>5, <1>6 DEF Next

LEMMA LoneInvariance ==
  ASSUME NEW h, Hand = {h}, "reset" \notin Kinds
  PROVE  Spec => [](IInv /\ LoneInv(h))
<1>1. Init => IInv /\ LoneInv(h)
  BY InitIInv, InitAlone
<1>2. IInv /\ LoneInv(h) /\ [Next]_vars => (IInv /\ LoneInv(h))'
  BY NextIInv, NextAlone
<1> QED BY <1>1, <1>2, PTL DEF Spec

\* A crash between an order and its settlement never leaves half of it
\* (service._place, _settle): one hand, at work for any number of steps, with
\* any fault, restarts and unanswered orders included.
THEOREM NothingHalfSettledAlone ==
  ASSUME NEW h, Hand = {h}, "reset" \notin Kinds
  PROVE  Spec => []NothingHalfSettled
<1>1. LoneInv(h) => NothingHalfSettled
  BY DEF LoneInv, Paid, Worth, NothingHalfSettled
<1> QED BY <1>1, LoneInvariance, PTL

\* With one hand, the venue never accepts more orders in a day than the
\* mandate's cap (engines/trading_risk.py, max_orders_per_day), whatever its
\* session kept from step to step, as long as the venue's answers arrive.
THEOREM CapHoldsAlone ==
  ASSUME NEW h, Hand = {h}, "reset" \notin Kinds, "unanswered" \notin Faults
  PROVE  Spec => []CapHolds
<1>1. LoneInv(h) => CapHolds
  BY DEF LoneInv, Follows, CapHolds
<1> QED BY <1>1, LoneInvariance, PTL

\* Between two transactions the paper account of a lone hand is the one the
\* venue would account for (service._settle), when no process is restarted
\* and every order is answered.
THEOREM BookFollowsVenueAlone ==
  ASSUME NEW h, Hand = {h}, "reset" \notin Kinds, Faults = {}
  PROVE  Spec => []BookFollowsVenue
<1>1. IInv /\ LoneInv(h) => BookFollowsVenue
  <2> SUFFICES ASSUME IInv, LoneInv(h), lock = NoOne PROVE BookFollowsVenue
    BY DEF BookFollowsVenue
  <2>1. "paper" \in Mode
    BY DEF Mode
  <2>2. Kept(h, "paper") = books["paper"]
    BY DEF LoneInv, Alone, Kept
  <2>3. Agree(h)
    BY DEF LoneInv, Alone, Follows
  <2> QED BY <2>1, <2>2, <2>3 DEF Agree, BookFollowsVenue
<1> QED BY <1>1, LoneInvariance, PTL

-----------------------------------------------------------------------------
(* Any number of hands.  Each writes back over the others' counters, and a *)
(* reset or a failed settlement takes the book away from the venue; what   *)
(* remains true is that no hand sends more than its own counter lets it.   *)

\* The most orders a hand may have sent: none before its first cycle, what its
\* session has counted since, and the whole cap once it is gone with what it
\* had counted.
Spent(h) ==
  CASE hand[h].pc \in {"idle", "read", "checked", "refused", "queued"} -> 0
    [] h \in Day /\ hand[h].pc = "top" /\ days[h].completed = 0 -> 0
    [] hand[h].pc \in {"failed", "dead"} -> Cap
    [] OTHER -> hand[h].mine.orders

SpentByAll == SumFunction([h \in Hand |-> Spent(h)])

\* No counter passes the cap: neither a committed one nor a session's.
Counted ==
  /\ \A m \in Mode : books[m].orders <= Cap
  /\ \A h \in Hand : hand[h].mine.orders <= Cap

HandsInv == Counted /\ \A m \in Mode : ledger[m].orders <= SpentByAll

\* What a step of the hand h may do: move its own session, keep the counters
\* under the cap, and have the venue accept no more than it counts.
Effect(h) ==
  /\ \A x \in Hand : x # h => hand'[x] = hand[x]
  /\ \A d \in Day : d # h => days'[d].completed = days[d].completed
  /\ \A m \in Mode : books'[m].orders <= Cap
  /\ hand'[h].mine.orders <= Cap
  /\ Spent(h) <= Spent(h)'
  /\ \A m \in Mode : ledger'[m].orders <= ledger[m].orders + (Spent(h)' - Spent(h))

LEMMA SpentType ==
  ASSUME TypeOK, Counted, NEW h \in Hand
  PROVE  Spent(h) \in 0..Cap
<1>1. hand[h].mine.orders \in 0..Cap
  BY DEF TypeOK, Hands, Book, Counted
<1> QED BY <1>1, CycleAssumption DEF Spent

\* Where only one hand's session moved, the sum moved as much as its part.
LEMMA EffectAdds ==
  ASSUME IsFiniteSet(Hand), TypeOK, TypeOK', HandsInv, NEW h \in Hand, Effect(h)
  PROVE  HandsInv'
<1> DEFINE before == [x \in Hand |-> Spent(x)]
           after  == [x \in Hand |-> Spent(x)']
<1>1. Counted /\ Counted'
  BY DEF HandsInv, Effect, Counted
<1>2. \A x \in Hand : Spent(x) \in 0..Cap
  BY <1>1, SpentType
<1>3. \A x \in Hand : Spent(x)' \in 0..Cap
  <2> TAKE x \in Hand
  <2>1. hand'[x].mine.orders \in 0..Cap
    BY <1>1 DEF TypeOK, Hands, Book, Counted
  <2> QED BY <2>1, CycleAssumption DEF Spent
<1>4. before \in [Hand -> Int] /\ after \in [Hand -> Int]
  BY <1>2, <1>3, CycleAssumption
<1>5. \A x \in Hand \ {h} : before[x] = after[x]
  BY DEF Effect, Spent
<1>6. before[h] = Spent(h) /\ after[h] = Spent(h)'
  OBVIOUS
<1> HIDE DEF before, after
<1>7. /\ SumFunction(after) - SumFunction(before) = after[h] - before[h]
      /\ SumFunction(after) \in Int /\ SumFunction(before) \in Int
  <2>1. SumFunction(after) - SumFunction(before) = after[h] - before[h]
    BY <1>4, <1>5, SumMoves
  <2>2. SumFunction(after) \in Int /\ SumFunction(before) \in Int
    BY <1>4, SumType
  <2> QED BY <2>1, <2>2
<1>8. SpentByAll = SumFunction(before) /\ SpentByAll' = SumFunction(after)
  BY DEF SpentByAll, before, after
<1>9. ASSUME NEW m \in Mode PROVE ledger'[m].orders <= SpentByAll'
  <2>1. ledger[m].orders \in Nat /\ ledger'[m].orders \in Nat
    BY DEF TypeOK, Ledger
  <2>2. /\ ledger[m].orders <= SumFunction(before)
        /\ ledger'[m].orders <= ledger[m].orders + (Spent(h)' - Spent(h))
    BY <1>8 DEF HandsInv, Effect
  <2>3. Spent(h) \in Int /\ Spent(h)' \in Int
    BY <1>2, <1>3
  <2> QED BY <1>6, <1>7, <1>8, <2>1, <2>2, <2>3
<1> QED BY <1>1, <1>9 DEF HandsInv

LEMMA BeginningEffect ==
  ASSUME IInv, HandsInv, NEW h \in Hand, ReadPolicy(h) \/ CheckDay(h)
  PROVE  Effect(h)
<1>1. hand \in [Hand -> Hands] /\ hand[h] \in Hands /\ ledger \in [Mode -> Ledger]
  BY DEF IInv, TypeOK
<1>2. /\ hand[h].pc \in {"idle", "read"}
      /\ hand'[h].pc \in {"read", "checked", "refused"}
      /\ hand'[h].mine = hand[h].mine
      /\ \A x \in Hand : x # h => hand'[x] = hand[x]
      /\ UNCHANGED <<store, request>>
  BY <1>1 DEF ReadPolicy, CheckDay, Hands
<1>3. Spent(h) = 0 /\ Spent(h)' = 0
  BY <1>2 DEF Spent
<1> QED BY <1>1, <1>2, <1>3 DEF Effect, store, HandsInv, Counted, Ledger

\* A session that kept its book counts on from it; another from the row.
LEMMA BeginCycleEffect ==
  ASSUME IInv, HandsInv, NEW h \in Hand, NEW kept \in BOOLEAN, BeginCycle(h, kept),
         UNCHANGED <<store, request>>,
         \/ hand[h].pc = "checked" /\ ~kept
         \/ h \in Day /\ hand[h].pc = "top" /\ (kept <=> days[h].completed > 0)
  PROVE  Effect(h)
<1>1. /\ hand \in [Hand -> Hands] /\ hand[h] \in Hands /\ hand[h].mode \in Mode
      /\ hand[h].mine.orders \in Nat
      /\ \A m \in Mode : books[m].orders \in Nat /\ ledger[m].orders \in Nat
      /\ \A d \in Day : days[d].completed \in Nat
  BY DEF IInv, TypeOK, Hands, Book, Ledger, DayRow
<1> DEFINE book == Loaded(hand[h].mode, hand[h].mine, kept)
<1>2. book.orders = IF kept THEN hand[h].mine.orders ELSE books[hand[h].mode].orders
  BY DEF Loaded
<1>3. book.orders \in 0..Cap
  BY <1>1, <1>2, CycleAssumption DEF HandsInv, Counted
<1> HIDE DEF book
<1>4. /\ hand'[h].pc = "cycle" /\ hand'[h].mine = book
      /\ \A x \in Hand : x # h => hand'[x] = hand[x]
  BY <1>1 DEF BeginCycle, Hands, book
<1>5. Spent(h)' = book.orders
  BY <1>4 DEF Spent
<1>6. Spent(h) = IF kept THEN hand[h].mine.orders ELSE 0
  BY <1>1 DEF Spent
<1>7. Spent(h) <= Spent(h)' /\ Spent(h) \in Int /\ Spent(h)' \in Int
  BY <1>1, <1>2, <1>3, <1>5, <1>6
<1> QED BY <1>1, <1>3, <1>4, <1>7 DEF Effect, store, HandsInv, Counted

LEMMA ExamineEffect ==
  ASSUME IInv, HandsInv, "unanswered" \notin Faults, NEW h \in Hand,
         NEW pc \in {"failed", "dead"}, Examine(h, pc)
  PROVE  Effect(h)
<1>1. /\ hand \in [Hand -> Hands] /\ hand[h] \in Hands /\ TypeOK
      /\ hand[h].mode \in Mode /\ hand[h].mine \in Book
      /\ hand[h].mine.orders \in Nat /\ hand[h].mine.orders <= Cap
      /\ ledger \in [Mode -> Ledger]
      /\ \A m \in Mode : ledger[m].orders \in Nat
  BY DEF IInv, TypeOK, Hands, Book, Ledger, HandsInv, Counted
<1>2. UNCHANGED <<books, days>>
  BY <1>1, ExamineType
<1>3. hand[h].pc = "cycle"
  BY DEF Examine, ExamineSendingNothing, ExamineFilled, ExaminePending,
     ExamineUnanswered, ExamineConflict, CycleGivesUp, InCycle
<1>4. Spent(h) = hand[h].mine.orders
  BY <1>3 DEF Spent
<1>5. \A x \in Hand : x # h => hand'[x] = hand[x]
  BY <1>1 DEF Examine, ExamineSendingNothing, ExamineFilled, ExaminePending,
     ExamineUnanswered, ExamineConflict, CycleGivesUp, Recorded, RollBack
\* What the hand has counted, and one order more or none at the venue.
<1>6. ASSUME Spent(h) <= Spent(h)', Spent(h)' \in Int, hand'[h].mine.orders <= Cap,
             \A m \in Mode : ledger'[m].orders <= ledger[m].orders + (Spent(h)' - Spent(h))
      PROVE  Effect(h)
  BY <1>2, <1>5, <1>6 DEF Effect, HandsInv, Counted
<1>7. ASSUME NEW side, Executed(h, side)
      PROVE  \A m \in Mode : ledger'[m].orders \in {ledger[m].orders, ledger[m].orders + 1}
  <2>1. ledger'[hand[h].mode].orders = ledger[hand[h].mode].orders + 1
    BY <1>1, <1>7 DEF Executed, Ledger
  <2>2. \A m \in Mode : m # hand[h].mode => ledger'[m] = ledger[m]
    BY <1>1, <1>7 DEF Executed
  <2> QED BY <2>1, <2>2
<1>8. CASE ExamineSendingNothing(h)
  <2>1. hand'[h].pc = "cycle" /\ hand'[h].mine = hand[h].mine /\ ledger' = ledger
    BY <1>1, <1>3, <1>8 DEF ExamineSendingNothing, Recorded, Hands
  <2>2. Spent(h)' = hand[h].mine.orders
    BY <2>1 DEF Spent
  <2> QED BY <1>1, <1>4, <1>6, <2>1, <2>2
<1>9. CASE ExamineFilled(h)
  <2>1. PICK side \in {"buy", "sell"} :
          /\ MayPass(h, side)
          /\ hand' = [hand EXCEPT ![h].turn = @ + 1, ![h].staged = @ + 3,
                                  ![h].mine = Settled(@, Current(h), side)]
          /\ Executed(h, side)
    BY <1>9 DEF ExamineFilled
  <2>2. hand'[h].pc = "cycle" /\ hand'[h].mine = Settled(hand[h].mine, Current(h), side)
    BY <1>1, <1>3, <2>1 DEF Hands
  <2>3. Settled(hand[h].mine, Current(h), side).orders = hand[h].mine.orders + 1
    BY <1>1 DEF Settled, Book
  <2>4. hand'[h].mine.orders = hand[h].mine.orders + 1 /\ hand[h].mine.orders < Cap
    BY <2>1, <2>2, <2>3 DEF MayPass
  <2>5. Spent(h)' = hand[h].mine.orders + 1
    BY <2>2, <2>4 DEF Spent
  <2>6. \A m \in Mode : ledger'[m].orders \in {ledger[m].orders, ledger[m].orders + 1}
    BY <1>7, <2>1
  <2>7. \A m \in Mode : ledger'[m].orders <= ledger[m].orders + (Spent(h)' - Spent(h))
    BY <1>1, <1>4, <2>5, <2>6
  <2>8. hand'[h].mine.orders <= Cap /\ Spent(h) <= Spent(h)' /\ Spent(h)' \in Int
    BY <1>1, <1>4, <2>4, <2>5, CycleAssumption
  <2> QED BY <1>6, <2>7, <2>8
<1>10. CASE ExaminePending(h)
  <2>1. /\ hand'[h].pc = "cycle" /\ hand'[h].mine.orders = hand[h].mine.orders + 1
        /\ hand[h].mine.orders < Cap
    BY <1>1, <1>3, <1>10 DEF ExaminePending, MayPass, Hands, Book
  <2>2. \A m \in Mode : ledger'[m].orders \in {ledger[m].orders, ledger[m].orders + 1}
    BY <1>1, <1>10 DEF ExaminePending, Ledger
  <2>3. Spent(h)' = hand[h].mine.orders + 1
    BY <2>1 DEF Spent
  <2> QED BY <1>1, <1>4, <1>6, <2>1, <2>2, <2>3, CycleAssumption
<1>11. CASE ExamineConflict(h, pc)
  <2>1. PICK side \in {"buy", "sell"} : MayPass(h, side) /\ Executed(h, side)
    BY <1>11 DEF ExamineConflict
  <2>2. hand[h].mine.orders < Cap
    BY <2>1 DEF MayPass
  <2>3. hand'[h].pc = pc /\ hand'[h].mine = hand[h].mine
    BY <1>1, <1>11 DEF ExamineConflict, RollBack, Hands
  <2>4. Spent(h)' = Cap
    BY <2>3 DEF Spent
  <2>5. \A m \in Mode : ledger'[m].orders \in {ledger[m].orders, ledger[m].orders + 1}
    BY <1>7, <2>1
  <2>6. Spent(h)' \in Int /\ Spent(h) + 1 <= Spent(h)'
    BY <1>1, <1>4, <2>2, <2>4, CycleAssumption
  <2>7. \A m \in Mode : ledger'[m].orders <= ledger[m].orders + (Spent(h)' - Spent(h))
    BY <1>1, <1>4, <2>5, <2>6
  <2>8. hand'[h].mine.orders <= Cap /\ Spent(h) <= Spent(h)'
    BY <1>1, <1>4, <2>3, <2>6
  <2> QED BY <1>6, <2>6, <2>7, <2>8
<1>12. CASE CycleGivesUp(h, pc)
  <2>1. hand'[h].pc = pc /\ hand'[h].mine = hand[h].mine /\ ledger' = ledger
    BY <1>1, <1>12 DEF CycleGivesUp, RollBack, Hands
  <2>2. Spent(h)' = Cap
    BY <2>1 DEF Spent
  <2> QED BY <1>1, <1>4, <1>6, <2>1, <2>2, CycleAssumption
<1>13. ~ExamineUnanswered(h)
  BY DEF ExamineUnanswered
<1> QED BY <1>8, <1>9, <1>10, <1>11, <1>12, <1>13 DEF Examine

\* The counter written is the row's or the session's.
LEMMA CommitBookEffect ==
  ASSUME IInv, HandsInv, NEW h \in Hand, CycleDone(h), CommitBook(h), UNCHANGED ledger,
         \A x \in Hand : x # h => hand'[x] = hand[x],
         \A d \in Day : d # h => days'[d].completed = days[d].completed,
         h \in Day /\ hand'[h].pc = "top" => days'[h].completed # 0,
         hand'[h].pc \in {"answered", "top", "closing"}, hand'[h].mine = hand[h].mine
  PROVE  Effect(h)
<1>1. /\ hand[h] \in Hands /\ hand[h].mode \in Mode
      /\ hand[h].mine.orders \in Nat /\ hand[h].mine.orders <= Cap
      /\ books \in [Mode -> Book]
      /\ \A m \in Mode : ledger[m].orders \in Nat
  BY DEF IInv, TypeOK, Hands, Book, Ledger, HandsInv, Counted
<1>2. \A m \in Mode : books'[m].orders <= Cap
  <2>1. \A row, before, after : WrittenBook(row, before, after).orders \in {row.orders, after.orders}
    BY DEF WrittenBook
  <2>2. books' = [books EXCEPT ![hand[h].mode] =
                    WrittenBook(books[hand[h].mode], hand[h].base, hand[h].mine)]
    BY DEF CommitBook
  <2>3. WrittenBook(books[hand[h].mode], hand[h].base, hand[h].mine).orders <= Cap
    BY <1>1, <2>1 DEF HandsInv, Counted
  <2> QED BY <1>1, <2>2, <2>3 DEF HandsInv, Counted
<1>3. Spent(h) = hand[h].mine.orders /\ Spent(h)' = hand[h].mine.orders
  BY DEF CycleDone, Spent
<1> QED BY <1>1, <1>2, <1>3 DEF Effect

LEMMA TourEffect ==
  ASSUME IInv, HandsInv, "unanswered" \notin Faults, NEW t \in Tour, TourStep(t)
  PROVE  Effect(t)
<1>1. t \in Hand /\ t \notin Day /\ hand \in [Hand -> Hands] /\ hand[t] \in Hands
  BY StoreAssumption DEF Hand, IInv, TypeOK
<1>2. CASE ReadPolicy(t) \/ CheckDay(t)
  BY <1>1, <1>2, BeginningEffect
<1>3. CASE TourBegins(t)
  <2>1. hand[t].pc = "checked" /\ BeginCycle(t, FALSE) /\ UNCHANGED <<store, request>>
    BY <1>3 DEF TourBegins
  <2> QED BY <1>1, <2>1, BeginCycleEffect
<1>4. CASE TourExamines(t)
  BY <1>1, <1>4, ExamineEffect DEF TourExamines
<1>5. CASE TourCommits(t)
  <2>1. /\ hand'[t].pc = "answered" /\ hand'[t].mine = hand[t].mine
        /\ \A x \in Hand : x # t => hand'[x] = hand[x]
        /\ CycleDone(t) /\ CommitBook(t) /\ UNCHANGED <<ledger, days>>
    BY <1>1, <1>5 DEF TourCommits, Hands
  <2> QED BY <1>1, <2>1, CommitBookEffect
<1> QED BY <1>2, <1>3, <1>4, <1>5 DEF TourStep

\* A reset, whoever asked for it: no counter left on either side.
LEMMA ResetCounts ==
  ASSUME IInv, HandsInv, NEW before,
         books' = [books EXCEPT !["paper"] =
                     [WrittenBook(@, before, FreshBook(Stake))
                        EXCEPT !.held = FreshBook(Stake).held]],
         ledger' = [ledger EXCEPT !["paper"] = EmptyLedger(Stake)]
  PROVE  \A m \in Mode : books'[m].orders <= Cap /\ ledger'[m].orders <= ledger[m].orders
<1>1. /\ "paper" \in Mode /\ books \in [Mode -> Book] /\ ledger \in [Mode -> Ledger]
      /\ \A m \in Mode : ledger[m].orders \in Nat /\ books[m].orders <= Cap
  BY DEF IInv, TypeOK, Mode, Ledger, HandsInv, Counted
<1> DEFINE written == WrittenBook(books["paper"], before, FreshBook(Stake))
<1>2. written.orders <= Cap
  BY <1>1, CycleAssumption DEF WrittenBook, FreshBook
<1>3. [written EXCEPT !.held = FreshBook(Stake).held].orders = written.orders
  BY DEF WrittenBook
<1>4. books' = [books EXCEPT !["paper"] = [written EXCEPT !.held = FreshBook(Stake).held]]
  OBVIOUS
<1> HIDE DEF written
<1>5. \A m \in Mode : books'[m].orders <= Cap
  BY <1>1, <1>2, <1>3, <1>4
<1>6. \A m \in Mode : ledger'[m].orders <= ledger[m].orders
  BY <1>1 DEF EmptyLedger
<1> QED BY <1>5, <1>6

LEMMA DayEffect ==
  ASSUME IInv, HandsInv, "unanswered" \notin Faults, NEW d \in Day,
         DayStarting(d) \/ DayPlaying(d) \/ StopDay(d)
  PROVE  Effect(d)
<1>1. /\ d \in Hand /\ hand \in [Hand -> Hands] /\ hand[d] \in Hands
      /\ days \in [Day -> DayRow] /\ days[d] \in DayRow /\ TypeOK
      /\ hand[d].mine.orders \in 0..Cap /\ Cap \in Nat
      /\ \A m \in Mode : books[m].orders <= Cap /\ ledger[m].orders \in Nat
  <2>1. /\ d \in Hand /\ hand \in [Hand -> Hands] /\ hand[d] \in Hands
        /\ days \in [Day -> DayRow] /\ days[d] \in DayRow /\ TypeOK
    BY DEF Hand, IInv, TypeOK
  <2>2. hand[d].mine.orders \in Nat /\ hand[d].mine.orders <= Cap /\ Cap \in Nat
    BY <2>1, CycleAssumption DEF Hands, Book, HandsInv, Counted
  <2>3. \A m \in Mode : books[m].orders <= Cap /\ ledger[m].orders \in Nat
    BY <2>1 DEF TypeOK, Ledger, HandsInv, Counted
  <2> QED BY <2>1, <2>2, <2>3
\* A step that touches neither a book nor the venue.
<1>2. ASSUME \A x \in Hand : x # d => hand'[x] = hand[x],
             \A x \in Day : x # d => days'[x].completed = days[x].completed,
             UNCHANGED <<books, ledger>>, hand'[d].mine = hand[d].mine,
             Spent(d) <= Spent(d)', Spent(d) \in Int, Spent(d)' \in Int
      PROVE  Effect(d)
  <2>1. \A m \in Mode : ledger'[m].orders <= ledger[m].orders + (Spent(d)' - Spent(d))
    BY <1>1, <1>2
  <2> QED BY <1>1, <1>2, <2>1 DEF Effect
<1>3. CASE ReadPolicy(d) \/ CheckDay(d)
  BY <1>1, <1>3, BeginningEffect
<1>4. CASE DayStarts(d)
  <2>1. /\ hand[d].pc = "checked" /\ hand'[d].pc = "queued" /\ hand'[d].mine = hand[d].mine
        /\ \A x \in Hand : x # d => hand'[x] = hand[x]
        /\ \A x \in Day : x # d => days'[x].completed = days[x].completed
    BY <1>1, <1>4 DEF DayStarts, Hands
  <2>2. \A m \in Mode : books'[m].orders <= Cap /\ ledger'[m].orders <= ledger[m].orders
    BY <1>4, ResetCounts DEF DayStarts
  <2>3. Spent(d) = 0 /\ Spent(d)' = 0
    BY <2>1 DEF Spent
  <2>4. \A m \in Mode : ledger'[m].orders <= ledger[m].orders + (Spent(d)' - Spent(d))
    BY <1>1, <2>2, <2>3
  <2> QED BY <1>1, <2>1, <2>2, <2>3, <2>4 DEF Effect
<1>5. CASE DayNotStarted(d) \/ DayDies(d)
  <2>1. /\ hand[d].pc \in {"checked", "queued", "closing"} /\ hand'[d].pc \in {"failed", "dead"}
        /\ hand'[d].mine = hand[d].mine
        /\ \A x \in Hand : x # d => hand'[x] = hand[x]
        /\ UNCHANGED store
    BY <1>1, <1>5 DEF DayNotStarted, DayDies, Hands
  <2>2. Spent(d) \in 0..Cap /\ Spent(d)' = Cap
    BY <1>1, <2>1 DEF Spent
  <2> QED BY <1>1, <1>2, <2>1, <2>2 DEF store
<1>6. CASE DayBegins(d)
  <2>1. /\ hand[d].pc = "queued" /\ hand'[d].pc = "top" /\ hand'[d].mine = hand[d].mine
        /\ \A x \in Hand : x # d => hand'[x] = hand[x]
        /\ UNCHANGED store
    BY <1>1, <1>6 DEF DayBegins, Hands
  <2>2. Spent(d) = 0 /\ Spent(d)' \in 0..Cap
    BY <1>1, <2>1 DEF Spent
  <2> QED BY <1>1, <1>2, <2>1, <2>2 DEF store
<1>7. CASE DayWithoutProvider(d) \/ DayHearsStop(d) \/ DayCloses(d)
  <2>1. /\ hand[d].pc \in {"queued", "top", "closing"}
        /\ hand'[d].pc \in {"answered", "closing"} /\ hand'[d].mine = hand[d].mine
        /\ \A x \in Hand : x # d => hand'[x] = hand[x]
        /\ \A x \in Day : x # d => days'[x].completed = days[x].completed
        /\ UNCHANGED <<books, ledger>>
    BY <1>1, <1>7 DEF DayWithoutProvider, DayHearsStop, DayCloses, Hands, store
  <2>2. Spent(d)' = hand[d].mine.orders /\ Spent(d) \in {0, hand[d].mine.orders}
    BY <1>1, <2>1 DEF Spent
  <2> QED BY <1>1, <1>2, <2>1, <2>2
<1>8. CASE StepBegins(d)
  <2>1. /\ hand[d].pc = "top" /\ BeginCycle(d, days[d].completed > 0)
        /\ UNCHANGED <<store, request>>
    BY <1>8 DEF StepBegins
  <2>2. (days[d].completed > 0) \in BOOLEAN
    OBVIOUS
  <2> QED BY <1>1, <2>1, <2>2, BeginCycleEffect
<1>9. CASE StepExamines(d)
  BY <1>1, <1>9, ExamineEffect DEF StepExamines
<1>10. CASE StepCommits(d)
  <2>1. /\ hand'[d].pc \in {"top", "closing"} /\ hand'[d].mine = hand[d].mine
        /\ \A x \in Hand : x # d => hand'[x] = hand[x]
    BY <1>1, <1>10 DEF StepCommits, Hands
  <2>2. /\ \A x \in Day : x # d => days'[x].completed = days[x].completed
        /\ days'[d].completed = days[d].completed + 1
    BY <1>1, <1>10 DEF StepCommits, DayRow
  <2>3. days'[d].completed # 0
    BY <1>1, <2>2 DEF DayRow
  <2>4. CycleDone(d) /\ CommitBook(d) /\ UNCHANGED ledger
    BY <1>10 DEF StepCommits
  <2> QED BY <1>1, <2>1, <2>2, <2>3, <2>4, CommitBookEffect
<1>11. CASE StopDay(d)
  <2>1. /\ UNCHANGED <<books, ledger, hand>>
        /\ \A x \in Day : days'[x].completed = days[x].completed
    BY <1>1, <1>11 DEF StopDay, DayRow
  <2>2. Spent(d)' = Spent(d)
    BY <2>1 DEF Spent
  <2>3. Spent(d) \in 0..Cap
    BY <1>1, SpentType DEF HandsInv
  <2> QED BY <1>1, <1>2, <2>1, <2>2, <2>3
<1> QED BY <1>3, <1>4, <1>5, <1>6, <1>7, <1>8, <1>9, <1>10, <1>11 DEF DayStarting, DayPlaying

\* Where no session moves, it is enough that the venue accepts nothing new.
LEMMA UnmovedCounts ==
  ASSUME IInv, HandsInv, UNCHANGED <<hand, days>>,
         \A m \in Mode : books'[m].orders <= Cap /\ ledger'[m].orders <= ledger[m].orders,
         ledger' \in [Mode -> Ledger], IsFiniteSet(Hand)
  PROVE  HandsInv'
<1>1. \A h \in Hand : Spent(h)' = Spent(h)
  BY DEF Spent
<1>2. SpentByAll' = SpentByAll
  BY <1>1 DEF SpentByAll
<1>3. SpentByAll \in Int
  <2>1. \A h \in Hand : Spent(h) \in 0..Cap
    BY SpentType DEF IInv, HandsInv
  <2>2. [h \in Hand |-> Spent(h)] \in [Hand -> Int]
    BY <2>1, CycleAssumption
  <2> QED BY <2>2, SumType DEF SpentByAll
<1>4. ASSUME NEW m \in Mode PROVE ledger'[m].orders <= SpentByAll
  <2>1. ledger[m].orders \in Nat /\ ledger'[m].orders \in Nat
    BY DEF IInv, TypeOK, Ledger
  <2>2. ledger[m].orders <= SpentByAll /\ ledger'[m].orders <= ledger[m].orders
    BY DEF HandsInv
  <2> QED BY <1>3, <2>1, <2>2
<1> QED BY <1>2, <1>4 DEF HandsInv, Counted

LEMMA RequestCounts ==
  ASSUME IInv, IInv', HandsInv, IsFiniteSet(Hand), NEW r \in Request, OversightStep(r),
         UNCHANGED hand
  PROVE  HandsInv'
<1>1. ledger' \in [Mode -> Ledger] /\ \A m \in Mode : ledger[m].orders \in Nat /\ books[m].orders <= Cap
  BY DEF IInv, TypeOK, Ledger, HandsInv, Counted
<1>2. CASE CommitReset(r)
  <2>1. UNCHANGED days
    BY <1>2 DEF CommitReset
  <2>2. \A m \in Mode : books'[m].orders <= Cap /\ ledger'[m].orders <= ledger[m].orders
    BY <1>2, ResetCounts DEF CommitReset
  <2> QED BY <1>1, <2>1, <2>2, UnmovedCounts
<1>3. CASE ~CommitReset(r)
  <2>1. CASE Load(r)
    <3>1. UNCHANGED <<books, ledger, days>>
      BY <2>1, Zenon DEF Load, store
    <3> QED BY <1>1, <3>1, UnmovedCounts
  <2>2. CASE Chain(r) \/ Commit(r) \/ Collide(r) \/ GiveUp(r)
    <3>1. UNCHANGED <<books, ledger, days>>
      BY <2>2 DEF Chain, Commit, Collide, GiveUp, store
    <3> QED BY <1>1, <3>1, UnmovedCounts
  <2> QED BY <1>3, <2>1, <2>2 DEF OversightStep
<1> QED BY <1>2, <1>3

\* A restart takes every session away; what each had sent is within its cap.
LEMMA RestartCounts ==
  ASSUME IInv, IInv', HandsInv, IsFiniteSet(Hand), Restart
  PROVE  HandsInv'
<1>1. /\ hand \in [Hand -> Hands] /\ TypeOK /\ Cap \in Nat
      /\ \A m \in Mode : ledger[m].orders \in Nat
      /\ UNCHANGED <<books, ledger, days>>
  <2>1. hand \in [Hand -> Hands] /\ TypeOK /\ Cap \in Nat
        /\ \A m \in Mode : ledger[m].orders \in Nat
    BY CycleAssumption DEF IInv, TypeOK, Ledger
  <2>2. UNCHANGED <<books, ledger, days>>
    BY Zenon DEF Restart
  <2> QED BY <2>1, <2>2
<1>2. \A h \in Hand :
        \/ hand'[h] = hand[h]
        \/ hand'[h].pc = "dead" /\ hand'[h].mine = hand[h].mine
  <2> TAKE h \in Hand
  <2>1. hand'[h] = IF AtWork(h) THEN [hand[h] EXCEPT !.pc = "dead", !.staged = 0]
                   ELSE hand[h]
    BY Zenon DEF Restart
  <2>2. hand[h] \in Hands
    BY <1>1
  <2> QED BY <2>1, <2>2 DEF Hands
<1>3. Counted'
  BY <1>1, <1>2 DEF HandsInv, Counted
<1>4. \A h \in Hand : Spent(h) \in 0..Cap
  BY <1>1, SpentType DEF HandsInv
<1>5. \A h \in Hand : Spent(h)' = Spent(h) \/ Spent(h)' = Cap
  BY <1>1, <1>2 DEF Spent
<1> DEFINE before == [h \in Hand |-> Spent(h)]
           after  == [h \in Hand |-> Spent(h)']
<1>6. /\ before \in [Hand -> Int] /\ after \in [Hand -> Int]
      /\ \A h \in Hand : before[h] <= after[h]
  BY <1>1, <1>4, <1>5
<1>7. SpentByAll = SumFunction(before) /\ SpentByAll' = SumFunction(after)
  BY DEF SpentByAll
<1> HIDE DEF before, after
<1>8. SumFunction(before) <= SumFunction(after)
      /\ SumFunction(before) \in Int /\ SumFunction(after) \in Int
  <2>1. SumFunction(before) <= SumFunction(after)
    BY <1>6, SumMonotone
  <2>2. SumFunction(before) \in Int /\ SumFunction(after) \in Int
    BY <1>6, SumType
  <2> QED BY <2>1, <2>2
<1>9. \A m \in Mode : ledger'[m].orders <= SpentByAll'
  BY <1>1, <1>7, <1>8 DEF HandsInv
<1> QED BY <1>3, <1>9 DEF HandsInv

LEMMA InitCounts ==
  ASSUME IsFiniteSet(Hand), Init
  PROVE  HandsInv
<1>1. \A m \in Mode : books[m].orders = 0 /\ ledger[m].orders = 0
  BY DEF Init, Mode, FreshBook, EmptyLedger
<1>2. \A h \in Hand : hand[h].mine.orders = 0 /\ hand[h].pc = "idle"
  BY DEF Init, AtRest, FreshBook
<1>3. Counted
  BY <1>1, <1>2, CycleAssumption DEF Counted
<1>4. \A h \in Hand : Spent(h) = 0
  BY <1>2 DEF Spent
<1>5. SpentByAll = 0
  <2> DEFINE zeros == [h \in Hand |-> Spent(h)]
  <2>1. zeros \in [Hand -> Int] /\ \A h \in Hand : zeros[h] = 0
    BY <1>4
  <2> HIDE DEF zeros
  <2>2. SumFunction(zeros) = 0
    BY <2>1, SumOfZeros
  <2> QED BY <2>2 DEF SpentByAll, zeros
<1> QED BY <1>1, <1>3, <1>5 DEF HandsInv

LEMMA NextCounts ==
  ASSUME IsFiniteSet(Hand), "unanswered" \notin Faults, IInv, IInv', HandsInv, [Next]_vars
  PROVE  HandsInv'
<1>t. TypeOK /\ TypeOK'
  BY DEF IInv
<1>1. ASSUME NEW r \in Request, OversightStep(r), UNCHANGED hand PROVE HandsInv'
  BY <1>1, RequestCounts
<1>2. ASSUME NEW t \in Tour, TourStep(t) PROVE HandsInv'
  <2>1. t \in Hand
    BY DEF Hand
  <2> QED BY <1>t, <1>2, <2>1, TourEffect, EffectAdds
<1>3. ASSUME NEW d \in Day, DayStarting(d) \/ DayPlaying(d) \/ StopDay(d) PROVE HandsInv'
  <2>1. d \in Hand
    BY DEF Hand
  <2> QED BY <1>t, <1>3, <2>1, DayEffect, EffectAdds
<1>4. CASE Restart
  BY <1>4, RestartCounts
<1>5. CASE UNCHANGED vars
  <2>1. \A m \in Mode : books'[m].orders <= Cap /\ ledger'[m].orders <= ledger[m].orders
    BY <1>5, <1>t DEF vars, store, HandsInv, Counted, TypeOK, Ledger
  <2> QED BY <1>5, <1>t, <2>1, UnmovedCounts DEF vars, store, TypeOK
<1>6. CASE Done
  BY <1>6, <1>5 DEF Done
<1> QED BY <1>1, <1>2, <1>3, <1>4, <1>5, <1>6 DEF Next

\* However many tours and days overlap, with resets, lost races, settlements
\* that fail and restarts, the venue accepts at most the mandate's cap for each
\* of them (service.run_cycle, _settle), as long as its answers arrive: a
\* counter written over by another hand never lets one hand send more.
THEOREM CapPerHandAlways ==
  ASSUME IsFiniteSet(Hand), "unanswered" \notin Faults
  PROVE  Spec => []CapPerHand
<1>1. Init => IInv /\ HandsInv
  BY InitIInv, InitCounts
<1>2. IInv /\ HandsInv /\ [Next]_vars => (IInv /\ HandsInv)'
  BY NextIInv, NextCounts
<1>3. IInv /\ HandsInv => CapPerHand
  <2> SUFFICES ASSUME IInv, HandsInv PROVE CapPerHand
    OBVIOUS
  <2> DEFINE spent == [h \in Hand |-> Spent(h)]
  <2>1. \A h \in Hand : Spent(h) \in 0..Cap
    BY SpentType DEF IInv, HandsInv
  <2>2. spent \in [Hand -> Int] /\ Cap \in Int /\ \A h \in Hand : spent[h] <= Cap
    BY <2>1, CycleAssumption
  <2> HIDE DEF spent
  <2>3. SumFunction(spent) <= Cap * Cardinality(Hand)
    BY <2>2, SumAtMost
  <2>4. SumFunction(spent) \in Int
    BY <2>2, SumType
  <2>5. SpentByAll = SumFunction(spent)
    BY DEF SpentByAll, spent
  <2>6. Cap * Cardinality(Hand) \in Int
    BY <2>2, FS_CardinalityType
  <2>7. ASSUME NEW m \in Mode PROVE ledger[m].orders <= Cap * Cardinality(Hand)
    <3>1. ledger[m].orders \in Nat /\ ledger[m].orders <= SumFunction(spent)
      BY <2>5 DEF IInv, TypeOK, Ledger, HandsInv
    <3> DEFINE most == Cap * Cardinality(Hand)
    <3>2. most \in Int /\ SumFunction(spent) <= most
      BY <2>3, <2>6
    <3> HIDE DEF most
    <3>3. ledger[m].orders <= most
      BY <2>4, <3>1, <3>2
    <3> QED BY <3>3 DEF most
  <2> QED BY <2>7 DEF CapPerHand
<1> QED BY <1>1, <1>2, <1>3, PTL DEF Spec

-----------------------------------------------------------------------------
(* The life of a simulated day.                                            *)

NewDay == [status |-> "none", stop |-> FALSE, completed |-> 0]

\* Where a day's runner is, against the row it keeps.
Abreast(d) ==
  /\ hand[d].pc \in {"idle", "read", "checked", "refused", "failed"} => days[d] = NewDay
  /\ hand[d].pc \in {"queued", "top", "cycle", "closing"} => days[d].status = "running"
  /\ hand[d].pc \in {"queued", "top", "cycle"} => days[d].completed < Steps
  /\ hand[d].pc = "closing" =>
       /\ hand[d].verdict \in {"finished", "stopped", "failed"}
       /\ hand[d].verdict = "finished" => days[d].completed = Steps
       /\ hand[d].verdict = "stopped" => days[d].stop

LifeInv == \A d \in Day : Abreast(d)

\* The row as DayLife sees it.
LifeRow ==
  << [d \in Day |-> days[d].status], [d \in Day |-> days[d].completed],
     [d \in Day |-> days[d].stop], [d \in Day |-> days[d].stop => hand[d].pc = "cycle"] >>

\* A step that leaves the rows and begins no cycle of a day asked to stop
\* loses, at most, steps that were begun.
LEMMA RowsStay ==
  ASSUME TypeOK, UNCHANGED days,
         \A d \in Day : days[d].stop /\ hand'[d].pc = "cycle" => hand[d].pc = "cycle"
  PROVE  [Life!Next]_LifeRow
<1> DEFINE may == [d \in Day |-> days[d].stop => hand[d].pc = "cycle"]
<1>1. may' = [d \in Day |-> days[d].stop => hand'[d].pc = "cycle"]
  OBVIOUS
<1>2. \A d \in Day : may'[d] # may[d] => days[d].stop /\ may[d]
  <2> SUFFICES ASSUME NEW d \in Day, may'[d] # may[d] PROVE days[d].stop /\ may[d]
    OBVIOUS
  <2>1. days[d].stop \in BOOLEAN
    BY DEF TypeOK, DayRow
  <2>2. /\ may[d] = (days[d].stop => hand[d].pc = "cycle")
        /\ may'[d] = (days[d].stop => hand'[d].pc = "cycle")
    BY <1>1
  <2> HIDE DEF may
  <2> QED BY <2>1, <2>2
<1>3. may' \in [Day -> BOOLEAN]
  BY <1>1
<1>4. CASE may' = may
  BY <1>4 DEF LifeRow
<1>5. CASE may' # may
  <2>1. \A d \in Day : may'[d] # may[d] => [c \in Day |-> days[c].stop][d] /\ may[d]
    <3> HIDE DEF may
    <3> QED BY <1>2
  <2>2. Life!Lose
    BY <1>3, <1>5, <2>1 DEF Life!Lose
  <2> QED BY <2>2 DEF Life!Next
<1> QED BY <1>4, <1>5

\* Only the runner of d moves, and it stays abreast of its row.
LEMMA RunnerMoves ==
  ASSUME LifeInv, NEW d \in Day, Abreast(d)',
         \A c \in Day \ {d} : hand'[c] = hand[c] /\ days'[c] = days[c]
  PROVE  LifeInv'
BY DEF LifeInv, Abreast

\* What a cycle does to its hand: it goes on, or is given up.
LEMMA ExamineGoesOn ==
  ASSUME TypeOK, NEW h \in Hand, NEW pc, Examine(h, pc)
  PROVE  /\ UNCHANGED days /\ hand[h].pc = "cycle" /\ hand'[h].pc \in {"cycle", pc}
         /\ \A g \in Hand \ {h} : hand'[g] = hand[g]
<1>1. hand[h] \in Hands
  BY DEF TypeOK
<1>2. CASE ExamineSendingNothing(h)
  BY <1>1, <1>2 DEF ExamineSendingNothing, Recorded, InCycle, Hands, TypeOK
<1>3. CASE ExamineFilled(h)
  BY <1>1, <1>3 DEF ExamineFilled, InCycle, Hands, TypeOK
<1>4. CASE ExaminePending(h)
  BY <1>1, <1>4 DEF ExaminePending, InCycle, Hands, TypeOK
<1>5. CASE ExamineUnanswered(h)
  BY <1>1, <1>5 DEF ExamineUnanswered, Recorded, InCycle, Hands, TypeOK
<1>6. CASE ExamineConflict(h, pc)
  BY <1>1, <1>6 DEF ExamineConflict, RollBack, InCycle, Hands, TypeOK
<1>7. CASE CycleGivesUp(h, pc)
  BY <1>1, <1>7 DEF CycleGivesUp, RollBack, InCycle, Hands, TypeOK
<1> QED BY <1>2, <1>3, <1>4, <1>5, <1>6, <1>7 DEF Examine

\* A tour keeps away from the days.
LEMMA TourLife ==
  ASSUME TypeOK, LifeInv, NEW t \in Tour, TourStep(t)
  PROVE  LifeInv' /\ [Life!Next]_LifeRow
<1>1. t \in Hand /\ t \notin Day /\ \A d \in Day : d \in Hand /\ d # t
  BY StoreAssumption DEF Hand
<1>2. UNCHANGED days /\ \A g \in Hand \ {t} : hand'[g] = hand[g]
  <2>1. CASE ReadPolicy(t) \/ CheckDay(t)
    BY <1>1, <2>1 DEF ReadPolicy, CheckDay, store, TypeOK
  <2>2. CASE TourBegins(t)
    BY <1>1, <2>2 DEF TourBegins, BeginCycle, store, TypeOK
  <2>3. CASE TourExamines(t)
    BY <1>1, <2>3, ExamineGoesOn DEF TourExamines
  <2>4. CASE TourCommits(t)
    BY <1>1, <2>4 DEF TourCommits, TypeOK
  <2> QED BY <2>1, <2>2, <2>3, <2>4 DEF TourStep
<1>3. \A d \in Day : hand'[d] = hand[d] /\ days'[d] = days[d]
  BY <1>1, <1>2
<1>4. LifeInv'
  BY <1>3 DEF LifeInv, Abreast
<1> QED BY <1>2, <1>3, <1>4, RowsStay

\* The day's own request and its runner.
LEMMA DayLives ==
  ASSUME TypeOK, LifeInv, NEW d \in Day, DayStarting(d) \/ DayPlaying(d)
  PROVE  LifeInv' /\ [Life!Next]_LifeRow
<1>1. d \in Hand /\ hand[d] \in Hands /\ days[d] \in DayRow /\ \A c \in Day : c \in Hand
  BY DEF TypeOK, Hand
<1>2. Abreast(d) /\ Steps \in Nat \ {0}
  BY DeskAssumption DEF LifeInv
<1>3. CASE DayStarts(d)
  <2>1. /\ days' = [days EXCEPT ![d].status = "running"]
        /\ hand' = [hand EXCEPT ![d].pc = "queued"] /\ hand[d].pc = "checked"
    BY <1>3 DEF DayStarts
  <2>2. days[d] = NewDay
    BY <1>2, <2>1 DEF Abreast
  <2>3. /\ \A c \in Day \ {d} : hand'[c] = hand[c] /\ days'[c] = days[c]
        /\ hand'[d].pc = "queued" /\ days'[d].status = "running"
        /\ days'[d].completed = 0 /\ days'[d].stop = FALSE
    BY <1>1, <2>1, <2>2 DEF TypeOK, Hands, NewDay, DayRow
  <2>4. Abreast(d)'
    BY <1>2, <2>3 DEF Abreast
  <2>5. Life!Start(d)
    <3>1. [c \in Day |-> days'[c].status] = [[c \in Day |-> days[c].status] EXCEPT ![d] = "running"]
      BY <2>3
    <3>2. [c \in Day |-> days'[c].completed] = [c \in Day |-> days[c].completed]
      BY <2>2, <2>3 DEF NewDay
    <3>3. [c \in Day |-> days'[c].stop] = [c \in Day |-> days[c].stop]
      <4>1. \A c \in Day : days'[c].stop = days[c].stop
        <5>1. days[d].stop = FALSE /\ days'[d].stop = FALSE
          BY <2>2, <2>3 DEF NewDay
        <5> QED BY <2>3, <5>1, Zenon
      <4> QED BY <4>1
    <3>4. [c \in Day |-> days'[c].stop => hand'[c].pc = "cycle"]
            = [c \in Day |-> days[c].stop => hand[c].pc = "cycle"]
      BY <2>2, <2>3 DEF NewDay
    <3> QED BY <2>2, <3>1, <3>2, <3>3, <3>4 DEF Life!Start, NewDay
  <2> QED BY <2>3, <2>4, <2>5, RunnerMoves DEF Life!Next
<1>4. CASE StepCommits(d)
  <2>1. hand[d].pc = "cycle" /\ days' = [days EXCEPT ![d].completed = days[d].completed + 1]
    BY <1>4 DEF StepCommits, CycleDone
  <2>2. days[d].status = "running" /\ days[d].completed < Steps /\ days[d].completed \in Nat
    BY <1>1, <1>2, <2>1 DEF Abreast, DayRow
  <2>3. PICK failed \in BOOLEAN :
          LET streak  == IF failed THEN hand[d].streak + 1 ELSE 0
              verdict == Verdict(days[d].completed + 1, streak)
          IN hand' = [hand EXCEPT
               ![d].pc = IF verdict = "none" THEN "top" ELSE "closing",
               ![d].staged = 0, ![d].base = hand[d].mine,
               ![d].streak = streak, ![d].verdict = verdict]
    BY <1>4 DEF StepCommits
  <2> DEFINE streak    == IF failed THEN hand[d].streak + 1 ELSE 0
             completed == days[d].completed + 1
             verdict   == Verdict(completed, streak)
             now       == IF verdict = "none" THEN "top" ELSE "closing"
  <2>4. /\ hand'[d].pc = now /\ hand'[d].verdict = verdict
        /\ \A c \in Day \ {d} : hand'[c] = hand[c]
    <3>1. hand' = [hand EXCEPT ![d].pc = now, ![d].staged = 0, ![d].base = hand[d].mine,
                               ![d].streak = streak, ![d].verdict = verdict]
      BY <2>3
    <3> HIDE DEF streak, verdict, now
    <3> QED BY <1>1, <3>1 DEF TypeOK, Hands
  <2>5. /\ \A c \in Day \ {d} : days'[c] = days[c]
        /\ days'[d].status = days[d].status /\ days'[d].stop = days[d].stop
        /\ days'[d].completed = completed
    BY <1>1, <2>1 DEF TypeOK, DayRow
  <2>6. Abreast(d)'
    <3>1. /\ verdict \in {"none", "finished", "failed"}
          /\ verdict = "finished" => completed = Steps
          /\ verdict = "none" => completed < Steps
      BY <1>2, <2>2 DEF Verdict
    <3> HIDE DEF verdict, completed
    <3> QED BY <2>2, <2>4, <2>5, <3>1 DEF Abreast
  <2>7. Life!Play(d)
    <3>1. [c \in Day |-> days'[c].status] = [c \in Day |-> days[c].status]
      BY <2>5
    <3>2. [c \in Day |-> days'[c].completed]
            = [[c \in Day |-> days[c].completed] EXCEPT ![d] = @ + 1]
      BY <2>5
    <3>3. [c \in Day |-> days'[c].stop] = [c \in Day |-> days[c].stop]
      BY <2>5
    <3>4. [c \in Day |-> days'[c].stop => hand'[c].pc = "cycle"]
            = [[c \in Day |-> days[c].stop => hand[c].pc = "cycle"]
                 EXCEPT ![d] = ~[c \in Day |-> days[c].stop][d]]
      <4>1. hand'[d].pc # "cycle" /\ days[d].stop \in BOOLEAN
        BY <1>1, <2>4 DEF DayRow
      <4>2. (days'[d].stop => hand'[d].pc = "cycle") = ~days[d].stop
        BY <2>5, <4>1
      <4>3. \A c \in Day \ {d} : (days'[c].stop => hand'[c].pc = "cycle")
                                    = (days[c].stop => hand[c].pc = "cycle")
        BY <2>4, <2>5
      <4> QED BY <4>2, <4>3
    <3> QED BY <2>1, <2>2, <3>1, <3>2, <3>3, <3>4 DEF Life!Play
  <2> QED BY <2>4, <2>5, <2>6, <2>7, RunnerMoves DEF Life!Next
<1>5. ASSUME NEW verdict \in {"finished", "stopped", "failed"},
             days' = [days EXCEPT ![d].status = verdict],
             hand' = [hand EXCEPT ![d].pc = "answered"],
             days[d].status = "running", hand[d].pc \in {"queued", "closing"},
             verdict = "finished" => days[d].completed = Steps,
             verdict = "stopped" => days[d].stop
      PROVE  LifeInv' /\ [Life!Next]_LifeRow
  <2>1. /\ \A c \in Day \ {d} : hand'[c] = hand[c] /\ days'[c] = days[c]
        /\ hand'[d].pc = "answered"
        /\ days'[d].status = verdict /\ days'[d].stop = days[d].stop
        /\ days'[d].completed = days[d].completed
    BY <1>1, <1>5 DEF TypeOK, Hands, DayRow
  <2>2. Abreast(d)'
    BY <2>1 DEF Abreast
  <2>3. Life!Close(d, verdict)
    <3>1. [c \in Day |-> days'[c].status] = [[c \in Day |-> days[c].status] EXCEPT ![d] = verdict]
      BY <2>1
    <3>2. [c \in Day |-> days'[c].completed] = [c \in Day |-> days[c].completed]
      BY <2>1
    <3>3. [c \in Day |-> days'[c].stop] = [c \in Day |-> days[c].stop]
      BY <2>1
    <3>4. [c \in Day |-> days'[c].stop => hand'[c].pc = "cycle"]
            = [c \in Day |-> days[c].stop => hand[c].pc = "cycle"]
      <4>1. \A c \in Day : (days'[c].stop => hand'[c].pc = "cycle")
                              = (days[c].stop => hand[c].pc = "cycle")
        BY <1>5, <2>1
      <4> QED BY <4>1
    <3>5. /\ verdict = "finished" => [c \in Day |-> days[c].completed][d] = Steps
          /\ verdict = "stopped" =>
               /\ [c \in Day |-> days[c].stop][d]
               /\ ~[c \in Day |-> days[c].stop => hand[c].pc = "cycle"][d]
      BY <1>5
    <3> QED BY <1>5, <3>1, <3>2, <3>3, <3>4, <3>5 DEF Life!Close
  <2> QED BY <2>1, <2>2, <2>3, RunnerMoves DEF Life!Next
<1>6. CASE DayWithoutProvider(d)
  BY <1>2, <1>5, <1>6 DEF DayWithoutProvider, Abreast
<1>7. CASE DayCloses(d)
  <2>1. /\ days' = [days EXCEPT ![d].status = hand[d].verdict]
        /\ hand' = [hand EXCEPT ![d].pc = "answered"] /\ hand[d].pc = "closing"
    BY <1>7 DEF DayCloses
  <2> QED BY <1>2, <1>5, <2>1 DEF Abreast
<1>8. ASSUME UNCHANGED days, \A c \in Day \ {d} : hand'[c] = hand[c], Abreast(d)',
             days[d].stop /\ hand'[d].pc = "cycle" => hand[d].pc = "cycle"
      PROVE  LifeInv' /\ [Life!Next]_LifeRow
  <2>1. \A c \in Day : days[c].stop /\ hand'[c].pc = "cycle" => hand[c].pc = "cycle"
    BY <1>8
  <2> QED BY <1>8, <2>1, RunnerMoves, RowsStay
<1>9. CASE ReadPolicy(d) \/ CheckDay(d) \/ DayNotStarted(d) \/ DayBegins(d) \/ DayDies(d)
  <2>1. /\ UNCHANGED days /\ \A c \in Day \ {d} : hand'[c] = hand[c]
        /\ \/ hand[d].pc \in {"idle", "read", "checked"} /\ hand'[d].pc \in {"read", "refused", "checked", "failed"}
           \/ hand[d].pc = "queued" /\ hand'[d].pc = "top"
           \/ hand'[d].pc = "dead"
    BY <1>1, <1>9 DEF ReadPolicy, CheckDay, DayNotStarted, DayBegins, DayDies, store, TypeOK, Hands
  <2>2. Abreast(d)'
    BY <1>2, <2>1 DEF Abreast
  <2> QED BY <1>8, <2>1, <2>2
<1>10. CASE StepBegins(d)
  <2>1. /\ UNCHANGED days /\ \A c \in Day \ {d} : hand'[c] = hand[c]
        /\ hand[d].pc = "top" /\ hand'[d].pc = "cycle" /\ ~days[d].stop
    BY <1>1, <1>10 DEF StepBegins, StopHeard, BeginCycle, store, TypeOK, Hands
  <2>2. Abreast(d)'
    BY <1>2, <2>1 DEF Abreast
  <2> QED BY <1>8, <2>1, <2>2
<1>11. CASE DayHearsStop(d)
  <2>1. /\ UNCHANGED days /\ \A c \in Day \ {d} : hand'[c] = hand[c]
        /\ hand[d].pc = "top" /\ hand'[d].pc = "closing"
        /\ hand'[d].verdict = "stopped" /\ days[d].stop
    BY <1>1, <1>11 DEF DayHearsStop, StopHeard, store, TypeOK, Hands
  <2>2. Abreast(d)'
    BY <1>2, <2>1 DEF Abreast
  <2> QED BY <1>8, <2>1, <2>2
<1>12. CASE StepExamines(d)
  <2>1. /\ UNCHANGED days /\ \A c \in Day \ {d} : hand'[c] = hand[c]
        /\ hand[d].pc = "cycle" /\ hand'[d].pc \in {"cycle", "dead"}
    BY <1>1, <1>12, ExamineGoesOn DEF StepExamines
  <2>2. Abreast(d)'
    BY <1>2, <2>1 DEF Abreast
  <2> QED BY <1>8, <2>1, <2>2
<1> QED BY <1>3, <1>4, <1>6, <1>7, <1>9, <1>10, <1>11, <1>12 DEF DayStarting, DayPlaying

\* Somebody presses stop, wherever the runner is.
LEMMA StopLife ==
  ASSUME TypeOK, LifeInv, NEW d \in Day, StopDay(d)
  PROVE  LifeInv' /\ [Life!Next]_LifeRow
<1>1. /\ days' = [days EXCEPT ![d].stop = TRUE] /\ hand' = hand
      /\ days[d].status = "running" /\ ~days[d].stop /\ days[d] \in DayRow
  BY DEF StopDay, TypeOK
<1>2. /\ \A c \in Day \ {d} : days'[c] = days[c]
      /\ days'[d].status = "running" /\ days'[d].completed = days[d].completed
      /\ days'[d].stop = TRUE
  BY <1>1 DEF TypeOK, DayRow
<1>3. Abreast(d)'
  <2>1. days[d] # NewDay
    BY <1>1 DEF NewDay
  <2>2. Abreast(d)
    BY DEF LifeInv
  <2> QED BY <1>1, <1>2, <2>1, <2>2 DEF Abreast
<1>4. Life!AskStop(d)
  <2>1. [c \in Day |-> days'[c].status] = [c \in Day |-> days[c].status]
    BY <1>1, <1>2
  <2>2. [c \in Day |-> days'[c].completed] = [c \in Day |-> days[c].completed]
    BY <1>2
  <2>3. [c \in Day |-> days'[c].stop] = [[c \in Day |-> days[c].stop] EXCEPT ![d] = TRUE]
    BY <1>2
  <2>4. [c \in Day |-> days'[c].stop => hand'[c].pc = "cycle"]
          = [[c \in Day |-> days[c].stop => hand[c].pc = "cycle"]
               EXCEPT ![d] = (hand[d].pc = "cycle")]
    <3>1. (days'[d].stop => hand'[d].pc = "cycle") = (hand[d].pc = "cycle")
      BY <1>1, <1>2
    <3>2. \A c \in Day \ {d} : (days'[c].stop => hand'[c].pc = "cycle")
                                  = (days[c].stop => hand[c].pc = "cycle")
      BY <1>1, <1>2
    <3> QED BY <3>1, <3>2
  <2>5. (hand[d].pc = "cycle") \in BOOLEAN
    OBVIOUS
  <2> QED BY <1>1, <2>1, <2>2, <2>3, <2>4, <2>5 DEF Life!AskStop
<1> QED BY <1>1, <1>2, <1>3, <1>4, RunnerMoves DEF Life!Next

LEMMA NextLife ==
  ASSUME TypeOK, LifeInv, [Next]_vars
  PROVE  LifeInv' /\ [Life!Next]_LifeRow
<1>1. CASE UNCHANGED <<days, hand>>
  BY <1>1 DEF LifeInv, Abreast, LifeRow
<1>2. ASSUME NEW r \in Request, OversightStep(r), UNCHANGED hand PROVE UNCHANGED <<days, hand>>
  <2>1. Load(r) => days' = days
    BY Zenon DEF Load, store
  <2>2. Chain(r) \/ Commit(r) \/ Collide(r) \/ CommitReset(r) \/ GiveUp(r) => days' = days
    BY DEF Chain, Commit, Collide, CommitReset, GiveUp, store
  <2> QED BY <1>2, <2>1, <2>2 DEF OversightStep
<1>3. CASE Restart
  <2>1. UNCHANGED days /\ \A h \in Hand : hand'[h] = IF AtWork(h)
          THEN [hand[h] EXCEPT !.pc = "dead", !.staged = 0] ELSE hand[h]
    BY <1>3 DEF Restart
  <2>2. \A d \in Day : hand'[d] = hand[d] \/ hand'[d].pc = "dead"
    BY <2>1 DEF TypeOK, Hands, Hand
  <2>3. LifeInv'
    BY <2>1, <2>2 DEF LifeInv, Abreast
  <2>4. UNCHANGED days /\ \A d \in Day : days[d].stop /\ hand'[d].pc = "cycle" => hand[d].pc = "cycle"
    BY <2>1, <2>2
  <2> QED BY <2>3, <2>4, RowsStay
<1>4. UNCHANGED vars \/ Done => UNCHANGED <<days, hand>>
  BY DEF vars, store, Done
<1> QED BY <1>1, <1>2, <1>3, <1>4, TourLife, DayLives, StopLife DEF Next

\* Every simulated day lives the life DayLife promises, whatever stops, lost
\* locks and restarts befall its runner (trading/session.py, run_session,
\* _close): it closes once, on a verdict that is true.
THEOREM DayLivesOnceAlways == Spec => DayLivesOnce
<1>1. Init => IInv /\ LifeInv /\ Life!Init
  <2> SUFFICES ASSUME Init PROVE IInv /\ LifeInv /\ Life!Init
    OBVIOUS
  <2>1. \A d \in Day : hand[d].pc = "idle" /\ days[d] = NewDay
    BY DEF Init, AtRest, NewDay, Hand
  <2>2. LifeInv
    BY <2>1 DEF LifeInv, Abreast
  <2>3. Life!Init
    <3>1. \A d \in Day : days[d].status = "none" /\ days[d].completed = 0
      BY <2>1 DEF NewDay
    <3>2. \A d \in Day : days[d].stop = FALSE
      BY <2>1 DEF NewDay
    <3>3. \A d \in Day : (days[d].stop => hand[d].pc = "cycle") = TRUE
      BY <3>2
    <3>4. [d \in Day |-> days[d].stop => hand[d].pc = "cycle"] = [d \in Day |-> TRUE]
      BY <3>3, Zenon
    <3>5. [d \in Day |-> days[d].stop] = [d \in Day |-> FALSE]
      BY <3>2, Zenon
    <3> QED BY <3>1, <3>4, <3>5 DEF Life!Init
  <2> QED BY <2>2, <2>3, InitIInv
<1>2. IInv /\ LifeInv /\ [Next]_vars => (IInv /\ LifeInv)'
  BY NextIInv, NextLife DEF IInv
<1>3. IInv /\ LifeInv /\ [Next]_vars => [Life!Next]_LifeRow
  BY NextLife DEF IInv
<1> QED BY <1>1, <1>2, <1>3, PTL DEF Spec, DayLivesOnce, Life!Spec, Life!row, LifeRow
=============================================================================
