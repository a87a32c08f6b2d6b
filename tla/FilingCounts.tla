---------------------------- MODULE FilingCounts ----------------------------
(***************************************************************************)
(* What the ledger counts, for any household: how many rows a statement    *)
(* line may have, what an import lands compared with what its preview      *)
(* announced, and that its deliberate copies never collide.                *)
(***************************************************************************)
EXTENDS FilingProofs

\* The rows of a table, or of what an import has accepted so far, that carry
\* the line l and a suffix.
Suffixed(table, l) == {i \in DOMAIN table : table[i].line = l /\ table[i].copy # 0}

\* The rows of its file an import was told to force, among those it has read.
ForcedSoFar(r, l) == {n \in r.forced : n < r.row /\ Content[r.upload][n] = l}

\* The rows announced by a preview on the same fingerprints, among those read.
AnnouncedSoFar(r) == {n \in Importable(Content[r.upload], r.seen) : n < r.row}

\* What the loop of commit_import keeps from one row of the file to the next.
Apart(r) ==
  /\ \A k \in DOMAIN r.new : Fingerprint(r.new[k]) \notin r.seen
  /\ \A j, k \in DOMAIN r.new : Fingerprint(r.new[j]) = Fingerprint(r.new[k]) => j = k

Counted(r) ==
  \A l \in Line : Cardinality(Suffixed(r.new, l)) <= Cardinality(ForcedSoFar(r, l))

Announced(r) ==
  r.forced = {} =>
    /\ \A k \in DOMAIN r.new : r.new[k].copy = 0
    /\ {r.new[k].line : k \in DOMAIN r.new} = {Content[r.upload][n] : n \in AnnouncedSoFar(r)}
    /\ Len(r.new) = Cardinality(AnnouncedSoFar(r))

Looping(r) == r.at = "opened" => Apart(r) /\ Counted(r) /\ Announced(r)

\* The suffixed rows of a line were all asked for.
SuffixesAsked == \A l \in Line : Cardinality(Suffixed(rows, l)) <= asked[l]

\* The preview on show was made of this file and of the fingerprints it names.
Previewed(u) == shown[u].rows = Importable(Content[u], shown[u].seen)

Previews ==
  /\ DOMAIN shown = Upload
  /\ \A u \in pending : Previewed(u)
  /\ \A h \in Hand : hand[h].at = "opened" => Previewed(hand[h].upload)

Loops == \A h \in Hand : Looping(hand[h])

\* The inductive invariant, over the one of FilingProofs.
Counts == IInv /\ Loops /\ SuffixesAsked /\ Previews

-----------------------------------------------------------------------------
(* One turn of the loop.                                                   *)

\* The row read is skipped, or taken under a fingerprint nobody holds: the
\* bare one if it is free, and a suffix only for a row that was forced.
LEMMA OneTurn ==
  ASSUME IInv, NEW h \in Hand, AcceptRow(h)
  PROVE  LET r     == hand[h]
             s     == hand'[h]
             file  == Content[r.upload]
             n     == r.row
             taken == r.seen \union Fingerprints(r.new)
         IN  /\ r \in Hands /\ WellHeld(r) /\ n \in DOMAIN file
             /\ s.at = "opened" /\ s.row = n + 1
             /\ s.seen = r.seen /\ s.upload = r.upload /\ s.forced = r.forced
             /\ \/ /\ s.new = r.new
                   /\ file[n] = Unreadable \/ (Base(file, n) \in taken /\ n \notin r.forced)
                \/ /\ file[n] \in Line
                   /\ \E row \in Row :
                        /\ s.new = Append(r.new, row)
                        /\ row.line = file[n] /\ Fingerprint(row) \notin taken
                        /\ row.copy = 0 <=> Base(file, n) \notin taken
                        /\ row.copy # 0 => n \in r.forced
<1> DEFINE r == hand[h]
           file == Content[r.upload]
           n == r.row
           taken == r.seen \union Fingerprints(r.new)
           new == Accepted(r.new, taken, file, n, r.forced, r.answers, ByHand)
           next == n + 1
           s == [r EXCEPT !.row = next, !.new = new]
<1>1. /\ r \in Hands /\ WellHeld(r) /\ r.at = "opened" /\ n \in DOMAIN file
      /\ IsFiniteSet(taken) /\ new \in Seq(Row)
  BY AcceptedType
<1>2. hand'[h] = s
  BY DEF AcceptRow, Goes, IInv, HandsOK
<1>3. /\ s.at = "opened" /\ s.row = next /\ s.new = new
      /\ s.seen = r.seen /\ s.upload = r.upload /\ s.forced = r.forced
  <2> HIDE DEF r, new, next
  <2> QED BY <1>1 DEF Hands
<1>4. n \in Nat \ {0} /\ r.upload \in Upload
  BY <1>1 DEF Hands
<1>5. CASE file[n] = Unreadable \/ (Base(file, n) \in taken /\ n \notin r.forced)
  <2>1. new = r.new
    BY <1>5 DEF Accepted
  <2> HIDE DEF s, new, taken
  <2> QED BY <1>1, <1>2, <1>3, <1>5, <2>1 DEF taken
<1>6. CASE file[n] # Unreadable /\ (Base(file, n) \notin taken \/ n \in r.forced)
  <2> DEFINE copy == IF Base(file, n) \in taken THEN FreeFrom(file[n], n, taken) ELSE 0
             row == NewRow(file[n], copy, ByHand, r.answers[n])
  <2>1. new = Append(r.new, row)
    BY <1>6 DEF Accepted
  <2>2. file[n] \in Line /\ r.answers[n] \in Answer
    BY <1>1, <1>4, <1>6, BookkeepingAssumption DEF WellHeld, Readable
  <2>3. /\ FreeFrom(file[n], n, taken) \in Nat /\ FreeFrom(file[n], n, taken) >= n
        /\ <<file[n], FreeFrom(file[n], n, taken)>> \notin taken
    <3> HIDE DEF n, taken
    <3> QED BY <1>1, <1>4, FreeFromIsFree
  <2>4. /\ copy \in Nat /\ <<file[n], copy>> \notin taken
        /\ copy = 0 <=> Base(file, n) \notin taken
        /\ copy # 0 => n \in r.forced
    <3> HIDE DEF taken, r, file
    <3> QED BY <1>4, <1>6, <2>3 DEF Base
  <2>5. row \in Row /\ row.line = file[n] /\ row.copy = copy
    <3> HIDE DEF copy
    <3> QED BY <2>2, <2>4, NewRowType DEF ByHand
  <2> HIDE DEF s, new, taken, copy, row, r, file, n
  <2>6. Fingerprint(row) \notin taken
    BY <2>4, <2>5 DEF Fingerprint
  <2> QED BY <1>1, <1>2, <1>3, <2>1, <2>2, <2>4, <2>5, <2>6 DEF taken, r, file, n, next
<1> QED BY <1>5, <1>6

LEMMA ApartTurns ==
  ASSUME IInv, NEW h \in Hand, AcceptRow(h), Apart(hand[h])
  PROVE  Apart(hand'[h])
<1> DEFINE r == hand[h]
           s == hand'[h]
           taken == r.seen \union Fingerprints(r.new)
<1>1. r.new \in Seq(Row) /\ s.seen = r.seen
  BY OneTurn DEF Hands
<1>2. CASE s.new = r.new
  BY <1>1, <1>2 DEF Apart
<1>3. ASSUME NEW row \in Row, s.new = Append(r.new, row), Fingerprint(row) \notin taken
      PROVE  Apart(s)
  <2>1. /\ DOMAIN s.new = DOMAIN r.new \union {Len(r.new) + 1}
        /\ \A k \in DOMAIN r.new : s.new[k] = r.new[k]
        /\ s.new[Len(r.new) + 1] = row /\ DOMAIN r.new = 1..Len(r.new)
    BY <1>1, <1>3
  <2>2. \A k \in DOMAIN r.new : Fingerprint(r.new[k]) # Fingerprint(row)
    BY <1>3 DEF Fingerprints
  <2>3. \A k \in DOMAIN r.new : Fingerprint(r.new[k]) \notin r.seen
    BY DEF Apart
  <2>4. \A j, k \in DOMAIN r.new : Fingerprint(r.new[j]) = Fingerprint(r.new[k]) => j = k
    BY DEF Apart
  <2>5. Fingerprint(row) \notin r.seen
    BY <1>3
  <2> HIDE DEF r, s
  <2> QED BY <1>1, <2>1, <2>2, <2>3, <2>4, <2>5 DEF Apart
<1> QED BY <1>2, <1>3, OneTurn

\* Sets of rows of a file, and of rows accepted, are finite.
LEMMA FinitelyMany ==
  ASSUME NEW r \in Hands, r.forced \subseteq Readable(r.upload)
  PROVE  /\ IsFiniteSet(DOMAIN Content[r.upload]) /\ IsFiniteSet(AnnouncedSoFar(r))
         /\ \A l \in Line : /\ IsFiniteSet(ForcedSoFar(r, l))
                            /\ IsFiniteSet(Suffixed(r.new, l))
<1>1. r.upload \in Upload /\ r.new \in Seq(Row)
  BY DEF Hands
<1>2. DOMAIN Content[r.upload] = 1..Len(Content[r.upload]) /\ Len(Content[r.upload]) \in Nat
  BY <1>1, BookkeepingAssumption
<1>3. IsFiniteSet(DOMAIN Content[r.upload])
  BY <1>2, FS_Interval
<1>4. IsFiniteSet(DOMAIN r.new)
  BY <1>1, FS_Interval
<1>5. AnnouncedSoFar(r) \subseteq DOMAIN Content[r.upload]
  BY DEF AnnouncedSoFar, Importable
<1>6. ASSUME NEW l \in Line
      PROVE  /\ ForcedSoFar(r, l) \subseteq DOMAIN Content[r.upload]
             /\ Suffixed(r.new, l) \subseteq DOMAIN r.new
  BY DEF ForcedSoFar, Suffixed, Readable
<1> QED BY <1>3, <1>4, <1>5, <1>6, FS_Subset

LEMMA CountedTurns ==
  ASSUME IInv, NEW h \in Hand, AcceptRow(h), Counted(hand[h])
  PROVE  Counted(hand'[h])
<1> DEFINE r == hand[h]
           s == hand'[h]
           file == Content[r.upload]
           n == r.row
<1>1. /\ r \in Hands /\ WellHeld(r) /\ r.at = "opened" /\ r.new \in Seq(Row) /\ n \in Nat \ {0}
      /\ n \in DOMAIN file
      /\ s.row = n + 1 /\ s.upload = r.upload /\ s.forced = r.forced
  BY OneTurn DEF Hands, AcceptRow
<1>2. r.forced \subseteq Readable(r.upload) /\ r.forced \in SUBSET Nat
  BY <1>1 DEF WellHeld, Hands
<1>3. s \in Hands
  BY AcceptRowKeeps DEF IInv, HandsOK
<1> SUFFICES ASSUME NEW l \in Line
             PROVE  Cardinality(Suffixed(s.new, l)) <= Cardinality(ForcedSoFar(s, l))
  BY DEF Counted
<1>4. Cardinality(Suffixed(r.new, l)) <= Cardinality(ForcedSoFar(r, l))
  BY DEF Counted
<1>5. /\ IsFiniteSet(Suffixed(r.new, l)) /\ IsFiniteSet(ForcedSoFar(r, l))
      /\ IsFiniteSet(ForcedSoFar(s, l))
  BY <1>1, <1>2, <1>3, FinitelyMany
<1>6. /\ Cardinality(Suffixed(r.new, l)) \in Nat /\ Cardinality(ForcedSoFar(r, l)) \in Nat
      /\ Cardinality(ForcedSoFar(s, l)) \in Nat
  BY <1>5, FS_CardinalityType
<1>7. ForcedSoFar(r, l) \subseteq ForcedSoFar(s, l)
  BY <1>1, <1>2 DEF ForcedSoFar
<1>8. Cardinality(ForcedSoFar(r, l)) <= Cardinality(ForcedSoFar(s, l))
  BY <1>5, <1>7, FS_Subset
<1>9. CASE Suffixed(s.new, l) = Suffixed(r.new, l)
  BY <1>4, <1>6, <1>8, <1>9
<1>10. ASSUME NEW row \in Row, s.new = Append(r.new, row), row.line = l, row.copy # 0,
              n \in r.forced, file[n] = l
       PROVE  Cardinality(Suffixed(s.new, l)) <= Cardinality(ForcedSoFar(s, l))
  <2>1. /\ DOMAIN s.new = DOMAIN r.new \union {Len(r.new) + 1}
        /\ \A k \in DOMAIN r.new : s.new[k] = r.new[k]
        /\ s.new[Len(r.new) + 1] = row /\ Len(r.new) + 1 \notin DOMAIN r.new
    BY <1>1, <1>10
  <2>2. /\ Suffixed(s.new, l) = Suffixed(r.new, l) \union {Len(r.new) + 1}
        /\ Len(r.new) + 1 \notin Suffixed(r.new, l)
    <3> HIDE DEF r, s
    <3> QED BY <1>10, <2>1 DEF Suffixed
  <2>3. ForcedSoFar(s, l) = ForcedSoFar(r, l) \union {n} /\ n \notin ForcedSoFar(r, l)
    <3>1. n < s.row /\ ~(n < n) /\ \A m \in Nat : m < s.row <=> m < n \/ m = n
      BY <1>1
    <3> QED BY <1>1, <1>2, <1>10, <3>1 DEF ForcedSoFar
  <2>4. /\ Cardinality(Suffixed(s.new, l)) = Cardinality(Suffixed(r.new, l)) + 1
        /\ Cardinality(ForcedSoFar(s, l)) = Cardinality(ForcedSoFar(r, l)) + 1
    BY <1>5, <2>2, <2>3, FS_AddElement
  <2> QED BY <1>4, <1>6, <2>4
<1>11. ASSUME NEW row \in Row, s.new = Append(r.new, row), row.line # l \/ row.copy = 0
       PROVE  Suffixed(s.new, l) = Suffixed(r.new, l)
  <2>1. /\ DOMAIN s.new = DOMAIN r.new \union {Len(r.new) + 1}
        /\ \A k \in DOMAIN r.new : s.new[k] = r.new[k]
        /\ s.new[Len(r.new) + 1] = row
    BY <1>1, <1>11
  <2> HIDE DEF r, s
  <2> QED BY <1>11, <2>1 DEF Suffixed
<1>12. \/ s.new = r.new
       \/ \E row \in Row : /\ s.new = Append(r.new, row) /\ row.line = file[n]
                           /\ row.copy # 0 => n \in r.forced
  BY OneTurn
<1> QED BY <1>9, <1>10, <1>11, <1>12

\* A row that is no duplicate of the ledger and was not announced repeats one
\* that was, further up the file.
LEMMA RepeatsAnnounced ==
  ASSUME NEW u \in Upload, NEW seen, NEW n \in DOMAIN Content[u],
         Content[u][n] # Unreadable, Base(Content[u], n) \notin seen,
         n \notin Importable(Content[u], seen)
  PROVE  \E m \in Importable(Content[u], seen) : m < n /\ Content[u][m] = Content[u][n]
<1> DEFINE file == Content[u]
           Same == {m \in DOMAIN file : m < n /\ file[m] = file[n]}
<1>1. DOMAIN file = 1..Len(file) /\ Len(file) \in Nat
  BY BookkeepingAssumption
<1>2. Same \in SUBSET Nat /\ Same # {}
  <2>1. PICK m \in 1..(n - 1) : file[m] = file[n]
    BY DEF Importable
  <2>2. m \in DOMAIN file /\ m < n
    BY <1>1, <2>1
  <2> QED BY <1>1, <2>1, <2>2
<1>3. PICK m \in Same : \A j \in Same : m <= j
  <2> HIDE DEF Same
  <2> QED BY <1>2, LeastOf
<1>4. \A j \in 1..(m - 1) : file[j] # file[m]
  <2> SUFFICES ASSUME NEW j \in 1..(m - 1), file[j] = file[m] PROVE FALSE
    OBVIOUS
  <2>1. j \in Same /\ j < m
    BY <1>1, <1>3
  <2> QED BY <1>1, <1>3, <2>1
<1>5. m \in Importable(file, seen)
  BY <1>3, <1>4 DEF Importable, Base
<1> QED BY <1>3, <1>5

LEMMA AnnouncedTurns ==
  ASSUME IInv, NEW h \in Hand, AcceptRow(h), Announced(hand[h])
  PROVE  Announced(hand'[h])
<1> DEFINE r == hand[h]
           s == hand'[h]
           file == Content[r.upload]
           n == r.row
           taken == r.seen \union Fingerprints(r.new)
           Lines(new) == {new[k].line : k \in DOMAIN new}
<1>1. /\ r \in Hands /\ WellHeld(r) /\ r.at = "opened" /\ r.new \in Seq(Row) /\ n \in Nat \ {0}
      /\ n \in DOMAIN file /\ r.upload \in Upload
      /\ s.row = n + 1 /\ s.upload = r.upload /\ s.forced = r.forced /\ s.seen = r.seen
  BY OneTurn DEF Hands, AcceptRow
<1> SUFFICES ASSUME r.forced = {}
             PROVE  /\ \A k \in DOMAIN s.new : s.new[k].copy = 0
                    /\ Lines(s.new) = {file[m] : m \in AnnouncedSoFar(s)}
                    /\ Len(s.new) = Cardinality(AnnouncedSoFar(s))
  BY <1>1 DEF Announced
<1>2. /\ \A k \in DOMAIN r.new : r.new[k].copy = 0
      /\ Lines(r.new) = {file[m] : m \in AnnouncedSoFar(r)}
      /\ Len(r.new) = Cardinality(AnnouncedSoFar(r))
  BY DEF Announced
<1>3. /\ AnnouncedSoFar(s) = AnnouncedSoFar(r) \union
           (IF n \in Importable(file, r.seen) THEN {n} ELSE {})
      /\ n \notin AnnouncedSoFar(r)
  <2>1. \A m \in Nat : m < s.row <=> m < n \/ m = n
    BY <1>1
  <2>2. Importable(file, r.seen) \in SUBSET Nat
    BY <1>1, BookkeepingAssumption DEF Importable
  <2> QED BY <1>1, <2>1, <2>2 DEF AnnouncedSoFar
<1>4. Fingerprints(r.new) = {<<l, 0>> : l \in Lines(r.new)}
  BY <1>2 DEF Fingerprints, Fingerprint
<1>5. Base(file, n) \in Fingerprints(r.new) <=>
        \E m \in AnnouncedSoFar(r) : file[m] = file[n]
  <2>1. Base(file, n) \in Fingerprints(r.new) <=> file[n] \in Lines(r.new)
    <3> HIDE DEF Lines
    <3> QED BY <1>4 DEF Base
  <2> HIDE DEF Lines
  <2> QED BY <1>2, <2>1
<1>6. CASE n \in Importable(file, r.seen)
  <2>1. file[n] # Unreadable /\ Base(file, n) \notin r.seen
    BY <1>6 DEF Importable
  <2>2. ~\E m \in AnnouncedSoFar(r) : file[m] = file[n]
    <3>1. AnnouncedSoFar(r) \subseteq 1..(n - 1)
      BY <1>1, BookkeepingAssumption DEF AnnouncedSoFar, Importable
    <3> QED BY <1>6, <3>1 DEF Importable
  <2>3. Base(file, n) \notin taken
    BY <1>5, <2>1, <2>2
  <2>4. PICK row \in Row : s.new = Append(r.new, row) /\ row.line = file[n] /\ row.copy = 0
    BY <2>1, <2>3, OneTurn
  <2>5. /\ DOMAIN s.new = DOMAIN r.new \union {Len(r.new) + 1}
        /\ \A k \in DOMAIN r.new : s.new[k] = r.new[k]
        /\ s.new[Len(r.new) + 1] = row /\ Len(s.new) = Len(r.new) + 1
    BY <1>1, <2>4
  <2>6. IsFiniteSet(AnnouncedSoFar(r))
    BY <1>1, FinitelyMany DEF WellHeld
  <2>7. Cardinality(AnnouncedSoFar(s)) = Cardinality(AnnouncedSoFar(r)) + 1
    BY <1>3, <1>6, <2>6, FS_AddElement
  <2>8. Lines(s.new) = Lines(r.new) \union {file[n]}
    <3> HIDE DEF r, s, file, n
    <3> QED BY <2>4, <2>5
  <2>9. {file[m] : m \in AnnouncedSoFar(s)} = {file[m] : m \in AnnouncedSoFar(r)} \union {file[n]}
    BY <1>3, <1>6
  <2> HIDE DEF r, s, file, n, Lines
  <2> QED BY <1>2, <2>4, <2>5, <2>7, <2>8, <2>9
<1>7. CASE n \notin Importable(file, r.seen)
  <2>1. AnnouncedSoFar(s) = AnnouncedSoFar(r)
    BY <1>3, <1>7
  <2>2. file[n] = Unreadable \/ Base(file, n) \in taken
    <3> SUFFICES ASSUME file[n] # Unreadable, Base(file, n) \notin r.seen
                 PROVE  Base(file, n) \in Fingerprints(r.new)
      OBVIOUS
    <3>1. PICK m \in Importable(file, r.seen) : m < n /\ file[m] = file[n]
      BY <1>1, <1>7, RepeatsAnnounced
    <3> QED BY <1>5, <3>1 DEF AnnouncedSoFar
  <2>3. s.new = r.new
    BY <2>2, OneTurn, <1>1, BookkeepingAssumption, LedgerAssumption
  <2> QED BY <1>2, <2>1, <2>3
<1> QED BY <1>6, <1>7

-----------------------------------------------------------------------------
(* Every request, at every step.                                           *)

LEMMA GoesElsewhere ==
  ASSUME IInv, NEW h \in Hand, NEW s, Goes(h, s), s.at \notin {"opened", "landed"}
  PROVE  \A g \in Hand : hand'[g] = hand[g] \/ hand'[g].at \notin {"opened", "landed"}
BY DEF Goes, IInv, HandsOK

\* A request that is inside the loop got there by opening its file or by a
\* turn of the loop, and one whose import landed had read its whole file.
LEMMA HandStory ==
  ASSUME IInv, [Next]_vars, NEW g \in Hand, hand'[g] # hand[g]
  PROVE  \/ OpenImport(g) \/ AcceptRow(g)
         \/ hand'[g].at \notin {"opened", "landed"}
         \/ hand'[g].at = "landed" /\ Parsed(hand[g]) /\ hand'[g].upload = hand[g].upload
<1> DEFINE Away == hand'[g].at \notin {"opened", "landed"}
<1>1. AtRest.at = "rest"
  BY AtRestHeld
<1>2. ASSUME NEW h \in Hand, Ends(h) PROVE Away
  BY <1>1, <1>2, GoesElsewhere DEF Ends
<1>3. ASSUME NEW h \in Hand, NEW s, Goes(h, s), s.at \notin {"opened", "landed"} PROVE Away
  BY <1>3, GoesElsewhere
<1>4. \A h \in Hand : hand[h] \in Hands
  BY DEF IInv, HandsOK
<1>5. ASSUME NEW h \in Hand, OpenImport(h) \/ AcceptRow(h) PROVE h = g
  BY <1>5 DEF OpenImport, AcceptRow, Goes, IInv, HandsOK
<1>6. ASSUME NEW h \in Hand, LandImport(h)
      PROVE  hand'[g].at = "landed" /\ Parsed(hand[g]) /\ hand'[g].upload = hand[g].upload
  <2>1. PICK b \in NextIds(batches) :
          Goes(h, [AtRest EXCEPT !.at = "landed", !.id = b, !.upload = hand[h].upload])
    BY <1>6 DEF LandImport
  <2>2. h = g /\ hand'[g] = [AtRest EXCEPT !.at = "landed", !.id = b, !.upload = hand[h].upload]
    BY <2>1 DEF Goes, IInv, HandsOK
  <2> QED BY <1>6, <2>2 DEF LandImport, AtRest
<1>7. ASSUME NEW h \in Hand,
             ImportRefused(h) \/ ArchiveMissing(h) \/ StampBatch(h) \/ RollBack(h)
      PROVE  Away
  BY <1>2, <1>7 DEF ImportRefused, ArchiveMissing, StampBatch, RollBack
<1>8. ASSUME NEW h \in Hand, ArchiveFile(h) PROVE Away
  <2>1. [hand[h] EXCEPT !.at = "archived"].at = "archived"
    BY <1>4 DEF Hands
  <2> QED BY <1>3, <1>8, <2>1 DEF ArchiveFile
<1>9. ASSUME NEW h \in Hand, OpenRollback(h) PROVE Away
  <2>1. PICK b \in DOMAIN batches : Goes(h, [AtRest EXCEPT !.at = "rolling", !.id = b])
    BY <1>9 DEF OpenRollback
  <2>2. [AtRest EXCEPT !.at = "rolling", !.id = b].at = "rolling"
    BY DEF AtRest
  <2> QED BY <1>3, <2>1, <2>2
<1>10. ASSUME NEW h \in Hand, Create(h) \/ Edit(h) \/ Mark(h) PROVE Away
  BY <1>2, <1>10 DEF Create, Edit, Mark
<1>11. ASSUME NEW h \in Hand, OpenCreate(h) PROVE Away
  <2>1. PICK l, new : Goes(h, [AtRest EXCEPT !.at = "creating", !.line = l, !.new = new])
    BY <1>11 DEF OpenCreate
  <2>2. [AtRest EXCEPT !.at = "creating", !.line = l, !.new = new].at = "creating"
    BY DEF AtRest
  <2> QED BY <1>3, <2>1, <2>2
<1>12. ASSUME NEW h \in Hand, OpenEdit(h) PROVE Away
  <2>1. PICK i, l, seen :
          Goes(h, [AtRest EXCEPT !.at = "editing", !.id = i, !.line = l,
                                 !.loaded = Only(i), !.seen = seen])
    BY <1>12 DEF OpenEdit
  <2>2. [AtRest EXCEPT !.at = "editing", !.id = i, !.line = l,
                       !.loaded = Only(i), !.seen = seen].at = "editing"
    BY DEF AtRest
  <2> QED BY <1>3, <2>1, <2>2
<1>13. ASSUME NEW h \in Hand, OpenMark(h) PROVE Away
  <2>1. PICK i \in DOMAIN rows, flag \in BOOLEAN :
          Goes(h, [AtRest EXCEPT !.at = "marking", !.id = i, !.flag = flag, !.loaded = Only(i)])
    BY <1>13 DEF OpenMark
  <2>2. [AtRest EXCEPT !.at = "marking", !.id = i, !.flag = flag,
                       !.loaded = Only(i)].at = "marking"
    BY DEF AtRest
  <2> QED BY <1>3, <2>1, <2>2
<1>14. ASSUME NEW h \in Hand, OpenFile(h) PROVE Away
  <2>1. PICK i \in DOMAIN rows, c \in categories \union {NoCategory} :
          Goes(h, [AtRest EXCEPT !.at = "filing", !.id = i, !.category = c, !.loaded = Only(i)])
    BY <1>14 DEF OpenFile
  <2>2. [AtRest EXCEPT !.at = "filing", !.id = i, !.category = c,
                       !.loaded = Only(i)].at = "filing"
    BY DEF AtRest
  <2> QED BY <1>3, <2>1, <2>2
<1>15. ASSUME NEW h \in Hand, File(h) PROVE Away
  <2>1. Ends(h) \/ \E l : Goes(h, [hand[h] EXCEPT !.at = "filed", !.line = l])
    BY <1>15 DEF File
  <2>2. \A l : [hand[h] EXCEPT !.at = "filed", !.line = l].at = "filed"
    BY <1>4 DEF Hands
  <2> QED BY <1>2, <1>3, <2>1, <2>2
<1>16. ASSUME NEW h \in Hand, Learn(h) PROVE Away
  <2>1. [hand[h] EXCEPT !.at = "learned"].at = "learned"
    BY <1>4 DEF Hands
  <2> QED BY <1>3, <1>16, <2>1 DEF Learn
<1>17. ASSUME NEW h \in Hand, LearnRefused(h) \/ Backfill(h) \/ Drop(h) PROVE Away
  BY <1>2, <1>17 DEF LearnRefused, Backfill, Drop
<1>18. ASSUME NEW h \in Hand, OpenBackfill(h) PROVE Away
  <2>1. PICK loaded : Goes(h, [hand[h] EXCEPT !.at = "backfilling", !.loaded = loaded])
    BY <1>18 DEF OpenBackfill
  <2>2. [hand[h] EXCEPT !.at = "backfilling", !.loaded = loaded].at = "backfilling"
    BY <1>4 DEF Hands
  <2> QED BY <1>3, <2>1, <2>2
<1>19. ASSUME NEW h \in Hand, OpenDrop(h) PROVE Away
  <2>1. PICK c \in categories : Goes(h, [AtRest EXCEPT !.at = "dropping", !.category = c])
    BY <1>19 DEF OpenDrop
  <2>2. [AtRest EXCEPT !.at = "dropping", !.category = c].at = "dropping"
    BY DEF AtRest
  <2> QED BY <1>3, <2>1, <2>2
<1>20. ASSUME NEW h \in Hand, ImportExpired(h) \/ Delete(h) \/ Teach(h) \/ Unteach(h)
       PROVE  FALSE
  BY <1>20 DEF ImportExpired, Delete, Teach, Unteach
<1>21. Analyze \/ Done \/ UNCHANGED vars => FALSE
  BY DEF Analyze, Done, vars
<1>22. ASSUME Restart PROVE Away
  BY <1>1, <1>22 DEF Restart
<1> QED
  <2>1. ASSUME NEW h \in Hand, ImportStep(h)
        PROVE  \/ OpenImport(g) \/ AcceptRow(g) \/ Away
               \/ hand'[g].at = "landed" /\ Parsed(hand[g]) /\ hand'[g].upload = hand[g].upload
    BY <1>5, <1>6, <1>7, <1>8, <1>9, <1>20, <2>1 DEF ImportStep
  <2>2. ASSUME NEW h \in Hand, RowStep(h) PROVE Away
    BY <1>10, <1>11, <1>12, <1>13, <1>20, <2>2 DEF RowStep
  <2>3. ASSUME NEW h \in Hand, FilingStep(h) PROVE Away
    BY <1>14, <1>15, <1>16, <1>17, <1>18, <1>19, <1>20, <2>3 DEF FilingStep
  <2> QED BY <1>21, <1>22, <2>1, <2>2, <2>3 DEF Next

LEMMA LoopsKeep ==
  ASSUME IInv, [Next]_vars, Loops
  PROVE  Loops'
<1> SUFFICES ASSUME NEW g \in Hand, hand'[g].at = "opened", hand'[g] # hand[g]
             PROVE  Apart(hand'[g]) /\ Counted(hand'[g]) /\ Announced(hand'[g])
  BY DEF Loops, Looping
<1>1. CASE AcceptRow(g)
  BY <1>1, ApartTurns, CountedTurns, AnnouncedTurns DEF Loops, Looping, AcceptRow
<1>2. CASE OpenImport(g)
  <2> DEFINE s == hand'[g]
  <2>1. IInv' /\ s \in Hands /\ WellHeld(s)
    BY <1>2, OpenImportKeeps DEF IInv, HandsOK
  <2>2. s.new = <<>> /\ s.row = 1
    BY <1>2, AtRestHeld DEF OpenImport, Goes, IInv, HandsOK, AtRest
  <2>3. AnnouncedSoFar(s) = {}
    BY <2>1, <2>2, BookkeepingAssumption DEF AnnouncedSoFar, Importable, Hands
  <2>4. \A n \in s.forced : n \in Nat /\ ~(n < 1)
    BY <2>1, BookkeepingAssumption DEF Hands, WellHeld, Readable
  <2>5. DOMAIN s.new = {} /\ Len(s.new) = 0
    BY <2>2
  <2>6. Cardinality({}) = 0
    BY FS_EmptySet
  <2> HIDE DEF s
  <2>7. Apart(s)
    BY <2>5 DEF Apart
  <2>8. Counted(s)
    <3>1. \A l \in Line : ForcedSoFar(s, l) = {} /\ Suffixed(s.new, l) = {}
      BY <2>2, <2>4, <2>5 DEF ForcedSoFar, Suffixed
    <3> QED BY <2>6, <3>1 DEF Counted
  <2>9. Announced(s)
    BY <2>3, <2>5, <2>6 DEF Announced
  <2> QED BY <2>7, <2>8, <2>9 DEF s
<1> QED BY <1>1, <1>2, HandStory

-----------------------------------------------------------------------------
(* The suffixed rows.                                                      *)

LEMMA SuffixedFinite ==
  ASSUME IInv, NEW l \in Line
  PROVE  IsFiniteSet(Suffixed(rows, l)) /\ Cardinality(Suffixed(rows, l)) \in Nat
<1>1. Suffixed(rows, l) \subseteq DOMAIN rows
  BY DEF Suffixed
<1>2. IsFiniteSet(Suffixed(rows, l))
  BY <1>1, FS_Subset DEF IInv, RowsOK
<1> QED BY <1>2, FS_CardinalityType

\* Rows removed, or written over with the fingerprint they had.
LEMMA FewerSuffixes ==
  ASSUME IInv, SuffixesAsked, UNCHANGED asked, DOMAIN rows' \subseteq DOMAIN rows,
         \A i \in DOMAIN rows' : rows'[i].line = rows[i].line /\ rows'[i].copy = rows[i].copy
  PROVE  SuffixesAsked'
<1> SUFFICES ASSUME NEW l \in Line PROVE Cardinality(Suffixed(rows', l)) <= asked[l]
  BY DEF SuffixesAsked, Suffixed
<1>1. Suffixed(rows', l) \subseteq Suffixed(rows, l)
  BY DEF Suffixed
<1>2. IsFiniteSet(Suffixed(rows, l)) /\ Cardinality(Suffixed(rows, l)) \in Nat
  BY SuffixedFinite
<1>3. /\ Cardinality(Suffixed(rows', l)) <= Cardinality(Suffixed(rows, l))
      /\ IsFiniteSet(Suffixed(rows', l))
  BY <1>1, <1>2, FS_Subset
<1>4. Cardinality(Suffixed(rows', l)) \in Nat
  BY <1>3, FS_CardinalityType
<1> QED BY <1>2, <1>3, <1>4 DEF IInv, SuffixesAsked

\* What an insertion brings: rows that fit, each suffixed one of them asked for.
Brings(new) ==
  /\ \E first \in NextIds(rows) : rows' = Inserted(rows, first, new)
  /\ Fits(new)
  /\ \A l \in Line : /\ asked'[l] \in Nat
                     /\ asked[l] + Cardinality(Suffixed(new, l)) <= asked'[l]

\* The rows of a table that belong to W.
Picked(table, W) == {i \in DOMAIN table : table[i] \in W}

\* An insertion adds, of any kind of rows, no more than it brings.
LEMMA InsertedPicked ==
  ASSUME IInv, NEW W, NEW first \in NextIds(rows), NEW new \in Seq(Row),
         rows' = Inserted(rows, first, new)
  PROVE  /\ Cardinality(Picked(rows, W)) \in Nat /\ Cardinality(Picked(new, W)) \in Nat
         /\ Cardinality(Picked(rows', W)) \in Nat
         /\ Cardinality(Picked(rows, W)) <= Cardinality(Picked(rows', W))
         /\ Cardinality(Picked(rows', W)) <= Cardinality(Picked(rows, W)) + Cardinality(Picked(new, W))
<1> DEFINE R == Picked(rows, W)
           S == Picked(new, W)
           T == {first + k - 1 : k \in S}
           key == [k \in S |-> first + k - 1]
<1>1. /\ \A i \in DOMAIN rows : i \in DOMAIN rows' /\ rows'[i] = rows[i]
      /\ \A i \in DOMAIN rows' \ DOMAIN rows :
           i - first + 1 \in DOMAIN new /\ rows'[i] = new[i - first + 1]
  BY InsertedRows
<1>2. DOMAIN rows' \in SUBSET Nat /\ first \in Nat
  <2>1. rows' \in Tables(Row) /\ DOMAIN rows \in SUBSET (Nat \ {0})
    BY InsertedRows, RowsParts
  <2> QED BY <2>1, TableParts, NextIdsAbove
<1>3. Picked(rows', W) \subseteq R \union T /\ R \subseteq Picked(rows', W)
  <2>1. ASSUME NEW i \in DOMAIN rows' \ DOMAIN rows, rows'[i] \in W
        PROVE  i \in T
    <3>1. i - first + 1 \in S
      BY <1>1, <2>1 DEF Picked
    <3>2. i = first + (i - first + 1) - 1
      BY <1>2
    <3> HIDE DEF S
    <3> QED BY <3>1, <3>2
  <2>2. R \subseteq Picked(rows', W)
    BY <1>1 DEF Picked
  <2>3. \A i \in Picked(rows', W) : i \in DOMAIN rows => i \in R
    BY <1>1 DEF Picked
  <2> HIDE DEF R, T
  <2> QED BY <2>1, <2>2, <2>3 DEF Picked
<1>4. IsFiniteSet(S)
  <2>1. S \subseteq DOMAIN new
    BY DEF Picked
  <2>2. IsFiniteSet(DOMAIN new)
    BY FS_Interval
  <2> HIDE DEF S
  <2> QED BY <2>1, <2>2, FS_Subset
<1>5. key \in Surjection(S, T)
  BY DEF Surjection
<1>6. IsFiniteSet(T) /\ Cardinality(T) <= Cardinality(S)
  <2> HIDE DEF S, T, key
  <2> QED BY <1>4, <1>5, FS_Surjection
<1>7. IsFiniteSet(R)
  <2>1. R \subseteq DOMAIN rows
    BY DEF Picked
  <2> HIDE DEF R
  <2> QED BY <2>1, FS_Subset DEF IInv, RowsOK
<1>8. /\ IsFiniteSet(R \union T) /\ IsFiniteSet(R \intersect T)
      /\ Cardinality(R \union T) = Cardinality(R) + Cardinality(T) - Cardinality(R \intersect T)
  <2> HIDE DEF R, T
  <2> QED BY <1>6, <1>7, FS_Union, FS_Intersection
<1>9. /\ IsFiniteSet(Picked(rows', W))
      /\ Cardinality(Picked(rows', W)) <= Cardinality(R \union T)
      /\ Cardinality(R) <= Cardinality(Picked(rows', W))
  <2> HIDE DEF R, T
  <2> QED BY <1>3, <1>8, FS_Subset
<1> HIDE DEF R, S, T
<1>10. /\ Cardinality(R) \in Nat /\ Cardinality(S) \in Nat /\ Cardinality(T) \in Nat
       /\ Cardinality(R \intersect T) \in Nat /\ Cardinality(R \union T) \in Nat
       /\ Cardinality(Picked(rows', W)) \in Nat
  BY <1>4, <1>6, <1>7, <1>8, <1>9, FS_CardinalityType
<1> QED BY <1>6, <1>8, <1>9, <1>10 DEF R, S

\* Rows inserted, each suffixed one of them asked for.
LEMMA MoreSuffixes ==
  ASSUME IInv, SuffixesAsked, NEW new \in Seq(Row), Brings(new)
  PROVE  SuffixesAsked'
<1> SUFFICES ASSUME NEW l \in Line PROVE Cardinality(Suffixed(rows', l)) <= asked'[l]
  BY DEF SuffixesAsked, Suffixed
<1> DEFINE W == {row \in Row : row.line = l /\ row.copy # 0}
<1>1. PICK first \in NextIds(rows) : rows' = Inserted(rows, first, new)
  BY DEF Brings
<1>2. /\ Suffixed(rows, l) = Picked(rows, W) /\ Suffixed(new, l) = Picked(new, W)
      /\ Suffixed(rows', l) = Picked(rows', W)
  <2>1. /\ \A i \in DOMAIN rows : rows[i] \in Row
        /\ \A i \in DOMAIN rows' : rows'[i] \in Row
        /\ \A k \in DOMAIN new : new[k] \in Row
    BY <1>1, InsertedRows, RowsParts, TableParts
  <2> QED BY <2>1 DEF Suffixed, Picked
<1>3. /\ Cardinality(Suffixed(rows', l)) \in Nat /\ Cardinality(Suffixed(rows, l)) \in Nat
      /\ Cardinality(Suffixed(new, l)) \in Nat
      /\ Cardinality(Suffixed(rows', l)) <= Cardinality(Suffixed(rows, l)) + Cardinality(Suffixed(new, l))
  <2> HIDE DEF W
  <2> QED BY <1>1, <1>2, InsertedPicked
<1>4. asked[l] \in Nat /\ Cardinality(Suffixed(rows, l)) <= asked[l]
  BY DEF IInv, SuffixesAsked
<1>5. asked[l] + Cardinality(Suffixed(new, l)) <= asked'[l] /\ asked'[l] \in Nat
  BY DEF Brings
<1> QED BY <1>3, <1>4, <1>5

LEMMA LandBrings ==
  ASSUME IInv, Loops, NEW h \in Hand, LandImport(h)
  PROVE  \E new \in Seq(Row) : Brings(new)
<1> DEFINE r == hand[h]
<1>1. /\ r \in Hands /\ WellHeld(r) /\ Counted(r) /\ r.at = "opened" /\ Parsed(r)
      /\ r.new \in Seq(Row) /\ r.upload \in Upload /\ r.row \in Nat \ {0}
  BY DEF IInv, HandsOK, Loops, Looping, LandImport, Parsed, Hands
<1>2. r.forced \subseteq Readable(r.upload) /\ r.forced \in SUBSET Nat
  BY <1>1 DEF WellHeld, Hands
<1>3. PICK b \in NextIds(batches), first \in NextIds(rows) :
        rows' = Inserted(rows, first, OfBatch(r.new, b))
  BY DEF LandImport
<1>4. \A l \in Line : asked'[l] = asked[l] + Copies(r.upload, r.forced, l)
  BY DEF LandImport
<1> DEFINE new == OfBatch(r.new, b)
<1>5. /\ new \in Seq(Row) /\ DOMAIN new = DOMAIN r.new
      /\ \A k \in DOMAIN new : new[k].line = r.new[k].line /\ new[k].copy = r.new[k].copy
  <2>1. b \in Nat
    BY TableParts, NextIdsAbove DEF IInv, FilesOK
  <2> QED BY <1>1, <2>1, OfBatchRows
<1>6. \A n \in r.forced : n < r.row
  <2>1. DOMAIN Content[r.upload] = 1..Len(Content[r.upload]) /\ Len(Content[r.upload]) \in Nat
    BY <1>1, BookkeepingAssumption
  <2>2. r.row \notin DOMAIN Content[r.upload]
    BY <1>1 DEF Parsed
  <2> QED BY <1>1, <1>2, <2>1, <2>2 DEF Readable
<1>7. ASSUME NEW l \in Line
      PROVE  /\ asked'[l] \in Nat
             /\ asked[l] + Cardinality(Suffixed(new, l)) <= asked'[l]
  <2>1. Suffixed(new, l) = Suffixed(r.new, l)
    <3> HIDE DEF new, r
    <3> QED BY <1>5 DEF Suffixed
  <2>2. ForcedSoFar(r, l) = {n \in r.forced : Content[r.upload][n] = l}
    BY <1>6 DEF ForcedSoFar
  <2>3. Cardinality(Suffixed(r.new, l)) <= Copies(r.upload, r.forced, l)
    BY <1>1, <2>2 DEF Counted, Copies
  <2>4. /\ Copies(r.upload, r.forced, l) \in Nat /\ Cardinality(Suffixed(r.new, l)) \in Nat
        /\ asked[l] \in Nat
    <3>1. IsFiniteSet(Suffixed(r.new, l))
      BY <1>1, <1>2, FinitelyMany
    <3> QED BY <1>1, <1>2, <3>1, CopiesType, FS_CardinalityType DEF IInv
  <2> HIDE DEF new, r
  <2> QED BY <1>4, <2>1, <2>3, <2>4
<1>8. Fits(new)
  <2>1. Fits(r.new)
    BY DEF LandImport
  <2> HIDE DEF new, r
  <2> QED BY <1>5, <2>1 DEF Fits, Fingerprint
<1> HIDE DEF new
<1> QED BY <1>3, <1>5, <1>7, <1>8 DEF new, Brings

LEMMA CreateBrings ==
  ASSUME IInv, NEW h \in Hand, Create(h)
  PROVE  UNCHANGED <<rows, asked>> \/ \E new \in Seq(Row) : Brings(new)
<1> DEFINE r == hand[h]
<1>1. /\ r \in Hands /\ r.new \in Seq(Row) /\ r.line \in Line
      /\ Len(r.new) = 1 /\ r.new[1].line = r.line
  BY DEF IInv, HandsOK, Create, Hands, WellHeld
<1>2. CASE Fits(r.new) /\ Named(r.new)
  <2>1. PICK first \in NextIds(rows) : rows' = Inserted(rows, first, r.new)
    BY <1>2 DEF Create
  <2>2. asked' = [asked EXCEPT ![r.line] = @ + 1]
    BY <1>2 DEF Create
  <2>3. ASSUME NEW l \in Line
        PROVE  /\ asked'[l] \in Nat
               /\ asked[l] + Cardinality(Suffixed(r.new, l)) <= asked'[l]
    <3>1. asked[l] \in Nat /\ asked'[l] = IF l = r.line THEN asked[l] + 1 ELSE asked[l]
      BY <1>1, <2>2 DEF IInv
    <3>2. DOMAIN r.new = {1}
      BY <1>1
    <3>3. Suffixed(r.new, l) \subseteq IF l = r.line THEN {1} ELSE {}
      BY <1>1, <3>2 DEF Suffixed
    <3>4. Suffixed(r.new, l) = {} \/ (l = r.line /\ Suffixed(r.new, l) = {1})
      BY <3>3
    <3>5. Cardinality({}) = 0 /\ Cardinality({1}) = 1
      BY FS_EmptySet, FS_Singleton
    <3>6. \/ Cardinality(Suffixed(r.new, l)) = 0
          \/ l = r.line /\ Cardinality(Suffixed(r.new, l)) = 1
      BY <3>4, <3>5
    <3> HIDE DEF r
    <3> QED BY <3>1, <3>6
  <2> HIDE DEF r
  <2> QED BY <1>1, <1>2, <2>1, <2>3 DEF Brings
<1>3. CASE ~(Fits(r.new) /\ Named(r.new))
  BY <1>3 DEF Create
<1> QED BY <1>2, <1>3

\* What an edit writes: one row, asked for unless it stays on its line and was
\* read as it stands.  It then has a suffix only if it had one: nobody else
\* held its fingerprint.
Rewrites(i, next, more) ==
  /\ rows' = [rows EXCEPT ![i] = next]
  /\ asked' = [asked EXCEPT ![next.line] = @ + more]
  /\ next.line # rows[i].line => more = 1
  /\ more = 0 /\ next.copy # 0 => rows[i].copy # 0

LEMMA EditRewrites ==
  ASSUME IInv, NEW h \in Hand, Edit(h)
  PROVE  \/ UNCHANGED <<rows, asked>>
         \/ \E i \in DOMAIN rows, next \in Row, more \in {0, 1} : Rewrites(i, next, more)
<1> DEFINE r    == hand[h]
           i    == r.id
           e    == Edited(r.loaded[i], r.line, r.seen)
           next == Flushed(rows[i], r.loaded[i], e)
           fits == i \in DOMAIN rows /\
                     \A j \in DOMAIN rows \ {i} : Fingerprint(rows[j]) # Fingerprint(next)
           more == IF next.line = rows[i].line /\ rows[i] = r.loaded[i] THEN 0 ELSE 1
<1>1. /\ r.at = "editing" /\ r.line \in Line /\ r.loaded[i] \in Row /\ IsFiniteSet(r.seen)
      /\ Fingerprint(r.loaded[i]) \notin r.seen
  BY LoadedRow DEF Edit, Hands, WellHeld
<1>2. CASE ~fits
  BY <1>2 DEF Edit
<1>3. CASE fits
  <2>1. rows' = [rows EXCEPT ![i] = next] /\ asked' = [asked EXCEPT ![next.line] = @ + more]
    BY <1>3 DEF Edit
  <2>2. e \in Row /\ e.line = r.line /\ e.copy = FreeCopy(r.line, r.seen)
    <3> HIDE DEF r, i
    <3> QED BY <1>1, EditedKeeps
  <2>3. rows[i] \in Row /\ \A j \in DOMAIN rows : rows[j] \in Row
    BY <1>3, RowsParts
  <2>4. next \in Row
    <3> HIDE DEF r, i, e
    <3> QED BY <1>1, <2>2, <2>3, FlushedColumns
  <2>5. more = 0 => next.line = rows[i].line /\ (next.copy # 0 => rows[i].copy # 0)
    <3> SUFFICES ASSUME next.line = rows[i].line, rows[i] = r.loaded[i], next.copy # 0
                 PROVE  rows[i].copy # 0
      OBVIOUS
    <3>1. next = e
      <4> HIDE DEF r, i, e
      <4> QED BY <1>1, <2>2, FlushedFresh
    <3>2. <<r.line, 0>> \in r.seen /\ r.line = rows[i].line
      <4> HIDE DEF r, i, e
      <4> QED BY <2>2, <3>1, <1>1, FreeCopyIsFree
    <3> QED BY <1>1, <3>2 DEF Fingerprint
  <2>6. i \in DOMAIN rows /\ more \in {0, 1}
    BY <1>3
  <2> HIDE DEF r, i, e, next, more
  <2>7. Rewrites(i, next, more)
    BY <2>1, <2>5, <2>6 DEF Rewrites
  <2> QED BY <2>4, <2>6, <2>7
<1> QED BY <1>2, <1>3

LEMMA RewriteCounts ==
  ASSUME IInv, SuffixesAsked, NEW i \in DOMAIN rows, NEW next \in Row, NEW more \in {0, 1},
         Rewrites(i, next, more)
  PROVE  SuffixesAsked'
<1>1. /\ DOMAIN rows' = DOMAIN rows
      /\ \A j \in DOMAIN rows : rows'[j] = IF j = i THEN next ELSE rows[j]
  BY DEF Rewrites
<1> SUFFICES ASSUME NEW l \in Line PROVE Cardinality(Suffixed(rows', l)) <= asked'[l]
  BY DEF SuffixesAsked, Suffixed
<1>2. IsFiniteSet(Suffixed(rows, l)) /\ Cardinality(Suffixed(rows, l)) \in Nat
  BY SuffixedFinite
<1>3. asked[l] \in Nat /\ Cardinality(Suffixed(rows, l)) <= asked[l]
  BY DEF IInv, SuffixesAsked
<1>4. asked'[l] = IF l = next.line THEN asked[l] + more ELSE asked[l]
  BY DEF IInv, Rewrites
<1>5. CASE l = next.line /\ more = 1
  <2>1. Suffixed(rows', l) \subseteq Suffixed(rows, l) \union {i}
    BY <1>1 DEF Suffixed
  <2>2. /\ IsFiniteSet(Suffixed(rows, l) \union {i})
        /\ Cardinality(Suffixed(rows, l) \union {i}) =
             IF i \in Suffixed(rows, l) THEN Cardinality(Suffixed(rows, l))
             ELSE Cardinality(Suffixed(rows, l)) + 1
    BY <1>2, FS_AddElement
  <2>3. /\ IsFiniteSet(Suffixed(rows', l))
        /\ Cardinality(Suffixed(rows', l)) <= Cardinality(Suffixed(rows, l) \union {i})
    BY <2>1, <2>2, FS_Subset
  <2>4. Cardinality(Suffixed(rows', l)) \in Nat
    BY <2>3, FS_CardinalityType
  <2> QED BY <1>2, <1>3, <1>4, <1>5, <2>2, <2>3, <2>4
<1>6. CASE l # next.line \/ more = 0
  <2>1. Suffixed(rows', l) \subseteq Suffixed(rows, l)
    BY <1>1, <1>6 DEF Suffixed, Rewrites
  <2>2. /\ IsFiniteSet(Suffixed(rows', l))
        /\ Cardinality(Suffixed(rows', l)) <= Cardinality(Suffixed(rows, l))
    BY <1>2, <2>1, FS_Subset
  <2>3. Cardinality(Suffixed(rows', l)) \in Nat
    BY <2>2, FS_CardinalityType
  <2> QED BY <1>2, <1>3, <1>4, <1>6, <2>2, <2>3
<1> QED BY <1>5, <1>6

\* The steps that may bring a row or move one to another line.
Counting == \E h \in Hand : LandImport(h) \/ Create(h) \/ Edit(h)

\* Every other step keeps or removes rows, and leaves their fingerprints.
LEMMA OthersCount ==
  ASSUME IInv, [Next]_vars, ~Counting
  PROVE  /\ UNCHANGED asked /\ DOMAIN rows' \subseteq DOMAIN rows
         /\ \A i \in DOMAIN rows' :
              rows'[i].line = rows[i].line /\ rows'[i].copy = rows[i].copy
<1>1. UNCHANGED asked /\ DOMAIN rows' \subseteq DOMAIN rows
  <2>1. ASSUME NEW h \in Hand, ImportStep(h) PROVE UNCHANGED asked /\ DOMAIN rows' \subseteq DOMAIN rows
    <3>1. CASE RollBack(h)
      BY <3>1 DEF RollBack, OutsideBatch, told
    <3> QED BY <2>1, <3>1
            DEF Counting, ImportStep, OpenImport, ImportExpired, AcceptRow, ImportRefused, ArchiveFile,
                ArchiveMissing, StampBatch, OpenRollback, ledger, told
  <2>2. ASSUME NEW h \in Hand, RowStep(h) PROVE UNCHANGED asked /\ DOMAIN rows' \subseteq DOMAIN rows
    <3>1. CASE Mark(h)
      BY <3>1 DEF Mark, told
    <3>2. CASE Delete(h)
      BY <3>2 DEF Delete, told
    <3> QED BY <2>2, <3>1, <3>2 DEF Counting, RowStep, OpenCreate, OpenEdit, OpenMark, ledger, told
  <2>3. ASSUME NEW h \in Hand, FilingStep(h) PROVE UNCHANGED asked /\ DOMAIN rows' \subseteq DOMAIN rows
    <3>1. CASE File(h)
      BY <3>1 DEF File, told
    <3>2. CASE Backfill(h)
      BY <3>2 DEF Backfill, told
    <3>3. CASE Drop(h)
      BY <3>3 DEF Drop, told
    <3> QED BY <2>3, <3>1, <3>2, <3>3
            DEF FilingStep, OpenFile, Learn, LearnRefused, OpenBackfill, OpenDrop, Teach,
                Unteach, ledger, told
  <2>4. Analyze \/ Restart \/ Done \/ UNCHANGED vars => UNCHANGED <<asked, rows>>
    BY DEF Analyze, Restart, Done, vars, ledger, told
  <2> QED BY <2>1, <2>2, <2>3, <2>4 DEF Next
<1>2. ASSUME NEW i \in DOMAIN rows'
      PROVE  rows'[i].line = rows[i].line /\ rows'[i].copy = rows[i].copy
  <2>1. SUFFICES ASSUME rows'[i] # rows[i]
                 PROVE  rows'[i].line = rows[i].line /\ rows'[i].copy = rows[i].copy
    OBVIOUS
  <2>2. i \in DOMAIN rows \intersect DOMAIN rows' /\ rows[i] \in Row
    BY <1>1, RowsParts
  <2>3. PICK h \in Hand : WritesOver(h, i) \/ Empties(h, i)
    BY <2>1, <2>2, RowStory
  <2>4. CASE Empties(h, i)
    BY <2>2, <2>4, UnfiledKeeps DEF Empties
  <2>5. CASE WritesOver(h, i)
    <3> DEFINE r == hand[h]
               l == hand[h].loaded[i]
    <3>1. PICK a \in Row : /\ rows'[i] = Flushed(rows[i], l, a)
                           /\ a.line = l.line /\ a.copy = l.copy
      <4>1. l \in Row
        BY <2>5 DEF WritesOver
      <4>2. CASE r.at = "marking"
        <5>1. r.flag \in BOOLEAN
          BY <2>5, <4>2 DEF WritesOver
        <5> DEFINE m == [l EXCEPT !.transfer = r.flag, !.marked = "manual"]
        <5>2. m \in Row /\ m.line = l.line /\ m.copy = l.copy
          <6> HIDE DEF r, l
          <6> QED BY <4>1, <5>1 DEF Row
        <5>3. rows'[i] = Flushed(rows[i], l, m)
          BY <2>5, <4>2 DEF WritesOver
        <5> QED BY <5>2, <5>3
      <4>3. CASE r.at = "filing"
        BY <2>5, <4>1, <4>3, FiledKeeps DEF WritesOver
      <4>4. CASE r.at = "backfilling"
        BY <2>5, <4>1, <4>4, RefiledKeeps DEF WritesOver
      <4> QED BY <2>5, <4>2, <4>3, <4>4 DEF WritesOver, Counting
    <3>2. l \in Row
      BY <2>5 DEF WritesOver
    <3> HIDE DEF l
    <3> QED BY <2>2, <3>1, <3>2, FlushedColumns
  <2> QED BY <2>3, <2>4, <2>5
<1> QED BY <1>1, <1>2

LEMMA SuffixesKeep ==
  ASSUME IInv, [Next]_vars, Loops, SuffixesAsked
  PROVE  SuffixesAsked'
<1>1. CASE UNCHANGED <<rows, asked>>
  BY <1>1 DEF SuffixesAsked, Suffixed
<1>2. CASE Counting
  <2>1. PICK h \in Hand : LandImport(h) \/ Create(h) \/ Edit(h)
    BY <1>2 DEF Counting
  <2>2. CASE LandImport(h) \/ Create(h)
    BY <1>1, <2>2, LandBrings, CreateBrings, MoreSuffixes
  <2>3. CASE Edit(h)
    BY <1>1, <2>3, EditRewrites, RewriteCounts
  <2> QED BY <2>1, <2>2, <2>3
<1>3. CASE ~Counting
  BY <1>3, OthersCount, FewerSuffixes
<1> QED BY <1>2, <1>3

-----------------------------------------------------------------------------
(* Previews.                                                               *)

LEMMA PreviewsKeep ==
  ASSUME IInv, [Next]_vars, Previews
  PROVE  Previews'
<1>1. CASE Analyze
  <2>1. PICK u \in Upload, swept \in SUBSET pending :
          /\ pending' = (pending \ swept) \union {u}
          /\ shown' = [shown EXCEPT ![u] =
                         [seen |-> Fingerprints(rows),
                          rows |-> Importable(Content[u], Fingerprints(rows))]]
    BY <1>1 DEF Analyze
  <2>2. DOMAIN shown' = Upload /\ Previewed(u)'
    BY <2>1 DEF Previews, Previewed
  <2>3. \A v \in Upload : Previewed(v) => Previewed(v)'
    BY <2>1, <2>2 DEF Previews, Previewed
  <2>4. hand' = hand /\ pending' \subseteq pending \union {u}
    BY <1>1, <2>1 DEF Analyze
  <2>5. pending \subseteq Upload /\ \A h \in Hand : hand[h].upload \in Upload
    BY DEF IInv, FilesOK, HandsOK, Hands
  <2> QED BY <2>2, <2>3, <2>4, <2>5 DEF Previews
<1>2. CASE ~Analyze
  <2>1. shown' = shown /\ pending' \subseteq pending
    <3>1. ASSUME NEW h \in Hand, ImportStep(h) PROVE shown' = shown /\ pending' \subseteq pending
      BY <3>1 DEF ImportStep, OpenImport, ImportExpired, AcceptRow, LandImport, ImportRefused,
                  ArchiveFile, ArchiveMissing, StampBatch, OpenRollback, RollBack, told, files
    <3>2. ASSUME NEW h \in Hand, RowStep(h) PROVE shown' = shown /\ pending' \subseteq pending
      BY <3>2 DEF RowStep, OpenCreate, Create, OpenEdit, Edit, Delete, OpenMark, Mark, told, files
    <3>3. ASSUME NEW h \in Hand, FilingStep(h) PROVE shown' = shown /\ pending' \subseteq pending
      BY <3>3 DEF FilingStep, OpenFile, File, Learn, LearnRefused, OpenBackfill, Backfill,
                  OpenDrop, Drop, Teach, Unteach, told, files
    <3>4. Restart \/ Done \/ UNCHANGED vars => shown' = shown /\ pending' \subseteq pending
      BY DEF Restart, Done, vars, told, files
    <3> QED BY <1>2, <3>1, <3>2, <3>3, <3>4 DEF Next
  <2>2. \A u \in Upload : Previewed(u)' <=> Previewed(u)
    BY <2>1 DEF Previewed
  <2>3. ASSUME NEW h \in Hand, hand'[h].at = "opened"
        PROVE  Previewed(hand'[h].upload)
    <3>1. CASE hand'[h] = hand[h]
      BY <2>3, <3>1 DEF Previews
    <3>2. CASE OpenImport(h)
      <4>1. PICK u, forced, seen, answers :
              u \in pending /\ Goes(h, [AtRest EXCEPT !.at = "opened", !.upload = u,
                                   !.forced = forced, !.seen = seen, !.answers = answers])
        BY <3>2 DEF OpenImport
      <4>2. hand'[h].upload = u
        BY <4>1 DEF Goes, IInv, HandsOK, AtRest
      <4> QED BY <4>1, <4>2 DEF Previews
    <3>3. CASE AcceptRow(h)
      <4>1. hand'[h].upload = hand[h].upload /\ hand[h].at = "opened"
        BY <3>3, OneTurn DEF AcceptRow
      <4> QED BY <4>1 DEF Previews
    <3> QED BY <2>3, <3>1, <3>2, <3>3, HandStory
  <2>4. pending \subseteq Upload /\ \A h \in Hand : hand'[h].upload \in Upload
    <3>1. IInv'
      BY NextKeeps
    <3> QED BY <3>1 DEF IInv, FilesOK, HandsOK, Hands
  <2> QED BY <2>1, <2>2, <2>3, <2>4 DEF Previews
<1> QED BY <1>1, <1>2

-----------------------------------------------------------------------------
(* The theorems.                                                           *)

LEMMA CountsHold == Init => Counts
<1> SUFFICES ASSUME Init PROVE Counts
  OBVIOUS
<1>1. IInv
  BY InitHolds
<1>2. \A h \in Hand : hand[h].at = "rest"
  BY AtRestHeld DEF Init
<1>3. Loops
  BY <1>2 DEF Loops, Looping
<1>4. SuffixesAsked
  <2>1. \A l \in Line : Suffixed(rows, l) = {} /\ asked[l] = 0
    BY DEF Init, Nothing, Suffixed
  <2>2. Cardinality({}) = 0
    BY FS_EmptySet
  <2> QED BY <2>1, <2>2 DEF SuffixesAsked
<1>5. Previews
  BY <1>2 DEF Init, Previews
<1> QED BY <1>1, <1>3, <1>4, <1>5 DEF Counts

\* The inductive invariant of the counts: what the loop of an import keeps
\* from one row of the file to the next, that every suffixed row was asked
\* for, and that every preview on show is the one its file was given
\* (importers/service.py build_preview, commit_import).
THEOREM CountsInvariance == Spec => []Counts
<1>1. Init => Counts
  BY CountsHold
<1>2. Counts /\ [Next]_vars => Counts'
  BY NextKeeps, LoopsKeep, SuffixesKeep, PreviewsKeep DEF Counts
<1> QED BY <1>1, <1>2, PTL DEF Spec

\* A statement line is counted once, and once more for each time somebody made
\* a row of it on purpose: one row of a line at most carries the bare
\* fingerprint, and each suffixed one was asked for (importers/service.py,
\* api/transactions.py _free_fingerprint).
THEOREM OneCopyUnlessAskedAlways == Spec => []OneCopyUnlessAsked
<1>1. Counts => OneCopyUnlessAsked
  <2> SUFFICES ASSUME Counts, NEW l \in Line PROVE CopiesOf(l) <= 1 + asked[l]
    BY DEF OneCopyUnlessAsked
  <2> DEFINE All == {i \in DOMAIN rows : rows[i].line = l}
             Bare == {i \in DOMAIN rows : rows[i].line = l /\ rows[i].copy = 0}
  <2>1. All = Bare \union Suffixed(rows, l)
    BY DEF Suffixed
  <2>2. \A i, j \in Bare : i = j
    BY DEF Counts, IInv, Unique, Fingerprint
  <2>3. Bare = {} \/ \E i \in Bare : Bare = {i}
    <3> HIDE DEF Bare
    <3> QED BY <2>2
  <2>4. IsFiniteSet(Bare) /\ Cardinality(Bare) \in {0, 1}
    <3> HIDE DEF Bare
    <3> QED BY <2>3, FS_EmptySet, FS_Singleton
  <2>5. IsFiniteSet(Suffixed(rows, l)) /\ Cardinality(Suffixed(rows, l)) \in Nat
    BY SuffixedFinite DEF Counts
  <2>6. Cardinality(All) <= Cardinality(Bare) + Cardinality(Suffixed(rows, l))
    <3>1. /\ Cardinality(Bare \union Suffixed(rows, l)) = Cardinality(Bare)
               + Cardinality(Suffixed(rows, l)) - Cardinality(Bare \intersect Suffixed(rows, l))
          /\ IsFiniteSet(Bare \intersect Suffixed(rows, l))
      <4> HIDE DEF Bare
      <4> QED BY <2>4, <2>5, FS_Union, FS_Intersection
    <3>2. Cardinality(Bare \intersect Suffixed(rows, l)) \in Nat
      <4> HIDE DEF Bare
      <4> QED BY <3>1, FS_CardinalityType
    <3> HIDE DEF All, Bare
    <3> QED BY <2>1, <2>4, <2>5, <3>1, <3>2
  <2>7. CopiesOf(l) = Cardinality(All)
    BY DEF CopiesOf
  <2>8. Cardinality(Suffixed(rows, l)) <= asked[l] /\ asked[l] \in Nat
    BY DEF Counts, SuffixesAsked, IInv
  <2>9. Cardinality(All) \in Nat
    <3>1. IsFiniteSet(All)
      <4> HIDE DEF All, Bare
      <4> QED BY <2>1, <2>4, <2>5, FS_Union
    <3> HIDE DEF All
    <3> QED BY <3>1, FS_CardinalityType
  <2> HIDE DEF All, Bare
  <2> QED BY <2>4, <2>5, <2>6, <2>7, <2>8, <2>9
<1> QED BY <1>1, CountsInvariance, PTL

\* An import on fingerprints nobody has changed since never meets the unique
\* constraint, however many copies it forces (importers/service.py).
THEOREM NeverCollidesAloneAlways == Spec => []NeverCollidesAlone
<1>1. Counts => NeverCollidesAlone
  <2> SUFFICES ASSUME Counts, NEW h \in Hand,
                      hand[h].at = "opened", hand[h].seen = Fingerprints(rows)
               PROVE  Fits(hand[h].new)
    BY DEF NeverCollidesAlone
  <2>1. Apart(hand[h])
    BY DEF Counts, Loops, Looping
  <2> QED BY <2>1 DEF Apart, Fits
<1> QED BY <1>1, CountsInvariance, PTL

\* What the preview announced is what lands: the two loops agree, for every
\* file and every ledger (importers/service.py build_preview, commit_import).
THEOREM PreviewKeepsItsWordAlways == Spec => PreviewKeepsItsWord
<1> DEFINE Word ==
             \A h \in Hand :
               hand[h].at = "opened" /\ hand'[h].at = "landed" /\ hand[h].forced = {} =>
                 LET u == hand[h].upload
                 IN  hand[h].seen = shown[u].seen =>
                       {hand[h].new[k].line : k \in DOMAIN hand[h].new}
                         = {Content[u][n] : n \in shown[u].rows}
                       /\ Len(hand[h].new) = Cardinality(shown[u].rows)
<1>1. Counts /\ [Next]_vars => Word
  <2> SUFFICES ASSUME Counts, [Next]_vars, NEW h \in Hand,
                      hand[h].at = "opened", hand'[h].at = "landed", hand[h].forced = {},
                      hand[h].seen = shown[hand[h].upload].seen
               PROVE  LET u == hand[h].upload
                      IN  {hand[h].new[k].line : k \in DOMAIN hand[h].new}
                            = {Content[u][n] : n \in shown[u].rows}
                          /\ Len(hand[h].new) = Cardinality(shown[u].rows)
    OBVIOUS
  <2> DEFINE r == hand[h]
             u == r.upload
  <2>1. r \in Hands /\ IInv
    BY DEF Counts, IInv, HandsOK
  <2>2. Parsed(r)
    <3>1. hand'[h] # hand[h]
      OBVIOUS
    <3>2. ~OpenImport(h)
      BY DEF OpenImport, Starts
    <3>3. ~AcceptRow(h)
      BY <2>1, OneTurn
    <3> QED BY <2>1, <3>1, <3>2, <3>3, HandStory
  <2>3. Announced(r) /\ Previewed(u)
    BY DEF Counts, Loops, Looping, Previews
  <2>4. \A n \in Importable(Content[u], r.seen) : n < r.row
    <3>1. DOMAIN Content[u] = 1..Len(Content[u]) /\ Len(Content[u]) \in Nat /\ r.row \in Nat \ {0}
      BY <2>1, BookkeepingAssumption DEF Hands
    <3>2. r.row \notin DOMAIN Content[u]
      BY <2>2 DEF Parsed
    <3> QED BY <3>1, <3>2 DEF Importable
  <2>5. AnnouncedSoFar(r) = shown[u].rows
    BY <2>3, <2>4 DEF AnnouncedSoFar, Previewed
  <2> QED BY <2>3, <2>5 DEF Announced
<1>2. Counts /\ [Next]_vars => [Word]_vars
  BY <1>1
<1> QED BY <1>2, CountsInvariance, PTL DEF Spec, PreviewKeepsItsWord

-----------------------------------------------------------------------------
(* The ledger counted by line implements OncePerLine.                      *)

\* The rows of a table that are the line l, and those under the bare
\* fingerprint.
OfLine(table, l) == {i \in DOMAIN table : table[i].line = l}
Bare(table, l)   == {i \in DOMAIN table : table[i].line = l /\ table[i].copy = 0}

LEMMA CopiesFinite ==
  ASSUME IInv, NEW l \in Line
  PROVE  /\ IsFiniteSet(OfLine(rows, l)) /\ CopiesOf(l) \in Nat
         /\ CopiesOf(l) = Cardinality(OfLine(rows, l))
<1>1. OfLine(rows, l) \subseteq DOMAIN rows /\ CopiesOf(l) = Cardinality(OfLine(rows, l))
  BY DEF OfLine, CopiesOf
<1>2. IsFiniteSet(OfLine(rows, l))
  BY <1>1, FS_Subset DEF IInv, RowsOK
<1> QED BY <1>1, <1>2, FS_CardinalityType

\* A line nobody holds the bare fingerprint of has room.
LEMMA BareMeansRoom ==
  ASSUME IInv, SuffixesAsked, NEW l \in Line, Bare(rows, l) = {}
  PROVE  CopiesOf(l) <= asked[l]
<1>1. OfLine(rows, l) = Suffixed(rows, l)
  BY DEF OfLine, Bare, Suffixed
<1> QED BY <1>1, CopiesFinite DEF SuffixesAsked

LEMMA OthersTake ==
  ASSUME IInv, IInv', UNCHANGED asked, DOMAIN rows' \subseteq DOMAIN rows,
         \A i \in DOMAIN rows' : rows'[i].line = rows[i].line
  PROVE  Once!Remove
<1>1. ASSUME NEW l \in Line
      PROVE  CopiesOf(l)' \in Nat /\ CopiesOf(l)' <= CopiesOf(l)
  <2>1. OfLine(rows', l) \subseteq OfLine(rows, l)
    BY DEF OfLine
  <2>2. /\ IsFiniteSet(OfLine(rows, l)) /\ CopiesOf(l) = Cardinality(OfLine(rows, l))
        /\ CopiesOf(l)' = Cardinality(OfLine(rows', l))
    BY CopiesFinite DEF CopiesOf, OfLine
  <2>3. IsFiniteSet(OfLine(rows', l)) /\ Cardinality(OfLine(rows', l)) <= Cardinality(OfLine(rows, l))
    BY <2>1, <2>2, FS_Subset
  <2> QED BY <2>2, <2>3, FS_CardinalityType
<1> QED BY <1>1 DEF Once!Remove, Once!Counting

\* What is inserted is asked for, but for one row of each line at most: the
\* one that takes a bare fingerprint nobody holds.
LEMMA BringsOnce ==
  ASSUME IInv, IInv', SuffixesAsked, NEW new \in Seq(Row), Brings(new)
  PROVE  Once!Receive
<1>1. ASSUME NEW l \in Line
      PROVE  /\ CopiesOf(l)' \in Nat /\ asked'[l] \in Nat
             /\ CopiesOf(l) <= CopiesOf(l)' /\ asked[l] <= asked'[l]
             /\ CopiesOf(l)' - CopiesOf(l)
                  <= asked'[l] - asked[l] + (IF CopiesOf(l) <= asked[l] THEN 1 ELSE 0)
  <2> DEFINE W == {row \in Row : row.line = l}
             B == Bare(new, l)
             S == Suffixed(new, l)
  <2>1. PICK first \in NextIds(rows) : rows' = Inserted(rows, first, new)
    BY DEF Brings
  <2>2. /\ OfLine(rows, l) = Picked(rows, W) /\ OfLine(new, l) = Picked(new, W)
        /\ OfLine(rows', l) = Picked(rows', W)
    <3>1. /\ \A i \in DOMAIN rows : rows[i] \in Row
          /\ \A i \in DOMAIN rows' : rows'[i] \in Row
          /\ \A k \in DOMAIN new : new[k] \in Row
      BY <2>1, InsertedRows, RowsParts, TableParts
    <3> QED BY <3>1 DEF OfLine, Picked
  <2>3. /\ Cardinality(OfLine(rows, l)) <= Cardinality(OfLine(rows', l))
        /\ Cardinality(OfLine(rows', l)) <= Cardinality(OfLine(rows, l)) + Cardinality(OfLine(new, l))
        /\ Cardinality(OfLine(new, l)) \in Nat /\ Cardinality(OfLine(rows', l)) \in Nat
    <3> HIDE DEF W
    <3> QED BY <2>1, <2>2, InsertedPicked
  <2>4. /\ CopiesOf(l) = Cardinality(OfLine(rows, l)) /\ CopiesOf(l) \in Nat
        /\ CopiesOf(l)' = Cardinality(OfLine(rows', l))
    BY CopiesFinite DEF CopiesOf, OfLine
  <2>5. /\ \A j, k \in B : j = k
        /\ B # {} => Bare(rows, l) = {}
    <3>1. \A k \in DOMAIN new : Fingerprint(new[k]) \notin Fingerprints(rows)
      BY DEF Brings, Fits
    <3>2. \A j, k \in DOMAIN new : Fingerprint(new[j]) = Fingerprint(new[k]) => j = k
      BY DEF Brings, Fits
    <3>3. \A j, k \in B : j = k
      BY <3>2 DEF Bare, Fingerprint
    <3>4. ASSUME NEW k \in B, NEW i \in Bare(rows, l) PROVE FALSE
      <4>1. Fingerprint(new[k]) = Fingerprint(rows[i])
        BY DEF Bare, Fingerprint
      <4> QED BY <3>1, <4>1 DEF Fingerprints, Bare
    <3> QED BY <3>3, <3>4
  <2>6. \/ B = {} /\ Cardinality(B) = 0
        \/ B # {} /\ Cardinality(B) = 1
    <3>1. B = {} \/ \E k \in B : B = {k}
      <4> HIDE DEF B
      <4> QED BY <2>5
    <3> HIDE DEF B
    <3> QED BY <3>1, FS_EmptySet, FS_Singleton
  <2>7. IsFiniteSet(B) /\ IsFiniteSet(S)
    <3>1. B \subseteq DOMAIN new /\ S \subseteq DOMAIN new /\ IsFiniteSet(DOMAIN new)
      BY FS_Interval DEF Bare, Suffixed
    <3> HIDE DEF B, S
    <3> QED BY <3>1, FS_Subset
  <2>8. OfLine(new, l) = B \union S /\ B \intersect S = {}
    BY DEF OfLine, Bare, Suffixed
  <2>9. Cardinality(OfLine(new, l)) = Cardinality(B) + Cardinality(S) /\ Cardinality(S) \in Nat
    <3>1. Cardinality(B \union S) = Cardinality(B) + Cardinality(S) - Cardinality(B \intersect S)
      <4> HIDE DEF B, S
      <4> QED BY <2>7, FS_Union
    <3>2. Cardinality(B \intersect S) = 0 /\ Cardinality(S) \in Nat /\ Cardinality(B) \in Nat
      <4> HIDE DEF B, S
      <4> QED BY <2>7, <2>8, FS_EmptySet, FS_CardinalityType
    <3> HIDE DEF B, S
    <3> QED BY <2>8, <3>1, <3>2
  <2>10. B # {} => CopiesOf(l) <= asked[l]
    BY <2>5, BareMeansRoom
  <2>11. asked[l] \in Nat /\ asked'[l] \in Nat /\ asked[l] + Cardinality(S) <= asked'[l]
    BY DEF Brings, IInv
  <2> HIDE DEF B, S
  <2> QED BY <2>3, <2>4, <2>6, <2>9, <2>10, <2>11
<1>2. asked' \in [Line -> Nat]
  BY DEF IInv
<1> QED BY <1>1, <1>2 DEF Once!Receive, Once!Counting, Once!Room

\* An edit moves one row, or leaves every count where it was.
LEMMA RewritesOnce ==
  ASSUME IInv, IInv', NEW i \in DOMAIN rows, NEW next \in Row, NEW more \in {0, 1},
         Rewrites(i, next, more)
  PROVE  Once!Next
<1>1. /\ DOMAIN rows' = DOMAIN rows
      /\ \A j \in DOMAIN rows : rows'[j] = IF j = i THEN next ELSE rows[j]
  BY DEF Rewrites
<1>2. PICK l \in Line, k \in Line : l = rows[i].line /\ k = next.line
  BY RowsParts DEF Row
<1>3. /\ \A m \in Line : CopiesOf(m) = Cardinality(OfLine(rows, m)) /\ CopiesOf(m) \in Nat
      /\ \A m \in Line : CopiesOf(m)' = Cardinality(OfLine(rows', m))
      /\ \A m \in Line : IsFiniteSet(OfLine(rows, m))
  BY CopiesFinite DEF CopiesOf, OfLine
<1>4. asked \in [Line -> Nat] /\ asked' = [asked EXCEPT ![k] = @ + more]
  BY <1>2 DEF IInv, Rewrites
<1>5. CASE l = k
  <2>1. ASSUME NEW m \in Line
        PROVE  CopiesOf(m)' = CopiesOf(m) /\ asked[m] <= asked'[m] /\ asked'[m] \in Nat
    <3>1. OfLine(rows', m) = OfLine(rows, m)
      BY <1>1, <1>2, <1>5 DEF OfLine
    <3>2. asked[m] \in Nat /\ asked'[m] = IF m = k THEN asked[m] + more ELSE asked[m]
      BY <1>2, <1>4
    <3> QED BY <1>3, <3>1, <3>2
  <2>2. Once!Receive
    <3>1. asked' \in [Line -> Nat]
      BY DEF IInv
    <3>2. ASSUME NEW m \in Line
          PROVE  /\ CopiesOf(m)' \in Nat /\ CopiesOf(m) <= CopiesOf(m)' /\ asked[m] <= asked'[m]
                 /\ CopiesOf(m)' - CopiesOf(m)
                      <= asked'[m] - asked[m] + (IF CopiesOf(m) <= asked[m] THEN 1 ELSE 0)
      <4>1. CopiesOf(m) \in Nat /\ asked[m] \in Nat
        BY <1>3, <1>4
      <4> QED BY <2>1, <4>1
    <3> QED BY <3>1, <3>2 DEF Once!Receive, Once!Counting, Once!Room
  <2> QED BY <2>2 DEF Once!Next
<1>6. CASE l # k
  <2>1. more = 1
    BY <1>2, <1>6 DEF Rewrites
  <2>2. OfLine(rows', l) = OfLine(rows, l) \ {i} /\ i \in OfLine(rows, l)
    BY <1>1, <1>2, <1>6 DEF OfLine
  <2>3. OfLine(rows', k) = OfLine(rows, k) \union {i} /\ i \notin OfLine(rows, k)
    BY <1>1, <1>2, <1>6 DEF OfLine
  <2>4. \A m \in Line \ {l, k} : OfLine(rows', m) = OfLine(rows, m)
    BY <1>1, <1>2 DEF OfLine
  <2>5. CopiesOf(l)' = CopiesOf(l) - 1
    BY <1>2, <1>3, <2>2, FS_RemoveElement
  <2>6. CopiesOf(k)' = CopiesOf(k) + 1
    BY <1>2, <1>3, <2>3, FS_AddElement
  <2>7. CopiesOf(l) > 0
    <3>1. OfLine(rows, l) # {}
      BY <2>2
    <3> QED BY <1>2, <1>3, <3>1, FS_EmptySet
  <2>8. \A m \in Line : CopiesOf(m)' = IF m = k THEN CopiesOf(m) + 1
                                       ELSE IF m = l THEN CopiesOf(m) - 1 ELSE CopiesOf(m)
    BY <1>3, <1>6, <2>4, <2>5, <2>6
  <2>9. Once!Move(l, k)
    <3>1. [m \in Line |-> CopiesOf(m)]' =
            [[m \in Line |-> CopiesOf(m)] EXCEPT ![l] = @ - 1, ![k] = @ + 1]
      BY <1>2, <1>6, <2>8
    <3> QED BY <1>2, <1>4, <1>6, <2>1, <2>7, <3>1 DEF Once!Move
  <2> QED BY <1>2, <2>9 DEF Once!Next
<1> QED BY <1>5, <1>6

\* Counted by line, the ledger is the one OncePerLine promises: whatever
\* requests overlap, no step counts a line once more than it was asked for and
\* its statement brought (importers/service.py, api/transactions.py).
THEOREM CountsAsPromisedAlways == Spec => CountsAsPromised
<1>1. Init => Once!Init
  <2> SUFFICES ASSUME Init PROVE Once!Init
    OBVIOUS
  <2>1. ASSUME NEW l \in Line PROVE CopiesOf(l) = 0
    <3>1. {i \in DOMAIN rows : rows[i].line = l} = {}
      BY DEF Init, Nothing
    <3> QED BY <3>1, FS_EmptySet DEF CopiesOf
  <2> QED BY <2>1 DEF Init, Once!Init
<1>2. Counts /\ Counts' /\ [Next]_vars
        => [Once!Next]_<<[l \in Line |-> CopiesOf(l)], asked>>
  <2> SUFFICES ASSUME Counts, Counts', [Next]_vars
               PROVE  Once!Next \/ UNCHANGED <<[l \in Line |-> CopiesOf(l)], asked>>
    OBVIOUS
  <2>1. IInv /\ IInv' /\ SuffixesAsked /\ Loops
    BY DEF Counts
  <2>2. CASE UNCHANGED <<rows, asked>>
    BY <2>2 DEF CopiesOf
  <2>3. CASE ~Counting
    <3>1. Once!Remove
      BY <2>1, <2>3, OthersCount, OthersTake
    <3> QED BY <3>1 DEF Once!Next
  <2>4. CASE Counting /\ ~UNCHANGED <<rows, asked>>
    <3>1. PICK h \in Hand : LandImport(h) \/ Create(h) \/ Edit(h)
      BY <2>4 DEF Counting
    <3>2. CASE LandImport(h) \/ Create(h)
      <4>1. PICK new \in Seq(Row) : Brings(new)
        BY <2>1, <2>4, <3>2, LandBrings, CreateBrings
      <4> QED BY <2>1, <4>1, BringsOnce DEF Once!Next
    <3>3. CASE Edit(h)
      <4>1. PICK i \in DOMAIN rows, next \in Row, more \in {0, 1} : Rewrites(i, next, more)
        BY <2>1, <2>4, <3>3, EditRewrites
      <4> QED BY <2>1, <4>1, RewritesOnce
    <3> QED BY <3>1, <3>2, <3>3
  <2> QED BY <2>2, <2>3, <2>4
<1> QED BY <1>1, <1>2, CountsInvariance, PTL DEF Spec, CountsAsPromised, Once!Spec
=============================================================================
