---------------------------- MODULE FilingProofs ----------------------------
(***************************************************************************)
(* Filing, for any household: any lines, files, categories and rules, any  *)
(* number of requests at a time and of restarts.  Types and foreign keys,  *)
(* batches and their rows, and what a request working on stale rows may    *)
(* overwrite.                                                              *)
(***************************************************************************)
EXTENDS Filing, LedgerProofs

Stages ==
  { "rest", "opened", "landed", "archived", "rolling", "creating", "editing",
    "marking", "filing", "filed", "learned", "backfilling", "dropping" }

Tables(T) == UNION {[D -> T] : D \in SUBSET (Nat \ {0})}

Hands ==
  [ at : Stages, id : Nat, upload : Upload, forced : SUBSET Nat, line : Line,
    category : Category \union {NoCategory}, flag : BOOLEAN,
    seen : SUBSET (Line \X Nat), answers : Tables(Answer), row : Nat \ {0},
    loaded : Tables(Row), new : Seq(Row) ]

Batch == [upload : Upload, imported : Nat, stored : BOOLEAN]

\* What a request holds at each stage.  It depends on no variable but the
\* request's own, so nothing another request commits can disturb it.
WellHeld(r) ==
  /\ r.at = "opened" => /\ r.forced \subseteq Readable(r.upload)
                        /\ r.answers \in [Readable(r.upload) -> Answer]
                        /\ IsFiniteSet(r.seen)
  /\ r.at = "landed" => r.id # 0
  /\ r.at = "creating" => Len(r.new) = 1 /\ r.new[1].line = r.line /\ r.new[1].batch = ByHand
  /\ r.at \in {"editing", "marking", "filing"} => DOMAIN r.loaded = {r.id}
  /\ r.at = "editing" => /\ IsFiniteSet(r.seen)
                         /\ Fingerprint(r.loaded[r.id]) \notin r.seen
  /\ r.at \in {"filed", "learned", "backfilling", "dropping"} => r.category \in Category
  /\ r.at = "backfilling" =>
       \A i \in DOMAIN r.loaded : r.loaded[i].source \in Overrulable

HandsOK ==
  /\ hand \in [Hand -> Hands]
  /\ \A h \in Hand : WellHeld(hand[h])

RowsOK ==
  /\ rows \in Tables(Row) /\ IsFiniteSet(DOMAIN rows)
  /\ \A i \in DOMAIN rows : rows[i].category \in categories \union {NoCategory}

RulesOK ==
  /\ categories \subseteq Category /\ rules \subseteq Rule
  /\ \A r \in rules : r.category \in categories

FilesOK ==
  /\ batches \in Tables(Batch) /\ archive \in Tables(Upload)
  /\ pending \subseteq Upload

\* No two rows with one fingerprint: the unique constraint of the table.
Unique ==
  \A i, j \in DOMAIN rows : Fingerprint(rows[i]) = Fingerprint(rows[j]) => i = j

\* The inductive invariant.
IInv ==
  HandsOK /\ RowsOK /\ RulesOK /\ FilesOK /\ asked \in [Line -> Nat] /\ Unique /\ NoOrphan

-----------------------------------------------------------------------------
(* Tables.                                                                 *)

LEMMA InTables ==
  ASSUME NEW T, NEW D \in SUBSET (Nat \ {0}), NEW f \in [D -> T]
  PROVE  f \in Tables(T)
BY DEF Tables

LEMMA TableParts ==
  ASSUME NEW T, NEW f \in Tables(T)
  PROVE  /\ DOMAIN f \in SUBSET (Nat \ {0})
         /\ f \in [DOMAIN f -> T]
         /\ \A i \in DOMAIN f : f[i] \in T
BY DEF Tables

LEMMA NothingIsTable == ASSUME NEW T PROVE Nothing \in Tables(T) /\ DOMAIN Nothing = {}
<1>1. Nothing \in [{} -> T] /\ DOMAIN Nothing = {}
  BY DEF Nothing
<1> QED BY <1>1, InTables

LEMMA AtRestHeld ==
  /\ AtRest \in Hands /\ WellHeld(AtRest)
  /\ AtRest.at = "rest" /\ AtRest.new = <<>> /\ AtRest.row = 1
<1>1. (CHOOSE u \in Upload : TRUE) \in Upload /\ (CHOOSE l \in Line : TRUE) \in Line
  BY LedgerAssumption, BookkeepingAssumption
<1>2. Nothing \in Tables(Answer) /\ Nothing \in Tables(Row) /\ <<>> \in Seq(Row)
  BY NothingIsTable
<1> QED BY <1>1, <1>2 DEF AtRest, Hands, Stages, WellHeld

\* A request moves on: the others hold what they held.
LEMMA GoesOn ==
  ASSUME HandsOK, NEW h \in Hand, NEW r \in Hands, WellHeld(r), Goes(h, r)
  PROVE  HandsOK'
BY DEF HandsOK, Goes

LEMMA EndsOn ==
  ASSUME HandsOK, NEW h \in Hand, Ends(h)
  PROVE  HandsOK'
BY AtRestHeld, GoesOn DEF Ends

-----------------------------------------------------------------------------
(* The fingerprints of a table.                                            *)

LEMMA FingerprintsOf ==
  ASSUME NEW f, NEW D, D \subseteq DOMAIN f, IsFiniteSet(D), \A i \in D : f[i] \in Row
  PROVE  /\ {Fingerprint(f[i]) : i \in D} \in SUBSET (Line \X Nat)
         /\ IsFiniteSet({Fingerprint(f[i]) : i \in D})
<1> DEFINE S == {Fingerprint(f[i]) : i \in D}
           g == [i \in D |-> Fingerprint(f[i])]
<1>1. S \in SUBSET (Line \X Nat)
  BY DEF Fingerprint, Row
<1>2. g \in Surjection(D, S)
  BY DEF Surjection
<1>3. IsFiniteSet(S)
  <2> HIDE DEF g, S
  <2> QED BY <1>2, FS_Surjection
<1> QED BY <1>1, <1>3

LEMMA RowsParts ==
  ASSUME IInv
  PROVE  /\ DOMAIN rows \in SUBSET (Nat \ {0}) /\ rows \in [DOMAIN rows -> Row]
         /\ \A i \in DOMAIN rows : rows[i] \in Row
         /\ Fingerprints(rows) \in SUBSET (Line \X Nat) /\ IsFiniteSet(Fingerprints(rows))
<1>1. /\ DOMAIN rows \in SUBSET (Nat \ {0}) /\ rows \in [DOMAIN rows -> Row]
      /\ \A i \in DOMAIN rows : rows[i] \in Row
  BY TableParts DEF IInv, RowsOK
<1>2. /\ {Fingerprint(rows[i]) : i \in DOMAIN rows} \in SUBSET (Line \X Nat)
      /\ IsFiniteSet({Fingerprint(rows[i]) : i \in DOMAIN rows})
  BY <1>1, FingerprintsOf DEF IInv, RowsOK
<1> QED BY <1>1, <1>2 DEF Fingerprints

-----------------------------------------------------------------------------
(* Steps that only move a request on.                                      *)

LEMMA QuietKeeps ==
  ASSUME IInv, HandsOK', UNCHANGED <<ledger, files, told>>
  PROVE  IInv'
BY DEF IInv, RowsOK, RulesOK, FilesOK, Unique, NoOrphan, ledger, files, told

LEMMA AnswerToType ==
  ASSUME IInv, NEW u \in Upload, NEW n \in Readable(u),
         NEW picked, NEW picks \in [picked -> categories]
  PROVE  AnswerTo(u, n, picks) \in Answer
<1>1. Content[u][n] \in Line
  BY BookkeepingAssumption DEF Readable
<1>2. rules \in SUBSET Rule /\ categories \in SUBSET Category
  BY DEF IInv, RulesOK
<1>3. Resolved(Content[u][n], rules, categories) \in Answer
  BY <1>1, <1>2, ResolvedType
<1>4. n \in DOMAIN picks => Chosen(picks[n]) \in Answer
  BY <1>2 DEF Chosen, Answer, Source
<1> QED BY <1>3, <1>4 DEF AnswerTo

LEMMA OpenImportKeeps ==
  ASSUME IInv, NEW h \in Hand, OpenImport(h)
  PROVE  IInv'
<1>0. PICK u \in pending, picked \in SUBSET Pickable :
        \E forced \in SUBSET Readable(u), picks \in [picked -> categories] :
          Goes(h, [AtRest EXCEPT !.at = "opened", !.upload = u, !.forced = forced,
                     !.seen = Fingerprints(rows),
                     !.answers = [n \in Readable(u) |-> AnswerTo(u, n, picks)]])
  BY DEF OpenImport
<1>1. PICK forced \in SUBSET Readable(u), picks \in [picked -> categories] :
        Goes(h, [AtRest EXCEPT !.at = "opened", !.upload = u, !.forced = forced,
                   !.seen = Fingerprints(rows),
                   !.answers = [n \in Readable(u) |-> AnswerTo(u, n, picks)]])
  BY <1>0
<1> DEFINE answers == [n \in Readable(u) |-> AnswerTo(u, n, picks)]
           r == [AtRest EXCEPT !.at = "opened", !.upload = u, !.forced = forced,
                   !.seen = Fingerprints(rows), !.answers = answers]
<1>2. u \in Upload
  BY DEF IInv, FilesOK
<1>3. answers \in [Readable(u) -> Answer]
  BY <1>2, AnswerToType
<1>4. Readable(u) \in SUBSET (Nat \ {0})
  BY <1>2, BookkeepingAssumption DEF Readable
<1>5. answers \in Tables(Answer)
  <2> HIDE DEF answers
  <2> QED BY <1>3, <1>4, InTables
<1>6. /\ Fingerprints(rows) \in SUBSET (Line \X Nat) /\ IsFiniteSet(Fingerprints(rows))
  BY RowsParts
<1>7. r \in Hands /\ WellHeld(r)
  <2> HIDE DEF answers
  <2> QED BY <1>2, <1>3, <1>4, <1>5, <1>6, AtRestHeld DEF Hands, Stages, WellHeld
<1>8. HandsOK'
  <2> HIDE DEF r
  <2> QED BY <1>1, <1>7, GoesOn DEF IInv, r
<1> QED BY <1>8, QuietKeeps DEF OpenImport

\* The accepted rows so far, as the loop of commit_import holds them.
LEMMA AcceptedType ==
  ASSUME IInv, NEW h \in Hand, AcceptRow(h)
  PROVE  LET r     == hand[h]
             taken == r.seen \union Fingerprints(r.new)
         IN  /\ r \in Hands /\ WellHeld(r) /\ r.at = "opened"
             /\ r.row \in DOMAIN Content[r.upload]
             /\ IsFiniteSet(taken)
             /\ Accepted(r.new, taken, Content[r.upload], r.row, r.forced, r.answers, ByHand)
                  \in Seq(Row)
<1> DEFINE r == hand[h]
           file == Content[r.upload]
           n == r.row
           taken == r.seen \union Fingerprints(r.new)
<1>1. /\ r \in Hands /\ WellHeld(r) /\ r.at = "opened" /\ n \in DOMAIN file
  BY DEF IInv, HandsOK, AcceptRow
<1>2. /\ r.new \in Seq(Row) /\ r.seen \in SUBSET (Line \X Nat) /\ n \in Nat /\ r.upload \in Upload
  BY <1>1 DEF Hands
<1>3. IsFiniteSet(taken)
  <2>1. IsFiniteSet(DOMAIN r.new)
    BY <1>2, FS_Interval
  <2>2. \A k \in DOMAIN r.new : r.new[k] \in Row
    BY <1>2
  <2>3. IsFiniteSet({Fingerprint(r.new[k]) : k \in DOMAIN r.new})
    <3> HIDE DEF r
    <3> QED BY <2>1, <2>2, FingerprintsOf
  <2>4. IsFiniteSet(Fingerprints(r.new))
    BY <2>3 DEF Fingerprints
  <2>5. IsFiniteSet(r.seen)
    BY <1>1 DEF WellHeld
  <2> QED BY <2>4, <2>5, FS_Union
<1>4. ASSUME file[n] # Unreadable, NEW copy \in Nat
      PROVE  NewRow(file[n], copy, ByHand, r.answers[n]) \in Row
  <2>1. file[n] \in Line /\ n \in Readable(r.upload)
    BY <1>1, <1>2, <1>4, BookkeepingAssumption DEF Readable
  <2>2. r.answers[n] \in Answer
    BY <1>1, <2>1 DEF WellHeld
  <2> HIDE DEF r, file, n
  <2> QED BY <2>1, <2>2, NewRowType DEF ByHand
<1>5. FreeFrom(file[n], n, taken) \in Nat
  <2> HIDE DEF taken, n
  <2> QED BY <1>2, <1>3, FreeFromIsFree
<1>6. Accepted(r.new, taken, file, n, r.forced, r.answers, ByHand) \in Seq(Row)
  <2> HIDE DEF r, file, n, taken
  <2> QED BY <1>2, <1>4, <1>5 DEF Accepted
<1> QED BY <1>1, <1>3, <1>6

LEMMA AcceptRowKeeps ==
  ASSUME IInv, NEW h \in Hand, AcceptRow(h)
  PROVE  IInv'
<1> DEFINE r == hand[h]
           new == Accepted(r.new, r.seen \union Fingerprints(r.new), Content[r.upload],
                           r.row, r.forced, r.answers, ByHand)
           next == r.row + 1
           s == [r EXCEPT !.row = next, !.new = new]
<1>1. r \in Hands /\ WellHeld(r) /\ r.at = "opened" /\ new \in Seq(Row)
  BY AcceptedType
<1>2. Goes(h, s)
  BY <1>1 DEF AcceptRow, Hands
<1>3. /\ s \in Hands /\ s.at = "opened" /\ s.upload = r.upload
      /\ s.forced = r.forced /\ s.answers = r.answers /\ s.seen = r.seen
  <2>1. next \in Nat \ {0}
    <3> HIDE DEF r
    <3> QED BY <1>1 DEF Hands
  <2> HIDE DEF r, new, next
  <2> QED BY <1>1, <2>1 DEF Hands
<1>4. WellHeld(s)
  <2> HIDE DEF r, s
  <2> QED BY <1>1, <1>3 DEF WellHeld
<1>5. HandsOK'
  <2> HIDE DEF s
  <2> QED BY <1>2, <1>3, <1>4, GoesOn DEF IInv
<1> QED BY <1>5, QuietKeeps DEF AcceptRow

LEMMA ReadingKeeps ==
  ASSUME IInv, NEW h \in Hand,
         \/ ImportExpired(h) \/ ImportRefused(h) \/ ArchiveMissing(h)
         \/ LearnRefused(h)
  PROVE  IInv'
<1>1. HandsOK'
  BY EndsOn DEF ImportExpired, ImportRefused, ArchiveMissing, LearnRefused, IInv, HandsOK
<1> QED BY <1>1, QuietKeeps DEF ImportExpired, ImportRefused, ArchiveMissing, LearnRefused

LEMMA OpenRollbackKeeps ==
  ASSUME IInv, NEW h \in Hand, OpenRollback(h)
  PROVE  IInv'
<1>1. PICK b \in DOMAIN batches : Goes(h, [AtRest EXCEPT !.at = "rolling", !.id = b])
  BY DEF OpenRollback
<1>2. b \in Nat
  BY TableParts DEF IInv, FilesOK
<1> DEFINE r == [AtRest EXCEPT !.at = "rolling", !.id = b]
<1>3. r \in Hands /\ WellHeld(r)
  BY <1>2, AtRestHeld DEF Hands, Stages, WellHeld
<1>4. HandsOK'
  <2> HIDE DEF r
  <2> QED BY <1>1, <1>3, GoesOn DEF IInv, r
<1> QED BY <1>4, QuietKeeps DEF OpenRollback

-----------------------------------------------------------------------------
(* Steps that insert rows.                                                 *)

LEMMA NextIdsAbove ==
  ASSUME NEW table, DOMAIN table \in SUBSET (Nat \ {0}), NEW n \in NextIds(table)
  PROVE  n \in Nat \ {0} /\ \A m \in DOMAIN table : m < n
BY DEF NextIds

\* The rows already there stay where they are; every other row is one of the
\* new ones, each under its own key.
LEMMA InsertedRows ==
  ASSUME IInv, NEW first \in NextIds(rows), NEW new \in Seq(Row)
  PROVE  LET t == Inserted(rows, first, new)
         IN  /\ t \in Tables(Row) /\ IsFiniteSet(DOMAIN t)
             /\ \A i \in DOMAIN rows : i \in DOMAIN t /\ t[i] = rows[i]
             /\ \A i \in DOMAIN t \ DOMAIN rows :
                  i - first + 1 \in DOMAIN new /\ t[i] = new[i - first + 1]
             /\ \A k \in DOMAIN new :
                  first + k - 1 \in DOMAIN t \ DOMAIN rows /\ t[first + k - 1] = new[k]
<1> DEFINE t == Inserted(rows, first, new)
           D == {first + k - 1 : k \in DOMAIN new}
<1>1. DOMAIN rows \in SUBSET (Nat \ {0}) /\ \A i \in DOMAIN rows : rows[i] \in Row
  BY RowsParts
<1>2. first \in Nat \ {0} /\ \A m \in DOMAIN rows : m < first
  BY <1>1, NextIdsAbove
<1>3. DOMAIN t = DOMAIN rows \union D
  BY DEF Inserted
<1>4. DOMAIN new = 1..Len(new) /\ Len(new) \in Nat /\ \A k \in DOMAIN new : new[k] \in Row
  OBVIOUS
<1>5. \A i \in DOMAIN rows : i \in DOMAIN t /\ t[i] = rows[i]
  BY DEF Inserted
<1>6. \A i \in DOMAIN t \ DOMAIN rows : i - first + 1 \in DOMAIN new /\ t[i] = new[i - first + 1]
  BY <1>2, <1>3, <1>4 DEF Inserted
<1>7. \A k \in DOMAIN new : first + k - 1 \in DOMAIN t \ DOMAIN rows /\ t[first + k - 1] = new[k]
  <2>1. ASSUME NEW k \in DOMAIN new
        PROVE  first + k - 1 \notin DOMAIN rows /\ (first + k - 1) - first + 1 = k
    BY <1>1, <1>2, <1>4
  <2>2. ASSUME NEW k \in DOMAIN new
        PROVE  first + k - 1 \in DOMAIN t
    BY <1>3
  <2> HIDE DEF t
  <2> QED BY <1>6, <2>1, <2>2
<1>8. D \subseteq first..(first + Len(new)) /\ D \in SUBSET (Nat \ {0})
  BY <1>2, <1>4
<1>9. IsFiniteSet(DOMAIN t)
  <2>1. IsFiniteSet(first..(first + Len(new)))
    BY <1>2, <1>4, FS_Interval
  <2>2. IsFiniteSet(D)
    <3> HIDE DEF D
    <3> QED BY <1>8, <2>1, FS_Subset
  <2>3. IsFiniteSet(DOMAIN rows)
    BY DEF IInv, RowsOK
  <2> HIDE DEF t, D
  <2> QED BY <1>3, <2>2, <2>3, FS_Union
<1>10. t \in Tables(Row)
  <2>1. \A i \in DOMAIN t : t[i] \in Row
    <3> HIDE DEF t
    <3> QED BY <1>1, <1>4, <1>5, <1>6
  <2>2. DOMAIN t \in SUBSET (Nat \ {0})
    <3> HIDE DEF t, D
    <3> QED BY <1>1, <1>3, <1>8
  <2>3. t = [i \in DOMAIN t |-> t[i]]
    BY DEF Inserted
  <2> HIDE DEF t
  <2> QED BY <2>1, <2>2, <2>3, InTables
<1> QED BY <1>5, <1>6, <1>7, <1>9, <1>10

\* An insertion the constraints let through leaves the table with one row per
\* fingerprint, and with categories that exist.
LEMMA InsertionKeeps ==
  ASSUME IInv, NEW first \in NextIds(rows), NEW new \in Seq(Row),
         Fits(new), Named(new), rows' = Inserted(rows, first, new),
         UNCHANGED categories
  PROVE  /\ RowsOK' /\ Unique'
         /\ \A i \in DOMAIN rows : i \in DOMAIN rows' /\ rows'[i] = rows[i]
         /\ \A i \in DOMAIN rows' \ DOMAIN rows :
              \E k \in DOMAIN new : i = first + k - 1 /\ rows'[i] = new[k]
<1>1. /\ rows' \in Tables(Row) /\ IsFiniteSet(DOMAIN rows')
      /\ \A i \in DOMAIN rows : i \in DOMAIN rows' /\ rows'[i] = rows[i]
      /\ \A i \in DOMAIN rows' \ DOMAIN rows :
           i - first + 1 \in DOMAIN new /\ rows'[i] = new[i - first + 1]
  BY InsertedRows
<1>2. DOMAIN rows \in SUBSET (Nat \ {0}) /\ DOMAIN rows' \in SUBSET (Nat \ {0})
  BY <1>1, RowsParts, TableParts
<1>3. first \in Nat \ {0}
  BY <1>2, NextIdsAbove
<1>4. \A i \in DOMAIN rows' : rows'[i].category \in categories' \union {NoCategory}
  BY <1>1 DEF IInv, RowsOK, Named
<1>5. \A i \in DOMAIN rows' \ DOMAIN rows :
        \E k \in DOMAIN new : i = first + k - 1 /\ rows'[i] = new[k]
  <2>1. ASSUME NEW i \in DOMAIN rows' \ DOMAIN rows
        PROVE  i = first + (i - first + 1) - 1
    BY <1>2, <1>3
  <2> QED BY <1>1, <2>1
<1>6. ASSUME NEW i \in DOMAIN rows', NEW j \in DOMAIN rows',
             Fingerprint(rows'[i]) = Fingerprint(rows'[j])
      PROVE  i = j
  <2>1. CASE i \in DOMAIN rows /\ j \in DOMAIN rows
    BY <1>1, <1>6, <2>1 DEF IInv, Unique
  <2>2. CASE i \in DOMAIN rows /\ j \notin DOMAIN rows
    BY <1>1, <1>6, <2>2 DEF Fits, Fingerprints
  <2>3. CASE i \notin DOMAIN rows /\ j \in DOMAIN rows
    BY <1>1, <1>6, <2>3 DEF Fits, Fingerprints
  <2>4. CASE i \notin DOMAIN rows /\ j \notin DOMAIN rows
    <3>1. i - first + 1 = j - first + 1
      BY <1>1, <1>6, <2>4 DEF Fits
    <3> QED BY <1>2, <1>3, <3>1
  <2> QED BY <2>1, <2>2, <2>3, <2>4
<1> QED BY <1>1, <1>4, <1>5, <1>6 DEF RowsOK, Unique

LEMMA OfBatchRows ==
  ASSUME NEW new \in Seq(Row), NEW b \in Nat
  PROVE  LET n == OfBatch(new, b)
         IN  /\ n \in Seq(Row) /\ DOMAIN n = DOMAIN new
             /\ \A k \in DOMAIN n : /\ n[k].batch = b /\ n[k].line = new[k].line
                                    /\ n[k].copy = new[k].copy
                                    /\ n[k].category = new[k].category
             /\ Fits(n) <=> Fits(new)
             /\ Named(n) <=> Named(new)
<1> DEFINE n == OfBatch(new, b)
<1>1. ASSUME NEW k \in 1..Len(new)
      PROVE  LET row == [new[k] EXCEPT !.batch = b]
             IN  /\ row \in Row /\ row.batch = b /\ row.line = new[k].line
                 /\ row.copy = new[k].copy /\ row.category = new[k].category
  <2>1. new[k] \in Row
    OBVIOUS
  <2> QED BY <2>1 DEF Row
<1>2. n = [k \in 1..Len(new) |-> [new[k] EXCEPT !.batch = b]]
  BY DEF OfBatch
<1>3. n \in Seq(Row) /\ DOMAIN n = DOMAIN new
  BY <1>1, <1>2
<1>4. \A k \in DOMAIN n : /\ n[k].batch = b /\ n[k].line = new[k].line
                          /\ n[k].copy = new[k].copy /\ n[k].category = new[k].category
  BY <1>1, <1>2
<1>5. \A k \in DOMAIN n : Fingerprint(n[k]) = Fingerprint(new[k])
  <2> HIDE DEF n
  <2> QED BY <1>4 DEF Fingerprint
<1>6. (Fits(n) <=> Fits(new)) /\ (Named(n) <=> Named(new))
  <2> HIDE DEF n
  <2> QED BY <1>3, <1>4, <1>5 DEF Fits, Named
<1> QED BY <1>3, <1>4, <1>6

LEMMA CopiesType ==
  ASSUME NEW u \in Upload, NEW forced, forced \subseteq Readable(u), NEW l
  PROVE  Copies(u, forced, l) \in Nat
<1>1. IsFiniteSet(DOMAIN Content[u])
  <2>1. Content[u] \in Seq(Line \union {Unreadable})
    BY BookkeepingAssumption
  <2> QED BY <2>1, FS_Interval
<1>2. {n \in forced : Content[u][n] = l} \subseteq DOMAIN Content[u]
  BY DEF Readable
<1>3. IsFiniteSet({n \in forced : Content[u][n] = l})
  BY <1>1, <1>2, FS_Subset
<1> QED BY <1>3, FS_CardinalityType DEF Copies

LEMMA LandImportKeeps ==
  ASSUME IInv, NEW h \in Hand, LandImport(h)
  PROVE  IInv'
<1> DEFINE r == hand[h]
<1>1. PICK b \in NextIds(batches), first \in NextIds(rows) :
        /\ rows' = Inserted(rows, first, OfBatch(r.new, b))
        /\ batches' = [i \in DOMAIN batches \union {b} |->
                         IF i = b THEN [upload |-> r.upload, imported |-> Len(r.new),
                                        stored |-> FALSE]
                         ELSE batches[i]]
        /\ Goes(h, [AtRest EXCEPT !.at = "landed", !.id = b, !.upload = r.upload])
  BY DEF LandImport
<1>2. /\ r \in Hands /\ WellHeld(r) /\ r.at = "opened" /\ Fits(r.new) /\ Named(r.new)
      /\ UNCHANGED <<rules, categories, pending, archive>>
  BY DEF IInv, HandsOK, LandImport, Parsed, files
<1>3. /\ r.new \in Seq(Row) /\ r.upload \in Upload /\ r.forced \subseteq Readable(r.upload)
  BY <1>2 DEF Hands, WellHeld
<1>4. /\ DOMAIN batches \in SUBSET (Nat \ {0}) /\ \A i \in DOMAIN batches : batches[i] \in Batch
  BY TableParts DEF IInv, FilesOK
<1>5. b \in Nat \ {0}
  BY <1>4, NextIdsAbove
<1> DEFINE n == OfBatch(r.new, b)
<1>6. n \in Seq(Row) /\ Fits(n) /\ Named(n) /\ \A k \in DOMAIN n : n[k].batch = b
  <2> HIDE DEF r
  <2> QED BY <1>2, <1>3, <1>5, OfBatchRows
<1>7. /\ RowsOK' /\ Unique'
      /\ \A i \in DOMAIN rows : i \in DOMAIN rows' /\ rows'[i] = rows[i]
      /\ \A i \in DOMAIN rows' \ DOMAIN rows : \E k \in DOMAIN n : rows'[i] = n[k]
  <2> HIDE DEF n
  <2>1. UNCHANGED categories
    BY <1>2
  <2>2. rows' = Inserted(rows, first, n)
    BY <1>1 DEF n
  <2> QED BY <1>6, <2>1, <2>2, InsertionKeeps
<1>8. batches' \in Tables(Batch) /\ DOMAIN batches' = DOMAIN batches \union {b}
  <2>1. Len(r.new) \in Nat
    BY <1>3
  <2>2. [upload |-> r.upload, imported |-> Len(r.new), stored |-> FALSE] \in Batch
    <3> HIDE DEF r
    <3> QED BY <1>3, <2>1 DEF Batch
  <2>3. DOMAIN batches \union {b} \in SUBSET (Nat \ {0})
    BY <1>4, <1>5
  <2>4. batches' \in [DOMAIN batches \union {b} -> Batch]
    BY <1>1, <1>4, <2>2
  <2> QED BY <2>3, <2>4, InTables
<1>9. NoOrphan'
  <2> HIDE DEF n, r
  <2> QED BY <1>6, <1>7, <1>8 DEF IInv, NoOrphan
<1>10. asked' \in [Line -> Nat]
  <2>1. \A l \in Line : Copies(r.upload, r.forced, l) \in Nat
    <3> HIDE DEF r
    <3> QED BY <1>3, CopiesType
  <2>2. asked' = [l \in Line |-> asked[l] + Copies(r.upload, r.forced, l)]
    BY DEF LandImport
  <2> HIDE DEF r
  <2> QED BY <2>1, <2>2 DEF IInv
<1>11. HandsOK'
  <2> DEFINE s == [AtRest EXCEPT !.at = "landed", !.id = b, !.upload = r.upload]
  <2>1. s \in Hands /\ WellHeld(s)
    <3> HIDE DEF r
    <3> QED BY <1>3, <1>5, AtRestHeld DEF Hands, Stages, WellHeld
  <2> HIDE DEF s
  <2> QED BY <1>1, <2>1, GoesOn DEF IInv, s
<1>12. RulesOK' /\ FilesOK'
  BY <1>2, <1>8 DEF IInv, RulesOK, FilesOK
<1> QED BY <1>7, <1>9, <1>10, <1>11, <1>12 DEF IInv

-----------------------------------------------------------------------------
(* Files and batches.                                                      *)

LEMMA AnalyzeKeeps ==
  ASSUME IInv, Analyze
  PROVE  IInv'
<1>1. /\ UNCHANGED <<rows, batches, rules, categories, archive, asked, hand>>
      /\ pending' \subseteq Upload
  BY DEF Analyze, ledger, IInv, FilesOK
<1> QED BY <1>1 DEF IInv, HandsOK, RowsOK, RulesOK, FilesOK, Unique, NoOrphan

LEMMA ArchiveFileKeeps ==
  ASSUME IInv, NEW h \in Hand, ArchiveFile(h)
  PROVE  IInv'
<1> DEFINE r == hand[h]
           s == [r EXCEPT !.at = "archived"]
<1>1. /\ r \in Hands /\ r.id \in Nat /\ r.upload \in Upload /\ Goes(h, s)
      /\ UNCHANGED <<rows, batches, rules, categories, shown, asked>>
      /\ pending' = pending \ {r.upload}
      /\ archive' = [i \in DOMAIN archive \union {r.id} |->
                       IF i = r.id THEN r.upload ELSE archive[i]]
  BY DEF IInv, HandsOK, Hands, ArchiveFile, ledger, told
<1>2. s \in Hands /\ WellHeld(s)
  <2>1. s \in Hands /\ s.at = "archived"
    <3> HIDE DEF r
    <3> QED BY <1>1 DEF Hands, Stages
  <2> HIDE DEF s
  <2> QED BY <2>1 DEF WellHeld
<1>3. HandsOK'
  <2> HIDE DEF s
  <2> QED BY <1>1, <1>2, GoesOn DEF IInv
<1>4. r.id # 0
  BY DEF IInv, HandsOK, WellHeld, ArchiveFile
<1>5. archive' \in Tables(Upload)
  <2>1. DOMAIN archive \in SUBSET (Nat \ {0}) /\ \A i \in DOMAIN archive : archive[i] \in Upload
    BY TableParts DEF IInv, FilesOK
  <2>2. DOMAIN archive \union {r.id} \in SUBSET (Nat \ {0})
    BY <1>1, <1>4, <2>1
  <2>3. archive' \in [DOMAIN archive \union {r.id} -> Upload]
    BY <1>1, <2>1
  <2> QED BY <2>2, <2>3, InTables
<1> QED BY <1>1, <1>3, <1>5 DEF IInv, RowsOK, RulesOK, FilesOK, Unique, NoOrphan

LEMMA StampBatchKeeps ==
  ASSUME IInv, NEW h \in Hand, StampBatch(h)
  PROVE  IInv'
<1>1. /\ UNCHANGED <<rows, rules, categories, pending, archive, shown, asked>> /\ Ends(h)
      /\ batches' = [i \in DOMAIN batches |->
                       IF i = hand[h].id THEN [batches[i] EXCEPT !.stored = TRUE] ELSE batches[i]]
  BY DEF StampBatch, files, told
<1>2. HandsOK'
  BY <1>1, EndsOn DEF IInv
<1>3. /\ DOMAIN batches \in SUBSET (Nat \ {0}) /\ \A i \in DOMAIN batches : batches[i] \in Batch
  BY TableParts DEF IInv, FilesOK
<1>4. batches' \in [DOMAIN batches -> Batch]
  <2>1. \A b \in Batch : [b EXCEPT !.stored = TRUE] \in Batch
    BY DEF Batch
  <2> QED BY <1>1, <1>3, <2>1
<1>5. batches' \in Tables(Batch) /\ DOMAIN batches' = DOMAIN batches
  BY <1>3, <1>4, InTables
<1> QED BY <1>1, <1>2, <1>5 DEF IInv, RowsOK, RulesOK, FilesOK, Unique, NoOrphan

\* Rows taken away leave a table with one row per fingerprint.
LEMMA RemovalKeeps ==
  ASSUME IInv, NEW D, D \subseteq DOMAIN rows, rows' = [i \in D |-> rows[i]],
         UNCHANGED categories
  PROVE  RowsOK' /\ Unique' /\ DOMAIN rows' = D /\ \A i \in D : rows'[i] = rows[i]
<1>1. DOMAIN rows \in SUBSET (Nat \ {0}) /\ \A i \in DOMAIN rows : rows[i] \in Row
  BY RowsParts
<1>2. DOMAIN rows' = D /\ \A i \in D : rows'[i] = rows[i]
  OBVIOUS
<1>3. rows' \in [D -> Row] /\ D \in SUBSET (Nat \ {0})
  BY <1>1
<1>4. IsFiniteSet(D)
  BY FS_Subset DEF IInv, RowsOK
<1>5. rows' \in Tables(Row)
  BY <1>3, InTables
<1> QED BY <1>2, <1>4, <1>5 DEF IInv, RowsOK, Unique

LEMMA RollBackKeeps ==
  ASSUME IInv, NEW h \in Hand, RollBack(h)
  PROVE  IInv'
<1> DEFINE b == hand[h].id
           D == OutsideBatch(b)
<1>1. /\ rows' = [i \in D |-> rows[i]] /\ D \subseteq DOMAIN rows
      /\ \A i \in D : rows[i].batch # b
      /\ batches' = [i \in DOMAIN batches \ {b} |-> batches[i]]
      /\ Ends(h) /\ UNCHANGED <<rules, categories, pending, archive, shown, asked>>
  BY DEF RollBack, OutsideBatch, files, told
<1>2. RowsOK' /\ Unique' /\ DOMAIN rows' = D /\ \A i \in D : rows'[i] = rows[i]
  <2> HIDE DEF D
  <2> QED BY <1>1, RemovalKeeps
<1>3. NoOrphan'
  <2> HIDE DEF D, b
  <2> QED BY <1>1, <1>2 DEF IInv, NoOrphan
<1>4. batches' \in Tables(Batch)
  <2>1. /\ DOMAIN batches \in SUBSET (Nat \ {0}) /\ \A i \in DOMAIN batches : batches[i] \in Batch
    BY TableParts DEF IInv, FilesOK
  <2>2. batches' \in [DOMAIN batches \ {b} -> Batch] /\ DOMAIN batches \ {b} \in SUBSET (Nat \ {0})
    <3> HIDE DEF b
    <3> QED BY <1>1, <2>1
  <2> QED BY <2>2, InTables
<1>5. HandsOK'
  BY <1>1, EndsOn DEF IInv
<1> QED BY <1>1, <1>2, <1>3, <1>4, <1>5 DEF IInv, RulesOK, FilesOK

LEMMA DeleteKeeps ==
  ASSUME IInv, NEW h \in Hand, Delete(h)
  PROVE  IInv'
<1>1. PICK i \in DOMAIN rows : rows' = [j \in DOMAIN rows \ {i} |-> rows[j]]
  BY DEF Delete
<1>2. UNCHANGED <<batches, rules, categories, pending, archive, shown, asked, hand>>
  BY DEF Delete, files, told
<1> DEFINE D == DOMAIN rows \ {i}
<1>3. RowsOK' /\ Unique' /\ DOMAIN rows' = D /\ \A j \in D : rows'[j] = rows[j]
  <2>1. D \subseteq DOMAIN rows /\ rows' = [j \in D |-> rows[j]] /\ UNCHANGED categories
    BY <1>1, <1>2
  <2> HIDE DEF D
  <2> QED BY <2>1, RemovalKeeps
<1> QED BY <1>2, <1>3 DEF IInv, HandsOK, RulesOK, FilesOK, NoOrphan

-----------------------------------------------------------------------------
(* Rows changed by hand.                                                   *)

LEMMA OpenCreateKeeps ==
  ASSUME IInv, NEW h \in Hand, OpenCreate(h)
  PROVE  IInv'
<1>0. PICK l \in Line :
        \E answer \in {Classified(l, rules)} \union {Chosen(c) : c \in categories} :
          Goes(h, [AtRest EXCEPT !.at = "creating", !.line = l,
             !.new = <<NewRow(l, FreeCopy(l, Fingerprints(rows)), ByHand, answer)>>])
  BY DEF OpenCreate
<1>1. PICK answer \in {Classified(l, rules)} \union {Chosen(c) : c \in categories} :
        Goes(h, [AtRest EXCEPT !.at = "creating", !.line = l,
           !.new = <<NewRow(l, FreeCopy(l, Fingerprints(rows)), ByHand, answer)>>])
  BY <1>0
<1>2. answer \in Answer
  <2>1. rules \in SUBSET Rule /\ categories \in SUBSET Category
    BY DEF IInv, RulesOK
  <2>2. Classified(l, rules) \in Answer
    BY <2>1, ClassifiedType
  <2>3. \A c \in categories : Chosen(c) \in Answer
    BY <2>1 DEF Chosen, Answer, Source
  <2> QED BY <2>2, <2>3
<1> DEFINE copy == FreeCopy(l, Fingerprints(rows))
           row == NewRow(l, copy, ByHand, answer)
           new == <<row>>
           r == [AtRest EXCEPT !.at = "creating", !.line = l, !.new = new]
<1>3. copy \in Nat
  BY RowsParts, FreeCopyIsFree
<1>4. row \in Row /\ row.line = l /\ row.batch = ByHand
  <2> HIDE DEF copy
  <2> QED BY <1>2, <1>3, NewRowType DEF ByHand
<1>5. /\ r \in Hands /\ r.at = "creating" /\ r.line = l
      /\ Len(r.new) = 1 /\ r.new[1] = row
  <2>1. new \in Seq(Row) /\ Len(new) = 1 /\ new[1] = row
    <3> HIDE DEF row
    <3> QED BY <1>4
  <2> HIDE DEF new
  <2> QED BY <2>1, AtRestHeld DEF Hands, Stages
<1>6. WellHeld(r)
  <2> HIDE DEF r, row
  <2> QED BY <1>4, <1>5 DEF WellHeld
<1>7. HandsOK'
  <2> HIDE DEF r
  <2> QED BY <1>1, <1>5, <1>6, GoesOn DEF IInv, r
<1> QED BY <1>7, QuietKeeps DEF OpenCreate

LEMMA CreateKeeps ==
  ASSUME IInv, NEW h \in Hand, Create(h)
  PROVE  IInv'
<1> DEFINE r == hand[h]
<1>1. /\ r \in Hands /\ WellHeld(r) /\ r.at = "creating" /\ Ends(h)
      /\ UNCHANGED <<batches, rules, categories, pending, archive, shown>>
  BY DEF IInv, HandsOK, Create, files
<1>2. /\ r.new \in Seq(Row) /\ DOMAIN r.new = {1} /\ r.new[1].batch = ByHand /\ r.line \in Line
  <2>1. r.new \in Seq(Row) /\ Len(r.new) = 1 /\ r.new[1].batch = ByHand /\ r.line \in Line
    BY <1>1 DEF Hands, WellHeld
  <2> HIDE DEF r
  <2>2. DOMAIN r.new = 1..Len(r.new)
    BY <2>1
  <2> QED BY <2>1, <2>2
<1>3. HandsOK'
  BY <1>1, EndsOn DEF IInv
<1>4. CASE Fits(r.new) /\ Named(r.new)
  <2>1. PICK first \in NextIds(rows) : rows' = Inserted(rows, first, r.new)
    BY <1>4 DEF Create
  <2>2. /\ RowsOK' /\ Unique'
        /\ \A i \in DOMAIN rows : i \in DOMAIN rows' /\ rows'[i] = rows[i]
        /\ \A i \in DOMAIN rows' \ DOMAIN rows : \E k \in DOMAIN r.new : rows'[i] = r.new[k]
    <3>1. UNCHANGED categories
      BY <1>1
    <3> HIDE DEF r
    <3> QED BY <1>2, <1>4, <2>1, <3>1, InsertionKeeps
  <2>3. NoOrphan'
    <3> HIDE DEF r
    <3> QED BY <1>1, <1>2, <2>2 DEF IInv, NoOrphan
  <2>4. asked' = [asked EXCEPT ![r.line] = @ + 1]
    BY <1>4 DEF Create
  <2>5. asked' \in [Line -> Nat]
    <3> HIDE DEF r
    <3> QED BY <1>2, <2>4 DEF IInv
  <2> QED BY <1>1, <1>3, <2>2, <2>3, <2>5 DEF IInv, RulesOK, FilesOK
<1>5. CASE ~(Fits(r.new) /\ Named(r.new))
  <2>1. UNCHANGED <<rows, asked>>
    BY <1>5 DEF Create
  <2> QED BY <1>1, <1>3, <2>1 DEF IInv, RowsOK, RulesOK, FilesOK, Unique, NoOrphan
<1> QED BY <1>4, <1>5

LEMMA OnlyIsTable ==
  ASSUME IInv, NEW i \in DOMAIN rows
  PROVE  /\ Only(i) \in Tables(Row) /\ DOMAIN Only(i) = {i} /\ Only(i)[i] = rows[i]
         /\ rows[i] \in Row /\ i \in Nat \ {0}
<1>1. DOMAIN rows \in SUBSET (Nat \ {0}) /\ \A j \in DOMAIN rows : rows[j] \in Row
  BY RowsParts
<1>2. Only(i) \in [{i} -> Row] /\ Only(i)[i] = rows[i] /\ DOMAIN Only(i) = {i}
  BY <1>1 DEF Only
<1> QED BY <1>1, <1>2, InTables

LEMMA OpenEditKeeps ==
  ASSUME IInv, NEW h \in Hand, OpenEdit(h)
  PROVE  IInv'
<1>1. PICK i \in DOMAIN rows, l \in Line :
        Goes(h, [AtRest EXCEPT !.at = "editing", !.id = i, !.line = l,
           !.loaded = Only(i),
           !.seen = {Fingerprint(rows[j]) : j \in DOMAIN rows \ {i}}])
  BY DEF OpenEdit
<1> DEFINE seen == {Fingerprint(rows[j]) : j \in DOMAIN rows \ {i}}
           loaded == Only(i)
           r == [AtRest EXCEPT !.at = "editing", !.id = i, !.line = l,
                               !.loaded = loaded, !.seen = seen]
<1>2. /\ loaded \in Tables(Row) /\ DOMAIN loaded = {i} /\ loaded[i] = rows[i]
      /\ rows[i] \in Row /\ i \in Nat
  BY OnlyIsTable
<1>3. seen \in SUBSET (Line \X Nat) /\ IsFiniteSet(seen)
  <2>1. DOMAIN rows \ {i} \subseteq DOMAIN rows /\ IsFiniteSet(DOMAIN rows \ {i})
    BY FS_RemoveElement DEF IInv, RowsOK
  <2>2. \A j \in DOMAIN rows : rows[j] \in Row
    BY RowsParts
  <2> QED BY <2>1, <2>2, FingerprintsOf
<1>4. Fingerprint(rows[i]) \notin seen
  BY DEF IInv, Unique
<1>5. /\ r \in Hands /\ r.at = "editing" /\ r.id = i /\ r.loaded = loaded /\ r.seen = seen
  <2> HIDE DEF loaded, seen
  <2> QED BY <1>2, <1>3, AtRestHeld DEF Hands, Stages
<1>6. WellHeld(r)
  <2> HIDE DEF r, loaded, seen
  <2> QED BY <1>2, <1>3, <1>4, <1>5 DEF WellHeld
<1>7. HandsOK'
  <2> HIDE DEF r
  <2> QED BY <1>1, <1>5, <1>6, GoesOn DEF IInv, r
<1> QED BY <1>7, QuietKeeps DEF OpenEdit

\* An edit moves the identity and asks for the transfer rule; the rest stays.
LEMMA EditedKeeps ==
  ASSUME NEW row \in Row, NEW l \in Line, NEW taken, IsFiniteSet(taken)
  PROVE  LET e == Edited(row, l, taken)
         IN  /\ e \in Row /\ e.line = l /\ e.copy = FreeCopy(l, taken)
             /\ e.batch = row.batch /\ e.category = row.category /\ e.source = row.source
             /\ MarkedTruly(row) => MarkedTruly(e)
<1> DEFINE copy == FreeCopy(l, taken)
           moved == [row EXCEPT !.line = l, !.copy = copy]
<1>1. copy \in Nat
  BY FreeCopyIsFree
<1>2. /\ moved \in Row /\ moved.line = l /\ moved.copy = copy
      /\ moved.batch = row.batch /\ moved.category = row.category
      /\ moved.source = row.source /\ moved.marked = row.marked
      /\ moved.transfer = row.transfer
  <2> HIDE DEF copy
  <2> QED BY <1>1 DEF Row
<1>3. Edited(row, l, taken) =
        IF (l \in Savings) = (row.line \in Savings) THEN moved ELSE Remarked(moved)
  BY DEF Edited
<1> HIDE DEF moved
<1>4. CASE (l \in Savings) = (row.line \in Savings)
  <2>1. InternalTransfer(moved.category, moved.line) = InternalTransfer(row.category, row.line)
    BY <1>2, <1>4 DEF InternalTransfer
  <2> QED BY <1>2, <1>3, <1>4, <2>1 DEF MarkedTruly
<1>5. CASE (l \in Savings) # (row.line \in Savings)
  BY <1>2, <1>3, <1>5, RemarkedKeeps DEF MarkedTruly
<1> QED BY <1>4, <1>5

\* Rows written over, none added and none taken away.
LEMMA RewriteKeeps ==
  ASSUME IInv, rows' \in [DOMAIN rows -> Row], UNCHANGED batches,
         \A i \in DOMAIN rows : /\ rows'[i].batch = rows[i].batch
                                /\ rows'[i].category \in categories' \union {NoCategory},
         \A i, j \in DOMAIN rows : Fingerprint(rows'[i]) = Fingerprint(rows'[j]) => i = j
  PROVE  RowsOK' /\ Unique' /\ NoOrphan' /\ DOMAIN rows' = DOMAIN rows
<1>1. DOMAIN rows \in SUBSET (Nat \ {0})
  BY RowsParts
<1>2. DOMAIN rows' = DOMAIN rows /\ rows' \in Tables(Row)
  BY <1>1, InTables
<1> QED BY <1>2 DEF IInv, RowsOK, Unique, NoOrphan

LEMMA EditKeeps ==
  ASSUME IInv, NEW h \in Hand, Edit(h)
  PROVE  IInv'
<1> DEFINE r    == hand[h]
           i    == r.id
           e    == Edited(r.loaded[i], r.line, r.seen)
           next == Flushed(rows[i], r.loaded[i], e)
<1>1. /\ r \in Hands /\ WellHeld(r) /\ r.at = "editing" /\ Ends(h)
      /\ UNCHANGED <<batches, rules, categories, pending, archive, shown>>
  BY DEF IInv, HandsOK, Edit, files
<1>2. HandsOK'
  BY <1>1, EndsOn DEF IInv
<1>3. r.line \in Line /\ r.loaded[i] \in Row /\ IsFiniteSet(r.seen)
  <2>1. r.loaded \in Tables(Row) /\ DOMAIN r.loaded = {i} /\ r.line \in Line /\ IsFiniteSet(r.seen)
    BY <1>1 DEF Hands, WellHeld
  <2> HIDE DEF r, i
  <2> QED BY <2>1, TableParts
<1>4. CASE i \in DOMAIN rows /\ \A j \in DOMAIN rows \ {i} : Fingerprint(rows[j]) # Fingerprint(next)
  <2>1. rows' = [rows EXCEPT ![i] = next]
    BY <1>4 DEF Edit
  <2>2. asked' = [asked EXCEPT ![next.line] =
          @ + IF next.line = rows[i].line /\ rows[i] = r.loaded[i] THEN 0 ELSE 1]
    BY <1>4 DEF Edit
  <2>3. \A j \in DOMAIN rows : rows[j] \in Row
    BY RowsParts
  <2>4. /\ e \in Row /\ e.batch = r.loaded[i].batch /\ e.category = r.loaded[i].category
    <3> HIDE DEF r, i
    <3> QED BY <1>3, EditedKeeps
  <2>5. /\ next \in Row /\ next.batch = rows[i].batch /\ next.category = rows[i].category
    <3> HIDE DEF r, i, e
    <3> QED BY <1>3, <1>4, <2>3, <2>4, FlushedColumns
  <2> HIDE DEF next, i, r
  <2>6. next.line \in Line
    BY <2>5 DEF Row
  <2>7. /\ rows' \in [DOMAIN rows -> Row]
        /\ \A j \in DOMAIN rows : rows'[j] = IF j = i THEN next ELSE rows[j]
    BY <1>4, <2>1, <2>3, <2>5, RowsParts
  <2>8. \A j \in DOMAIN rows : /\ rows'[j].batch = rows[j].batch
                               /\ rows'[j].category \in categories' \union {NoCategory}
    BY <1>1, <1>4, <2>5, <2>7 DEF IInv, RowsOK
  <2>9. \A j, k \in DOMAIN rows : Fingerprint(rows'[j]) = Fingerprint(rows'[k]) => j = k
    BY <1>4, <2>7 DEF IInv, Unique
  <2>10. RowsOK' /\ Unique' /\ NoOrphan'
    BY <1>1, <2>7, <2>8, <2>9, RewriteKeeps
  <2>11. asked' \in [Line -> Nat]
    BY <2>2, <2>6 DEF IInv
  <2> QED BY <1>1, <1>2, <2>10, <2>11 DEF IInv, RulesOK, FilesOK
<1>5. CASE ~(i \in DOMAIN rows /\ \A j \in DOMAIN rows \ {i} : Fingerprint(rows[j]) # Fingerprint(next))
  <2>1. UNCHANGED <<rows, asked>>
    BY <1>5 DEF Edit
  <2> QED BY <1>1, <1>2, <2>1 DEF IInv, RowsOK, RulesOK, FilesOK, Unique, NoOrphan
<1> QED BY <1>4, <1>5

\* The row a request has read, and means to write over.
LEMMA LoadedRow ==
  ASSUME IInv, NEW h \in Hand, hand[h].at \in {"editing", "marking", "filing"}
  PROVE  /\ hand[h] \in Hands /\ WellHeld(hand[h])
         /\ hand[h].loaded[hand[h].id] \in Row
         /\ hand[h].id \in DOMAIN hand[h].loaded
<1>1. hand[h] \in Hands /\ WellHeld(hand[h])
  BY DEF IInv, HandsOK
<1>2. hand[h].loaded \in Tables(Row) /\ DOMAIN hand[h].loaded = {hand[h].id}
  BY <1>1 DEF Hands, WellHeld
<1> QED BY <1>1, <1>2, TableParts

\* The rows keep their fingerprints and batches; their categories exist.
LEMMA RefilingKeeps ==
  ASSUME IInv, rows' \in [DOMAIN rows -> Row], UNCHANGED batches,
         \A i \in DOMAIN rows : /\ rows'[i].batch = rows[i].batch
                                /\ rows'[i].line = rows[i].line
                                /\ rows'[i].copy = rows[i].copy
                                /\ rows'[i].category \in categories' \union {NoCategory}
  PROVE  RowsOK' /\ Unique' /\ NoOrphan' /\ DOMAIN rows' = DOMAIN rows
<1>1. \A i, j \in DOMAIN rows : Fingerprint(rows'[i]) = Fingerprint(rows'[j]) => i = j
  BY DEF IInv, Unique, Fingerprint
<1> QED BY <1>1, RewriteKeeps

LEMMA OpenMarkKeeps ==
  ASSUME IInv, NEW h \in Hand, OpenMark(h)
  PROVE  IInv'
<1>1. PICK i \in DOMAIN rows, flag \in BOOLEAN :
        Goes(h, [AtRest EXCEPT !.at = "marking", !.id = i, !.flag = flag, !.loaded = Only(i)])
  BY DEF OpenMark
<1> DEFINE loaded == Only(i)
           r == [AtRest EXCEPT !.at = "marking", !.id = i, !.flag = flag, !.loaded = loaded]
<1>2. loaded \in Tables(Row) /\ DOMAIN loaded = {i} /\ i \in Nat
  BY OnlyIsTable
<1>3. r \in Hands /\ WellHeld(r)
  <2>1. r \in Hands /\ r.at = "marking" /\ r.id = i /\ r.loaded = loaded
    <3> HIDE DEF loaded
    <3> QED BY <1>2, AtRestHeld DEF Hands, Stages
  <2> HIDE DEF r, loaded
  <2> QED BY <1>2, <2>1 DEF WellHeld
<1>4. HandsOK'
  <2> HIDE DEF r
  <2> QED BY <1>1, <1>3, GoesOn DEF IInv, r
<1> QED BY <1>4, QuietKeeps DEF OpenMark

LEMMA MarkKeeps ==
  ASSUME IInv, NEW h \in Hand, Mark(h)
  PROVE  IInv'
<1> DEFINE r      == hand[h]
           i      == r.id
           before == r.loaded[i]
           marked == [before EXCEPT !.transfer = r.flag, !.marked = "manual"]
           next   == Flushed(rows[i], before, marked)
<1>1. /\ before \in Row /\ r \in Hands /\ Ends(h)
      /\ UNCHANGED <<batches, rules, categories, pending, archive, shown, asked>>
  BY LoadedRow DEF Mark, files, told
<1>2. HandsOK'
  BY <1>1, EndsOn DEF IInv
<1>3. CASE i \notin DOMAIN rows
  <2>1. UNCHANGED rows
    BY <1>3 DEF Mark
  <2> QED BY <1>1, <1>2, <2>1 DEF IInv, RowsOK, RulesOK, FilesOK, Unique, NoOrphan
<1>4. CASE i \in DOMAIN rows
  <2>1. rows' = [rows EXCEPT ![i] = next]
    BY <1>4 DEF Mark
  <2>2. \A j \in DOMAIN rows : rows[j] \in Row
    BY RowsParts
  <2>3. /\ marked \in Row /\ marked.batch = before.batch /\ marked.line = before.line
        /\ marked.copy = before.copy /\ marked.category = before.category
    <3>1. r.flag \in BOOLEAN
      BY <1>1 DEF Hands
    <3> HIDE DEF r, before
    <3> QED BY <1>1, <3>1 DEF Row
  <2>4. /\ next \in Row /\ next.batch = rows[i].batch /\ next.line = rows[i].line
        /\ next.copy = rows[i].copy /\ next.category = rows[i].category
    <3> HIDE DEF r, i, before, marked
    <3> QED BY <1>1, <1>4, <2>2, <2>3, FlushedColumns
  <2> HIDE DEF next, i, r
  <2>5. /\ rows' \in [DOMAIN rows -> Row]
        /\ \A j \in DOMAIN rows : rows'[j] = IF j = i THEN next ELSE rows[j]
    BY <1>4, <2>1, <2>2, <2>4, RowsParts
  <2>6. \A j \in DOMAIN rows : /\ rows'[j].batch = rows[j].batch
                               /\ rows'[j].line = rows[j].line
                               /\ rows'[j].copy = rows[j].copy
                               /\ rows'[j].category \in categories' \union {NoCategory}
    BY <1>1, <1>4, <2>4, <2>5 DEF IInv, RowsOK
  <2>7. RowsOK' /\ Unique' /\ NoOrphan'
    BY <1>1, <2>5, <2>6, RefilingKeeps
  <2> QED BY <1>1, <1>2, <2>7 DEF IInv, RulesOK, FilesOK
<1> QED BY <1>3, <1>4

-----------------------------------------------------------------------------
(* Filing, learning and what is learned.                                   *)

LEMMA OpenFileKeeps ==
  ASSUME IInv, NEW h \in Hand, OpenFile(h)
  PROVE  IInv'
<1>1. PICK i \in DOMAIN rows, c \in categories \union {NoCategory} :
        Goes(h, [AtRest EXCEPT !.at = "filing", !.id = i, !.category = c, !.loaded = Only(i)])
  BY DEF OpenFile
<1> DEFINE loaded == Only(i)
           r == [AtRest EXCEPT !.at = "filing", !.id = i, !.category = c, !.loaded = loaded]
<1>2. /\ loaded \in Tables(Row) /\ DOMAIN loaded = {i} /\ i \in Nat
      /\ c \in Category \union {NoCategory}
  BY OnlyIsTable DEF IInv, RulesOK
<1>3. r \in Hands /\ WellHeld(r)
  <2>1. r \in Hands /\ r.at = "filing" /\ r.id = i /\ r.loaded = loaded
    <3> HIDE DEF loaded
    <3> QED BY <1>2, AtRestHeld DEF Hands, Stages
  <2> HIDE DEF r, loaded
  <2> QED BY <1>2, <2>1 DEF WellHeld
<1>4. HandsOK'
  <2> HIDE DEF r
  <2> QED BY <1>1, <1>3, GoesOn DEF IInv, r
<1> QED BY <1>4, QuietKeeps DEF OpenFile

LEMMA FiledKeeps ==
  ASSUME NEW row \in Row, NEW c \in Category \union {NoCategory}
  PROVE  LET f == Filed(row, c)
         IN  /\ f \in Row /\ f.line = row.line /\ f.copy = row.copy /\ f.batch = row.batch
             /\ f.category = c
             /\ f.source = IF c = NoCategory THEN "uncategorized" ELSE "manual"
             /\ MarkedTruly(f)
<1> DEFINE s == IF c = NoCategory THEN "uncategorized" ELSE "manual"
           f == [row EXCEPT !.category = c, !.source = s]
<1>1. s \in Source
  BY DEF Source
<1>2. /\ f \in Row /\ f.line = row.line /\ f.copy = row.copy /\ f.batch = row.batch
      /\ f.category = c /\ f.source = s
  <2> HIDE DEF s
  <2> QED BY <1>1 DEF Row
<1>3. Filed(row, c) = Remarked(f)
  BY DEF Filed
<1> HIDE DEF f
<1> QED BY <1>2, <1>3, RemarkedKeeps DEF MarkedTruly

LEMMA FileKeeps ==
  ASSUME IInv, NEW h \in Hand, File(h)
  PROVE  IInv'
<1> DEFINE r      == hand[h]
           i      == r.id
           before == r.loaded[i]
           f      == Filed(before, r.category)
           next   == Flushed(rows[i], before, f)
           s      == [r EXCEPT !.at = "filed", !.line = next.line]
<1>1. /\ before \in Row /\ r \in Hands /\ r.category \in Category \union {NoCategory}
      /\ UNCHANGED <<batches, rules, categories, pending, archive, shown, asked>>
  BY LoadedRow DEF Hands, File, files, told
<1>2. CASE ~(i \in DOMAIN rows /\ r.category \in categories \union {NoCategory})
  <2>1. UNCHANGED rows /\ Ends(h)
    BY <1>2 DEF File
  <2>2. HandsOK'
    BY <2>1, EndsOn DEF IInv
  <2> QED BY <1>1, <2>1, <2>2 DEF IInv, RowsOK, RulesOK, FilesOK, Unique, NoOrphan
<1>3. CASE i \in DOMAIN rows /\ r.category \in categories \union {NoCategory}
  <2>1. /\ rows' = [rows EXCEPT ![i] = next]
        /\ Ends(h) \/ (r.category # NoCategory /\ Goes(h, s))
    BY <1>3 DEF File
  <2>2. \A j \in DOMAIN rows : rows[j] \in Row
    BY RowsParts
  <2>3. /\ f \in Row /\ f.batch = before.batch /\ f.line = before.line
        /\ f.copy = before.copy /\ f.category = r.category
    <3> HIDE DEF r, before
    <3> QED BY <1>1, FiledKeeps
  <2>4. /\ next \in Row /\ next.batch = rows[i].batch /\ next.line = rows[i].line
        /\ next.copy = rows[i].copy /\ next.category \in {rows[i].category, r.category}
    <3> HIDE DEF r, i, before, f
    <3> QED BY <1>1, <1>3, <2>2, <2>3, FlushedColumns
  <2>5. HandsOK'
    <3>1. CASE Ends(h)
      BY <3>1, EndsOn DEF IInv
    <3>2. CASE r.category # NoCategory /\ Goes(h, s)
      <4>1. next.line \in Line
        <5> HIDE DEF next
        <5> QED BY <2>4 DEF Row
      <4>2. s \in Hands /\ s.at = "filed" /\ s.category = r.category
        <5> HIDE DEF r, next
        <5> QED BY <1>1, <4>1 DEF Hands, Stages
      <4>3. WellHeld(s)
        <5> HIDE DEF s, r
        <5> QED BY <1>1, <3>2, <4>2 DEF WellHeld
      <4> HIDE DEF s
      <4> QED BY <3>2, <4>2, <4>3, GoesOn DEF IInv
    <3> QED BY <2>1, <3>1, <3>2
  <2> HIDE DEF next, i, r
  <2>6. /\ rows' \in [DOMAIN rows -> Row]
        /\ \A j \in DOMAIN rows : rows'[j] = IF j = i THEN next ELSE rows[j]
    BY <1>3, <2>1, <2>2, <2>4, RowsParts
  <2>7. \A j \in DOMAIN rows : /\ rows'[j].batch = rows[j].batch
                               /\ rows'[j].line = rows[j].line
                               /\ rows'[j].copy = rows[j].copy
                               /\ rows'[j].category \in categories' \union {NoCategory}
    BY <1>1, <1>3, <2>4, <2>6 DEF IInv, RowsOK
  <2>8. RowsOK' /\ Unique' /\ NoOrphan'
    BY <1>1, <2>6, <2>7, RefilingKeeps
  <2> QED BY <1>1, <2>5, <2>8 DEF IInv, RulesOK, FilesOK
<1> QED BY <1>2, <1>3

LEMMA LearnedRuleType ==
  ASSUME NEW l \in Line, NEW c \in Category
  PROVE  LearnedRule(Pattern[l], c, Sign[l]) \in Rule
<1>1. Pattern[l] \in Range(Pattern) /\ Sign[l] \in {"any", "debit", "credit"}
  BY LedgerAssumption DEF Range
<1> QED BY <1>1 DEF LearnedRule, Rule

LEMMA LearnKeeps ==
  ASSUME IInv, NEW h \in Hand, Learn(h)
  PROVE  IInv'
<1> DEFINE r    == hand[h]
           s    == [r EXCEPT !.at = "learned"]
           rule == LearnedRule(Pattern[r.line], r.category, Sign[r.line])
           kept == rules \ LearnedFor(Pattern[r.line])
<1>1. /\ r \in Hands /\ WellHeld(r) /\ r.line \in Line /\ r.category \in Category
      /\ r.category \in categories /\ rules' = kept \union {rule} /\ Goes(h, s)
      /\ UNCHANGED <<rows, batches, categories, pending, archive, shown, asked>>
  BY DEF IInv, HandsOK, Hands, WellHeld, Learn, files, told
<1>2. rule \in Rule /\ rule.category = r.category
  <2>1. rule \in Rule
    <3> HIDE DEF r
    <3> QED BY <1>1, LearnedRuleType
  <2> QED BY <2>1 DEF LearnedRule
<1>3. RulesOK'
  <2>1. kept \subseteq rules
    OBVIOUS
  <2> HIDE DEF rule, kept, r
  <2> QED BY <1>1, <1>2, <2>1 DEF IInv, RulesOK
<1>4. s \in Hands /\ WellHeld(s)
  <2>1. s \in Hands /\ s.at = "learned" /\ s.category = r.category
    <3> HIDE DEF r
    <3> QED BY <1>1 DEF Hands, Stages
  <2> HIDE DEF s, r
  <2> QED BY <1>1, <2>1 DEF WellHeld
<1>5. HandsOK'
  <2> HIDE DEF s
  <2> QED BY <1>1, <1>4, GoesOn DEF IInv
<1> QED BY <1>1, <1>3, <1>5 DEF IInv, RowsOK, FilesOK, Unique, NoOrphan

LEMMA OpenBackfillKeeps ==
  ASSUME IInv, NEW h \in Hand, OpenBackfill(h)
  PROVE  IInv'
<1> DEFINE r      == hand[h]
           rule   == LearnedRule(Pattern[r.line], r.category, Sign[r.line])
           D      == {j \in DOMAIN rows : Reaches(rule, rows[j])}
           loaded == [i \in D |-> rows[i]]
           s      == [r EXCEPT !.at = "backfilling", !.loaded = loaded]
<1>1. r \in Hands /\ WellHeld(r) /\ r.category \in Category /\ Goes(h, s)
  BY DEF IInv, HandsOK, Hands, WellHeld, OpenBackfill
<1>2. DOMAIN rows \in SUBSET (Nat \ {0}) /\ \A j \in DOMAIN rows : rows[j] \in Row
  BY RowsParts
<1>3. loaded \in Tables(Row) /\ DOMAIN loaded = D
  <2>1. loaded \in [D -> Row] /\ D \in SUBSET (Nat \ {0})
    <3> HIDE DEF rule
    <3> QED BY <1>2
  <2> HIDE DEF loaded
  <2> QED BY <2>1, InTables
<1>4. \A i \in DOMAIN loaded : loaded[i].source \in Overrulable
  <2> HIDE DEF rule
  <2> QED BY DEF Reaches
<1>5. s \in Hands /\ WellHeld(s)
  <2>1. s \in Hands /\ s.at = "backfilling" /\ s.category = r.category /\ s.loaded = loaded
    <3> HIDE DEF r, loaded
    <3> QED BY <1>1, <1>3 DEF Hands, Stages
  <2> HIDE DEF s, r, loaded
  <2> QED BY <1>1, <1>4, <2>1 DEF WellHeld
<1>6. HandsOK'
  <2> HIDE DEF s
  <2> QED BY <1>1, <1>5, GoesOn DEF IInv
<1> QED BY <1>6, QuietKeeps DEF OpenBackfill

LEMMA RefiledKeeps ==
  ASSUME NEW row \in Row, NEW c \in Category
  PROVE  LET f == Refiled(row, c)
         IN  /\ f \in Row /\ f.line = row.line /\ f.copy = row.copy /\ f.batch = row.batch
             /\ f.category = c /\ f.source = "learned" /\ MarkedTruly(f)
<1> DEFINE f == [row EXCEPT !.category = c, !.source = "learned"]
<1>1. /\ f \in Row /\ f.line = row.line /\ f.copy = row.copy /\ f.batch = row.batch
      /\ f.category = c /\ f.source = "learned"
  BY DEF Row, Source
<1>2. Refiled(row, c) = Remarked(f)
  BY DEF Refiled
<1> HIDE DEF f
<1> QED BY <1>1, <1>2, RemarkedKeeps DEF MarkedTruly

LEMMA BackfillKeeps ==
  ASSUME IInv, NEW h \in Hand, Backfill(h)
  PROVE  IInv'
<1> DEFINE r == hand[h]
           After(i) == Flushed(rows[i], r.loaded[i], Refiled(r.loaded[i], r.category))
<1>1. /\ r \in Hands /\ r.loaded \in Tables(Row) /\ r.category \in Category /\ Ends(h)
      /\ UNCHANGED <<batches, rules, categories, pending, archive, shown, asked>>
  BY DEF IInv, HandsOK, Hands, WellHeld, Backfill, files, told
<1>2. HandsOK'
  BY <1>1, EndsOn DEF IInv
<1>3. CASE ~(DOMAIN r.loaded \subseteq DOMAIN rows /\ r.category \in categories)
  <2>1. UNCHANGED rows
    BY <1>3 DEF Backfill
  <2> QED BY <1>1, <1>2, <2>1 DEF IInv, RowsOK, RulesOK, FilesOK, Unique, NoOrphan
<1>4. CASE DOMAIN r.loaded \subseteq DOMAIN rows /\ r.category \in categories
  <2>1. rows' = [i \in DOMAIN rows |-> IF i \in DOMAIN r.loaded THEN After(i) ELSE rows[i]]
    BY <1>4 DEF Backfill
  <2>2. \A j \in DOMAIN rows : rows[j] \in Row
    BY RowsParts
  <2>3. \A i \in DOMAIN r.loaded : r.loaded[i] \in Row
    <3> HIDE DEF r
    <3> QED BY <1>1, TableParts
  <2>4. ASSUME NEW i \in DOMAIN r.loaded
        PROVE  /\ After(i) \in Row /\ After(i).batch = rows[i].batch
               /\ After(i).line = rows[i].line /\ After(i).copy = rows[i].copy
               /\ After(i).category \in {rows[i].category, r.category}
    <3> DEFINE before == r.loaded[i]
               f == Refiled(before, r.category)
    <3>1. before \in Row /\ rows[i] \in Row
      BY <1>4, <2>2, <2>3
    <3> HIDE DEF before, r
    <3>2. /\ f \in Row /\ f.line = before.line /\ f.copy = before.copy
          /\ f.batch = before.batch /\ f.category = r.category
      BY <1>1, <3>1, RefiledKeeps
    <3> HIDE DEF f
    <3>3. LET a == Flushed(rows[i], before, f)
          IN  /\ a \in Row /\ a.batch = rows[i].batch
              /\ a.line = rows[i].line /\ a.copy = rows[i].copy
              /\ a.category \in {rows[i].category, r.category}
      BY <3>1, <3>2, FlushedColumns
    <3> QED BY <3>3 DEF f, before, r
  <2> HIDE DEF After
  <2>5. /\ rows' \in [DOMAIN rows -> Row]
        /\ \A i \in DOMAIN rows : /\ rows'[i].batch = rows[i].batch
                                  /\ rows'[i].line = rows[i].line
                                  /\ rows'[i].copy = rows[i].copy
                                  /\ rows'[i].category \in categories' \union {NoCategory}
    BY <1>1, <1>4, <2>1, <2>2, <2>4 DEF IInv, RowsOK
  <2>6. RowsOK' /\ Unique' /\ NoOrphan'
    BY <1>1, <2>5, RefilingKeeps
  <2> QED BY <1>1, <1>2, <2>6 DEF IInv, RulesOK, FilesOK
<1> QED BY <1>3, <1>4

LEMMA OpenDropKeeps ==
  ASSUME IInv, NEW h \in Hand, OpenDrop(h)
  PROVE  IInv'
<1>1. PICK c \in categories : Goes(h, [AtRest EXCEPT !.at = "dropping", !.category = c])
  BY DEF OpenDrop
<1>2. c \in Category
  BY DEF IInv, RulesOK
<1> DEFINE r == [AtRest EXCEPT !.at = "dropping", !.category = c]
<1>3. r \in Hands /\ WellHeld(r)
  <2>1. r \in Hands /\ r.at = "dropping" /\ r.category = c
    BY <1>2, AtRestHeld DEF Hands, Stages
  <2> HIDE DEF r
  <2> QED BY <1>2, <2>1 DEF WellHeld
<1>4. HandsOK'
  <2> HIDE DEF r
  <2> QED BY <1>1, <1>3, GoesOn DEF IInv, r
<1> QED BY <1>4, QuietKeeps DEF OpenDrop

LEMMA UnfiledKeeps ==
  ASSUME NEW row \in Row
  PROVE  LET f == Unfiled(row)
         IN  /\ f \in Row /\ f.line = row.line /\ f.copy = row.copy /\ f.batch = row.batch
             /\ f.category = NoCategory /\ f.source = "uncategorized"
BY DEF Unfiled, Row, Source

LEMMA DropKeeps ==
  ASSUME IInv, NEW h \in Hand, Drop(h)
  PROVE  IInv'
<1> DEFINE gone == Doomed(hand[h].category)
<1>1. /\ rows' = [i \in DOMAIN rows |->
                    IF rows[i].category \in gone THEN Unfiled(rows[i]) ELSE rows[i]]
      /\ rules' = {r \in rules : r.category \notin gone}
      /\ categories' = categories \ gone
      /\ Ends(h) /\ UNCHANGED <<batches, pending, archive, shown, asked>>
  BY DEF Drop, files, told
<1> HIDE DEF gone
<1>2. \A j \in DOMAIN rows : rows[j] \in Row
  BY RowsParts
<1>3. /\ rows' \in [DOMAIN rows -> Row]
      /\ \A i \in DOMAIN rows : /\ rows'[i].batch = rows[i].batch
                                /\ rows'[i].line = rows[i].line
                                /\ rows'[i].copy = rows[i].copy
                                /\ rows'[i].category \in categories' \union {NoCategory}
  BY <1>1, <1>2, UnfiledKeeps DEF IInv, RowsOK
<1>4. RowsOK' /\ Unique' /\ NoOrphan'
  BY <1>1, <1>3, RefilingKeeps
<1>5. HandsOK'
  BY <1>1, EndsOn DEF IInv
<1> QED BY <1>1, <1>4, <1>5 DEF IInv, RulesOK, FilesOK

LEMMA TeachKeeps ==
  ASSUME IInv, NEW h \in Hand, Teach(h) \/ Unteach(h)
  PROVE  IInv'
<1>1. UNCHANGED <<rows, batches, categories, pending, archive, shown, asked, hand>>
  BY DEF Teach, Unteach, files, told
<1>2. RulesOK'
  <2>1. CASE Teach(h)
    <3>1. PICK p \in Range(Pattern) \ {NoPattern}, c \in categories,
               d \in {"any", "debit", "credit"} :
            rules' = rules \union
              {[pattern |-> p, category |-> c, direction |-> d, origin |-> "manual"]}
      BY <2>1 DEF Teach
    <3> QED BY <1>1, <3>1 DEF IInv, RulesOK, Rule
  <2>2. CASE Unteach(h)
    BY <1>1, <2>2 DEF Unteach, IInv, RulesOK
  <2> QED BY <2>1, <2>2
<1> QED BY <1>1, <1>2 DEF IInv, HandsOK, RowsOK, FilesOK, Unique, NoOrphan

-----------------------------------------------------------------------------
(* Every step.                                                             *)

LEMMA InitHolds == Init => IInv
<1> SUFFICES ASSUME Init PROVE IInv
  OBVIOUS
<1>1. HandsOK
  BY AtRestHeld DEF Init, HandsOK
<1>2. rows \in Tables(Row) /\ batches \in Tables(Batch) /\ archive \in Tables(Upload)
  BY NothingIsTable DEF Init
<1>3. DOMAIN rows = {}
  BY NothingIsTable DEF Init
<1>4. RowsOK /\ Unique /\ NoOrphan
  BY <1>2, <1>3, FS_EmptySet DEF RowsOK, Unique, NoOrphan
<1>5. RulesOK
  BY BuiltinAssumption DEF Init, RulesOK, Rule
<1>6. FilesOK /\ asked \in [Line -> Nat]
  BY <1>2 DEF Init, FilesOK
<1> QED BY <1>1, <1>4, <1>5, <1>6 DEF IInv

LEMMA NextKeeps == IInv /\ [Next]_vars => IInv'
<1> SUFFICES ASSUME IInv, [Next]_vars PROVE IInv'
  OBVIOUS
<1>1. ASSUME NEW h \in Hand, ImportStep(h) PROVE IInv'
  BY <1>1, OpenImportKeeps, ReadingKeeps, AcceptRowKeeps, LandImportKeeps, ArchiveFileKeeps,
     StampBatchKeeps, OpenRollbackKeeps, RollBackKeeps DEF ImportStep
<1>2. ASSUME NEW h \in Hand, RowStep(h) PROVE IInv'
  BY <1>2, OpenCreateKeeps, CreateKeeps, OpenEditKeeps, EditKeeps, DeleteKeeps, OpenMarkKeeps,
     MarkKeeps DEF RowStep
<1>3. ASSUME NEW h \in Hand, FilingStep(h) PROVE IInv'
  BY <1>3, OpenFileKeeps, FileKeeps, LearnKeeps, ReadingKeeps, OpenBackfillKeeps, BackfillKeeps,
     OpenDropKeeps, DropKeeps, TeachKeeps DEF FilingStep
<1>4. ASSUME Restart PROVE IInv'
  <2>1. HandsOK'
    BY <1>4, AtRestHeld DEF Restart, HandsOK
  <2> QED BY <1>4, <2>1, QuietKeeps DEF Restart
<1>5. ASSUME Done \/ UNCHANGED vars PROVE IInv'
  BY <1>5 DEF Done, vars, IInv, HandsOK, RowsOK, RulesOK, FilesOK, Unique, NoOrphan
<1> QED BY <1>1, <1>2, <1>3, <1>4, <1>5, AnalyzeKeeps DEF Next

\* The inductive invariant of the ledger: what each request holds is of the
\* kind its stage says, no two rows carry one fingerprint, every category
\* named exists, every batch named exists.
THEOREM LedgerInvariance == Spec => []IInv
<1>1. Init => IInv
  BY InitHolds
<1>2. IInv /\ [Next]_vars => IInv'
  BY NextKeeps
<1> QED BY <1>1, <1>2, PTL DEF Spec

\* Types and foreign keys, for any household and any number of requests at a
\* time: a category dropped while requests are on their way leaves no row and
\* no rule naming it (api/categories.py delete_category and the constraints).
THEOREM LedgerTypesAlways == Spec => []TypeOK
<1>1. IInv => TypeOK
  <2> SUFFICES ASSUME IInv PROVE TypeOK
    OBVIOUS
  <2>1. /\ DOMAIN rows \in SUBSET (Nat \ {0}) /\ \A i \in DOMAIN rows : rows[i] \in Row
    BY RowsParts
  <2>2. \A b \in DOMAIN batches : batches[b] \in Batch
    BY TableParts DEF IInv, FilesOK
  <2>3. \A b \in DOMAIN archive : archive[b] \in Upload
    BY TableParts DEF IInv, FilesOK
  <2> QED BY <2>1, <2>2, <2>3 DEF IInv, RowsOK, RulesOK, FilesOK, Batch, TypeOK
<1> QED BY <1>1, LedgerInvariance, PTL

\* Whatever a restart cuts short, no row is left of an import that did not
\* land or was undone (importers/service.py commit_import, rollback_import).
THEOREM NoOrphanAlways == Spec => []NoOrphan
<1>1. IInv => NoOrphan
  BY DEF IInv
<1> QED BY <1>1, LedgerInvariance, PTL

-----------------------------------------------------------------------------
(* What may write over a row.                                              *)

\* The write of request h over row i, as its handler makes it.
WritesOver(h, i) ==
  LET r == hand[h]
  IN  /\ i \in DOMAIN r.loaded /\ r.loaded[i] \in Row
      /\ r.at # hand'[h].at
      /\ \/ /\ r.at = "editing" /\ Edit(h) /\ r.line \in Line /\ IsFiniteSet(r.seen)
            /\ rows'[i] = Flushed(rows[i], r.loaded[i], Edited(r.loaded[i], r.line, r.seen))
         \/ /\ r.at = "marking" /\ r.flag \in BOOLEAN
            /\ rows'[i] = Flushed(rows[i], r.loaded[i],
                            [r.loaded[i] EXCEPT !.transfer = r.flag, !.marked = "manual"])
         \/ /\ r.at = "filing" /\ r.category \in Category \union {NoCategory}
            /\ rows'[i] = Flushed(rows[i], r.loaded[i], Filed(r.loaded[i], r.category))
         \/ /\ r.at = "backfilling" /\ r.category \in Category
            /\ r.loaded[i].source \in Overrulable
            /\ rows'[i] = Flushed(rows[i], r.loaded[i], Refiled(r.loaded[i], r.category))

Empties(h, i) == hand[h].at = "dropping" /\ rows'[i] = Unfiled(rows[i])

LEMMA EndedElsewhere ==
  ASSUME IInv, NEW h \in Hand, Ends(h), hand[h].at # "rest"
  PROVE  hand'[h].at # hand[h].at
BY AtRestHeld DEF IInv, HandsOK, Ends, Goes

\* A row that was there and is there after is what it was, or is written over
\* by one request, in one of five ways.
LEMMA RowStory ==
  ASSUME IInv, [Next]_vars, NEW i \in DOMAIN rows \intersect DOMAIN rows', rows'[i] # rows[i]
  PROVE  \E h \in Hand : WritesOver(h, i) \/ Empties(h, i)
<1>0. UNCHANGED rows => FALSE
  OBVIOUS
<1>1. ASSUME NEW h \in Hand, ImportStep(h) PROVE FALSE
  <2>1. CASE LandImport(h)
    <3>1. PICK b \in NextIds(batches), first \in NextIds(rows) :
            rows' = Inserted(rows, first, OfBatch(hand[h].new, b))
      BY <2>1 DEF LandImport
    <3> QED BY <3>1 DEF Inserted
  <2>2. CASE RollBack(h)
    BY <2>2 DEF RollBack
  <2>3. CASE ~LandImport(h) /\ ~RollBack(h)
    BY <1>0, <1>1, <2>3
       DEF ImportStep, OpenImport, ImportExpired, AcceptRow, ImportRefused, ArchiveFile,
           ArchiveMissing, StampBatch, OpenRollback, ledger
  <2> QED BY <2>1, <2>2, <2>3
<1>2. ASSUME NEW h \in Hand, Create(h) PROVE FALSE
  <2>1. CASE Fits(hand[h].new) /\ Named(hand[h].new)
    <3>1. PICK first \in NextIds(rows) : rows' = Inserted(rows, first, hand[h].new)
      BY <1>2, <2>1 DEF Create
    <3> QED BY <3>1 DEF Inserted
  <2>2. CASE ~(Fits(hand[h].new) /\ Named(hand[h].new))
    BY <1>0, <1>2, <2>2 DEF Create
  <2> QED BY <2>1, <2>2
<1>3. ASSUME NEW h \in Hand, Delete(h) PROVE FALSE
  BY <1>3 DEF Delete
<1>4. ASSUME NEW h \in Hand, OpenCreate(h) \/ OpenEdit(h) \/ OpenMark(h) PROVE FALSE
  BY <1>0, <1>4 DEF OpenCreate, OpenEdit, OpenMark, ledger
<1>5. ASSUME NEW h \in Hand, Edit(h) PROVE WritesOver(h, i)
  <2>1. /\ hand[h].at = "editing" /\ Ends(h)
        /\ UNCHANGED rows \/
             (/\ hand[h].id \in DOMAIN rows
              /\ rows' = [rows EXCEPT ![hand[h].id] =
                   Flushed(rows[hand[h].id], hand[h].loaded[hand[h].id],
                     Edited(hand[h].loaded[hand[h].id], hand[h].line, hand[h].seen))])
    BY <1>5 DEF Edit
  <2>2. i = hand[h].id
    BY <1>0, <2>1
  <2>3. /\ i \in DOMAIN hand[h].loaded /\ hand[h].loaded[i] \in Row
        /\ hand[h].line \in Line /\ IsFiniteSet(hand[h].seen)
    BY <2>1, <2>2, LoadedRow DEF Hands, WellHeld
  <2> QED BY <1>0, <1>5, <2>1, <2>2, <2>3, EndedElsewhere DEF WritesOver
<1>6. ASSUME NEW h \in Hand, Mark(h) PROVE WritesOver(h, i)
  <2>1. /\ hand[h].at = "marking" /\ Ends(h)
        /\ UNCHANGED rows \/
             (/\ hand[h].id \in DOMAIN rows
              /\ rows' = [rows EXCEPT ![hand[h].id] =
                   Flushed(@, hand[h].loaded[hand[h].id],
                     [hand[h].loaded[hand[h].id] EXCEPT !.transfer = hand[h].flag,
                                                        !.marked = "manual"])])
    BY <1>6 DEF Mark
  <2>2. i = hand[h].id
    BY <1>0, <2>1
  <2>3. i \in DOMAIN hand[h].loaded /\ hand[h].loaded[i] \in Row /\ hand[h].flag \in BOOLEAN
    BY <2>1, <2>2, LoadedRow DEF Hands
  <2> QED BY <1>0, <2>1, <2>2, <2>3, EndedElsewhere DEF WritesOver
<1>7. ASSUME NEW h \in Hand, File(h) PROVE WritesOver(h, i)
  <2> DEFINE next == Flushed(rows[hand[h].id], hand[h].loaded[hand[h].id],
                       Filed(hand[h].loaded[hand[h].id], hand[h].category))
  <2>1. hand[h].at = "filing"
    BY <1>7 DEF File
  <2>2. /\ i = hand[h].id /\ rows'[i] = next
        /\ Ends(h) \/ Goes(h, [hand[h] EXCEPT !.at = "filed", !.line = next.line])
    BY <1>0, <1>7 DEF File
  <2>3. /\ i \in DOMAIN hand[h].loaded /\ hand[h].loaded[i] \in Row /\ hand[h] \in Hands
        /\ hand[h].category \in Category \union {NoCategory}
    BY <2>1, <2>2, LoadedRow DEF Hands
  <2>4. hand'[h].at # hand[h].at
    <3>1. CASE Ends(h)
      BY <2>1, <3>1, EndedElsewhere
    <3>2. CASE Goes(h, [hand[h] EXCEPT !.at = "filed", !.line = next.line])
      <4>1. hand'[h].at = "filed"
        <5> HIDE DEF next
        <5> QED BY <2>3, <3>2 DEF Goes, IInv, HandsOK, Hands
      <4> QED BY <2>1, <4>1
    <3> QED BY <2>2, <3>1, <3>2
  <2> QED BY <2>1, <2>2, <2>3, <2>4 DEF WritesOver
<1>8. ASSUME NEW h \in Hand, Backfill(h) PROVE WritesOver(h, i)
  <2>1. /\ hand[h].at = "backfilling" /\ Ends(h) /\ i \in DOMAIN hand[h].loaded
        /\ rows'[i] = Flushed(rows[i], hand[h].loaded[i],
                        Refiled(hand[h].loaded[i], hand[h].category))
    BY <1>0, <1>8 DEF Backfill
  <2>2. /\ hand[h].loaded \in Tables(Row) /\ hand[h].category \in Category
        /\ hand[h].loaded[i].source \in Overrulable
    BY <2>1 DEF IInv, HandsOK, Hands, WellHeld
  <2>3. hand[h].loaded[i] \in Row
    BY <2>1, <2>2, TableParts
  <2> QED BY <2>1, <2>2, <2>3, EndedElsewhere DEF WritesOver
<1>9. ASSUME NEW h \in Hand, Drop(h) PROVE Empties(h, i)
  BY <1>0, <1>9 DEF Drop, Empties
<1>10. ASSUME NEW h \in Hand,
              \/ OpenFile(h) \/ Learn(h) \/ LearnRefused(h) \/ OpenBackfill(h)
              \/ OpenDrop(h) \/ Teach(h) \/ Unteach(h)
       PROVE FALSE
  BY <1>0, <1>10 DEF OpenFile, Learn, LearnRefused, OpenBackfill, OpenDrop, Teach, Unteach, ledger
<1>11. Analyze \/ Restart \/ Done \/ UNCHANGED vars => FALSE
  BY <1>0 DEF Analyze, Restart, Done, vars, ledger
<1> QED BY <1>1, <1>2, <1>3, <1>4, <1>5, <1>6, <1>7, <1>8, <1>9, <1>10, <1>11
        DEF Next, RowStep, FilingStep

\* What a write over a row leaves of its source, whatever row the request had
\* read; and all of it, when the request had read this one.
LEMMA WrittenOver ==
  ASSUME IInv, NEW h \in Hand, NEW i \in DOMAIN rows, WritesOver(h, i)
  PROVE  /\ hand[h].at # "backfilling" /\ rows[i].source = "manual" =>
              rows'[i].source # "learned"
         /\ hand[h].at = "backfilling" /\ rows[i].source = "manual" =>
              hand[h].loaded[i] # rows[i]
         /\ hand[h].loaded[i] = rows[i] =>
              /\ FiledTruly(rows[i]) => FiledTruly(rows'[i])
              /\ MarkedTruly(rows[i]) => MarkedTruly(rows'[i])
<1> DEFINE r == hand[h]
           l == hand[h].loaded[i]
<1>0. rows[i] \in Row /\ l \in Row
  BY RowsParts DEF WritesOver
<1>1. CASE r.at = "editing"
  <2> DEFINE e == Edited(l, r.line, r.seen)
  <2>1. rows'[i] = Flushed(rows[i], l, e) /\ r.line \in Line /\ IsFiniteSet(r.seen)
    BY <1>1 DEF WritesOver
  <2>2. /\ e \in Row /\ e.category = l.category /\ e.source = l.source
        /\ MarkedTruly(l) => MarkedTruly(e)
    BY <1>0, <2>1, EditedKeeps
  <2> HIDE DEF e, r, l
  <2>3. rows'[i].source = rows[i].source
    BY <1>0, <2>1, <2>2, FlushedColumns
  <2>4. l = rows[i] => rows'[i] = e
    BY <1>0, <2>1, <2>2, FlushedFresh
  <2> QED BY <1>1, <2>2, <2>3, <2>4 DEF r, l, FiledTruly
<1>2. CASE r.at = "marking"
  <2> DEFINE m == [l EXCEPT !.transfer = r.flag, !.marked = "manual"]
  <2>1. rows'[i] = Flushed(rows[i], l, m) /\ r.flag \in BOOLEAN
    BY <1>2 DEF WritesOver
  <2>2. m \in Row /\ m.category = l.category /\ m.source = l.source /\ m.marked = "manual"
    <3> HIDE DEF r, l
    <3> QED BY <1>0, <2>1 DEF Row
  <2> HIDE DEF m, r, l
  <2>3. rows'[i].source = rows[i].source
    BY <1>0, <2>1, <2>2, FlushedColumns
  <2>4. l = rows[i] => rows'[i] = m
    BY <1>0, <2>1, <2>2, FlushedFresh
  <2> QED BY <1>2, <2>2, <2>3, <2>4 DEF r, l, FiledTruly, MarkedTruly
<1>3. CASE r.at = "filing"
  <2> DEFINE f == Filed(l, r.category)
  <2>1. rows'[i] = Flushed(rows[i], l, f) /\ r.category \in Category \union {NoCategory}
    BY <1>3 DEF WritesOver
  <2>2. /\ f \in Row /\ f.category = r.category
        /\ f.source = IF r.category = NoCategory THEN "uncategorized" ELSE "manual"
        /\ MarkedTruly(f)
    BY <1>0, <2>1, FiledKeeps
  <2> HIDE DEF f, r, l
  <2>3. rows'[i].source \in {rows[i].source, f.source}
    BY <1>0, <2>1, <2>2, FlushedColumns
  <2>4. l = rows[i] => rows'[i] = f
    BY <1>0, <2>1, <2>2, FlushedFresh
  <2> QED BY <1>3, <2>2, <2>3, <2>4 DEF r, l, FiledTruly
<1>4. CASE r.at = "backfilling"
  <2> DEFINE f == Refiled(l, r.category)
  <2>1. /\ rows'[i] = Flushed(rows[i], l, f) /\ r.category \in Category
        /\ l.source \in Overrulable
    BY <1>4 DEF WritesOver
  <2>2. f \in Row /\ f.category = r.category /\ f.source = "learned" /\ MarkedTruly(f)
    BY <1>0, <2>1, RefiledKeeps
  <2> HIDE DEF f, r, l
  <2>3. l = rows[i] => rows'[i] = f
    BY <1>0, <2>1, <2>2, FlushedFresh
  <2>4. r.category # NoCategory
    BY <2>1, LedgerAssumption
  <2> QED BY <1>4, <2>1, <2>2, <2>3, <2>4 DEF r, l, FiledTruly, Overrulable
<1> QED BY <1>1, <1>2, <1>3, <1>4 DEF WritesOver

\* The learned rule never overrules a choice it had seen: a category picked by
\* hand is overwritten only by a backfill that read the row before the pick was
\* committed (categorization/learning.py apply_learned_rule).
THEOREM ChoiceStandsAlways == Spec => ChoiceStands
<1> DEFINE Overruled(i) ==
             \E h \in Hand : /\ hand[h].at = "backfilling" /\ i \in DOMAIN hand[h].loaded
                             /\ hand[h].loaded[i] # rows[i]
           Stands == \A i \in DOMAIN rows \intersect DOMAIN rows' :
                       rows[i].source = "manual" /\ rows'[i].source = "learned" => Overruled(i)
<1>1. IInv /\ [Next]_vars => Stands
  <2> SUFFICES ASSUME IInv, [Next]_vars, NEW i \in DOMAIN rows \intersect DOMAIN rows',
                      rows[i].source = "manual", rows'[i].source = "learned"
               PROVE  Overruled(i)
    OBVIOUS
  <2>1. PICK h \in Hand : WritesOver(h, i) \/ Empties(h, i)
    BY RowStory
  <2>2. ~Empties(h, i)
    BY RowsParts, UnfiledKeeps DEF Empties
  <2>3. WritesOver(h, i)
    BY <2>1, <2>2
  <2>4. hand[h].at = "backfilling" /\ hand[h].loaded[i] # rows[i]
    BY <2>3, WrittenOver
  <2> QED BY <2>3, <2>4 DEF WritesOver
<1>2. IInv /\ [Next]_vars => [Stands]_vars
  BY <1>1
<1> QED BY <1>2, LedgerInvariance, PTL DEF Spec, ChoiceStands

\* What a row says about itself stays true: only a request that had read
\* another row, or the loss of a category for the transfer mark, may part the
\* category from the source or from the mark (api/transactions.py,
\* categorization/learning.py, transfers.py).
THEOREM StaysTruthfulAlways == Spec => StaysTruthful
<1> DEFINE Truthful ==
             \A i \in DOMAIN rows \intersect DOMAIN rows' :
               /\ FiledTruly(rows[i]) /\ ~FiledTruly(rows'[i]) => WrittenStale(i)
               /\ MarkedTruly(rows[i]) /\ ~MarkedTruly(rows'[i]) =>
                    WrittenStale(i) \/ \E h \in Hand : hand[h].at = "dropping"
<1>1. IInv /\ [Next]_vars => Truthful
  <2> SUFFICES ASSUME IInv, [Next]_vars, NEW i \in DOMAIN rows \intersect DOMAIN rows',
                      rows'[i] # rows[i]
               PROVE  /\ FiledTruly(rows[i]) /\ ~FiledTruly(rows'[i]) => WrittenStale(i)
                      /\ MarkedTruly(rows[i]) /\ ~MarkedTruly(rows'[i]) =>
                           WrittenStale(i) \/ \E h \in Hand : hand[h].at = "dropping"
    OBVIOUS
  <2>1. PICK h \in Hand : WritesOver(h, i) \/ Empties(h, i)
    BY RowStory
  <2>2. CASE WritesOver(h, i)
    <3>1. hand[h].loaded[i] # rows[i] => WrittenStale(i)
      BY <2>2 DEF WritesOver, WrittenStale
    <3>2. hand[h].loaded[i] = rows[i] =>
            /\ FiledTruly(rows[i]) => FiledTruly(rows'[i])
            /\ MarkedTruly(rows[i]) => MarkedTruly(rows'[i])
      BY <2>2, WrittenOver
    <3> QED BY <3>1, <3>2
  <2>3. CASE Empties(h, i)
    <3>1. rows[i] \in Row
      BY RowsParts
    <3>2. rows'[i].category = NoCategory /\ rows'[i].source = "uncategorized"
      BY <2>3, <3>1, UnfiledKeeps DEF Empties
    <3> QED BY <2>3, <3>2 DEF Empties, FiledTruly
  <2> QED BY <2>1, <2>2, <2>3
<1>2. IInv /\ [Next]_vars => [Truthful]_vars
  BY <1>1
<1> QED BY <1>2, LedgerInvariance, PTL DEF Spec, StaysTruthful
=============================================================================
