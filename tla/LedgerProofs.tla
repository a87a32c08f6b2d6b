---------------------------- MODULE LedgerProofs ----------------------------
(***************************************************************************)
(* What the operators of Ledger return: types, the free suffix of a        *)
(* deliberate copy, what a flush writes.  Nothing here is about a step.    *)
(***************************************************************************)
EXTENDS Ledger, FiniteSetTheorems, TLAPS

Answer == [category : Category \union {NoCategory}, source : Source]

-----------------------------------------------------------------------------
(* Suffixes.                                                               *)

\* A set of naturals that is not empty has a least element.
LEMMA LeastOf ==
  ASSUME NEW S \in SUBSET Nat, S # {}
  PROVE  \E k \in S : \A j \in S : k <= j
<1>1. PICK k \in S : \A j \in S : <<j, k>> \notin OpToRel(<, Nat)
  BY NatLessThanWellFounded, WFMin
<1>2. \A j \in S : ~(j < k)
  BY <1>1 DEF OpToRel
<1> QED BY <1>2

\* Among n .. n + Cardinality(taken) some suffix is free: there are more of
\* them than fingerprints taken.
LEMMA SomeSuffixFree ==
  ASSUME NEW line, NEW n \in Nat, NEW taken, IsFiniteSet(taken)
  PROVE  \E k \in n..(n + Cardinality(taken)) : <<line, k>> \notin taken
<1> DEFINE c == Cardinality(taken)
           K == n..(n + c)
           f == [k \in K |-> <<line, k>>]
<1>1. c \in Nat
  BY FS_CardinalityType
<1>2. IsFiniteSet(K) /\ Cardinality(K) = c + 1
  BY <1>1, FS_Interval
<1>3. SUFFICES ASSUME \A k \in K : <<line, k>> \in taken PROVE FALSE
  OBVIOUS
<1>4. f \in [K -> taken]
  BY <1>3
<1>5. PICK j \in K, k \in K : j # k /\ f[j] = f[k]
  <2>1. Cardinality(taken) < Cardinality(K)
    BY <1>1, <1>2
  <2> HIDE DEF f, K
  <2> QED BY <1>2, <1>4, <2>1, FS_PigeonHole
<1> QED BY <1>5

\* The loop of commit_import ends on a suffix nobody holds.
LEMMA FreeFromIsFree ==
  ASSUME NEW line, NEW n \in Nat, NEW taken, IsFiniteSet(taken)
  PROVE  /\ FreeFrom(line, n, taken) \in Nat
         /\ FreeFrom(line, n, taken) >= n
         /\ <<line, FreeFrom(line, n, taken)>> \notin taken
<1> DEFINE c == Cardinality(taken)
           Free == {k \in n..(n + c) : <<line, k>> \notin taken}
<1>1. c \in Nat
  BY FS_CardinalityType
<1>2. Free \in SUBSET Nat /\ Free # {}
  <2>1. \E k \in n..(n + c) : <<line, k>> \notin taken
    BY SomeSuffixFree
  <2> HIDE DEF c
  <2> QED BY <1>1, <2>1
<1>3. PICK k \in Free : \A j \in Free : k <= j
  <2> HIDE DEF Free
  <2> QED BY <1>2, LeastOf
<1>4. \A j \in n..(k - 1) : <<line, j>> \in taken
  BY <1>1, <1>3
<1>5. \E m \in n..(n + c) : /\ <<line, m>> \notin taken
                            /\ \A j \in n..(m - 1) : <<line, j>> \in taken
  BY <1>3, <1>4
<1> QED BY <1>1, <1>5 DEF FreeFrom

LEMMA FreeCopyIsFree ==
  ASSUME NEW line, NEW taken, IsFiniteSet(taken)
  PROVE  /\ FreeCopy(line, taken) \in Nat
         /\ <<line, FreeCopy(line, taken)>> \notin taken
         /\ <<line, 0>> \notin taken => FreeCopy(line, taken) = 0
BY FreeFromIsFree DEF FreeCopy

-----------------------------------------------------------------------------
(* Rows.                                                                   *)

LEMMA InternalTransferType ==
  ASSUME NEW category, NEW line
  PROVE  InternalTransfer(category, line) \in BOOLEAN
<1>1. CASE category = NoCategory
  <2>1. InternalTransfer(category, line) = (line \in Savings)
    BY <1>1 DEF InternalTransfer
  <2> QED BY <2>1
<1>2. CASE category # NoCategory
  <2>1. InternalTransfer(category, line) = (category \in Transfers)
    BY <1>2 DEF InternalTransfer
  <2> QED BY <2>1
<1> QED BY <1>1, <1>2

LEMMA RemarkedKeeps ==
  ASSUME NEW row \in Row
  PROVE  LET r == Remarked(row)
         IN  /\ r \in Row
             /\ r.line = row.line /\ r.copy = row.copy /\ r.batch = row.batch
             /\ r.category = row.category /\ r.source = row.source
             /\ r.marked = row.marked
             /\ r.marked = "auto" => r.transfer = InternalTransfer(r.category, r.line)
<1> DEFINE t == InternalTransfer(row.category, row.line)
           r == [row EXCEPT !.transfer = t]
<1>1. t \in BOOLEAN
  BY InternalTransferType
<1>2. /\ r \in Row /\ r.transfer = t
      /\ r.line = row.line /\ r.copy = row.copy /\ r.batch = row.batch
      /\ r.category = row.category /\ r.source = row.source /\ r.marked = row.marked
  <2> HIDE DEF t
  <2> QED BY <1>1 DEF Row
<1>3. r.transfer = InternalTransfer(r.category, r.line)
  <2> HIDE DEF r
  <2> QED BY <1>2
<1>4. Remarked(row) = IF row.marked = "manual" THEN row ELSE r
  BY DEF Remarked
<1>5. row.marked \in {"auto", "manual"}
  BY DEF Row
<1> HIDE DEF r, t
<1> QED BY <1>2, <1>3, <1>4, <1>5

LEMMA NewRowType ==
  ASSUME NEW line \in Line, NEW copy \in Nat, NEW batch \in Nat, NEW answer \in Answer
  PROVE  LET r == NewRow(line, copy, batch, answer)
         IN  /\ r \in Row
             /\ r.line = line /\ r.copy = copy /\ r.batch = batch
             /\ r.category = answer.category /\ r.source = answer.source
<1> DEFINE t == InternalTransfer(answer.category, line)
<1>1. t \in BOOLEAN
  BY InternalTransferType
<1> HIDE DEF t
<1>2. NewRow(line, copy, batch, answer) =
        [line |-> line, copy |-> copy, batch |-> batch,
         category |-> answer.category, source |-> answer.source,
         transfer |-> t, marked |-> "auto"]
  BY DEF NewRow, t
<1> QED BY <1>1, <1>2 DEF Row, Answer

\* A flush writes, column by column, what was assigned and keeps the rest.
LEMMA FlushedColumns ==
  ASSUME NEW stored \in Row, NEW loaded \in Row, NEW assigned \in Row
  PROVE  LET f == Flushed(stored, loaded, assigned)
         IN  /\ f \in Row
             /\ f.line = IF assigned.line = loaded.line THEN stored.line ELSE assigned.line
             /\ f.copy = IF assigned.copy = loaded.copy THEN stored.copy ELSE assigned.copy
             /\ f.batch = IF assigned.batch = loaded.batch THEN stored.batch ELSE assigned.batch
             /\ f.category = IF assigned.category = loaded.category THEN stored.category
                             ELSE assigned.category
             /\ f.source = IF assigned.source = loaded.source THEN stored.source
                           ELSE assigned.source
BY DEF Flushed, Row

\* Over a row that has not changed, a flush writes the whole of it.
LEMMA FlushedFresh ==
  ASSUME NEW row \in Row, NEW assigned \in Row
  PROVE  Flushed(row, row, assigned) = assigned
<1>1. /\ assigned = [f \in DOMAIN assigned |-> assigned[f]]
      /\ DOMAIN assigned = DOMAIN row
  BY DEF Row
<1> QED BY <1>1 DEF Flushed

-----------------------------------------------------------------------------
(* Categories.                                                             *)

LEMMA ClassifiedType ==
  ASSUME NEW line \in Line, NEW rules \in SUBSET Rule
  PROVE  Classified(line, rules) \in Answer
<1> DEFINE M == {r \in rules : Applies(r, line)}
           Best(r) == \A o \in M : Priority[o.origin] <= Priority[r.origin]
<1>1. \A r \in M : r.origin \in {"builtin", "learned", "manual"} /\ r.category \in Category
  BY DEF Rule
<1>2. ASSUME M # {} PROVE \E r \in M : Best(r)
  <2>1. CASE \E r \in M : r.origin = "manual"
    BY <1>1, <2>1 DEF Priority
  <2>2. CASE (\E r \in M : r.origin = "learned") /\ ~\E r \in M : r.origin = "manual"
    BY <1>1, <2>2 DEF Priority
  <2>3. CASE \A r \in M : r.origin = "builtin"
    BY <1>2, <1>1, <2>3 DEF Priority
  <2> QED BY <1>1, <2>1, <2>2, <2>3
<1>3. ASSUME M # {} PROVE (CHOOSE r \in M : Best(r)) \in M
  <2> HIDE DEF M
  <2> QED BY <1>2, <1>3
<1>4. CASE M = {}
  BY <1>4 DEF Classified, Answer, Source
<1>5. CASE M # {}
  <2> DEFINE b == CHOOSE r \in M : Best(r)
  <2>1. Classified(line, rules) = [category |-> b.category, source |-> b.origin]
    BY <1>5 DEF Classified
  <2>2. b.category \in Category /\ b.origin \in Source
    <3> HIDE DEF b, M
    <3> QED BY <1>1, <1>3, <1>5 DEF b, Source
  <2> HIDE DEF b
  <2> QED BY <2>1, <2>2 DEF Answer
<1> QED BY <1>4, <1>5

LEMMA ResolvedType ==
  ASSUME NEW line \in Line, NEW rules \in SUBSET Rule, NEW categories \in SUBSET Category
  PROVE  Resolved(line, rules, categories) \in Answer
<1>1. Classified(line, rules) \in Answer
  BY ClassifiedType
<1> QED BY <1>1 DEF Resolved, Answer, Source
=============================================================================
