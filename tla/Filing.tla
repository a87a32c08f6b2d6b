------------------------------- MODULE Filing -------------------------------
(***************************************************************************)
(* How a household files its transactions, and what Yieldo learns from it: *)
(* a correction commits the row, then a rule learned from it, then the     *)
(* rows that rule reaches, in three transactions of one request            *)
(* (api/transactions.py patch_transaction, categorization/learning.py).    *)
(* Categories are dropped and rules taught and forgotten meanwhile         *)
(* (api/categories.py, api/rules.py).                                      *)
(***************************************************************************)
EXTENDS Bookkeeping

\* patch_transaction with a category: the row is read.  NoCategory clears it.
OpenFile(h) ==
  /\ Starts(h, "file")
  /\ \E i \in DOMAIN rows, c \in categories \union {NoCategory} :
       Goes(h, [AtRest EXCEPT !.at = "filing", !.id = i, !.category = c,
                              !.loaded = Only(i)])
  /\ UNCHANGED <<ledger, files, told>>

Filed(row, c) ==
  Remarked([row EXCEPT !.category = c,
                       !.source = IF c = NoCategory THEN "uncategorized" ELSE "manual"])

\* The row is committed and read again.  A cleared category teaches nothing,
\* nor does a label with nothing specific in it.
File(h) ==
  LET r    == hand[h]
      i    == r.id
      next == Flushed(rows[i], r.loaded[i], Filed(r.loaded[i], r.category))
  IN  /\ r.at = "filing"
      /\ IF i \in DOMAIN rows /\ r.category \in categories \union {NoCategory}
         THEN /\ rows' = [rows EXCEPT ![i] = next]
              /\ IF r.category = NoCategory \/ Pattern[next.line] = NoPattern THEN Ends(h)
                 ELSE Goes(h, [r EXCEPT !.at = "filed", !.line = next.line])
         ELSE UNCHANGED rows /\ Ends(h)
      /\ UNCHANGED <<batches, rules, categories, files, told>> /\ Continues

LearnedRule(p, c, d) ==
  [pattern |-> p, category |-> c, direction |-> d, origin |-> "learned"]

\* The rules learned for a pattern: one, since each correction repoints it.
LearnedFor(p) == {r \in rules : r.pattern = p /\ r.origin = "learned"}

\* (user_id, pattern, category_id) is unique.
RuleTaken(p, c, among) == \E r \in among : r.pattern = p /\ r.category = c

\* learn_from_correction: the pattern's learned rule is repointed, or created.
Learn(h) ==
  LET r    == hand[h]
      p    == Pattern[r.line]
      kept == rules \ LearnedFor(p)
  IN  /\ r.at = "filed"
      /\ ~RuleTaken(p, r.category, kept) /\ r.category \in categories
      /\ rules' = kept \union {LearnedRule(p, r.category, Sign[r.line])}
      /\ Goes(h, [r EXCEPT !.at = "learned"])
      /\ UNCHANGED <<rows, batches, categories, files, told>> /\ Continues

\* The constraint refuses the rule: another one already sends this pattern
\* there.  The request fails; the row it committed stays filed.
LearnRefused(h) ==
  LET r == hand[h]
      p == Pattern[r.line]
  IN  /\ r.at = "filed"
      /\ RuleTaken(p, r.category, rules \ LearnedFor(p)) \/ r.category \notin categories
      /\ Ends(h)
      /\ UNCHANGED <<ledger, files, told>> /\ Continues

\* A mutant: every row the rule matches, whoever filed it.
ReachesFiled(rule, row) ==
  Applies(rule, row.line) /\ row.category # rule.category

\* A row the backfill refiles: filed by nobody, or by a rule of lower standing.
Reaches(rule, row) ==
  /\ row.source \in Overrulable
  /\ Applies(rule, row.line) /\ row.category # rule.category

\* apply_learned_rule: the rows it may refile are read.
OpenBackfill(h) ==
  LET r    == hand[h]
      rule == LearnedRule(Pattern[r.line], r.category, Sign[r.line])
  IN  /\ r.at = "learned"
      /\ Goes(h, [r EXCEPT !.at = "backfilling",
                    !.loaded = [i \in {j \in DOMAIN rows : Reaches(rule, rows[j])} |-> rows[i]]])
      /\ UNCHANGED <<ledger, files, told>> /\ Continues

\* A mutant: the category moves and the transfer mark stays behind.
RefiledUnmarked(row, c) == [row EXCEPT !.category = c, !.source = "learned"]

Refiled(row, c) == Remarked([row EXCEPT !.category = c, !.source = "learned"])

\* The rows refiled are committed together: all of them, or none when one is
\* gone or the category is.
Backfill(h) ==
  LET r == hand[h]
  IN  /\ r.at = "backfilling"
      /\ rows' = IF DOMAIN r.loaded \subseteq DOMAIN rows /\ r.category \in categories
                 THEN [i \in DOMAIN rows |->
                         IF i \in DOMAIN r.loaded
                         THEN Flushed(rows[i], r.loaded[i], Refiled(r.loaded[i], r.category))
                         ELSE rows[i]]
                 ELSE rows
      /\ Ends(h)
      /\ UNCHANGED <<batches, rules, categories, files, told>> /\ Continues

\* delete_category: it and its children, the rows filed under them
\* uncategorized, their rules deleted with them.
OpenDrop(h) ==
  /\ Starts(h, "drop")
  /\ \E c \in categories : Goes(h, [AtRest EXCEPT !.at = "dropping", !.category = c])
  /\ UNCHANGED <<ledger, files, told>>

Doomed(c) == {c} \union {d \in Leaves : Parent[d] = c}

\* A mutant: the database's ON DELETE SET NULL alone.
Emptied(row) == [row EXCEPT !.category = NoCategory]

Unfiled(row) == [row EXCEPT !.category = NoCategory, !.source = "uncategorized"]

Drop(h) ==
  LET gone == Doomed(hand[h].category)
  IN  /\ hand[h].at = "dropping"
      /\ rows' = [i \in DOMAIN rows |->
                    IF rows[i].category \in gone THEN Unfiled(rows[i]) ELSE rows[i]]
      /\ rules' = {r \in rules : r.category \notin gone}
      /\ categories' = categories \ gone
      /\ Ends(h)
      /\ UNCHANGED <<batches, files, told>> /\ Continues

\* create_rule: refused when the pattern already goes there.
Teach(h) ==
  /\ Starts(h, "teach")
  /\ \E p \in Range(Pattern) \ {NoPattern}, c \in categories, d \in {"any", "debit", "credit"} :
       /\ ~RuleTaken(p, c, rules)
       /\ rules' = rules \union
            {[pattern |-> p, category |-> c, direction |-> d, origin |-> "manual"]}
  /\ UNCHANGED <<rows, batches, categories, files, told, hand>>

\* delete_rule: a rule that came with the account stays.
Unteach(h) ==
  /\ Starts(h, "unteach")
  /\ \E r \in rules : r.origin # "builtin" /\ rules' = rules \ {r}
  /\ UNCHANGED <<rows, batches, categories, files, told, hand>>

FilingStep(h) ==
  \/ OpenFile(h) \/ File(h) \/ Learn(h) \/ LearnRefused(h) \/ OpenBackfill(h)
  \/ Backfill(h) \/ OpenDrop(h) \/ Drop(h) \/ Teach(h) \/ Unteach(h)

\* The process stops: every request is lost where it was.
Restart ==
  /\ restarts < Restarts[wanted]
  /\ restarts' = restarts + 1
  /\ hand' = [h \in Hand |-> AtRest]
  /\ UNCHANGED <<ledger, files, told, wanted, requests>>

\* Nobody asks for anything more.
Done ==
  /\ \A h \in Hand : hand[h].at = "rest"
  /\ requests = MaxRequests[wanted]
  /\ UNCHANGED vars

Next ==
  \/ \E h \in Hand : ImportStep(h) \/ RowStep(h) \/ FilingStep(h)
  \/ Analyze \/ Restart \/ Done

Spec == Init /\ [][Next]_vars

-----------------------------------------------------------------------------
\* Every column keeps its type, and every category a row or a rule names
\* exists, whatever is dropped while requests are on their way.
TypeOK ==
  /\ DOMAIN rows \subseteq Nat \ {0} /\ \A i \in DOMAIN rows : rows[i] \in Row
  /\ \A i \in DOMAIN rows : rows[i].category \in categories \union {NoCategory}
  /\ \A r \in rules : r.category \in categories
  /\ \A b \in DOMAIN batches :
       batches[b] \in [upload : Upload, imported : Nat, stored : BOOLEAN]
  /\ rules \subseteq Rule /\ categories \subseteq Category
  /\ pending \subseteq Upload
  /\ \A b \in DOMAIN archive : archive[b] \in Upload
  /\ asked \in [Line -> Nat]

\* How many rows of the ledger are the line l.
CopiesOf(l) == Cardinality({i \in DOMAIN rows : rows[i].line = l})

\* A statement line is counted once, and once more for each time somebody made
\* a row of it on purpose, or wrote one over a row that had changed since he
\* read it: whatever imports, re-imports, rollbacks and corrections overlap,
\* and however stale the fingerprints each of them read (importers/service.py
\* commit_import, api/transactions.py _free_fingerprint).
OneCopyUnlessAsked == \A l \in Line : CopiesOf(l) <= 1 + asked[l]

\* Counted by line, the ledger is the one OncePerLine promises, step by step:
\* an import or an entry by hand only adds, and one row at most that nobody
\* asked for, to a line that had room for it; a rollback or a deletion only
\* takes away; a correction moves one row, to a line asked for
\* (importers/service.py, api/transactions.py).
Once == INSTANCE OncePerLine WITH copies <- [l \in Line |-> CopiesOf(l)]
CountsAsPromised == Once!Spec

\* An import that works on fingerprints nobody has changed since never meets
\* the unique constraint: deliberate copies always find a free suffix, after
\* any number of rollbacks, deletions and edits (commit_import).
NeverCollidesAlone ==
  \A h \in Hand :
    hand[h].at = "opened" /\ hand[h].seen = Fingerprints(rows) => Fits(hand[h].new)

\* No row names a batch that does not exist: an import lands with its batch
\* and leaves with it, whatever a restart cuts short (commit_import,
\* rollback_import).
NoOrphan == \A i \in DOMAIN rows : rows[i].batch \in {ByHand} \union DOMAIN batches

\* What the preview announced is what lands, when the household forces nothing
\* and the ledger holds the fingerprints it held then (build_preview,
\* commit_import: two loops that must agree).
PreviewKeepsItsWord ==
  [][\A h \in Hand :
       hand[h].at = "opened" /\ hand'[h].at = "landed" /\ hand[h].forced = {} =>
         LET u == hand[h].upload
         IN  hand[h].seen = shown[u].seen =>
               {hand[h].new[k].line : k \in DOMAIN hand[h].new}
                 = {Content[u][n] : n \in shown[u].rows}
               /\ Len(hand[h].new) = Cardinality(shown[u].rows)]_vars

\* A category chosen by hand gives way to a learned rule only if the request
\* that applied the rule had read the row before the choice was committed
\* (apply_learned_rule).
ChoiceStands ==
  [][\A i \in DOMAIN rows \intersect DOMAIN rows' :
       rows[i].source = "manual" /\ rows'[i].source = "learned" =>
         \E h \in Hand : /\ hand[h].at = "backfilling" /\ i \in DOMAIN hand[h].loaded
                         /\ hand[h].loaded[i] # rows[i]]_vars

\* "Manual assignments are never overwritten" (categorization/learning.py,
\* apply_learned_rule): a row filed by hand is never refiled by a learned rule,
\* whatever the backfill had read.
ManualNeverOverwritten ==
  [][\A i \in DOMAIN rows \intersect DOMAIN rows' :
       rows[i].source = "manual" => rows'[i].source # "learned"]_vars

\* "batch.id is monotonic for the life of the database" (api/imports.py,
\* commit): the file archived for one import is never replaced by another's.
ArchiveKept ==
  [][\A b \in DOMAIN archive \intersect DOMAIN archive' : archive'[b] = archive[b]]_vars

\* A row tells the truth about itself: it has a category exactly when something
\* filed it, and unless marked by hand it is a transfer exactly when its
\* category or its account says so.
FiledTruly(row)  == row.category = NoCategory <=> row.source = "uncategorized"
MarkedTruly(row) ==
  row.marked = "auto" => row.transfer = InternalTransfer(row.category, row.line)

\* Some request that now commits row i had read it when it was another row.
WrittenStale(i) ==
  \E h \in Hand : /\ hand[h].at # hand'[h].at
                  /\ i \in DOMAIN hand[h].loaded /\ hand[h].loaded[i] # rows[i]

\* A truthful row is only made untruthful by a request that had read another
\* one: corrections, backfills and edits keep the mark and the source with the
\* category.  Dropping a category leaves the mark (api/transactions.py,
\* api/categories.py, categorization/learning.py, transfers.py).
StaysTruthful ==
  [][\A i \in DOMAIN rows \intersect DOMAIN rows' :
       /\ FiledTruly(rows[i]) /\ ~FiledTruly(rows'[i]) => WrittenStale(i)
       /\ MarkedTruly(rows[i]) /\ ~MarkedTruly(rows'[i]) =>
            WrittenStale(i) \/ \E h \in Hand : hand[h].at = "dropping"]_vars
=============================================================================
