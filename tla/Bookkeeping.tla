---------------------------- MODULE Bookkeeping ----------------------------
(***************************************************************************)
(* The requests that change a household's ledger, each a thread with its   *)
(* own database session (api/imports.py, api/transactions.py,              *)
(* api/categories.py, api/rules.py, importers/service.py,                  *)
(* categorization/learning.py).                                            *)
(*                                                                         *)
(* A request reads, works on what it read, and commits: what other         *)
(* requests commit in between is not seen again.  An import also moves a   *)
(* file, which no transaction covers, and commits twice.                   *)
(***************************************************************************)
EXTENDS Ledger

CONSTANTS
  Hand,        \* requests being served at a time
  Upload,      \* files the household may upload
  Content,     \* Content[u]: the rows of the file, in order
  MaxRequests, \* bound: for each mix of things a household may be asking for
               \* together, the requests it ever makes
  Pickable,    \* bound: rows of a file whose category is picked in the preview
  Restarts     \* bound: stops of the process, for each mix

AllWanted ==
  { "import", "rollback", "create", "edit", "delete", "mark",
    "file", "drop", "teach", "unteach" }

ASSUME BookkeepingAssumption ==
  /\ Upload # {} /\ Content \in [Upload -> Seq(Line \union {Unreadable})]
  /\ MaxRequests \in [DOMAIN MaxRequests -> Nat]
  /\ Restarts \in [DOMAIN MaxRequests -> Nat]
  /\ \A mix \in DOMAIN MaxRequests : mix \subseteq AllWanted

VARIABLES
  rows,       \* transactions, by primary key
  batches,    \* import_batches, by primary key
  rules,      \* category_rules
  categories, \* categories that exist
  pending,    \* uploads waiting under pending/
  archive,    \* archive[b]: the upload whose file is at batch-<b>.csv
  hand,       \* hand[h]: the request h serves and what it has read
  shown,      \* shown[u]: the preview the household was last given of u
  asked,      \* asked[l]: times somebody got a row of l on purpose, or wrote one
              \* over a row that was no longer the one he had read
  wanted,     \* what this household asks for
  requests,   \* requests made so far
  restarts    \* stops so far

ledger == <<rows, batches, rules, categories>>
files  == <<pending, archive>>
told   == <<shown, asked>>
vars   == <<rows, batches, rules, categories, pending, archive, hand, shown,
            asked, wanted, requests, restarts>>

Nothing == [i \in {} |-> 0]   \* a table without rows

AtRest == [ at |-> "rest", id |-> 0, upload |-> CHOOSE u \in Upload : TRUE,
            forced |-> {}, line |-> CHOOSE l \in Line : TRUE,
            category |-> NoCategory, flag |-> FALSE,
            seen |-> {}, answers |-> Nothing, row |-> 1, loaded |-> Nothing, new |-> <<>> ]

\* The household's own choice of a category.
Chosen(c) == [category |-> c, source |-> "manual"]

Init ==
  /\ rows = Nothing /\ batches = Nothing
  /\ rules = BuiltinRules /\ categories = Category
  /\ pending = {} /\ archive = Nothing
  /\ hand = [h \in Hand |-> AtRest]
  /\ shown = [u \in Upload |-> [seen |-> {}, rows |-> {}]]
  /\ asked = [l \in Line |-> 0]
  /\ wanted \in DOMAIN MaxRequests
  /\ requests = 0 /\ restarts = 0

\* A request h starts, for one of the things the household may want.
Starts(h, what) ==
  /\ hand[h].at = "rest" /\ what \in wanted /\ requests < MaxRequests[wanted]
  /\ requests' = requests + 1
  /\ UNCHANGED <<wanted, restarts>>

Goes(h, there) == hand' = [hand EXCEPT ![h] = there]
Ends(h) == Goes(h, AtRest)
Continues == UNCHANGED <<wanted, requests, restarts>>

-----------------------------------------------------------------------------
(* Imports.                                                                *)

\* analyze: uploads older than a day are swept first, then the file is read,
\* previewed and put under pending/.  Nothing is written to the database.
Analyze ==
  /\ "import" \in wanted /\ requests < MaxRequests[wanted]
  /\ \E u \in Upload, swept \in SUBSET pending :
       /\ pending' = (pending \ swept) \union {u}
       /\ shown' = [shown EXCEPT ![u] =
                      [seen |-> Fingerprints(rows),
                       rows |-> Importable(Content[u], Fingerprints(rows))]]
  /\ UNCHANGED <<ledger, archive, asked, hand>> /\ Continues

Readable(u) == {n \in DOMAIN Content[u] : Content[u][n] # Unreadable}

\* The category of row n: the one picked in the preview, or the rules' answer.
AnswerTo(u, n, picks) ==
  IF n \in DOMAIN picks THEN Chosen(picks[n])
  ELSE Resolved(Content[u][n], rules, categories)

\* commit: the file is there, and is read; so are the rules, the categories
\* (a pick that names none of them is refused) and the fingerprints already in
\* the ledger.
OpenImport(h) ==
  /\ Starts(h, "import")
  /\ \E u \in pending, picked \in SUBSET Pickable :
     \E forced \in SUBSET Readable(u), picks \in [picked -> categories] :
       Goes(h, [AtRest EXCEPT !.at = "opened", !.upload = u, !.forced = forced,
                  !.seen = Fingerprints(rows),
                  !.answers = [n \in Readable(u) |-> AnswerTo(u, n, picks)]])
  /\ UNCHANGED <<ledger, files, told>>

\* The next row of the file, against the fingerprints read and those of the
\* rows accepted so far.
AcceptRow(h) ==
  LET r == hand[h]
  IN  /\ r.at = "opened" /\ r.row \in DOMAIN Content[r.upload]
      /\ Goes(h, [r EXCEPT !.row = @ + 1,
           !.new = Accepted(@, r.seen \union Fingerprints(@), Content[r.upload], r.row,
                            r.forced, r.answers, ByHand)])
      /\ UNCHANGED <<ledger, files, told>> /\ Continues

\* Every row has been read: what is left is the commit.
Parsed(r) == r.at = "opened" /\ r.row \notin DOMAIN Content[r.upload]

\* commit of a file that is no longer there: 410.
ImportExpired(h) ==
  /\ Starts(h, "import") /\ pending # Upload
  /\ UNCHANGED <<ledger, files, told, hand>>

\* A mutant: transactions without their unique constraint.
AnythingFits(new) == TRUE

\* The constraints the insertion meets: unique fingerprints, among the rows
\* and with the ledger's.
Fits(new) ==
  /\ \A k \in DOMAIN new : Fingerprint(new[k]) \notin Fingerprints(rows)
  /\ \A j, k \in DOMAIN new : Fingerprint(new[j]) = Fingerprint(new[k]) => j = k

\* A mutant: foreign keys are not enforced.
AnythingNamed(new) == TRUE

\* A foreign key names a category that exists.
Named(new) == \A k \in DOMAIN new : new[k].category \in categories \union {NoCategory}

OfBatch(new, b) == [k \in DOMAIN new |-> [new[k] EXCEPT !.batch = b]]

\* The deliberate copies of l among the forced rows of the upload.
Copies(u, forced, l) == Cardinality({n \in forced : Content[u][n] = l})

\* commit_import's one transaction: the batch and its rows.
LandImport(h) ==
  LET r == hand[h]
  IN  /\ Parsed(r) /\ Fits(r.new) /\ Named(r.new)
      /\ \E b \in NextIds(batches), first \in NextIds(rows) :
           /\ rows' = Inserted(rows, first, OfBatch(r.new, b))
           /\ batches' = [i \in DOMAIN batches \union {b} |->
                            IF i = b THEN [upload |-> r.upload, imported |-> Len(r.new),
                                           stored |-> FALSE]
                            ELSE batches[i]]
           /\ Goes(h, [AtRest EXCEPT !.at = "landed", !.id = b, !.upload = r.upload])
      /\ asked' = [l \in Line |-> asked[l] + Copies(r.upload, r.forced, l)]
      /\ UNCHANGED <<rules, categories, files, shown>> /\ Continues

\* The same transaction, refused by a constraint: nothing of it lands.
ImportRefused(h) ==
  /\ Parsed(hand[h]) /\ ~(Fits(hand[h].new) /\ Named(hand[h].new))
  /\ Ends(h)
  /\ UNCHANGED <<ledger, files, told>> /\ Continues

\* path.replace: the file goes under the batch's name, over whatever is there.
ArchiveFile(h) ==
  LET r == hand[h]
  IN  /\ r.at = "landed" /\ r.upload \in pending
      /\ pending' = pending \ {r.upload}
      /\ archive' = [i \in DOMAIN archive \union {r.id} |->
                       IF i = r.id THEN r.upload ELSE archive[i]]
      /\ Goes(h, [r EXCEPT !.at = "archived"])
      /\ UNCHANGED <<ledger, told>> /\ Continues

\* The file is gone: another import moved it, or it was swept.  The batch
\* stays, without its file.
ArchiveMissing(h) ==
  /\ hand[h].at = "landed" /\ hand[h].upload \notin pending
  /\ Ends(h)
  /\ UNCHANGED <<ledger, files, told>> /\ Continues

\* stored_path, in a second transaction; refused when the batch is gone.
StampBatch(h) ==
  /\ hand[h].at = "archived"
  /\ batches' = [i \in DOMAIN batches |->
                   IF i = hand[h].id THEN [batches[i] EXCEPT !.stored = TRUE]
                   ELSE batches[i]]
  /\ Ends(h)
  /\ UNCHANGED <<rows, rules, categories, files, told>> /\ Continues

\* delete_batch: the batch is read first.
OpenRollback(h) ==
  /\ Starts(h, "rollback")
  /\ \E b \in DOMAIN batches : Goes(h, [AtRest EXCEPT !.at = "rolling", !.id = b])
  /\ UNCHANGED <<ledger, files, told>>

\* A mutant: only the rows that were not deliberate copies are undone.
OutsideBatchOrForced(b) == {i \in DOMAIN rows : rows[i].batch # b \/ rows[i].copy # 0}

OutsideBatch(b) == {i \in DOMAIN rows : rows[i].batch # b}

\* rollback_import: every row of the batch, then the batch, in one
\* transaction.  The archived file stays.
RollBack(h) ==
  LET b == hand[h].id
  IN  /\ hand[h].at = "rolling"
      /\ rows' = [i \in OutsideBatch(b) |-> rows[i]]
      /\ batches' = [i \in DOMAIN batches \ {b} |-> batches[i]]
      /\ Ends(h)
      /\ UNCHANGED <<rules, categories, files, told>> /\ Continues

ImportStep(h) ==
  \/ OpenImport(h) \/ ImportExpired(h) \/ AcceptRow(h) \/ LandImport(h)
  \/ ImportRefused(h) \/ ArchiveFile(h) \/ ArchiveMissing(h) \/ StampBatch(h)
  \/ OpenRollback(h) \/ RollBack(h)

-----------------------------------------------------------------------------
(* Rows changed by hand.                                                   *)

Only(i) == [j \in {i} |-> rows[j]]

\* create_transaction: the rules and the fingerprints are read.
OpenCreate(h) ==
  /\ Starts(h, "create")
  /\ \E l \in Line :
       \E answer \in {Classified(l, rules)} \union {Chosen(c) : c \in categories} :
         Goes(h, [AtRest EXCEPT !.at = "creating", !.line = l,
            !.new = <<NewRow(l, FreeCopy(l, Fingerprints(rows)), ByHand, answer)>>])
  /\ UNCHANGED <<ledger, files, told>>

Create(h) ==
  LET r == hand[h]
  IN  /\ r.at = "creating"
      /\ IF Fits(r.new) /\ Named(r.new)
         THEN /\ \E first \in NextIds(rows) : rows' = Inserted(rows, first, r.new)
              /\ asked' = [asked EXCEPT ![r.line] = @ + 1]
         ELSE UNCHANGED <<rows, asked>>
      /\ Ends(h)
      /\ UNCHANGED <<batches, rules, categories, files, shown>> /\ Continues

\* patch_transaction, or the agent's correction: the row's identity moves to
\* another line; the fingerprints of the other rows are read.
OpenEdit(h) ==
  /\ Starts(h, "edit")
  /\ \E i \in DOMAIN rows, l \in Line :
       Goes(h, [AtRest EXCEPT !.at = "editing", !.id = i, !.line = l,
          !.loaded = Only(i),
          !.seen = {Fingerprint(rows[j]) : j \in DOMAIN rows \ {i}}])
  /\ UNCHANGED <<ledger, files, told>>

\* The row as the session holds it after the assignments.  The transfer rule
\* is asked again when the account is another one.
Edited(row, l, taken) ==
  LET moved == [row EXCEPT !.line = l, !.copy = FreeCopy(l, taken)]
  IN  IF (l \in Savings) = (row.line \in Savings) THEN moved ELSE Remarked(moved)

\* The write is refused when the row is gone or when another row took the
\* fingerprint.
Edit(h) ==
  LET r    == hand[h]
      i    == r.id
      next == Flushed(rows[i], r.loaded[i], Edited(r.loaded[i], r.line, r.seen))
  IN  /\ r.at = "editing"
      /\ IF i \in DOMAIN rows /\
            \A j \in DOMAIN rows \ {i} : Fingerprint(rows[j]) # Fingerprint(next)
         THEN /\ rows' = [rows EXCEPT ![i] = next]
              /\ asked' = [asked EXCEPT ![next.line] =
                   @ + IF next.line = rows[i].line /\ rows[i] = r.loaded[i] THEN 0 ELSE 1]
         ELSE UNCHANGED <<rows, asked>>
      /\ Ends(h)
      /\ UNCHANGED <<batches, rules, categories, files, shown>> /\ Continues

\* delete_transaction.
Delete(h) ==
  /\ Starts(h, "delete")
  /\ \E i \in DOMAIN rows : rows' = [j \in DOMAIN rows \ {i} |-> rows[j]]
  /\ UNCHANGED <<batches, rules, categories, files, told, hand>>

\* is_transfer, sent explicitly.
OpenMark(h) ==
  /\ Starts(h, "mark")
  /\ \E i \in DOMAIN rows, flag \in BOOLEAN :
       Goes(h, [AtRest EXCEPT !.at = "marking", !.id = i, !.flag = flag,
                              !.loaded = Only(i)])
  /\ UNCHANGED <<ledger, files, told>>

Mark(h) ==
  LET r == hand[h]
      i == r.id
  IN  /\ r.at = "marking"
      /\ rows' = IF i \notin DOMAIN rows THEN rows
                 ELSE [rows EXCEPT ![i] = Flushed(@, r.loaded[i],
                         [r.loaded[i] EXCEPT !.transfer = r.flag, !.marked = "manual"])]
      /\ Ends(h)
      /\ UNCHANGED <<batches, rules, categories, files, told>> /\ Continues

RowStep(h) ==
  OpenCreate(h) \/ Create(h) \/ OpenEdit(h) \/ Edit(h) \/ Delete(h) \/ OpenMark(h) \/ Mark(h)
=============================================================================
