------------------------------- MODULE Ledger -------------------------------
(***************************************************************************)
(* A household's transactions and what the backend computes from them      *)
(* without touching the database: the fingerprint that makes an import     *)
(* idempotent (importers/dedup.py, importers/service.py,                   *)
(* api/transactions.py _free_fingerprint), the category a line receives    *)
(* (categorization/engine.py), and the mark of a movement of one's own     *)
(* money (engines/transfer.py).                                            *)
(*                                                                         *)
(* A Line stands for one identity a statement line can have: account,      *)
(* date, amount and normalised label.  Two rows of a file with the same    *)
(* identity are the same Line.                                             *)
(***************************************************************************)
EXTENDS Integers, Sequences, FiniteSets, Functions

CONSTANTS
  Line,        \* identities of statement lines
  Unreadable,  \* a row of a file that carries an error
  Category,    \* categories that may exist
  NoCategory,
  Transfers,   \* the categories of kind "transfer"
  Leaves,      \* the categories that have a parent
  Parent,      \* Parent[c]: the parent of a leaf
  Pattern,     \* Pattern[l]: the merchant core extracted from the label
  NoPattern,   \* nothing specific enough survives in the label
  Sign,        \* Sign[l]: "debit" or "credit"
  Savings,     \* the lines on an account of the savings perimeter
  Hint,        \* Hint[l]: the category the file itself names, if any
  BuiltinRules \* rules seeded with the account

ASSUME LedgerAssumption ==
  /\ Line # {} /\ Unreadable \notin Line /\ NoCategory \notin Category
  /\ Line = DOMAIN Pattern
  /\ Transfers \subseteq Category /\ Leaves \subseteq Category
  /\ Parent \in [Leaves -> Category \ Leaves]
  /\ Sign \in [Line -> {"debit", "credit"}]
  /\ Savings \subseteq Line
  /\ Hint \in [Line -> Category \union {NoCategory}]

ByHand == 0   \* import_batch_id of a row no import produced

Source == {"builtin", "learned", "manual", "csv", "uncategorized"}

\* category_source of what a rule may overrule (apply_learned_rule).
Overrulable == {"uncategorized", "builtin", "csv"}

Row == [ line : Line, copy : Nat, batch : Nat,
         category : Category \union {NoCategory}, source : Source,
         transfer : BOOLEAN, marked : {"auto", "manual"} ]

-----------------------------------------------------------------------------
(* Fingerprints: the identity, and the suffix of a deliberate duplicate.   *)
(* 0 is the bare fingerprint.                                              *)

Fingerprint(row) == <<row.line, row.copy>>

Fingerprints(rows) == {Fingerprint(rows[i]) : i \in DOMAIN rows}

\* The first free suffix from n on.
FreeFrom(line, n, taken) ==
  CHOOSE k \in n..(n + Cardinality(taken)) :
    /\ <<line, k>> \notin taken
    /\ \A j \in n..(k - 1) : <<line, j>> \in taken

\* _free_fingerprint: the bare one when nobody holds it.
FreeCopy(line, taken) ==
  IF <<line, 0>> \notin taken THEN 0 ELSE FreeFrom(line, 1, taken)

\* The primary key SQLite gives next: one above the highest in the table.
NextIds(table) ==
  {n \in {1} \union {m + 1 : m \in DOMAIN table} : \A m \in DOMAIN table : m < n}

-----------------------------------------------------------------------------
(* Categories.                                                             *)

Rule == [ pattern : Range(Pattern), category : Category,
          direction : {"any", "debit", "credit"}, origin : {"builtin", "learned", "manual"} ]

ASSUME BuiltinAssumption == BuiltinRules \subseteq Rule

Priority == [builtin |-> 100, learned |-> 200, manual |-> 300]

Applies(rule, line) ==
  rule.pattern = Pattern[line] /\ rule.direction \in {"any", Sign[line]}

\* classify: the matching rule of the highest priority.  Its origin is the
\* source the row carries.
Classified(line, rules) ==
  LET matching == {r \in rules : Applies(r, line)}
      best     == CHOOSE r \in matching :
                    \A o \in matching : Priority[o.origin] <= Priority[r.origin]
  IN  IF matching = {} THEN [category |-> NoCategory, source |-> "uncategorized"]
      ELSE [category |-> best.category, source |-> best.origin]

\* _resolve_category: a leaf named by the file, then the rules, then a bucket
\* named by the file.
Resolved(line, rules, categories) ==
  LET hinted  == IF Hint[line] \in categories THEN Hint[line] ELSE NoCategory
      matched == Classified(line, rules)
  IN  IF hinted \in Leaves \/ (hinted # NoCategory /\ matched.category = NoCategory)
      THEN [category |-> hinted, source |-> "csv"]
      ELSE matched

\* is_internal_transfer: the category settles it; failing one, the account.
InternalTransfer(category, line) ==
  IF category = NoCategory THEN line \in Savings ELSE category \in Transfers

\* TransferResolver.apply: a row marked by hand is left alone.
Remarked(row) ==
  IF row.marked = "manual" THEN row
  ELSE [row EXCEPT !.transfer = InternalTransfer(row.category, row.line)]

NewRow(line, copy, batch, answer) ==
  [ line |-> line, copy |-> copy, batch |-> batch,
    category |-> answer.category, source |-> answer.source,
    transfer |-> InternalTransfer(answer.category, line), marked |-> "auto" ]

-----------------------------------------------------------------------------
(* The import of one file.                                                 *)

Base(file, n) == <<file[n], 0>>

\* A mutant: the preview does not compare the file with itself.
ImportableAlone(file, seen) ==
  {n \in DOMAIN file : file[n] # Unreadable /\ Base(file, n) \notin seen}

\* build_preview: the rows announced as importable.
Importable(file, seen) ==
  {n \in DOMAIN file : /\ file[n] # Unreadable
                       /\ Base(file, n) \notin seen
                       /\ \A m \in 1..(n - 1) : file[m] # file[n]}

\* A mutant: a forced row tries its own number as suffix and nothing else.
AcceptedAtItsNumber(new, taken, file, n, forced, answers, batch) ==
  IF file[n] = Unreadable \/ (Base(file, n) \in taken /\ n \notin forced) THEN new
  ELSE LET copy == IF Base(file, n) \in taken THEN n ELSE 0
       IN  Append(new, NewRow(file[n], copy, batch, answers[n]))

\* A mutant: a row already there is taken as a copy, forced or not.
AcceptedUnforced(new, taken, file, n, forced, answers, batch) ==
  IF file[n] = Unreadable THEN new
  ELSE LET copy == IF Base(file, n) \in taken THEN FreeFrom(file[n], n, taken) ELSE 0
       IN  Append(new, NewRow(file[n], copy, batch, answers[n]))

\* One turn of commit_import's loop: a duplicate is skipped unless forced, and
\* a forced one takes the first free suffix from its row number.
Accepted(new, taken, file, n, forced, answers, batch) ==
  IF file[n] = Unreadable \/ (Base(file, n) \in taken /\ n \notin forced) THEN new
  ELSE LET copy == IF Base(file, n) \in taken THEN FreeFrom(file[n], n, taken) ELSE 0
       IN  Append(new, NewRow(file[n], copy, batch, answers[n]))

\* The rows with the new ones, under the primary keys from `first` on.
Inserted(rows, first, new) ==
  [i \in DOMAIN rows \union {first + k - 1 : k \in DOMAIN new} |->
     IF i \in DOMAIN rows THEN rows[i] ELSE new[i - first + 1]]

\* The ORM session writes back the columns whose value it changed.
Flushed(stored, loaded, assigned) ==
  [f \in DOMAIN stored |-> IF assigned[f] = loaded[f] THEN stored[f] ELSE assigned[f]]
=============================================================================
