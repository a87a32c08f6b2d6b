------------------------------ MODULE MCFiling ------------------------------
(***************************************************************************)
(* Filing for TLC: two statement lines of one merchant, one of them on an  *)
(* account of the savings perimeter; a category and its leaf, and one of   *)
(* kind "transfer"; a file that holds the same line twice, and a row that  *)
(* cannot be read.                                                         *)
(***************************************************************************)
EXTENDS Filing, TLC

CONSTANTS x, y, torn, shop, gear, saved, none, fnac, f, g

TheTransfers == {saved}
TheLeaves    == {gear}
TheParent    == [c \in {gear} |-> shop]
ThePattern   == [l \in {x, y} |-> fnac]
TheSign      == [l \in {x, y} |-> "debit"]
TheHint      == [l \in {x, y} |-> IF l = x THEN shop ELSE gear]
TheBuiltin   == {[pattern |-> fnac, category |-> gear, direction |-> "debit",
                  origin |-> "builtin"]}

TwoFiles == [u \in {f, g} |-> IF u = f THEN <<x, torn, x>> ELSE <<x>>]

Statements  == {"import", "rollback"}
Overlaps    == {"import", "edit"}
Corrections == {"create", "edit", "delete"}
Markings    == {"create", "file", "edit"}
Families    == {"create", "file", "mark", "drop"}
Lessons     == {"create", "file", "teach", "unteach"}

TheRequests ==
  [mix \in {Statements, Overlaps, Corrections, Markings, Families, Lessons} |->
     IF mix \in {Corrections, Markings} THEN 4 ELSE 3]

\* A stop in the middle of a request of one commit leaves what no request
\* leaves: only the mixes with requests of several commits need one.
TheRestarts == [mix \in DOMAIN TheRequests |-> IF mix \in {Overlaps, Corrections} THEN 0 ELSE 1]

HandSymmetry == Permutations(Hand)
=============================================================================
