----------------------------- MODULE Oversight -----------------------------
(***************************************************************************)
(* The requests that govern the pipeline (backend/app/api/invest_policy.py *)
(* write_policy, arm, disarm, resume; api/invest_oversight.py halt;        *)
(* api/invest_run.py reset_sandbox), each a thread of its own between the  *)
(* row it loads, the journal entry it chains onto and the commit that      *)
(* writes both.                                                            *)
(***************************************************************************)
EXTENDS Store

CONSTANT Kinds   \* the requests the household and its supervisor may make

AllKinds == {"halt", "resume", "arm", "disarm", "observer", "paper", "live", "reset"}

ASSUME OversightAssumption == Kinds \subseteq AllKinds

VARIABLE request   \* request[r]: where the request r is, and what it holds

Idle == [pc |-> "idle", kind |-> "halt", policy |-> policy,
         book |-> books["paper"], last |-> 0]

Requests == [ pc : {"idle", "loaded", "chained", "answered", "refused", "failed"},
              kind : AllKinds, policy : Policy, book : Book, last : Nat ]

\* Answered at once from the row it loaded: the pipeline is already halted, or
\* has nothing to resume.
AnsweredAtOnce(kind, p) ==
  (kind = "halt" /\ p.halted) \/ (kind = "resume" /\ ~p.halted)

\* The refusals an arming meets that depend on the row (409, 422).
RefusedAtOnce(kind, p) == kind = "arm" /\ (p.autonomy # "live" \/ p.halted)

\* A mutant: a resume lifts the halt and leaves its reason on the row.
AssignedKeepingReason(kind, p, r) ==
  CASE kind = "halt"   -> [p EXCEPT !.halted = TRUE, !.reason = r, !.armed = NoOne]
    [] kind = "resume" -> [p EXCEPT !.halted = FALSE, !.armed = NoOne]
    [] kind = "arm"    -> [p EXCEPT !.armed = r]
    [] kind = "disarm" -> [p EXCEPT !.armed = NoOne]
    [] OTHER -> p

\* The row after the handler's assignments.  Moving the autonomy to live never
\* arms it; leaving live keeps the arming where it was.
Assigned(kind, p, r) ==
  CASE kind = "halt"   -> [p EXCEPT !.halted = TRUE, !.reason = r, !.armed = NoOne]
    [] kind = "resume" -> [p EXCEPT !.halted = FALSE, !.reason = NoOne, !.armed = NoOne]
    [] kind = "arm"    -> [p EXCEPT !.armed = r]
    [] kind = "disarm" -> [p EXCEPT !.armed = NoOne]
    [] kind = "reset"  -> p
    [] OTHER -> [p EXCEPT !.autonomy = kind,
                          !.armed = IF kind = "live" /\ p.autonomy # "live"
                                    THEN NoOne ELSE @]

-----------------------------------------------------------------------------

\* policy_for, or account_for: the row into the request's session, and the
\* answers that need nothing more.  An arming may also be refused for its
\* phrase, an empty whitelist or the model's record.
Load(r) ==
  /\ request[r].pc = "idle"
  /\ \E kind \in Kinds, pc \in {"loaded", "answered", "refused"} :
       /\ pc = "answered" <=> AnsweredAtOnce(kind, policy)
       /\ RefusedAtOnce(kind, policy) => pc = "refused"
       /\ pc = "refused" => kind = "arm"
       /\ request' = [request EXCEPT ![r].pc = pc, ![r].kind = kind,
                                     ![r].policy = policy,
                                     ![r].book = books["paper"]]
  /\ UNCHANGED store

\* audit.append reads the last entry, before anything of this request is
\* written.  A reset has already deleted the positions by then: it chains
\* under the lock.
Chain(r) ==
  /\ request[r].pc = "loaded"
  /\ request[r].kind # "reset"
  /\ request' = [request EXCEPT ![r].pc = "chained", ![r].last = LastSequence(journal)]
  /\ UNCHANGED store

\* The flush of the row and of the entry, and the commit.
Commit(r) ==
  /\ request[r].pc = "chained"
  /\ lock = NoOne
  /\ ~Taken(request[r].last + 1, journal)
  /\ policy' = Written(policy, request[r].policy,
                       Assigned(request[r].kind, request[r].policy, r))
  /\ journal' = journal \union Appended(request[r].last, 1, r)
  /\ request' = [request EXCEPT ![r].pc = "answered"]
  /\ UNCHANGED <<books, days, lock, ledger>>

\* The same flush, refused by the unique constraint of the journal: somebody
\* chained onto the entry this request had read.  The request fails.
Collide(r) ==
  /\ request[r].pc = "chained"
  /\ lock = NoOne
  /\ Taken(request[r].last + 1, journal)
  /\ request' = [request EXCEPT ![r].pc = "failed"]
  /\ UNCHANGED store

\* reset_sandbox: the columns it changes, no position, one entry.
CommitReset(r) ==
  /\ request[r].pc = "loaded"
  /\ request[r].kind = "reset"
  /\ lock = NoOne
  /\ books' = [books EXCEPT !["paper"] =
                 [WrittenBook(@, request[r].book, FreshBook(Stake))
                    EXCEPT !.held = FreshBook(Stake).held]]
  /\ ledger' = [ledger EXCEPT !["paper"] = EmptyLedger(Stake)]
  /\ journal' = journal \union Appended(LastSequence(journal), 1, r)
  /\ request' = [request EXCEPT ![r].pc = "answered"]
  /\ UNCHANGED <<policy, days, lock>>

\* "database is locked": another transaction has kept the lock for longer than
\* the driver waits.
GiveUp(r) ==
  /\ request[r].pc = "chained" \/ (request[r].pc = "loaded" /\ request[r].kind = "reset")
  /\ lock # NoOne
  /\ request' = [request EXCEPT ![r].pc = "failed"]
  /\ UNCHANGED store

OversightStep(r) ==
  Load(r) \/ Chain(r) \/ Commit(r) \/ Collide(r) \/ CommitReset(r) \/ GiveUp(r)

RequestsAtRest == \A r \in Request : request[r].pc \in {"answered", "refused", "failed"}
=============================================================================
