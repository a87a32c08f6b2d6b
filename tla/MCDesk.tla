------------------------------- MODULE MCDesk -------------------------------
(***************************************************************************)
(* Desk for TLC.  Actors and instruments are model values; the whitelist   *)
(* is the two instruments, or the one, in a fixed order.                   *)
(***************************************************************************)
EXTENDS Desk, TLC

CONSTANTS a, b

BothListed == <<a, b>>
OneListed  == <<a>>

PolicyKinds == AllKinds \ {"reset"}

\* Requests are told apart by nothing but their names.
RequestSymmetry == Permutations(Request)
=============================================================================
