----------------------------- MODULE MCCallRail -----------------------------
(* Instances of CallRail for TLC. *)
EXTENDS CallRail, TLC

Symmetry == Permutations(Contacts) \cup Permutations(Instances)
=============================================================================
