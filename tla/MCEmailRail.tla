----------------------------- MODULE MCEmailRail -----------------------------
(* Instances of EmailRail for TLC. *)
EXTENDS EmailRail, TLC

Symmetry ==
    Permutations(Contacts) \cup Permutations(Flows) \cup Permutations(Mailboxes)
=============================================================================
