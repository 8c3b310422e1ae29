----------------------------- MODULE MCCallDesk -----------------------------
(* Instances of CallDesk for TLC. *)
EXTENDS CallDesk, TLC

Symmetry == Permutations(Contacts) \cup Permutations(Senders)
=============================================================================
