-------------------------- MODULE MCProposalCommit --------------------------
(* Instances of ProposalCommit for TLC. *)
EXTENDS ProposalCommit, TLC

Symmetry == Permutations(Taps) \cup Permutations(MoneyCards)
=============================================================================
