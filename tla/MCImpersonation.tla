-------------------------- MODULE MCImpersonation --------------------------
(* Small instances of Impersonation for TLC. *)
EXTENDS Impersonation, TLC

Symmetry ==
  Permutations(Slots) \cup Permutations(Cleaners) \cup Permutations(Sessions)
=============================================================================
