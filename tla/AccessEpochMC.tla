---------------------------- MODULE AccessEpochMC ----------------------------
(***************************************************************************)
(* AccessEpoch for TLC: tokens, handlers and families may be permuted.     *)
(***************************************************************************)
EXTENDS AccessEpoch, TLC

Symmetry ==
    Permutations(Tokens) \cup Permutations(Callers) \cup Permutations(Families)

=============================================================================
