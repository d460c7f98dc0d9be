-------------------------- MODULE RefreshSessionMC --------------------------
(***************************************************************************)
(* RefreshSession for TLC: which of its constants TLC may permute.         *)
(***************************************************************************)
EXTENDS RefreshSession, TLC

\* Tokens, users and handlers are drawn from nowhere and compared only for
\* equality.  Families may be permuted when no host supplies one.
Symmetry ==
    Permutations(Tokens) \cup Permutations(Callers) \cup Permutations(Users)

=============================================================================
