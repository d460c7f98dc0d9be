-------------------------- MODULE SingleUseTokenMC --------------------------
(***************************************************************************)
(* What TLC needs to check SingleUseToken on small instances.              *)
(***************************************************************************)
EXTENDS SingleUseToken, TLC

\* Tokens, handlers and purposes are interchangeable.
Symmetry == Permutations(Tokens) \cup Permutations(Callers)
                \cup Permutations(Purposes)

=============================================================================
