-------------------------- MODULE ConsumeAdapterMC --------------------------
(***************************************************************************)
(* What TLC needs to check ConsumeAdapter on small instances.              *)
(***************************************************************************)
EXTENDS ConsumeAdapter, TLC

\* Tokens, handlers and purposes are interchangeable.
Symmetry == Permutations(Tokens) \cup Permutations(Callers)
                \cup Permutations(Purposes)

=============================================================================
