--------------------------- MODULE OAuthCeremonyMC ---------------------------
(***************************************************************************)
(* OAuthCeremony for TLC: a Google account with another provider's         *)
(* address, one with an unverified Gmail address and a Workspace one.      *)
(***************************************************************************)
EXTENDS OAuthCeremony, TLC

CONSTANTS g1, g2, g3, box, gmail

MCProfile ==
    g1 :> [mailbox |-> box,   verified |-> TRUE,  workspace |-> FALSE]
    @@ g2 :> [mailbox |-> gmail, verified |-> FALSE, workspace |-> FALSE]
    @@ g3 :> [mailbox |-> box,   verified |-> TRUE,  workspace |-> TRUE]

Symmetry == Permutations(Browsers) \cup Permutations(Nonces)
                \cup Permutations(Codes) \cup Permutations(Requests)
                \cup Permutations(Secrets)

=============================================================================
