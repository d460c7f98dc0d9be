------------------------- MODULE ExternalIdentityMC -------------------------
(***************************************************************************)
(* ExternalIdentity for TLC: two addresses, one of them written in two     *)
(* ways; the rows the host writes and the identities that are presented.   *)
(***************************************************************************)
EXTENDS ExternalIdentity, TLC

CONSTANTS a1, n1, k1, k2

MCNormal ==
    [s \in Spellings |->
        CASE s = "Ann" -> "ann" [] s = " " -> Null [] OTHER -> s]

MCRow(email, disabled, hasCredentials, emailVerified) ==
    [email |-> email, disabled |-> disabled,
     hasCredentials |-> hasCredentials, emailVerified |-> emailVerified]

\* A placeholder, one with a password, one that was given another address and
\* disabled, and one whose address was verified.
MCHostRows ==
    {MCRow("Ann", FALSE, FALSE, FALSE), MCRow("ann", FALSE, TRUE, FALSE),
     MCRow("bob", TRUE, FALSE, FALSE), MCRow("ann", FALSE, FALSE, TRUE)}

MCIdentity(key, email, authority) ==
    [key |-> key, email |-> email, emailAuthority |-> authority]

MCPresented ==
    {MCIdentity(k1, "Ann", "hosted"), MCIdentity(k2, "ann", "asserted"),
     MCIdentity(k2, "ann", "other")}

Symmetry == Permutations(Callers)

=============================================================================
