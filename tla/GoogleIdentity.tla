--------------------------- MODULE GoogleIdentity ---------------------------
(***************************************************************************)
(* What src/oidc.ts makes of the claims of a Google ID token:              *)
(* googleEmailAuthority and externalIdentityFromVerifiedGoogleClaims.      *)
(*                                                                         *)
(* One Google account's claims come in many spellings: the issuer with and *)
(* without its scheme, the address in any case, email_verified as a        *)
(* Boolean or a string, hd left out, blank or of another type.             *)
(***************************************************************************)
CONSTANTS GoogleAccounts,  \* the accounts, each named by its `sub'
          Mailboxes,       \* email addresses, trimmed and in lower case
          GmailBoxes,      \* those at gmail.com or googlemail.com
          Profile,         \* each account's mailbox, and what Google says of it
          Null             \* JavaScript's null

ASSUME GoogleAssumption ==
    /\ Null \notin GoogleAccounts \cup Mailboxes
    /\ GmailBoxes \subseteq Mailboxes
    /\ Profile \in [GoogleAccounts -> [mailbox   : Mailboxes \cup {Null},
                                       verified  : BOOLEAN,
                                       workspace : BOOLEAN]]

CanonicalIssuer == "https://accounts.google.com"

GOOGLE_ISSUERS == {CanonicalIssuer, "accounts.google.com"}

\* GoogleIdTokenClaims.  An address is a mailbox and how it was written; a
\* blank one, or none, is no mailbox.
Claims == [iss : GOOGLE_ISSUERS \cup {"another"}, aud : {"client", "another"},
           sub : GoogleAccounts \cup {Null},
           email : [mailbox : Mailboxes \cup {Null}, style : {"plain", "loud"}],
           email_verified : {"true", "the string true", "no"},
           hd : {"missing", "blank", "not a string", "a domain"}]

\* The ExternalIdentity of identity.ts, as this provider fills it in.
Identity == [issuer : {CanonicalIssuer}, subject : GoogleAccounts,
             email : Mailboxes \cup {Null},
             emailAuthority : {"none", "asserted", "hosted"}]

-----------------------------------------------------------------------------
(* A definition named after another one and a slip is that definition with *)
(* the slip in it.                                                         *)

AuthorityByPresence(address, emailVerified, hd) ==
    IF ~emailVerified \/ address = Null THEN "none"
    ELSE IF address \in GmailBoxes \/ hd \in {"blank", "a domain"}
    THEN "hosted" ELSE "asserted"

\* Is Google authoritative for the address at present?  The function trims
\* and lower-cases what it is given; a mailbox is that already.
GoogleEmailAuthority(address, emailVerified, hd) ==
    IF ~emailVerified \/ address = Null THEN "none"
    ELSE IF address \in GmailBoxes \/ hd = "a domain" THEN "hosted"
    ELSE "asserted"

IsRefusedUnlessIssued(claims) ==
    claims.iss \notin GOOGLE_ISSUERS \/ claims.aud # "client"

IsRefused(claims) ==
    \/ claims.iss \notin GOOGLE_ISSUERS
    \/ claims.aud # "client"
    \/ claims.sub = Null

IdentityOfIssuerAsWritten(claims) ==
    [issuer |-> claims.iss, subject |-> claims.sub,
     email |-> claims.email.mailbox,
     emailAuthority |-> GoogleEmailAuthority(claims.email.mailbox,
        claims.email_verified \in {"true", "the string true"}, claims.hd)]

\* The identity of claims that are not refused.
ExternalIdentity(claims) ==
    [issuer |-> CanonicalIssuer, subject |-> claims.sub,
     email |-> claims.email.mailbox,
     emailAuthority |-> GoogleEmailAuthority(claims.email.mailbox,
        claims.email_verified \in {"true", "the string true"}, claims.hd)]

\* What a verifier may return for an ID token of an account: its claims in any
\* spelling, or, from a verifier that does not look, those of another issuer,
\* for another audience or without a subject.
VerifierAnswers ==
    [g \in GoogleAccounts |->
        {claims \in Claims :
            /\ claims.sub \in {g, Null}
            /\ claims.email.mailbox = Profile[g].mailbox
            /\ (claims.email_verified # "no") = Profile[g].verified
            /\ (claims.hd = "a domain") = Profile[g].workspace}]

=============================================================================
