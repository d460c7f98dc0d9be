---------------------------- MODULE IdentityStore ----------------------------
(***************************************************************************)
(* The accounts and identity bindings behind the ExternalIdentityStore     *)
(* port of src/identity.ts, and what its operations make of them.          *)
(*                                                                         *)
(* The library ships no store: hosts implement the port, and the tests     *)
(* keep two in memory.  Rechecks names what an adapter's bind and claim    *)
(* look at again, atomically, before they write.  With Rechecks = {} this  *)
(* is the store of __tests__/identity.test.ts; "credentials" makes it the  *)
(* one of __tests__/identity-conformance.test.ts; all four make it what    *)
(* the port asks of an adapter.                                            *)
(***************************************************************************)
CONSTANTS Accounts,   \* every account id there may ever be
          Keys,       \* the (issuer, subject) pairs
          Spellings,  \* email addresses as people and issuers write them
          Normal,     \* trim and lower-case; Null when nothing is left
          Null,       \* JavaScript's null
          Rechecks    \* what bind and claim decide on the present row

ASSUME StoreAssumption ==
    /\ Null \notin Accounts
    /\ Null \notin Spellings
    /\ Normal \in [Spellings -> Spellings \cup {Null}]
    /\ Rechecks \subseteq {"unbound", "enabled", "credentials", "email"}

\* AccountIdentityRecord, without the id that keys it.
Row == [email         : Spellings \cup {Null},
        disabled      : BOOLEAN,
        hasCredentials : BOOLEAN,
        emailVerified : BOOLEAN]

\* ExternalIdentity: "other" is any emailAuthority the types do not allow.
Identity == [key            : Keys,
             email          : Spellings \cup {Null},
             emailAuthority : {"none", "asserted", "hosted", "other"}]

\* What the store holds: rows by account id, and the account each key is
\* bound to.
TypedStore(accounts, owner) ==
    /\ DOMAIN accounts \subseteq Accounts
    /\ accounts \in [DOMAIN accounts -> Row]
    /\ owner \in [Keys -> DOMAIN accounts \cup {Null}]

-----------------------------------------------------------------------------
(* Reading.  A definition named after another one and a slip is that       *)
(* definition with the slip in it.                                         *)

Normalized(email) == IF email = Null THEN Null ELSE Normal[email]

\* normalizedVerifiedEmail: an authority nobody has heard of is worth nothing.
VerifiedEmail(identity) ==
    IF identity.emailAuthority \in {"asserted", "hosted"}
    THEN Normalized(identity.email) ELSE Null

SameEmail(row, email) == Normalized(row.email) = email

\* findAccountByNormalizedEmail returns one of these, or null.
WithEmail(accounts, email) ==
    {a \in DOMAIN accounts : SameEmail(accounts[a], email)}

IsBound(owner, a) == \E k \in Keys : owner[k] = a

-----------------------------------------------------------------------------
(* Deciding.  Each operation has a set of refusals that apply to the       *)
(* present rows: adapters differ in which of them they report, and act     *)
(* only when there is none.                                                *)

When(condition, refusal) == IF condition THEN {refusal} ELSE {}

\* bindExternalIdentity.
BindRefusals(accounts, owner, a, identity) ==
    IF owner[identity.key] = a THEN {"already-linked"}
    ELSE When(owner[identity.key] # Null, "identity-in-use")
         \cup When("unbound" \in Rechecks /\ IsBound(owner, a),
                   "account-already-linked")
         \cup When("enabled" \in Rechecks /\ accounts[a].disabled,
                   "not-eligible")

StillPlaceholderThoughVerified(accounts, owner, a, identity) ==
    /\ ~accounts[a].disabled
    /\ "unbound" \in Rechecks => ~IsBound(owner, a)
    /\ "credentials" \in Rechecks => ~accounts[a].hasCredentials
    /\ "email" \in Rechecks =>
        SameEmail(accounts[a], Normalized(identity.email))

\* Is the row still a placeholder, as far as the adapter looks?
StillPlaceholder(accounts, owner, a, identity) ==
    /\ ~accounts[a].disabled
    /\ ~accounts[a].emailVerified
    /\ "unbound" \in Rechecks => ~IsBound(owner, a)
    /\ "credentials" \in Rechecks => ~accounts[a].hasCredentials
    /\ "email" \in Rechecks =>
        SameEmail(accounts[a], Normalized(identity.email))

ClaimRefusalsOfRowOnly(accounts, owner, a, identity) ==
    When(~StillPlaceholder(accounts, owner, a, identity),
         "not-eligible")

\* claimPlaceholder.
ClaimRefusals(accounts, owner, a, identity) ==
    When(owner[identity.key] # Null, "identity-in-use")
    \cup When(~StillPlaceholder(accounts, owner, a, identity), "not-eligible")

-----------------------------------------------------------------------------
(* Writing.                                                                *)

\* The host's user table, or provisionAccount's insert.
PutRow(accounts, a, row) ==
    [x \in DOMAIN accounts \cup {a} |-> IF x = a THEN row ELSE accounts[x]]

\* A claim is proof of the address, to this application too.
ClaimRow(accounts, a) == [accounts EXCEPT ![a].emailVerified = TRUE]

\* What provisionAccount inserts.
NewRow(identity) == [email |-> identity.email, disabled |-> FALSE,
                     hasCredentials |-> FALSE, emailVerified |-> TRUE]

BindKey(owner, identity, a) == [owner EXCEPT ![identity.key] = a]

=============================================================================
