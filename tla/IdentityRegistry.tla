-------------------------- MODULE IdentityRegistry --------------------------
(***************************************************************************)
(* What external identity binding promises, without handlers: identities   *)
(* are bound one at a time, each by a single step that decides on the      *)
(* rows as they are.  ExternalIdentity implements this module when the     *)
(* adapter rechecks all it can (see Registry there).                       *)
(***************************************************************************)
EXTENDS IdentityStore

CONSTANTS Registered,  \* the ids the host's own sign-up hands out
          HostRows,    \* the rows the host writes
          Presented    \* the proven identities that are presented

VARIABLES accounts,    \* the host's user table
          owner        \* the account each (issuer, subject) is bound to

vars == <<accounts, owner>>

HostWrites ==
    /\ \E a \in Registered \cup DOMAIN accounts, row \in HostRows :
        accounts' = PutRow(accounts, a, row)
    /\ UNCHANGED owner

Free(identity) ==
    owner[identity.key] = Null /\ VerifiedEmail(identity) # Null

\* A person nobody knows gets an account.
Provision(identity) ==
    /\ Free(identity)
    /\ \E a \in Accounts \ (DOMAIN accounts \cup Registered) :
        /\ accounts' = PutRow(accounts, a, NewRow(identity))
        /\ owner' = BindKey(owner, identity, a)

\* A placeholder nobody has used goes to whoever the issuer, who hosts the
\* address, says is its owner.
Claim(identity) ==
    /\ Free(identity)
    /\ identity.emailAuthority = "hosted"
    /\ \E a \in WithEmail(accounts, VerifiedEmail(identity)) :
        /\ ~accounts[a].disabled
        /\ ~accounts[a].emailVerified
        /\ ~accounts[a].hasCredentials
        /\ ~IsBound(owner, a)
        /\ accounts' = ClaimRow(accounts, a)
        /\ owner' = BindKey(owner, identity, a)

\* A signed-in user links an identity to the account.
Bind(identity) ==
    /\ Free(identity)
    /\ \E a \in DOMAIN accounts :
        /\ ~accounts[a].disabled
        /\ ~IsBound(owner, a)
        /\ owner' = BindKey(owner, identity, a)
    /\ UNCHANGED accounts

Init ==
    /\ accounts = [a \in {} |-> Null]
    /\ owner = [k \in Keys |-> Null]

Next ==
    \/ \E identity \in Presented :
        Provision(identity) \/ Claim(identity) \/ Bind(identity)
    \/ HostWrites

Spec == Init /\ [][Next]_vars

=============================================================================
