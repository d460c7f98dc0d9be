-------------------------- MODULE ExternalIdentity --------------------------
(***************************************************************************)
(* External identity binding of src/identity.ts: resolveExternalIdentity   *)
(* (an OAuth callback) and linkExternalIdentity (a signed-in user), run by *)
(* concurrent handlers over one ExternalIdentityStore, while the host goes *)
(* on editing its user table.                                              *)
(*                                                                         *)
(* A handler's run is cut at its awaits of the store and of the audit      *)
(* sink.  What it read before an await may be out of date after it.  The   *)
(* answers of the policy's hooks, awaited too, are free choices; they are  *)
(* made with the read they follow, since the store's operation that comes  *)
(* after them may be delayed as long as it likes.                          *)
(***************************************************************************)
EXTENDS IdentityStore

CONSTANTS Callers,              \* the handlers, one call each at a time
          Registered,           \* the ids the host's own sign-up hands out
          HostRows,             \* the rows the host writes
          Presented,            \* the proven identities that are presented
          CredentialedClaims,   \* is mayClaimCredentialedPlaceholder there?
          RequireMatchingEmail, \* policy.requireMatchingEmailForLink
          CanFail               \* may sinks fail and handlers be lost?

ASSUME EngineAssumption ==
    /\ Registered \subseteq Accounts
    /\ HostRows \subseteq Row
    /\ Presented \subseteq Identity
    /\ CredentialedClaims \in BOOLEAN
    /\ RequireMatchingEmail \in BOOLEAN
    /\ CanFail \in BOOLEAN

VARIABLES accounts,   \* the host's user table, as far as the engine sees it
          owner,      \* the account each (issuer, subject) is bound to
          call,       \* what each handler awaits
          trail       \* the events the audit sink has recorded

vars == <<accounts, owner, call, trail>>

-----------------------------------------------------------------------------
(* The states of a handler.                                                *)

Idle == [op |-> "idle"]

StoreOps == {"findByIdentity", "findByEmail", "claim", "provision",
             "findWinner", "findById", "findOwner", "bind"}

Bindings == {"claimed-placeholder", "provisioned", "linked"}

Outcomes == Bindings \cup
    {"returning", "already-linked", "account-exists", "disabled",
     "identity-in-use", "provisioning-refused", "unverified-email",
     "email-mismatch", "account-already-linked", "not-eligible", "not-found"}

\* A call of one of the two functions.  `account' is the account the handler
\* is about: the one it found, or the one that asks for a link; `permitted'
\* says whether the hook let a credentialed placeholder be claimed.
Working == [op : StoreOps \cup {"audit", "reply"}, flow : {"resolve", "link"},
            identity : Presented, account : Accounts \cup {Null},
            permitted : BOOLEAN, outcome : Outcomes \cup {Null}]

\* What the sink records of a binding.  Refusals are recorded too; nothing here
\* speaks of them.
Event == [type : Bindings, account : Accounts, key : Keys]

Awaits(c, op) == call[c].op = op

Key(c) == call[c].identity.key

Email(c) == VerifiedEmail(call[c].identity)

Start(c, op, flow, identity, account) ==
    /\ call[c] = Idle
    /\ call' = [call EXCEPT ![c] =
            [op |-> op, flow |-> flow, identity |-> identity,
             account |-> account, permitted |-> FALSE, outcome |-> Null]]

Proceed(c, op) == call' = [call EXCEPT ![c].op = op]

\* The answers that pass no audit call on their way out.
Unaudited(flow) ==
    IF flow = "resolve" THEN {"returning", "identity-in-use"}
    ELSE {"already-linked"}

\* A return, by way of audit() or refuseLink() where the code goes that way.
Answer(c, outcome, a) ==
    call' = [call EXCEPT
        ![c].op = IF outcome \in Unaudited(call[c].flow) THEN "reply"
                  ELSE "audit",
        ![c].outcome = outcome,
        ![c].account = a]

-----------------------------------------------------------------------------
(* resolveExternalIdentity.                                                *)

BeginResolve(c) ==
    /\ \E identity \in Presented :
        Start(c, "findByIdentity", "resolve", identity, Null)
    /\ UNCHANGED <<accounts, owner, trail>>

\* The durable key decides first, whatever the address says.
ResolveByKey(c) ==
    /\ Awaits(c, "findByIdentity")
    /\ LET o == owner[Key(c)]
       IN  \/ /\ o # Null
              /\ Answer(c, IF accounts[o].disabled THEN "disabled"
                           ELSE "returning", o)
           \/ /\ o = Null
              /\ IF Email(c) = Null THEN Answer(c, "unverified-email", Null)
                 ELSE Proceed(c, "findByEmail")
    /\ UNCHANGED <<accounts, owner, trail>>

EligibleIfAsserted(row, identity, permitted) ==
    /\ ~row.hasCredentials \/ permitted
    /\ ~row.emailVerified
    /\ SameEmail(row, VerifiedEmail(identity))

\* May the account this address belongs to be claimed, as far as the row just
\* read says?  The issuer must be authoritative for the address.
Eligible(row, identity, permitted) ==
    /\ identity.emailAuthority = "hosted"
    /\ ~row.hasCredentials \/ permitted
    /\ ~row.emailVerified
    /\ SameEmail(row, VerifiedEmail(identity))

\* mayClaimCredentialedPlaceholder, asked only about a row with credentials.
HookSays(row) ==
    IF CredentialedClaims /\ row.hasCredentials THEN BOOLEAN ELSE {FALSE}

ResolveByEmail(c) ==
    /\ Awaits(c, "findByEmail")
    /\ \E a \in WithEmail(accounts, Email(c)) :
        IF accounts[a].disabled THEN Answer(c, "disabled", a)
        ELSE \/ \E permitted \in HookSays(accounts[a]) :
                 /\ Eligible(accounts[a], call[c].identity, permitted)
                 /\ call' = [call EXCEPT ![c].op = "claim", ![c].account = a,
                                         ![c].permitted = permitted]
             \/ Answer(c, "account-exists", a)
    /\ UNCHANGED <<accounts, owner, trail>>

\* Nobody has the address; mayProvision says yes or no.
ResolveUnknown(c) ==
    /\ Awaits(c, "findByEmail")
    /\ WithEmail(accounts, Email(c)) = {}
    /\ Answer(c, "provisioning-refused", Null) \/ Proceed(c, "provision")
    /\ UNCHANGED <<accounts, owner, trail>>

\* claimPlaceholder.
Claim(c) ==
    /\ Awaits(c, "claim")
    /\ ClaimRefusals(accounts, owner, call[c].account, call[c].identity) = {}
    /\ accounts' = ClaimRow(accounts, call[c].account)
    /\ owner' = BindKey(owner, call[c].identity, call[c].account)
    /\ Answer(c, "claimed-placeholder", call[c].account)
    /\ UNCHANGED trail

ClaimRefused(c) ==
    /\ Awaits(c, "claim")
    /\ \E refusal \in ClaimRefusals(accounts, owner, call[c].account,
                                    call[c].identity) :
        IF refusal = "identity-in-use" THEN Proceed(c, "findWinner")
        ELSE Answer(c, "account-exists", call[c].account)
    /\ UNCHANGED <<accounts, owner, trail>>

ProvisionUnchecked(c) ==
    /\ Awaits(c, "provision")
    /\ \E a \in Accounts \ (DOMAIN accounts \cup Registered) :
        /\ accounts' = PutRow(accounts, a, NewRow(call[c].identity))
        /\ owner' = BindKey(owner, call[c].identity, a)
        /\ Answer(c, "provisioned", a)
    /\ UNCHANGED trail

ProvisionBindsOnly(c) ==
    /\ Awaits(c, "provision")
    /\ owner[Key(c)] = Null
    /\ \E a \in Accounts \ (DOMAIN accounts \cup Registered) :
        /\ owner' = BindKey(owner, call[c].identity, a)
        /\ Answer(c, "provisioned", a)
    /\ UNCHANGED <<accounts, trail>>

\* provisionAccount, under an id nobody has.
Provision(c) ==
    /\ Awaits(c, "provision")
    /\ owner[Key(c)] = Null
    /\ \E a \in Accounts \ (DOMAIN accounts \cup Registered) :
        /\ accounts' = PutRow(accounts, a, NewRow(call[c].identity))
        /\ owner' = BindKey(owner, call[c].identity, a)
        /\ Answer(c, "provisioned", a)
    /\ UNCHANGED trail

ProvisionRefused(c) ==
    /\ Awaits(c, "provision")
    /\ owner[Key(c)] # Null
    /\ Proceed(c, "findWinner")
    /\ UNCHANGED <<accounts, owner, trail>>

FindWinnerByEmail(c) ==
    /\ Awaits(c, "findWinner")
    /\ IF call[c].account # Null
       THEN Answer(c, "returning", call[c].account)
       ELSE Answer(c, "identity-in-use", Null)
    /\ UNCHANGED <<accounts, owner, trail>>

\* The loser of a claim or of a provisioning looks the winner up.
FindWinner(c) ==
    /\ Awaits(c, "findWinner")
    /\ LET o == owner[Key(c)]
       IN  IF o # Null /\ ~accounts[o].disabled
           THEN Answer(c, "returning", o)
           ELSE Answer(c, "identity-in-use", Null)
    /\ UNCHANGED <<accounts, owner, trail>>

-----------------------------------------------------------------------------
(* linkExternalIdentity.                                                   *)

\* Any account id: of the host's sign-up, provisioned here, or nobody's.
BeginLink(c) ==
    /\ \E identity \in Presented, a \in Accounts :
        Start(c, "findById", "link", identity, a)
    /\ UNCHANGED <<accounts, owner, trail>>

\* The checks of the account the session belongs to, in their order.
LinkFindsAccount(c) ==
    /\ Awaits(c, "findById")
    /\ LET a == call[c].account
       IN  \/ /\ a \notin DOMAIN accounts
              /\ Answer(c, "not-found", a)
           \/ /\ a \in DOMAIN accounts
              /\ \/ /\ accounts[a].disabled
                    /\ Answer(c, "disabled", a)
                 \/ /\ ~accounts[a].disabled
                    /\ Email(c) = Null
                    /\ Answer(c, "unverified-email", a)
                 \/ /\ ~accounts[a].disabled
                    /\ Email(c) # Null
                    /\ IF RequireMatchingEmail
                              /\ ~SameEmail(accounts[a], Email(c))
                       THEN Answer(c, "email-mismatch", a)
                       ELSE Proceed(c, "findOwner")
    /\ UNCHANGED <<accounts, owner, trail>>

LinkFindsOwner(c) ==
    /\ Awaits(c, "findOwner")
    /\ LET o == owner[Key(c)]
       IN  IF o = Null THEN Proceed(c, "bind")
           ELSE Answer(c, IF o = call[c].account THEN "already-linked"
                          ELSE "identity-in-use", call[c].account)
    /\ UNCHANGED <<accounts, owner, trail>>

\* bindExternalIdentity.
Bind(c) ==
    /\ Awaits(c, "bind")
    /\ BindRefusals(accounts, owner, call[c].account, call[c].identity) = {}
    /\ owner' = BindKey(owner, call[c].identity, call[c].account)
    /\ Answer(c, "linked", call[c].account)
    /\ UNCHANGED <<accounts, trail>>

\* Every refusal of the store is an outcome of its own.
BindRefused(c) ==
    /\ Awaits(c, "bind")
    /\ \E refusal \in BindRefusals(accounts, owner, call[c].account,
                                   call[c].identity) :
        Answer(c, refusal, call[c].account)
    /\ UNCHANGED <<accounts, owner, trail>>

-----------------------------------------------------------------------------
(* The audit sink, the way back, the host, and loss.                       *)

AuditOf(c) ==
    [type |-> call[c].outcome, account |-> call[c].account, key |-> Key(c)]

\* audit(): the sink records the event, or fails and is passed over.
Audit(c) ==
    /\ Awaits(c, "audit")
    /\ \/ trail' = IF call[c].outcome \in Bindings
                    THEN trail \cup {AuditOf(c)} ELSE trail
       \/ CanFail /\ UNCHANGED trail
    /\ Proceed(c, "reply")
    /\ UNCHANGED <<accounts, owner>>

Return(c) ==
    /\ Awaits(c, "reply")
    /\ call' = [call EXCEPT ![c] = Idle]
    /\ UNCHANGED <<accounts, owner, trail>>

\* The handler is lost, at any await.
Crash(c) ==
    /\ CanFail
    /\ call[c] # Idle
    /\ call' = [call EXCEPT ![c] = Idle]
    /\ UNCHANGED <<accounts, owner, trail>>

\* Sign-up, deactivation, an address verified or changed, a password set.
HostWrites ==
    /\ \E a \in Registered \cup DOMAIN accounts, row \in HostRows :
        accounts' = PutRow(accounts, a, row)
    /\ UNCHANGED <<owner, call, trail>>

-----------------------------------------------------------------------------
Init ==
    /\ accounts = [a \in {} |-> Null]
    /\ owner = [k \in Keys |-> Null]
    /\ call = [c \in Callers |-> Idle]
    /\ trail = {}

Resolve(c) ==
    \/ ResolveByKey(c)
    \/ ResolveByEmail(c)
    \/ ResolveUnknown(c)
    \/ Claim(c)
    \/ ClaimRefused(c)
    \/ Provision(c)
    \/ ProvisionRefused(c)
    \/ FindWinner(c)

Link(c) ==
    \/ LinkFindsAccount(c)
    \/ LinkFindsOwner(c)
    \/ Bind(c)
    \/ BindRefused(c)

Next ==
    \/ \E c \in Callers :
        \/ BeginResolve(c)
        \/ BeginLink(c)
        \/ Resolve(c)
        \/ Link(c)
        \/ Audit(c)
        \/ Return(c)
        \/ Crash(c)
    \/ HostWrites

Spec == Init /\ [][Next]_vars

-----------------------------------------------------------------------------
(* What the engine promises.                                               *)

\* The table and the bindings fit together, and handlers are at an await of
\* one of the two functions.
TypeOK ==
    /\ TypedStore(accounts, owner)
    /\ call \in [Callers -> {Idle} \cup Working]
    /\ trail \subseteq Event

Answered(c) == call[c].op \in {"audit", "reply"}

\* Success is true when it arrives: whoever is told that an identity returns,
\* or was claimed, provisioned or linked, is told the account that has it,
\* whoever raced for it, and so all handlers say the same.
SuccessNamesOwner ==
    \A c \in Callers :
        /\ Answered(c)
        /\ call[c].outcome \in Bindings \cup {"returning", "already-linked"}
        => owner[Key(c)] = call[c].account

\* So are the refusals that speak of a binding: somebody else has the identity,
\* or the account has another one.
RefusalNamesObstacle ==
    \A c \in Callers : Answered(c) =>
        /\ call[c].outcome = "identity-in-use" =>
            owner[Key(c)] \notin {Null, call[c].account}
        /\ call[c].outcome = "account-already-linked" =>
            /\ owner[Key(c)] # call[c].account
            /\ IsBound(owner, call[c].account)

\* What the handlers answer and what the bindings are agree, however stale
\* the rows were that led to the answer.
AnswersTrue == SuccessNamesOwner /\ RefusalNamesObstacle

\* The reports of one identity's binding: on their way, and in the trail.
Reporting(k) == {c \in Callers : /\ Awaits(c, "audit")
                                 /\ call[c].outcome \in Bindings
                                 /\ Key(c) = k}

Reported(k) == {e \in trail : e.key = k}

\* However many handlers race for an identity, at most one of them reports
\* that it was bound, to the account it is bound to; and if neither sinks nor
\* handlers fail, every binding is reported.
BindingReportedOnce ==
    \A k \in Keys :
        /\ \A c, d \in Reporting(k) : c = d
        /\ \A e, f \in Reported(k) : e = f
        /\ Reporting(k) = {} \/ Reported(k) = {}
        /\ \A e \in Reported(k) : owner[k] = e.account
        /\ ~CanFail /\ owner[k] # Null => Reporting(k) \cup Reported(k) # {}

\* An identity, once bound, stays with its account, whoever else claims or links
\* it and whatever becomes of the account and its address.
IdentityNeverMoves ==
    [][\A k \in Keys : owner[k] # Null => owner'[k] = owner[k]]_vars

\* Handler c is at one of the two ways to give account a the key k: the link of
\* a signed-in user, to the account of the session; or the claim of an issuer
\* that is authoritative for the address, on a row that is enabled and nobody's
\* proven address, and still without credentials and under that address if the
\* adapter looks.
MayTake(c, k, a) ==
    /\ Key(c) = k /\ call[c].account = a
    /\ \/ Awaits(c, "bind") /\ call[c].flow = "link"
       \/ /\ Awaits(c, "claim")
          /\ call[c].identity.emailAuthority = "hosted"
          /\ ~accounts[a].disabled /\ ~accounts[a].emailVerified
          /\ "credentials" \in Rechecks => ~accounts[a].hasCredentials
          /\ "email" \in Rechecks => SameEmail(accounts[a], Email(c))

\* This step answers handler c that its claim or its link was made.
Takes(c) ==
    /\ Awaits(c, "audit")'
    /\ call'[c].outcome \in {"claimed-placeholder", "linked"}

\* An account that exists gets an identity in those two ways only, by the
\* handler that is told so in the same step, however stale what it read before.
NoAccountTaken ==
    [][\A k \in Keys :
        owner'[k] # owner[k] /\ owner'[k] \in DOMAIN accounts =>
            \E c \in Callers :
                call[c] # Idle /\ MayTake(c, k, owner'[k]) /\ Takes(c)]_vars

\* With an adapter that checks the present rows, the engine's stale reads show
\* nowhere: every binding is one the registry would make at that moment.
Registry == INSTANCE IdentityRegistry

ImplementsRegistry == Registry!Spec

-----------------------------------------------------------------------------
(* What the comments say and the code does not do.                         *)

Binds(c) == \E k \in Keys : owner[k] = Null /\ owner'[k] = call[c].account

\* src/identity.ts:40: "Disabled/deactivated accounts never receive an identity
\* binding or session."
DisabledNeverBound ==
    [][\A c \in Callers :
        Awaits(c, "bind") /\ Awaits(c, "audit")' /\ Binds(c) =>
            ~accounts[call[c].account].disabled]_vars

=============================================================================
