----------------------- MODULE ExternalIdentityProofs -----------------------
(***************************************************************************)
(* ExternalIdentity, for every set of accounts, identities, handlers and   *)
(* host rows, and for every adapter: its types, the truth of its answers,  *)
(* that an identity never moves, that no account is taken, and, for        *)
(* adapters that recheck, that the engine implements IdentityRegistry.     *)
(*                                                                         *)
(* The argument: bindings only grow (Growth), what a handler knows stays   *)
(* true when they grow (KnowledgeKept), and each of its own steps leaves   *)
(* it with knowledge that is true (one lemma per step).                    *)
(***************************************************************************)
EXTENDS ExternalIdentity, TLAPS

States == {Idle} \cup Working

\* A handler that has an answer to give.
Done(w) == w.op \in {"audit", "reply"}

\* What the state w of a handler says about the store.
Knows(w, A, O) ==
    /\ w.op \in {"claim", "findOwner", "bind"} => w.account \in DOMAIN A
    /\ w.op \in {"findById", "findOwner", "bind"} => w.flow = "link"
    /\ w.op \in {"findByEmail", "claim", "provision", "findOwner", "bind"} =>
        VerifiedEmail(w.identity) # Null
    /\ w.op = "claim" => w.identity.emailAuthority = "hosted"
    /\ w.op = "findWinner" => O[w.identity.key] # Null
    /\ Done(w) /\ w.outcome \in Bindings \cup {"returning", "already-linked"}
        => w.account # Null /\ O[w.identity.key] = w.account
    /\ Done(w) /\ w.outcome = "identity-in-use"
        => O[w.identity.key] \notin {Null, w.account}
    /\ Done(w) /\ w.outcome = "account-already-linked"
        => /\ "unbound" \in Rechecks
           /\ O[w.identity.key] # w.account
           /\ w.account \in DOMAIN A
           /\ IsBound(O, w.account)

IInv == TypeOK /\ \A c \in Callers : Knows(call[c], accounts, owner)

\* How a step may change the store: rows stay, bindings stay, and an adapter
\* that looks binds no account twice.
Growth ==
    /\ TypedStore(accounts, owner)'
    /\ DOMAIN accounts \subseteq DOMAIN accounts'
    /\ \A k \in Keys : owner[k] # Null => owner'[k] = owner[k]
    /\ "unbound" \in Rechecks =>
        \A k \in Keys : owner[k] = Null /\ owner'[k] # Null =>
            /\ ~IsBound(owner, owner'[k])
            /\ \A j \in Keys \ {k} : owner'[j] = owner[j]

\* Only handler c moves.
Moves(c) ==
    /\ call' \in [Callers -> States]
    /\ \A d \in Callers \ {c} : call'[d] = call[d]

-----------------------------------------------------------------------------
(* Framing.                                                                *)

\* Idle is no state of a handler at work.
LEMMA IdleApart == \A w \in Working : w # Idle /\ w.op # "idle"
  BY DEF Working, Idle, StoreOps

\* An unchanged store has grown.
LEMMA SameStore ==
    ASSUME TypeOK, UNCHANGED <<accounts, owner>>
    PROVE  Growth
  BY DEF TypeOK, Growth, TypedStore

\* A handler that starts.
LEMMA Starts ==
    ASSUME TypeOK, NEW c \in Callers, NEW op \in StoreOps,
           NEW flow \in {"resolve", "link"}, NEW identity \in Presented,
           NEW a \in Accounts \cup {Null}, Start(c, op, flow, identity, a)
    PROVE  /\ Moves(c)
           /\ call'[c].op = op
           /\ call'[c].flow = flow
           /\ call'[c].account = a
<1> DEFINE w == [op |-> op, flow |-> flow, identity |-> identity,
                 account |-> a, permitted |-> FALSE, outcome |-> Null]
<1>1. w \in Working
  BY DEF Working
<1>2. call \in [Callers -> States]
  BY DEF TypeOK, States
<1>3. call' = [call EXCEPT ![c] = w]
  BY DEF Start
<1>4. QED
  BY <1>1, <1>2, <1>3 DEF Moves, States

\* A handler that goes on to another await.
LEMMA Proceeds ==
    ASSUME TypeOK, NEW c \in Callers, call[c] \in Working,
           NEW op \in StoreOps \cup {"reply"}, Proceed(c, op)
    PROVE  /\ Moves(c)
           /\ call'[c] \in Working
           /\ call'[c].op = op
           /\ call'[c].flow = call[c].flow
           /\ call'[c].identity = call[c].identity
           /\ call'[c].account = call[c].account
           /\ call'[c].outcome = call[c].outcome
<1>1. call \in [Callers -> States]
  BY DEF TypeOK, States
<1>2. /\ call'[c] = [call[c] EXCEPT !.op = op]
      /\ \A d \in Callers \ {c} : call'[d] = call[d]
      /\ call' = [call EXCEPT ![c] = [call[c] EXCEPT !.op = op]]
  BY <1>1 DEF Proceed
<1>3. [call[c] EXCEPT !.op = op] \in Working
  BY DEF Working
<1>4. QED
  BY <1>1, <1>2, <1>3 DEF Moves, States, Working

\* A handler that has its answer.
LEMMA Answers ==
    ASSUME TypeOK, NEW c \in Callers, call[c] \in Working,
           NEW outcome \in Outcomes, NEW a \in Accounts \cup {Null},
           Answer(c, outcome, a)
    PROVE  /\ Moves(c)
           /\ call'[c] \in Working
           /\ call'[c].op \in {"audit", "reply"}
           /\ outcome \in Bindings => call'[c].op = "audit"
           /\ call'[c].flow = call[c].flow
           /\ call'[c].identity = call[c].identity
           /\ call'[c].account = a
           /\ call'[c].outcome = outcome
<1> DEFINE op == IF outcome \in Unaudited(call[c].flow) THEN "reply"
                 ELSE "audit"
           w == [call[c] EXCEPT !.op = op, !.outcome = outcome, !.account = a]
<1>1. call \in [Callers -> States]
  BY DEF TypeOK, States
<1>2. call' = [call EXCEPT ![c] = w]
  BY <1>1 DEF Answer
<1>3. op \in {"audit", "reply"} /\ (outcome \in Bindings => op = "audit")
  BY DEF Unaudited, Bindings
<1> HIDE DEF op
<1>4. /\ w \in Working
      /\ w.op = op /\ w.flow = call[c].flow /\ w.account = a
      /\ w.identity = call[c].identity /\ w.outcome = outcome
  BY <1>3 DEF Working
<1>5. call'[c] = w /\ \A d \in Callers \ {c} : call'[d] = call[d]
  BY <1>1, <1>2
<1> HIDE DEF w
<1>6. QED
  BY <1>1, <1>2, <1>3, <1>4, <1>5 DEF Moves, States

\* What a handler knows stays true while the store grows.
LEMMA KnowledgeKept ==
    ASSUME TypeOK, Growth, NEW w \in States, Knows(w, accounts, owner)
    PROVE  Knows(w, accounts', owner')
<1>1. CASE w = Idle
  BY <1>1 DEF Knows, Done, Idle
<1>2. CASE w \in Working
  <2>1. w.identity.key \in Keys
    BY <1>2, EngineAssumption DEF Working, Identity
  <2>2. owner[w.identity.key] # Null =>
            owner'[w.identity.key] = owner[w.identity.key]
    BY <2>1 DEF Growth
  <2>3. w.account \in DOMAIN accounts => w.account \in DOMAIN accounts'
    BY DEF Growth
  <2>4. IsBound(owner, w.account) /\ w.account # Null
            => IsBound(owner', w.account)
    BY DEF IsBound, Growth
  <2>5. ASSUME Done(w), w.outcome = "account-already-linked"
        PROVE  /\ owner'[w.identity.key] # w.account
               /\ w.account # Null
    <3>1. /\ "unbound" \in Rechecks
          /\ owner[w.identity.key] # w.account
          /\ w.account \in DOMAIN accounts
          /\ IsBound(owner, w.account)
      BY <2>5 DEF Knows
    <3>2. w.account # Null
      BY <3>1, StoreAssumption DEF TypeOK, TypedStore
    <3>3. CASE owner[w.identity.key] = Null
      BY <2>1, <3>1, <3>2, <3>3 DEF Growth
    <3>4. CASE owner[w.identity.key] # Null
      BY <2>2, <3>1, <3>2, <3>4
    <3>5. QED
      BY <3>2, <3>3, <3>4
  <2>6. QED
    BY <2>2, <2>3, <2>4, <2>5 DEF Knows
<1>3. QED
  BY <1>1, <1>2 DEF States

-----------------------------------------------------------------------------
(* The steps of a handler.                                                 *)

\* A handler at an await is at work, and knows what it knows.
LEMMA AtWork ==
    ASSUME IInv, NEW c \in Callers, call[c].op # "idle"
    PROVE  /\ call[c] \in Working
           /\ call[c].identity \in Presented
           /\ call[c].account \in Accounts \cup {Null}
           /\ Key(c) = call[c].identity.key
           /\ Email(c) = VerifiedEmail(call[c].identity)
           /\ Key(c) \in Keys
           /\ owner[Key(c)] \in DOMAIN accounts \cup {Null}
           /\ DOMAIN accounts \subseteq Accounts
           /\ Knows(call[c], accounts, owner)
<1>1. call[c] \in Working
  BY DEF IInv, TypeOK, Idle
<1>2. Knows(call[c], accounts, owner)
  BY DEF IInv
<1>3. call[c].identity.key \in Keys
  BY <1>1, EngineAssumption DEF Working, Identity
<1>4. QED
  BY <1>1, <1>2, <1>3 DEF Working, Key, Email, IInv, TypeOK, TypedStore

\* A step of handler c that keeps the invariant's parts.
Sound(c) ==
    /\ Growth
    /\ Moves(c)
    /\ Knows(call'[c], accounts', owner')

LEMMA BeginSound ==
    ASSUME IInv, NEW c \in Callers, BeginResolve(c) \/ BeginLink(c)
    PROVE  Sound(c)
<1>1. TypeOK /\ Growth /\ UNCHANGED <<accounts, owner>>
  BY SameStore DEF IInv, BeginResolve, BeginLink
<1>2. CASE BeginResolve(c)
  <2>1. PICK identity \in Presented :
            Start(c, "findByIdentity", "resolve", identity, Null)
    BY <1>2 DEF BeginResolve
  <2>2. Moves(c) /\ call'[c].op = "findByIdentity"
    BY <1>1, <2>1, Starts DEF StoreOps
  <2>3. QED
    BY <1>1, <2>2 DEF Sound, Knows, Done
<1>3. CASE BeginLink(c)
  <2>1. PICK identity \in Presented, a \in Accounts :
            Start(c, "findById", "link", identity, a)
    BY <1>3 DEF BeginLink
  <2>2. /\ Moves(c)
        /\ call'[c].op = "findById" /\ call'[c].flow = "link"
        /\ call'[c].account = a
    BY <1>1, <2>1, Starts, EngineAssumption DEF StoreOps
  <2>3. QED
    BY <1>1, <2>1, <2>2 DEF Sound, Knows, Done
<1>4. QED
  BY <1>2, <1>3

LEMMA ResolveByKeySound ==
    ASSUME IInv, NEW c \in Callers, ResolveByKey(c)
    PROVE  Sound(c)
<1>1. TypeOK /\ Growth /\ UNCHANGED <<accounts, owner>>
  BY SameStore DEF IInv, ResolveByKey
<1> DEFINE o == owner[Key(c)]
<1>2. call[c].op # "idle"
  BY DEF ResolveByKey, Awaits
<1>3. CASE /\ o # Null
           /\ Answer(c, IF accounts[o].disabled THEN "disabled"
                        ELSE "returning", o)
  <2>1. PICK outcome \in {"disabled", "returning"} : Answer(c, outcome, o)
    BY <1>3
  <2>2. outcome \in Outcomes /\ o \in Accounts \cup {Null}
    BY <1>2, AtWork DEF Outcomes
  <2>3. /\ Moves(c)
        /\ call'[c].op \in {"audit", "reply"}
        /\ call'[c].identity = call[c].identity
        /\ call'[c].account = o
        /\ call'[c].outcome = outcome
    BY <1>1, <1>2, <2>1, <2>2, AtWork, Answers
  <2>4. QED
    BY <1>1, <1>2, <1>3, <2>3, AtWork DEF Sound, Knows, Done
<1>4. CASE o = Null /\ Email(c) = Null /\ Answer(c, "unverified-email", Null)
  <2>1. /\ Moves(c)
        /\ call'[c].op \in {"audit", "reply"}
        /\ call'[c].outcome = "unverified-email"
    BY <1>1, <1>2, <1>4, AtWork, Answers DEF Outcomes
  <2>2. QED
    BY <1>1, <2>1 DEF Sound, Knows, Done, Bindings
<1>5. CASE o = Null /\ Email(c) # Null /\ Proceed(c, "findByEmail")
  <2>1. /\ Moves(c)
        /\ call'[c].op = "findByEmail"
        /\ call'[c].identity = call[c].identity
    BY <1>1, <1>2, <1>5, AtWork, Proceeds DEF StoreOps
  <2>2. QED
    BY <1>1, <1>2, <1>5, <2>1, AtWork DEF Sound, Knows, Done
<1>6. QED
  BY <1>3, <1>4, <1>5 DEF ResolveByKey

LEMMA ResolveByEmailSound ==
    ASSUME IInv, NEW c \in Callers, ResolveByEmail(c)
    PROVE  Sound(c)
<1>1. TypeOK /\ Growth /\ UNCHANGED <<accounts, owner>>
  BY SameStore DEF IInv, ResolveByEmail
<1>2. call[c].op = "findByEmail"
  BY DEF ResolveByEmail, Awaits
<1>3. PICK a \in WithEmail(accounts, Email(c)) :
        \/ Answer(c, "disabled", a)
        \/ Answer(c, "account-exists", a)
        \/ \E permitted \in HookSays(accounts[a]) :
            /\ Eligible(accounts[a], call[c].identity, permitted)
            /\ call' = [call EXCEPT ![c].op = "claim", ![c].account = a,
                                    ![c].permitted = permitted]
  BY DEF ResolveByEmail
<1>4. a \in DOMAIN accounts /\ a \in Accounts
  BY <1>2, AtWork DEF WithEmail
<1>5. ASSUME NEW outcome \in {"disabled", "account-exists"},
             Answer(c, outcome, a)
      PROVE  Sound(c)
  <2>1. /\ Moves(c)
        /\ call'[c].op \in {"audit", "reply"}
        /\ call'[c].outcome = outcome
    BY <1>1, <1>2, <1>4, <1>5, AtWork, Answers DEF Outcomes
  <2>2. QED
    BY <1>1, <2>1 DEF Sound, Knows, Done, Bindings
<1>6. ASSUME NEW permitted \in HookSays(accounts[a]),
             Eligible(accounts[a], call[c].identity, permitted),
             call' = [call EXCEPT ![c].op = "claim", ![c].account = a,
                                  ![c].permitted = permitted]
      PROVE  Sound(c)
  <2> DEFINE w == [call[c] EXCEPT !.op = "claim", !.account = a,
                                  !.permitted = permitted]
  <2>1. permitted \in BOOLEAN
    BY DEF HookSays
  <2>2. call[c] \in Working
    BY <1>2, AtWork
  <2>3. /\ w \in Working
        /\ w.op = "claim" /\ w.account = a
        /\ w.identity = call[c].identity
    BY <1>4, <2>1, <2>2 DEF Working, StoreOps
  <2>4. call \in [Callers -> States]
    BY <1>1 DEF TypeOK, States
  <2>5. call' = [call EXCEPT ![c] = w]
    BY <1>6, <2>4
  <2>6. Moves(c) /\ call'[c] = w
    BY <2>3, <2>4, <2>5 DEF Moves, States
  <2>7. call[c].identity.emailAuthority = "hosted"
    BY <1>6 DEF Eligible
  <2>8. VerifiedEmail(call[c].identity) # Null
    BY <1>2, AtWork DEF Knows
  <2> HIDE DEF w
  <2>9. QED
    BY <1>1, <1>4, <2>3, <2>6, <2>7, <2>8 DEF Sound, Knows, Done
<1>7. QED
  BY <1>3, <1>5, <1>6

LEMMA ResolveUnknownSound ==
    ASSUME IInv, NEW c \in Callers, ResolveUnknown(c)
    PROVE  Sound(c)
<1>1. TypeOK /\ Growth /\ UNCHANGED <<accounts, owner>>
  BY SameStore DEF IInv, ResolveUnknown
<1>2. call[c].op = "findByEmail"
  BY DEF ResolveUnknown, Awaits
<1>3. CASE Answer(c, "provisioning-refused", Null)
  <2>1. /\ Moves(c)
        /\ call'[c].op \in {"audit", "reply"}
        /\ call'[c].outcome = "provisioning-refused"
    BY <1>1, <1>2, <1>3, AtWork, Answers DEF Outcomes
  <2>2. QED
    BY <1>1, <2>1 DEF Sound, Knows, Done, Bindings
<1>4. CASE Proceed(c, "provision")
  <2>1. /\ Moves(c)
        /\ call'[c].op = "provision"
        /\ call'[c].identity = call[c].identity
    BY <1>1, <1>2, <1>4, AtWork, Proceeds DEF StoreOps
  <2>2. QED
    BY <1>1, <1>2, <2>1, AtWork DEF Sound, Knows, Done
<1>5. QED
  BY <1>3, <1>4 DEF ResolveUnknown

\* The three operations that bind.  What they share: a key nobody has goes to
\* an account, which an adapter that looks has found unbound.
LEMMA BindingGrows ==
    ASSUME IInv, NEW c \in Callers, call[c].op # "idle",
           NEW a \in DOMAIN accounts',
           DOMAIN accounts' \subseteq Accounts,
           accounts' \in [DOMAIN accounts' -> Row],
           DOMAIN accounts \subseteq DOMAIN accounts',
           owner[Key(c)] = Null,
           "unbound" \in Rechecks => ~IsBound(owner, a),
           owner' = BindKey(owner, call[c].identity, a)
    PROVE  /\ Growth
           /\ owner'[Key(c)] = a
           /\ a # Null
<1>1. owner \in [Keys -> DOMAIN accounts \cup {Null}] /\ Key(c) \in Keys
  BY AtWork DEF IInv, TypeOK, TypedStore
<1>2. owner' = [owner EXCEPT ![Key(c)] = a]
  BY DEF BindKey, Key
<1>3. QED
  BY <1>1, <1>2, StoreAssumption DEF Growth, TypedStore

\* And they leave the handler knowing that the identity is the account's.
LEMMA BindingSound ==
    ASSUME IInv, NEW c \in Callers, call[c].op # "idle", Growth,
           NEW a \in Accounts, owner'[Key(c)] = a, a # Null,
           NEW outcome \in Bindings, Answer(c, outcome, a)
    PROVE  Sound(c)
<1>1. outcome \in Outcomes
  BY DEF Outcomes
<1>2. /\ Moves(c)
      /\ call'[c].op \in {"audit", "reply"}
      /\ call'[c].identity = call[c].identity
      /\ call'[c].account = a
      /\ call'[c].outcome = outcome
  BY <1>1, AtWork, Answers DEF IInv
<1>3. outcome \notin {"identity-in-use", "account-already-linked"}
  BY DEF Bindings
<1>4. QED
  BY <1>2, <1>3, AtWork DEF Sound, Knows, Done

LEMMA ClaimSound ==
    ASSUME IInv, NEW c \in Callers, Claim(c)
    PROVE  Sound(c)
<1> DEFINE a == call[c].account
<1>1. call[c].op = "claim"
  BY DEF Claim, Awaits
<1>2. a \in DOMAIN accounts /\ a \in Accounts
  BY <1>1, AtWork DEF Knows
<1>3. /\ owner[Key(c)] = Null
      /\ "unbound" \in Rechecks => ~IsBound(owner, a)
  BY <1>1, AtWork DEF Claim, ClaimRefusals, When, StillPlaceholder
<1>4. /\ DOMAIN accounts' = DOMAIN accounts
      /\ accounts' \in [DOMAIN accounts -> Row]
  BY <1>2 DEF Claim, ClaimRow, IInv, TypeOK, TypedStore, Row
<1>5. Growth /\ owner'[Key(c)] = a /\ a # Null
  BY <1>1, <1>2, <1>3, <1>4, AtWork, BindingGrows DEF Claim
<1>6. QED
  BY <1>1, <1>2, <1>5, BindingSound DEF Claim, Bindings

LEMMA ProvisionSound ==
    ASSUME IInv, NEW c \in Callers, Provision(c)
    PROVE  Sound(c)
<1>1. call[c].op = "provision"
  BY DEF Provision, Awaits
<1>2. PICK a \in Accounts \ (DOMAIN accounts \cup Registered) :
        /\ accounts' = PutRow(accounts, a, NewRow(call[c].identity))
        /\ owner' = BindKey(owner, call[c].identity, a)
        /\ Answer(c, "provisioned", a)
  BY DEF Provision
<1>3. NewRow(call[c].identity) \in Row
  BY <1>1, AtWork, EngineAssumption DEF NewRow, Row, Identity
<1>4. /\ DOMAIN accounts' = DOMAIN accounts \cup {a}
      /\ accounts' \in [DOMAIN accounts' -> Row]
  BY <1>2, <1>3 DEF PutRow, IInv, TypeOK, TypedStore
<1>5. ~IsBound(owner, a)
  BY <1>2, StoreAssumption DEF IsBound, IInv, TypeOK, TypedStore
<1>6. owner[Key(c)] = Null
  BY DEF Provision
<1>7. Growth /\ owner'[Key(c)] = a /\ a # Null
  BY <1>1, <1>2, <1>4, <1>5, <1>6, AtWork, BindingGrows
<1>8. QED
  BY <1>1, <1>2, <1>7, BindingSound DEF Bindings

LEMMA BindSound ==
    ASSUME IInv, NEW c \in Callers, Bind(c)
    PROVE  Sound(c)
<1> DEFINE a == call[c].account
<1>1. call[c].op = "bind"
  BY DEF Bind, Awaits
<1>2. a \in DOMAIN accounts /\ a \in Accounts
  BY <1>1, AtWork DEF Knows
<1>3. /\ owner[Key(c)] = Null
      /\ "unbound" \in Rechecks => ~IsBound(owner, a)
  BY <1>1, AtWork DEF Bind, BindRefusals, When
<1>4. UNCHANGED accounts /\ accounts \in [DOMAIN accounts -> Row]
  BY DEF Bind, IInv, TypeOK, TypedStore
<1>5. Growth /\ owner'[Key(c)] = a /\ a # Null
  BY <1>1, <1>2, <1>3, <1>4, AtWork, BindingGrows DEF Bind
<1>6. QED
  BY <1>1, <1>2, <1>5, BindingSound DEF Bind, Bindings

LEMMA ClaimRefusedSound ==
    ASSUME IInv, NEW c \in Callers, ClaimRefused(c)
    PROVE  Sound(c)
<1>1. TypeOK /\ Growth /\ UNCHANGED <<accounts, owner>>
  BY SameStore DEF IInv, ClaimRefused
<1>2. call[c].op = "claim"
  BY DEF ClaimRefused, Awaits
<1>3. CASE owner[Key(c)] # Null /\ Proceed(c, "findWinner")
  <2>1. /\ Moves(c)
        /\ call'[c].op = "findWinner"
        /\ call'[c].identity = call[c].identity
    BY <1>1, <1>2, <1>3, AtWork, Proceeds DEF StoreOps
  <2>2. QED
    BY <1>1, <1>2, <1>3, <2>1, AtWork DEF Sound, Knows, Done
<1>4. CASE Answer(c, "account-exists", call[c].account)
  <2>1. /\ Moves(c)
        /\ call'[c].op \in {"audit", "reply"}
        /\ call'[c].outcome = "account-exists"
    BY <1>1, <1>2, <1>4, AtWork, Answers DEF Outcomes
  <2>2. QED
    BY <1>1, <2>1 DEF Sound, Knows, Done, Bindings
<1>5. QED
  BY <1>2, <1>3, <1>4, AtWork DEF ClaimRefused, ClaimRefusals, When

LEMMA ProvisionRefusedSound ==
    ASSUME IInv, NEW c \in Callers, ProvisionRefused(c)
    PROVE  Sound(c)
<1>1. TypeOK /\ Growth /\ UNCHANGED <<accounts, owner>>
  BY SameStore DEF IInv, ProvisionRefused
<1>2. /\ call[c].op = "provision"
      /\ owner[Key(c)] # Null
      /\ Proceed(c, "findWinner")
  BY DEF ProvisionRefused, Awaits
<1>3. /\ Moves(c)
      /\ call'[c].op = "findWinner"
      /\ call'[c].identity = call[c].identity
  BY <1>1, <1>2, AtWork, Proceeds DEF StoreOps
<1>4. QED
  BY <1>1, <1>2, <1>3, AtWork DEF Sound, Knows, Done

LEMMA FindWinnerSound ==
    ASSUME IInv, NEW c \in Callers, FindWinner(c)
    PROVE  Sound(c)
<1>1. TypeOK /\ Growth /\ UNCHANGED <<accounts, owner>>
  BY SameStore DEF IInv, FindWinner
<1> DEFINE o == owner[Key(c)]
<1>2. call[c].op = "findWinner"
  BY DEF FindWinner, Awaits
<1>3. o # Null /\ o \in Accounts
  BY <1>2, AtWork DEF Knows
<1>4. CASE Answer(c, "returning", o)
  <2>1. /\ Moves(c)
        /\ call'[c].op \in {"audit", "reply"}
        /\ call'[c].identity = call[c].identity
        /\ call'[c].account = o
        /\ call'[c].outcome = "returning"
    BY <1>1, <1>2, <1>3, <1>4, AtWork, Answers DEF Outcomes
  <2>2. QED
    BY <1>1, <1>2, <1>3, <2>1, AtWork DEF Sound, Knows, Done
<1>5. CASE Answer(c, "identity-in-use", Null)
  <2>1. /\ Moves(c)
        /\ call'[c].op \in {"audit", "reply"}
        /\ call'[c].identity = call[c].identity
        /\ call'[c].account = Null
        /\ call'[c].outcome = "identity-in-use"
    BY <1>1, <1>2, <1>5, AtWork, Answers DEF Outcomes
  <2>2. QED
    BY <1>1, <1>2, <1>3, <2>1, AtWork DEF Sound, Knows, Done, Bindings
<1>6. QED
  BY <1>4, <1>5 DEF FindWinner

LEMMA LinkFindsAccountSound ==
    ASSUME IInv, NEW c \in Callers, LinkFindsAccount(c)
    PROVE  Sound(c)
<1>1. TypeOK /\ Growth /\ UNCHANGED <<accounts, owner>>
  BY SameStore DEF IInv, LinkFindsAccount
<1>2. call[c].op = "findById"
  BY DEF LinkFindsAccount, Awaits
<1>3. ASSUME NEW outcome \in {"not-found", "disabled", "unverified-email",
                              "email-mismatch"},
             Answer(c, outcome, call[c].account)
      PROVE  Sound(c)
  <2>1. /\ Moves(c)
        /\ call'[c].op \in {"audit", "reply"}
        /\ call'[c].outcome = outcome
    BY <1>1, <1>2, <1>3, AtWork, Answers DEF Outcomes
  <2>2. QED
    BY <1>1, <2>1 DEF Sound, Knows, Done, Bindings
<1>4. CASE /\ call[c].account \in DOMAIN accounts
           /\ Email(c) # Null
           /\ Proceed(c, "findOwner")
  <2>1. /\ Moves(c)
        /\ call'[c].op = "findOwner"
        /\ call'[c].flow = call[c].flow
        /\ call'[c].identity = call[c].identity
        /\ call'[c].account = call[c].account
    BY <1>1, <1>2, <1>4, AtWork, Proceeds DEF StoreOps
  <2>2. QED
    BY <1>1, <1>2, <1>4, <2>1, AtWork DEF Sound, Knows, Done
<1>5. QED
  BY <1>3, <1>4 DEF LinkFindsAccount

LEMMA LinkFindsOwnerSound ==
    ASSUME IInv, NEW c \in Callers, LinkFindsOwner(c)
    PROVE  Sound(c)
<1>1. TypeOK /\ Growth /\ UNCHANGED <<accounts, owner>>
  BY SameStore DEF IInv, LinkFindsOwner
<1> DEFINE o == owner[Key(c)]
<1>2. call[c].op = "findOwner"
  BY DEF LinkFindsOwner, Awaits
<1>3. CASE o = Null /\ Proceed(c, "bind")
  <2>1. /\ Moves(c)
        /\ call'[c].op = "bind"
        /\ call'[c].flow = call[c].flow
        /\ call'[c].identity = call[c].identity
        /\ call'[c].account = call[c].account
    BY <1>1, <1>2, <1>3, AtWork, Proceeds DEF StoreOps
  <2>2. QED
    BY <1>1, <1>2, <2>1, AtWork DEF Sound, Knows, Done
<1>4. ASSUME o # Null,
             NEW outcome \in {"already-linked", "identity-in-use"},
             outcome = "already-linked" <=> o = call[c].account,
             Answer(c, outcome, call[c].account)
      PROVE  Sound(c)
  <2>1. /\ Moves(c)
        /\ call'[c].op \in {"audit", "reply"}
        /\ call'[c].identity = call[c].identity
        /\ call'[c].account = call[c].account
        /\ call'[c].outcome = outcome
    BY <1>1, <1>2, <1>4, AtWork, Answers DEF Outcomes
  <2>2. QED
    BY <1>1, <1>2, <1>4, <2>1, AtWork DEF Sound, Knows, Done, Bindings
<1>5. QED
  BY <1>3, <1>4 DEF LinkFindsOwner

LEMMA BindRefusedSound ==
    ASSUME IInv, NEW c \in Callers, BindRefused(c)
    PROVE  Sound(c)
<1>1. TypeOK /\ Growth /\ UNCHANGED <<accounts, owner>>
  BY SameStore DEF IInv, BindRefused
<1> DEFINE o == owner[Key(c)]
           a == call[c].account
<1>2. call[c].op = "bind"
  BY DEF BindRefused, Awaits
<1>3. PICK refusal \in BindRefusals(accounts, owner, a, call[c].identity) :
        Answer(c, refusal, a)
  BY DEF BindRefused
<1>4. a \in DOMAIN accounts /\ a # Null
  BY <1>2, AtWork, StoreAssumption DEF Knows
<1>5. /\ refusal \in {"already-linked", "identity-in-use",
                      "account-already-linked", "not-eligible"}
      /\ refusal = "already-linked" => o = a
      /\ refusal = "identity-in-use" => o \notin {Null, a}
      /\ refusal = "account-already-linked" =>
            o # a /\ "unbound" \in Rechecks /\ IsBound(owner, a)
  BY <1>2, AtWork DEF BindRefusals, When
<1>6. /\ Moves(c)
      /\ call'[c].op \in {"audit", "reply"}
      /\ call'[c].identity = call[c].identity
      /\ call'[c].account = a
      /\ call'[c].outcome = refusal
  BY <1>1, <1>2, <1>3, <1>5, AtWork, Answers DEF Outcomes
<1>7. QED
  BY <1>1, <1>2, <1>4, <1>5, <1>6, AtWork DEF Sound, Knows, Done, Bindings

LEMMA AuditSound ==
    ASSUME IInv, NEW c \in Callers, Audit(c)
    PROVE  Sound(c)
<1>1. TypeOK /\ Growth /\ UNCHANGED <<accounts, owner>>
  BY SameStore DEF IInv, Audit
<1>2. call[c].op = "audit" /\ Proceed(c, "reply")
  BY DEF Audit, Awaits
<1>3. /\ Moves(c)
      /\ call'[c].op = "reply"
      /\ call'[c].identity = call[c].identity
      /\ call'[c].account = call[c].account
      /\ call'[c].outcome = call[c].outcome
  BY <1>1, <1>2, AtWork, Proceeds
<1>4. QED
  BY <1>1, <1>2, <1>3, AtWork DEF Sound, Knows, Done

LEMMA LeaveSound ==
    ASSUME IInv, NEW c \in Callers, Return(c) \/ Crash(c)
    PROVE  Sound(c)
<1>1. TypeOK /\ Growth /\ UNCHANGED <<accounts, owner>>
  BY SameStore DEF IInv, Return, Crash
<1>2. call \in [Callers -> States] /\ call' = [call EXCEPT ![c] = Idle]
  BY DEF IInv, TypeOK, States, Return, Crash
<1>3. Moves(c) /\ call'[c] = Idle
  BY <1>2 DEF Moves, States
<1>4. QED
  BY <1>1, <1>3 DEF Sound, Knows, Done, Idle

\* Every step of every handler.
Step(c) ==
    \/ BeginResolve(c)
    \/ BeginLink(c)
    \/ Resolve(c)
    \/ Link(c)
    \/ Audit(c)
    \/ Return(c)
    \/ Crash(c)

LEMMA StepSound ==
    ASSUME IInv, NEW c \in Callers, Step(c)
    PROVE  Sound(c)
<1>1. CASE Resolve(c)
  BY <1>1, ResolveByKeySound, ResolveByEmailSound, ResolveUnknownSound,
     ClaimSound, ClaimRefusedSound, ProvisionSound, ProvisionRefusedSound,
     FindWinnerSound DEF Resolve
<1>2. CASE Link(c)
  BY <1>2, LinkFindsAccountSound, LinkFindsOwnerSound, BindSound,
     BindRefusedSound DEF Link
<1>3. QED
  BY <1>1, <1>2, BeginSound, AuditSound, LeaveSound DEF Step

LEMMA HostGrows ==
    ASSUME IInv, HostWrites
    PROVE  Growth
<1>1. PICK a \in Registered \cup DOMAIN accounts, row \in HostRows :
        accounts' = PutRow(accounts, a, row)
  BY DEF HostWrites
<1>2. a \in Accounts /\ row \in Row
  BY <1>1, EngineAssumption DEF IInv, TypeOK, TypedStore
<1>3. /\ DOMAIN accounts' = DOMAIN accounts \cup {a}
      /\ accounts' \in [DOMAIN accounts' -> Row]
  BY <1>1, <1>2 DEF PutRow, IInv, TypeOK, TypedStore
<1>4. QED
  BY <1>2, <1>3 DEF Growth, HostWrites, IInv, TypeOK, TypedStore

\* What any step of the system does to the store.
LEMMA NextGrows ==
    ASSUME IInv, [Next]_vars
    PROVE  Growth
<1>1. ASSUME NEW c \in Callers, Step(c)
      PROVE  Growth
  BY <1>1, StepSound DEF Sound
<1>2. CASE UNCHANGED vars
  BY <1>2, SameStore DEF IInv, vars
<1>3. QED
  BY <1>1, <1>2, HostGrows DEF Next, Step

LEMMA TrailTyped ==
    ASSUME IInv, [Next]_vars
    PROVE  trail' \subseteq Event
<1>1. ASSUME NEW c \in Callers, Audit(c)
      PROVE  trail' \subseteq Event
  <2>1. call[c].op = "audit"
    BY <1>1 DEF Audit, Awaits
  <2>2. call[c].outcome \in Bindings => AuditOf(c) \in Event
    <3>1. call[c].outcome \in Bindings => call[c].account # Null
      BY <2>1, AtWork DEF Knows, Done
    <3>2. QED
      BY <2>1, <3>1, AtWork DEF AuditOf, Event
  <2>3. QED
    BY <1>1, <2>2 DEF Audit, IInv, TypeOK
<1>2. ASSUME NEW c \in Callers, Step(c), ~Audit(c)
      PROVE  UNCHANGED trail
  BY <1>2 DEF Step, BeginResolve, BeginLink, Resolve, Link, Return, Crash,
     ResolveByKey, ResolveByEmail, ResolveUnknown, Claim, ClaimRefused,
     Provision, ProvisionRefused, FindWinner, LinkFindsAccount,
     LinkFindsOwner, Bind, BindRefused
<1>3. CASE HostWrites \/ UNCHANGED vars
  BY <1>3 DEF HostWrites, vars, IInv, TypeOK
<1>4. QED
  BY <1>1, <1>2, <1>3 DEF Next, Step, IInv, TypeOK

LEMMA IInvKept ==
    ASSUME IInv, [Next]_vars
    PROVE  IInv'
<1>1. Growth /\ trail' \subseteq Event
  BY NextGrows, TrailTyped
<1>2. ASSUME NEW c \in Callers, Step(c)
      PROVE  IInv'
  <2>1. Sound(c)
    BY <1>2, StepSound
  <2>2. ASSUME NEW d \in Callers \ {c}
        PROVE  Knows(call'[d], accounts', owner')
    <3>1. call[d] \in States /\ Knows(call[d], accounts, owner)
      BY DEF IInv, TypeOK, States
    <3>2. QED
      BY <1>1, <2>1, <3>1, KnowledgeKept DEF IInv, Sound, Moves
  <2>3. TypeOK'
    BY <1>1, <2>1 DEF TypeOK, Growth, Sound, Moves, States
  <2>4. QED
    BY <2>1, <2>2, <2>3 DEF IInv, Sound
<1>3. CASE UNCHANGED call
  <2>1. ASSUME NEW d \in Callers
        PROVE  Knows(call'[d], accounts', owner')
    <3>1. call[d] \in States /\ Knows(call[d], accounts, owner)
      BY DEF IInv, TypeOK, States
    <3>2. QED
      BY <1>1, <1>3, <3>1, KnowledgeKept DEF IInv
  <2>2. TypeOK'
    BY <1>1, <1>3 DEF IInv, TypeOK, Growth
  <2>3. QED
    BY <2>1, <2>2 DEF IInv
<1>4. QED
  BY <1>2, <1>3 DEF Next, Step, HostWrites, vars

LEMMA Inductive == Spec => []IInv
<1>1. Init => IInv
  BY DEF Init, IInv, TypeOK, TypedStore, Knows, Done, Idle
<1>2. QED
  BY <1>1, IInvKept, PTL DEF Spec

-----------------------------------------------------------------------------
(* The theorems on answers and bindings.                                   *)

\* The table and the bindings fit together at every moment, and handlers are
\* where resolveExternalIdentity and linkExternalIdentity can be.
THEOREM TypesHold == Spec => []TypeOK
  BY Inductive, PTL DEF IInv

\* Whatever the adapter rechecks, whoever races: an answer that names an account
\* or an obstacle is true of the bindings when it arrives.
THEOREM AnswersAreTrue == Spec => []AnswersTrue
<1>1. IInv => AnswersTrue
  <2> SUFFICES ASSUME IInv, NEW c \in Callers, Answered(c)
               PROVE  /\ call[c].outcome \in
                            Bindings \cup {"returning", "already-linked"}
                         => owner[Key(c)] = call[c].account
                      /\ call[c].outcome = "identity-in-use" =>
                            owner[Key(c)] \notin {Null, call[c].account}
                      /\ call[c].outcome = "account-already-linked" =>
                            /\ owner[Key(c)] # call[c].account
                            /\ IsBound(owner, call[c].account)
    BY DEF AnswersTrue, SuccessNamesOwner, RefusalNamesObstacle
  <2>1. Done(call[c])
    BY DEF Answered, Done
  <2>2. Knows(call[c], accounts, owner)
    BY DEF IInv
  <2>3. QED
    BY <2>1, <2>2 DEF Knows, Key
<1>2. QED
  BY <1>1, Inductive, PTL

\* Whatever the adapter rechecks, no claim, provisioning or link takes an
\* identity from the account that has it.
THEOREM IdentityStays == Spec => IdentityNeverMoves
<1>1. IInv /\ [Next]_vars =>
        [\A k \in Keys : owner[k] # Null => owner'[k] = owner[k]]_vars
  BY NextGrows DEF Growth
<1>2. QED
  BY <1>1, Inductive, PTL DEF Spec, IdentityNeverMoves

-----------------------------------------------------------------------------
(* Every binding is reported once.                                         *)

\* The steps that bind.
Binding(c) == Claim(c) \/ Provision(c) \/ Bind(c)

\* A step that does not bind ends in no report of a binding.
LEMMA OthersReportNothing ==
    ASSUME IInv, NEW c \in Callers, Step(c), ~Binding(c)
    PROVE  ~(call'[c].op = "audit" /\ call'[c].outcome \in Bindings)
<1>1. call \in [Callers -> States]
  BY DEF IInv, TypeOK, States
<1>2. ASSUME NEW op \in StoreOps \cup {"reply"}, Proceed(c, op),
             call[c] \in Working
      PROVE  call'[c].op # "audit"
  BY <1>2, Proceeds DEF IInv, StoreOps
<1>3. ASSUME NEW outcome \in Outcomes \ Bindings,
             NEW a \in Accounts \cup {Null}, Answer(c, outcome, a),
             call[c] \in Working
      PROVE  call'[c].outcome \notin Bindings
  BY <1>3, Answers DEF IInv
<1>4. CASE BeginResolve(c) \/ BeginLink(c)
  BY <1>1, <1>4 DEF BeginResolve, BeginLink, Start
<1>5. CASE Return(c) \/ Crash(c)
  BY <1>1, <1>5 DEF Return, Crash, Idle
<1>6. CASE Audit(c)
  BY <1>2, <1>6, AtWork DEF Audit, Awaits
<1>7. CASE ResolveByKey(c)
  <2>1. call[c] \in Working /\ owner[Key(c)] \in Accounts \cup {Null}
    BY <1>7, AtWork DEF ResolveByKey, Awaits
  <2>2. /\ {"disabled", "returning", "unverified-email"}
                \subseteq Outcomes \ Bindings
        /\ "findByEmail" \in StoreOps
    BY DEF Outcomes, Bindings, StoreOps
  <2>3. QED
    BY <1>2, <1>3, <1>7, <2>1, <2>2 DEF ResolveByKey
<1>8. CASE ResolveByEmail(c)
  <2>1. call[c] \in Working /\ DOMAIN accounts \subseteq Accounts
    BY <1>8, AtWork DEF ResolveByEmail, Awaits
  <2>2. {"disabled", "account-exists"} \subseteq Outcomes \ Bindings
    BY DEF Outcomes, Bindings
  <2>3. PICK a \in DOMAIN accounts :
          \/ Answer(c, "disabled", a)
          \/ Answer(c, "account-exists", a)
          \/ \E permitted \in HookSays(accounts[a]) :
                call' = [call EXCEPT ![c].op = "claim", ![c].account = a,
                                     ![c].permitted = permitted]
    BY <1>8 DEF ResolveByEmail, WithEmail
  <2>4. ASSUME NEW permitted \in HookSays(accounts[a]),
               call' = [call EXCEPT ![c].op = "claim", ![c].account = a,
                                    ![c].permitted = permitted]
        PROVE  call'[c].op = "claim"
    BY <1>1, <2>1, <2>4 DEF Working
  <2>5. QED
    BY <1>3, <2>1, <2>2, <2>3, <2>4
<1>9. CASE ResolveUnknown(c) \/ ClaimRefused(c) \/ ProvisionRefused(c)
  <2>1. call[c] \in Working /\ call[c].account \in Accounts \cup {Null}
    BY <1>9, AtWork DEF ResolveUnknown, ClaimRefused, ProvisionRefused, Awaits
  <2>2. /\ {"provisioning-refused", "account-exists"}
                \subseteq Outcomes \ Bindings
        /\ {"provision", "findWinner"} \subseteq StoreOps
    BY DEF Outcomes, Bindings, StoreOps
  <2>3. QED
    BY <1>2, <1>3, <1>9, <2>1, <2>2
       DEF ResolveUnknown, ClaimRefused, ProvisionRefused
<1>10. CASE FindWinner(c)
  <2>1. call[c] \in Working /\ owner[Key(c)] \in Accounts \cup {Null}
    BY <1>10, AtWork DEF FindWinner, Awaits
  <2>2. {"returning", "identity-in-use"} \subseteq Outcomes \ Bindings
    BY DEF Outcomes, Bindings
  <2>3. QED
    BY <1>3, <1>10, <2>1, <2>2 DEF FindWinner
<1>11. CASE LinkFindsAccount(c) \/ LinkFindsOwner(c) \/ BindRefused(c)
  <2>1. call[c] \in Working /\ call[c].account \in Accounts \cup {Null}
    BY <1>11, AtWork DEF LinkFindsAccount, LinkFindsOwner, BindRefused, Awaits
  <2>2. /\ {"not-found", "disabled", "unverified-email", "email-mismatch",
            "already-linked", "identity-in-use", "account-already-linked",
            "not-eligible"} \subseteq Outcomes \ Bindings
        /\ {"findOwner", "bind"} \subseteq StoreOps
    BY DEF Outcomes, Bindings, StoreOps
  <2>3. CASE LinkFindsAccount(c) \/ LinkFindsOwner(c)
    BY <1>2, <1>3, <2>1, <2>2, <2>3 DEF LinkFindsAccount, LinkFindsOwner
  <2>4. CASE BindRefused(c)
    <3>1. \A A, O, a, identity : BindRefusals(A, O, a, identity) \subseteq
            {"already-linked", "identity-in-use", "account-already-linked",
             "not-eligible"}
      BY DEF BindRefusals, When
    <3>2. QED
      BY <1>3, <2>1, <2>2, <2>4, <3>1 DEF BindRefused
  <2>5. QED
    BY <1>11, <2>3, <2>4
<1>12. QED
  BY <1>4, <1>5, <1>6, <1>7, <1>8, <1>9, <1>10, <1>11
     DEF Step, Resolve, Link, Binding

\* The state w of a handler is a report of k's binding.
Reports(w, k) ==
    w.op = "audit" /\ w.outcome \in Bindings /\ w.identity.key = k

LEMMA ReportingIs ==
    \A k \in Keys : /\ Reporting(k) = {c \in Callers : Reports(call[c], k)}
                    /\ Reporting(k)' = {c \in Callers : Reports(call'[c], k)}
  BY DEF Reporting, Reports, Awaits, Key

\* A binding step leaves exactly its own report behind.
LEMMA BindingReports ==
    ASSUME IInv, BindingReportedOnce, NEW c \in Callers, Binding(c)
    PROVE  BindingReportedOnce'
<1>1. call[c].op \in {"claim", "provision", "bind"}
  BY DEF Binding, Claim, Provision, Bind, Awaits
<1>2. PICK a \in Accounts, outcome \in Bindings :
        /\ owner' = BindKey(owner, call[c].identity, a)
        /\ Answer(c, outcome, a)
  <2>1. CASE Claim(c)
    BY <1>1, <2>1, AtWork DEF Claim, Bindings, Knows, Awaits
  <2>2. CASE Bind(c)
    BY <1>1, <2>2, AtWork DEF Bind, Bindings, Knows, Awaits
  <2>3. CASE Provision(c)
    BY <2>3 DEF Provision, Bindings
  <2>4. QED
    BY <2>1, <2>2, <2>3 DEF Binding
<1>3. owner[Key(c)] = Null /\ UNCHANGED trail
  <2>1. CASE Claim(c)
    BY <2>1 DEF Claim, ClaimRefusals, When, Key
  <2>2. CASE Bind(c)
    BY <1>1, <2>2, AtWork, StoreAssumption
       DEF Bind, BindRefusals, When, Key, Knows, Awaits
  <2>3. CASE Provision(c)
    BY <2>3 DEF Provision
  <2>4. QED
    BY <2>1, <2>2, <2>3 DEF Binding
<1>4. /\ Moves(c)
      /\ call'[c].op = "audit"
      /\ call'[c].identity = call[c].identity
      /\ call'[c].outcome = outcome
  BY <1>1, <1>2, AtWork, Answers DEF IInv, Outcomes
<1>5. \A k \in Keys : owner'[k] = IF k = Key(c) THEN a ELSE owner[k]
  BY <1>2, AtWork, <1>1 DEF BindKey, Key, IInv, TypeOK, TypedStore
<1>6. Reporting(Key(c)) = {}
  <2>1. ASSUME NEW d \in Callers, Reports(call[d], Key(c))
        PROVE  FALSE
    BY <1>3, <2>1, AtWork DEF Knows, Done, Reports, Key
  <2>2. QED
    BY <1>1, <2>1, AtWork, ReportingIs
<1>7. Reported(Key(c)) = {}
  BY <1>1, <1>3, AtWork, StoreAssumption
     DEF BindingReportedOnce, Reported, IInv, TypeOK, Event
<1>8. \A k \in Keys : Reporting(k)' = IF k = Key(c) THEN {c} ELSE Reporting(k)
  <2> SUFFICES ASSUME NEW k \in Keys
               PROVE  Reporting(k)' = IF k = Key(c) THEN {c} ELSE Reporting(k)
    OBVIOUS
  <2>1. ~Reports(call[c], k)
    BY <1>1 DEF Reports
  <2>2. Reports(call'[c], k) <=> k = Key(c)
    BY <1>2, <1>4 DEF Reports, Key
  <2>3. \A d \in Callers \ {c} : call'[d] = call[d]
    BY <1>4 DEF Moves
  <2>4. /\ Reporting(k) = {d \in Callers : Reports(call[d], k)}
        /\ Reporting(k)' = {d \in Callers : Reports(call'[d], k)}
    BY ReportingIs
  <2>5. CASE k = Key(c)
    BY <1>6, <2>2, <2>3, <2>4, <2>5
  <2>6. CASE k # Key(c)
    BY <2>1, <2>2, <2>3, <2>4, <2>6
  <2>7. QED
    BY <2>5, <2>6
<1>9. \A k \in Keys : Reported(k)' = Reported(k)
  BY <1>3 DEF Reported
<1>10. QED
  BY <1>5, <1>7, <1>8, <1>9 DEF BindingReportedOnce

\* Recording a report takes it from the handler to the trail, or loses it.
LEMMA AuditReports ==
    ASSUME IInv, BindingReportedOnce, NEW c \in Callers, Audit(c)
    PROVE  BindingReportedOnce'
<1>1. call[c].op = "audit" /\ Proceed(c, "reply") /\ UNCHANGED owner
  BY DEF Audit, Awaits
<1>2. Moves(c) /\ call'[c].op = "reply"
  BY <1>1, AtWork, Proceeds DEF IInv
<1>3. \A k \in Keys : Reporting(k)' = Reporting(k) \ {c}
  BY <1>2, ReportingIs DEF Reports, Moves
<1>4. \A k \in Keys : c \in Reporting(k) <=>
            k = Key(c) /\ call[c].outcome \in Bindings
  BY <1>1 DEF Reporting, Awaits
<1>5. call[c].outcome \in Bindings => owner[Key(c)] = AuditOf(c).account
  BY <1>1, AtWork DEF Knows, Done, AuditOf
<1>6. AuditOf(c).key = Key(c)
  BY DEF AuditOf
<1>7. CASE UNCHANGED trail /\ (CanFail \/ call[c].outcome \notin Bindings)
  BY <1>1, <1>3, <1>4, <1>7 DEF BindingReportedOnce, Reported
<1>8. CASE call[c].outcome \in Bindings /\ trail' = trail \cup {AuditOf(c)}
  <2>1. Reported(Key(c)) = {}
    BY <1>1, <1>4, <1>8, AtWork DEF BindingReportedOnce
  <2>2. \A k \in Keys : Reported(k)' = IF k = Key(c) THEN {AuditOf(c)}
                                       ELSE Reported(k)
    BY <1>6, <1>8, <2>1 DEF Reported
  <2>3. Reporting(Key(c)) = {c}
    BY <1>1, <1>4, <1>8, AtWork DEF BindingReportedOnce
  <2> DEFINE e == AuditOf(c)
  <2>4. owner[Key(c)] = e.account
    BY <1>5, <1>8
  <2> HIDE DEF e
  <2>5. QED
    BY <1>1, <1>3, <1>4, <2>2, <2>3, <2>4 DEF BindingReportedOnce, e
<1>9. QED
  BY <1>7, <1>8 DEF Audit

LEMMA OthersReport ==
    ASSUME IInv, BindingReportedOnce, NEW c \in Callers, Step(c),
           ~Binding(c), ~Audit(c)
    PROVE  BindingReportedOnce'
<1>1. UNCHANGED <<owner, trail>>
  BY DEF Step, BeginResolve, BeginLink, Resolve, Link, Return, Crash,
     ResolveByKey, ResolveByEmail, ResolveUnknown, ClaimRefused, Binding,
     ProvisionRefused, FindWinner, LinkFindsAccount, LinkFindsOwner,
     BindRefused
<1>2. \A d \in Callers \ {c} : call'[d] = call[d]
  BY StepSound DEF Sound, Moves
<1>3. \A k \in Keys : Reporting(k)' = Reporting(k) \ {c}
  BY <1>2, OthersReportNothing, ReportingIs DEF Reports
<1>4. call[c].op # "audit" \/ CanFail
  <2>1. CASE BeginResolve(c) \/ BeginLink(c)
    BY <2>1 DEF BeginResolve, BeginLink, Start, Idle
  <2>2. CASE Resolve(c)
    BY <2>2 DEF Resolve, ResolveByKey, ResolveByEmail, ResolveUnknown, Claim,
       ClaimRefused, Provision, ProvisionRefused, FindWinner, Awaits
  <2>3. CASE Link(c)
    BY <2>3 DEF Link, LinkFindsAccount, LinkFindsOwner, Bind, BindRefused,
       Awaits
  <2>4. CASE Return(c) \/ Crash(c)
    BY <2>4 DEF Return, Crash, Awaits
  <2>5. QED
    BY <2>1, <2>2, <2>3, <2>4 DEF Step
<1>5. ~CanFail => \A k \in Keys : c \notin Reporting(k)
  BY <1>4 DEF Reporting, Awaits
<1>6. \A k \in Keys : Reported(k)' = Reported(k)
  BY <1>1 DEF Reported
<1>7. QED
  BY <1>1, <1>3, <1>5, <1>6 DEF BindingReportedOnce

\* However claims, provisionings and links race, an identity's binding is
\* reported by one handler only, and truly; and when nothing fails it is
\* reported.
THEOREM ReportedOnce == Spec => []BindingReportedOnce
<1>1. Init => BindingReportedOnce
  BY DEF Init, BindingReportedOnce, Reporting, Reported, Awaits, Idle
<1>2. IInv /\ BindingReportedOnce /\ [Next]_vars => BindingReportedOnce'
  <2> SUFFICES ASSUME IInv, BindingReportedOnce, [Next]_vars
               PROVE  BindingReportedOnce'
    OBVIOUS
  <2>1. ASSUME NEW c \in Callers, Step(c)
        PROVE  BindingReportedOnce'
    BY <2>1, BindingReports, AuditReports, OthersReport
  <2>2. CASE UNCHANGED <<owner, call, trail>>
    BY <2>2 DEF BindingReportedOnce, Reporting, Reported, Awaits, Key
  <2>3. QED
    BY <2>1, <2>2 DEF Next, Step, HostWrites, vars
<1>3. QED
  BY <1>1, <1>2, Inductive, PTL DEF Spec

-----------------------------------------------------------------------------
(* Who gets an account.                                                    *)

\* Table and bindings change by a binding, or by the host.
LEMMA OthersUnseen ==
    ASSUME NEW c \in Callers, Step(c), ~Binding(c)
    PROVE  UNCHANGED <<accounts, owner>>
  BY DEF Step, BeginResolve, BeginLink, Resolve, Link, Return, Crash, Audit,
     ResolveByKey, ResolveByEmail, ResolveUnknown, ClaimRefused, Binding,
     ProvisionRefused, FindWinner, LinkFindsAccount, LinkFindsOwner,
     BindRefused

\* A binding moves one key, and to an account that exists only in those ways.
LEMMA BindingTakes ==
    ASSUME IInv, NEW c \in Callers, Binding(c), NEW k \in Keys,
           owner'[k] # owner[k], owner'[k] \in DOMAIN accounts
    PROVE  call[c] # Idle /\ MayTake(c, k, owner'[k]) /\ Takes(c)
<1>1. call[c].op \in {"claim", "provision", "bind"} /\ call[c] # Idle
  BY DEF Binding, Claim, Provision, Bind, Awaits, Idle
<1>2. owner \in [Keys -> DOMAIN accounts \cup {Null}] /\ Key(c) \in Keys
  BY <1>1, AtWork DEF IInv, TypeOK, TypedStore
<1>3. CASE Claim(c)
  <2>1. call[c].op = "claim" /\ owner' = BindKey(owner, call[c].identity,
                                                call[c].account)
    BY <1>3 DEF Claim, Awaits
  <2>2. k = Key(c) /\ owner'[k] = call[c].account
    BY <1>2, <2>1 DEF BindKey, Key
  <2>3. StillPlaceholder(accounts, owner, call[c].account, call[c].identity)
    BY <1>3 DEF Claim, ClaimRefusals, When
  <2>4. call[c].identity.emailAuthority = "hosted"
    BY <1>1, <2>1, AtWork DEF Knows
  <2>5. Email(c) = Normalized(call[c].identity.email)
    BY <2>4 DEF Email, VerifiedEmail
  <2>6. Takes(c)
    BY <1>1, <1>3, AtWork, Answers
       DEF IInv, Claim, Takes, Awaits, Bindings, Outcomes
  <2>7. QED
    BY <1>1, <2>1, <2>2, <2>3, <2>4, <2>5, <2>6
       DEF MayTake, Awaits, StillPlaceholder
<1>4. CASE Bind(c)
  <2>1. call[c].op = "bind" /\ owner' = BindKey(owner, call[c].identity,
                                               call[c].account)
    BY <1>4 DEF Bind, Awaits
  <2>2. k = Key(c) /\ owner'[k] = call[c].account
    BY <1>2, <2>1 DEF BindKey, Key
  <2>3. call[c].flow = "link"
    BY <1>1, <2>1, AtWork DEF Knows
  <2>4. Takes(c)
    BY <1>1, <1>4, AtWork, Answers
       DEF IInv, Bind, Takes, Awaits, Bindings, Outcomes
  <2>5. QED
    BY <1>1, <2>1, <2>2, <2>3, <2>4 DEF MayTake, Awaits
<1>5. CASE Provision(c)
  <2>1. PICK a \in Accounts \ (DOMAIN accounts \cup Registered) :
            owner' = BindKey(owner, call[c].identity, a)
    BY <1>5 DEF Provision
  <2>2. owner'[k] = a
    BY <1>2, <2>1 DEF BindKey, Key
  <2>3. QED
    BY <2>1, <2>2
<1>6. QED
  BY <1>3, <1>4, <1>5 DEF Binding

\* However stale the rows the handlers read, an account that exists gets an
\* identity only from its own signed-in user, or from the issuer that is
\* authoritative for an address nobody has proven to be theirs.
THEOREM NobodyTakesAnAccount == Spec => NoAccountTaken
<1>1. IInv /\ [Next]_vars =>
        [\A k \in Keys :
            owner'[k] # owner[k] /\ owner'[k] \in DOMAIN accounts =>
                \E c \in Callers :
                    call[c] # Idle /\ MayTake(c, k, owner'[k]) /\ Takes(c)]_vars
  <2> SUFFICES ASSUME IInv, [Next]_vars, NEW k \in Keys,
                      owner'[k] # owner[k], owner'[k] \in DOMAIN accounts
               PROVE  \E c \in Callers :
                        call[c] # Idle /\ MayTake(c, k, owner'[k]) /\ Takes(c)
    OBVIOUS
  <2>1. PICK c \in Callers : Binding(c)
    BY OthersUnseen DEF Next, Step, HostWrites, vars
  <2>2. QED
    BY <2>1, BindingTakes
<1>2. QED
  BY <1>1, Inductive, PTL DEF Spec, NoAccountTaken

-----------------------------------------------------------------------------
(* The refinement.                                                         *)

FullRechecks == Rechecks = {"unbound", "enabled", "credentials", "email"}

\* The registry speaks of the same rows in the same words.
LEMMA SameWords ==
    /\ \A A, a, row : Registry!PutRow(A, a, row) = PutRow(A, a, row)
    /\ \A A, a : Registry!ClaimRow(A, a) = ClaimRow(A, a)
    /\ \A O, i, a : Registry!BindKey(O, i, a) = BindKey(O, i, a)
    /\ \A O, a : Registry!IsBound(O, a) = IsBound(O, a)
    /\ \A i : Registry!NewRow(i) = NewRow(i)
    /\ \A i : Registry!VerifiedEmail(i) = VerifiedEmail(i)
    /\ \A A, e : Registry!WithEmail(A, e) = WithEmail(A, e)
  BY DEF Registry!PutRow, PutRow, Registry!ClaimRow, ClaimRow,
     Registry!BindKey, BindKey, Registry!IsBound, IsBound, Registry!NewRow,
     NewRow, Registry!VerifiedEmail, VerifiedEmail, Registry!WithEmail,
     WithEmail, Registry!Normalized, Normalized, Registry!SameEmail, SameEmail

LEMMA ClaimIsRegistry ==
    ASSUME IInv, FullRechecks, NEW c \in Callers, Claim(c)
    PROVE  Registry!Claim(call[c].identity)
<1> DEFINE a == call[c].account
           i == call[c].identity
<1>1. call[c].op = "claim"
  BY DEF Claim, Awaits
<1>2. /\ i.emailAuthority = "hosted"
      /\ VerifiedEmail(i) # Null
      /\ a \in DOMAIN accounts
  BY <1>1, AtWork DEF Knows
<1>3. VerifiedEmail(i) = Normalized(i.email)
  BY <1>2 DEF VerifiedEmail
<1>4. /\ owner[i.key] = Null
      /\ StillPlaceholder(accounts, owner, a, i)
  BY DEF Claim, ClaimRefusals, When
<1>5. /\ ~accounts[a].disabled
      /\ ~accounts[a].emailVerified
      /\ ~accounts[a].hasCredentials
      /\ ~IsBound(owner, a)
      /\ SameEmail(accounts[a], VerifiedEmail(i))
  BY <1>3, <1>4 DEF StillPlaceholder, FullRechecks
<1>6. a \in WithEmail(accounts, VerifiedEmail(i))
  BY <1>2, <1>5 DEF WithEmail
<1>7. QED
  BY <1>2, <1>4, <1>5, <1>6, SameWords
     DEF Registry!Claim, Registry!Free, Claim

LEMMA ProvisionIsRegistry ==
    ASSUME IInv, NEW c \in Callers, Provision(c)
    PROVE  Registry!Provision(call[c].identity)
<1>1. call[c].op = "provision" /\ owner[call[c].identity.key] = Null
  BY DEF Provision, Awaits, Key
<1>2. VerifiedEmail(call[c].identity) # Null
  BY <1>1, AtWork DEF Knows
<1>3. QED
  BY <1>1, <1>2, SameWords DEF Registry!Provision, Registry!Free, Provision

LEMMA BindIsRegistry ==
    ASSUME IInv, FullRechecks, NEW c \in Callers, Bind(c)
    PROVE  Registry!Bind(call[c].identity)
<1> DEFINE a == call[c].account
           i == call[c].identity
<1>1. call[c].op = "bind"
  BY DEF Bind, Awaits
<1>2. VerifiedEmail(i) # Null /\ a \in DOMAIN accounts
  BY <1>1, AtWork DEF Knows
<1>3. owner[i.key] = Null /\ ~IsBound(owner, a) /\ ~accounts[a].disabled
  BY <1>2 DEF Bind, BindRefusals, When, FullRechecks
<1>4. QED
  BY <1>2, <1>3, SameWords DEF Registry!Bind, Registry!Free, Bind

\* With an adapter that rechecks all it can, every binding the handlers make on
\* rows they read before an await is one the registry makes on the present
\* rows.
THEOREM EngineImplementsRegistry ==
    ASSUME FullRechecks PROVE Spec => ImplementsRegistry
<1>1. Init => Registry!Init
  BY DEF Init, Registry!Init
<1>2. IInv /\ [Next]_vars => [Registry!Next]_(Registry!vars)
  <2> SUFFICES ASSUME IInv, [Next]_vars
               PROVE  [Registry!Next]_(Registry!vars)
    OBVIOUS
  <2>1. ASSUME NEW c \in Callers, Binding(c)
        PROVE  Registry!Next
    <3>1. call[c].identity \in Presented
      BY <2>1, AtWork DEF Binding, Claim, Provision, Bind, Awaits
    <3>2. QED
      BY <2>1, <3>1, ClaimIsRegistry, ProvisionIsRegistry, BindIsRegistry
         DEF Binding, Registry!Next
  <2>2. ASSUME NEW c \in Callers, Step(c), ~Binding(c)
        PROVE  UNCHANGED Registry!vars
    BY <2>2, OthersUnseen DEF Registry!vars
  <2>3. CASE HostWrites
    BY <2>3, SameWords DEF HostWrites, Registry!HostWrites, Registry!Next
  <2>4. CASE UNCHANGED vars
    BY <2>4 DEF vars, Registry!vars
  <2>5. QED
    BY <2>1, <2>2, <2>3, <2>4 DEF Next, Step
<1>3. QED
  BY <1>1, <1>2, Inductive, PTL DEF Spec, ImplementsRegistry, Registry!Spec

=============================================================================
