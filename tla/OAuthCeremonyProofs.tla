------------------------- MODULE OAuthCeremonyProofs -------------------------
(***************************************************************************)
(* Proofs about OAuthCeremony, for every set of browsers, states, codes,   *)
(* handlers and secrets, every clock, and whatever Google says of its      *)
(* accounts.                                                               *)
(*                                                                         *)
(* The argument: a browser holds no cookie but of its own ceremonies, and  *)
(* none of a ceremony it saw end; a callback carries a cookie its browser  *)
(* had; and what was accepted had the cookie for its state.                *)
(***************************************************************************)
EXTENDS OAuthCeremony, TLAPS

\* What a callback carries, and what its handler found.
Carried(w) ==
    /\ w \in Callback
    /\ w.code \in DOMAIN codes
    /\ w.cookie \in DOMAIN states \cup {Null}
    /\ w.cookie # Null => states[w.cookie].browser = w.browser
    /\ w.late => w.cookie # w.state
    /\ w.op # "check" => w.state = w.cookie /\ w.state # Null

CallbacksCarry ==
    \A r \in Requests : request[r] = Idle \/ Carried(request[r])

CookiesAreOwn ==
    \A b \in Browsers : cookie[b] # Null =>
        /\ states[cookie[b]].browser = b
        /\ cookie[b] \notin closed

\* Every identity was read off claims for its account.
ProvenByClaims ==
    \A p \in proven : \E claims \in VerifierAnswers[p.account] :
        /\ ~IsRefused(claims)
        /\ p.identity = ExternalIdentity(claims)

IInv == TypeOK /\ CallbacksCarry /\ CookiesAreOwn /\ ProvenByClaims

-----------------------------------------------------------------------------
(* Google's claims.                                                        *)

LEMMA ClaimsFields ==
    ASSUME NEW g \in GoogleAccounts, NEW claims \in VerifierAnswers[g],
           ~IsRefused(claims)
    PROVE  /\ claims.sub = g
           /\ claims.email.mailbox = Profile[g].mailbox
           /\ claims.email_verified \in {"true", "the string true"}
                <=> Profile[g].verified
           /\ claims.hd = "a domain" <=> Profile[g].workspace
           /\ Profile[g].mailbox \in Mailboxes \cup {Null}
<1>1. /\ claims \in Claims
      /\ claims.sub \in {g, Null}
      /\ claims.email.mailbox = Profile[g].mailbox
      /\ (claims.email_verified # "no") = Profile[g].verified
      /\ (claims.hd = "a domain") = Profile[g].workspace
  BY DEF VerifierAnswers
<1>2. claims.email_verified \in {"true", "the string true", "no"}
  BY <1>1 DEF Claims
<1>3. /\ Profile[g].mailbox \in Mailboxes \cup {Null}
      /\ Profile[g].verified \in BOOLEAN
      /\ Profile[g].workspace \in BOOLEAN
  BY GoogleAssumption
<1>4. claims.sub = g
  BY <1>1 DEF IsRefused
<1>5. QED
  BY <1>1, <1>2, <1>3, <1>4

\* The identity of an account, whichever way its claims are spelled.
IdentityOf(g) ==
    [issuer |-> CanonicalIssuer, subject |-> g, email |-> Profile[g].mailbox,
     emailAuthority |->
        IF ~Profile[g].verified \/ Profile[g].mailbox = Null THEN "none"
        ELSE IF Profile[g].mailbox \in GmailBoxes \/ Profile[g].workspace
        THEN "hosted" ELSE "asserted"]

LEMMA SpellingIsNothing ==
    ASSUME NEW g \in GoogleAccounts, NEW claims \in VerifierAnswers[g],
           ~IsRefused(claims)
    PROVE  /\ ExternalIdentity(claims) = IdentityOf(g)
           /\ IdentityOf(g) \in Identity
<1>1. ExternalIdentity(claims) = IdentityOf(g)
  BY ClaimsFields DEF ExternalIdentity, IdentityOf, GoogleEmailAuthority
<1>2. IdentityOf(g) \in Identity
  BY ClaimsFields DEF Identity, IdentityOf
<1>3. QED
  BY <1>1, <1>2

-----------------------------------------------------------------------------
(* Framing.                                                                *)

\* States and codes are never forgotten.
Remembered ==
    /\ DOMAIN states \subseteq DOMAIN states'
    /\ \A n \in DOMAIN states : states'[n] = states[n]
    /\ DOMAIN codes \subseteq DOMAIN codes'

LEMMA CarriedOn ==
    ASSUME NEW w, Carried(w), Null \notin DOMAIN states, Remembered
    PROVE  Carried(w)'
  BY DEF Carried, Remembered

\* One handler moves, the rest of the invariant's subjects being left alone.
LEMMA OneMoves ==
    ASSUME IInv, NEW r \in Requests, NEW w \in {Idle} \cup Callback,
           request' = [request EXCEPT ![r] = w],
           w = Idle \/ Carried(w),
           UNCHANGED <<clock, secret, states, cookie, codes, closed, proven>>
    PROVE  IInv'
<1>1. TypeOK'
  BY DEF IInv, TypeOK
<1>2. CallbacksCarry'
  <2> SUFFICES ASSUME NEW q \in Requests
               PROVE  request'[q] = Idle \/ Carried(request'[q])
    BY DEF CallbacksCarry, Carried
  <2>1. CASE q = r
    BY <2>1 DEF IInv, TypeOK
  <2>2. CASE q # r
    BY <2>2 DEF IInv, TypeOK, CallbacksCarry
  <2>3. QED
    BY <2>1, <2>2
<1>3. CookiesAreOwn' /\ ProvenByClaims'
  BY DEF IInv, CookiesAreOwn, ProvenByClaims
<1>4. QED
  BY <1>1, <1>2, <1>3 DEF IInv

\* Nothing of a callback changes as its handler goes on.
LEMMA MovedOn ==
    ASSUME IInv, NEW r \in Requests, request[r] # Idle,
           NEW op \in {"exchange", "verify", "done"},
           request[r].state = request[r].cookie,
           request[r].state # Null
    PROVE  /\ Carried([request[r] EXCEPT !.op = op])
           /\ [request[r] EXCEPT !.op = op] \in Callback
<1>1. Carried(request[r]) /\ request[r] \in Callback
  BY DEF IInv, CallbacksCarry, Carried
<1>2. QED
  BY <1>1 DEF Carried, Callback

LEMMA AtWork ==
    ASSUME IInv, NEW r \in Requests, Accepted(r)
    PROVE  /\ request[r] # Idle
           /\ Carried(request[r])
           /\ request[r] \in Callback
           /\ request[r].state = request[r].cookie
           /\ request[r].state # Null
           /\ request[r].state \in DOMAIN states
           /\ request[r].browser \in Browsers
           /\ states[request[r].state].browser = request[r].browser
<1>1. request[r] # Idle
  BY DEF Accepted, Idle
<1>2. Carried(request[r])
  BY <1>1 DEF IInv, CallbacksCarry
<1>3. QED
  BY <1>1, <1>2 DEF Carried, Callback, Accepted

-----------------------------------------------------------------------------
(* The steps.                                                              *)

LEMMA BeginKeeps ==
    ASSUME IInv, NEW b \in Browsers, Begin(b)
    PROVE  IInv'
<1>1. PICK n \in Nonces \ DOMAIN states, ttl \in Ttls :
        /\ ttl > 0
        /\ states' = [x \in DOMAIN states \cup {n} |->
                        IF x = n THEN NewState(ttl, b) ELSE states[x]]
        /\ cookie' = [cookie EXCEPT ![b] = n]
  BY DEF Begin
<1>2. UNCHANGED <<clock, secret, codes, request, closed, proven>>
  BY DEF Begin
<1>3. NewState(ttl, b) \in State /\ NewState(ttl, b).browser = b
  BY <1>1, CeremonyAssumption DEF NewState, State, IInv, TypeOK
<1>4. /\ DOMAIN states' = DOMAIN states \cup {n}
      /\ \A x \in DOMAIN states : states'[x] = states[x]
      /\ states'[n] = NewState(ttl, b)
  BY <1>1
<1>5. Null \notin DOMAIN states
  BY CeremonyAssumption DEF IInv, TypeOK
<1>6. TypeOK'
  <2>1. states' \in [DOMAIN states' -> State]
    BY <1>1, <1>3, <1>4 DEF IInv, TypeOK
  <2>2. cookie' \in [Browsers -> DOMAIN states' \cup {Null}]
    BY <1>1, <1>4 DEF IInv, TypeOK
  <2>3. QED
    BY <1>2, <1>4, <2>1, <2>2 DEF IInv, TypeOK
<1>7. CallbacksCarry'
  <2>1. Remembered
    BY <1>2, <1>4 DEF Remembered
  <2>2. QED
    BY <1>2, <1>5, <2>1, CarriedOn DEF IInv, CallbacksCarry
<1>8. CookiesAreOwn'
  <2> SUFFICES ASSUME NEW d \in Browsers, cookie'[d] # Null
               PROVE  /\ states'[cookie'[d]].browser = d
                      /\ cookie'[d] \notin closed
    BY <1>2 DEF CookiesAreOwn
  <2>1. CASE d = b
    BY <1>1, <1>3, <1>4, <2>1 DEF IInv, TypeOK
  <2>2. CASE d # b
    BY <1>1, <1>4, <2>2 DEF IInv, TypeOK, CookiesAreOwn
  <2>3. QED
    BY <2>1, <2>2
<1>9. ProvenByClaims'
  BY <1>2 DEF IInv, ProvenByClaims
<1>10. QED
  BY <1>6, <1>7, <1>8, <1>9 DEF IInv

LEMMA ConsentKeeps ==
    ASSUME IInv, Consent
    PROVE  IInv'
<1>1. PICK k \in Codes \ DOMAIN codes, n \in DOMAIN states,
           g \in GoogleAccounts :
        codes' = [x \in DOMAIN codes \cup {k} |->
                    IF x = k
                    THEN [state |-> n, account |-> g, used |-> FALSE]
                    ELSE codes[x]]
  BY DEF Consent
<1>2. UNCHANGED <<clock, secret, states, cookie, request, closed, proven>>
  BY DEF Consent
<1>3. [state |-> n, account |-> g, used |-> FALSE] \in Code
  BY DEF Code, IInv, TypeOK
<1>4. DOMAIN codes' = DOMAIN codes \cup {k}
      /\ codes' \in [DOMAIN codes' -> Code]
  BY <1>1, <1>3 DEF IInv, TypeOK
<1>5. TypeOK'
  BY <1>2, <1>4 DEF IInv, TypeOK
<1>6. CallbacksCarry'
  <2>1. Remembered /\ Null \notin DOMAIN states
    BY <1>2, <1>4, CeremonyAssumption DEF Remembered, IInv, TypeOK
  <2>2. QED
    BY <1>2, <2>1, CarriedOn DEF IInv, CallbacksCarry
<1>7. CookiesAreOwn' /\ ProvenByClaims'
  BY <1>2 DEF IInv, CookiesAreOwn, ProvenByClaims
<1>8. QED
  BY <1>5, <1>6, <1>7 DEF IInv

\* The cookie a callback is sent with is its browser's; of a ceremony the
\* browser saw end, it is not.
LEMMA OpenKeeps ==
    ASSUME IInv, NEW r \in Requests, Open(r)
    PROVE  IInv'
<1>1. PICK b \in Browsers, k \in DOMAIN codes :
        \E n \in {codes[k].state, Null} :
            request' = [request EXCEPT ![r] =
                [op |-> "check", browser |-> b, code |-> k, state |-> n,
                 cookie |-> cookie[b],
                 late |-> n \in closed /\ states[n].browser = b]]
  BY DEF Open
<1>2. PICK n \in {codes[k].state, Null} :
            request' = [request EXCEPT ![r] =
                [op |-> "check", browser |-> b, code |-> k, state |-> n,
                 cookie |-> cookie[b],
                 late |-> n \in closed /\ states[n].browser = b]]
  BY <1>1
<1> DEFINE w == [op |-> "check", browser |-> b, code |-> k, state |-> n,
                 cookie |-> cookie[b],
                 late |-> n \in closed /\ states[n].browser = b]
<1>3. n \in Nonces \cup {Null} /\ k \in Codes
  BY DEF IInv, TypeOK, Code
<1>4. /\ cookie[b] \in DOMAIN states \cup {Null}
      /\ cookie[b] \in Nonces \cup {Null}
  BY DEF IInv, TypeOK
<1>5. w \in Callback
  BY <1>3, <1>4 DEF Callback
<1>6. w.late => w.cookie # w.state
  BY CeremonyAssumption DEF IInv, CookiesAreOwn, TypeOK
<1>7. Carried(w)
  BY <1>4, <1>5, <1>6 DEF Carried, IInv, CookiesAreOwn
<1> HIDE DEF w
<1>8. UNCHANGED <<clock, secret, states, cookie, codes, closed, proven>>
  BY DEF Open
<1>9. request' = [request EXCEPT ![r] = w]
  BY <1>2 DEF w
<1>10. QED
  BY <1>5, <1>7, <1>8, <1>9, OneMoves

LEMMA CheckKeeps ==
    ASSUME IInv, NEW r \in Requests, Check(r)
    PROVE  IInv'
<1>1. UNCHANGED <<clock, secret, states, cookie, codes, closed, proven>>
  BY DEF Check
<1>2. CASE RequireSameBrowser(request[r].state, request[r].cookie)
  <2>1. /\ request[r].state = request[r].cookie
        /\ request[r].state # Null
        /\ request[r] # Idle
    BY <1>2 DEF RequireSameBrowser, Check, Idle
  <2>2. request' = [request EXCEPT ![r] =
                        [request[r] EXCEPT !.op = "exchange"]]
    BY <1>2 DEF Check, Move, IInv, TypeOK
  <2>3. QED
    BY <1>1, <2>1, <2>2, MovedOn, OneMoves
<1>3. CASE ~RequireSameBrowser(request[r].state, request[r].cookie)
  <2>1. request' = [request EXCEPT ![r] = Idle]
    BY <1>3 DEF Check
  <2>2. QED
    BY <1>1, <2>1, OneMoves
<1>4. QED
  BY <1>2, <1>3

LEMMA ExchangeKeeps ==
    ASSUME IInv, NEW r \in Requests, Exchange(r)
    PROVE  IInv'
<1> DEFINE k == request[r].code
           w == [request[r] EXCEPT !.op = "verify"]
<1>1. Accepted(r)
  BY DEF Exchange, Accepted
<1>2. Carried(w) /\ w \in Callback
  BY <1>1, AtWork, MovedOn
<1>3. k \in DOMAIN codes
  BY <1>1, AtWork DEF Carried
<1>4. codes' = [codes EXCEPT ![k] = [codes[k] EXCEPT !.used = TRUE]]
  BY <1>3 DEF Exchange
<1>5. request' = [request EXCEPT ![r] = w]
  BY DEF Exchange, Move, IInv, TypeOK
<1>6. UNCHANGED <<clock, secret, states, cookie, closed, proven>>
  BY DEF Exchange
<1>7. [codes[k] EXCEPT !.used = TRUE] \in Code
  BY <1>3 DEF Code, IInv, TypeOK
<1> HIDE DEF k, w
<1>8. DOMAIN codes' = DOMAIN codes /\ codes' \in [DOMAIN codes' -> Code]
  BY <1>4, <1>7 DEF IInv, TypeOK
<1>9. TypeOK'
  BY <1>2, <1>5, <1>6, <1>8 DEF IInv, TypeOK
<1>10. CallbacksCarry'
  <2>1. Remembered /\ Null \notin DOMAIN states
    BY <1>6, <1>8, CeremonyAssumption DEF Remembered, IInv, TypeOK
  <2> SUFFICES ASSUME NEW q \in Requests
               PROVE  (request[q] = Idle \/ Carried(request[q]))'
    BY DEF CallbacksCarry
  <2>2. PICK v : v = request'[q]
    OBVIOUS
  <2>3. v = Idle \/ Carried(v)
    BY <1>2, <1>5, <2>2 DEF IInv, TypeOK, CallbacksCarry
  <2>4. v = Idle \/ Carried(v)'
    BY <2>1, <2>3, CarriedOn
  <2>5. QED
    BY <2>2, <2>4 DEF Carried
<1>11. CookiesAreOwn' /\ ProvenByClaims'
  BY <1>6 DEF IInv, CookiesAreOwn, ProvenByClaims
<1>12. QED
  BY <1>9, <1>10, <1>11 DEF IInv

LEMMA ExchangeFailsKeeps ==
    ASSUME IInv, NEW r \in Requests, ExchangeFails(r)
    PROVE  IInv'
<1>1. Accepted(r)
  BY DEF ExchangeFails, Accepted
<1>2. /\ Carried([request[r] EXCEPT !.op = "done"])
      /\ [request[r] EXCEPT !.op = "done"] \in Callback
  BY <1>1, AtWork, MovedOn
<1>3. request' = [request EXCEPT ![r] = [request[r] EXCEPT !.op = "done"]]
  BY DEF ExchangeFails, Move, IInv, TypeOK
<1>4. UNCHANGED <<clock, secret, states, cookie, codes, closed, proven>>
  BY DEF ExchangeFails
<1>5. QED
  BY <1>2, <1>3, <1>4, OneMoves

LEMMA VerifyKeeps ==
    ASSUME IInv, NEW r \in Requests, Verify(r)
    PROVE  IInv'
<1> DEFINE g == codes[request[r].code].account
           w == [request[r] EXCEPT !.op = "done"]
<1>1. Accepted(r)
  BY DEF Verify, Accepted
<1>2. Carried(w) /\ w \in Callback
  BY <1>1, AtWork, MovedOn
<1>3. g \in GoogleAccounts
  BY <1>1, AtWork DEF Carried, IInv, TypeOK, Code
<1>4. request' = [request EXCEPT ![r] = w]
  BY DEF Verify, Move, IInv, TypeOK
<1>5. UNCHANGED <<clock, secret, states, cookie, codes, closed>>
  BY DEF Verify
<1>6. PICK claims \in VerifierAnswers[g] :
        proven' = IF IsRefused(claims) THEN proven
                  ELSE proven \cup
                    {[account |-> g, identity |-> ExternalIdentity(claims)]}
  BY DEF Verify
<1> HIDE DEF g, w
<1>7. /\ proven' \subseteq [account : GoogleAccounts, identity : Identity]
      /\ ProvenByClaims'
  <2>1. CASE IsRefused(claims)
    BY <1>6, <2>1 DEF IInv, TypeOK, ProvenByClaims
  <2>2. CASE ~IsRefused(claims)
    <3>1. ExternalIdentity(claims) \in Identity
      BY <1>3, <2>2, SpellingIsNothing
    <3>2. QED
      BY <1>3, <1>6, <2>2, <3>1 DEF IInv, TypeOK, ProvenByClaims
  <2>3. QED
    BY <2>1, <2>2
<1>8. TypeOK'
  BY <1>2, <1>4, <1>5, <1>7 DEF IInv, TypeOK
<1>9. CallbacksCarry'
  <2> SUFFICES ASSUME NEW q \in Requests
               PROVE  request'[q] = Idle \/ Carried(request'[q])
    BY <1>5 DEF CallbacksCarry, Carried
  <2>1. QED
    BY <1>2, <1>4 DEF IInv, TypeOK, CallbacksCarry
<1>10. CookiesAreOwn'
  BY <1>5 DEF IInv, CookiesAreOwn
<1>11. QED
  BY <1>7, <1>8, <1>9, <1>10 DEF IInv

\* The cookie goes as the ceremony ends; nobody else had one for it.
LEMMA AnswerKeeps ==
    ASSUME IInv, NEW r \in Requests, Answer(r)
    PROVE  IInv'
<1> DEFINE n == request[r].state
           b == request[r].browser
<1>1. Accepted(r)
  BY DEF Answer, Accepted
<1>2. n \in DOMAIN states /\ states[n].browser = b /\ b \in Browsers
  BY <1>1, AtWork
<1>3. /\ cookie' = [cookie EXCEPT ![b] = Null]
      /\ closed' = closed \cup {n}
      /\ request' = [request EXCEPT ![r] = Idle]
      /\ UNCHANGED <<clock, secret, states, codes, proven>>
  BY DEF Answer
<1> HIDE DEF n, b
<1>4. TypeOK'
  BY <1>2, <1>3 DEF IInv, TypeOK
<1>5. CallbacksCarry'
  <2> SUFFICES ASSUME NEW q \in Requests
               PROVE  request'[q] = Idle \/ Carried(request'[q])
    BY <1>3 DEF CallbacksCarry, Carried
  <2>1. QED
    BY <1>3 DEF IInv, TypeOK, CallbacksCarry
<1>6. CookiesAreOwn'
  <2> SUFFICES ASSUME NEW d \in Browsers, cookie'[d] # Null
               PROVE  /\ states[cookie'[d]].browser = d
                      /\ cookie'[d] \notin closed \cup {n}
    BY <1>3 DEF CookiesAreOwn
  <2>1. d # b /\ cookie'[d] = cookie[d]
    BY <1>3 DEF IInv, TypeOK
  <2>2. QED
    BY <1>2, <2>1 DEF IInv, CookiesAreOwn
<1>7. ProvenByClaims'
  BY <1>3 DEF IInv, ProvenByClaims
<1>8. QED
  BY <1>4, <1>5, <1>6, <1>7 DEF IInv

LEMMA OthersKeep ==
    ASSUME IInv,
           (\E r \in Requests : Lose(r)) \/ Redeploy \/ Tick
                \/ UNCHANGED vars
    PROVE  IInv'
<1>1. ASSUME NEW r \in Requests, Lose(r)
      PROVE  IInv'
  BY <1>1, OneMoves DEF Lose
<1>2. CASE Redeploy \/ Tick \/ UNCHANGED vars
  <2>1. /\ UNCHANGED <<states, cookie, codes, request, closed, proven>>
        /\ clock' \in Nat
        /\ secret' \in Secrets
    BY <1>2 DEF Redeploy, Tick, vars, IInv, TypeOK
  <2>2. QED
    BY <2>1 DEF IInv, TypeOK, CallbacksCarry, Carried, CookiesAreOwn,
               ProvenByClaims
<1>3. QED
  BY <1>1, <1>2

LEMMA Inductive == Spec => []IInv
<1>1. Init => IInv
  BY DEF Init, IInv, TypeOK, CallbacksCarry, CookiesAreOwn, ProvenByClaims
<1>2. IInv /\ [Next]_vars => IInv'
  BY BeginKeeps, ConsentKeeps, OpenKeeps, CheckKeeps, ExchangeKeeps,
     ExchangeFailsKeeps, VerifyKeeps, AnswerKeeps, OthersKeep
     DEF Next, Handle
<1>3. QED
  BY <1>1, <1>2, PTL DEF Spec

-----------------------------------------------------------------------------
(* What a ceremony promises.                                               *)

\* States, codes and callbacks are what they are said to be, and what the host
\* is handed is a well-formed identity under the canonical issuer.
THEOREM TypesHold == Spec => []TypeOK
  BY Inductive, PTL DEF IInv

\* A callback is accepted only from the browser its ceremony began in.
THEOREM OnlyWhereBegun == Spec => []AcceptedWhereBegun
<1>1. IInv => AcceptedWhereBegun
  BY AtWork DEF AcceptedWhereBegun
<1>2. QED
  BY <1>1, Inductive, PTL

\* A ceremony a browser saw end is over for it, though its state is still good.
THEOREM OverIsOver == Spec => []ClosedCeremoniesStayClosed
<1>1. IInv => ClosedCeremoniesStayClosed
  BY AtWork DEF ClosedCeremoniesStayClosed, Carried
<1>2. QED
  BY <1>1, Inductive, PTL

\* One identity for an account, in whatever spelling its claims come.
THEOREM OneIdentityEach == Spec => []OneIdentityPerGoogleAccount
<1>1. IInv => OneIdentityPerGoogleAccount
  <2> SUFFICES ASSUME IInv, NEW p \in proven, NEW q \in proven,
                      p.account = q.account
               PROVE  p.identity = q.identity
    BY DEF OneIdentityPerGoogleAccount
  <2>1. \A x \in proven : x.identity = IdentityOf(x.account)
    BY SpellingIsNothing DEF IInv, TypeOK, ProvenByClaims
  <2>2. QED
    BY <2>1
<1>2. QED
  BY <1>1, Inductive, PTL

\* `hosted' says that Google hosts the mailbox and has verified it.
THEOREM HostedIsHosted == Spec => []HostedMeansHosted
<1>1. IInv => HostedMeansHosted
  <2> SUFFICES ASSUME IInv, NEW p \in proven,
                      p.identity.emailAuthority = "hosted"
               PROVE  /\ Profile[p.account].verified
                      /\ p.identity.email = Profile[p.account].mailbox
                      /\ \/ Profile[p.account].workspace
                         \/ Profile[p.account].mailbox \in GmailBoxes
    BY DEF HostedMeansHosted
  <2>1. p.identity = IdentityOf(p.account)
    BY SpellingIsNothing DEF IInv, TypeOK, ProvenByClaims
  <2>2. QED
    BY <2>1 DEF IdentityOf
<1>2. QED
  BY <1>1, Inductive, PTL

=============================================================================
