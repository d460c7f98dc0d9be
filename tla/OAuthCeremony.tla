---------------------------- MODULE OAuthCeremony ----------------------------
(***************************************************************************)
(* The OAuth ceremony of src/oidc.ts, run as README.md:183-212 tells hosts *)
(* to: createOAuthState, the state's way through a cookie and through      *)
(* Google, requireSameBrowserOAuthState and the code exchange.             *)
(*                                                                         *)
(* No server remembers a state.  A browser keeps the latest one it was     *)
(* given in its one cookie, a callback carries the cookie of the moment it *)
(* was sent, and its answer takes the cookie away.  The URL of a callback  *)
(* may be opened again, or in another browser, and a browser may have      *)
(* several ceremonies under way.                                           *)
(***************************************************************************)
EXTENDS GoogleIdentity, Integers

CONSTANTS Browsers,   \* the browsers
          Nonces,     \* every nonce the random source may draw
          Codes,      \* the authorization codes Google may issue
          Requests,   \* the callbacks' handlers, one callback each at a time
          Secrets,    \* the secrets the host may have deployed
          Ttls,       \* the ttlMs it passes
          CanFail,    \* may exchanges fail and handlers be lost?
          MaxTime     \* bound: the clock stops here

ASSUME CeremonyAssumption ==
    /\ Null \notin Nonces
    /\ Ttls \subseteq Int
    /\ CanFail \in BOOLEAN
    /\ MaxTime \in Nat

VARIABLES clock,      \* new Date()
          secret,     \* the secret the host has deployed
          states,     \* the states created so far, by their nonces
          cookie,     \* the nonce of the state in each browser's cookie
          codes,      \* the codes issued so far
          request,    \* what each callback's handler is about to do
          closed,     \* history: states whose ceremony a browser saw end
          proven      \* history: the identities handed to the host

vars == <<clock, secret, states, cookie, codes, request, closed, proven>>

\* A signed payload, with the intent in it, which nobody tells apart here.
\* `browser' is history: who was given it.
State == [expiresAt : Nat, secret : Secrets, browser : Browsers]

\* A code is bound to the account that consented, and exchanged once.
Code == [state : Nonces, account : GoogleAccounts, used : BOOLEAN]

Idle == [op |-> "idle"]

\* A callback, with the cookie that was sent along.  `late' is history: its
\* browser had seen the ceremony end before it sent this.
Callback == [op : {"check", "exchange", "verify", "done"},
             browser : Browsers, code : Codes, state : Nonces \cup {Null},
             cookie : Nonces \cup {Null}, late : BOOLEAN]

-----------------------------------------------------------------------------
(* The library's two functions.                                            *)

\* createOAuthState.
NewState(ttl, b) ==
    [expiresAt |-> clock + ttl, secret |-> secret, browser |-> b]

\* verifyOAuthState: signed with the secret of today, and not yet expired.
VerifyOAuthState(n) ==
    /\ n \in DOMAIN states
    /\ states[n].secret = secret
    /\ states[n].expiresAt > clock

RequireAnyCookie(callbackState, cookieState) ==
    /\ callbackState # Null
    /\ cookieState # Null
    /\ VerifyOAuthState(callbackState)

RequireMatchIfCookie(callbackState, cookieState) ==
    /\ callbackState # Null
    /\ cookieState \in {Null, callbackState}
    /\ VerifyOAuthState(callbackState)

\* requireSameBrowserOAuthState.
RequireSameBrowser(callbackState, cookieState) ==
    /\ callbackState # Null
    /\ cookieState # Null
    /\ callbackState = cookieState
    /\ VerifyOAuthState(callbackState)

-----------------------------------------------------------------------------
(* The ceremony.                                                           *)

\* The host creates a state and answers with a cookie and a redirection to
\* Google.  The cookie replaces that of a ceremony already under way.
Begin(b) ==
    /\ \E n \in Nonces \ DOMAIN states, ttl \in Ttls :
        /\ ttl > 0
        /\ states' = [x \in DOMAIN states \cup {n} |->
                        IF x = n THEN NewState(ttl, b) ELSE states[x]]
        /\ cookie' = [cookie EXCEPT ![b] = n]
    /\ UNCHANGED <<clock, secret, codes, request, closed, proven>>

\* Google issues a code to whoever consents, and redirects to the callback;
\* a user who goes back may consent again, as somebody else.
Consent ==
    /\ \E code \in Codes \ DOMAIN codes, n \in DOMAIN states,
          g \in GoogleAccounts :
        codes' = [x \in DOMAIN codes \cup {code} |->
                    IF x = code
                    THEN [state |-> n, account |-> g, used |-> FALSE]
                    ELSE codes[x]]
    /\ UNCHANGED <<clock, secret, states, cookie, request, closed, proven>>

\* A browser opens a callback's URL, whole or cut short.
Open(r) ==
    /\ request[r] = Idle
    /\ \E b \in Browsers, code \in DOMAIN codes :
        \E n \in {codes[code].state, Null} :
            request' = [request EXCEPT ![r] =
                [op |-> "check", browser |-> b, code |-> code, state |-> n,
                 cookie |-> cookie[b],
                 late |-> n \in closed /\ states[n].browser = b]]
    /\ UNCHANGED <<clock, secret, states, cookie, codes, closed, proven>>

Move(r, op) == request' = [request EXCEPT ![r].op = op]

\* A rejection is answered at once, and takes no cookie away.
Check(r) ==
    /\ request[r].op = "check"
    /\ IF RequireSameBrowser(request[r].state, request[r].cookie)
       THEN Move(r, "exchange")
       ELSE request' = [request EXCEPT ![r] = Idle]
    /\ UNCHANGED <<clock, secret, states, cookie, codes, closed, proven>>

\* exchangeGoogleAuthorizationCode: the token endpoint takes a code once.
Exchange(r) ==
    /\ request[r].op = "exchange"
    /\ ~codes[request[r].code].used
    /\ codes' = [codes EXCEPT ![request[r].code].used = TRUE]
    /\ Move(r, "verify")
    /\ UNCHANGED <<clock, secret, states, cookie, closed, proven>>

\* The endpoint's answer is no, or holds no ID token, or never comes; or the
\* verifier rejects the ID token.
ExchangeFails(r) ==
    /\ \/ request[r].op = "exchange" /\ codes[request[r].code].used
       \/ request[r].op \in {"exchange", "verify"} /\ CanFail
    /\ Move(r, "done")
    /\ UNCHANGED <<clock, secret, states, cookie, codes, closed, proven>>

\* The verifier returns claims.
Verify(r) ==
    /\ request[r].op = "verify"
    /\ \E claims \in VerifierAnswers[codes[request[r].code].account] :
        proven' = IF IsRefused(claims) THEN proven
                  ELSE proven \cup
                    {[account |-> codes[request[r].code].account,
                      identity |-> ExternalIdentity(claims)]}
    /\ Move(r, "done")
    /\ UNCHANGED <<clock, secret, states, cookie, codes, closed>>

\* The answer reaches the browser and takes the cookie away, whichever
\* ceremony's it is by then.
Answer(r) ==
    /\ request[r].op = "done"
    /\ cookie' = [cookie EXCEPT ![request[r].browser] = Null]
    /\ closed' = closed \cup {request[r].state}
    /\ request' = [request EXCEPT ![r] = Idle]
    /\ UNCHANGED <<clock, secret, states, codes, proven>>

\* The handler or its connection is lost; the browser keeps its cookie.
Lose(r) ==
    /\ CanFail
    /\ request[r] # Idle
    /\ request' = [request EXCEPT ![r] = Idle]
    /\ UNCHANGED <<clock, secret, states, cookie, codes, closed, proven>>

\* A deployment with another secret.
Redeploy ==
    /\ secret' \in Secrets \ {secret}
    /\ UNCHANGED <<clock, states, cookie, codes, request, closed, proven>>

Tick ==
    /\ clock < MaxTime
    /\ clock' = clock + 1
    /\ UNCHANGED <<secret, states, cookie, codes, request, closed, proven>>

-----------------------------------------------------------------------------
Init ==
    /\ clock = 0
    /\ secret \in Secrets
    /\ states = [n \in {} |-> Null]
    /\ cookie = [b \in Browsers |-> Null]
    /\ codes = [k \in {} |-> Null]
    /\ request = [r \in Requests |-> Idle]
    /\ closed = {}
    /\ proven = {}

Handle(r) ==
    \/ Open(r)
    \/ Check(r)
    \/ Exchange(r)
    \/ ExchangeFails(r)
    \/ Verify(r)
    \/ Answer(r)
    \/ Lose(r)

Next ==
    \/ \E b \in Browsers : Begin(b)
    \/ Consent
    \/ \E r \in Requests : Handle(r)
    \/ Redeploy
    \/ Tick

Spec == Init /\ [][Next]_vars

-----------------------------------------------------------------------------
(* What a ceremony promises.                                               *)

\* States, codes and callbacks are what they are said to be, and what the host
\* is handed is an identity with a subject under the one canonical issuer.
TypeOK ==
    /\ clock \in Nat
    /\ secret \in Secrets
    /\ DOMAIN states \subseteq Nonces
    /\ states \in [DOMAIN states -> State]
    /\ cookie \in [Browsers -> DOMAIN states \cup {Null}]
    /\ DOMAIN codes \subseteq Codes
    /\ codes \in [DOMAIN codes -> Code]
    /\ request \in [Requests -> {Idle} \cup Callback]
    /\ closed \subseteq DOMAIN states
    /\ proven \subseteq [account : GoogleAccounts, identity : Identity]

\* Handlers that have accepted a callback and not answered it.
Accepted(r) == request[r].op \in {"exchange", "verify", "done"}

\* However ceremonies overlap and wherever their URLs are opened, a callback is
\* accepted only from the browser in which its ceremony began.
AcceptedWhereBegun ==
    \A r \in Requests : Accepted(r) =>
        /\ request[r].state \in DOMAIN states
        /\ states[request[r].state].browser = request[r].browser

\* A state is good until it expires, and nothing marks it as used: what ends a
\* ceremony is that its browser loses the cookie.  A callback sent after the
\* browser saw its ceremony end is never accepted, though the state is still
\* signed and fresh and other ceremonies have set other cookies since.
ClosedCeremoniesStayClosed ==
    \A r \in Requests : Accepted(r) => ~request[r].late

\* A Google account is one identity, in whichever spelling its claims come: the
\* engine, which knows accounts by issuer and subject, meets no second one.
OneIdentityPerGoogleAccount ==
    \A p, q \in proven : p.account = q.account => p.identity = q.identity

\* An identity is `hosted', which lets it claim a local account by address,
\* only if Google hosts the mailbox now: the account is a Workspace account or
\* the mailbox is Gmail's, and Google has verified it.
HostedMeansHosted ==
    \A p \in proven :
        LET profile == Profile[p.account]
        IN  p.identity.emailAuthority = "hosted" =>
                /\ profile.verified
                /\ p.identity.email = profile.mailbox
                /\ profile.workspace \/ profile.mailbox \in GmailBoxes

=============================================================================
