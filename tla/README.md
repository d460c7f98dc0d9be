# A verified model of auth-kit

TLA+ modules of the stateful protocols of `@andrewpopov/auth-kit`, the TLC
configurations that check them on small instances, and theorems about them
that TLAPS checks for every value of their constants. File names such as
`src/index.ts` are relative to the repository.

## The system

auth-kit is a library. It keeps no process and no database: a host's request
handlers call its functions, and they call a *store port* that the host
implements over its own database. What the library owns is the algorithm, and
the ports' documentation says which operation a store must execute in one
transaction. `createMemory...Store` are the reference implementations. So the
concurrency is between handlers: each runs up to an `await`, the store executes
what it was asked, and before, between and after that other handlers run, time
passes, and a handler or its connection may be lost.

| Component | State | Operations | What is hard | What makes it correct |
| --- | --- | --- | --- | --- |
| refresh sessions, `src/index.ts` | rows: family, user, expiry, `revokedAt`, `replacedById` | `createRefreshToken`, `rotateRefreshToken`, `revokeRefreshToken`; the port's `createSession`, `findByHash`, `rotate`, `revokeFamily`, `revokeAllForUser` | rotations of one token racing, the grace window, a logout in two calls, `now` read before the store acts, lost answers | no dead login comes back; an answer `reuse` or a logout can be relied on; no replay of a spent token is missed and no lost answer is taken for theft; rows form one lineage per login; strict callers have one live token |
| auth epoch, `src/index.ts` | an instant per user | `getEpoch`, `bumpEpoch`, `isEpochValid` | bumps in one millisecond; bump, sweep, login, rotation and minting in any order | strictly increasing; access tokens minted before a bump are invalid after it |
| single-use tokens, `src/single-use-token.ts` | rows: purpose, subject, expiry, `consumedAt` | `issueSingleUseToken`, `redeemSingleUseToken`; the port's `issue`, `consume`, `invalidateAllFor` | redemptions racing each other and withdrawals; precedence of the refusals; adapters with more than one query | one redemption, none after a withdrawal; losers learn the right reason and nothing else |
| external identity, `src/identity.ts` | the host's accounts and their (issuer, subject) bindings | `resolveExternalIdentity`, `linkExternalIdentity`; the port's find, bind, claim and provision | accounts read, policies awaited, then one atomic bind, claim or provision; lost races looked up again | answers are true when they arrive; an identity never moves; with an adapter that rechecks, no claim of an account that is disabled, verified or has credentials |
| OAuth state and PKCE, `src/oidc.ts` | none: a signed value in the browser's cookie | `createOAuthState`, `verifyOAuthState`, `requireSameBrowserOAuthState`, `createPkcePair` | the callback of one browser in another, expiry, replay | a callback is accepted only in the browser that began it, and not after that browser saw the ceremony end |
| Google mapping, `src/oidc.ts` | none | `googleEmailAuthority`, `externalIdentityFromVerifiedGoogleClaims`, `exchangeGoogleAuthorizationCode` | claims spelled in many ways | one identity per account; `hosted` only where Google hosts the address |
| password hasher, `src/index.ts` | a cached dummy hash | `hash`, `verify`, `dummyHash` | nothing concurrent | the hash verifies |
| opaque tokens, `src/opaque-token.ts` | none | generate, hash, verify | cryptography | distinct tokens have distinct digests |
| policy checks, `src/policy.ts` | none | ttl, grace and cost are in range | boundaries | refused before anything is stored |
| conformance suites, `src/conformance.ts` | none | thirty tests for adapters of the three ports | they race calls and must judge whatever order came | no test fails a correct adapter; a double win fails its test |

Components interact through the host: a login creates a session and mints an
access token with the user's epoch; a refresh rotates and mints again; a
password reset redeems a single-use token, sets the password, sweeps the user's
sessions and bumps the epoch; an OAuth callback checks the state, maps the
claims, resolves the identity and then logs in.

## The modules

| Module | Contents |
| --- | --- |
| `RefreshStore` | the rows and the memory store's operations on them, as operators |
| `RefreshSession` | handlers, store, clients and clock around those rows; the properties |
| `SessionLedger` | the abstract specification: tokens unissued, live, spent; families that end |
| `RefreshSessionMC` | what TLC needs: symmetry |
| `AccessEpoch`, `AccessEpochMC` | epochs and access tokens, composed with `RefreshSession` |
| `RefreshSessionProofs` | the theorems on `RefreshSession`, that it implements `SessionLedger`, and on top of them those on `AccessEpoch` |
| `SessionLedgerProofs` | what the ledger itself guarantees |
| `SingleUseStore` | the single-use rows, as operators |
| `SingleUseToken` | issue, redeem and withdraw over the store port's atomic operations |
| `ConsumeAdapter` | the port's `consume` as two queries; refines `SingleUseToken` |
| `SingleUseTokenMC`, `ConsumeAdapterMC` | symmetry |
| `SingleUseTokenProofs` | theorems on both, and the refinement |
| `IdentityStore` | accounts and bindings, and what an adapter decides, as operators |
| `ExternalIdentity`, `ExternalIdentityMC` | resolving and linking by concurrent handlers |
| `IdentityRegistry` | the abstract specification: provision, claim and bind in one step each |
| `ExternalIdentityProofs` | the theorems, and that the engine implements the registry |
| `GoogleIdentity` | what the claims of an ID token are turned into, as operators |
| `OAuthCeremony`, `OAuthCeremonyMC` | browsers, cookies, callbacks and codes around it |
| `OAuthCeremonyProofs` | the theorems on it |
| `Conformance`, `ConformanceMC` | the three suites, run against an atomic and a racy adapter |
| `ConformanceProofs` | their types and names; a race that passed had a loser |
| `ConformanceScriptProofs` | the invariant of the verdicts, and what each test makes of the tables, call by call |
| `ConformanceVerdictProofs` | a test fails for a cause, and a win on stale rows is found |

`Conformance` instantiates the three stores, `RefreshStore`, `SingleUseStore`
and `IdentityStore`: the tests judge the same operators that the protocols run
on.

### Refresh sessions

`sessions` is the memory store's map. A *token* stands for the values one call
draws together: the row's id, the raw token, and its SHA-256 digest. `crypto`
never draws a value twice, so a draw is any token that is neither in the store
nor about to be stored (`Fresh`). A presented value the library never issued is
`Garbage`. `held` is the set of raw tokens that have ever reached a client:
clients keep old ones, so any of them may be presented at any time, by anyone.

`call[c]` is where handler `c` is. Its code is cut at the awaits:

- `BeginLogin`, `BeginRotate`, `BeginLogout`, `BeginUserKill`: from the call
  to the await of the store. `rotateRefreshToken` reads `now` here; the store
  later decides by that value while the clock has moved on. The checks of
  `src/policy.ts` are the guards `ttl > 0` and `graceMs >= 0`.
- `StoreCreate`, `RotateNotFound`, `RotateExpired`, `RotateWins`,
  `RotateBenign`, `RotateReuse`, `LogoutFinds`, `LogoutFindsNothing`,
  `StoreKillFamily`, `StoreKillUser`: the store's transactions, one action for
  each branch of the code. `rotate` is atomic as the port demands, and as the
  memory store is; a logout is two transactions with a gap between them.
- `Deliver`: the answer reaches the client. `Crash`: the handler or its
  connection is lost, with or without its transaction committed. `Tick`.

Hosts may pass `options.familyId`. The families they may name are
`SuppliedFamilies`; a login into one of them joins whatever is there, dead
sessions and other users' rows included. Most properties speak of the other
families, the `Generated` ones, and the models let both kinds occur.

Abstracted: the clock is one for hosts and store, and a supplied `now` is the
clock; rows of the memory store keep the caller's `Date` objects, which a
caller could mutate, and the models hold values; integers of JavaScript dates
are far below 2^53 and are `Nat`.

### The ledger

`SessionLedger` says what all this is for, without store, calls or clocks:
tokens are issued into new logins, exchanged once, joined by a sibling *while
the login lives*, and closed, a login at a time as a whole. `RefreshSession`
implements it under the mapping that forgets everything of a row but its family
and whether it is revoked (`LedgerStatus`, `LedgerFamily`). Rotation, benign
race and kill of the code are `Rotate`, `Join` and `Close`; a sweep of a user
closes all logins of that user.

### Access epochs

`AccessEpoch` extends `RefreshSession` by the second call of each request, in
the order of `README.md:276-294`: a login or refresh whose session is stored
goes on to read the epoch and sign it into an access token (`Mint`); a
logout-everywhere whose sweep has run goes on to `Bump`. `StoreActs` is the
store's transaction of `RefreshSession` with what it leaves to do (`todo[c]`);
only then does `Finish` deliver the answer, and `Lose` may come in between.
`bumpEpoch` reads the clock of the machine it runs on, so its `now` is any of
`BumpClocks`, behind the stored epoch included. Access tokens are in no store:
`minted` is the set of those signed, and `IsEpochValid` all that revokes them.

What the two promises of the documentation amount to is `OnlyInFlightSurvive`:
after an answered logout-everywhere no refresh token of a swept login works, and
an access token only if its session had been stored before the bump and its
epoch was read after it.
That gap is there: a refresh under way through both calls. `isEpochValid`'s
branch for a `null` epoch is left out; the memory store never returns `null`.

### Single-use tokens

`SingleUseToken` has the same shape as `RefreshSession`. `settled` is a history
variable: the tokens that were redeemed or that an invalidation covered.
`ConsumeAdapter` replaces the atomic `consume` by what
`src/single-use-token.ts:82` describes to implementors: a conditional `UPDATE`
and, when no row came back, a re-read that selects the label. It is host code,
so it is modelled from that contract. To the outside a handler between the
queries still awaits the store (`OutsideView`): a winner's `consume` takes
effect at the `UPDATE`, a loser's at the re-read. What makes that work is
`MissIsFinal`: a token that an `UPDATE` missed cannot become redeemable for the
same `now`, because rows keep their purpose and expiry, retirement is final, and
garbage never gets a row. An adapter that compared expiry with the database's
clock in one query and with the caller's in the other would break it.

### External identity

`accounts` is the host's user table as far as the engine sees it, `owner` the
account of each (issuer, subject). `HostWrites` is everything else that happens
to the table: sign-up, deactivation, an address verified or changed, a password
set. There is no deletion of accounts; the port's documentation has none.

`call[c].op` names the await a handler is at: `findByIdentity`, `findByEmail`,
`claim`, `provision` and `findWinner` of `resolveExternalIdentity`; `findById`,
`findOwner` and `bind` of `linkExternalIdentity`; then `audit`, where the answer
passes the sink, and `reply`. One action per await and result. The policy's
hooks are awaited between two of these and answer as they please, so each is a
free choice made with the read before it; the operation after it may be as late
as it likes anyway.

The repository ships no identity store. Its tests keep two in memory that look
at different things before they write, and the port's documentation asks for
more than either. `Rechecks` says which columns an adapter's `bind` and `claim`
look at again, atomically: `{}` and `{"credentials"}` are the test stores, all
four what the port asks. `AnswersTrue`, `BindingReportedOnce` and
`IdentityNeverMoves` need none of them; nor does `NoAccountTaken`, which says by
which two ways an existing account gets an identity and of whom; that the engine
`ImplementsRegistry` needs all. The engine itself never asks whether an account
already has an identity: whether it can get a second one is the adapter's
answer, and no property is made of it.

A link is asked for any account id: one of the host's sign-up, one that was
provisioned here and links a second identity, or one that nobody has.

The email address is data with a spelling: `Normal` is `trim().toLowerCase()`,
and `Null` stands for what is blank. `emailAuthority` has a value `"other"` for
what the types do not allow but a JavaScript caller may pass. Events of refusals
are not kept in the trail, since no property speaks of them.

### OAuth and Google

No server remembers a state, so `OAuthCeremony` is about who holds what: a
browser's one `cookie`, the `states` ever created, the `codes` Google issued
and the callbacks on their way. A signed state is a record under its nonce, with
the secret that signed it; a secret that is replaced (`Redeploy`) ends every
state. `Open` is a browser following a callback URL, its own or one that was
copied, whole or without its `state`; the cookie sent along is the one it has at
that moment. `Check` is `requireSameBrowserOAuthState`, `Exchange` and
`ExchangeFails` the code exchange, `Verify` the verifier's claims and their
mapping, `Answer` the response that clears the cookie.

A state is good until it expires, and nothing marks it as used. What ends a
ceremony is that the browser loses the cookie, and that is what
`ClosedCeremoniesStayClosed` rests on: hosts that do not clear the cookie with
the callback's answer do not have it.

`GoogleIdentity` has the claims in every form the mapping distinguishes
(`VerifierAnswers`): the issuer with and without scheme, a wrong audience, no
subject, `email_verified` as Boolean or string, `hd` missing, blank, of another
type or a domain, and an address in two spellings. One account's claims may come
differently each time.

### The conformance suites

`Conformance` runs the thirty tests of `src/conformance.ts` against an adapter
that is atomic and one that reads, decides, and writes in a second step what it
decided. Which of the two it is, with which options a suite is called
(`NotANumber` is `NaN`), and in what order tests run and calls are served, are
choices. A test is a sequence of phases (`Script`), one per `await`: the calls
made together, and the answers its `expect`s let pass; `EveryRound` repeats the
phases of a round. The adapter's operations are the operators of the three
stores.
`stale` records that a call won on rows that had been changed since it read
them, which is what the suites are there to find.

The single-use suite refuses options under which its races race nobody. The
other two suites do not, which is why `FailuresAreEarned` excepts
`Concurrency = 0` and `PassedRacesHadLosers` speaks of the single-use tests.
Tests of the identity suite bind one fixed subject in every test, so each starts
with an empty database here; over one that is not emptied the second would fail.

## The runs

All of them check deadlock: handlers can always begin something or end what
they began, and a suite that is over rests (`Rest`).

| Run | Question | Bounds |
| --- | --- | --- |
| `refresh_races` | do dead logins stay dead, verdicts hold and replays get the right answer when two handlers race? | 2 handlers, 4 tokens (a login and three successors or siblings), time 0..2 with ttls 1 and 2 and grace 0 and 1, so that tokens and grace windows end while calls are in flight; losses at every await |
| `refresh_families` | do logins stay apart, do kills hit only whom they are for, and has a login one working token when every caller is strict? | 2 users, one drawn and one supplied family, 3 tokens, grace 0 |
| `refresh_logout` | is it the ledger, and does a logout end its session? | 2 handlers, 3 tokens, grace 0 and 1, no losses, fair store |
| `access_epoch` | what do a bump and a logout-everywhere end? | 2 handlers, 2 logins of 3 tokens together, 2 bumps that read a clock behind, level or ahead, time to expire, losses |
| `single_use` | single use, right labels, final retirement? | 3 handlers (two that redeem and one that withdraws), 2 tokens, 2 purposes, time 0..2 |
| `consume_adapter` | are two queries one atomic consume? | 2 handlers, 2 tokens, 2 purposes, losses |
| `identity_engine` | are answers true, do bindings stay, and is it the registry? | 2 handlers, 1 account of the host and 1 to be provisioned, either of which links, 2 identities under one address in two spellings, host rows that are a placeholder, one with a password, one whose address was verified, and a disabled one with another address; failing sinks and handlers |
| `oauth` | where and for how long are callbacks accepted, and what comes out? | 2 browsers, 2 ceremonies, 2 codes, 2 callbacks at once, expiry, one other secret; 3 Google accounts: another provider's address, unverified Gmail, Workspace |
| `conformance` | do the suites' verdicts mean what they say? | every test, alone and after each other test of its suite, five ways of calling them; 2 or 3 racing calls, 1 or 2 rounds |
| `doc_logout_noop`, `doc_two_tabs`, `doc_disabled_bound` | does the code do what these comments say? | the least that shows it does not |

Bounds are the constant sets and `MaxTime`, `MaxBumps`, `MaxRuns` and
`MaxRounds`, where the clock, the bumps, the tests and the repetitions of a race
stop; nothing else is cut.

- Four refresh tokens let a rotated token be replayed, its sibling rotated and
  the replay repeated; a fifth adds length and no new kind of step, since the
  code looks at one row, its replacement and its family.
- Two bumps are what it takes for one to land in the other's millisecond, or
  behind it. Three tokens are a login, a refresh and its replay as a sibling,
  which is every way to have an access token minted for a swept login; or they
  are two logins, one of which commits after the sweep, before the bump or after.
- In `identity_engine` two handlers are every race the store decides: one bind,
  claim or provision against another, or against the host. A third could only
  lose to the winner of the first two. There is one id to provision: a second
  provisioning waits until its handler is lost, so that two accounts provisioned
  under one address are left to the theorems. Handlers and sinks fail in this
  run, so that it checks of `BindingReportedOnce` that nothing is reported twice
  or wrongly; that every binding is reported when nothing fails is shown by
  `ReportedOnce`.
- In `oauth` two callbacks and two ceremonies are a replay, a copy in the other
  browser, and the second tab that replaces the first one's cookie.
- In `conformance` the default grace window is one instant, a token's lifetime
  three. A race of two is enough for a double win; three tell "exactly
  one" from "not all". Two tests over one database are enough for one to find
  what another left.

Tokens, handlers, users, purposes, browsers and the like are symmetric: no
property names one. `refresh_logout` uses no symmetry, since it checks liveness.

*Fairness.* `FairSpec` assumes weak fairness of each handler's store
transactions: a query that was sent returns. It assumes nothing of clients,
clocks or losses. `LogoutEndsSession` is checked with losses off: a handler that
dies between its two calls has ended nothing, and the client sees no answer.
Nothing of the kind is claimed of OAuth callbacks: the exchange is a `fetch`
without a timeout, and may wait for ever.

Each property has a mutant of the code, named in `PROJECT.json`, that a run
finds to violate it. The mutated definitions stand before the ones they mutate,
named after them with a word for the slip (`WithinGraceOpenAtZero`).

### What the code's comments say otherwise

Three runs expect a violation:

- `doc_logout_noop`: logging out with an already rotated token revokes the whole
  family, so the live session ends. The comment on `revokeRefreshToken`
  (`src/index.ts:359`) calls that a no-op. It is one for garbage only.
- `doc_two_tabs`: of two tabs within the window, the one that read its clock
  first but reached the store second has a negative age, is answered `reuse`,
  and the family is killed; the comment on `DEFAULT_ROTATION_GRACE_MS`
  (`src/index.ts:241`) says such presentations are benign.
- `doc_disabled_bound`: `linkExternalIdentity` reads that the account is
  enabled, the host disables it, and `bindExternalIdentity` of the repository's
  own stores binds it without looking again; `src/identity.ts:40` says that
  disabled accounts never receive a binding. `"enabled"` in `Rechecks` is what
  an adapter needs; the conformance suite does not ask for it.

A few more comments are looser than the code, in ways the models show but no
run is spent on: a token that was rotated *and* has expired is `reuse`, not
`invalid` (`src/index.ts:292`); whether `bind` refuses an account that has
another identity (`src/identity.ts:70`) is up to the adapter, and the test
stores do not; what the smoke test of `src/conformance.ts` says the test before
it "actually gates" is what that test says it cannot catch directly.

## The proofs

Everything below holds for every set of tokens, families, users, handlers,
purposes, subjects, accounts, identities, host rows, browsers and Google
accounts, all ttls and grace windows, every adapter's `Rechecks`, all readings
of the bumping machines' clocks, and any bound of the clock.
The assumptions are those on the constants: `Null` and `Garbage` are none of
the other values, ttls and graces are integers, supplied families are families.

*Refresh sessions.* The inductive invariant is
`IInv == TypeOK /\ CallsConsistent /\ SessionLineage`. None of the three is
inductive alone. `TypeOK` says that clients hold tokens with rows, for which the
answers on their way must (`AnswersStored`); that needs draws to be fresh
(`DrawsFresh`) or an insert would overwrite a row; and the lineage needs both,
plus `FamiliesFresh`, or a login would join another user's drawn family. On it
rest

- `NoResurrection`: the only step that adds a live row beside revoked ones is
  the benign race, and the replacement it looked at is live and, by the lineage,
  of the same family;
- `VerdictsHold`: from `NoResurrection` and `LogoutOnTarget`, what a logout read
  before its gap is still right after it;
- `ReplaysAreSeen`: a retired row is judged before its expiry is looked at, so
  its token is never merely invalid, and it kills the login unless the caller's
  clock is in the window;
- `LostAnswersAreForgiven`, for which `IInv` is too weak. `HInv` adds that only a
  token in somebody's hands is replaced (`ReplacedHeld`), and that a row revoked
  without a replacement was killed with its whole login (`KilledWithLogin`). So
  the replacement that nobody has seen is live unless the login is dead, and the
  retry is a benign race;
- `RevocationOnce`, `NoRefreshOfADeadLogin`, `KillsAreAttributable`, the other
  action properties of the runs, and `StrictLogins`, which assumes `Graces \subseteq
  {0}` and needs that a rotation retires the only live row before it adds one;
- `SessionsImplementLedger`: each transaction is a step of the ledger or none.
  The sweep of a user closes whole logins because a drawn family has one user.

The proofs work with three predicates, `Inserted`, `Replaced` and `Killed`,
that say what a change of the rows does; each action has a lemma that gives its
effect in these terms, and the proofs of the properties look no deeper.

*Ledger.* `EndedForEver`: a login that has ended stays ended.

*Single-use tokens.* `IInv == TypeOK /\ CallsConsistent`, where the part
`SettledRetired` links the history to the rows. `RedeemedOnce`,
`LosersAreToldWhy`, `RetiredForEver`. For the adapter, `AdapterIInv` adds
`MissIsFinal` and that what is re-read was known; `AdapterImplementsConsume` is
the refinement. Its lemmas reuse those on the atomic consume, which are stated
for any set of handler states that includes the atomic ones. So do
`AdapterRedeemsOnce` and `AdapterRetiresForEver`, which say of the adapter's own
rows and answers what `SingleUse` and `RetirementIsFinal` say of the port's.

*Access epochs.* `SessionsInside` shows `EpochSpec => Spec`, so that all that
was proved of the sessions holds here. `ValidToTheBump` rests on `BumpsCount`,
that epochs and the history's counts of bumps move together, which is
`NextEpoch` being above what is stored whatever the clock says. `OnlyInFlight`
rests on `EInv`: swept logins are dead (`SweptAreDead`) and, once bumped,
`Settled`, that is, every token of theirs that is valid or about to be signed
was stored before the bump. They stay so because nothing mints for a dead login
(`AfterStoreIs`) and dead logins stay dead (`DeadStep`, from the sessions).

*External identity.* `IInv` is `TypeOK` and, for each handler, `Knows`: what its
place in the code says about the store, such as that whoever looks for a winner
will find the identity bound. The argument is rely-guarantee: every step of
anybody only lets bindings grow (`Growth`), knowledge survives growth
(`KnowledgeKept`), and each step leaves its own handler with true knowledge (one
lemma per action). From it `AnswersAreTrue` and `IdentityStays`; `ReportedOnce`
adds that what is reported is bound; and, under all four rechecks, `EngineImplementsRegistry`: the rows that
a handler judged long ago do not show, because the store judges again. Every
binding names its key's handler (`BindingTakes`), which gives
`NobodyTakesAnAccount`.

*OAuth.* `IInv` adds to the types that a browser holds no cookie but of its own
ceremonies and none of a ceremony it saw end (`CookiesAreOwn`), that a callback
carries a cookie its browser had and, once accepted, the cookie of its state
(`Carried`), and that every identity was read off claims for its account. It
gives `OnlyWhereBegun` and `OverIsOver`. `SpellingIsNothing` says that claims of
one account make one identity, however they are spelled: `OneIdentityEach` and
`HostedIsHosted`.

*Conformance suites.* `Shape` is the invariant: the tables are typed, every call
is one of its phase's calls with the time it was asked at, and rows are named by
draws of tests already begun, which is why a draw of the present test is new. It
gives `ConformanceTyped`. `LoserInv` adds what the calls answered so far say of
`lost`; with `WinnerCount`, that a count of one is a unique winner, it gives
`RacesHaveLosers` for any number of racing calls and rounds.

`FailuresHaveCauses` and `StaleWinsAreFound` say that the suites judge rightly,
for any number of racing calls and rounds, whatever tests ran before and
whatever order calls are served in. A verdict depends on what the tables held
when each of the thirty tests' phases began, so the invariant, `Told`, says it:

- `Holds` is what a test has made of the tables when phase `k` begins: which of
  its tokens are live, swapped, killed or used, which accounts are bound. In
  the refresh and single-use suites it is about the test's own names only, since
  rows of earlier tests remain, and it stays true as the clock moves within the
  test.
- `Story`, while no call has won on stale rows: until a phase's first answer the
  tables are as the phase found them, and from then on as the next one will
  (`FirstDecides`), which is why exactly one call of a race wins; what has been
  answered is what the `expect`s let pass (`AnswersFit`). The one phase that is
  not decided by its first call is the replay that races `revokeFamily`:
  `DefectTale` follows both orders.
- `Doomed`, once one has: the race has a second winner, or the rotation survived
  the revocation of its family (`Survived`), and neither is undone before the
  phase is judged. Only the smoke test can pass, as its comment admits.

`ConformanceScriptProofs` has one lemma per test (`StoryOf...`): a call made at
phase `k`, on tables of which `Holds` is true, is answered as expected and makes
`Holds` true for `k + 1`. `ConformanceVerdictProofs` has those of the races
(`RaceTurns`: the first call wins and every later one on fresh rows loses), that
every step keeps `Told` (`ToldStep`), and the two theorems. `AtomicAdaptersPass`
is what a host reads off them: an adapter whose calls are atomic wins on no stale
rows (`AtomicIsFresh`), so no suite fails it unless it was asked to race nobody.

*Model-checked only.* `LogoutEndsSession`, since liveness under fairness is out
of TLAPS's reach. The three violations, of course. Every other property of a run
is stated by a theorem.

## Not modelled

- The password hasher: an injected bcrypt and a write-once cache filled without
  an `await`. Of the policy checks, that of the bcrypt cost.
- Random source, SHA-256 and HMAC: a token or state stands for what they return,
  never drawn twice and never forged.
- PKCE, the authorization URL, and the intent inside the state: the first is
  passed through to Google, which compares it, the second is formatting, and
  what a host does with the third is not in this repository. Names and pictures
  of the claims.
- The resend flow of `README.md`, "Replace-on-issue", as a composition of
  `invalidateAllFor` and `issue`: both are in `SingleUseToken`, in any order and
  with losses between them; the two-call flow itself is the host's.
- Mutable `Date` objects that a caller shares with the memory store.
- Deletion of accounts, and tables changed behind a port's back.
- The built `dist/` and the release and verification scripts.

The hazards that follow from these are listed in `PROJECT.json` with the reason.
