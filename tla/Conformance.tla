----------------------------- MODULE Conformance -----------------------------
(***************************************************************************)
(* The three conformance suites of src/conformance.ts, run against an      *)
(* adapter of each port: what their tests can tell, and what they cannot.  *)
(*                                                                         *)
(* A test is a sequence of phases.  A phase makes its calls together and   *)
(* waits for all of them (Promise.all); its answers must be among those    *)
(* the test expects.  The adapter is either atomic or reads, decides, and  *)
(* writes in a second step what it decided on the rows it had read: the    *)
(* adapter the suites are there to catch.                                  *)
(*                                                                         *)
(* Tests of the refresh and single-use suites draw all they name, and may  *)
(* share a database, left as the last test left it.  Those of the identity *)
(* suite name fixed accounts and one fixed subject; each starts afresh.    *)
(***************************************************************************)
EXTENDS Integers, FiniteSets

CONSTANTS Adapters,   \* among "atomic" and "readThenWrite"
          Options,    \* the options.concurrency and options.raceRepeats passed
          Grace,      \* DEFAULT_ROTATION_GRACE_MS
          Ttl,        \* TTL_MS and SINGLE_USE_TTL_MS
          MaxTime,    \* bound: the clock stops here
          MaxRuns,    \* bound: how many tests share a database
          MaxRounds,  \* bound: how often a race is repeated
          Null        \* JavaScript's null

\* NaN and the like.
NotANumber == -1

\* Test runners stop a test long before the default window has passed.
ASSUME SuiteAssumption ==
    /\ Adapters \subseteq {"atomic", "readThenWrite"}
    /\ Options \subseteq [concurrency : Nat \cup {NotANumber},
                          raceRepeats : 0 .. MaxRounds \cup {NotANumber}]
    /\ {Grace, Ttl, MaxTime, MaxRuns, MaxRounds} \subseteq Nat
    /\ 0 < Grace /\ MaxTime <= Grace /\ Grace + 1 < Ttl
    /\ 0 < MaxRuns

VARIABLES adapter,    \* which adapter is tested
          options,    \* how the suite was called
          clock,      \* new Date()
          began,      \* the clock when the present test began
          db,         \* the adapter's tables
          run,        \* how many tests have been started
          test,       \* the present one
          phase,      \* which of its phases is on
          jobs,       \* the calls of the phase
          verdict,    \* of the present test
          stale,      \* history: has a call won on rows changed since read?
          lost        \* history: has a racing call of this test not won?

vars == <<adapter, options, clock, began, db, run, test, phase, jobs, verdict,
          stale, lost>>

Elements(n) == IF n = NotANumber THEN 0 ELSE n

Concurrency == Elements(options.concurrency)

Rounds == Elements(options.raceRepeats)

-----------------------------------------------------------------------------
(* Names: a draw is named by the test that made it, the round and its use. *)

Uses == {"issued", "next", "sibling", "other", "third", "r1", "r2", "r3",
         "racer", "unknown"}

Draws == (0 .. MaxRuns) \X Nat \X Uses

Unknown == <<0, 0, "unknown">>

Drawn(round, use) == <<run, round, use>>

It(use) == Drawn(0, use)

\* What the i-th call of a race draws.
Racer(i) == Drawn(i, "racer")

user1 == <<0, 0, "user-1">>

user2 == <<0, 0, "user-2">>

Users == {user1, user2}

Purposes == {"password-reset", "invite"}

Keys == 0 .. MaxRounds

Accounts == {"returning", "credentialed", "placeholder", "race", "claim-race"}
                \X Nat

Emails == Accounts \cup {<<"conformance", 0>>, <<"changed", 0>>}

ASSUME NameAssumption == Null \notin Draws \cup Accounts \cup Emails \cup Nat

Sessions == INSTANCE RefreshStore WITH Tokens <- Draws, Families <- Draws

SingleUse == INSTANCE SingleUseStore WITH
    Tokens <- Draws, Subjects <- Users \cup Draws

Bindings == INSTANCE IdentityStore WITH
    Spellings <- Emails, Normal <- [e \in Emails |-> e],
    Rechecks <- {"unbound", "enabled", "credentials", "email"}

EmptyDb == [sessions |-> [t \in {} |-> Null], tokens |-> [t \in {} |-> Null],
            accounts |-> [a \in {} |-> Null], owner |-> [k \in Keys |-> Null],
            epochs |-> [u \in Users |-> 0]]

-----------------------------------------------------------------------------
(* What a conforming adapter makes of a call, on the tables it sees: the   *)
(* tables afterwards, and its answer.                                      *)

RotateStatus(rows, c) ==
    IF c.old \notin DOMAIN rows THEN "not-found"
    ELSE IF ~Sessions!IsRevoked(rows[c.old])
    THEN IF rows[c.old].expiresAt <= c.now THEN "expired" ELSE "rotated"
    ELSE IF /\ Sessions!WithinGrace(rows, c.old, c.graceMs, c.now)
            /\ Sessions!ReplacementActive(rows, c.old, c.now)
    THEN "benign-race" ELSE "reuse"

RotateRows(rows, c) ==
    LET status == RotateStatus(rows, c)
    IN  CASE status = "rotated" ->
                Sessions!ReplaceRow(rows, c.old, c.as, c.now + Ttl, c.now)
          [] status = "benign-race" ->
                Sessions!InsertSibling(rows, c.old, c.as, c.now + Ttl)
          [] status = "reuse" ->
                Sessions!RevokeRows(rows,
                    Sessions!FamilyRows(rows, rows[c.old].familyId), c.now)
          [] OTHER -> rows

ConsumeStatus(rows, c) ==
    IF c.old \notin DOMAIN rows THEN "not-found"
    ELSE IF rows[c.old].purpose # c.purpose THEN "purpose-mismatch"
    ELSE IF SingleUse!IsRetired(rows[c.old]) THEN "already-consumed"
    ELSE IF rows[c.old].expiresAt <= c.now THEN "expired" ELSE "consumed"

ConsumeRows(rows, c) ==
    IF ConsumeStatus(rows, c) = "consumed"
    THEN SingleUse!Retire(rows, {c.old}, c.now) ELSE rows

IssueRows(rows, c) ==
    IF c.as \in DOMAIN rows THEN rows
    ELSE [t \in DOMAIN rows \cup {c.as} |->
            IF t = c.as
            THEN [purpose |-> c.purpose, subjectId |-> c.subject,
                  expiresAt |-> c.now + Ttl, consumedAt |-> Null]
            ELSE rows[t]]

Refusals(d, c) ==
    IF c.op = "bind"
    THEN Bindings!BindRefusals(d.accounts, d.owner, c.account, c.identity)
    ELSE Bindings!ClaimRefusals(d.accounts, d.owner, c.account, c.identity)

\* resolveExternalIdentity with nobody beside it: what the engine answers, and
\* so what it has bound.
ResolveOutcome(d, identity) ==
    LET found == Bindings!WithEmail(d.accounts,
                                    Bindings!VerifiedEmail(identity))
    IN  IF d.owner[identity.key] # Null THEN "returning"
        ELSE IF found = {} THEN "provisioned"
        ELSE IF \E a \in found :
                    /\ ~d.accounts[a].hasCredentials
                    /\ ~d.accounts[a].emailVerified
        THEN "claimed-placeholder" ELSE "account-exists"

BindTables(d, identity, a) ==
    [d EXCEPT !.owner = Bindings!BindKey(@, identity, a)]

ClaimTables(d, identity, a) ==
    [BindTables(d, identity, a) EXCEPT !.accounts = Bindings!ClaimRow(@, a)]

ResolveTables(d, identity) ==
    IF ResolveOutcome(d, identity) # "claimed-placeholder" THEN d
    ELSE ClaimTables(d, identity, CHOOSE a \in Bindings!WithEmail(d.accounts,
                                    Bindings!VerifiedEmail(identity)) : TRUE)

RowState(rows, t) ==
    IF t \notin DOMAIN rows THEN "absent"
    ELSE IF Sessions!IsRevoked(rows[t]) THEN "revoked" ELSE "live"

NextEpoch(stored) == (IF clock > stored THEN clock ELSE stored) + 1

\* The operations that write.
TablesAfter(d, c) ==
    CASE c.op = "createSession" -> [d EXCEPT !.sessions =
            Sessions!InsertRow(@, c.as, c.as, c.user, c.now + c.ttl)]
      [] c.op = "rotate" -> [d EXCEPT !.sessions = RotateRows(@, c)]
      [] c.op = "revokeFamily" -> [d EXCEPT !.sessions = Sessions!RevokeRows(
            @, Sessions!FamilyRows(@, c.family), clock)]
      [] c.op = "revokeAllForUser" -> [d EXCEPT !.sessions =
            Sessions!RevokeRows(@, Sessions!UserRows(@, c.user), clock)]
      [] c.op = "bumpEpoch" -> [d EXCEPT !.epochs[c.user] = NextEpoch(@)]
      [] c.op = "issue" -> [d EXCEPT !.tokens = IssueRows(@, c)]
      [] c.op = "consume" -> [d EXCEPT !.tokens = ConsumeRows(@, c)]
      [] c.op = "invalidateAllFor" -> [d EXCEPT !.tokens = SingleUse!Retire(
            @, SingleUse!Covered(@, c.subject, c.purpose), clock)]
      [] c.op = "createAccount" -> [d EXCEPT !.accounts =
            Bindings!PutRow(@, c.account, c.row)]
      [] c.op = "bind" /\ Refusals(d, c) = {} ->
            BindTables(d, c.identity, c.account)
      [] c.op = "claim" /\ Refusals(d, c) = {} ->
            ClaimTables(d, c.identity, c.account)
      [] c.op = "resolve" -> ResolveTables(d, c.identity)
      [] OTHER -> d

\* What they say, and the operations that only read.
AnswerOf(d, c) ==
    CASE c.op = "rotate" -> RotateStatus(d.sessions, c)
      [] c.op = "findByHash" -> RowState(d.sessions, c.old)
      [] c.op = "bumpEpoch" -> IF NextEpoch(d.epochs[c.user]) > d.epochs[c.user]
                               THEN "later" ELSE "not later"
      [] c.op = "issue" -> IF c.as \in DOMAIN d.tokens THEN "rejected"
                           ELSE "issued"
      [] c.op = "consume" -> ConsumeStatus(d.tokens, c)
      [] c.op = "bind" -> IF Refusals(d, c) = {} THEN "linked" ELSE "refused"
      [] c.op = "claim" -> IF Refusals(d, c) = {} THEN "claimed" ELSE "refused"
      [] c.op = "resolve" -> ResolveOutcome(d, c.identity)
      [] c.op = "findByIdentity" -> IF d.owner[c.identity.key] = Null
                                    THEN "nobody" ELSE "somebody"
      [] c.op = "findById" -> IF d.accounts[c.account].emailVerified
                              THEN "verified" ELSE "unverified"
      [] OTHER -> "done"

-----------------------------------------------------------------------------
(* The calls tests make, and what they expect.                             *)

\* A `now' that the test leaves to the clock, and one the test computes.
Now == -1

LoginAs(use, user) ==
    [op |-> "createSession", as |-> It(use), user |-> user, ttl |-> Ttl,
     now |-> Now]

Rotate(old, as, graceMs, now) ==
    [op |-> "rotate", old |-> old, as |-> as, graceMs |-> graceMs, now |-> now]

Refresh(old, as) == Rotate(It(old), It(as), Grace, Now)

FindByHash(use) == [op |-> "findByHash", old |-> It(use)]

\* A login's family bears the name of its first token.
RevokeFamily(use) == [op |-> "revokeFamily", family |-> It(use)]

IssueTo(t, subject, purpose, now) ==
    [op |-> "issue", as |-> t, subject |-> subject, purpose |-> purpose,
     now |-> now]

Consume(t, purpose, now) ==
    [op |-> "consume", old |-> t, purpose |-> purpose, now |-> now]

InvalidateAllFor(subject) ==
    [op |-> "invalidateAllFor", subject |-> subject,
     purpose |-> "password-reset"]

conformanceIdentity ==
    [key |-> 0, email |-> <<"conformance", 0>>, emailAuthority |-> "hosted"]

CreateAccount(a, email, verified) ==
    [op |-> "createAccount", account |-> a,
     row |-> [email |-> email, disabled |-> FALSE, hasCredentials |-> verified,
              emailVerified |-> verified]]

\* A call on behalf of an identity; `account' where there is one.
Ask(op, a, identity) == [op |-> op, account |-> a, identity |-> identity]

Together(calls, expected) ==
    [calls |-> calls, expected |-> expected, enough |-> {}]

Alone(c, answers) == Together(<<c>>, {<<answer>> : answer \in answers})

\* The two statuses of the port that the caller calls `rotated', and `invalid'.
Rotated == {"rotated", "benign-race"}

Invalid == {"not-found", "expired"}

Statuses == {"rotated", "benign-race", "reuse", "not-found", "expired",
             "consumed", "already-consumed", "purpose-mismatch", "issued",
             "rejected", "linked", "claimed", "refused", "done"}

Count(answers, answer) ==
    Cardinality({i \in DOMAIN answers : answers[i] = answer})

AtLeastOne(win) ==
    {answers \in [1 .. Concurrency -> Statuses] : Count(answers, win) >= 1}

\* However many parallel calls: exactly one of them wins.
ExactlyOne(win) ==
    {answers \in [1 .. Concurrency -> Statuses] : Count(answers, win) = 1}

InParallel(c(_)) == [i \in 1 .. Concurrency |-> c(i)]

\* The rounds of a repeated race, one after another, n phases each.
EveryRound(n, phases(_)) ==
    [k \in 1 .. n * Rounds |->
        phases(((k - 1) \div n) + 1)[((k - 1) % n) + 1]]

-----------------------------------------------------------------------------
(* runRefreshTokenStoreConformanceTests.                                   *)

StoresTheHash ==
    <<Alone(LoginAs("issued", user1), {"done"}),
      Alone(FindByHash("issued"), {"live", "revoked"})>>

UnknownIsInvalid ==
    <<Alone(Rotate(Unknown, It("next"), Grace, Now), Invalid)>>

ExpiredIsInvalid ==
    <<Alone([LoginAs("issued", user1) EXCEPT !.ttl = 1, !.now = 0],
            {"done"}),
      Alone(Rotate(It("issued"), It("next"), Grace, 2), Invalid)>>

RotateRace ==
    LET Attempt(i) == Rotate(It("issued"), Racer(i), 0, Now)
    IN  <<Alone(LoginAs("issued", user1), {"done"}),
          Together(InParallel(Attempt), ExactlyOne("rotated"))>>

ReplayOutsideWindow ==
    <<Alone(LoginAs("issued", user1), {"done"}),
      Alone(Refresh("issued", "next"), Rotated),
      Alone(Rotate(It("issued"), It("sibling"), 0, Now), {"reuse"}),
      Alone(Refresh("next", "third"), {"reuse"})>>

DefaultIsBenign ==
    <<Alone(LoginAs("issued", user1), {"done"}),
      Alone(Refresh("issued", "next"), Rotated),
      Alone(Refresh("issued", "sibling"), Rotated)>>

\* The replay's `now' is exactly at the window's end, or just past it.
ReplayAfter(age, answers) ==
    <<Alone(LoginAs("issued", user1), {"done"}),
      Alone(Rotate(It("issued"), It("next"), Grace, 0), Rotated),
      Alone(Rotate(It("issued"), It("sibling"), Grace, age), answers)>>

DefaultIsInclusive == ReplayAfter(Grace, Rotated)

DefaultEnds == ReplayAfter(Grace + 1, {"reuse"})

BenignRace ==
    <<Alone(LoginAs("issued", user1), {"done"}),
      Alone(Refresh("issued", "next"), Rotated),
      Alone(Refresh("issued", "sibling"), Rotated),
      Alone(Refresh("next", "third"), Rotated),
      Alone(Refresh("sibling", "other"), Rotated)>>

RevokeFamilyKills ==
    <<Alone(LoginAs("issued", user1), {"done"}),
      Alone(RevokeFamily("issued"), {"done"}),
      Alone(Refresh("issued", "next"), {"reuse"}),
      Alone(RevokeFamily("issued"), {"done"})>>

RevokeAllKills ==
    <<Alone(LoginAs("issued", user1), {"done"}),
      Alone(LoginAs("other", user1), {"done"}),
      Alone(LoginAs("third", user2), {"done"}),
      Alone([op |-> "revokeAllForUser", user |-> user1], {"done"}),
      Alone(Refresh("issued", "r1"), {"reuse"}),
      Alone(Refresh("other", "r2"), {"reuse"}),
      Alone(Refresh("third", "r3"), Rotated)>>

BumpsAdvance ==
    LET Bump == [op |-> "bumpEpoch", user |-> user1]
    IN  <<Alone(Bump, {"later", "not later"}), Alone(Bump, {"later"})>>

\* Only a replay that was let through has a row to look at.
DefectA ==
    LET race == Together(<<Refresh("issued", "sibling"),
                           RevokeFamily("issued")>>,
                         {<<answer, "done">> : answer \in Rotated \cup {"reuse"}})
    IN  <<Alone(LoginAs("issued", user1), {"done"}),
          Alone(Refresh("issued", "next"), Rotated),
          [race EXCEPT !.enough = {<<"reuse", "done">>}],
          Alone(FindByHash("sibling"), {"revoked"})>>

RefreshSuite ==
    [StoresTheHash |-> StoresTheHash,
     UnknownIsInvalid |-> UnknownIsInvalid,
     ExpiredIsInvalid |-> ExpiredIsInvalid, RotateRace |-> RotateRace,
     ReplayOutsideWindow |-> ReplayOutsideWindow,
     DefaultIsBenign |-> DefaultIsBenign,
     DefaultIsInclusive |-> DefaultIsInclusive,
     DefaultEnds |-> DefaultEnds, BenignRace |-> BenignRace,
     RevokeFamilyKills |-> RevokeFamilyKills,
     RevokeAllKills |-> RevokeAllKills, BumpsAdvance |-> BumpsAdvance,
     DefectA |-> DefectA]

-----------------------------------------------------------------------------
(* runExternalIdentityStoreConformanceTests.                               *)

ReturningByKey ==
    LET a == <<"returning", 0>>
        changed == [conformanceIdentity EXCEPT !.email = <<"changed", 0>>]
    IN  <<Alone(CreateAccount(a, a, TRUE), {"done"}),
          Alone(Ask("bind", a, conformanceIdentity), {"linked"}),
          Alone(Ask("resolve", Null, changed), {"returning"})>>

NeverAdopts ==
    LET a == <<"credentialed", 0>>
    IN  <<Alone(CreateAccount(a, conformanceIdentity.email, TRUE), {"done"}),
          Alone(Ask("resolve", Null, conformanceIdentity), {"account-exists"}),
          Alone(Ask("findByIdentity", Null, conformanceIdentity), {"nobody"})>>

ClaimsPlaceholder ==
    LET a == <<"placeholder", 0>>
    IN  <<Alone(CreateAccount(a, conformanceIdentity.email, FALSE), {"done"}),
          Alone(Ask("resolve", Null, conformanceIdentity),
                {"claimed-placeholder"})>>

LinkRace ==
    LET Create(i) == CreateAccount(<<"race", i>>, <<"race", i>>, TRUE)
        Link(i) == Ask("link", <<"race", i>>,
                       [conformanceIdentity EXCEPT !.email = <<"race", i>>])
    IN  <<Together(InParallel(Create), [1 .. Concurrency -> {"done"}]),
          Together(InParallel(Link), ExactlyOne("linked")),
          Alone(Ask("findByIdentity", Null, conformanceIdentity),
                {"somebody"})>>

ClaimRace ==
    LET Round(r) ==
            LET a == <<"claim-race", r>>
                identity == [conformanceIdentity EXCEPT !.key = r, !.email = a]
                Claim(i) == Ask("claim", a, identity)
            IN  <<Alone(CreateAccount(a, a, FALSE), {"done"}),
                  Together(InParallel(Claim), ExactlyOne("claimed")),
                  Alone(Ask("findById", a, identity), {"verified"})>>
    IN  EveryRound(3, Round)

IdentitySuite ==
    [ReturningByKey |-> ReturningByKey, NeverAdopts |-> NeverAdopts,
     ClaimsPlaceholder |-> ClaimsPlaceholder, LinkRace |-> LinkRace,
     ClaimRace |-> ClaimRace]

-----------------------------------------------------------------------------
(* runSingleUseTokenStoreConformanceTests.                                 *)

AcceptsUnlessSmall ==
    /\ options.concurrency = NotANumber \/ options.concurrency >= 2
    /\ options.raceRepeats = NotANumber \/ options.raceRepeats >= 1

\* This suite throws before it registers a test, rather than let one pass that
\* tests nothing; the others have no such check.
AcceptsOptions == options.concurrency >= 2 /\ options.raceRepeats >= 1

Issue(use) == IssueTo(It(use), user1, "password-reset", Now)

Redeem(use) == Consume(It(use), "password-reset", Now)

HappyPath == <<Alone(Issue("issued"), {"issued"}),
               Alone(Redeem("issued"), {"consumed"})>>

UnknownTokenIsInvalid ==
    <<Alone(Consume(Unknown, "password-reset", Now),
            {"not-found", "purpose-mismatch"})>>

ReplayIsConsumed ==
    <<Alone(Issue("issued"), {"issued"}),
      Alone(Redeem("issued"), {"consumed"}),
      Alone(Redeem("issued"), {"already-consumed"})>>

ConsumeRace ==
    LET Round(r) ==
            LET t == Drawn(r, "issued")
                Attempt(i) == Consume(t, "password-reset", Now)
            IN  <<Alone(IssueTo(t, t, "password-reset", Now), {"issued"}),
                  Together(InParallel(Attempt),
                           ExactlyOne("consumed")
                           \cap [1 .. Concurrency ->
                                    {"consumed", "already-consumed"}])>>
    IN  EveryRound(2, Round)

\* Each of these two has a subject of its own.
InvalidatedThenConsumed ==
    <<Alone(IssueTo(It("issued"), It("issued"), "password-reset", Now),
            {"issued"}),
      Alone(InvalidateAllFor(It("issued")), {"done"}),
      Alone(Redeem("issued"), {"already-consumed"})>>

ConsumeInvalidateSmoke ==
    LET Round(r) ==
            LET t == Drawn(r, "issued")
                consume == Consume(t, "password-reset", Now)
            IN  <<Alone(IssueTo(t, t, "password-reset", Now), {"issued"}),
                  Together(<<consume, InvalidateAllFor(t)>>,
                           {"consumed", "already-consumed"} \X {"done"}),
                  Alone(consume, {"already-consumed"})>>
    IN  EveryRound(3, Round)

IssuedAtTheStart ==
    Alone(IssueTo(It("issued"), user1, "password-reset", 0), {"issued"})

ExpiredAt(age) ==
    Alone(Consume(It("issued"), "password-reset", age), {"expired"})

ExpiredStaysExpired ==
    <<IssuedAtTheStart, ExpiredAt(Ttl + 1), ExpiredAt(Ttl + 10)>>

ExpiryIsInclusive == <<IssuedAtTheStart, ExpiredAt(Ttl)>>

PurposeIsolation ==
    <<Alone(Issue("issued"), {"issued"}),
      Alone(Consume(It("issued"), "invite", Now), {"purpose-mismatch"}),
      Alone(Redeem("issued"), {"consumed"})>>

InvalidationIsExact ==
    <<Alone(Issue("issued"), {"issued"}),
      Alone(IssueTo(It("other"), user2, "password-reset", Now), {"issued"}),
      Alone(IssueTo(It("third"), user1, "invite", Now), {"issued"}),
      Alone(InvalidateAllFor(user1), {"done"}),
      Alone(InvalidateAllFor(user1), {"done"}),
      Alone(Redeem("issued"), {"already-consumed"}),
      Alone(Redeem("other"), {"consumed"}),
      Alone(Consume(It("third"), "invite", Now), {"consumed"})>>

DuplicateRejected == <<Alone(Issue("issued"), {"issued"}),
                       Alone(Issue("issued"), {"rejected"})>>

IssueRace ==
    LET Attempt(i) == Issue("issued")
    IN  <<Together(InParallel(Attempt), ExactlyOne("issued"))>>

SingleUseSuite ==
    [HappyPath |-> HappyPath,
     UnknownTokenIsInvalid |-> UnknownTokenIsInvalid,
     ReplayIsConsumed |-> ReplayIsConsumed, ConsumeRace |-> ConsumeRace,
     InvalidatedThenConsumed |-> InvalidatedThenConsumed,
     ConsumeInvalidateSmoke |-> ConsumeInvalidateSmoke,
     ExpiredStaysExpired |-> ExpiredStaysExpired,
     ExpiryIsInclusive |-> ExpiryIsInclusive,
     PurposeIsolation |-> PurposeIsolation,
     InvalidationIsExact |-> InvalidationIsExact,
     DuplicateRejected |-> DuplicateRejected, IssueRace |-> IssueRace]

Script(name) == IF name \in DOMAIN RefreshSuite THEN RefreshSuite[name]
                ELSE IF name \in DOMAIN IdentitySuite THEN IdentitySuite[name]
                ELSE SingleUseSuite[name]

Suites == {DOMAIN RefreshSuite, DOMAIN IdentitySuite, DOMAIN SingleUseSuite}

-----------------------------------------------------------------------------
(* Running a test.                                                         *)

\* A call is asked when its phase begins; that is when it reads its clock.
Asked(c, start) ==
    [stage |-> "asked", seen |-> Null, answer |-> Null,
     call |-> IF "now" \notin DOMAIN c THEN c
              ELSE [c EXCEPT !.now = IF @ = Now THEN clock ELSE start + @]]

Begun(script, k, start) ==
    IF k \notin DOMAIN script THEN <<>>
    ELSE [i \in DOMAIN script[k].calls |-> Asked(script[k].calls[i], start)]

Put(i, stage, seen, answer) ==
    jobs' = [jobs EXCEPT ![i].stage = stage, ![i].seen = seen,
                         ![i].answer = answer]

Wins == {"rotated", "benign-race", "consumed", "issued", "linked", "claimed"}

SplitAlways(c) == c.op \in {"rotate", "consume", "issue", "bind", "claim"}

\* The operations that decide and act, in two steps if the adapter is naive.
Split(c) ==
    /\ adapter = "readThenWrite"
    /\ c.op \in {"rotate", "consume", "issue", "bind", "claim"}

\* The table's rows that a decision on `seen' changes, over the present ones.
MergeTable(present, seen, decided) ==
    [x \in DOMAIN present \cup DOMAIN decided |->
        IF /\ x \in DOMAIN decided
           /\ x \in DOMAIN seen => decided[x] # seen[x]
        THEN decided[x] ELSE present[x]]

Merge(seen, decided) ==
    [table \in DOMAIN db |->
        MergeTable(db[table], seen[table], decided[table])]

Racing == \E i, j \in DOMAIN jobs : i # j

Answered(answer) == lost' = (lost \/ (answer \notin Wins /\ Racing))

\* One transaction.
Serve(i) ==
    LET c == jobs[i].call
    IN  /\ jobs[i].stage = "asked"
        /\ c.op # "link"
        /\ ~Split(c)
        /\ db' = TablesAfter(db, c)
        /\ Put(i, "answered", Null, AnswerOf(db, c))
        /\ Answered(AnswerOf(db, c))
        /\ UNCHANGED <<adapter, options, clock, began, run, test, phase,
                       verdict, stale>>

\* Two of them.
Read(i) ==
    /\ jobs[i].stage = "asked"
    /\ Split(jobs[i].call)
    /\ Put(i, "read", db, Null)
    /\ UNCHANGED <<adapter, options, clock, began, db, run, test, phase,
                   verdict, stale, lost>>

Write(i) ==
    LET c == jobs[i].call
        seen == jobs[i].seen
    IN  /\ jobs[i].stage = "read"
        /\ db' = Merge(seen, TablesAfter(seen, c))
        /\ Put(i, "answered", Null, AnswerOf(seen, c))
        /\ Answered(AnswerOf(seen, c))
        /\ stale' = (stale \/ (seen # db /\ AnswerOf(seen, c) \in Wins))
        /\ UNCHANGED <<adapter, options, clock, began, run, test, phase,
                       verdict>>

\* linkExternalIdentity looks for the identity's owner before it binds.
LinkLooks(i) ==
    LET c == jobs[i].call
    IN  /\ jobs[i].stage = "asked"
        /\ c.op = "link"
        /\ IF db.owner[c.identity.key] = Null
           THEN jobs' = [jobs EXCEPT ![i].call.op = "bind"] /\ UNCHANGED lost
           ELSE Put(i, "answered", Null, "refused") /\ Answered("refused")
        /\ UNCHANGED <<adapter, options, clock, began, db, run, test, phase,
                       verdict, stale>>

PhaseAnswers == [i \in DOMAIN jobs |-> jobs[i].answer]

AsExpected == PhaseAnswers \in Script(test)[phase].expected

IsLast ==
    \/ phase + 1 \notin DOMAIN Script(test)
    \/ PhaseAnswers \in Script(test)[phase].enough

Ends(how) == verdict' = how /\ UNCHANGED <<phase, jobs>>

\* Promise.all resolves, and the test looks at the answers.
Settle ==
    /\ verdict = "running"
    /\ \A i \in DOMAIN jobs : jobs[i].stage = "answered"
    /\ IF phase \notin DOMAIN Script(test) THEN Ends("pass")
       ELSE \/ ~AsExpected /\ Ends("fail")
            \/ AsExpected /\ IsLast /\ Ends("pass")
            \/ /\ AsExpected /\ ~IsLast
               /\ phase' = phase + 1
               /\ jobs' = Begun(Script(test), phase + 1, began)
               /\ UNCHANGED verdict
    /\ UNCHANGED <<adapter, options, clock, began, db, run, test, stale, lost>>

\* The next test of the suite, in any order.
Continue ==
    /\ verdict = "pass" /\ ~stale
    /\ run < MaxRuns
    /\ UNCHANGED <<adapter, options, clock, stale>>
    /\ run' = run + 1
    /\ \E suite \in Suites :
        /\ test \in suite
        /\ test' \in suite
    /\ db' = IF test' \in DOMAIN IdentitySuite THEN EmptyDb ELSE db
    /\ phase' = 1
    /\ began' = clock
    /\ jobs' = Begun(Script(test)', 1, clock)
    /\ verdict' = "running"
    /\ lost' = FALSE

Tick ==
    /\ clock < MaxTime
    /\ clock' = clock + 1
    /\ UNCHANGED <<adapter, options, began, db, run, test, phase, jobs,
                   verdict, stale, lost>>

\* The suite is over.
Rest == verdict # "running" /\ UNCHANGED vars

-----------------------------------------------------------------------------
Init ==
    /\ adapter \in Adapters
    /\ options \in Options
    /\ clock = 0
    /\ began = 0
    /\ db = EmptyDb
    /\ run = 1
    /\ test \in UNION Suites
    /\ phase = 1
    /\ jobs = Begun(Script(test), 1, 0)
    /\ verdict = IF test \in DOMAIN SingleUseSuite /\ ~AcceptsOptions THEN "threw"
                 ELSE "running"
    /\ stale = FALSE
    /\ lost = FALSE

Next ==
    \/ /\ verdict = "running"
       /\ \E i \in DOMAIN jobs : Serve(i) \/ Read(i) \/ Write(i) \/ LinkLooks(i)
    \/ Settle
    \/ Continue
    \/ Tick
    \/ Rest

Spec == Init /\ [][Next]_vars

-----------------------------------------------------------------------------
(* What a suite's verdict is worth.                                        *)

\* The tables hold rows of their ports, and a call is between its two steps
\* only if the adapter has two.
TypeOK ==
    /\ adapter \in Adapters
    /\ options \in Options
    /\ clock \in Nat /\ began \in Nat
    /\ Sessions!TypedRows(db.sessions)
    /\ SingleUse!TypedRows(db.tokens)
    /\ Bindings!TypedStore(db.accounts, db.owner)
    /\ db.epochs \in [Users -> Nat]
    /\ run \in 1 .. MaxRuns
    /\ \A i \in DOMAIN jobs :
        /\ jobs[i].stage \in {"asked", "read", "answered"}
        /\ jobs[i].stage = "read" => adapter = "readThenWrite"
    /\ verdict \in {"running", "pass", "fail", "threw"}
    /\ stale \in BOOLEAN /\ lost \in BOOLEAN

\* A suite never fails an adapter unjustly, in whatever order its tests run,
\* whatever they left in the database, whoever of their racing calls is served
\* first and however the clock runs beside them: a test fails only if the
\* adapter let a call win on rows that another had changed since it read them
\* (or if the host asked for races among nobody).
FailuresAreEarned == verdict = "fail" => stale \/ Concurrency = 0

\* A race is not decided by luck once it happens: if a call won on stale rows,
\* the test that made it fails.  The exception is the one the suite's comment
\* admits, a consume that overlaps an invalidation.
StaleWinsAreCaught ==
    verdict = "pass" /\ stale => test = "ConsumeInvalidateSmoke"

\* A single-use race that passed has been one: whatever options the host gave,
\* some call of it lost to another.
PassedRacesHadLosers ==
    verdict = "pass" /\ test \in {"ConsumeRace", "IssueRace"} => lost

=============================================================================
