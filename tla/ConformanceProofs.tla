-------------------------- MODULE ConformanceProofs --------------------------
(***************************************************************************)
(* Conformance, for every way of calling the suites, every adapter of the  *)
(* two, any number of racing calls, rounds and tests over one database.    *)
(***************************************************************************)
EXTENDS Conformance, FiniteSetTheorems, TLAPS

-----------------------------------------------------------------------------
(* The scripts.                                                            *)

RefreshTests ==
    {"StoresTheHash", "UnknownIsInvalid", "ExpiredIsInvalid", "RotateRace",
     "ReplayOutsideWindow", "DefaultIsBenign", "DefaultIsInclusive",
     "DefaultEnds", "BenignRace", "RevokeFamilyKills", "RevokeAllKills",
     "BumpsAdvance", "DefectA"}

IdentityTests ==
    {"ReturningByKey", "NeverAdopts", "ClaimsPlaceholder", "LinkRace",
     "ClaimRace"}

SingleUseTests ==
    {"HappyPath", "UnknownTokenIsInvalid", "ReplayIsConsumed",
     "ConsumeRace", "InvalidatedThenConsumed", "ConsumeInvalidateSmoke",
     "ExpiredStaysExpired", "ExpiryIsInclusive", "PurposeIsolation",
     "InvalidationIsExact", "DuplicateRejected", "IssueRace"}

Tests == RefreshTests \cup IdentityTests \cup SingleUseTests

\* The tests of each suite, by name.
LEMMA SuiteNames ==
    /\ DOMAIN RefreshSuite = RefreshTests
    /\ DOMAIN IdentitySuite = IdentityTests
    /\ DOMAIN SingleUseSuite = SingleUseTests
    /\ UNION Suites = Tests
<1>1. /\ DOMAIN RefreshSuite = RefreshTests
      /\ DOMAIN IdentitySuite = IdentityTests
      /\ DOMAIN SingleUseSuite = SingleUseTests
  BY DEF RefreshSuite, IdentitySuite, SingleUseSuite, RefreshTests,
     IdentityTests, SingleUseTests
<1>2. QED
  BY <1>1 DEF Suites, Tests

\* The script of each test of the refresh suite.
LEMMA RefreshScripts ==
    /\ Script("StoresTheHash") = StoresTheHash
    /\ Script("UnknownIsInvalid") = UnknownIsInvalid
    /\ Script("ExpiredIsInvalid") = ExpiredIsInvalid
    /\ Script("RotateRace") = RotateRace
    /\ Script("ReplayOutsideWindow") = ReplayOutsideWindow
    /\ Script("DefaultIsBenign") = DefaultIsBenign
    /\ Script("DefaultIsInclusive") = DefaultIsInclusive
    /\ Script("DefaultEnds") = DefaultEnds
    /\ Script("BenignRace") = BenignRace
    /\ Script("RevokeFamilyKills") = RevokeFamilyKills
    /\ Script("RevokeAllKills") = RevokeAllKills
    /\ Script("BumpsAdvance") = BumpsAdvance
    /\ Script("DefectA") = DefectA
  BY DEF Script, RefreshSuite

\* The script of each test of the identity suite.
LEMMA IdentityScripts ==
    /\ Script("ReturningByKey") = ReturningByKey
    /\ Script("NeverAdopts") = NeverAdopts
    /\ Script("ClaimsPlaceholder") = ClaimsPlaceholder
    /\ Script("LinkRace") = LinkRace
    /\ Script("ClaimRace") = ClaimRace
  BY DEF Script, RefreshSuite, IdentitySuite

\* The script of each test of the single-use suite.
LEMMA SingleUseScripts ==
    /\ Script("HappyPath") = HappyPath
    /\ Script("UnknownTokenIsInvalid") = UnknownTokenIsInvalid
    /\ Script("ReplayIsConsumed") = ReplayIsConsumed
    /\ Script("ConsumeRace") = ConsumeRace
    /\ Script("InvalidatedThenConsumed") = InvalidatedThenConsumed
    /\ Script("ConsumeInvalidateSmoke") = ConsumeInvalidateSmoke
    /\ Script("ExpiredStaysExpired") = ExpiredStaysExpired
    /\ Script("ExpiryIsInclusive") = ExpiryIsInclusive
    /\ Script("PurposeIsolation") = PurposeIsolation
    /\ Script("InvalidationIsExact") = InvalidationIsExact
    /\ Script("DuplicateRejected") = DuplicateRejected
    /\ Script("IssueRace") = IssueRace
  BY DEF Script, RefreshSuite, IdentitySuite, SingleUseSuite

\* A test's script is fixed while it runs.
LEMMA ScriptKept ==
    ASSUME UNCHANGED <<test, run, options>>
    PROVE  Script(test)' = Script(test)
  BY DEF Script, RefreshSuite, StoresTheHash, UnknownIsInvalid,
     ExpiredIsInvalid, RotateRace, ReplayOutsideWindow, DefaultIsBenign,
     ReplayAfter, DefaultIsInclusive, DefaultEnds, BenignRace,
     RevokeFamilyKills, RevokeAllKills, BumpsAdvance, DefectA, IdentitySuite,
     ReturningByKey, NeverAdopts, ClaimsPlaceholder, LinkRace, ClaimRace,
     SingleUseSuite, HappyPath, UnknownTokenIsInvalid, ReplayIsConsumed,
     ConsumeRace, InvalidatedThenConsumed, ConsumeInvalidateSmoke,
     IssuedAtTheStart, ExpiredAt, ExpiredStaysExpired, ExpiryIsInclusive,
     PurposeIsolation, InvalidationIsExact, DuplicateRejected, IssueRace,
     LoginAs, Rotate, Refresh, FindByHash, RevokeFamily, IssueTo, Consume,
     InvalidateAllFor, CreateAccount, Ask, Together, Alone, ExactlyOne,
     InParallel, EveryRound, Drawn, It, Racer, Concurrency, Rounds, Issue,
     Redeem, conformanceIdentity

-----------------------------------------------------------------------------
(* Which call a job has, and when it was asked.                            *)

\* The job's call is c, asked between the test's start and the present, or at
\* the time the test computes; a link that found no owner is a bind.
IsAsked(call, c, start, time) ==
    /\ DOMAIN call = DOMAIN c
    /\ call.op = c.op \/ (c.op = "link" /\ call.op = "bind")
    /\ \A f \in DOMAIN c \ {"op", "now"} : call[f] = c[f]
    /\ "now" \in DOMAIN c =>
        /\ call.now \in Nat
        /\ IF c.now = Now THEN call.now \in start .. time
           ELSE call.now = start + c.now

\* The shape of a job.
IsJob(j) ==
    /\ j = [stage |-> j.stage, seen |-> j.seen, answer |-> j.answer,
            call |-> j.call]
    /\ j.stage \in {"asked", "read", "answered"}

Calls == IF phase \in DOMAIN Script(test) THEN Script(test)[phase].calls
         ELSE <<>>

-----------------------------------------------------------------------------
(* The tables.                                                             *)

TypedDb(d) ==
    /\ d = [sessions |-> d.sessions, tokens |-> d.tokens,
            accounts |-> d.accounts, owner |-> d.owner, epochs |-> d.epochs]
    /\ Sessions!TypedRows(d.sessions)
    /\ SingleUse!TypedRows(d.tokens)
    /\ Bindings!TypedStore(d.accounts, d.owner)
    /\ d.epochs \in [Users -> Nat]

\* Every row bears a name of test r or of one before it.
NamedUpTo(d, r) ==
    /\ \A t \in DOMAIN d.sessions : t[1] \in 1 .. r
    /\ \A t \in DOMAIN d.tokens : t[1] \in 1 .. r

\* A call a test can make: what it names exists, or is a name of test r.
Fit(c, r) ==
    /\ "op" \in DOMAIN c
    /\ "now" \in DOMAIN c => c.now \in Nat \cup {Now}
    /\ c.op = "createSession" =>
        /\ {"as", "user", "ttl", "now"} \subseteq DOMAIN c
        /\ c.as \in Draws /\ c.as[1] = r /\ c.user \in Users /\ c.ttl \in Nat
    /\ c.op = "rotate" =>
        /\ {"old", "as", "graceMs", "now"} \subseteq DOMAIN c
        /\ c.as \in Draws /\ c.as[1] = r /\ c.as # c.old
    /\ c.op = "bumpEpoch" => "user" \in DOMAIN c /\ c.user \in Users
    /\ c.op = "issue" =>
        /\ {"as", "subject", "purpose", "now"} \subseteq DOMAIN c
        /\ c.as \in Draws /\ c.as[1] = r
        /\ c.subject \in Users \cup Draws /\ c.purpose \in Purposes
    /\ c.op = "consume" => {"old", "purpose", "now"} \subseteq DOMAIN c
    /\ c.op = "createAccount" =>
        /\ {"account", "row"} \subseteq DOMAIN c
        /\ c.account \in Accounts /\ c.row \in Bindings!Row
    /\ c.op \in {"bind", "claim", "link", "resolve"} =>
        /\ {"account", "identity"} \subseteq DOMAIN c
        /\ c.identity \in Bindings!Identity

\* The same once it is asked.
Proper(c, r) == Fit(c, r) /\ ("now" \in DOMAIN c => c.now \in Nat)

\* A call made as a fit call of a script says has what its operation needs.
LEMMA AskedProper ==
    ASSUME NEW c, NEW r, Fit(c, r), NEW call, NEW start, NEW time,
           IsAsked(call, c, start, time)
    PROVE  Proper(call, r)
<1>1. /\ \A f \in {"as", "user", "ttl", "old", "graceMs", "subject", "purpose",
                   "account", "row", "identity"} :
            f \in DOMAIN c => call[f] = c[f]
      /\ DOMAIN call = DOMAIN c
      /\ "now" \in DOMAIN c => call.now \in Nat
      /\ call.op = c.op \/ (c.op = "link" /\ call.op = "bind")
  BY DEF IsAsked
<1>2. Proper(call, r)
  BY <1>1 DEF Fit, Proper
<1>3. QED
  BY <1>2

\* The row of a login, or of a token that replaces or joins row.
LoginRow(f, u, e) ==
    [familyId |-> f, userId |-> u, expiresAt |-> e, revokedAt |-> Null,
     replacedById |-> Null]

\* rows with one row more.
Inserted(new, rows, t, f, u, e) ==
    /\ Sessions!TypedRows(new)
    /\ DOMAIN new = DOMAIN rows \cup {t}
    /\ new[t] = LoginRow(f, u, e)
    /\ \A x \in DOMAIN rows \ {t} : new[x] = rows[x]

\* An insert adds one live row.
LEMMA InsertEffect ==
    ASSUME NEW rows, Sessions!TypedRows(rows), NEW t \in Draws,
           NEW f \in Draws, NEW u \in Users, NEW e \in Nat
    PROVE  Inserted(Sessions!InsertRow(rows, t, f, u, e), rows, t, f, u, e)
<1>1. LoginRow(f, u, e) \in Sessions!Row
  BY DEF LoginRow, Sessions!Row, Sessions!Instants
<1>2. Sessions!InsertRow(rows, t, f, u, e) =
        [x \in DOMAIN rows \cup {t} |->
                IF x = t THEN LoginRow(f, u, e) ELSE rows[x]]
  BY DEF Sessions!InsertRow, LoginRow
<1>3. QED
  BY <1>1, <1>2 DEF Sessions!TypedRows, Inserted

\* rows after the compare-and-swap of a rotation.
Replaced(new, rows, old, t, e, now) ==
    /\ Sessions!TypedRows(new)
    /\ DOMAIN new = DOMAIN rows \cup {t}
    /\ new[t] = LoginRow(rows[old].familyId, rows[old].userId, e)
    /\ new[old] = [rows[old] EXCEPT !.revokedAt = now, !.replacedById = t]
    /\ \A x \in DOMAIN rows \ {t, old} : new[x] = rows[x]

\* A swap revokes one row and adds the row that replaces it.
LEMMA ReplaceEffect ==
    ASSUME NEW rows, Sessions!TypedRows(rows), NEW old \in DOMAIN rows,
           NEW t \in Draws, t # old, NEW e \in Nat, NEW now \in Nat
    PROVE  Replaced(Sessions!ReplaceRow(rows, old, t, e, now),
                    rows, old, t, e, now)
<1>1. rows[old] \in Sessions!Row
  BY DEF Sessions!TypedRows
<1>2. PICK f \in Draws, u \in Users :
            f = rows[old].familyId /\ u = rows[old].userId
  BY <1>1 DEF Sessions!Row
<1>3. PICK ins : ins = Sessions!InsertRow(rows, t, f, u, e)
  OBVIOUS
<1>4. Inserted(ins, rows, t, f, u, e)
  BY <1>3, InsertEffect
<1>5. Sessions!ReplaceRow(rows, old, t, e, now) =
        [ins EXCEPT ![old].revokedAt = now, ![old].replacedById = t]
  BY <1>2, <1>3 DEF Sessions!ReplaceRow
<1>6. [rows[old] EXCEPT !.revokedAt = now, !.replacedById = t]
        \in Sessions!Row
  BY <1>1 DEF Sessions!Row, Sessions!Instants
<1>7. Sessions!ReplaceRow(rows, old, t, e, now) =
        [ins EXCEPT ![old] = [rows[old] EXCEPT !.revokedAt = now,
                                               !.replacedById = t]]
  BY <1>4, <1>5 DEF Inserted
<1>8. QED
  BY <1>2, <1>4, <1>6, <1>7 DEF Sessions!TypedRows, Inserted, Replaced

\* rows after a kill of T: rows keep all but revokedAt, and keep that too if
\* they have one.
Revoked(new, rows, T) ==
    /\ Sessions!TypedRows(new)
    /\ DOMAIN new = DOMAIN rows
    /\ \A x \in DOMAIN rows :
        /\ new[x].familyId = rows[x].familyId
        /\ new[x].userId = rows[x].userId
        /\ new[x].expiresAt = rows[x].expiresAt
        /\ new[x].replacedById = rows[x].replacedById
        /\ x \in T \/ rows[x].revokedAt # Null => new[x].revokedAt # Null
        /\ x \notin T \/ rows[x].revokedAt # Null => new[x] = rows[x]

\* A kill revokes the rows of T, and changes no others.
LEMMA RevokeEffect ==
    ASSUME NEW rows, Sessions!TypedRows(rows), NEW T, NEW now \in Nat
    PROVE  Revoked(Sessions!RevokeRows(rows, T, now), rows, T)
<1>1. \A x \in DOMAIN rows : rows[x] \in Sessions!Row
  BY DEF Sessions!TypedRows
<1>2. Sessions!RevokeRows(rows, T, now) =
        [x \in DOMAIN rows |->
                IF x \in T /\ rows[x].revokedAt = Null
                THEN [rows[x] EXCEPT !.revokedAt = now] ELSE rows[x]]
  BY DEF Sessions!RevokeRows, Sessions!IsRevoked
<1>3. \A x \in DOMAIN rows :
        LET row == [rows[x] EXCEPT !.revokedAt = now]
        IN  /\ row \in Sessions!Row
            /\ row.familyId = rows[x].familyId
            /\ row.userId = rows[x].userId
            /\ row.expiresAt = rows[x].expiresAt
            /\ row.replacedById = rows[x].replacedById
            /\ row.revokedAt = now
  BY <1>1 DEF Sessions!Row, Sessions!Instants
<1>4. now # Null
  BY NameAssumption
<1>5. QED
  BY <1>1, <1>2, <1>3, <1>4 DEF Sessions!TypedRows, Revoked

\* Single-use rows with those of T retired, likewise.
Retired(new, rows, T) ==
    /\ SingleUse!TypedRows(new)
    /\ DOMAIN new = DOMAIN rows
    /\ \A x \in DOMAIN rows :
        /\ new[x].purpose = rows[x].purpose
        /\ new[x].subjectId = rows[x].subjectId
        /\ new[x].expiresAt = rows[x].expiresAt
        /\ x \in T \/ rows[x].consumedAt # Null => new[x].consumedAt # Null
        /\ x \notin T \/ rows[x].consumedAt # Null => new[x] = rows[x]

\* A retirement consumes the rows of T, and changes no others.
LEMMA RetireEffect ==
    ASSUME NEW rows, SingleUse!TypedRows(rows), NEW T, NEW now \in Nat
    PROVE  Retired(SingleUse!Retire(rows, T, now), rows, T)
<1>1. \A x \in DOMAIN rows : rows[x] \in SingleUse!Row
  BY DEF SingleUse!TypedRows
<1>2. SingleUse!Retire(rows, T, now) =
        [x \in DOMAIN rows |->
                IF x \in T /\ rows[x].consumedAt = Null
                THEN [rows[x] EXCEPT !.consumedAt = now] ELSE rows[x]]
  BY DEF SingleUse!Retire, SingleUse!IsRetired
<1>3. \A x \in DOMAIN rows :
        LET row == [rows[x] EXCEPT !.consumedAt = now]
        IN  /\ row \in SingleUse!Row
            /\ row.purpose = rows[x].purpose
            /\ row.subjectId = rows[x].subjectId
            /\ row.expiresAt = rows[x].expiresAt
            /\ row.consumedAt = now
  BY <1>1 DEF SingleUse!Row, SingleUse!Instants
<1>4. now # Null
  BY NameAssumption
<1>5. QED
  BY <1>1, <1>2, <1>3, <1>4 DEF SingleUse!TypedRows, Retired

\* Tables keep their rows.
Grown(d, e) ==
    /\ DOMAIN d.sessions \subseteq DOMAIN e.sessions
    /\ DOMAIN d.tokens \subseteq DOMAIN e.tokens
    /\ DOMAIN d.accounts \subseteq DOMAIN e.accounts

\* A rotation keeps the rows' types, and adds at most the row it was given a
\* name for.
LEMMA RotateTyped ==
    ASSUME NEW rows, Sessions!TypedRows(rows), NEW r, NEW c, Proper(c, r),
           c.op = "rotate", NEW new, new = RotateRows(rows, c)
    PROVE  /\ Sessions!TypedRows(new)
           /\ DOMAIN rows \subseteq DOMAIN new
           /\ DOMAIN new \subseteq DOMAIN rows \cup {c.as}
<1>1. c.as \in Draws /\ c.as # c.old /\ c.now \in Nat /\ c.now + Ttl \in Nat
  BY SuiteAssumption DEF Proper, Fit
<1>2. RotateStatus(rows, c) \in {"rotated", "benign-race", "reuse"} =>
        c.old \in DOMAIN rows
  BY DEF RotateStatus
<1>3. c.old \in DOMAIN rows =>
        rows[c.old].familyId \in Draws /\ rows[c.old].userId \in Users
  BY DEF Sessions!TypedRows, Sessions!Row
<1>4. CASE RotateStatus(rows, c) = "rotated"
  <2>1. new = Sessions!ReplaceRow(rows, c.old, c.as, c.now + Ttl, c.now)
    BY <1>4 DEF RotateRows
  <2>2. Replaced(new, rows, c.old, c.as, c.now + Ttl, c.now)
    BY <1>1, <1>2, <1>4, <2>1, ReplaceEffect
  <2>3. QED
    BY <2>2 DEF Replaced
<1>5. CASE RotateStatus(rows, c) = "benign-race"
  <2>1. new = Sessions!InsertRow(rows, c.as, rows[c.old].familyId,
                                 rows[c.old].userId, c.now + Ttl)
    BY <1>5 DEF RotateRows, Sessions!InsertSibling
  <2>2. Inserted(new, rows, c.as, rows[c.old].familyId, rows[c.old].userId,
                 c.now + Ttl)
    BY <1>1, <1>2, <1>3, <1>5, <2>1, InsertEffect
  <2>3. QED
    BY <2>2 DEF Inserted
<1>6. CASE RotateStatus(rows, c) = "reuse"
  <2>1. new = Sessions!RevokeRows(rows,
                Sessions!FamilyRows(rows, rows[c.old].familyId), c.now)
    BY <1>6 DEF RotateRows
  <2>2. Revoked(new, rows, Sessions!FamilyRows(rows, rows[c.old].familyId))
    BY <1>1, <2>1, RevokeEffect
  <2>3. QED
    BY <2>2 DEF Revoked
<1>7. CASE RotateStatus(rows, c) \notin {"rotated", "benign-race", "reuse"}
  BY <1>7 DEF RotateRows
<1>8. QED
  BY <1>4, <1>5, <1>6, <1>7

\* So does an issue or a consume.
LEMMA TokensTyped ==
    ASSUME NEW rows, SingleUse!TypedRows(rows), NEW r, NEW c, Proper(c, r),
           NEW new,
           \/ c.op = "issue" /\ new = IssueRows(rows, c)
           \/ c.op = "consume" /\ new = ConsumeRows(rows, c)
    PROVE  /\ SingleUse!TypedRows(new)
           /\ DOMAIN rows \subseteq DOMAIN new
           /\ DOMAIN new \subseteq DOMAIN rows \cup {c.as}
<1>1. CASE c.op = "issue"
  <2>1. new = IssueRows(rows, c)
    BY <1>1
  <2>2. /\ c.as \in Draws /\ c.now + Ttl \in Nat
        /\ c.purpose \in Purposes /\ c.subject \in Users \cup Draws
    BY <1>1, SuiteAssumption DEF Proper, Fit
  <2>3. [purpose |-> c.purpose, subjectId |-> c.subject,
         expiresAt |-> c.now + Ttl, consumedAt |-> Null] \in SingleUse!Row
    BY <2>2 DEF SingleUse!Row, SingleUse!Instants
  <2>4. QED
    BY <2>1, <2>2, <2>3 DEF IssueRows, SingleUse!TypedRows
<1>2. CASE c.op = "consume"
  <2>1. new = rows \/ new = SingleUse!Retire(rows, {c.old}, c.now)
    BY <1>2 DEF ConsumeRows
  <2>2. c.now \in Nat
    BY <1>2 DEF Proper, Fit
  <2>3. new = rows \/ Retired(new, rows, {c.old})
    BY <2>1, <2>2, RetireEffect
  <2>4. QED
    BY <2>3 DEF Retired
<1>3. QED
  BY <1>1, <1>2

\* Tables with one of them changed.
LEMMA SessionsChanged ==
    ASSUME NEW d, TypedDb(d), NEW rows, Sessions!TypedRows(rows), NEW r,
           NamedUpTo(d, r), DOMAIN d.sessions \subseteq DOMAIN rows,
           \A t \in DOMAIN rows \ DOMAIN d.sessions : t[1] = r,
           r \in Nat \ {0}, NEW new, new = [d EXCEPT !.sessions = rows]
    PROVE  TypedDb(new) /\ NamedUpTo(new, r) /\ Grown(d, new)
<1>1. new = [sessions |-> rows, tokens |-> d.tokens, accounts |-> d.accounts,
             owner |-> d.owner, epochs |-> d.epochs]
  BY DEF TypedDb
<1>2. QED
  BY <1>1 DEF TypedDb, NamedUpTo, Grown

\* Tables whose single-use rows alone changed.
LEMMA TokensChanged ==
    ASSUME NEW d, TypedDb(d), NEW rows, SingleUse!TypedRows(rows), NEW r,
           NamedUpTo(d, r), DOMAIN d.tokens \subseteq DOMAIN rows,
           \A t \in DOMAIN rows \ DOMAIN d.tokens : t[1] = r,
           r \in Nat \ {0}, NEW new, new = [d EXCEPT !.tokens = rows]
    PROVE  TypedDb(new) /\ NamedUpTo(new, r) /\ Grown(d, new)
<1>1. new = [sessions |-> d.sessions, tokens |-> rows,
             accounts |-> d.accounts, owner |-> d.owner, epochs |-> d.epochs]
  BY DEF TypedDb
<1>2. QED
  BY <1>1 DEF TypedDb, NamedUpTo, Grown

\* Tables whose accounts and bindings alone changed.
LEMMA BindingsChanged ==
    ASSUME NEW d, TypedDb(d), NEW accounts, NEW owner,
           Bindings!TypedStore(accounts, owner), NEW r, NamedUpTo(d, r),
           DOMAIN d.accounts \subseteq DOMAIN accounts,
           NEW new,
           new = [sessions |-> d.sessions, tokens |-> d.tokens,
                  accounts |-> accounts, owner |-> owner, epochs |-> d.epochs]
    PROVE  TypedDb(new) /\ NamedUpTo(new, r) /\ Grown(d, new)
  BY DEF TypedDb, NamedUpTo, Grown

\* A key bound to an account that exists, and the account's row as a claim
\* leaves it.
LEMMA BoundTyped ==
    ASSUME NEW d, TypedDb(d), NEW r, NamedUpTo(d, r),
           NEW identity \in Bindings!Identity, NEW a \in DOMAIN d.accounts,
           NEW new, \/ new = BindTables(d, identity, a)
                    \/ new = ClaimTables(d, identity, a)
    PROVE  TypedDb(new) /\ NamedUpTo(new, r) /\ Grown(d, new)
<1> DEFINE owner == Bindings!BindKey(d.owner, identity, a)
           rows == Bindings!ClaimRow(d.accounts, a)
<1>1. identity.key \in Keys /\ d.accounts[a] \in Bindings!Row
  BY DEF Bindings!Identity, TypedDb, Bindings!TypedStore
<1>2. Bindings!TypedStore(d.accounts, owner)
  BY <1>1 DEF TypedDb, Bindings!TypedStore, Bindings!BindKey
<1>3. /\ Bindings!TypedStore(rows, owner)
      /\ DOMAIN rows = DOMAIN d.accounts
  BY <1>1, <1>2 DEF TypedDb, Bindings!TypedStore, Bindings!ClaimRow,
     Bindings!Row
<1>4. BindTables(d, identity, a) =
        [sessions |-> d.sessions, tokens |-> d.tokens,
         accounts |-> d.accounts, owner |-> owner, epochs |-> d.epochs]
  BY DEF BindTables, TypedDb
<1>5. ClaimTables(d, identity, a) =
        [sessions |-> d.sessions, tokens |-> d.tokens,
         accounts |-> rows, owner |-> owner, epochs |-> d.epochs]
  BY <1>4 DEF ClaimTables
<1> HIDE DEF owner, rows
<1>6. QED
  BY <1>2, <1>3, <1>4, <1>5, BindingsChanged

\* A call by itself keeps the tables' types, and names rows after its test.
Kept(d, e, r) == TypedDb(e) /\ NamedUpTo(e, r) /\ Grown(d, e)

\* Whatever a proper call does keeps the tables typed, loses no row and adds
\* none but of the present test.
LEMMA CallTyped ==
    ASSUME NEW d, TypedDb(d), NEW r \in Nat \ {0}, NamedUpTo(d, r),
           NEW c, Proper(c, r), clock \in Nat,
           c.op \in {"bind", "claim"} => c.account \in DOMAIN d.accounts
    PROVE  Kept(d, TablesAfter(d, c), r)
<1> SUFFICES ASSUME NEW new, new = TablesAfter(d, c)
             PROVE  Kept(d, new, r)
  OBVIOUS
<1>1. ASSUME NEW rows, Sessions!TypedRows(rows),
             DOMAIN d.sessions \subseteq DOMAIN rows,
             \A t \in DOMAIN rows \ DOMAIN d.sessions : t[1] = r
      PROVE  Kept(d, [d EXCEPT !.sessions = rows], r)
  BY <1>1, SessionsChanged DEF Kept
<1>2. ASSUME NEW rows, SingleUse!TypedRows(rows),
             DOMAIN d.tokens \subseteq DOMAIN rows,
             \A t \in DOMAIN rows \ DOMAIN d.tokens : t[1] = r
      PROVE  Kept(d, [d EXCEPT !.tokens = rows], r)
  BY <1>2, TokensChanged DEF Kept
<1>3. /\ Sessions!TypedRows(d.sessions)
      /\ SingleUse!TypedRows(d.tokens)
      /\ Bindings!TypedStore(d.accounts, d.owner)
      /\ d.epochs \in [Users -> Nat]
  BY DEF TypedDb
<1>4. CASE c.op = "createSession"
  <2>1. PICK rows : rows = Sessions!InsertRow(d.sessions, c.as, c.as, c.user,
                                              c.now + c.ttl)
    OBVIOUS
  <2>2. new = [d EXCEPT !.sessions = rows]
    BY <1>4, <2>1 DEF TablesAfter
  <2>3. /\ c.as \in Draws /\ c.as[1] = r /\ c.user \in Users
        /\ c.now + c.ttl \in Nat
    BY <1>4 DEF Proper, Fit
  <2>4. Inserted(rows, d.sessions, c.as, c.as, c.user, c.now + c.ttl)
    BY <1>3, <2>1, <2>3, InsertEffect
  <2>5. QED
    BY <1>1, <2>2, <2>3, <2>4 DEF Inserted
<1>5. CASE c.op = "rotate"
  <2>1. PICK rows : rows = RotateRows(d.sessions, c)
    OBVIOUS
  <2>2. new = [d EXCEPT !.sessions = rows]
    BY <1>5, <2>1 DEF TablesAfter
  <2>3. c.as[1] = r
    BY <1>5 DEF Proper, Fit
  <2>4. /\ Sessions!TypedRows(rows)
        /\ DOMAIN d.sessions \subseteq DOMAIN rows
        /\ DOMAIN rows \subseteq DOMAIN d.sessions \cup {c.as}
    BY <1>3, <1>5, <2>1, RotateTyped
  <2>5. QED
    BY <1>1, <2>2, <2>3, <2>4
<1>6. CASE c.op \in {"revokeFamily", "revokeAllForUser"}
  <2>1. PICK T, rows : /\ rows = Sessions!RevokeRows(d.sessions, T, clock)
                       /\ new = [d EXCEPT !.sessions = rows]
    BY <1>6 DEF TablesAfter
  <2>2. Revoked(rows, d.sessions, T)
    BY <1>3, <2>1, RevokeEffect
  <2>3. QED
    BY <1>1, <2>1, <2>2 DEF Revoked
<1>7. CASE c.op = "bumpEpoch"
  <2>1. new = [d EXCEPT !.epochs[c.user] = NextEpoch(@)]
    BY <1>7 DEF TablesAfter
  <2>2. c.user \in Users
    BY <1>7 DEF Proper, Fit
  <2>3. NextEpoch(d.epochs[c.user]) \in Nat
    BY <1>3, <2>2 DEF NextEpoch
  <2>4. [d.epochs EXCEPT ![c.user] = NextEpoch(d.epochs[c.user])]
            \in [Users -> Nat]
    BY <1>3, <2>3
  <2>5. new = [sessions |-> d.sessions, tokens |-> d.tokens,
               accounts |-> d.accounts, owner |-> d.owner,
               epochs |-> [d.epochs EXCEPT
                            ![c.user] = NextEpoch(d.epochs[c.user])]]
    BY <2>1 DEF TypedDb
  <2>6. QED
    BY <1>3, <2>4, <2>5 DEF Kept, TypedDb, NamedUpTo, Grown
<1>8. CASE c.op \in {"issue", "consume"}
  <2>1. PICK rows : /\ \/ c.op = "issue" /\ rows = IssueRows(d.tokens, c)
                       \/ c.op = "consume" /\ rows = ConsumeRows(d.tokens, c)
                    /\ new = [d EXCEPT !.tokens = rows]
    BY <1>8 DEF TablesAfter
  <2>2. /\ SingleUse!TypedRows(rows)
        /\ DOMAIN d.tokens \subseteq DOMAIN rows
        /\ DOMAIN rows \subseteq DOMAIN d.tokens \cup {c.as}
    BY <1>3, <2>1, TokensTyped
  <2>3. CASE c.op = "issue"
    BY <1>2, <2>1, <2>2, <2>3 DEF Proper, Fit
  <2>4. CASE c.op = "consume"
    <3>1. rows = d.tokens \/ \E T, n : rows = SingleUse!Retire(d.tokens, T, n)
      BY <2>1, <2>4 DEF ConsumeRows
    <3>2. DOMAIN rows = DOMAIN d.tokens
      BY <3>1 DEF SingleUse!Retire
    <3>3. QED
      BY <1>2, <2>1, <2>2, <3>2
  <2>5. QED
    BY <1>8, <2>3, <2>4
<1>9. CASE c.op = "invalidateAllFor"
  <2>1. PICK T, rows : /\ rows = SingleUse!Retire(d.tokens, T, clock)
                       /\ new = [d EXCEPT !.tokens = rows]
    BY <1>9 DEF TablesAfter
  <2>2. Retired(rows, d.tokens, T)
    BY <1>3, <2>1, RetireEffect
  <2>3. QED
    BY <1>2, <2>1, <2>2 DEF Retired
<1>10. CASE c.op = "createAccount"
  <2>1. new = [d EXCEPT !.accounts = Bindings!PutRow(@, c.account, c.row)]
    BY <1>10 DEF TablesAfter
  <2>2. c.account \in Accounts /\ c.row \in Bindings!Row
    BY <1>10 DEF Proper, Fit
  <2> DEFINE rows == Bindings!PutRow(d.accounts, c.account, c.row)
  <2>3. /\ Bindings!TypedStore(rows, d.owner)
        /\ DOMAIN d.accounts \subseteq DOMAIN rows
    BY <1>3, <2>2 DEF Bindings!TypedStore, Bindings!PutRow
  <2>4. new = [sessions |-> d.sessions, tokens |-> d.tokens,
               accounts |-> rows, owner |-> d.owner, epochs |-> d.epochs]
    BY <2>1 DEF TypedDb
  <2> HIDE DEF rows
  <2>5. QED
    BY <2>3, <2>4, BindingsChanged DEF Kept
<1>11. ASSUME NEW identity \in Bindings!Identity, NEW a \in DOMAIN d.accounts,
              \/ new = BindTables(d, identity, a)
              \/ new = ClaimTables(d, identity, a)
       PROVE  Kept(d, new, r)
  BY <1>11, BoundTyped DEF Kept
<1>12. CASE new = d
  BY <1>12 DEF Kept, Grown
<1>13. CASE c.op \in {"bind", "claim"} /\ new # d
  <2>1. c.identity \in Bindings!Identity
    BY <1>13 DEF Proper, Fit
  <2>2. \/ new = BindTables(d, c.identity, c.account)
        \/ new = ClaimTables(d, c.identity, c.account)
    BY <1>13 DEF TablesAfter
  <2>3. QED
    BY <1>11, <1>13, <2>1, <2>2
<1>14. CASE c.op = "resolve" /\ new # d
  <2>1. c.identity \in Bindings!Identity
    BY <1>14 DEF Proper, Fit
  <2> DEFINE found == Bindings!WithEmail(d.accounts,
                                         Bindings!VerifiedEmail(c.identity))
  <2>2. /\ new = ClaimTables(d, c.identity, CHOOSE a \in found : TRUE)
        /\ found # {}
    BY <1>14 DEF TablesAfter, ResolveTables, ResolveOutcome
  <2>3. found \subseteq DOMAIN d.accounts
    BY DEF Bindings!WithEmail
  <2> HIDE DEF found
  <2>4. PICK a \in DOMAIN d.accounts : new = ClaimTables(d, c.identity, a)
    BY <2>2, <2>3
  <2>5. QED
    BY <1>11, <2>1, <2>4
<1>15. CASE c.op \notin {"createSession", "rotate", "revokeFamily",
                         "revokeAllForUser", "bumpEpoch", "issue", "consume",
                         "invalidateAllFor", "createAccount", "bind", "claim",
                         "resolve"}
  <2>1. new = d
    BY <1>15 DEF TablesAfter
  <2>2. QED
    BY <1>12, <2>1
<1>16. QED
  BY <1>4, <1>5, <1>6, <1>7, <1>8, <1>9, <1>10, <1>12, <1>13, <1>14, <1>15

\* The second step of an adapter that reads and then writes.
LEMMA MergeIs ==
    ASSUME TypedDb(db), NEW seen, NEW decided
    PROVE  Merge(seen, decided) =
            [sessions |-> MergeTable(db.sessions, seen.sessions,
                                     decided.sessions),
             tokens |-> MergeTable(db.tokens, seen.tokens, decided.tokens),
             accounts |-> MergeTable(db.accounts, seen.accounts,
                                     decided.accounts),
             owner |-> MergeTable(db.owner, seen.owner, decided.owner),
             epochs |-> MergeTable(db.epochs, seen.epochs, decided.epochs)]
<1>1. DOMAIN db = {"sessions", "tokens", "accounts", "owner", "epochs"}
  BY DEF TypedDb
<1>2. QED
  BY <1>1 DEF Merge

\* So does what is written of a call that decided on older tables.
LEMMA MergeTyped ==
    ASSUME TypedDb(db), NEW seen, TypedDb(seen), NEW decided, NEW r,
           NamedUpTo(db, r), Kept(seen, decided, r), Grown(seen, db)
    PROVE  Kept(db, Merge(seen, decided), r)
<1> DEFINE S == MergeTable(db.sessions, seen.sessions, decided.sessions)
           K == MergeTable(db.tokens, seen.tokens, decided.tokens)
           A == MergeTable(db.accounts, seen.accounts, decided.accounts)
           O == MergeTable(db.owner, seen.owner, decided.owner)
           E == MergeTable(db.epochs, seen.epochs, decided.epochs)
<1>1. TypedDb(decided) /\ NamedUpTo(decided, r) /\ Grown(seen, decided)
  BY DEF Kept
<1>2. /\ Sessions!TypedRows(S)
      /\ DOMAIN S = DOMAIN db.sessions \cup DOMAIN decided.sessions
  BY <1>1 DEF TypedDb, Grown, Sessions!TypedRows, MergeTable
<1>3. /\ SingleUse!TypedRows(K)
      /\ DOMAIN K = DOMAIN db.tokens \cup DOMAIN decided.tokens
  BY <1>1 DEF TypedDb, Grown, SingleUse!TypedRows, MergeTable
<1>4. /\ A \in [DOMAIN A -> Bindings!Row]
      /\ DOMAIN A = DOMAIN db.accounts \cup DOMAIN decided.accounts
      /\ DOMAIN A \subseteq Accounts
  BY <1>1 DEF TypedDb, Grown, Bindings!TypedStore, MergeTable
<1>5. /\ O \in [Keys -> DOMAIN A \cup {Null}]
      /\ \A k \in Keys : O[k] \in {db.owner[k], decided.owner[k]}
  <2>1. /\ DOMAIN db.owner = Keys
        /\ DOMAIN decided.owner = Keys
        /\ DOMAIN O = Keys
        /\ O = [k \in Keys |-> O[k]]
    BY <1>1 DEF TypedDb, Bindings!TypedStore, MergeTable
  <2>2. ASSUME NEW k \in Keys
        PROVE  O[k] \in {db.owner[k], decided.owner[k]}
    BY <2>1 DEF MergeTable
  <2>3. \A k \in Keys : /\ db.owner[k] \in DOMAIN db.accounts \cup {Null}
                        /\ decided.owner[k]
                            \in DOMAIN decided.accounts \cup {Null}
    BY <1>1 DEF TypedDb, Bindings!TypedStore
  <2> HIDE DEF O, A
  <2>4. QED
    BY <1>4, <2>1, <2>2, <2>3
<1>6. E \in [Users -> Nat]
  BY <1>1 DEF TypedDb, MergeTable
<1> HIDE DEF S, K, A, O, E
<1>7. Bindings!TypedStore(A, O)
  BY <1>4, <1>5 DEF Bindings!TypedStore
<1>8. PICK new : new = Merge(seen, decided)
  OBVIOUS
<1>9. new = [sessions |-> S, tokens |-> K, accounts |-> A, owner |-> O,
             epochs |-> E]
  BY <1>8, MergeIs DEF S, K, A, O, E
<1>10. TypedDb(new)
  BY <1>2, <1>3, <1>6, <1>7, <1>9 DEF TypedDb
<1>11. NamedUpTo(new, r) /\ Grown(db, new)
  BY <1>1, <1>2, <1>3, <1>4, <1>9 DEF NamedUpTo, Grown
<1>12. QED
  BY <1>8, <1>10, <1>11 DEF Kept

\* On rows that nobody has changed it is the transaction.
LEMMA MergeFresh ==
    ASSUME TypedDb(db), NEW decided, TypedDb(decided), Grown(db, decided)
    PROVE  Merge(db, decided) = decided
<1>1. MergeTable(db.sessions, db.sessions, decided.sessions)
        = decided.sessions
  BY DEF MergeTable, TypedDb, Grown, Sessions!TypedRows
<1>2. MergeTable(db.tokens, db.tokens, decided.tokens) = decided.tokens
  BY DEF MergeTable, TypedDb, Grown, SingleUse!TypedRows
<1>3. MergeTable(db.accounts, db.accounts, decided.accounts)
        = decided.accounts
  BY DEF MergeTable, TypedDb, Grown, Bindings!TypedStore
<1>4. MergeTable(db.owner, db.owner, decided.owner) = decided.owner
  BY DEF MergeTable, TypedDb, Bindings!TypedStore
<1>5. MergeTable(db.epochs, db.epochs, decided.epochs) = decided.epochs
  BY DEF MergeTable, TypedDb
<1>6. QED
  BY <1>1, <1>2, <1>3, <1>4, <1>5, MergeIs DEF TypedDb

-----------------------------------------------------------------------------
(* The calls of the scripts.                                               *)

\* What a test draws for two uses, or in two rounds, differs.
LEMMA NamesDiffer ==
    ASSUME run \in 1 .. MaxRuns
    PROVE  /\ \A n \in Nat, u \in Uses :
                Drawn(n, u) \in Draws /\ Drawn(n, u)[1] = run
           /\ \A n, m \in Nat, u, v \in Uses :
                Drawn(n, u) = Drawn(m, v) => n = m /\ u = v
           /\ \A u \in Uses : It(u) = Drawn(0, u)
           /\ \A n \in Nat : Racer(n) = Drawn(n, "racer")
           /\ \A n \in Nat, u \in Uses : Drawn(n, u) # Unknown
           /\ Users \subseteq Nat \X Nat \X {"user-1", "user-2"}
  BY SuiteAssumption
     DEF Drawn, Draws, It, Racer, Unknown, Users, user1, user2

\* A phase of one call.
LEMMA AloneIs ==
    ASSUME NEW c, NEW A
    PROVE  /\ \A i : i \in DOMAIN Alone(c, A).calls <=> i = 1
           /\ Alone(c, A).calls[1] = c
           /\ Alone(c, A).calls = <<c>>
           /\ Alone(c, A).enough = {}
           /\ \A a : <<a>> \in Alone(c, A).expected <=> a \in A
  BY DEF Alone, Together

\* A call that acts on no account it did not make.
Simple(c, r) == Fit(c, r) /\ c.op \notin {"bind", "claim", "link"}

\* An account that a phase of the script before k makes.
MadeBefore(s, k, a) ==
    \E j \in DOMAIN s : j < k /\ \E i \in DOMAIN s[j].calls :
        /\ s[j].calls[i].op = "createAccount"
        /\ s[j].calls[i].account = a

FitPhase(p, r) == \A i \in DOMAIN p.calls : Fit(p.calls[i], r)

SimplePhase(p, r) == \A i \in DOMAIN p.calls : Simple(p.calls[i], r)

\* Every call of the script is fit, and acts on accounts that are there.
FitScript(s, r) ==
    \A k \in DOMAIN s :
        /\ k \in Nat \ {0}
        /\ FitPhase(s[k], r)
        /\ \A i \in DOMAIN s[k].calls :
            s[k].calls[i].op \in {"bind", "claim", "link"} =>
                MadeBefore(s, k, s[k].calls[i].account)

SimpleScript(s, r) ==
    \A k \in DOMAIN s : k \in Nat \ {0} /\ SimplePhase(s[k], r)

\* A simple script, one that acts on no account, is fit.
LEMMA SimpleFits ==
    ASSUME NEW s, NEW r, SimpleScript(s, r)
    PROVE  FitScript(s, r)
  BY DEF SimpleScript, SimplePhase, Simple, FitScript, FitPhase

\* A phase of one call is what the call is.
LEMMA AloneFit ==
    ASSUME NEW c, NEW A, NEW r
    PROVE  /\ Fit(c, r) => FitPhase(Alone(c, A), r)
           /\ Simple(c, r) => SimplePhase(Alone(c, A), r)
  BY AloneIs DEF FitPhase, SimplePhase

\* The calls of the refresh suite are simple.
LEMMA SessionCallsSimple ==
    ASSUME run \in 1 .. MaxRuns
    PROVE  /\ \A u \in Uses, user \in Users : Simple(LoginAs(u, user), run)
           /\ \A u, v \in Uses :
                u # v => Simple(Refresh(u, v), run)
           /\ \A old, t \in Draws, g, now \in Nat \cup {Now} :
                old # t /\ t[1] = run => Simple(Rotate(old, t, g, now), run)
           /\ \A u \in Uses : Simple(FindByHash(u), run)
           /\ \A u \in Uses : Simple(RevokeFamily(u), run)
<1>1. \A old, t \in Draws, g, now \in Nat \cup {Now} :
        old # t /\ t[1] = run => Simple(Rotate(old, t, g, now), run)
  BY DEF Fit, Simple, Rotate
<1>2. \A u, v \in Uses : u # v => Simple(Refresh(u, v), run)
  <2>1. Grace \in Nat \cup {Now} /\ Now \in Nat \cup {Now}
    BY SuiteAssumption
  <2>2. \A u \in Uses : It(u) \in Draws /\ It(u)[1] = run
    BY NamesDiffer
  <2>3. \A u, v \in Uses : u # v => It(u) # It(v)
    BY NamesDiffer
  <2>4. QED
    BY <1>1, <2>1, <2>2, <2>3 DEF Refresh
<1>3. \A u \in Uses, user \in Users : Simple(LoginAs(u, user), run)
  BY NamesDiffer, SuiteAssumption DEF LoginAs, Fit, Simple
<1>4. /\ \A u \in Uses : Simple(FindByHash(u), run)
      /\ \A u \in Uses : Simple(RevokeFamily(u), run)
  BY DEF FindByHash, RevokeFamily, Fit, Simple
<1>5. QED
  BY <1>1, <1>2, <1>3, <1>4

\* The calls of the single-use suite are simple.
LEMMA TokenCallsSimple ==
    ASSUME run \in 1 .. MaxRuns
    PROVE  /\ \A t \in Draws, s \in Users \cup Draws, p \in Purposes,
                 now \in Nat \cup {Now} :
                t[1] = run => Simple(IssueTo(t, s, p, now), run)
           /\ \A t, p, now : now \in Nat \cup {Now} =>
                Simple(Consume(t, p, now), run)
           /\ \A s : Simple(InvalidateAllFor(s), run)
           /\ \A u \in Uses : Simple(Issue(u), run) /\ Simple(Redeem(u), run)
<1>1. \A t \in Draws, s \in Users \cup Draws, p \in Purposes,
         now \in Nat \cup {Now} :
            t[1] = run => Simple(IssueTo(t, s, p, now), run)
  BY DEF IssueTo, Fit, Simple
<1>2. \A t, p, now : now \in Nat \cup {Now} => Simple(Consume(t, p, now), run)
  BY DEF Consume, Fit, Simple
<1>3. \A s : Simple(InvalidateAllFor(s), run)
  BY DEF InvalidateAllFor, Fit, Simple
<1>4. \A u \in Uses : Simple(Issue(u), run) /\ Simple(Redeem(u), run)
  <2>1. user1 \in Users /\ "password-reset" \in Purposes
    BY DEF Users, Purposes
  <2>2. QED
    BY <1>1, <1>2, <2>1, NamesDiffer DEF Issue, Redeem
<1>5. QED
  BY <1>1, <1>2, <1>3, <1>4

\* The calls of the identity suite are fit.
LEMMA IdentityCallsFit ==
    ASSUME NEW r
    PROVE  /\ conformanceIdentity \in Bindings!Identity
           /\ \A e \in Emails : [conformanceIdentity EXCEPT !.email = e]
                                    \in Bindings!Identity
           /\ \A k \in Keys, e \in Emails :
                [conformanceIdentity EXCEPT !.key = k, !.email = e]
                    \in Bindings!Identity
           /\ \A a \in Accounts, e \in Emails, v \in BOOLEAN :
                Simple(CreateAccount(a, e, v), r)
           /\ \A op, a, identity :
                (/\ op \notin {"createSession", "rotate", "bumpEpoch",
                               "issue", "consume", "createAccount"}
                 /\ op \in {"bind", "claim", "link", "resolve"} =>
                        identity \in Bindings!Identity)
                => Fit(Ask(op, a, identity), r)
<1>1. 0 \in Keys /\ <<"conformance", 0>> \in Emails
  BY SuiteAssumption DEF Keys, Emails
<1>2. \A k \in Keys, e \in Emails :
        [key |-> k, email |-> e, emailAuthority |-> "hosted"]
            \in Bindings!Identity
  BY DEF Bindings!Identity
<1>3. \A a \in Accounts, e \in Emails, v \in BOOLEAN :
        Simple(CreateAccount(a, e, v), r)
  BY DEF CreateAccount, Fit, Simple, Bindings!Row
<1>4. \A op, a, identity :
        (/\ op \notin {"createSession", "rotate", "bumpEpoch",
                       "issue", "consume", "createAccount"}
         /\ op \in {"bind", "claim", "link", "resolve"} =>
                identity \in Bindings!Identity)
        => Fit(Ask(op, a, identity), r)
  BY DEF Ask, Fit
<1>5. ASSUME NEW k \in Keys, NEW e \in Emails
      PROVE  [conformanceIdentity EXCEPT !.key = k, !.email = e]
                \in Bindings!Identity
  <2>1. PICK i : i = [conformanceIdentity EXCEPT !.key = k]
    OBVIOUS
  <2>2. i = [key |-> k, email |-> <<"conformance", 0>>,
             emailAuthority |-> "hosted"]
    BY <2>1 DEF conformanceIdentity
  <2>3. [i EXCEPT !.email = e] =
            [key |-> k, email |-> e, emailAuthority |-> "hosted"]
    BY <2>2
  <2>4. QED
    BY <1>2, <2>1, <2>3
<1>6. \A e \in Emails :
        [conformanceIdentity EXCEPT !.email = e]
            = [key |-> 0, email |-> e, emailAuthority |-> "hosted"]
  BY DEF conformanceIdentity
<1>7. conformanceIdentity =
        [key |-> 0, email |-> <<"conformance", 0>>, emailAuthority |-> "hosted"]
  BY DEF conformanceIdentity
<1>8. /\ conformanceIdentity \in Bindings!Identity
      /\ \A e \in Emails : [conformanceIdentity EXCEPT !.email = e]
                                \in Bindings!Identity
  BY <1>1, <1>2, <1>6, <1>7
<1>9. QED
  BY <1>3, <1>4, <1>5, <1>8

\* A script written out is simple if its phases are.
LEMMA TuplesSimple ==
    ASSUME NEW r, NEW p1, NEW p2, NEW p3, NEW p4, NEW p5, NEW p6, NEW p7,
           NEW p8, SimplePhase(p1, r)
    PROVE  /\ SimpleScript(<<p1>>, r)
           /\ SimplePhase(p2, r) =>
                /\ SimpleScript(<<p1, p2>>, r)
                /\ SimplePhase(p3, r) =>
                    /\ SimpleScript(<<p1, p2, p3>>, r)
                    /\ SimplePhase(p4, r) =>
                        /\ SimpleScript(<<p1, p2, p3, p4>>, r)
                        /\ SimplePhase(p5, r) =>
                            /\ SimpleScript(<<p1, p2, p3, p4, p5>>, r)
                            /\ SimplePhase(p6, r) /\ SimplePhase(p7, r) =>
                                /\ SimpleScript(<<p1, p2, p3, p4, p5, p6, p7>>,
                                                r)
                                /\ SimplePhase(p8, r) =>
                                    SimpleScript(<<p1, p2, p3, p4, p5, p6, p7,
                                                   p8>>, r)
  BY DEF SimpleScript

\* The phases of one call that the refresh suite is made of.
LEMMA SessionPhasesSimple ==
    ASSUME run \in 1 .. MaxRuns
    PROVE  /\ \A A : \A u \in Uses, user \in Users :
                SimplePhase(Alone(LoginAs(u, user), A), run)
           /\ \A A : \A u, v \in Uses : u # v =>
                SimplePhase(Alone(Refresh(u, v), A), run)
           /\ \A A : \A old \in Draws, u \in Uses, g, now \in Nat \cup {Now} :
                old # It(u) =>
                    SimplePhase(Alone(Rotate(old, It(u), g, now), A), run)
           /\ \A A : \A u \in Uses : SimplePhase(Alone(FindByHash(u), A), run)
           /\ \A A : \A u \in Uses : SimplePhase(Alone(RevokeFamily(u), A), run)
<1>1. \A c, A : Simple(c, run) => SimplePhase(Alone(c, A), run)
  BY AloneFit
<1>2. \A u \in Uses : It(u) \in Draws /\ It(u)[1] = run
  BY NamesDiffer
<1>3. QED
  BY <1>1, <1>2, SessionCallsSimple

\* Every test of the refresh suite has a simple script.
LEMMA RefreshScriptsSimple ==
    ASSUME run \in 1 .. MaxRuns, test \in RefreshTests,
           options \in Options
    PROVE  SimpleScript(Script(test), run)
<1> USE SessionPhasesSimple, TuplesSimple
<1>1. /\ user1 \in Users /\ user2 \in Users
      /\ Unknown \in Draws
      /\ \A u \in Uses : It(u) # Unknown /\ It(u) \in Draws
      /\ \A u, v \in Uses : u # v => It(u) # It(v)
      /\ {Now, Grace, Grace + 1, 0, 1, 2} \subseteq Nat \cup {Now}
  <2>1. user1 \in Users /\ user2 \in Users /\ Unknown \in Draws
    BY SuiteAssumption DEF Users, Unknown, Draws, Uses
  <2>2. {Now, Grace, Grace + 1, 0, 1, 2} \subseteq Nat \cup {Now}
    BY SuiteAssumption
  <2>3. QED
    BY <2>1, <2>2, NamesDiffer
<1>2. {"issued", "next", "sibling", "other", "third", "r1", "r2", "r3",
       "racer", "unknown"} \subseteq Uses
  BY DEF Uses
<1>3. SimpleScript(StoresTheHash, run)
  BY <1>1, <1>2 DEF StoresTheHash
<1>4. SimpleScript(UnknownIsInvalid, run)
  BY <1>1, <1>2 DEF UnknownIsInvalid
<1>5. SimpleScript(ExpiredIsInvalid, run)
  <2>1. PICK c : c = [LoginAs("issued", user1) EXCEPT !.ttl = 1, !.now = 0]
    OBVIOUS
  <2>2. c = [op |-> "createSession", as |-> It("issued"), user |-> user1,
             ttl |-> 1, now |-> 0]
    BY <2>1 DEF LoginAs
  <2>3. It("issued")[1] = run
    BY <1>2, NamesDiffer
  <2>4. Simple(c, run)
    BY <1>1, <1>2, <2>2, <2>3 DEF Simple, Fit
  <2>5. SimplePhase(Alone(c, {"done"}), run)
    BY <2>4, AloneFit
  <2>6. SimplePhase(Alone(Rotate(It("issued"), It("next"), Grace, 2), Invalid),
                    run)
    BY <1>1, <1>2
  <2>7. QED
    BY <2>1, <2>5, <2>6 DEF ExpiredIsInvalid
<1>6. SimpleScript(RotateRace, run)
  <2>1. SimplePhase(RotateRace[2], run)
    <3>1. RotateRace[2].calls =
            [i \in 1 .. Concurrency |-> Rotate(It("issued"), Racer(i), 0, Now)]
      BY DEF RotateRace, Together, InParallel
    <3>2. \A i \in 1 .. Concurrency :
            /\ Racer(i) \in Draws /\ Racer(i)[1] = run
            /\ It("issued") # Racer(i)
      BY <1>2, NamesDiffer
    <3>3. ASSUME NEW i \in 1 .. Concurrency
          PROVE  Simple(Rotate(It("issued"), Racer(i), 0, Now), run)
      BY <1>1, <1>2, <3>2, SessionCallsSimple
    <3>4. QED
      BY <3>1, <3>3 DEF SimplePhase
  <2>2. SimplePhase(RotateRace[1], run)
    BY <1>1, <1>2 DEF RotateRace
  <2>3. RotateRace = <<RotateRace[1], RotateRace[2]>>
    BY DEF RotateRace
  <2>4. QED
    BY <2>1, <2>2, <2>3
<1>7. SimpleScript(ReplayOutsideWindow, run)
  BY <1>1, <1>2 DEF ReplayOutsideWindow
<1>8. SimpleScript(DefaultIsBenign, run)
  BY <1>1, <1>2 DEF DefaultIsBenign
<1>9. SimpleScript(DefaultIsInclusive, run) /\ SimpleScript(DefaultEnds, run)
  BY <1>1, <1>2 DEF DefaultIsInclusive, DefaultEnds, ReplayAfter
<1>10. SimpleScript(BenignRace, run)
  BY <1>1, <1>2 DEF BenignRace
<1>11. SimpleScript(RevokeFamilyKills, run)
  BY <1>1, <1>2 DEF RevokeFamilyKills
<1>12. SimpleScript(RevokeAllKills, run)
  <2>1. Simple([op |-> "revokeAllForUser", user |-> user1], run)
    BY DEF Simple, Fit
  <2>2. SimplePhase(Alone([op |-> "revokeAllForUser", user |-> user1],
                          {"done"}), run)
    BY <2>1, AloneFit
  <2>3. QED
    BY <1>1, <1>2, <2>2 DEF RevokeAllKills
<1>13. SimpleScript(BumpsAdvance, run)
  <2>1. Simple([op |-> "bumpEpoch", user |-> user1], run)
    BY <1>1 DEF Simple, Fit
  <2>2. \A A : SimplePhase(Alone([op |-> "bumpEpoch", user |-> user1], A), run)
    BY <2>1, AloneFit
  <2>3. QED
    BY <2>2 DEF BumpsAdvance
<1>14. SimpleScript(DefectA, run)
  <2>1. /\ Simple(Refresh("issued", "sibling"), run)
        /\ Simple(RevokeFamily("issued"), run)
    BY <1>2, SessionCallsSimple
  <2>2. DefectA[3].calls =
            <<Refresh("issued", "sibling"), RevokeFamily("issued")>>
    BY DEF DefectA, Together
  <2>3. SimplePhase(DefectA[3], run)
    BY <2>1, <2>2 DEF SimplePhase
  <2>4. /\ SimplePhase(DefectA[1], run)
        /\ SimplePhase(DefectA[2], run)
        /\ SimplePhase(DefectA[4], run)
    BY <1>1, <1>2 DEF DefectA
  <2>5. DefectA = <<DefectA[1], DefectA[2], DefectA[3], DefectA[4]>>
    BY DEF DefectA
  <2>6. QED
    BY <2>3, <2>4, <2>5
<1>15. QED
  BY <1>3, <1>4, <1>5, <1>6, <1>7, <1>8, <1>9, <1>10, <1>11, <1>12, <1>13,
     <1>14, RefreshScripts DEF RefreshTests

-----------------------------------------------------------------------------
(* The scripts that repeat a race.                                         *)

\* Phase k is phase PlaceAt of round RoundAt, of n phases each.
RoundAt(n, k) == ((k - 1) \div n) + 1

PlaceAt(n, k) == ((k - 1) % n) + 1

ConsumeRound(r) ==
    <<Alone(IssueTo(Drawn(r, "issued"), Drawn(r, "issued"), "password-reset",
                    Now), {"issued"}),
      Together([i \in 1 .. Concurrency |->
                    Consume(Drawn(r, "issued"), "password-reset", Now)],
               ExactlyOne("consumed")
               \cap [1 .. Concurrency -> {"consumed", "already-consumed"}])>>

SmokeRound(r) ==
    <<Alone(IssueTo(Drawn(r, "issued"), Drawn(r, "issued"), "password-reset",
                    Now), {"issued"}),
      Together(<<Consume(Drawn(r, "issued"), "password-reset", Now),
                 InvalidateAllFor(Drawn(r, "issued"))>>,
               {"consumed", "already-consumed"} \X {"done"}),
      Alone(Consume(Drawn(r, "issued"), "password-reset", Now),
            {"already-consumed"})>>

ClaimIdentity(r) ==
    [conformanceIdentity EXCEPT !.key = r, !.email = <<"claim-race", r>>]

ClaimRound(r) ==
    <<Alone(CreateAccount(<<"claim-race", r>>, <<"claim-race", r>>, FALSE),
            {"done"}),
      Together([i \in 1 .. Concurrency |->
                    Ask("claim", <<"claim-race", r>>, ClaimIdentity(r))],
               ExactlyOne("claimed")),
      Alone(Ask("findById", <<"claim-race", r>>, ClaimIdentity(r)),
            {"verified"})>>

\* The phases of m rounds of n phases: each is a place in a round, and the
\* next one is the next place or begins the next round.
LEMMA RoundArithmetic ==
    ASSUME NEW n \in {2, 3}, NEW m \in Nat, NEW k \in 1 .. n * m
    PROVE  /\ RoundAt(n, k) \in 1 .. m
           /\ PlaceAt(n, k) \in 1 .. n
           /\ k = n * (RoundAt(n, k) - 1) + PlaceAt(n, k)
           /\ PlaceAt(n, k) < n =>
                /\ RoundAt(n, k + 1) = RoundAt(n, k)
                /\ PlaceAt(n, k + 1) = PlaceAt(n, k) + 1
                /\ k + 1 \in 1 .. n * m
           /\ PlaceAt(n, k) = n =>
                /\ RoundAt(n, k + 1) = RoundAt(n, k) + 1
                /\ PlaceAt(n, k + 1) = 1
<1>1. CASE n = 2
  BY <1>1 DEF RoundAt, PlaceAt
<1>2. CASE n = 3
  BY <1>2 DEF RoundAt, PlaceAt
<1>3. QED
  BY <1>1, <1>2

\* EveryRound, phase by phase.
LEMMA RoundScripts ==
    /\ ConsumeRace = [k \in 1 .. 2 * Rounds |->
                        ConsumeRound(RoundAt(2, k))[PlaceAt(2, k)]]
    /\ ConsumeInvalidateSmoke = [k \in 1 .. 3 * Rounds |->
                        SmokeRound(RoundAt(3, k))[PlaceAt(3, k)]]
    /\ ClaimRace = [k \in 1 .. 3 * Rounds |->
                        ClaimRound(RoundAt(3, k))[PlaceAt(3, k)]]
<1>1. ConsumeRace = [k \in 1 .. 2 * Rounds |->
                        ConsumeRound(RoundAt(2, k))[PlaceAt(2, k)]]
  BY DEF ConsumeRace, EveryRound, InParallel, ConsumeRound, RoundAt, PlaceAt
<1>2. ConsumeInvalidateSmoke = [k \in 1 .. 3 * Rounds |->
                        SmokeRound(RoundAt(3, k))[PlaceAt(3, k)]]
  BY DEF ConsumeInvalidateSmoke, EveryRound, SmokeRound, RoundAt, PlaceAt
<1>3. ClaimRace = [k \in 1 .. 3 * Rounds |->
                        ClaimRound(RoundAt(3, k))[PlaceAt(3, k)]]
  BY DEF ClaimRace, EveryRound, InParallel, ClaimRound, RoundAt, PlaceAt,
     ClaimIdentity
<1>4. QED
  BY <1>1, <1>2, <1>3

\* What a suite makes of the options it was given is a number.
LEMMA OptionsTyped ==
    ASSUME options \in Options
    PROVE  /\ options.concurrency \in Nat \cup {NotANumber}
           /\ options.raceRepeats \in 0 .. MaxRounds \cup {NotANumber}
           /\ Concurrency \in Nat /\ Rounds \in 0 .. MaxRounds
           /\ MaxRounds \in Nat
  BY SuiteAssumption DEF Concurrency, Rounds, Elements, NotANumber

\* The phases of one call that the single-use suite is made of.
LEMMA TokenPhasesSimple ==
    ASSUME run \in 1 .. MaxRuns
    PROVE  /\ \A A : \A n \in Nat, u \in Uses, s \in Users \cup Draws,
                 p \in Purposes, now \in Nat \cup {Now} :
                SimplePhase(Alone(IssueTo(Drawn(n, u), s, p, now), A), run)
           /\ \A A : \A u \in Uses, s \in Users \cup Draws,
                 p \in Purposes, now \in Nat \cup {Now} :
                SimplePhase(Alone(IssueTo(It(u), s, p, now), A), run)
           /\ \A t, p, now, A : now \in Nat \cup {Now} =>
                SimplePhase(Alone(Consume(t, p, now), A), run)
           /\ \A s, A : SimplePhase(Alone(InvalidateAllFor(s), A), run)
           /\ \A A : \A u \in Uses : /\ SimplePhase(Alone(Issue(u), A), run)
                                 /\ SimplePhase(Alone(Redeem(u), A), run)
<1>1. \A c, A : Simple(c, run) => SimplePhase(Alone(c, A), run)
  BY AloneFit
<1>2. \A n \in Nat, u \in Uses : Drawn(n, u) \in Draws /\ Drawn(n, u)[1] = run
  BY NamesDiffer
<1>3. \A u \in Uses : It(u) \in Draws /\ It(u)[1] = run
  BY NamesDiffer
<1>4. QED
  BY <1>1, <1>2, <1>3, TokenCallsSimple

\* The phases of its races' rounds.
LEMMA RoundsSimple ==
    ASSUME run \in 1 .. MaxRuns, NEW r \in Nat, NEW m
    PROVE  /\ m \in 1 .. 2 => SimplePhase(ConsumeRound(r)[m], run)
           /\ m \in 1 .. 3 => SimplePhase(SmokeRound(r)[m], run)
<1>1. /\ "issued" \in Uses /\ "password-reset" \in Purposes
      /\ Now \in Nat \cup {Now}
  BY DEF Uses, Purposes
<1>2. Drawn(r, "issued") \in Draws
  BY <1>1, NamesDiffer
<1>3. \A A : SimplePhase(Alone(IssueTo(Drawn(r, "issued"), Drawn(r, "issued"),
                                       "password-reset", Now), A), run)
  BY <1>1, <1>2, TokenPhasesSimple
<1>4. \A A : SimplePhase(Alone(Consume(Drawn(r, "issued"), "password-reset",
                                       Now), A), run)
  BY <1>1, TokenPhasesSimple
<1>5. /\ Simple(Consume(Drawn(r, "issued"), "password-reset", Now), run)
      /\ Simple(InvalidateAllFor(Drawn(r, "issued")), run)
  BY <1>1, TokenCallsSimple
<1>6. SimplePhase(ConsumeRound(r)[2], run)
  BY <1>5 DEF ConsumeRound, Together, SimplePhase
<1>7. SimplePhase(SmokeRound(r)[2], run)
  BY <1>5 DEF SmokeRound, Together, SimplePhase
<1>8. SimplePhase(ConsumeRound(r)[1], run)
  BY <1>3 DEF ConsumeRound
<1>9. SimplePhase(SmokeRound(r)[1], run) /\ SimplePhase(SmokeRound(r)[3], run)
  BY <1>3, <1>4 DEF SmokeRound
<1>10. m \in 1 .. 2 => m = 1 \/ m = 2
  OBVIOUS
<1>11. m \in 1 .. 3 => m = 1 \/ m = 2 \/ m = 3
  OBVIOUS
<1>12. QED
  BY <1>6, <1>7, <1>8, <1>9, <1>10, <1>11

\* Every test of the single-use suite has a simple script.
LEMMA SingleUseScriptsSimple ==
    ASSUME run \in 1 .. MaxRuns, test \in SingleUseTests,
           options \in Options
    PROVE  SimpleScript(Script(test), run)
<1> USE TokenPhasesSimple, TuplesSimple
<1>1. /\ user1 \in Users \cup Draws /\ user2 \in Users \cup Draws
      /\ "password-reset" \in Purposes /\ "invite" \in Purposes
      /\ \A u \in Uses : It(u) \in Users \cup Draws
      /\ {Now, 0, Ttl, Ttl + 1, Ttl + 10} \subseteq Nat \cup {Now}
  <2>1. user1 \in Users /\ user2 \in Users
    BY DEF Users
  <2>2. "password-reset" \in Purposes /\ "invite" \in Purposes
    BY DEF Purposes
  <2>3. {Now, 0, Ttl, Ttl + 1, Ttl + 10} \subseteq Nat \cup {Now}
    BY SuiteAssumption
  <2>4. QED
    BY <2>1, <2>2, <2>3, NamesDiffer
<1>2. "issued" \in Uses /\ "other" \in Uses /\ "third" \in Uses
  BY DEF Uses
<1>3. SimpleScript(HappyPath, run)
  BY <1>1, <1>2 DEF HappyPath
<1>4. SimpleScript(UnknownTokenIsInvalid, run)
  BY <1>1, <1>2 DEF UnknownTokenIsInvalid
<1>5. SimpleScript(ReplayIsConsumed, run)
  BY <1>1, <1>2 DEF ReplayIsConsumed
<1>6. SimpleScript(InvalidatedThenConsumed, run)
  BY <1>1, <1>2 DEF InvalidatedThenConsumed
<1>7. /\ SimpleScript(ExpiredStaysExpired, run)
      /\ SimpleScript(ExpiryIsInclusive, run)
  BY <1>1, <1>2 DEF ExpiredStaysExpired, ExpiryIsInclusive, IssuedAtTheStart,
     ExpiredAt
<1>8. SimpleScript(PurposeIsolation, run)
  BY <1>1, <1>2 DEF PurposeIsolation
<1>9. SimpleScript(InvalidationIsExact, run)
  <2>1. /\ SimplePhase(InvalidationIsExact[1], run)
        /\ SimplePhase(InvalidationIsExact[6], run)
        /\ SimplePhase(InvalidationIsExact[7], run)
    BY <1>1, <1>2 DEF InvalidationIsExact
  <2>2. /\ SimplePhase(InvalidationIsExact[4], run)
        /\ SimplePhase(InvalidationIsExact[5], run)
    BY <1>1, <1>2 DEF InvalidationIsExact
  <2>3. /\ SimplePhase(InvalidationIsExact[2], run)
        /\ SimplePhase(InvalidationIsExact[3], run)
        /\ SimplePhase(InvalidationIsExact[8], run)
    BY <1>1, <1>2 DEF InvalidationIsExact
  <2>4. InvalidationIsExact =
            <<InvalidationIsExact[1], InvalidationIsExact[2],
              InvalidationIsExact[3], InvalidationIsExact[4],
              InvalidationIsExact[5], InvalidationIsExact[6],
              InvalidationIsExact[7], InvalidationIsExact[8]>>
    BY DEF InvalidationIsExact
  <2>5. QED
    BY <2>1, <2>2, <2>3, <2>4
<1>10. SimpleScript(DuplicateRejected, run)
  BY <1>1, <1>2 DEF DuplicateRejected
<1>11. SimpleScript(IssueRace, run)
  <2>1. IssueRace[1].calls = [i \in 1 .. Concurrency |-> Issue("issued")]
    BY DEF IssueRace, Together, InParallel
  <2>2. Simple(Issue("issued"), run)
    BY <1>2, TokenCallsSimple
  <2>3. SimplePhase(IssueRace[1], run)
    BY <2>1, <2>2 DEF SimplePhase
  <2>4. IssueRace = <<IssueRace[1]>>
    BY DEF IssueRace
  <2>5. QED
    BY <2>3, <2>4
<1>12. SimpleScript(ConsumeRace, run) /\ SimpleScript(ConsumeInvalidateSmoke, run)
  <2>1. Rounds \in Nat
    BY OptionsTyped
  <2>2. ASSUME NEW k \in 1 .. 2 * Rounds
        PROVE  SimplePhase(ConsumeRace[k], run)
    <3>1. /\ RoundAt(2, k) \in Nat
          /\ PlaceAt(2, k) \in 1 .. 2
      BY <2>1, RoundArithmetic
    <3>2. ConsumeRace[k] = ConsumeRound(RoundAt(2, k))[PlaceAt(2, k)]
      BY RoundScripts
    <3>3. QED
      BY <3>1, <3>2, RoundsSimple
  <2>3. ASSUME NEW k \in 1 .. 3 * Rounds
        PROVE  SimplePhase(ConsumeInvalidateSmoke[k], run)
    <3>1. /\ RoundAt(3, k) \in Nat
          /\ PlaceAt(3, k) \in 1 .. 3
      BY <2>1, RoundArithmetic
    <3>2. ConsumeInvalidateSmoke[k] = SmokeRound(RoundAt(3, k))[PlaceAt(3, k)]
      BY RoundScripts
    <3>3. QED
      BY <3>1, <3>2, RoundsSimple
  <2>4. /\ DOMAIN ConsumeRace = 1 .. 2 * Rounds
        /\ DOMAIN ConsumeInvalidateSmoke = 1 .. 3 * Rounds
    BY RoundScripts
  <2>5. QED
    BY <2>1, <2>2, <2>3, <2>4 DEF SimpleScript
<1>13. QED
  BY <1>3, <1>4, <1>5, <1>6, <1>7, <1>8, <1>9, <1>10, <1>11, <1>12,
     SingleUseScripts DEF SingleUseTests

\* Every test of the identity suite has a fit script: what it binds to, it
\* made before.
LEMMA IdentityScriptsFit ==
    ASSUME run \in 1 .. MaxRuns, test \in IdentityTests,
           options \in Options
    PROVE  FitScript(Script(test), run)
<1>1. \A A : \A a \in Accounts, e \in Emails, v \in BOOLEAN :
        SimplePhase(Alone(CreateAccount(a, e, v), A), run)
  BY IdentityCallsFit, AloneFit
<1>2. \A A, a : \A op \in {"resolve", "findByIdentity", "findById"},
                    identity \in Bindings!Identity :
            SimplePhase(Alone(Ask(op, a, identity), A), run)
  <2>1. ASSUME NEW op \in {"resolve", "findByIdentity", "findById"}, NEW a,
               NEW identity \in Bindings!Identity, NEW A
        PROVE  SimplePhase(Alone(Ask(op, a, identity), A), run)
    <3>1. Simple(Ask(op, a, identity), run)
      BY IdentityCallsFit DEF Ask, Simple
    <3>2. QED
      BY <3>1, AloneFit
  <2>2. QED
    BY <2>1
<1>3. /\ \A name \in {"returning", "credentialed", "placeholder", "race",
                      "claim-race"}, n \in Nat :
            <<name, n>> \in Accounts /\ <<name, n>> \in Emails
      /\ <<"changed", 0>> \in Emails /\ <<"conformance", 0>> \in Emails
      /\ conformanceIdentity.email = <<"conformance", 0>>
      /\ conformanceIdentity \in Bindings!Identity
      /\ \A e \in Emails :
            [conformanceIdentity EXCEPT !.email = e] \in Bindings!Identity
  BY IdentityCallsFit DEF Accounts, Emails, conformanceIdentity
<1>4. \A a : \A op \in {"bind", "claim", "link"},
              identity \in Bindings!Identity :
        Fit(Ask(op, a, identity), run)
  BY IdentityCallsFit
<1>5. CASE test = "ReturningByKey"
  <2> DEFINE a == <<"returning", 0>>
             changed == [conformanceIdentity EXCEPT !.email = <<"changed", 0>>]
  <2>1. PICK T : T = ReturningByKey
    OBVIOUS
  <2>2. /\ DOMAIN T = 1 .. 3
        /\ T[1] = Alone(CreateAccount(a, a, TRUE), {"done"})
        /\ T[2] = Alone(Ask("bind", a, conformanceIdentity), {"linked"})
        /\ T[3] = Alone(Ask("resolve", Null, changed), {"returning"})
    BY <2>1 DEF ReturningByKey
  <2>3. a \in Accounts /\ a \in Emails /\ changed \in Bindings!Identity
    BY <1>3
  <2>4. /\ 1 \in DOMAIN T[1].calls
        /\ T[1].calls[1] = CreateAccount(a, a, TRUE)
        /\ \A i \in DOMAIN T[2].calls :
                T[2].calls[i] = Ask("bind", a, conformanceIdentity)
    <3>1. PICK c1, c2 : /\ c1 = CreateAccount(a, a, TRUE)
                        /\ c2 = Ask("bind", a, conformanceIdentity)
      OBVIOUS
    <3>2. T[1] = Alone(c1, {"done"}) /\ T[2] = Alone(c2, {"linked"})
      BY <2>2, <3>1
    <3>3. 1 \in DOMAIN T[1].calls /\ T[1].calls[1] = c1
      BY <3>2, AloneIs
    <3>4. \A i \in DOMAIN T[2].calls : T[2].calls[i] = c2
      BY <3>2, AloneIs
    <3>5. QED
      BY <3>1, <3>3, <3>4
  <2> HIDE DEF a, changed
  <2>5a. SimplePhase(T[1], run)
    BY <1>1, <2>2, <2>3
  <2>5. SimplePhase(T[3], run)
    BY <1>2, <2>2, <2>3
  <2>6. FitPhase(T[2], run)
    BY <1>3, <1>4, <2>2, AloneFit
  <2>7. MadeBefore(T, 2, a)
    <3>1. 1 \in DOMAIN T /\ 1 < 2
      BY <2>2
    <3>2. QED
      BY <2>4, <3>1 DEF MadeBefore, CreateAccount
  <2>8. FitScript(T, run)
    <3>1. \A i \in DOMAIN T[2].calls : T[2].calls[i].account = a
      BY <2>4 DEF Ask
    <3>2. \A k \in DOMAIN T : k = 1 \/ k = 2 \/ k = 3
      BY <2>2
    <3>3. QED
      BY <2>5a, <2>5, <2>6, <2>7, <3>1, <3>2
         DEF FitScript, SimplePhase, Simple, FitPhase
  <2>9. QED
    BY <1>5, <2>1, <2>8, IdentityScripts
<1>6. CASE test = "NeverAdopts"
  <2>1. PICK a : a = <<"credentialed", 0>>
    OBVIOUS
  <2>2. a \in Accounts
    BY <1>3, <2>1
  <2>3. /\ NeverAdopts[1] = Alone(CreateAccount(a, conformanceIdentity.email,
                                                TRUE), {"done"})
        /\ NeverAdopts[2] = Alone(Ask("resolve", Null, conformanceIdentity),
                                  {"account-exists"})
        /\ NeverAdopts[3] = Alone(Ask("findByIdentity", Null,
                                      conformanceIdentity), {"nobody"})
        /\ NeverAdopts = <<NeverAdopts[1], NeverAdopts[2], NeverAdopts[3]>>
    BY <2>1 DEF NeverAdopts
  <2>4. conformanceIdentity.email \in Emails
    BY <1>3
  <2>5. SimplePhase(NeverAdopts[1], run)
    BY <1>1, <2>2, <2>3, <2>4
  <2>6. SimplePhase(NeverAdopts[2], run) /\ SimplePhase(NeverAdopts[3], run)
    BY <1>2, <1>3, <2>3
  <2>7. SimpleScript(NeverAdopts, run)
    BY <2>3, <2>5, <2>6, TuplesSimple
  <2>8. QED
    BY <1>6, <2>7, IdentityScripts, SimpleFits
<1>7. CASE test = "ClaimsPlaceholder"
  <2>1. PICK a : a = <<"placeholder", 0>>
    OBVIOUS
  <2>2. a \in Accounts
    BY <1>3, <2>1
  <2>3. /\ ClaimsPlaceholder[1] = Alone(CreateAccount(a,
                            conformanceIdentity.email, FALSE), {"done"})
        /\ ClaimsPlaceholder[2] = Alone(Ask("resolve", Null,
                            conformanceIdentity), {"claimed-placeholder"})
        /\ ClaimsPlaceholder = <<ClaimsPlaceholder[1], ClaimsPlaceholder[2]>>
    BY <2>1 DEF ClaimsPlaceholder
  <2>4. conformanceIdentity.email \in Emails
    BY <1>3
  <2>5. SimplePhase(ClaimsPlaceholder[1], run)
    BY <1>1, <2>2, <2>3, <2>4
  <2>6. SimplePhase(ClaimsPlaceholder[2], run)
    BY <1>2, <1>3, <2>3
  <2>7. SimpleScript(ClaimsPlaceholder, run)
    BY <2>3, <2>5, <2>6, TuplesSimple
  <2>8. QED
    BY <1>7, <2>7, IdentityScripts, SimpleFits
<1>8. CASE test = "LinkRace"
  <2>1. PICK T : T = LinkRace
    OBVIOUS
  <2>2. T[1].calls = [i \in 1 .. Concurrency |->
                        CreateAccount(<<"race", i>>, <<"race", i>>, TRUE)]
    BY <2>1 DEF LinkRace, Together, InParallel
  <2>3. T[2].calls = [i \in 1 .. Concurrency |->
                        Ask("link", <<"race", i>>,
                            [conformanceIdentity EXCEPT
                                !.email = <<"race", i>>])]
    BY <2>1 DEF LinkRace, Together, InParallel
  <2>4. /\ DOMAIN T = 1 .. 3
        /\ T[3] = Alone(Ask("findByIdentity", Null, conformanceIdentity),
                        {"somebody"})
    BY <2>1 DEF LinkRace
  <2>5. SimplePhase(T[3], run)
    BY <1>2, <1>3, <2>4
  <2>6. ASSUME NEW i \in 1 .. Concurrency
        PROVE  /\ Simple(T[1].calls[i], run)
               /\ Fit(T[2].calls[i], run)
               /\ MadeBefore(T, 2, T[2].calls[i].account)
    <3>1. PICK a : a = <<"race", i>>
      OBVIOUS
    <3>2. a \in Accounts /\ a \in Emails
      BY <1>3, <3>1
    <3>3. PICK identity :
            identity = [conformanceIdentity EXCEPT !.email = a]
      OBVIOUS
    <3>4. identity \in Bindings!Identity
      BY <1>3, <3>2, <3>3
    <3>5. /\ T[1].calls[i] = CreateAccount(a, a, TRUE)
          /\ T[2].calls[i] = Ask("link", a, identity)
          /\ i \in DOMAIN T[1].calls
      BY <2>2, <2>3, <3>1, <3>3
    <3>6. Simple(T[1].calls[i], run)
      BY <3>2, <3>5, IdentityCallsFit
    <3>7. Fit(T[2].calls[i], run)
      BY <1>4, <3>4, <3>5
    <3>8. MadeBefore(T, 2, a)
      <4>1. 1 \in DOMAIN T /\ 1 < 2
        BY <2>4
      <4>2. QED
        BY <3>5, <4>1 DEF MadeBefore, CreateAccount
    <3>9. T[2].calls[i].account = a
      BY <3>5 DEF Ask
    <3>10. QED
      BY <3>6, <3>7, <3>8, <3>9
  <2>7. DOMAIN T[1].calls = 1 .. Concurrency /\ DOMAIN T[2].calls = 1 .. Concurrency
    BY <2>2, <2>3
  <2>8. FitScript(T, run)
    <3>1. ASSUME NEW k \in DOMAIN T
          PROVE  k = 1 \/ k = 2 \/ k = 3
      BY <2>4
    <3>2. /\ FitPhase(T[1], run) /\ FitPhase(T[2], run) /\ FitPhase(T[3], run)
          /\ \A i \in DOMAIN T[1].calls :
                T[1].calls[i].op \notin {"bind", "claim", "link"}
          /\ \A i \in DOMAIN T[3].calls :
                T[3].calls[i].op \notin {"bind", "claim", "link"}
      BY <2>5, <2>6, <2>7 DEF SimplePhase, Simple, FitPhase
    <3>3. \A i \in DOMAIN T[2].calls : MadeBefore(T, 2, T[2].calls[i].account)
      BY <2>6, <2>7
    <3>4. QED
      BY <3>1, <3>2, <3>3 DEF FitScript
  <2>9. QED
    BY <1>8, <2>1, <2>8, IdentityScripts
<1>9. CASE test = "ClaimRace"
  <2>1. Rounds \in Nat /\ 1 .. Rounds \subseteq Keys
    BY OptionsTyped DEF Keys
  <2>2. PICK T : T = ClaimRace
    OBVIOUS
  <2>3. DOMAIN T = 1 .. 3 * Rounds
    BY <2>2, RoundScripts
  <2>4. ASSUME NEW k \in DOMAIN T
        PROVE  /\ k \in Nat \ {0}
               /\ FitPhase(T[k], run)
               /\ \A i \in DOMAIN T[k].calls :
                    T[k].calls[i].op \in {"bind", "claim", "link"} =>
                        MadeBefore(T, k, T[k].calls[i].account)
    <3>1. PICK r, m : r = RoundAt(3, k) /\ m = PlaceAt(3, k)
      OBVIOUS
    <3>2. r \in 1 .. Rounds /\ m \in 1 .. 3 /\ k = 3 * (r - 1) + m
      BY <2>1, <2>3, <3>1, RoundArithmetic
    <3>3. T[k] = ClaimRound(r)[m] /\ k \in Nat \ {0}
      <4>1. k \in 1 .. 3 * Rounds
        BY <2>3
      <4>2. T = [j \in 1 .. 3 * Rounds |->
                    ClaimRound(RoundAt(3, j))[PlaceAt(3, j)]]
        BY <2>2, RoundScripts
      <4>3. T[k] = ClaimRound(r)[m]
        BY <3>1, <4>1, <4>2
      <4>4. QED
        BY <2>1, <4>1, <4>3
    <3>4. PICK a, identity : a = <<"claim-race", r>> /\ identity = ClaimIdentity(r)
      OBVIOUS
    <3>5. a \in Accounts /\ a \in Emails /\ identity \in Bindings!Identity
      <4>1. r \in Nat /\ r \in Keys
        BY <2>1, <3>2
      <4>2. a \in Accounts /\ a \in Emails
        BY <1>3, <3>4, <4>1
      <4>3. identity = [conformanceIdentity EXCEPT !.key = r, !.email = a]
        BY <3>4 DEF ClaimIdentity
      <4>4. identity \in Bindings!Identity
        BY <4>1, <4>2, <4>3, IdentityCallsFit
      <4>5. QED
        BY <4>2, <4>4
    <3>6. /\ ClaimRound(r)[1] = Alone(CreateAccount(a, a, FALSE), {"done"})
          /\ ClaimRound(r)[2].calls =
                [i \in 1 .. Concurrency |-> Ask("claim", a, identity)]
          /\ ClaimRound(r)[3] = Alone(Ask("findById", a, identity),
                                      {"verified"})
      BY <3>4 DEF ClaimRound, Together
    <3>7. CASE m = 1
      <4>1. T[k] = Alone(CreateAccount(a, a, FALSE), {"done"})
        BY <3>3, <3>6, <3>7
      <4>2. SimplePhase(T[k], run)
        BY <1>1, <3>5, <4>1
      <4>3. QED
        BY <3>3, <4>2 DEF SimplePhase, Simple, FitPhase
    <3>8. CASE m = 2
      <4>1. T[k].calls = [i \in 1 .. Concurrency |-> Ask("claim", a, identity)]
        BY <3>3, <3>6, <3>8
      <4>2. Fit(Ask("claim", a, identity), run)
        BY <1>4, <3>5
      <4>3. FitPhase(T[k], run)
        BY <4>1, <4>2 DEF FitPhase
      <4>4. /\ k - 1 \in DOMAIN T /\ RoundAt(3, k - 1) = r
            /\ PlaceAt(3, k - 1) = 1
        BY <2>1, <2>3, <3>2, <3>8 DEF RoundAt, PlaceAt
      <4>5. T[k - 1] = ClaimRound(r)[1]
        BY <2>2, <2>3, <4>4, RoundScripts
      <4>6. /\ 1 \in DOMAIN T[k - 1].calls
            /\ T[k - 1].calls[1] = CreateAccount(a, a, FALSE)
        <5>1. PICK c, p : c = CreateAccount(a, a, FALSE) /\ p = T[k - 1]
          OBVIOUS
        <5>2. p = Alone(c, {"done"})
          BY <3>6, <4>5, <5>1
        <5>3. 1 \in DOMAIN p.calls /\ p.calls[1] = c
          BY <5>2, AloneIs
        <5>4. QED
          BY <5>1, <5>3
      <4>7. MadeBefore(T, k, a)
        BY <2>1, <2>3, <3>2, <4>4, <4>6 DEF MadeBefore, CreateAccount
      <4>8. \A i \in DOMAIN T[k].calls : T[k].calls[i].account = a
        BY <4>1 DEF Ask
      <4>9. QED
        BY <3>3, <4>3, <4>7, <4>8
    <3>9. CASE m = 3
      <4>1. T[k] = Alone(Ask("findById", a, identity), {"verified"})
        BY <3>3, <3>6, <3>9
      <4>2. SimplePhase(T[k], run)
        BY <1>2, <3>5, <4>1
      <4>3. QED
        BY <3>3, <4>2 DEF SimplePhase, Simple, FitPhase
    <3>10. QED
      BY <3>2, <3>7, <3>8, <3>9
  <2>5. FitScript(T, run)
    BY <2>4 DEF FitScript
  <2>6. QED
    BY <1>9, <2>2, <2>5, IdentityScripts
<1>10. QED
  BY <1>5, <1>6, <1>7, <1>8, <1>9 DEF IdentityTests

\* Every script is fit.
LEMMA ScriptsFit ==
    ASSUME run \in 1 .. MaxRuns, test \in Tests, options \in Options
    PROVE  FitScript(Script(test), run)
  BY RefreshScriptsSimple, IdentityScriptsFit, SingleUseScriptsSimple,
     SimpleFits
     DEF Tests

-----------------------------------------------------------------------------
(* The tables and the calls, in every state.                               *)

Basics ==
    /\ adapter \in Adapters /\ options \in Options
    /\ clock \in 0 .. MaxTime /\ began \in 0 .. clock
    /\ run \in 1 .. MaxRuns /\ test \in Tests /\ phase \in Nat \ {0}
    /\ verdict \in {"running", "pass", "fail", "threw"}
    /\ stale \in BOOLEAN /\ lost \in BOOLEAN
    /\ test \in SingleUseTests /\ verdict # "threw" => AcceptsOptions

Tables == TypedDb(db) /\ NamedUpTo(db, run)

\* There is one job for each call of the phase.
JobsMatch ==
    /\ DOMAIN jobs = DOMAIN Calls
    /\ \A i \in DOMAIN jobs :
        IsJob(jobs[i]) /\ IsAsked(jobs[i].call, Calls[i], began, clock)

\* The tables that a call has read were good ones, and have only grown.
GoodView(d, c) ==
    /\ TypedDb(d) /\ NamedUpTo(d, run)
    /\ c.op \in {"bind", "claim"} => c.account \in DOMAIN d.accounts

Readers ==
    \A i \in DOMAIN jobs : jobs[i].stage = "read" =>
        /\ Split(jobs[i].call)
        /\ GoodView(jobs[i].seen, jobs[i].call)
        /\ Grown(jobs[i].seen, db)

\* The accounts that a test has made by now are there.
Made ==
    /\ \A a : MadeBefore(Script(test), phase, a) => a \in DOMAIN db.accounts
    /\ \A i \in DOMAIN jobs :
        jobs[i].stage = "answered" /\ jobs[i].call.op = "createAccount" =>
            jobs[i].call.account \in DOMAIN db.accounts

Shape == Basics /\ Tables /\ JobsMatch /\ Readers /\ Made

\* Put changes one call, and of it all but what was asked.
LEMMA PutEffect ==
    ASSUME NEW i \in DOMAIN jobs, IsJob(jobs[i]), NEW stage, NEW seen,
           NEW answer, Put(i, stage, seen, answer)
    PROVE  /\ DOMAIN jobs' = DOMAIN jobs
           /\ jobs'[i] = [stage |-> stage, seen |-> seen, answer |-> answer,
                          call |-> jobs[i].call]
           /\ \A j \in DOMAIN jobs \ {i} : jobs'[j] = jobs[j]
<1>1. PICK c, s, d, a :
        jobs[i] = [stage |-> s, seen |-> d, answer |-> a, call |-> c]
  BY DEF IsJob
<1>2. jobs[i].call = c
  BY <1>1
<1>3. PICK j1 : j1 = [jobs EXCEPT ![i].stage = stage]
  OBVIOUS
<1>4. PICK j2 : j2 = [j1 EXCEPT ![i].seen = seen]
  OBVIOUS
<1>5. jobs' = [j2 EXCEPT ![i].answer = answer]
  BY <1>3, <1>4 DEF Put
<1>6. /\ DOMAIN j1 = DOMAIN jobs
      /\ j1[i] = [stage |-> stage, seen |-> d, answer |-> a, call |-> c]
      /\ \A j \in DOMAIN jobs \ {i} : j1[j] = jobs[j]
  BY <1>1, <1>3
<1>7. /\ DOMAIN j2 = DOMAIN jobs
      /\ j2[i] = [stage |-> stage, seen |-> seen, answer |-> a, call |-> c]
      /\ \A j \in DOMAIN jobs \ {i} : j2[j] = jobs[j]
  BY <1>4, <1>6
<1>8. /\ DOMAIN jobs' = DOMAIN jobs
      /\ jobs'[i] = [stage |-> stage, seen |-> seen, answer |-> answer,
                     call |-> c]
      /\ \A j \in DOMAIN jobs \ {i} : jobs'[j] = jobs[j]
  BY <1>5, <1>7
<1>9. QED
  BY <1>2, <1>8

\* Within a phase the calls are the same.
LEMMA CallsKept ==
    ASSUME UNCHANGED <<test, run, options, phase>>
    PROVE  Script(test)' = Script(test) /\ Calls' = Calls
<1>1. Script(test)' = Script(test)
  BY ScriptKept
<1>2. QED
  BY <1>1 DEF Calls

\* What is asked in a phase is proper, and asked of accounts that are there.
LEMMA JobProper ==
    ASSUME Basics, JobsMatch, NEW i \in DOMAIN jobs
    PROVE  /\ Proper(jobs[i].call, run)
           /\ jobs[i].call.op \in {"bind", "claim", "link"} =>
                MadeBefore(Script(test), phase, jobs[i].call.account)
           /\ run \in Nat \ {0} /\ clock \in Nat
<1>1. FitScript(Script(test), run)
  BY ScriptsFit DEF Basics
<1>2. IsAsked(jobs[i].call, Calls[i], began, clock)
  BY DEF JobsMatch
<1>3. phase \in DOMAIN Script(test) /\ Calls = Script(test)[phase].calls
  BY DEF JobsMatch, Calls
<1>4. i \in DOMAIN Calls
  BY DEF JobsMatch
<1>5. PICK c : c = Calls[i]
  OBVIOUS
<1>6. /\ Fit(c, run)
      /\ c.op \in {"bind", "claim", "link"} =>
            MadeBefore(Script(test), phase, c.account)
  BY <1>1, <1>3, <1>4, <1>5 DEF FitScript, FitPhase
<1>7. Proper(jobs[i].call, run)
  BY <1>2, <1>5, <1>6, AskedProper
<1>8. ASSUME jobs[i].call.op \in {"bind", "claim", "link"}
      PROVE  MadeBefore(Script(test), phase, jobs[i].call.account)
  <2>1. c.op \in {"bind", "claim", "link"}
    BY <1>2, <1>5, <1>8 DEF IsAsked
  <2>2. jobs[i].call.account = c.account
    BY <1>2, <1>5, <1>6, <2>1 DEF IsAsked, Fit
  <2>3. QED
    BY <1>6, <2>1, <2>2
<1>9. run \in Nat \ {0} /\ clock \in Nat
  BY SuiteAssumption DEF Basics
<1>10. QED
  BY <1>7, <1>8, <1>9

\* What a step of a call does to the tables.
LEMMA JobKeepsTables ==
    ASSUME Shape, NEW i \in DOMAIN jobs,
           Serve(i) \/ Read(i) \/ Write(i) \/ LinkLooks(i)
    PROVE  Kept(db, db', run)
<1>1. /\ Proper(jobs[i].call, run) /\ run \in Nat \ {0} /\ clock \in Nat
      /\ jobs[i].call.op \in {"bind", "claim"} =>
            jobs[i].call.account \in DOMAIN db.accounts
  BY JobProper DEF Shape, Made
<1>2. TypedDb(db) /\ NamedUpTo(db, run)
  BY DEF Shape, Tables
<1>3. CASE Serve(i)
  <2>1. db' = TablesAfter(db, jobs[i].call)
    BY <1>3 DEF Serve
  <2>2. QED
    BY <1>1, <1>2, <2>1, CallTyped
<1>4. CASE Write(i)
  <2>1. PICK seen, decided : /\ seen = jobs[i].seen
                             /\ decided = TablesAfter(seen, jobs[i].call)
    OBVIOUS
  <2>2. db' = Merge(seen, decided) /\ jobs[i].stage = "read"
    BY <1>4, <2>1 DEF Write
  <2>3. GoodView(seen, jobs[i].call) /\ Grown(seen, db)
    BY <2>1, <2>2 DEF Shape, Readers
  <2>4. Kept(seen, decided, run)
    BY <1>1, <2>1, <2>3, CallTyped DEF GoodView
  <2>5. QED
    BY <1>2, <2>2, <2>3, <2>4, MergeTyped DEF GoodView
<1>5. CASE Read(i) \/ LinkLooks(i)
  <2>1. db' = db
    BY <1>5 DEF Read, LinkLooks
  <2>2. QED
    BY <1>2, <2>1 DEF Kept, Grown
<1>6. QED
  BY <1>3, <1>4, <1>5

\* What it does to the jobs: the stage goes on, the call stays the same.
LEMMA JobKeepsJobs ==
    ASSUME Shape, NEW i \in DOMAIN jobs,
           Serve(i) \/ Read(i) \/ Write(i) \/ LinkLooks(i)
    PROVE  /\ DOMAIN jobs' = DOMAIN jobs
           /\ \A j \in DOMAIN jobs \ {i} : jobs'[j] = jobs[j]
           /\ IsJob(jobs'[i])
           /\ \/ jobs'[i].call = jobs[i].call
              \/ /\ jobs[i].call.op = "link"
                 /\ jobs'[i].stage = "asked"
                 /\ jobs'[i].call = [jobs[i].call EXCEPT !.op = "bind"]
           /\ jobs'[i].stage = "read" =>
                Read(i) /\ jobs'[i].seen = db /\ jobs'[i].call = jobs[i].call
           /\ jobs'[i].stage = "answered" =>
                \/ Serve(i) \/ Write(i)
                \/ jobs[i].call.op = "link" /\ jobs'[i].answer = "refused"
<1>1. IsJob(jobs[i])
  BY DEF Shape, JobsMatch
<1>2. ASSUME NEW stage \in {"asked", "read", "answered"}, NEW seen, NEW answer,
             Put(i, stage, seen, answer)
      PROVE  /\ DOMAIN jobs' = DOMAIN jobs
             /\ \A j \in DOMAIN jobs \ {i} : jobs'[j] = jobs[j]
             /\ IsJob(jobs'[i])
             /\ jobs'[i].call = jobs[i].call
             /\ jobs'[i].stage = stage
             /\ jobs'[i].seen = seen
             /\ jobs'[i].answer = answer
  <2>1. /\ DOMAIN jobs' = DOMAIN jobs
        /\ jobs'[i] = [stage |-> stage, seen |-> seen, answer |-> answer,
                       call |-> jobs[i].call]
        /\ \A j \in DOMAIN jobs \ {i} : jobs'[j] = jobs[j]
    BY <1>1, <1>2, PutEffect
  <2>2. QED
    BY <2>1 DEF IsJob
<1>3. CASE Serve(i)
  BY <1>2, <1>3 DEF Serve
<1>4. CASE Read(i)
  <2>1. Put(i, "read", db, Null)
    BY <1>4 DEF Read
  <2>2. QED
    BY <1>2, <1>4, <2>1
<1>5. CASE Write(i)
  BY <1>2, <1>5 DEF Write
<1>6. CASE LinkLooks(i)
  <2>1. CASE jobs' = [jobs EXCEPT ![i].call.op = "bind"]
    <3>1. PICK c, s, d, a :
            jobs[i] = [stage |-> s, seen |-> d, answer |-> a, call |-> c]
      BY <1>1 DEF IsJob
    <3>2. /\ jobs'[i] = [jobs[i] EXCEPT !.call.op = "bind"]
          /\ DOMAIN jobs' = DOMAIN jobs
          /\ \A j \in DOMAIN jobs \ {i} : jobs'[j] = jobs[j]
      BY <2>1
    <3>3. s = "asked" /\ c.op = "link" /\ jobs[i].call = c
      BY <1>6, <3>1 DEF LinkLooks
    <3>4. jobs'[i] = [stage |-> s, seen |-> d, answer |-> a,
                      call |-> [c EXCEPT !.op = "bind"]]
      BY <3>1, <3>2
    <3>5. PICK bind : bind = [c EXCEPT !.op = "bind"]
      OBVIOUS
    <3>6. jobs'[i] = [stage |-> "asked", seen |-> d, answer |-> a,
                      call |-> bind]
      BY <3>3, <3>4, <3>5
    <3>7. IsJob(jobs'[i]) /\ jobs'[i].stage = "asked" /\ jobs'[i].call = bind
      BY <3>6 DEF IsJob
    <3>8. QED
      BY <3>2, <3>3, <3>5, <3>7
  <2>2. CASE Put(i, "answered", Null, "refused")
    BY <1>2, <1>6, <2>2 DEF LinkLooks
  <2>3. QED
    BY <1>6, <2>1, <2>2 DEF LinkLooks
<1>7. QED
  BY <1>3, <1>4, <1>5, <1>6

\* A step of a call keeps the shape.
LEMMA JobKeepsShape ==
    ASSUME Shape, verdict = "running", NEW i \in DOMAIN jobs,
           Serve(i) \/ Read(i) \/ Write(i) \/ LinkLooks(i)
    PROVE  Shape'
<1>1. /\ UNCHANGED <<adapter, options, clock, began, run, test, phase, verdict>>
      /\ stale' \in BOOLEAN /\ lost' \in BOOLEAN
  BY DEF Serve, Read, Write, LinkLooks, Answered, Shape, Basics
<1>2. Kept(db, db', run)
  BY JobKeepsTables
<1>3. Script(test)' = Script(test) /\ Calls' = Calls
  BY <1>1, CallsKept
<1>4. Basics'
  BY <1>1 DEF Shape, Basics, AcceptsOptions
<1>5. Tables'
  BY <1>1, <1>2 DEF Tables, Kept
<1>6. JobsMatch'
  <2>1. DOMAIN jobs' = DOMAIN Calls'
    BY <1>3, JobKeepsJobs DEF Shape, JobsMatch
  <2>2. ASSUME NEW j \in DOMAIN jobs
        PROVE  /\ IsJob(jobs[j])
               /\ IsAsked(jobs[j].call, Calls[j], began, clock)
    BY DEF Shape, JobsMatch
  <2>3. IsAsked(jobs'[i].call, Calls[i], began, clock)
    <3>1. CASE jobs'[i].call = jobs[i].call
      BY <2>2, <3>1
    <3>2. CASE /\ jobs[i].call.op = "link"
               /\ jobs'[i].call = [jobs[i].call EXCEPT !.op = "bind"]
      <4>1. Proper(jobs[i].call, run)
        BY JobProper DEF Shape
      <4>2. PICK c, d, e : /\ c = Calls[i] /\ d = jobs[i].call
                           /\ e = jobs'[i].call
        OBVIOUS
      <4>3. /\ IsAsked(d, c, began, clock) /\ d.op = "link"
            /\ e = [d EXCEPT !.op = "bind"] /\ "op" \in DOMAIN d
        BY <2>2, <3>2, <4>1, <4>2 DEF Proper, Fit
      <4>4. /\ DOMAIN e = DOMAIN d /\ e.op = "bind"
            /\ \A f \in DOMAIN d \ {"op"} : e[f] = d[f]
            /\ "now" \in DOMAIN d => e.now = d.now
        BY <4>3
      <4>5. c.op = "link"
        BY <4>3 DEF IsAsked
      <4>6. IsAsked(e, c, began, clock)
        BY <4>3, <4>4, <4>5 DEF IsAsked
      <4>7. QED
        BY <4>2, <4>6
    <3>3. QED
      BY <3>1, <3>2, JobKeepsJobs
  <2>4. \A j \in DOMAIN jobs' :
            IsJob(jobs'[j]) /\ IsAsked(jobs'[j].call, Calls[j], began, clock)
    BY <2>2, <2>3, JobKeepsJobs
  <2>5. QED
    BY <1>1, <1>3, <2>1, <2>4 DEF JobsMatch
<1>7. Readers'
  <2>1. ASSUME NEW j \in DOMAIN jobs', jobs'[j].stage = "read"
        PROVE  /\ Split(jobs'[j].call)
               /\ GoodView(jobs'[j].seen, jobs'[j].call)
               /\ Grown(jobs'[j].seen, db')
    <3>1. Grown(db, db')
      BY <1>2 DEF Kept
    <3>2. CASE j = i
      <4>1. /\ Read(i) /\ jobs'[j].seen = db
            /\ jobs'[j].call = jobs[i].call
        BY <2>1, <3>2, JobKeepsJobs
      <4>2. Split(jobs[i].call)
        BY <4>1 DEF Read
      <4>3. jobs[i].call.op \in {"bind", "claim"} =>
                jobs[i].call.account \in DOMAIN db.accounts
        BY JobProper DEF Shape, Made
      <4>4. GoodView(db, jobs[i].call)
        BY <4>3 DEF Shape, Tables, GoodView
      <4>5. QED
        BY <3>1, <4>1, <4>2, <4>4
    <3>3. CASE j # i
      <4>1. jobs'[j] = jobs[j] /\ j \in DOMAIN jobs
        BY <3>3, JobKeepsJobs
      <4>2. /\ Split(jobs[j].call) /\ GoodView(jobs[j].seen, jobs[j].call)
            /\ Grown(jobs[j].seen, db)
        BY <2>1, <4>1 DEF Shape, Readers
      <4>3. QED
        BY <3>1, <4>1, <4>2 DEF Grown
    <3>4. QED
      BY <3>2, <3>3
  <2>2. QED
    BY <1>1, <2>1 DEF Readers, Split, GoodView
<1>8. Made'
  <2>1. Grown(db, db')
    BY <1>2 DEF Kept
  <2>2. \A a : MadeBefore(Script(test), phase, a) => a \in DOMAIN db'.accounts
    BY <2>1 DEF Shape, Made, Grown
  <2>3. ASSUME NEW j \in DOMAIN jobs', jobs'[j].stage = "answered",
               jobs'[j].call.op = "createAccount"
        PROVE  jobs'[j].call.account \in DOMAIN db'.accounts
    <3>1. CASE j # i
      <4>1. jobs'[j] = jobs[j] /\ j \in DOMAIN jobs
        BY <3>1, JobKeepsJobs
      <4>2. QED
        BY <2>1, <2>3, <4>1 DEF Shape, Made, Grown
    <3>2. CASE j = i
      <4>1. jobs'[i].call = jobs[i].call
        BY <2>3, <3>2, JobKeepsJobs
      <4>2. ~Write(i) /\ jobs[i].call.op # "link"
        BY <2>3, <3>2, <4>1 DEF Shape, Readers, Split, Write
      <4>3. Serve(i)
        BY <2>3, <3>2, <4>2, JobKeepsJobs
      <4>4. db' = TablesAfter(db, jobs[i].call)
        BY <4>3 DEF Serve
      <4>5. db' = [db EXCEPT !.accounts =
                    Bindings!PutRow(@, jobs[i].call.account, jobs[i].call.row)]
        BY <2>3, <3>2, <4>1, <4>4 DEF TablesAfter
      <4>6. "accounts" \in DOMAIN db
        BY DEF Shape, Tables, TypedDb
      <4>7. DOMAIN db'.accounts = DOMAIN db.accounts \cup {jobs[i].call.account}
        BY <4>5, <4>6 DEF Bindings!PutRow
      <4>8. QED
        BY <3>2, <4>1, <4>7
    <3>3. QED
      BY <3>1, <3>2
  <2>4. QED
    BY <1>1, <1>3, <2>2, <2>3 DEF Made
<1>9. QED
  BY <1>4, <1>5, <1>6, <1>7, <1>8 DEF Shape

\* A phase that begins.
LEMMA BegunIs ==
    ASSUME NEW s, NEW r, FitScript(s, r), NEW k, NEW start \in Nat,
           clock \in Nat, start <= clock
    PROVE  /\ DOMAIN Begun(s, k, start) =
                DOMAIN (IF k \in DOMAIN s THEN s[k].calls ELSE <<>>)
           /\ \A i \in DOMAIN Begun(s, k, start) :
                LET j == Begun(s, k, start)[i]
                IN  /\ IsJob(j) /\ j.stage = "asked"
                    /\ k \in DOMAIN s /\ i \in DOMAIN s[k].calls
                    /\ IsAsked(j.call, s[k].calls[i], start, clock)
<1>1. CASE k \notin DOMAIN s
  BY <1>1 DEF Begun
<1>2. CASE k \in DOMAIN s
  <2>1. Begun(s, k, start) =
            [i \in DOMAIN s[k].calls |-> Asked(s[k].calls[i], start)]
    BY <1>2 DEF Begun
  <2>2. ASSUME NEW i \in DOMAIN s[k].calls
        PROVE  LET j == Asked(s[k].calls[i], start)
               IN  /\ IsJob(j) /\ j.stage = "asked"
                   /\ IsAsked(j.call, s[k].calls[i], start, clock)
    <3>1. PICK c : c = s[k].calls[i]
      OBVIOUS
    <3>2. Fit(c, r)
      BY <1>2, <3>1 DEF FitScript, FitPhase
    <3>3. "op" \in DOMAIN c /\ ("now" \in DOMAIN c => c.now \in Nat \cup {Now})
      BY <3>2 DEF Fit
    <3>4. PICK call : Asked(c, start) = [stage |-> "asked", seen |-> Null,
                                         answer |-> Null, call |-> call]
                      /\ call = IF "now" \notin DOMAIN c THEN c
                                ELSE [c EXCEPT !.now = IF @ = Now THEN clock
                                                       ELSE start + @]
      BY DEF Asked
    <3>5. IsAsked(call, c, start, clock)
      BY <3>3, <3>4 DEF IsAsked, Now
    <3>6. PICK j : j = Asked(c, start)
      OBVIOUS
    <3>7. IsJob(j) /\ j.stage = "asked" /\ j.call = call
      BY <3>4, <3>6 DEF IsJob
    <3>8. QED
      BY <3>1, <3>5, <3>6, <3>7
  <2>3. QED
    BY <1>2, <2>1, <2>2
<1>3. QED
  BY <1>1, <1>2

\* The shape of a state in which the jobs have just been asked.
LEMMA BegunShape ==
    ASSUME Basics, Tables, jobs = Begun(Script(test), phase, began),
           \A a : MadeBefore(Script(test), phase, a) => a \in DOMAIN db.accounts
    PROVE  Shape
<1>1. FitScript(Script(test), run)
  BY ScriptsFit DEF Basics
<1>2. began \in Nat /\ clock \in Nat /\ began <= clock
  BY SuiteAssumption DEF Basics
<1>3. PICK s, k : s = Script(test) /\ k = phase
  OBVIOUS
<1>4. JobsMatch
  <2>1. DOMAIN jobs = DOMAIN Calls
    BY <1>1, <1>2, BegunIs DEF Calls
  <2>2. \A i \in DOMAIN jobs :
            /\ IsJob(jobs[i])
            /\ phase \in DOMAIN Script(test)
            /\ IsAsked(jobs[i].call, Script(test)[phase].calls[i], began, clock)
    BY <1>1, <1>2, BegunIs
  <2>3. QED
    BY <2>1, <2>2 DEF JobsMatch, Calls
<1>5. \A i \in DOMAIN jobs : jobs[i].stage = "asked"
  BY <1>1, <1>2, BegunIs
<1>6. Readers /\ Made
  BY <1>5 DEF Readers, Made
<1>7. QED
  BY <1>4, <1>6 DEF Shape

\* A phase that has just begun, on good tables.
LEMMA BegunShapeNext ==
    (/\ Basics /\ Tables /\ jobs = Begun(Script(test), phase, began)
     /\ \A a : MadeBefore(Script(test), phase, a) => a \in DOMAIN db.accounts)'
    => Shape'
<1>1. (/\ Basics /\ Tables /\ jobs = Begun(Script(test), phase, began)
       /\ \A a : MadeBefore(Script(test), phase, a) => a \in DOMAIN db.accounts)
      => Shape
  BY BegunShape
<1>2. QED
  BY <1>1, PTL

\* ScriptsFit, of the next state.
LEMMA ScriptsFitNext ==
    (run \in 1 .. MaxRuns /\ test \in Tests /\ options \in Options)'
    => FitScript(Script(test), run)'
<1>1. (run \in 1 .. MaxRuns /\ test \in Tests /\ options \in Options)
      => FitScript(Script(test), run)
  BY ScriptsFit
<1>2. QED
  BY <1>1, PTL

\* The next phase has just begun.
Advances ==
    /\ phase' = phase + 1
    /\ jobs' = Begun(Script(test), phase + 1, began)
    /\ UNCHANGED verdict

\* Settling a phase, which begins the next or ends the test, keeps the shape.
LEMMA SettleKeepsShape ==
    ASSUME Shape, Settle
    PROVE  Shape'
<1>1. UNCHANGED <<adapter, options, clock, began, db, run, test, stale, lost>>
  BY DEF Settle
<1>2. CASE verdict' \in {"pass", "fail"} /\ UNCHANGED <<phase, jobs>>
  <2>1. Calls' = Calls /\ Script(test)' = Script(test)
    BY <1>1, <1>2, CallsKept
  <2>2. Basics'
    BY <1>1, <1>2 DEF Shape, Basics, AcceptsOptions, Settle
  <2>3. Tables' /\ Readers' /\ Made'
    BY <1>1, <1>2, <2>1 DEF Shape, Tables, Readers, Split, GoodView, Made
  <2>4. JobsMatch'
    BY <1>1, <1>2, <2>1 DEF Shape, JobsMatch
  <2>5. QED
    BY <2>2, <2>3, <2>4 DEF Shape
<1>3. CASE Advances /\ \A i \in DOMAIN jobs : jobs[i].stage = "answered"
  <2>1. Script(test)' = Script(test)
    BY <1>1, ScriptKept
  <2>2. Basics'
    BY <1>1, <1>3 DEF Shape, Basics, AcceptsOptions, Advances
  <2>3. Tables'
    BY <1>1 DEF Shape, Tables
  <2>4. (jobs = Begun(Script(test), phase, began))'
    BY <1>1, <1>3, <2>1 DEF Advances, Begun, Asked
  <2>5. \A a : MadeBefore(Script(test), phase', a) => a \in DOMAIN db.accounts
    <3>1. ASSUME NEW a, MadeBefore(Script(test), phase', a)
          PROVE  a \in DOMAIN db.accounts
      <4>1. PICK s : s = Script(test)
        OBVIOUS
      <4>2. PICK j, i :
                /\ j \in DOMAIN s
                /\ j < phase + 1
                /\ i \in DOMAIN s[j].calls
                /\ s[j].calls[i].op = "createAccount"
                /\ s[j].calls[i].account = a
        BY <1>3, <3>1, <4>1 DEF MadeBefore, Advances
      <4>3. phase \in Nat /\ FitScript(s, run)
        BY <4>1, ScriptsFit DEF Shape, Basics
      <4>4. j \in Nat
        BY <4>2, <4>3 DEF FitScript
      <4>5. CASE j < phase
        BY <4>1, <4>2, <4>5 DEF MadeBefore, Shape, Made
      <4>6. CASE j = phase
        <5>1. Calls = s[j].calls
          BY <4>1, <4>2, <4>6 DEF Calls
        <5>2. /\ i \in DOMAIN jobs /\ jobs[i].stage = "answered"
              /\ IsAsked(jobs[i].call, Calls[i], began, clock)
          BY <1>3, <4>2, <5>1 DEF Shape, JobsMatch
        <5>3. Fit(Calls[i], run)
          BY <4>2, <4>3, <5>1 DEF FitScript, FitPhase
        <5>4. Calls[i].op = "createAccount" /\ Calls[i].account = a
          BY <4>2, <5>1
        <5>5. /\ jobs[i].call.op = "createAccount"
              /\ jobs[i].call.account = a
          BY <5>2, <5>3, <5>4 DEF IsAsked, Fit
        <5>6. QED
          BY <5>2, <5>5 DEF Shape, Made
      <4>7. QED
        BY <4>2, <4>3, <4>4, <4>5, <4>6
    <3>2. QED
      BY <3>1
  <2>6. (\A a : MadeBefore(Script(test), phase, a) => a \in DOMAIN db.accounts)'
    BY <1>1, <2>1, <2>5
  <2>7. QED
    BY <2>2, <2>3, <2>4, <2>6, BegunShapeNext
<1>4. QED
  BY <1>2, <1>3 DEF Settle, Ends, Advances

\* The empty tables are typed and name nothing.
LEMMA EmptyTyped ==
    ASSUME NEW r
    PROVE  TypedDb(EmptyDb) /\ NamedUpTo(EmptyDb, r)
<1>1. /\ EmptyDb.owner \in [Keys -> {Null}]
      /\ EmptyDb.epochs \in [Users -> Nat]
      /\ EmptyDb = [sessions |-> EmptyDb.sessions, tokens |-> EmptyDb.tokens,
                    accounts |-> EmptyDb.accounts, owner |-> EmptyDb.owner,
                    epochs |-> EmptyDb.epochs]
  BY DEF EmptyDb
<1>2. /\ DOMAIN EmptyDb.sessions = {} /\ DOMAIN EmptyDb.tokens = {}
      /\ DOMAIN EmptyDb.accounts = {}
      /\ EmptyDb.sessions = [t \in {} |-> Null]
      /\ EmptyDb.tokens = [t \in {} |-> Null]
      /\ EmptyDb.accounts = [t \in {} |-> Null]
  BY DEF EmptyDb
<1>3. /\ EmptyDb.sessions \in [{} -> Sessions!Row]
      /\ EmptyDb.tokens \in [{} -> SingleUse!Row]
      /\ EmptyDb.accounts \in [{} -> Bindings!Row]
  BY <1>2
<1>4. QED
  BY <1>1, <1>2, <1>3
     DEF TypedDb, NamedUpTo, Sessions!TypedRows, SingleUse!TypedRows,
         Bindings!TypedStore

\* So does beginning another test.
LEMMA ContinueKeepsShape ==
    ASSUME Shape, Continue
    PROVE  Shape'
<1>1. /\ run \in 1 .. MaxRuns /\ run' = run + 1 /\ run < MaxRuns
      /\ test' \in Tests /\ phase' = 1 /\ began' = clock
      /\ jobs' = Begun(Script(test)', 1, clock)
      /\ verdict' = "running" /\ lost' = FALSE
      /\ UNCHANGED <<adapter, options, clock, stale>>
      /\ db' = db \/ db' = EmptyDb
  BY SuiteNames DEF Continue, Shape, Basics
<1>2. test' \in SingleUseTests => test \in SingleUseTests
  <2>1. PICK suite \in {RefreshTests, IdentityTests, SingleUseTests} :
            test \in suite /\ test' \in suite
    BY SuiteNames DEF Continue, Suites
  <2>2. QED
    BY <2>1 DEF RefreshTests, IdentityTests, SingleUseTests
<1>3. Basics'
  <2>1. MaxRuns \in Nat /\ MaxTime \in Nat
    BY SuiteAssumption
  <2>2. run' \in 1 .. MaxRuns /\ began' \in 0 .. clock /\ phase' \in Nat \ {0}
    BY <1>1, <2>1 DEF Shape, Basics
  <2>3. verdict = "pass"
    BY DEF Continue
  <2>4. QED
    BY <1>1, <1>2, <2>2, <2>3 DEF Shape, Basics, AcceptsOptions
<1>4. Tables'
  <2>1. TypedDb(EmptyDb) /\ NamedUpTo(EmptyDb, run')
    BY EmptyTyped
  <2>2. NamedUpTo(db, run') /\ TypedDb(db)
    BY <1>1 DEF Shape, Tables, NamedUpTo
  <2>3. QED
    BY <1>1, <2>1, <2>2 DEF Tables
<1>5. (jobs = Begun(Script(test), phase, began))'
  BY <1>1 DEF Begun, Asked
<1>6. (\A a : MadeBefore(Script(test), phase, a) => a \in DOMAIN db.accounts)'
  <2>1. FitScript(Script(test), run)'
    BY <1>3, ScriptsFitNext DEF Basics
  <2>2. \A j \in DOMAIN Script(test)' : j \in Nat \ {0}
    BY <2>1 DEF FitScript
  <2>3. \A a : ~MadeBefore(Script(test)', 1, a)
    BY <2>2 DEF MadeBefore
  <2>4. QED
    BY <1>1, <2>3
<1>7. QED
  BY <1>3, <1>4, <1>5, <1>6, BegunShapeNext

\* A suite that begins has the shape.
LEMMA ShapeInit ==
    ASSUME Init
    PROVE  Shape
<1>1. Basics
  <2>1. /\ 0 \in 0 .. MaxTime /\ 0 \in 0 .. 0 /\ 1 \in 1 .. MaxRuns
        /\ 1 \in Nat \ {0}
    BY SuiteAssumption
  <2>2. QED
    BY <2>1, SuiteNames DEF Init, Basics
<1>2. Tables
  BY EmptyTyped DEF Init, Tables
<1>3. \A a : ~MadeBefore(Script(test), phase, a)
  <2>1. FitScript(Script(test), run)
    BY <1>1, ScriptsFit DEF Basics
  <2>2. phase = 1
    BY DEF Init
  <2>3. QED
    BY <2>1, <2>2 DEF FitScript, MadeBefore
<1>4. jobs = Begun(Script(test), phase, began)
  BY DEF Init
<1>5. QED
  BY <1>1, <1>2, <1>3, <1>4, BegunShape

\* Every step keeps the shape.
LEMMA ShapeStep ==
    ASSUME Shape, [Next]_vars
    PROVE  Shape'
<1>1. ASSUME verdict = "running", NEW i \in DOMAIN jobs,
             Serve(i) \/ Read(i) \/ Write(i) \/ LinkLooks(i)
      PROVE  Shape'
  BY <1>1, JobKeepsShape
<1>2. CASE Settle
  BY <1>2, SettleKeepsShape
<1>3. CASE Continue
  BY <1>3, ContinueKeepsShape
<1>4. CASE Tick \/ Rest \/ UNCHANGED vars
  <2>1. /\ UNCHANGED <<adapter, options, began, db, run, test, phase, jobs,
                       verdict, stale, lost>>
        /\ clock' = clock \/ (clock' = clock + 1 /\ clock < MaxTime)
    BY <1>4 DEF Tick, Rest, vars
  <2>2. Calls' = Calls /\ Script(test)' = Script(test)
    BY <2>1, CallsKept
  <2>3. Basics'
    BY <2>1, SuiteAssumption DEF Shape, Basics, AcceptsOptions
  <2>4. Tables' /\ Readers' /\ Made'
    BY <2>1, <2>2 DEF Shape, Tables, Readers, Split, GoodView, Made
  <2>5. JobsMatch'
    <3>1. ASSUME NEW i \in DOMAIN jobs
          PROVE  IsAsked(jobs[i].call, Calls[i], began, clock')
      <4>1. IsAsked(jobs[i].call, Calls[i], began, clock)
        BY DEF Shape, JobsMatch
      <4>2. began .. clock \subseteq began .. clock'
        BY <2>1, SuiteAssumption DEF Shape, Basics
      <4>3. QED
        BY <4>1, <4>2 DEF IsAsked
    <3>2. QED
      BY <2>1, <2>2, <3>1 DEF Shape, JobsMatch
  <2>6. QED
    BY <2>3, <2>4, <2>5 DEF Shape
<1>5. QED
  BY <1>1, <1>2, <1>3, <1>4 DEF Next

-----------------------------------------------------------------------------
(* The tables are well-typed.                                              *)

\* The tables of every adapter, of either kind, hold rows of their ports
\* whatever the options, the number of racing calls and the order of the
\* tests (conformance.ts), and only a naive adapter is between two steps.
THEOREM ConformanceTyped == Spec => []TypeOK
<1>1. Init => Shape
  BY ShapeInit
<1>2. Shape /\ [Next]_vars => Shape'
  BY ShapeStep
<1>3. Shape => TypeOK
  BY SuiteAssumption
     DEF Shape, Basics, Tables, TypedDb, JobsMatch, IsJob, Readers, Split,
         TypeOK
<1>4. QED
  BY <1>1, <1>2, <1>3, PTL DEF Spec

\* So it always holds.
LEMMA ShapeAlways == Spec => []Shape
<1>1. Init => Shape
  BY ShapeInit
<1>2. Shape /\ [Next]_vars => Shape'
  BY ShapeStep
<1>3. QED
  BY <1>1, <1>2, PTL DEF Spec

-----------------------------------------------------------------------------
(* Counting winners.                                                       *)

\* A count of one is a unique winner.
LEMMA WinnerCount ==
    ASSUME NEW n \in Nat, NEW answers, DOMAIN answers = 1 .. n, NEW win
    PROVE  Count(answers, win) = 1
            <=> \E i \in 1 .. n : /\ answers[i] = win
                                  /\ \A j \in 1 .. n \ {i} : answers[j] # win
<1> DEFINE W == {i \in DOMAIN answers : answers[i] = win}
<1>1. IsFiniteSet(W)
  <2>1. IsFiniteSet(1 .. n)
    BY FS_Interval
  <2>2. W \in SUBSET (1 .. n)
    OBVIOUS
  <2>3. QED
    BY <2>1, <2>2, FS_Subset
<1>2. Cardinality(W) = 1 <=> \E i : W = {i}
  BY <1>1, FS_Singleton
<1>3. (\E i : W = {i})
        <=> \E i \in 1 .. n : /\ answers[i] = win
                              /\ \A j \in 1 .. n \ {i} : answers[j] # win
  <2>1. ASSUME NEW i, W = {i}
        PROVE  /\ i \in 1 .. n /\ answers[i] = win
               /\ \A j \in 1 .. n \ {i} : answers[j] # win
    BY <2>1
  <2>2. ASSUME NEW i \in 1 .. n, answers[i] = win,
               \A j \in 1 .. n \ {i} : answers[j] # win
        PROVE  W = {i}
    BY <2>2
  <2>3. QED
    BY <2>1, <2>2
<1>4. QED
  BY <1>2, <1>3 DEF Count

\* Where one wins and there are two, one does not.
LEMMA TwoCallsOneLoser ==
    ASSUME NEW n \in Nat, n >= 2, NEW answers, DOMAIN answers = 1 .. n,
           NEW win, Count(answers, win) = 1
    PROVE  \E i \in 1 .. n : answers[i] # win
<1> SUFFICES ASSUME \A i \in 1 .. n : answers[i] = win
             PROVE  FALSE
  OBVIOUS
<1> DEFINE W == {i \in DOMAIN answers : answers[i] = win}
<1>1. Count(answers, win) = Cardinality(W)
  BY DEF Count
<1>2. W = 1 .. n
  OBVIOUS
<1>3. Cardinality(1 .. n) = n
  BY FS_Interval
<1> HIDE DEF W
<1>4. QED
  BY <1>1, <1>2, <1>3

-----------------------------------------------------------------------------
(* What issuing and consuming can answer.                                  *)

\* What the single-use calls may answer.
LEMMA TokenAnswers ==
    ASSUME NEW d, NEW c
    PROVE  /\ c.op = "issue" => AnswerOf(d, c) \in {"issued", "rejected"}
           /\ c.op = "consume" => AnswerOf(d, c) = ConsumeStatus(d.tokens, c)
           /\ c.op = "consume" =>
                AnswerOf(d, c) \in {"not-found", "purpose-mismatch",
                                    "already-consumed", "expired", "consumed"}
  BY DEF AnswerOf, ConsumeStatus

\* A call that did not win, beside another one, is on record; and issuing says
\* only what its port lets it say.
LosersNoted ==
    \A i \in DOMAIN jobs : jobs[i].stage = "answered" =>
        /\ jobs[i].answer \notin Wins /\ Racing => lost
        /\ jobs[i].call.op = "issue" => jobs[i].answer \in {"issued", "rejected"}

\* A test that repeats a race has lost once before it repeats.
RaceBehind ==
    /\ test = "ConsumeRace" /\ phase > 2 => lost
    /\ test = "IssueRace" /\ phase > 1 => lost

LoserInv == Shape /\ LosersNoted /\ RaceBehind /\ PassedRacesHadLosers

\* A step of a call notes whether it lost.
LEMMA LoserJobStep ==
    ASSUME LoserInv, verdict = "running", NEW i \in DOMAIN jobs,
           Serve(i) \/ Read(i) \/ Write(i) \/ LinkLooks(i)
    PROVE  LosersNoted'
<1>1. /\ DOMAIN jobs' = DOMAIN jobs
      /\ \A j \in DOMAIN jobs \ {i} : jobs'[j] = jobs[j]
  BY JobKeepsJobs DEF LoserInv
<1>2. Racing' <=> Racing
  BY <1>1 DEF Racing
<1>3. lost => lost'
  BY DEF Serve, Read, Write, LinkLooks, Answered
<1>4. IsJob(jobs[i])
  BY DEF LoserInv, Shape, JobsMatch
<1>5. ASSUME NEW answer, NEW seen, Put(i, "answered", seen, answer),
             Answered(answer),
             jobs[i].call.op = "issue" => answer \in {"issued", "rejected"}
      PROVE  /\ jobs'[i].answer \notin Wins /\ Racing => lost'
             /\ jobs'[i].call.op = "issue" =>
                    jobs'[i].answer \in {"issued", "rejected"}
  <2>0. jobs'[i] = [stage |-> "answered", seen |-> seen, answer |-> answer,
                    call |-> jobs[i].call]
    BY <1>4, <1>5, PutEffect
  <2>1. jobs'[i].answer = answer /\ jobs'[i].call = jobs[i].call
    BY <2>0
  <2>2. QED
    BY <1>5, <2>1 DEF Answered
<1>6. jobs'[i].stage = "answered" =>
        /\ jobs'[i].answer \notin Wins /\ Racing => lost'
        /\ jobs'[i].call.op = "issue" => jobs'[i].answer \in {"issued", "rejected"}
  <2>1. CASE Serve(i)
    BY <1>5, <2>1, TokenAnswers DEF Serve
  <2>2. CASE Write(i)
    BY <1>5, <2>2, TokenAnswers DEF Write
  <2>3. CASE Read(i)
    <3>0. jobs'[i] = [stage |-> "read", seen |-> db, answer |-> Null,
                      call |-> jobs[i].call]
      BY <1>4, <2>3, PutEffect DEF Read
    <3>1. jobs'[i].stage = "read"
      BY <3>0
    <3>2. QED
      BY <3>1
  <2>4. CASE LinkLooks(i)
    <3>1. CASE Put(i, "answered", Null, "refused") /\ Answered("refused")
      BY <1>5, <2>4, <3>1 DEF LinkLooks
    <3>2. CASE jobs' = [jobs EXCEPT ![i].call.op = "bind"]
      <4>1. jobs'[i] = [jobs[i] EXCEPT !.call.op = "bind"]
        BY <3>2
      <4>2. PICK c, s, d, a :
                jobs[i] = [stage |-> s, seen |-> d, answer |-> a, call |-> c]
        BY <1>4 DEF IsJob
      <4>3. jobs'[i].stage = "asked"
        BY <2>4, <4>1, <4>2 DEF LinkLooks
      <4>4. QED
        BY <4>3
    <3>3. QED
      BY <2>4, <3>1, <3>2 DEF LinkLooks
  <2>5. QED
    BY <2>1, <2>2, <2>3, <2>4
<1>7. QED
  BY <1>1, <1>2, <1>3, <1>6 DEF LoserInv, LosersNoted

\* The phases of these two tests that make parallel calls.
LEMMA TokenRacePhases ==
    ASSUME options \in Options
    PROVE  /\ DOMAIN IssueRace = {1}
           /\ IssueRace[1].calls = [i \in 1 .. Concurrency |-> Issue("issued")]
           /\ IssueRace[1].expected = ExactlyOne("issued")
           /\ DOMAIN ConsumeRace = 1 .. 2 * Rounds
           /\ \A k \in 1 .. 2 * Rounds : k % 2 = 0 =>
                /\ DOMAIN ConsumeRace[k].calls = 1 .. Concurrency
                /\ ConsumeRace[k].expected =
                    ExactlyOne("consumed")
                    \cap [1 .. Concurrency -> {"consumed", "already-consumed"}]
<1>1. /\ DOMAIN IssueRace = {1}
      /\ IssueRace[1].calls = [i \in 1 .. Concurrency |-> Issue("issued")]
      /\ IssueRace[1].expected = ExactlyOne("issued")
  <2>1. PICK p : p = Together([i \in 1 .. Concurrency |-> Issue("issued")],
                              ExactlyOne("issued"))
    OBVIOUS
  <2>2. IssueRace = <<p>>
    BY <2>1 DEF IssueRace, InParallel
  <2>3. DOMAIN <<p>> = {1} /\ <<p>>[1] = p
    OBVIOUS
  <2>4. QED
    BY <2>1, <2>2, <2>3 DEF Together
<1>2. Rounds \in Nat /\ DOMAIN ConsumeRace = 1 .. 2 * Rounds
  BY OptionsTyped, RoundScripts
<1>3. ASSUME NEW k \in 1 .. 2 * Rounds, k % 2 = 0
      PROVE  /\ DOMAIN ConsumeRace[k].calls = 1 .. Concurrency
             /\ ConsumeRace[k].expected =
                    ExactlyOne("consumed")
                    \cap [1 .. Concurrency -> {"consumed", "already-consumed"}]
  <2>1. PlaceAt(2, k) = 2
    BY <1>2, <1>3 DEF PlaceAt
  <2>2. ConsumeRace[k] = ConsumeRound(RoundAt(2, k))[2]
    BY <2>1, RoundScripts
  <2>3. QED
    BY <2>2 DEF ConsumeRound, Together
<1>4. QED
  BY <1>1, <1>2, <1>3

\* A single-use race whose answers are as expected had a loser.
LEMMA LoserSettles ==
    ASSUME LoserInv, verdict = "running", phase \in DOMAIN Script(test),
           AsExpected,
           \A i \in DOMAIN jobs : jobs[i].stage = "answered",
           \/ test = "IssueRace"
           \/ test = "ConsumeRace" /\ phase % 2 = 0
    PROVE  lost
<1>1. /\ options \in Options /\ options.concurrency >= 2
      /\ Concurrency = options.concurrency /\ Concurrency \in Nat
  <2>1. test \in SingleUseTests
    BY DEF SingleUseTests
  <2>2. options \in Options /\ AcceptsOptions
    BY <2>1 DEF LoserInv, Shape, Basics
  <2>3. QED
    BY <2>2, OptionsTyped DEF AcceptsOptions, Concurrency, Elements, NotANumber
<1>2. CASE test = "IssueRace"
  <2>1. Script(test) = IssueRace /\ phase = 1
    BY <1>1, <1>2, SingleUseScripts, TokenRacePhases
  <2>2. /\ DOMAIN jobs = 1 .. Concurrency
        /\ Calls = [i \in 1 .. Concurrency |-> Issue("issued")]
    BY <1>1, <2>1, TokenRacePhases DEF LoserInv, Shape, JobsMatch, Calls
  <2>3. PhaseAnswers \in ExactlyOne("issued")
    BY <1>1, <2>1, TokenRacePhases DEF AsExpected
  <2>4. DOMAIN PhaseAnswers = 1 .. Concurrency
    BY <2>2 DEF PhaseAnswers
  <2>5. Count(PhaseAnswers, "issued") = 1
    BY <2>3 DEF ExactlyOne
  <2>6. PICK i \in 1 .. Concurrency : PhaseAnswers[i] # "issued"
    BY <1>1, <2>4, <2>5, TwoCallsOneLoser
  <2>7. jobs[i].call.op = "issue"
    <3>1. IsAsked(jobs[i].call, Issue("issued"), began, clock)
      BY <2>2, <2>6 DEF LoserInv, Shape, JobsMatch
    <3>2. QED
      BY <3>1 DEF IsAsked, Issue, IssueTo
  <2>8. jobs[i].answer = "rejected"
    BY <2>2, <2>6, <2>7 DEF LoserInv, LosersNoted, PhaseAnswers
  <2>9. Racing
    <3>1. 1 \in DOMAIN jobs /\ 2 \in DOMAIN jobs
      BY <1>1, <2>2
    <3>2. QED
      BY <3>1 DEF Racing
  <2>10. QED
    BY <2>2, <2>6, <2>8, <2>9 DEF LoserInv, LosersNoted, Wins
<1>3. CASE test = "ConsumeRace" /\ phase % 2 = 0
  <2>1. Script(test) = ConsumeRace /\ phase \in 1 .. 2 * Rounds
    BY <1>1, <1>3, SingleUseScripts, TokenRacePhases
  <2>2. DOMAIN jobs = 1 .. Concurrency
    BY <1>1, <1>3, <2>1, TokenRacePhases DEF LoserInv, Shape, JobsMatch, Calls
  <2>3. PhaseAnswers \in ExactlyOne("consumed")
                \cap [1 .. Concurrency -> {"consumed", "already-consumed"}]
    BY <1>1, <1>3, <2>1, TokenRacePhases DEF AsExpected
  <2>4. DOMAIN PhaseAnswers = 1 .. Concurrency
    BY <2>2 DEF PhaseAnswers
  <2>5. Count(PhaseAnswers, "consumed") = 1
    BY <2>3 DEF ExactlyOne
  <2>6. PICK i \in 1 .. Concurrency : PhaseAnswers[i] # "consumed"
    BY <1>1, <2>4, <2>5, TwoCallsOneLoser
  <2>7. PhaseAnswers[i] = "already-consumed"
    BY <2>3, <2>6
  <2>8. jobs[i].answer = "already-consumed"
    BY <2>2, <2>7 DEF PhaseAnswers
  <2>9. Racing
    <3>1. 1 \in DOMAIN jobs /\ 2 \in DOMAIN jobs
      BY <1>1, <2>2
    <3>2. QED
      BY <3>1 DEF Racing
  <2>10. QED
    BY <2>2, <2>6, <2>8, <2>9 DEF LoserInv, LosersNoted, Wins
<1>4. QED
  BY <1>2, <1>3

\* A race of single-use tokens that has passed has had a loser, whichever
\* options the suite was called with, of any number of racing calls and rounds
\* (the argument check and the race tests of conformance.ts).
THEOREM RacesHaveLosers == Spec => []PassedRacesHadLosers
<1>1. Init => LoserInv
  <2> SUFFICES ASSUME Init
               PROVE  LoserInv
    OBVIOUS
  <2>1. Shape
    BY ShapeInit
  <2>2. \A i \in DOMAIN jobs : jobs[i].stage = "asked"
    <3>1. FitScript(Script(test), run)
      BY <2>1, ScriptsFit DEF Shape, Basics
    <3>2. jobs = Begun(Script(test), 1, 0) /\ 0 \in Nat /\ clock = 0
      BY DEF Init
    <3>3. QED
      BY <3>1, <3>2, BegunIs
  <2>3. QED
    BY <2>1, <2>2 DEF Init, LoserInv, LosersNoted, RaceBehind,
       PassedRacesHadLosers
<1>2. LoserInv /\ [Next]_vars => LoserInv'
  <2> SUFFICES ASSUME LoserInv, [Next]_vars
               PROVE  LoserInv'
    OBVIOUS
  <2>1. Shape'
    BY ShapeStep DEF LoserInv
  <2>2. ASSUME verdict = "running", NEW i \in DOMAIN jobs,
               Serve(i) \/ Read(i) \/ Write(i) \/ LinkLooks(i)
        PROVE  LoserInv'
    <3>1. LosersNoted'
      BY <2>2, LoserJobStep
    <3>2. /\ UNCHANGED <<test, phase, verdict>>
          /\ lost => lost'
      BY <2>2 DEF Serve, Read, Write, LinkLooks, Answered
    <3>3. QED
      BY <2>1, <2>2, <3>1, <3>2 DEF LoserInv, RaceBehind, PassedRacesHadLosers
  <2>3. CASE Settle
    <3>1. UNCHANGED <<test, lost, began, clock, options, run>>
      BY <2>3 DEF Settle
    <3>2. FitScript(Script(test), run) /\ phase \in Nat \ {0}
      BY ScriptsFit DEF LoserInv, Shape, Basics
    <3>3. CASE UNCHANGED <<phase, jobs>>
      <4>1. LosersNoted' /\ RaceBehind'
        BY <3>1, <3>3 DEF LoserInv, LosersNoted, RaceBehind, Racing
      <4>2. ASSUME verdict' = "pass", test \in {"ConsumeRace", "IssueRace"}
            PROVE  lost
        <5>1. CASE phase \in DOMAIN Script(test)
          <6>1. AsExpected /\ IsLast
            BY <2>3, <4>2, <5>1 DEF Settle, Ends
          <6>2. CASE test = "IssueRace"
            BY <2>3, <5>1, <6>1, <6>2, LoserSettles DEF Settle
          <6>3. CASE test = "ConsumeRace"
            <7>1. options \in Options
              BY DEF LoserInv, Shape, Basics
            <7>2. /\ Script(test) = ConsumeRace
                  /\ DOMAIN ConsumeRace = 1 .. 2 * Rounds
                  /\ Rounds \in Nat
              BY <6>3, <7>1, SingleUseScripts, TokenRacePhases, OptionsTyped
            <7>3. CASE phase % 2 = 0
              BY <2>3, <5>1, <6>1, <6>3, <7>3, LoserSettles DEF Settle
            <7>4. CASE phase % 2 = 1
              <8>1. phase + 1 \in DOMAIN Script(test)
                BY <5>1, <7>2, <7>4
              <8>2. PlaceAt(2, phase) = 1 /\ phase \in 1 .. 2 * Rounds
                BY <5>1, <7>2, <7>4 DEF PlaceAt
              <8>3. Script(test)[phase] = ConsumeRound(RoundAt(2, phase))[1]
                BY <7>2, <8>2, RoundScripts
              <8>4. Script(test)[phase].enough = {}
                BY <8>3, AloneIs DEF ConsumeRound
              <8>5. QED
                BY <6>1, <8>1, <8>4 DEF IsLast
            <7>5. QED
              BY <3>2, <7>3, <7>4
          <6>4. QED
            BY <4>2, <6>2, <6>3
        <5>2. CASE phase \notin DOMAIN Script(test)
          <6>1. options \in Options /\ AcceptsOptions
            <7>1. verdict # "threw" /\ test \in SingleUseTests
              BY <2>3, <4>2 DEF Settle, SingleUseTests
            <7>2. QED
              BY <7>1 DEF LoserInv, Shape, Basics
          <6>2. Rounds >= 1 /\ Rounds \in Nat
            BY <6>1, OptionsTyped DEF AcceptsOptions, Rounds, Elements,
               NotANumber
          <6>3. CASE test = "ConsumeRace"
            <7>1. phase \notin 1 .. 2 * Rounds
              BY <5>2, <6>1, <6>3, SingleUseScripts, TokenRacePhases
            <7>2. phase > 2
              BY <3>2, <6>2, <7>1
            <7>3. QED
              BY <6>3, <7>2 DEF LoserInv, RaceBehind
          <6>4. CASE test = "IssueRace"
            <7>1. phase # 1
              BY <5>2, <6>1, <6>4, SingleUseScripts, TokenRacePhases
            <7>2. phase > 1
              BY <3>2, <7>1
            <7>3. QED
              BY <6>4, <7>2 DEF LoserInv, RaceBehind
          <6>5. QED
            BY <4>2, <6>3, <6>4
        <5>3. QED
          BY <5>1, <5>2
      <4>3. QED
        BY <2>1, <3>1, <4>1, <4>2 DEF LoserInv, PassedRacesHadLosers
    <3>4. CASE Advances /\ AsExpected /\ phase \in DOMAIN Script(test)
      <4>1. \A i \in DOMAIN jobs' : jobs'[i].stage = "asked"
        <5>1. /\ jobs' = Begun(Script(test), phase + 1, began)
              /\ began \in Nat /\ clock \in Nat /\ began <= clock
          BY <3>4, SuiteAssumption DEF Advances, LoserInv, Shape, Basics
        <5>2. QED
          BY <3>2, <5>1, BegunIs
      <4>2. LosersNoted'
        BY <4>1 DEF LosersNoted
      <4>3. RaceBehind'
        <5>1. CASE test = "IssueRace"
          BY <2>3, <3>1, <3>4, <5>1, LoserSettles DEF RaceBehind, Settle
        <5>2. CASE test = "ConsumeRace"
          <6>1. phase' = phase + 1
            BY <3>4 DEF Advances
          <6>2. CASE phase > 2
            BY <3>1, <5>2, <6>2 DEF LoserInv, RaceBehind
          <6>3. CASE phase = 2
            <7>1. phase % 2 = 0
              BY <6>3
            <7>2. lost
              BY <2>3, <3>4, <5>2, <7>1, LoserSettles DEF Settle
            <7>3. QED
              BY <3>1, <5>2, <7>2 DEF RaceBehind
          <6>4. CASE phase = 1
            BY <3>1, <5>2, <6>1, <6>4 DEF RaceBehind
          <6>5. QED
            BY <3>2, <6>2, <6>3, <6>4
        <5>3. CASE test \notin {"IssueRace", "ConsumeRace"}
          BY <3>1, <5>3 DEF RaceBehind
        <5>4. QED
          BY <5>1, <5>2, <5>3
      <4>4. QED
        BY <2>1, <2>3, <3>4, <4>2, <4>3
           DEF LoserInv, PassedRacesHadLosers, Advances, Settle
    <3>5. QED
      BY <2>3, <3>3, <3>4 DEF Settle, Ends, Advances
  <2>4. CASE Continue
    <3>1. FitScript(Script(test), run)'
      BY <2>1, ScriptsFitNext DEF Shape, Basics
    <3>2. /\ jobs' = Begun(Script(test)', 1, clock)
          /\ phase' = 1 /\ verdict' = "running" /\ clock \in Nat
      BY <2>4, SuiteAssumption DEF Continue, LoserInv, Shape, Basics
    <3>3. \A i \in DOMAIN jobs' : jobs'[i].stage = "asked"
      BY <3>1, <3>2, BegunIs
    <3>4. QED
      BY <2>1, <3>2, <3>3 DEF LoserInv, LosersNoted, RaceBehind,
         PassedRacesHadLosers
  <2>5. CASE Tick \/ Rest \/ UNCHANGED vars
    <3>1. UNCHANGED <<jobs, lost, test, phase, verdict>>
      BY <2>5 DEF Tick, Rest, vars
    <3>2. QED
      BY <2>1, <3>1 DEF LoserInv, LosersNoted, RaceBehind, Racing,
         PassedRacesHadLosers
  <2>6. QED
    BY <2>2, <2>3, <2>4, <2>5 DEF Next
<1>3. LoserInv => PassedRacesHadLosers
  BY DEF LoserInv
<1>4. QED
  BY <1>1, <1>2, <1>3, PTL DEF Spec

=============================================================================
