---------------------- MODULE ConformanceScriptProofs -----------------------
(***************************************************************************)
(* What the calls of a test come to, made one at a time and in order: each *)
(* test that does not race is followed call by call, and what it has made  *)
(* of the tables is told for every phase.                                  *)
(***************************************************************************)
EXTENDS ConformanceProofs

-----------------------------------------------------------------------------
(* The story of a test: what it has made of the tables when phase k begins *)
(* and no call has won on stale rows.  r is the test's number, b the time  *)
(* it began, and rows were revoked by n at the latest.                     *)

\* What test r draws in round m.
NameOf(r, m, use) == <<r, m, use>>

LiveRow(rows, x, family, until) ==
    /\ x \in DOMAIN rows
    /\ rows[x].revokedAt = Null
    /\ rows[x].replacedById = Null
    /\ rows[x].familyId = family
    /\ rows[x].expiresAt >= until

RevokedRow(rows, x) == x \in DOMAIN rows /\ rows[x].revokedAt # Null

\* Revoked by a kill: nothing replaced it.
KilledRow(rows, x) == RevokedRow(rows, x) /\ rows[x].replacedById = Null

\* Rotated at an instant of `when': next took its place.
SwappedRow(rows, x, next, family, when) ==
    /\ x \in DOMAIN rows
    /\ rows[x].revokedAt \in when
    /\ rows[x].replacedById = next
    /\ rows[x].familyId = family

SessionHolds(name, k, rows, r, b, n) ==
    LET issued == NameOf(r, 0, "issued")
        next == NameOf(r, 0, "next")
        sibling == NameOf(r, 0, "sibling")
        other == NameOf(r, 0, "other")
        third == NameOf(r, 0, "third")
    IN  /\ name = "StoresTheHash" /\ k = 2 => issued \in DOMAIN rows
        /\ name = "ExpiredIsInvalid" /\ k = 2 =>
            /\ issued \in DOMAIN rows
            /\ rows[issued].revokedAt = Null
            /\ rows[issued].expiresAt <= b + 2
        /\ name = "RotateRace" /\ k = 2 => LiveRow(rows, issued, issued, b + Ttl)
        /\ name = "RotateRace" /\ k = 3 => RevokedRow(rows, issued)
        /\ name \in {"ReplayOutsideWindow", "DefaultIsBenign", "BenignRace",
                     "DefaultIsInclusive", "DefaultEnds", "RevokeFamilyKills",
                     "DefectA"} /\ k = 2 =>
            LiveRow(rows, issued, issued, b + Ttl)
        /\ name \in {"ReplayOutsideWindow", "DefaultIsBenign", "BenignRace",
                     "DefectA"} /\ k = 3 =>
            /\ SwappedRow(rows, issued, next, issued, 0 .. n)
            /\ LiveRow(rows, next, issued, b + Ttl)
        /\ name \in {"DefaultIsInclusive", "DefaultEnds"} /\ k = 3 =>
            /\ SwappedRow(rows, issued, next, issued, {b})
            /\ LiveRow(rows, next, issued, b + Ttl)
        /\ name = "ReplayOutsideWindow" /\ k = 4 => KilledRow(rows, next)
        /\ name = "BenignRace" /\ k = 4 => LiveRow(rows, next, issued, b + Ttl)
        /\ name = "BenignRace" /\ k \in {4, 5} =>
            LiveRow(rows, sibling, issued, b + Ttl)
        /\ name = "RevokeFamilyKills" /\ k = 3 => KilledRow(rows, issued)
        /\ name = "RevokeAllKills" /\ k \in 2 .. 4 =>
            /\ LiveRow(rows, issued, issued, b + Ttl)
            /\ rows[issued].userId = user1
        /\ name = "RevokeAllKills" /\ k \in 3 .. 4 =>
            /\ LiveRow(rows, other, other, b + Ttl)
            /\ rows[other].userId = user1
        /\ name = "RevokeAllKills" /\ k = 4 => rows[third].userId = user2
        /\ name = "RevokeAllKills" /\ k = 5 =>
            KilledRow(rows, issued) /\ rows[issued].familyId = issued
        /\ name = "RevokeAllKills" /\ k \in 5 .. 6 =>
            KilledRow(rows, other) /\ rows[other].familyId = other
        /\ name = "RevokeAllKills" /\ k \in 4 .. 7 =>
            LiveRow(rows, third, third, b + Ttl)
        /\ name = "DefectA" /\ k \in 1 .. 3 => sibling \notin DOMAIN rows
        /\ name = "DefectA" /\ k = 4 => RevokedRow(rows, sibling)

FreshToken(rows, x, purpose, subject, until) ==
    /\ x \in DOMAIN rows
    /\ rows[x].purpose = purpose
    /\ rows[x].subjectId = subject
    /\ rows[x].consumedAt = Null
    /\ rows[x].expiresAt >= until

UsedToken(rows, x) ==
    /\ x \in DOMAIN rows
    /\ rows[x].purpose = "password-reset"
    /\ rows[x].consumedAt # Null

TokenHolds(name, k, rows, r, b) ==
    LET issued == NameOf(r, 0, "issued")
        other == NameOf(r, 0, "other")
        third == NameOf(r, 0, "third")
        t(m) == NameOf(r, m, "issued")
        Undrawn(m) == \A x \in DOMAIN rows : x[1] = r => x[2] < m
        Fresh(x, s) == FreshToken(rows, x, "password-reset", s, b + Ttl)
    IN  /\ name \in {"HappyPath", "ReplayIsConsumed", "InvalidatedThenConsumed",
                     "ExpiredStaysExpired", "ExpiryIsInclusive",
                     "PurposeIsolation", "DuplicateRejected", "IssueRace",
                     "InvalidationIsExact"} /\ k = 1 =>
            issued \notin DOMAIN rows
        /\ name \in {"DuplicateRejected", "IssueRace"} /\ k = 2 =>
            issued \in DOMAIN rows
        /\ name \in {"HappyPath", "ReplayIsConsumed"} /\ k = 2 =>
            Fresh(issued, user1)
        /\ name = "PurposeIsolation" /\ k \in {2, 3} => Fresh(issued, user1)
        /\ name = "InvalidatedThenConsumed" /\ k = 2 => Fresh(issued, issued)
        /\ name \in {"ReplayIsConsumed", "InvalidatedThenConsumed"} /\ k = 3 =>
            UsedToken(rows, issued)
        /\ name \in {"ExpiredStaysExpired", "ExpiryIsInclusive"}
            /\ k \in {2, 3} =>
                /\ Fresh(issued, user1)
                /\ rows[issued].expiresAt = b + Ttl
        /\ name = "InvalidationIsExact" /\ k \in 1 .. 2 =>
            other \notin DOMAIN rows
        /\ name = "InvalidationIsExact" /\ k \in 1 .. 3 =>
            third \notin DOMAIN rows
        /\ name = "InvalidationIsExact" /\ k \in 2 .. 4 => Fresh(issued, user1)
        /\ name = "InvalidationIsExact" /\ k \in 3 .. 7 => Fresh(other, user2)
        /\ name = "InvalidationIsExact" /\ k \in 4 .. 8 =>
            FreshToken(rows, third, "invite", user1, b + Ttl)
        /\ name = "InvalidationIsExact" /\ k \in 5 .. 6 =>
            UsedToken(rows, issued)
        /\ name = "ConsumeRace" =>
            LET m == RoundAt(2, k)
            IN  /\ PlaceAt(2, k) = 1 => Undrawn(m)
                /\ PlaceAt(2, k) = 1 /\ m > 1 => UsedToken(rows, t(m - 1))
                /\ PlaceAt(2, k) = 2 => Undrawn(m + 1) /\ Fresh(t(m), t(m))
        /\ name = "ConsumeInvalidateSmoke" =>
            LET m == RoundAt(3, k)
            IN  /\ PlaceAt(3, k) = 1 => Undrawn(m)
                /\ PlaceAt(3, k) \in {2, 3} => Undrawn(m + 1)
                /\ PlaceAt(3, k) = 2 => Fresh(t(m), t(m))
                /\ PlaceAt(3, k) = 3 => UsedToken(rows, t(m))

Unbound(owner) == \A key \in Keys : owner[key] = Null

\* The only account is a, with these properties.
OnlyAccount(accounts, a, email, verified) ==
    /\ DOMAIN accounts = {a}
    /\ accounts[a] = [email |-> email, disabled |-> FALSE,
                      hasCredentials |-> verified, emailVerified |-> verified]

Claimed(m) == <<"claim-race", m>>

\* Nothing is bound from round m on, and before it what its rounds claimed.
BoundBefore(owner, m) ==
    \A key \in Keys : /\ owner[key] \in {Null, Claimed(key)}
                      /\ key >= m => owner[key] = Null

ClaimsHold(k, accounts, owner) ==
    LET m == RoundAt(3, k)
        a == Claimed(m)
    IN  /\ PlaceAt(3, k) \in {1, 2} => BoundBefore(owner, m)
        /\ PlaceAt(3, k) = 2 =>
            /\ a \in DOMAIN accounts
            /\ accounts[a] = [email |-> a, disabled |-> FALSE,
                              hasCredentials |-> FALSE,
                              emailVerified |-> FALSE]
        /\ PlaceAt(3, k) = 3 =>
            /\ BoundBefore(owner, m + 1) /\ owner[m] # Null
            /\ a \in DOMAIN accounts /\ accounts[a].emailVerified

BindingHolds(name, k, accounts, owner) ==
    /\ name \in {"ReturningByKey", "NeverAdopts", "ClaimsPlaceholder"}
        /\ k = 1 => DOMAIN accounts = {} /\ Unbound(owner)
    /\ name = "ReturningByKey" /\ k = 2 =>
        /\ OnlyAccount(accounts, <<"returning", 0>>, <<"returning", 0>>, TRUE)
        /\ Unbound(owner)
    /\ name \in {"ReturningByKey", "LinkRace"} /\ k = 3 => owner[0] # Null
    /\ name = "NeverAdopts" /\ k \in {2, 3} =>
        /\ OnlyAccount(accounts, <<"credentialed", 0>>,
                       <<"conformance", 0>>, TRUE)
        /\ Unbound(owner)
    /\ name = "ClaimsPlaceholder" /\ k = 2 =>
        /\ OnlyAccount(accounts, <<"placeholder", 0>>,
                       <<"conformance", 0>>, FALSE)
        /\ Unbound(owner)
    /\ name = "LinkRace" /\ k \in {1, 2} =>
        /\ Unbound(owner)
        /\ \A a \in DOMAIN accounts : ~accounts[a].disabled
    /\ name = "ClaimRace" => ClaimsHold(k, accounts, owner)

Holds(name, k, d, r, b, n) ==
    /\ name \in RefreshTests => SessionHolds(name, k, d.sessions, r, b, n)
    /\ name \in SingleUseTests => TokenHolds(name, k, d.tokens, r, b)
    /\ name \in IdentityTests => BindingHolds(name, k, d.accounts, d.owner)

-----------------------------------------------------------------------------
(* The story of a phase.                                                   *)

\* The phases in which exactly one call must win.
IsRace(name, k) ==
    \/ name \in {"RotateRace", "LinkRace"} /\ k = 2
    \/ name = "IssueRace" /\ k = 1
    \/ name = "ConsumeRace" /\ PlaceAt(2, k) = 2
    \/ name = "ClaimRace" /\ PlaceAt(3, k) = 2

IsSmoke(name, k) == name = "ConsumeInvalidateSmoke" /\ PlaceAt(3, k) = 2

IsDefect(name, k) == name = "DefectA" /\ k = 3

IsMaking(name, k) == name = "LinkRace" /\ k = 1

IsSolo(name, k) ==
    /\ ~IsRace(name, k) /\ ~IsSmoke(name, k) /\ ~IsDefect(name, k)
    /\ ~IsMaking(name, k)

WinOf(name) ==
    CASE name = "RotateRace" -> "rotated"
      [] name = "LinkRace" -> "linked"
      [] name = "ClaimRace" -> "claimed"
      [] name = "ConsumeRace" -> "consumed"
      [] name = "IssueRace" -> "issued"

LosesOf(name) ==
    CASE name = "RotateRace" -> {"reuse"}
      [] name \in {"LinkRace", "ClaimRace"} -> {"refused"}
      [] name = "ConsumeRace" -> {"already-consumed"}
      [] name = "IssueRace" -> {"rejected"}

Done(j) == j.stage = "answered"

At(k, d, n) == Holds(test, k, d, run, began, n)

\* When the phase began, if its first call has read the clock.
AskTime ==
    IF /\ 1 \in DOMAIN jobs
       /\ "now" \in DOMAIN Calls[1]
       /\ Calls[1].now = Now
    THEN jobs[1].call.now ELSE clock

\* Until a call has been answered the tables are as the phase found them, and
\* from then on as the next one will: the first call decides.
FirstDecides ==
    /\ (\A i \in DOMAIN jobs : ~Done(jobs[i])) =>
        /\ At(phase, db, AskTime)
        /\ \A i \in DOMAIN jobs : jobs[i].stage = "read" => jobs[i].seen = db
    /\ (\E i \in DOMAIN jobs : Done(jobs[i])) =>
        At(phase + 1, db, clock)
    /\ \A i \in DOMAIN jobs : jobs[i].stage = "read" =>
        At(phase, jobs[i].seen, AskTime) \/ At(phase + 1, jobs[i].seen, clock)

\* What has been answered.
AnswersFit ==
    /\ IsSolo(test, phase) => \A i \in DOMAIN jobs : Done(jobs[i]) =>
        <<jobs[i].answer>> \in Script(test)[phase].expected
    /\ IsMaking(test, phase) => \A i \in DOMAIN jobs : Done(jobs[i]) =>
        jobs[i].answer = "done"
    /\ IsSmoke(test, phase) => \A i \in DOMAIN jobs : Done(jobs[i]) =>
        /\ i = 1 => jobs[i].answer \in {"consumed", "already-consumed"}
        /\ i = 2 => jobs[i].answer = "done"
    /\ IsRace(test, phase) /\ (\E i \in DOMAIN jobs : Done(jobs[i])) =>
        \E i \in DOMAIN jobs :
            /\ Done(jobs[i]) /\ jobs[i].answer = WinOf(test)
            /\ \A j \in DOMAIN jobs \ {i} : Done(jobs[j]) =>
                    jobs[j].answer \in LosesOf(test)

\* The replay that races revokeFamily in DefectA.
FamilyDead(rows, r) ==
    LET issued == NameOf(r, 0, "issued")
        next == NameOf(r, 0, "next")
    IN  /\ issued \in DOMAIN rows /\ rows[issued].replacedById = next
        /\ \A x \in {issued, next} : RevokedRow(rows, x)

DefectTale ==
    LET replay == jobs[1]
        revoke == jobs[2]
        sibling == NameOf(run, 0, "sibling")
        Before(d) == At(phase, d, AskTime)
    IN  /\ ~Done(replay) /\ ~Done(revoke) =>
            /\ Before(db)
            /\ replay.stage = "read" => replay.seen = db
        /\ ~Done(replay) /\ Done(revoke) =>
            /\ FamilyDead(db.sessions, run)
            /\ replay.stage = "read" => Before(replay.seen) \/ replay.seen = db
        /\ Done(replay) /\ ~Done(revoke) =>
            /\ replay.answer = "benign-race"
            /\ sibling \in DOMAIN db.sessions
            /\ db.sessions[sibling].familyId = NameOf(run, 0, "issued")
        /\ Done(replay) /\ Done(revoke) =>
            /\ replay.answer \in {"benign-race", "reuse"}
            /\ replay.answer = "benign-race" => RevokedRow(db.sessions, sibling)
        /\ Done(revoke) => revoke.answer = "done"

Story == IF IsDefect(test, phase) THEN DefectTale
         ELSE FirstDecides /\ AnswersFit

\* What follows from a win on stale rows: another has won the same race, or the
\* rotation survived the revocation of its family.
TwoWinners ==
    \E i, j \in DOMAIN jobs : /\ i # j /\ Done(jobs[i]) /\ Done(jobs[j])
                              /\ jobs[i].answer = WinOf(test)
                              /\ jobs[j].answer = WinOf(test)

Survived ==
    LET sibling == NameOf(run, 0, "sibling")
        Alive == /\ sibling \in DOMAIN db.sessions
                 /\ db.sessions[sibling].revokedAt = Null
    IN  /\ test = "DefectA"
        /\ \/ /\ phase = 3 /\ Alive
              /\ Done(jobs[1]) /\ jobs[1].answer = "benign-race"
              /\ Done(jobs[2])
           \/ phase = 4 /\ ~Done(jobs[1]) /\ Alive
           \/ phase = 4 /\ Done(jobs[1]) /\ jobs[1].answer = "live"

Doomed ==
    \/ test = "ConsumeInvalidateSmoke"
    \/ verdict # "pass" /\ IsRace(test, phase) /\ TwoWinners
    \/ verdict # "pass" /\ Survived

Told ==
    /\ ~stale => Story
    /\ stale => Doomed
    /\ FailuresAreEarned
    /\ StaleWinsAreCaught

-----------------------------------------------------------------------------
(* What a call of a script is when it is asked.                            *)

\* NameOf names what the present test draws: two uses or rounds never share a
\* name, and none is the name of no token.
LEMMA NamesOf ==
    ASSUME run \in 1 .. MaxRuns
    PROVE  /\ \A m \in Nat, u \in Uses : /\ Drawn(m, u) = NameOf(run, m, u)
                                         /\ NameOf(run, m, u) \in Draws
           /\ \A u \in Uses : /\ It(u) = NameOf(run, 0, u)
                              /\ NameOf(run, 0, u) \in Draws
           /\ \A m \in Nat : Racer(m) = NameOf(run, m, "racer")
           /\ \A m, n \in Nat, u, v \in Uses :
                NameOf(run, m, u) = NameOf(run, n, v) => m = n /\ u = v
           /\ \A u, v \in Uses : u # v => NameOf(run, 0, u) # NameOf(run, 0, v)
           /\ \A m \in Nat, u \in Uses : NameOf(run, m, u) # Unknown
           /\ {"issued", "next", "sibling", "other", "third", "r1", "r2", "r3",
               "racer", "unknown"} \subseteq Uses
           /\ user1 \in Users /\ user2 \in Users /\ user1 # user2
<1>1. /\ \A m \in Nat, u \in Uses : Drawn(m, u) = NameOf(run, m, u)
      /\ \A u \in Uses : It(u) = NameOf(run, 0, u)
      /\ \A m \in Nat : Racer(m) = NameOf(run, m, "racer")
  BY DEF Drawn, It, Racer, NameOf
<1>2. {"issued", "next", "sibling", "other", "third", "r1", "r2", "r3",
       "racer", "unknown"} \subseteq Uses
  BY DEF Uses
<1>3. user1 \in Users /\ user2 \in Users /\ user1 # user2
  BY DEF Users, user1, user2
<1>4. QED
  BY <1>1, <1>2, <1>3, NamesDiffer

\* A call's clock is read while the test runs.
LEMMA AskedWhen ==
    ASSUME Basics, NEW call, NEW c, IsAsked(call, c, began, clock),
           "now" \in DOMAIN c, c.now \in Nat \cup {Now}
    PROVE  /\ call.now \in Nat
           /\ c.now = Now => call.now \in began .. clock /\ call.now < began + Ttl
           /\ c.now # Now => call.now = began + c.now
           /\ began \in Nat /\ clock \in Nat /\ began <= clock
           /\ clock <= Grace /\ Grace + 1 < Ttl /\ 0 < Grace
           /\ Grace \in Nat /\ Ttl \in Nat
<1>1. /\ began \in Nat /\ clock \in Nat /\ began <= clock
      /\ clock <= Grace /\ Grace + 1 < Ttl /\ 0 < Grace
      /\ Grace \in Nat /\ Ttl \in Nat
  BY SuiteAssumption DEF Basics
<1>2. QED
  BY <1>1 DEF IsAsked

\* A login, as asked.
LEMMA AskedLogin ==
    ASSUME Basics, NEW call, NEW u \in Uses, NEW user \in Users,
           IsAsked(call, LoginAs(u, user), began, clock)
    PROVE  /\ call.op = "createSession" /\ call.as = NameOf(run, 0, u)
           /\ call.user = user /\ call.ttl = Ttl
           /\ call.now \in began .. clock
           /\ Proper(call, run)
<1>1. PICK c : c = LoginAs(u, user)
  OBVIOUS
<1>2. c = [op |-> "createSession", as |-> It(u), user |-> user, ttl |-> Ttl,
           now |-> Now]
  BY <1>1 DEF LoginAs
<1>3. run \in 1 .. MaxRuns
  BY DEF Basics
<1>4. Fit(c, run)
  BY <1>1, <1>3, SessionCallsSimple DEF Simple
<1>5. Proper(call, run)
  BY <1>1, <1>4, AskedProper
<1>6. QED
  BY <1>1, <1>2, <1>3, <1>5, NamesOf DEF IsAsked

\* A rotation, as asked: at an instant of its own or at a fixed age.
LEMMA AskedRotate ==
    ASSUME Basics, NEW call, NEW old \in Draws, NEW as \in Draws, NEW g,
           NEW now \in Nat \cup {Now}, old # as, as[1] = run,
           g \in Nat \cup {Now},
           IsAsked(call, Rotate(old, as, g, now), began, clock)
    PROVE  /\ call.op = "rotate" /\ call.old = old /\ call.as = as
           /\ call.graceMs = g
           /\ now = Now => call.now \in began .. clock
           /\ now # Now => call.now = began + now
           /\ Proper(call, run)
<1>1. PICK c : c = Rotate(old, as, g, now)
  OBVIOUS
<1>2. c = [op |-> "rotate", old |-> old, as |-> as, graceMs |-> g, now |-> now]
  BY <1>1 DEF Rotate
<1>3. run \in 1 .. MaxRuns
  BY DEF Basics
<1>4. Fit(c, run)
  BY <1>1, <1>3, SessionCallsSimple DEF Simple
<1>5. Proper(call, run)
  BY <1>1, <1>4, AskedProper
<1>0. "now" \in DOMAIN c /\ IsAsked(call, c, began, clock)
  BY <1>1, <1>2
<1>6. /\ \A f \in DOMAIN c \ {"op", "now"} : call[f] = c[f]
      /\ call.op = c.op \/ c.op = "link"
      /\ IF c.now = Now THEN call.now \in began .. clock
         ELSE call.now = began + c.now
  BY <1>0 DEF IsAsked
<1>7. /\ c.op = "rotate" /\ c.old = old /\ c.as = as /\ c.graceMs = g
      /\ c.now = now /\ {"old", "as", "graceMs"} \subseteq DOMAIN c
  BY <1>2
<1>8. QED
  BY <1>5, <1>6, <1>7

\* A rotation with the suite's grace window, as asked.
LEMMA AskedRefresh ==
    ASSUME Basics, NEW call, NEW u \in Uses, NEW v \in Uses, u # v,
           IsAsked(call, Refresh(u, v), began, clock)
    PROVE  /\ call.op = "rotate" /\ call.old = NameOf(run, 0, u)
           /\ call.as = NameOf(run, 0, v)
           /\ call.graceMs = Grace
           /\ call.now \in began .. clock
           /\ Proper(call, run)
<1>1. /\ It(u) = NameOf(run, 0, u) /\ It(v) = NameOf(run, 0, v)
      /\ It(u) \in Draws /\ It(v) \in Draws /\ It(u) # It(v)
      /\ It(v)[1] = run
  BY NamesOf, NamesDiffer DEF Basics
<1>2. Grace \in Nat
  BY SuiteAssumption
<1>3. QED
  BY <1>1, <1>2, AskedRotate DEF Refresh

-----------------------------------------------------------------------------
(* What the calls of the refresh suite do to rows.                         *)

\* Rows outside T are as they were.
Others(new, rows, T) ==
    /\ DOMAIN new \subseteq DOMAIN rows \cup T
    /\ \A x \in DOMAIN rows \ T : x \in DOMAIN new /\ new[x] = rows[x]

\* A login adds its row.
LEMMA LoginActs ==
    ASSUME Basics, NEW d, TypedDb(d), NEW call, Proper(call, run),
           call.op = "createSession"
    PROVE  /\ AnswerOf(d, call) = "done"
           /\ Inserted(TablesAfter(d, call).sessions, d.sessions, call.as,
                       call.as, call.user, call.now + call.ttl)
<1>1. PICK rows : rows = Sessions!InsertRow(d.sessions, call.as, call.as,
                                            call.user, call.now + call.ttl)
  OBVIOUS
<1>2. TablesAfter(d, call) = [d EXCEPT !.sessions = rows]
  BY <1>1 DEF TablesAfter
<1>3. TablesAfter(d, call).sessions = rows
  BY <1>2 DEF TypedDb
<1>4. /\ call.as \in Draws /\ call.user \in Users
      /\ call.now + call.ttl \in Nat
  BY DEF Proper, Fit
<1>5. Sessions!TypedRows(d.sessions)
  BY DEF TypedDb
<1>6. Inserted(rows, d.sessions, call.as, call.as, call.user,
               call.now + call.ttl)
  BY <1>1, <1>4, <1>5, InsertEffect
<1>7. AnswerOf(d, call) = "done"
  BY DEF AnswerOf
<1>8. QED
  BY <1>3, <1>6, <1>7

\* A rotation does what its status says.
LEMMA RotateActs ==
    ASSUME Basics, NEW d, TypedDb(d), NEW call, Proper(call, run),
           call.op = "rotate", NEW rows, rows = d.sessions,
           NEW new, new = TablesAfter(d, call).sessions,
           NEW status, status = RotateStatus(rows, call)
    PROVE  /\ AnswerOf(d, call) = status
           /\ status = "rotated" =>
                Replaced(new, rows, call.old, call.as, call.now + Ttl, call.now)
           /\ status = "benign-race" =>
                Inserted(new, rows, call.as, rows[call.old].familyId,
                         rows[call.old].userId, call.now + Ttl)
           /\ status = "reuse" =>
                Revoked(new, rows,
                        Sessions!FamilyRows(rows, rows[call.old].familyId))
           /\ status \notin {"rotated", "benign-race", "reuse"} => new = rows
<1>1. AnswerOf(d, call) = status
  BY DEF AnswerOf
<1>2. PICK r : r = RotateRows(rows, call)
  OBVIOUS
<1>3. TablesAfter(d, call) = [d EXCEPT !.sessions = r]
  BY <1>2 DEF TablesAfter
<1>4. new = r
  BY <1>3 DEF TypedDb
<1>5. /\ call.as \in Draws /\ call.as # call.old /\ call.now \in Nat
      /\ call.now + Ttl \in Nat
  BY SuiteAssumption DEF Proper, Fit
<1>6. Sessions!TypedRows(rows)
  BY DEF TypedDb
<1>7. status \in {"rotated", "benign-race", "reuse"} => call.old \in DOMAIN rows
  BY DEF RotateStatus
<1>8. call.old \in DOMAIN rows =>
        rows[call.old].familyId \in Draws /\ rows[call.old].userId \in Users
  BY <1>6 DEF Sessions!TypedRows, Sessions!Row
<1>9. status = "rotated" =>
        Replaced(new, rows, call.old, call.as, call.now + Ttl, call.now)
  <2>1. status = "rotated" =>
            r = Sessions!ReplaceRow(rows, call.old, call.as, call.now + Ttl,
                                    call.now)
    BY <1>2 DEF RotateRows
  <2>2. QED
    BY <1>4, <1>5, <1>6, <1>7, <2>1, ReplaceEffect
<1>10. status = "benign-race" =>
        Inserted(new, rows, call.as, rows[call.old].familyId,
                 rows[call.old].userId, call.now + Ttl)
  <2>1. status = "benign-race" =>
            r = Sessions!InsertRow(rows, call.as, rows[call.old].familyId,
                                   rows[call.old].userId, call.now + Ttl)
    BY <1>2 DEF RotateRows, Sessions!InsertSibling
  <2>2. QED
    BY <1>4, <1>5, <1>6, <1>7, <1>8, <2>1, InsertEffect
<1>11. status = "reuse" =>
        Revoked(new, rows, Sessions!FamilyRows(rows, rows[call.old].familyId))
  <2>1. status = "reuse" =>
            r = Sessions!RevokeRows(rows,
                    Sessions!FamilyRows(rows, rows[call.old].familyId), call.now)
    BY <1>2 DEF RotateRows
  <2>2. QED
    BY <1>4, <1>5, <1>6, <2>1, RevokeEffect
<1>12. status \notin {"rotated", "benign-race", "reuse"} => new = rows
  BY <1>2, <1>4 DEF RotateRows
<1>13. QED
  BY <1>1, <1>9, <1>10, <1>11, <1>12

\* A kill of a family, or of a user's logins, revokes their rows.
LEMMA KillActs ==
    ASSUME Basics, NEW d, TypedDb(d), NEW call, "op" \in DOMAIN call,
           NEW T, \/ /\ call.op = "revokeFamily"
                     /\ T = Sessions!FamilyRows(d.sessions, call.family)
                  \/ /\ call.op = "revokeAllForUser"
                     /\ T = Sessions!UserRows(d.sessions, call.user)
    PROVE  /\ AnswerOf(d, call) = "done"
           /\ Revoked(TablesAfter(d, call).sessions, d.sessions, T)
<1>1. PICK rows : rows = Sessions!RevokeRows(d.sessions, T, clock)
  OBVIOUS
<1>2. TablesAfter(d, call) = [d EXCEPT !.sessions = rows]
  BY <1>1 DEF TablesAfter
<1>3. TablesAfter(d, call).sessions = rows
  BY <1>2 DEF TypedDb
<1>4. clock \in Nat
  BY SuiteAssumption DEF Basics
<1>5. Sessions!TypedRows(d.sessions)
  BY DEF TypedDb
<1>6. Revoked(rows, d.sessions, T)
  BY <1>1, <1>4, <1>5, RevokeEffect
<1>7. AnswerOf(d, call) = "done"
  BY DEF AnswerOf
<1>8. QED
  BY <1>3, <1>6, <1>7

-----------------------------------------------------------------------------
(* When a rotation wins, is let through, or is a reuse.                    *)

\* A live token in time is rotated.
LEMMA LiveRotates ==
    ASSUME NEW rows, NEW call, NEW f, NEW until \in Nat, call.now \in Nat,
           Sessions!TypedRows(rows),
           LiveRow(rows, call.old, f, until), call.now < until
    PROVE  RotateStatus(rows, call) = "rotated"
<1>1. rows[call.old] \in Sessions!Row /\ call.old \in DOMAIN rows
  BY DEF LiveRow, Sessions!TypedRows
<1>2. rows[call.old].expiresAt \in Nat
  BY <1>1 DEF Sessions!Row, Sessions!Instants
<1>3. QED
  BY <1>1, <1>2 DEF LiveRow, RotateStatus, Sessions!IsRevoked

\* A revoked token is a benign race or a reuse: the former within the grace
\* window of a swap whose replacement is active.
LEMMA RevokedAnswers ==
    ASSUME NEW rows, NEW call, RevokedRow(rows, call.old)
    PROVE  /\ RotateStatus(rows, call) \in {"benign-race", "reuse"}
           /\ RotateStatus(rows, call) = "benign-race"
                <=> /\ Sessions!WithinGrace(rows, call.old, call.graceMs, call.now)
                    /\ Sessions!ReplacementActive(rows, call.old, call.now)
  BY DEF RevokedRow, RotateStatus, Sessions!IsRevoked

\* A killed token is a reuse whatever the window.
LEMMA KilledReuses ==
    ASSUME NEW rows, NEW call, Sessions!TypedRows(rows),
           KilledRow(rows, call.old)
    PROVE  RotateStatus(rows, call) = "reuse"
<1>1. Null \notin DOMAIN rows
  BY NameAssumption DEF Sessions!TypedRows
<1>2. ~Sessions!ReplacementActive(rows, call.old, call.now)
  BY <1>1 DEF KilledRow, Sessions!ReplacementActive
<1>3. QED
  BY <1>2, RevokedAnswers DEF KilledRow

\* A swapped token, its replacement live: within the window of every instant
\* it may have been swapped at a benign race, outside of all of them a reuse.
LEMMA SwappedAnswers ==
    ASSUME NEW rows, NEW call, Sessions!TypedRows(rows), NEW next, NEW f,
           NEW until \in Nat, NEW when \in SUBSET Nat, call.now \in Nat,
           call.graceMs \in Nat,
           SwappedRow(rows, call.old, next, f, when),
           LiveRow(rows, next, f, until), call.now < until
    PROVE  /\ RotateStatus(rows, call) \in {"benign-race", "reuse"}
           /\ (\A t \in when : call.now - t \in 0 .. call.graceMs)
              /\ call.graceMs > 0
                => RotateStatus(rows, call) = "benign-race"
           /\ (\A t \in when : call.now - t \notin 0 .. call.graceMs)
              \/ call.graceMs = 0
                => RotateStatus(rows, call) = "reuse"
<1>1. rows[next] \in Sessions!Row /\ next \in DOMAIN rows
  BY DEF LiveRow, Sessions!TypedRows
<1>2. rows[next].expiresAt \in Nat
  BY <1>1 DEF Sessions!Row, Sessions!Instants
<1>3. Sessions!ReplacementActive(rows, call.old, call.now)
  BY <1>1, <1>2 DEF LiveRow, SwappedRow, Sessions!ReplacementActive,
     Sessions!IsRevoked
<1>4. PICK t \in when : t = rows[call.old].revokedAt
  BY DEF SwappedRow
<1>5. RevokedRow(rows, call.old)
  BY <1>4, NameAssumption DEF SwappedRow, RevokedRow
<1>6. Sessions!WithinGrace(rows, call.old, call.graceMs, call.now)
        <=> call.graceMs > 0 /\ call.now - t \in 0 .. call.graceMs
  BY <1>4 DEF Sessions!WithinGrace
<1>7. QED
  BY <1>3, <1>4, <1>5, <1>6, RevokedAnswers

-----------------------------------------------------------------------------
(* The phases the refresh tests are made of.                               *)

\* The call's answer is among those, and new is the table afterwards.
Turn(d, call, answer, new) ==
    answer = AnswerOf(d, call) /\ new = TablesAfter(d, call).sessions

\* A login has added the row x of its user.
LoggedIn(answer, new, rows, x, user) ==
    /\ answer = "done"
    /\ LiveRow(new, x, x, began + Ttl)
    /\ new[x].userId = user
    /\ Others(new, rows, {x})

\* The turn of a login.
LEMMA LoginTurn ==
    ASSUME Basics, NEW d, TypedDb(d), NEW call,
           NEW u \in Uses, NEW user \in Users,
           IsAsked(call, LoginAs(u, user), began, clock),
           NEW answer, NEW new, Turn(d, call, answer, new)
    PROVE  LoggedIn(answer, new, d.sessions, NameOf(run, 0, u), user)
<1>1. /\ call.op = "createSession" /\ call.as = NameOf(run, 0, u)
      /\ call.user = user /\ call.ttl = Ttl /\ call.now \in began .. clock
      /\ Proper(call, run)
  BY AskedLogin
<1>2. PICK x : x = NameOf(run, 0, u)
  OBVIOUS
<1>3. PICK e : e = call.now + call.ttl
  OBVIOUS
<1>4. answer = "done" /\ Inserted(new, d.sessions, x, x, user, e)
  BY <1>1, <1>2, <1>3, LoginActs DEF Turn
<1>5. e >= began + Ttl
  BY <1>1, <1>3, SuiteAssumption DEF Basics
<1>6. LiveRow(new, x, x, began + Ttl) /\ new[x].userId = user
  BY <1>4, <1>5 DEF Inserted, LiveRow, LoginRow
<1>7. Others(new, d.sessions, {x})
  BY <1>4 DEF Inserted, Others
<1>8. QED
  BY <1>2, <1>4, <1>6, <1>7 DEF LoggedIn

\* A live token is exchanged for v.
LEMMA SwapTurn ==
    ASSUME Basics, NEW d, TypedDb(d), NEW call, Proper(call, run),
           call.op = "rotate", NEW f, call.now \in Nat,
           LiveRow(d.sessions, call.old, f, began + Ttl),
           call.now >= began, call.now < began + Ttl,
           NEW answer, NEW new, Turn(d, call, answer, new)
    PROVE  /\ answer = "rotated"
           /\ SwappedRow(new, call.old, call.as, f, {call.now})
           /\ LiveRow(new, call.as, f, began + Ttl)
           /\ Others(new, d.sessions, {call.as, call.old})
           /\ Sessions!TypedRows(new)
<1>1. began + Ttl \in Nat /\ Sessions!TypedRows(d.sessions)
  BY SuiteAssumption DEF Basics, TypedDb
<1>2. RotateStatus(d.sessions, call) = "rotated"
  BY <1>1, LiveRotates
<1>3. PICK rows, old, as, now : rows = d.sessions /\ old = call.old
                                /\ as = call.as /\ now = call.now
  OBVIOUS
<1>4. PICK e : e = now + Ttl
  OBVIOUS
<1>5. answer = "rotated" /\ Replaced(new, rows, old, as, e, now)
  BY <1>2, <1>3, <1>4, RotateActs DEF Turn
<1>6. /\ old \in DOMAIN rows /\ rows[old].familyId = f
      /\ rows[old] \in Sessions!Row
  BY <1>1, <1>3 DEF LiveRow, Sessions!TypedRows
<1>7. as # old
  BY <1>3 DEF Proper, Fit
<1>8. LiveRow(new, as, f, began + Ttl)
  <2>1. new[as] = LoginRow(f, rows[old].userId, e) /\ as \in DOMAIN new
    BY <1>5, <1>6 DEF Replaced
  <2>2. e >= began + Ttl
    BY <1>3, <1>4, SuiteAssumption DEF Basics
  <2>3. PICK row : row = new[as]
    OBVIOUS
  <2>4. /\ row.revokedAt = Null /\ row.replacedById = Null
        /\ row.familyId = f /\ row.expiresAt = e
    BY <2>1, <2>3 DEF LoginRow
  <2>5. QED
    BY <2>1, <2>2, <2>3, <2>4 DEF LiveRow
<1>9. SwappedRow(new, old, as, f, {now})
  <2>1. new[old] = [rows[old] EXCEPT !.revokedAt = now, !.replacedById = as]
        /\ old \in DOMAIN new
    BY <1>5, <1>6 DEF Replaced
  <2>2. PICK row : row = rows[old]
    OBVIOUS
  <2>3. row \in Sessions!Row /\ row.familyId = f
    BY <1>6, <2>2
  <2>4. /\ new[old].revokedAt = now /\ new[old].replacedById = as
        /\ new[old].familyId = f
    BY <2>1, <2>2, <2>3 DEF Sessions!Row
  <2>5. QED
    BY <2>1, <2>4 DEF SwappedRow
<1>10. Others(new, rows, {as, old}) /\ Sessions!TypedRows(new)
  BY <1>5 DEF Replaced, Others
<1>11. QED
  BY <1>3, <1>5, <1>8, <1>9, <1>10

\* A replay within the window gets a sibling.
LEMMA SiblingTurn ==
    ASSUME Basics, NEW d, TypedDb(d), NEW call, Proper(call, run),
           call.op = "rotate", NEW f,
           RotateStatus(d.sessions, call) = "benign-race",
           d.sessions[call.old].familyId = f, call.now >= began,
           NEW answer, NEW new, Turn(d, call, answer, new)
    PROVE  /\ answer = "benign-race"
           /\ LiveRow(new, call.as, f, began + Ttl)
           /\ Others(new, d.sessions, {call.as})
           /\ Sessions!TypedRows(new)
<1>1. PICK rows, as, e, u : rows = d.sessions /\ as = call.as
                            /\ e = call.now + Ttl
                            /\ u = rows[call.old].userId
  OBVIOUS
<1>2. answer = "benign-race" /\ Inserted(new, rows, as, f, u, e)
  BY <1>1, RotateActs DEF Turn
<1>3. e >= began + Ttl
  BY <1>1, SuiteAssumption DEF Basics, Proper, Fit
<1>4. LiveRow(new, as, f, began + Ttl)
  BY <1>2, <1>3 DEF Inserted, LiveRow, LoginRow
<1>5. Others(new, rows, {as}) /\ Sessions!TypedRows(new)
  BY <1>2 DEF Inserted, Others
<1>6. QED
  BY <1>1, <1>2, <1>4, <1>5

\* A kill of T revokes what was live in it, and hides nothing.
LEMMA KillTurn ==
    ASSUME NEW rows, NEW new, NEW T, Revoked(new, rows, T)
    PROVE  /\ \A x \in DOMAIN rows :
                /\ RevokedRow(rows, x) => RevokedRow(new, x)
                /\ KilledRow(rows, x) => KilledRow(new, x)
                /\ x \in T => RevokedRow(new, x)
                /\ x \in T /\ rows[x].replacedById = Null => KilledRow(new, x)
                /\ new[x].replacedById = rows[x].replacedById
                /\ new[x].familyId = rows[x].familyId
           /\ Others(new, rows, T)
           /\ DOMAIN new = DOMAIN rows
           /\ Sessions!TypedRows(new)
  BY DEF Revoked, RevokedRow, KilledRow, Others

\* The turn of a reuse: it kills the family.
LEMMA ReuseTurn ==
    ASSUME Basics, NEW d, TypedDb(d), NEW call, Proper(call, run),
           call.op = "rotate",
           RotateStatus(d.sessions, call) = "reuse",
           NEW answer, NEW new, Turn(d, call, answer, new)
    PROVE  /\ answer = "reuse"
           /\ Revoked(new, d.sessions,
                Sessions!FamilyRows(d.sessions,
                                    d.sessions[call.old].familyId))
  BY RotateActs DEF Turn

\* What rows elsewhere are stays.
LEMMA RowsStay ==
    ASSUME NEW rows, NEW new, NEW T, Others(new, rows, T)
    PROVE  \A x : x \notin T =>
            /\ \A f, until : LiveRow(rows, x, f, until)
                                => LiveRow(new, x, f, until)
            /\ \A next, f, when : SwappedRow(rows, x, next, f, when)
                                => SwappedRow(new, x, next, f, when)
            /\ KilledRow(rows, x) => KilledRow(new, x)
            /\ RevokedRow(rows, x) => RevokedRow(new, x)
            /\ x \notin DOMAIN rows => x \notin DOMAIN new
  BY DEF Others, LiveRow, SwappedRow, KilledRow, RevokedRow

-----------------------------------------------------------------------------
(* The refresh tests, one by one.                                          *)

\* A phase with one call, before it is served, and after.
Scene(name, k, d, call, n) ==
    LET c == Script(name)[k].calls[1]
    IN  /\ Basics /\ TypedDb(d)
        /\ IsAsked(call, c, began, clock)
        /\ "now" \in DOMAIN c /\ c.now = Now => n = call.now
        /\ SessionHolds(name, k, d.sessions, run, began, n)

Outcome(name, k, d, call) ==
    /\ <<AnswerOf(d, call)>> \in Script(name)[k].expected
    /\ SessionHolds(name, k + 1, TablesAfter(d, call).sessions, run, began,
                    clock)

\* What is known where a phase of one call is played, and what suffices for
\* its outcome.
LEMMA SceneIs ==
    ASSUME NEW name, NEW k, NEW d, NEW call, NEW n, Scene(name, k, d, call, n),
           NEW c, NEW A, Script(name)[k] = Alone(c, A),
           NEW new, new = TablesAfter(d, call).sessions
    PROVE  /\ IsAsked(call, c, began, clock)
           /\ "now" \in DOMAIN c /\ c.now = Now => n = call.now
           /\ Basics /\ TypedDb(d)
           /\ Turn(d, call, AnswerOf(d, call), new)
           /\ /\ AnswerOf(d, call) \in A
              /\ SessionHolds(name, k + 1, new, run, began, clock)
              => Outcome(name, k, d, call)
  BY AloneIs DEF Scene, Outcome, Turn

\* A phase that logs a user in.
LEMMA LoginPhase ==
    ASSUME NEW name, NEW k, NEW d, NEW call, NEW n, Scene(name, k, d, call, n),
           NEW u \in Uses, NEW user \in Users, NEW A, "done" \in A,
           Script(name)[k] = Alone(LoginAs(u, user), A),
           NEW new, new = TablesAfter(d, call).sessions
    PROVE  /\ LiveRow(new, NameOf(run, 0, u), NameOf(run, 0, u), began + Ttl)
           /\ new[NameOf(run, 0, u)].userId = user
           /\ Others(new, d.sessions, {NameOf(run, 0, u)})
           /\ SessionHolds(name, k + 1, new, run, began, clock)
                => Outcome(name, k, d, call)
<1>1. PICK answer : answer = AnswerOf(d, call)
  OBVIOUS
<1>2. /\ IsAsked(call, LoginAs(u, user), began, clock)
      /\ Basics /\ TypedDb(d) /\ Turn(d, call, answer, new)
  BY <1>1, SceneIs
<1>5. /\ answer \in A
      /\ SessionHolds(name, k + 1, new, run, began, clock)
      => Outcome(name, k, d, call)
  BY <1>1, SceneIs
<1>3. LoggedIn(answer, new, d.sessions, NameOf(run, 0, u), user)
  BY <1>2, LoginTurn
<1>4. QED
  BY <1>3, <1>5 DEF LoggedIn

\* How a script's rotation is asked.
LEMMA RotateAsked ==
    ASSUME NEW name, NEW k, NEW d, NEW call, NEW n, Scene(name, k, d, call, n),
           NEW u \in Uses, NEW v \in Uses, u # v, NEW g \in {0, Grace},
           NEW now \in Nat \cup {Now}, NEW A,
           Script(name)[k] = Alone(Rotate(It(u), It(v), g, now), A),
           NEW new, new = TablesAfter(d, call).sessions,
           NEW answer, answer = AnswerOf(d, call)
    PROVE  /\ Turn(d, call, answer, new) /\ Basics /\ TypedDb(d)
           /\ call.op = "rotate" /\ call.graceMs = g
           /\ call.old = NameOf(run, 0, u) /\ call.as = NameOf(run, 0, v)
           /\ call.now \in Nat
           /\ now = Now => call.now \in began .. clock /\ n = call.now
           /\ now # Now => call.now = began + now
           /\ Proper(call, run)
           /\ answer \in A /\ SessionHolds(name, k + 1, new, run, began, clock)
              => Outcome(name, k, d, call)
<1>1. PICK c : c = Rotate(It(u), It(v), g, now)
  OBVIOUS
<1>2. /\ IsAsked(call, c, began, clock) /\ Basics /\ TypedDb(d)
      /\ Turn(d, call, answer, new)
      /\ "now" \in DOMAIN c /\ c.now = Now => n = call.now
      /\ /\ answer \in A
         /\ SessionHolds(name, k + 1, new, run, began, clock)
         => Outcome(name, k, d, call)
  BY <1>1, SceneIs
<1>3. /\ It(u) = NameOf(run, 0, u) /\ It(v) = NameOf(run, 0, v)
      /\ It(u) \in Draws /\ It(v) \in Draws /\ It(u) # It(v)
      /\ It(v)[1] = run
  BY <1>2, NamesOf, NamesDiffer DEF Basics
<1>4. g \in Nat \cup {Now}
  BY SuiteAssumption
<1>5. /\ call.op = "rotate" /\ call.graceMs = g
      /\ call.old = NameOf(run, 0, u) /\ call.as = NameOf(run, 0, v)
      /\ now = Now => call.now \in began .. clock
      /\ now # Now => call.now = began + now
      /\ Proper(call, run)
  BY <1>1, <1>2, <1>3, <1>4, AskedRotate
<1>6. "now" \in DOMAIN c /\ c.now = now
  BY <1>1 DEF Rotate
<1>7. call.now \in Nat
  BY <1>5, <1>2, SuiteAssumption DEF Basics
<1>8. QED
  BY <1>2, <1>5, <1>6, <1>7

\* x was exchanged for y.
Swaps(name, k, d, call, new, x, y, f) ==
    /\ SwappedRow(new, x, y, f, 0 .. clock)
    /\ LiveRow(new, y, f, began + Ttl)
    /\ Others(new, d.sessions, {x, y})
    /\ SessionHolds(name, k + 1, new, run, began, clock)
         => Outcome(name, k, d, call)

\* A phase that rotates a live token.
LEMMA SwapPhase ==
    ASSUME NEW name, NEW k, NEW d, NEW call, NEW n, Scene(name, k, d, call, n),
           NEW u \in Uses, NEW v \in Uses, u # v,
           NEW now \in {0, Now}, NEW A, "rotated" \in A,
           Script(name)[k] = Alone(Rotate(It(u), It(v), Grace, now), A),
           NEW new, new = TablesAfter(d, call).sessions,
           NEW x, NEW y, x = NameOf(run, 0, u), y = NameOf(run, 0, v),
           NEW f, LiveRow(d.sessions, x, f, began + Ttl)
    PROVE  /\ Swaps(name, k, d, call, new, x, y, f)
           /\ now = 0 => SwappedRow(new, x, y, f, {began})
<1>1. PICK answer : answer = AnswerOf(d, call)
  OBVIOUS
<1>2. /\ Turn(d, call, answer, new) /\ Basics /\ TypedDb(d)
      /\ call.op = "rotate"
      /\ call.old = NameOf(run, 0, u) /\ call.as = NameOf(run, 0, v)
      /\ call.now \in Nat
      /\ now = Now => call.now \in began .. clock
      /\ now # Now => call.now = began + now
      /\ Proper(call, run)
      /\ answer \in A /\ SessionHolds(name, k + 1, new, run, began, clock)
         => Outcome(name, k, d, call)
  BY <1>1, RotateAsked
<1>3. /\ call.now \in began .. clock /\ call.now < began + Ttl
      /\ call.now \in 0 .. clock
      /\ now = 0 => call.now = began
  BY <1>2, SuiteAssumption DEF Basics, Now
<1>0. LiveRow(d.sessions, call.old, f, began + Ttl) /\ call.now >= began
  BY <1>2, <1>3, SuiteAssumption DEF Basics
<1>4. /\ answer = "rotated"
      /\ SwappedRow(new, call.old, call.as, f, {call.now})
      /\ LiveRow(new, call.as, f, began + Ttl)
      /\ Others(new, d.sessions, {call.as, call.old})
  BY <1>0, <1>2, <1>3, SwapTurn
<1>5. /\ SwappedRow(new, call.old, call.as, f, 0 .. clock)
      /\ now = 0 => SwappedRow(new, call.old, call.as, f, {began})
  BY <1>3, <1>4 DEF SwappedRow
<1>6. call.old = x /\ call.as = y
  BY <1>2
<1>7. Others(new, d.sessions, {x, y})
  BY <1>4, <1>6 DEF Others
<1>8. QED
  BY <1>2, <1>4, <1>5, <1>6, <1>7 DEF Swaps

\* A replay of a rotated token, of which the replacement works.
Siblings(name, k, d, call, new, y, f) ==
    /\ LiveRow(new, y, f, began + Ttl)
    /\ Others(new, d.sessions, {y})
    /\ SessionHolds(name, k + 1, new, run, began, clock)
         => Outcome(name, k, d, call)

\* Family f is revoked.
Kills(name, k, d, call, new, f) ==
    /\ Revoked(new, d.sessions, Sessions!FamilyRows(d.sessions, f))
    /\ SessionHolds(name, k + 1, new, run, began, clock)
         => Outcome(name, k, d, call)

\* What the replay of a swapped token comes to, by the window and the age.
Replays(name, k, d, call, new, y, f, g, now, A) ==
    /\ (g = 0 \/ now = Grace + 1) /\ "reuse" \in A =>
         Kills(name, k, d, call, new, f)
    /\ g = Grace /\ now # Grace + 1 /\ "benign-race" \in A =>
         Siblings(name, k, d, call, new, y, f)

\* A phase that rotates a swapped one.
LEMMA ReplayPhase ==
    ASSUME NEW name, NEW k, NEW d, NEW call, NEW n, Scene(name, k, d, call, n),
           NEW u \in Uses, NEW v \in Uses, u # v, NEW g \in {0, Grace},
           NEW now \in {Now, Grace, Grace + 1}, NEW A,
           Script(name)[k] = Alone(Rotate(It(u), It(v), g, now), A),
           NEW new, new = TablesAfter(d, call).sessions,
           NEW x, NEW y, x = NameOf(run, 0, u), y = NameOf(run, 0, v),
           NEW f, NEW next, LiveRow(d.sessions, next, f, began + Ttl),
           \/ now = Now /\ SwappedRow(d.sessions, x, next, f, 0 .. n)
           \/ SwappedRow(d.sessions, x, next, f, {began})
    PROVE  Replays(name, k, d, call, new, y, f, g, now, A)
<1>1. PICK answer, rows : answer = AnswerOf(d, call) /\ rows = d.sessions
  OBVIOUS
<1>2. /\ Grace \in Nat /\ Ttl \in Nat /\ 0 < Grace /\ Grace + 1 < Ttl
      /\ now \in Nat \cup {Now}
  BY SuiteAssumption
<1>3. /\ Turn(d, call, answer, new) /\ Basics /\ TypedDb(d)
      /\ call.op = "rotate" /\ call.graceMs = g
      /\ call.old = NameOf(run, 0, u) /\ call.as = NameOf(run, 0, v)
      /\ call.now \in Nat
      /\ now = Now => call.now \in began .. clock /\ n = call.now
      /\ now # Now => call.now = began + now
      /\ Proper(call, run)
      /\ answer \in A /\ SessionHolds(name, k + 1, new, run, began, clock)
         => Outcome(name, k, d, call)
  BY <1>1, <1>2, RotateAsked
<1>4. /\ began \in Nat /\ clock \in Nat /\ began <= clock /\ clock <= Grace
  BY <1>3, SuiteAssumption DEF Basics
<1>5. PICK when \in SUBSET Nat :
            /\ SwappedRow(rows, call.old, next, f, when)
            /\ \/ when = 0 .. n /\ now = Now
               \/ when = {began}
  <2>1. 0 .. n \in SUBSET Nat /\ {began} \in SUBSET Nat
    BY <1>4
  <2>2. QED
    BY <1>1, <1>3, <2>1
<1>6. /\ call.now >= began /\ call.now < began + Ttl /\ began + Ttl \in Nat
      /\ call.graceMs \in Nat
  BY <1>2, <1>3, <1>4 DEF Now
<1>7. Sessions!TypedRows(rows)
  BY <1>1, <1>3 DEF TypedDb
<1>8. /\ (\A t \in when : call.now - t \in 0 .. call.graceMs)
         /\ call.graceMs > 0
           => RotateStatus(rows, call) = "benign-race"
      /\ (\A t \in when : call.now - t \notin 0 .. call.graceMs)
         \/ call.graceMs = 0
           => RotateStatus(rows, call) = "reuse"
  BY <1>1, <1>3, <1>5, <1>6, <1>7, SwappedAnswers
<1>9. call.old \in DOMAIN rows /\ rows[call.old].familyId = f
  BY <1>5 DEF SwappedRow
<1>10. ASSUME g = 0 \/ now = Grace + 1
       PROVE  /\ Revoked(new, rows, Sessions!FamilyRows(rows, f))
              /\ answer = "reuse"
  <2>1. now = Grace + 1 => \A t \in when : call.now - t \notin 0 .. call.graceMs
    BY <1>2, <1>3, <1>4, <1>5 DEF Now
  <2>2. RotateStatus(rows, call) = "reuse"
    BY <1>3, <1>8, <1>10, <2>1
  <2>3. QED
    BY <1>1, <1>3, <1>9, <2>2, ReuseTurn
<1>11. ASSUME g = Grace, now # Grace + 1
       PROVE  /\ LiveRow(new, call.as, f, began + Ttl)
              /\ Others(new, rows, {call.as})
              /\ answer = "benign-race"
  <2>1. CASE now = Now
    <3>1. when \subseteq 0 .. call.now
      BY <1>3, <1>4, <1>5, <2>1
    <3>2. \A t \in when : call.now - t \in 0 .. call.graceMs
      BY <1>2, <1>3, <1>4, <1>11, <2>1, <3>1
    <3>3. RotateStatus(rows, call) = "benign-race"
      BY <1>2, <1>3, <1>8, <1>11, <3>2
    <3>4. QED
      BY <1>1, <1>3, <1>6, <1>9, <3>3, SiblingTurn
  <2>2. CASE now # Now
    <3>1. now = Grace /\ call.now = began + Grace /\ when = {began}
      BY <1>3, <1>5, <1>11, <2>2
    <3>2. \A t \in when : call.now - t \in 0 .. call.graceMs
      BY <1>2, <1>3, <1>4, <1>11, <3>1
    <3>3. RotateStatus(rows, call) = "benign-race"
      BY <1>2, <1>3, <1>8, <1>11, <3>2
    <3>4. QED
      BY <1>1, <1>3, <1>6, <1>9, <3>3, SiblingTurn
  <2>3. QED
    BY <2>1, <2>2
<1>12. call.as = y
  BY <1>3
<1>13. (g = 0 \/ now = Grace + 1) /\ "reuse" \in A =>
            Kills(name, k, d, call, new, f)
  BY <1>1, <1>3, <1>10 DEF Kills
<1>14. ASSUME g = Grace, now # Grace + 1, "benign-race" \in A
       PROVE  Siblings(name, k, d, call, new, y, f)
  <2>1. Others(new, d.sessions, {y})
    BY <1>1, <1>11, <1>12, <1>14 DEF Others
  <2>2. QED
    BY <1>1, <1>3, <1>11, <1>12, <1>14, <2>1 DEF Siblings
<1>15. QED
  BY <1>13, <1>14 DEF Replays

\* A rotation of a token that a kill revoked.
LEMMA DeadPhase ==
    ASSUME NEW name, NEW k, NEW d, NEW call, NEW n, Scene(name, k, d, call, n),
           NEW u \in Uses, NEW v \in Uses, u # v, NEW A, "reuse" \in A,
           Script(name)[k] = Alone(Refresh(u, v), A),
           NEW new, new = TablesAfter(d, call).sessions,
           KilledRow(d.sessions, NameOf(run, 0, u)), NEW f,
           f = d.sessions[NameOf(run, 0, u)].familyId
    PROVE  Kills(name, k, d, call, new, f)
<1>1. PICK answer : answer = AnswerOf(d, call)
  OBVIOUS
<1>2. Script(name)[k] = Alone(Rotate(It(u), It(v), Grace, Now), A)
  BY DEF Refresh
<1>3. /\ Turn(d, call, answer, new) /\ Basics /\ TypedDb(d)
      /\ call.op = "rotate"
      /\ call.old = NameOf(run, 0, u)
      /\ Proper(call, run)
      /\ answer \in A
         /\ SessionHolds(name, k + 1, new, run, began, clock)
         => Outcome(name, k, d, call)
  <2>1. Grace \in {0, Grace} /\ Now \in Nat \cup {Now}
    OBVIOUS
  <2>2. QED
    <3>1. PICK now, g : now = Now /\ g = Grace
      OBVIOUS
    <3>2. /\ Script(name)[k] = Alone(Rotate(It(u), It(v), g, now), A)
          /\ g \in {0, Grace} /\ now \in Nat \cup {Now}
      BY <1>2, <2>1, <3>1
    <3>3. /\ Turn(d, call, answer, new) /\ Basics /\ TypedDb(d)
          /\ call.op = "rotate"
          /\ call.old = NameOf(run, 0, u)
          /\ Proper(call, run)
          /\ answer \in A /\ SessionHolds(name, k + 1, new, run, began, clock)
                => Outcome(name, k, d, call)
      BY <1>1, <3>2, RotateAsked
    <3>4. QED
      BY <3>1, <3>3
<1>4. RotateStatus(d.sessions, call) = "reuse"
  BY <1>3, KilledReuses DEF TypedDb
<1>5. QED
  BY <1>3, <1>4, ReuseTurn DEF Kills

\* The names of the refresh tests differ.
LEMMA SessionNames ==
    ASSUME Basics
    PROVE  LET x(u) == NameOf(run, 0, u)
           IN  /\ x("issued") # x("next") /\ x("issued") # x("sibling")
               /\ x("next") # x("sibling") /\ x("issued") # x("other")
               /\ x("issued") # x("third") /\ x("other") # x("third")
               /\ x("next") # x("third") /\ x("sibling") # x("third")
               /\ x("next") # x("other") /\ x("sibling") # x("other")
               /\ \A u \in {"r1", "r2", "r3"} :
                    x(u) \notin {x("issued"), x("other"), x("third")}
  BY NamesOf DEF Basics

\* The uses and users the scripts name.
LEMMA ScriptUses ==
    {"issued", "next", "sibling", "other", "third", "r1", "r2", "r3",
     "racer", "unknown"} \subseteq Uses /\ {user1, user2} \subseteq Users
  BY DEF Uses, Users

\* The first phase of most refresh tests, and the second of many.
LEMMA IssuedPhase ==
    ASSUME NEW name, NEW k, NEW d, NEW call, NEW n, Scene(name, k, d, call, n),
           Script(name)[k] = Alone(LoginAs("issued", user1), {"done"}),
           NEW new, new = TablesAfter(d, call).sessions,
           NEW x, x = NameOf(run, 0, "issued")
    PROVE  /\ LiveRow(new, x, x, began + Ttl)
           /\ new[x].userId = user1
           /\ Others(new, d.sessions, {x})
           /\ SessionHolds(name, k + 1, new, run, began, clock)
                => Outcome(name, k, d, call)
<1>1. "issued" \in Uses /\ user1 \in Users
  BY ScriptUses
<1>2. PICK u \in Uses, user \in Users, A \in SUBSET {"done"} :
        u = "issued" /\ user = user1 /\ A = {"done"}
  BY <1>1
<1>3. "done" \in A /\ Script(name)[k] = Alone(LoginAs(u, user), A)
  BY <1>2
<1>4. /\ LiveRow(new, NameOf(run, 0, u), NameOf(run, 0, u), began + Ttl)
      /\ new[NameOf(run, 0, u)].userId = user
      /\ Others(new, d.sessions, {NameOf(run, 0, u)})
      /\ SessionHolds(name, k + 1, new, run, began, clock)
                => Outcome(name, k, d, call)
  BY <1>3, LoginPhase
<1>5. QED
  BY <1>2, <1>4

\* The first rotation of a login.
LEMMA NextPhase ==
    ASSUME NEW name, NEW k, NEW d, NEW call, NEW n, Scene(name, k, d, call, n),
           Script(name)[k] = Alone(Refresh("issued", "next"), Rotated),
           NEW new, new = TablesAfter(d, call).sessions,
           NEW x, x = NameOf(run, 0, "issued"),
           NEW y, y = NameOf(run, 0, "next"),
           LiveRow(d.sessions, x, x, began + Ttl)
    PROVE  Swaps(name, k, d, call, new, x, y, x)
<1>0. "issued" \in Uses /\ "next" \in Uses
  BY ScriptUses
<1>1. PICK u \in Uses, v \in Uses, now \in {0, Now}, A \in {Rotated} :
            u = "issued" /\ v = "next" /\ now = Now /\ A = Rotated
  BY <1>0
<1>2. Script(name)[k] = Alone(Rotate(It(u), It(v), Grace, now), A)
  BY <1>1 DEF Refresh
<1>3. u # v /\ "rotated" \in A
  BY <1>1 DEF Rotated
<1>4. x = NameOf(run, 0, u) /\ y = NameOf(run, 0, v)
  BY <1>1
<1>5. QED
  BY <1>2, <1>3, <1>4, SwapPhase

\* StoresTheHash: the login's row is found.
LEMMA StoryOfStoresTheHash ==
    ASSUME NEW name, name = "StoresTheHash", NEW k \in DOMAIN Script(name),
           NEW d, NEW call, NEW n, Scene(name, k, d, call, n)
    PROVE  Outcome(name, k, d, call)
<1>1. PICK T : T = Script(name)
  OBVIOUS
<1>2. T = <<Alone(LoginAs("issued", user1), {"done"}),
            Alone(FindByHash("issued"), {"live", "revoked"})>>
  BY <1>1, RefreshScripts DEF StoresTheHash
<1>3. PICK new : new = TablesAfter(d, call).sessions
  OBVIOUS
<1>4. CASE k = 1
  <2>1. T[k] = Alone(LoginAs("issued", user1), {"done"})
    BY <1>2, <1>4
  <2>2. LiveRow(new, NameOf(run, 0, "issued"), NameOf(run, 0, "issued"),
                began + Ttl)
        /\ (SessionHolds(name, k + 1, new, run, began, clock)
                => Outcome(name, k, d, call))
    BY <1>1, <1>3, <2>1, IssuedPhase
  <2>3. QED
    BY <1>4, <2>2 DEF SessionHolds, LiveRow
<1>5. CASE k = 2
  <2>1. T[k] = Alone(FindByHash("issued"), {"live", "revoked"})
    BY <1>2, <1>5
  <2>2. /\ IsAsked(call, FindByHash("issued"), began, clock)
        /\ AnswerOf(d, call) \in {"live", "revoked"}
           /\ SessionHolds(name, k + 1, new, run, began, clock)
              => Outcome(name, k, d, call)
    BY <1>1, <1>3, <2>1, SceneIs
  <2>3. call.op = "findByHash" /\ call.old = NameOf(run, 0, "issued")
    BY <2>2, NamesOf, ScriptUses DEF IsAsked, FindByHash, Scene, Basics
  <2>4. AnswerOf(d, call) = RowState(d.sessions, call.old)
    BY <2>3 DEF AnswerOf
  <2>5. NameOf(run, 0, "issued") \in DOMAIN d.sessions
    BY <1>5 DEF Scene, SessionHolds
  <2>6. AnswerOf(d, call) \in {"live", "revoked"}
    BY <2>3, <2>4, <2>5 DEF RowState
  <2>7. QED
    BY <1>5, <2>2, <2>6 DEF SessionHolds
<1>6. QED
  BY <1>1, <1>2, <1>4, <1>5

\* UnknownIsInvalid: a token never drawn has no row.
LEMMA StoryOfUnknownIsInvalid ==
    ASSUME NEW name, name = "UnknownIsInvalid", NEW k \in DOMAIN Script(name),
           NEW d, NEW call, NEW n, Scene(name, k, d, call, n),
           NamedUpTo(d, run)
    PROVE  Outcome(name, k, d, call)
<1>1. PICK T : T = Script(name)
  OBVIOUS
<1>2. T = <<Alone(Rotate(Unknown, It("next"), Grace, Now), Invalid)>>
  BY <1>1, RefreshScripts DEF UnknownIsInvalid
<1>3. k = 1 /\ T[k] = Alone(Rotate(Unknown, It("next"), Grace, Now), Invalid)
  BY <1>1, <1>2
<1>4. PICK c : c = Rotate(Unknown, It("next"), Grace, Now)
  OBVIOUS
<1>5. /\ IsAsked(call, c, began, clock)
      /\ AnswerOf(d, call) \in Invalid
         /\ SessionHolds(name, k + 1, TablesAfter(d, call).sessions, run,
                         began, clock)
            => Outcome(name, k, d, call)
  BY <1>1, <1>3, <1>4, SceneIs
<1>6. call.op = "rotate" /\ call.old = Unknown
  BY <1>4, <1>5 DEF IsAsked, Rotate
<1>7. Unknown \notin DOMAIN d.sessions
  BY SuiteAssumption DEF NamedUpTo, Unknown, Scene, Basics
<1>8. AnswerOf(d, call) = "not-found"
  BY <1>6, <1>7 DEF AnswerOf, RotateStatus
<1>9. QED
  BY <1>3, <1>5, <1>8 DEF SessionHolds, Invalid

\* ExpiredIsInvalid: a token of a short life, two instants later.
LEMMA StoryOfExpiredIsInvalid ==
    ASSUME NEW name, name = "ExpiredIsInvalid", NEW k \in DOMAIN Script(name),
           NEW d, NEW call, NEW n, Scene(name, k, d, call, n)
    PROVE  Outcome(name, k, d, call)
<1>1. PICK T : T = Script(name)
  OBVIOUS
<1>2. PICK login : login = [LoginAs("issued", user1) EXCEPT !.ttl = 1, !.now = 0]
  OBVIOUS
<1>3. T = <<Alone(login, {"done"}),
            Alone(Rotate(It("issued"), It("next"), Grace, 2), Invalid)>>
  BY <1>1, <1>2, RefreshScripts DEF ExpiredIsInvalid
<1>4. PICK new : new = TablesAfter(d, call).sessions
  OBVIOUS
<1>5. Basics /\ TypedDb(d) /\ SessionHolds(name, k, d.sessions, run, began, n)
  BY DEF Scene
<1>6. CASE k = 1
  <2>1. /\ IsAsked(call, login, began, clock)
        /\ AnswerOf(d, call) \in {"done"}
           /\ SessionHolds(name, k + 1, new, run, began, clock)
              => Outcome(name, k, d, call)
    BY <1>1, <1>3, <1>4, <1>6, SceneIs
  <2>2. login = [op |-> "createSession", as |-> It("issued"), user |-> user1,
                 ttl |-> 1, now |-> 0]
    BY <1>2 DEF LoginAs
  <2>3. /\ It("issued") = NameOf(run, 0, "issued") /\ It("issued") \in Draws
        /\ It("issued")[1] = run /\ user1 \in Users
    BY <1>5, NamesOf, NamesDiffer, ScriptUses DEF Basics
  <2>4. Fit(login, run)
    BY <2>2, <2>3 DEF Fit
  <2>5. Proper(call, run)
    BY <2>1, <2>4, AskedProper
  <2>6. "now" \in DOMAIN login /\ login.now = 0 /\ 0 # Now
    BY <2>2 DEF Now
  <2>7. /\ call.op = "createSession" /\ call.as = login.as /\ call.ttl = login.ttl
        /\ call.now = began + 0
    BY <2>1, <2>2, <2>6 DEF IsAsked
  <2>8. call.as = NameOf(run, 0, "issued") /\ call.ttl = 1
    BY <2>2, <2>3, <2>7
  <2>9. PICK x, u, e : x = call.as /\ u = call.user /\ e = call.now + call.ttl
    OBVIOUS
  <2>10. AnswerOf(d, call) = "done" /\ Inserted(new, d.sessions, x, x, u, e)
    BY <1>4, <1>5, <2>5, <2>7, <2>9, LoginActs
  <2>11. e <= began + 2
    BY <1>5, <2>7, <2>8, <2>9, SuiteAssumption DEF Basics
  <2>12. SessionHolds(name, k + 1, new, run, began, clock)
    BY <1>6, <2>8, <2>9, <2>10, <2>11 DEF SessionHolds, Inserted, LoginRow
  <2>13. QED
    BY <2>1, <2>10, <2>12
<1>7. CASE k = 2
  <2>1. T[k] = Alone(Rotate(It("issued"), It("next"), Grace, 2), Invalid)
    BY <1>3, <1>7
  <2>2. /\ call.op = "rotate" /\ call.old = NameOf(run, 0, "issued")
        /\ call.now = began + 2
        /\ AnswerOf(d, call) \in Invalid
           /\ SessionHolds(name, k + 1, new, run, began, clock)
              => Outcome(name, k, d, call)
    <3>1. "issued" \in Uses /\ "next" \in Uses /\ 2 \in Nat \cup {Now}
          /\ Grace \in {0, Grace} /\ 2 # Now
      BY ScriptUses DEF Now
    <3>2. PICK now, A : now = 2 /\ A = Invalid
      OBVIOUS
    <3>3. /\ call.op = "rotate" /\ call.old = NameOf(run, 0, "issued")
          /\ call.now = began + now
          /\ AnswerOf(d, call) \in A
             /\ SessionHolds(name, k + 1, new, run, began, clock)
                => Outcome(name, k, d, call)
      BY <1>1, <1>4, <2>1, <3>1, <3>2, RotateAsked
    <3>4. QED
      BY <3>2, <3>3
  <2>3. /\ NameOf(run, 0, "issued") \in DOMAIN d.sessions
        /\ d.sessions[NameOf(run, 0, "issued")].revokedAt = Null
        /\ d.sessions[NameOf(run, 0, "issued")].expiresAt <= began + 2
    BY <1>5, <1>7 DEF SessionHolds
  <2>4. AnswerOf(d, call) = "expired"
    BY <2>2, <2>3 DEF AnswerOf, RotateStatus, Sessions!IsRevoked
  <2>5. QED
    BY <1>7, <2>2, <2>4 DEF SessionHolds, Invalid
<1>8. QED
  BY <1>1, <1>3, <1>6, <1>7

\* The phases by what the scripts call them.
LEMMA RefreshPhase ==
    ASSUME NEW name, NEW k, NEW d, NEW call, NEW n, Scene(name, k, d, call, n),
           NEW u \in Uses, NEW v \in Uses, u # v, NEW A,
           Script(name)[k] = Alone(Refresh(u, v), A),
           NEW new, new = TablesAfter(d, call).sessions,
           NEW x, NEW y, x = NameOf(run, 0, u), y = NameOf(run, 0, v), NEW f
    PROVE  /\ LiveRow(d.sessions, x, f, began + Ttl) /\ "rotated" \in A =>
                Swaps(name, k, d, call, new, x, y, f)
           /\ \A next : SwappedRow(d.sessions, x, next, f, 0 .. n)
                        /\ LiveRow(d.sessions, next, f, began + Ttl)
                        /\ "benign-race" \in A =>
                    Siblings(name, k, d, call, new, y, f)
<1>1. PICK now \in {0, Now}, g \in {0, Grace} : now = Now /\ g = Grace
  OBVIOUS
<1>2. /\ Script(name)[k] = Alone(Rotate(It(u), It(v), Grace, now), A)
      /\ Script(name)[k] = Alone(Rotate(It(u), It(v), g, now), A)
  BY <1>1 DEF Refresh
<1>3. now \in {Now, Grace, Grace + 1} /\ now # Grace + 1
  BY <1>1, SuiteAssumption DEF Now
<1>4. LiveRow(d.sessions, x, f, began + Ttl) /\ "rotated" \in A =>
                Swaps(name, k, d, call, new, x, y, f)
  BY <1>2, SwapPhase
<1>5. ASSUME NEW next, SwappedRow(d.sessions, x, next, f, 0 .. n),
             LiveRow(d.sessions, next, f, began + Ttl), "benign-race" \in A
      PROVE  Siblings(name, k, d, call, new, y, f)
  <2>1. Replays(name, k, d, call, new, y, f, Grace, now, A)
    BY <1>1, <1>2, <1>3, <1>5, ReplayPhase
  <2>2. QED
    BY <1>3, <1>5, <2>1 DEF Replays
<1>6. QED
  BY <1>4, <1>5

\* A phase that revokes a family.
LEMMA FamilyPhase ==
    ASSUME NEW name, NEW k, NEW d, NEW call, NEW n, Scene(name, k, d, call, n),
           NEW u \in Uses, NEW A, "done" \in A,
           Script(name)[k] = Alone(RevokeFamily(u), A),
           NEW new, new = TablesAfter(d, call).sessions,
           NEW x, x = NameOf(run, 0, u)
    PROVE  Kills(name, k, d, call, new, x)
<1>1. PICK c : c = RevokeFamily(u)
  OBVIOUS
<1>2. /\ IsAsked(call, c, began, clock) /\ Basics /\ TypedDb(d)
      /\ /\ AnswerOf(d, call) \in A
         /\ SessionHolds(name, k + 1, new, run, began, clock)
         => Outcome(name, k, d, call)
  BY <1>1, SceneIs
<1>3. c = [op |-> "revokeFamily", family |-> It(u)]
  BY <1>1 DEF RevokeFamily
<1>4. x = It(u)
  BY <1>2, NamesOf DEF Basics
<1>5. call.op = "revokeFamily" /\ call.family = x /\ "op" \in DOMAIN call
  BY <1>2, <1>3, <1>4 DEF IsAsked
<1>6. PICK F : F = Sessions!FamilyRows(d.sessions, x)
  OBVIOUS
<1>7. AnswerOf(d, call) = "done" /\ Revoked(new, d.sessions, F)
  BY <1>2, <1>5, <1>6, KillActs
<1>8. QED
  BY <1>2, <1>6, <1>7 DEF Kills

\* The rows of a family are revoked, and not replaced if they were not.
LEMMA KillsDo ==
    ASSUME NEW name, NEW k, NEW d, NEW call, NEW new, NEW f,
           Kills(name, k, d, call, new, f)
    PROVE  /\ \A x \in DOMAIN d.sessions :
                /\ d.sessions[x].familyId = f => RevokedRow(new, x)
                /\ d.sessions[x].familyId = f
                   /\ d.sessions[x].replacedById = Null => KilledRow(new, x)
                /\ KilledRow(d.sessions, x) => KilledRow(new, x)
                /\ new[x].familyId = d.sessions[x].familyId
           /\ Others(new, d.sessions, Sessions!FamilyRows(d.sessions, f))
           /\ SessionHolds(name, k + 1, new, run, began, clock)
                => Outcome(name, k, d, call)
<1>1. PICK F : F = Sessions!FamilyRows(d.sessions, f)
  OBVIOUS
<1>2. \A x \in DOMAIN d.sessions : d.sessions[x].familyId = f => x \in F
  BY <1>1 DEF Sessions!FamilyRows
<1>3. Revoked(new, d.sessions, F)
  BY <1>1 DEF Kills
<1>4. QED
  BY <1>1, <1>2, <1>3, KillTurn DEF Kills

\* The opening of the tests that log in once, and of those that refresh next.
LEMMA Opening ==
    ASSUME NEW name, NEW k, NEW d, NEW call, NEW n, Scene(name, k, d, call, n),
           name \in {"RotateRace", "ReplayOutsideWindow", "DefaultIsBenign",
                     "BenignRace", "DefaultIsInclusive", "DefaultEnds",
                     "RevokeFamilyKills", "DefectA"},
           k = 1, Script(name)[k] = Alone(LoginAs("issued", user1), {"done"})
    PROVE  Outcome(name, k, d, call)
<1>1. PICK new, x, z : /\ new = TablesAfter(d, call).sessions
                       /\ x = NameOf(run, 0, "issued")
                       /\ z = NameOf(run, 0, "sibling")
  OBVIOUS
<1>2. /\ LiveRow(new, x, x, began + Ttl)
      /\ Others(new, d.sessions, {x})
      /\ SessionHolds(name, k + 1, new, run, began, clock)
            => Outcome(name, k, d, call)
  BY <1>1, IssuedPhase
<1>3. x # z
  BY <1>1, SessionNames DEF Scene
<1>4. name = "DefectA" => z \notin DOMAIN new
  BY <1>1, <1>2, <1>3 DEF Others, Scene, SessionHolds
<1>5. QED
  BY <1>1, <1>2, <1>4 DEF SessionHolds

\* The second phase of the tests that begin with a login and a rotation.
LEMMA SecondOpening ==
    ASSUME NEW name, NEW k, NEW d, NEW call, NEW n, Scene(name, k, d, call, n),
           name \in {"ReplayOutsideWindow", "DefaultIsBenign", "BenignRace",
                     "DefectA"},
           k = 2, Script(name)[k] = Alone(Refresh("issued", "next"), Rotated)
    PROVE  Outcome(name, k, d, call)
<1>1. PICK new, x, y, z : /\ new = TablesAfter(d, call).sessions
                          /\ x = NameOf(run, 0, "issued")
                          /\ y = NameOf(run, 0, "next")
                          /\ z = NameOf(run, 0, "sibling")
  OBVIOUS
<1>2. /\ LiveRow(d.sessions, x, x, began + Ttl)
      /\ name = "DefectA" => z \notin DOMAIN d.sessions
  BY <1>1 DEF Scene, SessionHolds
<1>3. Swaps(name, k, d, call, new, x, y, x)
  BY <1>1, <1>2, NextPhase
<1>4. x # z /\ y # z
  BY <1>1, SessionNames DEF Scene
<1>5. name = "DefectA" => z \notin DOMAIN new
  BY <1>2, <1>3, <1>4 DEF Others, Swaps
<1>6. QED
  BY <1>1, <1>3, <1>5 DEF SessionHolds, Swaps

\* A second refresh of the issued token, as some scripts make it.
LEMMA SiblingPhase ==
    ASSUME NEW name, NEW k, NEW d, NEW call, NEW n, Scene(name, k, d, call, n),
           Script(name)[k] = Alone(Refresh("issued", "sibling"), Rotated),
           SwappedRow(d.sessions, NameOf(run, 0, "issued"),
                      NameOf(run, 0, "next"), NameOf(run, 0, "issued"), 0 .. n),
           LiveRow(d.sessions, NameOf(run, 0, "next"), NameOf(run, 0, "issued"),
                   began + Ttl)
    PROVE  Siblings(name, k, d, call, TablesAfter(d, call).sessions,
                    NameOf(run, 0, "sibling"), NameOf(run, 0, "issued"))
<1>1. "issued" \in Uses /\ "sibling" \in Uses
  BY ScriptUses
<1>2. PICK u \in Uses, v \in Uses, A \in {Rotated} :
            u = "issued" /\ v = "sibling"
  BY <1>1
<1>3. PICK new, x, y, z : /\ new = TablesAfter(d, call).sessions
                          /\ x = NameOf(run, 0, "issued")
                          /\ y = NameOf(run, 0, "next")
                          /\ z = NameOf(run, 0, "sibling")
  OBVIOUS
<1>4. /\ Script(name)[k] = Alone(Refresh(u, v), A) /\ u # v
      /\ "benign-race" \in A /\ x = NameOf(run, 0, u) /\ z = NameOf(run, 0, v)
      /\ SwappedRow(d.sessions, x, y, x, 0 .. n)
      /\ LiveRow(d.sessions, y, x, began + Ttl)
  BY <1>2, <1>3 DEF Rotated
<1>5. QED
  BY <1>3, <1>4, RefreshPhase

\* ReplayOutsideWindow: the replay kills the replacement.
LEMMA StoryOfReplayOutsideWindow ==
    ASSUME NEW name, name = "ReplayOutsideWindow", NEW k \in DOMAIN Script(name),
           NEW d, NEW call, NEW n, Scene(name, k, d, call, n)
    PROVE  Outcome(name, k, d, call)
<1>1. PICK T : T = Script(name)
  OBVIOUS
<1>2. T = <<Alone(LoginAs("issued", user1), {"done"}),
            Alone(Refresh("issued", "next"), Rotated),
            Alone(Rotate(It("issued"), It("sibling"), 0, Now), {"reuse"}),
            Alone(Refresh("next", "third"), {"reuse"})>>
  BY <1>1, RefreshScripts DEF ReplayOutsideWindow
<1>3. PICK new : new = TablesAfter(d, call).sessions
  OBVIOUS
<1>4. PICK x, y : x = NameOf(run, 0, "issued") /\ y = NameOf(run, 0, "next")
  OBVIOUS
<1>5. SessionHolds(name, k, d.sessions, run, began, n)
  BY DEF Scene
<1>6. {"issued", "next", "sibling", "third"} \subseteq Uses
  BY ScriptUses
<1>7. CASE k = 1
  BY <1>1, <1>2, <1>7, Opening
<1>8. CASE k = 2
  BY <1>1, <1>2, <1>8, SecondOpening
<1>9. CASE k = 3
  <2>1. PICK u \in Uses, v \in Uses, now \in {Now, Grace, Grace + 1},
             g \in {0, Grace}, A \in SUBSET {"reuse"} :
            /\ u = "issued" /\ v = "sibling" /\ now = Now /\ g = 0
            /\ A = {"reuse"}
    BY <1>6
  <2>2. Script(name)[k] = Alone(Rotate(It(u), It(v), g, now), A)
    BY <1>1, <1>2, <1>9, <2>1
  <2>3. /\ SwappedRow(d.sessions, x, y, x, 0 .. n)
        /\ LiveRow(d.sessions, y, x, began + Ttl)
    BY <1>4, <1>5, <1>9 DEF SessionHolds
  <2>4. Kills(name, k, d, call, new, x)
    <3>1. PICK z : z = NameOf(run, 0, v)
      OBVIOUS
    <3>2. u # v /\ g = 0 /\ now = Now /\ "reuse" \in A /\ x = NameOf(run, 0, u)
      BY <1>4, <2>1
    <3>3. QED
      <4>1. Replays(name, k, d, call, new, z, x, g, now, A)
        BY <1>3, <2>2, <2>3, <3>1, <3>2, ReplayPhase
      <4>2. QED
        BY <3>2, <4>1 DEF Replays
  <2>5. KilledRow(new, y)
    BY <2>3, <2>4, KillsDo DEF LiveRow
  <2>6. QED
    BY <1>4, <1>9, <2>4, <2>5 DEF SessionHolds, Kills
<1>10. CASE k = 4
  <2>1. PICK u \in Uses, v \in Uses, A \in SUBSET {"reuse"} :
            u = "next" /\ v = "third" /\ A = {"reuse"}
    BY <1>6
  <2>2. Script(name)[k] = Alone(Refresh(u, v), A) /\ u # v /\ "reuse" \in A
    BY <1>1, <1>2, <1>10, <2>1
  <2>3. KilledRow(d.sessions, NameOf(run, 0, u))
    BY <1>5, <1>10, <2>1 DEF SessionHolds
  <2>0. PICK f : f = d.sessions[NameOf(run, 0, u)].familyId
    OBVIOUS
  <2>4. Kills(name, k, d, call, new, f)
    BY <1>3, <2>0, <2>2, <2>3, DeadPhase
  <2>5. QED
    BY <1>10, <2>4 DEF SessionHolds, Kills
<1>11. QED
  BY <1>1, <1>2, <1>7, <1>8, <1>9, <1>10

\* DefaultIsBenign: the replay within the default window is let through.
LEMMA StoryOfDefaultIsBenign ==
    ASSUME NEW name, name = "DefaultIsBenign", NEW k \in DOMAIN Script(name),
           NEW d, NEW call, NEW n, Scene(name, k, d, call, n)
    PROVE  Outcome(name, k, d, call)
<1>1. PICK T : T = Script(name)
  OBVIOUS
<1>2. T = <<Alone(LoginAs("issued", user1), {"done"}),
            Alone(Refresh("issued", "next"), Rotated),
            Alone(Refresh("issued", "sibling"), Rotated)>>
  BY <1>1, RefreshScripts DEF DefaultIsBenign
<1>3. CASE k = 1
  BY <1>1, <1>2, <1>3, Opening
<1>4. CASE k = 2
  BY <1>1, <1>2, <1>4, SecondOpening
<1>5. CASE k = 3
  <2>1. Script(name)[k] = Alone(Refresh("issued", "sibling"), Rotated)
    BY <1>1, <1>2, <1>5
  <2>2. Siblings(name, k, d, call, TablesAfter(d, call).sessions,
                 NameOf(run, 0, "sibling"), NameOf(run, 0, "issued"))
    BY <1>5, <2>1, SiblingPhase DEF Scene, SessionHolds
  <2>3. QED
    BY <1>5, <2>2 DEF SessionHolds, Siblings
<1>6. QED
  BY <1>1, <1>2, <1>3, <1>4, <1>5

\* DefaultIsInclusive and DefaultEnds: the window's last instant and the one
\* after.
LEMMA StoryOfWindowsEnd ==
    ASSUME NEW name, name \in {"DefaultIsInclusive", "DefaultEnds"},
           NEW k \in DOMAIN Script(name),
           NEW d, NEW call, NEW n, Scene(name, k, d, call, n)
    PROVE  Outcome(name, k, d, call)
<1>1. PICK T, age, A : /\ T = Script(name)
                       /\ age = IF name = "DefaultEnds" THEN Grace + 1 ELSE Grace
                       /\ A = IF name = "DefaultEnds" THEN {"reuse"} ELSE Rotated
  OBVIOUS
<1>2. T = <<Alone(LoginAs("issued", user1), {"done"}),
            Alone(Rotate(It("issued"), It("next"), Grace, 0), Rotated),
            Alone(Rotate(It("issued"), It("sibling"), Grace, age), A)>>
  BY <1>1, RefreshScripts DEF DefaultIsInclusive, DefaultEnds, ReplayAfter
<1>3. PICK new, x, y, z : /\ new = TablesAfter(d, call).sessions
                          /\ x = NameOf(run, 0, "issued")
                          /\ y = NameOf(run, 0, "next")
                          /\ z = NameOf(run, 0, "sibling")
  OBVIOUS
<1>4. {"issued", "next", "sibling"} \subseteq Uses
  BY ScriptUses
<1>5. CASE k = 1
  <2>1. Script(name)[k] = Alone(LoginAs("issued", user1), {"done"})
    BY <1>1, <1>2, <1>5
  <2>2. name \in {"RotateRace", "ReplayOutsideWindow", "DefaultIsBenign",
                  "BenignRace", "DefaultIsInclusive", "DefaultEnds",
                  "RevokeFamilyKills", "DefectA"}
    OBVIOUS
  <2>3. QED
    BY <1>5, <2>1, <2>2, Opening
<1>6. CASE k = 2
  <2>1. PICK u \in Uses, v \in Uses, now \in {0, Now}, B \in {Rotated} :
            u = "issued" /\ v = "next" /\ now = 0
    BY <1>4
  <2>2. /\ Script(name)[k] = Alone(Rotate(It(u), It(v), Grace, now), B)
        /\ u # v /\ "rotated" \in B /\ x = NameOf(run, 0, u)
        /\ y = NameOf(run, 0, v) /\ LiveRow(d.sessions, x, x, began + Ttl)
    BY <1>1, <1>2, <1>3, <1>6, <2>1 DEF Rotated, Scene, SessionHolds
  <2>3. /\ Swaps(name, k, d, call, new, x, y, x)
        /\ now = 0 => SwappedRow(new, x, y, x, {began})
    BY <1>3, <2>2, SwapPhase
  <2>4. QED
    BY <1>3, <1>6, <2>1, <2>3 DEF SessionHolds, Swaps
<1>7. CASE k = 3
  <2>1. PICK u \in Uses, v \in Uses, g \in {0, Grace} :
            u = "issued" /\ v = "sibling" /\ g = Grace
    BY <1>4
  <2>2. /\ Script(name)[k] = Alone(Rotate(It(u), It(v), g, age), A)
        /\ u # v /\ x = NameOf(run, 0, u) /\ z = NameOf(run, 0, v)
        /\ age \in {Now, Grace, Grace + 1}
    BY <1>1, <1>2, <1>3, <1>7, <2>1
  <2>3. /\ SwappedRow(d.sessions, x, y, x, {began})
        /\ LiveRow(d.sessions, y, x, began + Ttl)
    BY <1>3, <1>7 DEF Scene, SessionHolds
  <2>4. Replays(name, k, d, call, new, z, x, g, age, A)
    BY <1>3, <2>2, <2>3, ReplayPhase
  <2>5. \/ age = Grace + 1 /\ "reuse" \in A
        \/ age # Grace + 1 /\ "benign-race" \in A
    BY <1>1, SuiteAssumption DEF Rotated
  <2>6. QED
    BY <1>7, <2>1, <2>4, <2>5 DEF Replays, SessionHolds, Siblings, Kills
<1>8. QED
  BY <1>1, <1>2, <1>5, <1>6, <1>7

\* BenignRace: replacement and sibling both rotate on.
LEMMA StoryOfBenignRace ==
    ASSUME NEW name, name = "BenignRace", NEW k \in DOMAIN Script(name),
           NEW d, NEW call, NEW n, Scene(name, k, d, call, n)
    PROVE  Outcome(name, k, d, call)
<1>1. PICK T : T = Script(name)
  OBVIOUS
<1>2. T = <<Alone(LoginAs("issued", user1), {"done"}),
            Alone(Refresh("issued", "next"), Rotated),
            Alone(Refresh("issued", "sibling"), Rotated),
            Alone(Refresh("next", "third"), Rotated),
            Alone(Refresh("sibling", "other"), Rotated)>>
  BY <1>1, RefreshScripts DEF BenignRace
<1>3. PICK new, w, x, y, z :
            /\ new = TablesAfter(d, call).sessions
            /\ w = NameOf(run, 0, "issued") /\ x = NameOf(run, 0, "next")
            /\ y = NameOf(run, 0, "sibling") /\ z = NameOf(run, 0, "third")
  OBVIOUS
<1>4. x # y /\ z # y
  BY <1>3, SessionNames DEF Scene
<1>5. {"next", "third", "sibling", "other"} \subseteq Uses
      /\ "rotated" \in Rotated
  BY ScriptUses DEF Rotated
<1>6. CASE k = 1
  BY <1>1, <1>2, <1>6, Opening
<1>7. CASE k = 2
  BY <1>1, <1>2, <1>7, SecondOpening
<1>8. CASE k = 3
  <2>1. Script(name)[k] = Alone(Refresh("issued", "sibling"), Rotated)
    BY <1>1, <1>2, <1>8
  <2>2. /\ SwappedRow(d.sessions, w, x, w, 0 .. n)
        /\ LiveRow(d.sessions, x, w, began + Ttl)
    BY <1>3, <1>8 DEF Scene, SessionHolds
  <2>3. Siblings(name, k, d, call, new, y, w)
    BY <1>3, <2>1, <2>2, SiblingPhase
  <2>4. LiveRow(new, x, w, began + Ttl)
    BY <1>4, <2>2, <2>3, RowsStay DEF Siblings
  <2>5. QED
    BY <1>3, <1>8, <2>3, <2>4 DEF SessionHolds, Siblings
<1>9. CASE k = 4
  <2>1. PICK u \in Uses, v \in Uses : u = "next" /\ v = "third"
    BY <1>5
  <2>2. /\ Script(name)[k] = Alone(Refresh(u, v), Rotated) /\ u # v
        /\ x = NameOf(run, 0, u) /\ z = NameOf(run, 0, v)
    BY <1>1, <1>2, <1>3, <1>9, <2>1
  <2>3. LiveRow(d.sessions, x, w, began + Ttl)
        /\ LiveRow(d.sessions, y, w, began + Ttl)
    BY <1>3, <1>9 DEF Scene, SessionHolds
  <2>4. Swaps(name, k, d, call, new, x, z, w)
    BY <1>3, <1>5, <2>2, <2>3, RefreshPhase
  <2>5. LiveRow(new, y, w, began + Ttl)
    <3>1. PICK rows, S : rows = d.sessions /\ S = {x, z}
      OBVIOUS
    <3>2. Others(new, rows, S) /\ y \notin S /\ LiveRow(rows, y, w, began + Ttl)
      BY <1>4, <2>3, <2>4, <3>1 DEF Swaps
    <3>3. QED
      BY <3>2, RowsStay
  <2>6. QED
    BY <1>3, <1>9, <2>4, <2>5 DEF SessionHolds, Swaps
<1>10. CASE k = 5
  <2>1. PICK u \in Uses, v \in Uses : u = "sibling" /\ v = "other"
    BY <1>5
  <2>2. /\ Script(name)[k] = Alone(Refresh(u, v), Rotated) /\ u # v
        /\ y = NameOf(run, 0, u)
    BY <1>1, <1>2, <1>3, <1>10, <2>1
  <2>3. LiveRow(d.sessions, y, w, began + Ttl)
    BY <1>3, <1>10 DEF Scene, SessionHolds
  <2>4. Swaps(name, k, d, call, new, y, NameOf(run, 0, v), w)
    BY <1>3, <1>5, <2>2, <2>3, RefreshPhase
  <2>5. QED
    BY <1>10, <2>4 DEF SessionHolds, Swaps
<1>11. QED
  BY <1>1, <1>2, <1>6, <1>7, <1>8, <1>9, <1>10

\* RevokeFamilyKills: nothing of the family works.
LEMMA StoryOfRevokeFamilyKills ==
    ASSUME NEW name, name = "RevokeFamilyKills", NEW k \in DOMAIN Script(name),
           NEW d, NEW call, NEW n, Scene(name, k, d, call, n)
    PROVE  Outcome(name, k, d, call)
<1>1. PICK T : T = Script(name)
  OBVIOUS
<1>2. T = <<Alone(LoginAs("issued", user1), {"done"}),
            Alone(RevokeFamily("issued"), {"done"}),
            Alone(Refresh("issued", "next"), {"reuse"}),
            Alone(RevokeFamily("issued"), {"done"})>>
  BY <1>1, RefreshScripts DEF RevokeFamilyKills
<1>3. PICK new, x : /\ new = TablesAfter(d, call).sessions
                    /\ x = NameOf(run, 0, "issued")
  OBVIOUS
<1>4. "issued" \in Uses /\ "next" \in Uses
  BY ScriptUses
<1>5. CASE k = 1
  BY <1>1, <1>2, <1>5, Opening
<1>6. CASE k \in {2, 4}
  <2>1. PICK u \in Uses, A \in {{"done"}} : u = "issued"
    BY <1>4
  <2>2. /\ Script(name)[k] = Alone(RevokeFamily(u), A)
        /\ x = NameOf(run, 0, u) /\ "done" \in A
    BY <1>1, <1>2, <1>3, <1>6, <2>1
  <2>3. Kills(name, k, d, call, new, x)
    BY <1>3, <2>2, FamilyPhase
  <2>4. k = 2 => LiveRow(d.sessions, x, x, began + Ttl)
    BY <1>3 DEF Scene, SessionHolds
  <2>5. k = 2 => KilledRow(new, x)
    BY <2>3, <2>4, KillsDo DEF LiveRow
  <2>6. QED
    BY <1>3, <1>6, <2>3, <2>5 DEF SessionHolds, Kills
<1>7. CASE k = 3
  <2>1. PICK u \in Uses, v \in Uses, A \in {{"reuse"}} :
            u = "issued" /\ v = "next"
    BY <1>4
  <2>2. /\ Script(name)[k] = Alone(Refresh(u, v), A) /\ u # v
        /\ "reuse" \in A /\ KilledRow(d.sessions, NameOf(run, 0, u))
    BY <1>1, <1>2, <1>7, <2>1 DEF Scene, SessionHolds
  <2>3. PICK f : f = d.sessions[NameOf(run, 0, u)].familyId
    OBVIOUS
  <2>4. Kills(name, k, d, call, new, f)
    BY <1>3, <2>2, <2>3, DeadPhase
  <2>5. QED
    BY <1>7, <2>4 DEF SessionHolds, Kills
<1>8. QED
  BY <1>1, <1>2, <1>5, <1>6, <1>7

\* BumpsAdvance: the second bump is later than the first, whatever the clock.
LEMMA StoryOfBumpsAdvance ==
    ASSUME NEW name, name = "BumpsAdvance", NEW k \in DOMAIN Script(name),
           NEW d, NEW call, NEW n, Scene(name, k, d, call, n)
    PROVE  Outcome(name, k, d, call)
<1>1. PICK bump : bump = [op |-> "bumpEpoch", user |-> user1]
  OBVIOUS
<1>2. PICK T : T = Script(name)
  OBVIOUS
<1>0. \E A, B : /\ "later" \in A /\ "later" \in B
               /\ T = <<Alone(bump, A), Alone(bump, B)>>
  <2>1. T = <<Alone(bump, {"later", "not later"}), Alone(bump, {"later"})>>
    BY <1>1, <1>2, RefreshScripts DEF BumpsAdvance
  <2>2. QED
    BY <2>1
<1>3. \E A : Script(name)[k] = Alone(bump, A) /\ "later" \in A
  <2>1. k = 1 \/ k = 2
    BY <1>0, <1>2
  <2>2. CASE k = 1
    BY <1>0, <1>2, <2>2
  <2>3. CASE k = 2
    BY <1>0, <1>2, <2>3
  <2>4. QED
    BY <2>1, <2>2, <2>3
<1>4. PICK A, new : /\ Script(name)[k] = Alone(bump, A) /\ "later" \in A
                    /\ new = TablesAfter(d, call).sessions
  BY <1>3
<1>5. /\ IsAsked(call, bump, began, clock) /\ Basics /\ TypedDb(d)
      /\ /\ AnswerOf(d, call) \in A
         /\ SessionHolds(name, k + 1, new, run, began, clock)
         => Outcome(name, k, d, call)
  BY <1>4, SceneIs
<1>6. call.op = "bumpEpoch" /\ call.user = user1
  BY <1>1, <1>5 DEF IsAsked
<1>7. d.epochs[call.user] \in Nat /\ clock \in Nat
  <2>1. user1 \in Users
    BY DEF Users
  <2>2. QED
    BY <1>5, <1>6, <2>1, SuiteAssumption DEF TypedDb, Basics
<1>8. NextEpoch(d.epochs[call.user]) > d.epochs[call.user]
  <2>1. PICK stored \in Nat : stored = d.epochs[call.user]
    BY <1>7
  <2>2. NextEpoch(stored) > stored
    BY <1>7 DEF NextEpoch
  <2>3. QED
    BY <2>1, <2>2
<1>9. AnswerOf(d, call) = "later"
  BY <1>6, <1>8 DEF AnswerOf
<1>10. QED
  BY <1>4, <1>5, <1>9 DEF SessionHolds

\* The phases of DefectA but for the race.
LEMMA StoryOfDefectA ==
    ASSUME NEW name, name = "DefectA", NEW k \in DOMAIN Script(name), k # 3,
           NEW d, NEW call, NEW n, Scene(name, k, d, call, n)
    PROVE  Outcome(name, k, d, call)
<1>1. PICK T : T = Script(name)
  OBVIOUS
<1>2. /\ DOMAIN T = 1 .. 4
      /\ T[1] = Alone(LoginAs("issued", user1), {"done"})
      /\ T[2] = Alone(Refresh("issued", "next"), Rotated)
      /\ T[4] = Alone(FindByHash("sibling"), {"revoked"})
  BY <1>1, RefreshScripts DEF DefectA
<1>3. CASE k = 1
  BY <1>1, <1>2, <1>3, Opening
<1>4. CASE k = 2
  BY <1>1, <1>2, <1>4, SecondOpening
<1>5. CASE k = 4
  <2>1. PICK A \in {{"revoked"}}, new \in {TablesAfter(d, call).sessions} : TRUE
    OBVIOUS
  <2>2. /\ IsAsked(call, FindByHash("sibling"), began, clock) /\ Basics
        /\ AnswerOf(d, call) \in A
           /\ SessionHolds(name, k + 1, new, run, began, clock)
           => Outcome(name, k, d, call)
    BY <1>1, <1>2, <1>5, <2>1, SceneIs
  <2>3. call.op = "findByHash" /\ call.old = NameOf(run, 0, "sibling")
    BY <2>2, NamesOf, ScriptUses DEF IsAsked, FindByHash, Basics
  <2>4. RevokedRow(d.sessions, NameOf(run, 0, "sibling"))
    BY <1>5 DEF Scene, SessionHolds
  <2>5. AnswerOf(d, call) = "revoked"
    BY <2>3, <2>4 DEF AnswerOf, RowState, RevokedRow, Sessions!IsRevoked
  <2>6. QED
    BY <1>5, <2>1, <2>2, <2>5 DEF SessionHolds
<1>6. QED
  BY <1>1, <1>2, <1>3, <1>4, <1>5

-----------------------------------------------------------------------------
(* What the calls of the single-use suite do to rows.                      *)

\* An issue, as asked.
LEMMA AskedIssue ==
    ASSUME Basics, NEW call, NEW x \in Draws, x[1] = run,
           NEW s \in Users \cup Draws, NEW p \in Purposes, NEW now \in {0, Now},
           IsAsked(call, IssueTo(x, s, p, now), began, clock)
    PROVE  /\ call.op = "issue" /\ call.as = x /\ call.subject = s
           /\ call.purpose = p /\ Proper(call, run)
           /\ call.now \in began .. clock
           /\ now = 0 => call.now = began
<1>1. PICK c : c = IssueTo(x, s, p, now)
  OBVIOUS
<1>2. c = [op |-> "issue", as |-> x, subject |-> s, purpose |-> p, now |-> now]
  BY <1>1 DEF IssueTo
<1>3. run \in 1 .. MaxRuns /\ now \in Nat \cup {Now}
  BY DEF Basics
<1>4. Fit(c, run)
  BY <1>1, <1>3, TokenCallsSimple DEF Simple
<1>5. Proper(call, run)
  BY <1>1, <1>4, AskedProper
<1>6. "now" \in DOMAIN c /\ c.now = now /\ IsAsked(call, c, began, clock)
  BY <1>1, <1>2
<1>7. /\ call.now \in Nat /\ began \in Nat /\ clock \in Nat /\ began <= clock
      /\ c.now = Now => call.now \in began .. clock
      /\ c.now # Now => call.now = began + c.now
  BY <1>3, <1>6, AskedWhen
<1>8. call.now \in began .. clock /\ (now = 0 => call.now = began)
  BY <1>6, <1>7 DEF Now
<1>9. QED
  BY <1>2, <1>5, <1>6, <1>8 DEF IsAsked

\* A consume, as asked: at an instant of its own, before any token ends, or
\* at a fixed age.
LEMMA AskedConsume ==
    ASSUME Basics, NEW call, NEW x, NEW p, NEW now \in Nat \cup {Now},
           IsAsked(call, Consume(x, p, now), began, clock)
    PROVE  /\ call.op = "consume" /\ call.old = x /\ call.purpose = p
           /\ Proper(call, run) /\ call.now \in Nat
           /\ now = Now => call.now \in began .. clock
                           /\ call.now < began + Ttl
           /\ now # Now => call.now = began + now
<1>1. PICK c : c = Consume(x, p, now)
  OBVIOUS
<1>2. c = [op |-> "consume", old |-> x, purpose |-> p, now |-> now]
  BY <1>1 DEF Consume
<1>3. run \in 1 .. MaxRuns
  BY DEF Basics
<1>4. Fit(c, run)
  BY <1>1, <1>3, TokenCallsSimple DEF Simple
<1>5. Proper(call, run)
  BY <1>1, <1>4, AskedProper
<1>6. "now" \in DOMAIN c /\ c.now = now /\ IsAsked(call, c, began, clock)
  BY <1>1, <1>2
<1>7. /\ call.now \in Nat
      /\ c.now = Now => call.now \in began .. clock /\ call.now < began + Ttl
      /\ c.now # Now => call.now = began + c.now
  BY <1>6, AskedWhen
<1>8. QED
  BY <1>2, <1>5, <1>6, <1>7 DEF IsAsked

\* An invalidation, as asked.
LEMMA AskedWithdraw ==
    ASSUME NEW call, NEW s, IsAsked(call, InvalidateAllFor(s), began, clock)
    PROVE  /\ call.op = "invalidateAllFor" /\ call.subject = s
           /\ call.purpose = "password-reset"
  BY DEF IsAsked, InvalidateAllFor

\* x is issued, unless there is one.
LEMMA IssueActs ==
    ASSUME Basics, NEW d, TypedDb(d), NEW call, Proper(call, run),
           call.op = "issue", NEW rows, rows = d.tokens,
           NEW new, new = TablesAfter(d, call).tokens
    PROVE  /\ call.as \in DOMAIN rows =>
                AnswerOf(d, call) = "rejected" /\ new = rows
           /\ call.as \notin DOMAIN rows =>
                /\ AnswerOf(d, call) = "issued"
                /\ FreshToken(new, call.as, call.purpose, call.subject,
                              call.now + Ttl)
                /\ new[call.as].expiresAt = call.now + Ttl
                /\ Others(new, rows, {call.as})
<1>1. PICK r : r = IssueRows(rows, call)
  OBVIOUS
<1>2. TablesAfter(d, call) = [d EXCEPT !.tokens = r]
  BY <1>1 DEF TablesAfter
<1>3. new = r
  BY <1>2 DEF TypedDb
<1>4. AnswerOf(d, call) = IF call.as \in DOMAIN rows THEN "rejected" ELSE "issued"
  BY DEF AnswerOf
<1>5. call.as \in DOMAIN rows => r = rows
  BY <1>1 DEF IssueRows
<1>6. ASSUME call.as \notin DOMAIN rows
      PROVE  /\ FreshToken(new, call.as, call.purpose, call.subject,
                           call.now + Ttl)
             /\ new[call.as].expiresAt = call.now + Ttl
             /\ Others(new, rows, {call.as})
  <2>1. PICK row, x : /\ row = [purpose |-> call.purpose,
                                subjectId |-> call.subject,
                                expiresAt |-> call.now + Ttl, consumedAt |-> Null]
                      /\ x = call.as
    OBVIOUS
  <2>2. r = [t \in DOMAIN rows \cup {x} |-> IF t = x THEN row ELSE rows[t]]
    BY <1>1, <1>6, <2>1 DEF IssueRows
  <2>3. DOMAIN r = DOMAIN rows \cup {x} /\ r[x] = row
        /\ \A t \in DOMAIN rows : t # x => r[t] = rows[t]
    BY <2>2
  <2>4. call.now + Ttl \in Nat
    BY SuiteAssumption DEF Proper, Fit
  <2>5. QED
    BY <1>3, <2>1, <2>3, <2>4 DEF FreshToken, Others
<1>7. QED
  BY <1>3, <1>4, <1>5, <1>6

\* A consume does what its status says.
LEMMA ConsumeActs ==
    ASSUME Basics, NEW d, TypedDb(d), NEW call, Proper(call, run),
           call.op = "consume", NEW rows, rows = d.tokens,
           NEW new, new = TablesAfter(d, call).tokens
    PROVE  /\ AnswerOf(d, call) = ConsumeStatus(rows, call)
           /\ ConsumeStatus(rows, call) = "consumed" =>
                Retired(new, rows, {call.old})
           /\ ConsumeStatus(rows, call) # "consumed" => new = rows
<1>1. PICK r : r = ConsumeRows(rows, call)
  OBVIOUS
<1>2. TablesAfter(d, call) = [d EXCEPT !.tokens = r]
  BY <1>1 DEF TablesAfter
<1>3. new = r
  BY <1>2 DEF TypedDb
<1>4. AnswerOf(d, call) = ConsumeStatus(rows, call)
  BY DEF AnswerOf
<1>5. call.now \in Nat /\ SingleUse!TypedRows(rows)
  BY DEF Proper, Fit, TypedDb
<1>6. ConsumeStatus(rows, call) = "consumed" =>
        r = SingleUse!Retire(rows, {call.old}, call.now)
  BY <1>1 DEF ConsumeRows
<1>7. ConsumeStatus(rows, call) # "consumed" => r = rows
  BY <1>1 DEF ConsumeRows
<1>8. QED
  BY <1>3, <1>4, <1>5, <1>6, <1>7, RetireEffect

\* An invalidation retires the rows it covers.
LEMMA WithdrawActs ==
    ASSUME Basics, NEW d, TypedDb(d), NEW call, NEW s,
           call.op = "invalidateAllFor", call.subject = s,
           call.purpose = "password-reset",
           NEW rows, rows = d.tokens, NEW new, new = TablesAfter(d, call).tokens
    PROVE  /\ AnswerOf(d, call) = "done"
           /\ Retired(new, rows, SingleUse!Covered(rows, s, "password-reset"))
<1>1. PICK F, r : /\ F = SingleUse!Covered(rows, s, "password-reset")
                  /\ r = SingleUse!Retire(rows, F, clock)
  OBVIOUS
<1>2. TablesAfter(d, call) = [d EXCEPT !.tokens = r]
  BY <1>1 DEF TablesAfter
<1>3. new = r
  BY <1>2 DEF TypedDb
<1>4. clock \in Nat /\ SingleUse!TypedRows(rows)
  BY SuiteAssumption DEF Basics, TypedDb
<1>5. Retired(r, rows, F)
  BY <1>1, <1>4, RetireEffect
<1>6. AnswerOf(d, call) = "done"
  BY DEF AnswerOf
<1>7. QED
  BY <1>1, <1>3, <1>5, <1>6

\* What becomes of rows that are retired or added beside it.
LEMMA RetiredRows ==
    ASSUME NEW rows, NEW new, NEW T, Retired(new, rows, T)
    PROVE  /\ DOMAIN new = DOMAIN rows
           /\ \A x : UsedToken(rows, x) => UsedToken(new, x)
           /\ \A x \in T : \A s, e : FreshToken(rows, x, "password-reset", s, e)
                                => UsedToken(new, x)
           /\ \A x : x \notin T => \A p, s, e :
                FreshToken(rows, x, p, s, e) => FreshToken(new, x, p, s, e)
  BY DEF Retired, UsedToken, FreshToken

\* Rows outside T are as they were.
LEMMA TokensStay ==
    ASSUME NEW rows, NEW new, NEW T, Others(new, rows, T)
    PROVE  \A x : x \notin T =>
            /\ UsedToken(rows, x) => UsedToken(new, x)
            /\ \A p, s, e : FreshToken(rows, x, p, s, e)
                                => FreshToken(new, x, p, s, e)
            /\ x \notin DOMAIN rows => x \notin DOMAIN new
  BY DEF Others, UsedToken, FreshToken

\* What a consume answers, by the token's row.
LEMMA ConsumeAnswers ==
    ASSUME NEW rows, NEW call, SingleUse!TypedRows(rows), call.now \in Nat
    PROVE  /\ call.old \notin DOMAIN rows =>
                ConsumeStatus(rows, call) = "not-found"
           /\ \A p, s, e : FreshToken(rows, call.old, p, s, e) =>
                /\ p # call.purpose =>
                    ConsumeStatus(rows, call) = "purpose-mismatch"
                /\ p = call.purpose /\ e \in Nat /\ call.now < e =>
                    ConsumeStatus(rows, call) = "consumed"
                /\ p = call.purpose /\ rows[call.old].expiresAt <= call.now =>
                    ConsumeStatus(rows, call) = "expired"
           /\ UsedToken(rows, call.old) /\ call.purpose = "password-reset" =>
                ConsumeStatus(rows, call) = "already-consumed"
<1>1. call.old \in DOMAIN rows => rows[call.old].expiresAt \in Nat
  BY DEF SingleUse!TypedRows, SingleUse!Row, SingleUse!Instants
<1>2. \A p, s, e : FreshToken(rows, call.old, p, s, e) =>
        /\ call.old \in DOMAIN rows /\ rows[call.old].purpose = p
        /\ rows[call.old].consumedAt = Null
        /\ rows[call.old].expiresAt >= e
  BY DEF FreshToken
<1>3. UsedToken(rows, call.old) =>
        /\ call.old \in DOMAIN rows /\ rows[call.old].purpose = "password-reset"
        /\ rows[call.old].consumedAt # Null
  BY DEF UsedToken
<1>4. QED
  BY <1>1, <1>2, <1>3 DEF ConsumeStatus, SingleUse!IsRetired

-----------------------------------------------------------------------------
(* The phases the single-use tests are made of.                            *)

TokenScene(name, k, d, call) ==
    /\ Basics /\ TypedDb(d)
    /\ IsAsked(call, Script(name)[k].calls[1], began, clock)
    /\ TokenHolds(name, k, d.tokens, run, began)

TokenOutcome(name, k, d, call) ==
    /\ <<AnswerOf(d, call)>> \in Script(name)[k].expected
    /\ TokenHolds(name, k + 1, TablesAfter(d, call).tokens, run, began)

\* What is left to show of a phase with the answer the script expects.
Leaves(name, k, d, call, new) ==
    TokenHolds(name, k + 1, new, run, began) => TokenOutcome(name, k, d, call)

\* What is known where a phase of one call is played, and what suffices for
\* its outcome.
LEMMA TokenSceneIs ==
    ASSUME NEW name, NEW k, NEW d, NEW call, TokenScene(name, k, d, call),
           NEW c, NEW A, Script(name)[k] = Alone(c, A),
           NEW new, new = TablesAfter(d, call).tokens
    PROVE  /\ IsAsked(call, c, began, clock)
           /\ Basics /\ TypedDb(d)
           /\ AnswerOf(d, call) \in A => Leaves(name, k, d, call, new)
  BY AloneIs DEF TokenScene, TokenOutcome, Leaves

\* x of subject s and purpose p has been issued.
Issues(name, k, d, call, new, x, p, s) ==
    /\ FreshToken(new, x, p, s, began + Ttl)
    /\ Others(new, d.tokens, {x})
    /\ Leaves(name, k, d, call, new)

Spends(name, k, d, call, new, x) ==
    /\ Retired(new, d.tokens, {x})
    /\ Leaves(name, k, d, call, new)

Withdraws(name, k, d, call, new, s) ==
    /\ Retired(new, d.tokens,
               SingleUse!Covered(d.tokens, s, "password-reset"))
    /\ Leaves(name, k, d, call, new)

\* A call that was refused has changed nothing.
Refuses(name, k, d, call, new) ==
    new = d.tokens /\ Leaves(name, k, d, call, new)

\* A phase that issues a token, or is rejected for a duplicate.
LEMMA IssuePhase ==
    ASSUME NEW name, NEW k, NEW d, NEW call, TokenScene(name, k, d, call),
           NEW x \in Draws, x[1] = run, NEW s \in Users \cup Draws,
           NEW p \in Purposes, NEW now \in {0, Now}, NEW A,
           Script(name)[k] = Alone(IssueTo(x, s, p, now), A),
           NEW new, new = TablesAfter(d, call).tokens
    PROVE  /\ x \notin DOMAIN d.tokens /\ "issued" \in A =>
                /\ Issues(name, k, d, call, new, x, p, s)
                /\ now = 0 => new[x].expiresAt = began + Ttl
           /\ x \in DOMAIN d.tokens /\ "rejected" \in A =>
                Refuses(name, k, d, call, new)
<1>1. /\ IsAsked(call, IssueTo(x, s, p, now), began, clock)
      /\ Basics /\ TypedDb(d)
      /\ AnswerOf(d, call) \in A => Leaves(name, k, d, call, new)
  BY TokenSceneIs
<1>2. /\ call.op = "issue" /\ call.as = x /\ call.subject = s
      /\ call.purpose = p /\ Proper(call, run)
      /\ call.now \in began .. clock
      /\ now = 0 => call.now = began
  BY <1>1, AskedIssue
<1>3. PICK rows : rows = d.tokens
  OBVIOUS
<1>4. /\ call.as \in DOMAIN rows =>
            AnswerOf(d, call) = "rejected" /\ new = rows
      /\ call.as \notin DOMAIN rows =>
            /\ AnswerOf(d, call) = "issued"
            /\ FreshToken(new, call.as, call.purpose, call.subject,
                          call.now + Ttl)
            /\ new[call.as].expiresAt = call.now + Ttl
            /\ Others(new, rows, {call.as})
  BY <1>1, <1>2, <1>3, IssueActs
<1>5. call.now \in Nat /\ began \in Nat /\ call.now >= began /\ Ttl \in Nat
  BY <1>1, <1>2, SuiteAssumption DEF Basics
<1>6. ASSUME x \notin DOMAIN rows, "issued" \in A
      PROVE  /\ Issues(name, k, d, call, new, x, p, s)
             /\ now = 0 => new[x].expiresAt = began + Ttl
  <2>1. /\ AnswerOf(d, call) = "issued"
        /\ FreshToken(new, x, p, s, call.now + Ttl)
        /\ new[x].expiresAt = call.now + Ttl
        /\ Others(new, rows, {call.as})
    BY <1>2, <1>4, <1>6
  <2>2. FreshToken(new, x, p, s, began + Ttl)
    BY <1>5, <2>1 DEF FreshToken
  <2>3. Others(new, rows, {x})
    BY <1>2, <2>1 DEF Others
  <2>4. QED
    BY <1>1, <1>2, <1>3, <1>6, <2>1, <2>2, <2>3 DEF Issues
<1>7. x \in DOMAIN rows /\ "rejected" \in A => Refuses(name, k, d, call, new)
  BY <1>1, <1>2, <1>3, <1>4 DEF Refuses
<1>8. QED
  BY <1>3, <1>6, <1>7

\* What a handler's consume of `x' comes to, by the token's row.
Consumes(name, k, d, call, new, x, p, now, A) ==
    /\ x \notin DOMAIN d.tokens /\ "not-found" \in A =>
         Refuses(name, k, d, call, new)
    /\ UsedToken(d.tokens, x) /\ p = "password-reset"
       /\ "already-consumed" \in A => Refuses(name, k, d, call, new)
    /\ \A q, s : FreshToken(d.tokens, x, q, s, began + Ttl) =>
         /\ q # p /\ "purpose-mismatch" \in A =>
             Refuses(name, k, d, call, new)
         /\ q = p /\ now # Now /\ now >= Ttl /\ "expired" \in A
            /\ d.tokens[x].expiresAt = began + Ttl =>
             Refuses(name, k, d, call, new)
         /\ q = p /\ now = Now /\ "consumed" \in A =>
             Spends(name, k, d, call, new, x)

\* A phase that consumes.
LEMMA ConsumePhase ==
    ASSUME NEW name, NEW k, NEW d, NEW call, TokenScene(name, k, d, call),
           NEW x, NEW p, NEW now \in Nat \cup {Now}, NEW A,
           Script(name)[k] = Alone(Consume(x, p, now), A),
           NEW new, new = TablesAfter(d, call).tokens
    PROVE  Consumes(name, k, d, call, new, x, p, now, A)
<1>1. /\ IsAsked(call, Consume(x, p, now), began, clock)
      /\ Basics /\ TypedDb(d)
      /\ AnswerOf(d, call) \in A => Leaves(name, k, d, call, new)
  BY TokenSceneIs
<1>2. /\ call.op = "consume" /\ call.old = x /\ call.purpose = p
      /\ Proper(call, run) /\ call.now \in Nat
      /\ now = Now => call.now \in began .. clock
                      /\ call.now < began + Ttl
      /\ now # Now => call.now = began + now
  BY <1>1, AskedConsume
<1>3. PICK rows, status, e : /\ rows = d.tokens
                             /\ status = ConsumeStatus(rows, call)
                             /\ e = began + Ttl
  OBVIOUS
<1>4. /\ AnswerOf(d, call) = status
      /\ status = "consumed" => Retired(new, rows, {call.old})
      /\ status # "consumed" => new = rows
  BY <1>1, <1>2, <1>3, ConsumeActs
<1>5. SingleUse!TypedRows(rows) /\ e \in Nat /\ began \in Nat /\ Ttl \in Nat
  BY <1>1, <1>3, SuiteAssumption DEF TypedDb, Basics
<1>6. ASSUME status # "consumed", status \in A
      PROVE  Refuses(name, k, d, call, new)
  BY <1>1, <1>3, <1>4, <1>6 DEF Refuses
<1>7. ASSUME status = "consumed", status \in A
      PROVE  Spends(name, k, d, call, new, x)
  BY <1>1, <1>2, <1>3, <1>4, <1>7 DEF Spends, Retired
<1>8. x \notin DOMAIN rows => status = "not-found"
  BY <1>2, <1>3, <1>5, ConsumeAnswers
<1>9. UsedToken(rows, x) /\ p = "password-reset" => status = "already-consumed"
  BY <1>2, <1>3, <1>5, ConsumeAnswers
<1>10. ASSUME NEW q, NEW s, FreshToken(rows, x, q, s, e)
       PROVE  /\ q # p => status = "purpose-mismatch"
              /\ q = p /\ now # Now /\ now >= Ttl /\ rows[x].expiresAt = e =>
                    status = "expired"
              /\ q = p /\ now = Now => status = "consumed"
  <2>1. /\ q # call.purpose => status = "purpose-mismatch"
        /\ q = call.purpose /\ call.now < e => status = "consumed"
        /\ q = call.purpose /\ rows[call.old].expiresAt <= call.now =>
                    status = "expired"
    BY <1>2, <1>3, <1>5, <1>10, ConsumeAnswers
  <2>2. now # Now /\ now >= Ttl /\ rows[x].expiresAt = e =>
            rows[x].expiresAt <= call.now
    BY <1>2, <1>3, <1>5
  <2>3. QED
    BY <1>2, <1>3, <2>1, <2>2
<1>11. QED
  BY <1>3, <1>6, <1>7, <1>8, <1>9, <1>10 DEF Consumes

\* The phase, case by case.
LEMMA ConsumeUnknown ==
    ASSUME NEW name, NEW k, NEW d, NEW call, TokenScene(name, k, d, call),
           NEW x, NEW p, NEW now \in Nat \cup {Now}, NEW A,
           Script(name)[k] = Alone(Consume(x, p, now), A),
           NEW new, new = TablesAfter(d, call).tokens,
           x \notin DOMAIN d.tokens, "not-found" \in A
    PROVE  Refuses(name, k, d, call, new)
<1>1. Consumes(name, k, d, call, new, x, p, now, A)
  BY ConsumePhase
<1>2. QED
  BY <1>1 DEF Consumes

\* Of a used token.
LEMMA ConsumeUsed ==
    ASSUME NEW name, NEW k, NEW d, NEW call, TokenScene(name, k, d, call),
           NEW x, NEW p, NEW now \in Nat \cup {Now}, NEW A,
           Script(name)[k] = Alone(Consume(x, p, now), A),
           NEW new, new = TablesAfter(d, call).tokens,
           UsedToken(d.tokens, x), p = "password-reset", "already-consumed" \in A
    PROVE  Refuses(name, k, d, call, new)
<1>1. Consumes(name, k, d, call, new, x, p, now, A)
  BY ConsumePhase
<1>2. QED
  BY <1>1 DEF Consumes

\* For another purpose.
LEMMA ConsumeMismatch ==
    ASSUME NEW name, NEW k, NEW d, NEW call, TokenScene(name, k, d, call),
           NEW x, NEW p, NEW now \in Nat \cup {Now}, NEW A,
           Script(name)[k] = Alone(Consume(x, p, now), A),
           NEW new, new = TablesAfter(d, call).tokens,
           NEW q, NEW s, FreshToken(d.tokens, x, q, s, began + Ttl),
           q # p, "purpose-mismatch" \in A
    PROVE  Refuses(name, k, d, call, new)
<1>1. Consumes(name, k, d, call, new, x, p, now, A)
  BY ConsumePhase
<1>2. QED
  BY <1>1 DEF Consumes

\* Too late.
LEMMA ConsumeExpired ==
    ASSUME NEW name, NEW k, NEW d, NEW call, TokenScene(name, k, d, call),
           NEW x, NEW p, NEW now \in Nat \cup {Now}, NEW A,
           Script(name)[k] = Alone(Consume(x, p, now), A),
           NEW new, new = TablesAfter(d, call).tokens,
           NEW s, FreshToken(d.tokens, x, p, s, began + Ttl),
           now # Now, now >= Ttl, d.tokens[x].expiresAt = began + Ttl,
           "expired" \in A
    PROVE  Refuses(name, k, d, call, new)
<1>1. Consumes(name, k, d, call, new, x, p, now, A)
  BY ConsumePhase
<1>2. QED
  BY <1>1 DEF Consumes

\* Of a fresh token.
LEMMA ConsumeFresh ==
    ASSUME NEW name, NEW k, NEW d, NEW call, TokenScene(name, k, d, call),
           NEW x, NEW p, NEW now \in Nat \cup {Now}, NEW A,
           Script(name)[k] = Alone(Consume(x, p, now), A),
           NEW new, new = TablesAfter(d, call).tokens,
           NEW s, FreshToken(d.tokens, x, p, s, began + Ttl), now = Now,
           "consumed" \in A
    PROVE  Spends(name, k, d, call, new, x)
<1>1. Consumes(name, k, d, call, new, x, p, now, A)
  BY ConsumePhase
<1>2. QED
  BY <1>1 DEF Consumes

\* A phase that invalidates.
LEMMA WithdrawPhase ==
    ASSUME NEW name, NEW k, NEW d, NEW call, TokenScene(name, k, d, call),
           NEW s, NEW A, "done" \in A,
           Script(name)[k] = Alone(InvalidateAllFor(s), A),
           NEW new, new = TablesAfter(d, call).tokens
    PROVE  Withdraws(name, k, d, call, new, s)
<1>1. /\ IsAsked(call, InvalidateAllFor(s), began, clock)
      /\ Basics /\ TypedDb(d)
      /\ AnswerOf(d, call) \in A => Leaves(name, k, d, call, new)
  BY TokenSceneIs
<1>2. PICK rows : rows = d.tokens
  OBVIOUS
<1>3. /\ call.op = "invalidateAllFor" /\ call.subject = s
      /\ call.purpose = "password-reset"
  BY <1>1, AskedWithdraw
<1>4. /\ AnswerOf(d, call) = "done"
      /\ Retired(new, rows, SingleUse!Covered(rows, s, "password-reset"))
  BY <1>1, <1>2, <1>3, WithdrawActs
<1>5. QED
  BY <1>1, <1>2, <1>4 DEF Withdraws

\* The uses, purposes, subjects and instants the scripts name.
LEMMA TokenWords ==
    /\ {"issued", "other", "third"} \subseteq Uses
    /\ {"password-reset", "invite"} \subseteq Purposes
    /\ user1 \in Users \cup Draws /\ user2 \in Users \cup Draws
    /\ Now \in {0, Now} /\ 0 \in {0, Now} /\ Now \in Nat \cup {Now}
  BY ScriptUses DEF Purposes

\* A password reset issued to user 1, and its redemption.
LEMMA FirstIssue ==
    ASSUME NEW name, NEW k, NEW d, NEW call, TokenScene(name, k, d, call),
           NEW A, Script(name)[k] = Alone(Issue("issued"), A),
           NEW new, new = TablesAfter(d, call).tokens,
           NEW x, x = NameOf(run, 0, "issued")
    PROVE  /\ x \notin DOMAIN d.tokens /\ "issued" \in A =>
                Issues(name, k, d, call, new, x, "password-reset", user1)
           /\ x \in DOMAIN d.tokens /\ "rejected" \in A =>
                Refuses(name, k, d, call, new)
<1>1. x = It("issued") /\ x \in Draws /\ x[1] = run
  BY NamesOf, NamesDiffer, TokenWords DEF TokenScene, Basics
<1>2. PICK p \in Purposes, s \in Users \cup Draws, now \in {0, Now} :
            p = "password-reset" /\ s = user1 /\ now = Now
  BY TokenWords
<1>3. Script(name)[k] = Alone(IssueTo(x, s, p, now), A)
  BY <1>1, <1>2 DEF Issue
<1>4. /\ x \notin DOMAIN d.tokens /\ "issued" \in A =>
                /\ Issues(name, k, d, call, new, x, p, s)
                /\ now = 0 => new[x].expiresAt = began + Ttl
      /\ x \in DOMAIN d.tokens /\ "rejected" \in A =>
                Refuses(name, k, d, call, new)
  BY <1>1, <1>3, IssuePhase
<1>5. QED
  BY <1>2, <1>4

\* A phase that redeems a token for what it was issued for.
LEMMA RedeemPhase ==
    ASSUME NEW name, NEW k, NEW d, NEW call, TokenScene(name, k, d, call),
           NEW u \in Uses, NEW A, Script(name)[k] = Alone(Redeem(u), A),
           NEW new, new = TablesAfter(d, call).tokens,
           NEW x, x = NameOf(run, 0, u)
    PROVE  /\ UsedToken(d.tokens, x) /\ "already-consumed" \in A =>
                Refuses(name, k, d, call, new)
           /\ \A s : FreshToken(d.tokens, x, "password-reset", s, began + Ttl)
                     /\ "consumed" \in A =>
                Spends(name, k, d, call, new, x)
<1>1. x = It(u)
  BY NamesOf DEF TokenScene, Basics
<1>2. PICK p \in Purposes, now \in Nat \cup {Now} :
            p = "password-reset" /\ now = Now
  BY TokenWords
<1>3. Script(name)[k] = Alone(Consume(x, p, now), A)
  BY <1>1, <1>2 DEF Redeem
<1>4. /\ UsedToken(d.tokens, x) /\ p = "password-reset"
         /\ "already-consumed" \in A => Refuses(name, k, d, call, new)
      /\ \A q, s : FreshToken(d.tokens, x, q, s, began + Ttl) =>
            (q = p /\ now = Now /\ "consumed" \in A =>
                    Spends(name, k, d, call, new, x))
  <2>1. Consumes(name, k, d, call, new, x, p, now, A)
    BY <1>3, ConsumePhase
  <2>2. QED
    BY <2>1 DEF Consumes
<1>5. QED
  BY <1>2, <1>4

\* HappyPath and ReplayIsConsumed: once, and never again.
LEMMA StoryOfHappyPath ==
    ASSUME NEW name, name \in {"HappyPath", "ReplayIsConsumed"},
           NEW k \in DOMAIN Script(name),
           NEW d, NEW call, TokenScene(name, k, d, call)
    PROVE  TokenOutcome(name, k, d, call)
<1>1. PICK T : T = Script(name)
  OBVIOUS
<1>2. /\ k \in {1, 2, 3}
      /\ T[1] = Alone(Issue("issued"), {"issued"})
      /\ T[2] = Alone(Redeem("issued"), {"consumed"})
      /\ k = 3 => /\ name = "ReplayIsConsumed"
                  /\ T[3] = Alone(Redeem("issued"), {"already-consumed"})
  <2>1. CASE name = "HappyPath"
    <3>1. T = <<Alone(Issue("issued"), {"issued"}),
                Alone(Redeem("issued"), {"consumed"})>>
      BY <1>1, <2>1, SingleUseScripts DEF HappyPath
    <3>2. QED
      BY <1>1, <3>1
  <2>2. CASE name = "ReplayIsConsumed"
    <3>1. T = <<Alone(Issue("issued"), {"issued"}),
                Alone(Redeem("issued"), {"consumed"}),
                Alone(Redeem("issued"), {"already-consumed"})>>
      BY <1>1, <2>2, SingleUseScripts DEF ReplayIsConsumed
    <3>2. QED
      BY <1>1, <2>2, <3>1
  <2>3. QED
    BY <2>1, <2>2
<1>3. PICK new, x : /\ new = TablesAfter(d, call).tokens
                    /\ x = NameOf(run, 0, "issued")
  OBVIOUS
<1>4. PICK u \in Uses : u = "issued"
  BY TokenWords
<1>5. CASE k = 1
  <2>1. x \notin DOMAIN d.tokens
    BY <1>3, <1>5 DEF TokenScene, TokenHolds
  <2>2. \E A : Script(name)[k] = Alone(Issue("issued"), A) /\ "issued" \in A
    BY <1>1, <1>2, <1>5
  <2>3. Issues(name, k, d, call, new, x, "password-reset", user1)
    BY <1>3, <2>1, <2>2, FirstIssue
  <2>4. QED
    BY <1>3, <1>5, <2>3 DEF TokenHolds, Issues, Leaves
<1>6. CASE k = 2
  <2>1. \E A : Script(name)[k] = Alone(Redeem(u), A) /\ "consumed" \in A
    BY <1>1, <1>2, <1>4, <1>6
  <2>2. FreshToken(d.tokens, x, "password-reset", user1, began + Ttl)
    BY <1>3, <1>6 DEF TokenScene, TokenHolds
  <2>3. Spends(name, k, d, call, new, x)
    BY <1>3, <1>4, <2>1, <2>2, RedeemPhase
  <2>4. UsedToken(new, x)
    BY <2>2, <2>3, RetiredRows DEF Spends
  <2>5. QED
    BY <1>3, <1>6, <2>3, <2>4 DEF TokenHolds, Spends, Leaves
<1>7. CASE k = 3
  <2>1. \E A : Script(name)[k] = Alone(Redeem(u), A) /\ "already-consumed" \in A
    BY <1>1, <1>2, <1>4, <1>7
  <2>2. UsedToken(d.tokens, x)
    BY <1>2, <1>3, <1>7 DEF TokenScene, TokenHolds
  <2>3. Refuses(name, k, d, call, new)
    BY <1>3, <1>4, <2>1, <2>2, RedeemPhase
  <2>4. QED
    BY <1>2, <1>7, <2>3 DEF TokenHolds, Refuses, Leaves
<1>8. QED
  BY <1>2, <1>5, <1>6, <1>7

\* UnknownTokenIsInvalid: a token never drawn has no row.
LEMMA StoryOfUnknownToken ==
    ASSUME NEW name, name = "UnknownTokenIsInvalid", NEW k \in DOMAIN Script(name),
           NEW d, NEW call, TokenScene(name, k, d, call), NamedUpTo(d, run)
    PROVE  TokenOutcome(name, k, d, call)
<1>1. PICK T : T = Script(name)
  OBVIOUS
<1>2. T = <<Alone(Consume(Unknown, "password-reset", Now),
                  {"not-found", "purpose-mismatch"})>>
  BY <1>1, SingleUseScripts DEF UnknownTokenIsInvalid
<1>3. PICK new, x, p : /\ new = TablesAfter(d, call).tokens
                       /\ x = Unknown /\ p = "password-reset"
  OBVIOUS
<1>4. k = 1 /\ \E A : Script(name)[k] = Alone(Consume(x, p, Now), A)
                      /\ "not-found" \in A
  BY <1>1, <1>2, <1>3
<1>5. x \notin DOMAIN d.tokens
  BY <1>3 DEF NamedUpTo, Unknown, TokenScene, Basics
<1>6. PICK now \in Nat \cup {Now} : now = Now
  OBVIOUS
<1>7. Refuses(name, k, d, call, new)
  BY <1>3, <1>4, <1>5, <1>6, ConsumeUnknown
<1>8. QED
  BY <1>4, <1>7 DEF TokenHolds, Refuses, Leaves

\* InvalidatedThenConsumed: invalidated is used.
LEMMA StoryOfInvalidated ==
    ASSUME NEW name, name = "InvalidatedThenConsumed",
           NEW k \in DOMAIN Script(name),
           NEW d, NEW call, TokenScene(name, k, d, call)
    PROVE  TokenOutcome(name, k, d, call)
<1>1. PICK T, x : T = Script(name) /\ x = It("issued")
  OBVIOUS
<1>2. T = <<Alone(IssueTo(x, x, "password-reset", Now), {"issued"}),
            Alone(InvalidateAllFor(x), {"done"}),
            Alone(Redeem("issued"), {"already-consumed"})>>
  BY <1>1, SingleUseScripts DEF InvalidatedThenConsumed
<1>3. PICK new : new = TablesAfter(d, call).tokens
  OBVIOUS
<1>4. x = NameOf(run, 0, "issued") /\ x \in Draws /\ x[1] = run
  BY <1>1, NamesOf, NamesDiffer, TokenWords DEF TokenScene, Basics
<1>5. CASE k = 1
  <2>1. PICK p \in Purposes, s \in Users \cup Draws, now \in {0, Now} :
            p = "password-reset" /\ s = x /\ now = Now
    BY <1>4, TokenWords
  <2>2. \E A : Script(name)[k] = Alone(IssueTo(x, s, p, now), A)
               /\ "issued" \in A
    BY <1>1, <1>2, <1>5, <2>1
  <2>3. x \notin DOMAIN d.tokens
    BY <1>4, <1>5 DEF TokenScene, TokenHolds
  <2>4. Issues(name, k, d, call, new, x, p, s)
    BY <1>3, <1>4, <2>2, <2>3, IssuePhase
  <2>5. QED
    BY <1>4, <1>5, <2>1, <2>4 DEF TokenHolds, Issues, Leaves
<1>6. CASE k = 2
  <2>1. \E A : Script(name)[k] = Alone(InvalidateAllFor(x), A) /\ "done" \in A
    BY <1>1, <1>2, <1>6
  <2>2. Withdraws(name, k, d, call, new, x)
    BY <1>3, <2>1, WithdrawPhase
  <2>3. FreshToken(d.tokens, x, "password-reset", x, began + Ttl)
    BY <1>4, <1>6 DEF TokenScene, TokenHolds
  <2>4. x \in SingleUse!Covered(d.tokens, x, "password-reset")
    BY <2>3 DEF FreshToken, SingleUse!Covered
  <2>5. UsedToken(new, x)
    BY <2>2, <2>3, <2>4, RetiredRows DEF Withdraws
  <2>6. QED
    BY <1>4, <1>6, <2>2, <2>5 DEF TokenHolds, Withdraws, Leaves
<1>7. CASE k = 3
  <2>0. PICK u \in Uses : u = "issued"
    BY TokenWords
  <2>1. \E A : Script(name)[k] = Alone(Redeem(u), A) /\ "already-consumed" \in A
    BY <1>1, <1>2, <1>7, <2>0
  <2>2. UsedToken(d.tokens, x)
    BY <1>4, <1>7 DEF TokenScene, TokenHolds
  <2>3. Refuses(name, k, d, call, new)
    BY <1>3, <1>4, <2>0, <2>1, <2>2, RedeemPhase
  <2>4. QED
    BY <1>7, <2>3 DEF TokenHolds, Refuses, Leaves
<1>8. QED
  BY <1>1, <1>2, <1>5, <1>6, <1>7

\* ExpiredStaysExpired and ExpiryIsInclusive: at the last instant and long
\* after.
LEMMA StoryOfExpiry ==
    ASSUME NEW name, name \in {"ExpiredStaysExpired", "ExpiryIsInclusive"},
           NEW k \in DOMAIN Script(name),
           NEW d, NEW call, TokenScene(name, k, d, call)
    PROVE  TokenOutcome(name, k, d, call)
<1>1. PICK T, x : T = Script(name) /\ x = It("issued")
  OBVIOUS
<1>2. /\ k \in {1, 2, 3}
      /\ T[1] = Alone(IssueTo(x, user1, "password-reset", 0), {"issued"})
      /\ k # 1 => \E age \in {Ttl, Ttl + 1, Ttl + 10} :
            T[k] = Alone(Consume(x, "password-reset", age), {"expired"})
      /\ k = 3 => name = "ExpiredStaysExpired"
  <2>1. CASE name = "ExpiredStaysExpired"
    <3>1. T = <<IssuedAtTheStart, ExpiredAt(Ttl + 1), ExpiredAt(Ttl + 10)>>
      BY <1>1, <2>1, SingleUseScripts DEF ExpiredStaysExpired
    <3>2. k = 1 \/ k = 2 \/ k = 3
      BY <1>1, <3>1
    <3>3. QED
      BY <1>1, <2>1, <3>1, <3>2 DEF IssuedAtTheStart, ExpiredAt
  <2>2. CASE name = "ExpiryIsInclusive"
    <3>1. T = <<IssuedAtTheStart, ExpiredAt(Ttl)>>
      BY <1>1, <2>2, SingleUseScripts DEF ExpiryIsInclusive
    <3>2. k = 1 \/ k = 2
      BY <1>1, <3>1
    <3>3. QED
      BY <1>1, <3>1, <3>2 DEF IssuedAtTheStart, ExpiredAt
  <2>3. QED
    BY <2>1, <2>2
<1>3. PICK new : new = TablesAfter(d, call).tokens
  OBVIOUS
<1>4. x = NameOf(run, 0, "issued") /\ x \in Draws /\ x[1] = run
  BY <1>1, NamesOf, NamesDiffer, TokenWords DEF TokenScene, Basics
<1>5. CASE k = 1
  <2>1. PICK p \in Purposes, s \in Users \cup Draws, now \in {0, Now} :
            p = "password-reset" /\ s = user1 /\ now = 0
    BY TokenWords
  <2>2. \E A : Script(name)[k] = Alone(IssueTo(x, s, p, now), A)
               /\ "issued" \in A
    BY <1>1, <1>2, <1>5, <2>1
  <2>3. x \notin DOMAIN d.tokens
    BY <1>4, <1>5 DEF TokenScene, TokenHolds
  <2>4. /\ Issues(name, k, d, call, new, x, p, s)
        /\ now = 0 => new[x].expiresAt = began + Ttl
    BY <1>3, <1>4, <2>2, <2>3, IssuePhase
  <2>5. QED
    BY <1>4, <1>5, <2>1, <2>4 DEF TokenHolds, Issues, Leaves
<1>6. CASE k \in {2, 3}
  <2>1. PICK age \in {Ttl, Ttl + 1, Ttl + 10} :
            T[k] = Alone(Consume(x, "password-reset", age), {"expired"})
    BY <1>2, <1>6
  <2>2. PICK p \in Purposes, now \in Nat \cup {Now} :
            p = "password-reset" /\ now = age
    BY TokenWords, SuiteAssumption
  <2>3. \E A : Script(name)[k] = Alone(Consume(x, p, now), A) /\ "expired" \in A
    BY <1>1, <2>1, <2>2
  <2>4. now # Now /\ now >= Ttl
    BY <2>2, SuiteAssumption DEF Now
  <2>5. /\ FreshToken(d.tokens, x, p, user1, began + Ttl)
        /\ d.tokens[x].expiresAt = began + Ttl
    BY <1>4, <1>6, <2>2 DEF TokenScene, TokenHolds
  <2>6. Refuses(name, k, d, call, new)
    BY <1>3, <2>3, <2>4, <2>5, ConsumeExpired
  <2>7. k = 2 => TokenHolds(name, k + 1, new, run, began)
    BY <1>4, <2>2, <2>5, <2>6 DEF TokenHolds, Refuses
  <2>8. k = 3 => TokenHolds(name, k + 1, new, run, began)
    BY DEF TokenHolds
  <2>9. QED
    BY <1>6, <2>6, <2>7, <2>8 DEF Refuses, Leaves
<1>7. QED
  BY <1>2, <1>5, <1>6

\* PurposeIsolation: a mismatch leaves the token fresh.
LEMMA StoryOfPurposeIsolation ==
    ASSUME NEW name, name = "PurposeIsolation",
           NEW k \in DOMAIN Script(name),
           NEW d, NEW call, TokenScene(name, k, d, call)
    PROVE  TokenOutcome(name, k, d, call)
<1>1. PICK T, x : T = Script(name) /\ x = It("issued")
  OBVIOUS
<1>2. T = <<Alone(Issue("issued"), {"issued"}),
            Alone(Consume(x, "invite", Now), {"purpose-mismatch"}),
            Alone(Redeem("issued"), {"consumed"})>>
  BY <1>1, SingleUseScripts DEF PurposeIsolation
<1>3. PICK new : new = TablesAfter(d, call).tokens
  OBVIOUS
<1>4. x = NameOf(run, 0, "issued")
  BY <1>1, NamesOf, TokenWords DEF TokenScene, Basics
<1>5. CASE k = 1
  <2>1. x \notin DOMAIN d.tokens
    BY <1>4, <1>5 DEF TokenScene, TokenHolds
  <2>2. \E A : Script(name)[k] = Alone(Issue("issued"), A) /\ "issued" \in A
    BY <1>1, <1>2, <1>5
  <2>3. Issues(name, k, d, call, new, x, "password-reset", user1)
    BY <1>3, <1>4, <2>1, <2>2, FirstIssue
  <2>4. QED
    BY <1>4, <1>5, <2>3 DEF TokenHolds, Issues, Leaves
<1>6. CASE k = 2
  <2>1. PICK p \in Purposes, q \in Purposes, now \in Nat \cup {Now} :
            p = "invite" /\ q = "password-reset" /\ now = Now
    BY TokenWords
  <2>2. PICK A : /\ Script(name)[k] = Alone(Consume(x, p, now), A)
                 /\ "purpose-mismatch" \in A
    BY <1>1, <1>2, <1>6, <2>1
  <2>3. FreshToken(d.tokens, x, q, user1, began + Ttl) /\ q # p
    BY <1>4, <1>6, <2>1 DEF TokenScene, TokenHolds
  <2>4. Refuses(name, k, d, call, new)
    BY <1>3, <2>2, <2>3, ConsumeMismatch
  <2>5. QED
    BY <1>4, <1>6, <2>1, <2>3, <2>4 DEF TokenHolds, Refuses, Leaves
<1>7. CASE k = 3
  <2>0. PICK u \in Uses : u = "issued"
    BY TokenWords
  <2>1. \E A : Script(name)[k] = Alone(Redeem(u), A) /\ "consumed" \in A
    BY <1>1, <1>2, <1>7, <2>0
  <2>2. FreshToken(d.tokens, x, "password-reset", user1, began + Ttl)
    BY <1>4, <1>7 DEF TokenScene, TokenHolds
  <2>3. Spends(name, k, d, call, new, x)
    BY <1>3, <1>4, <2>0, <2>1, <2>2, RedeemPhase
  <2>4. QED
    BY <1>7, <2>3 DEF TokenHolds, Spends, Leaves
<1>8. QED
  BY <1>1, <1>2, <1>5, <1>6, <1>7

\* DuplicateRejected: the first row stays.
LEMMA StoryOfDuplicateRejected ==
    ASSUME NEW name, name = "DuplicateRejected",
           NEW k \in DOMAIN Script(name),
           NEW d, NEW call, TokenScene(name, k, d, call)
    PROVE  TokenOutcome(name, k, d, call)
<1>1. PICK T : T = Script(name)
  OBVIOUS
<1>2. T = <<Alone(Issue("issued"), {"issued"}),
            Alone(Issue("issued"), {"rejected"})>>
  BY <1>1, SingleUseScripts DEF DuplicateRejected
<1>3. PICK new, x : /\ new = TablesAfter(d, call).tokens
                    /\ x = NameOf(run, 0, "issued")
  OBVIOUS
<1>4. CASE k = 1
  <2>1. x \notin DOMAIN d.tokens
    BY <1>3, <1>4 DEF TokenScene, TokenHolds
  <2>2. \E A : Script(name)[k] = Alone(Issue("issued"), A) /\ "issued" \in A
    BY <1>1, <1>2, <1>4
  <2>3. Issues(name, k, d, call, new, x, "password-reset", user1)
    BY <1>3, <2>1, <2>2, FirstIssue
  <2>4. x \in DOMAIN new
    BY <2>3 DEF Issues, FreshToken
  <2>5. QED
    BY <1>3, <1>4, <2>3, <2>4 DEF TokenHolds, Issues, Leaves
<1>5. CASE k = 2
  <2>1. x \in DOMAIN d.tokens
    BY <1>3, <1>5 DEF TokenScene, TokenHolds
  <2>2. \E A : Script(name)[k] = Alone(Issue("issued"), A) /\ "rejected" \in A
    BY <1>1, <1>2, <1>5
  <2>3. Refuses(name, k, d, call, new)
    BY <1>3, <2>1, <2>2, FirstIssue
  <2>4. QED
    BY <1>5, <2>3 DEF TokenHolds, Refuses, Leaves
<1>6. QED
  BY <1>1, <1>2, <1>4, <1>5

\* The phases before and after the races that are repeated.
LEMMA StoryOfRounds ==
    ASSUME NEW name, NEW w, NEW k \in DOMAIN Script(name), options \in Options,
           \/ name = "ConsumeRace" /\ w = 2 /\ PlaceAt(w, k) = 1
           \/ name = "ConsumeInvalidateSmoke" /\ w = 3 /\ PlaceAt(w, k) \in {1, 3},
           NEW d, NEW call, TokenScene(name, k, d, call)
    PROVE  TokenOutcome(name, k, d, call)
<1>1. PICK m, x, new : /\ m = RoundAt(w, k) /\ x = Drawn(m, "issued")
                       /\ new = TablesAfter(d, call).tokens
  OBVIOUS
<1>2. /\ k \in 1 .. w * Rounds
      /\ PlaceAt(w, k) = 1 => Script(name)[k] =
            Alone(IssueTo(x, x, "password-reset", Now), {"issued"})
      /\ PlaceAt(w, k) = 3 => Script(name)[k] =
            Alone(Consume(x, "password-reset", Now), {"already-consumed"})
  <2>1. CASE name = "ConsumeRace"
    <3>1. Script(name) = [j \in 1 .. 2 * Rounds |->
                            ConsumeRound(RoundAt(2, j))[PlaceAt(2, j)]]
      BY <2>1, SingleUseScripts, RoundScripts
    <3>2. k \in 1 .. 2 * Rounds
          /\ Script(name)[k] = ConsumeRound(RoundAt(2, k))[PlaceAt(2, k)]
      BY <3>1
    <3>3. PlaceAt(2, k) = 1 /\ w = 2 /\ m = RoundAt(2, k)
      BY <1>1, <2>1
    <3>4. ConsumeRound(m)[1] =
            Alone(IssueTo(x, x, "password-reset", Now), {"issued"})
      BY <1>1 DEF ConsumeRound
    <3>5. QED
      BY <3>2, <3>3, <3>4
  <2>2. CASE name = "ConsumeInvalidateSmoke"
    <3>1. Script(name) = [j \in 1 .. 3 * Rounds |->
                            SmokeRound(RoundAt(3, j))[PlaceAt(3, j)]]
      BY <2>2, SingleUseScripts, RoundScripts
    <3>2. k \in 1 .. 3 * Rounds
          /\ Script(name)[k] = SmokeRound(RoundAt(3, k))[PlaceAt(3, k)]
      BY <3>1
    <3>3. w = 3 /\ m = RoundAt(3, k)
      BY <1>1, <2>2
    <3>4. /\ SmokeRound(m)[1] =
                Alone(IssueTo(x, x, "password-reset", Now), {"issued"})
          /\ SmokeRound(m)[3] =
                Alone(Consume(x, "password-reset", Now), {"already-consumed"})
      BY <1>1 DEF SmokeRound
    <3>5. QED
      BY <3>2, <3>3, <3>4
  <2>3. QED
    BY <2>1, <2>2
<1>3. w \in {2, 3} /\ Rounds \in Nat
  BY OptionsTyped
<1>4. /\ m \in 1 .. Rounds
      /\ PlaceAt(w, k) < w => /\ RoundAt(w, k + 1) = m
                              /\ PlaceAt(w, k + 1) = PlaceAt(w, k) + 1
      /\ PlaceAt(w, k) = w => /\ RoundAt(w, k + 1) = m + 1
                              /\ PlaceAt(w, k + 1) = 1
  BY <1>1, <1>2, <1>3, RoundArithmetic
<1>5. m \in Nat /\ m > 0
  BY <1>3, <1>4
<1>6. x = NameOf(run, m, "issued") /\ x \in Draws /\ x[1] = run /\ x[2] = m
  <2>1. x = NameOf(run, m, "issued") /\ x \in Draws
    BY <1>1, <1>5, NamesOf, TokenWords DEF TokenScene, Basics
  <2>2. QED
    BY <2>1 DEF NameOf
<1>7. CASE PlaceAt(w, k) = 1
  <2>1. PICK p \in Purposes, s \in Users \cup Draws, now \in {0, Now} :
            p = "password-reset" /\ s = x /\ now = Now
    BY <1>6, TokenWords
  <2>2. \E A : Script(name)[k] = Alone(IssueTo(x, s, p, now), A)
               /\ "issued" \in A
    BY <1>2, <1>7, <2>1
  <2>3. \A y \in DOMAIN d.tokens : y[1] = run => y[2] < m
    BY <1>1, <1>7 DEF TokenScene, TokenHolds
  <2>4. x \notin DOMAIN d.tokens
    BY <1>5, <1>6, <2>3
  <2>5. Issues(name, k, d, call, new, x, p, s)
    BY <1>1, <1>6, <2>2, <2>4, IssuePhase
  <2>6. \A y \in DOMAIN new : y[1] = run => y[2] < m + 1
    <3>1. DOMAIN new \subseteq DOMAIN d.tokens \cup {x}
      BY <2>5 DEF Issues, Others
    <3>2. ASSUME NEW y \in DOMAIN new, y[1] = run PROVE y[2] < m + 1
      <4>1. CASE y = x
        BY <1>5, <1>6, <4>1
      <4>2. CASE y # x
        <5>1. y \in DOMAIN d.tokens /\ y \in Draws
          BY <3>1, <4>2 DEF TokenScene, TypedDb, SingleUse!TypedRows
        <5>2. y[2] < m /\ y[2] \in Nat
          BY <2>3, <3>2, <5>1 DEF Draws
        <5>3. QED
          BY <1>5, <5>2
      <4>3. QED
        BY <4>1, <4>2
    <3>3. QED
      BY <3>2
  <2>7. FreshToken(new, x, "password-reset", x, began + Ttl)
    BY <2>1, <2>5 DEF Issues
  <2>8. RoundAt(w, k + 1) = m /\ PlaceAt(w, k + 1) = 2
    BY <1>3, <1>4, <1>7
  <2>9. TokenHolds(name, k + 1, new, run, began)
    BY <1>6, <2>6, <2>7, <2>8 DEF TokenHolds
  <2>10. QED
    BY <2>5, <2>9 DEF Issues, Leaves
<1>8. CASE PlaceAt(w, k) = 3
  <2>1. name = "ConsumeInvalidateSmoke" /\ w = 3
    BY <1>8
  <2>2. PICK p \in Purposes, now \in Nat \cup {Now} :
            p = "password-reset" /\ now = Now
    BY TokenWords
  <2>3. PICK A : /\ Script(name)[k] = Alone(Consume(x, p, now), A)
                 /\ "already-consumed" \in A
    BY <1>2, <1>8, <2>2
  <2>4. /\ UsedToken(d.tokens, x)
        /\ \A y \in DOMAIN d.tokens : y[1] = run => y[2] < m + 1
    BY <1>1, <1>6, <1>8, <2>1 DEF TokenScene, TokenHolds
  <2>5. Refuses(name, k, d, call, new)
    BY <1>1, <2>2, <2>3, <2>4, ConsumeUsed
  <2>6. RoundAt(3, k + 1) = m + 1 /\ PlaceAt(3, k + 1) = 1
    BY <1>4, <1>8, <2>1
  <2>7. TokenHolds(name, k + 1, new, run, began)
    BY <2>1, <2>4, <2>5, <2>6 DEF TokenHolds, Refuses
  <2>8. QED
    BY <2>5, <2>7 DEF Refuses, Leaves
<1>9. QED
  BY <1>7, <1>8

\* InvalidationIsExact: only one subject's tokens, of one purpose, are
\* retired.
LEMMA StoryOfInvalidationIsExact ==
    ASSUME NEW name, name = "InvalidationIsExact",
           NEW k \in DOMAIN Script(name),
           NEW d, NEW call, TokenScene(name, k, d, call)
    PROVE  TokenOutcome(name, k, d, call)
<1>1. PICK T, x, y, z : /\ T = Script(name) /\ x = It("issued")
                        /\ y = It("other") /\ z = It("third")
  OBVIOUS
<1>2. T = <<Alone(Issue("issued"), {"issued"}),
            Alone(IssueTo(y, user2, "password-reset", Now), {"issued"}),
            Alone(IssueTo(z, user1, "invite", Now), {"issued"}),
            Alone(InvalidateAllFor(user1), {"done"}),
            Alone(InvalidateAllFor(user1), {"done"}),
            Alone(Redeem("issued"), {"already-consumed"}),
            Alone(Redeem("other"), {"consumed"}),
            Alone(Consume(z, "invite", Now), {"consumed"})>>
  BY <1>1, SingleUseScripts DEF InvalidationIsExact
<1>3. PICK rows, new, e : /\ new = TablesAfter(d, call).tokens
                          /\ rows = d.tokens /\ e = began + Ttl
  OBVIOUS
<1>4. /\ x = NameOf(run, 0, "issued") /\ y = NameOf(run, 0, "other")
      /\ z = NameOf(run, 0, "third") /\ {x, y, z} \subseteq Draws
      /\ x[1] = run /\ y[1] = run /\ z[1] = run
  BY <1>1, NamesOf, NamesDiffer, TokenWords DEF TokenScene, Basics
<1>5. x # y /\ x # z /\ y # z
  BY <1>4, SessionNames DEF TokenScene
<1>6. PICK p \in Purposes, q \in Purposes, s \in Users \cup Draws,
           t \in Users \cup Draws, now \in {0, Now} :
        /\ p = "password-reset" /\ q = "invite" /\ s = user1 /\ t = user2
        /\ now = Now /\ now \in Nat \cup {Now}
  BY TokenWords
<1>7. p # q /\ s # t
  BY <1>6, NamesOf DEF TokenScene, Basics
\* What is known when phase k begins.
<1>8. /\ k = 1 => x \notin DOMAIN rows
      /\ k \in 1 .. 2 => y \notin DOMAIN rows
      /\ k \in 1 .. 3 => z \notin DOMAIN rows
      /\ k \in 2 .. 4 => FreshToken(rows, x, p, s, e)
      /\ k \in 3 .. 7 => FreshToken(rows, y, p, t, e)
      /\ k \in 4 .. 8 => FreshToken(rows, z, q, s, e)
      /\ k \in 5 .. 6 => UsedToken(rows, x)
  BY <1>3, <1>4, <1>6 DEF TokenScene, TokenHolds
\* What must be known when the next one does.
<1>9. /\ k + 1 \in 2 .. 9
      /\ (k + 1 \in 2 .. 2 => y \notin DOMAIN new)
         /\ (k + 1 \in 2 .. 3 => z \notin DOMAIN new)
         /\ (k + 1 \in 2 .. 4 => FreshToken(new, x, p, s, e))
         /\ (k + 1 \in 3 .. 7 => FreshToken(new, y, p, t, e))
         /\ (k + 1 \in 4 .. 8 => FreshToken(new, z, q, s, e))
         /\ (k + 1 \in 5 .. 6 => UsedToken(new, x))
         => TokenHolds(name, k + 1, new, run, began)
  <2>1. k \in 1 .. 8
    BY <1>1, <1>2
  <2>2. QED
    BY <1>3, <1>4, <1>6, <2>1 DEF TokenHolds
<1>10. CASE k = 1
  <2>1. \E A : Script(name)[k] = Alone(Issue("issued"), A) /\ "issued" \in A
    BY <1>1, <1>2, <1>10
  <2>2. Issues(name, k, d, call, new, x, p, s)
    BY <1>3, <1>4, <1>6, <1>8, <1>10, <2>1, FirstIssue
  <2>3. /\ FreshToken(new, x, p, s, e) /\ y \notin DOMAIN new
        /\ z \notin DOMAIN new
    BY <1>3, <1>5, <1>8, <1>10, <2>2 DEF Issues, Others
  <2>4. QED
    BY <1>9, <1>10, <2>2, <2>3 DEF Issues, Leaves
<1>11. CASE k = 2
  <2>1. PICK A : Script(name)[k] = Alone(IssueTo(y, t, p, now), A)
                 /\ "issued" \in A
    BY <1>1, <1>2, <1>6, <1>11
  <2>2. Issues(name, k, d, call, new, y, p, t)
    BY <1>3, <1>4, <1>8, <1>11, <2>1, IssuePhase
  <2>3. /\ FreshToken(new, y, p, t, e) /\ z \notin DOMAIN new
        /\ FreshToken(new, x, p, s, e)
    BY <1>3, <1>5, <1>8, <1>11, <2>2, TokensStay DEF Issues
  <2>4. QED
    BY <1>9, <1>11, <2>2, <2>3 DEF Issues, Leaves
<1>12. CASE k = 3
  <2>1. PICK A : Script(name)[k] = Alone(IssueTo(z, s, q, now), A)
                 /\ "issued" \in A
    BY <1>1, <1>2, <1>6, <1>12
  <2>2. Issues(name, k, d, call, new, z, q, s)
    BY <1>3, <1>4, <1>8, <1>12, <2>1, IssuePhase
  <2>3. /\ FreshToken(new, z, q, s, e) /\ FreshToken(new, y, p, t, e)
        /\ FreshToken(new, x, p, s, e)
    BY <1>3, <1>5, <1>8, <1>12, <2>2, TokensStay DEF Issues
  <2>4. QED
    BY <1>9, <1>12, <2>2, <2>3 DEF Issues, Leaves
<1>13. CASE k \in {4, 5}
  <2>1. PICK A : Script(name)[k] = Alone(InvalidateAllFor(s), A)
                 /\ "done" \in A
    BY <1>1, <1>2, <1>6, <1>13
  <2>2. Withdraws(name, k, d, call, new, s)
    BY <1>3, <2>1, WithdrawPhase
  <2>3. PICK F : F = SingleUse!Covered(rows, s, p)
    OBVIOUS
  <2>4. Retired(new, rows, F)
    BY <1>3, <1>6, <2>2, <2>3 DEF Withdraws
  <2>5. k = 4 => x \in F
    BY <1>8, <2>3 DEF FreshToken, SingleUse!Covered
  <2>6. y \notin F /\ z \notin F
    BY <1>7, <1>8, <1>13, <2>3 DEF FreshToken, SingleUse!Covered
  <2>7. UsedToken(new, x)
    BY <1>6, <1>8, <1>13, <2>4, <2>5, RetiredRows
  <2>8. FreshToken(new, y, p, t, e) /\ FreshToken(new, z, q, s, e)
    BY <1>8, <1>13, <2>4, <2>6, RetiredRows
  <2>9. QED
    BY <1>9, <1>13, <2>2, <2>7, <2>8 DEF Withdraws, Leaves
<1>14. CASE k = 6
  <2>1. PICK u \in Uses : u = "issued"
    BY TokenWords
  <2>2. \E A : Script(name)[k] = Alone(Redeem(u), A) /\ "already-consumed" \in A
    BY <1>1, <1>2, <1>14, <2>1
  <2>3. Refuses(name, k, d, call, new)
    BY <1>3, <1>4, <1>8, <1>14, <2>1, <2>2, RedeemPhase
  <2>4. QED
    BY <1>3, <1>8, <1>9, <1>14, <2>3 DEF Refuses, Leaves
<1>15. CASE k = 7
  <2>1. PICK u \in Uses : u = "other"
    BY TokenWords
  <2>2. \E A : Script(name)[k] = Alone(Redeem(u), A) /\ "consumed" \in A
    BY <1>1, <1>2, <1>15, <2>1
  <2>3. FreshToken(d.tokens, y, "password-reset", t, began + Ttl)
    BY <1>3, <1>6, <1>8, <1>15
  <2>4. Spends(name, k, d, call, new, y)
    BY <1>3, <1>4, <2>1, <2>2, <2>3, RedeemPhase
  <2>5. FreshToken(new, z, q, s, e)
    BY <1>3, <1>5, <1>8, <1>15, <2>4, RetiredRows DEF Spends
  <2>6. QED
    BY <1>9, <1>15, <2>4, <2>5 DEF Spends, Leaves
<1>16. CASE k = 8
  <2>1. PICK A : Script(name)[k] = Alone(Consume(z, q, now), A)
                 /\ "consumed" \in A
    BY <1>1, <1>2, <1>6, <1>16
  <2>2. FreshToken(d.tokens, z, q, s, began + Ttl)
    BY <1>3, <1>8, <1>16
  <2>3. Spends(name, k, d, call, new, z)
    BY <1>3, <1>6, <2>1, <2>2, ConsumeFresh
  <2>4. QED
    BY <1>9, <1>16, <2>3 DEF Spends, Leaves
<1>17. k \in 1 .. 8
  BY <1>1, <1>2
<1>18. QED
  BY <1>10, <1>11, <1>12, <1>13, <1>14, <1>15, <1>16, <1>17

-----------------------------------------------------------------------------
(* What the calls of the identity suite do.                                *)

\* An account is created, and nothing is bound.
LEMMA CreateActs ==
    ASSUME NEW d, TypedDb(d), NEW call, call.op = "createAccount",
           NEW after, after = TablesAfter(d, call)
    PROVE  /\ AnswerOf(d, call) = "done"
           /\ DOMAIN after.accounts = DOMAIN d.accounts \cup {call.account}
           /\ after.accounts[call.account] = call.row
           /\ \A a \in DOMAIN d.accounts :
                a # call.account => after.accounts[a] = d.accounts[a]
           /\ after.owner = d.owner
<1>1. PICK rows : rows = Bindings!PutRow(d.accounts, call.account, call.row)
  OBVIOUS
<1>2. after = [d EXCEPT !.accounts = rows]
  BY <1>1 DEF TablesAfter
<1>3. after.accounts = rows /\ after.owner = d.owner
  BY <1>2 DEF TypedDb
<1>4. AnswerOf(d, call) = "done"
  BY DEF AnswerOf
<1>5. /\ DOMAIN rows = DOMAIN d.accounts \cup {call.account}
      /\ rows[call.account] = call.row
      /\ \A a \in DOMAIN d.accounts :
            a # call.account => rows[a] = d.accounts[a]
  BY <1>1 DEF Bindings!PutRow
<1>6. QED
  BY <1>3, <1>4, <1>5

\* A bind or a claim of the identity's key for account a.
Binds(d, call, after, a, key) ==
    /\ after.owner = [d.owner EXCEPT ![key] = a]
    /\ after.owner[key] = a
    /\ \A j \in Keys : j # key => after.owner[j] = d.owner[j]
    /\ DOMAIN after.accounts = DOMAIN d.accounts
    /\ \A x \in DOMAIN d.accounts : x # a =>
            after.accounts[x] = d.accounts[x]
    /\ call.op = "bind" => after.accounts = d.accounts
    /\ call.op = "claim" /\ a \in DOMAIN d.accounts =>
            after.accounts[a].emailVerified

BindSays(call) == IF call.op = "bind" THEN "linked" ELSE "claimed"

BindActsSo(d, call, after, a, key) ==
    /\ Refusals(d, call) # {} => AnswerOf(d, call) = "refused" /\ after = d
    /\ Refusals(d, call) = {} =>
        /\ AnswerOf(d, call) = BindSays(call)
        /\ Binds(d, call, after, a, key)

\* A bind or a claim is refused and does nothing, or is done.
LEMMA BindActs ==
    ASSUME NEW d, TypedDb(d), NEW call, call.op = "bind" \/ call.op = "claim",
           NEW a, a = call.account, NEW key \in Keys, key = call.identity.key,
           NEW after, after = TablesAfter(d, call)
    PROVE  BindActsSo(d, call, after, a, key)
<1>1. AnswerOf(d, call) = IF Refusals(d, call) # {} THEN "refused"
                          ELSE IF call.op = "bind" THEN "linked" ELSE "claimed"
  BY DEF AnswerOf
<1>2. Refusals(d, call) # {} => after = d
  BY DEF TablesAfter
<1>3. ASSUME Refusals(d, call) = {}
      PROVE  after = IF call.op = "bind"
                     THEN BindTables(d, call.identity, a)
                     ELSE ClaimTables(d, call.identity, a)
  BY <1>3 DEF TablesAfter
<1>4. PICK b : b = BindTables(d, call.identity, a)
  OBVIOUS
<1>5. PICK owner : owner = [d.owner EXCEPT ![key] = a]
  OBVIOUS
<1>6. b = [d EXCEPT !.owner = owner]
  BY <1>4, <1>5 DEF BindTables, Bindings!BindKey
<1>7. b = [sessions |-> d.sessions, tokens |-> d.tokens,
           accounts |-> d.accounts, owner |-> owner, epochs |-> d.epochs]
  BY <1>6 DEF TypedDb
<1>8. /\ owner[key] = a /\ \A j \in Keys : j # key => owner[j] = d.owner[j]
  BY <1>5 DEF TypedDb, Bindings!TypedStore
<1>9. PICK rows : rows = Bindings!ClaimRow(d.accounts, a)
  OBVIOUS
<1>10. ClaimTables(d, call.identity, a) = [b EXCEPT !.accounts = rows]
  BY <1>4, <1>7, <1>9 DEF ClaimTables
<1>11. ClaimTables(d, call.identity, a) =
          [sessions |-> d.sessions, tokens |-> d.tokens,
           accounts |-> rows, owner |-> owner, epochs |-> d.epochs]
  BY <1>7, <1>10
<1>12. /\ DOMAIN rows = DOMAIN d.accounts
       /\ \A x \in DOMAIN d.accounts : x # a => rows[x] = d.accounts[x]
       /\ a \in DOMAIN d.accounts => rows[a].emailVerified
  <2>1. a \in DOMAIN d.accounts => d.accounts[a] \in Bindings!Row
    BY DEF TypedDb, Bindings!TypedStore
  <2>2. PICK rows0 : rows0 = d.accounts
    OBVIOUS
  <2>3. rows = [rows0 EXCEPT ![a].emailVerified = TRUE]
    BY <1>9, <2>2 DEF Bindings!ClaimRow
  <2>4. DOMAIN rows = DOMAIN rows0
        /\ \A x \in DOMAIN rows0 : x # a => rows[x] = rows0[x]
    BY <2>3
  <2>5. ASSUME a \in DOMAIN rows0 PROVE rows[a].emailVerified
    <3>1. rows[a] = [rows0[a] EXCEPT !.emailVerified = TRUE]
      BY <2>3, <2>5
    <3>2. rows[a].emailVerified = TRUE
      BY <2>1, <2>2, <2>5, <3>1 DEF Bindings!Row
    <3>3. QED
      BY <3>2
  <2>6. QED
    BY <2>2, <2>4, <2>5
<1>13. ASSUME Refusals(d, call) = {}
       PROVE  /\ after.owner = owner
              /\ call.op = "bind" => after.accounts = d.accounts
              /\ call.op = "claim" => after.accounts = rows
  <2>1. CASE call.op = "bind"
    <3>1. after = b
      BY <1>3, <1>4, <1>13, <2>1
    <3>2. QED
      BY <1>7, <2>1, <3>1
  <2>2. CASE call.op = "claim"
    <3>1. after = ClaimTables(d, call.identity, a)
      BY <1>3, <1>13, <2>2
    <3>2. QED
      BY <1>11, <2>2, <3>1
  <2>3. QED
    BY <2>1, <2>2
<1>14. ASSUME Refusals(d, call) = {}
       PROVE  /\ DOMAIN after.accounts = DOMAIN d.accounts
              /\ \A x \in DOMAIN d.accounts : x # a =>
                        after.accounts[x] = d.accounts[x]
              /\ call.op = "claim" /\ a \in DOMAIN d.accounts =>
                        after.accounts[a].emailVerified
  BY <1>12, <1>13, <1>14
<1>15. ASSUME Refusals(d, call) = {}
       PROVE  AnswerOf(d, call) = BindSays(call)
              /\ Binds(d, call, after, a, key)
  <2>1. AnswerOf(d, call) = BindSays(call)
    BY <1>1, <1>15 DEF BindSays
  <2>2. /\ after.owner = [d.owner EXCEPT ![key] = a]
        /\ after.owner[key] = a
        /\ \A j \in Keys : j # key => after.owner[j] = d.owner[j]
    BY <1>5, <1>8, <1>13, <1>15
  <2>3. call.op = "bind" => after.accounts = d.accounts
    BY <1>13, <1>15
  <2>4. Binds(d, call, after, a, key)
    BY <1>14, <1>15, <2>2, <2>3 DEF Binds
  <2>5. QED
    BY <2>1, <2>4
<1>16. Refusals(d, call) # {} => AnswerOf(d, call) = "refused"
  BY <1>1
<1>17. QED
  BY <1>2, <1>15, <1>16 DEF BindActsSo

\* When a bind or a claim is refused, and when not.
LEMMA BindAnswers ==
    ASSUME NEW d, TypedDb(d), NEW call, NEW a, a = call.account,
           NEW key, key = call.identity.key, a # Null,
           call.op \in {"bind", "claim"}
    PROVE  /\ d.owner[key] # Null => Refusals(d, call) # {}
           /\ /\ d.owner[key] = Null
              /\ ~Bindings!IsBound(d.owner, a)
              /\ call.op = "bind" /\ ~d.accounts[a].disabled
              => Refusals(d, call) = {}
           /\ /\ d.owner[key] = Null
              /\ ~Bindings!IsBound(d.owner, a)
              /\ call.op = "claim" /\ ~d.accounts[a].disabled
              /\ ~d.accounts[a].emailVerified
              /\ ~d.accounts[a].hasCredentials
              /\ call.identity.email = d.accounts[a].email
              => Refusals(d, call) = {}
<1>1. CASE call.op = "bind"
  <2>1. Refusals(d, call) =
            Bindings!BindRefusals(d.accounts, d.owner, a, call.identity)
    BY <1>1 DEF Refusals
  <2>2. d.owner[key] # Null => Refusals(d, call) # {}
    BY <2>1 DEF Bindings!BindRefusals, Bindings!When
  <2>3. d.owner[key] = Null /\ ~Bindings!IsBound(d.owner, a)
        /\ ~d.accounts[a].disabled => Refusals(d, call) = {}
    BY <2>1 DEF Bindings!BindRefusals, Bindings!When
  <2>4. QED
    BY <1>1, <2>2, <2>3
<1>2. CASE call.op = "claim"
  <2>1. Refusals(d, call) =
            Bindings!ClaimRefusals(d.accounts, d.owner, a, call.identity)
    BY <1>2 DEF Refusals
  <2>2. d.owner[key] # Null => Refusals(d, call) # {}
    BY <2>1 DEF Bindings!ClaimRefusals, Bindings!When
  <2>3. ASSUME /\ d.owner[key] = Null
               /\ ~Bindings!IsBound(d.owner, a)
               /\ ~d.accounts[a].disabled
               /\ ~d.accounts[a].emailVerified
               /\ ~d.accounts[a].hasCredentials
               /\ call.identity.email = d.accounts[a].email
        PROVE  Refusals(d, call) = {}
    <3>1. Bindings!StillPlaceholder(d.accounts, d.owner, a, call.identity)
      BY <2>3 DEF Bindings!StillPlaceholder, Bindings!SameEmail
    <3>2. QED
      BY <2>1, <2>3, <3>1 DEF Bindings!ClaimRefusals, Bindings!When
  <2>4. QED
    BY <1>2, <2>2, <2>3
<1>3. QED
  BY <1>1, <1>2

\* A lookup answers, and changes nothing unless it claims.
LEMMA ResolveActs ==
    ASSUME NEW d, NEW call, call.op = "resolve", NEW status,
           status = ResolveOutcome(d, call.identity)
    PROVE  /\ AnswerOf(d, call) = status
           /\ status # "claimed-placeholder" => TablesAfter(d, call) = d
  BY DEF AnswerOf, TablesAfter, ResolveTables

-----------------------------------------------------------------------------
(* The identity tests, one by one.                                         *)

BindScene(name, k, d, call) ==
    /\ Basics /\ TypedDb(d)
    /\ IsAsked(call, Script(name)[k].calls[1], began, clock)
    /\ BindingHolds(name, k, d.accounts, d.owner)

BindOutcome(name, k, d, call) ==
    /\ <<AnswerOf(d, call)>> \in Script(name)[k].expected
    /\ LET after == TablesAfter(d, call)
       IN  BindingHolds(name, k + 1, after.accounts, after.owner)

\* What is known where a phase of one call is played, and what suffices for
\* its outcome.
LEMMA BindSceneIs ==
    ASSUME NEW name, NEW k, NEW d, NEW call, BindScene(name, k, d, call),
           NEW c, NEW A, Script(name)[k] = Alone(c, A),
           NEW after, after = TablesAfter(d, call)
    PROVE  /\ IsAsked(call, c, began, clock)
           /\ Basics /\ TypedDb(d)
           /\ BindingHolds(name, k, d.accounts, d.owner)
           /\ AnswerOf(d, call) \in A
              /\ BindingHolds(name, k + 1, after.accounts, after.owner)
              => BindOutcome(name, k, d, call)
  BY AloneIs DEF BindScene, BindOutcome

\* The creation of an account, as asked.
LEMMA AskedCreate ==
    ASSUME NEW call, NEW a, NEW e, NEW v,
           IsAsked(call, CreateAccount(a, e, v), began, clock)
    PROVE  /\ call.op = "createAccount" /\ call.account = a
           /\ call.row = [email |-> e, disabled |-> FALSE,
                          hasCredentials |-> v, emailVerified |-> v]
  BY DEF IsAsked, CreateAccount

\* A call with an identity, as asked; a link may have looked already.
LEMMA AskedAsk ==
    ASSUME NEW call, NEW op, NEW a, NEW identity,
           IsAsked(call, Ask(op, a, identity), began, clock)
    PROVE  /\ call.op = op \/ (op = "link" /\ call.op = "bind")
           /\ call.account = a /\ call.identity = identity
  BY DEF IsAsked, Ask

\* The identity the suite asks with.
LEMMA IdentityWords ==
    /\ 0 \in Keys
    /\ conformanceIdentity.key = 0
    /\ conformanceIdentity.email = <<"conformance", 0>>
    /\ conformanceIdentity.emailAuthority = "hosted"
    /\ \A e : [conformanceIdentity EXCEPT !.email = e].key = 0
    /\ <<"conformance", 0>> \in Emails /\ <<"conformance", 0>> # Null
  BY SuiteAssumption, NameAssumption DEF Keys, conformanceIdentity, Emails

\* Creating an account.
Creates(name, k, d, call, after, a, e, v) ==
    /\ DOMAIN d.accounts = {} => OnlyAccount(after.accounts, a, e, v)
    /\ a \in DOMAIN after.accounts
    /\ after.accounts[a] = [email |-> e, disabled |-> FALSE,
                            hasCredentials |-> v, emailVerified |-> v]
    /\ after.owner = d.owner
    /\ BindingHolds(name, k + 1, after.accounts, after.owner)
       => BindOutcome(name, k, d, call)

\* A phase that creates an account.
LEMMA CreatePhase ==
    ASSUME NEW name, NEW k, NEW d, NEW call, BindScene(name, k, d, call),
           NEW a, NEW e, NEW v, NEW A, "done" \in A,
           Script(name)[k] = Alone(CreateAccount(a, e, v), A),
           NEW after, after = TablesAfter(d, call)
    PROVE  Creates(name, k, d, call, after, a, e, v)
<1>1. /\ IsAsked(call, CreateAccount(a, e, v), began, clock) /\ TypedDb(d)
      /\ AnswerOf(d, call) \in A
         /\ BindingHolds(name, k + 1, after.accounts, after.owner)
         => BindOutcome(name, k, d, call)
  BY BindSceneIs
<1>2. PICK row : row = [email |-> e, disabled |-> FALSE,
                        hasCredentials |-> v, emailVerified |-> v]
  OBVIOUS
<1>3. call.op = "createAccount" /\ call.account = a /\ call.row = row
  BY <1>1, <1>2, AskedCreate
<1>4. /\ AnswerOf(d, call) = "done"
      /\ DOMAIN after.accounts = DOMAIN d.accounts \cup {a}
      /\ after.accounts[a] = row
      /\ after.owner = d.owner
  BY <1>1, <1>3, CreateActs
<1>5. QED
  BY <1>1, <1>2, <1>4 DEF OnlyAccount, Creates

\* Resolving under the one account's address.
LEMMA ResolvesOnly ==
    ASSUME NEW d, NEW a, NEW v \in BOOLEAN,
           OnlyAccount(d.accounts, a, <<"conformance", 0>>, v),
           Unbound(d.owner)
    PROVE  ResolveOutcome(d, conformanceIdentity) =
                IF v THEN "account-exists" ELSE "claimed-placeholder"
<1>1. PICK e : e = <<"conformance", 0>>
  OBVIOUS
<1>2. e \in Emails /\ e # Null
  BY <1>1, IdentityWords
<1>3. Bindings!Normalized(e) = e
  BY <1>2 DEF Bindings!Normalized
<1>4. Bindings!VerifiedEmail(conformanceIdentity) = e
  BY <1>1, <1>3, IdentityWords DEF Bindings!VerifiedEmail
<1>5. DOMAIN d.accounts = {a} /\ d.accounts[a].email = e
      /\ d.accounts[a].hasCredentials = v /\ d.accounts[a].emailVerified = v
  BY <1>1 DEF OnlyAccount
<1>6. Bindings!WithEmail(d.accounts, e) = {a}
  BY <1>3, <1>5 DEF Bindings!WithEmail, Bindings!SameEmail
<1>7. d.owner[conformanceIdentity.key] = Null
  BY IdentityWords DEF Unbound
<1>8. QED
  BY <1>4, <1>5, <1>6, <1>7 DEF ResolveOutcome

\* ReturningByKey: bound once, found by the key whatever its address.
LEMMA StoryOfReturningByKey ==
    ASSUME NEW name, name = "ReturningByKey", NEW k \in DOMAIN Script(name),
           NEW d, NEW call, BindScene(name, k, d, call)
    PROVE  BindOutcome(name, k, d, call)
<1>1. PICK T, a, changed : /\ T = Script(name) /\ a = <<"returning", 0>>
                    /\ changed = [conformanceIdentity EXCEPT
                                    !.email = <<"changed", 0>>]
  OBVIOUS
<1>2. PICK first : first = Alone(CreateAccount(a, a, TRUE), {"done"})
  OBVIOUS
<1>9. T = <<first,
            Alone(Ask("bind", a, conformanceIdentity), {"linked"}),
            Alone(Ask("resolve", Null, changed), {"returning"})>>
  BY <1>1, <1>2, IdentityScripts DEF ReturningByKey
<1>3. PICK after : after = TablesAfter(d, call)
  OBVIOUS
<1>4. BindingHolds(name, k, d.accounts, d.owner) /\ TypedDb(d)
  BY DEF BindScene
<1>5. CASE k = 1
  <2>1. Script(name)[k] = Alone(CreateAccount(a, a, TRUE), {"done"})
    <3>1. Script(name)[k] = first
      BY <1>1, <1>5, <1>9
    <3>2. QED
      BY <1>2, <3>1, Zenon
  <2>2. PICK A, v : /\ Script(name)[k] = Alone(CreateAccount(a, a, v), A)
                    /\ "done" \in A /\ v = TRUE
    BY <2>1, Zenon
  <2>3. DOMAIN d.accounts = {} /\ Unbound(d.owner)
    BY <1>4, <1>5 DEF BindingHolds
  <2>4. Creates(name, k, d, call, after, a, a, v)
    BY <1>3, <2>2, CreatePhase
  <2>5. /\ OnlyAccount(after.accounts, a, a, v) /\ after.owner = d.owner
        /\ BindingHolds(name, k + 1, after.accounts, after.owner)
              => BindOutcome(name, k, d, call)
    BY <2>3, <2>4 DEF Creates
  <2>6. OnlyAccount(after.accounts, a, a, TRUE)
    BY <2>2, <2>5, Zenon
  <2>7. QED
    BY <1>1, <1>5, <2>3, <2>5, <2>6 DEF BindingHolds
<1>6. CASE k = 2
  <2>1. PICK A, op, i : /\ Script(name)[k] = Alone(Ask(op, a, i), A)
                        /\ "linked" \in A /\ op = "bind"
                        /\ i = conformanceIdentity
    BY <1>1, <1>6, <1>9
  <2>2. /\ IsAsked(call, Ask(op, a, i), began, clock)
        /\ AnswerOf(d, call) \in A
           /\ BindingHolds(name, k + 1, after.accounts, after.owner)
           => BindOutcome(name, k, d, call)
    BY <1>3, <2>1, BindSceneIs
  <2>3. call.op = "bind" /\ call.account = a /\ call.identity.key = 0
    BY <2>1, <2>2, AskedAsk, IdentityWords
  <2>4. /\ OnlyAccount(d.accounts, a, a, TRUE) /\ Unbound(d.owner)
    BY <1>1, <1>4, <1>6 DEF BindingHolds
  <2>5. /\ a \in Accounts /\ a # Null
        /\ d.owner[0] = Null /\ ~d.accounts[a].disabled
    BY <1>1, <2>4, IdentityWords, NameAssumption
       DEF OnlyAccount, Unbound, Accounts
  <2>6. ~Bindings!IsBound(d.owner, a)
    BY <2>4, <2>5 DEF Unbound, Bindings!IsBound
  <2>7. PICK key \in Keys : key = call.identity.key /\ key = 0
    BY <2>3, IdentityWords
  <2>8. Refusals(d, call) = {}
    BY <1>4, <2>3, <2>5, <2>6, <2>7, BindAnswers
  <2>9. AnswerOf(d, call) = "linked" /\ after.owner[key] = a
    <3>1. call.op = "bind" /\ a = call.account /\ TypedDb(d)
      BY <1>4, <2>3
    <3>2. BindActsSo(d, call, after, a, key)
      BY <1>3, <2>7, <3>1, BindActs
    <3>3. QED
      BY <2>3, <2>8, <3>2 DEF BindSays, Binds, BindActsSo
  <2>10. QED
    BY <1>6, <2>1, <2>2, <2>5, <2>7, <2>9 DEF BindingHolds
<1>7. CASE k = 3
  <2>1. PICK A, op, b : /\ Script(name)[k] = Alone(Ask(op, b, changed), A)
                        /\ "returning" \in A /\ op = "resolve"
    BY <1>1, <1>7, <1>9
  <2>2. /\ IsAsked(call, Ask(op, b, changed), began, clock)
        /\ AnswerOf(d, call) \in A
           /\ BindingHolds(name, k + 1, after.accounts, after.owner)
           => BindOutcome(name, k, d, call)
    BY <1>3, <2>1, BindSceneIs
  <2>3. call.op = "resolve" /\ call.identity.key = 0
    <3>1. call.op = "resolve" /\ call.identity = changed
      BY <2>1, <2>2, AskedAsk
    <3>2. PICK e : changed = [conformanceIdentity EXCEPT !.email = e]
      BY <1>1
    <3>3. QED
      BY <3>1, <3>2, IdentityWords
  <2>4. d.owner[0] # Null
    BY <1>4, <1>7 DEF BindingHolds
  <2>5. ResolveOutcome(d, call.identity) = "returning"
    BY <2>3, <2>4 DEF ResolveOutcome
  <2>6. AnswerOf(d, call) = "returning"
    BY <2>3, <2>5, ResolveActs
  <2>7. QED
    BY <1>7, <2>1, <2>2, <2>6 DEF BindingHolds
<1>8. QED
  BY <1>1, <1>5, <1>6, <1>7, <1>9

\* Resolving when a, which an address and v describe, is all there is.
LEMMA ResolvePhase ==
    ASSUME NEW name, NEW k, NEW d, NEW call, BindScene(name, k, d, call),
           NEW A, NEW op, op = "resolve", NEW b,
           Script(name)[k] = Alone(Ask(op, b, conformanceIdentity), A),
           NEW a, NEW v \in BOOLEAN, NEW status,
           OnlyAccount(d.accounts, a, <<"conformance", 0>>, v),
           Unbound(d.owner),
           v => status = "account-exists",
           ~v => status = "claimed-placeholder",
           status \in A,
           v => BindingHolds(name, k + 1, d.accounts, d.owner),
           ~v => name = "ClaimsPlaceholder" /\ k = 2
    PROVE  BindOutcome(name, k, d, call)
<1>1. PICK after : after = TablesAfter(d, call)
  OBVIOUS
<1>2. /\ IsAsked(call, Ask(op, b, conformanceIdentity), began, clock)
      /\ AnswerOf(d, call) \in A
         /\ BindingHolds(name, k + 1, after.accounts, after.owner)
         => BindOutcome(name, k, d, call)
  BY <1>1, BindSceneIs
<1>3. call.op = "resolve" /\ call.identity = conformanceIdentity
  BY <1>2, AskedAsk
<1>4. ResolveOutcome(d, call.identity) = status
  BY <1>3, ResolvesOnly
<1>5. AnswerOf(d, call) = status /\ (v => after = d)
  BY <1>1, <1>3, <1>4, ResolveActs
<1>6. BindingHolds(name, k + 1, after.accounts, after.owner)
  <2>1. CASE v
    BY <1>5, <2>1
  <2>2. CASE ~v
    BY <2>2 DEF BindingHolds
  <2>3. QED
    BY <2>1, <2>2
<1>7. QED
  BY <1>2, <1>5, <1>6

\* NeverAdopts: an account with credentials is not adopted for its address.
LEMMA StoryOfNeverAdopts ==
    ASSUME NEW name, name = "NeverAdopts", NEW k \in DOMAIN Script(name),
           NEW d, NEW call, BindScene(name, k, d, call)
    PROVE  BindOutcome(name, k, d, call)
<1>1. PICK T, a, e : /\ T = Script(name) /\ a = <<"credentialed", 0>>
                     /\ e = <<"conformance", 0>>
  OBVIOUS
<1>2. PICK first : first = Alone(CreateAccount(a, e, TRUE), {"done"})
  OBVIOUS
<1>3. T = <<first,
            Alone(Ask("resolve", Null, conformanceIdentity),
                  {"account-exists"}),
            Alone(Ask("findByIdentity", Null, conformanceIdentity),
                  {"nobody"})>>
  BY <1>1, <1>2, IdentityWords, IdentityScripts DEF NeverAdopts
<1>4. PICK after : after = TablesAfter(d, call)
  OBVIOUS
<1>5. BindingHolds(name, k, d.accounts, d.owner)
  BY DEF BindScene
<1>6. k \in {2, 3} => OnlyAccount(d.accounts, a, e, TRUE) /\ Unbound(d.owner)
  BY <1>1, <1>5 DEF BindingHolds
<1>7. CASE k = 1
  <2>1. Script(name)[k] = first
    BY <1>1, <1>3, <1>7
  <2>2. PICK A, v : /\ Script(name)[k] = Alone(CreateAccount(a, e, v), A)
                    /\ "done" \in A /\ v = TRUE
    BY <1>2, <2>1, Zenon
  <2>3. DOMAIN d.accounts = {} /\ Unbound(d.owner)
    BY <1>5, <1>7 DEF BindingHolds
  <2>4. Creates(name, k, d, call, after, a, e, v)
    BY <1>4, <2>2, CreatePhase
  <2>5. /\ OnlyAccount(after.accounts, a, e, v) /\ after.owner = d.owner
        /\ BindingHolds(name, k + 1, after.accounts, after.owner)
              => BindOutcome(name, k, d, call)
    BY <2>3, <2>4 DEF Creates
  <2>6. OnlyAccount(after.accounts, a, e, TRUE)
    BY <2>2, <2>5, Zenon
  <2>7. QED
    BY <1>1, <1>7, <2>3, <2>5, <2>6 DEF BindingHolds
<1>8. CASE k = 2
  <2>1. PICK A, op, b, v, status :
            /\ Script(name)[k] = Alone(Ask(op, b, conformanceIdentity), A)
            /\ op = "resolve" /\ status \in A /\ status = "account-exists"
    BY <1>1, <1>3, <1>8
  <2>2. BindingHolds(name, k + 1, d.accounts, d.owner)
    <3>1. /\ OnlyAccount(d.accounts, <<"credentialed", 0>>,
                         <<"conformance", 0>>, TRUE)
          /\ Unbound(d.owner)
      BY <1>1, <1>6, <1>8
    <3>2. PICK m : m = k + 1 /\ m = 3 /\ m # 1 /\ m # 2
      BY <1>8
    <3>3. BindingHolds(name, m, d.accounts, d.owner)
      BY <3>1, <3>2, Zenon DEF BindingHolds
    <3>4. QED
      BY <3>2, <3>3
  <2>3. PICK w \in BOOLEAN : w /\ OnlyAccount(d.accounts, a, e, w)
    BY <1>6, <1>8
  <2>4. QED
    BY <1>1, <1>6, <1>8, <2>1, <2>2, <2>3, ResolvePhase
<1>9. CASE k = 3
  <2>1. PICK A, op, b, i : /\ Script(name)[k] = Alone(Ask(op, b, i), A)
                           /\ "nobody" \in A /\ op = "findByIdentity"
                           /\ i = conformanceIdentity
    BY <1>1, <1>3, <1>9
  <2>2. /\ IsAsked(call, Ask(op, b, i), began, clock)
        /\ AnswerOf(d, call) \in A
           /\ BindingHolds(name, k + 1, after.accounts, after.owner)
           => BindOutcome(name, k, d, call)
    BY <1>4, <2>1, BindSceneIs
  <2>3. call.op = "findByIdentity" /\ call.identity.key = 0
    BY <2>1, <2>2, AskedAsk, IdentityWords
  <2>4. AnswerOf(d, call) = "nobody"
    BY <1>6, <1>9, <2>3, IdentityWords DEF AnswerOf, Unbound
  <2>5. QED
    BY <1>9, <2>1, <2>2, <2>4 DEF BindingHolds
<1>10. QED
  BY <1>1, <1>3, <1>7, <1>8, <1>9

\* ClaimsPlaceholder: one without is claimed.
LEMMA StoryOfClaimsPlaceholder ==
    ASSUME NEW name, name = "ClaimsPlaceholder", NEW k \in DOMAIN Script(name),
           NEW d, NEW call, BindScene(name, k, d, call)
    PROVE  BindOutcome(name, k, d, call)
<1>1. PICK T, a, e : /\ T = Script(name) /\ a = <<"placeholder", 0>>
                     /\ e = <<"conformance", 0>>
  OBVIOUS
<1>2. PICK first : first = Alone(CreateAccount(a, e, FALSE), {"done"})
  OBVIOUS
<1>3. T = <<first,
            Alone(Ask("resolve", Null, conformanceIdentity),
                  {"claimed-placeholder"})>>
  BY <1>1, <1>2, IdentityWords, IdentityScripts DEF ClaimsPlaceholder
<1>4. PICK after : after = TablesAfter(d, call)
  OBVIOUS
<1>5. BindingHolds(name, k, d.accounts, d.owner)
  BY DEF BindScene
<1>6. k = 2 => OnlyAccount(d.accounts, a, e, FALSE) /\ Unbound(d.owner)
  BY <1>1, <1>5 DEF BindingHolds
<1>7. CASE k = 1
  <2>1. Script(name)[k] = first
    BY <1>1, <1>3, <1>7
  <2>2. PICK A, v : /\ Script(name)[k] = Alone(CreateAccount(a, e, v), A)
                    /\ "done" \in A /\ v = FALSE
    BY <1>2, <2>1, Zenon
  <2>3. DOMAIN d.accounts = {} /\ Unbound(d.owner)
    BY <1>5, <1>7 DEF BindingHolds
  <2>4. Creates(name, k, d, call, after, a, e, v)
    BY <1>4, <2>2, CreatePhase
  <2>5. /\ OnlyAccount(after.accounts, a, e, v) /\ after.owner = d.owner
        /\ BindingHolds(name, k + 1, after.accounts, after.owner)
              => BindOutcome(name, k, d, call)
    BY <2>3, <2>4 DEF Creates
  <2>6. OnlyAccount(after.accounts, a, e, FALSE)
    BY <2>2, <2>5, Zenon
  <2>7. QED
    BY <1>1, <1>7, <2>3, <2>5, <2>6 DEF BindingHolds
<1>8. CASE k = 2
  <2>1. PICK A, op, b, v, status :
            /\ Script(name)[k] = Alone(Ask(op, b, conformanceIdentity), A)
            /\ op = "resolve" /\ status \in A /\ status = "claimed-placeholder"
    BY <1>1, <1>3, <1>8
  <2>2. PICK w \in BOOLEAN : ~w /\ OnlyAccount(d.accounts, a, e, w)
    BY <1>6, <1>8
  <2>3. QED
    BY <1>1, <1>6, <1>8, <2>1, <2>2, ResolvePhase
<1>9. QED
  BY <1>1, <1>3, <1>7, <1>8

\* The last phase of the link race.
LEMMA StoryOfLinkRace ==
    ASSUME NEW name, name = "LinkRace", NEW k, k = 3,
           k \in DOMAIN Script(name),
           NEW d, NEW call, BindScene(name, k, d, call)
    PROVE  BindOutcome(name, k, d, call)
<1>1. PICK after : after = TablesAfter(d, call)
  OBVIOUS
<1>2. PICK A, op, b, i : /\ Script(name)[k] = Alone(Ask(op, b, i), A)
                         /\ "somebody" \in A /\ op = "findByIdentity"
                         /\ i = conformanceIdentity
  <2>1. Script(name) = LinkRace
    BY IdentityScripts
  <2>2. Script(name)[k] = Alone(Ask("findByIdentity", Null,
                                    conformanceIdentity), {"somebody"})
    BY <2>1 DEF LinkRace
  <2>3. QED
    BY <2>2
<1>3. /\ IsAsked(call, Ask(op, b, i), began, clock)
      /\ AnswerOf(d, call) \in A
         /\ BindingHolds(name, k + 1, after.accounts, after.owner)
         => BindOutcome(name, k, d, call)
  BY <1>1, <1>2, BindSceneIs
<1>4. call.op = "findByIdentity" /\ call.identity.key = 0
  BY <1>2, <1>3, AskedAsk, IdentityWords
<1>5. d.owner[0] # Null
  BY DEF BindScene, BindingHolds
<1>6. AnswerOf(d, call) = "somebody"
  BY <1>4, <1>5 DEF AnswerOf
<1>7. k + 1 = 4
  OBVIOUS
<1>8. BindingHolds(name, k + 1, after.accounts, after.owner)
  BY <1>7 DEF BindingHolds
<1>9. QED
  BY <1>2, <1>3, <1>6, <1>8

-----------------------------------------------------------------------------
\* Where phase k of the claim race is, in round m.
ClaimPlace(k, m) ==
    /\ m = RoundAt(3, k) /\ m \in Nat /\ m \in Keys /\ m > 0
    /\ PlaceAt(3, k) \in {1, 2, 3}
    /\ PlaceAt(3, k) < 3 => /\ RoundAt(3, k + 1) = m
                            /\ PlaceAt(3, k + 1) = PlaceAt(3, k) + 1
    /\ PlaceAt(3, k) = 3 => /\ RoundAt(3, k + 1) = m + 1
                            /\ PlaceAt(3, k + 1) = 1
    /\ Script("ClaimRace")[k] = ClaimRound(m)[PlaceAt(3, k)]

\* The phases of a claim race's round.
LEMMA ClaimPlaces ==
    ASSUME NEW k \in DOMAIN Script("ClaimRace"), options \in Options
    PROVE  ClaimPlace(k, RoundAt(3, k))
<1>1. PICK n \in {2, 3} : n = 3
  OBVIOUS
<1>2. PICK S : S = Script("ClaimRace")
  OBVIOUS
<1>3. S = [j \in 1 .. 3 * Rounds |-> ClaimRound(RoundAt(3, j))[PlaceAt(3, j)]]
  BY <1>2, IdentityScripts, RoundScripts
<1>4. k \in DOMAIN S
  BY <1>2
<1>5. k \in 1 .. 3 * Rounds
      /\ S[k] = ClaimRound(RoundAt(3, k))[PlaceAt(3, k)]
  BY <1>3, <1>4
<1>6. Rounds \in Nat /\ Rounds <= MaxRounds
  BY OptionsTyped
<1>7. /\ RoundAt(n, k) \in 1 .. Rounds
      /\ PlaceAt(n, k) \in 1 .. n
      /\ PlaceAt(n, k) < n => /\ RoundAt(n, k + 1) = RoundAt(n, k)
                              /\ PlaceAt(n, k + 1) = PlaceAt(n, k) + 1
      /\ PlaceAt(n, k) = n => /\ RoundAt(n, k + 1) = RoundAt(n, k) + 1
                              /\ PlaceAt(n, k + 1) = 1
  BY <1>1, <1>5, <1>6, RoundArithmetic
<1>8. RoundAt(3, k) \in Keys
  BY <1>1, <1>6, <1>7, SuiteAssumption DEF Keys
<1>9. QED
  BY <1>1, <1>2, <1>5, <1>6, <1>7, <1>8 DEF ClaimPlace

\* ClaimRace, but for the race: each round makes its account, and finds it
\* claimed.
LEMMA StoryOfClaimRace ==
    ASSUME NEW name, name = "ClaimRace", NEW k \in DOMAIN Script(name),
           PlaceAt(3, k) \in {1, 3},
           NEW d, NEW call, BindScene(name, k, d, call)
    PROVE  BindOutcome(name, k, d, call)
<1>1. PICK m, a, after : /\ m = RoundAt(3, k) /\ a = Claimed(m)
                         /\ after = TablesAfter(d, call)
  OBVIOUS
<1>2. ClaimPlace(k, m)
  BY <1>1, ClaimPlaces DEF BindScene, Basics
<1>3. ClaimsHold(k, d.accounts, d.owner)
  BY DEF BindScene, BindingHolds
<1>4. ClaimsHold(k + 1, after.accounts, after.owner)
      => BindingHolds(name, k + 1, after.accounts, after.owner)
  BY DEF BindingHolds
<1>5. CASE PlaceAt(3, k) = 1
  <2>1. PICK first : first = Alone(CreateAccount(a, a, FALSE), {"done"})
    OBVIOUS
  <2>2. Script(name)[k] = first
    <3>1. ClaimRound(m)[1] = first
      BY <1>1, <2>1, Zenon DEF ClaimRound, Claimed
    <3>2. Script(name)[k] = ClaimRound(m)[1]
      BY <1>2, <1>5 DEF ClaimPlace
    <3>3. QED
      BY <3>1, <3>2
  <2>3. PICK A, v : /\ Script(name)[k] = Alone(CreateAccount(a, a, v), A)
                    /\ "done" \in A /\ v = FALSE
    BY <2>1, <2>2, Zenon
  <2>4. Creates(name, k, d, call, after, a, a, v)
    BY <1>1, <2>3, CreatePhase
  <2>5. /\ a \in DOMAIN after.accounts
        /\ after.accounts[a] = [email |-> a, disabled |-> FALSE,
                                hasCredentials |-> v, emailVerified |-> v]
        /\ after.owner = d.owner
        /\ BindingHolds(name, k + 1, after.accounts, after.owner)
              => BindOutcome(name, k, d, call)
    BY <2>4 DEF Creates
  <2>6. after.accounts[a] = [email |-> a, disabled |-> FALSE,
                             hasCredentials |-> FALSE, emailVerified |-> FALSE]
    BY <2>3, <2>5, Zenon
  <2>7. BoundBefore(after.owner, m)
    BY <1>1, <1>3, <1>5, <2>5 DEF ClaimsHold
  <2>8. RoundAt(3, k + 1) = m /\ PlaceAt(3, k + 1) = 2
    BY <1>2, <1>5 DEF ClaimPlace
  <2>9. ClaimsHold(k + 1, after.accounts, after.owner)
    <3>1. PICK accounts, owner : accounts = after.accounts /\ owner = after.owner
      OBVIOUS
    <3>2. /\ Claimed(m) \in DOMAIN accounts /\ BoundBefore(owner, m)
          /\ accounts[Claimed(m)] = [email |-> Claimed(m), disabled |-> FALSE,
                             hasCredentials |-> FALSE, emailVerified |-> FALSE]
      BY <1>1, <2>5, <2>6, <2>7, <3>1, Zenon
    <3>3. PlaceAt(3, k + 1) # 3
      BY <2>8
    <3>4. ClaimsHold(k + 1, accounts, owner)
      BY <2>8, <3>2, <3>3, Zenon DEF ClaimsHold
    <3>5. QED
      BY <3>1, <3>4
  <2>10. QED
    BY <1>4, <2>5, <2>9
<1>6. CASE PlaceAt(3, k) = 3
  <2>1. PICK A, op, i : /\ Script(name)[k] = Alone(Ask(op, a, i), A)
                        /\ "verified" \in A /\ op = "findById"
    <3>1. Script(name)[k] = Alone(Ask("findById", a, ClaimIdentity(m)),
                                  {"verified"})
      BY <1>1, <1>2, <1>6 DEF ClaimPlace, ClaimRound, Claimed
    <3>2. QED
      BY <3>1
  <2>2. /\ IsAsked(call, Ask(op, a, i), began, clock)
        /\ AnswerOf(d, call) \in A
           /\ BindingHolds(name, k + 1, after.accounts, after.owner)
           => BindOutcome(name, k, d, call)
    BY <1>1, <2>1, BindSceneIs
  <2>3. call.op = "findById" /\ call.account = a
    BY <2>1, <2>2, AskedAsk
  <2>4. BoundBefore(d.owner, m + 1) /\ d.accounts[a].emailVerified
    BY <1>1, <1>3, <1>6 DEF ClaimsHold
  <2>5. AnswerOf(d, call) = "verified" /\ after = d
    BY <1>1, <2>3, <2>4 DEF AnswerOf, TablesAfter
  <2>6. RoundAt(3, k + 1) = m + 1 /\ PlaceAt(3, k + 1) = 1
    BY <1>2, <1>6 DEF ClaimPlace
  <2>7. ClaimsHold(k + 1, after.accounts, after.owner)
    BY <2>4, <2>5, <2>6 DEF ClaimsHold
  <2>8. QED
    BY <1>4, <2>1, <2>2, <2>5, <2>7
<1>7. QED
  BY <1>5, <1>6

\* What the phases of RevokeAllKills leave.
AllKilled(k, rows) ==
    LET issued == NameOf(run, 0, "issued")
        other == NameOf(run, 0, "other")
        third == NameOf(run, 0, "third")
    IN  /\ k \in 2 .. 4 =>
            /\ LiveRow(rows, issued, issued, began + Ttl)
            /\ rows[issued].userId = user1
        /\ k \in 3 .. 4 =>
            /\ LiveRow(rows, other, other, began + Ttl)
            /\ rows[other].userId = user1
        /\ k = 4 => rows[third].userId = user2
        /\ k = 5 => KilledRow(rows, issued) /\ rows[issued].familyId = issued
        /\ k \in 5 .. 6 => KilledRow(rows, other) /\ rows[other].familyId = other
        /\ k \in 4 .. 7 => LiveRow(rows, third, third, began + Ttl)

\* SessionHolds of RevokeAllKills, written out.
LEMMA AllKilledIs ==
    ASSUME NEW k, NEW rows, NEW n
    PROVE  SessionHolds("RevokeAllKills", k, rows, run, began, n)
                <=> AllKilled(k, rows)
<1>1. PICK name : name = "RevokeAllKills"
  OBVIOUS
<1>2. name \notin {"StoresTheHash", "ExpiredIsInvalid", "RotateRace",
                   "ReplayOutsideWindow", "DefaultIsBenign", "BenignRace",
                   "DefaultIsInclusive", "DefaultEnds", "RevokeFamilyKills",
                   "DefectA"}
  BY <1>1
<1>3. SessionHolds(name, k, rows, run, began, n) <=> AllKilled(k, rows)
  BY <1>1, <1>2, Zenon DEF SessionHolds, AllKilled
<1>4. QED
  BY <1>1, <1>3

\* RevokeAllKills: every login of one user, and none of another.
LEMMA StoryOfRevokeAllKills ==
    ASSUME NEW name, name = "RevokeAllKills", NEW k \in DOMAIN Script(name),
           NEW d, NEW call, NEW n, Scene(name, k, d, call, n)
    PROVE  Outcome(name, k, d, call)
<1>1. PICK T : T = Script(name)
  OBVIOUS
<1>2. PICK all : all = [op |-> "revokeAllForUser", user |-> user1]
  OBVIOUS
<1>3. T = <<Alone(LoginAs("issued", user1), {"done"}),
            Alone(LoginAs("other", user1), {"done"}),
            Alone(LoginAs("third", user2), {"done"}),
            Alone(all, {"done"}),
            Alone(Refresh("issued", "r1"), {"reuse"}),
            Alone(Refresh("other", "r2"), {"reuse"}),
            Alone(Refresh("third", "r3"), Rotated)>>
  BY <1>1, <1>2, RefreshScripts DEF RevokeAllKills
<1>4. PICK rows, new, x, y, z :
            /\ rows = d.sessions
            /\ new = TablesAfter(d, call).sessions
            /\ x = NameOf(run, 0, "issued") /\ y = NameOf(run, 0, "other")
            /\ z = NameOf(run, 0, "third")
  OBVIOUS
<1>5. x # y /\ x # z /\ y # z
  BY <1>4, SessionNames DEF Scene
<1>6. /\ {"issued", "other", "third", "r1", "r2", "r3"} \subseteq Uses
      /\ {user1, user2} \subseteq Users /\ "rotated" \in Rotated
      /\ user1 # user2
  BY ScriptUses DEF Rotated, user1, user2
<1>7. AllKilled(k, rows)
  BY <1>4, AllKilledIs DEF Scene
<1>8. AllKilled(k + 1, new)
      => SessionHolds(name, k + 1, new, run, began, clock)
  BY AllKilledIs
<1>9. CASE k = 1
  <2>1. /\ LiveRow(new, x, x, began + Ttl)
        /\ new[x].userId = user1
        /\ Others(new, d.sessions, {x})
        /\ SessionHolds(name, k + 1, new, run, began, clock)
              => Outcome(name, k, d, call)
    BY <1>1, <1>3, <1>4, <1>9, IssuedPhase
  <2>2. AllKilled(k + 1, new)
    BY <1>4, <1>9, <2>1 DEF AllKilled
  <2>3. QED
    BY <1>8, <2>1, <2>2
<1>10. CASE k = 2 \/ k = 3
  <2>1. PICK u \in Uses, user \in Users, A \in {{"done"}} :
            /\ Script(name)[k] = Alone(LoginAs(u, user), A) /\ "done" \in A
            /\ IF k = 2 THEN u = "other" /\ user = user1
               ELSE u = "third" /\ user = user2
    <3>1. CASE k = 2
      <4>1. Script(name)[k] = Alone(LoginAs("other", user1), {"done"})
        BY <1>1, <1>3, <3>1
      <4>2. QED
        BY <1>6, <3>1, <4>1
    <3>2. CASE k = 3
      <4>1. Script(name)[k] = Alone(LoginAs("third", user2), {"done"})
        BY <1>1, <1>3, <3>2
      <4>2. QED
        BY <1>6, <3>2, <4>1
    <3>3. QED
      BY <1>10, <3>1, <3>2
  <2>2. PICK w : w = NameOf(run, 0, u)
    OBVIOUS
  <2>3. /\ LiveRow(new, w, w, began + Ttl)
        /\ new[w].userId = user
        /\ Others(new, d.sessions, {w})
        /\ SessionHolds(name, k + 1, new, run, began, clock)
              => Outcome(name, k, d, call)
    <3>0. "done" \in A /\ Script(name)[k] = Alone(LoginAs(u, user), A)
      BY <2>1
    <3>3. new = TablesAfter(d, call).sessions
      BY <1>4
    <3>1. /\ LiveRow(new, NameOf(run, 0, u), NameOf(run, 0, u), began + Ttl)
          /\ new[NameOf(run, 0, u)].userId = user
          /\ Others(new, d.sessions, {NameOf(run, 0, u)})
          /\ SessionHolds(name, k + 1, new, run, began, clock)
              => Outcome(name, k, d, call)
      BY <3>0, <3>3, LoginPhase
    <3>2. QED
      BY <2>2, <3>1
  <2>4. IF k = 2 THEN w = y ELSE w = z
    BY <1>4, <2>1, <2>2
  <2>5. /\ LiveRow(rows, x, x, began + Ttl) /\ rows[x].userId = user1
        /\ k = 3 => /\ LiveRow(rows, y, y, began + Ttl)
                    /\ rows[y].userId = user1
    BY <1>4, <1>7, <1>10 DEF AllKilled
  <2>6. \A v \in {x, y} : v # w /\ v \in DOMAIN rows =>
            /\ new[v].userId = rows[v].userId
            /\ LiveRow(rows, v, v, began + Ttl)
               => LiveRow(new, v, v, began + Ttl)
    BY <1>4, <2>3 DEF Others, LiveRow
  <2>7. /\ LiveRow(new, x, x, began + Ttl) /\ new[x].userId = user1
        /\ LiveRow(new, y, y, began + Ttl) /\ new[y].userId = user1
        /\ k = 3 => /\ LiveRow(new, z, z, began + Ttl)
                    /\ new[z].userId = user2
    <3>1. x # w /\ x \in DOMAIN rows
      BY <1>5, <2>4, <2>5 DEF LiveRow
    <3>2. k = 3 => y # w /\ y \in DOMAIN rows
      BY <1>5, <2>4, <2>5 DEF LiveRow
    <3>3. k = 2 \/ k = 3
      BY <1>10
    <3>4. QED
      BY <2>1, <2>3, <2>4, <2>5, <2>6, <3>1, <3>2, <3>3
  <2>8. AllKilled(k + 1, new)
    BY <1>4, <1>10, <2>7 DEF AllKilled
  <2>9. QED
    BY <1>8, <2>3, <2>8
<1>11. CASE k = 4
  <2>1. PICK A : Script(name)[k] = Alone(all, A) /\ "done" \in A
    BY <1>1, <1>3, <1>11
  <2>2. /\ IsAsked(call, all, began, clock) /\ Basics /\ TypedDb(d)
        /\ /\ AnswerOf(d, call) \in A
           /\ SessionHolds(name, k + 1, new, run, began, clock)
           => Outcome(name, k, d, call)
    BY <1>4, <2>1, SceneIs
  <2>3. call.op = "revokeAllForUser" /\ call.user = user1
        /\ "op" \in DOMAIN call
    BY <1>2, <2>2 DEF IsAsked
  <2>4. PICK U : U = Sessions!UserRows(rows, user1)
    OBVIOUS
  <2>5. AnswerOf(d, call) = "done" /\ Revoked(new, rows, U)
    BY <1>4, <2>2, <2>3, <2>4, KillActs
  <2>6. /\ LiveRow(rows, x, x, began + Ttl) /\ rows[x].userId = user1
        /\ LiveRow(rows, y, y, began + Ttl) /\ rows[y].userId = user1
        /\ LiveRow(rows, z, z, began + Ttl) /\ rows[z].userId = user2
    BY <1>4, <1>7, <1>11 DEF AllKilled
  <2>7. x \in U /\ y \in U /\ z \notin U
    BY <1>6, <2>4, <2>6 DEF LiveRow, Sessions!UserRows
  <2>8. \A w \in {x, y} : KilledRow(new, w) /\ new[w].familyId = w
    BY <2>5, <2>6, <2>7, KillTurn DEF LiveRow
  <2>9. LiveRow(new, z, z, began + Ttl)
    BY <2>5, <2>6, <2>7, KillTurn, RowsStay
  <2>10. AllKilled(k + 1, new)
    BY <1>4, <1>11, <2>8, <2>9 DEF AllKilled
  <2>11. QED
    BY <1>8, <2>1, <2>2, <2>5, <2>10
<1>12. CASE k = 5 \/ k = 6
  <2>1. PICK u \in Uses, v \in Uses, A \in {{"reuse"}} :
            /\ Script(name)[k] = Alone(Refresh(u, v), A) /\ "reuse" \in A
            /\ u # v /\ IF k = 5 THEN u = "issued" ELSE u = "other"
    <3>1. CASE k = 5
      <4>1. Script(name)[k] = Alone(Refresh("issued", "r1"), {"reuse"})
        BY <1>1, <1>3, <3>1
      <4>2. QED
        BY <1>6, <3>1, <4>1
    <3>2. CASE k = 6
      <4>1. Script(name)[k] = Alone(Refresh("other", "r2"), {"reuse"})
        BY <1>1, <1>3, <3>2
      <4>2. QED
        BY <1>6, <3>2, <4>1
    <3>3. QED
      BY <1>12, <3>1, <3>2
  <2>2. PICK w : w = NameOf(run, 0, u)
    OBVIOUS
  <2>3. IF k = 5 THEN w = x ELSE w = y
    BY <1>4, <2>1, <2>2
  <2>4. /\ KilledRow(rows, w) /\ rows[w].familyId = w
        /\ KilledRow(rows, y) /\ rows[y].familyId = y
        /\ LiveRow(rows, z, z, began + Ttl) /\ w # z
    <3>1. k = 5 => KilledRow(rows, x) /\ rows[x].familyId = x
      BY <1>4, <1>7 DEF AllKilled
    <3>2. KilledRow(rows, y) /\ rows[y].familyId = y
          /\ LiveRow(rows, z, z, began + Ttl)
      BY <1>4, <1>7, <1>12 DEF AllKilled
    <3>3. QED
      BY <1>5, <2>3, <3>1, <3>2
  <2>5. Kills(name, k, d, call, new, w)
    BY <1>4, <2>1, <2>2, <2>4, DeadPhase
  <2>6. /\ KilledRow(new, y) /\ new[y].familyId = y
        /\ Others(new, rows, Sessions!FamilyRows(rows, w))
        /\ SessionHolds(name, k + 1, new, run, began, clock)
              => Outcome(name, k, d, call)
    BY <1>4, <2>4, <2>5, KillsDo DEF KilledRow, RevokedRow
  <2>7. z \notin Sessions!FamilyRows(rows, w)
    BY <2>4 DEF LiveRow, Sessions!FamilyRows
  <2>8. LiveRow(new, z, z, began + Ttl)
    BY <2>4, <2>6, <2>7, RowsStay
  <2>9. AllKilled(k + 1, new)
    BY <1>4, <1>12, <2>6, <2>8 DEF AllKilled
  <2>10. QED
    BY <1>8, <2>6, <2>9
<1>13. CASE k = 7
  <2>1. PICK u \in Uses, v \in Uses : u = "third" /\ v = "r3"
    BY <1>6
  <2>2. /\ Script(name)[k] = Alone(Refresh(u, v), Rotated) /\ u # v
        /\ z = NameOf(run, 0, u)
    BY <1>1, <1>3, <1>4, <1>13, <2>1
  <2>3. LiveRow(d.sessions, z, z, began + Ttl)
    BY <1>4, <1>7, <1>13 DEF AllKilled
  <2>4. Swaps(name, k, d, call, new, z, NameOf(run, 0, v), z)
    BY <1>4, <1>6, <2>2, <2>3, RefreshPhase
  <2>5. AllKilled(k + 1, new)
    BY <1>13 DEF AllKilled
  <2>6. QED
    BY <1>8, <2>4, <2>5 DEF Swaps
<1>14. QED
  BY <1>1, <1>3, <1>9, <1>10, <1>11, <1>12, <1>13

=============================================================================
