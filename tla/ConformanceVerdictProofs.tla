---------------------- MODULE ConformanceVerdictProofs ----------------------
(***************************************************************************)
(* Why a suite gives the verdict it gives: a test fails only where a call  *)
(* won that should have lost, and one whose call so won fails.             *)
(***************************************************************************)
EXTENDS ConformanceScriptProofs

\* Every phase of one call of the refresh suite.
LEMMA RefreshSolo ==
    ASSUME NEW name \in RefreshTests, NEW k \in DOMAIN Script(name),
           IsSolo(name, k), NEW d, NEW call, NEW n, Scene(name, k, d, call, n),
           NamedUpTo(d, run)
    PROVE  Outcome(name, k, d, call)
<1>1. CASE name = "RotateRace"
  <2>1. Script(name) = RotateRace
    BY <1>1, RefreshScripts
  <2>2. DOMAIN Script(name) = {1, 2}
    BY <2>1 DEF RotateRace
  <2>3. k = 1
    BY <1>1, <2>2 DEF IsSolo, IsRace
  <2>4. Script(name)[k] = Alone(LoginAs("issued", user1), {"done"})
    BY <2>1, <2>3 DEF RotateRace
  <2>5. QED
    BY <1>1, <2>3, <2>4, Opening
<1>2. CASE name = "DefectA"
  BY <1>2, StoryOfDefectA DEF IsSolo, IsDefect
<1>3. CASE name \in {"StoresTheHash", "UnknownIsInvalid", "ExpiredIsInvalid",
                     "ReplayOutsideWindow", "DefaultIsBenign"}
  BY <1>3, StoryOfStoresTheHash, StoryOfUnknownIsInvalid,
     StoryOfExpiredIsInvalid, StoryOfReplayOutsideWindow, StoryOfDefaultIsBenign
<1>4. CASE name \in {"DefaultIsInclusive", "DefaultEnds", "BenignRace",
                     "RevokeFamilyKills", "RevokeAllKills", "BumpsAdvance"}
  BY <1>4, StoryOfWindowsEnd, StoryOfBenignRace, StoryOfRevokeFamilyKills,
     StoryOfRevokeAllKills, StoryOfBumpsAdvance
<1>5. QED
  BY <1>1, <1>2, <1>3, <1>4 DEF RefreshTests

\* The phases of the tests that are played in rounds.
LEMMA PlacesIn ==
    ASSUME NEW name, NEW w, NEW k \in DOMAIN Script(name), options \in Options,
           \/ name = "ConsumeRace" /\ w = 2
           \/ name \in {"ConsumeInvalidateSmoke", "ClaimRace"} /\ w = 3
    PROVE  /\ PlaceAt(w, k) \in 1 .. w
           /\ RoundAt(w, k) \in 1 .. Rounds /\ Rounds \in 0 .. MaxRounds
           /\ MaxRounds \in Nat
           /\ k \in 1 .. w * Rounds
           /\ PlaceAt(w, k) < w =>
                /\ k + 1 \in DOMAIN Script(name)
                /\ RoundAt(w, k + 1) = RoundAt(w, k)
                /\ PlaceAt(w, k + 1) = PlaceAt(w, k) + 1
           /\ PlaceAt(w, k) = w =>
                /\ RoundAt(w, k + 1) = RoundAt(w, k) + 1
                /\ PlaceAt(w, k + 1) = 1
<1>1. DOMAIN Script(name) = 1 .. w * Rounds
  BY RoundScripts, SingleUseScripts, IdentityScripts
<1>2. Rounds \in Nat /\ w \in {2, 3}
  BY OptionsTyped, SuiteAssumption
<1>3. PICK m \in Nat, n \in {2, 3} : m = Rounds /\ n = w
  BY <1>2
<1>4. k \in 1 .. n * m
  BY <1>1, <1>3
<1>5. /\ RoundAt(n, k) \in 1 .. m
      /\ PlaceAt(n, k) \in 1 .. n
      /\ PlaceAt(n, k) < n =>
            /\ RoundAt(n, k + 1) = RoundAt(n, k)
            /\ PlaceAt(n, k + 1) = PlaceAt(n, k) + 1
            /\ k + 1 \in 1 .. n * m
      /\ PlaceAt(n, k) = n =>
            /\ RoundAt(n, k + 1) = RoundAt(n, k) + 1
            /\ PlaceAt(n, k + 1) = 1
  BY <1>4, RoundArithmetic
<1>6. QED
  BY <1>1, <1>3, <1>4, <1>5, OptionsTyped

\* Every phase of one call of the single-use suite.
LEMMA TokenSolo ==
    ASSUME NEW name \in SingleUseTests, NEW k \in DOMAIN Script(name),
           IsSolo(name, k), NEW d, NEW call, TokenScene(name, k, d, call),
           NamedUpTo(d, run), options \in Options
    PROVE  TokenOutcome(name, k, d, call)
<1>1. CASE name = "IssueRace"
  <2>1. DOMAIN Script(name) = {1}
    BY <1>1, SingleUseScripts, TokenRacePhases
  <2>2. QED
    BY <1>1, <2>1 DEF IsSolo, IsRace
<1>2. CASE name = "ConsumeRace"
  <2>1. PlaceAt(2, k) = 1
    BY <1>2, PlacesIn DEF IsSolo, IsRace
  <2>2. QED
    BY <1>2, <2>1, StoryOfRounds
<1>3. CASE name = "ConsumeInvalidateSmoke"
  <2>3. PlaceAt(3, k) \in 1 .. 3 /\ PlaceAt(3, k) # 2
    BY <1>3, PlacesIn DEF IsSolo, IsSmoke
  <2>1. PlaceAt(3, k) \in {1, 3}
    BY <2>3
  <2>2. QED
    BY <1>3, <2>1, StoryOfRounds
<1>4. CASE name \in {"HappyPath", "UnknownTokenIsInvalid", "ReplayIsConsumed",
                     "InvalidatedThenConsumed", "ExpiredStaysExpired"}
  BY <1>4, StoryOfHappyPath, StoryOfUnknownToken, StoryOfInvalidated,
     StoryOfExpiry
<1>5. CASE name \in {"ExpiryIsInclusive", "PurposeIsolation",
                     "InvalidationIsExact", "DuplicateRejected"}
  BY <1>5, StoryOfExpiry, StoryOfPurposeIsolation, StoryOfInvalidationIsExact,
     StoryOfDuplicateRejected
<1>6. QED
  BY <1>1, <1>2, <1>3, <1>4, <1>5 DEF SingleUseTests

\* Every phase of one call of the identity suite.
LEMMA BindingSolo ==
    ASSUME NEW name \in IdentityTests, NEW k \in DOMAIN Script(name),
           IsSolo(name, k), NEW d, NEW call, BindScene(name, k, d, call),
           options \in Options
    PROVE  BindOutcome(name, k, d, call)
<1>1. CASE name = "LinkRace"
  <2>1. DOMAIN Script(name) = {1, 2, 3}
    BY <1>1, IdentityScripts DEF LinkRace
  <2>2. k = 3
    BY <1>1, <2>1 DEF IsSolo, IsRace, IsMaking
  <2>3. QED
    BY <1>1, <2>2, StoryOfLinkRace
<1>2. CASE name = "ClaimRace"
  <2>3. PlaceAt(3, k) \in 1 .. 3 /\ PlaceAt(3, k) # 2
    BY <1>2, PlacesIn DEF IsSolo, IsRace
  <2>1. PlaceAt(3, k) \in {1, 3}
    BY <2>3
  <2>2. QED
    BY <1>2, <2>1, StoryOfClaimRace
<1>3. QED
  BY <1>1, <1>2, StoryOfReturningByKey, StoryOfNeverAdopts,
     StoryOfClaimsPlaceholder DEF IdentityTests

\* The suites share no test.
LEMMA TestsApart ==
    ASSUME NEW name
    PROVE  /\ name \in RefreshTests =>
                name \notin SingleUseTests /\ name \notin IdentityTests
           /\ name \in SingleUseTests => name \notin IdentityTests
           /\ name \in Tests <=> \/ name \in RefreshTests
                                 \/ name \in SingleUseTests
                                 \/ name \in IdentityTests
  BY DEF RefreshTests, SingleUseTests, IdentityTests, Tests

\* What a phase of one call does to the tables it finds.
LEMMA SoloStory ==
    ASSUME NEW name \in Tests, NEW k \in DOMAIN Script(name), IsSolo(name, k),
           Basics, NEW d, TypedDb(d), NamedUpTo(d, run), NEW call, NEW n,
           IsAsked(call, Script(name)[k].calls[1], began, clock),
           /\ "now" \in DOMAIN Script(name)[k].calls[1]
           /\ Script(name)[k].calls[1].now = Now
           => n = call.now,
           Holds(name, k, d, run, began, n)
    PROVE  /\ <<AnswerOf(d, call)>> \in Script(name)[k].expected
           /\ Holds(name, k + 1, TablesAfter(d, call), run, began, clock)
<1>0. options \in Options
  BY DEF Basics
<1>1. CASE name \in RefreshTests
  <2>1. SessionHolds(name, k, d.sessions, run, began, n)
    BY <1>1 DEF Holds
  <2>2. Scene(name, k, d, call, n)
    BY <2>1 DEF Scene
  <2>3. Outcome(name, k, d, call)
    BY <1>1, <2>2, RefreshSolo
  <2>4. QED
    BY <1>1, <2>3, TestsApart DEF Outcome, Holds
<1>2. CASE name \in SingleUseTests
  <2>1. TokenHolds(name, k, d.tokens, run, began)
    BY <1>2 DEF Holds
  <2>2. TokenScene(name, k, d, call)
    BY <2>1 DEF TokenScene
  <2>3. TokenOutcome(name, k, d, call)
    BY <1>0, <1>2, <2>2, TokenSolo
  <2>4. QED
    BY <1>2, <2>3, TestsApart DEF TokenOutcome, Holds
<1>3. CASE name \in IdentityTests
  <2>1. BindingHolds(name, k, d.accounts, d.owner)
    BY <1>3 DEF Holds
  <2>2. BindScene(name, k, d, call)
    BY <2>1 DEF BindScene
  <2>3. BindOutcome(name, k, d, call)
    BY <1>0, <1>3, <2>2, BindingSolo
  <2>4. QED
    BY <1>3, <2>3, TestsApart DEF BindOutcome, Holds
<1>4. QED
  BY <1>1, <1>2, <1>3, TestsApart

IsAlone(p) == \E c, A : p = Alone(c, A)

AllAlone(s) == \A k \in DOMAIN s : IsAlone(s[k])

\* A script written out has one call a phase if its phases do.
LEMMA TuplesAlone ==
    ASSUME NEW p1, NEW p2, NEW p3, NEW p4, NEW p5, NEW p6, NEW p7, NEW p8,
           IsAlone(p1)
    PROVE  /\ AllAlone(<<p1>>)
           /\ IsAlone(p2) =>
                /\ AllAlone(<<p1, p2>>)
                /\ IsAlone(p3) =>
                    /\ AllAlone(<<p1, p2, p3>>)
                    /\ IsAlone(p4) /\ IsAlone(p5) =>
                        /\ AllAlone(<<p1, p2, p3, p4, p5>>)
                        /\ IsAlone(p6) /\ IsAlone(p7) =>
                            /\ AllAlone(<<p1, p2, p3, p4, p5, p6, p7>>)
                            /\ IsAlone(p8) =>
                                AllAlone(<<p1, p2, p3, p4, p5, p6, p7, p8>>)
           /\ IsAlone(p2) /\ IsAlone(p3) /\ IsAlone(p4) =>
                AllAlone(<<p1, p2, p3, p4>>)
  BY DEF AllAlone

\* By definition.
LEMMA AloneKnown ==
    ASSUME NEW c, NEW A
    PROVE  IsAlone(Alone(c, A))
  BY Zenon DEF IsAlone

\* The phases of one call, in the refresh suite.
LEMMA RefreshAlone ==
    ASSUME NEW name \in RefreshTests, NEW k \in DOMAIN Script(name),
           IsSolo(name, k)
    PROVE  IsAlone(Script(name)[k])
<1> USE AloneKnown, TuplesAlone
<1>1. AllAlone(StoresTheHash) /\ AllAlone(UnknownIsInvalid)
  BY DEF StoresTheHash, UnknownIsInvalid
<1>2. AllAlone(ExpiredIsInvalid) /\ AllAlone(ReplayOutsideWindow)
  BY DEF ExpiredIsInvalid, ReplayOutsideWindow
<1>3. AllAlone(DefaultIsBenign) /\ AllAlone(DefaultIsInclusive)
      /\ AllAlone(DefaultEnds)
  BY DEF DefaultIsBenign, DefaultIsInclusive, DefaultEnds, ReplayAfter
<1>4. AllAlone(BenignRace) /\ AllAlone(RevokeFamilyKills)
  BY DEF BenignRace, RevokeFamilyKills
<1>5. AllAlone(RevokeAllKills) /\ AllAlone(BumpsAdvance)
  BY DEF RevokeAllKills, BumpsAdvance
<1>6. CASE name = "RotateRace"
  <2>1. Script(name) = RotateRace /\ DOMAIN RotateRace = {1, 2}
        /\ IsAlone(RotateRace[1])
    BY <1>6, RefreshScripts DEF RotateRace
  <2>2. QED
    BY <1>6, <2>1 DEF IsSolo, IsRace
<1>7. CASE name = "DefectA"
  <2>1. Script(name) = DefectA /\ DOMAIN DefectA = {1, 2, 3, 4}
    BY <1>7, RefreshScripts DEF DefectA
  <2>2. IsAlone(DefectA[1]) /\ IsAlone(DefectA[2]) /\ IsAlone(DefectA[4])
    BY DEF DefectA
  <2>3. QED
    BY <1>7, <2>1, <2>2 DEF IsSolo, IsDefect
<1>8. QED
  BY <1>1, <1>2, <1>3, <1>4, <1>5, <1>6, <1>7, RefreshScripts
     DEF AllAlone, RefreshTests

\* The same, in the single-use suite.
LEMMA TokensAlone ==
    ASSUME NEW name \in SingleUseTests, NEW k \in DOMAIN Script(name),
           IsSolo(name, k), options \in Options
    PROVE  IsAlone(Script(name)[k])
<1> USE AloneKnown, TuplesAlone
<1>1. AllAlone(HappyPath) /\ AllAlone(UnknownTokenIsInvalid)
  BY DEF HappyPath, UnknownTokenIsInvalid
<1>2. AllAlone(ReplayIsConsumed) /\ AllAlone(InvalidatedThenConsumed)
  BY DEF ReplayIsConsumed, InvalidatedThenConsumed
<1>3. AllAlone(ExpiredStaysExpired) /\ AllAlone(ExpiryIsInclusive)
  BY DEF ExpiredStaysExpired, ExpiryIsInclusive, IssuedAtTheStart, ExpiredAt
<1>4. AllAlone(PurposeIsolation) /\ AllAlone(InvalidationIsExact)
  BY DEF PurposeIsolation, InvalidationIsExact
<1>5. AllAlone(DuplicateRejected)
  BY DEF DuplicateRejected
<1>6. CASE name = "IssueRace"
  <2>1. DOMAIN Script(name) = {1}
    BY <1>6, SingleUseScripts, TokenRacePhases
  <2>2. QED
    BY <1>6, <2>1 DEF IsSolo, IsRace
<1>7. CASE name = "ConsumeRace"
  <2>1. PlaceAt(2, k) = 1
    BY <1>7, PlacesIn DEF IsSolo, IsRace
  <2>2. k \in 1 .. 2 * Rounds
    BY <1>7, PlacesIn
  <2>3. Script(name)[k] = ConsumeRound(RoundAt(2, k))[1]
    BY <1>7, <2>1, <2>2, SingleUseScripts, RoundScripts
  <2>4. IsAlone(ConsumeRound(RoundAt(2, k))[1])
    BY DEF ConsumeRound
  <2>5. QED
    BY <2>3, <2>4
<1>8. CASE name = "ConsumeInvalidateSmoke"
  <2>1. PlaceAt(3, k) \in 1 .. 3 /\ PlaceAt(3, k) # 2
    BY <1>8, PlacesIn DEF IsSolo, IsSmoke
  <2>2. k \in 1 .. 3 * Rounds
    BY <1>8, PlacesIn
  <2>3. Script(name)[k] = SmokeRound(RoundAt(3, k))[PlaceAt(3, k)]
    BY <1>8, <2>2, SingleUseScripts, RoundScripts
  <2>4. IsAlone(SmokeRound(RoundAt(3, k))[1]) /\ IsAlone(SmokeRound(RoundAt(3, k))[3])
    BY DEF SmokeRound
  <2>5. QED
    BY <2>1, <2>3, <2>4
<1>9. QED
  BY <1>1, <1>2, <1>3, <1>4, <1>5, <1>6, <1>7, <1>8, SingleUseScripts
     DEF AllAlone, SingleUseTests

\* The same, in the identity suite.
LEMMA BindingsAlone ==
    ASSUME NEW name \in IdentityTests, NEW k \in DOMAIN Script(name),
           IsSolo(name, k), options \in Options
    PROVE  IsAlone(Script(name)[k])
<1> USE AloneKnown, TuplesAlone
<1>1. AllAlone(ReturningByKey)
  <2>1. PICK a, c : a = <<"returning", 0>> /\ c = CreateAccount(a, a, TRUE)
    BY Zenon
  <2>2. ReturningByKey = <<Alone(c, {"done"}),
            Alone(Ask("bind", a, conformanceIdentity), {"linked"}),
            Alone(Ask("resolve", Null, [conformanceIdentity EXCEPT
                                            !.email = <<"changed", 0>>]),
                  {"returning"})>>
    BY <2>1 DEF ReturningByKey
  <2>3. QED
    BY <2>2
<1>2. AllAlone(NeverAdopts)
  <2>1. PICK c : c = CreateAccount(<<"credentialed", 0>>,
                                   conformanceIdentity.email, TRUE)
    BY Zenon
  <2>2. NeverAdopts = <<Alone(c, {"done"}),
          Alone(Ask("resolve", Null, conformanceIdentity), {"account-exists"}),
          Alone(Ask("findByIdentity", Null, conformanceIdentity), {"nobody"})>>
    BY <2>1 DEF NeverAdopts
  <2>3. QED
    BY <2>2
<1>3. AllAlone(ClaimsPlaceholder)
  <2>1. PICK c : c = CreateAccount(<<"placeholder", 0>>,
                                   conformanceIdentity.email, FALSE)
    BY Zenon
  <2>2. ClaimsPlaceholder = <<Alone(c, {"done"}),
          Alone(Ask("resolve", Null, conformanceIdentity),
                {"claimed-placeholder"})>>
    BY <2>1 DEF ClaimsPlaceholder
  <2>3. QED
    BY <2>2
<1>4. CASE name = "LinkRace"
  <2>1. Script(name) = LinkRace /\ DOMAIN LinkRace = {1, 2, 3}
        /\ IsAlone(LinkRace[3])
    BY <1>4, IdentityScripts DEF LinkRace
  <2>2. QED
    BY <1>4, <2>1 DEF IsSolo, IsRace, IsMaking
<1>5. CASE name = "ClaimRace"
  <2>1. PlaceAt(3, k) \in 1 .. 3 /\ PlaceAt(3, k) # 2
    BY <1>5, PlacesIn DEF IsSolo, IsRace
  <2>2. k \in 1 .. 3 * Rounds
    BY <1>5, PlacesIn
  <2>3. Script(name)[k] = ClaimRound(RoundAt(3, k))[PlaceAt(3, k)]
    BY <1>5, <2>2, IdentityScripts, RoundScripts
  <2>4. PICK a, c : /\ a = <<"claim-race", RoundAt(3, k)>>
                    /\ c = CreateAccount(a, a, FALSE)
    BY Zenon
  <2>5. /\ ClaimRound(RoundAt(3, k))[1] = Alone(c, {"done"})
        /\ ClaimRound(RoundAt(3, k))[3] =
                Alone(Ask("findById", a, ClaimIdentity(RoundAt(3, k))),
                      {"verified"})
    BY <2>4 DEF ClaimRound
  <2>6. QED
    BY <2>1, <2>3, <2>5
<1>6. QED
  BY <1>1, <1>2, <1>3, <1>4, <1>5, IdentityScripts DEF AllAlone, IdentityTests

\* A phase that is none of the others makes one call.
LEMMA SoloAlone ==
    ASSUME NEW name \in Tests, NEW k \in DOMAIN Script(name), IsSolo(name, k),
           options \in Options
    PROVE  IsAlone(Script(name)[k])
  BY RefreshAlone, TokensAlone, BindingsAlone, TestsApart

\* The first call of a race wins it, and leaves what the next phase finds.
RaceWon(name, k, d, call) ==
    /\ AnswerOf(d, call) = WinOf(name)
    /\ Holds(name, k + 1, TablesAfter(d, call), run, began, clock)

\* A later one loses, and changes nothing, or revokes rows of the family that
\* is revoked.
RaceLost(name, d, call) ==
    /\ AnswerOf(d, call) \in LosesOf(name)
    /\ \/ TablesAfter(d, call) = d
       \/ /\ name = "RotateRace"
          /\ RevokedRow(TablesAfter(d, call).sessions,
                        NameOf(run, 0, "issued"))

RaceScene(name, k, d, call, i) ==
    /\ Basics /\ TypedDb(d)
    /\ IsAsked(call, Script(name)[k].calls[i], began, clock)

\* Rotations of one token: the first wins, the rest are reuses.
LEMMA RotateRaceTurns ==
    ASSUME NEW name, name = "RotateRace", NEW k, k = 2, NEW d, NEW call, NEW i,
           i \in DOMAIN Script(name)[k].calls, RaceScene(name, k, d, call, i)
    PROVE  /\ \A n : Holds(name, k, d, run, began, n)
                        => RaceWon(name, k, d, call)
           /\ \A n : Holds(name, k + 1, d, run, began, n)
                        => RaceLost(name, d, call)
<1>1. PICK x, z, new, answer :
            /\ x = NameOf(run, 0, "issued") /\ z = NameOf(run, i, "racer")
            /\ new = TablesAfter(d, call).sessions /\ answer = AnswerOf(d, call)
  OBVIOUS
<1>2. Script(name)[k].calls =
            [j \in 1 .. Concurrency |-> Rotate(It("issued"), Racer(j), 0, Now)]
  <2>1. RotateRace[2].calls =
            [j \in 1 .. Concurrency |-> Rotate(It("issued"), Racer(j), 0, Now)]
    BY DEF RotateRace, Together, InParallel
  <2>2. QED
    BY <2>1, RefreshScripts
<1>3. i \in 1 .. Concurrency /\ i \in Nat /\ i # 0
  BY <1>2, OptionsTyped DEF RaceScene, Basics
<1>4. run \in 1 .. MaxRuns
  BY DEF RaceScene, Basics
<1>5. /\ x = It("issued") /\ z = Racer(i) /\ x \in Draws /\ z \in Draws
      /\ x # z /\ z[1] = run
  BY <1>1, <1>3, <1>4, NamesOf, ScriptUses DEF NameOf
<1>6. PICK g \in Nat \cup {Now}, now \in Nat \cup {Now} : g = 0 /\ now = Now
  OBVIOUS
<1>7. IsAsked(call, Rotate(x, z, g, now), began, clock)
  BY <1>2, <1>3, <1>5, <1>6 DEF RaceScene
<1>8. /\ call.op = "rotate" /\ call.old = x /\ call.as = z /\ call.graceMs = g
      /\ call.now \in began .. clock /\ Proper(call, run)
  <2>1. Basics
    BY DEF RaceScene
  <2>2. QED
    BY <1>5, <1>6, <1>7, <2>1, AskedRotate
<1>9. /\ began \in Nat /\ clock \in Nat /\ clock < began + Ttl /\ Ttl \in Nat
      /\ Null \notin Nat
  BY SuiteAssumption, NameAssumption DEF RaceScene, Basics
<1>10. Turn(d, call, answer, new) /\ Basics /\ TypedDb(d)
  BY <1>1 DEF Turn, RaceScene
<1>11. name \in RefreshTests /\ name \notin SingleUseTests
       /\ name \notin IdentityTests
  BY DEF RefreshTests, SingleUseTests, IdentityTests
<1>12. WinOf(name) = "rotated" /\ LosesOf(name) = {"reuse"}
  BY DEF WinOf, LosesOf
<1>13. ASSUME NEW n, Holds(name, k, d, run, began, n)
       PROVE  RaceWon(name, k, d, call)
  <2>1. LiveRow(d.sessions, x, x, began + Ttl)
    BY <1>1, <1>11, <1>13 DEF Holds, SessionHolds
  <2>2. call.now \in Nat /\ call.now >= began /\ call.now < began + Ttl
    BY <1>8, <1>9
  <2>3. answer = "rotated" /\ SwappedRow(new, x, z, x, {call.now})
    BY <1>8, <1>10, <2>1, <2>2, SwapTurn
  <2>4. RevokedRow(new, x)
    BY <1>9, <2>2, <2>3 DEF SwappedRow, RevokedRow
  <2>5. Holds(name, k + 1, TablesAfter(d, call), run, began, clock)
    BY <1>1, <1>11, <2>4 DEF Holds, SessionHolds
  <2>6. QED
    BY <1>1, <1>12, <2>3, <2>5 DEF RaceWon
<1>14. ASSUME NEW n, Holds(name, k + 1, d, run, began, n)
       PROVE  RaceLost(name, d, call)
  <2>1. RevokedRow(d.sessions, x)
    BY <1>1, <1>11, <1>14 DEF Holds, SessionHolds
  <2>2. RotateStatus(d.sessions, call) = "reuse"
    <3>1. ~Sessions!WithinGrace(d.sessions, call.old, call.graceMs, call.now)
      BY <1>6, <1>8 DEF Sessions!WithinGrace
    <3>2. QED
      BY <1>8, <2>1, <3>1, RevokedAnswers
  <2>3. /\ answer = "reuse"
        /\ Revoked(new, d.sessions,
                Sessions!FamilyRows(d.sessions, d.sessions[call.old].familyId))
    BY <1>8, <1>10, <2>2, ReuseTurn
  <2>4. RevokedRow(new, x)
    BY <2>1, <2>3, KillTurn DEF RevokedRow
  <2>5. QED
    BY <1>1, <1>12, <2>3, <2>4 DEF RaceLost
<1>15. QED
  BY <1>13, <1>14

\* Issues of one name: the first wins, the rest are rejected.
LEMMA IssueRaceTurns ==
    ASSUME NEW name, name = "IssueRace", NEW k, k = 1, NEW d, NEW call, NEW i,
           i \in DOMAIN Script(name)[k].calls, RaceScene(name, k, d, call, i)
    PROVE  /\ \A n : Holds(name, k, d, run, began, n)
                        => RaceWon(name, k, d, call)
           /\ \A n : Holds(name, k + 1, d, run, began, n)
                        => RaceLost(name, d, call)
<1>1. PICK x, new, answer :
            /\ x = NameOf(run, 0, "issued")
            /\ new = TablesAfter(d, call).tokens /\ answer = AnswerOf(d, call)
  OBVIOUS
<1>2. Script(name)[k].calls = [j \in 1 .. Concurrency |-> Issue("issued")]
  BY SingleUseScripts, TokenRacePhases DEF RaceScene, Basics
<1>3. Script(name)[k].calls[i] = Issue("issued")
  BY <1>2
<1>4. run \in 1 .. MaxRuns
  BY DEF RaceScene, Basics
<1>5. x = It("issued") /\ x \in Draws /\ x[1] = run
  BY <1>1, <1>4, NamesOf, ScriptUses DEF NameOf
<1>6. PICK p \in Purposes, s \in Users \cup Draws, now \in {0, Now} :
            p = "password-reset" /\ s = user1 /\ now = Now
  BY TokenWords
<1>7. IsAsked(call, IssueTo(x, s, p, now), began, clock)
  BY <1>3, <1>5, <1>6 DEF RaceScene, Issue
<1>8. call.op = "issue" /\ call.as = x /\ Proper(call, run)
  <2>1. Basics
    BY DEF RaceScene
  <2>2. QED
    BY <1>5, <1>7, <2>1, AskedIssue
<1>9. PICK rows : rows = d.tokens
  OBVIOUS
<1>10. /\ call.as \in DOMAIN rows => answer = "rejected" /\ new = rows
       /\ call.as \notin DOMAIN rows =>
            /\ answer = "issued"
            /\ FreshToken(new, call.as, call.purpose, call.subject,
                          call.now + Ttl)
  <2>1. Basics /\ TypedDb(d)
    BY DEF RaceScene
  <2>2. /\ call.as \in DOMAIN rows =>
                AnswerOf(d, call) = "rejected" /\ new = rows
        /\ call.as \notin DOMAIN rows =>
            /\ AnswerOf(d, call) = "issued"
            /\ FreshToken(new, call.as, call.purpose, call.subject,
                          call.now + Ttl)
            /\ new[call.as].expiresAt = call.now + Ttl
            /\ Others(new, rows, {call.as})
    BY <1>1, <1>8, <1>9, <2>1, IssueActs
  <2>3. QED
    BY <1>1, <2>2
<1>11. name \in SingleUseTests /\ name \notin RefreshTests
       /\ name \notin IdentityTests
  BY DEF RefreshTests, SingleUseTests, IdentityTests
<1>12. WinOf(name) = "issued" /\ LosesOf(name) = {"rejected"}
  BY DEF WinOf, LosesOf
<1>13. ASSUME NEW n, Holds(name, k, d, run, began, n)
       PROVE  RaceWon(name, k, d, call)
  <2>1. x \notin DOMAIN rows
    BY <1>1, <1>9, <1>11, <1>13 DEF Holds, TokenHolds
  <2>2. answer = "issued" /\ x \in DOMAIN new
    BY <1>8, <1>10, <2>1 DEF FreshToken
  <2>3. Holds(name, k + 1, TablesAfter(d, call), run, began, clock)
    BY <1>1, <1>11, <2>2 DEF Holds, TokenHolds
  <2>4. QED
    BY <1>1, <1>12, <2>2, <2>3 DEF RaceWon
<1>14. ASSUME NEW n, Holds(name, k + 1, d, run, began, n)
       PROVE  RaceLost(name, d, call)
  <2>1. x \in DOMAIN rows
    BY <1>1, <1>9, <1>11, <1>14 DEF Holds, TokenHolds
  <2>2. answer = "rejected"
    BY <1>8, <1>10, <2>1
  <2>3. TablesAfter(d, call) = d
    <3>1. IssueRows(d.tokens, call) = d.tokens
      BY <1>8, <1>9, <2>1 DEF IssueRows
    <3>2. TablesAfter(d, call) = [d EXCEPT !.tokens = d.tokens]
      BY <1>8, <3>1 DEF TablesAfter
    <3>3. QED
      BY <3>2 DEF RaceScene, TypedDb
  <2>4. QED
    BY <1>1, <1>12, <2>2, <2>3 DEF RaceLost
<1>15. QED
  BY <1>13, <1>14

\* Consumes of one token: the first wins, the rest come too late.
LEMMA ConsumeRaceTurns ==
    ASSUME NEW name, name = "ConsumeRace", NEW k \in DOMAIN Script(name),
           PlaceAt(2, k) = 2, NEW d, NEW call, NEW i,
           i \in DOMAIN Script(name)[k].calls, RaceScene(name, k, d, call, i)
    PROVE  /\ \A n : Holds(name, k, d, run, began, n)
                        => RaceWon(name, k, d, call)
           /\ \A n : Holds(name, k + 1, d, run, began, n)
                        => RaceLost(name, d, call)
<1>1. PICK m, x, new, answer :
            /\ m = RoundAt(2, k) /\ x = NameOf(run, m, "issued")
            /\ new = TablesAfter(d, call).tokens /\ answer = AnswerOf(d, call)
  OBVIOUS
<1>2. /\ m \in Nat /\ m > 0 /\ k \in 1 .. 2 * Rounds
      /\ RoundAt(2, k + 1) = m + 1 /\ PlaceAt(2, k + 1) = 1
  BY <1>1, PlacesIn DEF RaceScene, Basics
<1>3. Script(name)[k] = ConsumeRound(m)[2]
  BY <1>1, <1>2, SingleUseScripts, RoundScripts
<1>4. Script(name)[k].calls = [j \in 1 .. Concurrency |->
                    Consume(Drawn(m, "issued"), "password-reset", Now)]
  <2>1. ConsumeRound(m)[2].calls = [j \in 1 .. Concurrency |->
                    Consume(Drawn(m, "issued"), "password-reset", Now)]
    BY DEF ConsumeRound, Together
  <2>2. QED
    BY <1>3, <2>1
<1>5. Script(name)[k].calls[i] =
            Consume(Drawn(m, "issued"), "password-reset", Now)
  BY <1>4
<1>6. x = Drawn(m, "issued")
  BY <1>1, <1>2, NamesOf, ScriptUses DEF RaceScene, Basics
<1>7. PICK p \in Purposes, now \in Nat \cup {Now} :
            p = "password-reset" /\ now = Now
  BY TokenWords
<1>8. IsAsked(call, Consume(x, p, now), began, clock)
  BY <1>5, <1>6, <1>7 DEF RaceScene
<1>9. /\ call.op = "consume" /\ call.old = x /\ call.purpose = p
      /\ Proper(call, run) /\ call.now \in Nat /\ call.now < began + Ttl
  <2>1. Basics
    BY DEF RaceScene
  <2>2. QED
    BY <1>7, <1>8, <2>1, AskedConsume
<1>10. PICK rows : rows = d.tokens
  OBVIOUS
<1>11. /\ answer = ConsumeStatus(rows, call)
       /\ ConsumeStatus(rows, call) = "consumed" => Retired(new, rows, {x})
       /\ SingleUse!TypedRows(rows)
  BY <1>1, <1>9, <1>10, ConsumeActs DEF RaceScene, TypedDb
<1>12. name \in SingleUseTests /\ name \notin RefreshTests
       /\ name \notin IdentityTests
  BY DEF RefreshTests, SingleUseTests, IdentityTests
<1>13. WinOf(name) = "consumed" /\ LosesOf(name) = {"already-consumed"}
  BY DEF WinOf, LosesOf
<1>14. ASSUME NEW n, Holds(name, k, d, run, began, n)
       PROVE  RaceWon(name, k, d, call)
  <2>1. TokenHolds(name, k, rows, run, began)
    BY <1>10, <1>12, <1>14 DEF Holds
  <2>2. FreshToken(rows, x, p, x, began + Ttl)
    BY <1>1, <1>7, <2>1 DEF TokenHolds
  <2>3. \A y \in DOMAIN rows : y[1] = run => y[2] < m + 1
    BY <1>1, <2>1 DEF TokenHolds
  <2>4. began + Ttl \in Nat
    BY SuiteAssumption DEF RaceScene, Basics
  <2>5. ConsumeStatus(rows, call) = "consumed"
    BY <1>9, <1>11, <2>2, <2>4, ConsumeAnswers
  <2>6. UsedToken(new, x) /\ DOMAIN new = DOMAIN rows
    BY <1>7, <1>11, <2>2, <2>5, RetiredRows
  <2>7. TokenHolds(name, k + 1, new, run, began)
    <3>1. PlaceAt(2, k + 1) # 2 /\ (m + 1) - 1 = m
      BY <1>2
    <3>2. QED
      BY <1>1, <1>2, <2>3, <2>6, <3>1 DEF TokenHolds
  <2>8. Holds(name, k + 1, TablesAfter(d, call), run, began, clock)
    BY <1>1, <1>12, <2>7 DEF Holds
  <2>9. QED
    BY <1>1, <1>11, <1>13, <2>5, <2>8 DEF RaceWon
<1>15. ASSUME NEW n, Holds(name, k + 1, d, run, began, n)
       PROVE  RaceLost(name, d, call)
  <2>1. TokenHolds(name, k + 1, rows, run, began)
    BY <1>10, <1>12, <1>15 DEF Holds
  <2>2. UsedToken(rows, x)
    <3>1. (m + 1) - 1 = m /\ m + 1 > 1
      BY <1>2
    <3>2. QED
      BY <1>1, <1>2, <2>1, <3>1 DEF TokenHolds
  <2>3. ConsumeStatus(rows, call) = "already-consumed"
    BY <1>7, <1>9, <1>11, <2>2, ConsumeAnswers
  <2>4. TablesAfter(d, call) = d
    <3>1. ConsumeRows(d.tokens, call) = d.tokens
      BY <1>10, <2>3 DEF ConsumeRows
    <3>2. TablesAfter(d, call) = [d EXCEPT !.tokens = d.tokens]
      BY <1>9, <3>1 DEF TablesAfter
    <3>3. QED
      BY <3>2 DEF RaceScene, TypedDb
  <2>5. QED
    BY <1>1, <1>11, <1>13, <2>3, <2>4 DEF RaceLost
<1>16. QED
  BY <1>14, <1>15

\* Links of one identity: the first wins, the rest are refused.
LEMMA LinkRaceTurns ==
    ASSUME NEW name, name = "LinkRace", NEW k, k = 2, NEW d, NEW call, NEW i,
           i \in DOMAIN Script(name)[k].calls, RaceScene(name, k, d, call, i),
           call.op # "link", call.account \in DOMAIN d.accounts
    PROVE  /\ \A n : Holds(name, k, d, run, began, n)
                        => RaceWon(name, k, d, call)
           /\ \A n : Holds(name, k + 1, d, run, began, n)
                        => RaceLost(name, d, call)
           /\ call.identity.key = 0
<1>1. PICK a, identity, after, key :
            /\ a = <<"race", i>> /\ key = 0
            /\ identity = [conformanceIdentity EXCEPT !.email = <<"race", i>>]
            /\ after = TablesAfter(d, call)
  OBVIOUS
<1>2. Script(name)[k].calls =
            [j \in 1 .. Concurrency |-> Ask("link", <<"race", j>>,
                [conformanceIdentity EXCEPT !.email = <<"race", j>>])]
  <2>1. LinkRace[2].calls =
            [j \in 1 .. Concurrency |-> Ask("link", <<"race", j>>,
                [conformanceIdentity EXCEPT !.email = <<"race", j>>])]
    BY DEF LinkRace, Together, InParallel
  <2>2. QED
    BY <2>1, IdentityScripts
<1>3. Script(name)[k].calls[i] = Ask("link", a, identity)
  BY <1>1, <1>2
<1>4. i \in Nat
  BY <1>2, OptionsTyped DEF RaceScene, Basics
<1>5. IsAsked(call, Ask("link", a, identity), began, clock)
  BY <1>3 DEF RaceScene
<1>6. PICK op : op = "link" /\ IsAsked(call, Ask(op, a, identity), began, clock)
  BY <1>5
<1>7. call.op = "bind" /\ call.account = a /\ call.identity = identity
  BY <1>6, AskedAsk
<1>8. /\ key \in Keys /\ key = call.identity.key
      /\ a \in Accounts /\ a # Null
  BY <1>1, <1>4, <1>7, IdentityWords, NameAssumption DEF Accounts
<1>9. BindActsSo(d, call, after, a, key)
  BY <1>1, <1>7, <1>8, BindActs DEF RaceScene
<1>10. /\ d.owner[key] # Null => Refusals(d, call) # {}
       /\ /\ d.owner[key] = Null
          /\ ~Bindings!IsBound(d.owner, a)
          /\ call.op = "bind" /\ ~d.accounts[a].disabled
          => Refusals(d, call) = {}
  BY <1>7, <1>8, BindAnswers DEF RaceScene
<1>11. name \in IdentityTests /\ name \notin RefreshTests
       /\ name \notin SingleUseTests
  BY DEF RefreshTests, SingleUseTests, IdentityTests
<1>12. WinOf(name) = "linked" /\ LosesOf(name) = {"refused"}
  BY DEF WinOf, LosesOf
<1>13. ASSUME NEW n, Holds(name, k, d, run, began, n)
       PROVE  RaceWon(name, k, d, call)
  <2>1. BindingHolds(name, k, d.accounts, d.owner)
    BY <1>11, <1>13 DEF Holds
  <2>2. Unbound(d.owner) /\ \A b \in DOMAIN d.accounts : ~d.accounts[b].disabled
    BY <2>1 DEF BindingHolds
  <2>3. d.owner[key] = Null /\ ~d.accounts[a].disabled
    BY <1>7, <1>8, <2>2 DEF Unbound
  <2>4. ~Bindings!IsBound(d.owner, a)
    <3>1. DOMAIN d.owner = Keys
      BY DEF RaceScene, TypedDb, Bindings!TypedStore
    <3>2. QED
      BY <1>8, <2>2, <3>1 DEF Unbound, Bindings!IsBound
  <2>5. AnswerOf(d, call) = "linked" /\ after.owner[key] # Null
    BY <1>7, <1>8, <1>9, <1>10, <2>3, <2>4 DEF BindActsSo, Binds, BindSays
  <2>6. BindingHolds(name, k + 1, after.accounts, after.owner)
    <3>1. PICK accounts, owner, m : /\ accounts = after.accounts
                                    /\ owner = after.owner /\ m = k + 1
      OBVIOUS
    <3>2. m # 1 /\ m # 2 /\ owner[0] # Null
      BY <1>1, <2>5, <3>1
    <3>3. BindingHolds(name, m, accounts, owner)
      BY <3>2, Zenon DEF BindingHolds
    <3>4. QED
      BY <3>1, <3>3
  <2>7. Holds(name, k + 1, TablesAfter(d, call), run, began, clock)
    BY <1>1, <1>11, <2>6 DEF Holds
  <2>8. QED
    BY <1>12, <2>5, <2>7 DEF RaceWon
<1>14. ASSUME NEW n, Holds(name, k + 1, d, run, began, n)
       PROVE  RaceLost(name, d, call)
  <2>1. BindingHolds(name, k + 1, d.accounts, d.owner)
    BY <1>11, <1>14 DEF Holds
  <2>2. d.owner[key] # Null
    BY <1>1, <2>1 DEF BindingHolds
  <2>3. AnswerOf(d, call) = "refused" /\ TablesAfter(d, call) = d
    BY <1>1, <1>9, <1>10, <2>2 DEF BindActsSo
  <2>4. QED
    BY <1>12, <2>3 DEF RaceLost
<1>15. QED
  BY <1>1, <1>8, <1>13, <1>14

\* Claims of one account: the first wins, the rest are refused.
LEMMA ClaimRaceTurns ==
    ASSUME NEW name, name = "ClaimRace", NEW k \in DOMAIN Script(name),
           PlaceAt(3, k) = 2, NEW d, NEW call, NEW i,
           i \in DOMAIN Script(name)[k].calls, RaceScene(name, k, d, call, i),
           call.account \in DOMAIN d.accounts
    PROVE  /\ \A n : Holds(name, k, d, run, began, n)
                        => RaceWon(name, k, d, call)
           /\ \A n : Holds(name, k + 1, d, run, began, n)
                        => RaceLost(name, d, call)
<1>1. PICK m, a, identity, after :
            /\ m = RoundAt(3, k) /\ a = Claimed(m)
            /\ identity = ClaimIdentity(m)
            /\ after = TablesAfter(d, call)
  OBVIOUS
<1>2. ClaimPlace(k, m)
  BY <1>1, ClaimPlaces DEF RaceScene, Basics
<1>3. /\ Script(name)[k] = ClaimRound(m)[2]
      /\ m \in Nat /\ m \in Keys /\ m > 0
      /\ RoundAt(3, k + 1) = m /\ PlaceAt(3, k + 1) = 3
  BY <1>2 DEF ClaimPlace
<1>4. Script(name)[k].calls =
            [j \in 1 .. Concurrency |-> Ask("claim", a, identity)]
  <2>1. ClaimRound(m)[2].calls =
            [j \in 1 .. Concurrency |-> Ask("claim", a, identity)]
    BY <1>1 DEF ClaimRound, Together, Claimed
  <2>2. QED
    BY <1>3, <2>1
<1>5. Script(name)[k].calls[i] = Ask("claim", a, identity)
  BY <1>4
<1>6. PICK op : op = "claim" /\ IsAsked(call, Ask(op, a, identity), began, clock)
  BY <1>5 DEF RaceScene
<1>7. call.op = "claim" /\ call.account = a /\ call.identity = identity
  BY <1>6, AskedAsk
<1>8. identity.key = m /\ identity.email = a
  BY <1>1 DEF ClaimIdentity, conformanceIdentity, Claimed
<1>9. /\ m = call.identity.key /\ a # Null /\ call.identity.email = a
  BY <1>1, <1>3, <1>7, <1>8, NameAssumption DEF Accounts, Claimed
<1>10. BindActsSo(d, call, after, a, m)
  BY <1>1, <1>3, <1>7, <1>9, BindActs DEF RaceScene
<1>11. /\ d.owner[m] # Null => Refusals(d, call) # {}
       /\ /\ d.owner[m] = Null
          /\ ~Bindings!IsBound(d.owner, a)
          /\ call.op = "claim" /\ ~d.accounts[a].disabled
          /\ ~d.accounts[a].emailVerified
          /\ ~d.accounts[a].hasCredentials
          /\ call.identity.email = d.accounts[a].email
          => Refusals(d, call) = {}
  BY <1>7, <1>9, BindAnswers DEF RaceScene
<1>12. name \in IdentityTests /\ name \notin RefreshTests
       /\ name \notin SingleUseTests
  BY DEF RefreshTests, SingleUseTests, IdentityTests
<1>13. WinOf(name) = "claimed" /\ LosesOf(name) = {"refused"}
  BY DEF WinOf, LosesOf
<1>14. DOMAIN d.owner = Keys
  BY DEF RaceScene, TypedDb, Bindings!TypedStore
<1>15. ASSUME NEW n, Holds(name, k, d, run, began, n)
       PROVE  RaceWon(name, k, d, call)
  <2>1. BindingHolds(name, k, d.accounts, d.owner)
    BY <1>12, <1>15 DEF Holds
  <2>2. ClaimsHold(k, d.accounts, d.owner)
    BY <2>1, Zenon DEF BindingHolds
  <2>3. PICK no : /\ no = FALSE
                  /\ a \in DOMAIN d.accounts
                  /\ d.accounts[a] = [email |-> a, disabled |-> no,
                            hasCredentials |-> no, emailVerified |-> no]
    BY <1>1, <2>2, Zenon DEF ClaimsHold
  <2>4. /\ ~d.accounts[a].disabled /\ ~d.accounts[a].hasCredentials
        /\ ~d.accounts[a].emailVerified /\ d.accounts[a].email = a
    BY <2>3
  <2>5. BoundBefore(d.owner, m)
    BY <1>1, <2>2 DEF ClaimsHold
  <2>6. d.owner[m] = Null
    BY <1>3, <2>5 DEF BoundBefore
  <2>7. ~Bindings!IsBound(d.owner, a)
    <3>1. ASSUME NEW key \in Keys, d.owner[key] = a
          PROVE  FALSE
      <4>1. d.owner[key] \in {Null, Claimed(key)}
        BY <2>5 DEF BoundBefore
      <4>2. key = m
        BY <1>1, <1>9, <3>1, <4>1 DEF Claimed
      <4>3. QED
        BY <1>9, <2>6, <3>1, <4>2
    <3>2. QED
      BY <1>14, <3>1 DEF Bindings!IsBound
  <2>8. AnswerOf(d, call) = "claimed" /\ Binds(d, call, after, a, m)
    BY <1>7, <1>9, <1>10, <1>11, <2>4, <2>6, <2>7 DEF BindActsSo, BindSays
  <2>9. /\ after.owner[m] # Null /\ a \in DOMAIN after.accounts
        /\ after.accounts[a].emailVerified
    BY <1>7, <1>9, <2>3, <2>8 DEF Binds
  <2>10. BoundBefore(after.owner, m + 1)
    <3>1. ASSUME NEW key \in Keys
          PROVE  /\ after.owner[key] \in {Null, Claimed(key)}
                 /\ key >= m + 1 => after.owner[key] = Null
      <4>1. key \in Nat
        BY SuiteAssumption DEF Keys
      <4>2. CASE key = m
        BY <1>1, <1>3, <2>8, <4>2 DEF Binds
      <4>3. CASE key # m
        <5>1. after.owner[key] = d.owner[key]
          BY <2>8, <4>3 DEF Binds
        <5>2. QED
          BY <1>3, <2>5, <4>1, <5>1 DEF BoundBefore
      <4>4. QED
        BY <4>2, <4>3
    <3>2. QED
      BY <3>1 DEF BoundBefore
  <2>11. ClaimsHold(k + 1, after.accounts, after.owner)
    BY <1>1, <1>3, <2>9, <2>10 DEF ClaimsHold
  <2>12. BindingHolds(name, k + 1, after.accounts, after.owner)
    BY <2>11 DEF BindingHolds
  <2>13. Holds(name, k + 1, TablesAfter(d, call), run, began, clock)
    BY <1>1, <1>12, <2>12 DEF Holds
  <2>14. QED
    BY <1>13, <2>8, <2>13 DEF RaceWon
<1>16. ASSUME NEW n, Holds(name, k + 1, d, run, began, n)
       PROVE  RaceLost(name, d, call)
  <2>1. BindingHolds(name, k + 1, d.accounts, d.owner)
    BY <1>12, <1>16 DEF Holds
  <2>2. d.owner[m] # Null
    BY <1>3, <2>1 DEF BindingHolds, ClaimsHold
  <2>3. AnswerOf(d, call) = "refused" /\ TablesAfter(d, call) = d
    BY <1>1, <1>10, <1>11, <2>2 DEF BindActsSo
  <2>4. QED
    BY <1>13, <2>3 DEF RaceLost
<1>17. QED
  BY <1>15, <1>16

\* A call of a race that is not refused by the look before it.
LEMMA RaceTurns ==
    ASSUME NEW name \in Tests, NEW k \in DOMAIN Script(name), IsRace(name, k),
           NEW d, NEW call, NEW i \in DOMAIN Script(name)[k].calls,
           RaceScene(name, k, d, call, i), call.op # "link",
           call.op \in {"bind", "claim"} => call.account \in DOMAIN d.accounts
    PROVE  /\ \A n : Holds(name, k, d, run, began, n)
                        => RaceWon(name, k, d, call)
           /\ \A n : Holds(name, k + 1, d, run, began, n)
                        => RaceLost(name, d, call)
<1>1. CASE name = "RotateRace"
  BY <1>1, RotateRaceTurns DEF IsRace
<1>2. CASE name = "IssueRace"
  BY <1>2, IssueRaceTurns DEF IsRace
<1>3. CASE name = "ConsumeRace"
  BY <1>3, ConsumeRaceTurns DEF IsRace
<1>4. CASE name = "LinkRace"
  <2>1. k = 2
    BY <1>4 DEF IsRace
  <2>2. Script(name)[k].calls[i].op = "link"
    <3>1. LinkRace[2].calls =
              [j \in 1 .. Concurrency |-> Ask("link", <<"race", j>>,
                  [conformanceIdentity EXCEPT !.email = <<"race", j>>])]
      BY DEF LinkRace, Together, InParallel
    <3>2. \A op, a, identity : Ask(op, a, identity).op = op
      BY DEF Ask
    <3>3. Script(name)[k].calls = LinkRace[2].calls
      BY <1>4, <2>1, IdentityScripts
    <3>4. i \in 1 .. Concurrency
      BY <3>1, <3>3
    <3>5. PICK a, identity : LinkRace[2].calls[i] = Ask("link", a, identity)
      BY <3>1, <3>4
    <3>6. QED
      BY <3>2, <3>3, <3>5
  <2>3. call.op = "bind"
    BY <2>2 DEF RaceScene, IsAsked
  <2>4. QED
    BY <1>4, <2>1, <2>3, LinkRaceTurns
<1>5. CASE name = "ClaimRace"
  <2>1. PlaceAt(3, k) = 2
    BY <1>5 DEF IsRace
  <2>2. Script(name)[k].calls[i].op = "claim"
    <3>1. Script(name)[k] = ClaimRound(RoundAt(3, k))[2]
      BY <1>5, <2>1, ClaimPlaces DEF RaceScene, Basics, ClaimPlace
    <3>2. ClaimRound(RoundAt(3, k))[2].calls = [j \in 1 .. Concurrency |->
                Ask("claim", <<"claim-race", RoundAt(3, k)>>,
                    ClaimIdentity(RoundAt(3, k)))]
      BY DEF ClaimRound, Together
    <3>3. \A op, a, identity : Ask(op, a, identity).op = op
      BY DEF Ask
    <3>4. i \in 1 .. Concurrency
      BY <3>1, <3>2
    <3>5. PICK a, identity : Script(name)[k].calls[i] = Ask("claim", a, identity)
      BY <3>1, <3>2, <3>4
    <3>6. QED
      BY <3>3, <3>5
  <2>3. call.op = "claim"
    BY <2>2 DEF RaceScene, IsAsked
  <2>4. QED
    BY <1>5, <2>1, <2>3, ClaimRaceTurns
<1>6. QED
  BY <1>1, <1>2, <1>3, <1>4, <1>5 DEF IsRace

\* The smoke test's race: a consume and an invalidation.
LEMMA SmokeCalls ==
    ASSUME NEW k \in DOMAIN Script("ConsumeInvalidateSmoke"), Basics,
           PlaceAt(3, k) = 2, NEW m, m = RoundAt(3, k),
           NEW x, x = NameOf(run, m, "issued")
    PROVE  /\ m \in Nat /\ m > 0
           /\ RoundAt(3, k + 1) = m /\ PlaceAt(3, k + 1) = 3
           /\ Script("ConsumeInvalidateSmoke")[k] =
                Together(<<Consume(x, "password-reset", Now),
                           InvalidateAllFor(x)>>,
                         {"consumed", "already-consumed"} \X {"done"})
<1>1. PICK name : name = "ConsumeInvalidateSmoke"
  OBVIOUS
<1>2. /\ m \in Nat /\ m > 0 /\ k \in 1 .. 3 * Rounds
      /\ RoundAt(3, k + 1) = m /\ PlaceAt(3, k + 1) = 3
  BY <1>1, PlacesIn DEF Basics
<1>3. Script(name)[k] = SmokeRound(m)[2]
  BY <1>1, <1>2, SingleUseScripts, RoundScripts
<1>4. x = Drawn(m, "issued")
  BY <1>2, NamesOf, ScriptUses DEF Basics
<1>5. SmokeRound(m)[2] =
                Together(<<Consume(x, "password-reset", Now),
                           InvalidateAllFor(x)>>,
                         {"consumed", "already-consumed"} \X {"done"})
  BY <1>4 DEF SmokeRound
<1>6. QED
  BY <1>1, <1>2, <1>3, <1>5

SmokeFirst(name, k, d, call, i) ==
    /\ i = 1 => AnswerOf(d, call) = "consumed"
    /\ i = 2 => AnswerOf(d, call) = "done"
    /\ Holds(name, k + 1, TablesAfter(d, call), run, began, clock)

SmokeLater(name, k, d, call, i) ==
    /\ i = 1 => AnswerOf(d, call) = "already-consumed" /\ TablesAfter(d, call) = d
    /\ i = 2 => AnswerOf(d, call) = "done"
    /\ Holds(name, k + 1, TablesAfter(d, call), run, began, clock)

\* In either order the token ends up used.
LEMMA SmokeTurns ==
    ASSUME NEW name, name = "ConsumeInvalidateSmoke",
           NEW k \in DOMAIN Script(name), PlaceAt(3, k) = 2, NEW d, NEW call,
           NEW i \in DOMAIN Script(name)[k].calls,
           RaceScene(name, k, d, call, i)
    PROVE  /\ i \in {1, 2}
           /\ i = 1 => call.op = "consume"
           /\ i = 2 => call.op = "invalidateAllFor"
           /\ \A n : Holds(name, k, d, run, began, n)
                        => SmokeFirst(name, k, d, call, i)
           /\ \A n : Holds(name, k + 1, d, run, began, n)
                        => SmokeLater(name, k, d, call, i)
<1>1. PICK m, x, new, answer, rows :
            /\ m = RoundAt(3, k) /\ x = NameOf(run, m, "issued")
            /\ new = TablesAfter(d, call).tokens /\ answer = AnswerOf(d, call)
            /\ rows = d.tokens
  OBVIOUS
<1>2. Basics /\ TypedDb(d)
      /\ IsAsked(call, Script(name)[k].calls[i], began, clock)
  BY DEF RaceScene
<1>3. /\ m \in Nat /\ m > 0
      /\ RoundAt(3, k + 1) = m /\ PlaceAt(3, k + 1) = 3
      /\ Script(name)[k] = Together(<<Consume(x, "password-reset", Now),
                                      InvalidateAllFor(x)>>,
                            {"consumed", "already-consumed"} \X {"done"})
  BY <1>1, <1>2, SmokeCalls
<1>4. Script(name)[k].calls =
            <<Consume(x, "password-reset", Now), InvalidateAllFor(x)>>
  BY <1>3 DEF Together
<1>5. i \in {1, 2}
  BY <1>4
<1>6. PICK p \in Purposes, now \in Nat \cup {Now} :
            p = "password-reset" /\ now = Now
  BY TokenWords
<1>7. /\ i = 1 => IsAsked(call, Consume(x, p, now), began, clock)
      /\ i = 2 => IsAsked(call, InvalidateAllFor(x), began, clock)
  BY <1>2, <1>4, <1>6
<1>8. i = 1 => /\ call.op = "consume" /\ call.old = x /\ call.purpose = p
               /\ Proper(call, run) /\ call.now \in Nat
               /\ call.now < began + Ttl
  BY <1>2, <1>6, <1>7, AskedConsume
<1>9. i = 2 => /\ call.op = "invalidateAllFor" /\ call.subject = x
               /\ call.purpose = "password-reset"
  BY <1>7, AskedWithdraw
<1>10. i = 1 => /\ answer = ConsumeStatus(rows, call)
                /\ ConsumeStatus(rows, call) = "consumed" =>
                        Retired(new, rows, {x})
  BY <1>1, <1>2, <1>8, ConsumeActs
<1>11. i = 2 => /\ answer = "done"
                /\ Retired(new, rows,
                           SingleUse!Covered(rows, x, "password-reset"))
  BY <1>1, <1>2, <1>9, WithdrawActs
<1>12. name \in SingleUseTests /\ name \notin RefreshTests
       /\ name \notin IdentityTests
  BY DEF RefreshTests, SingleUseTests, IdentityTests
<1>13. SingleUse!TypedRows(rows) /\ began + Ttl \in Nat
  BY <1>1, <1>2, SuiteAssumption DEF TypedDb, Basics
<1>14. ASSUME UsedToken(new, x), DOMAIN new = DOMAIN rows,
              \A y \in DOMAIN rows : y[1] = run => y[2] < m + 1
       PROVE  Holds(name, k + 1, TablesAfter(d, call), run, began, clock)
  <2>1. PlaceAt(3, k + 1) # 2 /\ PlaceAt(3, k + 1) # 1
    BY <1>3
  <2>2. TokenHolds(name, k + 1, new, run, began)
    BY <1>1, <1>3, <1>14, <2>1 DEF TokenHolds
  <2>3. QED
    BY <1>1, <1>12, <2>2 DEF Holds
<1>15. ASSUME NEW n, Holds(name, k, d, run, began, n)
       PROVE  SmokeFirst(name, k, d, call, i)
  <2>1. TokenHolds(name, k, rows, run, began)
    BY <1>1, <1>12, <1>15 DEF Holds
  <2>2. FreshToken(rows, x, "password-reset", x, began + Ttl)
    BY <1>1, <2>1 DEF TokenHolds
  <2>3. \A y \in DOMAIN rows : y[1] = run => y[2] < m + 1
    BY <1>1, <2>1 DEF TokenHolds
  <2>4. CASE i = 1
    <3>1. ConsumeStatus(rows, call) = "consumed"
      BY <1>6, <1>8, <1>13, <2>2, <2>4, ConsumeAnswers
    <3>2. UsedToken(new, x) /\ DOMAIN new = DOMAIN rows
      BY <1>10, <2>2, <2>4, <3>1, RetiredRows
    <3>3. QED
      BY <1>1, <1>10, <1>14, <2>3, <2>4, <3>1, <3>2 DEF SmokeFirst
  <2>5. CASE i = 2
    <3>1. x \in SingleUse!Covered(rows, x, "password-reset")
      BY <2>2 DEF FreshToken, SingleUse!Covered
    <3>2. UsedToken(new, x) /\ DOMAIN new = DOMAIN rows
      BY <1>11, <2>2, <2>5, <3>1, RetiredRows
    <3>3. QED
      BY <1>1, <1>11, <1>14, <2>3, <2>5, <3>2 DEF SmokeFirst
  <2>6. QED
    BY <1>5, <2>4, <2>5
<1>16. ASSUME NEW n, Holds(name, k + 1, d, run, began, n)
       PROVE  SmokeLater(name, k, d, call, i)
  <2>1. TokenHolds(name, k + 1, rows, run, began)
    BY <1>1, <1>12, <1>16 DEF Holds
  <2>2. UsedToken(rows, x)
    BY <1>1, <1>3, <2>1 DEF TokenHolds
  <2>3. \A y \in DOMAIN rows : y[1] = run => y[2] < m + 1
    BY <1>1, <1>3, <2>1 DEF TokenHolds
  <2>4. CASE i = 1
    <3>1. ConsumeStatus(rows, call) = "already-consumed"
      BY <1>6, <1>8, <1>13, <2>2, <2>4, ConsumeAnswers
    <3>2. TablesAfter(d, call) = d
      <4>1. ConsumeRows(d.tokens, call) = d.tokens
        BY <1>1, <3>1 DEF ConsumeRows
      <4>2. TablesAfter(d, call) = [d EXCEPT !.tokens = d.tokens]
        BY <1>8, <2>4, <4>1 DEF TablesAfter
      <4>3. QED
        BY <1>2, <4>2 DEF TypedDb
    <3>3. new = rows
      BY <1>1, <3>2
    <3>4. Holds(name, k + 1, TablesAfter(d, call), run, began, clock)
      BY <1>14, <2>2, <2>3, <3>3
    <3>5. QED
      BY <1>1, <1>10, <2>4, <3>1, <3>2, <3>4 DEF SmokeLater
  <2>5. CASE i = 2
    <3>1. UsedToken(new, x) /\ DOMAIN new = DOMAIN rows
      BY <1>11, <2>2, <2>5, RetiredRows
    <3>2. QED
      BY <1>1, <1>11, <1>14, <2>3, <2>5, <3>1 DEF SmokeLater
  <2>6. QED
    BY <1>5, <2>4, <2>5
<1>17. QED
  BY <1>5, <1>8, <1>9, <1>15, <1>16

\* The accounts of the link race are made in any order.
LEMMA MakingTurns ==
    ASSUME NEW name, name = "LinkRace", NEW k, k = 1, NEW d, NEW call, NEW i,
           i \in DOMAIN Script(name)[k].calls, RaceScene(name, k, d, call, i),
           NEW n, NEW e, e \in {k, k + 1}, Holds(name, e, d, run, began, n)
    PROVE  /\ call.op = "createAccount"
           /\ AnswerOf(d, call) = "done"
           /\ Holds(name, k + 1, TablesAfter(d, call), run, began, clock)
<1>1. Script(name)[k].calls = [j \in 1 .. Concurrency |->
            CreateAccount(<<"race", j>>, <<"race", j>>, TRUE)]
  <2>1. LinkRace[1].calls = [j \in 1 .. Concurrency |->
            CreateAccount(<<"race", j>>, <<"race", j>>, TRUE)]
    BY DEF LinkRace, Together, InParallel
  <2>2. Script(name)[k] = LinkRace[1]
    BY IdentityScripts
  <2>3. QED
    BY <2>1, <2>2
<1>2. PICK a, c, v : /\ a = <<"race", i>> /\ c = CreateAccount(a, a, v)
                     /\ Script(name)[k].calls[i] = c
  <2>1. PICK c : c = CreateAccount(<<"race", i>>, <<"race", i>>, TRUE)
    BY Zenon
  <2>2. Script(name)[k].calls[i] = c
    BY <1>1, <2>1
  <2>3. QED
    BY <2>1, <2>2, Zenon
<1>3. Basics /\ TypedDb(d) /\ IsAsked(call, CreateAccount(a, a, v), began, clock)
  BY <1>2 DEF RaceScene
<1>4. /\ call.op = "createAccount" /\ call.account = a
      /\ call.row = [email |-> a, disabled |-> FALSE,
                     hasCredentials |-> v, emailVerified |-> v]
  BY <1>3, AskedCreate
<1>5. PICK after : after = TablesAfter(d, call)
  OBVIOUS
<1>6. /\ AnswerOf(d, call) = "done"
      /\ DOMAIN after.accounts = DOMAIN d.accounts \cup {call.account}
      /\ after.accounts[call.account] = call.row
      /\ \A b \in DOMAIN d.accounts :
            b # call.account => after.accounts[b] = d.accounts[b]
      /\ after.owner = d.owner
  BY <1>3, <1>4, <1>5, CreateActs
<1>7. name \in IdentityTests /\ name \notin RefreshTests
      /\ name \notin SingleUseTests
  BY DEF RefreshTests, SingleUseTests, IdentityTests
<1>8. BindingHolds(name, e, d.accounts, d.owner)
  BY <1>7 DEF Holds
<1>9. Unbound(d.owner) /\ \A b \in DOMAIN d.accounts : ~d.accounts[b].disabled
  BY <1>8 DEF BindingHolds
<1>10. PICK accounts, owner : accounts = after.accounts /\ owner = after.owner
  OBVIOUS
<1>11. Unbound(owner) /\ \A b \in DOMAIN accounts : ~accounts[b].disabled
  <2>1. ~after.accounts[call.account].disabled
    <3>1. call.row.disabled = FALSE
      BY <1>4
    <3>2. QED
      BY <1>6, <3>1
  <2>2. QED
    BY <1>6, <1>9, <1>10, <2>1
<1>12. BindingHolds(name, k + 1, accounts, owner)
  <2>1. PICK m : m = k + 1
    OBVIOUS
  <2>2. m # 1 /\ m # 3
    BY <2>1
  <2>3. BindingHolds(name, m, accounts, owner)
    BY <1>11, <2>2 DEF BindingHolds
  <2>4. QED
    BY <2>1, <2>3
<1>13. QED
  BY <1>4, <1>5, <1>6, <1>7, <1>10, <1>12 DEF Holds

Unlinked(p) == \A i \in DOMAIN p.calls : p.calls[i].op # "link"

\* A phase of one call links only if that call does.
LEMMA AskedUnlinked ==
    ASSUME NEW A
    PROVE  /\ \A op, a, identity : op # "link" =>
                Unlinked(Alone(Ask(op, a, identity), A))
           /\ \A a, e, v : Unlinked(Alone(CreateAccount(a, e, v), A))
<1>1. ASSUME NEW c, c.op # "link"
      PROVE  Unlinked(Alone(c, A))
  BY <1>1, AloneIs DEF Unlinked
<1>2. \A op, a, identity : Ask(op, a, identity).op = op
  BY DEF Ask
<1>3. \A a, e, v : CreateAccount(a, e, v).op = "createAccount"
  BY DEF CreateAccount
<1>4. ASSUME NEW op, NEW a, NEW identity, op # "link"
      PROVE  Unlinked(Alone(Ask(op, a, identity), A))
  BY <1>1, <1>2, <1>4
<1>5. ASSUME NEW a, NEW e, NEW v
      PROVE  Unlinked(Alone(CreateAccount(a, e, v), A))
  BY <1>1, <1>3
<1>6. QED
  BY <1>4, <1>5

\* Only the link race links.
LEMMA IdentityUnlinked ==
    ASSUME NEW name \in IdentityTests, NEW k \in DOMAIN Script(name),
           options \in Options, ~(name = "LinkRace" /\ k = 2)
    PROVE  Unlinked(Script(name)[k])
<1> USE AskedUnlinked
<1>1. CASE name = "ReturningByKey"
  <2>1. PICK a, first : /\ a = <<"returning", 0>>
                        /\ first = Alone(CreateAccount(a, a, TRUE), {"done"})
    BY Zenon
  <2>2. ReturningByKey = <<first,
            Alone(Ask("bind", a, conformanceIdentity), {"linked"}),
            Alone(Ask("resolve", Null, [conformanceIdentity EXCEPT
                                            !.email = <<"changed", 0>>]),
                  {"returning"})>>
    BY <2>1 DEF ReturningByKey
  <2>3. Unlinked(first)
    BY <2>1, Zenon
  <2>4. DOMAIN ReturningByKey = {1, 2, 3}
    BY <2>2
  <2>5. /\ Unlinked(ReturningByKey[1]) /\ Unlinked(ReturningByKey[2])
        /\ Unlinked(ReturningByKey[3])
    BY <2>2, <2>3
  <2>6. QED
    BY <1>1, <2>4, <2>5, IdentityScripts
<1>2. CASE name = "NeverAdopts"
  <2>1. PICK first : first = Alone(CreateAccount(<<"credentialed", 0>>,
                            conformanceIdentity.email, TRUE), {"done"})
    BY Zenon
  <2>2. NeverAdopts = <<first,
          Alone(Ask("resolve", Null, conformanceIdentity), {"account-exists"}),
          Alone(Ask("findByIdentity", Null, conformanceIdentity), {"nobody"})>>
    BY <2>1 DEF NeverAdopts
  <2>3. Unlinked(first)
    BY <2>1, Zenon
  <2>4. DOMAIN NeverAdopts = {1, 2, 3}
    BY <2>2
  <2>5. /\ Unlinked(NeverAdopts[1]) /\ Unlinked(NeverAdopts[2])
        /\ Unlinked(NeverAdopts[3])
    BY <2>2, <2>3
  <2>6. QED
    BY <1>2, <2>4, <2>5, IdentityScripts
<1>3. CASE name = "ClaimsPlaceholder"
  <2>1. PICK first : first = Alone(CreateAccount(<<"placeholder", 0>>,
                            conformanceIdentity.email, FALSE), {"done"})
    BY Zenon
  <2>2. ClaimsPlaceholder = <<first,
          Alone(Ask("resolve", Null, conformanceIdentity),
                {"claimed-placeholder"})>>
    BY <2>1 DEF ClaimsPlaceholder
  <2>3. Unlinked(first)
    BY <2>1, Zenon
  <2>4. DOMAIN ClaimsPlaceholder = {1, 2}
    BY <2>2
  <2>5. Unlinked(ClaimsPlaceholder[1]) /\ Unlinked(ClaimsPlaceholder[2])
    BY <2>2, <2>3
  <2>6. QED
    BY <1>3, <2>4, <2>5, IdentityScripts
<1>4. CASE name = "LinkRace"
  <2>1. Script(name) = LinkRace /\ DOMAIN LinkRace = {1, 2, 3}
        /\ Unlinked(LinkRace[3])
    BY <1>4, IdentityScripts DEF LinkRace
  <2>2. LinkRace[1].calls = [j \in 1 .. Concurrency |->
            CreateAccount(<<"race", j>>, <<"race", j>>, TRUE)]
    BY DEF LinkRace, Together, InParallel
  <2>3. \A a, e, v : CreateAccount(a, e, v).op = "createAccount"
    BY DEF CreateAccount
  <2>4. ASSUME NEW j \in DOMAIN LinkRace[1].calls
        PROVE  LinkRace[1].calls[j].op # "link"
    <3>1. PICK c : c = CreateAccount(<<"race", j>>, <<"race", j>>, TRUE)
      BY Zenon
    <3>2. LinkRace[1].calls[j] = c
      BY <2>2, <3>1
    <3>3. c.op = "createAccount"
      BY <2>3, <3>1, Zenon
    <3>4. QED
      BY <3>2, <3>3
  <2>5. QED
    BY <1>4, <2>1, <2>4 DEF Unlinked
<1>5. CASE name = "ClaimRace"
  <2>1. ClaimPlace(k, RoundAt(3, k))
    BY <1>5, ClaimPlaces
  <2>2. /\ Script(name)[k] = ClaimRound(RoundAt(3, k))[PlaceAt(3, k)]
        /\ PlaceAt(3, k) \in {1, 2, 3}
    BY <1>5, <2>1 DEF ClaimPlace
  <2>3. PICK a, identity, first : /\ a = <<"claim-race", RoundAt(3, k)>>
                        /\ identity = ClaimIdentity(RoundAt(3, k))
                        /\ first = Alone(CreateAccount(a, a, FALSE), {"done"})
    BY Zenon
  <2>4. /\ ClaimRound(RoundAt(3, k))[1] = first
        /\ ClaimRound(RoundAt(3, k))[2].calls =
                [i \in 1 .. Concurrency |-> Ask("claim", a, identity)]
        /\ ClaimRound(RoundAt(3, k))[3] =
                Alone(Ask("findById", a, identity), {"verified"})
    BY <2>3 DEF ClaimRound, Together
  <2>5. Unlinked(first)
    BY <2>3, Zenon
  <2>6. Ask("claim", a, identity).op = "claim"
    BY DEF Ask
  <2>7. Unlinked(ClaimRound(RoundAt(3, k))[2])
    BY <2>4, <2>6 DEF Unlinked
  <2>8. Unlinked(ClaimRound(RoundAt(3, k))[3])
    BY <2>4
  <2>9. QED
    BY <2>2, <2>4, <2>5, <2>7, <2>8
<1>6. QED
  BY <1>1, <1>2, <1>3, <1>4, <1>5 DEF IdentityTests

\* Only the race of LinkRace links.
LEMMA LinkOnly ==
    ASSUME Basics, NEW i \in DOMAIN Calls, Calls[i].op = "link"
    PROVE  test = "LinkRace" /\ phase = 2
<1>1. phase \in DOMAIN Script(test) /\ Calls = Script(test)[phase].calls
  BY DEF Calls
<1>2. run \in 1 .. MaxRuns /\ options \in Options /\ test \in Tests
  BY DEF Basics
<1>3. CASE test \in IdentityTests
  BY <1>1, <1>2, <1>3, IdentityUnlinked DEF Unlinked
<1>4. CASE test \in RefreshTests \cup SingleUseTests
  <2>1. SimpleScript(Script(test), run)
    BY <1>2, <1>4, RefreshScriptsSimple, SingleUseScriptsSimple
  <2>2. QED
    BY <1>1, <2>1 DEF SimpleScript, SimplePhase, Simple
<1>5. QED
  BY <1>2, <1>3, <1>4, TestsApart

\* Call i of the present phase, about to be decided on the tables d.
Deciding(d, call, i) ==
    /\ TypedDb(d) /\ NamedUpTo(d, run)
    /\ i \in DOMAIN Calls
    /\ IsAsked(call, Calls[i], began, clock)
    /\ call.op # "link"
    /\ call.op \in {"bind", "claim"} => call.account \in DOMAIN d.accounts

\* What the first call of a phase says, and what a later one.
FirstSays(i, answer) ==
    /\ IsSolo(test, phase) => <<answer>> \in Script(test)[phase].expected
    /\ IsMaking(test, phase) => answer = "done"
    /\ IsSmoke(test, phase) => /\ i = 1 => answer = "consumed"
                               /\ i = 2 => answer = "done"
    /\ IsRace(test, phase) => answer = WinOf(test)

LaterSays(i, answer) ==
    /\ IsMaking(test, phase) => answer = "done"
    /\ IsSmoke(test, phase) => /\ i = 1 => answer = "already-consumed"
                               /\ i = 2 => answer = "done"
    /\ IsRace(test, phase) => answer \in LosesOf(test)

\* A phase is of one kind.
LEMMA KindsApart ==
    ASSUME NEW name, NEW k
    PROVE  /\ IsRace(name, k) => /\ ~IsSmoke(name, k) /\ ~IsDefect(name, k)
                                 /\ ~IsMaking(name, k) /\ ~IsSolo(name, k)
           /\ IsSmoke(name, k) => /\ ~IsDefect(name, k) /\ ~IsMaking(name, k)
                                  /\ ~IsSolo(name, k)
           /\ IsMaking(name, k) => ~IsDefect(name, k) /\ ~IsSolo(name, k)
           /\ IsDefect(name, k) => ~IsSolo(name, k)
           /\ \/ IsSolo(name, k) \/ IsRace(name, k) \/ IsSmoke(name, k)
              \/ IsMaking(name, k) \/ IsDefect(name, k)
  BY DEF IsRace, IsSmoke, IsDefect, IsMaking, IsSolo

\* A call that is decided is one of its phase's.
LEMMA PhaseOf ==
    ASSUME Basics, NEW d, NEW call, NEW i, Deciding(d, call, i)
    PROVE  /\ test \in Tests /\ phase \in DOMAIN Script(test)
           /\ Calls = Script(test)[phase].calls
           /\ i \in DOMAIN Script(test)[phase].calls
           /\ RaceScene(test, phase, d, call, i)
<1>1. i \in DOMAIN Calls
  BY DEF Deciding
<1>2. phase \in DOMAIN Script(test) /\ Calls = Script(test)[phase].calls
  BY <1>1 DEF Calls
<1>3. QED
  BY <1>1, <1>2 DEF Deciding, Basics, RaceScene

\* A phase of one call has one call.
LEMMA SoloCalls ==
    ASSUME Basics, phase \in DOMAIN Script(test), IsSolo(test, phase)
    PROVE  /\ \A i : i \in DOMAIN Calls <=> i = 1
           /\ Script(test)[phase].enough = {}
<1>1. PICK c, A : Script(test)[phase] = Alone(c, A)
  BY SoloAlone DEF Basics, IsAlone
<1>2. QED
  BY <1>1, AloneIs DEF Calls

\* The first call answers what it should, and makes the tables what the next
\* phase finds.
LEMMA FirstTurn ==
    ASSUME Basics, ~IsDefect(test, phase), NEW d, NEW call, NEW i,
           Deciding(d, call, i), NEW n, At(phase, d, n),
           i = 1 /\ "now" \in DOMAIN Calls[1] /\ Calls[1].now = Now
                => n = call.now
    PROVE  /\ FirstSays(i, AnswerOf(d, call))
           /\ At(phase + 1, TablesAfter(d, call), clock)
<1> USE DEF At
<1>1. /\ test \in Tests /\ phase \in DOMAIN Script(test)
      /\ Calls = Script(test)[phase].calls
      /\ i \in DOMAIN Script(test)[phase].calls
      /\ RaceScene(test, phase, d, call, i)
  BY PhaseOf
<1>2. CASE IsSolo(test, phase)
  <2>1. i = 1
    BY <1>1, <1>2, SoloCalls
  <2>2. IsAsked(call, Script(test)[phase].calls[1], began, clock)
    BY <1>1, <2>1 DEF Deciding
  <2>3. TypedDb(d) /\ NamedUpTo(d, run)
    BY DEF Deciding
  <2>4. /\ <<AnswerOf(d, call)>> \in Script(test)[phase].expected
        /\ Holds(test, phase + 1, TablesAfter(d, call), run, began, clock)
    BY <1>1, <1>2, <2>1, <2>2, <2>3, SoloStory
  <2>5. QED
    BY <1>2, <2>4, KindsApart DEF FirstSays
<1>3. CASE IsRace(test, phase)
  <2>1. RaceWon(test, phase, d, call)
    BY <1>1, <1>3, RaceTurns DEF Deciding
  <2>2. QED
    BY <1>3, <2>1, KindsApart DEF FirstSays, RaceWon
<1>4. CASE IsSmoke(test, phase)
  <2>1. SmokeFirst(test, phase, d, call, i)
    BY <1>1, <1>4, SmokeTurns DEF IsSmoke
  <2>2. QED
    BY <1>4, <2>1, KindsApart DEF FirstSays, SmokeFirst
<1>5. CASE IsMaking(test, phase)
  <2>1. test = "LinkRace" /\ phase = 1 /\ phase \in {phase, phase + 1}
    BY <1>5 DEF IsMaking
  <2>2. /\ AnswerOf(d, call) = "done"
        /\ Holds(test, phase + 1, TablesAfter(d, call), run, began, clock)
    BY <1>1, <2>1, MakingTurns
  <2>3. QED
    BY <1>5, <2>2, KindsApart DEF FirstSays
<1>6. QED
  BY <1>2, <1>3, <1>4, <1>5, KindsApart

\* Does the call leave the tables it is decided on, or is it of an operation
\* that no adapter splits, or does it revoke what is revoked?
Harmless(d, call) ==
    \/ TablesAfter(d, call) = d
    \/ call.op \in {"createAccount", "invalidateAllFor"}
    \/ /\ test = "RotateRace" /\ phase = 2
       /\ RevokedRow(TablesAfter(d, call).sessions, NameOf(run, 0, "issued"))

\* Of the rotation race only that the token is revoked matters from then on.
LEMMA RevokedHolds ==
    ASSUME NEW d, RevokedRow(d.sessions, NameOf(run, 0, "issued")),
           test = "RotateRace", phase = 2
    PROVE  At(phase + 1, d, clock)
<1>1. /\ test \in RefreshTests /\ test \notin SingleUseTests
      /\ test \notin IdentityTests
  BY DEF RefreshTests, SingleUseTests, IdentityTests
<1>2. QED
  BY <1>1 DEF At, Holds, SessionHolds

\* Every later call answers what it should, and the tables stay good.
LEMMA LaterTurn ==
    ASSUME Basics, ~IsDefect(test, phase), ~IsSolo(test, phase),
           NEW d, NEW call, NEW i, Deciding(d, call, i),
           At(phase + 1, d, clock)
    PROVE  /\ LaterSays(i, AnswerOf(d, call))
           /\ At(phase + 1, TablesAfter(d, call), clock)
           /\ Harmless(d, call)
<1> USE DEF At
<1>1. /\ test \in Tests /\ phase \in DOMAIN Script(test)
      /\ Calls = Script(test)[phase].calls
      /\ i \in DOMAIN Script(test)[phase].calls
      /\ RaceScene(test, phase, d, call, i)
  BY PhaseOf
<1>2. CASE IsRace(test, phase)
  <2>1. RaceLost(test, d, call)
    BY <1>1, <1>2, RaceTurns DEF Deciding
  <2>2. LaterSays(i, AnswerOf(d, call))
    BY <1>2, <2>1, KindsApart DEF LaterSays, RaceLost
  <2>3. Harmless(d, call)
    BY <1>2, <2>1 DEF RaceLost, Harmless, IsRace
  <2>4. CASE TablesAfter(d, call) = d
    BY <2>2, <2>3, <2>4
  <2>5. CASE /\ test = "RotateRace"
             /\ RevokedRow(TablesAfter(d, call).sessions,
                           NameOf(run, 0, "issued"))
    <3>1. phase = 2
      BY <1>2, <2>5 DEF IsRace
    <3>2. QED
      BY <2>2, <2>3, <2>5, <3>1, RevokedHolds
  <2>6. QED
    BY <2>1, <2>4, <2>5 DEF RaceLost
<1>3. CASE IsSmoke(test, phase)
  <2>1. /\ SmokeLater(test, phase, d, call, i)
        /\ i \in {1, 2} /\ (i = 2 => call.op = "invalidateAllFor")
    BY <1>1, <1>3, SmokeTurns DEF IsSmoke
  <2>2. QED
    BY <1>3, <2>1, KindsApart DEF LaterSays, SmokeLater, Harmless
<1>4. CASE IsMaking(test, phase)
  <2>1. test = "LinkRace" /\ phase = 1 /\ phase + 1 \in {phase, phase + 1}
    BY <1>4 DEF IsMaking
  <2>2. /\ AnswerOf(d, call) = "done" /\ call.op = "createAccount"
        /\ Holds(test, phase + 1, TablesAfter(d, call), run, began, clock)
    BY <1>1, <2>1, MakingTurns
  <2>3. QED
    BY <1>4, <2>2, KindsApart DEF LaterSays, Harmless
<1>5. QED
  BY <1>2, <1>3, <1>4, KindsApart

\* A call that would change nothing writes nothing.
LEMMA MergeNothing ==
    ASSUME TypedDb(db), NEW seen, Grown(seen, db), TypedDb(seen)
    PROVE  Merge(seen, seen) = db
<1>1. \A x \in DOMAIN seen.owner : x \in DOMAIN db.owner
  BY DEF TypedDb, Bindings!TypedStore
<1>2. \A x \in DOMAIN seen.epochs : x \in DOMAIN db.epochs
  BY DEF TypedDb
<1>3. ASSUME NEW t, NEW s, DOMAIN s \subseteq DOMAIN t,
             t = [x \in DOMAIN t |-> t[x]]
      PROVE  MergeTable(t, s, s) = t
  <2>1. DOMAIN t \cup DOMAIN s = DOMAIN t
    BY <1>3
  <2>2. MergeTable(t, s, s) = [x \in DOMAIN t |-> t[x]]
    BY <2>1 DEF MergeTable
  <2>3. QED
    BY <1>3, <2>2
<1>4. /\ db.sessions = [x \in DOMAIN db.sessions |-> db.sessions[x]]
      /\ db.tokens = [x \in DOMAIN db.tokens |-> db.tokens[x]]
      /\ db.accounts = [x \in DOMAIN db.accounts |-> db.accounts[x]]
      /\ db.owner = [x \in DOMAIN db.owner |-> db.owner[x]]
      /\ db.epochs = [x \in DOMAIN db.epochs |-> db.epochs[x]]
  BY DEF TypedDb, Sessions!TypedRows, SingleUse!TypedRows, Bindings!TypedStore
<1>5. /\ MergeTable(db.sessions, seen.sessions, seen.sessions) = db.sessions
      /\ MergeTable(db.tokens, seen.tokens, seen.tokens) = db.tokens
      /\ MergeTable(db.accounts, seen.accounts, seen.accounts) = db.accounts
      /\ MergeTable(db.owner, seen.owner, seen.owner) = db.owner
      /\ MergeTable(db.epochs, seen.epochs, seen.epochs) = db.epochs
  BY <1>1, <1>2, <1>3, <1>4 DEF Grown
<1>6. QED
  BY <1>5, MergeIs DEF TypedDb

\* A call that loses on stale rows too leaves what the next phase finds.
LEMMA LaterMerge ==
    ASSUME TypedDb(db), NEW d, TypedDb(d), Grown(d, db), NEW call,
           Harmless(d, call),
           call.op \notin {"createAccount", "invalidateAllFor"},
           At(phase + 1, db, clock)
    PROVE  At(phase + 1, Merge(d, TablesAfter(d, call)), clock)
<1>1. CASE TablesAfter(d, call) = d
  BY <1>1, MergeNothing
<1>2. CASE /\ test = "RotateRace" /\ phase = 2
           /\ RevokedRow(TablesAfter(d, call).sessions,
                         NameOf(run, 0, "issued"))
  <2>1. PICK x, new, after : /\ x = NameOf(run, 0, "issued")
                             /\ after = TablesAfter(d, call)
                             /\ new = Merge(d, TablesAfter(d, call)).sessions
    OBVIOUS
  <2>2. /\ test \in RefreshTests /\ test \notin SingleUseTests
        /\ test \notin IdentityTests
    BY <1>2 DEF RefreshTests, SingleUseTests, IdentityTests
  <2>3. RevokedRow(db.sessions, x)
    BY <1>2, <2>1, <2>2 DEF At, Holds, SessionHolds
  <2>4. new = MergeTable(db.sessions, d.sessions, after.sessions)
    BY <2>1, MergeIs
  <2>5. RevokedRow(new, x)
    BY <1>2, <2>1, <2>3, <2>4 DEF RevokedRow, MergeTable
  <2>6. QED
    BY <1>2, <2>1, <2>5, RevokedHolds
<1>3. QED
  BY <1>1, <1>2 DEF Harmless

JobStep(i) == Serve(i) \/ Read(i) \/ Write(i) \/ LinkLooks(i)

\* AskTime is when the phase's first call was asked.
LEMMA AskedTime ==
    ASSUME JobsMatch, NEW i, i = 1, i \in DOMAIN jobs
    PROVE  "now" \in DOMAIN Calls[1] /\ Calls[1].now = Now
                => AskTime = jobs[i].call.now
  BY DEF AskTime

\* What no step of a call changes.
LEMMA StepKeeps ==
    ASSUME Shape, NEW i \in DOMAIN jobs, JobStep(i)
    PROVE  /\ UNCHANGED <<adapter, options, clock, began, run, test, phase,
                          verdict>>
           /\ Script(test)' = Script(test) /\ Calls' = Calls
           /\ AskTime' = AskTime
           /\ ~Done(jobs[i])
           /\ DOMAIN jobs' = DOMAIN jobs
           /\ \A j \in DOMAIN jobs \ {i} : jobs'[j] = jobs[j]
<1>1. UNCHANGED <<adapter, options, clock, began, run, test, phase, verdict>>
  BY DEF JobStep, Serve, Read, Write, LinkLooks
<1>2. Script(test)' = Script(test) /\ Calls' = Calls
  BY <1>1, CallsKept
<1>3. ~Done(jobs[i])
  BY DEF JobStep, Serve, Read, Write, LinkLooks, Done
<1>4. /\ DOMAIN jobs' = DOMAIN jobs
      /\ \A j \in DOMAIN jobs \ {i} : jobs'[j] = jobs[j]
      /\ \/ jobs'[i].call = jobs[i].call
         \/ jobs'[i].call = [jobs[i].call EXCEPT !.op = "bind"]
  BY JobKeepsJobs DEF JobStep
<1>5. AskTime' = AskTime
  <2>1. CASE 1 \in DOMAIN jobs /\ "now" \in DOMAIN Calls[1]
             /\ Calls[1].now = Now
    <3>1. IsAsked(jobs[1].call, Calls[1], began, clock)
      BY <2>1 DEF Shape, JobsMatch
    <3>2. "now" \in DOMAIN jobs[1].call
      BY <2>1, <3>1 DEF IsAsked
    <3>3. jobs'[1].call.now = jobs[1].call.now
      BY <1>4, <2>1, <3>2
    <3>4. QED
      BY <1>1, <1>2, <1>4, <2>1, <3>3 DEF AskTime
  <2>2. CASE ~(1 \in DOMAIN jobs /\ "now" \in DOMAIN Calls[1]
               /\ Calls[1].now = Now)
    BY <1>1, <1>2, <1>4, <2>2 DEF AskTime
  <2>3. QED
    BY <2>1, <2>2
<1>6. QED
  BY <1>1, <1>2, <1>3, <1>4, <1>5

\* Job i is answered on the tables d: the present ones, or those it has read.
Answers(i, d, call, answer) ==
    /\ call = jobs[i].call /\ answer = AnswerOf(d, call)
    /\ \/ jobs[i].stage = "asked" /\ d = db
       \/ jobs[i].stage = "read" /\ d = jobs[i].seen /\ Split(call)
    /\ Deciding(d, call, i)
    /\ TypedDb(db) /\ TypedDb(d) /\ Grown(d, db)
    /\ db' = Merge(d, TablesAfter(d, call))
    /\ d = db => db' = TablesAfter(db, call)
    /\ Done(jobs'[i]) /\ jobs'[i].answer = answer
    /\ stale' = (stale \/ (d # db /\ answer \in Wins))

\* How a call is answered: by deciding on the tables as they are, or on those
\* it read.
LEMMA AnswersHow ==
    ASSUME Shape, NEW i \in DOMAIN jobs, NEW d,
           \/ Serve(i) /\ d = db
           \/ Write(i) /\ d = jobs[i].seen,
           NEW call, call = jobs[i].call,
           NEW answer, answer = AnswerOf(d, call)
    PROVE  Answers(i, d, call, answer)
<1>1. /\ Basics /\ Tables /\ JobsMatch /\ Readers /\ Made
      /\ TypedDb(db) /\ NamedUpTo(db, run)
  BY DEF Shape, Tables
<1>2. IsJob(jobs[i]) /\ IsAsked(call, Calls[i], began, clock)
      /\ i \in DOMAIN Calls
  BY <1>1 DEF JobsMatch
<1>3. /\ Proper(call, run)
      /\ call.op \in {"bind", "claim", "link"} => call.account \in DOMAIN db.accounts
      /\ run \in Nat \ {0} /\ clock \in Nat
  BY <1>1, JobProper DEF Made
<1>4. CASE Serve(i) /\ d = db
  <2>1. /\ jobs[i].stage = "asked" /\ call.op # "link"
        /\ db' = TablesAfter(db, call)
        /\ Put(i, "answered", Null, AnswerOf(db, call)) /\ stale' = stale
    BY <1>4 DEF Serve
  <2>2. Deciding(d, call, i)
    BY <1>1, <1>2, <1>3, <1>4, <2>1 DEF Deciding
  <2>3. Kept(db, TablesAfter(db, call), run)
    BY <1>1, <1>3, CallTyped
  <2>4. Merge(db, TablesAfter(db, call)) = TablesAfter(db, call)
    BY <1>1, <2>3, MergeFresh DEF Kept
  <2>5. Grown(db, db)
    BY DEF Grown
  <2>6. jobs'[i] = [stage |-> "answered", seen |-> Null,
                    answer |-> AnswerOf(db, call), call |-> jobs[i].call]
    BY <1>2, <2>1, PutEffect
  <2>7. Done(jobs'[i]) /\ jobs'[i].answer = answer
    BY <1>4, <2>6 DEF Done
  <2>8. stale' = (stale \/ (d # db /\ answer \in Wins))
    <3>1. stale \in BOOLEAN
      BY <1>1 DEF Basics
    <3>2. stale' = stale /\ d = db
      BY <1>4, <2>1
    <3>3. QED
      BY <3>1, <3>2
  <2>9. db' = Merge(d, TablesAfter(d, call)) /\ db' = TablesAfter(db, call)
    BY <1>4, <2>1, <2>4
  <2>10. QED
    BY <1>1, <1>4, <2>1, <2>2, <2>5, <2>7, <2>8, <2>9 DEF Answers
<1>5. CASE Write(i) /\ d = jobs[i].seen
  <2>1. /\ jobs[i].stage = "read"
        /\ db' = Merge(d, TablesAfter(d, call))
        /\ Put(i, "answered", Null, AnswerOf(d, call))
        /\ stale' = (stale \/ (d # db /\ answer \in Wins))
    BY <1>5 DEF Write
  <2>2. Split(call) /\ GoodView(d, call) /\ Grown(d, db)
    BY <1>1, <1>5, <2>1 DEF Readers
  <2>3. call.op # "link"
    BY <2>2 DEF Split
  <2>4. Deciding(d, call, i)
    BY <1>2, <2>2, <2>3 DEF Deciding, GoodView
  <2>5. d = db => db' = TablesAfter(db, call)
    <3>1. Kept(db, TablesAfter(db, call), run)
      BY <1>1, <1>3, CallTyped
    <3>2. Merge(db, TablesAfter(db, call)) = TablesAfter(db, call)
      BY <1>1, <3>1, MergeFresh DEF Kept
    <3>3. QED
      BY <2>1, <3>2
  <2>6. jobs'[i] = [stage |-> "answered", seen |-> Null,
                    answer |-> AnswerOf(d, call), call |-> jobs[i].call]
    BY <1>2, <2>1, PutEffect
  <2>7. Done(jobs'[i]) /\ jobs'[i].answer = answer
    BY <2>6 DEF Done
  <2>8. QED
    BY <1>1, <1>5, <2>1, <2>2, <2>4, <2>5, <2>7 DEF Answers, GoodView
<1>6. QED
  BY <1>4, <1>5

\* A win is no loss.
LEMMA WinsAndLoses ==
    ASSUME IsRace(test, phase)
    PROVE  /\ WinOf(test) \in Wins
           /\ \A answer \in LosesOf(test) : answer \notin Wins
           /\ WinOf(test) \notin LosesOf(test)
<1>1. CASE test = "RotateRace"
  BY <1>1 DEF WinOf, LosesOf, Wins
<1>2. CASE test = "LinkRace"
  BY <1>2 DEF WinOf, LosesOf, Wins
<1>3. CASE test = "ClaimRace"
  BY <1>3 DEF WinOf, LosesOf, Wins
<1>4. CASE test = "ConsumeRace"
  BY <1>4 DEF WinOf, LosesOf, Wins
<1>5. CASE test = "IssueRace"
  BY <1>5 DEF WinOf, LosesOf, Wins
<1>6. QED
  BY <1>1, <1>2, <1>3, <1>4, <1>5 DEF IsRace

\* What a step that answers job i has in common.
Answering(i, d, call, answer) ==
    /\ Shape /\ Story /\ ~stale /\ ~IsDefect(test, phase)
    /\ i \in DOMAIN jobs /\ JobStep(i)
    /\ Answers(i, d, call, answer)

\* The first answer of a phase.
LEMMA FirstStory ==
    ASSUME NEW i, NEW d, NEW call, NEW answer, Answering(i, d, call, answer),
           \A j \in DOMAIN jobs : ~Done(jobs[j])
    PROVE  Story' /\ ~stale'
<1>1. /\ Shape /\ ~stale /\ ~IsDefect(test, phase) /\ i \in DOMAIN jobs
      /\ JobStep(i) /\ Answers(i, d, call, answer)
      /\ FirstDecides /\ AnswersFit /\ Basics /\ JobsMatch
  BY DEF Answering, Story, Shape
<1>2. /\ UNCHANGED <<adapter, options, clock, began, run, test, phase, verdict>>
      /\ Script(test)' = Script(test) /\ Calls' = Calls
      /\ AskTime' = AskTime
      /\ ~Done(jobs[i])
      /\ DOMAIN jobs' = DOMAIN jobs
      /\ \A j \in DOMAIN jobs \ {i} : jobs'[j] = jobs[j]
  BY <1>1, StepKeeps
<1>3. At(phase, db, AskTime)
      /\ \A j \in DOMAIN jobs : jobs[j].stage = "read" => jobs[j].seen = db
  BY <1>1 DEF FirstDecides
<1>4. d = db /\ db' = TablesAfter(d, call)
  BY <1>1, <1>3 DEF Answers
<1>5. ~stale'
  BY <1>1, <1>4 DEF Answers
<1>6. i = 1 /\ "now" \in DOMAIN Calls[1] /\ Calls[1].now = Now
            => AskTime = call.now
  BY <1>1, AskedTime DEF Answers
<1>7. /\ FirstSays(i, answer)
      /\ At(phase + 1, TablesAfter(d, call), clock)
  BY <1>1, <1>3, <1>4, <1>6, FirstTurn DEF Answers
<1>8. Done(jobs'[i]) /\ jobs'[i].answer = answer
      /\ \A j \in DOMAIN jobs' \ {i} : ~Done(jobs'[j])
  BY <1>1, <1>2 DEF Answers
<1>9. FirstDecides'
  <2>1. At(phase + 1, db, clock)'
    BY <1>2, <1>4, <1>7 DEF At
  <2>2. ASSUME NEW j \in DOMAIN jobs', jobs'[j].stage = "read"
        PROVE  At(phase, jobs[j].seen, AskTime)'
    <3>1. j # i
      BY <1>8, <2>2 DEF Done
    <3>2. jobs'[j] = jobs[j] /\ jobs[j].seen = db
      BY <1>2, <1>3, <2>2, <3>1
    <3>3. QED
      BY <1>2, <1>3, <3>2 DEF At
  <2>3. QED
    BY <1>1, <1>2, <1>8, <2>1, <2>2 DEF FirstDecides
<1>10. AnswersFit'
  <2>1. /\ IsSolo(test, phase)' => <<answer>> \in Script(test)[phase].expected
        /\ IsMaking(test, phase)' => answer = "done"
        /\ IsSmoke(test, phase)' => /\ i = 1 => answer = "consumed"
                                    /\ i = 2 => answer = "done"
        /\ IsRace(test, phase)' => answer = WinOf(test)
    BY <1>2, <1>7 DEF FirstSays
  <2>2. test' = test /\ phase' = phase /\ Script(test)' = Script(test)
    BY <1>2
  <2>3. QED
    BY <1>1, <1>2, <1>8, <2>1, <2>2 DEF AnswersFit
<1>11. QED
  BY <1>1, <1>2, <1>5, <1>9, <1>10 DEF Story

\* A later answer, decided on tables another call has changed already.
LEMMA LaterStory ==
    ASSUME NEW i, NEW d, NEW call, NEW answer, Answering(i, d, call, answer),
           \E j \in DOMAIN jobs : Done(jobs[j]), At(phase + 1, d, clock)
    PROVE  Story' /\ ~stale'
<1>1. /\ Shape /\ ~stale /\ ~IsDefect(test, phase) /\ i \in DOMAIN jobs
      /\ JobStep(i) /\ Answers(i, d, call, answer)
      /\ FirstDecides /\ AnswersFit /\ Basics /\ JobsMatch
  BY DEF Answering, Story, Shape
<1>2. /\ UNCHANGED <<adapter, options, clock, began, run, test, phase, verdict>>
      /\ Script(test)' = Script(test) /\ Calls' = Calls
      /\ AskTime' = AskTime
      /\ ~Done(jobs[i])
      /\ DOMAIN jobs' = DOMAIN jobs
      /\ \A j \in DOMAIN jobs \ {i} : jobs'[j] = jobs[j]
  BY <1>1, StepKeeps
<1>3. ~IsSolo(test, phase)
  <2>1. SUFFICES ASSUME IsSolo(test, phase) PROVE FALSE
    OBVIOUS
  <2>2. phase \in DOMAIN Script(test)
    BY <1>1 DEF JobsMatch, Calls
  <2>3. \A j \in DOMAIN jobs : j = 1
    BY <1>1, <2>1, <2>2, SoloCalls DEF JobsMatch
  <2>4. QED
    BY <1>1, <1>2, <2>3
<1>4. At(phase + 1, db, clock)
  BY <1>1 DEF FirstDecides
<1>5. /\ LaterSays(i, answer) /\ Harmless(d, call)
      /\ At(phase + 1, TablesAfter(d, call), clock)
  BY <1>1, <1>3, LaterTurn DEF Answers
<1>6. At(phase + 1, db', clock)
  <2>1. CASE d = db
    BY <1>1, <1>5, <2>1 DEF Answers
  <2>2. CASE d # db
    <3>1. Split(call) /\ TypedDb(db) /\ TypedDb(d) /\ Grown(d, db)
          /\ db' = Merge(d, TablesAfter(d, call))
      BY <1>1, <2>2 DEF Answers
    <3>2. call.op \notin {"createAccount", "invalidateAllFor"}
      BY <3>1 DEF Split
    <3>3. QED
      BY <1>4, <1>5, <3>1, <3>2, LaterMerge
  <2>3. QED
    BY <2>1, <2>2
<1>7. Done(jobs'[i]) /\ jobs'[i].answer = answer
  BY <1>1 DEF Answers
<1>8. FirstDecides'
  <2>1. At(phase + 1, db, clock)'
    BY <1>2, <1>6 DEF At
  <2>2. ASSUME NEW j \in DOMAIN jobs', jobs'[j].stage = "read"
        PROVE  At(phase, jobs[j].seen, AskTime)'
               \/ At(phase + 1, jobs[j].seen, clock)'
    <3>1. j # i
      BY <1>7, <2>2 DEF Done
    <3>2. jobs'[j] = jobs[j] /\ j \in DOMAIN jobs
      BY <1>2, <3>1
    <3>3. At(phase, jobs[j].seen, AskTime) \/ At(phase + 1, jobs[j].seen, clock)
      BY <1>1, <2>2, <3>2 DEF FirstDecides
    <3>4. QED
      BY <1>2, <3>2, <3>3 DEF At
  <2>3. QED
    BY <1>1, <1>7, <1>2, <2>1, <2>2 DEF FirstDecides
<1>9. AnswersFit'
  <2>1. test' = test /\ phase' = phase /\ Script(test)' = Script(test)
    BY <1>2
  <2>2. IsRace(test, phase) =>
            \E w \in DOMAIN jobs' :
                /\ Done(jobs'[w]) /\ jobs'[w].answer = WinOf(test)
                /\ \A j \in DOMAIN jobs' \ {w} : Done(jobs'[j]) =>
                        jobs'[j].answer \in LosesOf(test)
    <3>1. SUFFICES ASSUME IsRace(test, phase)
                   PROVE  \E w \in DOMAIN jobs' :
                    /\ Done(jobs'[w]) /\ jobs'[w].answer = WinOf(test)
                    /\ \A j \in DOMAIN jobs' \ {w} : Done(jobs'[j]) =>
                            jobs'[j].answer \in LosesOf(test)
      OBVIOUS
    <3>2. PICK w \in DOMAIN jobs :
                /\ Done(jobs[w]) /\ jobs[w].answer = WinOf(test)
                /\ \A j \in DOMAIN jobs \ {w} : Done(jobs[j]) =>
                        jobs[j].answer \in LosesOf(test)
      BY <1>1, <3>1 DEF AnswersFit
    <3>3. answer \in LosesOf(test)
      BY <1>5, <3>1 DEF LaterSays
    <3>4. w # i
      BY <1>2, <3>2
    <3>5. QED
      BY <1>2, <1>7, <3>2, <3>3, <3>4
  <2>3. /\ IsMaking(test, phase) => answer = "done"
        /\ IsSmoke(test, phase) => /\ i = 1 => answer = "already-consumed"
                                   /\ i = 2 => answer = "done"
    BY <1>5 DEF LaterSays
  <2>4. IsMaking(test, phase) => \A j \in DOMAIN jobs' : Done(jobs'[j]) =>
            jobs'[j].answer = "done"
    BY <1>1, <1>2, <1>7, <2>3 DEF AnswersFit
  <2>5. IsSmoke(test, phase) => \A j \in DOMAIN jobs' : Done(jobs'[j]) =>
            /\ j = 1 => jobs'[j].answer \in {"consumed", "already-consumed"}
            /\ j = 2 => jobs'[j].answer = "done"
    BY <1>1, <1>2, <1>7, <2>3 DEF AnswersFit
  <2>6. QED
    BY <1>3, <2>1, <2>2, <2>4, <2>5 DEF AnswersFit
<1>10. ~stale'
  <2>1. CASE d = db
    BY <1>1, <2>1 DEF Answers
  <2>2. CASE d # db
    <3>1. Split(call)
      BY <1>1, <2>2 DEF Answers
    <3>2. answer \notin Wins
      <4>1. CASE IsRace(test, phase)
        BY <1>5, <4>1, WinsAndLoses DEF LaterSays
      <4>2. CASE IsMaking(test, phase)
        BY <1>5, <4>2 DEF LaterSays, Wins
      <4>3. CASE IsSmoke(test, phase)
        <5>1. i \in {1, 2}
          BY <1>1, <4>3, PhaseOf, SmokeTurns DEF Answers, IsSmoke
        <5>2. QED
          BY <1>5, <4>3, <5>1 DEF LaterSays, Wins
      <4>4. QED
        BY <1>1, <1>3, <4>1, <4>2, <4>3, KindsApart
    <3>3. QED
      BY <1>1, <3>2 DEF Answers
  <2>3. QED
    BY <2>1, <2>2
<1>11. QED
  BY <1>1, <1>2, <1>8, <1>9, <1>10 DEF Story

\* A later answer, decided on tables from before the first: it wins too.
LEMMA StaleStory ==
    ASSUME NEW i, NEW d, NEW call, NEW answer, Answering(i, d, call, answer),
           \E j \in DOMAIN jobs : Done(jobs[j]), ~At(phase + 1, d, clock),
           verdict = "running"
    PROVE  stale' /\ Doomed'
<1>1. /\ Shape /\ ~stale /\ ~IsDefect(test, phase) /\ i \in DOMAIN jobs
      /\ JobStep(i) /\ Answers(i, d, call, answer)
      /\ FirstDecides /\ AnswersFit /\ Basics /\ JobsMatch
  BY DEF Answering, Story, Shape
<1>2. /\ UNCHANGED <<adapter, options, clock, began, run, test, phase, verdict>>
      /\ Script(test)' = Script(test) /\ Calls' = Calls
      /\ AskTime' = AskTime
      /\ ~Done(jobs[i])
      /\ DOMAIN jobs' = DOMAIN jobs
      /\ \A j \in DOMAIN jobs \ {i} : jobs'[j] = jobs[j]
  BY <1>1, StepKeeps
<1>3. At(phase + 1, db, clock)
  BY <1>1 DEF FirstDecides
<1>4. d # db /\ Split(call) /\ jobs[i].stage = "read" /\ d = jobs[i].seen
  BY <1>1, <1>3 DEF Answers
<1>5. At(phase, d, AskTime)
  BY <1>1, <1>4 DEF FirstDecides
<1>6. i = 1 /\ "now" \in DOMAIN Calls[1] /\ Calls[1].now = Now
            => AskTime = call.now
  BY <1>1, AskedTime DEF Answers
<1>7. FirstSays(i, answer)
  BY <1>1, <1>5, <1>6, FirstTurn DEF Answers
<1>8. /\ Done(jobs'[i]) /\ jobs'[i].answer = answer
      /\ stale' = (stale \/ (d # db /\ answer \in Wins))
  BY <1>1 DEF Answers
<1>9. CASE IsRace(test, phase)
  <2>1. answer = WinOf(test)
    BY <1>7, <1>9 DEF FirstSays
  <2>2. stale'
    BY <1>4, <1>8, <1>9, <2>1, WinsAndLoses
  <2>3. PICK w \in DOMAIN jobs : Done(jobs[w]) /\ jobs[w].answer = WinOf(test)
    BY <1>1, <1>9 DEF AnswersFit
  <2>4. w # i /\ jobs'[w] = jobs[w]
    BY <1>2, <2>3
  <2>5. TwoWinners'
    BY <1>1, <1>2, <1>8, <2>1, <2>3, <2>4 DEF TwoWinners
  <2>6. QED
    BY <1>2, <1>9, <2>2, <2>5 DEF Doomed
<1>10. CASE IsSmoke(test, phase)
  <2>1. i \in {1, 2} /\ (i = 2 => call.op = "invalidateAllFor")
    BY <1>1, <1>10, PhaseOf, SmokeTurns DEF Answers, IsSmoke
  <2>2. i = 1
    BY <1>4, <2>1 DEF Split
  <2>3. answer = "consumed"
    BY <1>7, <1>10, <2>2 DEF FirstSays
  <2>4. stale'
    BY <1>4, <1>8, <2>3 DEF Wins
  <2>5. QED
    BY <1>2, <1>10, <2>4 DEF Doomed, IsSmoke
<1>11. CASE IsMaking(test, phase)
  <2>1. call.op = "createAccount"
    <3>1. /\ test = "LinkRace" /\ phase = 1 /\ phase \in {phase, phase + 1}
      BY <1>11 DEF IsMaking
    <3>2. /\ i \in DOMAIN Script(test)[phase].calls
          /\ RaceScene(test, phase, d, call, i)
      BY <1>1, PhaseOf DEF Answers
    <3>3. Holds(test, phase, d, run, began, AskTime)
      BY <1>5 DEF At
    <3>4. QED
      BY <3>1, <3>2, <3>3, MakingTurns
  <2>2. QED
    BY <1>4, <2>1 DEF Split
<1>12. CASE IsSolo(test, phase)
  <2>1. phase \in DOMAIN Script(test)
    BY <1>1 DEF JobsMatch, Calls
  <2>2. \A j \in DOMAIN jobs : j = 1
    BY <1>1, <1>12, <2>1, SoloCalls DEF JobsMatch
  <2>3. QED
    BY <1>1, <1>2, <2>2
<1>13. QED
  BY <1>1, <1>9, <1>10, <1>11, <1>12, KindsApart

\* A step of job i before anything went wrong.
Undecided(i) ==
    /\ Shape /\ Story /\ ~stale /\ ~IsDefect(test, phase)
    /\ i \in DOMAIN jobs /\ JobStep(i)

\* A read answers nothing.
LEMMA QuietStory ==
    ASSUME NEW i, Undecided(i), db' = db, stale' = stale, ~Done(jobs'[i]),
           jobs'[i].stage = "read" => jobs'[i].seen = db
    PROVE  Story' /\ ~stale'
<1>1. /\ Shape /\ ~stale /\ ~IsDefect(test, phase) /\ i \in DOMAIN jobs
      /\ JobStep(i) /\ FirstDecides /\ AnswersFit
  BY DEF Undecided, Story
<1>2. /\ UNCHANGED <<adapter, options, clock, began, run, test, phase, verdict>>
      /\ Script(test)' = Script(test) /\ Calls' = Calls
      /\ AskTime' = AskTime
      /\ ~Done(jobs[i])
      /\ DOMAIN jobs' = DOMAIN jobs
      /\ \A j \in DOMAIN jobs \ {i} : jobs'[j] = jobs[j]
  BY <1>1, StepKeeps
<1>3. \A j \in DOMAIN jobs : Done(jobs'[j]) => j # i /\ jobs'[j] = jobs[j]
  BY <1>2
<1>4. \A j \in DOMAIN jobs : Done(jobs'[j]) <=> Done(jobs[j])
  BY <1>2
<1>5. FirstDecides'
  <2>1. (\A j \in DOMAIN jobs' : ~Done(jobs'[j])) =>
            /\ At(phase, db, AskTime)'
            /\ \A j \in DOMAIN jobs' : jobs'[j].stage = "read" =>
                    jobs'[j].seen = db'
    <3>1. SUFFICES ASSUME \A j \in DOMAIN jobs' : ~Done(jobs'[j])
                   PROVE  /\ At(phase, db, AskTime)'
                          /\ \A j \in DOMAIN jobs' : jobs'[j].stage = "read" =>
                                jobs'[j].seen = db'
      OBVIOUS
    <3>2. /\ At(phase, db, AskTime)
          /\ \A j \in DOMAIN jobs : jobs[j].stage = "read" => jobs[j].seen = db
      BY <1>1, <1>2, <1>4, <3>1 DEF FirstDecides
    <3>3. At(phase, db, AskTime)'
      BY <1>2, <3>2 DEF At
    <3>4. QED
      BY <1>2, <3>2, <3>3
  <2>2. (\E j \in DOMAIN jobs' : Done(jobs'[j])) => At(phase + 1, db, clock)'
    <3>1. (\E j \in DOMAIN jobs' : Done(jobs'[j])) => At(phase + 1, db, clock)
      BY <1>1, <1>2, <1>4 DEF FirstDecides
    <3>2. QED
      BY <1>2, <3>1 DEF At
  <2>3. ASSUME NEW j \in DOMAIN jobs', jobs'[j].stage = "read"
        PROVE  At(phase, jobs[j].seen, AskTime)'
               \/ At(phase + 1, jobs[j].seen, clock)'
    <3>1. At(phase, jobs'[j].seen, AskTime) \/ At(phase + 1, jobs'[j].seen, clock)
      <4>1. CASE j = i
        BY <1>1, <2>3, <4>1 DEF FirstDecides
      <4>2. CASE j # i
        BY <1>1, <1>2, <2>3, <4>2 DEF FirstDecides
      <4>3. QED
        BY <4>1, <4>2
    <3>2. QED
      BY <1>2, <3>1 DEF At
  <2>4. QED
    BY <2>1, <2>2, <2>3 DEF FirstDecides
<1>6. AnswersFit'
  BY <1>1, <1>2, <1>3, <1>4 DEF AnswersFit
<1>7. QED
  BY <1>1, <1>2, <1>5, <1>6 DEF Story

\* Nor does a link that looks first and goes on to bind.
LEMMA LinkStory ==
    ASSUME NEW i, Undecided(i), LinkLooks(i)
    PROVE  Story' /\ ~stale'
<1>1. /\ Shape /\ ~stale /\ ~IsDefect(test, phase) /\ i \in DOMAIN jobs
      /\ JobStep(i) /\ FirstDecides /\ AnswersFit
      /\ Basics /\ JobsMatch
  BY DEF Undecided, Story, Shape
<1>2. /\ UNCHANGED <<adapter, options, clock, began, run, test, phase, verdict>>
      /\ Script(test)' = Script(test) /\ Calls' = Calls
      /\ AskTime' = AskTime
      /\ ~Done(jobs[i])
      /\ DOMAIN jobs' = DOMAIN jobs
      /\ \A j \in DOMAIN jobs \ {i} : jobs'[j] = jobs[j]
  BY <1>1, StepKeeps
<1>3. /\ IsJob(jobs[i]) /\ IsAsked(jobs[i].call, Calls[i], began, clock)
      /\ i \in DOMAIN Calls
  BY <1>1 DEF JobsMatch
<1>4. /\ jobs[i].stage = "asked" /\ jobs[i].call.op = "link"
      /\ db' = db /\ stale' = stale
  BY DEF LinkLooks
<1>5. Calls[i].op = "link"
  BY <1>3, <1>4 DEF IsAsked
<1>6. test = "LinkRace" /\ phase = 2
  BY <1>1, <1>3, <1>5, LinkOnly
<1>7. jobs[i].call.identity.key \in Keys
  <2>1. Proper(jobs[i].call, run)
    BY <1>1, JobProper
  <2>2. jobs[i].call.identity \in Bindings!Identity
    BY <1>4, <2>1 DEF Proper, Fit
  <2>3. QED
    BY <2>2 DEF Bindings!Identity
<1>8. CASE db.owner[jobs[i].call.identity.key] = Null
  <2>1. jobs' = [jobs EXCEPT ![i].call.op = "bind"]
    BY <1>8 DEF LinkLooks
  <2>2. jobs'[i].stage = "asked"
    BY <1>1, <1>3, <1>4, <2>1 DEF IsJob
  <2>3. QED
    BY <1>4, <2>2, QuietStory DEF Done
<1>9. CASE db.owner[jobs[i].call.identity.key] # Null
  <2>1. Put(i, "answered", Null, "refused")
    BY <1>9 DEF LinkLooks
  <2>2. Done(jobs'[i]) /\ jobs'[i].answer = "refused"
    <3>1. jobs'[i] = [stage |-> "answered", seen |-> Null,
                      answer |-> "refused", call |-> jobs[i].call]
      BY <1>1, <1>3, <2>1, PutEffect
    <3>2. QED
      BY <3>1 DEF Done
  <2>3. \E j \in DOMAIN jobs : Done(jobs[j])
    <3>1. SUFFICES ASSUME \A j \in DOMAIN jobs : ~Done(jobs[j])
                   PROVE  FALSE
      OBVIOUS
    <3>2. At(phase, db, AskTime)
      BY <1>1, <3>1 DEF FirstDecides
    <3>3. BindingHolds(test, phase, db.accounts, db.owner)
      BY <1>6, <3>2 DEF At, Holds, IdentityTests
    <3>4. Unbound(db.owner)
      BY <1>6, <3>3 DEF BindingHolds
    <3>5. QED
      BY <1>7, <1>9, <3>4 DEF Unbound
  <2>4. IsRace(test, phase)
    BY <1>6 DEF IsRace
  <2>5. "refused" \in LosesOf(test)
    BY <1>6 DEF LosesOf
  <2>6. FirstDecides'
    <3>1. At(phase + 1, db, clock)'
      BY <1>1, <1>2, <1>4, <2>3 DEF FirstDecides, At
    <3>2. ASSUME NEW j \in DOMAIN jobs', jobs'[j].stage = "read"
          PROVE  At(phase, jobs[j].seen, AskTime)'
                 \/ At(phase + 1, jobs[j].seen, clock)'
      <4>1. j # i
        BY <2>2, <3>2 DEF Done
      <4>2. jobs'[j] = jobs[j] /\ j \in DOMAIN jobs
        BY <1>2, <4>1
      <4>3. At(phase, jobs[j].seen, AskTime) \/ At(phase + 1, jobs[j].seen, clock)
        BY <1>1, <3>2, <4>2 DEF FirstDecides
      <4>4. QED
        BY <1>2, <4>2, <4>3 DEF At
    <3>3. QED
      BY <1>1, <1>2, <2>2, <3>1, <3>2 DEF FirstDecides
  <2>7. AnswersFit'
    <3>1. PICK w \in DOMAIN jobs :
                /\ Done(jobs[w]) /\ jobs[w].answer = WinOf(test)
                /\ \A j \in DOMAIN jobs \ {w} : Done(jobs[j]) =>
                        jobs[j].answer \in LosesOf(test)
      BY <1>1, <2>3, <2>4 DEF AnswersFit
    <3>2. w # i
      BY <1>2, <3>1
    <3>3. \E v \in DOMAIN jobs' :
                /\ Done(jobs'[v]) /\ jobs'[v].answer = WinOf(test)
                /\ \A j \in DOMAIN jobs' \ {v} : Done(jobs'[j]) =>
                        jobs'[j].answer \in LosesOf(test)
      BY <1>2, <2>2, <2>5, <3>1, <3>2
    <3>4. ~IsSolo(test, phase) /\ ~IsMaking(test, phase) /\ ~IsSmoke(test, phase)
      BY <2>4, KindsApart
    <3>5. QED
      BY <1>2, <3>3, <3>4 DEF AnswersFit
  <2>8. QED
    BY <1>1, <1>2, <1>4, <2>6, <2>7 DEF Story
<1>10. QED
  BY <1>8, <1>9

\* Told is kept by the jobs of every phase but the one that races a revocation.
LEMMA JobStory ==
    ASSUME NEW i, Undecided(i), verdict = "running"
    PROVE  (~stale' => Story') /\ (stale' => Doomed')
<1>1. Shape /\ ~stale /\ i \in DOMAIN jobs /\ JobStep(i)
  BY DEF Undecided
<1>2. CASE Read(i)
  <2>1. db' = db /\ stale' = stale /\ Put(i, "read", db, Null)
    BY <1>2 DEF Read
  <2>2. IsJob(jobs[i])
    BY <1>1 DEF Shape, JobsMatch
  <2>3. jobs'[i].stage = "read" /\ jobs'[i].seen = db
    <3>1. jobs'[i] = [stage |-> "read", seen |-> db, answer |-> Null,
                      call |-> jobs[i].call]
      BY <1>1, <2>1, <2>2, PutEffect
    <3>2. QED
      BY <3>1
  <2>4. QED
    BY <2>1, <2>3, QuietStory DEF Done
<1>3. CASE LinkLooks(i)
  BY <1>3, LinkStory
<1>4. ASSUME NEW d, \/ Serve(i) /\ d = db
                    \/ Write(i) /\ d = jobs[i].seen
      PROVE  (~stale' => Story') /\ (stale' => Doomed')
  <2>1. PICK call, answer : call = jobs[i].call /\ answer = AnswerOf(d, call)
    OBVIOUS
  <2>2. Answers(i, d, call, answer)
    BY <1>1, <1>4, <2>1, AnswersHow
  <2>3. Answering(i, d, call, answer)
    BY <2>2 DEF Answering, Undecided
  <2>4. CASE \A j \in DOMAIN jobs : ~Done(jobs[j])
    BY <2>3, <2>4, FirstStory
  <2>5. CASE (\E j \in DOMAIN jobs : Done(jobs[j])) /\ At(phase + 1, d, clock)
    BY <2>3, <2>5, LaterStory
  <2>6. CASE (\E j \in DOMAIN jobs : Done(jobs[j])) /\ ~At(phase + 1, d, clock)
    BY <2>3, <2>6, StaleStory
  <2>7. QED
    BY <2>4, <2>5, <2>6
<1>5. QED
  BY <1>1, <1>2, <1>3, <1>4 DEF JobStep

\* DefectA: a replay races the revocation of its family, and then the sibling
\* is looked up.
LEMMA DefectScript ==
    LET s == Script("DefectA")
    IN  /\ DOMAIN s = 1 .. 4
        /\ s[3].calls = <<Refresh("issued", "sibling"), RevokeFamily("issued")>>
        /\ s[3].expected =
                {<<answer, "done">> : answer \in Rotated \cup {"reuse"}}
        /\ s[3].enough = {<<"reuse", "done">>}
        /\ s[4] = Alone(FindByHash("sibling"), {"revoked"})
<1>1. Script("DefectA") = DefectA
  BY RefreshScripts
<1>2. DOMAIN DefectA = 1 .. 4
  BY DEF DefectA
<1>3. DefectA[4] = Alone(FindByHash("sibling"), {"revoked"})
  BY DEF DefectA
<1>4. PICK c : c = <<Refresh("issued", "sibling"), RevokeFamily("issued")>>
  OBVIOUS
<1>5. PICK e : e = {<<answer, "done">> : answer \in Rotated \cup {"reuse"}}
  OBVIOUS
<1>6. PICK n : n = {<<"reuse", "done">>}
  OBVIOUS
<1>7. DefectA[3] = [Together(c, e) EXCEPT !.enough = n]
  BY <1>4, <1>5, <1>6 DEF DefectA
<1>8. DefectA[3].calls = c /\ DefectA[3].expected = e /\ DefectA[3].enough = n
  BY <1>7 DEF Together
<1>9. QED
  BY <1>1, <1>2, <1>3, <1>4, <1>5, <1>6, <1>8

\* The calls of its race, and of its lookup.
LEMMA DefectCalls ==
    ASSUME Basics, test = "DefectA"
    PROVE  /\ phase = 3 => /\ \A i : i \in DOMAIN Calls <=> i = 1 \/ i = 2
                           /\ Calls[1] = Refresh("issued", "sibling")
                           /\ Calls[2] = RevokeFamily("issued")
           /\ phase = 4 => /\ \A i : i \in DOMAIN Calls <=> i = 1
                           /\ Calls[1] = FindByHash("sibling")
<1>1. phase \in 1 .. 4 => Calls = Script("DefectA")[phase].calls
  BY DefectScript DEF Calls
<1>2. ASSUME phase = 3
      PROVE  /\ \A i : i \in DOMAIN Calls <=> i = 1 \/ i = 2
             /\ Calls[1] = Refresh("issued", "sibling")
             /\ Calls[2] = RevokeFamily("issued")
  <2>1. PICK c, e : c = Refresh("issued", "sibling") /\ e = RevokeFamily("issued")
    OBVIOUS
  <2>2. Calls = <<c, e>>
    BY <1>1, <1>2, <2>1, DefectScript
  <2>3. QED
    BY <2>1, <2>2
<1>3. ASSUME phase = 4
      PROVE  /\ \A i : i \in DOMAIN Calls <=> i = 1
             /\ Calls[1] = FindByHash("sibling")
  <2>1. PICK c, A : c = FindByHash("sibling") /\ A = {"revoked"}
    OBVIOUS
  <2>2. Calls = Alone(c, A).calls
    BY <1>1, <1>3, <2>1, DefectScript
  <2>3. QED
    BY <2>1, <2>2, AloneIs
<1>4. QED
  BY <1>2, <1>3

\* The last call of DefectA reads, and finds a sibling that is not revoked.
LEMMA LookStep ==
    ASSUME Shape, test = "DefectA", phase = 4, NEW i \in DOMAIN jobs, JobStep(i),
           NEW x, x = NameOf(run, 0, "sibling"), x \in DOMAIN db.sessions
    PROVE  /\ db' = db /\ stale' = stale /\ Done(jobs'[i])
           /\ jobs'[i].answer =
                IF db.sessions[x].revokedAt # Null THEN "revoked" ELSE "live"
<1>1. /\ Basics /\ JobsMatch /\ Readers /\ i = 1
      /\ IsJob(jobs[i]) /\ IsAsked(jobs[i].call, Calls[i], began, clock)
      /\ Calls[i] = FindByHash("sibling")
  BY DefectCalls DEF Shape, JobsMatch
<1>2. Calls[i].op = "findByHash" /\ Calls[i].old = It("sibling")
      /\ "old" \in DOMAIN Calls[i]
  BY <1>1 DEF FindByHash
<1>3. jobs[i].call.op = "findByHash" /\ jobs[i].call.old = It("sibling")
  BY <1>1, <1>2 DEF IsAsked
<1>4. It("sibling") = x
  BY DEF It, Drawn, NameOf
<1>5. ~Split(jobs[i].call)
  BY <1>3 DEF Split
<1>6. Serve(i)
  BY <1>1, <1>3, <1>5 DEF JobStep, Read, Write, LinkLooks, Readers
<1>7. PICK call, answer : call = jobs[i].call /\ answer = AnswerOf(db, call)
  OBVIOUS
<1>8. TablesAfter(db, call) = db
  BY <1>3, <1>7 DEF TablesAfter
<1>9. AnswerOf(db, call) = RowState(db.sessions, call.old)
  BY <1>3, <1>7 DEF AnswerOf
<1>10. RowState(db.sessions, x) =
            IF db.sessions[x].revokedAt # Null THEN "revoked" ELSE "live"
  BY DEF RowState, Sessions!IsRevoked
<1>11. Put(i, "answered", Null, answer) /\ db' = db /\ stale' = stale
  BY <1>6, <1>7, <1>8 DEF Serve
<1>12. jobs'[i] = [stage |-> "answered", seen |-> Null, answer |-> answer,
                   call |-> jobs[i].call]
  BY <1>1, <1>11, PutEffect
<1>13. Done(jobs'[i]) /\ jobs'[i].answer = answer
  BY <1>12 DEF Done
<1>14. QED
  BY <1>3, <1>4, <1>7, <1>9, <1>10, <1>11, <1>13

\* A rotation that survived the revocation is not undone.
LEMMA SurvivedStep ==
    ASSUME Shape, Survived, verdict = "running", NEW i \in DOMAIN jobs, JobStep(i)
    PROVE  Survived'
<1>1. Basics /\ JobsMatch /\ test = "DefectA"
  BY DEF Shape, Survived
<1>2. /\ UNCHANGED <<adapter, options, clock, began, run, test, phase, verdict>>
      /\ ~Done(jobs[i]) /\ DOMAIN jobs' = DOMAIN jobs
      /\ \A j \in DOMAIN jobs \ {i} : jobs'[j] = jobs[j]
  BY StepKeeps
<1>3. PICK x : x = NameOf(run, 0, "sibling")
  OBVIOUS
<1>4. x = NameOf(run, 0, "sibling")'
  BY <1>2, <1>3
<1>5. CASE phase = 3
  <2>1. i = 1 \/ i = 2
    BY <1>1, <1>5, DefectCalls DEF JobsMatch
  <2>2. QED
    BY <1>2, <1>5, <2>1 DEF Survived
<1>6. CASE phase = 4
  <2>1. i = 1
    BY <1>1, <1>6, DefectCalls DEF JobsMatch
  <2>2. x \in DOMAIN db.sessions /\ db.sessions[x].revokedAt = Null
    BY <1>2, <1>3, <1>6, <2>1 DEF Survived
  <2>3. Done(jobs'[i]) /\ jobs'[i].answer = "live"
    BY <1>1, <1>3, <1>6, <2>2, LookStep
  <2>4. QED
    BY <1>1, <1>2, <1>6, <2>1, <2>3 DEF Survived
<1>7. QED
  BY <1>5, <1>6 DEF Survived

\* Nor is a race with two winners.
LEMMA DoomedStep ==
    ASSUME Shape, stale, Doomed, verdict = "running",
           NEW i \in DOMAIN jobs, JobStep(i)
    PROVE  stale' /\ Doomed'
<1>1. /\ UNCHANGED <<adapter, options, clock, began, run, test, phase, verdict>>
      /\ ~Done(jobs[i]) /\ DOMAIN jobs' = DOMAIN jobs
      /\ \A j \in DOMAIN jobs \ {i} : jobs'[j] = jobs[j]
  BY StepKeeps
<1>2. stale'
  BY DEF JobStep, Serve, Read, Write, LinkLooks
<1>3. CASE test = "ConsumeInvalidateSmoke"
  BY <1>1, <1>2, <1>3 DEF Doomed
<1>4. CASE IsRace(test, phase) /\ TwoWinners
  <2>1. PICK v, w \in DOMAIN jobs :
            /\ v # w /\ Done(jobs[v]) /\ Done(jobs[w])
            /\ jobs[v].answer = WinOf(test) /\ jobs[w].answer = WinOf(test)
    BY <1>4 DEF TwoWinners
  <2>2. v # i /\ w # i
    BY <1>1, <2>1
  <2>3. jobs'[v] = jobs[v] /\ jobs'[w] = jobs[w]
    BY <1>1, <2>2
  <2>4. TwoWinners'
    BY <1>1, <2>1, <2>3 DEF TwoWinners
  <2>5. QED
    BY <1>1, <1>2, <1>4, <2>4 DEF Doomed
<1>5. CASE Survived
  <2>1. Survived'
    BY <1>5, SurvivedStep
  <2>2. QED
    BY <1>1, <1>2, <2>1 DEF Doomed
<1>6. QED
  BY <1>3, <1>4, <1>5 DEF Doomed

\* The rows that the phase of DefectA finds.
DefectRows(rows, n) ==
    LET issued == NameOf(run, 0, "issued")
        next == NameOf(run, 0, "next")
        sibling == NameOf(run, 0, "sibling")
    IN  /\ SwappedRow(rows, issued, next, issued, 0 .. n)
        /\ LiveRow(rows, next, issued, began + Ttl)
        /\ sibling \notin DOMAIN rows

\* What the race finds, written out.
LEMMA DefectRowsAt ==
    ASSUME IsDefect(test, phase), NEW d, NEW n, At(phase, d, n)
    PROVE  DefectRows(d.sessions, n)
<1>1. test = "DefectA" /\ phase = 3
  BY DEF IsDefect
<1>2. SessionHolds(test, phase, d.sessions, run, began, n)
  BY <1>1 DEF At, Holds, RefreshTests
<1>3. QED
  BY <1>1, <1>2 DEF SessionHolds, DefectRows

\* A replay before the revocation is let through.
LEMMA ReplayFirst ==
    ASSUME Basics, NEW d, TypedDb(d), NEW call,
           IsAsked(call, Refresh("issued", "sibling"), began, clock),
           NEW n, n = call.now, DefectRows(d.sessions, n),
           NEW x, x = NameOf(run, 0, "issued"),
           NEW z, z = NameOf(run, 0, "sibling")
    PROVE  /\ AnswerOf(d, call) = "benign-race"
           /\ LiveRow(TablesAfter(d, call).sessions, z, x, began + Ttl)
<1>1. PICK u \in Uses, v \in Uses : u = "issued" /\ v = "sibling"
  BY DEF Uses
<1>2. /\ call.op = "rotate" /\ call.old = x /\ call.as = z
      /\ call.graceMs = Grace /\ call.now \in began .. clock /\ Proper(call, run)
  BY <1>1, AskedRefresh
<1>3. /\ began \in Nat /\ clock \in Nat /\ clock <= Grace
      /\ Grace \in Nat /\ Ttl \in Nat /\ 0 < Grace /\ Grace < Ttl
  BY SuiteAssumption DEF Basics
<1>4. PICK y, f : y = NameOf(run, 0, "next") /\ f = x
  OBVIOUS
<1>5. PICK when \in SUBSET Nat : when = 0 .. n
  <2>1. 0 .. n \in SUBSET Nat
    OBVIOUS
  <2>2. QED
    BY <2>1
<1>6. /\ SwappedRow(d.sessions, call.old, y, f, when)
      /\ LiveRow(d.sessions, y, f, began + Ttl)
  BY <1>2, <1>4, <1>5 DEF DefectRows
<1>7. Sessions!TypedRows(d.sessions)
  BY DEF TypedDb
<1>8. /\ call.now \in Nat /\ call.now < began + Ttl /\ began + Ttl \in Nat
      /\ \A t \in when : call.now - t \in 0 .. call.graceMs
      /\ call.graceMs > 0 /\ call.graceMs \in Nat
  BY <1>2, <1>3, <1>5
<1>9. RotateStatus(d.sessions, call) = "benign-race"
  BY <1>6, <1>7, <1>8, SwappedAnswers
<1>10. PICK answer, new : Turn(d, call, answer, new)
  BY DEF Turn
<1>11. d.sessions[call.old].familyId = f /\ call.now >= began
  BY <1>2, <1>3, <1>6 DEF SwappedRow
<1>12. answer = "benign-race" /\ LiveRow(new, call.as, f, began + Ttl)
  BY <1>2, <1>9, <1>10, <1>11, SiblingTurn
<1>13. QED
  BY <1>2, <1>4, <1>10, <1>12 DEF Turn

\* A replay after it is a reuse.
LEMMA ReplayDead ==
    ASSUME Basics, NEW d, TypedDb(d), NEW call,
           IsAsked(call, Refresh("issued", "sibling"), began, clock),
           FamilyDead(d.sessions, run)
    PROVE  AnswerOf(d, call) = "reuse"
<1>1. PICK u \in Uses, v \in Uses : u = "issued" /\ v = "sibling"
  BY DEF Uses
<1>2. PICK x, y : x = NameOf(run, 0, "issued") /\ y = NameOf(run, 0, "next")
  OBVIOUS
<1>3. /\ call.op = "rotate" /\ call.old = x /\ Proper(call, run)
  BY <1>1, <1>2, AskedRefresh
<1>4. /\ d.sessions[x].replacedById = y
      /\ RevokedRow(d.sessions, x) /\ RevokedRow(d.sessions, y)
  BY <1>2 DEF FamilyDead
<1>5. ~Sessions!ReplacementActive(d.sessions, x, call.now)
  BY <1>4 DEF Sessions!ReplacementActive, Sessions!IsRevoked, RevokedRow
<1>6. RotateStatus(d.sessions, call) = "reuse"
  BY <1>3, <1>4, <1>5, RevokedAnswers
<1>7. AnswerOf(d, call) = RotateStatus(d.sessions, call)
  BY <1>3 DEF AnswerOf
<1>8. QED
  BY <1>6, <1>7

\* A row that a stale call adds is written as it was decided.
LEMMA MergeNewRow ==
    ASSUME TypedDb(db), NEW d, NEW decided, NEW z,
           z \notin DOMAIN d.sessions, z \in DOMAIN decided.sessions
    PROVE  LET rows == Merge(d, decided).sessions
           IN  z \in DOMAIN rows /\ rows[z] = decided.sessions[z]
<1>1. Merge(d, decided).sessions =
            MergeTable(db.sessions, d.sessions, decided.sessions)
  BY MergeIs
<1>2. QED
  BY <1>1 DEF MergeTable

Untouched(i) ==
    /\ Shape /\ ~stale /\ IsDefect(test, phase) /\ DefectTale
    /\ verdict = "running" /\ i \in DOMAIN jobs /\ JobStep(i)

\* The two calls of the race.
LEMMA DefectJobs ==
    ASSUME Shape, IsDefect(test, phase)
    PROVE  /\ test = "DefectA" /\ phase = 3
           /\ \A i : i \in DOMAIN jobs <=> i = 1 \/ i = 2
           /\ IsAsked(jobs[1].call, Refresh("issued", "sibling"), began, clock)
           /\ IsAsked(jobs[2].call, RevokeFamily("issued"), began, clock)
           /\ jobs[1].call.op = "rotate" /\ AskTime = jobs[1].call.now
           /\ jobs[2].call.op = "revokeFamily"
           /\ jobs[2].call.family = NameOf(run, 0, "issued")
           /\ Proper(jobs[2].call, run)
<1>1. Basics /\ JobsMatch /\ test = "DefectA" /\ phase = 3
  BY DEF Shape, IsDefect
<1>2. /\ \A i : i \in DOMAIN Calls <=> i = 1 \/ i = 2
      /\ Calls[1] = Refresh("issued", "sibling")
      /\ Calls[2] = RevokeFamily("issued")
  BY <1>1, DefectCalls
<1>3. /\ \A i : i \in DOMAIN jobs <=> i = 1 \/ i = 2
      /\ IsAsked(jobs[1].call, Refresh("issued", "sibling"), began, clock)
      /\ IsAsked(jobs[2].call, RevokeFamily("issued"), began, clock)
  BY <1>1, <1>2 DEF JobsMatch
<1>4. /\ Refresh("issued", "sibling").op = "rotate"
      /\ "now" \in DOMAIN Refresh("issued", "sibling")
      /\ Refresh("issued", "sibling").now = Now
  BY DEF Refresh, Rotate
<1>5. /\ RevokeFamily("issued").op = "revokeFamily"
      /\ "family" \in DOMAIN RevokeFamily("issued")
      /\ RevokeFamily("issued").family = It("issued")
  BY DEF RevokeFamily
<1>6. It("issued") = NameOf(run, 0, "issued")
  BY DEF It, Drawn, NameOf
<1>7. jobs[1].call.op = "rotate" /\ AskTime = jobs[1].call.now
  <2>1. jobs[1].call.op = "rotate"
    BY <1>3, <1>4 DEF IsAsked
  <2>2. AskTime = jobs[1].call.now
    BY <1>2, <1>3, <1>4 DEF AskTime
  <2>3. QED
    BY <2>1, <2>2
<1>8. jobs[2].call.op = "revokeFamily"
      /\ jobs[2].call.family = NameOf(run, 0, "issued")
  BY <1>3, <1>5, <1>6 DEF IsAsked
<1>9. Proper(jobs[2].call, run)
  BY <1>1, <1>3, JobProper
<1>10. QED
  BY <1>1, <1>3, <1>7, <1>8, <1>9

\* A step of the revocation.
LEMMA RevokeStep ==
    ASSUME Untouched(2)
    PROVE  DefectTale' /\ ~stale'
<1>1. /\ Shape /\ ~stale /\ IsDefect(test, phase) /\ DefectTale
      /\ 2 \in DOMAIN jobs /\ JobStep(2) /\ Basics /\ Readers
  BY DEF Untouched, Shape
<1>2. /\ UNCHANGED <<adapter, options, clock, began, run, test, phase, verdict>>
      /\ AskTime' = AskTime
      /\ ~Done(jobs[2])
      /\ DOMAIN jobs' = DOMAIN jobs
      /\ \A j \in DOMAIN jobs \ {2} : jobs'[j] = jobs[j]
  BY <1>1, StepKeeps
<1>3. /\ test = "DefectA" /\ phase = 3
      /\ 1 \in DOMAIN jobs /\ jobs'[1] = jobs[1]
      /\ jobs[2].call.op = "revokeFamily"
      /\ jobs[2].call.family = NameOf(run, 0, "issued")
      /\ Proper(jobs[2].call, run)
  BY <1>1, <1>2, DefectJobs
<1>4. PICK x, y, z : /\ x = NameOf(run, 0, "issued")
                     /\ y = NameOf(run, 0, "next")
                     /\ z = NameOf(run, 0, "sibling")
  OBVIOUS
<1>5. ~Split(jobs[2].call)
  BY <1>3 DEF Split
<1>6. Serve(2)
  BY <1>1, <1>3, <1>5 DEF JobStep, Read, Write, LinkLooks, Readers
<1>7. PICK call, d, answer :
            call = jobs[2].call /\ d = db /\ answer = AnswerOf(d, call)
  OBVIOUS
<1>8. Answers(2, d, call, answer)
  BY <1>1, <1>6, <1>7, AnswersHow
<1>9. /\ TypedDb(db) /\ db' = TablesAfter(db, call)
      /\ Done(jobs'[2]) /\ jobs'[2].answer = answer
      /\ ~stale'
  BY <1>1, <1>7, <1>8 DEF Answers
<1>10. PICK T : T = Sessions!FamilyRows(db.sessions, x)
  OBVIOUS
<1>11. answer = "done" /\ Revoked(db'.sessions, db.sessions, T)
  <2>1. "op" \in DOMAIN call /\ call.op = "revokeFamily" /\ call.family = x
    BY <1>3, <1>4, <1>7 DEF Proper, Fit
  <2>2. /\ AnswerOf(db, call) = "done"
        /\ Revoked(TablesAfter(db, call).sessions, db.sessions, T)
    BY <1>1, <1>9, <1>10, <2>1, KillActs
  <2>3. QED
    BY <1>7, <1>9, <2>2
<1>12. /\ \A t \in DOMAIN db.sessions :
            /\ t \in T => RevokedRow(db'.sessions, t)
            /\ db'.sessions[t].replacedById = db.sessions[t].replacedById
       /\ DOMAIN db'.sessions = DOMAIN db.sessions
  BY <1>11, KillTurn
<1>13. CASE ~Done(jobs[1])
  <2>1. At(phase, db, AskTime)
        /\ (jobs[1].stage = "read" => jobs[1].seen = db)
    BY <1>1, <1>2, <1>13 DEF DefectTale
  <2>2. DefectRows(db.sessions, AskTime)
    BY <1>1, <2>1, DefectRowsAt
  <2>3. /\ x \in DOMAIN db.sessions /\ db.sessions[x].replacedById = y
        /\ x \in T /\ y \in DOMAIN db.sessions /\ y \in T
    BY <1>4, <1>10, <2>2 DEF DefectRows, SwappedRow, LiveRow, Sessions!FamilyRows
  <2>4. FamilyDead(db'.sessions, run)
    BY <1>4, <1>12, <2>3 DEF FamilyDead
  <2>5. FamilyDead(db'.sessions, run')
    BY <1>2, <2>4
  <2>6. jobs'[1].stage = "read" => At(phase, jobs[1].seen, AskTime)'
    BY <1>2, <1>3, <2>1 DEF At
  <2>7. ~Done(jobs'[1]) /\ Done(jobs'[2]) /\ jobs'[2].answer = "done"
    BY <1>3, <1>9, <1>11, <1>13
  <2>8. QED
    BY <1>9, <2>5, <2>6, <2>7 DEF DefectTale
<1>14. CASE Done(jobs[1])
  <2>1. /\ jobs[1].answer = "benign-race"
        /\ z \in DOMAIN db.sessions /\ db.sessions[z].familyId = x
    BY <1>1, <1>2, <1>4, <1>14 DEF DefectTale
  <2>2. z \in T
    BY <1>10, <2>1 DEF Sessions!FamilyRows
  <2>3. RevokedRow(db'.sessions, z)
    BY <1>12, <2>1, <2>2
  <2>4. RevokedRow(db'.sessions, NameOf(run', 0, "sibling"))
    BY <1>2, <1>4, <2>3
  <2>5. Done(jobs'[1]) /\ jobs'[1].answer = "benign-race" /\ Done(jobs'[2])
        /\ jobs'[2].answer = "done"
    BY <1>3, <1>9, <1>11, <1>14, <2>1
  <2>6. QED
    BY <1>9, <2>4, <2>5 DEF DefectTale
<1>15. QED
  BY <1>13, <1>14

\* A step of the replay: if it read before the revocation and writes after
\* it, its sibling survives.
LEMMA ReplayStep ==
    ASSUME Untouched(1)
    PROVE  (~stale' => DefectTale') /\ (stale' => Survived')
<1>1. /\ Shape /\ ~stale /\ IsDefect(test, phase) /\ DefectTale
      /\ 1 \in DOMAIN jobs /\ JobStep(1) /\ Basics /\ Readers /\ JobsMatch
  BY DEF Untouched, Shape
<1>2. /\ UNCHANGED <<adapter, options, clock, began, run, test, phase, verdict>>
      /\ AskTime' = AskTime
      /\ ~Done(jobs[1])
      /\ DOMAIN jobs' = DOMAIN jobs
      /\ \A j \in DOMAIN jobs \ {1} : jobs'[j] = jobs[j]
  BY <1>1, StepKeeps
<1>3. /\ test = "DefectA" /\ phase = 3
      /\ 2 \in DOMAIN jobs /\ jobs'[2] = jobs[2]
      /\ jobs[1].call.op = "rotate" /\ AskTime = jobs[1].call.now
      /\ IsAsked(jobs[1].call, Refresh("issued", "sibling"), began, clock)
  BY <1>1, <1>2, DefectJobs
<1>4. PICK x, y, z : /\ x = NameOf(run, 0, "issued")
                     /\ y = NameOf(run, 0, "next")
                     /\ z = NameOf(run, 0, "sibling")
  OBVIOUS
<1>5. Done(jobs[2]) => jobs[2].answer = "done"
  BY <1>1 DEF DefectTale
<1>6. CASE Read(1)
  <2>1. db' = db /\ stale' = stale /\ Put(1, "read", db, Null)
    BY <1>6 DEF Read
  <2>2. IsJob(jobs[1])
    BY <1>1 DEF JobsMatch
  <2>3. jobs'[1] = [stage |-> "read", seen |-> db, answer |-> Null,
                    call |-> jobs[1].call]
    BY <1>1, <2>1, <2>2, PutEffect
  <2>4. ~Done(jobs'[1]) /\ jobs'[1].seen = db
    BY <2>3 DEF Done
  <2>5. CASE Done(jobs[2])
    <3>1. FamilyDead(db.sessions, run)
      BY <1>1, <1>2, <2>5 DEF DefectTale
    <3>2. FamilyDead(db'.sessions, run') /\ jobs'[1].seen = db'
      BY <1>2, <2>1, <2>4, <3>1
    <3>3. QED
      BY <1>1, <1>3, <1>5, <2>1, <2>4, <2>5, <3>2 DEF DefectTale
  <2>6. CASE ~Done(jobs[2])
    <3>1. At(phase, db, AskTime)
      BY <1>1, <1>2, <2>6 DEF DefectTale
    <3>2. At(phase, db, AskTime)' /\ jobs'[1].seen = db'
      BY <1>2, <2>1, <2>4, <3>1 DEF At
    <3>3. QED
      BY <1>1, <1>3, <1>5, <2>1, <2>4, <2>6, <3>2 DEF DefectTale
  <2>7. QED
    BY <2>5, <2>6
<1>7. CASE LinkLooks(1)
  BY <1>3, <1>7 DEF LinkLooks
<1>8. ASSUME NEW d, \/ Serve(1) /\ d = db
                    \/ Write(1) /\ d = jobs[1].seen
      PROVE  (~stale' => DefectTale') /\ (stale' => Survived')
  <2>1. PICK call, answer : call = jobs[1].call /\ answer = AnswerOf(d, call)
    OBVIOUS
  <2>2. Answers(1, d, call, answer)
    BY <1>1, <1>8, <2>1, AnswersHow
  <2>3. /\ \/ d = db
           \/ jobs[1].stage = "read" /\ d = jobs[1].seen
        /\ TypedDb(db) /\ TypedDb(d)
        /\ db' = Merge(d, TablesAfter(d, call))
        /\ d = db => db' = TablesAfter(db, call)
        /\ Done(jobs'[1]) /\ jobs'[1].answer = answer
        /\ stale' = (stale \/ (d # db /\ answer \in Wins))
    BY <2>2 DEF Answers
  <2>4. At(phase, d, AskTime) =>
            /\ answer = "benign-race"
            /\ LiveRow(TablesAfter(d, call).sessions, z, x, began + Ttl)
            /\ z \notin DOMAIN d.sessions
    <3>1. SUFFICES ASSUME At(phase, d, AskTime)
                   PROVE  /\ answer = "benign-race"
                          /\ LiveRow(TablesAfter(d, call).sessions, z, x,
                                     began + Ttl)
                          /\ z \notin DOMAIN d.sessions
      OBVIOUS
    <3>2. DefectRows(d.sessions, AskTime)
      BY <1>1, <3>1, DefectRowsAt
    <3>3. PICK n : n = call.now
      OBVIOUS
    <3>4. DefectRows(d.sessions, n) /\ IsAsked(call, Refresh("issued", "sibling"), began, clock)
      BY <1>3, <2>1, <3>2, <3>3
    <3>5. /\ AnswerOf(d, call) = "benign-race"
          /\ LiveRow(TablesAfter(d, call).sessions, z, x, began + Ttl)
      BY <1>1, <1>4, <2>3, <3>3, <3>4, ReplayFirst
    <3>6. QED
      BY <1>4, <2>1, <3>4, <3>5 DEF DefectRows
  <2>5. CASE ~Done(jobs[2])
    <3>1. At(phase, db, AskTime) /\ d = db
      BY <1>1, <1>2, <2>3, <2>5 DEF DefectTale
    <3>2. answer = "benign-race" /\ LiveRow(db'.sessions, z, x, began + Ttl)
      BY <2>3, <2>4, <3>1
    <3>3. z = NameOf(run', 0, "sibling") /\ x = NameOf(run', 0, "issued")
      BY <1>2, <1>4
    <3>4. ~stale'
      BY <1>1, <2>3, <3>1
    <3>5. ~Done(jobs'[2])
      BY <1>3, <2>5
    <3>6. QED
      BY <2>3, <3>2, <3>3, <3>4, <3>5 DEF DefectTale, LiveRow
  <2>6. CASE Done(jobs[2]) /\ d = db
    <3>1. FamilyDead(d.sessions, run)
      BY <1>1, <1>2, <2>6 DEF DefectTale
    <3>2. AnswerOf(d, call) = "reuse"
      BY <1>1, <1>3, <2>1, <2>3, <3>1, ReplayDead
    <3>3. jobs'[1].answer = "reuse"
      BY <2>1, <2>3, <3>2
    <3>4. ~stale' /\ Done(jobs'[2]) /\ jobs'[2].answer = "done"
      BY <1>1, <1>3, <1>5, <2>3, <2>6
    <3>5. QED
      BY <2>3, <3>3, <3>4 DEF DefectTale
  <2>7. CASE Done(jobs[2]) /\ d # db
    <3>1. At(phase, d, AskTime)
      BY <1>1, <1>2, <2>3, <2>7 DEF DefectTale
    <3>2. /\ answer = "benign-race"
          /\ z \in DOMAIN TablesAfter(d, call).sessions
          /\ TablesAfter(d, call).sessions[z].revokedAt = Null
          /\ z \notin DOMAIN d.sessions
      BY <2>4, <3>1 DEF LiveRow
    <3>3. z \in DOMAIN db'.sessions /\ db'.sessions[z].revokedAt = Null
      BY <2>3, <3>2, MergeNewRow
    <3>4. z = NameOf(run', 0, "sibling") /\ test' = "DefectA" /\ phase' = 3
      BY <1>2, <1>3, <1>4
    <3>5. stale'
      BY <2>3, <2>7, <3>2 DEF Wins
    <3>6. Done(jobs'[1]) /\ jobs'[1].answer = "benign-race" /\ Done(jobs'[2])
      BY <1>3, <2>3, <2>7, <3>2
    <3>7. Survived'
      BY <3>3, <3>4, <3>6 DEF Survived
    <3>8. QED
      BY <3>5, <3>7
  <2>8. QED
    BY <2>5, <2>6, <2>7
<1>9. QED
  BY <1>1, <1>6, <1>7, <1>8 DEF JobStep

\* So every step of the race keeps the tale, or dooms the test.
LEMMA DefectStory ==
    ASSUME NEW i, Untouched(i)
    PROVE  (~stale' => Story') /\ (stale' => Doomed')
<1>1. /\ Shape /\ IsDefect(test, phase) /\ i \in DOMAIN jobs /\ JobStep(i)
      /\ verdict = "running"
  BY DEF Untouched
<1>2. UNCHANGED <<test, phase, verdict>>
  BY <1>1, StepKeeps
<1>3. IsDefect(test, phase)'
  BY <1>1, <1>2
<1>4. (~stale' => DefectTale') /\ (stale' => Survived')
  <2>1. CASE i = 1
    BY <2>1, ReplayStep
  <2>2. CASE i = 2
    BY <2>2, RevokeStep
  <2>3. QED
    BY <1>1, <2>1, <2>2, DefectJobs
<1>5. QED
  BY <1>1, <1>2, <1>3, <1>4 DEF Story, Doomed

\* Every step of a call keeps Told.
LEMMA JobTold ==
    ASSUME Shape, Told, verdict = "running", NEW i \in DOMAIN jobs, JobStep(i)
    PROVE  Told'
<1>1. UNCHANGED <<test, phase, verdict>>
  BY StepKeeps
<1>2. FailuresAreEarned' /\ StaleWinsAreCaught'
  BY <1>1 DEF FailuresAreEarned, StaleWinsAreCaught
<1>3. CASE stale
  <2>1. Doomed
    BY <1>3 DEF Told
  <2>2. stale' /\ Doomed'
    BY <1>3, <2>1, DoomedStep
  <2>3. QED
    BY <1>2, <2>2 DEF Told
<1>4. CASE ~stale /\ IsDefect(test, phase)
  <2>1. Untouched(i)
    BY <1>4 DEF Untouched, Told, Story
  <2>2. QED
    BY <1>2, <2>1, DefectStory DEF Told
<1>5. CASE ~stale /\ ~IsDefect(test, phase)
  <2>1. Undecided(i)
    BY <1>5 DEF Undecided, Told
  <2>2. QED
    BY <1>2, <2>1, JobStory DEF Told
<1>6. QED
  BY <1>3, <1>4, <1>5

\* What holds of a test's rows goes on holding while the clock runs.
LEMMA HoldsTime ==
    ASSUME NEW name, NEW k, NEW d, NEW r, NEW b, NEW n \in Int, NEW m \in Int,
           n <= m, Holds(name, k, d, r, b, n)
    PROVE  Holds(name, k, d, r, b, m)
<1>1. \A rows, x, next, f : SwappedRow(rows, x, next, f, 0 .. n)
            => SwappedRow(rows, x, next, f, 0 .. m)
  BY DEF SwappedRow
<1>2. \A rows : SessionHolds(name, k, rows, r, b, n)
            => SessionHolds(name, k, rows, r, b, m)
  BY <1>1, Zenon DEF SessionHolds
<1>3. QED
  BY <1>2 DEF Holds

\* AskTime is an instant that has come.
LEMMA AskTimeIs ==
    ASSUME Shape
    PROVE  AskTime \in Nat /\ AskTime <= clock /\ clock \in Nat
<1>1. clock \in Nat /\ began \in Nat
  BY SuiteAssumption DEF Shape, Basics
<1>2. CASE 1 \in DOMAIN jobs /\ "now" \in DOMAIN Calls[1] /\ Calls[1].now = Now
  <2>1. IsAsked(jobs[1].call, Calls[1], began, clock)
    BY <1>2 DEF Shape, JobsMatch
  <2>2. jobs[1].call.now \in began .. clock
    BY <1>2, <2>1 DEF IsAsked
  <2>3. AskTime = jobs[1].call.now
    BY <1>2 DEF AskTime
  <2>4. QED
    BY <1>1, <2>2, <2>3
<1>3. CASE ~(1 \in DOMAIN jobs /\ "now" \in DOMAIN Calls[1]
             /\ Calls[1].now = Now)
  BY <1>1, <1>3 DEF AskTime
<1>4. QED
  BY <1>2, <1>3

\* Told is monotone in the clock.
LEMMA TickTold ==
    ASSUME Shape, Told, Tick
    PROVE  Told'
<1>1. /\ clock' = clock + 1
      /\ UNCHANGED <<adapter, options, began, db, run, test, phase, jobs,
                     verdict, stale, lost>>
  BY DEF Tick
<1>2. Script(test)' = Script(test) /\ Calls' = Calls
  BY <1>1, CallsKept
<1>3. AskTime \in Nat /\ AskTime <= clock /\ clock \in Nat
  BY AskTimeIs
<1>4. AskTime' \in Nat /\ AskTime <= AskTime'
  <2>1. AskTime' = AskTime \/ AskTime' = clock'
    BY <1>1, <1>2 DEF AskTime
  <2>2. QED
    BY <1>1, <1>3, <2>1
<1>5. \A k, d : /\ At(k, d, AskTime)
                    => Holds(test', k, d, run', began', AskTime')
                /\ At(k, d, clock)
                    => Holds(test', k, d, run', began', clock')
  <2>1. ASSUME NEW k, NEW d, At(k, d, AskTime)
        PROVE  Holds(test', k, d, run', began', AskTime')
    <3>1. PICK n \in Int, m \in Int : n = AskTime /\ m = AskTime'
      BY <1>3, <1>4
    <3>2. Holds(test, k, d, run, began, n) /\ n <= m
      BY <1>4, <2>1, <3>1 DEF At
    <3>3. Holds(test, k, d, run, began, m)
      BY <3>2, HoldsTime
    <3>4. QED
      BY <1>1, <3>1, <3>3
  <2>2. ASSUME NEW k, NEW d, At(k, d, clock)
        PROVE  Holds(test', k, d, run', began', clock')
    <3>1. PICK n \in Int, m \in Int : n = clock /\ m = clock'
      BY <1>1, <1>3
    <3>2. Holds(test, k, d, run, began, n) /\ n <= m
      BY <1>1, <1>3, <2>2, <3>1 DEF At
    <3>3. Holds(test, k, d, run, began, m)
      BY <3>2, HoldsTime
    <3>4. QED
      BY <1>1, <3>1, <3>3
  <2>3. QED
    BY <2>1, <2>2
<1>6. FirstDecides => FirstDecides'
  BY <1>1, <1>5 DEF FirstDecides, At
<1>7. AnswersFit => AnswersFit'
  BY <1>1, <1>2 DEF AnswersFit
<1>8. IsDefect(test, phase) /\ DefectTale => DefectTale'
  <2>1. \A k, d : At(k, d, AskTime)
                    => Holds(test', k, d, run', began', AskTime')
    BY <1>5
  <2>2. QED
    BY <1>1, <2>1 DEF DefectTale, At
<1>9. Story => Story'
  BY <1>1, <1>6, <1>7, <1>8 DEF Story
<1>10. Doomed => Doomed'
  BY <1>1 DEF Doomed, Survived, TwoWinners
<1>11. FailuresAreEarned' /\ StaleWinsAreCaught'
  BY <1>1 DEF Told, FailuresAreEarned, StaleWinsAreCaught, Concurrency, Elements
<1>12. QED
  BY <1>1, <1>9, <1>10, <1>11 DEF Told

\* Told speaks of the state alone.
LEMMA StillTold ==
    ASSUME Told, UNCHANGED vars
    PROVE  Told'
<1>1. /\ adapter' = adapter /\ options' = options /\ clock' = clock
      /\ began' = began /\ db' = db /\ run' = run /\ test' = test
      /\ phase' = phase /\ jobs' = jobs /\ verdict' = verdict
      /\ stale' = stale /\ lost' = lost
  BY DEF vars
<1>2. Script(test)' = Script(test) /\ Calls' = Calls
  BY <1>1, CallsKept
<1>3. AskTime' = AskTime
  BY <1>1, <1>2 DEF AskTime
<1>4. FirstDecides => FirstDecides'
  BY <1>1, <1>3 DEF FirstDecides, At
<1>5. AnswersFit => AnswersFit'
  BY <1>1, <1>2 DEF AnswersFit
<1>6. DefectTale => DefectTale'
  BY <1>1, <1>3 DEF DefectTale, At
<1>7. Doomed => Doomed'
  BY <1>1 DEF Doomed, Survived, TwoWinners
<1>8. FailuresAreEarned' /\ StaleWinsAreCaught'
  BY <1>1 DEF Told, FailuresAreEarned, StaleWinsAreCaught, Concurrency, Elements
<1>9. QED
  BY <1>1, <1>4, <1>5, <1>6, <1>7, <1>8 DEF Told, Story

\* A phase that expects one winner among its calls, and the rest to lose.
ExpectsRace(p, win, loses) ==
    /\ DOMAIN p.calls = 1 .. Concurrency
    /\ \A answers \in p.expected : /\ DOMAIN answers = 1 .. Concurrency
                                   /\ Count(answers, win) = 1
    /\ \A answers \in [1 .. Concurrency -> loses \cup {win}] :
            Count(answers, win) = 1 => answers \in p.expected

\* What ExactlyOne expects.
LEMMA ExactlyExpects ==
    ASSUME NEW p, NEW win, NEW loses, loses \subseteq Statuses,
           win \in Statuses, DOMAIN p.calls = 1 .. Concurrency,
           \/ p.expected = ExactlyOne(win)
           \/ p.expected = ExactlyOne(win)
                           \cap [1 .. Concurrency -> loses \cup {win}]
    PROVE  ExpectsRace(p, win, loses)
<1>1. \A answers : answers \in ExactlyOne(win) <=>
            /\ answers \in [1 .. Concurrency -> Statuses]
            /\ Count(answers, win) = 1
  BY DEF ExactlyOne
<1>2. \A answers \in [1 .. Concurrency -> loses \cup {win}] :
            answers \in [1 .. Concurrency -> Statuses]
  OBVIOUS
<1>3. \A answers \in [1 .. Concurrency -> Statuses] :
            DOMAIN answers = 1 .. Concurrency
  OBVIOUS
<1>4. \A answers : answers \in p.expected => answers \in ExactlyOne(win)
  OBVIOUS
<1>5. \A answers \in [1 .. Concurrency -> loses \cup {win}] :
            Count(answers, win) = 1 => answers \in p.expected
  BY <1>1, <1>2
<1>6. QED
  BY <1>1, <1>3, <1>4, <1>5 DEF ExpectsRace

\* What each race expects: one winner, and losers that lost as they should.
LEMMA RaceExpects ==
    ASSUME NEW name, NEW k \in DOMAIN Script(name), IsRace(name, k),
           options \in Options
    PROVE  ExpectsRace(Script(name)[k], WinOf(name), LosesOf(name))
<1>1. CASE name = "RotateRace" /\ k = 2
  <2>1. /\ RotateRace[2].calls =
            [j \in 1 .. Concurrency |-> Rotate(It("issued"), Racer(j), 0, Now)]
        /\ RotateRace[2].expected = ExactlyOne("rotated")
    BY DEF RotateRace, Together, InParallel
  <2>2. Script(name)[k] = RotateRace[2]
    BY <1>1, RefreshScripts
  <2>3. PICK win, loses : win = "rotated" /\ loses = {"reuse"}
    OBVIOUS
  <2>4. WinOf(name) = win /\ LosesOf(name) = loses
    BY <1>1, <2>3 DEF WinOf, LosesOf
  <2>5. win \in Statuses /\ loses \subseteq Statuses
    BY <2>3 DEF Statuses
  <2>6. /\ DOMAIN Script(name)[k].calls = 1 .. Concurrency
        /\ Script(name)[k].expected = ExactlyOne(win)
    BY <2>1, <2>2, <2>3
  <2>7. QED
    BY <2>4, <2>5, <2>6, ExactlyExpects
<1>2. CASE name = "LinkRace" /\ k = 2
  <2>1. /\ LinkRace[2].calls = [j \in 1 .. Concurrency |-> Ask("link", <<"race", j>>,
                [conformanceIdentity EXCEPT !.email = <<"race", j>>])]
        /\ LinkRace[2].expected = ExactlyOne("linked")
    BY DEF LinkRace, Together, InParallel
  <2>2. Script(name)[k] = LinkRace[2]
    BY <1>2, IdentityScripts
  <2>3. PICK win, loses : win = "linked" /\ loses = {"refused"}
    OBVIOUS
  <2>4. WinOf(name) = win /\ LosesOf(name) = loses
    BY <1>2, <2>3 DEF WinOf, LosesOf
  <2>5. win \in Statuses /\ loses \subseteq Statuses
    BY <2>3 DEF Statuses
  <2>6. /\ DOMAIN Script(name)[k].calls = 1 .. Concurrency
        /\ Script(name)[k].expected = ExactlyOne(win)
    BY <2>1, <2>2, <2>3
  <2>7. QED
    BY <2>4, <2>5, <2>6, ExactlyExpects
<1>3. CASE name = "IssueRace" /\ k = 1
  <2>1. /\ DOMAIN IssueRace[1].calls = 1 .. Concurrency
        /\ IssueRace[1].expected = ExactlyOne("issued")
    BY TokenRacePhases
  <2>2. Script(name)[k] = IssueRace[1]
    BY <1>3, SingleUseScripts
  <2>3. PICK win, loses : win = "issued" /\ loses = {"rejected"}
    OBVIOUS
  <2>4. WinOf(name) = win /\ LosesOf(name) = loses
    BY <1>3, <2>3 DEF WinOf, LosesOf
  <2>5. win \in Statuses /\ loses \subseteq Statuses
    BY <2>3 DEF Statuses
  <2>6. /\ DOMAIN Script(name)[k].calls = 1 .. Concurrency
        /\ Script(name)[k].expected = ExactlyOne(win)
    BY <2>1, <2>2, <2>3
  <2>7. QED
    BY <2>4, <2>5, <2>6, ExactlyExpects
<1>4. CASE name = "ConsumeRace" /\ PlaceAt(2, k) = 2
  <2>1. k \in 1 .. 2 * Rounds
    BY <1>4, PlacesIn
  <2>2. Script(name)[k] = ConsumeRound(RoundAt(2, k))[2]
    BY <1>4, <2>1, SingleUseScripts, RoundScripts
  <2>3. PICK win, loses : win = "consumed" /\ loses = {"already-consumed"}
    OBVIOUS
  <2>4. WinOf(name) = win /\ LosesOf(name) = loses
    BY <1>4, <2>3 DEF WinOf, LosesOf
  <2>5. win \in Statuses /\ loses \subseteq Statuses
    BY <2>3 DEF Statuses
  <2>6. loses \cup {win} = {"consumed", "already-consumed"}
    BY <2>3
  <2>7. /\ DOMAIN ConsumeRound(RoundAt(2, k))[2].calls = 1 .. Concurrency
        /\ ConsumeRound(RoundAt(2, k))[2].expected =
                ExactlyOne("consumed")
                \cap [1 .. Concurrency -> {"consumed", "already-consumed"}]
    BY DEF ConsumeRound, Together
  <2>8. /\ DOMAIN Script(name)[k].calls = 1 .. Concurrency
        /\ Script(name)[k].expected =
                ExactlyOne(win) \cap [1 .. Concurrency -> loses \cup {win}]
    BY <2>2, <2>3, <2>6, <2>7
  <2>9. QED
    BY <2>4, <2>5, <2>8, ExactlyExpects
<1>5. CASE name = "ClaimRace" /\ PlaceAt(3, k) = 2
  <2>1. Script(name)[k] = ClaimRound(RoundAt(3, k))[2]
    BY <1>5, ClaimPlaces DEF ClaimPlace
  <2>2. /\ DOMAIN ClaimRound(RoundAt(3, k))[2].calls = 1 .. Concurrency
        /\ ClaimRound(RoundAt(3, k))[2].expected = ExactlyOne("claimed")
    BY DEF ClaimRound, Together
  <2>3. PICK win, loses : win = "claimed" /\ loses = {"refused"}
    OBVIOUS
  <2>4. WinOf(name) = win /\ LosesOf(name) = loses
    BY <1>5, <2>3 DEF WinOf, LosesOf
  <2>5. win \in Statuses /\ loses \subseteq Statuses
    BY <2>3 DEF Statuses
  <2>6. /\ DOMAIN Script(name)[k].calls = 1 .. Concurrency
        /\ Script(name)[k].expected = ExactlyOne(win)
    BY <2>1, <2>2, <2>3
  <2>7. QED
    BY <2>4, <2>5, <2>6, ExactlyExpects
<1>6. QED
  BY <1>1, <1>2, <1>3, <1>4, <1>5 DEF IsRace

\* What the making of accounts expects.
LEMMA MakingExpects ==
    LET p == Script("LinkRace")[1]
    IN  /\ DOMAIN p.calls = 1 .. Concurrency
        /\ p.expected = [1 .. Concurrency -> {"done"}]
<1>1. LinkRace[1].calls = [j \in 1 .. Concurrency |->
            CreateAccount(<<"race", j>>, <<"race", j>>, TRUE)]
  BY DEF LinkRace, Together, InParallel
<1>2. LinkRace[1].expected = [1 .. Concurrency -> {"done"}]
  BY DEF LinkRace, Together
<1>3. Script("LinkRace")[1] = LinkRace[1]
  BY IdentityScripts
<1>4. QED
  BY <1>1, <1>2, <1>3

\* What the smoke test expects.
LEMMA SmokeExpects ==
    ASSUME Basics, test = "ConsumeInvalidateSmoke", PlaceAt(3, phase) = 2,
           phase \in DOMAIN Script(test)
    PROVE  /\ \A i : i \in DOMAIN Calls <=> i = 1 \/ i = 2
           /\ Script(test)[phase].expected =
                {"consumed", "already-consumed"} \X {"done"}
<1>1. PICK m, x : m = RoundAt(3, phase) /\ x = NameOf(run, m, "issued")
  OBVIOUS
<1>2. PICK c, e : /\ c = Consume(x, "password-reset", Now)
                  /\ e = InvalidateAllFor(x)
  OBVIOUS
<1>3. Script(test)[phase] =
            Together(<<c, e>>, {"consumed", "already-consumed"} \X {"done"})
  BY <1>1, <1>2, SmokeCalls
<1>4. Script(test)[phase].calls = <<c, e>>
      /\ Script(test)[phase].expected =
                {"consumed", "already-consumed"} \X {"done"}
  BY <1>3 DEF Together
<1>5. QED
  BY <1>4 DEF Calls

AllDone == \A i \in DOMAIN jobs : Done(jobs[i])

\* The phase is on, all its calls are answered, and nothing went wrong.
Answerable ==
    /\ Shape /\ Story
    /\ phase \in DOMAIN Script(test)
    /\ AllDone

\* The answers to one call.
LEMMA OneAnswer ==
    ASSUME \A i : i \in DOMAIN jobs <=> i = 1
    PROVE  PhaseAnswers = <<jobs[1].answer>>
<1>1. DOMAIN jobs = 1 .. 1
  OBVIOUS
<1>2. PhaseAnswers = [i \in 1 .. 1 |-> jobs[i].answer]
  BY <1>1 DEF PhaseAnswers
<1>3. QED
  BY <1>2

\* The answers to two.
LEMMA TwoAnswers ==
    ASSUME \A i : i \in DOMAIN jobs <=> i = 1 \/ i = 2
    PROVE  PhaseAnswers = <<jobs[1].answer, jobs[2].answer>>
<1>1. DOMAIN jobs = 1 .. 2
  OBVIOUS
<1>2. PhaseAnswers = [i \in 1 .. 2 |-> jobs[i].answer]
  BY <1>1 DEF PhaseAnswers
<1>3. QED
  BY <1>2

\* What is known of a phase whose calls have all been answered.
LEMMA PhaseShape ==
    ASSUME Answerable
    PROVE  /\ Basics /\ JobsMatch /\ test \in Tests /\ options \in Options
           /\ Calls = Script(test)[phase].calls /\ DOMAIN jobs = DOMAIN Calls
           /\ Concurrency \in Nat
  BY OptionsTyped DEF Answerable, Shape, Basics, JobsMatch, Calls

\* If no call won on stale rows a race is as its test expects it.
LEMMA RaceFulfilled ==
    ASSUME Answerable, IsRace(test, phase), Concurrency # 0
    PROVE  AsExpected
<1>1. /\ JobsMatch /\ options \in Options
      /\ Calls = Script(test)[phase].calls /\ DOMAIN jobs = DOMAIN Calls
      /\ Concurrency \in Nat
  BY PhaseShape
<1>2. ExpectsRace(Script(test)[phase], WinOf(test), LosesOf(test))
  BY <1>1, RaceExpects DEF Answerable
<1>3. DOMAIN jobs = 1 .. Concurrency
  BY <1>1, <1>2 DEF ExpectsRace
<1>4. 1 \in DOMAIN jobs
  BY <1>1, <1>3
<1>5. AnswersFit
  BY KindsApart DEF Answerable, Story
<1>6. PICK w \in DOMAIN jobs :
            /\ jobs[w].answer = WinOf(test)
            /\ \A j \in DOMAIN jobs \ {w} : jobs[j].answer \in LosesOf(test)
  BY <1>4, <1>5 DEF AnswersFit, Answerable, AllDone
<1>7. PICK answers : answers = PhaseAnswers
  OBVIOUS
<1>8. /\ DOMAIN answers = 1 .. Concurrency
      /\ \A i \in 1 .. Concurrency : answers[i] = jobs[i].answer
      /\ answers = [i \in 1 .. Concurrency |-> jobs[i].answer]
  BY <1>3, <1>7 DEF PhaseAnswers
<1>9. Count(answers, WinOf(test)) = 1
  <2>1. WinOf(test) \notin LosesOf(test)
    BY WinsAndLoses
  <2>2. /\ w \in 1 .. Concurrency /\ answers[w] = WinOf(test)
        /\ \A j \in 1 .. Concurrency \ {w} : answers[j] # WinOf(test)
    BY <1>3, <1>6, <1>8, <2>1
  <2>3. QED
    BY <1>1, <1>8, <2>2, WinnerCount
<1>10. answers \in [1 .. Concurrency -> LosesOf(test) \cup {WinOf(test)}]
  BY <1>3, <1>6, <1>8
<1>11. QED
  BY <1>2, <1>7, <1>9, <1>10 DEF ExpectsRace, AsExpected

\* Nothing having gone wrong, the answers are what the test expects.
LEMMA Fulfilled ==
    ASSUME Answerable, Concurrency # 0
    PROVE  AsExpected
<1>1. /\ Basics /\ JobsMatch /\ test \in Tests /\ options \in Options
      /\ Calls = Script(test)[phase].calls /\ DOMAIN jobs = DOMAIN Calls
  BY PhaseShape
<1>2. phase \in DOMAIN Script(test) /\ AllDone /\ Story
  BY DEF Answerable
<1>3. CASE IsRace(test, phase)
  BY <1>3, RaceFulfilled
<1>4. CASE IsSolo(test, phase)
  <2>1. \A i : i \in DOMAIN jobs <=> i = 1
    BY <1>1, <1>2, <1>4, SoloCalls
  <2>2. AnswersFit
    BY <1>2, <1>4, KindsApart DEF Story
  <2>3. <<jobs[1].answer>> \in Script(test)[phase].expected
    BY <1>2, <1>4, <2>1, <2>2 DEF AnswersFit, AllDone
  <2>4. QED
    BY <2>1, <2>3, OneAnswer DEF AsExpected
<1>5. CASE IsMaking(test, phase)
  <2>1. test = "LinkRace" /\ phase = 1
    BY <1>5 DEF IsMaking
  <2>2. /\ DOMAIN jobs = 1 .. Concurrency
        /\ Script(test)[phase].expected = [1 .. Concurrency -> {"done"}]
    BY <1>1, <2>1, MakingExpects
  <2>3. AnswersFit
    BY <1>2, <1>5, KindsApart DEF Story
  <2>4. \A i \in 1 .. Concurrency : jobs[i].answer = "done"
    BY <1>2, <1>5, <2>2, <2>3 DEF AnswersFit, AllDone
  <2>5. PhaseAnswers = [i \in 1 .. Concurrency |-> jobs[i].answer]
    BY <2>2 DEF PhaseAnswers
  <2>6. PhaseAnswers \in [1 .. Concurrency -> {"done"}]
    BY <2>4, <2>5
  <2>7. QED
    BY <2>2, <2>6 DEF AsExpected
<1>6. CASE IsSmoke(test, phase)
  <2>1. /\ \A i : i \in DOMAIN Calls <=> i = 1 \/ i = 2
        /\ Script(test)[phase].expected =
                {"consumed", "already-consumed"} \X {"done"}
    BY <1>1, <1>2, <1>6, SmokeExpects DEF IsSmoke
  <2>2. AnswersFit
    BY <1>2, <1>6, KindsApart DEF Story
  <2>3. /\ jobs[1].answer \in {"consumed", "already-consumed"}
        /\ jobs[2].answer = "done"
    BY <1>1, <1>2, <1>6, <2>1, <2>2 DEF AnswersFit, AllDone
  <2>4. PhaseAnswers = <<jobs[1].answer, jobs[2].answer>>
    BY <1>1, <2>1, TwoAnswers
  <2>5. QED
    BY <2>1, <2>3, <2>4 DEF AsExpected
<1>7. CASE IsDefect(test, phase)
  <2>1. /\ test = "DefectA" /\ phase = 3
        /\ \A i : i \in DOMAIN jobs <=> i = 1 \/ i = 2
    BY <1>7, DefectJobs DEF Answerable
  <2>2. /\ jobs[1].answer \in {"benign-race", "reuse"}
        /\ jobs[2].answer = "done"
    BY <1>2, <1>7, <2>1 DEF Story, DefectTale, AllDone
  <2>3. PhaseAnswers = <<jobs[1].answer, jobs[2].answer>>
    BY <2>1, TwoAnswers
  <2>4. Script(test)[phase].expected =
                {<<answer, "done">> : answer \in Rotated \cup {"reuse"}}
    BY <2>1, DefectScript
  <2>5. jobs[1].answer \in Rotated \cup {"reuse"}
    BY <2>2 DEF Rotated
  <2>6. QED
    BY <2>2, <2>3, <2>4, <2>5 DEF AsExpected
<1>8. QED
  BY <1>3, <1>4, <1>5, <1>6, <1>7, KindsApart

\* A phase that goes on has been answered.
LEMMA SomeoneDone ==
    ASSUME Answerable, AsExpected, ~IsMaking(test, phase)
    PROVE  \E i \in DOMAIN jobs : Done(jobs[i])
<1>1. /\ Basics /\ JobsMatch /\ test \in Tests /\ options \in Options
      /\ Calls = Script(test)[phase].calls /\ DOMAIN jobs = DOMAIN Calls
      /\ Concurrency \in Nat
  BY PhaseShape
<1>2. phase \in DOMAIN Script(test) /\ AllDone
  BY DEF Answerable
<1>3. SUFFICES 1 \in DOMAIN jobs
  BY <1>2 DEF AllDone
<1>4. CASE IsRace(test, phase)
  <2>1. ExpectsRace(Script(test)[phase], WinOf(test), LosesOf(test))
    BY <1>1, <1>2, <1>4, RaceExpects
  <2>2. PICK answers : answers = PhaseAnswers
    OBVIOUS
  <2>3. DOMAIN answers = 1 .. Concurrency /\ Count(answers, WinOf(test)) = 1
    BY <2>1, <2>2 DEF ExpectsRace, AsExpected
  <2>4. \E i \in 1 .. Concurrency : answers[i] = WinOf(test)
    BY <1>1, <2>3, WinnerCount
  <2>5. 1 \in 1 .. Concurrency
    BY <1>1, <2>4
  <2>6. QED
    BY <1>1, <2>1, <2>5 DEF ExpectsRace
<1>5. CASE IsSolo(test, phase)
  BY <1>1, <1>2, <1>5, SoloCalls
<1>6. CASE IsSmoke(test, phase)
  BY <1>1, <1>2, <1>6, SmokeExpects DEF IsSmoke
<1>7. CASE IsDefect(test, phase)
  BY <1>7, DefectJobs DEF Answerable
<1>8. QED
  BY <1>4, <1>5, <1>6, <1>7, KindsApart

\* And the tables are as the next phase wants them.
LEMMA MovesOn ==
    ASSUME Answerable, AsExpected, ~IsLast
    PROVE  At(phase + 1, db, clock)
<1>1. /\ Basics /\ JobsMatch /\ test \in Tests
      /\ Calls = Script(test)[phase].calls /\ DOMAIN jobs = DOMAIN Calls
  BY PhaseShape
<1>2. phase \in DOMAIN Script(test) /\ AllDone /\ Story
  BY DEF Answerable
<1>3. CASE IsDefect(test, phase)
  <2>1. /\ test = "DefectA" /\ phase = 3
        /\ \A i : i \in DOMAIN jobs <=> i = 1 \/ i = 2
    BY <1>3, DefectJobs DEF Answerable
  <2>2. /\ jobs[1].answer \in {"benign-race", "reuse"}
        /\ jobs[2].answer = "done"
        /\ jobs[1].answer = "benign-race" =>
                RevokedRow(db.sessions, NameOf(run, 0, "sibling"))
    BY <1>2, <1>3, <2>1 DEF Story, DefectTale, AllDone
  <2>3. PhaseAnswers = <<jobs[1].answer, jobs[2].answer>>
    BY <2>1, TwoAnswers
  <2>4. Script(test)[phase].enough = {<<"reuse", "done">>}
    BY <2>1, DefectScript
  <2>5. jobs[1].answer # "reuse"
    BY <2>2, <2>3, <2>4 DEF IsLast
  <2>6. RevokedRow(db.sessions, NameOf(run, 0, "sibling"))
    BY <2>2, <2>5
  <2>7. PICK k : k = phase + 1 /\ k = 4 /\ k # 1 /\ k # 2 /\ k # 3
    BY <2>1
  <2>8. SessionHolds(test, k, db.sessions, run, began, clock)
    BY <2>1, <2>6, <2>7 DEF SessionHolds
  <2>9. test \notin SingleUseTests /\ test \notin IdentityTests
    BY <2>1 DEF SingleUseTests, IdentityTests
  <2>10. QED
    BY <2>7, <2>8, <2>9 DEF At, Holds
<1>4. CASE ~IsDefect(test, phase)
  <2>1. FirstDecides
    BY <1>2, <1>4 DEF Story
  <2>2. CASE \E i \in DOMAIN jobs : Done(jobs[i])
    BY <2>1, <2>2 DEF FirstDecides
  <2>3. CASE ~ \E i \in DOMAIN jobs : Done(jobs[i])
    <3>1. IsMaking(test, phase)
      BY <2>3, SomeoneDone
    <3>2. test = "LinkRace" /\ phase = 1
      BY <3>1 DEF IsMaking
    <3>3. At(phase, db, AskTime)
      BY <2>1, <2>3 DEF FirstDecides
    <3>4. test \notin SingleUseTests /\ test \notin RefreshTests
          /\ test \in IdentityTests
      BY <3>2 DEF SingleUseTests, IdentityTests, RefreshTests
    <3>5. BindingHolds(test, phase, db.accounts, db.owner)
      BY <3>3, <3>4 DEF At, Holds
    <3>6. Unbound(db.owner) /\ \A a \in DOMAIN db.accounts :
                                    ~db.accounts[a].disabled
      BY <3>2, <3>5 DEF BindingHolds
    <3>7. PICK k : k = phase + 1 /\ k = 2 /\ k # 1 /\ k # 3
      BY <3>2
    <3>8. BindingHolds(test, k, db.accounts, db.owner)
      BY <3>2, <3>6, <3>7 DEF BindingHolds
    <3>9. QED
      BY <3>4, <3>7, <3>8 DEF At, Holds
  <2>4. QED
    BY <2>2, <2>3
<1>5. QED
  BY <1>3, <1>4

\* A phase that has just begun.
LEMMA BegunStory ==
    Shape /\ jobs = Begun(Script(test), phase, began) /\ At(phase, db, clock)
        => Story
<1>1. SUFFICES ASSUME Shape, jobs = Begun(Script(test), phase, began),
                      At(phase, db, clock)
               PROVE  Story
  OBVIOUS
<1>2. /\ Basics /\ JobsMatch /\ run \in 1 .. MaxRuns /\ test \in Tests
      /\ options \in Options /\ began \in Nat /\ clock \in Nat /\ began <= clock
  <2>1. Basics /\ JobsMatch /\ MaxTime \in Nat
    <3>1. MaxTime \in Nat
      BY SuiteAssumption
    <3>2. QED
      BY <1>1, <3>1 DEF Shape
  <2>2. clock \in 0 .. MaxTime /\ began \in 0 .. clock
    BY <2>1 DEF Basics
  <2>3. began \in Nat /\ clock \in Nat /\ began <= clock
    BY <2>1, <2>2
  <2>4. run \in 1 .. MaxRuns /\ test \in Tests /\ options \in Options
    BY <2>1 DEF Basics
  <2>5. QED
    BY <2>1, <2>3, <2>4
<1>3. FitScript(Script(test), run)
  BY <1>2, ScriptsFit
<1>4. \A i \in DOMAIN jobs :
            /\ jobs[i].stage = "asked"
            /\ phase \in DOMAIN Script(test)
            /\ i \in DOMAIN Script(test)[phase].calls
  BY <1>1, <1>2, <1>3, BegunIs
<1>5. \A i \in DOMAIN jobs : ~Done(jobs[i]) /\ jobs[i].stage # "read"
  BY <1>4 DEF Done
<1>6. AskTime = clock
  <2>1. CASE 1 \in DOMAIN jobs /\ "now" \in DOMAIN Calls[1] /\ Calls[1].now = Now
    <3>1. /\ phase \in DOMAIN Script(test)
          /\ 1 \in DOMAIN Script(test)[phase].calls
      BY <1>4, <2>1
    <3>2. PICK c : c = Script(test)[phase].calls[1]
      OBVIOUS
    <3>3. Calls[1] = c
      BY <3>1, <3>2 DEF Calls
    <3>4. jobs[1] = Asked(c, began)
      BY <1>1, <3>1, <3>2 DEF Begun
    <3>5. jobs[1].call = [c EXCEPT !.now = IF @ = Now THEN clock ELSE began + @]
      BY <2>1, <3>3, <3>4 DEF Asked
    <3>6. jobs[1].call.now = clock
      BY <2>1, <3>3, <3>5
    <3>7. QED
      BY <2>1, <3>6 DEF AskTime
  <2>2. CASE ~(1 \in DOMAIN jobs /\ "now" \in DOMAIN Calls[1]
               /\ Calls[1].now = Now)
    BY <2>2 DEF AskTime
  <2>3. QED
    BY <2>1, <2>2
<1>7. At(phase, db, AskTime)
  BY <1>1, <1>6
<1>8. CASE IsDefect(test, phase)
  <2>1. \A i : i \in DOMAIN jobs <=> i = 1 \/ i = 2
    BY <1>1, <1>8, DefectJobs
  <2>2. DefectTale
    BY <1>5, <1>7, <2>1 DEF DefectTale
  <2>3. QED
    BY <1>8, <2>2 DEF Story
<1>9. CASE ~IsDefect(test, phase)
  <2>1. FirstDecides
    BY <1>5, <1>7 DEF FirstDecides
  <2>2. AnswersFit
    BY <1>5 DEF AnswersFit
  <2>3. QED
    BY <1>9, <2>1, <2>2 DEF Story
<1>10. QED
  BY <1>8, <1>9

\* A phase that has just begun, on the tables it should find.
LEMMA BegunStoryNext ==
    (Shape /\ jobs = Begun(Script(test), phase, began)
        /\ At(phase, db, clock))' => Story'
  BY BegunStory, PTL

\* The story speaks of these variables alone.
LEMMA StoryKept ==
    ASSUME Story, UNCHANGED <<adapter, options, clock, began, db, run, test,
                              phase, jobs>>
    PROVE  Story'
<1>1. /\ adapter' = adapter /\ options' = options /\ clock' = clock
      /\ began' = began /\ db' = db /\ run' = run /\ test' = test
      /\ phase' = phase /\ jobs' = jobs
  OBVIOUS
<1>2. Script(test)' = Script(test) /\ Calls' = Calls
  BY <1>1, CallsKept
<1>3. AskTime' = AskTime
  BY <1>1, <1>2 DEF AskTime
<1>4. FirstDecides => FirstDecides'
  BY <1>1, <1>3 DEF FirstDecides, At
<1>5. AnswersFit => AnswersFit'
  BY <1>1, <1>2 DEF AnswersFit
<1>6. DefectTale => DefectTale'
  BY <1>1, <1>3 DEF DefectTale, At
<1>7. QED
  BY <1>1, <1>4, <1>5, <1>6 DEF Story

\* Two calls that won one race are not what its test expects.
LEMMA TwoFail ==
    ASSUME Shape, phase \in DOMAIN Script(test), IsRace(test, phase), TwoWinners
    PROVE  ~AsExpected
<1>1. options \in Options /\ Concurrency \in Nat
  BY OptionsTyped DEF Shape, Basics
<1>2. ExpectsRace(Script(test)[phase], WinOf(test), LosesOf(test))
  BY <1>1, RaceExpects
<1>3. SUFFICES ASSUME AsExpected PROVE FALSE
  OBVIOUS
<1>4. PICK answers : answers = PhaseAnswers
  OBVIOUS
<1>5. DOMAIN answers = 1 .. Concurrency /\ Count(answers, WinOf(test)) = 1
  BY <1>2, <1>3, <1>4 DEF ExpectsRace, AsExpected
<1>6. /\ DOMAIN answers = DOMAIN jobs
      /\ \A i \in DOMAIN jobs : answers[i] = jobs[i].answer
  BY <1>4 DEF PhaseAnswers
<1>7. PICK w \in 1 .. Concurrency :
            /\ answers[w] = WinOf(test)
            /\ \A j \in 1 .. Concurrency \ {w} : answers[j] # WinOf(test)
  BY <1>1, <1>5, WinnerCount
<1>8. \A u \in DOMAIN jobs : jobs[u].answer = WinOf(test) => u = w
  BY <1>5, <1>6, <1>7
<1>9. QED
  BY <1>8 DEF TwoWinners

\* A phase that settles ends its test or begins the next phase.
LEMMA SettleParts ==
    ASSUME Settle
    PROVE  /\ AllDone /\ verdict = "running"
           /\ UNCHANGED <<adapter, options, clock, began, db, run, test, stale,
                          lost>>
           /\ phase \notin DOMAIN Script(test) => Ends("pass")
           /\ phase \in DOMAIN Script(test) =>
                \/ ~AsExpected /\ Ends("fail")
                \/ AsExpected /\ IsLast /\ Ends("pass")
                \/ AsExpected /\ ~IsLast /\ Advances
  BY DEF Settle, AllDone, Done, Advances

\* Settling keeps Told while no call has won on stale rows.
LEMMA SettleStory ==
    ASSUME Shape, Told, ~stale, Settle
    PROVE  Told'
<1>1. Story /\ AllDone /\ verdict = "running" /\ stale \in BOOLEAN
  BY SettleParts DEF Told, Shape, Basics
<1>2. UNCHANGED <<adapter, options, clock, began, db, run, test, stale, lost>>
  BY SettleParts
<1>3. Script(test)' = Script(test) /\ Concurrency' = Concurrency
  BY <1>2, ScriptKept DEF Concurrency, Elements
<1>4. ~stale' /\ StaleWinsAreCaught'
  BY <1>2 DEF StaleWinsAreCaught
<1>5. ASSUME NEW how, Ends(how), how = "fail" => Concurrency = 0
      PROVE  Told'
  <2>1. verdict' = how /\ UNCHANGED <<phase, jobs>>
    BY <1>5 DEF Ends
  <2>2. Story'
    BY <1>1, <1>2, <2>1, StoryKept
  <2>3. FailuresAreEarned'
    BY <1>3, <1>5, <2>1 DEF FailuresAreEarned
  <2>4. QED
    BY <1>4, <2>2, <2>3 DEF Told
<1>6. CASE phase \notin DOMAIN Script(test)
  <2>1. PICK how : how = "pass"
    OBVIOUS
  <2>2. Ends(how) /\ how # "fail"
    BY <1>6, <2>1, SettleParts
  <2>3. QED
    BY <1>5, <2>2
<1>7. CASE phase \in DOMAIN Script(test)
  <2>1. Answerable
    BY <1>1, <1>7 DEF Answerable
  <2>2. CASE ~AsExpected /\ Ends("fail")
    <3>1. Concurrency = 0
      BY <2>1, <2>2, Fulfilled
    <3>2. PICK how : how = "fail"
      OBVIOUS
    <3>3. Ends(how)
      BY <2>2, <3>2
    <3>4. QED
      BY <1>5, <3>1, <3>3
  <2>3. CASE Ends("pass")
    <3>1. PICK how : how = "pass"
      OBVIOUS
    <3>2. Ends(how) /\ how # "fail"
      BY <2>3, <3>1
    <3>3. QED
      BY <1>5, <3>2
  <2>4. CASE AsExpected /\ ~IsLast /\ Advances
    <3>1. phase' = phase + 1
          /\ jobs' = Begun(Script(test), phase + 1, began)
          /\ verdict' = verdict
      BY <2>4 DEF Advances
    <3>2. Shape'
      BY SettleKeepsShape
    <3>3. At(phase + 1, db, clock)
      BY <2>1, <2>4, MovesOn
    <3>4. At(phase, db, clock)'
      BY <1>2, <3>1, <3>3 DEF At
    <3>5. (jobs = Begun(Script(test), phase, began))'
      <4>1. (Begun(Script(test), phase, began))'
                = Begun(Script(test)', phase', began')
        BY <1>2 DEF Begun, Asked
      <4>2. QED
        BY <1>2, <1>3, <3>1, <4>1
    <3>6. Story'
      BY <3>2, <3>4, <3>5, BegunStoryNext
    <3>7. FailuresAreEarned'
      BY <1>1, <3>1 DEF FailuresAreEarned
    <3>8. QED
      BY <1>4, <3>6, <3>7 DEF Told
  <2>5. QED
    BY <1>7, <2>2, <2>3, <2>4, SettleParts
<1>8. QED
  BY <1>6, <1>7

\* A phase that has just begun has answered nothing.
LEMMA BegunAsked ==
    ASSUME Basics, NEW k
    PROVE  /\ DOMAIN Begun(Script(test), k, began) =
                DOMAIN (IF k \in DOMAIN Script(test)
                        THEN Script(test)[k].calls ELSE <<>>)
           /\ \A i \in DOMAIN Begun(Script(test), k, began) :
                ~Done(Begun(Script(test), k, began)[i])
<1>1. /\ run \in 1 .. MaxRuns /\ test \in Tests /\ options \in Options
      /\ clock \in 0 .. MaxTime /\ began \in 0 .. clock
  BY DEF Basics
<1>2. MaxTime \in Nat
  BY SuiteAssumption
<1>3. began \in Nat /\ clock \in Nat /\ began <= clock
  BY <1>1, <1>2
<1>4. FitScript(Script(test), run)
  BY <1>1, ScriptsFit
<1>5. PICK s : s = Script(test)
  OBVIOUS
<1>6. /\ DOMAIN Begun(s, k, began) =
                DOMAIN (IF k \in DOMAIN s THEN s[k].calls ELSE <<>>)
      /\ \A i \in DOMAIN Begun(s, k, began) : Begun(s, k, began)[i].stage = "asked"
  BY <1>3, <1>4, <1>5, BegunIs
<1>7. QED
  BY <1>5, <1>6 DEF Done

\* A test that a surviving rotation dooms does not pass by its next look.
LEMMA SurvivedSettles ==
    ASSUME Shape, Survived, Settle
    PROVE  verdict' # "pass" /\ Survived'
<1>1. /\ Basics /\ JobsMatch /\ test = "DefectA" /\ phase \in {3, 4}
      /\ AllDone /\ verdict = "running"
      /\ UNCHANGED <<adapter, options, clock, began, db, run, test, stale, lost>>
  BY SettleParts DEF Shape, Survived
<1>2. phase \in DOMAIN Script(test)
  BY <1>1, DefectScript
<1>3. PICK z : z = NameOf(run, 0, "sibling")
  OBVIOUS
<1>4. z = NameOf(run', 0, "sibling") /\ db' = db /\ test' = test
  BY <1>1, <1>3
<1>5. CASE phase = 3
  <2>1. /\ \A i : i \in DOMAIN jobs <=> i = 1 \/ i = 2
    BY <1>1, <1>5, DefectCalls DEF JobsMatch
  <2>2. /\ jobs[1].answer = "benign-race" /\ Done(jobs[1]) /\ Done(jobs[2])
        /\ z \in DOMAIN db.sessions /\ db.sessions[z].revokedAt = Null
    BY <1>3, <1>5 DEF Survived
  <2>3. ~IsLast
    <3>1. PhaseAnswers = <<jobs[1].answer, jobs[2].answer>>
      BY <2>1, TwoAnswers
    <3>2. Script(test)[phase].enough = {<<"reuse", "done">>}
      BY <1>1, <1>5, DefectScript
    <3>3. PhaseAnswers # <<"reuse", "done">>
      BY <2>2, <3>1
    <3>4. phase + 1 \in DOMAIN Script(test)
      BY <1>1, <1>5, DefectScript
    <3>5. QED
      BY <3>2, <3>3, <3>4 DEF IsLast
  <2>4. CASE Ends("fail")
    <3>1. verdict' = "fail" /\ phase' = phase /\ jobs' = jobs
      BY <2>4 DEF Ends
    <3>2. QED
      BY <1>1, <1>4, <1>5, <2>2, <3>1 DEF Survived
  <2>5. CASE Advances
    <3>1. /\ phase' = 4 /\ verdict' = "running"
          /\ jobs' = Begun(Script(test), phase + 1, began)
      BY <1>1, <1>5, <2>5 DEF Advances
    <3>2. PICK k : k = 4 /\ k = phase + 1 /\ k \in DOMAIN Script(test)
      BY <1>1, <1>5, DefectScript
    <3>3. PICK c, A : c = FindByHash("sibling") /\ A = {"revoked"}
      OBVIOUS
    <3>4. Script(test)[k] = Alone(c, A)
      BY <1>1, <3>2, <3>3, DefectScript
    <3>5. 1 \in DOMAIN Script(test)[k].calls
      BY <3>4, AloneIs
    <3>6. 1 \in DOMAIN jobs' /\ jobs' = Begun(Script(test), k, began)
      BY <1>1, <3>1, <3>2, <3>5, BegunAsked
    <3>7. ~Done(jobs'[1])
      BY <1>1, <3>6, BegunAsked
    <3>8. QED
      BY <1>1, <1>4, <2>2, <3>1, <3>7 DEF Survived
  <2>6. QED
    BY <1>2, <2>3, <2>4, <2>5, SettleParts
<1>6. CASE phase = 4
  <2>1. \A i : i \in DOMAIN jobs <=> i = 1
    BY <1>1, <1>6, DefectCalls DEF JobsMatch
  <2>2. Done(jobs[1])
    BY <1>1, <2>1 DEF AllDone
  <2>3. jobs[1].answer = "live"
    BY <1>6, <2>2 DEF Survived
  <2>4. PhaseAnswers = <<jobs[1].answer>>
    BY <2>1, OneAnswer
  <2>5. ~AsExpected
    <3>1. PICK c, A : c = FindByHash("sibling") /\ A = {"revoked"}
      OBVIOUS
    <3>2. Script(test)[phase] = Alone(c, A)
      BY <1>1, <1>6, <3>1, DefectScript
    <3>3. jobs[1].answer \notin A
      BY <2>3, <3>1
    <3>4. <<jobs[1].answer>> \notin Script(test)[phase].expected
      BY <3>2, <3>3, AloneIs
    <3>5. QED
      BY <2>4, <3>4 DEF AsExpected
  <2>6. verdict' = "fail" /\ phase' = phase /\ jobs' = jobs
    BY <1>2, <2>5, SettleParts DEF Ends
  <2>7. QED
    BY <1>1, <1>4, <1>6, <2>2, <2>3, <2>6 DEF Survived
<1>7. QED
  BY <1>1, <1>5, <1>6

\* And once one has: the test then fails, or was the smoke test.
LEMMA SettleDoomed ==
    ASSUME Shape, Told, stale, Settle
    PROVE  Told'
<1>1. Doomed /\ AllDone /\ verdict = "running"
  BY SettleParts DEF Told
<1>2. UNCHANGED <<adapter, options, clock, began, db, run, test, stale, lost>>
  BY SettleParts
<1>3. stale' /\ FailuresAreEarned'
  BY <1>2 DEF FailuresAreEarned
<1>4. CASE test = "ConsumeInvalidateSmoke"
  <2>1. Doomed' /\ StaleWinsAreCaught'
    BY <1>2, <1>4 DEF Doomed, StaleWinsAreCaught
  <2>2. QED
    BY <1>3, <2>1 DEF Told
<1>5. CASE Survived
  <2>1. verdict' # "pass" /\ Survived'
    BY <1>5, SurvivedSettles
  <2>2. QED
    BY <1>3, <2>1 DEF Told, Doomed, StaleWinsAreCaught
<1>6. CASE IsRace(test, phase) /\ TwoWinners
  <2>1. phase \in DOMAIN Script(test)
    <3>1. \E i : i \in DOMAIN jobs
      BY <1>6 DEF TwoWinners
    <3>2. QED
      BY <3>1 DEF Shape, JobsMatch, Calls
  <2>2. ~AsExpected
    BY <1>6, <2>1, TwoFail
  <2>3. verdict' = "fail" /\ phase' = phase /\ jobs' = jobs
    BY <2>1, <2>2, SettleParts DEF Ends
  <2>4. Doomed'
    BY <1>2, <1>6, <2>3 DEF Doomed, TwoWinners
  <2>5. QED
    BY <1>3, <2>3, <2>4 DEF Told, StaleWinsAreCaught
<1>7. QED
  BY <1>1, <1>4, <1>5, <1>6 DEF Doomed

\* Nothing the test is to draw has been drawn, and if it names fixed accounts
\* its tables are empty.
Open(name, d, r) ==
    /\ \A x \in DOMAIN d.sessions : x[1] # r
    /\ \A x \in DOMAIN d.tokens : x[1] # r
    /\ name \in IdentityTests => DOMAIN d.accounts = {} /\ Unbound(d.owner)

\* On tables that are open to a test its first phase finds what it should.
LEMMA Opens ==
    ASSUME NEW name, NEW d, NEW r, Open(name, d, r), NEW b, NEW n
    PROVE  Holds(name, 1, d, r, b, n)
<1>1. \A m, use : NameOf(r, m, use)[1] = r
  BY DEF NameOf
<1>2. \A m, use : /\ NameOf(r, m, use) \notin DOMAIN d.sessions
                  /\ NameOf(r, m, use) \notin DOMAIN d.tokens
  BY <1>1 DEF Open
<1>3. PICK k : k = 1 /\ \A i \in 2 .. 8 : k # i
  OBVIOUS
<1>4. /\ k # 2 /\ k # 3 /\ k # 4 /\ k # 5 /\ k # 6 /\ k # 7
      /\ k \notin {4, 5} /\ k \notin {2, 3}
      /\ k \notin 2 .. 4 /\ k \notin 3 .. 4 /\ k \notin 5 .. 6 /\ k \notin 4 .. 7
      /\ k \notin 3 .. 7 /\ k \notin 4 .. 8
  BY <1>3
<1>5. SessionHolds(name, k, d.sessions, r, b, n)
  BY <1>2, <1>4 DEF SessionHolds
<1>6. /\ RoundAt(2, k) = 1 /\ PlaceAt(2, k) = 1
      /\ RoundAt(3, k) = 1 /\ PlaceAt(3, k) = 1
  BY <1>3 DEF RoundAt, PlaceAt
<1>7. TokenHolds(name, k, d.tokens, r, b)
  <2>1. /\ PlaceAt(2, k) # 2 /\ PlaceAt(3, k) # 2 /\ PlaceAt(3, k) # 3
        /\ PlaceAt(3, k) \notin {2, 3} /\ ~(RoundAt(2, k) > 1)
    BY <1>6
  <2>2. \A x \in DOMAIN d.tokens : x[1] # r
    BY DEF Open
  <2>3. QED
    BY <1>2, <1>4, <2>1, <2>2 DEF TokenHolds
<1>8. ASSUME name \in IdentityTests
      PROVE  BindingHolds(name, k, d.accounts, d.owner)
  <2>1. DOMAIN d.accounts = {} /\ Unbound(d.owner)
    BY <1>8 DEF Open
  <2>2. ClaimsHold(k, d.accounts, d.owner)
    <3>1. PlaceAt(3, k) # 2 /\ PlaceAt(3, k) # 3
      BY <1>6
    <3>2. BoundBefore(d.owner, RoundAt(3, k))
      BY <2>1 DEF BoundBefore, Unbound
    <3>3. QED
      BY <3>1, <3>2 DEF ClaimsHold
  <2>3. QED
    BY <1>4, <2>1, <2>2 DEF BindingHolds
<1>9. QED
  BY <1>3, <1>5, <1>7, <1>8 DEF Holds

\* The empty tables are open to every test.
LEMMA EmptyOpen ==
    ASSUME NEW name, NEW r
    PROVE  Open(name, EmptyDb, r)
<1>1. /\ DOMAIN EmptyDb.sessions = {} /\ DOMAIN EmptyDb.tokens = {}
      /\ DOMAIN EmptyDb.accounts = {} /\ EmptyDb.owner = [k \in Keys |-> Null]
  BY DEF EmptyDb
<1>2. Unbound(EmptyDb.owner)
  BY <1>1 DEF Unbound
<1>3. QED
  BY <1>1, <1>2 DEF Open

\* Beginning another test keeps Told: its names have no rows yet.
LEMMA ContinueTold ==
    ASSUME Shape, Told, Continue
    PROVE  Told'
<1>1. /\ run \in 1 .. MaxRuns /\ run' = run + 1
      /\ test' \in Tests /\ phase' = 1 /\ began' = clock
      /\ jobs' = Begun(Script(test)', 1, clock)
      /\ verdict' = "running" /\ ~stale
      /\ UNCHANGED <<adapter, options, clock, stale>>
      /\ db' = IF test' \in IdentityTests THEN EmptyDb ELSE db
      /\ TypedDb(db) /\ NamedUpTo(db, run)
  BY SuiteNames DEF Continue, Shape, Basics, Tables
<1>2. Shape'
  BY ContinueKeepsShape
<1>3. Open(test', db', run')
  <2>1. CASE db' = EmptyDb
    BY <2>1, EmptyOpen
  <2>2. CASE test' \notin IdentityTests /\ db' = db
    <3>1. run' \notin 1 .. run
      BY <1>1
    <3>2. /\ \A x \in DOMAIN db.sessions : x[1] # run'
          /\ \A x \in DOMAIN db.tokens : x[1] # run'
      BY <1>1, <3>1 DEF NamedUpTo
    <3>3. QED
      BY <2>2, <3>2 DEF Open
  <2>3. QED
    BY <1>1, <2>1, <2>2
<1>4. Holds(test', 1, db', run', began', clock')
  BY <1>3, Opens
<1>5. At(phase, db, clock)'
  BY <1>1, <1>4 DEF At
<1>6. (jobs = Begun(Script(test), phase, began))'
  BY <1>1 DEF Begun, Asked
<1>7. Story'
  BY <1>2, <1>5, <1>6, BegunStoryNext
<1>8. FailuresAreEarned' /\ StaleWinsAreCaught'
  BY <1>1 DEF FailuresAreEarned, StaleWinsAreCaught
<1>9. QED
  BY <1>1, <1>7, <1>8 DEF Told

\* A suite that begins has nothing to tell.
LEMMA InitTold ==
    ASSUME Init
    PROVE  Told
<1>1. Shape
  BY ShapeInit
<1>2. /\ phase = 1 /\ db = EmptyDb /\ run = 1 /\ ~stale
      /\ jobs = Begun(Script(test), 1, 0) /\ began = 0
      /\ verdict \in {"threw", "running"}
  BY DEF Init
<1>3. Open(test, db, run)
  BY <1>2, EmptyOpen
<1>4. At(phase, db, clock)
  BY <1>2, <1>3, Opens DEF At
<1>5. Story
  BY <1>1, <1>2, <1>4, BegunStory
<1>6. FailuresAreEarned /\ StaleWinsAreCaught
  BY <1>2 DEF FailuresAreEarned, StaleWinsAreCaught
<1>7. QED
  BY <1>2, <1>5, <1>6 DEF Told

\* Every step keeps Told.
LEMMA ToldStep ==
    ASSUME Shape, Told, [Next]_vars
    PROVE  Told'
<1>1. ASSUME verdict = "running", NEW i \in DOMAIN jobs,
             Serve(i) \/ Read(i) \/ Write(i) \/ LinkLooks(i)
      PROVE  Told'
  BY <1>1, JobTold DEF JobStep
<1>2. CASE Settle
  BY <1>2, SettleStory, SettleDoomed
<1>3. CASE Continue
  BY <1>3, ContinueTold
<1>4. CASE Tick
  BY <1>4, TickTold
<1>5. CASE Rest \/ UNCHANGED vars
  BY <1>5, StillTold DEF Rest
<1>6. QED
  BY <1>1, <1>2, <1>3, <1>4, <1>5 DEF Next

\* So it always holds.
LEMMA ToldAlways == Spec => []Told
<1>1. Init => Shape /\ Told
  BY ShapeInit, InitTold
<1>2. Shape /\ Told /\ [Next]_vars => (Shape /\ Told)'
  BY ShapeStep, ToldStep
<1>3. QED
  BY <1>1, <1>2, PTL DEF Spec

\* No suite fails an adapter unjustly, whatever the order of its tests, the
\* rows they left and the calls served first: a test fails only if a call won
\* on rows that another had changed since it read them, or if the host asked
\* for races among nobody (the suites of src/conformance.ts).
THEOREM FailuresHaveCauses == Spec => []FailuresAreEarned
<1>1. Told => FailuresAreEarned
  BY DEF Told
<1>2. QED
  BY <1>1, ToldAlways, PTL

\* A call that won on stale rows fails its test: the races of the suites of
\* src/conformance.ts are not decided by luck once they happen.  The one
\* exception is a consume that overlaps an invalidation, as the suite admits.
THEOREM StaleWinsAreFound == Spec => []StaleWinsAreCaught
<1>1. Told => StaleWinsAreCaught
  BY DEF Told
<1>2. QED
  BY <1>1, ToldAlways, PTL

\* Only an adapter of two transactions lets a call win on stale rows.
LEMMA AtomicIsFresh ==
    ASSUME Shape, adapter = "atomic" => ~stale, [Next]_vars
    PROVE  (adapter = "atomic" => ~stale)'
<1>1. ASSUME NEW i \in DOMAIN jobs, Write(i)
      PROVE  adapter = "readThenWrite"
  BY <1>1 DEF Write, Shape, Readers, Split
<1>2. CASE \E i \in DOMAIN jobs : Write(i)
  BY <1>1, <1>2 DEF Write
<1>3. CASE \E i \in DOMAIN jobs : Serve(i) \/ Read(i) \/ LinkLooks(i)
  BY <1>3 DEF Serve, Read, LinkLooks
<1>4. CASE Settle \/ Continue \/ Tick \/ Rest \/ UNCHANGED vars
  BY <1>4 DEF Settle, Continue, Tick, Rest, vars
<1>5. QED
  BY <1>2, <1>3, <1>4 DEF Next

\* So an adapter whose calls are atomic, as the ports demand, passes
\* every suite of src/conformance.ts whatever the interleaving, if the host
\* asks for races among somebody.
THEOREM AtomicAdaptersPass ==
    Spec => [](adapter = "atomic" /\ Concurrency # 0 => verdict # "fail")
<1>1. Init => Shape /\ (adapter = "atomic" => ~stale)
  BY ShapeInit DEF Init
<1>2. Shape /\ (adapter = "atomic" => ~stale) /\ [Next]_vars
        => (Shape /\ (adapter = "atomic" => ~stale))'
  BY ShapeStep, AtomicIsFresh
<1>3. (adapter = "atomic" => ~stale) /\ FailuresAreEarned
        => (adapter = "atomic" /\ Concurrency # 0 => verdict # "fail")
  BY DEF FailuresAreEarned
<1>4. QED
  BY <1>1, <1>2, <1>3, FailuresHaveCauses, PTL DEF Spec

=============================================================================
