--------------------------- MODULE RefreshSession ---------------------------
(***************************************************************************)
(* Refresh sessions of src/index.ts: createRefreshToken,                   *)
(* rotateRefreshToken, revokeRefreshToken and the host's call of           *)
(* revokeAllForUser, run by concurrent request handlers over one store.    *)
(*                                                                         *)
(* A handler's run is cut at each await.  It reads its clock and computes  *)
(* what it will ask for; then the store executes the port's operation, in  *)
(* one transaction as the port demands; then the answer travels to the     *)
(* client that holds the raw tokens.  Between the cuts other handlers run, *)
(* time passes, and the handler or its connection may be lost.             *)
(***************************************************************************)
EXTENDS RefreshStore

CONSTANTS Callers,            \* the request handlers, one call each at a time
          Garbage,            \* a presented token the library never issued
          Ttls,               \* the ttlMs the host's endpoints pass
          Graces,             \* the graceMs they pass
          SuppliedFamilies,   \* families hosts may name in options.familyId
          CanCrash,           \* may a handler or its connection be lost?
          MaxTime             \* bound: the clock stops here

ASSUME ConstantsAssumption ==
    /\ Garbage \notin Tokens
    /\ Ttls \subseteq Int
    /\ Graces \subseteq Int
    /\ SuppliedFamilies \subseteq Families
    /\ CanCrash \in BOOLEAN
    /\ MaxTime \in Nat

VARIABLES clock,      \* new Date(), the same for hosts and store
          sessions,   \* the store's rows
          held,       \* raw tokens that reached a client (or a thief)
          call        \* what each handler awaits

vars == <<clock, sessions, held, call>>

Presentable == Tokens \cup {Garbage}

-----------------------------------------------------------------------------
(* The states of a handler.                                                *)

Idle == [op |-> "idle"]

Login == [op : {"createSession"}, next : Tokens, user : Users,
          family : Families, expiresAt : Instants]

Rotation == [op : {"rotate"}, old : Presentable, next : Tokens,
             expiresAt : Instants, graceMs : Graces \cap Nat, now : Instants]

Logout == [op : {"findByHash"}, old : Presentable]

FamilyKill == [op : {"revokeFamily"}, old : Presentable, family : Families]

UserKill == [op : {"revokeAllForUser"}, user : Users]

\* An answer, with the token that was presented and the one it carries.
Reply == [op : {"reply"},
          outcome : {"loggedIn", "rotated", "invalid", "reuse", "loggedOut",
                     "loggedOutEverywhere"},
          old : Presentable \cup {Null}, next : Tokens \cup {Null}]

Call == {Idle} \cup Login \cup Rotation \cup Logout \cup FamilyKill
            \cup UserKill \cup Reply

Answer(outcome, old, next) ==
    [op |-> "reply", outcome |-> outcome, old |-> old, next |-> next]

Awaits(c, op) == call[c].op = op

Become(c, state) == call' = [call EXCEPT ![c] = state]

FreshInStoreOnly(t) == t \notin DOMAIN sessions

\* Draws of the random source: values that no row has and no handler is about
\* to store.  (One drawn for a call that stored nothing was seen by nobody.)
Fresh(t) ==
    /\ t \notin DOMAIN sessions
    /\ \A c \in Callers :
        call[c].op \in {"createSession", "rotate"} => call[c].next # t

FreshFamily(f) ==
    /\ FamilyRows(sessions, f) = {}
    /\ \A c \in Callers : Awaits(c, "createSession") => call[c].family # f

-----------------------------------------------------------------------------
(* The handlers' first steps, up to the await of the store.                *)

\* createRefreshToken: options.familyId, or a random UUID.
BeginLogin(c) ==
    /\ call[c] = Idle
    /\ \E t \in Tokens, f \in Families, u \in Users, ttl \in Ttls :
        /\ ttl > 0
        /\ Fresh(t)
        /\ f \in SuppliedFamilies \/ FreshFamily(f)
        /\ Become(c, [op |-> "createSession", next |-> t, user |-> u,
                      family |-> f, expiresAt |-> clock + ttl])
    /\ UNCHANGED <<clock, sessions, held>>

\* rotateRefreshToken: `now' is read here, before the store is asked.
BeginRotate(c) ==
    /\ call[c] = Idle
    /\ \E old \in held \cup {Garbage}, t \in Tokens,
          ttl \in Ttls, graceMs \in Graces :
        /\ ttl > 0
        /\ graceMs >= 0
        /\ Fresh(t)
        /\ Become(c, [op |-> "rotate", old |-> old, next |-> t,
                      expiresAt |-> clock + ttl,
                      graceMs |-> graceMs, now |-> clock])
    /\ UNCHANGED <<clock, sessions, held>>

\* revokeRefreshToken.
BeginLogout(c) ==
    /\ call[c] = Idle
    /\ \E t \in held \cup {Garbage} :
        Become(c, [op |-> "findByHash", old |-> t])
    /\ UNCHANGED <<clock, sessions, held>>

\* The host's "log out everywhere", password reset or deactivation.
BeginUserKill(c) ==
    /\ call[c] = Idle
    /\ \E u \in Users : Become(c, [op |-> "revokeAllForUser", user |-> u])
    /\ UNCHANGED <<clock, sessions, held>>

-----------------------------------------------------------------------------
(* The store's transactions.                                               *)

\* createSession.
StoreCreate(c) ==
    /\ Awaits(c, "createSession")
    /\ sessions' = InsertRow(sessions, call[c].next, call[c].family,
                             call[c].user, call[c].expiresAt)
    /\ Become(c, Answer("loggedIn", Null, call[c].next))
    /\ UNCHANGED <<clock, held>>

\* rotate, no row for the digest: `not-found', which the caller calls invalid.
RotateNotFound(c) ==
    /\ Awaits(c, "rotate")
    /\ call[c].old \notin DOMAIN sessions
    /\ Become(c, Answer("invalid", call[c].old, Null))
    /\ UNCHANGED <<clock, sessions, held>>

RotateExpiredFirst(c) ==
    /\ Awaits(c, "rotate")
    /\ call[c].old \in DOMAIN sessions
    /\ sessions[call[c].old].expiresAt <= call[c].now
    /\ Become(c, Answer("invalid", call[c].old, Null))
    /\ UNCHANGED <<clock, sessions, held>>

\* rotate, a row nobody revoked but past its expiry: `expired', nothing
\* written.  A token is dead at the instant it expires.
RotateExpired(c) ==
    /\ Awaits(c, "rotate")
    /\ call[c].old \in DOMAIN sessions
    /\ ~IsRevoked(sessions[call[c].old])
    /\ sessions[call[c].old].expiresAt <= call[c].now
    /\ Become(c, Answer("invalid", call[c].old, Null))
    /\ UNCHANGED <<clock, sessions, held>>

\* rotate, the compare-and-swap wins.
RotateWins(c) ==
    /\ Awaits(c, "rotate")
    /\ call[c].old \in DOMAIN sessions
    /\ ~IsRevoked(sessions[call[c].old])
    /\ sessions[call[c].old].expiresAt > call[c].now
    /\ sessions' = ReplaceRow(sessions, call[c].old, call[c].next,
                              call[c].expiresAt, call[c].now)
    /\ Become(c, Answer("rotated", call[c].old, call[c].next))
    /\ UNCHANGED <<clock, held>>

\* The judgement of a replay: two tabs that refreshed together?
IsBenign(r) ==
    /\ WithinGrace(sessions, r.old, r.graceMs, r.now)
    /\ ReplacementActive(sessions, r.old, r.now)

\* rotate, a benign race: a sibling is minted and nothing is revoked.
RotateBenign(c) ==
    /\ Awaits(c, "rotate")
    /\ call[c].old \in DOMAIN sessions
    /\ IsRevoked(sessions[call[c].old])
    /\ IsBenign(call[c])
    /\ sessions' = InsertSibling(sessions, call[c].old, call[c].next,
                                 call[c].expiresAt)
    /\ Become(c, Answer("rotated", call[c].old, call[c].next))
    /\ UNCHANGED <<clock, held>>

\* rotate, reuse: every row of the family dies, stamped with the caller's now.
RotateReuse(c) ==
    /\ Awaits(c, "rotate")
    /\ call[c].old \in DOMAIN sessions
    /\ IsRevoked(sessions[call[c].old])
    /\ ~IsBenign(call[c])
    /\ sessions' = RevokeRows(sessions,
                        FamilyRows(sessions, sessions[call[c].old].familyId),
                        call[c].now)
    /\ Become(c, Answer("reuse", call[c].old, Null))
    /\ UNCHANGED <<clock, held>>

StoreRotate(c) ==
    \/ RotateNotFound(c)
    \/ RotateExpired(c)
    \/ RotateWins(c)
    \/ RotateBenign(c)
    \/ RotateReuse(c)

\* findByHash, and the handler's `if (row)'.
LogoutFinds(c) ==
    /\ Awaits(c, "findByHash")
    /\ call[c].old \in DOMAIN sessions
    /\ Become(c, [op |-> "revokeFamily", old |-> call[c].old,
                  family |-> sessions[call[c].old].familyId])
    /\ UNCHANGED <<clock, sessions, held>>

LogoutFindsNothing(c) ==
    /\ Awaits(c, "findByHash")
    /\ call[c].old \notin DOMAIN sessions
    /\ Become(c, Answer("loggedOut", call[c].old, Null))
    /\ UNCHANGED <<clock, sessions, held>>

StoreKillFamilyUnlessRevoked(c) ==
    /\ Awaits(c, "revokeFamily")
    /\ sessions' = IF IsRevoked(sessions[call[c].old]) THEN sessions
                   ELSE RevokeRows(sessions,
                                   FamilyRows(sessions, call[c].family), clock)
    /\ Become(c, Answer("loggedOut", call[c].old, Null))
    /\ UNCHANGED <<clock, held>>

StoreKillPresentedOnly(c) ==
    /\ Awaits(c, "revokeFamily")
    /\ sessions' = RevokeRows(sessions, {call[c].old}, clock)
    /\ Become(c, Answer("loggedOut", call[c].old, Null))
    /\ UNCHANGED <<clock, held>>

StoreKillWholeUser(c) ==
    /\ Awaits(c, "revokeFamily")
    /\ sessions' = RevokeRows(sessions,
                       UserRows(sessions, sessions[call[c].old].userId), clock)
    /\ Become(c, Answer("loggedOut", call[c].old, Null))
    /\ UNCHANGED <<clock, held>>

\* revokeFamily, stamped with the store's own clock.
StoreKillFamily(c) ==
    /\ Awaits(c, "revokeFamily")
    /\ sessions' = RevokeRows(sessions, FamilyRows(sessions, call[c].family),
                              clock)
    /\ Become(c, Answer("loggedOut", call[c].old, Null))
    /\ UNCHANGED <<clock, held>>

\* revokeAllForUser.
StoreKillUser(c) ==
    /\ Awaits(c, "revokeAllForUser")
    /\ sessions' = RevokeRows(sessions, UserRows(sessions, call[c].user),
                              clock)
    /\ Become(c, Answer("loggedOutEverywhere", Null, Null))
    /\ UNCHANGED <<clock, held>>

Store(c) ==
    \/ StoreCreate(c)
    \/ StoreRotate(c)
    \/ LogoutFinds(c)
    \/ LogoutFindsNothing(c)
    \/ StoreKillFamily(c)
    \/ StoreKillUser(c)

-----------------------------------------------------------------------------
(* The answer's way to the client, time, and loss.                         *)

\* The promise resolves; a token in the answer is in the client's hands, and
\* the client keeps the old one as well (a stale tab, a copied cookie).
Deliver(c) ==
    /\ Awaits(c, "reply")
    /\ held' = held \cup ({call[c].next} \ {Null})
    /\ Become(c, Idle)
    /\ UNCHANGED <<clock, sessions>>

\* The handler's process or connection is lost, at any await: before the
\* store acted, between a logout's two calls, or with the answer on its way.
Crash(c) ==
    /\ CanCrash
    /\ call[c] # Idle
    /\ Become(c, Idle)
    /\ UNCHANGED <<clock, sessions, held>>

Tick ==
    /\ clock < MaxTime
    /\ clock' = clock + 1
    /\ UNCHANGED <<sessions, held, call>>

-----------------------------------------------------------------------------
Init ==
    /\ clock = 0
    /\ sessions = [t \in {} |-> Null]
    /\ held = {}
    /\ call = [c \in Callers |-> Idle]

Begin(c) ==
    \/ BeginLogin(c)
    \/ BeginRotate(c)
    \/ BeginLogout(c)
    \/ BeginUserKill(c)

Next ==
    \/ \E c \in Callers : Begin(c) \/ Store(c) \/ Deliver(c) \/ Crash(c)
    \/ Tick

Spec == Init /\ [][Next]_vars

\* A store answers what it is asked: an adapter's query returns.  Clients,
\* clocks and losses promise nothing.
FairSpec == Spec /\ \A c \in Callers : WF_vars(Store(c))

-----------------------------------------------------------------------------
(* What the sessions promise.                                              *)

\* The store holds rows, clients hold tokens the store knows, and handlers
\* are at an await of one of the functions above.
TypeOK ==
    /\ clock \in Instants
    /\ TypedRows(sessions)
    /\ held \subseteq DOMAIN sessions
    /\ call \in [Callers -> Call]

Dead(f) == DeadIn(sessions, f)

\* Families whose id the library drew.  A host that names an existing family
\* in options.familyId logs in to it, dead or alive, whoever it belongs to.
Generated == Families \ SuppliedFamilies

\* replacedById tells rotation from every other revocation: a row that has
\* one is revoked, its successor is a row of the same login of the same user,
\* and no other row claims that successor.  The grace window trusts it.
ReplacementsChain ==
    \A t \in DOMAIN sessions :
        LET next == sessions[t].replacedById
        IN  next # Null =>
                /\ IsRevoked(sessions[t])
                /\ next \in DOMAIN sessions \ {t}
                /\ sessions[next].familyId = sessions[t].familyId
                /\ sessions[next].userId = sessions[t].userId
                /\ \A x \in DOMAIN sessions :
                      sessions[x].replacedById = next => x = t

OneUserPerLogin ==
    \A t, x \in DOMAIN sessions :
        /\ sessions[t].familyId = sessions[x].familyId
        /\ sessions[t].familyId \in Generated
        => sessions[t].userId = sessions[x].userId

\* However rotations, races and logins of several users interleave, a login's
\* rows form one lineage: linked by rotation as above, of one user.
SessionLineage == ReplacementsChain /\ OneUserPerLogin

\* A handler told `reuse' or logged out can count on it: whatever rotations
\* were in flight when the family was killed, and whatever ran before the
\* answer arrived, no token of the family works.  In particular a logout that
\* presents a token a sibling tab has just rotated still ends the session.
VerdictHolds ==
    \A c \in Callers :
        /\ Awaits(c, "reply")
        /\ call[c].outcome \in {"reuse", "loggedOut"}
        /\ call[c].old \in DOMAIN sessions
        /\ sessions[call[c].old].familyId \in Generated
        => Dead(sessions[call[c].old].familyId)

\* With every caller strict (graceMs 0), a login has at most one working
\* token, however its rotations, replays and logouts interleave.
OneLiveTokenPerLogin ==
    \A f \in Generated : \A t, x \in LiveRows(sessions, f) : t = x

\* A revoked family is never resurrected: no rotation, late or replayed, puts
\* a live row into a family that has only revoked ones.  (The decide-then-act
\* rotation of 0.2.0 did; see CHANGELOG.md, 0.2.1.)
DeadFamilyStaysDead ==
    [][\A f \in Generated : Dead(f) => Dead(f)']_vars

\* A row, once revoked, is never touched again.  Its revokedAt opens its grace
\* window: a later kill that restamped it would open the window anew.
RevocationIsFinal ==
    [][\A t \in DOMAIN sessions :
        IsRevoked(sessions[t]) =>
            t \in DOMAIN sessions' /\ sessions'[t] = sessions[t]]_vars

\* The step in which the store answers handler c's last question.
StoreAnswers(c, op) == Awaits(c, op) /\ Awaits(c, "reply")'

\* A session ends only by its own tokens or by its user's logout-everywhere: a
\* step that revokes a row is the store's answer to a handler that presented a
\* token of the row's family, or that was told to log that user out.
KillIsAttributable ==
    [][\A t \in DOMAIN sessions :
        /\ ~IsRevoked(sessions[t])
        /\ IsRevoked(sessions'[t])
        => \E c \in Callers :
            \/ /\ \/ StoreAnswers(c, "rotate")
                  \/ StoreAnswers(c, "revokeFamily")
               /\ call[c].old \in FamilyRows(sessions, sessions[t].familyId)
            \/ /\ StoreAnswers(c, "revokeAllForUser")
               /\ call[c].user = sessions[t].userId]_vars

\* Whoever is answered `rotated' joined a session in which some token still
\* worked at the moment the caller read its clock, by either branch: a session
\* that was killed or has run out cannot be refreshed back to life.
RotationNeedsWorkingToken ==
    [][\A c \in Callers :
        StoreAnswers(c, "rotate") /\ call'[c].outcome = "rotated" =>
            \E t \in FamilyRows(sessions, sessions[call[c].old].familyId) :
                /\ ~IsRevoked(sessions[t])
                /\ sessions[t].expiresAt > call[c].now]_vars

\* The caller's clock is in the window of a token that is already retired.
InWindow(c) ==
    /\ call[c].graceMs > 0
    /\ call[c].now - sessions[call[c].old].revokedAt \in 0 .. call[c].graceMs

\* The replay of a spent token is never missed.  However long ago the token was
\* retired and has expired, and whoever has refreshed since, its login is dead
\* when the answer is given, unless the token was rotated and the caller's
\* clock is in the window; and nobody is told that it is merely invalid.
ReplayIsNeverMissed ==
    [][\A c \in Callers :
        /\ StoreAnswers(c, "rotate")
        /\ call[c].old \in DOMAIN sessions
        /\ IsRevoked(sessions[call[c].old])
        => \/ /\ call'[c].outcome = "reuse"
              /\ Dead(sessions[call[c].old].familyId)'
           \/ /\ call'[c].outcome = "rotated"
              /\ sessions[call[c].old].replacedById # Null
              /\ InWindow(c)]_vars

\* Nor is a client that lost the answer of its rotation taken for a thief: if
\* the replacement never reached anyone, has not expired and its login was not
\* closed, the retry is answered with a new token to the end of the window,
\* whatever siblings of it were rotated meanwhile.
LostAnswerIsForgiven ==
    [][\A c \in Callers :
        LET row  == sessions[call[c].old]
            next == row.replacedById
        IN  /\ StoreAnswers(c, "rotate")
            /\ call[c].old \in DOMAIN sessions
            /\ next \in DOMAIN sessions \ held
            /\ sessions[next].expiresAt > call[c].now
            /\ row.familyId \in Generated /\ ~Dead(row.familyId)
            /\ InWindow(c)
            => call'[c].outcome = "rotated"]_vars

\* A logout with a token the store knows ends its session, if the handler is
\* not lost on the way: also when the token is rotated under its hands.
LogoutEndsSession ==
    \A c \in Callers, f \in Generated :
        Awaits(c, "findByHash") /\ call[c].old \in FamilyRows(sessions, f)
            ~> Dead(f)

\* The bookkeeping the other invariants rest on, part by part.

\* A value a handler is about to store is in no row and no other handler has it.
DrawsFresh ==
    \A c \in Callers : call[c].op \in {"createSession", "rotate"} =>
        /\ call[c].next \notin DOMAIN sessions
        /\ \A d \in Callers \ {c} :
            call[d].op \in {"createSession", "rotate"} =>
                call[d].next # call[c].next

\* Neither has the family of a login that names none.
FamiliesFresh ==
    \A c \in Callers :
        Awaits(c, "createSession") /\ call[c].family \in Generated =>
            /\ FamilyRows(sessions, call[c].family) = {}
            /\ \A d \in Callers \ {c} :
                Awaits(d, "createSession") => call[d].family # call[c].family

\* A presented token has a row, or is one the library never issued.
PresentedKnown ==
    \A c \in Callers :
        call[c].op \in {"rotate", "findByHash", "revokeFamily", "reply"} =>
            call[c].old \in DOMAIN sessions \cup {Garbage, Null}

\* A token in an answer has a row.
AnswersStored ==
    \A c \in Callers : Awaits(c, "reply") =>
        call[c].next \in DOMAIN sessions \cup {Null}

\* A logout is about to kill the family of the token it found.
LogoutOnTarget ==
    \A c \in Callers : Awaits(c, "revokeFamily") =>
        /\ call[c].old \in DOMAIN sessions
        /\ sessions[call[c].old].familyId = call[c].family

\* Whatever interleaves, handlers at an await hold values nobody else will
\* store and tokens the store knows: what was read or drawn before the await
\* is still right after it.
CallsConsistent ==
    /\ DrawsFresh
    /\ FamiliesFresh
    /\ PresentedKnown
    /\ AnswersStored
    /\ LogoutOnTarget

\* The store's rows, forgetting all but what SessionLedger speaks of.
LedgerStatus ==
    [t \in Tokens |-> IF t \notin DOMAIN sessions THEN "unissued"
                      ELSE IF IsRevoked(sessions[t]) THEN "spent" ELSE "live"]

LedgerFamily ==
    [t \in Tokens |-> IF t \in DOMAIN sessions THEN sessions[t].familyId
                      ELSE Null]

Ledger == INSTANCE SessionLedger WITH
    Joinable <- SuppliedFamilies, None <- Null,
    status <- LedgerStatus, family <- LedgerFamily

\* Every step of every handler is a step of the ledger, or none: a token is
\* issued into a new login, exchanged once, joined by a sibling while its
\* login lives, or its login is closed as a whole.
ImplementsLedger == Ledger!Spec

-----------------------------------------------------------------------------
(* What the comments say and the code does not do.                         *)

\* src/index.ts:359 on revokeRefreshToken: "a no-op if the token is already
\* gone (already rotated/expired/garbage)".
LogoutOfGoneTokenIsNoOp ==
    [][\A c \in Callers :
        /\ StoreAnswers(c, "revokeFamily")
        /\ \/ sessions[call[c].old].replacedById # Null
           \/ sessions[call[c].old].expiresAt <= clock
        => sessions' = sessions]_vars

\* src/index.ts:242: "Two presentations of the same token within this many ms
\* of its rotation are treated as a benign multi-tab race instead of theft".
TwoTabsAreNotTheft ==
    [][\A c \in Callers :
        /\ StoreAnswers(c, "rotate")
        /\ call[c].graceMs > 0
        /\ call[c].old \in DOMAIN sessions
        /\ IsRevoked(sessions[call[c].old])
        /\ ReplacementActive(sessions, call[c].old, call[c].now)
        /\ \E age \in 0 .. call[c].graceMs :
            sessions[call[c].old].revokedAt \in {call[c].now - age,
                                                 call[c].now + age}
        => call'[c].outcome # "reuse"]_vars

=============================================================================
