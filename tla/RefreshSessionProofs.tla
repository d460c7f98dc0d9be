------------------------ MODULE RefreshSessionProofs ------------------------
(***************************************************************************)
(* Proofs about RefreshSession, for every set of tokens, users, families   *)
(* and handlers, every ttl and grace window, and a clock with any bound;   *)
(* and about AccessEpoch, whose requests go on where those of              *)
(* RefreshSession end, on top of what is shown of the sessions.            *)
(***************************************************************************)
EXTENDS AccessEpoch, TLAPS

(***************************************************************************)
(* What the operators that change the rows do to them.                     *)
(***************************************************************************)

\* One row more, live and without a replacement.
Inserted(new, rows, t, f, u) ==
    /\ TypedRows(new)
    /\ DOMAIN new = DOMAIN rows \cup {t}
    /\ new[t].familyId = f
    /\ new[t].userId = u
    /\ ~IsRevoked(new[t])
    /\ new[t].replacedById = Null
    /\ \A x \in DOMAIN rows \ {t} : new[x] = rows[x]

\* A row retired in favour of a new one of the same login.
Replaced(new, rows, old, next) ==
    /\ TypedRows(new)
    /\ DOMAIN new = DOMAIN rows \cup {next}
    /\ new[next].familyId = rows[old].familyId
    /\ new[next].userId = rows[old].userId
    /\ ~IsRevoked(new[next])
    /\ new[next].replacedById = Null
    /\ new[old].familyId = rows[old].familyId
    /\ new[old].userId = rows[old].userId
    /\ IsRevoked(new[old])
    /\ new[old].replacedById = next
    /\ \A x \in DOMAIN rows \ {old} : new[x] = rows[x]

\* The live rows among T revoked, and nothing else changed.
Killed(new, rows, T) ==
    /\ TypedRows(new)
    /\ DOMAIN new = DOMAIN rows
    /\ \A x \in DOMAIN rows :
        /\ IsRevoked(rows[x]) \/ x \notin T => new[x] = rows[x]
        /\ x \in T => IsRevoked(new[x])
        /\ new[x].familyId = rows[x].familyId
        /\ new[x].userId = rows[x].userId
        /\ new[x].replacedById = rows[x].replacedById

LEMMA InsertRowInserts ==
    ASSUME NEW rows, TypedRows(rows),
           NEW t \in Tokens, NEW f \in Families, NEW u \in Users,
           NEW expiresAt \in Instants
    PROVE  Inserted(InsertRow(rows, t, f, u, expiresAt), rows, t, f, u)
  BY DEF Inserted, InsertRow, Row, TypedRows, IsRevoked

LEMMA ReplaceRowReplaces ==
    ASSUME NEW rows, TypedRows(rows),
           NEW old \in DOMAIN rows, NEW next \in Tokens \ DOMAIN rows,
           NEW expiresAt \in Instants, NEW now \in Instants
    PROVE  Replaced(ReplaceRow(rows, old, next, expiresAt, now),
                    rows, old, next)
<1> DEFINE mid == InsertRow(rows, next, rows[old].familyId, rows[old].userId,
                            expiresAt)
           retired == [rows[old] EXCEPT !.revokedAt = now,
                                        !.replacedById = next]
           new == ReplaceRow(rows, old, next, expiresAt, now)
<1>1. /\ rows[old].familyId \in Families
      /\ rows[old].userId \in Users
  BY DEF Row, TypedRows
<1>2. Inserted(mid, rows, next, rows[old].familyId, rows[old].userId)
  BY <1>1, InsertRowInserts
<1>3. mid[old] = rows[old]
  BY <1>2 DEF Inserted
<1>4. new = [mid EXCEPT ![old] = retired]
  BY <1>3 DEF ReplaceRow
<1>5. retired \in Row
  BY DEF Row, TypedRows
<1>6. /\ retired.familyId = rows[old].familyId
      /\ retired.userId = rows[old].userId
      /\ IsRevoked(retired)
      /\ retired.replacedById = next
  BY NullAssumption DEF IsRevoked, Row, Instants, TypedRows
<1> HIDE DEF mid, retired, new
<1>7. /\ DOMAIN new = DOMAIN rows \cup {next}
      /\ TypedRows(new)
      /\ new[old] = retired
      /\ new[next] = mid[next]
      /\ \A x \in DOMAIN rows \ {old} : new[x] = rows[x]
  BY <1>2, <1>4, <1>5 DEF TypedRows, Inserted
<1>8. Replaced(new, rows, old, next)
  BY <1>2, <1>6, <1>7 DEF Replaced, Inserted
<1>9. QED
  BY <1>8 DEF new

LEMMA RevokeRowsKills ==
    ASSUME NEW rows, TypedRows(rows), NEW T, NEW now \in Instants
    PROVE  Killed(RevokeRows(rows, T, now), rows, T)
<1> DEFINE new == RevokeRows(rows, T, now)
           stamped(x) == [rows[x] EXCEPT !.revokedAt = now]
<1>1. /\ new = [x \in DOMAIN new |-> new[x]]
      /\ DOMAIN new = DOMAIN rows
  BY DEF RevokeRows
<1>2. ASSUME NEW x \in DOMAIN rows
      PROVE  new[x] = IF x \in T /\ ~IsRevoked(rows[x])
                      THEN stamped(x) ELSE rows[x]
  BY DEF RevokeRows
<1>3. ASSUME NEW x \in DOMAIN rows
      PROVE  /\ stamped(x) \in Row
             /\ stamped(x).familyId = rows[x].familyId
             /\ stamped(x).userId = rows[x].userId
             /\ stamped(x).replacedById = rows[x].replacedById
             /\ IsRevoked(stamped(x))
  BY NullAssumption DEF Row, TypedRows, IsRevoked, Instants
<1> HIDE DEF new, stamped
<1>4. ASSUME NEW x \in DOMAIN rows
      PROVE  /\ new[x] \in Row
             /\ IsRevoked(rows[x]) \/ x \notin T => new[x] = rows[x]
             /\ x \in T => IsRevoked(new[x])
             /\ new[x].familyId = rows[x].familyId
             /\ new[x].userId = rows[x].userId
             /\ new[x].replacedById = rows[x].replacedById
  BY <1>2, <1>3 DEF TypedRows
<1>5. TypedRows(new)
  BY <1>1, <1>4 DEF TypedRows
<1>6. Killed(new, rows, T)
  BY <1>1, <1>4, <1>5 DEF Killed
<1>7. QED
  BY <1>6 DEF new

(***************************************************************************)
(* Type correctness.                                                       *)
(***************************************************************************)

\* A handler that moves to a state of a handler leaves the others alone.
LEMMA BecomeFacts ==
    ASSUME call \in [Callers -> Call], NEW c \in Callers, NEW s \in Call,
           Become(c, s)
    PROVE  /\ call' \in [Callers -> Call]
           /\ call'[c] = s
           /\ \A d \in Callers \ {c} : call'[d] = call[d]
  BY DEF Become

\* An answer is a state of a handler.
LEMMA AnswerType ==
    ASSUME NEW outcome \in {"loggedIn", "rotated", "invalid", "reuse",
                            "loggedOut", "loggedOutEverywhere"},
           NEW old \in Presentable \cup {Null}, NEW next \in Tokens \cup {Null}
    PROVE  Answer(outcome, old, next) \in Call
  BY DEF Answer, Call, Reply

\* What a handler in each state carries.
LEMMA CallFields ==
    ASSUME NEW s \in Call
    PROVE  /\ s.op = "createSession" => s \in Login
           /\ s.op = "rotate" => s \in Rotation
           /\ s.op = "findByHash" => s \in Logout
           /\ s.op = "revokeFamily" => s \in FamilyKill
           /\ s.op = "revokeAllForUser" => s \in UserKill
           /\ s.op = "reply" => s \in Reply
  BY DEF Call, Idle, Login, Rotation, Logout, FamilyKill, UserKill, Reply

\* The type invariant holds initially.
LEMMA InitTypeOK == Init => TypeOK
  BY DEF Init, Instants, TypeOK, TypedRows, Call, Idle

\* A handler's first step keeps the types: it computes its request from the
\* clock and from tokens that clients hold.
LEMMA BeginTypeOK ==
    ASSUME TypeOK, NEW c \in Callers, Begin(c)
    PROVE  TypeOK'
<1>1. CASE BeginLogin(c)
  <2>1. PICK t \in Tokens, f \in Families, u \in Users, ttl \in Ttls :
            /\ ttl > 0
            /\ Become(c, [op |-> "createSession", next |-> t, user |-> u,
                          family |-> f, expiresAt |-> clock + ttl])
    BY <1>1 DEF BeginLogin
  <2>2. clock + ttl \in Instants
    BY <2>1, ConstantsAssumption DEF Instants, TypeOK
  <2>3. [op |-> "createSession", next |-> t, user |-> u, family |-> f,
         expiresAt |-> clock + ttl] \in Call
    BY <2>2 DEF Call, Login
  <2>4. call' \in [Callers -> Call]
    BY <2>1, <2>3, BecomeFacts DEF TypeOK
  <2>5. QED
    BY <1>1, <2>4 DEF BeginLogin, TypeOK
<1>2. CASE BeginRotate(c)
  <2>1. PICK old \in held \cup {Garbage}, t \in Tokens,
             ttl \in Ttls, graceMs \in Graces :
            /\ ttl > 0
            /\ graceMs >= 0
            /\ Become(c, [op |-> "rotate", old |-> old, next |-> t,
                          expiresAt |-> clock + ttl,
                          graceMs |-> graceMs, now |-> clock])
    BY <1>2 DEF BeginRotate
  <2>2. /\ clock + ttl \in Instants
        /\ clock \in Instants
        /\ graceMs \in Graces \cap Nat
        /\ old \in Presentable
    BY <2>1, ConstantsAssumption DEF Instants, TypeOK, TypedRows, Presentable
  <2>3. [op |-> "rotate", old |-> old, next |-> t, expiresAt |-> clock + ttl,
         graceMs |-> graceMs, now |-> clock] \in Call
    BY <2>2 DEF Call, Rotation
  <2>4. call' \in [Callers -> Call]
    BY <2>1, <2>3, BecomeFacts DEF TypeOK
  <2>5. QED
    BY <1>2, <2>4 DEF BeginRotate, TypeOK
<1>3. CASE BeginLogout(c)
  <2>1. PICK t \in held \cup {Garbage} :
            Become(c, [op |-> "findByHash", old |-> t])
    BY <1>3 DEF BeginLogout
  <2>2. [op |-> "findByHash", old |-> t] \in Call
    BY DEF Call, Logout, Presentable, TypeOK, TypedRows
  <2>3. call' \in [Callers -> Call]
    BY <2>1, <2>2, BecomeFacts DEF TypeOK
  <2>4. QED
    BY <1>3, <2>3 DEF BeginLogout, TypeOK
<1>4. CASE BeginUserKill(c)
  <2>1. PICK u \in Users :
            Become(c, [op |-> "revokeAllForUser", user |-> u])
    BY <1>4 DEF BeginUserKill
  <2>2. [op |-> "revokeAllForUser", user |-> u] \in Call
    BY DEF Call, UserKill
  <2>3. call' \in [Callers -> Call]
    BY <2>1, <2>2, BecomeFacts DEF TypeOK
  <2>4. QED
    BY <1>4, <2>3 DEF BeginUserKill, TypeOK
<1>5. QED
  BY <1>1, <1>2, <1>3, <1>4 DEF Begin

(***************************************************************************)
(* What each of the store's transactions does.                             *)
(***************************************************************************)

\* A handler's answer is ready.
Answered(c, outcome, old, next) ==
    /\ call' \in [Callers -> Call]
    /\ call'[c] = Answer(outcome, old, next)
    /\ call'[c].op = "reply"
    /\ call'[c].outcome = outcome
    /\ call'[c].old = old
    /\ call'[c].next = next
    /\ \A d \in Callers \ {c} : call'[d] = call[d]

\* A handler that becomes an answer has answered.
LEMMA BecomesAnswered ==
    ASSUME call \in [Callers -> Call], NEW c \in Callers,
           NEW outcome \in {"loggedIn", "rotated", "invalid", "reuse",
                            "loggedOut", "loggedOutEverywhere"},
           NEW old \in Presentable \cup {Null}, NEW next \in Tokens \cup {Null},
           Become(c, Answer(outcome, old, next))
    PROVE  Answered(c, outcome, old, next)
<1>1. Answer(outcome, old, next) \in Call
  BY AnswerType
<1>2. /\ call' \in [Callers -> Call]
      /\ call'[c] = Answer(outcome, old, next)
      /\ \A d \in Callers \ {c} : call'[d] = call[d]
  BY <1>1, BecomeFacts
<1>3. /\ Answer(outcome, old, next).op = "reply"
      /\ Answer(outcome, old, next).outcome = outcome
      /\ Answer(outcome, old, next).old = old
      /\ Answer(outcome, old, next).next = next
  BY DEF Answer
<1>4. QED
  BY <1>2, <1>3 DEF Answered

LEMMA CreateEffect ==
    ASSUME TypeOK, NEW c \in Callers, StoreCreate(c)
    PROVE  /\ call[c] \in Login
           /\ call[c].op = "createSession"
           /\ Answered(c, "loggedIn", Null, call[c].next)
           /\ Inserted(sessions', sessions, call[c].next, call[c].family,
                       call[c].user)
<1>1. /\ call[c] \in Login
      /\ call[c].op = "createSession"
  BY CallFields DEF StoreCreate, Awaits, TypeOK
<1>2. /\ call[c].next \in Tokens
      /\ call[c].family \in Families
      /\ call[c].user \in Users
      /\ call[c].expiresAt \in Instants
  BY <1>1 DEF Login
<1>3. Answered(c, "loggedIn", Null, call[c].next)
  BY <1>2, BecomesAnswered DEF StoreCreate, TypeOK
<1>4. QED
  BY <1>1, <1>2, <1>3, InsertRowInserts DEF StoreCreate, TypeOK

LEMMA InvalidEffect ==
    ASSUME TypeOK, NEW c \in Callers, RotateNotFound(c) \/ RotateExpired(c)
    PROVE  /\ call[c] \in Rotation
           /\ call[c].op = "rotate"
           /\ Answered(c, "invalid", call[c].old, Null)
           /\ UNCHANGED sessions
<1>1. /\ call[c] \in Rotation
      /\ call[c].op = "rotate"
  BY CallFields DEF RotateNotFound, RotateExpired, Awaits, TypeOK
<1>2. Answered(c, "invalid", call[c].old, Null)
  BY <1>1, BecomesAnswered
     DEF RotateNotFound, RotateExpired, TypeOK, Rotation
<1>3. QED
  BY <1>1, <1>2 DEF RotateNotFound, RotateExpired

LEMMA WinsEffect ==
    ASSUME TypeOK, DrawsFresh, NEW c \in Callers, RotateWins(c)
    PROVE  /\ call[c] \in Rotation
           /\ call[c].op = "rotate"
           /\ call[c].old \in DOMAIN sessions
           /\ ~IsRevoked(sessions[call[c].old])
           /\ Answered(c, "rotated", call[c].old, call[c].next)
           /\ Replaced(sessions', sessions, call[c].old, call[c].next)
<1>1. /\ call[c] \in Rotation
      /\ call[c].op = "rotate"
  BY CallFields DEF RotateWins, Awaits, TypeOK
<1>2. /\ call[c].old \in Presentable
      /\ call[c].expiresAt \in Instants
      /\ call[c].now \in Instants
      /\ call[c].next \in Tokens \ DOMAIN sessions
  BY <1>1 DEF Rotation, DrawsFresh
<1>3. Answered(c, "rotated", call[c].old, call[c].next)
  BY <1>2, BecomesAnswered DEF RotateWins, TypeOK
<1>4. /\ call[c].old \in DOMAIN sessions
      /\ ~IsRevoked(sessions[call[c].old])
      /\ sessions' = ReplaceRow(sessions, call[c].old, call[c].next,
                                call[c].expiresAt, call[c].now)
  BY DEF RotateWins
<1>5. QED
  BY <1>1, <1>2, <1>3, <1>4, ReplaceRowReplaces DEF TypeOK

LEMMA BenignEffect ==
    ASSUME TypeOK, NEW c \in Callers, RotateBenign(c)
    PROVE  /\ call[c] \in Rotation
           /\ call[c].op = "rotate"
           /\ call[c].old \in DOMAIN sessions
           /\ IsBenign(call[c])
           /\ Answered(c, "rotated", call[c].old, call[c].next)
           /\ Inserted(sessions', sessions, call[c].next,
                       sessions[call[c].old].familyId,
                       sessions[call[c].old].userId)
<1>1. /\ call[c] \in Rotation
      /\ call[c].op = "rotate"
  BY CallFields DEF RotateBenign, Awaits, TypeOK
<1>2. /\ call[c].old \in Presentable
      /\ call[c].expiresAt \in Instants
      /\ call[c].next \in Tokens
  BY <1>1 DEF Rotation
<1>3. Answered(c, "rotated", call[c].old, call[c].next)
  BY <1>2, BecomesAnswered DEF RotateBenign, TypeOK
<1>4. /\ call[c].old \in DOMAIN sessions
      /\ IsBenign(call[c])
      /\ sessions' = InsertRow(sessions, call[c].next,
                               sessions[call[c].old].familyId,
                               sessions[call[c].old].userId,
                               call[c].expiresAt)
  BY DEF RotateBenign, InsertSibling
<1>5. /\ sessions[call[c].old].familyId \in Families
      /\ sessions[call[c].old].userId \in Users
  BY <1>4 DEF TypeOK, TypedRows, Row
<1>6. QED
  BY <1>1, <1>2, <1>3, <1>4, <1>5, InsertRowInserts DEF TypeOK

LEMMA ReuseEffect ==
    ASSUME TypeOK, NEW c \in Callers, RotateReuse(c)
    PROVE  /\ call[c] \in Rotation
           /\ call[c].op = "rotate"
           /\ call[c].old \in DOMAIN sessions
           /\ Answered(c, "reuse", call[c].old, Null)
           /\ Killed(sessions', sessions,
                     FamilyRows(sessions, sessions[call[c].old].familyId))
<1>1. /\ call[c] \in Rotation
      /\ call[c].op = "rotate"
  BY CallFields DEF RotateReuse, Awaits, TypeOK
<1>2. /\ call[c].old \in Presentable
      /\ call[c].now \in Instants
  BY <1>1 DEF Rotation
<1>3. Answered(c, "reuse", call[c].old, Null)
  BY <1>2, BecomesAnswered DEF RotateReuse, TypeOK
<1>4. QED
  BY <1>1, <1>2, <1>3, RevokeRowsKills DEF RotateReuse, TypeOK

LEMMA FindsEffect ==
    ASSUME TypeOK, NEW c \in Callers, LogoutFinds(c)
    PROVE  /\ call[c].op = "findByHash"
           /\ call[c].old \in DOMAIN sessions
           /\ call' \in [Callers -> Call]
           /\ call'[c].op = "revokeFamily"
           /\ call'[c].old = call[c].old
           /\ call'[c].family = sessions[call[c].old].familyId
           /\ \A d \in Callers \ {c} : call'[d] = call[d]
           /\ UNCHANGED sessions
<1> DEFINE kill == [op |-> "revokeFamily", old |-> call[c].old,
                    family |-> sessions[call[c].old].familyId]
<1>1. /\ call[c].op = "findByHash"
      /\ call[c].old \in DOMAIN sessions
      /\ Become(c, kill)
      /\ UNCHANGED sessions
  BY DEF LogoutFinds, Awaits
<1>2. /\ kill \in FamilyKill
      /\ kill.op = "revokeFamily"
      /\ kill.old = call[c].old
      /\ kill.family = sessions[call[c].old].familyId
  BY <1>1 DEF FamilyKill, Presentable, TypeOK, TypedRows, Row
<1>3. kill \in Call
  BY <1>2 DEF Call
<1> HIDE DEF kill
<1>4. /\ call' \in [Callers -> Call]
      /\ call'[c] = kill
      /\ \A d \in Callers \ {c} : call'[d] = call[d]
  BY <1>1, <1>3, BecomeFacts DEF TypeOK
<1>5. QED
  BY <1>1, <1>2, <1>4

LEMMA FindsNothingEffect ==
    ASSUME TypeOK, NEW c \in Callers, LogoutFindsNothing(c)
    PROVE  /\ call[c] \in Logout
           /\ call[c].op = "findByHash"
           /\ call[c].old \notin DOMAIN sessions
           /\ Answered(c, "loggedOut", call[c].old, Null)
           /\ UNCHANGED sessions
<1>1. /\ call[c] \in Logout
      /\ call[c].op = "findByHash"
  BY CallFields DEF LogoutFindsNothing, Awaits, TypeOK
<1>2. Answered(c, "loggedOut", call[c].old, Null)
  BY <1>1, BecomesAnswered
     DEF LogoutFindsNothing, TypeOK, Logout
<1>3. QED
  BY <1>1, <1>2 DEF LogoutFindsNothing

LEMMA KillFamilyEffect ==
    ASSUME TypeOK, NEW c \in Callers, StoreKillFamily(c)
    PROVE  /\ call[c] \in FamilyKill
           /\ call[c].op = "revokeFamily"
           /\ Answered(c, "loggedOut", call[c].old, Null)
           /\ Killed(sessions', sessions, FamilyRows(sessions, call[c].family))
<1>1. /\ call[c] \in FamilyKill
      /\ call[c].op = "revokeFamily"
  BY CallFields DEF StoreKillFamily, Awaits, TypeOK
<1>2. Answered(c, "loggedOut", call[c].old, Null)
  BY <1>1, BecomesAnswered
     DEF StoreKillFamily, TypeOK, FamilyKill
<1>3. QED
  BY <1>1, <1>2, RevokeRowsKills DEF StoreKillFamily, TypeOK

LEMMA KillUserEffect ==
    ASSUME TypeOK, NEW c \in Callers, StoreKillUser(c)
    PROVE  /\ call[c] \in UserKill
           /\ call[c].op = "revokeAllForUser"
           /\ Answered(c, "loggedOutEverywhere", Null, Null)
           /\ Killed(sessions', sessions, UserRows(sessions, call[c].user))
<1>1. /\ call[c] \in UserKill
      /\ call[c].op = "revokeAllForUser"
  BY CallFields DEF StoreKillUser, Awaits, TypeOK
<1>2. Answered(c, "loggedOutEverywhere", Null, Null)
  BY BecomesAnswered DEF StoreKillUser, TypeOK
<1>3. QED
  BY <1>1, <1>2, RevokeRowsKills DEF StoreKillUser, TypeOK

(***************************************************************************)
(* What all the transactions have in common.                               *)
(***************************************************************************)

Drawing(d) == call[d].op \in {"createSession", "rotate"}

\* Rows keep their login; at most one row is new, the one its handler drew the
\* token for, and it is the first of a login or belongs to a login with rows.
StoreShape(c) ==
    /\ call' \in [Callers -> Call]
    /\ \A d \in Callers \ {c} : call'[d] = call[d]
    /\ TypedRows(sessions')
    /\ DOMAIN sessions \subseteq DOMAIN sessions'
    /\ \A x \in DOMAIN sessions :
        /\ sessions'[x].familyId = sessions[x].familyId
        /\ sessions'[x].userId = sessions[x].userId
    /\ \A x \in DOMAIN sessions' \ DOMAIN sessions :
        /\ Drawing(c)
        /\ x = call[c].next
        /\ \/ /\ Awaits(c, "createSession")
              /\ sessions'[x].familyId = call[c].family
              /\ sessions'[x].userId = call[c].user
           \/ \E y \in DOMAIN sessions :
                /\ sessions'[x].familyId = sessions[y].familyId
                /\ sessions'[x].userId = sessions[y].userId

\* What a handler comes back with: an answer, whose token has a row, or a
\* logout's second call, for the family of the token presented.
StoreVerdict(c) ==
    \/ /\ call'[c].op = "reply"
       /\ call'[c].next \in DOMAIN sessions' \cup {Null}
       /\ \/ call'[c].old = Null
          \/ /\ call[c].op \in {"rotate", "findByHash", "revokeFamily"}
             /\ call'[c].old = call[c].old
    \/ /\ call[c].op = "findByHash"
       /\ call'[c].op = "revokeFamily"
       /\ call'[c].old = call[c].old
       /\ call[c].old \in DOMAIN sessions
       /\ call'[c].family = sessions[call[c].old].familyId

LEMMA StoreSteps ==
    ASSUME TypeOK, DrawsFresh, NEW c \in Callers, Store(c)
    PROVE  StoreShape(c) /\ StoreVerdict(c)
<1>1. CASE StoreCreate(c)
  <2>1. call[c].next \notin DOMAIN sessions
    BY <1>1, CreateEffect DEF DrawsFresh
  <2>2. StoreShape(c)
    BY <1>1, <2>1, CreateEffect
       DEF StoreShape, Drawing, Awaits, Answered, Inserted
  <2>3. StoreVerdict(c)
    BY <1>1, CreateEffect DEF StoreVerdict, Answered, Inserted
  <2>4. QED
    BY <2>2, <2>3
<1>2. CASE RotateNotFound(c) \/ RotateExpired(c)
  BY <1>2, InvalidEffect
     DEF StoreShape, StoreVerdict, Answered, TypeOK
<1>3. CASE RotateWins(c)
  <2>1. StoreShape(c)
    <3>1. \A x \in DOMAIN sessions :
            /\ sessions'[x].familyId = sessions[x].familyId
            /\ sessions'[x].userId = sessions[x].userId
      BY <1>3, WinsEffect DEF Replaced
    <3>2. \A x \in DOMAIN sessions' \ DOMAIN sessions :
            /\ x = call[c].next
            /\ sessions'[x].familyId = sessions[call[c].old].familyId
            /\ sessions'[x].userId = sessions[call[c].old].userId
      BY <1>3, WinsEffect DEF Replaced
    <3>3. /\ TypedRows(sessions')
          /\ DOMAIN sessions \subseteq DOMAIN sessions'
          /\ call[c].old \in DOMAIN sessions
          /\ Drawing(c)
      BY <1>3, WinsEffect DEF Replaced, Drawing
    <3>4. /\ call' \in [Callers -> Call]
          /\ \A d \in Callers \ {c} : call'[d] = call[d]
      BY <1>3, WinsEffect DEF Answered
    <3>5. QED
      BY <3>1, <3>2, <3>3, <3>4 DEF StoreShape
  <2>2. StoreVerdict(c)
    BY <1>3, WinsEffect DEF StoreVerdict, Answered, Replaced
  <2>3. QED
    BY <2>1, <2>2
<1>4. CASE RotateBenign(c)
  <2>1. call[c].next \notin DOMAIN sessions
    BY <1>4, BenignEffect DEF DrawsFresh
  <2>2. StoreShape(c)
    <3>1. \A x \in DOMAIN sessions :
            /\ sessions'[x].familyId = sessions[x].familyId
            /\ sessions'[x].userId = sessions[x].userId
      BY <1>4, <2>1, BenignEffect DEF Inserted
    <3>2. \A x \in DOMAIN sessions' \ DOMAIN sessions :
            /\ x = call[c].next
            /\ sessions'[x].familyId = sessions[call[c].old].familyId
            /\ sessions'[x].userId = sessions[call[c].old].userId
      BY <1>4, BenignEffect DEF Inserted
    <3>3. /\ TypedRows(sessions')
          /\ DOMAIN sessions \subseteq DOMAIN sessions'
          /\ call[c].old \in DOMAIN sessions
          /\ Drawing(c)
      BY <1>4, BenignEffect DEF Inserted, Drawing
    <3>4. /\ call' \in [Callers -> Call]
          /\ \A d \in Callers \ {c} : call'[d] = call[d]
      BY <1>4, BenignEffect DEF Answered
    <3>5. QED
      BY <3>1, <3>2, <3>3, <3>4 DEF StoreShape
  <2>3. StoreVerdict(c)
    BY <1>4, BenignEffect DEF StoreVerdict, Answered, Inserted
  <2>4. QED
    BY <2>2, <2>3
<1>5. CASE RotateReuse(c)
  BY <1>5, ReuseEffect
     DEF StoreShape, StoreVerdict, Answered, Killed
<1>6. CASE LogoutFinds(c)
  BY <1>6, FindsEffect DEF StoreShape, StoreVerdict, TypeOK
<1>7. CASE LogoutFindsNothing(c)
  BY <1>7, FindsNothingEffect
     DEF StoreShape, StoreVerdict, Answered, TypeOK
<1>8. CASE StoreKillFamily(c)
  BY <1>8, KillFamilyEffect
     DEF StoreShape, StoreVerdict, Answered, Killed
<1>9. CASE StoreKillUser(c)
  BY <1>9, KillUserEffect
     DEF StoreShape, StoreVerdict, Answered, Killed
<1>10. QED
  BY <1>1, <1>2, <1>3, <1>4, <1>5, <1>6, <1>7, <1>8, <1>9
     DEF Store, StoreRotate

\* A handler's first step asks for something, with a token that is known and
\* a draw that is fresh, and touches nothing but the handler's own state.
LEMMA BeginSteps ==
    ASSUME TypeOK, NEW c \in Callers, Begin(c)
    PROVE  /\ UNCHANGED <<clock, sessions, held>>
           /\ \A d \in Callers \ {c} : call'[d] = call[d]
           /\ \/ /\ call'[c].op = "createSession"
                 /\ Fresh(call'[c].next)
                 /\ call'[c].family \in SuppliedFamilies
                        \/ FreshFamily(call'[c].family)
              \/ /\ call'[c].op = "rotate"
                 /\ call'[c].old \in held \cup {Garbage}
                 /\ Fresh(call'[c].next)
              \/ /\ call'[c].op = "findByHash"
                 /\ call'[c].old \in held \cup {Garbage}
              \/ call'[c].op = "revokeAllForUser"
<1>1. CASE BeginLogin(c)
  BY <1>1 DEF BeginLogin, Become, TypeOK
<1>2. CASE BeginRotate(c)
  BY <1>2 DEF BeginRotate, Become, TypeOK
<1>3. CASE BeginLogout(c)
  BY <1>3 DEF BeginLogout, Become, TypeOK
<1>4. CASE BeginUserKill(c)
  BY <1>4 DEF BeginUserKill, Become, TypeOK
<1>5. QED
  BY <1>1, <1>2, <1>3, <1>4 DEF Begin

\* A handler that is done, or lost, is idle.
LEMMA EndSteps ==
    ASSUME TypeOK, NEW c \in Callers, Deliver(c) \/ Crash(c)
    PROVE  /\ call' \in [Callers -> Call]
           /\ UNCHANGED <<clock, sessions>>
           /\ call'[c].op = "idle"
           /\ \A d \in Callers \ {c} : call'[d] = call[d]
           /\ held' \subseteq held \cup (IF Awaits(c, "reply")
                                         THEN {call[c].next} \ {Null} ELSE {})
<1>1. Become(c, Idle) /\ Idle \in Call /\ Idle.op = "idle"
  BY DEF Deliver, Crash, Idle, Call
<1>2. /\ call' \in [Callers -> Call]
      /\ call'[c].op = "idle"
      /\ \A d \in Callers \ {c} : call'[d] = call[d]
  BY <1>1, BecomeFacts DEF TypeOK
<1>3. QED
  BY <1>2 DEF Deliver, Crash

\* Every step keeps the types.
LEMMA NextTypeOK ==
    ASSUME TypeOK, DrawsFresh, AnswersStored, [Next]_vars
    PROVE  TypeOK'
<1>1. ASSUME NEW c \in Callers, Store(c)
      PROVE  TypeOK'
  <2>1. UNCHANGED <<clock, held>>
    BY <1>1 DEF Store, StoreCreate, StoreRotate, RotateNotFound, RotateExpired,
                RotateWins, RotateBenign, RotateReuse, LogoutFinds,
                LogoutFindsNothing, StoreKillFamily, StoreKillUser
  <2>2. QED
    BY <1>1, <2>1, StoreSteps DEF StoreShape, TypeOK
<1>2. ASSUME NEW c \in Callers, Deliver(c) \/ Crash(c)
      PROVE  TypeOK'
  BY <1>2, EndSteps DEF TypeOK, AnswersStored
<1>3. ASSUME Tick
      PROVE  TypeOK'
  BY <1>3 DEF Tick, Instants, TypeOK
<1>4. ASSUME UNCHANGED vars
      PROVE  TypeOK'
  BY <1>4 DEF vars, TypeOK
<1>5. QED
  BY <1>1, <1>2, <1>3, <1>4, BeginTypeOK DEF Next

(***************************************************************************)
(* The handlers' bookkeeping.                                              *)
(***************************************************************************)

LEMMA InitCallsConsistent == Init => CallsConsistent
  BY DEF Init, CallsConsistent, DrawsFresh, FamiliesFresh, PresentedKnown,
         AnswersStored, LogoutOnTarget, Awaits, Idle

\* A first step asks with fresh draws and known tokens.
LEMMA BeginCallsConsistent ==
    ASSUME TypeOK, CallsConsistent, NEW c \in Callers, Begin(c)
    PROVE  CallsConsistent'
<1>1. DrawsFresh'
  BY BeginSteps DEF DrawsFresh, Fresh, CallsConsistent
<1>2. FamiliesFresh'
  BY BeginSteps
     DEF FamiliesFresh, FreshFamily, FamilyRows, Generated, Awaits,
         CallsConsistent
<1>3. PresentedKnown'
  BY BeginSteps DEF PresentedKnown, TypeOK, CallsConsistent
<1>4. AnswersStored'
  BY BeginSteps DEF AnswersStored, Awaits, CallsConsistent
<1>5. LogoutOnTarget'
  BY BeginSteps DEF LogoutOnTarget, Awaits, CallsConsistent
<1>6. QED
  BY <1>1, <1>2, <1>3, <1>4, <1>5 DEF CallsConsistent

\* A transaction stores only its own handler's draw.
LEMMA StoreCallsConsistent ==
    ASSUME TypeOK, CallsConsistent, NEW c \in Callers, Store(c)
    PROVE  CallsConsistent'
<1>1. StoreShape(c) /\ StoreVerdict(c)
  BY StoreSteps DEF CallsConsistent
<1>2. call'[c].op \in {"reply", "revokeFamily"}
  BY <1>1 DEF StoreVerdict
<1>3. DrawsFresh'
  BY <1>1, <1>2 DEF StoreShape, Drawing, DrawsFresh, CallsConsistent
<1>4. FamiliesFresh'
  <2>1. SUFFICES ASSUME NEW d \in Callers,
                        Awaits(d, "createSession")',
                        call'[d].family \in Generated
                 PROVE  /\ FamilyRows(sessions, call[d].family)' = {}
                        /\ \A e \in Callers \ {d} :
                             Awaits(e, "createSession")' =>
                                 call'[e].family # call'[d].family
    BY <1>1 DEF FamiliesFresh, FamilyRows, Awaits, StoreShape
  <2>2. d # c /\ call'[d] = call[d]
    BY <1>1, <1>2, <2>1 DEF StoreShape, Awaits
  <2>3. /\ FamilyRows(sessions, call[d].family) = {}
        /\ \A e \in Callers \ {d} : Awaits(e, "createSession") =>
             call[e].family # call[d].family
    BY <2>1, <2>2 DEF FamiliesFresh, CallsConsistent, Awaits
  <2>4. \A x \in DOMAIN sessions' : sessions'[x].familyId # call[d].family
    BY <1>1, <2>2, <2>3 DEF StoreShape, FamilyRows
  <2>5. \A e \in Callers \ {d} : Awaits(e, "createSession")' =>
            call'[e].family # call'[d].family
    BY <1>1, <1>2, <2>2, <2>3 DEF StoreShape, Awaits
  <2>6. QED
    BY <2>2, <2>4, <2>5 DEF FamilyRows
<1>5. PresentedKnown'
  BY <1>1 DEF StoreShape, StoreVerdict, PresentedKnown, CallsConsistent
<1>6. AnswersStored'
  BY <1>1 DEF StoreShape, StoreVerdict, AnswersStored, Awaits, CallsConsistent
<1>7. LogoutOnTarget'
  BY <1>1 DEF StoreShape, StoreVerdict, LogoutOnTarget, Awaits, CallsConsistent
<1>8. QED
  BY <1>3, <1>4, <1>5, <1>6, <1>7 DEF CallsConsistent

\* Every step keeps the bookkeeping.
LEMMA NextCallsConsistent ==
    ASSUME TypeOK, CallsConsistent, [Next]_vars
    PROVE  CallsConsistent'
<1>1. ASSUME NEW c \in Callers, Deliver(c) \/ Crash(c)
      PROVE  CallsConsistent'
  <2>1. /\ UNCHANGED sessions
        /\ call'[c].op = "idle"
        /\ \A d \in Callers \ {c} : call'[d] = call[d]
    BY <1>1, EndSteps
  <2>2. DrawsFresh' /\ FamiliesFresh'
    BY <2>1 DEF CallsConsistent, DrawsFresh, FamiliesFresh, FamilyRows, Awaits
  <2>3. PresentedKnown' /\ AnswersStored' /\ LogoutOnTarget'
    BY <2>1 DEF CallsConsistent, PresentedKnown, AnswersStored,
                LogoutOnTarget, Awaits
  <2>4. QED
    BY <2>2, <2>3 DEF CallsConsistent
<1>2. ASSUME Tick \/ UNCHANGED vars
      PROVE  CallsConsistent'
  BY <1>2 DEF Tick, vars, CallsConsistent, DrawsFresh, FamiliesFresh,
              PresentedKnown, AnswersStored, LogoutOnTarget, FamilyRows, Awaits
<1>3. QED
  BY <1>1, <1>2, BeginCallsConsistent, StoreCallsConsistent DEF Next

(***************************************************************************)
(* The lineage of rows.                                                    *)
(***************************************************************************)

LEMMA InitSessionLineage == Init => SessionLineage
  BY DEF Init, SessionLineage, ReplacementsChain, OneUserPerLogin

\* A row that goes in without a replacement, under a token no row has, leaves
\* the chains as they are.
LEMMA InsertKeepsChain ==
    ASSUME TypeOK, ReplacementsChain, NEW t, t \notin DOMAIN sessions,
           NEW f, NEW u, Inserted(sessions', sessions, t, f, u)
    PROVE  ReplacementsChain'
  BY DEF ReplacementsChain, Inserted, IsRevoked

\* A kill leaves the links alone and only revokes.
LEMMA KillKeepsChain ==
    ASSUME TypeOK, ReplacementsChain, NEW T, Killed(sessions', sessions, T)
    PROVE  ReplacementsChain'
  BY DEF ReplacementsChain, Killed

\* A rotation of a live row to a token no row has adds one link.
LEMMA ReplaceKeepsChain ==
    ASSUME TypeOK, ReplacementsChain,
           NEW old \in DOMAIN sessions, NEW next \in Tokens \ DOMAIN sessions,
           Replaced(sessions', sessions, old, next)
    PROVE  ReplacementsChain'
<1>1. next # Null /\ next # old
  BY NullAssumption
<1>2. SUFFICES ASSUME NEW t \in DOMAIN sessions',
                      sessions'[t].replacedById # Null
               PROVE  LET s == sessions'[t].replacedById
                      IN  /\ IsRevoked(sessions'[t])
                          /\ s \in DOMAIN sessions' \ {t}
                          /\ sessions'[s].familyId = sessions'[t].familyId
                          /\ sessions'[s].userId = sessions'[t].userId
                          /\ \A x \in DOMAIN sessions' :
                               sessions'[x].replacedById = s => x = t
  BY DEF ReplacementsChain
<1>3. CASE t = old
  BY <1>1, <1>2, <1>3 DEF Replaced, ReplacementsChain
<1>4. CASE t # old
  <2>1. t \in DOMAIN sessions /\ sessions'[t] = sessions[t]
    BY <1>2, <1>4 DEF Replaced
  <2>2. \A x \in DOMAIN sessions : sessions'[x].familyId = sessions[x].familyId
                                /\ sessions'[x].userId = sessions[x].userId
    BY DEF Replaced
  <2>3. QED
    BY <1>1, <1>2, <1>4, <2>1, <2>2 DEF Replaced, ReplacementsChain
<1>5. QED
  BY <1>3, <1>4

\* Every step keeps the lineage.
LEMMA NextSessionLineage ==
    ASSUME TypeOK, CallsConsistent, SessionLineage, [Next]_vars
    PROVE  SessionLineage'
<1>1. ASSUME NEW c \in Callers, Store(c)
      PROVE  ReplacementsChain'
  <2>1. CASE StoreCreate(c)
    BY <1>1, <2>1, CreateEffect, InsertKeepsChain
       DEF CallsConsistent, DrawsFresh, SessionLineage
  <2>2. CASE RotateWins(c)
    <3>1. call[c].next \in Tokens \ DOMAIN sessions
      BY <2>2, WinsEffect DEF CallsConsistent, DrawsFresh, Rotation
    <3>2. QED
      BY <2>2, <3>1, WinsEffect, ReplaceKeepsChain
         DEF CallsConsistent, SessionLineage
  <2>3. CASE RotateBenign(c)
    BY <1>1, <2>3, BenignEffect, InsertKeepsChain
       DEF CallsConsistent, DrawsFresh, SessionLineage
  <2>4. CASE RotateReuse(c)
    BY <2>4, ReuseEffect, KillKeepsChain DEF SessionLineage
  <2>5. CASE StoreKillFamily(c)
    BY <2>5, KillFamilyEffect, KillKeepsChain DEF SessionLineage
  <2>6. CASE StoreKillUser(c)
    BY <2>6, KillUserEffect, KillKeepsChain DEF SessionLineage
  <2>7. CASE UNCHANGED sessions
    BY <2>7 DEF SessionLineage, ReplacementsChain
  <2>8. QED
    BY <1>1, <2>1, <2>2, <2>3, <2>4, <2>5, <2>6, <2>7,
       InvalidEffect, FindsEffect, FindsNothingEffect DEF Store, StoreRotate
<1>2. ASSUME NEW c \in Callers, Store(c)
      PROVE  OneUserPerLogin'
  <2>1. StoreShape(c)
    BY <1>2, StoreSteps DEF CallsConsistent
  <2>2. SUFFICES ASSUME NEW t \in DOMAIN sessions', NEW x \in DOMAIN sessions',
                        t # x,
                        sessions'[t].familyId = sessions'[x].familyId,
                        sessions'[t].familyId \in Generated
                 PROVE  sessions'[t].userId = sessions'[x].userId
    BY DEF OneUserPerLogin
  <2>3. t \in DOMAIN sessions \/ x \in DOMAIN sessions
    BY <2>1, <2>2 DEF StoreShape
  <2>4. ASSUME NEW a \in DOMAIN sessions', NEW b \in DOMAIN sessions,
               sessions'[a].familyId = sessions'[b].familyId,
               sessions'[a].familyId \in Generated
        PROVE  sessions'[a].userId = sessions'[b].userId
    <3>1. /\ sessions'[b].familyId = sessions[b].familyId
          /\ sessions'[b].userId = sessions[b].userId
      BY <2>1 DEF StoreShape
    <3>2. CASE a \in DOMAIN sessions
      BY <2>1, <2>4, <3>1, <3>2
         DEF StoreShape, SessionLineage, OneUserPerLogin
    <3>3. CASE a \notin DOMAIN sessions
      <4>1. CASE /\ Awaits(c, "createSession")
                 /\ sessions'[a].familyId = call[c].family
        BY <2>4, <3>1, <4>1
           DEF CallsConsistent, FamiliesFresh, FamilyRows, Awaits
      <4>2. CASE \E y \in DOMAIN sessions :
                    /\ sessions'[a].familyId = sessions[y].familyId
                    /\ sessions'[a].userId = sessions[y].userId
        BY <2>4, <3>1, <4>2 DEF SessionLineage, OneUserPerLogin
      <4>3. QED
        BY <2>1, <3>3, <4>1, <4>2 DEF StoreShape
    <3>4. QED
      BY <3>2, <3>3
  <2>5. QED
    BY <2>2, <2>3, <2>4
<1>3. CASE UNCHANGED sessions
  BY <1>3 DEF SessionLineage, ReplacementsChain, OneUserPerLogin
<1>4. QED
  BY <1>1, <1>2, <1>3, BeginSteps, EndSteps
     DEF SessionLineage, Next, Tick, vars

(***************************************************************************)
(* The inductive invariant, and the first theorems.                        *)
(***************************************************************************)

IInv == TypeOK /\ CallsConsistent /\ SessionLineage

\* TypeOK, the bookkeeping and the lineage support one another.
LEMMA Inductive == Spec => []IInv
<1>1. Init => IInv
  BY InitTypeOK, InitCallsConsistent, InitSessionLineage DEF IInv
<1>2. IInv /\ [Next]_vars => IInv'
  BY NextTypeOK, NextCallsConsistent, NextSessionLineage
     DEF IInv, CallsConsistent
<1>3. QED
  BY <1>1, <1>2, PTL DEF Spec

\* Type correctness of the store, the clients' tokens and the handlers.
THEOREM TypeCorrect == Spec => []TypeOK
  BY Inductive, PTL DEF IInv

\* What a handler drew or read before an await is still right after it.
THEOREM CallsStayConsistent == Spec => []CallsConsistent
  BY Inductive, PTL DEF IInv

\* replacedById always links a revoked row to its one successor in the login.
THEOREM LineageHolds == Spec => []SessionLineage
  BY Inductive, PTL DEF IInv

(***************************************************************************)
(* No resurrection.                                                        *)
(***************************************************************************)

\* A dead login of the library's stays dead over every step.
LEMMA DeadStep ==
    ASSUME IInv, [Next]_vars, NEW f \in Generated, Dead(f)
    PROVE  Dead(f)'
<1> USE DEF IInv
<1>1. \A t \in DOMAIN sessions :
        sessions[t].familyId = f => IsRevoked(sessions[t])
  BY DEF Dead, DeadIn, LiveRows, FamilyRows
<1>2. PICK r \in DOMAIN sessions : sessions[r].familyId = f
  BY DEF Dead, DeadIn, FamilyRows
<1>3. SUFFICES /\ \E t \in DOMAIN sessions' : sessions'[t].familyId = f
               /\ \A t \in DOMAIN sessions' :
                    sessions'[t].familyId = f => IsRevoked(sessions'[t])
  BY DEF Dead, DeadIn, LiveRows, FamilyRows
<1>4. CASE UNCHANGED sessions
  BY <1>1, <1>2, <1>4
<1>5. ASSUME NEW c \in Callers, Store(c)
      PROVE  \E t \in DOMAIN sessions' : sessions'[t].familyId = f
  BY <1>2, <1>5, StoreSteps DEF StoreShape, CallsConsistent
<1>6. ASSUME NEW c \in Callers, Store(c)
      PROVE  \A t \in DOMAIN sessions' :
                sessions'[t].familyId = f => IsRevoked(sessions'[t])
  <2>1. CASE StoreCreate(c)
    <3>1. call[c].family # f
      BY <1>2, <2>1, CreateEffect
         DEF CallsConsistent, FamiliesFresh, FamilyRows, Awaits
    <3>2. Inserted(sessions', sessions, call[c].next, call[c].family,
                   call[c].user)
      BY <2>1, CreateEffect
    <3>3. QED
      BY <1>1, <3>1, <3>2 DEF Inserted
  <2>2. CASE RotateWins(c)
    <3>1. sessions[call[c].old].familyId # f
      BY <1>1, <2>2, WinsEffect DEF CallsConsistent
    <3>2. /\ call[c].old \in DOMAIN sessions
          /\ Replaced(sessions', sessions, call[c].old, call[c].next)
      BY <2>2, WinsEffect DEF CallsConsistent
    <3>3. QED
      BY <1>1, <3>1, <3>2 DEF Replaced
  <2>3. CASE RotateBenign(c)
    <3>1. \E x \in DOMAIN sessions :
            /\ ~IsRevoked(sessions[x])
            /\ sessions[x].familyId = sessions[call[c].old].familyId
      <4>1. /\ call[c].old \in DOMAIN sessions
            /\ ReplacementActive(sessions, call[c].old, call[c].now)
        BY <2>3, BenignEffect DEF IsBenign
      <4>2. sessions[call[c].old].replacedById # Null
        BY <4>1, NullAssumption DEF ReplacementActive, TypeOK, TypedRows
      <4>3. QED
        BY <4>1, <4>2 DEF ReplacementActive, SessionLineage, ReplacementsChain
    <3>2. sessions[call[c].old].familyId # f
      BY <1>1, <3>1
    <3>3. Inserted(sessions', sessions, call[c].next,
                   sessions[call[c].old].familyId, sessions[call[c].old].userId)
      BY <2>3, BenignEffect
    <3>4. QED
      BY <1>1, <3>2, <3>3 DEF Inserted
  <2>4. CASE RotateReuse(c)
    BY <1>1, <2>4, ReuseEffect DEF Killed
  <2>5. CASE StoreKillFamily(c)
    BY <1>1, <2>5, KillFamilyEffect DEF Killed
  <2>6. CASE StoreKillUser(c)
    BY <1>1, <2>6, KillUserEffect DEF Killed
  <2>7. CASE UNCHANGED sessions
    BY <1>1, <2>7
  <2>8. QED
    BY <1>6, <2>1, <2>2, <2>3, <2>4, <2>5, <2>6, <2>7,
       InvalidEffect, FindsEffect, FindsNothingEffect DEF Store, StoreRotate
<1>7. QED
  BY <1>4, <1>5, <1>6, BeginSteps, EndSteps DEF Next, Tick, vars

\* A revoked login of the library's is never resurrected, by no interleaving
\* of rotations, replays, logouts and crashes: the defect of 0.2.0 is gone.
THEOREM NoResurrection == Spec => DeadFamilyStaysDead
<1>1. IInv /\ [Next]_vars => [\A f \in Generated : Dead(f) => Dead(f)']_vars
  BY DeadStep
<1>2. QED
  BY <1>1, Inductive, PTL DEF Spec, DeadFamilyStaysDead

(***************************************************************************)
(* Verdicts.                                                               *)
(***************************************************************************)

\* A handler's own answer is right when the store gives it.
LEMMA VerdictGiven ==
    ASSUME IInv, NEW c \in Callers, Store(c),
           call'[c].op = "reply",
           call'[c].outcome \in {"reuse", "loggedOut"},
           call'[c].old \in DOMAIN sessions'
    PROVE  DeadIn(sessions', sessions'[call'[c].old].familyId)
<1> USE DEF IInv
<1>1. ASSUME NEW f, NEW old \in DOMAIN sessions, sessions[old].familyId = f,
             Killed(sessions', sessions, FamilyRows(sessions, f))
      PROVE  old \in DOMAIN sessions' /\ DeadIn(sessions', f)
  BY <1>1 DEF Killed, DeadIn, LiveRows, FamilyRows
<1>2. CASE RotateReuse(c)
  <2>1. /\ call'[c].old = call[c].old
        /\ call[c].old \in DOMAIN sessions
        /\ Killed(sessions', sessions,
                  FamilyRows(sessions, sessions[call[c].old].familyId))
    BY <1>2, ReuseEffect DEF Answered
  <2>2. sessions'[call[c].old].familyId = sessions[call[c].old].familyId
    BY <2>1 DEF Killed
  <2>3. QED
    BY <1>1, <2>1, <2>2
<1>3. CASE StoreKillFamily(c)
  <2>1. /\ call'[c].old = call[c].old
        /\ call[c].old \in DOMAIN sessions
        /\ call[c].family = sessions[call[c].old].familyId
        /\ Killed(sessions', sessions, FamilyRows(sessions, call[c].family))
    BY <1>3, KillFamilyEffect
       DEF Answered, CallsConsistent, LogoutOnTarget, Awaits
  <2>2. sessions'[call[c].old].familyId = sessions[call[c].old].familyId
    BY <2>1 DEF Killed
  <2>3. QED
    BY <1>1, <2>1, <2>2
<1>4. CASE LogoutFindsNothing(c)
  BY <1>4, FindsNothingEffect DEF Answered
<1>5. CASE LogoutFinds(c)
  BY <1>5, FindsEffect
<1>6. CASE \/ StoreCreate(c) \/ RotateNotFound(c) \/ RotateExpired(c)
           \/ RotateWins(c) \/ RotateBenign(c) \/ StoreKillUser(c)
  BY <1>6, CreateEffect, InvalidEffect, WinsEffect, BenignEffect,
     KillUserEffect DEF Answered, CallsConsistent
<1>7. QED
  BY <1>2, <1>3, <1>4, <1>5, <1>6 DEF Store, StoreRotate

\* Every step keeps the verdicts that were given.
LEMMA NextVerdictHolds ==
    ASSUME IInv, VerdictHolds, [Next]_vars
    PROVE  VerdictHolds'
<1> USE DEF IInv
<1>1. SUFFICES ASSUME NEW d \in Callers,
                      call'[d].op = "reply",
                      call'[d].outcome \in {"reuse", "loggedOut"},
                      call'[d].old \in DOMAIN sessions',
                      sessions'[call'[d].old].familyId \in Generated
               PROVE  DeadIn(sessions', sessions'[call'[d].old].familyId)
  BY DEF VerdictHolds, Awaits, Dead
<1>2. ASSUME call'[d] = call[d], call[d].old \in DOMAIN sessions,
             sessions'[call[d].old].familyId = sessions[call[d].old].familyId
      PROVE  DeadIn(sessions', sessions'[call'[d].old].familyId)
  BY <1>1, <1>2, DeadStep DEF VerdictHolds, Awaits, Dead
<1>3. ASSUME NEW c \in Callers, Store(c)
      PROVE  DeadIn(sessions', sessions'[call'[d].old].familyId)
  <2>1. CASE c = d
    BY <1>1, <1>3, <2>1, VerdictGiven
  <2>2. CASE c # d
    <3>1. call'[d] = call[d] /\ StoreShape(c)
      BY <1>3, <2>2, StoreSteps DEF StoreShape, CallsConsistent
    <3>2. call[d].old \in Tokens
      BY <1>1, <3>1 DEF StoreShape, TypedRows
    <3>3. call[d].old \in DOMAIN sessions
      BY <1>1, <3>1, <3>2, NullAssumption, ConstantsAssumption
         DEF CallsConsistent, PresentedKnown
    <3>4. QED
      BY <1>2, <3>1, <3>3 DEF StoreShape
  <2>3. QED
    BY <2>1, <2>2
<1>4. ASSUME NEW c \in Callers, Begin(c) \/ Deliver(c) \/ Crash(c)
      PROVE  DeadIn(sessions', sessions'[call'[d].old].familyId)
  BY <1>1, <1>2, <1>4, BeginSteps, EndSteps
<1>5. CASE Tick \/ UNCHANGED vars
  BY <1>1, <1>2, <1>5 DEF Tick, vars
<1>6. QED
  BY <1>3, <1>4, <1>5 DEF Next

\* Whoever is told `reuse' or logged out can count on a dead login.
THEOREM VerdictsHold == Spec => []VerdictHolds
<1>1. Init => VerdictHolds
  BY DEF Init, VerdictHolds, Awaits, Idle
<1>2. IInv /\ VerdictHolds /\ [Next]_vars => VerdictHolds'
  BY NextVerdictHolds
<1>3. QED
  BY <1>1, <1>2, Inductive, PTL DEF Spec

(***************************************************************************)
(* What a step may never do to a row, and whom it may revoke.              *)
(***************************************************************************)

\* A revoked row is never written again: its grace window opens once.
LEMMA FinalStep ==
    ASSUME IInv, [Next]_vars, NEW t \in DOMAIN sessions, IsRevoked(sessions[t])
    PROVE  t \in DOMAIN sessions' /\ sessions'[t] = sessions[t]
<1> USE DEF IInv
<1>1. CASE UNCHANGED sessions
  BY <1>1
<1>2. ASSUME NEW c \in Callers, Store(c)
      PROVE  t \in DOMAIN sessions' /\ sessions'[t] = sessions[t]
  <2>1. CASE StoreCreate(c)
    <3>1. /\ call[c].next \notin DOMAIN sessions
          /\ Inserted(sessions', sessions, call[c].next, call[c].family,
                      call[c].user)
      BY <2>1, CreateEffect DEF CallsConsistent, DrawsFresh
    <3>2. QED
      BY <3>1 DEF Inserted
  <2>2. CASE RotateWins(c)
    <3>1. /\ ~IsRevoked(sessions[call[c].old])
          /\ Replaced(sessions', sessions, call[c].old, call[c].next)
      BY <2>2, WinsEffect DEF CallsConsistent
    <3>2. QED
      BY <3>1 DEF Replaced
  <2>3. CASE RotateBenign(c)
    <3>1. /\ call[c].next \notin DOMAIN sessions
          /\ Inserted(sessions', sessions, call[c].next,
                      sessions[call[c].old].familyId,
                      sessions[call[c].old].userId)
      BY <2>3, BenignEffect DEF CallsConsistent, DrawsFresh
    <3>2. QED
      BY <3>1 DEF Inserted
  <2>4. CASE RotateReuse(c)
    BY <2>4, ReuseEffect DEF Killed
  <2>5. CASE StoreKillFamily(c)
    BY <2>5, KillFamilyEffect DEF Killed
  <2>6. CASE StoreKillUser(c)
    BY <2>6, KillUserEffect DEF Killed
  <2>7. CASE UNCHANGED sessions
    BY <2>7
  <2>8. QED
    BY <1>2, <2>1, <2>2, <2>3, <2>4, <2>5, <2>6, <2>7,
       InvalidEffect, FindsEffect, FindsNothingEffect DEF Store, StoreRotate
<1>3. QED
  BY <1>1, <1>2, BeginSteps, EndSteps DEF Next, Tick, vars

\* No kill or rotation restamps a row, so no grace window opens twice.
THEOREM RevocationOnce == Spec => RevocationIsFinal
<1>1. IInv /\ [Next]_vars =>
        [\A t \in DOMAIN sessions :
            IsRevoked(sessions[t]) =>
                t \in DOMAIN sessions' /\ sessions'[t] = sessions[t]]_vars
  BY FinalStep
<1>2. QED
  BY <1>1, Inductive, PTL DEF Spec, RevocationIsFinal

\* The step in which a rotation is answered is the store's.
LEMMA RotateAnswered ==
    ASSUME IInv, [Next]_vars, NEW c \in Callers, StoreAnswers(c, "rotate")
    PROVE  StoreRotate(c)
<1> USE DEF IInv
<1>1. call[c].op = "rotate" /\ call'[c].op = "reply"
  BY DEF StoreAnswers, Awaits
<1>2. ASSUME NEW d \in Callers, Begin(d) \/ Deliver(d) \/ Crash(d)
      PROVE  FALSE
  BY <1>1, <1>2, BeginSteps, EndSteps
<1>3. ASSUME NEW d \in Callers, Store(d)
      PROVE  d = c
  BY <1>1, <1>3, StoreSteps DEF StoreShape, CallsConsistent
<1>4. Store(c)
  BY <1>1, <1>2, <1>3 DEF Next, Tick, vars
<1>5. QED
  BY <1>1, <1>4, CreateEffect, FindsEffect, FindsNothingEffect,
     KillFamilyEffect, KillUserEffect
     DEF Store

\* A refresh that is answered `rotated' found a working token in its login.
LEMMA RotationStep ==
    ASSUME IInv, [Next]_vars, NEW c \in Callers, StoreAnswers(c, "rotate"),
           call'[c].outcome = "rotated"
    PROVE  \E t \in FamilyRows(sessions, sessions[call[c].old].familyId) :
                /\ ~IsRevoked(sessions[t])
                /\ sessions[t].expiresAt > call[c].now
<1> USE DEF IInv
<1>1. StoreRotate(c)
  BY RotateAnswered
<1>2. RotateWins(c) \/ RotateBenign(c)
  BY <1>1, InvalidEffect, ReuseEffect DEF StoreRotate, Answered
<1>3. CASE RotateWins(c)
  BY <1>3 DEF RotateWins, FamilyRows
<1>4. CASE RotateBenign(c)
  <2>1. /\ call[c].old \in DOMAIN sessions
        /\ ReplacementActive(sessions, call[c].old, call[c].now)
    BY <1>4, BenignEffect DEF IsBenign
  <2>2. sessions[call[c].old].replacedById # Null
    BY <2>1, NullAssumption DEF ReplacementActive, TypeOK, TypedRows
  <2>3. QED
    BY <2>1, <2>2
       DEF ReplacementActive, SessionLineage, ReplacementsChain, FamilyRows
<1>5. QED
  BY <1>2, <1>3, <1>4

\* A killed or expired login is not refreshed back to life by either branch.
THEOREM NoRefreshOfADeadLogin == Spec => RotationNeedsWorkingToken
<1>1. IInv /\ [Next]_vars =>
        [\A c \in Callers :
            StoreAnswers(c, "rotate") /\ call'[c].outcome = "rotated" =>
                \E t \in FamilyRows(sessions, sessions[call[c].old].familyId) :
                    /\ ~IsRevoked(sessions[t])
                    /\ sessions[t].expiresAt > call[c].now]_vars
  BY RotationStep
<1>2. QED
  BY <1>1, Inductive, PTL DEF Spec, RotationNeedsWorkingToken

\* A row is revoked by a handler with a token of its login, or by a handler
\* that logs its user out everywhere.
LEMMA KillStep ==
    ASSUME IInv, [Next]_vars, NEW t \in DOMAIN sessions,
           ~IsRevoked(sessions[t]), IsRevoked(sessions'[t])
    PROVE  \E c \in Callers :
            \/ /\ StoreAnswers(c, "rotate") \/ StoreAnswers(c, "revokeFamily")
               /\ call[c].old \in FamilyRows(sessions, sessions[t].familyId)
            \/ /\ StoreAnswers(c, "revokeAllForUser")
               /\ call[c].user = sessions[t].userId
<1> USE DEF IInv
<1>1. ASSUME NEW c \in Callers, Begin(c) \/ Deliver(c) \/ Crash(c)
      PROVE  FALSE
  BY <1>1, BeginSteps, EndSteps
<1>2. PICK c \in Callers : Store(c)
  BY <1>1 DEF Next, Tick, vars
<1>3. CASE StoreCreate(c)
  <2>1. /\ call[c].next \notin DOMAIN sessions
        /\ Inserted(sessions', sessions, call[c].next, call[c].family,
                    call[c].user)
    BY <1>3, CreateEffect DEF CallsConsistent, DrawsFresh
  <2>2. QED
    BY <2>1 DEF Inserted
<1>4. CASE RotateWins(c)
  <2>1. /\ StoreAnswers(c, "rotate")
        /\ call[c].old \in DOMAIN sessions
        /\ Replaced(sessions', sessions, call[c].old, call[c].next)
    BY <1>4, WinsEffect DEF CallsConsistent, StoreAnswers, Awaits, Answered
  <2>2. t = call[c].old
    BY <2>1 DEF Replaced
  <2>3. QED
    BY <2>1, <2>2 DEF FamilyRows
<1>5. CASE RotateBenign(c)
  <2>1. /\ call[c].next \notin DOMAIN sessions
        /\ Inserted(sessions', sessions, call[c].next,
                    sessions[call[c].old].familyId,
                    sessions[call[c].old].userId)
    BY <1>5, BenignEffect DEF CallsConsistent, DrawsFresh
  <2>2. QED
    BY <2>1 DEF Inserted
<1>6. CASE RotateReuse(c)
  <2>1. /\ StoreAnswers(c, "rotate")
        /\ call[c].old \in DOMAIN sessions
        /\ t \in FamilyRows(sessions, sessions[call[c].old].familyId)
    BY <1>6, ReuseEffect DEF Killed, StoreAnswers, Awaits, Answered
  <2>2. QED
    BY <2>1 DEF FamilyRows
<1>7. CASE StoreKillFamily(c)
  <2>1. /\ StoreAnswers(c, "revokeFamily")
        /\ call[c].old \in DOMAIN sessions
        /\ call[c].family = sessions[call[c].old].familyId
        /\ t \in FamilyRows(sessions, call[c].family)
    BY <1>7, KillFamilyEffect
       DEF Killed, CallsConsistent, LogoutOnTarget, StoreAnswers, Awaits,
           Answered
  <2>2. QED
    BY <2>1 DEF FamilyRows
<1>8. CASE StoreKillUser(c)
  <2>1. /\ StoreAnswers(c, "revokeAllForUser")
        /\ t \in UserRows(sessions, call[c].user)
    BY <1>8, KillUserEffect DEF Killed, StoreAnswers, Awaits, Answered
  <2>2. QED
    BY <2>1 DEF UserRows
<1>9. CASE UNCHANGED sessions
  BY <1>9
<1>10. QED
  BY <1>2, <1>3, <1>4, <1>5, <1>6, <1>7, <1>8, <1>9,
     InvalidEffect, FindsEffect, FindsNothingEffect DEF Store, StoreRotate

\* Nobody's session ends by another login's tokens.
THEOREM KillsAreAttributable == Spec => KillIsAttributable
<1>1. IInv /\ [Next]_vars =>
        [\A t \in DOMAIN sessions :
            /\ ~IsRevoked(sessions[t])
            /\ IsRevoked(sessions'[t])
            => \E c \in Callers :
                \/ /\ \/ StoreAnswers(c, "rotate")
                      \/ StoreAnswers(c, "revokeFamily")
                   /\ call[c].old \in FamilyRows(sessions, sessions[t].familyId)
                \/ /\ StoreAnswers(c, "revokeAllForUser")
                   /\ call[c].user = sessions[t].userId]_vars
  BY KillStep
<1>2. QED
  BY <1>1, Inductive, PTL DEF Spec, KillIsAttributable

(***************************************************************************)
(* Replays: those that are never missed, and those that are forgiven.      *)
(***************************************************************************)

LEMMA ReplayStep ==
    ASSUME IInv, [Next]_vars, NEW c \in Callers, StoreAnswers(c, "rotate"),
           call[c].old \in DOMAIN sessions,
           IsRevoked(sessions[call[c].old])
    PROVE  \/ /\ call'[c].outcome = "reuse"
              /\ Dead(sessions[call[c].old].familyId)'
           \/ /\ call'[c].outcome = "rotated"
              /\ sessions[call[c].old].replacedById # Null
              /\ InWindow(c)
<1> USE DEF IInv
<1>1. RotateReuse(c) \/ RotateBenign(c)
  BY RotateAnswered
     DEF StoreRotate, RotateNotFound, RotateExpired, RotateWins
<1>2. CASE RotateReuse(c)
  <2>1. call'[c].outcome = "reuse"
    BY <1>2, ReuseEffect DEF Answered
  <2> DEFINE f == sessions[call[c].old].familyId
  <2>2. DeadIn(sessions', f)
    BY <1>2, ReuseEffect DEF Killed, DeadIn, LiveRows, FamilyRows
  <2>3. call'[c].old = call[c].old /\ sessions'[call[c].old].familyId = f
    BY <1>2, ReuseEffect DEF Answered, Killed
  <2>4. QED
    BY <2>1, <2>2, <2>3 DEF Dead
<1>3. CASE RotateBenign(c)
  <2>1. call'[c].outcome = "rotated" /\ IsBenign(call[c])
    BY <1>3, BenignEffect DEF Answered
  <2>2. QED
    BY <2>1, NullAssumption
       DEF IsBenign, WithinGrace, ReplacementActive, InWindow, TypeOK, TypedRows
<1>4. QED
  BY <1>1, <1>2, <1>3

\* Whoever presents a spent token outside the window ends its login, however
\* long ago the token expired.
THEOREM ReplaysAreSeen == Spec => ReplayIsNeverMissed
<1>1. IInv /\ [Next]_vars =>
        [\A c \in Callers :
            /\ StoreAnswers(c, "rotate")
            /\ call[c].old \in DOMAIN sessions
            /\ IsRevoked(sessions[call[c].old])
            => \/ /\ call'[c].outcome = "reuse"
                  /\ Dead(sessions[call[c].old].familyId)'
               \/ /\ call'[c].outcome = "rotated"
                  /\ sessions[call[c].old].replacedById # Null
                  /\ InWindow(c)]_vars
  BY ReplayStep
<1>2. QED
  BY <1>1, Inductive, PTL DEF Spec, ReplayIsNeverMissed

\* Only a token that is in somebody's hands is presented, and so only such a
\* token is replaced; a row revoked without a replacement was killed with its
\* whole login.
PresentedHeld ==
    \A c \in Callers :
        Awaits(c, "rotate") => call[c].old \in held \cup {Garbage}

ReplacedHeld ==
    \A t \in DOMAIN sessions : sessions[t].replacedById # Null => t \in held

KilledWithLogin ==
    \A t \in DOMAIN sessions :
        /\ IsRevoked(sessions[t]) /\ sessions[t].replacedById = Null
        /\ sessions[t].familyId \in Generated
        => Dead(sessions[t].familyId)

HInv == PresentedHeld /\ ReplacedHeld /\ KilledWithLogin

LEMMA HeldGrows ==
    ASSUME [Next]_vars
    PROVE  held \subseteq held'
  BY DEF Next, Begin, BeginLogin, BeginRotate, BeginLogout, BeginUserKill,
         Store, StoreCreate, StoreRotate, RotateNotFound, RotateExpired,
         RotateWins, RotateBenign, RotateReuse, LogoutFinds,
         LogoutFindsNothing, StoreKillFamily, StoreKillUser, Deliver, Crash,
         Tick, vars

LEMMA PresentedHeldStep ==
    ASSUME IInv, PresentedHeld, [Next]_vars
    PROVE  PresentedHeld'
<1> USE DEF IInv
<1>1. SUFFICES ASSUME NEW d \in Callers, call'[d].op = "rotate"
               PROVE  call'[d].old \in held' \cup {Garbage}
  BY DEF PresentedHeld, Awaits
<1>2. CASE call'[d] = call[d]
  BY <1>1, <1>2, HeldGrows DEF PresentedHeld, Awaits
<1>3. ASSUME NEW c \in Callers, Begin(c), c = d
      PROVE  call'[d].old \in held' \cup {Garbage}
  BY <1>1, <1>3, BeginSteps
<1>4. ASSUME NEW c \in Callers, Begin(c) \/ Deliver(c) \/ Crash(c) \/ Store(c)
      PROVE  call'[d] = call[d] \/ (Begin(c) /\ c = d)
  BY <1>1, <1>4, BeginSteps, EndSteps, StoreSteps
     DEF StoreShape, StoreVerdict, CallsConsistent
<1>5. QED
  BY <1>2, <1>3, <1>4 DEF Next, Tick, vars

LEMMA ReplacedHeldStep ==
    ASSUME IInv, PresentedHeld, ReplacedHeld, [Next]_vars
    PROVE  ReplacedHeld'
<1> USE DEF IInv
<1>1. SUFFICES ASSUME NEW t \in DOMAIN sessions',
                      sessions'[t].replacedById # Null
               PROVE  t \in held'
  BY DEF ReplacedHeld
<1>2. t \in DOMAIN sessions /\ sessions[t].replacedById # Null => t \in held'
  BY HeldGrows DEF ReplacedHeld
<1>3. CASE UNCHANGED sessions
  BY <1>1, <1>2, <1>3
<1>4. ASSUME NEW c \in Callers, Store(c)
      PROVE  t \in held'
  <2>1. CASE StoreCreate(c) \/ RotateBenign(c)
    <3>1. PICK f, u : Inserted(sessions', sessions, call[c].next, f, u)
      BY <2>1, CreateEffect, BenignEffect
    <3>2. QED
      BY <1>1, <1>2, <3>1 DEF Inserted
  <2>2. CASE RotateWins(c)
    <3>1. /\ call[c].op = "rotate"
          /\ call[c].old \in DOMAIN sessions
          /\ Replaced(sessions', sessions, call[c].old, call[c].next)
      BY <2>2, WinsEffect DEF CallsConsistent
    <3>2. call[c].old \in held
      BY <3>1, ConstantsAssumption DEF PresentedHeld, Awaits, TypeOK, TypedRows
    <3>3. QED
      BY <1>1, <1>2, <3>1, <3>2, HeldGrows DEF Replaced
  <2>3. CASE RotateReuse(c) \/ StoreKillFamily(c) \/ StoreKillUser(c)
    <3>1. PICK T : Killed(sessions', sessions, T)
      BY <2>3, ReuseEffect, KillFamilyEffect, KillUserEffect
    <3>2. QED
      BY <1>1, <1>2, <3>1 DEF Killed
  <2>4. QED
    BY <1>3, <1>4, <2>1, <2>2, <2>3, InvalidEffect, FindsEffect,
       FindsNothingEffect DEF Store, StoreRotate
<1>5. QED
  BY <1>3, <1>4, BeginSteps, EndSteps DEF Next, Tick, vars

\* A kill takes the whole of each login of the library's that it touches.
LEMMA KillsWholeLogin ==
    ASSUME IInv, NEW f \in Generated, NEW T, Killed(sessions', sessions, T),
           FamilyRows(sessions, f) \subseteq T, FamilyRows(sessions, f) # {}
    PROVE  DeadIn(sessions', f)
  BY DEF Killed, DeadIn, LiveRows, FamilyRows

LEMMA KilledWithLoginStep ==
    ASSUME IInv, KilledWithLogin, [Next]_vars
    PROVE  KilledWithLogin'
<1> USE DEF IInv
<1>1. SUFFICES ASSUME NEW t \in DOMAIN sessions', IsRevoked(sessions'[t]),
                      sessions'[t].replacedById = Null,
                      sessions'[t].familyId \in Generated
               PROVE  DeadIn(sessions', sessions'[t].familyId)
  BY DEF KilledWithLogin, Dead, Generated
<1> DEFINE f == sessions'[t].familyId
<1>2. CASE t \in DOMAIN sessions /\ IsRevoked(sessions[t])
  <2>1. sessions'[t] = sessions[t]
    BY <1>2, FinalStep
  <2>2. Dead(f)
    BY <1>1, <1>2, <2>1 DEF KilledWithLogin
  <2>3. QED
    BY <1>1, <2>2, DeadStep DEF Dead
<1>3. CASE ~(t \in DOMAIN sessions /\ IsRevoked(sessions[t]))
  <2>1. ~UNCHANGED sessions
    BY <1>1, <1>3
  <2>2. PICK c \in Callers : Store(c)
    BY <2>1, BeginSteps, EndSteps DEF Next, Tick, vars
  <2>3. CASE StoreCreate(c) \/ RotateBenign(c)
    <3>1. PICK g, u : Inserted(sessions', sessions, call[c].next, g, u)
      BY <2>3, CreateEffect, BenignEffect
    <3>2. QED
      BY <1>1, <1>3, <3>1 DEF Inserted
  <2>4. CASE RotateWins(c)
    <3>1. /\ call[c].next \in Tokens
          /\ call[c].old \in DOMAIN sessions
          /\ Replaced(sessions', sessions, call[c].old, call[c].next)
      BY <2>4, WinsEffect DEF CallsConsistent, Rotation
    <3>2. QED
      BY <1>1, <1>3, <3>1, NullAssumption DEF Replaced
  <2>5. ASSUME NEW T, Killed(sessions', sessions, T)
        PROVE  t \in DOMAIN sessions /\ t \in T /\ sessions[t].familyId = f
    BY <1>1, <1>3, <2>5 DEF Killed
  <2>6. CASE RotateReuse(c)
    <3> DEFINE T == FamilyRows(sessions, sessions[call[c].old].familyId)
    <3>1. Killed(sessions', sessions, T)
      BY <2>6, ReuseEffect
    <3>2. t \in T /\ T = FamilyRows(sessions, f)
      BY <2>5, <3>1 DEF FamilyRows
    <3> HIDE DEF T
    <3>3. QED
      BY <1>1, <3>1, <3>2, KillsWholeLogin
  <2>7. CASE StoreKillFamily(c)
    <3> DEFINE T == FamilyRows(sessions, call[c].family)
    <3>1. Killed(sessions', sessions, T)
      BY <2>7, KillFamilyEffect
    <3>2. t \in T /\ T = FamilyRows(sessions, f)
      BY <2>5, <3>1 DEF FamilyRows
    <3> HIDE DEF T
    <3>3. QED
      BY <1>1, <3>1, <3>2, KillsWholeLogin
  <2>8. CASE StoreKillUser(c)
    <3> DEFINE T == UserRows(sessions, call[c].user)
    <3>1. Killed(sessions', sessions, T)
      BY <2>8, KillUserEffect
    <3>2. t \in T /\ t \in FamilyRows(sessions, f)
      BY <2>5, <3>1 DEF FamilyRows
    <3>3. FamilyRows(sessions, f) \subseteq T
      BY <1>1, <3>2
         DEF FamilyRows, UserRows, SessionLineage, OneUserPerLogin
    <3> HIDE DEF T
    <3>4. QED
      BY <1>1, <3>1, <3>2, <3>3, KillsWholeLogin
  <2>9. QED
    BY <2>1, <2>2, <2>3, <2>4, <2>6, <2>7, <2>8, InvalidEffect, FindsEffect,
       FindsNothingEffect DEF Store, StoreRotate
<1>4. QED
  BY <1>2, <1>3

LEMMA HandsInductive == Spec => [](IInv /\ HInv)
<1>1. Init => HInv
  BY DEF Init, HInv, PresentedHeld, ReplacedHeld, KilledWithLogin, Awaits, Idle
<1>2. IInv /\ HInv /\ [Next]_vars => HInv'
  BY PresentedHeldStep, ReplacedHeldStep, KilledWithLoginStep DEF HInv
<1>3. QED
  BY <1>1, <1>2, Inductive, PTL DEF Spec

LEMMA ForgivenStep ==
    ASSUME IInv, HInv, [Next]_vars, NEW c \in Callers,
           StoreAnswers(c, "rotate"), call[c].old \in DOMAIN sessions,
           NEW next \in DOMAIN sessions \ held,
           next = sessions[call[c].old].replacedById,
           sessions[next].expiresAt > call[c].now,
           sessions[call[c].old].familyId \in Generated,
           ~Dead(sessions[call[c].old].familyId),
           InWindow(c)
    PROVE  call'[c].outcome = "rotated"
<1> USE DEF IInv
<1>1. next # Null
  BY NullAssumption DEF TypeOK, TypedRows
<1>2. /\ IsRevoked(sessions[call[c].old])
      /\ sessions[next].familyId = sessions[call[c].old].familyId
  BY <1>1 DEF SessionLineage, ReplacementsChain
<1>3. sessions[next].replacedById = Null
  BY DEF HInv, ReplacedHeld
<1>4. ~IsRevoked(sessions[next])
  BY <1>2, <1>3 DEF HInv, KilledWithLogin
<1>5. IsBenign(call[c])
  BY <1>4 DEF IsBenign, WithinGrace, InWindow, ReplacementActive
<1>6. RotateBenign(c)
  BY <1>2, <1>5, RotateAnswered
     DEF StoreRotate, RotateNotFound, RotateExpired, RotateWins, RotateReuse
<1>7. QED
  BY <1>6, BenignEffect DEF Answered

\* A client whose answer was lost is given another token, unless its login was
\* closed: nobody who never saw the replacement can have spent it.
THEOREM LostAnswersAreForgiven == Spec => LostAnswerIsForgiven
<1>1. IInv /\ HInv /\ [Next]_vars =>
        [\A c \in Callers :
            LET row  == sessions[call[c].old]
                next == row.replacedById
            IN  /\ StoreAnswers(c, "rotate")
                /\ call[c].old \in DOMAIN sessions
                /\ next \in DOMAIN sessions \ held
                /\ sessions[next].expiresAt > call[c].now
                /\ row.familyId \in Generated /\ ~Dead(row.familyId)
                /\ InWindow(c)
                => call'[c].outcome = "rotated"]_vars
  BY ForgivenStep
<1>2. QED
  BY <1>1, HandsInductive, PTL DEF Spec, LostAnswerIsForgiven

(***************************************************************************)
(* Strict callers.                                                         *)
(***************************************************************************)

\* Where no caller grants grace, no sibling is ever minted.
LEMMA StrictStep ==
    ASSUME Graces \subseteq {0}, IInv, OneLiveTokenPerLogin, [Next]_vars
    PROVE  OneLiveTokenPerLogin'
<1> USE DEF IInv
<1>1. SUFFICES ASSUME NEW f \in Generated,
                      NEW t \in LiveRows(sessions', f),
                      NEW x \in LiveRows(sessions', f)
               PROVE  t = x
  BY DEF OneLiveTokenPerLogin
<1>2. \A a, b \in DOMAIN sessions :
        /\ sessions[a].familyId = f /\ ~IsRevoked(sessions[a])
        /\ sessions[b].familyId = f /\ ~IsRevoked(sessions[b])
        => a = b
  BY DEF OneLiveTokenPerLogin, LiveRows, FamilyRows
<1>3. \A y \in {t, x} : /\ y \in DOMAIN sessions'
                        /\ sessions'[y].familyId = f
                        /\ ~IsRevoked(sessions'[y])
  BY <1>1 DEF LiveRows, FamilyRows
<1>4. CASE UNCHANGED sessions
  BY <1>2, <1>3, <1>4
<1>5. ASSUME NEW c \in Callers, Store(c)
      PROVE  t = x
  <2>1. CASE StoreCreate(c)
    <3>1. /\ Awaits(c, "createSession")
          /\ Inserted(sessions', sessions, call[c].next, call[c].family,
                      call[c].user)
      BY <2>1, CreateEffect DEF Awaits
    <3>2. CASE call[c].family = f
      <4>1. \A y \in DOMAIN sessions : sessions[y].familyId # f
        BY <3>1, <3>2 DEF CallsConsistent, FamiliesFresh, FamilyRows
      <4>2. QED
        BY <1>3, <3>1, <4>1 DEF Inserted
    <3>3. CASE call[c].family # f
      BY <1>2, <1>3, <3>1, <3>3 DEF Inserted
    <3>4. QED
      BY <3>2, <3>3
  <2>2. CASE RotateWins(c)
    <3>1. /\ call[c].old \in DOMAIN sessions
          /\ ~IsRevoked(sessions[call[c].old])
          /\ Replaced(sessions', sessions, call[c].old, call[c].next)
      BY <2>2, WinsEffect DEF CallsConsistent
    <3>2. QED
      BY <1>2, <1>3, <3>1 DEF Replaced
  <2>3. CASE RotateBenign(c)
    <3>1. call[c].graceMs \in {0}
      BY <2>3, BenignEffect DEF Rotation
    <3>2. call[c].graceMs > 0
      BY <2>3, BenignEffect DEF IsBenign, WithinGrace
    <3>3. QED
      BY <3>1, <3>2
  <2>4. CASE RotateReuse(c)
    BY <1>2, <1>3, <2>4, ReuseEffect DEF Killed
  <2>5. CASE StoreKillFamily(c)
    BY <1>2, <1>3, <2>5, KillFamilyEffect DEF Killed
  <2>6. CASE StoreKillUser(c)
    BY <1>2, <1>3, <2>6, KillUserEffect DEF Killed
  <2>7. CASE UNCHANGED sessions
    BY <1>2, <1>3, <2>7
  <2>8. QED
    BY <1>5, <2>1, <2>2, <2>3, <2>4, <2>5, <2>6, <2>7,
       InvalidEffect, FindsEffect, FindsNothingEffect DEF Store, StoreRotate
<1>6. QED
  BY <1>4, <1>5, BeginSteps, EndSteps DEF Next, Tick, vars

\* With graceMs 0 everywhere, a login never has two working tokens.
THEOREM StrictLogins ==
    ASSUME Graces \subseteq {0}
    PROVE  Spec => []OneLiveTokenPerLogin
<1>1. Init => OneLiveTokenPerLogin
  BY DEF Init, OneLiveTokenPerLogin, LiveRows, FamilyRows
<1>2. IInv /\ OneLiveTokenPerLogin /\ [Next]_vars => OneLiveTokenPerLogin'
  BY StrictStep
<1>3. QED
  BY <1>1, <1>2, Inductive, PTL DEF Spec

-----------------------------------------------------------------------------
(***************************************************************************)
(* The refinement: RefreshSession implements SessionLedger.  Each          *)
(* transaction of the store is one step of the ledger, and every other     *)
(* step leaves it as it is.                                                *)
(*                                                                         *)
(* The ledger that a store's rows stand for, and what the changes to the   *)
(* rows make of it.                                                        *)
(***************************************************************************)

StatusOf(rows) ==
    [t \in Tokens |-> IF t \notin DOMAIN rows THEN "unissued"
                      ELSE IF IsRevoked(rows[t]) THEN "spent" ELSE "live"]

FamilyOf(rows) ==
    [t \in Tokens |-> IF t \in DOMAIN rows THEN rows[t].familyId ELSE Null]

\* A row of a new token is that token, live.
LEMMA InsertedIssues ==
    ASSUME NEW new, NEW rows, NEW t \in Tokens \ DOMAIN rows, NEW f, NEW u,
           Inserted(new, rows, t, f, u)
    PROVE  /\ StatusOf(new) = [StatusOf(rows) EXCEPT ![t] = "live"]
           /\ FamilyOf(new) = [FamilyOf(rows) EXCEPT ![t] = f]
  BY DEF StatusOf, FamilyOf, Inserted

\* A replaced row is one token spent and one live in the same family.
LEMMA ReplacedRotates ==
    ASSUME NEW new, NEW rows, NEW old \in DOMAIN rows \cap Tokens,
           NEW next \in Tokens \ DOMAIN rows,
           Replaced(new, rows, old, next)
    PROVE  /\ StatusOf(new) = [StatusOf(rows) EXCEPT ![old] = "spent",
                                                     ![next] = "live"]
           /\ FamilyOf(new) = [FamilyOf(rows) EXCEPT
                                    ![next] = FamilyOf(rows)[old]]
<1>1. FamilyOf(rows)[old] = rows[old].familyId
  BY DEF FamilyOf
<1>2. StatusOf(new) = [StatusOf(rows) EXCEPT ![old] = "spent",
                                             ![next] = "live"]
  BY DEF StatusOf, Replaced
<1>3. FamilyOf(new) = [FamilyOf(rows) EXCEPT ![next] = rows[old].familyId]
  BY DEF FamilyOf, Replaced
<1>4. QED
  BY <1>1, <1>2, <1>3

\* Killed rows are live tokens spent.
LEMMA KilledSpends ==
    ASSUME NEW new, NEW rows, NEW T, Killed(new, rows, T)
    PROVE  /\ StatusOf(new) =
                [t \in Tokens |->
                    IF t \in {x \in Tokens \cap T : StatusOf(rows)[x] = "live"}
                    THEN "spent" ELSE StatusOf(rows)[t]]
           /\ FamilyOf(new) = FamilyOf(rows)
  BY DEF StatusOf, FamilyOf, Killed

\* The ledger's variables, now and after a step.
LEMMA LedgerValues ==
    /\ LedgerStatus = StatusOf(sessions)
    /\ LedgerFamily = FamilyOf(sessions)
    /\ LedgerStatus' = StatusOf(sessions')
    /\ LedgerFamily' = FamilyOf(sessions')
  BY DEF LedgerStatus, LedgerFamily, StatusOf, FamilyOf

(***************************************************************************)
(* The transactions as steps of the ledger.                                *)
(***************************************************************************)

\* A login issues its token, into a family that is new or may be joined.
LEMMA CreateIssues ==
    ASSUME TypeOK, CallsConsistent, NEW c \in Callers, StoreCreate(c)
    PROVE  Ledger!Issue(call[c].next, call[c].family)
<1> DEFINE t == call[c].next
           f == call[c].family
<1>1. /\ t \in Tokens \ DOMAIN sessions
      /\ f \in Families
  BY CreateEffect DEF CallsConsistent, DrawsFresh, Login
<1>2. f \in SuppliedFamilies \/ FamilyRows(sessions, f) = {}
  BY CreateEffect, <1>1
     DEF CallsConsistent, FamiliesFresh, Awaits, Generated
<1>3. \E u : Inserted(sessions', sessions, t, f, u)
  BY CreateEffect
<1>4. /\ LedgerStatus' = [LedgerStatus EXCEPT ![t] = "live"]
      /\ LedgerFamily' = [LedgerFamily EXCEPT ![t] = f]
  BY <1>1, <1>3, InsertedIssues, LedgerValues
<1> HIDE DEF t, f
<1>5. LedgerStatus[t] = "unissued"
  BY <1>1 DEF LedgerStatus
<1>6. f \in SuppliedFamilies \/ Ledger!Members(f) = {}
  BY <1>1, <1>2, NullAssumption
     DEF Ledger!Members, LedgerFamily, FamilyRows
<1>7. Ledger!Issue(t, f)
  BY <1>4, <1>5, <1>6 DEF Ledger!Issue, Ledger!Is
<1>8. QED
  BY <1>7 DEF t, f

\* A rotation that wins exchanges its token.
LEMMA WinsRotates ==
    ASSUME TypeOK, CallsConsistent, NEW c \in Callers, RotateWins(c)
    PROVE  /\ Ledger!Rotate(call[c].old, call[c].next)
           /\ call[c].old \in Tokens
           /\ call[c].next \in Tokens
<1> DEFINE old == call[c].old
           next == call[c].next
<1>1. /\ next \in Tokens \ DOMAIN sessions
      /\ old \in DOMAIN sessions \cap Tokens
      /\ ~IsRevoked(sessions[old])
      /\ Replaced(sessions', sessions, old, next)
  BY WinsEffect DEF CallsConsistent, DrawsFresh, Rotation, TypeOK, TypedRows
<1> HIDE DEF old, next
<1>2. /\ LedgerStatus' = [LedgerStatus EXCEPT ![old] = "spent",
                                              ![next] = "live"]
      /\ LedgerFamily' = [LedgerFamily EXCEPT ![next] = LedgerFamily[old]]
  BY <1>1, ReplacedRotates, LedgerValues
<1>3. /\ LedgerStatus[old] = "live"
      /\ LedgerStatus[next] = "unissued"
  BY <1>1 DEF LedgerStatus
<1>4. Ledger!Rotate(old, next)
  BY <1>2, <1>3 DEF Ledger!Rotate, Ledger!Is
<1>5. QED
  BY <1>1, <1>4 DEF old, next

\* A benign race joins the family of a spent token, whose replacement is live.
LEMMA BenignJoins ==
    ASSUME TypeOK, CallsConsistent, SessionLineage,
           NEW c \in Callers, RotateBenign(c)
    PROVE  /\ Ledger!Join(call[c].old, call[c].next)
           /\ call[c].old \in Tokens
           /\ call[c].next \in Tokens
<1> DEFINE old == call[c].old
           next == call[c].next
           live == sessions[old].replacedById
<1>1. /\ next \in Tokens \ DOMAIN sessions
      /\ old \in DOMAIN sessions \cap Tokens
      /\ Inserted(sessions', sessions, next, sessions[old].familyId,
                  sessions[old].userId)
  BY BenignEffect
     DEF CallsConsistent, DrawsFresh, Rotation, TypeOK, TypedRows
<1>2. IsRevoked(sessions[old])
  BY DEF RotateBenign
<1>3. /\ live \in DOMAIN sessions
      /\ ~IsRevoked(sessions[live])
  BY BenignEffect DEF IsBenign, ReplacementActive
<1>4. /\ live \in Tokens
      /\ sessions[live].familyId = sessions[old].familyId
  BY <1>1, <1>3, NullAssumption
     DEF SessionLineage, ReplacementsChain, TypeOK, TypedRows
<1> HIDE DEF old, next, live
<1>5. LedgerFamily[old] = sessions[old].familyId
  BY <1>1 DEF LedgerFamily
<1>6. /\ LedgerStatus' = [LedgerStatus EXCEPT ![next] = "live"]
      /\ LedgerFamily' = [LedgerFamily EXCEPT ![next] = LedgerFamily[old]]
  BY <1>1, <1>5, InsertedIssues, LedgerValues
<1>7. /\ LedgerStatus[old] = "spent"
      /\ LedgerStatus[next] = "unissued"
      /\ LedgerStatus[live] = "live"
      /\ LedgerFamily[live] = LedgerFamily[old]
  BY <1>1, <1>2, <1>3, <1>4 DEF LedgerStatus, LedgerFamily
<1>8. Ledger!HasLive(LedgerFamily[old])
  BY <1>4, <1>7 DEF Ledger!HasLive, Ledger!Members, Ledger!Is
<1>9. Ledger!Join(old, next)
  BY <1>6, <1>7, <1>8 DEF Ledger!Join, Ledger!Is
<1>10. QED
  BY <1>1, <1>9 DEF old, next

\* A kill that takes all live tokens of each login it touches closes them.
LEMMA KilledCloses ==
    ASSUME TypeOK, NEW T, Killed(sessions', sessions, T),
           \A t, x \in DOMAIN sessions :
                /\ t \in T
                /\ sessions[x].familyId = sessions[t].familyId
                /\ sessions[x].familyId \in Generated
                => x \in T
    PROVE  \E L \in SUBSET Tokens : Ledger!Close(L)
<1> DEFINE L == {x \in Tokens \cap T : LedgerStatus[x] = "live"}
<1>1. /\ LedgerStatus' = [t \in Tokens |-> IF t \in L THEN "spent"
                                           ELSE LedgerStatus[t]]
      /\ LedgerFamily' = LedgerFamily
  BY KilledSpends, LedgerValues
<1>2. \A t \in L : LedgerStatus[t] = "live"
  OBVIOUS
<1>3. ASSUME NEW t \in L, NEW x \in Tokens, LedgerStatus[x] = "live",
             LedgerFamily[x] = LedgerFamily[t],
             LedgerFamily[x] \notin SuppliedFamilies
      PROVE  x \in L
  <2>1. t \in DOMAIN sessions /\ x \in DOMAIN sessions /\ t \in T
    BY <1>3 DEF LedgerStatus
  <2>2. /\ sessions[x].familyId = sessions[t].familyId
        /\ sessions[x].familyId \in Generated
    BY <1>3, <2>1 DEF LedgerFamily, Generated, TypeOK, TypedRows, Row
  <2>3. QED
    BY <1>3, <2>1, <2>2
<1> HIDE DEF L
<1>4. Ledger!Close(L)
  BY <1>1, <1>2, <1>3 DEF Ledger!Close, Ledger!Is
<1>5. L \subseteq Tokens
  BY DEF L
<1>6. QED
  BY <1>4, <1>5

\* A family's kill closes that login; a user's, the logins of that user, for
\* a login the library named has one user.
LEMMA KillsClose ==
    ASSUME TypeOK, SessionLineage, NEW c \in Callers,
           RotateReuse(c) \/ StoreKillFamily(c) \/ StoreKillUser(c)
    PROVE  \E L \in SUBSET Tokens : Ledger!Close(L)
<1>1. CASE RotateReuse(c)
  <2>1. PICK f : Killed(sessions', sessions, FamilyRows(sessions, f))
    BY <1>1, ReuseEffect
  <2>2. QED
    BY <2>1, KilledCloses DEF FamilyRows
<1>2. CASE StoreKillFamily(c)
  <2>1. PICK f : Killed(sessions', sessions, FamilyRows(sessions, f))
    BY <1>2, KillFamilyEffect
  <2>2. QED
    BY <2>1, KilledCloses DEF FamilyRows
<1>3. CASE StoreKillUser(c)
  <2>1. PICK u : Killed(sessions', sessions, UserRows(sessions, u))
    BY <1>3, KillUserEffect
  <2>2. QED
    BY <2>1, KilledCloses DEF UserRows, SessionLineage, OneUserPerLogin
<1>4. QED
  BY <1>1, <1>2, <1>3

(***************************************************************************)
(* The refinement.                                                         *)
(***************************************************************************)

\* No rows, an empty ledger.
LEMMA InitLedger == Init => Ledger!Init
  BY DEF Init, Ledger!Init, LedgerStatus, LedgerFamily

\* Where the rows stay, so does the ledger.
LEMMA LedgerStutters ==
    ASSUME UNCHANGED sessions
    PROVE  UNCHANGED Ledger!vars
  BY LedgerValues DEF Ledger!vars

\* Every transaction of the store is one step of the ledger, or none.
LEMMA StoreLedger ==
    ASSUME IInv, NEW c \in Callers, Store(c)
    PROVE  [Ledger!Next]_(Ledger!vars)
<1> USE DEF IInv
<1>1. CASE StoreCreate(c)
  <2>1. call[c].next \in Tokens /\ call[c].family \in Families
    BY <1>1, CreateEffect DEF Login
  <2>2. QED
    BY <1>1, <2>1, CreateIssues DEF Ledger!Next
<1>2. CASE RotateNotFound(c) \/ RotateExpired(c)
  BY <1>2, LedgerStutters DEF RotateNotFound, RotateExpired
<1>3. CASE RotateWins(c)
  BY <1>3, WinsRotates DEF Ledger!Next
<1>4. CASE RotateBenign(c)
  BY <1>4, BenignJoins DEF Ledger!Next
<1>5. CASE RotateReuse(c) \/ StoreKillFamily(c) \/ StoreKillUser(c)
  BY <1>5, KillsClose DEF Ledger!Next
<1>6. CASE LogoutFinds(c) \/ LogoutFindsNothing(c)
  BY <1>6, LedgerStutters DEF LogoutFinds, LogoutFindsNothing
<1>7. QED
  BY <1>1, <1>2, <1>3, <1>4, <1>5, <1>6 DEF Store, StoreRotate

\* So is every step of the handlers, their clients and the clock.
LEMMA StepLedger ==
    ASSUME IInv, [Next]_vars
    PROVE  [Ledger!Next]_(Ledger!vars)
<1>1. ASSUME NEW c \in Callers, Begin(c) \/ Deliver(c) \/ Crash(c)
      PROVE  UNCHANGED sessions
  BY <1>1, BeginSteps, EndSteps DEF IInv
<1>2. Tick \/ UNCHANGED vars => UNCHANGED sessions
  BY DEF Tick, vars
<1>3. QED
  BY <1>1, <1>2, StoreLedger, LedgerStutters DEF Next

\* Refresh sessions implement the ledger: whatever the handlers, their
\* clients, the store and the clock do, the rows change only as tokens that
\* are issued, exchanged once, joined while their login lives, or closed with
\* the whole of their login.
THEOREM SessionsImplementLedger == Spec => ImplementsLedger
<1>1. Init => Ledger!Init
  BY InitLedger
<1>2. IInv /\ [Next]_vars => [Ledger!Next]_(Ledger!vars)
  BY StepLedger
<1>3. QED
  BY <1>1, <1>2, Inductive, PTL DEF Spec, ImplementsLedger, Ledger!Spec

(***************************************************************************)
(* AccessEpoch: the epochs, and the access tokens they revoke.             *)
(***************************************************************************)

\* A step of the requests is a step of the sessions, or none of theirs.
LEMMA SessionStep == [EpochNext]_allVars => [Next]_vars
  BY DEF EpochNext, Request, StoreActs, Mint, Bump, Finish, Lose, Pass, Next,
         allVars, vars

\* So all that was shown of the sessions holds here.
LEMMA SessionsInside == EpochSpec => Spec
<1>1. EpochInit => Init
  BY DEF EpochInit
<1>2. QED
  BY <1>1, SessionStep, PTL DEF EpochSpec, Spec

\* What a request in each state carries.
LEMMA TodoFields ==
    ASSUME NEW s \in Todo
    PROVE  /\ s.do \in {"nothing", "mint", "bump", "bumped"}
           /\ s.do = "nothing" <=> s = Nothing
           /\ s.do = "mint" =>
                /\ s.user \in Users
                /\ s.family \in Families
                /\ s.seen \in Nat
           /\ s.do \in {"bump", "bumped"} =>
                /\ s.user \in Users
                /\ s.families \subseteq Families
  BY DEF Todo, Nothing

-----------------------------------------------------------------------------
(* What is left to do once the store has acted.                            *)

\* Only the sweep of a user answers so.
LEMMA SweepOnly ==
    ASSUME IInv, NEW c \in Callers, Store(c),
           call'[c].op = "reply", call'[c].outcome = "loggedOutEverywhere"
    PROVE  StoreKillUser(c)
<1> USE DEF IInv
<1>1. CASE StoreCreate(c)
  BY <1>1, CreateEffect DEF Answered
<1>2. CASE RotateNotFound(c) \/ RotateExpired(c)
  BY <1>2, InvalidEffect DEF Answered
<1>3. CASE RotateWins(c)
  BY <1>3, WinsEffect DEF Answered, CallsConsistent
<1>4. CASE RotateBenign(c)
  BY <1>4, BenignEffect DEF Answered
<1>5. CASE RotateReuse(c)
  BY <1>5, ReuseEffect DEF Answered
<1>6. CASE LogoutFinds(c)
  BY <1>6, FindsEffect
<1>7. CASE LogoutFindsNothing(c)
  BY <1>7, FindsNothingEffect DEF Answered
<1>8. CASE StoreKillFamily(c)
  BY <1>8, KillFamilyEffect DEF Answered
<1>9. QED
  BY <1>1, <1>2, <1>3, <1>4, <1>5, <1>6, <1>7, <1>8 DEF Store, StoreRotate

\* A token in an answer is that of a live row.
LEMMA AnsweredTokenLives ==
    ASSUME IInv, NEW c \in Callers, Store(c),
           call'[c].op = "reply", call'[c].next # Null
    PROVE  /\ call'[c].next \in DOMAIN sessions'
           /\ sessions'[call'[c].next] \in Row
           /\ ~IsRevoked(sessions'[call'[c].next])
<1> USE DEF IInv
<1>1. CASE StoreCreate(c)
  BY <1>1, CreateEffect DEF Answered, Inserted, TypedRows
<1>2. CASE RotateNotFound(c) \/ RotateExpired(c)
  BY <1>2, InvalidEffect DEF Answered
<1>3. CASE RotateWins(c)
  BY <1>3, WinsEffect DEF Answered, CallsConsistent, Replaced, TypedRows
<1>4. CASE RotateBenign(c)
  BY <1>4, BenignEffect DEF Answered, Inserted, TypedRows
<1>5. CASE RotateReuse(c)
  BY <1>5, ReuseEffect DEF Answered
<1>6. CASE LogoutFinds(c)
  BY <1>6, FindsEffect
<1>7. CASE LogoutFindsNothing(c)
  BY <1>7, FindsNothingEffect DEF Answered
<1>8. CASE StoreKillFamily(c)
  BY <1>8, KillFamilyEffect DEF Answered
<1>9. CASE StoreKillUser(c)
  BY <1>9, KillUserEffect DEF Answered
<1>10. QED
  BY <1>1, <1>2, <1>3, <1>4, <1>5, <1>6, <1>7, <1>8, <1>9
     DEF Store, StoreRotate

\* A sweep leaves the logins of the user dead that the library named: they are
\* of one user.
LEMMA SweptDie ==
    ASSUME IInv, NEW c \in Callers, StoreKillUser(c),
           NEW f \in UserFamilies(call[c].user) \cap Generated
    PROVE  DeadIn(sessions', f)
<1> USE DEF IInv
<1>1. Killed(sessions', sessions, UserRows(sessions, call[c].user))
  BY KillUserEffect
<1>2. PICK t \in DOMAIN sessions : /\ sessions[t].userId = call[c].user
                                   /\ sessions[t].familyId = f
  BY DEF UserFamilies, UserRows
<1>3. \A x \in DOMAIN sessions :
        sessions[x].familyId = f => sessions[x].userId = call[c].user
  BY <1>2 DEF SessionLineage, OneUserPerLogin
<1>4. \A x \in DOMAIN sessions' :
        sessions'[x].familyId = f => IsRevoked(sessions'[x])
  BY <1>1, <1>3 DEF Killed, UserRows
<1>5. t \in DOMAIN sessions' /\ sessions'[t].familyId = f
  BY <1>1, <1>2 DEF Killed
<1>6. QED
  BY <1>4, <1>5 DEF DeadIn, FamilyRows, LiveRows

\* The three ways to go on: nothing, a token to sign for a live login, a bump
\* for logins that died.
LEMMA AfterStoreIs ==
    ASSUME IInv, EpochTypeOK, NEW c \in Callers, Store(c)
    PROVE  \/ AfterStore(c) = Nothing
           \/ /\ AfterStore(c) \in Todo
              /\ AfterStore(c).do = "mint"
              /\ AfterStore(c).seen = bumps[AfterStore(c).user]
              /\ ~DeadIn(sessions', AfterStore(c).family)
              /\ call'[c].op = "reply"
           \/ /\ AfterStore(c) \in Todo
              /\ AfterStore(c).do = "bump"
              /\ \A f \in AfterStore(c).families \cap Generated : DeadIn(sessions', f)
              /\ call'[c].op = "reply"
<1>1. CASE call'[c].op # "reply"
  BY <1>1 DEF AfterStore
<1>2. CASE call'[c].op = "reply" /\ call'[c].next # Null
  <2> DEFINE row == sessions'[call'[c].next]
  <2>1. /\ call'[c].next \in DOMAIN sessions'
        /\ row \in Row
        /\ ~IsRevoked(row)
    BY <1>2, AnsweredTokenLives
  <2>2. AfterStore(c) = [do |-> "mint", user |-> row.userId,
                         family |-> row.familyId, seen |-> bumps[row.userId]]
    BY <1>2 DEF AfterStore
  <2>3. row.userId \in Users /\ row.familyId \in Families
    BY <2>1 DEF Row
  <2>4. bumps[row.userId] \in Nat
    BY <2>3 DEF EpochTypeOK
  <2>5. ~DeadIn(sessions', row.familyId)
    BY <2>1 DEF DeadIn, LiveRows, FamilyRows
  <2> HIDE DEF row
  <2>6. AfterStore(c) \in Todo
    BY <2>2, <2>3, <2>4 DEF Todo
  <2>7. QED
    BY <1>2, <2>2, <2>5, <2>6
<1>3. CASE /\ call'[c].op = "reply" /\ call'[c].next = Null
           /\ call'[c].outcome = "loggedOutEverywhere"
  <2>1. StoreKillUser(c)
    BY <1>3, SweepOnly
  <2>2. call[c].user \in Users
    BY <2>1, KillUserEffect DEF IInv, UserKill
  <2>3. AfterStore(c) = [do |-> "bump", user |-> call[c].user,
                         families |-> UserFamilies(call[c].user)]
    BY <1>3 DEF AfterStore
  <2>4. UserFamilies(call[c].user) \subseteq Families
    BY DEF IInv, TypeOK, TypedRows, Row, UserFamilies, UserRows
  <2>5. AfterStore(c) \in Todo
    BY <2>2, <2>3, <2>4 DEF Todo
  <2>6. \A f \in UserFamilies(call[c].user) \cap Generated : DeadIn(sessions', f)
    BY <2>1, SweptDie
  <2>7. QED
    BY <1>3, <2>3, <2>5, <2>6
<1>4. CASE /\ call'[c].op = "reply" /\ call'[c].next = Null
           /\ call'[c].outcome # "loggedOutEverywhere"
  BY <1>4 DEF AfterStore
<1>5. QED
  BY <1>1, <1>2, <1>3, <1>4

-----------------------------------------------------------------------------
(* Types.                                                                  *)

LEMMA InitEpochTypeOK == EpochInit => EpochTypeOK
  BY DEF EpochInit, EpochTypeOK, Instants, Todo, Nothing

\* Only a handler that awaits the store is served, and only one that is idle
\* begins: neither has anything left to do.
LEMMA NothingLeft ==
    ASSUME IInv, EpochTypeOK, NEW c \in Callers, Begin(c) \/ Store(c)
    PROVE  todo[c] = Nothing
  BY DEF EpochTypeOK, Begin, BeginLogin, BeginRotate, BeginLogout,
         BeginUserKill, Store, StoreCreate, StoreRotate, RotateNotFound,
         RotateExpired, RotateWins, RotateBenign, RotateReuse, LogoutFinds,
         LogoutFindsNothing, StoreKillFamily, StoreKillUser, Awaits, Idle

LEMMA NextEpochLater ==
    ASSUME NEW stored \in Nat, NEW now \in Nat
    PROVE  NextEpoch(stored, now) \in Nat /\ NextEpoch(stored, now) > stored
  BY DEF NextEpoch

LEMMA NextEpochTypeOK ==
    ASSUME IInv, EpochTypeOK, [EpochNext]_allVars
    PROVE  EpochTypeOK'
<1>1. ASSUME NEW c \in Callers, Request(c)
      PROVE  EpochTypeOK'
  <2>1. todo[c] = Nothing /\ UNCHANGED epochVars
    BY <1>1, NothingLeft DEF Request
  <2>2. \A d \in Callers \ {c} : call'[d] = call[d]
    BY <1>1, BeginSteps DEF Request, IInv
  <2>3. QED
    BY <2>1, <2>2 DEF EpochTypeOK, epochVars, Awaits
<1>2. ASSUME NEW c \in Callers, StoreActs(c)
      PROVE  EpochTypeOK'
  <2>1. /\ AfterStore(c) \in Todo
        /\ AfterStore(c) # Nothing => call'[c].op = "reply"
    BY <1>2, AfterStoreIs DEF StoreActs, Todo
  <2>2. \A d \in Callers \ {c} : call'[d] = call[d]
    BY <1>2, StoreSteps DEF StoreActs, StoreShape, IInv, CallsConsistent
  <2>3. /\ UNCHANGED <<epochs, minted, bumps, closed>>
        /\ todo' = [todo EXCEPT ![c] = AfterStore(c)]
    BY <1>2 DEF StoreActs
  <2>4. QED
    BY <2>1, <2>2, <2>3 DEF EpochTypeOK, Awaits
<1>3. ASSUME NEW c \in Callers, Mint(c)
      PROVE  EpochTypeOK'
  <2> DEFINE u == todo[c].user
             m == [user |-> u, family |-> todo[c].family, epoch |-> epochs[u],
                   seen |-> todo[c].seen, bumps |-> bumps[u]]
  <2>1. u \in Users /\ todo[c].family \in Families /\ todo[c].seen \in Nat
    BY <1>3, TodoFields DEF Mint, EpochTypeOK
  <2>2. m \in AccessToken
    BY <2>1 DEF AccessToken, EpochTypeOK
  <2>3. /\ minted' = minted \cup {m}
        /\ todo' = [todo EXCEPT ![c] = Nothing]
        /\ UNCHANGED <<vars, epochs, bumps, closed>>
    BY <1>3 DEF Mint
  <2>4. Nothing \in Todo
    BY DEF Todo
  <2> HIDE DEF m, u
  <2>5. QED
    BY <2>2, <2>3, <2>4 DEF EpochTypeOK, vars, Awaits
<1>4. ASSUME NEW c \in Callers, Bump(c)
      PROVE  EpochTypeOK'
  <2>1. PICK now \in BumpClocks :
            epochs' = [epochs EXCEPT
                ![todo[c].user] = NextEpoch(epochs[todo[c].user], now)]
    BY <1>4 DEF Bump
  <2>2. todo[c].user \in Users /\ todo[c] \in Todo /\ todo[c].do = "bump"
    BY <1>4, TodoFields DEF Bump, EpochTypeOK
  <2>3. epochs' \in [Users -> Instants]
    BY <2>1, <2>2, NextEpochLater, BumpsAssumption DEF EpochTypeOK, Instants
  <2>4. [todo[c] EXCEPT !.do = "bumped"] \in Todo
    BY <2>2 DEF Todo, Nothing
  <2>5. /\ bumps' = [bumps EXCEPT ![todo[c].user] = @ + 1]
        /\ todo' = [todo EXCEPT ![c] = [todo[c] EXCEPT !.do = "bumped"]]
        /\ UNCHANGED <<vars, minted, closed>>
    BY <1>4 DEF Bump, EpochTypeOK
  <2>6. bumps' \in [Users -> Nat]
    BY <2>2, <2>5 DEF EpochTypeOK
  <2>7. todo[c] # Nothing
    BY <2>2, TodoFields
  <2>8. \A u \in Users : epochs'[u] >= bumps'[u]
    <3>1. ASSUME NEW u \in Users, u # todo[c].user
          PROVE  epochs'[u] >= bumps'[u]
      BY <2>1, <2>5, <3>1 DEF EpochTypeOK
    <3>2. LET u == todo[c].user
          IN  epochs'[u] > epochs[u] /\ bumps'[u] = bumps[u] + 1
      BY <2>1, <2>2, <2>5, NextEpochLater, BumpsAssumption
         DEF EpochTypeOK, Instants
    <3>3. epochs'[todo[c].user] >= bumps'[todo[c].user]
      BY <2>2, <2>3, <2>6, <3>2 DEF EpochTypeOK, Instants
    <3>4. QED
      BY <3>1, <3>3
  <2>9. QED
    BY <2>3, <2>4, <2>5, <2>6, <2>7, <2>8 DEF EpochTypeOK, vars, Awaits
<1>5. ASSUME NEW c \in Callers, Finish(c) \/ Lose(c)
      PROVE  EpochTypeOK'
  <2>1. \A d \in Callers \ {c} : call'[d] = call[d]
    BY <1>5, EndSteps DEF Finish, Lose, IInv
  <2>2. closed' \in [Users -> SUBSET Families]
    <3>1. CASE Finish(c) /\ todo[c].do = "bumped"
      <4>1. todo[c].user \in Users /\ todo[c].families \subseteq Families
        BY <3>1, TodoFields DEF EpochTypeOK
      <4>2. closed' = [closed EXCEPT ![todo[c].user] = @ \cup todo[c].families]
        BY <3>1 DEF Finish
      <4>3. QED
        BY <4>1, <4>2 DEF EpochTypeOK
    <3>2. CASE ~(Finish(c) /\ todo[c].do = "bumped")
      BY <1>5, <3>2 DEF Finish, Lose, EpochTypeOK
    <3>3. QED
      BY <3>1, <3>2
  <2>3. Nothing \in Todo
    BY DEF Todo
  <2>4. /\ todo' = [todo EXCEPT ![c] = Nothing]
        /\ UNCHANGED <<epochs, minted, bumps>>
    BY <1>5 DEF Finish, Lose
  <2>5. QED
    BY <2>1, <2>2, <2>3, <2>4 DEF EpochTypeOK, Awaits
<1>6. CASE Pass \/ UNCHANGED allVars
  BY <1>6 DEF Pass, Tick, epochVars, allVars, EpochTypeOK, Awaits
<1>7. QED
  BY <1>1, <1>2, <1>3, <1>4, <1>5, <1>6 DEF EpochNext

\* The sessions' invariant and the types of the rest, together.
LEMMA EpochInductive == EpochSpec => [](IInv /\ EpochTypeOK)
<1>1. EpochSpec => []IInv
  BY SessionsInside, Inductive
<1>2. IInv /\ EpochTypeOK /\ [EpochNext]_allVars => EpochTypeOK'
  BY NextEpochTypeOK
<1>3. QED
  BY <1>1, <1>2, InitEpochTypeOK, PTL DEF EpochSpec

\* The epochs are instants that every bump has moved, access tokens carry one,
\* and a request that has a second call to make has an answer waiting.
THEOREM EpochTypeCorrect == EpochSpec => []EpochTypeOK
  BY EpochInductive, PTL

-----------------------------------------------------------------------------
(* An access token is valid until the next bump.                           *)

\* Epochs and counts of bumps move together; a session is stored before its
\* epoch is read.
BumpsCount ==
    /\ \A c \in Callers :
        todo[c].do = "mint" => todo[c].seen <= bumps[todo[c].user]
    /\ \A m \in minted :
        /\ m.seen <= m.bumps
        /\ m.bumps <= bumps[m.user]
        /\ m.bumps = bumps[m.user] => m.epoch = epochs[m.user]
        /\ m.bumps < bumps[m.user] => m.epoch < epochs[m.user]

LEMMA TokenFields ==
    ASSUME NEW m \in AccessToken
    PROVE  /\ m.user \in Users
           /\ m.family \in Families
           /\ m.epoch \in Nat
           /\ m.seen \in Nat
           /\ m.bumps \in Nat
  BY DEF AccessToken, Instants

\* What a bump does to its user's epoch and to every other.
LEMMA BumpEffect ==
    ASSUME EpochTypeOK, NEW c \in Callers, Bump(c)
    PROVE  LET u == todo[c].user
           IN  /\ u \in Users
               /\ epochs'[u] > epochs[u]
               /\ bumps'[u] = bumps[u] + 1
               /\ \A v \in Users \ {u} :
                    epochs'[v] = epochs[v] /\ bumps'[v] = bumps[v]
<1> DEFINE u == todo[c].user
<1>1. PICK now \in BumpClocks :
        epochs' = [epochs EXCEPT ![u] = NextEpoch(epochs[u], now)]
  BY DEF Bump
<1>2. u \in Users
  BY TodoFields DEF Bump, EpochTypeOK
<1>3. now \in Nat /\ epochs[u] \in Nat
  BY <1>2, BumpsAssumption DEF EpochTypeOK, Instants
<1>4. NextEpoch(epochs[u], now) > epochs[u]
  BY <1>3, NextEpochLater
<1>5. bumps' = [bumps EXCEPT ![u] = @ + 1]
  BY DEF Bump
<1> HIDE DEF u
<1>6. /\ epochs'[u] > epochs[u]
      /\ bumps'[u] = bumps[u] + 1
      /\ \A v \in Users \ {u} : epochs'[v] = epochs[v] /\ bumps'[v] = bumps[v]
  BY <1>1, <1>2, <1>4, <1>5 DEF EpochTypeOK
<1>7. QED
  BY <1>2, <1>6 DEF u

LEMMA NextBumpsCount ==
    ASSUME IInv, EpochTypeOK, BumpsCount, [EpochNext]_allVars
    PROVE  BumpsCount'
<1> USE DEF BumpsCount
<1>1. ASSUME NEW c \in Callers, Request(c)
      PROVE  BumpsCount'
  BY <1>1 DEF Request, epochVars
<1>2. ASSUME NEW c \in Callers, StoreActs(c)
      PROVE  BumpsCount'
  <2>1. \/ AfterStore(c).do # "mint"
        \/ AfterStore(c).seen = bumps[AfterStore(c).user]
    BY <1>2, AfterStoreIs DEF StoreActs, Nothing
  <2>2. AfterStore(c).do = "mint" => AfterStore(c).user \in Users
    BY <1>2, AfterStoreIs, TodoFields DEF StoreActs, Nothing
  <2>3. /\ UNCHANGED <<epochs, minted, bumps, closed>>
        /\ todo' = [todo EXCEPT ![c] = AfterStore(c)]
    BY <1>2 DEF StoreActs
  <2>4. QED
    BY <2>1, <2>2, <2>3 DEF EpochTypeOK
<1>3. ASSUME NEW c \in Callers, Mint(c)
      PROVE  BumpsCount'
  <2> DEFINE u == todo[c].user
             m == [user |-> u, family |-> todo[c].family, epoch |-> epochs[u],
                   seen |-> todo[c].seen, bumps |-> bumps[u]]
  <2>1. todo[c].seen <= bumps[u] /\ u \in Users /\ bumps[u] \in Nat
    BY <1>3, TodoFields DEF Mint, EpochTypeOK
  <2>2. /\ m.user = u /\ m.seen = todo[c].seen
        /\ m.bumps = bumps[u] /\ m.epoch = epochs[u]
    OBVIOUS
  <2>3. /\ minted' = minted \cup {m}
        /\ todo' = [todo EXCEPT ![c] = Nothing]
        /\ UNCHANGED <<epochs, bumps>>
    BY <1>3 DEF Mint
  <2> HIDE DEF m, u
  <2>4. QED
    BY <2>1, <2>2, <2>3 DEF EpochTypeOK, Nothing
<1>4. ASSUME NEW c \in Callers, Bump(c)
      PROVE  BumpsCount'
  <2> DEFINE u == todo[c].user
  <2>1. /\ u \in Users
        /\ epochs'[u] > epochs[u]
        /\ bumps'[u] = bumps[u] + 1
        /\ \A v \in Users \ {u} : epochs'[v] = epochs[v] /\ bumps'[v] = bumps[v]
    BY <1>4, BumpEffect
  <2>2. minted' = minted /\ todo' = [todo EXCEPT ![c].do = "bumped"]
    BY <1>4 DEF Bump
  <2> HIDE DEF u
  <2>3. ASSUME NEW d \in Callers, todo'[d].do = "mint"
        PROVE  todo'[d].seen <= bumps'[todo'[d].user]
    <3>1. d # c
      BY <2>2, <2>3, <1>4, TodoFields DEF Bump, EpochTypeOK
    <3>2. todo'[d] = todo[d]
      BY <2>2, <3>1 DEF EpochTypeOK
    <3>3. todo[d].user \in Users /\ todo[d].seen \in Nat
      BY <2>3, <3>2, TodoFields DEF EpochTypeOK
    <3>4. todo[d].seen <= bumps[todo[d].user] /\ bumps[todo[d].user] \in Nat
      BY <2>3, <3>2, <3>3 DEF EpochTypeOK
    <3>5. QED
      BY <2>1, <3>2, <3>3, <3>4
  <2>4. ASSUME NEW m \in minted
        PROVE  /\ m.seen <= m.bumps
               /\ m.bumps <= bumps'[m.user]
               /\ m.bumps = bumps'[m.user] => m.epoch = epochs'[m.user]
               /\ m.bumps < bumps'[m.user] => m.epoch < epochs'[m.user]
    <3>1. m.user \in Users /\ m.epoch \in Nat /\ m.bumps \in Nat
      BY TokenFields DEF EpochTypeOK
    <3>2. /\ bumps[m.user] \in Nat /\ epochs[m.user] \in Nat
          /\ bumps'[m.user] \in Nat /\ epochs'[m.user] \in Nat
      BY <1>4, <3>1, NextEpochTypeOK DEF EpochTypeOK, EpochNext, Instants
    <3>3. /\ m.seen <= m.bumps
          /\ m.bumps <= bumps[m.user]
          /\ m.bumps = bumps[m.user] => m.epoch = epochs[m.user]
          /\ m.bumps < bumps[m.user] => m.epoch < epochs[m.user]
      OBVIOUS
    <3>4. QED
      BY <2>1, <3>1, <3>2, <3>3
  <2>5. QED
    BY <2>2, <2>3, <2>4
<1>5. ASSUME NEW c \in Callers, Finish(c) \/ Lose(c)
      PROVE  BumpsCount'
  <2>1. /\ todo' = [todo EXCEPT ![c] = Nothing]
        /\ UNCHANGED <<epochs, minted, bumps>>
    BY <1>5 DEF Finish, Lose
  <2>2. QED
    BY <2>1 DEF EpochTypeOK, Nothing
<1>6. CASE Pass \/ UNCHANGED allVars
  BY <1>6 DEF Pass, epochVars, allVars
<1>7. QED
  BY <1>1, <1>2, <1>3, <1>4, <1>5, <1>6 DEF EpochNext

LEMMA BumpsCountHolds == EpochSpec => [](IInv /\ EpochTypeOK /\ BumpsCount)
<1>1. EpochInit => BumpsCount
  BY DEF EpochInit, BumpsCount, Nothing
<1>2. IInv /\ EpochTypeOK /\ BumpsCount /\ [EpochNext]_allVars => BumpsCount'
  BY NextBumpsCount
<1>3. QED
  BY <1>1, <1>2, EpochInductive, PTL DEF EpochSpec

\* Whatever the machines' clocks say, a bump ends every access token signed
\* before it and none signed after.
THEOREM ValidToTheBump == EpochSpec => []ValidUntilTheNextBump
<1>1. EpochTypeOK /\ BumpsCount => ValidUntilTheNextBump
  <2> SUFFICES ASSUME EpochTypeOK, BumpsCount, NEW m \in minted
               PROVE  IsValid(m) <=> m.bumps = bumps[m.user]
    BY DEF ValidUntilTheNextBump
  <2>1. m.user \in Users /\ m.epoch \in Nat /\ m.bumps \in Nat
    BY TokenFields DEF EpochTypeOK
  <2>2. bumps[m.user] \in Nat /\ epochs[m.user] \in Nat
    BY <2>1 DEF EpochTypeOK, Instants
  <2>3. QED
    BY <2>1, <2>2 DEF BumpsCount, IsValid, IsEpochValid
<1>2. QED
  BY <1>1, BumpsCountHolds, PTL

-----------------------------------------------------------------------------
(* Logged out everywhere, but for what was in flight.                      *)

\* No token of this login can be valid, now or when a request in flight has
\* signed it, unless its session was stored before the last bump.
Settled(u, f) ==
    /\ \A c \in Callers :
        todo[c].do = "mint" /\ todo[c].user = u /\ todo[c].family = f
        => todo[c].seen < bumps[u]
    /\ \A m \in minted :
        m.user = u /\ m.family = f /\ IsValid(m) => m.seen < bumps[u]

\* The sweep came before the bump.
SweptAreDead ==
    \A c \in Callers :
        todo[c].do \in {"bump", "bumped"} =>
            \A f \in todo[c].families \cap Generated : DeadIn(sessions, f)

BumpedAreSettled ==
    \A c \in Callers :
        todo[c].do = "bumped" =>
            \A f \in todo[c].families \cap Generated :
                Settled(todo[c].user, f)

ClosedAreSettled ==
    \A u \in Users : \A f \in closed[u] \cap Generated :
        DeadIn(sessions, f) /\ Settled(u, f)

LEMMA StaysDead ==
    ASSUME IInv, [EpochNext]_allVars, NEW f \in Generated,
           DeadIn(sessions, f)
    PROVE  DeadIn(sessions', f)
<1>1. Dead(f)
  BY DEF Dead
<1>2. Dead(f)'
  BY <1>1, SessionStep, DeadStep
<1>3. QED
  BY <1>2 DEF Dead

\* What a bump leaves of its user's tokens was stored before it.
LEMMA BumpSettles ==
    ASSUME IInv, EpochTypeOK, BumpsCount, NEW c \in Callers, Bump(c), NEW f
    PROVE  Settled(todo[c].user, f)'
<1> DEFINE u == todo[c].user
<1>1. /\ u \in Users
      /\ bumps'[u] = bumps[u] + 1
      /\ bumps[u] \in Nat
  BY BumpEffect DEF EpochTypeOK
<1>2. minted' = minted /\ todo' = [todo EXCEPT ![c].do = "bumped"]
  BY DEF Bump
<1>3. ASSUME NEW d \in Callers, todo'[d].do = "mint", todo'[d].user = u
      PROVE  todo'[d].seen < bumps'[u]
  <2>1. d # c
    BY <1>2, <1>3, TodoFields DEF Bump, EpochTypeOK
  <2>2. todo'[d] = todo[d]
    BY <1>2, <2>1 DEF EpochTypeOK
  <2>3. todo[d].seen \in Nat /\ todo[d].seen <= bumps[u]
    BY <1>3, <2>2, TodoFields DEF EpochTypeOK, BumpsCount
  <2>4. QED
    BY <1>1, <2>2, <2>3
<1>4. ASSUME NEW m \in minted, m.user = u
      PROVE  m.seen < bumps'[u]
  BY <1>1, <1>4, TokenFields DEF EpochTypeOK, BumpsCount
<1>5. u' = todo'[c].user /\ todo'[c].user = u
  BY <1>2, TodoFields DEF EpochTypeOK, Bump
<1>6. QED
  BY <1>2, <1>3, <1>4, <1>5 DEF Settled


\* Nothing brings a valid token of a dead and settled login back.
LEMMA SettledStep ==
    ASSUME IInv, EpochTypeOK, BumpsCount, [EpochNext]_allVars,
           NEW u \in Users, NEW f \in Generated,
           DeadIn(sessions, f), Settled(u, f)
    PROVE  Settled(u, f)'
<1> USE DEF Settled
<1>1. ASSUME NEW c \in Callers, Request(c)
      PROVE  Settled(u, f)'
  BY <1>1 DEF Request, epochVars, IsValid
<1>2. ASSUME NEW c \in Callers, StoreActs(c)
      PROVE  Settled(u, f)'
  <2>1. DeadIn(sessions', f)
    BY <1>2, StaysDead DEF EpochNext
  <2>2. ~(AfterStore(c).do = "mint" /\ AfterStore(c).family = f)
    BY <1>2, <2>1, AfterStoreIs DEF StoreActs, Nothing
  <2>3. /\ UNCHANGED <<epochs, minted, bumps, closed>>
        /\ todo' = [todo EXCEPT ![c] = AfterStore(c)]
    BY <1>2 DEF StoreActs
  <2>4. QED
    BY <2>2, <2>3 DEF EpochTypeOK, IsValid
<1>3. ASSUME NEW c \in Callers, Mint(c)
      PROVE  Settled(u, f)'
  <2> DEFINE m == [user |-> todo[c].user, family |-> todo[c].family,
                   epoch |-> epochs[todo[c].user],
                   seen |-> todo[c].seen, bumps |-> bumps[todo[c].user]]
  <2>1. /\ minted' = minted \cup {m}
        /\ todo' = [todo EXCEPT ![c] = Nothing]
        /\ UNCHANGED <<epochs, bumps>>
    BY <1>3 DEF Mint
  <2>2. m.user = u /\ m.family = f => m.seen < bumps[u]
    BY <1>3 DEF Mint
  <2> HIDE DEF m
  <2>3. QED
    BY <2>1, <2>2 DEF EpochTypeOK, Nothing, IsValid
<1>4. ASSUME NEW c \in Callers, Bump(c), todo[c].user = u
      PROVE  Settled(u, f)'
  <2>1. Settled(todo[c].user, f)'
    BY <1>4, BumpSettles
  <2>2. todo'[c].user = u
    BY <1>4, TodoFields DEF EpochTypeOK, Bump
  <2>3. QED
    BY <2>1, <2>2
<1>5. ASSUME NEW c \in Callers, Bump(c), todo[c].user # u
      PROVE  Settled(u, f)'
  <2>1. bumps'[u] = bumps[u] /\ epochs'[u] = epochs[u]
    BY <1>5, BumpEffect
  <2>2. minted' = minted /\ todo' = [todo EXCEPT ![c].do = "bumped"]
    BY <1>5 DEF Bump
  <2>3. todo'[c].do # "mint"
    BY <1>5, <2>2, TodoFields DEF EpochTypeOK, Bump
  <2>4. \A d \in Callers \ {c} : todo'[d] = todo[d]
    BY <2>2 DEF EpochTypeOK
  <2>5. QED
    BY <2>1, <2>2, <2>3, <2>4 DEF IsValid
<1>6. ASSUME NEW c \in Callers, Finish(c) \/ Lose(c)
      PROVE  Settled(u, f)'
  <2>1. /\ todo' = [todo EXCEPT ![c] = Nothing]
        /\ UNCHANGED <<epochs, minted, bumps>>
    BY <1>6 DEF Finish, Lose
  <2>2. QED
    BY <2>1 DEF EpochTypeOK, Nothing, IsValid
<1>7. CASE Pass \/ UNCHANGED allVars
  BY <1>7 DEF Pass, epochVars, allVars, IsValid
<1>8. QED
  BY <1>1, <1>2, <1>3, <1>4, <1>5, <1>6, <1>7 DEF EpochNext

\* What a handler has to do of a bump is what it had, the sweep or the bump
\* apart.
LEMMA BumpedBefore ==
    ASSUME IInv, EpochTypeOK, [EpochNext]_allVars, NEW c \in Callers,
           todo'[c].do \in {"bump", "bumped"}
    PROVE  \/ todo'[c] = todo[c]
           \/ /\ todo'[c].do = "bump"
              /\ \A f \in todo'[c].families \cap Generated :
                    DeadIn(sessions', f)
           \/ /\ Bump(c)
              /\ todo[c].do = "bump"
              /\ todo'[c].families = todo[c].families
              /\ todo'[c].user = todo[c].user
<1>1. ASSUME NEW d \in Callers, Request(d)
      PROVE  todo'[c] = todo[c]
  BY <1>1 DEF Request, epochVars
<1>2. ASSUME NEW d \in Callers, StoreActs(d)
      PROVE  \/ todo'[c] = todo[c]
             \/ /\ todo'[c].do = "bump"
                /\ \A f \in todo'[c].families \cap Generated :
                      DeadIn(sessions', f)
  <2>1. CASE d = c
    <3>1. todo'[c] = AfterStore(c)
      BY <1>2, <2>1 DEF StoreActs, EpochTypeOK
    <3>2. QED
      BY <1>2, <2>1, <3>1, AfterStoreIs DEF StoreActs, Nothing
  <2>2. CASE d # c
    BY <1>2, <2>2 DEF StoreActs, EpochTypeOK
  <2>3. QED
    BY <2>1, <2>2
<1>3. ASSUME NEW d \in Callers, Mint(d) \/ Finish(d) \/ Lose(d)
      PROVE  todo'[c] = todo[c]
  BY <1>3 DEF Mint, Finish, Lose, EpochTypeOK, Nothing
<1>4. ASSUME NEW d \in Callers, Bump(d), d # c
      PROVE  todo'[c] = todo[c]
  BY <1>4 DEF Bump, EpochTypeOK
<1>5. ASSUME Bump(c)
      PROVE  /\ todo[c].do = "bump"
             /\ todo'[c].families = todo[c].families
             /\ todo'[c].user = todo[c].user
  BY <1>5, TodoFields DEF Bump, EpochTypeOK
<1>6. CASE Pass \/ UNCHANGED allVars
  BY <1>6 DEF Pass, epochVars, allVars
<1>7. QED
  BY <1>1, <1>2, <1>3, <1>4, <1>5, <1>6 DEF EpochNext

\* What a finished request closed was bumped before.
LEMMA ClosedBefore ==
    ASSUME EpochTypeOK, [EpochNext]_allVars,
           NEW u \in Users, NEW f \in closed'[u]
    PROVE  \/ f \in closed[u]
           \/ \E c \in Callers : /\ todo[c].do = "bumped"
                                 /\ todo[c].user = u
                                 /\ f \in todo[c].families
<1>1. ASSUME NEW c \in Callers,
             Request(c) \/ StoreActs(c) \/ Mint(c) \/ Bump(c) \/ Lose(c)
      PROVE  f \in closed[u]
  BY <1>1 DEF Request, epochVars, StoreActs, Mint, Bump, Lose
<1>2. ASSUME NEW c \in Callers, Finish(c), todo[c].do # "bumped"
      PROVE  f \in closed[u]
  BY <1>2 DEF Finish
<1>3. ASSUME NEW c \in Callers, Finish(c), todo[c].do = "bumped"
      PROVE  \/ f \in closed[u]
             \/ /\ todo[c].user = u
                /\ f \in todo[c].families
  <2> DEFINE v == todo[c].user
             swept == todo[c].families
  <2>1. closed' = [closed EXCEPT ![v] = closed[v] \cup swept]
    BY <1>3 DEF Finish
  <2> HIDE DEF v, swept
  <2>2. \/ closed'[u] = closed[u]
        \/ /\ u = v
           /\ closed'[u] = closed[u] \cup swept
    BY <2>1 DEF EpochTypeOK
  <2>3. QED
    BY <2>2 DEF v, swept
<1>4. CASE Pass \/ UNCHANGED allVars
  BY <1>4 DEF Pass, epochVars, allVars
<1>5. QED
  BY <1>1, <1>2, <1>3, <1>4 DEF EpochNext

EInv == SweptAreDead /\ BumpedAreSettled /\ ClosedAreSettled

LEMMA NextEInv ==
    ASSUME IInv, EpochTypeOK, BumpsCount, EInv, [EpochNext]_allVars
    PROVE  EInv'
<1> USE DEF EInv
<1>1. SweptAreDead'
  <2> SUFFICES ASSUME NEW c \in Callers, todo'[c].do \in {"bump", "bumped"},
                      NEW f \in todo'[c].families \cap Generated
               PROVE  DeadIn(sessions', f)
    BY DEF SweptAreDead
  <2>1. CASE todo'[c] = todo[c]
    BY <2>1, StaysDead DEF SweptAreDead
  <2>2. CASE /\ todo[c].do = "bump"
             /\ todo'[c].families = todo[c].families
    BY <2>2, StaysDead DEF SweptAreDead
  <2>3. QED
    BY <2>1, <2>2, BumpedBefore
<1>2. BumpedAreSettled'
  <2> SUFFICES ASSUME NEW c \in Callers, todo'[c].do = "bumped",
                      NEW f \in todo'[c].families \cap Generated
               PROVE  Settled(todo[c].user, f)'
    BY DEF BumpedAreSettled
  <2>1. CASE todo'[c] = todo[c]
    <3>1. todo[c].user \in Users
      BY <2>1, TodoFields DEF EpochTypeOK
    <3>2. DeadIn(sessions, f) /\ Settled(todo[c].user, f)
      BY <2>1 DEF SweptAreDead, BumpedAreSettled
    <3>3. QED
      BY <2>1, <3>1, <3>2, SettledStep DEF Settled
  <2>2. CASE Bump(c)
    BY <2>2, BumpSettles
  <2>3. QED
    BY <2>1, <2>2, BumpedBefore
<1>3. ClosedAreSettled'
  <2> SUFFICES ASSUME NEW u \in Users, NEW f \in closed'[u] \cap Generated
               PROVE  DeadIn(sessions', f) /\ Settled(u, f)'
    BY DEF ClosedAreSettled
  <2>1. DeadIn(sessions, f) /\ Settled(u, f)
    BY ClosedBefore DEF SweptAreDead, BumpedAreSettled, ClosedAreSettled
  <2>2. QED
    BY <2>1, StaysDead, SettledStep
<1>4. QED
  BY <1>1, <1>2, <1>3

\* An answered logout-everywhere holds of every token of the logins it swept,
\* but access tokens whose session was stored before the bump and whose epoch
\* was read after it.
THEOREM OnlyInFlight == EpochSpec => []OnlyInFlightSurvive
<1>1. EpochInit => EInv
  BY DEF EpochInit, EInv, SweptAreDead, BumpedAreSettled, ClosedAreSettled,
         Nothing
<1>2. IInv /\ EpochTypeOK /\ BumpsCount /\ EInv /\ [EpochNext]_allVars => EInv'
  BY NextEInv
<1>3. EInv => OnlyInFlightSurvive
  BY DEF EInv, ClosedAreSettled, Settled, OnlyInFlightSurvive, Dead
<1>4. QED
  BY <1>1, <1>2, <1>3, BumpsCountHolds, PTL DEF EpochSpec

=============================================================================
