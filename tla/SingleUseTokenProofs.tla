------------------------ MODULE SingleUseTokenProofs ------------------------
(***************************************************************************)
(* Proofs about SingleUseToken, and about ConsumeAdapter, whose two        *)
(* queries implement its atomic consume: for every set of tokens,          *)
(* purposes, subjects and handlers, every ttl, and a clock with any bound. *)
(*                                                                         *)
(* The lemmas speak of handlers with states in a set S, which has those of *)
(* SingleUseToken and may have more: the adapter's proofs use them again,  *)
(* with the state its second query adds.                                   *)
(***************************************************************************)
EXTENDS ConsumeAdapter, TLAPS

\* The states in S that the transactions speak of carry what they should.
HandlerStates(S) ==
    /\ Call \subseteq S
    /\ \A s \in S :
        /\ s.op = "issue" => s \in Issuance
        /\ s.op = "consume" => s \in Redemption
        /\ s.op = "invalidateAllFor" => s \in Invalidation
        /\ s.op = "reply" => s \in Reply

Typed(S) ==
    /\ clock \in Instants
    /\ TypedRows(tokens)
    /\ held \subseteq DOMAIN tokens
    /\ settled \subseteq DOMAIN tokens
    /\ call \in [Callers -> S]

\* The handlers' states are such a set.
LEMMA CallStates == HandlerStates(Call)
  BY DEF HandlerStates, Call, Idle, Issuance, Redemption, Invalidation, Reply

(***************************************************************************)
(* What the store's writes do to the rows.                                 *)
(***************************************************************************)

\* No row is lost, what was fixed at its issue stays, and so does a retired row.
RowsKept(new, rows) ==
    /\ TypedRows(new)
    /\ DOMAIN rows \subseteq DOMAIN new
    /\ \A x \in DOMAIN rows :
        /\ new[x].purpose = rows[x].purpose
        /\ new[x].subjectId = rows[x].subjectId
        /\ new[x].expiresAt = rows[x].expiresAt
        /\ IsRetired(rows[x]) => new[x] = rows[x]

\* Retiring keeps the rows and retires those it is asked to.
LEMMA RetireRetires ==
    ASSUME NEW rows, TypedRows(rows), NEW T, NEW now \in Instants
    PROVE  /\ RowsKept(Retire(rows, T, now), rows)
           /\ DOMAIN Retire(rows, T, now) = DOMAIN rows
           /\ \A x \in T \cap DOMAIN rows : IsRetired(Retire(rows, T, now)[x])
<1> DEFINE new == Retire(rows, T, now)
           stamped(x) == [rows[x] EXCEPT !.consumedAt = now]
<1>1. /\ new = [x \in DOMAIN new |-> new[x]]
      /\ DOMAIN new = DOMAIN rows
  BY DEF Retire
<1>2. ASSUME NEW x \in DOMAIN rows
      PROVE  new[x] = IF x \in T /\ ~IsRetired(rows[x])
                      THEN stamped(x) ELSE rows[x]
  BY DEF Retire
<1>3. ASSUME NEW x \in DOMAIN rows
      PROVE  /\ stamped(x) \in Row
             /\ stamped(x).purpose = rows[x].purpose
             /\ stamped(x).subjectId = rows[x].subjectId
             /\ stamped(x).expiresAt = rows[x].expiresAt
             /\ IsRetired(stamped(x))
  BY SingleUseAssumption DEF Row, TypedRows, IsRetired, Instants
<1> HIDE DEF new, stamped
<1>4. ASSUME NEW x \in DOMAIN rows
      PROVE  /\ new[x] \in Row
             /\ new[x].purpose = rows[x].purpose
             /\ new[x].subjectId = rows[x].subjectId
             /\ new[x].expiresAt = rows[x].expiresAt
             /\ IsRetired(rows[x]) => new[x] = rows[x]
             /\ x \in T => IsRetired(new[x])
  BY <1>2, <1>3 DEF TypedRows
<1>5. TypedRows(new)
  BY <1>1, <1>4 DEF TypedRows
<1>6. /\ RowsKept(new, rows)
      /\ DOMAIN new = DOMAIN rows
      /\ \A x \in T \cap DOMAIN rows : IsRetired(new[x])
  BY <1>1, <1>4, <1>5 DEF RowsKept
<1>7. QED
  BY <1>6 DEF new

(***************************************************************************)
(* What a handler's step does.                                             *)
(***************************************************************************)

\* Its own state moves, and nobody else's.
Moves(c, S) ==
    /\ call' \in [Callers -> S]
    /\ \A d \in Callers \ {c} : call'[d] = call[d]

\* The rows are kept, at most the handler's own draw is added, and what the
\* step settles is retired by it.
Effect(c) ==
    /\ RowsKept(tokens', tokens)
    /\ \A x \in DOMAIN tokens' \ DOMAIN tokens :
        Awaits(c, "issue") /\ x = call[c].token
    /\ settled \subseteq settled'
    /\ \A t \in settled' \ settled : t \in DOMAIN tokens /\ IsRetired(tokens'[t])

\* What the handler does next, with what it knows.
Intent(c) ==
    \/ call'[c].op \in {"idle", "invalidateAllFor"}
    \/ call'[c].op = "issue" /\ Fresh(call'[c].token)
    \/ call'[c].op = "consume" /\ call'[c].token \in held \cup {Garbage}
    \/ /\ call'[c].op = "reply"
       /\ call'[c].outcome = "issued" => call'[c].token \in DOMAIN tokens'

\* A handler that becomes something moves.
LEMMA BecomeMoves ==
    ASSUME NEW S, call \in [Callers -> S], NEW c \in Callers, NEW s \in S,
           Become(c, s)
    PROVE  Moves(c, S) /\ call'[c] = s
  BY DEF Become, Moves

\* An answer is a state of a handler, and says what it says.
LEMMA AnswerFields ==
    ASSUME NEW outcome \in {"issued", "redeemed", "already-consumed",
                            "expired", "invalid", "invalidated"},
           NEW t \in Presentable \cup {Null}
    PROVE  /\ Answer(outcome, t) \in Call
           /\ Answer(outcome, t).op = "reply"
           /\ Answer(outcome, t).outcome = outcome
           /\ Answer(outcome, t).token = t
  BY DEF Answer, Call, Reply

\* A step that leaves the store alone has the effect of keeping it.
LEMMA NoEffect ==
    ASSUME NEW c \in Callers, TypedRows(tokens), UNCHANGED <<tokens, settled>>
    PROVE  Effect(c)
  BY DEF Effect, RowsKept

\* A handler's first step.
LEMMA BeginSteps ==
    ASSUME NEW S, HandlerStates(S), Typed(S), NEW c \in Callers, Begin(c)
    PROVE  Moves(c, S) /\ Effect(c) /\ Intent(c) /\ UNCHANGED <<clock, held>>
<1>1. CASE BeginIssue(c)
  <2>1. PICK t \in Tokens, p \in Purposes, s \in Subjects, ttl \in Ttls :
            /\ ttl > 0
            /\ Fresh(t)
            /\ Become(c, [op |-> "issue", token |-> t, purpose |-> p,
                          subjectId |-> s, expiresAt |-> clock + ttl])
    BY <1>1 DEF BeginIssue
  <2>2. clock + ttl \in Instants
    BY <2>1, SingleUseAssumption DEF Typed, Instants
  <2>3. [op |-> "issue", token |-> t, purpose |-> p, subjectId |-> s,
         expiresAt |-> clock + ttl] \in S
    BY <2>2 DEF HandlerStates, Call, Issuance
  <2>4. Moves(c, S) /\ Intent(c)
    BY <2>1, <2>3, BecomeMoves DEF Typed, Intent
  <2>5. QED
    BY <1>1, <2>4, NoEffect DEF BeginIssue, Typed
<1>2. CASE BeginRedeem(c)
  <2>1. PICK t \in held \cup {Garbage}, p \in Purposes :
            Become(c, [op |-> "consume", token |-> t, purpose |-> p,
                       now |-> clock])
    BY <1>2 DEF BeginRedeem
  <2>2. [op |-> "consume", token |-> t, purpose |-> p, now |-> clock] \in S
    BY DEF HandlerStates, Call, Redemption, Presentable, Typed, TypedRows
  <2>3. Moves(c, S) /\ Intent(c)
    BY <2>1, <2>2, BecomeMoves DEF Typed, Intent
  <2>4. QED
    BY <1>2, <2>3, NoEffect DEF BeginRedeem, Typed
<1>3. CASE BeginInvalidate(c)
  <2>1. PICK s \in Subjects, p \in Purposes :
            Become(c, [op |-> "invalidateAllFor", subjectId |-> s,
                       purpose |-> p])
    BY <1>3 DEF BeginInvalidate
  <2>2. [op |-> "invalidateAllFor", subjectId |-> s, purpose |-> p] \in S
    BY DEF HandlerStates, Call, Invalidation
  <2>3. Moves(c, S) /\ Intent(c)
    BY <2>1, <2>2, BecomeMoves DEF Typed, Intent
  <2>4. QED
    BY <1>3, <2>3, NoEffect DEF BeginInvalidate, Typed
<1>4. QED
  BY <1>1, <1>2, <1>3 DEF Begin

\* The store's insert.
LEMMA IssueSteps ==
    ASSUME NEW S, HandlerStates(S), Typed(S), DrawsFresh,
           NEW c \in Callers, StoreIssue(c)
    PROVE  Moves(c, S) /\ Effect(c) /\ Intent(c) /\ UNCHANGED <<clock, held>>
<1> DEFINE t == call[c].token
           row == [purpose |-> call[c].purpose,
                   subjectId |-> call[c].subjectId,
                   expiresAt |-> call[c].expiresAt, consumedAt |-> Null]
<1>1. /\ call[c].op = "issue"
      /\ call[c] \in Issuance
      /\ t \notin DOMAIN tokens
  BY DEF StoreIssue, Awaits, HandlerStates, Typed, DrawsFresh
<1>2. row \in Row /\ t \in Tokens
  BY <1>1 DEF Issuance, Row
<1>3. tokens' = [x \in DOMAIN tokens \cup {t} |->
                    IF x = t THEN row ELSE tokens[x]]
  BY DEF StoreIssue
<1>4. /\ Become(c, Answer("issued", t))
      /\ UNCHANGED <<clock, held, settled>>
  BY DEF StoreIssue
<1>5. Awaits(c, "issue")
  BY DEF StoreIssue
<1>6. /\ Answer("issued", t) \in S
      /\ Answer("issued", t).op = "reply"
      /\ Answer("issued", t).token = t
  BY <1>2, AnswerFields DEF HandlerStates, Presentable
<1>7. Moves(c, S) /\ call'[c] = Answer("issued", t)
  BY <1>4, <1>6, BecomeMoves DEF Typed
<1> HIDE DEF row
<1>8. /\ TypedRows(tokens')
      /\ DOMAIN tokens' = DOMAIN tokens \cup {t}
      /\ \A x \in DOMAIN tokens : tokens'[x] = tokens[x]
  BY <1>1, <1>2, <1>3 DEF TypedRows, Typed
<1>9. Effect(c)
  BY <1>4, <1>5, <1>8 DEF Effect, RowsKept
<1>10. Intent(c)
  BY <1>6, <1>7, <1>8 DEF Intent
<1>11. QED
  BY <1>4, <1>7, <1>9, <1>10

\* The compare-and-swap.
LEMMA WinsSteps ==
    ASSUME NEW S, HandlerStates(S), Typed(S), NEW c \in Callers, ConsumeWins(c)
    PROVE  /\ Moves(c, S) /\ Effect(c) /\ Intent(c) /\ UNCHANGED <<clock, held>>
           /\ call[c] \in Redemption
           /\ call'[c].token = call[c].token
<1>1. call[c] \in Redemption
  BY DEF ConsumeWins, Awaits, HandlerStates, Typed
<1>2. call[c].token \in Presentable /\ call[c].now \in Instants
  BY <1>1 DEF Redemption
<1>3. /\ Answer("redeemed", call[c].token) \in S
      /\ Answer("redeemed", call[c].token).op = "reply"
      /\ Answer("redeemed", call[c].token).outcome = "redeemed"
      /\ Answer("redeemed", call[c].token).token = call[c].token
  BY <1>2, AnswerFields DEF HandlerStates
<1>4. Moves(c, S) /\ call'[c] = Answer("redeemed", call[c].token)
  BY <1>3, BecomeMoves DEF ConsumeWins, Typed
<1>5. /\ RowsKept(tokens', tokens)
      /\ DOMAIN tokens' = DOMAIN tokens
      /\ \A x \in {call[c].token} \cap DOMAIN tokens : IsRetired(tokens'[x])
  BY <1>2, RetireRetires DEF ConsumeWins, Typed
<1>6. /\ call[c].token \in DOMAIN tokens
      /\ settled' = settled \cup {call[c].token}
  BY DEF ConsumeWins, Redeemable, Matches
<1>7. Effect(c)
  BY <1>5, <1>6 DEF Effect
<1>8. Intent(c)
  BY <1>3, <1>4 DEF Intent
<1>9. QED
  BY <1>1, <1>3, <1>4, <1>7, <1>8 DEF ConsumeWins

\* The labels, for a handler that presented something.
LEMMA FindsSteps ==
    ASSUME NEW S, HandlerStates(S), Typed(S), NEW c \in Callers,
           call[c].token \in Presentable, Finds(c)
    PROVE  /\ Moves(c, S) /\ Effect(c) /\ Intent(c)
           /\ UNCHANGED <<clock, tokens, held, settled>>
           /\ call'[c].op = "reply"
           /\ call'[c].outcome # "redeemed"
<1>1. PICK outcome \in {"invalid", "already-consumed", "expired"} :
        /\ Become(c, Answer(outcome, call[c].token))
        /\ UNCHANGED <<clock, tokens, held, settled>>
  BY DEF Finds, FindsNoMatch, FindsRetired, FindsExpired
<1>2. /\ Answer(outcome, call[c].token) \in S
      /\ Answer(outcome, call[c].token).op = "reply"
      /\ Answer(outcome, call[c].token).outcome = outcome
  BY AnswerFields DEF HandlerStates
<1>3. Moves(c, S) /\ call'[c] = Answer(outcome, call[c].token)
  BY <1>1, <1>2, BecomeMoves DEF Typed
<1>4. Effect(c)
  BY <1>1, NoEffect DEF Typed
<1>5. QED
  BY <1>1, <1>2, <1>3, <1>4 DEF Intent

\* The withdrawal.
LEMMA InvalidateSteps ==
    ASSUME NEW S, HandlerStates(S), Typed(S),
           NEW c \in Callers, StoreInvalidate(c)
    PROVE  Moves(c, S) /\ Effect(c) /\ Intent(c) /\ UNCHANGED <<clock, held>>
<1> DEFINE T == Covered(tokens, call[c].subjectId, call[c].purpose)
<1>1. /\ Answer("invalidated", Null) \in S
      /\ Answer("invalidated", Null).op = "reply"
      /\ Answer("invalidated", Null).outcome = "invalidated"
  BY AnswerFields DEF HandlerStates
<1>2. Moves(c, S) /\ call'[c] = Answer("invalidated", Null)
  BY <1>1, BecomeMoves DEF StoreInvalidate, Typed
<1>3. /\ tokens' = Retire(tokens, T, clock)
      /\ settled' = settled \cup T
      /\ T \subseteq DOMAIN tokens
  BY DEF StoreInvalidate, Covered
<1> HIDE DEF T
<1>4. /\ RowsKept(tokens', tokens)
      /\ DOMAIN tokens' = DOMAIN tokens
      /\ \A x \in T \cap DOMAIN tokens : IsRetired(tokens'[x])
  BY <1>3, RetireRetires DEF Typed
<1>5. Effect(c)
  BY <1>3, <1>4 DEF Effect
<1>6. Intent(c)
  BY <1>1, <1>2 DEF Intent
<1>7. QED
  BY <1>2, <1>5, <1>6 DEF StoreInvalidate

\* The end of a call.  What a client now holds was issued.
LEMMA EndSteps ==
    ASSUME NEW S, HandlerStates(S), Typed(S), IssuedStored,
           NEW c \in Callers, Deliver(c) \/ Crash(c)
    PROVE  /\ Moves(c, S) /\ Effect(c) /\ Intent(c)
           /\ held' \subseteq DOMAIN tokens
           /\ UNCHANGED <<clock, tokens, settled>>
<1>1. /\ Become(c, Idle) /\ Idle \in S /\ Idle.op = "idle"
      /\ UNCHANGED <<clock, tokens, settled>>
  BY DEF Deliver, Crash, Idle, HandlerStates, Call
<1>2. Moves(c, S) /\ Intent(c)
  BY <1>1, BecomeMoves DEF Typed, Intent
<1>3. Effect(c)
  BY <1>1, NoEffect DEF Typed
<1>4. held' \subseteq DOMAIN tokens
  BY DEF Deliver, Crash, IssuedStored, Typed
<1>5. QED
  BY <1>1, <1>2, <1>3, <1>4

\* All that does not consume.
LEMMA ElsewhereSteps ==
    ASSUME NEW S, HandlerStates(S), Typed(S), CallsConsistent,
           NEW c \in Callers, Elsewhere(c)
    PROVE  /\ Moves(c, S) /\ Effect(c) /\ Intent(c)
           /\ held' \subseteq DOMAIN tokens
           /\ UNCHANGED clock
  BY BeginSteps, IssueSteps, InvalidateSteps, EndSteps
     DEF Elsewhere, CallsConsistent, Typed

(***************************************************************************)
(* The inductive invariant.                                                *)
(***************************************************************************)

\* A step with such an effect and intent keeps types and consistency.
LEMMA StepKeepsTypes ==
    ASSUME NEW S, Typed(S), NEW c \in Callers, Moves(c, S), Effect(c),
           held' \subseteq DOMAIN tokens, UNCHANGED clock
    PROVE  Typed(S)'
  BY DEF Typed, Moves, Effect, RowsKept

LEMMA StepKeepsConsistent ==
    ASSUME NEW S, Typed(S), CallsConsistent, NEW c \in Callers,
           Moves(c, S), Effect(c), Intent(c)
    PROVE  CallsConsistent'
<1>1. DrawsFresh'
  BY DEF CallsConsistent, DrawsFresh, Moves, Effect, Intent, Fresh, Awaits
<1>2. PresentedKnown'
  <2>1. held \cup {Garbage} \subseteq DOMAIN tokens' \cup {Garbage}
    BY DEF Typed, Effect, RowsKept
  <2>2. QED
    BY <2>1
       DEF CallsConsistent, PresentedKnown, Moves, Effect, RowsKept, Intent,
           Awaits
<1>3. IssuedStored'
  BY DEF CallsConsistent, IssuedStored, Moves, Effect, RowsKept, Intent, Awaits
<1>4. SettledRetired'
  BY DEF CallsConsistent, SettledRetired, Typed, Effect, RowsKept
<1>5. QED
  BY <1>1, <1>2, <1>3, <1>4 DEF CallsConsistent

\* Both hold initially.
LEMMA InitConsistent == Init => TypeOK /\ CallsConsistent
  BY DEF Init, TypeOK, TypedRows, Instants, Call, Idle, CallsConsistent,
         DrawsFresh, PresentedKnown, IssuedStored, SettledRetired, Awaits

IInv == TypeOK /\ CallsConsistent

\* Every handler's step has an effect and an intent as above.
LEMMA HandlerSteps ==
    ASSUME IInv, NEW c \in Callers,
           Elsewhere(c) \/ ConsumeWins(c) \/ ConsumeLoses(c)
    PROVE  /\ Moves(c, Call) /\ Effect(c) /\ Intent(c)
           /\ held' \subseteq DOMAIN tokens
           /\ UNCHANGED clock
<1>1. HandlerStates(Call) /\ Typed(Call) /\ CallsConsistent
  BY CallStates DEF IInv, TypeOK, Typed
<1>2. CASE Elsewhere(c)
  BY <1>1, <1>2, ElsewhereSteps
<1>3. CASE ConsumeWins(c)
  BY <1>1, <1>3, WinsSteps DEF Typed
<1>4. CASE ConsumeLoses(c)
  <2>1. call[c].token \in Presentable
    BY <1>1, <1>4
       DEF ConsumeLoses, Awaits, HandlerStates, Typed, Redemption
  <2>2. QED
    BY <1>1, <1>4, <2>1, FindsSteps DEF ConsumeLoses, Typed
<1>5. QED
  BY <1>2, <1>3, <1>4

\* The inductive invariant: types need IssuedStored, which needs the rows to
\* be kept, which needs the draws to be fresh.
LEMMA Inductive == Spec => []IInv
<1>1. Init => IInv
  BY InitConsistent DEF IInv
<1>2. IInv /\ [Next]_vars => IInv'
  <2> SUFFICES ASSUME IInv, [Next]_vars PROVE IInv'
    OBVIOUS
  <2>1. ASSUME NEW c \in Callers,
               Elsewhere(c) \/ ConsumeWins(c) \/ ConsumeLoses(c)
        PROVE  IInv'
    <3>1. Typed(Call) /\ CallsConsistent
      BY DEF IInv, TypeOK, Typed
    <3>2. Typed(Call)'
      BY <2>1, <3>1, HandlerSteps, StepKeepsTypes
    <3>3. CallsConsistent'
      BY <2>1, <3>1, HandlerSteps, StepKeepsConsistent
    <3>4. QED
      BY <3>2, <3>3 DEF IInv, TypeOK, Typed
  <2>2. CASE Tick
    BY <2>2
       DEF Tick, IInv, TypeOK, Instants, CallsConsistent, DrawsFresh,
           PresentedKnown, IssuedStored, SettledRetired, Awaits
  <2>3. CASE UNCHANGED vars
    BY <2>3
       DEF vars, IInv, TypeOK, CallsConsistent, DrawsFresh,
           PresentedKnown, IssuedStored, SettledRetired, Awaits
  <2>4. QED
    BY <2>1, <2>2, <2>3 DEF Next
<1>3. QED
  BY <1>1, <1>2, PTL DEF Spec

\* The types.
THEOREM SingleUseTypeCorrect == Spec => []TypeOK
  BY Inductive, PTL DEF IInv

\* What handlers drew is still new, what they were given still known, when
\* the store acts; what was redeemed or withdrawn is retired.
THEOREM SingleUseConsistent == Spec => []CallsConsistent
  BY Inductive, PTL DEF IInv

(***************************************************************************)
(* Single use.                                                             *)
(***************************************************************************)

\* The other operations answer nobody `redeemed'.
LEMMA ElsewhereRedeems ==
    ASSUME NEW S, Typed(S), NEW c \in Callers, Elsewhere(c)
    PROVE  ~Answered(c, "redeemed")
<1>1. \A t : /\ Answer("issued", t).outcome = "issued"
            /\ Answer("invalidated", t).outcome = "invalidated"
  BY DEF Answer
<1>2. PICK s : Become(c, s) /\ (s.op # "reply" \/ s.outcome # "redeemed")
  <2>1. CASE Begin(c)
    <3>1. CASE BeginIssue(c)
      BY <3>1 DEF BeginIssue
    <3>2. CASE BeginRedeem(c)
      BY <3>2 DEF BeginRedeem
    <3>3. CASE BeginInvalidate(c)
      BY <3>3 DEF BeginInvalidate
    <3>4. QED
      BY <2>1, <3>1, <3>2, <3>3 DEF Begin
  <2>2. CASE StoreIssue(c) \/ StoreInvalidate(c)
    BY <1>1, <2>2 DEF StoreIssue, StoreInvalidate
  <2>3. CASE Deliver(c) \/ Crash(c)
    BY <2>3 DEF Deliver, Crash, Idle
  <2>4. QED
    BY <2>1, <2>2, <2>3 DEF Elsewhere
<1>3. call'[c] = s
  BY <1>2 DEF Become, Typed
<1>4. QED
  BY <1>2, <1>3 DEF Answered, Awaits

\* Only the compare-and-swap answers `redeemed', and it found no retired row.
LEMMA SingleUseStep ==
    ASSUME IInv, [Next]_vars, NEW c \in Callers, Answered(c, "redeemed")
    PROVE  call'[c].token \notin settled
<1>1. HandlerStates(Call) /\ Typed(Call) /\ CallsConsistent
  BY CallStates DEF IInv, TypeOK, Typed
<1>2. call[c].op # "reply" /\ call'[c].op = "reply"
  BY DEF Answered, Awaits
<1>3. PICK d \in Callers : Elsewhere(d) \/ ConsumeWins(d) \/ ConsumeLoses(d)
  BY <1>2 DEF Next, Tick, vars
<1>4. d = c
  BY <1>2, <1>3, HandlerSteps DEF Moves
<1>5. CASE ConsumeWins(c)
  <2>1. call'[c].token = call[c].token
    BY <1>1, <1>5, WinsSteps
  <2>2. call[c].token \in DOMAIN tokens /\ ~IsRetired(tokens[call[c].token])
    BY <1>5 DEF ConsumeWins, Redeemable, Matches
  <2>3. QED
    BY <1>1, <2>1, <2>2 DEF CallsConsistent, SettledRetired
<1>6. CASE ConsumeLoses(c)
  <2>1. call[c].token \in Presentable
    BY <1>1, <1>6
       DEF ConsumeLoses, Awaits, HandlerStates, Typed, Redemption
  <2>2. QED
    BY <1>1, <1>6, <2>1, FindsSteps DEF ConsumeLoses, Answered
<1>7. CASE Elsewhere(c)
  BY <1>1, <1>7, ElsewhereRedeems
<1>8. QED
  BY <1>3, <1>4, <1>5, <1>6, <1>7

\* A token is redeemed once, and never after an invalidation that covered it.
THEOREM RedeemedOnce == Spec => SingleUse
<1>1. IInv /\ [Next]_vars =>
        [\A c \in Callers :
            Answered(c, "redeemed") => call'[c].token \notin settled]_vars
  BY SingleUseStep
<1>2. QED
  BY <1>1, Inductive, PTL DEF Spec, SingleUse

\* A row, once retired, is never touched again, nor is any row deleted.
THEOREM RetiredForEver == Spec => RetirementIsFinal
<1>1. IInv /\ [Next]_vars =>
        [\A t \in DOMAIN tokens :
            /\ t \in DOMAIN tokens'
            /\ IsRetired(tokens[t]) => tokens'[t] = tokens[t]]_vars
  <2> SUFFICES ASSUME IInv, [Next]_vars, NEW t \in DOMAIN tokens
               PROVE  /\ t \in DOMAIN tokens'
                      /\ IsRetired(tokens[t]) => tokens'[t] = tokens[t]
    OBVIOUS
  <2>1. CASE UNCHANGED tokens
    BY <2>1
  <2>2. ASSUME NEW c \in Callers,
               Elsewhere(c) \/ ConsumeWins(c) \/ ConsumeLoses(c)
        PROVE  RowsKept(tokens', tokens)
    BY <2>2, HandlerSteps DEF Effect
  <2>3. QED
    BY <2>1, <2>2 DEF Next, Tick, vars, RowsKept
<1>2. QED
  BY <1>1, Inductive, PTL DEF Spec, RetirementIsFinal

\* A settled token is retired, so whoever presents it finds it retired, or
\* presents it for another purpose.
LEMMA LosersStep ==
    ASSUME IInv, [Next]_vars, NEW c \in Callers, Awaits(c, "consume"),
           Awaits(c, "reply")', call[c].token \in settled
    PROVE  \/ Answered(c, "already-consumed")
           \/ /\ Answered(c, "invalid")
              /\ tokens[call[c].token].purpose # call[c].purpose
<1> DEFINE t == call[c].token
<1>1. HandlerStates(Call) /\ Typed(Call) /\ CallsConsistent
  BY CallStates DEF IInv, TypeOK, Typed
<1>2. call[c].op = "consume" /\ call'[c].op = "reply"
  BY DEF Awaits
<1>3. t \in DOMAIN tokens /\ IsRetired(tokens[t])
  BY <1>1 DEF CallsConsistent, SettledRetired, Typed
<1>4. PICK d \in Callers : Elsewhere(d) \/ ConsumeWins(d) \/ ConsumeLoses(d)
  BY <1>2 DEF Next, Tick, vars
<1>5. d = c
  BY <1>2, <1>4, HandlerSteps DEF Moves
<1>6. ~Elsewhere(c)
  <2>1. ~Begin(c)
    BY <1>2 DEF Begin, BeginIssue, BeginRedeem, BeginInvalidate, Idle
  <2>2. ~StoreIssue(c) /\ ~StoreInvalidate(c) /\ ~Deliver(c)
    BY <1>2 DEF StoreIssue, StoreInvalidate, Deliver, Awaits
  <2>3. ~Crash(c)
    <3>1. ASSUME Crash(c) PROVE call'[c] = Idle
      BY <1>1, <3>1 DEF Crash, Become, Typed
    <3>2. QED
      BY <1>2, <3>1 DEF Idle
  <2>4. QED
    BY <2>1, <2>2, <2>3 DEF Elsewhere
<1>7. ~ConsumeWins(c)
  BY <1>3 DEF ConsumeWins, Redeemable
<1>8. PICK outcome : /\ Become(c, Answer(outcome, t))
                     /\ \/ outcome = "already-consumed"
                        \/ /\ outcome = "invalid"
                           /\ tokens[t].purpose # call[c].purpose
  BY <1>3, <1>4, <1>5, <1>6, <1>7
     DEF ConsumeLoses, Finds, FindsNoMatch, FindsRetired, FindsExpired, Matches
<1>9. call'[c].outcome = outcome
  BY <1>1, <1>8 DEF Become, Typed, Answer
<1>10. QED
  BY <1>2, <1>8, <1>9 DEF Answered, Awaits

\* Whoever presents a settled token learns that it was, unless it is presented
\* for another purpose: then, as for garbage, nothing is learned.
THEOREM LosersAreToldWhy == Spec => LosersLearnWhy
<1>1. IInv /\ [Next]_vars =>
        [\A c \in Callers :
            /\ Awaits(c, "consume")
            /\ Awaits(c, "reply")'
            /\ call[c].token \in settled
            => \/ Answered(c, "already-consumed")
               \/ /\ Answered(c, "invalid")
                  /\ tokens[call[c].token].purpose # call[c].purpose]_vars
  BY LosersStep
<1>2. QED
  BY <1>1, Inductive, PTL DEF Spec, LosersLearnWhy

(***************************************************************************)
(* ConsumeAdapter: the two-query adapter implements the atomic consume.    *)
(***************************************************************************)

States == Call \cup Classification

\* What a handler has re-read the store for is known, as what it presented.
ClassifyKnown ==
    \A c \in Callers :
        Awaits(c, "classify") => call[c].token \in DOMAIN tokens \cup {Garbage}

\* The inductive invariant: that a miss is final rests on what is known when
\* the UPDATE misses, for a token that had no row could get one.
AdapterIInv ==
    /\ AdapterTypeOK
    /\ CallsConsistent
    /\ ClassifyKnown
    /\ MissIsFinal

\* The types, as the lemmas above want them.
LEMMA AdapterStates ==
    /\ HandlerStates(States)
    /\ AdapterTypeOK <=> Typed(States)
    /\ \A s \in States : s.op = "classify" => s \in Classification
<1>1. \A s \in Call : s.op # "classify"
  BY DEF Call, Idle, Issuance, Redemption, Invalidation, Reply
<1>2. \A s \in Classification : s.op = "classify"
  BY DEF Classification
<1>3. QED
  BY <1>1, <1>2, CallStates DEF States, HandlerStates, AdapterTypeOK, Typed

(***************************************************************************)
(* The two queries.                                                        *)
(***************************************************************************)

\* An UPDATE that matches is the compare-and-swap.
LEMMA UpdateIsConsume ==
    ASSUME NEW c \in Callers
    PROVE  UpdateWins(c) <=> ConsumeWins(c)
  BY DEF UpdateWins, UpdateMatches, ConsumeWins

\* An UPDATE that matches nothing remembers what it was asked.
LEMMA MissesSteps ==
    ASSUME Typed(States), NEW c \in Callers, UpdateMisses(c)
    PROVE  /\ Moves(c, States)
           /\ Effect(c)
           /\ UNCHANGED <<clock, tokens, held, settled>>
           /\ call[c].op = "consume"
           /\ call'[c].op = "classify"
           /\ call'[c] = [call[c] EXCEPT !.op = "classify"]
           /\ call'[c].token = call[c].token
           /\ call'[c].purpose = call[c].purpose
           /\ call'[c].now = call[c].now
<1> DEFINE s == [call[c] EXCEPT !.op = "classify"]
<1>1. call[c].op = "consume" /\ call[c] \in Redemption
  BY AdapterStates DEF UpdateMisses, Awaits, HandlerStates, Typed
<1>2. /\ s \in Classification
      /\ s.op = "classify"
      /\ s.token = call[c].token
      /\ s.purpose = call[c].purpose
      /\ s.now = call[c].now
  BY <1>1 DEF Redemption, Classification
<1>3. Become(c, s) /\ UNCHANGED <<clock, tokens, held, settled>>
  BY DEF UpdateMisses
<1>4. s \in States
  BY <1>2 DEF States
<1>5. Moves(c, States) /\ call'[c] = s
  BY <1>3, <1>4, BecomeMoves DEF Typed
<1>6. Effect(c)
  BY <1>3, NoEffect DEF Typed
<1>7. QED
  BY <1>1, <1>2, <1>3, <1>5, <1>6

\* Every handler's step, with its effect, and its intent unless it missed.
LEMMA AdapterSteps ==
    ASSUME AdapterIInv, NEW c \in Callers,
           Elsewhere(c) \/ UpdateWins(c) \/ UpdateMisses(c) \/ Classify(c)
    PROVE  /\ Moves(c, States) /\ Effect(c)
           /\ Intent(c) \/ UpdateMisses(c)
           /\ held' \subseteq DOMAIN tokens
           /\ UNCHANGED clock
<1>1. HandlerStates(States) /\ Typed(States) /\ CallsConsistent
  BY AdapterStates DEF AdapterIInv
<1>2. CASE Elsewhere(c)
  BY <1>1, <1>2, ElsewhereSteps
<1>3. CASE UpdateWins(c)
  BY <1>1, <1>3, UpdateIsConsume, WinsSteps DEF Typed
<1>4. CASE UpdateMisses(c)
  BY <1>1, <1>4, MissesSteps DEF Typed
<1>5. CASE Classify(c)
  <2>1. call[c].token \in Presentable
    BY <1>1, <1>5, AdapterStates DEF Classify, Awaits, Typed, Classification
  <2>2. QED
    BY <1>1, <1>5, <2>1, FindsSteps DEF Classify, Typed
<1>6. QED
  BY <1>2, <1>3, <1>4, <1>5

(***************************************************************************)
(* The inductive invariant.                                                *)
(***************************************************************************)

\* A token that was not redeemable stays so: its row keeps what was fixed at
\* issue and its retirement, and garbage never gets a row.
LEMMA NotRedeemableStays ==
    ASSUME Typed(States), Typed(States)', NEW d \in Callers,
           RowsKept(tokens', tokens),
           call[d].token \in DOMAIN tokens \cup {Garbage},
           call'[d].token = call[d].token,
           call'[d].purpose = call[d].purpose,
           call'[d].now = call[d].now,
           ~Redeemable(d)
    PROVE  ~Redeemable(d)'
<1>1. Garbage \notin DOMAIN tokens'
  BY SingleUseAssumption DEF Typed, TypedRows
<1>2. CASE call[d].token = Garbage
  BY <1>1, <1>2 DEF Redeemable, Matches
<1>3. CASE call[d].token \in DOMAIN tokens
  BY <1>3 DEF Redeemable, Matches, RowsKept
<1>4. QED
  BY <1>2, <1>3

LEMMA AdapterStepInv ==
    ASSUME AdapterIInv, NEW c \in Callers,
           Elsewhere(c) \/ UpdateWins(c) \/ UpdateMisses(c) \/ Classify(c)
    PROVE  AdapterIInv'
<1>1. Typed(States) /\ CallsConsistent /\ ClassifyKnown /\ MissIsFinal
  BY AdapterStates DEF AdapterIInv
<1>2. Moves(c, States) /\ Effect(c)
  BY AdapterSteps
<1>3. Typed(States)'
  BY <1>1, AdapterSteps, StepKeepsTypes
<1>4. CallsConsistent'
  <2>1. CASE Intent(c)
    BY <1>1, <1>2, <2>1, StepKeepsConsistent
  <2>2. CASE UpdateMisses(c)
    <3>1. /\ UNCHANGED <<tokens, held, settled>>
          /\ call'[c].op = "classify"
          /\ \A d \in Callers \ {c} : call'[d] = call[d]
      BY <1>1, <2>2, MissesSteps DEF Moves
    <3>2. QED
      BY <1>1, <3>1
         DEF CallsConsistent, DrawsFresh, PresentedKnown, IssuedStored,
             SettledRetired, Awaits
  <2>3. QED
    BY <2>1, <2>2, AdapterSteps
<1>5. ASSUME NEW d \in Callers, Awaits(d, "classify")'
      PROVE  /\ call'[d].token \in DOMAIN tokens' \cup {Garbage}
             /\ ~Redeemable(d)'
  <2>1. RowsKept(tokens', tokens)
    BY <1>2 DEF Effect
  <2>2. CASE d = c
    <3>1. UpdateMisses(c)
      BY <1>5, <2>2, AdapterSteps DEF Intent, Awaits
    <3>2. /\ call'[c].token = call[c].token
          /\ call'[c].purpose = call[c].purpose
          /\ call'[c].now = call[c].now
          /\ call[c].op = "consume"
      BY <1>1, <3>1, MissesSteps
    <3>3. /\ call[c].token \in DOMAIN tokens \cup {Garbage}
          /\ ~Redeemable(c)
      BY <1>1, <3>1, <3>2
         DEF CallsConsistent, PresentedKnown, Awaits, UpdateMisses,
             UpdateMatches
    <3>4. QED
      BY <1>1, <1>3, <2>1, <2>2, <3>2, <3>3, NotRedeemableStays DEF RowsKept
  <2>3. CASE d # c
    <3>1. call'[d] = call[d]
      BY <1>2, <2>3 DEF Moves
    <3>2. /\ call[d].token \in DOMAIN tokens \cup {Garbage}
          /\ ~Redeemable(d)
      BY <1>1, <1>5, <3>1 DEF ClassifyKnown, MissIsFinal, Awaits
    <3>3. QED
      BY <1>1, <1>3, <2>1, <3>1, <3>2, NotRedeemableStays DEF RowsKept
  <2>4. QED
    BY <2>2, <2>3
<1>6. ClassifyKnown' /\ MissIsFinal'
  BY <1>5 DEF ClassifyKnown, MissIsFinal
<1>7. AdapterTypeOK'
  BY <1>3 DEF AdapterTypeOK, Typed, States
<1>8. QED
  BY <1>4, <1>6, <1>7 DEF AdapterIInv

LEMMA AdapterInductive == AdapterSpec => []AdapterIInv
<1>1. Init => AdapterIInv
  BY InitConsistent
     DEF Init, AdapterIInv, AdapterTypeOK, TypeOK, ClassifyKnown, MissIsFinal,
         Awaits, Idle
<1>2. AdapterIInv /\ [AdapterNext]_vars => AdapterIInv'
  <2> SUFFICES ASSUME AdapterIInv, [AdapterNext]_vars PROVE AdapterIInv'
    OBVIOUS
  <2>1. CASE Tick
    BY <2>1
       DEF Tick, AdapterIInv, AdapterTypeOK, Instants, CallsConsistent,
           DrawsFresh, PresentedKnown, IssuedStored, SettledRetired,
           ClassifyKnown, MissIsFinal, Redeemable, Matches, Awaits
  <2>2. CASE UNCHANGED vars
    BY <2>2
       DEF vars, AdapterIInv, AdapterTypeOK, CallsConsistent,
           DrawsFresh, PresentedKnown, IssuedStored, SettledRetired,
           ClassifyKnown, MissIsFinal, Redeemable, Matches, Awaits
  <2>3. QED
    BY <2>1, <2>2, AdapterStepInv DEF AdapterNext
<1>3. QED
  BY <1>1, <1>2, PTL DEF AdapterSpec

\* The types.
THEOREM AdapterTypeCorrect == AdapterSpec => []AdapterTypeOK
  BY AdapterInductive, PTL DEF AdapterIInv

\* A token that an UPDATE missed cannot be redeemed by the time it is read
\* again: the re-read has a label for every loser.
THEOREM MissesAreFinal == AdapterSpec => []MissIsFinal
  BY AdapterInductive, PTL DEF AdapterIInv

(***************************************************************************)
(* The refinement.                                                         *)
(***************************************************************************)

View == [c \in Callers |-> OutsideView(call[c])]

\* Handlers that are not between the queries look as they are.
LEMMA ViewFields ==
    ASSUME Typed(States), NEW c \in Callers
    PROVE  /\ call[c].op # "classify" => View[c] = call[c]
           /\ call[c].op = "classify" =>
                /\ View[c].op = "consume"
                /\ View[c].token = call[c].token
                /\ View[c].purpose = call[c].purpose
                /\ View[c].now = call[c].now
  BY AdapterStates DEF View, OutsideView, Classification, Typed

\* A handler that becomes anything else does so in the view.
LEMMA ViewBecomes ==
    ASSUME Typed(States), NEW c \in Callers, NEW s, s.op # "classify",
           Become(c, s)
    PROVE  Atomic!Become(c, s)
  BY DEF Become, Atomic!Become, OutsideView, Typed

\* What handlers await is seen, but for the second query.
LEMMA ViewAwaits ==
    ASSUME Typed(States), NEW c \in Callers, NEW op,
           op \notin {"consume", "classify"}
    PROVE  /\ Atomic!Awaits(c, op) <=> Awaits(c, op)
           /\ Awaits(c, op) => View[c] = call[c]
<1>1. Atomic!Awaits(c, op) <=> View[c].op = op
  BY DEF Atomic!Awaits, View
<1>2. QED
  BY <1>1, ViewFields DEF Awaits

\* So a draw is as fresh there as here, and an idle handler as idle.
LEMMA ViewFresh ==
    ASSUME Typed(States), NEW t
    PROVE  Fresh(t) => Atomic!Fresh(t)
<1> SUFFICES ASSUME Fresh(t), NEW c \in Callers, Atomic!Awaits(c, "issue")
             PROVE  View[c].token # t
  BY DEF Fresh, Atomic!Fresh, View
<1>1. Awaits(c, "issue") /\ View[c] = call[c]
  BY ViewAwaits
<1>2. QED
  BY <1>1 DEF Fresh

LEMMA ViewIdle ==
    ASSUME NEW c \in Callers, call[c] = Idle
    PROVE  View[c] = Atomic!Idle
  BY DEF View, OutsideView, Idle, Atomic!Idle

\* An answer is not the second query.
LEMMA AnswerNotClassify ==
    ASSUME NEW outcome, NEW t
    PROVE  /\ Answer(outcome, t).op # "classify"
           /\ Atomic!Answer(outcome, t) = Answer(outcome, t)
  BY DEF Answer, Atomic!Answer

\* A handler's first step is seen as it is.
LEMMA ViewBegins ==
    ASSUME Typed(States), NEW c \in Callers, Begin(c)
    PROVE  Atomic!Begin(c)
<1>1. CASE BeginIssue(c)
  <2>1. PICK t \in Tokens, p \in Purposes, s \in Subjects, ttl \in Ttls :
            /\ ttl > 0
            /\ Fresh(t)
            /\ Become(c, [op |-> "issue", token |-> t, purpose |-> p,
                          subjectId |-> s, expiresAt |-> clock + ttl])
    BY <1>1 DEF BeginIssue
  <2>2. Atomic!Become(c, [op |-> "issue", token |-> t, purpose |-> p,
                          subjectId |-> s, expiresAt |-> clock + ttl])
    BY <2>1, ViewBecomes
  <2>3. View[c] = Atomic!Idle /\ Atomic!Fresh(t)
    BY <1>1, <2>1, ViewIdle, ViewFresh DEF BeginIssue
  <2>4. Atomic!BeginIssue(c)
    BY <1>1, <2>1, <2>2, <2>3 DEF BeginIssue, Atomic!BeginIssue, View
  <2>5. QED
    BY <2>4 DEF Atomic!Begin
<1>2. CASE BeginRedeem(c)
  <2>1. PICK t \in held \cup {Garbage}, p \in Purposes :
            Become(c, [op |-> "consume", token |-> t, purpose |-> p,
                       now |-> clock])
    BY <1>2 DEF BeginRedeem
  <2>2. Atomic!Become(c, [op |-> "consume", token |-> t, purpose |-> p,
                          now |-> clock])
    BY <2>1, ViewBecomes
  <2>3. View[c] = Atomic!Idle
    BY <1>2, ViewIdle DEF BeginRedeem
  <2>4. Atomic!BeginRedeem(c)
    BY <1>2, <2>2, <2>3 DEF BeginRedeem, Atomic!BeginRedeem, View
  <2>5. QED
    BY <2>4 DEF Atomic!Begin
<1>3. CASE BeginInvalidate(c)
  <2>1. PICK s \in Subjects, p \in Purposes :
            Become(c, [op |-> "invalidateAllFor", subjectId |-> s,
                       purpose |-> p])
    BY <1>3 DEF BeginInvalidate
  <2>2. Atomic!Become(c, [op |-> "invalidateAllFor", subjectId |-> s,
                          purpose |-> p])
    BY <2>1, ViewBecomes
  <2>3. View[c] = Atomic!Idle
    BY <1>3, ViewIdle DEF BeginInvalidate
  <2>4. Atomic!BeginInvalidate(c)
    BY <1>3, <2>2, <2>3 DEF BeginInvalidate, Atomic!BeginInvalidate, View
  <2>5. QED
    BY <2>4 DEF Atomic!Begin
<1>4. QED
  BY <1>1, <1>2, <1>3 DEF Begin

\* The other steps that the adapter shares with an atomic store.
LEMMA ViewElsewhere ==
    ASSUME Typed(States), NEW c \in Callers, Elsewhere(c)
    PROVE  [Atomic!Next]_(Atomic!vars)
<1>1. CASE Begin(c)
  BY <1>1, ViewBegins DEF Atomic!Next, Atomic!Elsewhere
<1>2. CASE StoreIssue(c)
  <2>1. /\ Atomic!Awaits(c, "issue")
        /\ View[c] = call[c]
    BY <1>2, ViewAwaits DEF StoreIssue
  <2>2. Atomic!Become(c, Atomic!Answer("issued", call[c].token))
    BY <1>2, ViewBecomes, AnswerNotClassify DEF StoreIssue
  <2>3. Atomic!StoreIssue(c)
    BY <1>2, <2>1, <2>2 DEF StoreIssue, Atomic!StoreIssue, View
  <2>4. QED
    BY <2>3 DEF Atomic!Next, Atomic!Elsewhere
<1>3. CASE StoreInvalidate(c)
  <2>1. /\ Atomic!Awaits(c, "invalidateAllFor")
        /\ View[c] = call[c]
    BY <1>3, ViewAwaits DEF StoreInvalidate
  <2>2. Atomic!Become(c, Atomic!Answer("invalidated", Null))
    BY <1>3, ViewBecomes, AnswerNotClassify DEF StoreInvalidate
  <2>3. Atomic!StoreInvalidate(c)
    BY <1>3, <2>1, <2>2
       DEF StoreInvalidate, Atomic!StoreInvalidate, View,
           Covered, Atomic!Covered, Retire, Atomic!Retire,
           IsRetired, Atomic!IsRetired
  <2>4. QED
    BY <2>3 DEF Atomic!Next, Atomic!Elsewhere
<1>4. CASE Deliver(c)
  <2>1. /\ Atomic!Awaits(c, "reply")
        /\ View[c] = call[c]
    BY <1>4, ViewAwaits DEF Deliver
  <2>2. Atomic!Become(c, Atomic!Idle)
    BY <1>4, ViewBecomes DEF Deliver, Idle, Atomic!Idle
  <2>3. Atomic!Deliver(c)
    BY <1>4, <2>1, <2>2 DEF Deliver, Atomic!Deliver, View
  <2>4. QED
    BY <2>3 DEF Atomic!Next, Atomic!Elsewhere
<1>5. CASE Crash(c)
  <2>1. View[c] # Atomic!Idle
    <3>1. View[c] = call[c] \/ View[c].op = "consume"
      BY ViewFields
    <3>2. QED
      BY <1>5, <3>1 DEF Crash, Idle, Atomic!Idle
  <2>2. Atomic!Become(c, Atomic!Idle)
    BY <1>5, ViewBecomes DEF Crash, Idle, Atomic!Idle
  <2>3. Atomic!Crash(c)
    BY <1>5, <2>1, <2>2 DEF Crash, Atomic!Crash, View
  <2>4. QED
    BY <2>3 DEF Atomic!Next, Atomic!Elsewhere
<1>6. QED
  BY <1>1, <1>2, <1>3, <1>4, <1>5 DEF Elsewhere

\* What a handler presented is the same on either side of its first query.
LEMMA ViewMatches ==
    ASSUME Typed(States), NEW c \in Callers,
           call[c].op \in {"consume", "classify"}
    PROVE  /\ View[c].op = "consume"
           /\ View[c].token = call[c].token
           /\ Matches(c) <=> Atomic!Matches(c)
           /\ Redeemable(c) <=> Atomic!Redeemable(c)
<1>1. /\ View[c].op = "consume"
      /\ View[c].token = call[c].token
      /\ View[c].purpose = call[c].purpose
      /\ View[c].now = call[c].now
  BY ViewFields
<1>2. Matches(c) <=> Atomic!Matches(c)
  BY <1>1 DEF Matches, Atomic!Matches, View
<1>3. Redeemable(c) <=> Atomic!Redeemable(c)
  BY <1>1, <1>2 DEF Redeemable, Atomic!Redeemable, View, IsRetired,
                    Atomic!IsRetired
<1>4. QED
  BY <1>1, <1>2, <1>3

\* An UPDATE that matches is where the winner's consume takes effect.
LEMMA ViewWins ==
    ASSUME Typed(States), NEW c \in Callers, UpdateWins(c)
    PROVE  Atomic!ConsumeWins(c)
<1>1. call[c].op = "consume"
  BY DEF UpdateWins, Awaits
<1>2. View[c] = call[c] /\ Atomic!Redeemable(c)
  BY <1>1, ViewFields, ViewMatches DEF UpdateWins, UpdateMatches
<1>3. Atomic!Become(c, Atomic!Answer("redeemed", call[c].token))
  BY ViewBecomes, AnswerNotClassify DEF UpdateWins
<1>4. QED
  BY <1>1, <1>2, <1>3
     DEF UpdateWins, Atomic!ConsumeWins, Atomic!Awaits, View, Retire,
         Atomic!Retire, IsRetired, Atomic!IsRetired

\* The re-read is where a loser's does.
LEMMA ViewClassifies ==
    ASSUME Typed(States), NEW c \in Callers, Classify(c)
    PROVE  Atomic!ConsumeLoses(c)
<1>1. call[c].op = "classify"
  BY DEF Classify, Awaits
<1>2. /\ View[c].op = "consume"
      /\ View[c].token = call[c].token
      /\ Matches(c) <=> Atomic!Matches(c)
  BY <1>1, ViewMatches
<1>3. View[c].now = call[c].now
  BY <1>1, ViewFields
<1>4. \A outcome : Become(c, Answer(outcome, call[c].token)) =>
        Atomic!Become(c, Atomic!Answer(outcome, View[c].token))
  BY <1>2, ViewBecomes, AnswerNotClassify
<1>5. CASE FindsNoMatch(c)
  <2>1. Atomic!FindsNoMatch(c)
    BY <1>2, <1>4, <1>5 DEF FindsNoMatch, Atomic!FindsNoMatch, View
  <2>2. QED
    BY <1>2, <2>1 DEF Atomic!ConsumeLoses, Atomic!Finds, Atomic!Awaits, View
<1>6. CASE FindsRetired(c)
  <2>1. Atomic!FindsRetired(c)
    BY <1>2, <1>4, <1>6 DEF FindsRetired, Atomic!FindsRetired, View,
                            IsRetired, Atomic!IsRetired
  <2>2. QED
    BY <1>2, <2>1 DEF Atomic!ConsumeLoses, Atomic!Finds, Atomic!Awaits, View
<1>7. CASE FindsExpired(c)
  <2>1. Atomic!FindsExpired(c)
    BY <1>2, <1>3, <1>4, <1>7 DEF FindsExpired, Atomic!FindsExpired, View,
                                  IsRetired, Atomic!IsRetired
  <2>2. QED
    BY <1>2, <2>1 DEF Atomic!ConsumeLoses, Atomic!Finds, Atomic!Awaits, View
<1>8. QED
  BY <1>5, <1>6, <1>7 DEF Classify, Finds

\* An UPDATE that misses is not seen.
LEMMA ViewMisses ==
    ASSUME Typed(States), NEW c \in Callers, UpdateMisses(c)
    PROVE  UNCHANGED Atomic!vars
<1>1. /\ UNCHANGED <<clock, tokens, held, settled>>
      /\ call[c].op = "consume"
      /\ call'[c] = [call[c] EXCEPT !.op = "classify"]
      /\ \A d \in Callers \ {c} : call'[d] = call[d]
  BY MissesSteps DEF Moves
<1>2. call[c] \in Redemption
  BY <1>1, AdapterStates DEF HandlerStates, Typed
<1>3. OutsideView(call'[c]) = OutsideView(call[c])
  BY <1>1, <1>2 DEF OutsideView, Redemption
<1>4. View' = View
  BY <1>1, <1>3 DEF View
<1>5. QED
  BY <1>1, <1>4 DEF Atomic!vars, View

\* The two queries are one atomic consume, whatever runs between them.
THEOREM AdapterImplementsConsume == AdapterSpec => ImplementsAtomicConsume
<1>1. Init => Atomic!Init
  BY DEF Init, Atomic!Init, OutsideView, Idle, Atomic!Idle
<1>2. AdapterIInv /\ [AdapterNext]_vars => [Atomic!Next]_(Atomic!vars)
  <2> SUFFICES ASSUME AdapterIInv, [AdapterNext]_vars
               PROVE  [Atomic!Next]_(Atomic!vars)
    OBVIOUS
  <2>1. Typed(States)
    BY AdapterStates DEF AdapterIInv
  <2>2. ASSUME NEW c \in Callers, Elsewhere(c)
        PROVE  [Atomic!Next]_(Atomic!vars)
    BY <2>1, <2>2, ViewElsewhere
  <2>3. ASSUME NEW c \in Callers, UpdateWins(c)
        PROVE  Atomic!Next
    BY <2>1, <2>3, ViewWins DEF Atomic!Next
  <2>4. ASSUME NEW c \in Callers, UpdateMisses(c)
        PROVE  UNCHANGED Atomic!vars
    BY <2>1, <2>4, ViewMisses
  <2>5. ASSUME NEW c \in Callers, Classify(c)
        PROVE  Atomic!Next
    BY <2>1, <2>5, ViewClassifies DEF Atomic!Next
  <2>6. CASE Tick
    BY <2>6 DEF Tick, Atomic!Next, Atomic!Tick
  <2>7. CASE UNCHANGED vars
    BY <2>7 DEF vars, Atomic!vars
  <2>8. QED
    BY <2>2, <2>3, <2>4, <2>5, <2>6, <2>7 DEF AdapterNext
<1>3. QED
  BY <1>1, <1>2, AdapterInductive, PTL
     DEF AdapterSpec, ImplementsAtomicConsume, Atomic!Spec

(***************************************************************************)
(* What the adapter's own rows and answers promise.                        *)
(***************************************************************************)

\* Only a matching UPDATE answers `redeemed', and it found no retired row.
LEMMA AdapterSingleUseStep ==
    ASSUME AdapterIInv, [AdapterNext]_vars, NEW c \in Callers,
           Answered(c, "redeemed")
    PROVE  call'[c].token \notin settled
<1>1. HandlerStates(States) /\ Typed(States) /\ CallsConsistent
  BY AdapterStates DEF AdapterIInv
<1>2. call[c].op # "reply" /\ call'[c].op = "reply"
  BY DEF Answered, Awaits
<1>3. PICK d \in Callers :
        Elsewhere(d) \/ UpdateWins(d) \/ UpdateMisses(d) \/ Classify(d)
  BY <1>2 DEF AdapterNext, Tick, vars
<1>4. d = c
  BY <1>1, <1>2, <1>3, AdapterSteps DEF Moves
<1>5. CASE UpdateWins(c)
  <2>1. call'[c].token = call[c].token
    BY <1>1, <1>5, UpdateIsConsume, WinsSteps
  <2>2. call[c].token \in DOMAIN tokens /\ ~IsRetired(tokens[call[c].token])
    BY <1>5 DEF UpdateWins, UpdateMatches, Redeemable, Matches
  <2>3. QED
    BY <1>1, <2>1, <2>2 DEF CallsConsistent, SettledRetired
<1>6. CASE UpdateMisses(c)
  BY <1>1, <1>2, <1>6, MissesSteps
<1>7. CASE Classify(c)
  <2>1. call[c].token \in Presentable
    BY <1>1, <1>7, AdapterStates DEF Classify, Awaits, Typed, Classification
  <2>2. QED
    BY <1>1, <1>7, <2>1, FindsSteps DEF Classify, Answered
<1>8. CASE Elsewhere(c)
  BY <1>1, <1>8, ElsewhereRedeems
<1>9. QED
  BY <1>3, <1>4, <1>5, <1>6, <1>7, <1>8

\* Over the two-query adapter too a token is redeemed once, and never after an
\* invalidation that covered it.
THEOREM AdapterRedeemsOnce == AdapterSpec => SingleUse
<1>1. AdapterIInv /\ [AdapterNext]_vars =>
        [\A c \in Callers :
            Answered(c, "redeemed") => call'[c].token \notin settled]_vars
  BY AdapterSingleUseStep
<1>2. QED
  BY <1>1, AdapterInductive, PTL DEF AdapterSpec, SingleUse

\* Its rows, once retired, are never touched again: no later UPDATE matches
\* them, and no invalidation stamps them anew.
THEOREM AdapterRetiresForEver == AdapterSpec => RetirementIsFinal
<1>1. AdapterIInv /\ [AdapterNext]_vars =>
        [\A t \in DOMAIN tokens :
            /\ t \in DOMAIN tokens'
            /\ IsRetired(tokens[t]) => tokens'[t] = tokens[t]]_vars
  <2> SUFFICES ASSUME AdapterIInv, [AdapterNext]_vars, NEW t \in DOMAIN tokens
               PROVE  /\ t \in DOMAIN tokens'
                      /\ IsRetired(tokens[t]) => tokens'[t] = tokens[t]
    OBVIOUS
  <2>1. HandlerStates(States) /\ Typed(States)
    BY AdapterStates DEF AdapterIInv
  <2>2. CASE UNCHANGED tokens
    BY <2>2
  <2>3. ASSUME NEW c \in Callers,
               Elsewhere(c) \/ UpdateWins(c) \/ UpdateMisses(c) \/ Classify(c)
        PROVE  RowsKept(tokens', tokens)
    BY <2>1, <2>3, AdapterSteps DEF Effect
  <2>4. QED
    BY <2>2, <2>3 DEF AdapterNext, Tick, vars, RowsKept
<1>2. QED
  BY <1>1, AdapterInductive, PTL DEF AdapterSpec, RetirementIsFinal

=============================================================================
