--------------------------- MODULE SingleUseToken ---------------------------
(***************************************************************************)
(* Single-use tokens of src/single-use-token.ts: issueSingleUseToken,      *)
(* redeemSingleUseToken and the host's call of invalidateAllFor, run by    *)
(* concurrent request handlers over createMemorySingleUseTokenStore, whose *)
(* operations are atomic as the port demands.                              *)
(*                                                                         *)
(* As in RefreshSession, a token stands for the id, the raw token and its  *)
(* digest that one call draws together, a handler's run is cut at its      *)
(* awaits, and a handler reads its clock before the store acts.            *)
(***************************************************************************)
EXTENDS SingleUseStore

CONSTANTS Callers,    \* the request handlers, one call each at a time
          Garbage,    \* a presented token the library never issued
          Ttls,       \* the ttlMs the host's endpoints pass
          CanCrash,   \* may a handler or its connection be lost?
          MaxTime     \* bound: the clock stops here

ASSUME SingleUseAssumption ==
    /\ Garbage \notin Tokens
    /\ Null \notin Nat
    /\ Ttls \subseteq Int
    /\ CanCrash \in BOOLEAN
    /\ MaxTime \in Nat

VARIABLES clock,      \* new Date(), the same for hosts and store
          tokens,     \* the store's rows
          held,       \* raw tokens that reached whoever they are for
          call,       \* what each handler awaits
          settled     \* history: tokens redeemed, or covered by an invalidation

vars == <<clock, tokens, held, call, settled>>

Presentable == Tokens \cup {Garbage}

-----------------------------------------------------------------------------
(* The states of a handler.                                                *)

Idle == [op |-> "idle"]

Issuance == [op : {"issue"}, token : Tokens, purpose : Purposes,
             subjectId : Subjects, expiresAt : Instants]

Redemption == [op : {"consume"}, token : Presentable, purpose : Purposes,
               now : Instants]

Invalidation == [op : {"invalidateAllFor"}, subjectId : Subjects,
                 purpose : Purposes]

\* An answer, with the token it is about.
Reply == [op : {"reply"},
          outcome : {"issued", "redeemed", "already-consumed", "expired",
                     "invalid", "invalidated"},
          token : Presentable \cup {Null}]

Call == {Idle} \cup Issuance \cup Redemption \cup Invalidation \cup Reply

Answer(outcome, t) == [op |-> "reply", outcome |-> outcome, token |-> t]

Awaits(c, op) == call[c].op = op

Become(c, state) == call' = [call EXCEPT ![c] = state]

-----------------------------------------------------------------------------
(* The handlers' first steps, up to the await of the store.                *)

FreshInStoreOnly(t) == t \notin DOMAIN tokens

\* A draw of the random source: no row has it, no handler is about to store it.
Fresh(t) ==
    /\ t \notin DOMAIN tokens
    /\ \A c \in Callers : Awaits(c, "issue") => call[c].token # t

\* issueSingleUseToken.
BeginIssue(c) ==
    /\ call[c] = Idle
    /\ \E t \in Tokens, p \in Purposes, s \in Subjects, ttl \in Ttls :
        /\ ttl > 0
        /\ Fresh(t)
        /\ Become(c, [op |-> "issue", token |-> t, purpose |-> p,
                      subjectId |-> s, expiresAt |-> clock + ttl])
    /\ UNCHANGED <<clock, tokens, held, settled>>

\* redeemSingleUseToken: `now' is read here, before the store is asked.  Any
\* token may be presented for any purpose.
BeginRedeem(c) ==
    /\ call[c] = Idle
    /\ \E t \in held \cup {Garbage}, p \in Purposes :
        Become(c, [op |-> "consume", token |-> t, purpose |-> p,
                   now |-> clock])
    /\ UNCHANGED <<clock, tokens, held, settled>>

\* The host withdraws what is outstanding for a subject and purpose.
BeginInvalidate(c) ==
    /\ call[c] = Idle
    /\ \E s \in Subjects, p \in Purposes :
        Become(c, [op |-> "invalidateAllFor", subjectId |-> s, purpose |-> p])
    /\ UNCHANGED <<clock, tokens, held, settled>>

-----------------------------------------------------------------------------
(* The store's transactions.                                               *)

\* issue.  Draws are fresh, so its rejections of duplicates are never met.
StoreIssue(c) ==
    /\ Awaits(c, "issue")
    /\ tokens' = [t \in DOMAIN tokens \cup {call[c].token} |->
                    IF t = call[c].token
                    THEN [purpose |-> call[c].purpose,
                          subjectId |-> call[c].subjectId,
                          expiresAt |-> call[c].expiresAt,
                          consumedAt |-> Null]
                    ELSE tokens[t]]
    /\ Become(c, Answer("issued", call[c].token))
    /\ UNCHANGED <<clock, held, settled>>

\* A handler's token exists and is for the purpose it is presented for.
Matches(c) ==
    /\ call[c].token \in DOMAIN tokens
    /\ tokens[call[c].token].purpose = call[c].purpose

RedeemableThoughRetired(c) ==
    Matches(c) /\ tokens[call[c].token].expiresAt > call[c].now

\* A token is dead at the instant it expires.
Redeemable(c) ==
    /\ Matches(c)
    /\ ~IsRetired(tokens[call[c].token])
    /\ tokens[call[c].token].expiresAt > call[c].now

\* consume, the compare-and-swap wins.
ConsumeWins(c) ==
    /\ Awaits(c, "consume")
    /\ Redeemable(c)
    /\ tokens' = Retire(tokens, {call[c].token}, call[c].now)
    /\ settled' = settled \cup {call[c].token}
    /\ Become(c, Answer("redeemed", call[c].token))
    /\ UNCHANGED <<clock, held>>

\* What the others are told, in the order of precedence.  The store's
\* `not-found' and `purpose-mismatch' are both `invalid' to the caller.
FindsNoMatch(c) ==
    /\ ~Matches(c)
    /\ Become(c, Answer("invalid", call[c].token))
    /\ UNCHANGED <<clock, tokens, held, settled>>

FindsRetired(c) ==
    /\ Matches(c)
    /\ IsRetired(tokens[call[c].token])
    /\ Become(c, Answer("already-consumed", call[c].token))
    /\ UNCHANGED <<clock, tokens, held, settled>>

FindsExpiredFirst(c) ==
    /\ Matches(c)
    /\ tokens[call[c].token].expiresAt <= call[c].now
    /\ Become(c, Answer("expired", call[c].token))
    /\ UNCHANGED <<clock, tokens, held, settled>>

FindsExpired(c) ==
    /\ Matches(c)
    /\ ~IsRetired(tokens[call[c].token])
    /\ tokens[call[c].token].expiresAt <= call[c].now
    /\ Become(c, Answer("expired", call[c].token))
    /\ UNCHANGED <<clock, tokens, held, settled>>

Finds(c) == FindsNoMatch(c) \/ FindsRetired(c) \/ FindsExpired(c)

\* consume, and it does not win: a label, and nothing written.
ConsumeLoses(c) == Awaits(c, "consume") /\ Finds(c)

\* invalidateAllFor, stamped with the store's own clock.
StoreInvalidate(c) ==
    /\ Awaits(c, "invalidateAllFor")
    /\ LET T == Covered(tokens, call[c].subjectId, call[c].purpose)
       IN  /\ tokens' = Retire(tokens, T, clock)
           /\ settled' = settled \cup T
    /\ Become(c, Answer("invalidated", Null))
    /\ UNCHANGED <<clock, held>>

-----------------------------------------------------------------------------
(* The answer's way to the client, time, and loss.                         *)

\* The promise resolves.  An issued token is delivered to its subject, who
\* keeps it whatever becomes of it.
Deliver(c) ==
    /\ Awaits(c, "reply")
    /\ held' = IF call[c].outcome = "issued" THEN held \cup {call[c].token}
               ELSE held
    /\ Become(c, Idle)
    /\ UNCHANGED <<clock, tokens, settled>>

\* The handler's process or connection is lost, before or after the store
\* acted for it.
Crash(c) ==
    /\ CanCrash
    /\ call[c] # Idle
    /\ Become(c, Idle)
    /\ UNCHANGED <<clock, tokens, held, settled>>

Tick ==
    /\ clock < MaxTime
    /\ clock' = clock + 1
    /\ UNCHANGED <<tokens, held, call, settled>>

-----------------------------------------------------------------------------
Init ==
    /\ clock = 0
    /\ tokens = [t \in {} |-> Null]
    /\ held = {}
    /\ call = [c \in Callers |-> Idle]
    /\ settled = {}

Begin(c) == BeginIssue(c) \/ BeginRedeem(c) \/ BeginInvalidate(c)

\* Everything but consume, which adapters implement in their own ways.
Elsewhere(c) ==
    \/ Begin(c)
    \/ StoreIssue(c)
    \/ StoreInvalidate(c)
    \/ Deliver(c)
    \/ Crash(c)

Next ==
    \/ \E c \in Callers : Elsewhere(c) \/ ConsumeWins(c) \/ ConsumeLoses(c)
    \/ Tick

Spec == Init /\ [][Next]_vars

-----------------------------------------------------------------------------
(* What single-use tokens promise.                                         *)

\* The store holds rows, whoever holds a token holds one the store knows, and
\* what is settled has a row.
TypeOK ==
    /\ clock \in Instants
    /\ TypedRows(tokens)
    /\ held \subseteq DOMAIN tokens
    /\ settled \subseteq DOMAIN tokens
    /\ call \in [Callers -> Call]

\* A value a handler is about to store is in no row and no other handler has it.
DrawsFresh ==
    \A c \in Callers : Awaits(c, "issue") =>
        /\ call[c].token \notin DOMAIN tokens
        /\ \A d \in Callers \ {c} :
            Awaits(d, "issue") => call[d].token # call[c].token

\* A presented token has a row, or is one the library never issued.
PresentedKnown ==
    \A c \in Callers :
        Awaits(c, "consume") => call[c].token \in DOMAIN tokens \cup {Garbage}

\* An issued token that is on its way to its subject has a row.
IssuedStored ==
    \A c \in Callers :
        Awaits(c, "reply") /\ call[c].outcome = "issued" =>
            call[c].token \in DOMAIN tokens

\* A settled token's row is retired.
SettledRetired == \A t \in settled : IsRetired(tokens[t])

\* Whatever interleaves, what handlers drew or were given before they awaited
\* the store is still new, or still known, when the store acts; and what was
\* redeemed or withdrawn, the rows remember.
CallsConsistent ==
    /\ DrawsFresh
    /\ PresentedKnown
    /\ IssuedStored
    /\ SettledRetired

Answered(c, outcome) ==
    /\ Awaits(c, "reply")'
    /\ ~Awaits(c, "reply")
    /\ call'[c].outcome = outcome

\* A token is redeemed once, and never after an invalidation that covered it,
\* whatever handlers present it together and whatever clocks they read.
SingleUse ==
    [][\A c \in Callers :
        Answered(c, "redeemed") => call'[c].token \notin settled]_vars

\* Whoever presents a settled token learns that it was, and not that it is
\* unknown or has expired since, unless it is presented for another purpose:
\* then, as for garbage, nothing is learned.
LosersLearnWhy ==
    [][\A c \in Callers :
        /\ Awaits(c, "consume")
        /\ Awaits(c, "reply")'
        /\ call[c].token \in settled
        => \/ Answered(c, "already-consumed")
           \/ /\ Answered(c, "invalid")
              /\ tokens[call[c].token].purpose # call[c].purpose]_vars

\* A row, once retired, is never touched again, nor is any row deleted: what
\* the first retirement wrote is what every later redemption is answered from.
RetirementIsFinal ==
    [][\A t \in DOMAIN tokens :
        /\ t \in DOMAIN tokens'
        /\ IsRetired(tokens[t]) => tokens'[t] = tokens[t]]_vars

=============================================================================
