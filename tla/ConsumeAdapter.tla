--------------------------- MODULE ConsumeAdapter ---------------------------
(***************************************************************************)
(* The adapter that src/single-use-token.ts describes to implementors of   *)
(* SingleUseTokenStore: consume is a conditional UPDATE ... RETURNING and, *)
(* when that returns no row, a second query that re-reads the token to     *)
(* tell the loser why.  Between the two queries anything may happen.  The  *)
(* rest of the store is SingleUseToken's; this module shows that the two   *)
(* queries together still behave as the port's one atomic operation.       *)
(***************************************************************************)
EXTENDS SingleUseToken

\* A handler whose UPDATE matched no row.
Classification == [op : {"classify"}, token : Presentable, purpose : Purposes,
                   now : Instants]

UpdateMatchesOnStoreClock(c) ==
    /\ Matches(c)
    /\ ~IsRetired(tokens[call[c].token])
    /\ tokens[call[c].token].expiresAt > clock

\* The UPDATE's WHERE clause; a row that another UPDATE holds is read again
\* when that one has committed.
UpdateMatches(c) == Redeemable(c)

UpdateWins(c) ==
    /\ Awaits(c, "consume")
    /\ UpdateMatches(c)
    /\ tokens' = Retire(tokens, {call[c].token}, call[c].now)
    /\ settled' = settled \cup {call[c].token}
    /\ Become(c, Answer("redeemed", call[c].token))
    /\ UNCHANGED <<clock, held>>

UpdateMisses(c) ==
    /\ Awaits(c, "consume")
    /\ ~UpdateMatches(c)
    /\ Become(c, [call[c] EXCEPT !.op = "classify"])
    /\ UNCHANGED <<clock, tokens, held, settled>>

ClassifyRetiredLast(c) ==
    /\ Awaits(c, "classify")
    /\ FindsNoMatch(c) \/ FindsExpiredFirst(c) \/ FindsRetired(c)

\* The second query, which selects a label and never an action.
Classify(c) == Awaits(c, "classify") /\ Finds(c)

AdapterNext ==
    \/ \E c \in Callers :
        \/ Elsewhere(c)
        \/ UpdateWins(c)
        \/ UpdateMisses(c)
        \/ Classify(c)
    \/ Tick

AdapterSpec == Init /\ [][AdapterNext]_vars

-----------------------------------------------------------------------------
(* What the adapter must get right.                                        *)

\* Handlers have one state more than over an atomic store.
AdapterTypeOK ==
    /\ clock \in Instants
    /\ TypedRows(tokens)
    /\ held \subseteq DOMAIN tokens
    /\ settled \subseteq DOMAIN tokens
    /\ call \in [Callers -> Call \cup Classification]

\* A token that an UPDATE missed cannot be redeemed by the time it is read
\* again, however long that takes: the re-read has a label for every loser.
MissIsFinal == \A c \in Callers : Awaits(c, "classify") => ~Redeemable(c)

\* A handler between the two queries has not been answered: to the outside it
\* still awaits the store.
OutsideView(state) ==
    IF state.op = "classify" THEN [state EXCEPT !.op = "consume"] ELSE state

Atomic == INSTANCE SingleUseToken WITH
    call <- [c \in Callers |-> OutsideView(call[c])]

\* The two queries are one atomic consume: a winner's takes effect at its
\* UPDATE, a loser's at its re-read.
ImplementsAtomicConsume == Atomic!Spec

=============================================================================
