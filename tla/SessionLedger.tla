---------------------------- MODULE SessionLedger ----------------------------
(***************************************************************************)
(* What refresh sessions promise, without store, calls or clocks: every    *)
(* token is unissued, then live, then spent, for ever; tokens belong to    *)
(* families (logins); and a family none of whose tokens is live has ended. *)
(* RefreshSession implements this module (see Ledger there).               *)
(***************************************************************************)
CONSTANTS Tokens,     \* the tokens
          Families,   \* the logins they belong to
          Joinable,   \* families a later login may join
          None        \* the family of a token nobody issued

\* What whoever names the constants sees to.
LedgerAssumption == None \notin Families /\ Joinable \subseteq Families

VARIABLES status,     \* of each token
          family      \* of each token

vars == <<status, family>>

Is(t, s) == status[t] = s

Members(f) == {t \in Tokens : family[t] = f}

HasLive(f) == \E t \in Members(f) : Is(t, "live")

Ended(f) == Members(f) # {} /\ ~HasLive(f)

-----------------------------------------------------------------------------
\* A login gets the first token of a new family.
Issue(t, f) ==
    /\ Is(t, "unissued")
    /\ f \in Joinable \/ Members(f) = {}
    /\ status' = [status EXCEPT ![t] = "live"]
    /\ family' = [family EXCEPT ![t] = f]

\* A live token is exchanged for its successor, once.
Rotate(t, next) ==
    /\ Is(t, "live")
    /\ Is(next, "unissued")
    /\ status' = [status EXCEPT ![t] = "spent", ![next] = "live"]
    /\ family' = [family EXCEPT ![next] = family[t]]

\* A spent token yields one more token beside the live ones of its family.
Join(t, next) ==
    /\ Is(t, "spent")
    /\ Is(next, "unissued")
    /\ HasLive(family[t])
    /\ status' = [status EXCEPT ![next] = "live"]
    /\ family' = [family EXCEPT ![next] = family[t]]

\* Logins are ended, each as a whole.
Close(T) ==
    /\ \A t \in T : Is(t, "live")
    /\ \A t \in T, x \in Tokens :
        /\ Is(x, "live")
        /\ family[x] = family[t]
        /\ family[x] \notin Joinable
        => x \in T
    /\ status' = [t \in Tokens |-> IF t \in T THEN "spent" ELSE status[t]]
    /\ UNCHANGED family

Init ==
    /\ status = [t \in Tokens |-> "unissued"]
    /\ family = [t \in Tokens |-> None]

Next ==
    \/ \E t \in Tokens, f \in Families : Issue(t, f)
    \/ \E t, next \in Tokens : Rotate(t, next) \/ Join(t, next)
    \/ \E T \in SUBSET Tokens : Close(T)

Spec == Init /\ [][Next]_vars

-----------------------------------------------------------------------------
\* Tokens have a status, and a family from the moment they are issued.
LedgerTypeOK ==
    /\ status \in [Tokens -> {"unissued", "live", "spent"}]
    /\ family \in [Tokens -> Families \cup {None}]
    /\ \A t \in Tokens : Is(t, "unissued") <=> family[t] = None

\* A login that has ended, its tokens all spent, stays ended.  Only families
\* that logins may join are exempt.
EndedStaysEnded ==
    [][\A f \in Families \ Joinable : Ended(f) => Ended(f)']_vars

=============================================================================
