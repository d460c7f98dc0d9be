--------------------------- MODULE SingleUseStore ---------------------------
(***************************************************************************)
(* The rows of single-use tokens and what the operations of the store port *)
(* make of them: createMemorySingleUseTokenStore of                        *)
(* src/single-use-token.ts, the reference implementation.                  *)
(*                                                                         *)
(* As in RefreshStore, a token stands for the id, the raw token and its    *)
(* digest that one call draws together.                                    *)
(***************************************************************************)
EXTENDS Integers

CONSTANTS Tokens,     \* every value the random source may draw
          Purposes,   \* what a token authorizes
          Subjects,   \* whom it is for
          Null        \* JavaScript's null

Instants == Nat

\* SingleUseTokenRecord, without the id and the digest that key it.
Row == [purpose    : Purposes,
        subjectId  : Subjects,
        expiresAt  : Instants,
        consumedAt : Instants \cup {Null}]

TypedRows(rows) ==
    /\ DOMAIN rows \subseteq Tokens
    /\ rows \in [DOMAIN rows -> Row]

IsRetired(row) == row.consumedAt # Null

-----------------------------------------------------------------------------
(* What the store reads and what it writes.                                *)

\* A definition named after another one and a slip is that definition with
\* the slip in it: the checks use it to show that a property would notice.

RetireByDeleting(rows, T, now) == [t \in DOMAIN rows \ T |-> rows[t]]

RetireAgain(rows, T, now) ==
    [t \in DOMAIN rows |->
        IF t \in T THEN [rows[t] EXCEPT !.consumedAt = now] ELSE rows[t]]

\* Rows are retired, never deleted, and keep the consumedAt they have.
Retire(rows, T, now) ==
    [t \in DOMAIN rows |->
        IF t \in T /\ ~IsRetired(rows[t])
        THEN [rows[t] EXCEPT !.consumedAt = now]
        ELSE rows[t]]

\* The rows an invalidation covers.
Covered(rows, subjectId, purpose) ==
    {t \in DOMAIN rows :
        rows[t].subjectId = subjectId /\ rows[t].purpose = purpose}

=============================================================================
