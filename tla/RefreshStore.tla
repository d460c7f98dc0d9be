---------------------------- MODULE RefreshStore ----------------------------
(***************************************************************************)
(* The refresh-session rows and what the store port's operations make of   *)
(* them: createMemoryRefreshTokenStore of src/index.ts, the reference      *)
(* implementation of the RefreshTokenStore port.                           *)
(*                                                                         *)
(* The store is a map from tokens to rows.  A token stands for the values  *)
(* one call draws together from the random source, the row's id, the raw   *)
(* token and the raw token's SHA-256 digest: they are never drawn apart    *)
(* and never drawn twice, so whoever names one of them names the row.      *)
(* Everything here is an operator over a value of the map; the modules     *)
(* that EXTEND this one say who calls it, and when.                        *)
(***************************************************************************)
EXTENDS Integers

CONSTANTS Tokens,    \* every value the random source may draw
          Families,  \* the family ids
          Users,     \* the user ids
          Null       \* JavaScript's null

ASSUME NullAssumption ==
    /\ Null \notin Tokens
    /\ Null \notin Families
    /\ Null \notin Nat

\* Date values, in milliseconds.
Instants == Nat

\* RefreshSessionRecord, without the id and the digest that key it.
Row == [familyId     : Families,
        userId       : Users,
        expiresAt    : Instants,
        revokedAt    : Instants \cup {Null},
        replacedById : Tokens \cup {Null}]

\* What the store's map can be: from some of the tokens to rows.
TypedRows(rows) ==
    /\ DOMAIN rows \subseteq Tokens
    /\ rows \in [DOMAIN rows -> Row]

-----------------------------------------------------------------------------
(* Reading the rows.                                                       *)

IsRevoked(row) == row.revokedAt # Null

FamilyRows(rows, f) == {t \in DOMAIN rows : rows[t].familyId = f}

LiveRows(rows, f) == {t \in FamilyRows(rows, f) : ~IsRevoked(rows[t])}

\* A family that had rows and has no live one.
DeadIn(rows, f) == FamilyRows(rows, f) # {} /\ LiveRows(rows, f) = {}

UserRows(rows, u) == {t \in DOMAIN rows : rows[t].userId = u}

(* A definition named after another one and a slip is that definition with *)
(* the slip in it: the checks use it to show that a property would notice. *)

ReplacementNotRevokedOnly(rows, old, now) ==
    LET next == rows[old].replacedById
    IN  next \in DOMAIN rows /\ ~IsRevoked(rows[next])

ReplacementUnexpiredOnly(rows, old, now) ==
    LET next == rows[old].replacedById
    IN  next \in DOMAIN rows /\ rows[next].expiresAt > now

\* A replacement still works at `now' when it exists, is not revoked and has
\* not expired; the row it replaces is looked up by that row's replacedById.
ReplacementActive(rows, old, now) ==
    LET next == rows[old].replacedById
    IN  /\ next \in DOMAIN rows
        /\ ~IsRevoked(rows[next])
        /\ rows[next].expiresAt > now

WithinGraceOpenAtZero(rows, old, graceMs, now) ==
    now - rows[old].revokedAt \in 0 .. graceMs

WithinGraceOpenEnd(rows, old, graceMs, now) ==
    /\ graceMs > 0
    /\ now - rows[old].revokedAt \in 0 .. graceMs - 1

\* Both ends of the window belong to it, and a graceMs of 0 closes it.  The
\* age is negative when the caller read its clock before the revocation.
WithinGrace(rows, old, graceMs, now) ==
    /\ graceMs > 0
    /\ now - rows[old].revokedAt \in 0 .. graceMs

-----------------------------------------------------------------------------
(* Changing the rows.                                                      *)

\* sessions.set of a row nobody has revoked or replaced yet.
InsertRow(rows, t, f, u, expiresAt) ==
    [x \in DOMAIN rows \cup {t} |->
        IF x = t
        THEN [familyId |-> f, userId |-> u, expiresAt |-> expiresAt,
              revokedAt |-> Null, replacedById |-> Null]
        ELSE rows[x]]

RevokeRowsAgain(rows, T, now) ==
    [t \in DOMAIN rows |->
        IF t \in T THEN [rows[t] EXCEPT !.revokedAt = now] ELSE rows[t]]

\* The loop all the kills share: rows already revoked keep their revokedAt.
RevokeRows(rows, T, now) ==
    [t \in DOMAIN rows |->
        IF t \in T /\ ~IsRevoked(rows[t])
        THEN [rows[t] EXCEPT !.revokedAt = now]
        ELSE rows[t]]

ReplaceRowBackwards(rows, old, next, expiresAt, now) ==
    [InsertRow(rows, next, rows[old].familyId, rows[old].userId, expiresAt)
        EXCEPT ![old].revokedAt = now, ![next].replacedById = old]

\* The compare-and-swap's writes: the successor in, the old row retired.
ReplaceRow(rows, old, next, expiresAt, now) ==
    [InsertRow(rows, next, rows[old].familyId, rows[old].userId, expiresAt)
        EXCEPT ![old].revokedAt = now, ![old].replacedById = next]

InsertSiblingForgotten(rows, old, next, expiresAt) == rows

\* The benign race's write: one more row beside the replacement.
InsertSibling(rows, old, next, expiresAt) ==
    InsertRow(rows, next, rows[old].familyId, rows[old].userId, expiresAt)

=============================================================================
