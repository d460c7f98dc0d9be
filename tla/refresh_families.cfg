\* Two users, one family the library drew and one that hosts supply; every
\* caller strict (graceMs 0).
SPECIFICATION Spec
CONSTANTS
    Tokens = {t1, t2, t3}
    Families = {f1, f2}
    Users = {u1, u2}
    Null = null
    Callers = {c1, c2}
    Garbage = garbage
    Ttls = {1}
    Graces = {0}
    SuppliedFamilies = {f2}
    CanCrash = FALSE
    MaxTime = 1
SYMMETRY Symmetry
INVARIANTS
    SessionLineage
    CallsConsistent
    OneLiveTokenPerLogin
PROPERTIES
    KillIsAttributable
