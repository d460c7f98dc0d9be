\* Two handlers race over one login: replays inside and outside the grace
\* window, which each call switches on or off; handlers lost at any await.
SPECIFICATION Spec
CONSTANTS
    Tokens = {t1, t2, t3, t4}
    Families = {f1}
    Users = {u1}
    Null = null
    Callers = {c1, c2}
    Garbage = garbage
    Ttls = {1, 2}
    Graces = {0, 1}
    SuppliedFamilies = {}
    CanCrash = TRUE
    MaxTime = 2
SYMMETRY Symmetry
INVARIANTS
    TypeOK
    SessionLineage
    VerdictHolds
PROPERTIES
    DeadFamilyStaysDead
    RevocationIsFinal
    RotationNeedsWorkingToken
    ReplayIsNeverMissed
    LostAnswerIsForgiven
