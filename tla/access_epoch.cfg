\* Two logins, a refresh and two log-outs everywhere, with both calls of each,
\* losses between them and time to expire.
SPECIFICATION EpochSpec
CONSTANTS
    Tokens = {t1, t2, t3}
    Families = {f1, f2}
    Users = {u1}
    Null = null
    Callers = {c1, c2}
    Garbage = garbage
    Ttls = {1}
    Graces = {1}
    SuppliedFamilies = {}
    CanCrash = TRUE
    MaxTime = 1
    BumpClocks = {0, 1}
    MaxBumps = 2
SYMMETRY Symmetry
INVARIANTS
    EpochTypeOK
    ValidUntilTheNextBump
    OnlyInFlightSurvive
