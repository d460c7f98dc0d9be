\* One handler, no races: logout with a token that was rotated before.
SPECIFICATION Spec
CONSTANTS
    Tokens = {t1, t2}
    Families = {f1}
    Users = {u1}
    Null = null
    Callers = {c1}
    Garbage = garbage
    Ttls = {2}
    Graces = {0}
    SuppliedFamilies = {}
    CanCrash = FALSE
    MaxTime = 1
SYMMETRY Symmetry
PROPERTIES
    LogoutOfGoneTokenIsNoOp
