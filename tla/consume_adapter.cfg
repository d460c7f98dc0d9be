\* Two queries for one consume, among handlers that redeem and withdraw.
SPECIFICATION AdapterSpec
CONSTANTS
    Tokens = {t1, t2}
    Purposes = {reset, invite}
    Subjects = {s1}
    Callers = {c1, c2}
    Garbage = garbage
    Null = null
    Ttls = {1}
    CanCrash = TRUE
    MaxTime = 2
SYMMETRY Symmetry
INVARIANTS
    AdapterTypeOK
    MissIsFinal
PROPERTIES
    ImplementsAtomicConsume
