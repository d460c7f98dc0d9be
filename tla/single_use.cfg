\* Three handlers redeem, misuse and withdraw two tokens of two purposes.
SPECIFICATION Spec
CONSTANTS
    Tokens = {t1, t2}
    Purposes = {reset, invite}
    Subjects = {s1}
    Callers = {c1, c2, c3}
    Garbage = garbage
    Null = null
    Ttls = {1}
    CanCrash = TRUE
    MaxTime = 2
SYMMETRY Symmetry
INVARIANTS
    TypeOK
    CallsConsistent
PROPERTIES
    SingleUse
    LosersLearnWhy
    RetirementIsFinal
