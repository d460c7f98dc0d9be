\* Two handlers present one token within the grace window.
SPECIFICATION Spec
CONSTANTS
    Tokens = {t1, t2, t3}
    Families = {f1}
    Users = {u1}
    Null = null
    Callers = {c1, c2}
    Garbage = garbage
    Ttls = {2}
    Graces = {1}
    SuppliedFamilies = {}
    CanCrash = FALSE
    MaxTime = 1
SYMMETRY Symmetry
PROPERTIES
    TwoTabsAreNotTheft
