\* Nobody is lost, and the store answers: is it the ledger, and does a logout
\* get its way?
SPECIFICATION FairSpec
CONSTANTS
    Tokens = {t1, t2, t3}
    Families = {f1}
    Users = {u1}
    Null = null
    Callers = {c1, c2}
    Garbage = garbage
    Ttls = {2}
    Graces = {0, 1}
    SuppliedFamilies = {}
    CanCrash = FALSE
    MaxTime = 1
PROPERTIES
    ImplementsLedger
    LogoutEndsSession
