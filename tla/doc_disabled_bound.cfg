\* A deactivation between the link and its bind.
SPECIFICATION Spec
CONSTANTS
    a1 = a1
    n1 = n1
    k1 = k1
    k2 = k2
    Accounts = {a1, n1}
    Registered = {a1}
    Keys = {k1, k2}
    Spellings = {"Ann", "ann", "bob", " "}
    Normal <- MCNormal
    Null = null
    Rechecks = {}
    Callers = {c1}
    HostRows <- MCHostRows
    Presented <- MCPresented
    CredentialedClaims = FALSE
    RequireMatchingEmail = TRUE
    CanFail = FALSE
SYMMETRY Symmetry
PROPERTIES
    DisabledNeverBound
