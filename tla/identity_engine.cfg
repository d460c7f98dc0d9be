\* Two handlers over an adapter that rechecks everything; failures.
SPECIFICATION Spec
CONSTANTS
    a1 = a1
    n1 = n1
    k1 = k1
    k2 = k2
    Accounts = {a1, n1}
    Registered = {a1}
    Keys = {k1, k2}
    Spellings = {"Ann", "ann", "bob", " "}
    Normal <- MCNormal
    Null = null
    Rechecks = {"unbound", "enabled", "credentials", "email"}
    Callers = {c1, c2}
    HostRows <- MCHostRows
    Presented <- MCPresented
    CredentialedClaims = TRUE
    RequireMatchingEmail = TRUE
    CanFail = TRUE
SYMMETRY Symmetry
INVARIANTS
    TypeOK
    AnswersTrue
    BindingReportedOnce
PROPERTIES
    IdentityNeverMoves
    NoAccountTaken
    ImplementsRegistry
