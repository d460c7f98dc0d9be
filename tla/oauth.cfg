\* Two ceremonies in two browsers, their callbacks opened anywhere and twice.
SPECIFICATION Spec
CONSTANTS
    g1 = g1
    g2 = g2
    g3 = g3
    box = box
    gmail = gmail
    GoogleAccounts = {g1, g2, g3}
    Mailboxes = {box, gmail}
    GmailBoxes = {gmail}
    Profile <- MCProfile
    Null = null
    Browsers = {b1, b2}
    Nonces = {n1, n2}
    Codes = {k1, k2}
    Requests = {r1, r2}
    Secrets = {s1, s2}
    Ttls = {1}
    CanFail = TRUE
    MaxTime = 1
SYMMETRY Symmetry
INVARIANTS
    TypeOK
    AcceptedWhereBegun
    ClosedCeremoniesStayClosed
    OneIdentityPerGoogleAccount
    HostedMeansHosted
