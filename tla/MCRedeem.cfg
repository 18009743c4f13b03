SPECIFICATION Spec
CONSTANTS
    app = app
    other = other
    cb = cb
    site = site
    ch = ch
    good = good
    bad = bad
    Second = 2
    Codes = {c1}
    Tokens = {t1, t2}
    Requests = {r1, r2, r3}
    Grants <- MCGrants
    NoGrant = NoGrant
    Clients = {app, other}
    Redirects = {cb}
    Verifiers = {good, bad}
    NoVerifier = NoVerifier
    Challenges <- MCChallenges
    NoChallenge = NoChallenge
    S256 <- MCS256
    RequirePKCE = TRUE
    CodeTTL = 3
    AccessTokenTTL = 3
    Forms <- RedeemForms
    MaxTime = 4
    MaxFaults = 1
SYMMETRY Symmetry
INVARIANTS
    TypeOK
    CodeRedeemedOnce
    TokenBacked
    TokenProvesPKCE
    RefusedOnlyForCause
PROPERTIES
    RedeemedInTime
    CleanupSparesLive
    ImplementsCodeGrant
