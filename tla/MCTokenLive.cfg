SPECIFICATION FairSpec
CONSTANTS
    app = app
    other = other
    cb = cb
    site = site
    ch = ch
    good = good
    bad = bad
    Second = 2
    Codes = {c1}
    Tokens = {t1}
    Requests = {r1, r2, r3}
    Grants <- MCGrants
    NoGrant = NoGrant
    Clients = {app, other}
    Redirects = {cb}
    Verifiers = {good, bad}
    NoVerifier = NoVerifier
    Challenges <- MCChallenges
    NoChallenge = NoChallenge
    S256 <- MCS256
    RequirePKCE = TRUE
    CodeTTL = 3
    AccessTokenTTL = 3
    Forms <- TokenForms
    MaxTime = 3
    MaxFaults = 1
PROPERTIES
    RequestsEnd
    UsedCodesPurged
    DeadStaysDead
INVARIANTS
    NoActiveAnswerForDeadToken
