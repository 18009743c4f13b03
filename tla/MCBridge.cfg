SPECIFICATION Spec
CONSTANTS
    static = static
    managed = managed
    alice = alice
    bob = bob
    app = app
    cb = cb
    ch = ch
    good = good
    bad = bad
    Second = 2
    Flows = {f1}
    Callbacks = {b1}
    Posts = {p1}
    Codes = {c1}
    Logins = {l1}
    NoLogin = NoLogin
    Subjects = {alice, bob}
    NoSubject = NoSubject
    StaticMes = {static}
    ManagedMes = {managed}
    PageMes = {}
    AllowedSubjects <- MCAllowedSubjects
    ManagedSubject <- MCManagedSubject
    SupportedScopes = {"profile"}
    SameOriginRedirects <- MCSameOrigin
    DeclaredRedirects = {}
    ClientMetadataDiscoveryEnabled = FALSE
    Challenges <- MCChallenges
    NoChallenge = NoChallenge
    Forms <- MCForms
    RequirePKCE = TRUE
    ConsentRequired = TRUE
    DynamicEnabled = FALSE
    AuthRequestTTL = 4
    CodeTTL = 2
    MaxTime = 3
    MaxFaults = 1
    MaxEdits = 0
    Tokens = {t1}
    Requests = {r1, r2}
    NoGrant = NoGrant
    Clients = {app}
    Redirects = {cb}
    Verifiers = {good, bad}
    NoVerifier = NoVerifier
    S256 <- MCS256
    AccessTokenTTL = 2
    TokenForms <- MCTokenForms
SYMMETRY Symmetry
INVARIANT EveryTokenEarned
PROPERTY ImplementsTokenEndpoint
