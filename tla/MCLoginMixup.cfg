SPECIFICATION Spec
CONSTANTS
    static = static
    managed = managed
    page = page
    alice = alice
    bob = bob
    app = app
    cb = cb
    far = far
    ch = ch
    Second = 2
    Flows = {f1, f2}
    Callbacks = {b1, b2}
    Posts = {}
    Codes = {c1, c2}
    Logins = {l1, l2}
    NoLogin = NoLogin
    Subjects = {alice, bob}
    NoSubject = NoSubject
    StaticMes = {static}
    ManagedMes = {managed}
    PageMes = {page}
    AllowedSubjects <- MCAllowedSubjects
    ManagedSubject <- MCManagedSubject
    SupportedScopes = {"profile", "email"}
    SameOriginRedirects <- MCSameOrigin
    DeclaredRedirects <- MCDeclared
    ClientMetadataDiscoveryEnabled = TRUE
    Challenges = {ch}
    NoChallenge = NoChallenge
    Forms <- MixedForms
    RequirePKCE = TRUE
    ConsentRequired = FALSE
    DynamicEnabled = TRUE
    AuthRequestTTL = 2
    CodeTTL = 2
    MaxTime = 0
    MaxFaults = 0
    MaxEdits = 1
SYMMETRY Symmetry
INVARIANTS
    TypeOK
    CodeForAuthenticatedUser
