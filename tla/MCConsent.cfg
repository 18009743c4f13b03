SPECIFICATION FairSpec
CONSTANTS
    static = static
    managed = managed
    page = page
    alice = alice
    bob = alice
    app = app
    cb = cb
    far = far
    ch = ch
    Second = 2
    Flows = {f1}
    Callbacks = {b1}
    Posts = {p1, p2}
    Codes = {c1, c2}
    Logins = {l1}
    NoLogin = NoLogin
    Subjects = {alice}
    NoSubject = NoSubject
    StaticMes = {static}
    ManagedMes = {managed}
    PageMes = {page}
    AllowedSubjects <- MCAllowedSubjects
    ManagedSubject <- MCManagedSubject
    SupportedScopes = {"profile", "email"}
    SameOriginRedirects <- MCSameOrigin
    DeclaredRedirects <- MCDeclared
    ClientMetadataDiscoveryEnabled = TRUE
    Challenges = {ch}
    NoChallenge = NoChallenge
    Forms <- OneForm
    RequirePKCE = TRUE
    ConsentRequired = TRUE
    DynamicEnabled = TRUE
    AuthRequestTTL = 2
    CodeTTL = 2
    MaxTime = 3
    MaxFaults = 1
    MaxEdits = 0
PROPERTIES
    HandlersEnd
    PendingRowsPurged
    PendingRowsStay
INVARIANTS
    CodeForAskedGrant
    LateIsInvalid
