SPECIFICATION Spec
CONSTANTS
    ann = ann
    bea = bea
    Second = 1
    Plain = {"a", "b", "r", "u", "1", "2"}
    Separators = {"-"}
    Blanks = {" "}
    Others = {"!"}
    Dash = "-"
    MaxLength = 5
    UserPrefix <- MCUserPrefix
    Reserved <- MCReserved
    Suffix <- MCSuffix
    Users = {ann, bea}
    Names = {"old", "new"}
    Styles = {"plain", "own"}
    PlainStyle = "plain"
    Claims <- MCClaims
    Visits = {v1, v2, v3}
    Edits = {e1}
    MaxFaults = 1
    MaxClaims = 1
SYMMETRY Symmetry
INVARIANTS
    TypeOK
    AnswersOwnProfile
    EstablishedUsersServed
    ProfileResolves
PROPERTIES
    OwnershipIsForever
CHECK_DEADLOCK FALSE
