SPECIFICATION Spec
CONSTANTS
    ann = ann
    bea = bea
    Second = 1
    Plain = {"a", "b", "r", "u", "1", "2"}
    Separators = {"-"}
    Blanks = {" "}
    Others = {"!"}
    Dash = "-"
    MaxLength = 5
    UserPrefix <- MCUserPrefix
    Reserved <- MCReserved
    Suffix <- MCSuffix
    Users = {ann, bea}
    Names = {"old"}
    Styles = {"plain", "own"}
    PlainStyle = "plain"
    Claims <- OldClaims
    Visits = {v1, v2, v3}
    Edits = {}
    MaxFaults = 0
    MaxClaims = 0
INVARIANTS
    CollisionGetsSuffix
CHECK_DEADLOCK FALSE
