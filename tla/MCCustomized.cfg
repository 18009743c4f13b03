SPECIFICATION Spec
CONSTANTS
    ann = ann
    bea = bea
    Second = 1
    Plain = {"a", "b", "r", "u", "1", "2"}
    Separators = {"-"}
    Blanks = {" "}
    Others = {"!"}
    Dash = "-"
    MaxLength = 5
    UserPrefix <- MCUserPrefix
    Reserved <- MCReserved
    Suffix <- MCSuffix
    Users = {ann}
    Names = {"old", "new"}
    Styles = {"plain", "own"}
    PlainStyle = "plain"
    Claims <- LongClaims
    Visits = {v1, v2}
    Edits = {e1}
    MaxFaults = 0
    MaxClaims = 1
PROPERTIES
    CustomizationKept
CHECK_DEADLOCK FALSE
