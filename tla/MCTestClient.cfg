SPECIFICATION Spec
CONSTANTS
    home = home
    away = away
    Second = 2
    Tests = {t1, t2}
    NoTest = NoTest
    Callbacks = {b1, b2}
    Codes = {c1, c2}
    NoCode = NoCode
    Servers = {home, away}
    NoServer = NoServer
    Documents <- MCDocuments
    NoDocument = NoDocument
    Pages <- MCPages
    AuthRequestTTL = 1
    MaxTime = 3
    MaxFaults = 1
SYMMETRY Symmetry
INVARIANTS
    TypeOK
    CodeGoesHome
    AnsweredIsOver
PROPERTIES
    AcceptedInTime
CHECK_DEADLOCK FALSE
