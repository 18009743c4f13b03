SPECIFICATION Spec
CONSTANTS
    Processes = {p1, p2}
    Nobody = Nobody
    Logins = {r1, r2}
    NoLogin = NoLogin
    MaxFaults = 2
    MaxStops = 1
INVARIANTS
    TypeOK
    SchemaSound
PROPERTIES
    SchemaCompletes
    WritesMeetNoReader
    LoginsEnd
    StopsEnd
