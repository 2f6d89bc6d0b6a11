SPECIFICATION PartsSpec
CONSTANTS
    Parts = {"requests", "scopes", "drain", "clients"}
    Off = Off
    Requests = {r1, r2}
    Destinations = {d1, d2}
    Scopes = {seat, pay}
    Guardians = {seat}
    Callers = {c1, c2}
    Queried = {pay}
    MaxOps = 2
    MaxClaims = 1
    None = None
SYMMETRY Symmetry
INVARIANTS DrainedWasTrue ClientsAreSound
PROPERTIES ImplementsPayOnce
CHECK_DEADLOCK FALSE
