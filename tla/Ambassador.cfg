SPECIFICATION PartsSpec
CONSTANTS
    Parts = {"formation", "purchase", "lease", "dkg", "meta", "payer", "payers"}
    Off = Off
    Guardians = {g1, g2, g3}
    Drivers = {d1, d2}
    Renewal = 2
    MaxLease = 3
    MaxClock = 3
    MaxOwners = 3
    Rejected = Rejected
    Refused = Refused
    NotFound = NotFound
SYMMETRY Symmetry
INVARIANTS MoneyIsReachable PaymentsReconcile OneCeremony
PROPERTIES LeaseFences AdoptsOneWrite
CHECK_DEADLOCK FALSE
