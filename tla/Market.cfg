SPECIFICATION PartsSpec
CONSTANTS
    Guardians = {g1}
    Drivers = {d1}
    Renewal = 2
    MaxLease = 3
    MaxClock = 3
    MaxOwners = 3
    Parts = {"selection", "requests", "expiry", "evidence", "faulty", "trust", "publication", "policies", "refreshes", "enrolment", "pipeline", "allowance", "badges", "development", "authorizations"}
    Off = Off
    Rejected = Rejected
    Refused = Refused
    NotFound = NotFound
INVARIANTS LiquidityIsAccounted SelectionIsExact DirectoryIsCurrent VerificationIsSound
PROPERTIES EvidenceIsKept DirectoryAdvances AuthorizationsAdvance
CHECK_DEADLOCK FALSE
