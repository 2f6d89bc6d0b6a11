SPECIFICATION PartsSpec
CONSTANTS
    Parts = {"rolling", "rotation", "targets", "places", "archive", "gaps", "metrics", "restarts", "leases", "policy"}
    Off = Off
    Torn = Torn
    NoKey = NoKey
    Tokens = {t1, t2}
    Devices = {d1, d2, d3}
    NoToken = NoToken
INVARIANTS ArchiveIsFaithful ExpositionIsCurrent
PROPERTIES PollsAreFenced
CHECK_DEADLOCK FALSE
