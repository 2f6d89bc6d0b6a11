SPECIFICATION PartsSpec
CONSTANTS
    Parts = {"backup"}
    Off = Off
    Source = s1
    Pair = {p1, p2}
    Seats = {s1, s2, s3}
    None = None
    Retirable = {s3}
    MaxRestores = 1
SYMMETRY Symmetry
INVARIANT ConfirmedIsRestorable
CHECK_DEADLOCK FALSE
