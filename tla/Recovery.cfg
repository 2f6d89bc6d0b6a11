SPECIFICATION PartsSpec
CONSTANTS
    Parts = {"transfer", "backup", "ambassador", "refresh"}
    Off = Off
    Source = s1
    Pair = {p1, p2}
    Seats = {s1, s2, s3}
    None = None
    Retirable = {s3}
    MaxRestores = 1
SYMMETRY Symmetry
INVARIANTS OneGuardian ConfirmedSurvives BackupsSupersede
CHECK_DEADLOCK FALSE
