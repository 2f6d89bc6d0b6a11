SPECIFICATION LiveSpec
CONSTANTS
    Parts = {"move", "hooks", "outbox"}
    Off = Off
    Source = s1
    Pair = {p1, p2}
    Seats = {s1, s2}
    None = None
    Retirable = {s2}
    MaxRestores = 1
PROPERTIES MoveCompletes CallbackSettles AcceptedIsResolved
CHECK_DEADLOCK FALSE
