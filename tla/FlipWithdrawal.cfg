SPECIFICATION PartsSpec
CONSTANTS
    Parts = {"withdrawals"}
    Off = Off
    MaxGen = 1
    MaxTxs = 1
    NoRow = NoRow
    Callers = {}
    Others = {}
INVARIANT WithdrawalsCovered
CHECK_DEADLOCK FALSE
