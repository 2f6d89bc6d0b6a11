SPECIFICATION PartsSpec
CONSTANTS
    Parts = {"funding", "capacity", "withdrawals", "stability", "admission", "setup"}
    Off = Off
    MaxGen = 2
    MaxTxs = 2
    NoRow = NoRow
    Callers = {}
    Others = {}
INVARIANTS FundedOnce SentOnce AcceptedIsCovered NoStaleCommit
CHECK_DEADLOCK FALSE
