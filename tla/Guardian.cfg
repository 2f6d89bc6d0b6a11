SPECIFICATION PartsSpec
CONSTANTS
    Parts = {"admission", "seat", "hooks", "claims", "terms", "leases", "composer", "ports"}
    Off = Off
    Quotes = {q1, q2, q3}
    Calls = {a, b}
    Prices <- MCPrices
    Federations = {f1}
    Limits <- MCLimits
    PortBlocks = 2
    MaxEpoch = 2
    NoPrice = NoPrice
    NoLimit = NoLimit
    NoFederation = NoFederation
    Idle = Idle
SYMMETRY Symmetry
INVARIANTS TypeOK CurrentQuoteHasSlot SettledOnce Supervised RecordedIsTrue EnvironmentIsOrderly
CHECK_DEADLOCK FALSE
