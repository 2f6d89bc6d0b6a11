SPECIFICATION PartsSpec
CONSTANTS
    Parts = {"generations", "backup", "mode", "advertisement", "readvertisement", "clients"}
    Off = Off
    MaxGen = 1
    MaxTxs = 1
    NoRow = NoRow
    Callers = {c1, c2}
    Others = {r1, r2}
SYMMETRY Symmetry
INVARIANTS NoTornState AdvertisedAsTold PoolIsSound
CHECK_DEADLOCK FALSE
