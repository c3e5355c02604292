SPECIFICATION DoorsAddSpec
CONSTANTS
    MCSides = {"overlap"}
    Requests = {r1, r2, r3}
    Skew = 2
    MaxEntries = 2
    MaxTime = 7
    Unsigned = Unsigned
    NoEntry = NoEntry
    Members = {a, b}
    Threads = {t1, t2}
    Offsets <- MCAgreeing
    Freshness = 2
    MaxRevision = 2
    LastTick = 4
    Never = Never
    NoRow = NoRow
INVARIANT NewestIsAccepted
