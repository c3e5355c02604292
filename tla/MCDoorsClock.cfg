SPECIFICATION DoorsSpec
CONSTANTS
    MCSides = {"view"}
    Requests = {r1, r2, r3}
    Skew = 2
    MaxEntries = 2
    MaxTime = 7
    Unsigned = Unsigned
    NoEntry = NoEntry
    Members = {a, b}
    Threads = {t1}
    Offsets <- MCAgreeing
    Freshness = 2
    MaxRevision = 1
    LastTick = 4
    Never = Never
    NoRow = NoRow
PROPERTY AnsweredIsReady
