SPECIFICATION FleetSideSpec
SYMMETRY MCSymmetry
CONSTANTS
    m1 = m1
    m2 = m2
    m3 = m3
    k1 = k1
    k2 = k2
    k3 = k3
    Machines = {m1, m2}
    Keys = {k1, k2, k3}
    FirstKey <- MCFirstKey
    Fleets = {f1, f2}
    Names = {ship}
    Rates = {none, rate}
    NoRates = none
    MaxVersion = 4
    MaxInHand = 3
    NoOrders = NoOrders
    MCSides = {"orders", "replay", "view", "overlap"}
    Requests = {r1, r2, r3}
    Skew = 2
    MaxEntries = 2
    MaxTime = 7
    Unsigned = Unsigned
    NoEntry = NoEntry
    Members = {a, b}
    Threads = {t1, t2}
    Offsets <- MCAnyOffset
    Freshness = 1
    MaxRevision = 3
    LastTick = 3
    Never = Never
    NoRow = NoRow
INVARIANTS NoFork HelmHoldsLatest BindingsPermanent AcceptedOnce RecordedUnlessCrossed ShownReadyIsFresh
PROPERTIES NoRollback ImplementsLedger
CHECK_DEADLOCK FALSE
