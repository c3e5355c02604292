SPECIFICATION DaemonSpec
CONSTANTS
    p1 = p1
    p2 = p2
    p3 = p3
    good = good
    bad = bad
    m1 = m1
    MCAges = {"start", "index", "doors"}
    Procs = {p1, p2, p3}
    Deployments <- MCHandOrUnit
    Mixed = FALSE
    MaxStarts = 5
    Free = Free
    Stale = Stale
    Local = {good, bad}
    Members = {m1}
    Unindexable = {bad}
    Doors = {"discover", "fixed", "disabled"}
    MayBreak = FALSE
    Loop = Loop
    Main = Main
INVARIANTS OneIdentity PathLeadsToDaemon ToldIsIndexed RefusedOnlyOverrun
PROPERTIES ShutdownEnds PeerDoorOpens
CHECK_DEADLOCK FALSE
