SPECIFICATION DaemonSpec
CONSTANTS
    p1 = p1
    p2 = p2
    p3 = p3
    good = good
    bad = bad
    m1 = m1
    MCAges = {"start"}
    Procs = {p1, p2}
    Deployments <- MCUnit
    Mixed = TRUE
    MaxStarts = 3
    Free = Free
    Stale = Stale
    Local = {good, bad}
    Members = {m1}
    Unindexable = {bad}
    Doors = {"discover", "fixed", "disabled"}
    MayBreak = FALSE
    Loop = Loop
    Main = Main
INVARIANT OneDaemon
CHECK_DEADLOCK FALSE
