SPECIFICATION Spec
CONSTANTS
    python = python
    cv = cv
    lib = lib
    old = old
    new = new
    iso = iso
    late = late
    aged = aged
    scr = scr
    kokoro = kokoro
    alias = alias
    qwen = qwen
    pinned = pinned
    loose = loose
    v1 = v1
    v2 = v2
    MCParts = {"installs", "workers", "downloads", "audio", "plates", "status", "config", "shell"}
    Pythons = {python}
    NoPython = NoPython
    Packages = {cv, lib}
    Versions = {0, 1, 2}
    Method <- MCMethod
    Main <- MCMain
    Needs <- MCNeeds
    MinVersion <- MCMinVersion
    Supports <- MCSupports
    Broken = {}
    External = {}
    Elsewhere <- MCElsewhere
    Override = NoPython
    PythonBin = NoPython
    Console = python
    Own <- MCOwn
    Uv = {}
    Doors = {"route", "mcp"}
    Jobs = {1, 2}
    Drivers = {kokoro, alias, qwen}
    Size <- MCSize
    Sessions = {qwen}
    NeedsGpu = {}
    Accelerator = FALSE
    Unlimited = Unlimited
    Budgets <- MCBudgets
    Requests = {q1, q2}
    Copies = 3
    Nothing = Nothing
    Recipes = {pinned, loose}
    Patterns <- MCPatterns
    Pin <- MCPin
    Revisions = {v1, v2}
    Unpinned = Unpinned
    NoDownload = NoDownload
    Tasks = {1, 2}
    Tracks = {j1, j2, j3}
    NoTrack = NoTrack
    Videos = {TRUE, FALSE}
    Renders = {w1, w2, w3}
    Tabs = {t1, t2}
    Ttl = 2
    MaxClock = 7
    Typed = {typed}
    Mask = Mask
    Default = Default
    Malformed = Malformed
    NoNumber = NoNumber
    LocalOnly = TRUE
    Nobody = Nobody
INVARIANTS HalfIsInTheMaking MasksStayOut ShellGoesWithSocket CompletedWorks UncountedIsInUse CompletedIsThere CompletedTrackIsWhole
PROPERTIES OneQueryPerTtl NoSilentDowngrade LoadFits
CHECK_DEADLOCK FALSE
