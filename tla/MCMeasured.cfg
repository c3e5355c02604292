SPECIFICATION Spec
CONSTANTS
    v1 = v1
    m1 = m1
    cut = cut
    new = new
    rev = rev
    a1 = a1
    a2 = a2
    b = b
    c = c
    fa = fa
    fb = fb
    fc = fc
    pip = pip
    cmake = cmake
    moved = moved
    i1 = i1
    i2 = i2
    t1 = t1
    t2 = t2
    s1 = s1
    w1 = w1
    e1 = e1
    r1 = r1
    r2 = r2
    AtWork = {"sweep", "flights", "one_shot", "probe", "claims"}
    ModelOf <- MCModelOf
    Pin <- MCPin
    Truncated = {cut}
    NoRevision = NoRevision
    Torn = Torn
    Quantisations <- MCQuantisations
    Steps <- MCSteps
    Subjects = {v1, m1, cut, new}
    MaxJobs = 3
    MaxNights = 3
    Plan <- MCPlan
    ModelFile <- MCModelFile
    RuntimeOf <- MCRuntimeOf
    NeedsDir = {cmake}
    Unpinned = {c}
    NeedsGate3 = {b}
    Watching = {TRUE, FALSE}
    NoRuntime = NoRuntime
    MaxFlyNights = 2
    MaxDate = 2
    Requests = {r1, r2}
    Doors = {"image", "speech", "transcribe", "text", "daemon", "chat", "stream", "dry_run", "embeddings", "claude", "claude_stream"}
    Workload <- MCWorkload
    Served = {t1, e1}
    Need <- MCNeed
    Profiles <- MCProfiles
    Sources <- MCSources
    MinUsable = 7
    Claims = 2
    Verifiers = 2
    Pools <- MCPools
    Floor = 3
    Revisions = {rev, moved}
    Remote = Remote
    Unmeasured = Unmeasured
    NoWeights = NoWeights
    ByPath = ByPath
    Nobody = Nobody
    MaxMoves = 1
INVARIANTS CallsRestOnPages NameAndMemoryOfOneCard CompletedIsWhole LosesOnlyInFlight SkipsExactlyBlocked SpeedIsEarned AnswerIsOnRecord RunnerGoesWithRequest
PROPERTIES MeasuredOnce
CHECK_DEADLOCK FALSE
