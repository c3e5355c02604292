SPECIFICATION GossipSpec
CONSTANTS
    Records = {1, 2}
    PageSize = 1
    Epochs = {1, 2}
    MaxSeq = 2
    MaxFaults <- LostStateFault
    MaxKinds = 2
    NoPage = NoPage
    Torn = Torn
    NoState = NoState
    Down = Down
    NoJob = NoJob
    NoCursor = NoCursor
INVARIANTS NoSkip
CHECK_DEADLOCK FALSE
