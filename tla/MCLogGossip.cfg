SPECIFICATION FairSpec
CONSTANTS
    Records = {1, 2}
    PageSize = 2
    Epochs = {1, 2}
    MaxSeq = 3
    MaxFaults <- EachFault
    MaxKinds = 2
    NoPage = NoPage
    Torn = Torn
    NoState = NoState
    Down = Down
    NoJob = NoJob
    NoCursor = NoCursor
INVARIANTS ReplicaFaithful CursorIndexed
PROPERTIES ConvergesWhole
CHECK_DEADLOCK FALSE
