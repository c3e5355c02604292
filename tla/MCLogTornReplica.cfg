SPECIFICATION FairSpec
CONSTANTS
    Records = {1, 2}
    PageSize = 1
    Epochs = {1}
    MaxSeq = 3
    MaxFaults <- TornReplicaFault
    MaxKinds = 2
    NoPage = NoPage
    Torn = Torn
    NoState = NoState
    Down = Down
    NoJob = NoJob
    NoCursor = NoCursor
PROPERTIES Converges
CHECK_DEADLOCK FALSE
