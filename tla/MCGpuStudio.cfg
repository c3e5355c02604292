SPECIFICATION FairSpec
CONSTANTS
    N = 2
    Boxes <- MCOneBox
    Launches <- MCOneBox
    Limit = 1
    MaxFaults = 1
    MaxRestarts = 1
INVARIANTS SparesQueued CompletedIsWhole
PROPERTIES JobsSettle UnmarkedBoxGoes
CHECK_DEADLOCK FALSE
