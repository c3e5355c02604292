SPECIFICATION FairSpec
CONSTANTS
    N = 2
    Boxes <- MCOneBox
    Launches <- MCOneBox
    Limit = 1
    MaxFaults = 0
    MaxRestarts = 0
PROPERTY IdleBoxGoes
CHECK_DEADLOCK FALSE
