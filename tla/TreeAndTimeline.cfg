SPECIFICATION MCSpec
CONSTANTS
    s1 = s1  s2 = s2  root = root
    Ntf <- MCRuns
    Instances <- MCInstances
    Root = root
    MaxRelaunch = 1
    MaxCancels = 1
    MaxAlls = 1
    MaxCrashes = 1
    MaxTroubles = 2
    MaxInc = 2
    MaxEvents = 2
    MaxFaults = 1
    MaxOpen = 1
SYMMETRY MCSymmetry
INVARIANTS
    OwedIsHeard
    RunsAreSettled
    AcceptedIsKept
    PagesAreSound
PROPERTIES
    EvictionSparesHolders
CHECK_DEADLOCK FALSE
