SPECIFICATION MCSpec
CONSTANTS
    \* two rows, one main and one subagent instance, and two bulk
    \* cancellations in flight
    n1 = n1  n2 = n2  main = main  sub = sub
    Ntf = {n1, n2}
    Instances = {main, sub}
    Main = {main}
    Cancels = {"c", "d"}
    \* two asset identities
    x = x  y = y
    Idents = {x, y}
    None = None
    MaxAssets = 2
    MaxEdges = 1
    MaxSteps = 1
    MaxFindings = 1
SYMMETRY MCSymmetry
INVARIANTS
    TypeOK
    StartedMeansClaimed
    InterruptSparesFresh
    RecordsAreSound
    VerdictIsSound
PROPERTIES
    NeverReopened
CHECK_DEADLOCK FALSE
