SPECIFICATION MCSpec
CONSTANTS
    Agents <- MCAgents
    Cfg <- MCCfg
    Budget = 6
    Instructions = 1
    MaxLog = 6
    Kinds = {"text"}
    c1 = c1
    c2 = c2
    Calls = {c1, c2}
    MaxRaw = 3
    MaxTurns = 1
    Rebase = 3
SYMMETRY CallSymmetry
INVARIANTS
    NothingLost
    SubmittedIsWhole
    ClientSees
    TurnIsClosed
CHECK_DEADLOCK FALSE
