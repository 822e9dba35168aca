SPECIFICATION MCSpec
CONSTANTS
    c1 = c1  c2 = c2  a1 = a1
    Calls = {c1, c2}
    Actions = {a1}
    MaxGen = 3
    MaxCalls = 6
    ToolCalls = {"t1", "t2"}
    ToolsOf <- ToolsOfCalls
    Scopes <- OneScope
    Hosts <- TwoHosts
    Sites = {"a", "b"}
    JobLimit = 1
    MaxAlways = 1
    MaxEdits = 1
    t1 = t1
    Submits = {t1}
    MaxBox = 2
    MaxBoxOps = 3
    w1 = w1  w2 = w2  r1 = r1  x1 = x1  x2 = x2
    Empty = Empty
    Writers = {w1, w2}
    MaxDeletes = 1
    MaxUpsets = 2
    Runs = {r1}
    Cancels = {x1, x2}
    SockKinds = {"host", "workspace", "desktop", "events"}
    MaxOut = 2
    MaxIn = 2
    IdLimit <- IdsOfTables
    MaxWs = 1
    MaxOps = 2
    Endpoints = {"a", "b"}
    HostKeySet = {"k1", "k2"}
    MaxMoves = 3
    MaxVersion = 2
    MaxMatches = 2
    TTL = 2
    MaxClock = 4

INVARIANTS
    ServicesTypeOK
    CarriedWasApproved
    ActedIsAuthorized
    BindingIsGrounded
    CanceledIsQuiet
    FilesAreSafe
    RunsHaveTheirProcess
    HandlerCleansUp
    InventoryIsSound
    PeersAreChecked
    DiscoveryIsSound
CHECK_DEADLOCK FALSE
