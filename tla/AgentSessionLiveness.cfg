SPECIFICATION FairSpec
CONSTANTS
    j1 = j1  j2 = j2  m1 = m1  m2 = m2
    d1 = d1  d2 = d2  d3 = d3  cso = cso  cae = cae
    NoOne = NoOne
    Ntf = {j1, m1}
    Jobs = {j1}
    Instances = {cso}
    Drivers = {d1, d2, d3}
    MaxRelaunch = 1
    MaxTurns = 2
    MaxFaults = 1
    MaxCrashes = 0
PROPERTIES
    EverythingSettles
    StopsReturn
CHECK_DEADLOCK FALSE
