SPECIFICATION FairSpec
CONSTANTS
    r1 = r1  r2 = r2  k = k
    NoOne = NoOne
    Requests = {r1, r2}
    Keys = {k}
    KeyOf <- MCKeyOf
    MaxSwitches = 2
    MaxSaves = 1
INVARIANTS
    TypeOK
    GrantIsGrounded
    PendingIsWaiting
    SwitchedNeverWaits
PROPERTIES
    EveryRequestEnds
CHECK_DEADLOCK FALSE
