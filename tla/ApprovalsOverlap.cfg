SPECIFICATION Spec
CONSTANTS
    c1 = c1  c2 = c2  act = act
    Calls = {c1, c2}
    Actions = {act}
    MaxGen = 1
    MaxCalls = 4
SYMMETRY MCSymmetry
INVARIANTS
    OneTimeConsumption
CHECK_DEADLOCK FALSE
