SPECIFICATION Spec
CONSTANTS
    Requests = {r1, r2}
    Minute = 3
    PriceWindow = 3
    Retain = 3
    MaxTime = 5
SYMMETRY Symmetry
INVARIANTS TypeOK WindowHonoured PriceInv
