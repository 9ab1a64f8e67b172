SPECIFICATION Spec
CONSTANTS
    a1 = a1
    a2 = a2
    Addresses = {a1, a2}
    Satellites = {s1}
    Requests = {r1, r2, r3}
    Ops = {"claim", "register"}
    Isolation = "ReadCommitted"
    MaxAttempts = 2
    NoSatellite = NoSatellite
    NoRequest = NoRequest
    NoAddress = NoAddress
    Batches <- MCBatches
INVARIANTS UniqueClaim
