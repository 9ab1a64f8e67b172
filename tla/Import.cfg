SPECIFICATION ImportFairSpec
CONSTANTS
    a0 = a0
    a1 = a1
    a2 = a2
    Addresses = {a0, a1, a2}
    Satellites = {s1}
    Requests = {r1, r2, r3}
    Ops = {"claim", "register", "stats"}
    Isolation = "ReadCommitted"
    MaxAttempts = 2
    NoSatellite = NoSatellite
    NoRequest = NoRequest
    NoAddress = NoAddress
    Batches = {}
    derived <- ThreeIndexes
    ranges <- LastTwo
INVARIANTS ImportTypeOK ReportedAreRegistered OwnersGenerated
PROPERTIES WalletsAreStable BatchIsAtomic EveryRequestEnds
