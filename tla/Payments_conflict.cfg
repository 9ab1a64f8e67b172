SPECIFICATION PaymentsSpec
CONSTANTS
    s1 = s1
    s2 = s2
    a1 = a1
    a2 = a2
    t1 = t1
    t2 = t2
    c1 = c1
    Satellites = {s1, s2}
    NoSatellite = NoSatellite
    NoBlock = NoBlock
    Requests = {r1, r2}
    Transfers = {t1, t2}
    Addresses = {a1, a2}
    Endpoints <- OneChain
    chainOf <- SameChain
    recipientOf <- Recipients
    ownerOf <- TwoOwners
    InitiallyClaimed = {a1, a2}
    Queried = {}
    From = {0}
    MaxHeight = 3
    Faults = {}
    MaxFaults = 0
    ReorgDepth = 0
    BlockBatchSize = 2
    AddressBatchSize = 1
    ChainReorgBuffer = 1
    MaximumQuerySize = 4
SYMMETRY Symmetry
INVARIANTS NothingIsLost
