SPECIFICATION Spec
CONSTANTS
    s1 = s1
    a1 = a1
    a2 = a2
    t1 = t1
    t2 = t2
    c1 = c1
    c2 = c2
    Satellites = {s1}
    NoSatellite = NoSatellite
    NoBlock = NoBlock
    Requests = {r1, r2}
    Transfers = {t1}
    Addresses = {a1, a2}
    Endpoints <- OneChain
    chainOf <- SameChain
    recipientOf <- Recipients
    ownerOf <- OneOwner
    InitiallyClaimed = {a1}
    Queried = {}
    From = {0, 1}
    MaxHeight = 3
    Faults = {"reorg", "error", "crash"}
    MaxFaults = 2
    ReorgDepth = 1
    BlockBatchSize = 2
    AddressBatchSize = 1
    ChainReorgBuffer = 1
    MaximumQuerySize = 2
SYMMETRY Symmetry
INVARIANTS NothingIsSkipped
