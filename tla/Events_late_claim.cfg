SPECIFICATION Spec
CONSTANTS
    s1 = s1
    a1 = a1
    a2 = a2
    t1 = t1
    t2 = t2
    c1 = c1
    c2 = c2
    Satellites = {s1}
    NoSatellite = NoSatellite
    NoBlock = NoBlock
    Requests = {r1}
    Transfers = {t1}
    Addresses = {a1}
    Endpoints <- OneChain
    chainOf <- SameChain
    recipientOf <- Recipients
    ownerOf <- OneOwner
    InitiallyClaimed = {}
    Queried = {}
    From = {0}
    MaxHeight = 3
    Faults = {}
    MaxFaults = 0
    ReorgDepth = 1
    BlockBatchSize = 2
    AddressBatchSize = 1
    ChainReorgBuffer = 1
    MaximumQuerySize = 4
INVARIANTS NothingIsSkipped
