SPECIFICATION PaymentsFairSpec
CONSTANTS
    s1 = s1
    s2 = s2
    a1 = a1
    a2 = a2
    t1 = t1
    t2 = t2
    c1 = c1
    Satellites = {s1}
    NoSatellite = NoSatellite
    NoBlock = NoBlock
    Requests = {r1, r2}
    Transfers = {t1}
    Addresses = {a1, a2}
    Endpoints <- OneChain
    chainOf <- SameChain
    recipientOf <- Recipients
    ownerOf <- OneOwner
    InitiallyClaimed = {a1, a2}
    Queried = {a2}
    From = {0}
    MaxHeight = 2
    Faults = {"error", "crash", "conversion", "response"}
    MaxFaults = 2
    ReorgDepth = 0
    BlockBatchSize = 2
    AddressBatchSize = 1
    ChainReorgBuffer = 0
    MaximumQuerySize = 4
INVARIANTS PaymentsTypeOK NothingIsLost
PROPERTIES PaymentsAreDelivered RestartRecovers
