SPECIFICATION FairSpec
CONSTANTS
    c1 = c1
    c2 = c2
    Requests = {r1, r2, r3}
    Chains = {c1, c2}
    Hashes = {h1}
    timestampOf <- Timestamps
    MaxTime = 2
    MaxFaults = 2
INVARIANTS TypeOK RefusedWasCached
PROPERTIES RetriesSucceed
