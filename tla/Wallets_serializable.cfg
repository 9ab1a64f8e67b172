SPECIFICATION Spec
CONSTANTS
    a1 = a1
    a2 = a2
    Addresses = {a1, a2}
    Satellites = {s1, s2}
    Requests = {r1, r2, r3}
    Ops = {"claim", "register", "stats", "list", "get"}
    Isolation = "Serializable"
    MaxAttempts = 2
    NoSatellite = NoSatellite
    NoRequest = NoRequest
    NoAddress = NoAddress
    Batches <- MCBatches
SYMMETRY Symmetry
INVARIANTS TypeOK UniqueClaim OneWalletPerRequest AnsweredClaimIsDurable ListHasHandedOut StatsNotNegative WalletInv
PROPERTIES WalletsAreStable BatchIsAtomic ImplementsPool
