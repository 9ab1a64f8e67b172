SPECIFICATION ApplicationFairSpec
CONSTANTS
    Processes = {p1, p2}
    Runners = {p1}
    InitialVersions <- SomeVersions
    WithMigration = TRUE
    MaxOpens = 2
    MaxStarts = 2
    MaxOutages = 1
INVARIANTS ApplicationTypeOK SchemaAgrees DatabaseOutlivesItsUsers NoRequestIsCut ReadyIsTrue ServesLatest
PROPERTIES ImplementsHistory ProcessEnds
