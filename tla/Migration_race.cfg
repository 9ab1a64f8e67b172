SPECIFICATION Spec
CONSTANTS
    Processes = {p1, p2}
    InitialVersions <- SomeVersions
    MaxOpens = 2
    MaxStarts = 2
INVARIANTS MigratedIsLatest
