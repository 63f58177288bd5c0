SPECIFICATION FairSpec
CONSTANTS
    n1 = n1
    n2 = n2
    n3 = n3
    Server = {n1}
    Command = {c1, c2, c3}
    None = None
    ZeroId = ZeroId
    MaxBatch = 1
    OverflowChecks = TRUE
    LateResponses = FALSE
    RedundantRpcs = FALSE
    ServeBeforeRestore = FALSE
    AppSnapshots = TRUE
    Links <- FullMesh
    Elections <- ThreeTerms
    MaxRestarts = 2
    Faulty = {n1}
CHECK_DEADLOCK FALSE
INVARIANTS AckedIsCommitted
PROPERTIES AloneServes
