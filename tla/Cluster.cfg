SPECIFICATION ClusterSpec
CONSTANTS
    n1 = n1
    n2 = n2
    Server = {n1, n2}
    Command = {c1, c2}
    None = None
    ZeroId = ZeroId
    MaxBatch = 1
    OverflowChecks = TRUE
    LateResponses = FALSE
    RedundantRpcs = FALSE
    ServeBeforeRestore = FALSE
    AppSnapshots = FALSE
    Links <- FullMesh
    Elections <- BackAndForth
    MaxRestarts = 0
    Faulty = {}
    Members <- N2First
    MaxFinds = 1
CHECK_DEADLOCK FALSE
PROPERTIES StableLeaderSettles PingsHarmless
