SPECIFICATION TimedSpec
CONSTANTS
    Server = {n1, n2}
    Command = {c1}
    None = None
    ZeroId = ZeroId
    MaxBatch = 1
    OverflowChecks = TRUE
    LateResponses = TRUE
    RedundantRpcs = FALSE
    ServeBeforeRestore = FALSE
    AppSnapshots = FALSE
    Links <- FullMesh
    Elections <- AllElections
    MaxTerm = 4
    MaxRestarts = 0
    Faulty = {}
    heartbeat_interval = 1
    election_timeout_min = 3
    election_timeout_max = 6
SYMMETRY Symmetry
VIEW View
CHECK_DEADLOCK FALSE
PROPERTIES StandsOnlyUnheard
