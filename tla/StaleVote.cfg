SPECIFICATION SlowSpec
CONSTANTS
    n1 = n1
    n2 = n2
    n3 = n3
    Server = {n1, n2, n3}
    Command = {}
    None = None
    ZeroId = ZeroId
    MaxBatch = 1
    OverflowChecks = TRUE
    LateResponses = TRUE
    RedundantRpcs = FALSE
    ServeBeforeRestore = FALSE
    AppSnapshots = FALSE
    Links <- Chain
    Elections <- AllElections
    MaxTerm = 2
    MaxRestarts = 0
    Faulty = {}
    heartbeat_interval = 1
    election_timeout_min = 3
    election_timeout_max = 6
    vote_wait = 3
SYMMETRY Symmetry
VIEW View
CHECK_DEADLOCK FALSE
INVARIANTS ElectionSafety
