SPECIFICATION Spec
CONSTANTS
    n1 = n1
    n2 = n2
    n3 = n3
    Server = {n1, n2, n3}
    Command = {c1, c2}
    None = None
    ZeroId = ZeroId
    MaxBatch = 2
    OverflowChecks = TRUE
    LateResponses = FALSE
    RedundantRpcs = FALSE
    ServeBeforeRestore = FALSE
    AppSnapshots = TRUE
    Links <- Chain
    Elections <- MiddleFirst
    MaxRestarts = 0
    Faulty = {}
SYMMETRY Symmetry
VIEW View
CHECK_DEADLOCK FALSE
INVARIANTS StoresAligned CommitWithinLog LeaderCompleteness CommittedOnQuorum AppliedWithinCommit SearchFindsFirst
PROPERTIES CommitNeverRegresses ImplementsStorage

