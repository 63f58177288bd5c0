SPECIFICATION Spec
CONSTANTS
    n1 = n1
    n2 = n2
    n3 = n3
    Server = {n1, n2, n3}
    Command = {}
    None = None
    ZeroId = ZeroId
    MaxBatch = 1
    OverflowChecks = TRUE
    LateResponses = FALSE
    RedundantRpcs = FALSE
    ServeBeforeRestore = FALSE
    AppSnapshots = FALSE
    Links <- FullMesh
    Elections <- TwoContenders
    MaxRestarts = 1
    Faulty = {n3}
SYMMETRY Symmetry
VIEW View
CHECK_DEADLOCK FALSE
INVARIANTS TypeOK HardStateSync OneVotePerTerm ElectionSafety LeaderHintTrue
PROPERTIES TermsNeverDecrease ImplementsElection
