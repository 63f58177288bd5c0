SPECIFICATION Spec
CONSTANTS
    n1 = n1
    n2 = n2
    n3 = n3
    Server = {n1, n2, n3}
    Command = {c1, c2}
    None = None
    ZeroId = ZeroId
    MaxBatch = 1
    OverflowChecks = TRUE
    LateResponses = FALSE
    RedundantRpcs = FALSE
    ServeBeforeRestore = FALSE
    AppSnapshots = FALSE
    Links <- Chain
    Elections <- BackAndForth
    MaxRestarts = 0
    Faulty = {}
SYMMETRY Symmetry
VIEW View
CHECK_DEADLOCK FALSE
INVARIANT AckedIsCommitted

