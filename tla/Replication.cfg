SPECIFICATION Spec
CONSTANTS
    n1 = n1
    n2 = n2
    n3 = n3
    Server = {n1, n2, n3}
    Command = {c1, c2, c3}
    None = None
    ZeroId = ZeroId
    MaxBatch = 3
    OverflowChecks = TRUE
    LateResponses = FALSE
    RedundantRpcs = FALSE
    ServeBeforeRestore = FALSE
    AppSnapshots = FALSE
    Links <- Chain
    Elections <- Alternating
    MaxRestarts = 0
    Faulty = {}
SYMMETRY Symmetry
VIEW View
CHECK_DEADLOCK FALSE
INVARIANTS LogMatching MatchIndexSound LeaderCompleteness CommittedOnQuorum CommittedOnce StateMachineSafety AppliedInOrder SearchFindsFirst
PROPERTIES LeaderAppendOnly
