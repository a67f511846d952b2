SPECIFICATION FairSpec
CONSTANTS
    NodeIds = {a, b, c, d}
    MaxEdges = 4
    MaxParallel = 2
INVARIANTS
    VerdictRight
    SeesEarlierStages
PROPERTIES
    KeepsPromise
    RunEnds
CHECK_DEADLOCK FALSE
