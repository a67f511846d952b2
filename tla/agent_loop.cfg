SPECIFICATION FairSpec
CONSTANTS
    Runs = {r1}
    Tools = {A, B}
    Args = {x, y}
    MaxTurns = 2
    MaxCalls = 2
    MaxContext = 4
    MaxSystem = 1
    MaxHistory = 1
    Guards = {"rust", "python"}
    Window = 4
    PollBudget = 2
    MaxContinuations = 2
INVARIANTS
    CallsAnswered
    LastTurnWhole
    IdenticalBounded
PROPERTIES
    RunEnds
CHECK_DEADLOCK FALSE
