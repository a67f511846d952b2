SPECIFICATION Spec
CONSTANTS
    Runs = {r1}
    Tools = {A, B}
    Args = {x, y}
    MaxTurns = 3
    MaxCalls = 1
    MaxContext = 5
    MaxSystem = 1
    MaxHistory = 0
    Guards = {"rust"}
    Window = 4
    PollBudget = 1
    MaxContinuations = 0
INVARIANTS
    PollBlocksSecond
CHECK_DEADLOCK FALSE
