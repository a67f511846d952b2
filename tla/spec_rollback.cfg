SPECIFICATION Spec
CONSTANTS
    Names = {n1}
    Autonomies = {"tiered"}
    MaxEdits = 2
    MaxTurns = 1
    MaxCost = 1
    CallCost = 1
    MaxScore = 2
    Stagnation = 2
    Budget = 2
INVARIANTS
    RejectedRollsBack
CHECK_DEADLOCK FALSE
