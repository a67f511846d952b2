SPECIFICATION FairSpec
CONSTANTS
    Names = {n1, n2}
    Autonomies = {"manual", "tiered", "auto"}
    MaxEdits = 2
    MaxTurns = 2
    MaxCost = 1
    CallCost = 1
    MaxScore = 1
    Stagnation = 2
    Budget = 2
INVARIANTS
    OnlyPermittedChanges
    ReviewIsQueued
    OvershootBounded
PROPERTIES
    SearchEnds
CHECK_DEADLOCK FALSE
