SPECIFICATION FairSpec
CONSTANTS
    Items = {i1}
    NoItem = none
    Keys = {k1}
    Tiers = {"trivial", "low", "medium", "high"}
    Runners = {agent}
    Execs = {e1}
    Repliers = {r1}
    MaxActions = 2
    Channel = TRUE
    Crashes = TRUE
INVARIANTS RanWasConsented ProposedOnce
PROPERTIES NothingPendsForever KeepsPromise
