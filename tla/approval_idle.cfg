SPECIFICATION FairSpec
CONSTANTS
    Items = {i1, i2}
    NoItem = none
    Keys = {k1}
    Tiers = {"trivial", "medium"}
    Runners = {agent}
    Execs = {}
    Repliers = {}
    MaxActions = 2
    Channel = TRUE
    Crashes = FALSE
PROPERTIES ApprovedRuns
