SPECIFICATION FairSpec
CONSTANTS
    Posts = {}
    Immediates = {}
    Streams = {}
    Clis = {}
    Sched = sched
    Messages = {m1}
    Scheduled = TRUE
    Host = "daemon"
    MaxRetries = 2
    Budget = 2
    MaxStallRetries = 1
    StallTimeout = TRUE
    Env = {"failure", "silence"}
INVARIANTS OverspendAtMostOneTick
PROPERTIES ScheduledAgentRuns
CHECK_DEADLOCK FALSE
