SPECIFICATION FairSpec
CONSTANTS
    Posts = {p1, p2, p3}
    Immediates = {}
    Streams = {}
    Clis = {}
    Sched = sched
    Messages = {m1, m2}
    Scheduled = FALSE
    Host = "server"
    MaxRetries = 2
    Budget = 0
    MaxStallRetries = 1
    StallTimeout = FALSE
    Env = {"crash"}
INVARIANTS TickExclusive
PROPERTIES RunningEnds KeepsPromise
