SPECIFICATION Spec
CONSTANTS
    Posts = {}
    Immediates = {i1, i2}
    Streams = {}
    Clis = {}
    Sched = sched
    Messages = {m1, m2}
    Scheduled = FALSE
    Host = "server"
    MaxRetries = 2
    Budget = 0
    MaxStallRetries = 1
    StallTimeout = FALSE
    Env = {}
INVARIANTS TickExclusive
CHECK_DEADLOCK FALSE
