SPECIFICATION Spec
CONSTANTS
    Posts = {}
    Immediates = {i1}
    Streams = {s1}
    Clis = {c1}
    Sched = sched
    Messages = {m1}
    Scheduled = TRUE
    Host = "server"
    MaxRetries = 2
    Budget = 0
    MaxStallRetries = 1
    StallTimeout = TRUE
    Env = {"operator", "crash", "failure", "interrupt", "unguarded"}
INVARIANTS RunningIsOwned DeliveredWasPrompted
PROPERTIES AnsweredOnce
