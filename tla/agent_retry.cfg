SPECIFICATION Spec
CONSTANTS
    Posts = {p1}
    Immediates = {}
    Streams = {}
    Clis = {}
    Sched = sched
    Messages = {m1}
    Scheduled = FALSE
    Host = "server"
    MaxRetries = 2
    Budget = 0
    MaxStallRetries = 1
    StallTimeout = FALSE
    Env = {"failure"}
PROPERTIES RetryKeepsMessages
