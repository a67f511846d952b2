SPECIFICATION Spec
CONSTANTS
    Posts = {}
    Immediates = {}
    Streams = {}
    Clis = {}
    Sched = sched
    Messages = {}
    Scheduled = TRUE
    Host = "server"
    MaxRetries = 2
    Budget = 0
    MaxStallRetries = 1
    StallTimeout = FALSE
    Env = {"operator"}
PROPERTIES PausedDoesNotFire
