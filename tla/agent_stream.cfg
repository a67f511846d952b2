SPECIFICATION StreamFairSpec
CONSTANTS
    Requests = {s1, s2, p1}
    Streams = {s1, s2}
    Default = m0
    NoModel = none
    Asked = {none}
    Parallel = {s1}
    Workers = 1
    MaxEvents = 2
INVARIANTS
    OwnEventsShown
PROPERTIES
    StreamEnds
CHECK_DEADLOCK FALSE
