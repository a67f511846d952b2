SPECIFICATION StreamSpec
CONSTANTS
    Requests = {s1, s2, p1}
    Streams = {s1, s2}
    Default = m0
    NoModel = none
    Asked = {m1}
    Parallel = {s1}
    Workers = 2
    MaxEvents = 0
INVARIANTS
    OverrideEnds
CHECK_DEADLOCK FALSE
